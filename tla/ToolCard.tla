------------------------------ MODULE ToolCard ------------------------------
(***************************************************************************)
(* One tool call in an assistant's message: its group, its card and the    *)
(* prompt that asks for an approval (tool-group.tsx, tool-fallback.tsx).   *)
(* A group is a disclosure around the card and the card one around the     *)
(* prompt; what a disclosure hides is unmounted when its closing animation *)
(* is over, and loses its state.  The call itself is the host's: it asks,  *)
(* relists, decides and ends on its own.                                   *)
(***************************************************************************)
EXTENDS Naturals, FiniteSets

CONSTANTS
  DeclaredLists,  \* sets of options a host may declare
  MaxShowings,    \* bound: prompts mounted
  MaxHostSteps,   \* bound: steps of the host
  NoList, Nothing

ASSUME ToolCardAssumption ==
  /\ \A list \in DeclaredLists : \A o \in list : DOMAIN o = {"id", "kind", "confirm"}
  /\ NoList \notin DeclaredLists
  /\ Nothing \notin [open : BOOLEAN, prev : BOOLEAN, mounted : BOOLEAN]
  /\ Nothing \notin [submitted : BOOLEAN,
                     confirming : {o.id : o \in UNION DeclaredLists} \cup {Nothing}]
  /\ {MaxShowings, MaxHostSteps} \subseteq Nat

VARIABLES
  call,     \* the host's: [status, way, declared, decided, args]
  group,    \* disclosure around the card: [open, mounted]
  card,     \* [open, prev, mounted]: mounted says whether its content is
  prompt,   \* [submitted, confirming], or Nothing when not mounted
  showing,  \* how many prompts were mounted
  answers,  \* what the host was told
  hostSteps

toolVars == <<call, group, card, prompt, showing, answers, hostSteps>>

AllowKinds == {"allow-once", "allow-always"}
KnownKinds == AllowKinds \cup {"reject-once", "reject-always"}

Asks == call.status = "requires-action"

Fresh == [submitted |-> FALSE, confirming |-> Nothing]
NewCard == [open |-> Asks, prev |-> Asks, mounted |-> Asks]

\* What the content of the card is made of (ToolFallbackImpl): the result is
\* left out of a cancelled call, and an error is shown of one that is incomplete.
HasArguments(c) == c.args  \* the text of its arguments has begun to come
HasResult(c) == c.status = "complete"
Incomplete(c) == c.status \in {"error", "cancelled"}
Content(c) ==
  {s \in {"error", "arguments", "approval", "result"} :
    CASE s = "arguments" -> HasArguments(c)
      [] s = "error" -> Incomplete(c)
      [] s = "approval" -> c.status = "requires-action"
      [] s = "result" -> HasResult(c)}

ToolTypeOK ==
  /\ call.status \in {"running", "requires-action", "complete", "error", "cancelled"}
  /\ call.way \in {"approval", "interrupt", "result"}
  /\ call.declared \in DeclaredLists \cup {NoList}
  /\ call.decided \in BOOLEAN /\ call.args \in BOOLEAN
  /\ group.open => group.mounted
  /\ card # Nothing <=> group.mounted
  /\ card # Nothing => (card.open => card.mounted) /\ card.prev = Asks
  /\ prompt # Nothing <=> card # Nothing /\ card.mounted /\ "approval" \in Content(call)
  /\ showing \in 0..MaxShowings /\ hostSteps \in 0..MaxHostSteps

ToolInit ==
  /\ call = [status |-> "running", way |-> "result", declared |-> NoList, decided |-> FALSE,
             args |-> FALSE]
  /\ group = [open |-> FALSE, mounted |-> FALSE]
  /\ card = Nothing /\ prompt = Nothing
  /\ showing = 0 /\ answers = {} /\ hostSteps = 0

\* A prompt appears, stays as it is or goes with what is around it.
Prompted(mounted) ==
  IF ~(mounted /\ "approval" \in Content(call')) THEN prompt' = Nothing /\ UNCHANGED showing
  ELSE IF prompt # Nothing THEN UNCHANGED <<prompt, showing>>
  ELSE showing < MaxShowings /\ prompt' = Fresh /\ showing' = showing + 1

(***************************************************************************)
(* The disclosures.                                                        *)
(***************************************************************************)
Folded(d) == d.mounted /\ ~d.open
Toggled(d) == [d EXCEPT !.open = ~d.open, !.mounted = TRUE]

ToggleGroup ==
  /\ group' = Toggled(group)
  /\ card' = IF group.mounted THEN card ELSE NewCard
  /\ UNCHANGED <<call, answers, hostSteps>>
  /\ Prompted(card'.mounted)

ToggleCard ==
  /\ group.open
  /\ card' = Toggled(card)
  /\ UNCHANGED <<call, group, answers, hostSteps>>
  /\ Prompted(TRUE)

\* The closing animation is over.
GroupGone ==
  /\ Folded(group)
  /\ group' = [group EXCEPT !.mounted = FALSE]
  /\ card' = Nothing /\ prompt' = Nothing
  /\ UNCHANGED <<call, showing, answers, hostSteps>>

CardGone ==
  /\ card # Nothing /\ Folded(card)
  /\ card' = [card EXCEPT !.mounted = FALSE]
  /\ prompt' = Nothing
  /\ UNCHANGED <<call, group, showing, answers, hostSteps>>

(***************************************************************************)
(* The prompt.                                                             *)
(***************************************************************************)
Declared == IF call.way = "approval" THEN call.declared ELSE NoList
Options == IF Declared = NoList THEN {} ELSE {o \in Declared : o.kind \in KnownKinds}
Rejects == {o \in Options : o.kind \notin AllowKinds}
Confirming == {o \in Options : o.id = prompt.confirming}

PromptVisible == prompt # Nothing /\ group.open /\ card.open /\ ~call.decided

\* Variant: a list of options the kit does not know taken for no list.
Buttons_byKnown ==
  IF Confirming # {} THEN {<<"confirm", o>> : o \in Confirming} \cup {<<"back">>}
  ELSE IF Options # {}
       THEN {<<"option", o>> : o \in Options}
            \cup (IF Rejects = {} THEN {<<"deny">>} ELSE {})
       ELSE {<<"allow">>, <<"deny">>}

\* The buttons a visible prompt offers.
Buttons ==
  IF Confirming # {} THEN {<<"confirm", o>> : o \in Confirming} \cup {<<"back">>}
  ELSE IF Declared \notin {NoList, {}}
       THEN {<<"option", o>> : o \in Options}
            \cup (IF Rejects = {} THEN {<<"deny">>} ELSE {})
       ELSE {<<"allow">>, <<"deny">>}

\* A click that is not on a disabled button.
Pressed(button) == PromptVisible /\ ~prompt.submitted /\ button \in Buttons

NewAnswer(answer) ==
  [answer |-> answer, showing |-> showing, nth |-> Cardinality(answers),
   declared |-> Declared, confirmed |-> Confirming # {}]

Told(answer) ==
  /\ answers' = answers \cup {NewAnswer(answer)}
  /\ UNCHANGED <<call, group, card, showing, hostSteps>>

\* Variant: the buttons are not disabled by an answer.
Submitted_never == UNCHANGED prompt

Submitted == prompt' = [prompt EXCEPT !.submitted = TRUE]

\* respondToApproval, resume or addResult, whichever the call takes.
Respond(approved) ==
  /\ Pressed(IF approved THEN <<"allow">> ELSE <<"deny">>)
  /\ Told([approved |-> approved, via |-> call.way])
  /\ Submitted

RespondWithOption(o) ==
  /\ Told([option |-> o, via |-> "approval"])
  /\ prompt' = [submitted |-> TRUE, confirming |-> Nothing]

HandleOption(o) ==
  /\ Pressed(<<"option", o>>)
  /\ IF o.confirm
     THEN /\ prompt' = [prompt EXCEPT !.confirming = o.id]
          /\ UNCHANGED <<call, group, card, showing, answers, hostSteps>>
     ELSE RespondWithOption(o)

Confirm(o) == Pressed(<<"confirm", o>>) /\ RespondWithOption(o)

Back ==
  /\ Pressed(<<"back">>)
  /\ prompt' = [prompt EXCEPT !.confirming = Nothing]
  /\ UNCHANGED <<call, group, card, showing, answers, hostSteps>>

(***************************************************************************)
(* The host, and the rendering that follows it: a mounted card opens when  *)
(* its call begins to ask.                                                 *)
(***************************************************************************)
HostStep(c) ==
  LET asks == c.status = "requires-action" IN
  /\ hostSteps < MaxHostSteps /\ hostSteps' = hostSteps + 1
  /\ call' = c
  /\ card' = IF card = Nothing \/ card.prev = asks THEN card
             ELSE IF asks THEN [open |-> TRUE, prev |-> TRUE, mounted |-> TRUE]
             ELSE [card EXCEPT !.prev = FALSE]
  /\ Prompted(card # Nothing /\ card'.mounted)
  /\ UNCHANGED <<group, answers>>

\* The arguments begin to come, if there are any.
Argue ==
  call.status = "running" /\ ~call.args /\ HostStep([call EXCEPT !.args = TRUE])

\* The call asks, for an approval with or without a list of options.
Ask(way, list) ==
  /\ call.status = "running"
  /\ list # NoList => way = "approval"
  /\ HostStep([call EXCEPT !.status = "requires-action", !.way = way, !.declared = list,
                           !.decided = FALSE])

\* The options change under a prompt.
Relist(list) ==
  /\ Asks /\ call.way = "approval" /\ ~call.decided /\ list # call.declared
  /\ HostStep([call EXCEPT !.declared = list])

\* A decision is recorded before the call goes on.
Decide ==
  /\ Asks /\ call.way = "approval" /\ ~call.decided
  /\ HostStep([call EXCEPT !.decided = TRUE])

\* The call goes on, and may ask again, or ends.
GoOn == Asks /\ answers # {} /\ HostStep([call EXCEPT !.status = "running"])
EndCall(status) ==
  /\ call.status \in {"running", "requires-action"}
  /\ HostStep([call EXCEPT !.status = status])

ToolNext ==
  \/ ToggleGroup \/ ToggleCard \/ GroupGone \/ CardGone
  \/ \E approved \in BOOLEAN : Respond(approved)
  \/ \E o \in Options : HandleOption(o) \/ Confirm(o)
  \/ Back
  \/ \E list \in DeclaredLists \cup {NoList} :
       \/ \E way \in {"approval", "interrupt", "result"} : Ask(way, list)
       \/ Relist(list)
  \/ Argue \/ Decide \/ GoOn
  \/ \E status \in {"complete", "error", "cancelled"} : EndCall(status)

(***************************************************************************)
(* "A declared option list is a host constraint: the kit never adds an     *)
(* approval path beyond it and always preserves a refusal path."  To a     *)
(* list that is not empty the host is told an option of it of a kind the   *)
(* kit knows, confirmed if it asks to be, or a refusal, even when the list *)
(* has changed under the prompt; and a prompt that waits has a button that *)
(* refuses, or one that leads back to it, however few options it knows.    *)
(***************************************************************************)
AnsweredAsDeclared(a) ==
  IF "option" \in DOMAIN a.answer
  THEN /\ a.answer.option \in a.declared /\ a.answer.option.kind \in KnownKinds
       /\ a.answer.option.confirm => a.confirmed
  ELSE ~a.answer.approved

RefusalOffered ==
  \/ {<<"deny">>, <<"back">>} \cap Buttons # {}
  \/ \E o \in Rejects : <<"option", o>> \in Buttons

DeclaredListKept ==
  /\ \A a \in answers : a.declared \notin {NoList, {}} => AnsweredAsDeclared(a)
  /\ PromptVisible /\ ~prompt.submitted => RefusalOffered

(***************************************************************************)
(* A prompt answers once for as long as it is mounted, whatever the host   *)
(* does meanwhile.  (One that is mounted again may answer again.)          *)
(***************************************************************************)
OneAnswerPerShowing ==
  \A a, b \in answers : a.showing = b.showing => a = b
=============================================================================
