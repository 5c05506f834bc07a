-------------------------- MODULE PagePartsProofs --------------------------
(***************************************************************************)
(* Proofs about PageParts, for any values of its constants.  Each section  *)
(* is about the steps of one part; what is proved of a part holds of the   *)
(* page, since a step of the page is a step of one part or none of it.     *)
(***************************************************************************)
EXTENDS PageParts, FiniteSetTheorems, SequenceTheorems, WellFoundedInduction, TLAPS

-----------------------------------------------------------------------------
(***************************************************************************)
(* ToolCard, for any lists a host declares.                                *)
(***************************************************************************)
\* What a prompt remembers of its answer is enough: showings are numbered, no
\* answer is of a later one, and a prompt whose showing was answered is
\* submitted.
ShowingsKept ==
  /\ showing \in Nat
  /\ \A a \in answers : a.showing \in Nat /\ a.showing <= showing
  /\ prompt # Nothing =>
       /\ "submitted" \in DOMAIN prompt
       /\ \A a \in answers : a.showing = showing => prompt.submitted = TRUE

DeclaredAnswers ==
  \A a \in answers : a.declared \notin {NoList, {}} => AnsweredAsDeclared(a)

ToolInv == ShowingsKept /\ OneAnswerPerShowing /\ DeclaredAnswers

-----------------------------------------------------------------------------
(***************************************************************************)
(* What the buttons of a prompt are.                                       *)
(***************************************************************************)
\* A declared list that is not empty has no button that allows in general.
LEMMA NoGeneralAllow ==
  ASSUME Declared \notin {NoList, {}}
  PROVE  <<"allow">> \notin Buttons
<1>1. \A o : <<"allow">> # <<"confirm", o>> /\ <<"allow">> # <<"option", o>>
  OBVIOUS
<1>2. <<"allow">> # <<"back">> /\ <<"allow">> # <<"deny">>
  OBVIOUS
<1> QED  BY <1>1, <1>2 DEF Buttons

\* The button that confirms is there while an option is being confirmed.
LEMMA ConfirmWhileConfirming ==
  ASSUME NEW o, <<"confirm", o>> \in Buttons
  PROVE  Confirming # {}
<1>1. \A p : <<"confirm", o>> # <<"option", p>>
  OBVIOUS
<1>2. <<"confirm", o>> # <<"deny">> /\ <<"confirm", o>> # <<"allow">>
  OBVIOUS
<1> QED  BY <1>1, <1>2 DEF Buttons

\* Whatever a host declares, a prompt has a button that refuses or leads back.
LEMMA AlwaysRefusable == RefusalOffered
<1>1. CASE Confirming # {}
  <2>1. <<"back">> \in Buttons
    BY <1>1 DEF Buttons
  <2> QED  BY <2>1 DEF RefusalOffered
<1>2. CASE Confirming = {} /\ (Declared \in {NoList, {}} \/ Rejects = {})
  <2>1. <<"deny">> \in Buttons
    BY <1>2 DEF Buttons
  <2> QED  BY <2>1 DEF RefusalOffered
<1>3. CASE Confirming = {} /\ Declared \notin {NoList, {}} /\ Rejects # {}
  <2>1. PICK o \in Rejects : TRUE
    BY <1>3
  <2>2. o \in Options
    BY DEF Rejects
  <2>3. <<"option", o>> \in Buttons
    BY <1>3, <2>2 DEF Buttons
  <2> QED  BY <2>3 DEF RefusalOffered
<1> QED  BY <1>1, <1>2, <1>3

-----------------------------------------------------------------------------
(***************************************************************************)
(* The invariant.                                                          *)
(***************************************************************************)
LEMMA ToolInitInv == ToolInit => ToolInv
BY DEF ToolInit, ToolInv, ShowingsKept, OneAnswerPerShowing, DeclaredAnswers

\* A step that tells the host nothing: the prompt goes, stays, or is a new one
\* under a number of its own.
LEMMA QuietStep ==
  ASSUME ToolInv, answers' = answers, showing' \in {showing, showing + 1},
         \/ prompt' = Nothing
         \/ /\ showing' = showing /\ prompt # Nothing
            /\ DOMAIN prompt' = DOMAIN prompt /\ prompt'.submitted = prompt.submitted
         \/ showing' = showing + 1 /\ prompt' = Fresh
  PROVE  ToolInv'
<1>1. ShowingsKept'
  BY DEF ToolInv, ShowingsKept, Fresh
<1>2. OneAnswerPerShowing' /\ DeclaredAnswers'
  BY DEF ToolInv, OneAnswerPerShowing, DeclaredAnswers, AnsweredAsDeclared
<1> QED  BY <1>1, <1>2 DEF ToolInv

LEMMA PromptedIsQuiet ==
  ASSUME NEW mounted, ToolInv, Prompted(mounted), answers' = answers
  PROVE  ToolInv'
<1>1. showing \in Nat
  BY DEF ToolInv, ShowingsKept
<1> QED  BY <1>1, QuietStep DEF Prompted

\* An answer, from a prompt that had given none.
LEMMA ToldStep ==
  ASSUME NEW answer, NEW button, ToolInv, Pressed(button), Told(answer),
         "submitted" \in DOMAIN prompt', prompt'.submitted = TRUE,
         Declared \notin {NoList, {}} => AnsweredAsDeclared(NewAnswer(answer))
  PROVE  ToolInv'
<1> DEFINE n == NewAnswer(answer)
<1>1. answers' = answers \cup {n} /\ showing' = showing
  BY DEF Told
<1>2. n.showing = showing /\ n.declared = Declared
  BY DEF NewAnswer
<1>3. prompt # Nothing /\ prompt.submitted # TRUE
  BY DEF Pressed, PromptVisible
<1>4. \A a \in answers : a.showing # showing
  BY <1>3 DEF ToolInv, ShowingsKept
<1>5. n.declared \notin {NoList, {}} => AnsweredAsDeclared(n)
  BY <1>2
<1> HIDE DEF n
<1>6. ShowingsKept'
  BY <1>1, <1>2 DEF ToolInv, ShowingsKept
<1>7. OneAnswerPerShowing'
  BY <1>1, <1>2, <1>4 DEF ToolInv, OneAnswerPerShowing
<1>8. DeclaredAnswers'
  BY <1>1, <1>5 DEF ToolInv, DeclaredAnswers, AnsweredAsDeclared
<1> QED  BY <1>6, <1>7, <1>8 DEF ToolInv

LEMMA RespondStep ==
  ASSUME NEW approved \in BOOLEAN, ToolInv, Respond(approved)
  PROVE  ToolInv'
<1> DEFINE answer == [approved |-> approved, via |-> call.way]
           button == IF approved THEN <<"allow">> ELSE <<"deny">>
<1>1. Pressed(button) /\ Told(answer) /\ Submitted
  BY DEF Respond
<1>2. "submitted" \in DOMAIN prompt' /\ prompt'.submitted = TRUE
  BY <1>1 DEF Submitted, ToolInv, ShowingsKept, Pressed, PromptVisible
<1>3. ASSUME Declared \notin {NoList, {}}
      PROVE  AnsweredAsDeclared(NewAnswer(answer))
  <2>1. ~approved
    BY <1>1, <1>3, NoGeneralAllow DEF Pressed
  <2>2. NewAnswer(answer).answer = answer /\ "option" \notin DOMAIN answer
    BY DEF NewAnswer
  <2>3. ~answer.approved
    BY <2>1
  <2> QED  BY <2>2, <2>3 DEF AnsweredAsDeclared
<1> HIDE DEF answer, button
<1> QED  BY <1>1, <1>2, <1>3, ToldStep

\* An option is told as it is, and confirmed if it asks to be.
LEMMA OptionStep ==
  ASSUME NEW o \in Options, NEW button, ToolInv, Pressed(button), RespondWithOption(o),
         o.confirm => Confirming # {}
  PROVE  ToolInv'
<1> DEFINE answer == [option |-> o, via |-> "approval"]
<1>1. Told(answer) /\ prompt' = [submitted |-> TRUE, confirming |-> Nothing]
  BY DEF RespondWithOption
<1>2. ASSUME Declared \notin {NoList, {}}
      PROVE  AnsweredAsDeclared(NewAnswer(answer))
  <2> DEFINE n == NewAnswer(answer)
  <2>1. n.answer = answer /\ n.declared = Declared /\ n.confirmed = (Confirming # {})
    BY DEF NewAnswer
  <2>2. "option" \in DOMAIN answer /\ answer.option = o
    OBVIOUS
  <2>3. o \in Declared /\ o.kind \in KnownKinds
    BY <1>2 DEF Options
  <2> HIDE DEF n, answer
  <2>4. AnsweredAsDeclared(n)
    BY <2>1, <2>2, <2>3 DEF AnsweredAsDeclared
  <2> QED  BY <2>4 DEF n
<1> HIDE DEF answer
<1> QED  BY <1>1, <1>2, ToldStep

\* Whether an option is being confirmed is not what a prompt remembers of its
\* answer.
LEMMA ConfirmingStep ==
  ASSUME NEW value, ToolInv, prompt # Nothing, UNCHANGED <<showing, answers>>,
         prompt' = [prompt EXCEPT !.confirming = value]
  PROVE  ToolInv'
<1>1. "submitted" \in DOMAIN prompt
  BY DEF ToolInv, ShowingsKept
<1>2. DOMAIN prompt' = DOMAIN prompt /\ prompt'.submitted = prompt.submitted
  BY <1>1
<1> QED  BY <1>2, QuietStep

LEMMA HandleOptionStep ==
  ASSUME NEW o \in Options, ToolInv, HandleOption(o)
  PROVE  ToolInv'
<1>1. CASE o.confirm
  BY <1>1, ConfirmingStep DEF HandleOption, Pressed, PromptVisible
<1>2. CASE ~o.confirm
  BY <1>2, OptionStep DEF HandleOption
<1> QED  BY <1>1, <1>2

LEMMA HostQuiet ==
  ASSUME NEW c, ToolInv, HostStep(c)
  PROVE  ToolInv'
BY PromptedIsQuiet DEF HostStep

LEMMA ToolNextInv ==
  ASSUME ToolInv, [ToolNext]_toolVars
  PROVE  ToolInv'
<1>1. CASE ToggleGroup
  BY <1>1, PromptedIsQuiet DEF ToggleGroup
<1>2. CASE ToggleCard
  BY <1>2, PromptedIsQuiet DEF ToggleCard
<1>3. CASE GroupGone
  BY <1>3, QuietStep DEF GroupGone
<1>4. CASE CardGone
  BY <1>4, QuietStep DEF CardGone
<1>5. CASE \E approved \in BOOLEAN : Respond(approved)
  BY <1>5, RespondStep
<1>6. CASE \E o \in Options : HandleOption(o)
  BY <1>6, HandleOptionStep
<1>7. CASE \E o \in Options : Confirm(o)
  BY <1>7, ConfirmWhileConfirming, OptionStep DEF Confirm, Pressed
<1>8. CASE Back
  BY <1>8, ConfirmingStep DEF Back, Pressed, PromptVisible
<1>9. CASE \E list \in DeclaredLists \cup {NoList} :
             \/ \E way \in {"approval", "interrupt", "result"} : Ask(way, list)
             \/ Relist(list)
  BY <1>9, HostQuiet DEF Ask, Relist
<1>10. CASE Argue \/ Decide \/ GoOn
  BY <1>10, HostQuiet DEF Argue, Decide, GoOn
<1>11. CASE \E status \in {"complete", "error", "cancelled"} : EndCall(status)
  BY <1>11, HostQuiet DEF EndCall
<1>12. CASE UNCHANGED toolVars
  BY <1>12 DEF toolVars, ToolInv, ShowingsKept, OneAnswerPerShowing, DeclaredAnswers,
               AnsweredAsDeclared
<1> QED
  BY <1>1, <1>2, <1>3, <1>4, <1>5, <1>6, <1>7, <1>8, <1>9, <1>10, <1>11, <1>12
     DEF ToolNext

-----------------------------------------------------------------------------
(***************************************************************************)
(* Attachments, for any files and any number of URLs.                      *)
(***************************************************************************)
\* Each holder's URL is its own, and it has one exactly for the file its effect
\* saw; a tile that is gone left nothing.
HooksOwn ==
  /\ \A h \in Holders :
       /\ hook[h].src # NoSrc => hook[h].src \in 1..made
       /\ hook[h].src = NoSrc <=> hook[h].file = NoFile
  /\ hook["thumb"].src # NoSrc => hook["thumb"].src # hook["dialog"].src
  /\ ~tile.shown => tile = NoTile /\ hook = [h \in Holders |-> NewHook]

LiveHeld == live = {hook[h].src : h \in Holders} \ {NoSrc}
PreviewWraps == preview.open => tile.shown /\ Wraps(Src("dialog"))

AttachmentsInv == AttachmentsTypeOK /\ HooksOwn /\ LiveHeld /\ PreviewWraps

Tile == [shown : BOOLEAN, image : BOOLEAN, file : File \cup {NoFile}, content : BOOLEAN]
Hooks == [Holders -> [file : File \cup {NoFile}, src : 1..MaxUrls \cup {NoSrc}]]

\* What hooks are like of which n URLs were made.
OwnUrls(hooks, n) ==
  /\ \A h \in Holders :
       /\ hooks[h].src # NoSrc => hooks[h].src \in 1..n
       /\ hooks[h].src = NoSrc <=> hooks[h].file = NoFile
  /\ hooks["thumb"].src # NoSrc => hooks["thumb"].src # hooks["dialog"].src

UrlsOf(hooks) == {hooks["thumb"].src, hooks["dialog"].src} \ {NoSrc}

-----------------------------------------------------------------------------
\* The two holders, one by one.
LEMMA HoldersAre ==
  ASSUME NEW hooks
  PROVE  {hooks[h].src : h \in Holders} \ {NoSrc} = UrlsOf(hooks)
BY DEF Holders, UrlsOf

LEMMA AttachmentsInitInv == AttachmentsInit => AttachmentsInv
<1> SUFFICES ASSUME AttachmentsInit PROVE AttachmentsInv
  OBVIOUS
<1> USE AttachmentsAssumption DEF AttachmentsInit, NewHook, NoTile, Closed
<1>1. AttachmentsTypeOK
  BY DEF AttachmentsTypeOK
<1>2. HooksOwn
  BY DEF HooksOwn, Holders
<1>3. LiveHeld /\ PreviewWraps
  BY DEF LiveHeld, PreviewWraps
<1> QED  BY <1>1, <1>2, <1>3 DEF AttachmentsInv

\* The hooks of a tile that stays, once some effects have run and the tile was
\* wrapped in a dialog, or unwrapped, if it had to be.
LEMMA WithHooksKeeps ==
  ASSUME NEW hooks \in Hooks, NEW gone, NEW added,
         AttachmentsInv, WithHooks(hooks, gone, added),
         tile' \in Tile, tile'.shown, made' \in made..MaxUrls,
         OwnUrls(hooks, made'), (live \ gone) \cup added = UrlsOf(hooks)
  PROVE  AttachmentsInv'
<1> DEFINE rewrapped == Wraps(Src("dialog")) # Wraps(SrcOf(tile', hooks["dialog"]))
           remounted == [hooks EXCEPT !["thumb"] = NewHook]
<1> USE AttachmentsAssumption
<1>1. /\ hook' = IF rewrapped THEN remounted ELSE hooks
      /\ live' = UrlsOf(hooks) \ (IF rewrapped THEN {hooks["thumb"].src} ELSE {})
      /\ preview' = IF rewrapped THEN Closed ELSE preview
  BY DEF WithHooks
<1>2. remounted \in Hooks /\ OwnUrls(remounted, made')
  BY DEF Hooks, OwnUrls, NewHook, Holders
<1>3. UrlsOf(remounted) = UrlsOf(hooks) \ {hooks["thumb"].src}
  BY DEF UrlsOf, OwnUrls, NewHook, Hooks, Holders
<1>4. hook' \in Hooks /\ OwnUrls(hook', made')
  BY <1>1, <1>2
<1>5. live' = UrlsOf(hook')
  BY <1>1, <1>3
<1>6. made' \in 0..MaxUrls
  BY DEF AttachmentsInv, AttachmentsTypeOK
<1>7. live' \subseteq 1..made'
  BY <1>4, <1>5 DEF UrlsOf, OwnUrls, Holders
<1>8. preview' \in [open : BOOLEAN, loaded : BOOLEAN]
  BY <1>1 DEF Closed, AttachmentsInv, AttachmentsTypeOK
<1>9. painted' \in {NoSrc, SrcOf(tile', hook'["thumb"])}
  BY DEF WithHooks, AttachmentsInv, AttachmentsTypeOK
<1>10. AttachmentsTypeOK'
  BY <1>4, <1>6, <1>7, <1>8, <1>9 DEF AttachmentsTypeOK, Tile, Hooks, Src
<1>11. HooksOwn'
  BY <1>4 DEF HooksOwn, OwnUrls
<1>12. LiveHeld'
  BY <1>5, HoldersAre DEF LiveHeld
<1>13. PreviewWraps'
  <2>1. CASE rewrapped
    BY <1>1, <2>1 DEF Closed, PreviewWraps
  <2>2. CASE ~rewrapped
    BY <1>1, <2>2 DEF PreviewWraps, AttachmentsInv, Src
  <2> QED  BY <2>1, <2>2
<1> QED  BY <1>10, <1>11, <1>12, <1>13 DEF AttachmentsInv

\* An effect revokes the URL of the file it had seen and makes one that nobody
\* holds.
LEMMA EffectStep ==
  ASSUME AttachmentsInv, UrlEffects
  PROVE  AttachmentsInv'
<1> USE AttachmentsAssumption
<1> DEFINE new == made + 1
           saw == IF SelectedFile = NoFile THEN NewHook
                  ELSE [file |-> SelectedFile, src |-> new]
<1>1. PICK h \in Holders :
        /\ SelectedFile # NoFile => new <= MaxUrls
        /\ made' = IF SelectedFile = NoFile THEN made ELSE new
        /\ WithHooks([hook EXCEPT ![h] = saw], {hook[h].src}, {saw.src} \ {NoSrc})
  BY DEF UrlEffects
<1>2. tile' = tile /\ tile.shown /\ tile' \in Tile
  BY DEF UrlEffects, AttachmentsInv, AttachmentsTypeOK, Tile
<1>3. SelectedFile \in File \cup {NoFile}
  BY DEF SelectedFile, AttachmentsInv, AttachmentsTypeOK
<1>4. made \in Nat /\ made' \in made..MaxUrls
  BY <1>1 DEF AttachmentsInv, AttachmentsTypeOK
<1>5. /\ saw \in [file : File \cup {NoFile}, src : 1..MaxUrls \cup {NoSrc}]
      /\ saw.src # NoSrc => saw.src = new /\ made' = new
      /\ saw.src = NoSrc <=> saw.file = NoFile
  BY <1>1, <1>3, <1>4 DEF NewHook
<1> DEFINE hooks == [hook EXCEPT ![h] = saw]
<1> HIDE DEF saw
<1>6. hook \in Hooks /\ OwnUrls(hook, made)
  BY DEF AttachmentsInv, AttachmentsTypeOK, Hooks, HooksOwn, OwnUrls
<1>7. hooks \in Hooks
  BY <1>5, <1>6 DEF Hooks
<1>8. OwnUrls(hooks, made')
  BY <1>4, <1>5, <1>6 DEF OwnUrls, Hooks, Holders
<1>9. live = UrlsOf(hook)
  BY HoldersAre DEF AttachmentsInv, LiveHeld
<1>10. (live \ {hook[h].src}) \cup ({saw.src} \ {NoSrc}) = UrlsOf(hooks)
  BY <1>6, <1>9 DEF UrlsOf, OwnUrls, Hooks, Holders
<1> HIDE DEF hooks
<1> QED  BY <1>1, <1>2, <1>4, <1>7, <1>8, <1>10, WithHooksKeeps DEF hooks

LEMMA ReplacedStep ==
  ASSUME NEW f \in File \cup {NoFile}, NEW content \in BOOLEAN,
         AttachmentsInv, Replaced(f, content)
  PROVE  AttachmentsInv'
<1>1. tile \in Tile /\ tile.shown
  BY DEF Replaced, AttachmentsInv, AttachmentsTypeOK, Tile
<1>2. tile' \in Tile /\ tile'.shown
  BY <1>1 DEF Replaced, Tile
<1>3. hook \in Hooks /\ OwnUrls(hook, made) /\ made' = made /\ made' \in made..MaxUrls
  BY AttachmentsAssumption
     DEF Replaced, AttachmentsInv, AttachmentsTypeOK, Hooks, HooksOwn, OwnUrls
<1>4. live = UrlsOf(hook)
  BY HoldersAre DEF AttachmentsInv, LiveHeld
<1>5. WithHooks(hook, {}, {})
  BY DEF Replaced
<1> QED  BY <1>2, <1>3, <1>4, <1>5, WithHooksKeeps

\* A tile that comes has no hook with a URL yet, and one that goes leaves none.
LEMMA AddStep ==
  ASSUME NEW f \in File, NEW image \in BOOLEAN, AttachmentsInv, Add(f, image)
  PROVE  AttachmentsInv'
<1>1. tile' \in Tile /\ tile'.shown
  BY DEF Add, Tile
<1>2. /\ hook = [h \in Holders |-> NewHook] /\ UNCHANGED <<hook, live, made, preview, painted>>
      /\ tile = NoTile
  BY DEF Add, AttachmentsInv, HooksOwn
<1>3. painted = NoSrc
  BY <1>2 DEF AttachmentsInv, AttachmentsTypeOK, Src, SrcOf, NoTile, NewHook, Holders
<1>4. AttachmentsTypeOK'
  BY <1>1, <1>2, <1>3 DEF AttachmentsInv, AttachmentsTypeOK, Tile
<1>5. HooksOwn'
  BY <1>1, <1>2 DEF AttachmentsInv, HooksOwn
<1>6. ~preview.open
  BY <1>2 DEF AttachmentsInv, PreviewWraps, NoTile
<1>7. LiveHeld' /\ PreviewWraps'
  BY <1>2, <1>6 DEF AttachmentsInv, LiveHeld, PreviewWraps
<1> QED  BY <1>4, <1>5, <1>7 DEF AttachmentsInv

LEMMA RemoveStep ==
  ASSUME AttachmentsInv, RemoveTile
  PROVE  AttachmentsInv'
<1> USE AttachmentsAssumption
<1>1. /\ tile' = NoTile /\ hook' = [h \in Holders |-> NewHook]
      /\ preview' = Closed /\ painted' = NoSrc /\ made' = made /\ live' = {}
  BY DEF RemoveTile, Unmount, AttachmentsInv, LiveHeld, AttachmentsTypeOK
<1>2. AttachmentsTypeOK'
  BY <1>1 DEF AttachmentsInv, AttachmentsTypeOK, NoTile, NewHook, Closed
<1>3. HooksOwn'
  BY <1>1 DEF HooksOwn, NewHook, NoTile, Holders
<1>4. LiveHeld' /\ PreviewWraps'
  BY <1>1 DEF LiveHeld, PreviewWraps, NewHook, Closed, Holders
<1> QED  BY <1>2, <1>3, <1>4 DEF AttachmentsInv

\* What happens to the preview and the thumbnail's image.
LEMMA PreviewStep ==
  ASSUME AttachmentsInv, UNCHANGED <<tile, hook, live, made>>,
         painted' \in {painted, Src("thumb")},
         preview' \in [open : BOOLEAN, loaded : BOOLEAN],
         preview'.open => preview.open \/ (tile.shown /\ Wraps(Src("dialog")))
  PROVE  AttachmentsInv'
<1>1. AttachmentsTypeOK'
  BY DEF AttachmentsInv, AttachmentsTypeOK, Src
<1>2. HooksOwn' /\ LiveHeld'
  BY DEF AttachmentsInv, HooksOwn, LiveHeld
<1>3. PreviewWraps'
  BY DEF AttachmentsInv, PreviewWraps, Src
<1> QED  BY <1>1, <1>2, <1>3 DEF AttachmentsInv

LEMMA AttachmentsNextInv ==
  ASSUME AttachmentsInv, [AttachmentsNext]_attachmentVars
  PROVE  AttachmentsInv'
<1>1. preview \in [open : BOOLEAN, loaded : BOOLEAN]
  BY DEF AttachmentsInv, AttachmentsTypeOK
<1>2. CASE OpenPreview
  BY <1>2, PreviewStep DEF OpenPreview
<1>3. CASE ClosePreview
  BY <1>3, PreviewStep DEF ClosePreview, Closed
<1>4. CASE PreviewLoaded
  BY <1>1, <1>4, PreviewStep DEF PreviewLoaded
<1>5. CASE ThumbLoaded
  BY <1>1, <1>5, PreviewStep DEF ThumbLoaded
<1>6. CASE UNCHANGED attachmentVars
  BY <1>1, <1>6, PreviewStep DEF attachmentVars
<1> QED
  BY <1>2, <1>3, <1>4, <1>5, <1>6, EffectStep, RemoveStep, AddStep, ReplacedStep
     DEF AttachmentsNext

\* What the invariant says of a tile and its preview.
LEMMA HeldUrls == AttachmentsInv => UrlsHeld
<1> SUFFICES ASSUME AttachmentsInv PROVE UrlsHeld
  OBVIOUS
<1> USE AttachmentsAssumption
<1>1. live = {hook[h].src : h \in Holders} \ {NoSrc}
  BY DEF AttachmentsInv, LiveHeld
<1>2. ASSUME NEW h \in Holders, tile.shown, hook[h].file = SelectedFile
      PROVE  Src(h) # NoSrc <=> (tile.image /\ (tile.file # NoFile \/ tile.content))
  BY <1>2 DEF AttachmentsInv, HooksOwn, SelectedFile, Src, SrcOf, FromContent
<1>3. painted \in live \cup {NoSrc, FromContent}
  BY <1>1 DEF AttachmentsInv, AttachmentsTypeOK, Src, SrcOf, Holders
<1> QED  BY <1>1, <1>2, <1>3 DEF UrlsHeld, AttachmentsInv, PreviewWraps

-----------------------------------------------------------------------------
(***************************************************************************)
(* ZoomPan, for any boxes: once its timers are gone, a diagram is where    *)
(* its box would be loaded.  This needs nothing but the types.             *)
(***************************************************************************)
ZoomInv == ZoomTypeOK /\ ZoomRemembered

DiagramType ==
  [drawn : BOOLEAN, active : BOOLEAN, at : Place, full : BOOLEAN,
   info : BOOLEAN, zoomSave : BOOLEAN, panSave : BOOLEAN, failed : BOOLEAN]
SavedType == [at : Place, old : BOOLEAN]

\* A diagram in place: where a box whose key holds s would be shown.
InPlace(d, s) ==
  d.active /\ ~d.zoomSave /\ ~d.panSave /\ ~d.failed =>
    \/ d.at = (IF s # NoZoom /\ ~s.old THEN s.at ELSE InitialPlace)
    \/ s # NoZoom /\ s.old

LEMMA PlacesApart ==
  ZoomRemembered <=> \A b \in Box : InPlace(diagram[b], stored[<<b, "number">>])
BY DEF ZoomRemembered, InPlace, LoadZoomState

LEMMA ZoomInitInv == ZoomInit => ZoomInv
<1> SUFFICES ASSUME ZoomInit  PROVE ZoomInv
  OBVIOUS
<1>1. 0 \in Place /\ MaxActivations \in Nat
  BY ZoomAssumption DEF Place
<1>2. NewDiagram \in DiagramType /\ ~NewDiagram.active
  BY <1>1 DEF NewDiagram, DiagramType
<1>3. ZoomTypeOK
  BY <1>1, <1>2 DEF ZoomInit, ZoomTypeOK, DiagramType
<1>4. ZoomRemembered
  BY <1>2 DEF ZoomInit, ZoomRemembered
<1> QED  BY <1>3, <1>4 DEF ZoomInv

\* What a step that moves one diagram, and saves it or not, has to show of it.
LEMMA DiagramStep ==
  ASSUME ZoomInv, NEW b \in Box, NEW d \in DiagramType,
         diagram' = [diagram EXCEPT ![b] = d], d.active => d.drawn,
         stored' \in [Key -> SavedType \cup {NoZoom}],
         \A c \in Box \ {b} : stored'[<<c, "number">>] = stored[<<c, "number">>],
         InPlace(d, stored'[<<b, "number">>]),
         activations' \in 0..MaxActivations, scroll' \in [at : 0..1, kept : 0..1]
  PROVE  ZoomInv'
<1>1. diagram \in [Box -> DiagramType] /\ \A c \in Box : diagram[c].active => diagram[c].drawn
  BY DEF ZoomInv, ZoomTypeOK, DiagramType
<1>2. diagram' \in [Box -> DiagramType] /\ diagram'[b] = d
      /\ \A c \in Box \ {b} : diagram'[c] = diagram[c]
  BY <1>1
<1>3. ZoomTypeOK'
  BY <1>1, <1>2 DEF ZoomTypeOK, DiagramType, SavedType
<1>4. \A c \in Box : InPlace(diagram[c], stored[<<c, "number">>])
  BY PlacesApart DEF ZoomInv
<1>5. \A c \in Box : InPlace(diagram'[c], stored'[<<c, "number">>])
  BY <1>2, <1>4
<1>6. ZoomRemembered'
  BY <1>5 DEF ZoomRemembered, InPlace, LoadZoomState
<1> QED  BY <1>3, <1>6 DEF ZoomInv

LEMMA DiagramFacts ==
  ASSUME ZoomInv, NEW b \in Box
  PROVE  /\ diagram[b] \in DiagramType /\ (diagram[b].active => diagram[b].drawn)
         /\ diagram[b].at \in Place /\ 0 \in Place
         /\ stored \in [Key -> SavedType \cup {NoZoom}]
         /\ activations \in 0..MaxActivations /\ scroll \in [at : 0..1, kept : 0..1]
         /\ InPlace(diagram[b], stored[<<b, "number">>])
         /\ <<b, "number">> \in Key /\ <<b, "id">> \in Key
<1>1. diagram \in [Box -> DiagramType] /\ stored \in [Key -> SavedType \cup {NoZoom}]
      /\ activations \in 0..MaxActivations /\ scroll \in [at : 0..1, kept : 0..1]
      /\ (diagram[b].active => diagram[b].drawn)
  BY DEF ZoomInv, ZoomTypeOK, DiagramType, SavedType
<1>2. diagram[b].at \in Place /\ 0 \in Place
  BY <1>1, ZoomAssumption DEF DiagramType, Place
<1>3. InPlace(diagram[b], stored[<<b, "number">>])
  BY PlacesApart DEF ZoomInv
<1> QED  BY <1>1, <1>2, <1>3 DEF Key

\* A zoom, a pan, a reset or the end of the full screen starts a timer.
LEMMA ZoomMoves ==
  ASSUME ZoomInv, NEW b \in Box,
         \/ Reset(b) \/ Minimize(b)
         \/ \E by \in {"zoom", "pan"}, place \in Place : Moved(b, place, by)
  PROVE  ZoomInv'
<1>1. CASE \E by \in {"zoom", "pan"}, place \in Place : Moved(b, place, by)
  <2>1. PICK by \in {"zoom", "pan"}, place \in Place : Moved(b, place, by)
    BY <1>1
  <2> DEFINE d == [diagram[b] EXCEPT !.at = place, !.zoomSave = @ \/ by = "zoom",
                                     !.panSave = @ \/ by = "pan", !.failed = FALSE]
  <2>2. diagram' = [diagram EXCEPT ![b] = d]
        /\ UNCHANGED <<stored, activations, scroll>>
    <3>1. diagram' = [diagram EXCEPT ![b].at = place, ![b].zoomSave = @ \/ by = "zoom",
                                     ![b].panSave = @ \/ by = "pan", ![b].failed = FALSE]
          /\ UNCHANGED <<stored, activations, scroll>>
      BY <2>1 DEF Moved
    <3>2. diagram \in [Box -> DiagramType] /\ diagram[b] \in DiagramType
      BY DiagramFacts DEF ZoomInv, ZoomTypeOK, DiagramType
    <3> QED  BY <3>1, <3>2 DEF DiagramType
  <2>3. d \in DiagramType /\ (d.active => d.drawn) /\ (d.zoomSave \/ d.panSave)
    <3>1. diagram[b] \in DiagramType /\ (diagram[b].active => diagram[b].drawn)
          /\ (by = "zoom" \/ by = "pan")
      BY <2>1, DiagramFacts
    <3>2. d \in DiagramType /\ d.active = diagram[b].active /\ d.drawn = diagram[b].drawn
      BY <3>1 DEF DiagramType
    <3>3. d.zoomSave \/ d.panSave
      BY <3>1 DEF DiagramType
    <3> QED  BY <3>1, <3>2, <3>3
  <2> HIDE DEF d
  <2> QED  BY <2>2, <2>3, DiagramFacts, DiagramStep DEF InPlace
<1>2. CASE Reset(b) \/ Minimize(b)
  <2> DEFINE d == diagram'[b]
  <2>1. diagram[b] \in DiagramType /\ (diagram[b].active => diagram[b].drawn) /\ 0 \in Place
    BY DiagramFacts
  <2>2. diagram' \in {[diagram EXCEPT ![b] = Rest(diagram[b])],
                      [diagram EXCEPT ![b] = [Rest(diagram[b]) EXCEPT !.full = FALSE]]}
    BY <1>2 DEF Reset, Minimize
  <2>3. Rest(diagram[b]) \in DiagramType
        /\ [Rest(diagram[b]) EXCEPT !.full = FALSE] \in DiagramType
    BY <2>1 DEF Rest, DiagramType
  <2>4. Rest(diagram[b]).zoomSave /\ [Rest(diagram[b]) EXCEPT !.full = FALSE].zoomSave
        /\ (Rest(diagram[b]).active <=> diagram[b].active)
        /\ ([Rest(diagram[b]) EXCEPT !.full = FALSE].active <=> diagram[b].active)
        /\ (Rest(diagram[b]).drawn <=> diagram[b].drawn)
        /\ ([Rest(diagram[b]) EXCEPT !.full = FALSE].drawn <=> diagram[b].drawn)
    BY <2>1 DEF Rest, DiagramType
  <2>5. stored' = [stored EXCEPT ![<<b, "id">>] = NoZoom] /\ activations' = activations
        /\ scroll' \in [at : 0..1, kept : 0..1]
    BY <1>2, DiagramFacts DEF Reset, Minimize, ClearZoomState
  <2>6. stored' \in [Key -> SavedType \cup {NoZoom}]
        /\ \A c \in Box : stored'[<<c, "number">>] = stored[<<c, "number">>]
    BY <2>5, DiagramFacts DEF Key
  <2>7. PICK d0 \in DiagramType : /\ diagram' = [diagram EXCEPT ![b] = d0]
                                  /\ d0.zoomSave /\ (d0.active => d0.drawn)
    BY <2>1, <2>2, <2>3, <2>4
  <2> QED  BY <2>5, <2>6, <2>7, DiagramFacts, DiagramStep DEF InPlace
<1> QED  BY <1>1, <1>2

LEMMA ZoomSaves ==
  ASSUME ZoomInv, NEW b \in Box, NEW by \in {"zoom", "pan"}, SaveDue(b, by)
  PROVE  ZoomInv'
<1>0. PICK failed \in BOOLEAN :
         /\ diagram' = [diagram EXCEPT ![b].zoomSave = @ /\ by # "zoom",
                                       ![b].panSave = @ /\ by # "pan", ![b].failed = failed]
         /\ SaveZoomState(b, failed)
  BY DEF SaveDue
<1> DEFINE d == [diagram[b] EXCEPT !.zoomSave = @ /\ by # "zoom", !.panSave = @ /\ by # "pan",
                                   !.failed = failed]
           s == [at |-> diagram[b].at, old |-> FALSE]
<1>1. diagram[b] \in DiagramType /\ (diagram[b].active => diagram[b].drawn)
      /\ diagram[b].at \in Place
  BY DiagramFacts
<1>2. d \in DiagramType /\ (d.active => d.drawn) /\ d.at = diagram[b].at /\ d.failed = failed
  BY <1>1 DEF DiagramType
<1>a. s \in SavedType /\ ~s.old /\ s.at = diagram[b].at
  BY <1>1 DEF SavedType
<1>b. NoZoom \notin SavedType
  BY ZoomAssumption DEF SavedType, Place
<1>3. s \in SavedType /\ s # NoZoom /\ ~s.old /\ s.at = diagram[b].at
  BY <1>a, <1>b
<1>4. diagram' = [diagram EXCEPT ![b] = d] /\ UNCHANGED <<activations, scroll>>
      /\ stored' = IF failed THEN stored ELSE [stored EXCEPT ![<<b, "number">>] = s]
  BY <1>0 DEF SaveDue, SaveZoomState
<1> HIDE DEF d, s
<1>5. stored' \in [Key -> SavedType \cup {NoZoom}] /\ (~failed => stored'[<<b, "number">>] = s)
      /\ \A c \in Box \ {b} : stored'[<<c, "number">>] = stored[<<c, "number">>]
  BY <1>3, <1>4, DiagramFacts DEF Key
<1>6. InPlace(d, stored'[<<b, "number">>])
  BY <1>2, <1>3, <1>5 DEF InPlace
<1> QED  BY <1>2, <1>4, <1>5, <1>6, DiagramFacts, DiagramStep

\* Nothing about a diagram's place changes.
LEMMA ZoomShows ==
  ASSUME ZoomInv, NEW b \in Box, Drawn(b) \/ Maximize(b) \/ ToggleInfo(b)
  PROVE  ZoomInv'
<1>1. diagram[b] \in DiagramType /\ (diagram[b].active => diagram[b].drawn)
      /\ scroll \in [at : 0..1, kept : 0..1]
  BY DiagramFacts
<1> DEFINE e1 == [diagram[b] EXCEPT !.drawn = TRUE]
           e2 == [diagram[b] EXCEPT !.full = TRUE]
           e3 == [diagram[b] EXCEPT !.info = ~@]
<1>2. \E d \in {e1, e2, e3} : diagram' = [diagram EXCEPT ![b] = d]
  BY DEF Drawn, Maximize, ToggleInfo
<1>3. stored' = stored /\ activations' = activations /\ scroll' \in [at : 0..1, kept : 0..1]
  BY <1>1 DEF Drawn, Maximize, ToggleInfo
<1>4. \A d \in {e1, e2, e3} :
        /\ d \in DiagramType /\ (d.active => d.drawn) /\ d.at = diagram[b].at
        /\ d.active = diagram[b].active /\ d.zoomSave = diagram[b].zoomSave
        /\ d.panSave = diagram[b].panSave /\ d.failed = diagram[b].failed
  BY <1>1 DEF DiagramType
<1> HIDE DEF e1, e2, e3
<1>5. PICK d \in {e1, e2, e3} : diagram' = [diagram EXCEPT ![b] = d]
  BY <1>2
<1>6. InPlace(d, stored[<<b, "number">>])
  BY <1>4, DiagramFacts DEF InPlace
<1> QED  BY <1>3, <1>4, <1>5, <1>6, DiagramFacts, DiagramStep

LEMMA ZoomPages ==
  ASSUME ZoomInv, LoadPage \/ Activate \/ ThirtyDays \/ \E y \in 0..1 : Scrolled(y)
  PROVE  ZoomInv'
<1>1. diagram \in [Box -> DiagramType] /\ stored \in [Key -> SavedType \cup {NoZoom}]
      /\ activations \in 0..MaxActivations /\ scroll \in [at : 0..1, kept : 0..1]
      /\ (\A b \in Box : diagram[b].active => diagram[b].drawn)
      /\ MaxActivations \in Nat /\ 0 \in Place /\ InitialPlace \in Place
  BY ZoomAssumption DEF ZoomInv, ZoomTypeOK, DiagramType, SavedType, Place
<1>2. \A b \in Box : InPlace(diagram[b], stored[<<b, "number">>])
  BY PlacesApart DEF ZoomInv
<1>3. CASE LoadPage
  <2>1. NewDiagram \in DiagramType /\ ~NewDiagram.active
    BY <1>1 DEF NewDiagram, DiagramType
  <2>2. diagram' = [b \in Box |-> NewDiagram] /\ stored' = stored
        /\ activations' = MaxActivations /\ scroll' = [at |-> 0, kept |-> 0]
    BY <1>3 DEF LoadPage
  <2>3. ZoomTypeOK'
    BY <1>1, <2>1, <2>2 DEF ZoomTypeOK, DiagramType, SavedType
  <2>4. ZoomRemembered'
    BY <2>1, <2>2 DEF ZoomRemembered
  <2> QED  BY <2>3, <2>4 DEF ZoomInv
<1>4. CASE Activate
  <2>0. PICK unread \in SUBSET Box :
          diagram' = [b \in Box |->
            IF diagram[b].drawn /\ ~diagram[b].active
            THEN [diagram[b] EXCEPT !.active = TRUE, !.failed = b \in unread,
                    !.at = IF b \in unread THEN InitialPlace ELSE LoadZoomState(b)]
            ELSE diagram[b]]
    BY <1>4 DEF Activate
  <2> DEFINE at(b) == IF b \in unread THEN InitialPlace ELSE LoadZoomState(b)
             woken(d, place, failed) ==
               [d EXCEPT !.active = TRUE, !.failed = failed, !.at = place]
             on(b) == woken(diagram[b], at(b), b \in unread)
  <2>1. \A b \in Box : at(b) \in Place
    BY <1>1 DEF LoadZoomState, Key, SavedType
  <2>2. \A b \in Box : /\ on(b) \in DiagramType /\ on(b).at = at(b)
                       /\ on(b).active /\ on(b).drawn = diagram[b].drawn
                       /\ on(b).failed <=> b \in unread
    <3>1. \A d \in DiagramType, place \in Place, failed \in BOOLEAN :
            /\ woken(d, place, failed) \in DiagramType /\ woken(d, place, failed).at = place
            /\ woken(d, place, failed).active /\ woken(d, place, failed).drawn = d.drawn
            /\ woken(d, place, failed).failed = failed
      BY DEF DiagramType
    <3>2. \A b \in Box : diagram[b] \in DiagramType /\ (b \in unread) \in BOOLEAN
      BY <1>1
    <3> HIDE DEF at, woken
    <3> QED  BY <2>1, <3>1, <3>2, Zenon
  <2>3. diagram' = [b \in Box |-> IF diagram[b].drawn /\ ~diagram[b].active
                                  THEN on(b) ELSE diagram[b]]
        /\ stored' = stored /\ activations' = activations - 1 /\ activations > 0 /\ scroll' = scroll
    BY <1>4, <2>0 DEF Activate
  <2> HIDE DEF on
  <2>4. \A b \in Box : diagram'[b] = diagram[b]
                       \/ (diagram'[b] = on(b) /\ diagram[b].drawn)
    BY <2>3
  <2>5. diagram' \in [Box -> DiagramType]
        /\ (\A b \in Box : diagram'[b].active => diagram'[b].drawn)
    BY <1>1, <2>2, <2>3, <2>4
  <2>6. activations' \in 0..MaxActivations
    BY <1>1, <2>3
  <2>7. ZoomTypeOK'
    BY <1>1, <2>3, <2>5, <2>6 DEF ZoomTypeOK, DiagramType, SavedType
  <2>8. \A b \in Box : InPlace(on(b), stored[<<b, "number">>])
    BY <2>2 DEF InPlace, LoadZoomState
  <2>9. \A b \in Box : InPlace(diagram'[b], stored'[<<b, "number">>])
    BY <1>2, <2>3, <2>4, <2>8
  <2> QED  BY <2>7, <2>9 DEF ZoomInv, ZoomRemembered, InPlace, LoadZoomState
<1>5. CASE ThirtyDays
  <2> DEFINE aged(k) == IF stored[k] = NoZoom THEN NoZoom ELSE [stored[k] EXCEPT !.old = TRUE]
  <2>1. \A k \in Key : stored[k] # NoZoom =>
          /\ [stored[k] EXCEPT !.old = TRUE] \in SavedType
          /\ [stored[k] EXCEPT !.old = TRUE].old
    BY <1>1 DEF SavedType
  <2>2. NoZoom \notin SavedType
    BY ZoomAssumption DEF SavedType, Place
  <2>3. \A k \in Key : /\ aged(k) \in SavedType \cup {NoZoom}
                       /\ stored[k] = NoZoom => aged(k) = NoZoom
                       /\ stored[k] # NoZoom => aged(k) # NoZoom /\ aged(k).old
    BY <2>1, <2>2
  <2>4. stored' = [k \in Key |-> aged(k)] /\ UNCHANGED <<diagram, activations, scroll>>
    BY <1>5 DEF ThirtyDays
  <2> HIDE DEF aged
  <2>5. ZoomTypeOK'
    BY <1>1, <2>3, <2>4 DEF ZoomTypeOK, DiagramType, SavedType
  <2>6. \A b \in Box : InPlace(diagram'[b], stored'[<<b, "number">>])
    <3>1. SUFFICES ASSUME NEW b \in Box  PROVE InPlace(diagram[b], aged(<<b, "number">>))
      BY <2>4 DEF Key
    <3>2. <<b, "number">> \in Key /\ InPlace(diagram[b], stored[<<b, "number">>])
      BY <1>2 DEF Key
    <3> QED  BY <2>3, <3>2 DEF InPlace
  <2> QED  BY <2>5, <2>6 DEF ZoomInv, ZoomRemembered, InPlace, LoadZoomState
<1>6. CASE \E y \in 0..1 : Scrolled(y)
  <2>1. UNCHANGED <<diagram, stored, activations>> /\ scroll' \in [at : 0..1, kept : 0..1]
    BY <1>1, <1>6 DEF Scrolled
  <2> QED  BY <2>1 DEF ZoomInv, ZoomTypeOK, ZoomRemembered, LoadZoomState
<1> QED  BY <1>3, <1>4, <1>5, <1>6

LEMMA ZoomNextInv == ZoomInv /\ [ZoomNext]_zoomVars => ZoomInv'
<1> SUFFICES ASSUME ZoomInv, [ZoomNext]_zoomVars  PROVE ZoomInv'
  OBVIOUS
<1>1. CASE UNCHANGED zoomVars
  BY <1>1 DEF zoomVars, ZoomInv, ZoomTypeOK, ZoomRemembered, LoadZoomState
<1>2. CASE ZoomNext
  BY <1>2, ZoomPages, ZoomShows, ZoomSaves, ZoomMoves DEF ZoomNext
<1> QED  BY <1>1, <1>2

-----------------------------------------------------------------------------
(***************************************************************************)
(* AdminUsers, for any users and roles.  A page left takes its calls with  *)
(* it, a list is read before anything is saved, and one save is in         *)
(* progress at a time: the list lags behind what is stored by the save     *)
(* that is answered, and by no other.                                      *)
(***************************************************************************)
CallsKept ==
  /\ users.selected # 0 => users.listed
  /\ users.listed => users.mounted
  /\ \A c \in calls :
       /\ c.gone => c.op = "save" /\ adrift
       /\ ~c.gone => users.mounted
       /\ c.op # "list" => c.user \in User
       /\ c.op # "list" /\ ~c.gone => users.listed
       /\ c.op = "list" => ~users.listed
       /\ c.op = "save" => isAdmin
       /\ c.op = "save" /\ ~c.gone => users.saving
  /\ \A c, d \in calls :
       c.op = d.op /\ c.op # "roles" /\ ~c.gone /\ ~d.gone => c = d

Saved(s, c) == [s EXCEPT ![c.user] = c.roles]

ListKept ==
  ~adrift =>
    /\ users.listed /\ (\A c \in calls : c.op # "save") => users.list = roles
    /\ \A c \in calls :
         /\ c.op = "save" /\ c.state = "asked" => users.list = roles
         /\ c.op = "save" /\ c.state = "answered" => roles = Saved(users.list, c)
         /\ c.op = "list" /\ c.state = "answered" => c.answer = roles

DialogKept ==
  ~users.crossed =>
    /\ \A c, d \in calls : c.op = "roles" /\ d.op = "roles" => c = d
    /\ users.loadingRoles <=> \E c \in calls : c.op = "roles"
    /\ \A c \in calls : c.op = "roles" =>
         /\ users.summary = 0
         /\ users.selected # 0 => users.selected = c.user
    /\ RolesShown =>
         users.of = users.selected /\ users.summary \in {0, users.selected}

UsersInv == UsersTypeOK /\ CallsKept /\ ListKept /\ DialogKept

UsersPage ==
  [mounted : BOOLEAN, loading : BOOLEAN, listed : BOOLEAN,
   list : RoleSets, selected : 0..MaxUsers, loadingRoles : BOOLEAN,
   editing : SUBSET Role, summary : 0..MaxUsers, saving : BOOLEAN,
   of : 0..MaxUsers, crossed : BOOLEAN]
UsersCalls ==
  [op : {"list", "roles", "save"}, id : Nat, user : 0..MaxUsers,
   roles : SUBSET Role, state : {"asked", "answered", "failed"},
   gone : BOOLEAN, answer : RoleSets]

LEMMA UsersTypes ==
  ASSUME UsersTypeOK
  PROVE  /\ roles \in RoleSets /\ isAdmin \in BOOLEAN /\ adrift \in BOOLEAN
         /\ users \in UsersPage /\ calls \subseteq UsersCalls
BY DEF UsersTypeOK, UsersPage, UsersCalls

LEMMA NobodyIsTyped ==
  /\ NoRoles \in RoleSets /\ 0 \in 0..MaxUsers /\ User \subseteq 0..MaxUsers
  /\ NewUsersPage \in UsersPage
<1>1. NoRoles \in RoleSets /\ 0 \in 0..MaxUsers /\ User \subseteq 0..MaxUsers
  BY UsersAssumption DEF NoRoles, RoleSets, User
<1> QED  BY <1>1 DEF NewUsersPage, UsersPage

LEMMA UsersCallIs ==
  ASSUME NEW op \in {"list", "roles", "save"}, NEW id \in Nat, NEW u \in 0..MaxUsers,
         NEW s \in SUBSET Role
  PROVE  LET c == UsersCall(op, id, u, s)
         IN  c \in UsersCalls /\ c.op = op /\ c.user = u /\ c.roles = s
             /\ c.state = "asked" /\ ~c.gone
BY NobodyIsTyped DEF UsersCall, UsersCalls

LEMMA UsersInitInv == UsersInit => UsersInv
<1> SUFFICES ASSUME UsersInit  PROVE UsersInv
  OBVIOUS
<1>1. users = NewUsersPage /\ calls = {} /\ adrift = FALSE /\ isAdmin \in BOOLEAN
      /\ roles \in RoleSets
  BY UsersAssumption DEF UsersInit, RoleSets, User
<1>2. ~NewUsersPage.saving /\ NewUsersPage.selected = 0 /\ ~NewUsersPage.listed
      /\ ~NewUsersPage.loadingRoles
  BY DEF NewUsersPage
<1>3. UsersTypeOK
  BY <1>1, <1>2, NobodyIsTyped DEF UsersTypeOK, UsersPage
<1>4. CallsKept /\ ListKept /\ DialogKept
  BY <1>1, <1>2 DEF CallsKept, ListKept, DialogKept, RolesShown
<1> QED  BY <1>3, <1>4 DEF UsersInv

LEMMA UsersMounts ==
  ASSUME UsersInv, ~users.mounted, UsersMount
  PROVE  UsersInv'
<1> DEFINE p == [NewUsersPage EXCEPT !.mounted = TRUE]
           c == UsersCall("list", 0, 0, {})
<1>1. c \in UsersCalls /\ c.op = "list" /\ c.state = "asked" /\ ~c.gone
  BY NobodyIsTyped, UsersCallIs
<1>2. p \in UsersPage /\ p.mounted /\ ~p.listed /\ p.selected = 0 /\ ~p.saving /\ ~p.loadingRoles
  BY NobodyIsTyped DEF NewUsersPage, UsersPage
<1>3. users' = p /\ calls' = calls \cup {c} /\ UNCHANGED <<roles, isAdmin, adrift>>
  BY DEF UsersMount
<1> HIDE DEF p, c
<1>4. \A d \in calls : d.gone /\ d.op = "save" /\ adrift /\ d.user \in User /\ isAdmin
  BY DEF UsersInv, CallsKept
<1>5. UsersTypeOK'
  BY <1>1, <1>2, <1>3, <1>4, UsersTypes DEF UsersInv, UsersTypeOK, UsersPage, UsersCalls
<1>6. CallsKept'
  BY <1>1, <1>2, <1>3, <1>4 DEF CallsKept
<1>7. ListKept'
  BY <1>1, <1>2, <1>3, <1>4 DEF ListKept
<1>8. DialogKept'
  BY <1>1, <1>2, <1>3, <1>4 DEF DialogKept, RolesShown
<1> QED  BY <1>5, <1>6, <1>7, <1>8 DEF UsersInv

LEMMA UsersLeaves ==
  ASSUME UsersInv, UsersUnmount
  PROVE  UsersInv'
<1> DEFINE sent == {c \in calls : c.op = "save" /\ c.state = "asked"}
<1>1. users' = NewUsersPage /\ calls' = {[c EXCEPT !.gone = TRUE] : c \in sent}
      /\ adrift' = (adrift \/ sent # {}) /\ UNCHANGED <<roles, isAdmin>>
  BY DEF UsersUnmount
<1>2. \A c \in sent : c \in UsersCalls /\ c.op = "save" /\ c.user \in User /\ isAdmin
  BY UsersTypes DEF UsersInv, CallsKept
<1>3. \A c \in sent : LET d == [c EXCEPT !.gone = TRUE] IN
        d \in UsersCalls /\ d.op = "save" /\ d.user \in User /\ d.gone /\ adrift' /\ isAdmin'
  BY <1>1, <1>2 DEF UsersCalls
<1>4. \A d \in calls' : d \in UsersCalls /\ d.op = "save" /\ d.user \in User /\ d.gone
                        /\ adrift' /\ isAdmin'
  BY <1>1, <1>3
<1>5. ~NewUsersPage.mounted /\ ~NewUsersPage.saving /\ NewUsersPage.selected = 0
      /\ ~NewUsersPage.listed /\ ~NewUsersPage.loadingRoles
  BY DEF NewUsersPage
<1>6. adrift' \in BOOLEAN /\ roles' \in RoleSets /\ isAdmin' \in BOOLEAN
  BY <1>1, UsersTypes DEF UsersInv
<1> HIDE DEF sent
<1>7. UsersTypeOK'
  BY <1>1, <1>4, <1>5, <1>6, NobodyIsTyped DEF UsersTypeOK, UsersPage, UsersCalls
<1>8. CallsKept' /\ ListKept' /\ DialogKept'
  BY <1>1, <1>4, <1>5 DEF CallsKept, ListKept, DialogKept, RolesShown
<1> QED  BY <1>7, <1>8 DEF UsersInv

LEMMA UsersOpens ==
  ASSUME UsersInv, clicks \in Nat, NEW u \in User, OpenUserRoles(u)
  PROVE  UsersInv'
<1> DEFINE p == Opening(u)
           c == UsersCall("roles", clicks', u, users.list[u])
<1>1. users \in UsersPage /\ users.mounted /\ users.listed /\ clicks' \in Nat
  BY UsersTypes DEF UsersInv, OpenUserRoles, Click
<1>2. c \in UsersCalls /\ c.op = "roles" /\ c.user = u /\ c.state = "asked" /\ ~c.gone
  <2>1. users.list[u] \in SUBSET Role
    BY <1>1 DEF UsersPage, RoleSets
  <2> QED  BY <1>1, <2>1, UsersCallIs, NobodyIsTyped
<1>3. p \in UsersPage /\ p.mounted /\ p.listed /\ p.list = users.list /\ p.selected = u
      /\ p.loadingRoles /\ p.summary = 0 /\ p.saving = users.saving
      /\ (p.crossed <=> users.crossed \/ \E d \in calls : d.op = "roles")
  BY <1>1, NobodyIsTyped DEF Opening, UsersPage
<1>4. users' = p /\ calls' = calls \cup {c} /\ UNCHANGED <<roles, isAdmin, adrift>>
  BY DEF OpenUserRoles
<1> HIDE DEF p, c
<1>5. UsersTypeOK'
  BY <1>1, <1>2, <1>3, <1>4, UsersTypes DEF UsersInv, UsersTypeOK, UsersPage, UsersCalls
<1>6. CallsKept'
  BY <1>1, <1>2, <1>3, <1>4 DEF UsersInv, CallsKept
<1>7. ListKept'
  BY <1>1, <1>2, <1>3, <1>4 DEF UsersInv, ListKept, Saved
<1>8. DialogKept'
  BY <1>2, <1>3, <1>4 DEF DialogKept, UsersInv, RolesShown
<1> QED  BY <1>5, <1>6, <1>7, <1>8 DEF UsersInv

LEMMA UsersEdits ==
  ASSUME UsersInv, CloseDialog \/ \E r \in Role : ToggleRole(r)
  PROVE  UsersInv'
<1> DEFINE close == [users EXCEPT !.selected = 0]
           toggle(r) == [users EXCEPT !.editing = IF r \in @ THEN @ \ {r} ELSE @ \cup {r}]
<1>1. users \in UsersPage
  BY UsersTypes DEF UsersInv
<1>2. close \in UsersPage /\ close.selected = 0 /\ close.listed = users.listed
      /\ close.list = users.list /\ close.mounted = users.mounted
      /\ close.saving = users.saving /\ close.loadingRoles = users.loadingRoles
      /\ close.summary = users.summary /\ close.of = users.of /\ close.crossed = users.crossed
  BY <1>1, NobodyIsTyped DEF UsersPage
<1>3. \A r \in Role : LET q == toggle(r) IN
      q \in UsersPage /\ q.selected = users.selected /\ q.listed = users.listed
      /\ q.list = users.list /\ q.mounted = users.mounted
      /\ q.saving = users.saving /\ q.loadingRoles = users.loadingRoles
      /\ q.summary = users.summary /\ q.of = users.of /\ q.crossed = users.crossed
  BY <1>1 DEF UsersPage
<1>4. (users' = close \/ \E r \in Role : users' = toggle(r))
      /\ UNCHANGED <<calls, roles, isAdmin, adrift>>
  BY DEF CloseDialog, ToggleRole
<1>5. users' \in UsersPage /\ users'.selected \in {0, users.selected}
      /\ users'.listed = users.listed
      /\ users'.list = users.list /\ users'.mounted = users.mounted
      /\ users'.saving = users.saving /\ users'.loadingRoles = users.loadingRoles
      /\ users'.summary = users.summary /\ users'.of = users.of
      /\ users'.crossed = users.crossed
  <2>1. CASE users' = close
    BY <1>2, <2>1
  <2>2. ASSUME NEW r \in Role, users' = toggle(r)  PROVE users' \in UsersPage
        /\ users'.selected \in {0, users.selected} /\ users'.listed = users.listed
        /\ users'.list = users.list /\ users'.mounted = users.mounted
        /\ users'.saving = users.saving /\ users'.loadingRoles = users.loadingRoles
        /\ users'.summary = users.summary /\ users'.of = users.of
        /\ users'.crossed = users.crossed
    <3> HIDE DEF close
    <3> HIDE DEF toggle
    <3> QED  BY <1>3, <2>2
  <2> QED  BY <1>4, <2>1, <2>2
<1> HIDE DEF close, toggle
<1>6. UsersTypeOK'
  BY <1>4, <1>5, UsersTypes DEF UsersInv, UsersTypeOK, UsersPage, UsersCalls
<1>7. CallsKept' /\ ListKept'
  BY <1>4, <1>5 DEF UsersInv, CallsKept, ListKept, Saved
<1>8. DialogKept'
  BY <1>4, <1>5 DEF UsersInv, DialogKept, RolesShown
<1> QED  BY <1>6, <1>7, <1>8 DEF UsersInv

LEMMA UsersSaves ==
  ASSUME UsersInv, clicks \in Nat, SaveRoles
  PROVE  UsersInv'
<1> DEFINE p == [users EXCEPT !.saving = TRUE]
           c == UsersCall("save", clicks', users.selected, users.editing)
<1>1. users \in UsersPage /\ users.selected # 0 /\ users.listed /\ users.mounted /\ isAdmin
      /\ ~users.saving /\ clicks' \in Nat /\ users.selected \in User
  <2>1. users \in UsersPage /\ users.selected # 0 /\ isAdmin /\ ~users.saving /\ clicks' \in Nat
    BY UsersTypes DEF UsersInv, SaveRoles, Click
  <2>2. users.listed /\ users.mounted
    BY <2>1 DEF UsersInv, CallsKept
  <2>3. users.selected \in 0..MaxUsers /\ MaxUsers \in Nat
    BY <2>1, UsersAssumption DEF UsersPage
  <2>4. users.selected \in User
    BY <2>1, <2>3 DEF User
  <2> QED  BY <2>1, <2>2, <2>4
<1>2. c \in UsersCalls /\ c.op = "save" /\ c.user = users.selected /\ c.state = "asked" /\ ~c.gone
  BY <1>1, UsersCallIs DEF UsersPage
<1>3. p \in UsersPage /\ p.mounted /\ p.listed /\ p.list = users.list
      /\ p.selected = users.selected /\ p.saving /\ p.loadingRoles = users.loadingRoles
      /\ p.summary = users.summary /\ p.of = users.of /\ p.crossed = users.crossed
  BY <1>1 DEF UsersPage
<1>4. users' = p /\ calls' = calls \cup {c} /\ UNCHANGED <<roles, isAdmin, adrift>>
  BY DEF SaveRoles
<1> HIDE DEF p, c
<1>5. \A d \in calls : d.op = "save" => d.gone /\ adrift
  BY <1>1 DEF UsersInv, CallsKept
<1>6. UsersTypeOK'
  BY <1>1, <1>2, <1>3, <1>4, UsersTypes DEF UsersInv, UsersTypeOK, UsersPage, UsersCalls
<1>7. CallsKept'
  BY <1>1, <1>2, <1>3, <1>4, <1>5 DEF UsersInv, CallsKept
<1>8. ListKept'
  BY <1>1, <1>2, <1>3, <1>4, <1>5 DEF UsersInv, ListKept, Saved
<1>9. DialogKept'
  BY <1>2, <1>3, <1>4 DEF UsersInv, DialogKept, RolesShown
<1> QED  BY <1>6, <1>7, <1>8, <1>9 DEF UsersInv


\* The same call, its answer in: of all calls only its state is another.
LEMMA SameCalls ==
  ASSUME UsersInv, NEW c \in calls, NEW d, d \in UsersCalls,
         d.op = c.op, d.user = c.user, d.roles = c.roles, d.gone = c.gone,
         calls' = (calls \ {c}) \cup {d},
         UNCHANGED <<isAdmin, users, adrift>>, roles' \in RoleSets
  PROVE  UsersTypeOK' /\ CallsKept' /\ DialogKept'
<1>1. UsersTypeOK'
  <2>1. calls' \subseteq UsersCalls /\ users \in UsersPage /\ isAdmin \in BOOLEAN
        /\ adrift \in BOOLEAN
    BY UsersTypes DEF UsersInv
  <2>2. users.mounted /\ users.saving => \E e \in calls' : e.op = "save" /\ ~e.gone
    BY DEF UsersInv, UsersTypeOK
  <2>3. \A e \in calls' : e.op = "save" => isAdmin
    BY DEF UsersInv, CallsKept
  <2> QED  BY <2>1, <2>2, <2>3 DEF UsersTypeOK, UsersPage, UsersCalls
<1>2. CallsKept'
  BY DEF UsersInv, CallsKept
<1>3. DialogKept'
  BY DEF UsersInv, DialogKept, RolesShown
<1> QED  BY <1>1, <1>2, <1>3

LEMMA UsersServes ==
  ASSUME UsersInv, NEW c \in calls, UsersServe(c)
  PROVE  UsersInv'
<1>1. c \in UsersCalls /\ roles \in RoleSets
  BY UsersTypes DEF UsersInv
<1>2. c.state = "asked" /\ roles' = Stored(c) /\ UNCHANGED <<isAdmin, users, adrift>>
  BY DEF UsersServe
<1>3. roles' \in RoleSets
  BY <1>1, <1>2 DEF Stored, UsersCalls, RoleSets
<1>4. PICK d : d = [c EXCEPT !.state = "answered", !.answer = roles']
  OBVIOUS
<1>5. d \in UsersCalls /\ d.op = c.op /\ d.user = c.user /\ d.roles = c.roles /\ d.gone = c.gone
      /\ d.state = "answered" /\ d.answer = roles'
  BY <1>1, <1>3, <1>4 DEF UsersCalls
<1>6. calls' = (calls \ {c}) \cup {d}
  BY <1>4 DEF UsersServe
<1>7. ListKept'
  <2>1. SUFFICES ASSUME ~adrift  PROVE ListKept'
    BY <1>2 DEF ListKept
  <2>2. \A e \in calls : ~e.gone
    BY <2>1 DEF UsersInv, CallsKept
  <2>3. CASE c.op = "save"
    <3>1. users.listed /\ users.list = roles /\ \A e \in calls : e.op # "list" /\ (e.op = "save" => e = c)
      BY <1>2, <2>1, <2>2, <2>3 DEF UsersInv, CallsKept, ListKept
    <3>2. roles' = Saved(users.list, d)
      BY <1>2, <1>5, <2>3, <3>1 DEF Stored, Saved
    <3> QED  BY <1>2, <1>5, <1>6, <2>3, <3>1, <3>2 DEF ListKept, Saved
  <2>4. CASE c.op # "save"
    <3>1. roles' = roles
      BY <1>2, <2>4 DEF Stored
    <3> QED  BY <1>2, <1>5, <1>6, <2>1, <2>4, <3>1 DEF UsersInv, ListKept, Saved
  <2> QED  BY <2>3, <2>4
<1> QED  BY <1>2, <1>3, <1>5, <1>6, <1>7, SameCalls DEF UsersInv

LEMMA UsersRefuses ==
  ASSUME UsersInv, NEW c \in calls, UsersRefuse(c)
  PROVE  UsersInv'
<1>1. c \in UsersCalls /\ roles \in RoleSets
  BY UsersTypes DEF UsersInv
<1>2. c.state = "asked" /\ roles' \in {roles, Stored(c)} /\ UNCHANGED <<isAdmin, users, adrift>>
  BY DEF UsersRefuse
<1>3. roles' \in RoleSets
  BY <1>1, <1>2 DEF Stored, UsersCalls, RoleSets
<1> DEFINE d == [c EXCEPT !.state = "failed"]
<1>5. d \in UsersCalls /\ d.op = c.op /\ d.user = c.user /\ d.roles = c.roles /\ d.gone = c.gone
      /\ d.state = "failed"
  BY <1>1 DEF UsersCalls
<1>6. calls' = (calls \ {c}) \cup {d}
  BY DEF UsersRefuse
<1> HIDE DEF d
<1>7. ListKept'
  <2>1. SUFFICES ASSUME ~adrift  PROVE ListKept'
    BY <1>2 DEF ListKept
  <2>2. \A e \in calls : ~e.gone
    BY <2>1 DEF UsersInv, CallsKept
  <2>3. CASE c.op = "save"
    <3>1. users.listed /\ \A e \in calls : e.op # "list" /\ (e.op = "save" => e = c)
      BY <2>2, <2>3 DEF UsersInv, CallsKept
    <3> QED  BY <1>2, <1>5, <1>6, <2>3, <3>1 DEF ListKept, Saved
  <2>4. CASE c.op # "save"
    <3>1. roles' = roles
      BY <1>2, <2>4 DEF Stored
    <3> QED  BY <1>2, <1>5, <1>6, <2>1, <2>4, <3>1 DEF UsersInv, ListKept, Saved
  <2> QED  BY <2>3, <2>4
<1> QED  BY <1>2, <1>3, <1>5, <1>6, <1>7, SameCalls DEF UsersInv

LEMMA SaveReturns ==
  ASSUME UsersInv, NEW c \in calls, c.op = "save", UsersAnswered(c)
  PROVE  UsersInv'
<1>1. c \in UsersCalls /\ users \in UsersPage /\ c.user \in User /\ isAdmin
  BY UsersTypes DEF UsersInv, CallsKept
<1>2. calls' = calls \ {c} /\ UNCHANGED <<roles, isAdmin>> /\ c.state # "asked"
      /\ adrift' = (adrift \/ c.state = "failed")
      /\ users' = IF c.gone THEN users ELSE RolesSaved(c)
  BY DEF UsersAnswered
<1>3. CASE c.gone
  <2>1. UsersTypeOK'
    BY <1>1, <1>2, <1>3, UsersTypes DEF UsersInv, UsersTypeOK, UsersPage, UsersCalls
  <2>2. CallsKept' /\ DialogKept'
    BY <1>2, <1>3 DEF UsersInv, CallsKept, DialogKept, RolesShown
  <2>3. ListKept'
    BY <1>2, <1>3 DEF UsersInv, CallsKept, ListKept
  <2> QED  BY <2>1, <2>2, <2>3 DEF UsersInv
<1>4. CASE ~c.gone
  <2> DEFINE p == RolesSaved(c)
  <2>1. p \in UsersPage /\ p.mounted = users.mounted /\ p.listed = users.listed /\ ~p.saving
        /\ p.selected \in {0, users.selected} /\ p.loadingRoles = users.loadingRoles
        /\ p.summary = users.summary /\ p.of = users.of /\ p.crossed = users.crossed
        /\ p.list = IF c.state = "answered" THEN Saved(users.list, c) ELSE users.list
    <3>1. Saved(users.list, c) \in RoleSets /\ 0 \in 0..MaxUsers
      BY <1>1, NobodyIsTyped DEF UsersPage, UsersCalls, RoleSets, Saved
    <3>2. CASE c.state = "answered"
      <4>1. p = [users EXCEPT !.saving = FALSE, !.selected = 0, !.list = Saved(users.list, c)]
        BY <1>1, <3>2 DEF RolesSaved, Saved, UsersPage
      <4> HIDE DEF p
      <4> QED  BY <1>1, <3>1, <3>2, <4>1 DEF UsersPage
    <3>3. CASE c.state # "answered"
      BY <1>1, <3>3 DEF RolesSaved, UsersPage
    <3> QED  BY <3>2, <3>3
  <2>2. users' = p
    BY <1>2, <1>4
  <2> HIDE DEF p
  <2>3. users.listed /\ users.mounted
        /\ \A e \in calls : (e.op = "save" /\ ~e.gone => e = c) /\ e.op # "list"
    BY <1>4 DEF UsersInv, CallsKept
  <2>4. UsersTypeOK'
    BY <1>1, <1>2, <2>1, <2>2, UsersTypes DEF UsersInv, UsersTypeOK, UsersPage, UsersCalls
  <2>5. CallsKept'
    BY <1>2, <2>1, <2>2, <2>3 DEF UsersInv, CallsKept
  <2>6. DialogKept'
    BY <1>2, <2>1, <2>2 DEF UsersInv, DialogKept, RolesShown
  <2>7. ListKept'
    <3>1. SUFFICES ASSUME ~adrift, c.state = "answered"  PROVE ListKept'
      BY <1>1, <1>2 DEF ListKept, UsersCalls
    <3>2. roles = Saved(users.list, c) /\ \A e \in calls' : e.op # "save" /\ e.op # "list"
      BY <1>2, <2>3, <3>1 DEF UsersInv, ListKept, CallsKept
    <3> QED  BY <1>2, <2>1, <2>2, <3>1, <3>2 DEF ListKept
  <2> QED  BY <2>4, <2>5, <2>6, <2>7 DEF UsersInv
<1> QED  BY <1>3, <1>4

LEMMA ReadReturns ==
  ASSUME UsersInv, NEW c \in calls, c.op # "save", UsersAnswered(c)
  PROVE  UsersInv'
<1>1. c \in UsersCalls /\ users \in UsersPage /\ ~c.gone /\ users.mounted
      /\ (c.op # "list" => c.user \in User)
  BY UsersTypes DEF UsersInv, CallsKept
<1>2. calls' = calls \ {c} /\ UNCHANGED <<roles, isAdmin>> /\ c.state # "asked"
      /\ adrift' = adrift
  BY UsersTypes DEF UsersAnswered, UsersInv
<1>3. CASE c.op = "list"
  <2> DEFINE p == UsersListed(c)
  <2>1. p \in UsersPage /\ p.mounted = users.mounted /\ p.saving = users.saving
        /\ p.listed = (users.listed \/ c.state = "answered") /\ p.selected = users.selected
        /\ p.loadingRoles = users.loadingRoles
        /\ p.summary = users.summary /\ p.of = users.of /\ p.crossed = users.crossed
        /\ p.list = IF c.state = "answered" THEN c.answer ELSE users.list
    BY <1>1 DEF UsersListed, UsersPage, UsersCalls
  <2>2. users' = p
    BY <1>1, <1>3 DEF UsersAnswered
  <2> HIDE DEF p
  <2>3. ~users.listed /\ \A e \in calls : e.op = "list" \/ (e.gone /\ e.op = "save" /\ adrift)
    BY <1>3 DEF UsersInv, CallsKept
  <2>4. UsersTypeOK'
    BY <1>1, <1>2, <1>3, <2>1, <2>2, UsersTypes DEF UsersInv, UsersTypeOK, UsersPage, UsersCalls
  <2>5. CallsKept'
    BY <1>1, <1>2, <1>3, <2>1, <2>2, <2>3 DEF UsersInv, CallsKept
  <2>6. DialogKept'
    BY <1>2, <1>3, <2>1, <2>2 DEF UsersInv, DialogKept, RolesShown
  <2>7. ListKept'
    BY <1>2, <1>3, <2>1, <2>2, <2>3 DEF UsersInv, ListKept
  <2> QED  BY <2>4, <2>5, <2>6, <2>7 DEF UsersInv
<1>4. CASE c.op = "roles"
  <2> DEFINE p == RolesLoaded(c)
  <2>1. p \in UsersPage /\ p.mounted = users.mounted /\ p.saving = users.saving
        /\ p.listed = users.listed /\ p.selected = users.selected /\ p.list = users.list
        /\ ~p.loadingRoles /\ p.of = c.user /\ p.crossed = users.crossed
        /\ p.summary = IF c.state = "answered" THEN c.user ELSE users.summary
    <3>1. c.user \in User /\ c.user \in 0..MaxUsers /\ c.roles \in SUBSET Role
      BY <1>1, <1>4 DEF UsersCalls
    <3>2. c.answer[c.user] \in SUBSET Role
      BY <1>1, <3>1 DEF UsersCalls, RoleSets
    <3> QED  BY <1>1, <3>1, <3>2 DEF RolesLoaded, UsersPage
  <2>2. users' = p
    BY <1>1, <1>4 DEF UsersAnswered
  <2> HIDE DEF p
  <2>4. UsersTypeOK'
    BY <1>1, <1>2, <1>4, <2>1, <2>2, UsersTypes DEF UsersInv, UsersTypeOK, UsersPage, UsersCalls
  <2>5. CallsKept'
    BY <1>2, <2>1, <2>2 DEF UsersInv, CallsKept
  <2>6. DialogKept'
    BY <1>2, <1>4, <2>1, <2>2 DEF UsersInv, DialogKept, RolesShown
  <2>7. ListKept'
    BY <1>2, <1>4, <2>1, <2>2 DEF UsersInv, ListKept, Saved
  <2> QED  BY <2>4, <2>5, <2>6, <2>7 DEF UsersInv
<1> QED  BY <1>1, <1>3, <1>4 DEF UsersCalls

LEMMA UsersNextInv ==
  UsersInv /\ clicks \in Nat /\ (UsersNext \/ UNCHANGED usersVars) => UsersInv'
<1> SUFFICES ASSUME UsersInv, clicks \in Nat, UsersNext \/ UNCHANGED usersVars
             PROVE  UsersInv'
  OBVIOUS
<1>1. CASE UNCHANGED usersVars
  BY <1>1 DEF usersVars, UsersInv, UsersTypeOK, CallsKept, ListKept, DialogKept, RolesShown
<1>2. CASE UsersNext
  BY <1>2, UsersOpens, UsersEdits, UsersSaves, UsersServes, UsersRefuses, SaveReturns,
     ReadReturns DEF UsersNext
<1> QED  BY <1>1, <1>2

-----------------------------------------------------------------------------
(***************************************************************************)
(* KnowledgePage, for any documents and versions.                          *)
(***************************************************************************)
\* Whose end brings a list, and whose end brings details or closes them.
ListsAgain(t) == t.op = "list" \/ (t.op \in Write /\ t.for = "submit")
OpensAgain(t) ==
  /\ t.for = "submit"
  /\ \/ t.op \in {"status", "remove", "reprocess", "open"}
     \/ t.op = "list" /\ t.keep # 0

TasksKept ==
  /\ \A t \in tasks :
       /\ t.for = "gone" => t.op \in Write
       /\ t.for # "gone" => kb.mounted
       /\ t.op \in Write => t.for \in {"submit", "gone"}
       /\ t.op \notin {"list", "upload"} => t.doc \in Doc
       /\ t.for = "submit" /\ t.op \in {"status", "remove", "reprocess"} => t.keep # 0
       /\ t.op = "list" /\ t.for # "submit" => t.keep = 0
       /\ t.op = "open" /\ t.state = "answered" => t.answer[t.doc].there
  /\ \A t, u \in tasks : t.for = "submit" /\ u.for = "submit" => t = u
  /\ \A d \in Doc : docs[d].there => docs[d].version # 0
  /\ kb.selected # 0 => kb.detail.there

PageKept ==
  kb.mounted =>
    /\ ~overdue.list /\ (\A t \in tasks : ~ListsAgain(t)) => kb.list = Visible
    /\ ~overdue.detail /\ kb.selected # 0 /\ (\A t \in tasks : ~OpensAgain(t)) =>
         kb.detail = Visible[kb.selected]

KnowledgeInv == KnowledgeTypeOK /\ TasksKept /\ PageKept

KbPage ==
  [mounted : BOOLEAN, loading : BOOLEAN, list : [Doc -> DocState],
   selected : 0..MaxDocs, detail : DocState, loadingDetail : BOOLEAN,
   submitting : BOOLEAN, success : BOOLEAN, file : BOOLEAN, reprocessFile : BOOLEAN]
KbTasks ==
  [op : {"list", "open"} \cup Write, for : {"mount", "click", "submit", "gone"},
   doc : 0..MaxDocs, keep : 0..MaxDocs, active : BOOLEAN,
   id : Nat, state : {"asked", "answered", "failed"}, answer : [Doc -> DocState]]
Marks == [list : BOOLEAN, detail : BOOLEAN]

LEMMA KbTypes ==
  KnowledgeTypeOK <=>
    /\ docs \in [Doc -> DocState] /\ kb \in KbPage /\ tasks \subseteq KbTasks
    /\ overdue \in Marks /\ (kb.submitting <=> \E t \in tasks : t.for = "submit")
BY DEF KnowledgeTypeOK, KbPage, KbTasks, Marks

LEMMA NoDocIsTyped ==
  /\ Absent \in DocState /\ ~Absent.there /\ NoDocs \in [Doc -> DocState]
  /\ \A d \in Doc : ~NoDocs[d].there
  /\ 0 \in 0..MaxDocs /\ Doc \subseteq 0..MaxDocs /\ 1 \in 0..MaxVersions
  /\ \A d \in 0..MaxDocs : d # 0 => d \in Doc
  /\ NewKnowledgePage \in KbPage /\ NewKnowledgePage.selected = 0
  /\ ~NewKnowledgePage.submitting /\ ~NewKnowledgePage.mounted
<1>1. /\ 0 \in 0..MaxDocs /\ Doc \subseteq 0..MaxDocs /\ 1 \in 0..MaxVersions
      /\ \A d \in 0..MaxDocs : d # 0 => d \in Doc
      /\ 0 \in 0..MaxVersions
  BY KnowledgeAssumption DEF Doc
<1>2. Absent \in DocState /\ ~Absent.there
  BY <1>1 DEF Absent, DocState
<1>3. NoDocs \in [Doc -> DocState] /\ \A d \in Doc : ~NoDocs[d].there
  BY <1>2 DEF NoDocs
<1> QED  BY <1>1, <1>2, <1>3 DEF NewKnowledgePage, KbPage

LEMMA VisibleIs ==
  ASSUME docs \in [Doc -> DocState]
  PROVE  /\ Visible \in [Doc -> DocState]
         /\ \A d \in Doc : /\ docs[d].there => Visible[d] = docs[d]
                           /\ Visible[d].there <=> docs[d].there
BY NoDocIsTyped DEF Visible

\* The call of the click with number i.
CallOf(op, for, doc, keep, on, i) ==
  [op |-> op, for |-> for, doc |-> doc, keep |-> keep, active |-> on,
   id |-> i, state |-> "asked", answer |-> NoDocs]

LEMMA CallIs ==
  ASSUME NEW i \in Nat, NEW op \in {"list", "open"} \cup Write,
         NEW for \in {"mount", "click", "submit", "gone"},
         NEW doc \in 0..MaxDocs, NEW keep \in 0..MaxDocs, NEW on \in BOOLEAN
  PROVE  LET t == CallOf(op, for, doc, keep, on, i)
         IN  t \in KbTasks /\ t.op = op /\ t.for = for /\ t.doc = doc /\ t.keep = keep
             /\ t.state = "asked"
BY NoDocIsTyped DEF CallOf, KbTasks

LEMMA CallParts == 0 \in 0..MaxDocs /\ FALSE \in BOOLEAN /\ Doc \subseteq 0..MaxDocs
BY NoDocIsTyped

LEMMA KnowledgeInitInv == KnowledgeInit => KnowledgeInv
<1> SUFFICES ASSUME KnowledgeInit  PROVE KnowledgeInv
  OBVIOUS
<1>1. PICK there \in Ingested :
        docs = [d \in Doc |->
          IF d \in there THEN [there |-> TRUE, active |-> TRUE, version |-> 1] ELSE Absent]
  BY DEF KnowledgeInit
<1>2. [there |-> TRUE, active |-> TRUE, version |-> 1] \in DocState
  BY NoDocIsTyped DEF DocState
<1>3. docs \in [Doc -> DocState] /\ \A d \in Doc : docs[d].there => docs[d].version # 0
  BY <1>1, <1>2, NoDocIsTyped
<1>4. kb = NewKnowledgePage /\ tasks = {} /\ overdue \in Marks
  BY DEF KnowledgeInit, Marks
<1>5. KnowledgeTypeOK
  BY <1>3, <1>4, KbTypes, NoDocIsTyped
<1>6. TasksKept /\ PageKept
  BY <1>3, <1>4, NoDocIsTyped DEF TasksKept, PageKept
<1> QED  BY <1>5, <1>6 DEF KnowledgeInv

LEMMA KnowledgeMounts ==
  ASSUME KnowledgeInv, clicks' \in Nat, ~kb.mounted, KnowledgeMount
  PROVE  KnowledgeInv'
<1>0. PICK no \in BOOLEAN : no = FALSE
  OBVIOUS
<1> DEFINE p == [NewKnowledgePage EXCEPT !.mounted = TRUE, !.loading = TRUE]
           t == CallOf("list", "mount", 0, 0, no, clicks')
<1>a. "list" \in {"list", "open"} \cup Write /\ "mount" \in {"mount", "click", "submit", "gone"}
  OBVIOUS
<1>1. t \in KbTasks /\ t.op = "list" /\ t.for = "mount" /\ t.keep = 0
  BY <1>a, CallIs, CallParts
<1>2. p \in KbPage /\ p.selected = 0 /\ ~p.submitting /\ p.mounted
  BY NoDocIsTyped DEF KbPage
<1>3. kb' = p /\ tasks' = tasks \cup {t} /\ UNCHANGED <<docs, overdue>>
  BY <1>0 DEF KnowledgeMount, Call, CallOf
<1> HIDE DEF p, t
<1>4. \A u \in tasks : u.for = "gone"
  BY DEF KnowledgeInv, TasksKept
<1>5. KnowledgeTypeOK'
  <2>1. docs \in [Doc -> DocState] /\ tasks \subseteq KbTasks /\ overdue \in Marks
    BY KbTypes DEF KnowledgeInv
  <2> QED  BY <1>1, <1>2, <1>3, <1>4, <2>1 DEF KnowledgeTypeOK, KbPage, KbTasks, Marks
<1>6. TasksKept'
  BY <1>1, <1>2, <1>3, <1>4 DEF KnowledgeInv, TasksKept, Write
<1>7. PageKept'
  BY <1>1, <1>2, <1>3 DEF PageKept, ListsAgain
<1> QED  BY <1>5, <1>6, <1>7 DEF KnowledgeInv

LEMMA KnowledgeLeaves ==
  ASSUME KnowledgeInv, KnowledgeUnmount
  PROVE  KnowledgeInv'
<1> DEFINE writes == {u \in tasks : u.op \in Write /\ u.state = "asked"}
<1>1. kb' = NewKnowledgePage /\ tasks' = {[t EXCEPT !.for = "gone"] : t \in writes}
      /\ UNCHANGED <<docs, overdue>>
  BY DEF KnowledgeUnmount
<1>2. docs \in [Doc -> DocState] /\ tasks \subseteq KbTasks /\ overdue \in Marks
  BY KbTypes DEF KnowledgeInv
<1>3. \A t \in writes : t \in KbTasks /\ t.op \in Write /\ (t.op # "upload" => t.doc \in Doc)
  BY <1>2 DEF KnowledgeInv, TasksKept, Write
<1>4. \A t \in KbTasks : LET u == [t EXCEPT !.for = "gone"] IN
        u \in KbTasks /\ u.op = t.op /\ u.doc = t.doc /\ u.for = "gone"
  BY DEF KbTasks
<1> HIDE DEF writes
<1>5. \A u \in tasks' : u \in KbTasks /\ u.for = "gone" /\ u.op \in Write
                        /\ (u.op # "upload" => u.doc \in Doc)
  <2>1. SUFFICES ASSUME NEW t \in writes, NEW u, u = [t EXCEPT !.for = "gone"]
                 PROVE  u \in KbTasks /\ u.for = "gone" /\ u.op \in Write
                        /\ (u.op # "upload" => u.doc \in Doc)
    BY <1>1
  <2>2. u \in KbTasks /\ u.op = t.op /\ u.doc = t.doc /\ u.for = "gone"
    BY <1>3, <1>4, <2>1
  <2> QED  BY <1>3, <2>2
<1>6. KnowledgeTypeOK'
  BY <1>1, <1>2, <1>5, NoDocIsTyped DEF KnowledgeTypeOK, KbPage, KbTasks, Marks
<1>7. TasksKept'
  BY <1>1, <1>5, NoDocIsTyped DEF KnowledgeInv, TasksKept, Write
<1>8. PageKept'
  BY <1>1, NoDocIsTyped DEF PageKept
<1> QED  BY <1>6, <1>7, <1>8 DEF KnowledgeInv

\* What a step has to show of the page that looks neither at what is listed nor
\* at what is selected, and only begins a task.
LEMMA PageStep ==
  ASSUME KnowledgeInv, NEW p \in KbPage, kb' = p,
         p.mounted = kb.mounted, p.list = kb.list, p.selected = kb.selected,
         p.detail = kb.detail, UNCHANGED <<docs, overdue>>,
         \/ tasks' = tasks /\ p.submitting = kb.submitting
         \/ \E t \in KbTasks :
              /\ tasks' = tasks \cup {t} /\ kb.mounted /\ t.state = "asked"
              /\ \/ /\ t.op = "open" /\ t.for = "click" /\ t.doc \in Doc
                    /\ p.submitting = kb.submitting
                 \/ /\ t.op \in Write /\ t.for = "submit" /\ ~kb.submitting /\ p.submitting
                    /\ t.op # "upload" => t.doc \in Doc /\ t.keep # 0
  PROVE  KnowledgeInv'
<1>1. docs \in [Doc -> DocState] /\ tasks \subseteq KbTasks /\ overdue \in Marks
      /\ (kb.submitting <=> \E t \in tasks : t.for = "submit")
  BY KbTypes DEF KnowledgeInv
<1>2. p.submitting <=> \E t \in tasks' : t.for = "submit"
  BY <1>1
<1>3. tasks' \subseteq KbTasks
  BY <1>1
<1>4. KnowledgeTypeOK'
  BY <1>1, <1>2, <1>3 DEF KnowledgeTypeOK, KbPage, KbTasks, Marks
<1>5. TasksKept'
  BY <1>1 DEF KnowledgeInv, TasksKept, Write
<1>6. Visible' = Visible
  BY DEF Visible
<1>7. PageKept'
  BY <1>6 DEF KnowledgeInv, PageKept
<1> QED  BY <1>4, <1>5, <1>7 DEF KnowledgeInv

LEMMA KnowledgeClicks ==
  ASSUME KnowledgeInv, clicks \in Nat,
         \/ \E which \in {"file", "reprocessFile"} : ChooseFile(which)
         \/ \E d \in Doc : OpenDocument(d)
         \/ \E op \in Write : Submit(op)
  PROVE  KnowledgeInv'
<1>1. kb \in KbPage
  BY KbTypes DEF KnowledgeInv
<1>2. ASSUME NEW which \in {"file", "reprocessFile"}, ChooseFile(which)
      PROVE  KnowledgeInv'
  <2> DEFINE p == [kb EXCEPT ![which] = TRUE]
  <2>1. p \in KbPage /\ p.mounted = kb.mounted /\ p.list = kb.list
        /\ p.selected = kb.selected /\ p.detail = kb.detail /\ p.submitting = kb.submitting
    BY <1>1 DEF KbPage
  <2>2. kb' = p /\ UNCHANGED <<docs, tasks, overdue>>
    BY <1>2 DEF ChooseFile
  <2> HIDE DEF p
  <2> QED  BY <2>1, <2>2, PageStep
<1>3. ASSUME NEW d \in Doc, OpenDocument(d)
      PROVE  KnowledgeInv'
  <2>0. PICK no \in BOOLEAN : no = FALSE
    OBVIOUS
  <2> DEFINE p == [kb EXCEPT !.loadingDetail = TRUE]
             t == CallOf("open", "click", d, 0, no, clicks')
  <2>1. p \in KbPage /\ p.mounted = kb.mounted /\ p.list = kb.list
        /\ p.selected = kb.selected /\ p.detail = kb.detail /\ p.submitting = kb.submitting
    BY <1>1 DEF KbPage
  <2>b. tasks' = tasks \cup {t}
    BY <1>3, <2>0 DEF OpenDocument, Call, CallOf
  <2>2. clicks' \in Nat /\ kb.mounted /\ kb' = p /\ tasks' = tasks \cup {t}
        /\ UNCHANGED <<docs, overdue>>
    <3>1. Click /\ kb.mounted /\ kb' = p /\ UNCHANGED <<docs, overdue>>
      BY <1>3 DEF OpenDocument
    <3>2. clicks' \in Nat
      BY <3>1 DEF Click
    <3> QED  BY <2>b, <3>1, <3>2
  <2>a. "open" \in {"list", "open"} \cup Write /\ "click" \in {"mount", "click", "submit", "gone"}
        /\ d \in 0..MaxDocs
    BY CallParts
  <2>3. t \in KbTasks /\ t.op = "open" /\ t.for = "click" /\ t.doc = d /\ t.state = "asked"
    <3>1. t.op = "open" /\ t.for = "click" /\ t.doc = d /\ t.state = "asked"
      BY DEF CallOf
    <3>2. t \in KbTasks
      BY <2>2, <2>a, CallParts, NoDocIsTyped DEF CallOf, KbTasks
    <3> QED  BY <3>1, <3>2
  <2> HIDE DEF p, t
  <2> QED  BY <2>1, <2>2, <2>3, PageStep
<1>4. ASSUME NEW op \in Write, Submit(op)
      PROVE  KnowledgeInv'
  <2> DEFINE p == [kb EXCEPT !.submitting = TRUE, !.success = FALSE]
  <2>1. p \in KbPage /\ p.mounted = kb.mounted /\ p.list = kb.list
        /\ p.selected = kb.selected /\ p.detail = kb.detail /\ p.submitting
    BY <1>1 DEF KbPage
  <2>2. clicks' \in Nat /\ kb.mounted /\ ~kb.submitting /\ kb' = p /\ UNCHANGED <<docs, overdue>>
        /\ Offered(op)
    BY <1>4 DEF Submit, Click
  <2>3. kb.selected \in 0..MaxDocs /\ kb.detail.active \in BOOLEAN
    BY <1>1 DEF KbPage, DocState
  <2> HIDE DEF p
  <2>a. op \in {"list", "open"} \cup Write /\ "submit" \in {"mount", "click", "submit", "gone"}
    OBVIOUS
  <2>4. CASE op = "upload"
    <3>1. PICK a \in BOOLEAN :
            tasks' = tasks \cup {CallOf(op, "submit", 0, kb.selected, a, clicks')}
      BY <1>4, <2>4 DEF Submit, Call, CallOf
    <3> DEFINE t == CallOf(op, "submit", 0, kb.selected, a, clicks')
    <3>2. t \in KbTasks /\ t.op = op /\ t.for = "submit" /\ t.state = "asked"
      <4>1. t.op = op /\ t.for = "submit" /\ t.state = "asked"
        BY DEF CallOf
      <4>2. t \in KbTasks
        <5>1. clicks' \in Nat /\ kb.selected \in 0..MaxDocs /\ 0 \in 0..MaxDocs
          BY <2>2, <2>3, CallParts
        <5> QED  BY <2>a, <5>1, NoDocIsTyped DEF CallOf, KbTasks
      <4> QED  BY <4>1, <4>2
    <3>3. tasks' = tasks \cup {t}
      BY <3>1
    <3> HIDE DEF t
    <3> QED  BY <2>1, <2>2, <2>4, <3>2, <3>3, PageStep
  <2>5. CASE op # "upload"
    <3>0. PICK a \in BOOLEAN : a = ~kb.detail.active
      BY <2>3
    <3> DEFINE t == CallOf(op, "submit", kb.selected, kb.selected, a, clicks')
    <3>1. tasks' = tasks \cup {t}
      BY <1>4, <2>5, <3>0 DEF Submit, Call, CallOf
    <3>2. kb.selected # 0 /\ kb.selected \in Doc
      BY <2>2, <2>3, <2>5, NoDocIsTyped DEF Offered, Write
    <3>3. t \in KbTasks /\ t.op = op /\ t.for = "submit" /\ t.state = "asked"
          /\ t.doc = kb.selected /\ t.keep = kb.selected
      <4>1. t.op = op /\ t.for = "submit" /\ t.doc = kb.selected /\ t.keep = kb.selected
            /\ t.state = "asked"
        BY DEF CallOf
      <4>2. t \in KbTasks
        BY <2>2, <2>3, <2>a, NoDocIsTyped DEF CallOf, KbTasks
      <4> QED  BY <4>1, <4>2
    <3> HIDE DEF t
    <3> QED  BY <2>1, <2>2, <3>1, <3>2, <3>3, PageStep
  <2> QED  BY <2>4, <2>5
<1> QED  BY <1>2, <1>3, <1>4


LEMMA CarriedIs ==
  ASSUME KnowledgeInv, NEW t \in tasks, NEW ds \in Carried(t)
  PROVE  /\ ds \in [Doc -> DocState]
         /\ \A d \in Doc : ds[d].there => ds[d].version # 0
         /\ t.op \notin Write => ds = docs
         /\ t.op = "open" => docs[t.doc].there
         /\ t.op = "upload" => \A d \in Doc : docs[d].there => ds[d] = docs[d]
<1>1. docs \in [Doc -> DocState] /\ t \in KbTasks
      /\ (\A d \in Doc : docs[d].there => docs[d].version # 0)
      /\ (t.op \notin {"list", "upload"} => t.doc \in Doc)
  BY KbTypes DEF KnowledgeInv, TasksKept
<1>2. CASE t.op = "list"
  BY <1>1, <1>2 DEF Carried, Write
<1>3. CASE t.op = "upload"
  <2> DEFINE n == [there |-> TRUE, active |-> t.active, version |-> 1]
  <2>1. PICK d \in Doc : docs[d].version = 0 /\ ds = [docs EXCEPT ![d] = n]
    BY <1>3 DEF Carried
  <2>2. n \in DocState /\ n.version # 0
    BY <1>1, NoDocIsTyped DEF DocState, KbTasks
  <2> HIDE DEF n
  <2> QED  BY <1>1, <1>3, <2>1, <2>2 DEF Write
<1>4. CASE t.op = "open"
  BY <1>1, <1>4 DEF Carried, Write
<1>5. CASE t.op \in {"status", "remove", "reprocess"}
  <2>1. t.doc \in Doc /\ docs[t.doc].there /\ docs[t.doc] \in DocState
    BY <1>1, <1>5 DEF Carried
  <2>2. CASE t.op = "status"
    <3> DEFINE n == [docs[t.doc] EXCEPT !.active = t.active]
    <3>1. n \in DocState /\ n.version = docs[t.doc].version
      BY <1>1, <2>1 DEF DocState, KbTasks
    <3>2. ds = [docs EXCEPT ![t.doc] = n]
      BY <2>1, <2>2 DEF Carried
    <3> HIDE DEF n
    <3> QED  BY <1>1, <2>1, <2>2, <3>1, <3>2 DEF Write
  <2>3. CASE t.op = "remove"
    <3> DEFINE n == [there |-> FALSE, active |-> FALSE, version |-> 1]
    <3>1. n \in DocState /\ n.version # 0
      BY NoDocIsTyped DEF DocState
    <3>2. ds = [docs EXCEPT ![t.doc] = n]
      BY <2>1, <2>3 DEF Carried
    <3> HIDE DEF n
    <3> QED  BY <1>1, <2>1, <2>3, <3>1, <3>2 DEF Write
  <2>4. CASE t.op = "reprocess"
    <3> DEFINE n == [docs[t.doc] EXCEPT !.version = @ + 1]
    <3>1. docs[t.doc].version < MaxVersions /\ ds = [docs EXCEPT ![t.doc] = n]
      BY <2>1, <2>4 DEF Carried
    <3>2. docs[t.doc].version + 1 \in 0..MaxVersions /\ docs[t.doc].version + 1 # 0
      BY <2>1, <3>1, KnowledgeAssumption DEF DocState
    <3>3. n \in DocState /\ n.version # 0
      BY <2>1, <3>2 DEF DocState
    <3> HIDE DEF n
    <3> QED  BY <1>1, <2>1, <2>4, <3>1, <3>3 DEF Write
  <2> QED  BY <1>5, <2>2, <2>3, <2>4
<1> QED  BY <1>1, <1>2, <1>3, <1>4, <1>5 DEF KbTasks, Write

\* A call is answered or lost, and the backend has done it or not.
LEMMA SameTask ==
  ASSUME KnowledgeInv, NEW t \in tasks, NEW u \in KbTasks,
         u.op = t.op, u.for = t.for, u.doc = t.doc, u.keep = t.keep,
         tasks' = (tasks \ {t}) \cup {u}, kb' = kb,
         docs' = docs \/ docs' \in Carried(t),
         overdue' = IF t.for = "gone" THEN Overdue ELSE overdue,
         u.op = "open" /\ u.state = "answered" => u.answer[u.doc].there
  PROVE  KnowledgeInv'
<1>1. docs \in [Doc -> DocState] /\ kb \in KbPage /\ tasks \subseteq KbTasks
      /\ overdue \in Marks /\ (kb.submitting <=> \E e \in tasks : e.for = "submit")
      /\ t \in KbTasks
  BY KbTypes DEF KnowledgeInv
<1>2. docs' \in [Doc -> DocState] /\ (\A d \in Doc : docs'[d].there => docs'[d].version # 0)
      /\ (t.op \notin Write => docs' = docs)
      /\ (t.op = "upload" => \A d \in Doc : docs[d].there => docs'[d] = docs[d])
  BY <1>1, CarriedIs DEF KnowledgeInv, TasksKept
<1>3. overdue' \in Marks
  BY <1>1 DEF Overdue, Marks
<1>4. KnowledgeTypeOK'
  <2>1. tasks' \subseteq KbTasks /\ (kb.submitting <=> \E e \in tasks' : e.for = "submit")
    BY <1>1
  <2> QED  BY <1>1, <1>2, <1>3, <2>1 DEF KnowledgeTypeOK, KbPage, KbTasks, Marks
<1>5. TasksKept'
  BY <1>2 DEF KnowledgeInv, TasksKept
<1>6. CASE t.for = "gone"
  <2>1. overdue'.list /\ overdue'.detail
    BY <1>6 DEF Overdue
  <2> QED  BY <1>4, <1>5, <2>1 DEF KnowledgeInv, PageKept
<1>7. CASE t.for # "gone" /\ docs' = docs
  <2>1. Visible' = Visible
    BY <1>7 DEF Visible
  <2>2. PageKept'
    BY <1>7, <2>1 DEF KnowledgeInv, PageKept, ListsAgain, OpensAgain
  <2> QED  BY <1>4, <1>5, <2>2 DEF KnowledgeInv
<1>8. CASE t.for # "gone" /\ docs' # docs
  <2>1. t.op \in Write /\ t.for = "submit" /\ overdue' = overdue
    BY <1>2, <1>8 DEF KnowledgeInv, TasksKept
  <2>2. ListsAgain(u) /\ (t.op # "upload" => OpensAgain(u))
    BY <2>1 DEF ListsAgain, OpensAgain, Write
  <2>3. CASE t.op # "upload"
    BY <1>4, <1>5, <2>2, <2>3 DEF KnowledgeInv, PageKept
  <2>4. CASE t.op = "upload"
    <3>1. \A d \in Doc : docs[d].there => Visible'[d] = Visible[d]
      BY <1>1, <1>2, <2>4 DEF Visible
    <3>2. ASSUME kb.mounted, ~overdue.detail, kb.selected # 0,
                 \A e \in tasks' : ~OpensAgain(e)
          PROVE  kb.detail = Visible'[kb.selected]
      <4>1. ~OpensAgain(t)
        BY <2>4 DEF OpensAgain
      <4>2. kb.detail = Visible[kb.selected] /\ kb.detail.there
        BY <3>2, <4>1 DEF KnowledgeInv, PageKept, TasksKept
      <4>3. kb.selected \in Doc
        BY <1>1, <3>2, NoDocIsTyped DEF KbPage
      <4> QED  BY <1>1, <3>1, <4>2, <4>3, VisibleIs
    <3>3. PageKept'
      <4>1. \E e \in tasks' : ListsAgain(e)
        BY <2>2
      <4> QED  BY <2>1, <3>2, <4>1 DEF PageKept
    <3> QED  BY <1>4, <1>5, <3>3 DEF KnowledgeInv
  <2> QED  BY <2>3, <2>4
<1> QED  BY <1>6, <1>7, <1>8

LEMMA KnowledgeServes ==
  ASSUME KnowledgeInv, NEW t \in tasks, Serve(t) \/ Lose(t)
  PROVE  KnowledgeInv'
<1>1. docs \in [Doc -> DocState] /\ t \in KbTasks
  BY KbTypes DEF KnowledgeInv
<1>2. kb' = kb /\ overdue' = IF t.for = "gone" THEN Overdue ELSE overdue
  BY DEF Serve, Lose
<1>3. CASE tasks' = (tasks \ {t}) \cup {[t EXCEPT !.state = "failed"]}
  <2> DEFINE u == [t EXCEPT !.state = "failed"]
  <2>1. u \in KbTasks /\ u.op = t.op /\ u.for = t.for /\ u.doc = t.doc /\ u.keep = t.keep
        /\ u.state = "failed"
    BY <1>1 DEF KbTasks
  <2>2. docs' = docs \/ docs' \in Carried(t)
    BY DEF Serve, Lose
  <2>3. tasks' = (tasks \ {t}) \cup {u}
    BY <1>3
  <2> HIDE DEF u
  <2> QED  BY <1>2, <2>1, <2>2, <2>3, SameTask
<1>4. CASE ~(tasks' = (tasks \ {t}) \cup {[t EXCEPT !.state = "failed"]})
  <2>1. Serve(t) /\ docs' \in Carried(t)
    BY <1>4 DEF Serve, Lose
  <2>2. docs' \in [Doc -> DocState] /\ (t.op = "open" => docs' = docs /\ docs[t.doc].there)
        /\ (t.op = "open" => t.doc \in Doc)
    BY <2>1, CarriedIs DEF Write, KnowledgeInv, TasksKept
  <2>3. Visible' \in [Doc -> DocState] /\ (t.op = "open" => Visible'[t.doc].there)
    BY <2>2, NoDocIsTyped DEF Visible
  <2>4. PICK u : u = [t EXCEPT !.state = "answered",
                               !.answer = IF t.op \in Write THEN NoDocs ELSE Visible']
    OBVIOUS
  <2>5. u \in KbTasks /\ u.op = t.op /\ u.for = t.for /\ u.doc = t.doc /\ u.keep = t.keep
        /\ (u.op = "open" => u.answer[u.doc].there)
    <3>1. (IF t.op \in Write THEN NoDocs ELSE Visible') \in [Doc -> DocState]
      BY <2>3, NoDocIsTyped
    <3> QED  BY <1>1, <2>3, <2>4, <3>1 DEF KbTasks, Write
  <2>6. tasks' = (tasks \ {t}) \cup {u}
    BY <1>4, <2>1, <2>4 DEF Serve
  <2> QED  BY <1>2, <2>1, <2>5, <2>6, SameTask
<1> QED  BY <1>3, <1>4

\* What a step has to show that ends a task, or goes on with another of the same
\* operation.
LEMMA TaskEnds ==
  ASSUME KnowledgeInv, NEW t \in tasks, NEW more \in SUBSET KbTasks,
         kb' \in KbPage, overdue' \in Marks, docs' = docs,
         tasks' = (tasks \ {t}) \cup more,
         kb'.mounted = kb.mounted, kb.mounted,
         kb'.selected # 0 => kb'.detail.there,
         t.for = "submit" =>
           /\ kb'.submitting <=> more # {}
           /\ \A u, v \in more : u = v,
         t.for # "submit" => more = {} /\ kb'.submitting = kb.submitting,
         \A u \in more : /\ u.for = "submit" /\ u.op \in {"list", "open"} /\ u.state = "asked"
                         /\ u.op = "open" => u.doc \in Doc
  PROVE  KnowledgeTypeOK' /\ TasksKept' /\ Visible' = Visible
<1>1. docs \in [Doc -> DocState] /\ tasks \subseteq KbTasks
      /\ (kb.submitting <=> \E e \in tasks : e.for = "submit")
  BY KbTypes DEF KnowledgeInv
<1>2. \A e, f \in tasks : e.for = "submit" /\ f.for = "submit" => e = f
  BY DEF KnowledgeInv, TasksKept
<1>3. kb'.submitting <=> \E e \in tasks' : e.for = "submit"
  <2>1. CASE t.for = "submit"
    BY <1>2, <2>1
  <2>2. CASE t.for # "submit"
    BY <1>1, <2>2
  <2> QED  BY <2>1, <2>2
<1>4. KnowledgeTypeOK'
  BY <1>1, <1>3 DEF KnowledgeTypeOK, KbPage, KbTasks, Marks
<1>5. \A e, f \in tasks' : e.for = "submit" /\ f.for = "submit" => e = f
  BY <1>2
<1>6. TasksKept'
  <2>1. \A e \in more : e.for # "gone" /\ e.op \notin Write /\ e.state # "answered"
                        /\ e.op \notin {"status", "remove", "reprocess", "upload"}
    BY DEF Write
  <2> QED  BY <1>5, <2>1 DEF KnowledgeInv, TasksKept
<1>7. Visible' = Visible
  BY DEF Visible
<1> QED  BY <1>4, <1>6, <1>7

LEMMA ReadCall ==
  ASSUME clicks' \in Nat, NEW op \in {"list", "open"}, NEW doc \in 0..MaxDocs,
         NEW keep \in 0..MaxDocs
  PROVE  CallOf(op, "submit", doc, keep, FALSE, clicks') \in KbTasks
<1>1. op \in {"list", "open"} \cup Write /\ FALSE \in BOOLEAN
      /\ "submit" \in {"mount", "click", "submit", "gone"}
  OBVIOUS
<1> QED  BY <1>1, NoDocIsTyped DEF CallOf, KbTasks

\* Who is told of an operation's end: the page it was submitted on.
LEMMA EndedIs ==
  ASSUME NEW t, NEW p \in KbPage
  PROVE  LET q == Ended(t, p)
         IN  /\ q \in KbPage /\ q.mounted = p.mounted /\ q.list = p.list
             /\ q.selected = p.selected /\ q.detail = p.detail
             /\ t.for = "submit" => ~q.submitting
             /\ t.for # "submit" => q.submitting = p.submitting
BY DEF Ended, KbPage

LEMMA KnowledgeLists ==
  ASSUME KnowledgeInv, clicks \in Nat, NEW t \in tasks, Listed(t)
  PROVE  KnowledgeInv'
<1> DEFINE data == IF t.state = "answered" THEN t.answer ELSE NoDocs
           idle == [kb EXCEPT !.loading = FALSE,
                              !.list = IF t.state = "answered" THEN data ELSE @]
           listed == [overdue EXCEPT !.list = idle.list # Visible]
           again == [idle EXCEPT !.loadingDetail = TRUE]
           end == IF t.keep # 0 THEN [idle EXCEPT !.selected = 0] ELSE idle
           u == CallOf("open", "submit", t.keep, 0, FALSE, clicks')
<1>1. kb \in KbPage /\ t \in KbTasks /\ overdue \in Marks
      /\ (kb.submitting <=> \E e \in tasks : e.for = "submit")
  BY KbTypes DEF KnowledgeInv
<1>2. t.op = "list" /\ docs' = docs /\ clicks' \in Nat /\ kb.mounted
      /\ (t.keep # 0 => t.for = "submit") /\ (t.keep # 0 => t.keep \in Doc)
      /\ t.keep \in 0..MaxDocs
  <2>1. t.op = "list" /\ docs' = docs /\ clicks' = clicks
    BY DEF Listed, Neither
  <2>2. t.keep \in 0..MaxDocs /\ (t.keep # 0 => t.keep \in Doc)
    BY <1>1, NoDocIsTyped DEF KbTasks
  <2> QED  BY <2>1, <2>2 DEF KnowledgeInv, TasksKept, Write
<1>3. idle \in KbPage /\ idle.mounted = kb.mounted /\ idle.selected = kb.selected
      /\ idle.detail = kb.detail /\ idle.submitting = kb.submitting
  BY <1>1, NoDocIsTyped DEF KbPage, KbTasks
<1>4. listed \in Marks /\ listed.detail = overdue.detail /\ (listed.list <=> idle.list # Visible)
  BY <1>1 DEF Marks
<1>5. overdue' = listed
  BY DEF Listed
<1>6. \/ /\ t.keep # 0 /\ kb' = again /\ tasks' = (tasks \ {t}) \cup {u}
      \/ kb' = Ended(t, end) /\ tasks' = tasks \ {t}
  BY DEF Listed, Call, CallOf
<1> HIDE DEF idle, listed
<1>7. CASE t.keep # 0 /\ kb' = again /\ tasks' = (tasks \ {t}) \cup {u}
  <2>1. u \in KbTasks /\ u.op = "open" /\ u.for = "submit" /\ u.doc = t.keep /\ u.state = "asked"
    <3>1. u.op = "open" /\ u.for = "submit" /\ u.doc = t.keep /\ u.state = "asked"
      BY DEF CallOf
    <3>2. u \in KbTasks
      BY <1>2, ReadCall, CallParts
    <3> QED  BY <3>1, <3>2
  <2>2. again \in KbPage /\ again.mounted = kb.mounted /\ again.selected = kb.selected
        /\ again.detail = kb.detail /\ again.submitting = kb.submitting /\ again.list = idle.list
    BY <1>3 DEF KbPage
  <2> HIDE DEF again, u
  <2>3. kb.submitting
    BY <1>1, <1>2, <1>7
  <2>4. KnowledgeTypeOK' /\ TasksKept' /\ Visible' = Visible
    <3> DEFINE more == {u}
    <3>1. more \in SUBSET KbTasks /\ tasks' = (tasks \ {t}) \cup more
      BY <1>7, <2>1
    <3>2. kb' \in KbPage /\ overdue' \in Marks /\ docs' = docs /\ kb'.mounted = kb.mounted /\ kb.mounted
      BY <1>2, <1>4, <1>5, <1>7, <2>2
    <3>3. kb'.selected # 0 => kb'.detail.there
      BY <1>7, <2>2 DEF KnowledgeInv, TasksKept
    <3>4. t.for = "submit" /\ kb'.submitting /\ more # {} /\ \A v, w \in more : v = w
      BY <1>2, <1>7, <2>2, <2>3
    <3>5. \A v \in more : /\ v.for = "submit" /\ v.op \in {"list", "open"} /\ v.state = "asked"
                          /\ v.op = "open" => v.doc \in Doc
      BY <1>2, <1>7, <2>1
    <3> HIDE DEF more
    <3> QED  BY <3>1, <3>2, <3>3, <3>4, <3>5, TaskEnds
  <2>5. PageKept'
    BY <1>4, <1>5, <1>7, <2>1, <2>2, <2>4 DEF PageKept, OpensAgain
  <2> QED  BY <2>4, <2>5 DEF KnowledgeInv
<1>8. CASE kb' = Ended(t, end) /\ tasks' = tasks \ {t}
  <2>1. end \in KbPage /\ end.mounted = kb.mounted /\ end.list = idle.list
        /\ end.detail = kb.detail /\ end.submitting = kb.submitting
        /\ end.selected = IF t.keep # 0 THEN 0 ELSE kb.selected
    BY <1>3, NoDocIsTyped DEF KbPage
  <2> HIDE DEF end
  <2>2. kb' \in KbPage /\ kb'.mounted = kb.mounted /\ kb'.list = idle.list
        /\ kb'.detail = kb.detail /\ kb'.selected = (IF t.keep # 0 THEN 0 ELSE kb.selected)
        /\ (t.for = "submit" => ~kb'.submitting)
        /\ (t.for # "submit" => kb'.submitting = kb.submitting)
    BY <1>8, <2>1, EndedIs
  <2>3. KnowledgeTypeOK' /\ TasksKept' /\ Visible' = Visible
    <3>1. {} \in SUBSET KbTasks /\ tasks' = (tasks \ {t}) \cup {}
      BY <1>8
    <3>2. kb'.selected # 0 => kb'.detail.there
      BY <2>2 DEF KnowledgeInv, TasksKept
    <3>3. overdue' \in Marks
      BY <1>4, <1>5
    <3> QED  BY <1>2, <2>2, <3>1, <3>2, <3>3, TaskEnds
  <2>4. ASSUME ~overdue'.detail, kb'.selected # 0, \A e \in tasks' : ~OpensAgain(e)
        PROVE  kb'.detail = Visible'[kb'.selected]
    <3>1. t.keep = 0 /\ ~OpensAgain(t) /\ kb'.selected = kb.selected /\ ~overdue.detail
      BY <1>2, <1>4, <1>5, <2>2, <2>4 DEF OpensAgain
    <3>2. \A e \in tasks : ~OpensAgain(e)
      BY <1>8, <2>4, <3>1
    <3> QED  BY <1>2, <2>2, <2>3, <2>4, <3>1, <3>2 DEF KnowledgeInv, PageKept
  <2>5. PageKept'
    BY <1>4, <1>5, <2>2, <2>3, <2>4 DEF PageKept
  <2> QED  BY <2>3, <2>5 DEF KnowledgeInv
<1> QED  BY <1>6, <1>7, <1>8

LEMMA KnowledgeOpens ==
  ASSUME KnowledgeInv, NEW t \in tasks, Opened(t)
  PROVE  KnowledgeInv'
<1> DEFINE idle == [kb EXCEPT !.loadingDetail = FALSE]
           found == [idle EXCEPT !.selected = t.doc, !.detail = t.answer[t.doc]]
           end == IF t.state = "answered" THEN found ELSE idle
<1>1. docs \in [Doc -> DocState] /\ kb \in KbPage /\ t \in KbTasks /\ overdue \in Marks
  BY KbTypes DEF KnowledgeInv
<1>2. t.op = "open" /\ docs' = docs /\ kb.mounted /\ t.doc \in Doc /\ tasks' = tasks \ {t}
      /\ (t.state = "answered" => t.answer[t.doc].there)
      /\ kb' = Ended(t, end)
  BY DEF Opened, KnowledgeInv, TasksKept, Write
<1>3. t.answer[t.doc] \in DocState /\ t.doc \in 0..MaxDocs
  BY <1>1, <1>2, NoDocIsTyped DEF KbTasks
<1>4. idle \in KbPage /\ idle.mounted = kb.mounted /\ idle.list = kb.list
      /\ idle.selected = kb.selected /\ idle.detail = kb.detail /\ idle.submitting = kb.submitting
  BY <1>1 DEF KbPage
<1> HIDE DEF idle
<1>5. end \in KbPage /\ end.mounted = kb.mounted /\ end.list = kb.list
      /\ end.submitting = kb.submitting
      /\ (t.state = "answered" => end.selected = t.doc /\ end.detail = t.answer[t.doc])
      /\ (t.state # "answered" => end.selected = kb.selected /\ end.detail = kb.detail)
  BY <1>3, <1>4 DEF KbPage
<1> HIDE DEF end
<1>6. kb' \in KbPage /\ kb'.mounted = kb.mounted /\ kb'.list = kb.list
      /\ kb'.selected = end.selected /\ kb'.detail = end.detail
      /\ (t.for = "submit" => ~kb'.submitting)
      /\ (t.for # "submit" => kb'.submitting = kb.submitting)
  BY <1>2, <1>5, EndedIs
<1>7. overdue' \in Marks /\ overdue'.list = overdue.list
      /\ (t.state # "answered" => overdue'.detail)
      /\ (t.state = "answered" => (overdue'.detail <=> t.answer[t.doc] # Visible[t.doc]))
  BY <1>1 DEF Opened, Marks
<1>8. KnowledgeTypeOK' /\ TasksKept' /\ Visible' = Visible
  <2>1. {} \in SUBSET KbTasks /\ tasks' = (tasks \ {t}) \cup {}
    BY <1>2
  <2>2. kb'.selected # 0 => kb'.detail.there
    BY <1>2, <1>5, <1>6 DEF KnowledgeInv, TasksKept
  <2> QED  BY <1>2, <1>6, <1>7, <2>1, <2>2, TaskEnds
<1>9. ~ListsAgain(t)
  BY <1>2 DEF ListsAgain, Write
<1>10. PageKept'
  BY <1>2, <1>5, <1>6, <1>7, <1>8, <1>9 DEF KnowledgeInv, PageKept
<1> QED  BY <1>8, <1>10 DEF KnowledgeInv

LEMMA KnowledgeWrites ==
  ASSUME KnowledgeInv, clicks \in Nat, NEW t \in tasks, Written(t) \/ WriteFailed(t)
  PROVE  KnowledgeInv'
<1>1. kb \in KbPage /\ t \in KbTasks /\ overdue \in Marks
      /\ (kb.submitting <=> \E e \in tasks : e.for = "submit")
  BY KbTypes DEF KnowledgeInv
<1>2. t.op \in Write /\ t.for = "submit" /\ docs' = docs /\ kb.mounted /\ kb.submitting
      /\ (t.op # "upload" => t.keep # 0) /\ t.keep \in 0..MaxDocs
  BY <1>1 DEF Written, WriteFailed, KnowledgeInv, TasksKept, Write, KbTasks
<1>3. kb.selected # 0 => kb.detail.there
  BY DEF KnowledgeInv, TasksKept
<1>4. CASE Written(t)
  <2> DEFINE p == [kb EXCEPT !.loading = TRUE, !.file = @ /\ t.op # "upload",
                             !.reprocessFile = @ /\ t.op # "reprocess"]
             u == CallOf("list", "submit", 0, t.keep, FALSE, clicks')
             more == {u}
  <2>1. kb' = p /\ tasks' = (tasks \ {t}) \cup {u} /\ overdue' = overdue /\ clicks' \in Nat
    BY <1>4 DEF Written, Neither, Call, CallOf
  <2>2. u \in KbTasks /\ u.op = "list" /\ u.for = "submit" /\ u.keep = t.keep /\ u.state = "asked"
    <3>1. u.op = "list" /\ u.for = "submit" /\ u.keep = t.keep /\ u.state = "asked"
      BY DEF CallOf
    <3>2. u \in KbTasks
      BY <1>2, <2>1, ReadCall, CallParts
    <3> QED  BY <3>1, <3>2
  <2>3. p \in KbPage /\ p.mounted = kb.mounted /\ p.list = kb.list /\ p.selected = kb.selected
        /\ p.detail = kb.detail /\ p.submitting = kb.submitting
    BY <1>1 DEF KbPage
  <2> HIDE DEF p, u
  <2>4. KnowledgeTypeOK' /\ TasksKept' /\ Visible' = Visible
    <3>1. more \in SUBSET KbTasks /\ tasks' = (tasks \ {t}) \cup more
      BY <2>1, <2>2
    <3>2. more # {} /\ (\A v, w \in more : v = w)
          /\ \A v \in more : /\ v.for = "submit" /\ v.op \in {"list", "open"} /\ v.state = "asked"
                             /\ v.op = "open" => v.doc \in Doc
      BY <2>2
    <3> HIDE DEF more
    <3> QED  BY <1>1, <1>2, <1>3, <2>1, <2>3, <3>1, <3>2, TaskEnds
  <2>5. ListsAgain(u) /\ (OpensAgain(t) => OpensAgain(u)) /\ u \in tasks'
    BY <1>2, <2>1, <2>2 DEF ListsAgain, OpensAgain
  <2>6. PageKept'
    BY <2>1, <2>3, <2>4, <2>5 DEF KnowledgeInv, PageKept
  <2> QED  BY <2>4, <2>6 DEF KnowledgeInv
<1>5. CASE WriteFailed(t)
  <2> DEFINE p == [kb EXCEPT !.submitting = FALSE]
  <2>1. kb' = p /\ tasks' = (tasks \ {t}) \cup {} /\ overdue' = Overdue
    BY <1>5 DEF WriteFailed
  <2>2. p \in KbPage /\ p.mounted = kb.mounted /\ p.selected = kb.selected
        /\ p.detail = kb.detail /\ ~p.submitting
    BY <1>1 DEF KbPage
  <2>3. Overdue \in Marks /\ Overdue.list /\ Overdue.detail
    BY DEF Overdue, Marks
  <2> HIDE DEF p
  <2>4. KnowledgeTypeOK' /\ TasksKept' /\ Visible' = Visible
    <3>1. {} \in SUBSET KbTasks
      OBVIOUS
    <3> QED  BY <1>2, <1>3, <2>1, <2>2, <2>3, <3>1, TaskEnds
  <2> QED  BY <2>1, <2>3, <2>4 DEF KnowledgeInv, PageKept
<1> QED  BY <1>4, <1>5

LEMMA KnowledgeForgets ==
  ASSUME KnowledgeInv, NEW t \in tasks, Forgotten(t)
  PROVE  KnowledgeInv'
<1>1. t.for = "gone" /\ tasks' = tasks \ {t} /\ UNCHANGED <<docs, kb, overdue>>
      /\ ~OpensAgain(t) /\ ~ListsAgain(t)
  BY DEF Forgotten, OpensAgain, ListsAgain, KnowledgeInv, TasksKept, Write
<1>2. kb.submitting <=> \E e \in tasks' : e.for = "submit"
  BY <1>1, KbTypes DEF KnowledgeInv
<1>3. KnowledgeTypeOK'
  BY <1>1, <1>2 DEF KnowledgeInv, KnowledgeTypeOK
<1>4. TasksKept'
  BY <1>1 DEF KnowledgeInv, TasksKept
<1>5. Visible' = Visible
  BY <1>1 DEF Visible
<1>6. PageKept'
  BY <1>1, <1>5 DEF KnowledgeInv, PageKept
<1> QED  BY <1>3, <1>4, <1>6 DEF KnowledgeInv

LEMMA KnowledgeNextInv ==
  KnowledgeInv /\ clicks \in Nat /\ (KnowledgeNext \/ UNCHANGED kbVars) => KnowledgeInv'
<1> SUFFICES ASSUME KnowledgeInv, clicks \in Nat, KnowledgeNext \/ UNCHANGED kbVars
             PROVE  KnowledgeInv'
  OBVIOUS
<1>1. CASE UNCHANGED kbVars
  BY <1>1 DEF kbVars, KnowledgeInv, KnowledgeTypeOK, TasksKept, PageKept, Visible
<1>2. CASE KnowledgeNext
  BY <1>2, KnowledgeClicks, KnowledgeServes, KnowledgeLists, KnowledgeOpens,
     KnowledgeWrites, KnowledgeForgets DEF KnowledgeNext
<1> QED  BY <1>1, <1>2

-----------------------------------------------------------------------------
(***************************************************************************)
(* AdminPages: a page is mounted that was not, or left that was.           *)
(***************************************************************************)
AdminInv == AdminTypeOK /\ UsersInv /\ KnowledgeInv

LEMMA AdminInitInv == AdminInit => AdminInv
<1> SUFFICES ASSUME AdminInit  PROVE AdminInv
  OBVIOUS
<1>1. UsersInv /\ KnowledgeInv
  BY UsersInitInv, KnowledgeInitInv DEF AdminInit
<1>2. ClicksTypeOK
  BY ClicksAssumption DEF AdminInit, ClicksTypeOK
<1>3. ~users.mounted /\ ~kb.mounted /\ activePage = "chat"
  BY DEF AdminInit, UsersInit, KnowledgeInit, NewUsersPage, NewKnowledgePage
<1> QED  BY <1>1, <1>2, <1>3 DEF AdminInv, AdminTypeOK, UsersInv, KnowledgeInv

\* Only a click counts, and only to its bound.
LEMMA ClicksStay ==
  ASSUME ClicksTypeOK, Click \/ Fault \/ Neither
  PROVE  ClicksTypeOK'
BY ClicksAssumption DEF ClicksTypeOK, Click, Fault, Neither

LEMMA UsersStay ==
  ASSUME UsersInv, UsersNext
  PROVE  users'.mounted = users.mounted /\ (Click \/ Fault \/ Neither)
<1>1. users \in UsersPage
  BY UsersTypes DEF UsersInv
<1>2. ASSUME NEW u \in User, OpenUserRoles(u)
      PROVE  users'.mounted = users.mounted /\ Click
  BY <1>1, <1>2 DEF OpenUserRoles, Opening, UsersPage
<1>3. ASSUME CloseDialog \/ \E r \in Role : ToggleRole(r)
      PROVE  users'.mounted = users.mounted /\ Neither
  BY <1>1, <1>3 DEF CloseDialog, ToggleRole, UsersPage
<1>4. ASSUME SaveRoles
      PROVE  users'.mounted = users.mounted /\ Click
  BY <1>1, <1>4 DEF SaveRoles, UsersPage
<1>5. ASSUME NEW c \in calls, UsersServe(c) \/ UsersRefuse(c)
      PROVE  users'.mounted = users.mounted /\ (Fault \/ Neither)
  BY <1>5 DEF UsersServe, UsersRefuse
<1>6. ASSUME NEW c \in calls, UsersAnswered(c)
      PROVE  users'.mounted = users.mounted /\ Neither
  <2>1. Neither /\ users' \in {users, UsersListed(c), RolesLoaded(c), RolesSaved(c)}
    <3>1. c.op \in {"list", "roles", "save"}
      BY UsersTypes DEF UsersInv, UsersCalls
    <3> QED  BY <1>6, <3>1 DEF UsersAnswered
  <2>2. UsersListed(c).mounted = users.mounted /\ RolesLoaded(c).mounted = users.mounted
    BY <1>1 DEF UsersListed, RolesLoaded, UsersPage
  <2>3. RolesSaved(c).mounted = users.mounted
    BY <1>1 DEF RolesSaved, UsersPage
  <2> QED  BY <2>1, <2>2, <2>3
<1> QED  BY <1>2, <1>3, <1>4, <1>5, <1>6 DEF UsersNext

LEMMA KnowledgeStays ==
  ASSUME KnowledgeInv, KnowledgeNext
  PROVE  kb'.mounted = kb.mounted /\ (Click \/ Fault \/ Neither)
<1>1. kb \in KbPage
  BY KbTypes DEF KnowledgeInv
<1>2. ASSUME NEW which \in {"file", "reprocessFile"}, ChooseFile(which)
      PROVE  kb'.mounted = kb.mounted /\ Neither
  BY <1>1, <1>2 DEF ChooseFile, KbPage
<1>3. ASSUME (\E d \in Doc : OpenDocument(d)) \/ \E op \in Write : Submit(op)
      PROVE  kb'.mounted = kb.mounted /\ Click
  BY <1>1, <1>3 DEF OpenDocument, Submit, KbPage
<1>4. ASSUME NEW t \in tasks, Serve(t) \/ Lose(t) \/ Forgotten(t)
      PROVE  kb'.mounted = kb.mounted /\ (Fault \/ Neither)
  BY <1>4 DEF Serve, Lose, Forgotten
<1>5. ASSUME NEW t \in tasks, Listed(t)
      PROVE  kb'.mounted = kb.mounted /\ Neither
  <2> DEFINE idle == [kb EXCEPT !.loading = FALSE,
                        !.list = IF t.state = "answered"
                                 THEN (IF t.state = "answered" THEN t.answer ELSE NoDocs) ELSE @]
             again == [idle EXCEPT !.loadingDetail = TRUE]
             shut == [idle EXCEPT !.selected = 0]
  <2>1. Neither /\ kb' \in {again, Ended(t, shut), Ended(t, idle)}
    BY <1>5 DEF Listed
  <2>2. idle.mounted = kb.mounted /\ again.mounted = kb.mounted /\ shut.mounted = kb.mounted
        /\ DOMAIN idle = DOMAIN kb /\ DOMAIN shut = DOMAIN kb /\ "mounted" \in DOMAIN kb
    BY <1>1 DEF KbPage
  <2> HIDE DEF idle, again, shut
  <2>3. Ended(t, shut).mounted = shut.mounted /\ Ended(t, idle).mounted = idle.mounted
    BY <2>2 DEF Ended
  <2> QED  BY <2>1, <2>2, <2>3
<1>6. ASSUME NEW t \in tasks, Opened(t)
      PROVE  kb'.mounted = kb.mounted /\ Neither
  <2> DEFINE idle == [kb EXCEPT !.loadingDetail = FALSE]
             found == [idle EXCEPT !.selected = t.doc, !.detail = t.answer[t.doc]]
  <2>1. Neither /\ kb' \in {Ended(t, found), Ended(t, idle)}
    BY <1>6 DEF Opened
  <2>2. idle.mounted = kb.mounted /\ found.mounted = kb.mounted
        /\ DOMAIN idle = DOMAIN kb /\ DOMAIN found = DOMAIN kb /\ "mounted" \in DOMAIN kb
    BY <1>1 DEF KbPage
  <2> HIDE DEF idle, found
  <2>3. Ended(t, found).mounted = found.mounted /\ Ended(t, idle).mounted = idle.mounted
    BY <2>2 DEF Ended
  <2> QED  BY <2>1, <2>2, <2>3
<1>7. ASSUME NEW t \in tasks, Written(t) \/ WriteFailed(t)
      PROVE  kb'.mounted = kb.mounted /\ Neither
  BY <1>1, <1>7 DEF Written, WriteFailed, KbPage
<1> QED  BY <1>2, <1>3, <1>4, <1>5, <1>6, <1>7 DEF KnowledgeNext

LEMMA AdminNextInv == AdminInv /\ [AdminNext]_adminVars => AdminInv'
<1> SUFFICES ASSUME AdminInv, [AdminNext]_adminVars  PROVE AdminInv'
  OBVIOUS
<1>1. ClicksTypeOK /\ clicks \in Nat /\ activePage \in {"chat", "admin", "knowledge"}
      /\ (users.mounted <=> activePage = "admin") /\ (kb.mounted <=> activePage = "knowledge")
      /\ UsersInv /\ KnowledgeInv
  BY DEF AdminInv, AdminTypeOK, ClicksTypeOK
<1> SUFFICES /\ UsersInv' /\ KnowledgeInv' /\ ClicksTypeOK'
             /\ activePage' \in {"chat", "admin", "knowledge"}
             /\ users'.mounted <=> activePage' = "admin"
             /\ kb'.mounted <=> activePage' = "knowledge"
  BY DEF AdminInv, AdminTypeOK, UsersInv, KnowledgeInv
<1>2. CASE UNCHANGED adminVars
  <2>1. UNCHANGED usersVars /\ UNCHANGED kbVars /\ UNCHANGED <<activePage, clicks, faults>>
    BY <1>2 DEF adminVars
  <2>2. UsersInv' /\ KnowledgeInv'
    BY <1>1, <2>1, UsersNextInv, KnowledgeNextInv
  <2>3. users' = users /\ kb' = kb /\ ClicksTypeOK'
    BY <1>1, <2>1 DEF usersVars, kbVars, ClicksTypeOK
  <2> QED  BY <1>1, <2>1, <2>2, <2>3
<1>3. CASE UsersNext /\ UNCHANGED <<kbVars, activePage>>
  <2>1. UsersInv' /\ KnowledgeInv'
    BY <1>1, <1>3, UsersNextInv, KnowledgeNextInv
  <2>2. users'.mounted = users.mounted /\ ClicksTypeOK'
    BY <1>1, <1>3, UsersStay, ClicksStay
  <2>3. kb' = kb
    BY <1>3 DEF kbVars
  <2> QED  BY <1>1, <1>3, <2>1, <2>2, <2>3
<1>4. CASE KnowledgeNext /\ UNCHANGED <<usersVars, activePage>>
  <2>1. UsersInv' /\ KnowledgeInv'
    BY <1>1, <1>4, UsersNextInv, KnowledgeNextInv
  <2>2. kb'.mounted = kb.mounted /\ ClicksTypeOK'
    BY <1>1, <1>4, KnowledgeStays, ClicksStay
  <2>3. users' = users
    BY <1>4 DEF usersVars
  <2> QED  BY <1>1, <1>4, <2>1, <2>2, <2>3
<1>5. ASSUME NEW p \in {"chat", "admin", "knowledge"}, SetActivePage(p)
      PROVE  /\ UsersInv' /\ KnowledgeInv' /\ ClicksTypeOK'
             /\ activePage' \in {"chat", "admin", "knowledge"}
             /\ users'.mounted <=> activePage' = "admin"
             /\ kb'.mounted <=> activePage' = "knowledge"
  <2>1. p # activePage /\ activePage' = p /\ Click
    BY <1>5 DEF SetActivePage
  <2>2. ClicksTypeOK' /\ clicks' \in Nat
    BY <1>1, <2>1, ClicksStay DEF ClicksTypeOK
  <2>3. UsersInv' /\ (users'.mounted <=> p = "admin")
    <3>1. CASE p = "admin"
      <4>1. UsersMount /\ ~users.mounted
        BY <1>1, <1>5, <2>1, <3>1 DEF SetActivePage
      <4>2. users'.mounted
        BY <4>1 DEF UsersMount, NewUsersPage
      <4> QED  BY <1>1, <3>1, <4>1, <4>2, UsersMounts
    <3>2. CASE p # "admin" /\ activePage = "admin"
      <4>1. UsersUnmount
        BY <1>5, <3>2 DEF SetActivePage
      <4>2. ~users'.mounted
        BY <4>1 DEF UsersUnmount, NewUsersPage
      <4> QED  BY <1>1, <3>2, <4>1, <4>2, UsersLeaves
    <3>3. CASE p # "admin" /\ activePage # "admin"
      <4>1. UNCHANGED usersVars
        BY <1>5, <3>3 DEF SetActivePage
      <4>2. users' = users
        BY <4>1 DEF usersVars
      <4> QED  BY <1>1, <3>3, <4>1, <4>2, UsersNextInv
    <3> QED  BY <3>1, <3>2, <3>3
  <2>4. KnowledgeInv' /\ (kb'.mounted <=> p = "knowledge")
    <3>1. CASE p = "knowledge"
      <4>1. KnowledgeMount /\ ~kb.mounted
        BY <1>1, <1>5, <2>1, <3>1 DEF SetActivePage
      <4>2. kb'.mounted
        BY <4>1 DEF KnowledgeMount, NewKnowledgePage
      <4> QED  BY <1>1, <2>2, <3>1, <4>1, <4>2, KnowledgeMounts
    <3>2. CASE p # "knowledge" /\ activePage = "knowledge"
      <4>1. KnowledgeUnmount
        BY <1>5, <3>2 DEF SetActivePage
      <4>2. ~kb'.mounted
        BY <4>1 DEF KnowledgeUnmount, NewKnowledgePage
      <4> QED  BY <1>1, <3>2, <4>1, <4>2, KnowledgeLeaves
    <3>3. CASE p # "knowledge" /\ activePage # "knowledge"
      <4>1. UNCHANGED kbVars
        BY <1>5, <3>3 DEF SetActivePage
      <4>2. kb' = kb
        BY <4>1 DEF kbVars
      <4> QED  BY <1>1, <3>3, <4>1, <4>2, KnowledgeNextInv
    <3> QED  BY <3>1, <3>2, <3>3
  <2> QED  BY <2>1, <2>2, <2>3, <2>4
<1> QED  BY <1>2, <1>3, <1>4, <1>5 DEF AdminNext

-----------------------------------------------------------------------------
(***************************************************************************)
(* ThreadList, for any number of threads.                                  *)
(***************************************************************************)
Dates(dates) == dates \in Seq((0..MaxTime) \cup {NoDate})

LEMMA TimeIs ==
  ASSUME NEW dates, Dates(dates), NEW i \in DOMAIN dates
  PROVE  /\ Time(dates[i]) \in 0..MaxTime + 1
         /\ dates[i] = NoDate <=> Time(dates[i]) = MaxTime + 1
         /\ dates[i] # NoDate => dates[i] \in Nat /\ Time(dates[i]) = dates[i]
<1>1. MaxTime \in Nat /\ NoDate \notin Nat
  BY ThreadListAssumption
<1>2. dates[i] \in (0..MaxTime) \cup {NoDate}
  BY DEF Dates
<1> QED  BY <1>1, <1>2 DEF Time

\* What stands above what is a strict order of the threads.
LEMMA Ordered ==
  ASSUME NEW dates, Dates(dates)
  PROVE  /\ \A i \in DOMAIN dates : ~Precedes(dates, i, i)
         /\ \A i, j \in DOMAIN dates : i = j \/ Precedes(dates, i, j) \/ Precedes(dates, j, i)
         /\ \A i, j, k \in DOMAIN dates :
              Precedes(dates, i, j) /\ Precedes(dates, j, k) => Precedes(dates, i, k)
<1>1. DOMAIN dates = 1..Len(dates) /\ Len(dates) \in Nat
  BY DEF Dates
<1>2. \A i \in DOMAIN dates : Time(dates[i]) \in Nat
  BY TimeIs, ThreadListAssumption
<1> QED  BY <1>1, <1>2 DEF Precedes

LEMMA UpTo ==
  ASSUME NEW n \in Nat  PROVE IsFiniteSet(1..n) /\ Cardinality(1..n) = n
<1>1. 1 \in Int /\ n \in Int
  OBVIOUS
<1>2. IsFiniteSet(1..n) /\ Cardinality(1..n) = IF 1 > n THEN 0 ELSE n - 1 + 1
  BY <1>1, FS_Interval
<1> QED  BY <1>2

\* How many threads stand above each gives its place: the order exists.
LEMMA SortedIs ==
  ASSUME NEW dates, Dates(dates)
  PROVE  /\ Sorted(dates) \in [DOMAIN dates -> DOMAIN dates]
         /\ \A k, l \in DOMAIN dates : k < l => Precedes(dates, Sorted(dates)[k], Sorted(dates)[l])
<1> DEFINE n == Len(dates)
           I == 1..n
           over(i) == {j \in I : Precedes(dates, j, i)}
           rank == [i \in I |-> Cardinality(over(i)) + 1]
<1>1. DOMAIN dates = I /\ n \in Nat
  BY DEF Dates
<1>2. IsFiniteSet(I) /\ Cardinality(I) = n
  BY <1>1, UpTo
<1>3. ASSUME NEW i \in I
      PROVE  IsFiniteSet(over(i)) /\ Cardinality(over(i)) \in Nat /\ Cardinality(over(i)) < n
  <2>1. IsFiniteSet(over(i)) /\ Cardinality(over(i)) \in Nat /\ Cardinality(over(i)) <= n
    BY <1>2, FS_Subset, FS_CardinalityType
  <2>2. over(i) # I
    BY <1>1, Ordered
  <2>3. Cardinality(over(i)) # n
    BY <1>2, <2>2, FS_Subset
  <2> QED  BY <1>1, <2>1, <2>3
<1>4. ASSUME NEW i \in I, NEW j \in I, Precedes(dates, i, j)  PROVE rank[i] < rank[j]
  <2>1. over(i) \subseteq over(j) /\ i \in over(j) /\ i \notin over(i)
    BY <1>1, <1>4, Ordered
  <2>2. Cardinality(over(i)) <= Cardinality(over(j)) /\ Cardinality(over(i)) # Cardinality(over(j))
    BY <1>3, <2>1, FS_Subset
  <2>3. rank[i] = Cardinality(over(i)) + 1 /\ rank[j] = Cardinality(over(j)) + 1
    OBVIOUS
  <2>4. Cardinality(over(i)) \in Nat /\ Cardinality(over(j)) \in Nat
    BY <1>3
  <2> HIDE DEF over, rank
  <2> QED  BY <2>2, <2>3, <2>4
<1> HIDE DEF over
<1>5. rank \in [I -> I]
  BY <1>1, <1>3
<1>6. rank \in Injection(I, I)
  <2> HIDE DEF rank
  <2>1. ASSUME NEW i \in I, NEW j \in I, rank[i] = rank[j]  PROVE i = j
    <3>1. rank[i] \in Int /\ ~(rank[i] < rank[j]) /\ ~(rank[j] < rank[i])
      BY <1>5, <2>1
    <3> QED  BY <1>1, <1>4, <3>1, Ordered
  <2> HIDE DEF rank
  <2> QED  BY <1>5, <2>1 DEF Injection, IsInjective
<1>7. rank \in Surjection(I, I)
  BY <1>2, <1>6, FS_Injection
<1> HIDE DEF rank
<1>8. \A k \in I : \E i \in I : rank[i] = k
  BY <1>7 DEF Surjection
<1> DEFINE order == [k \in I |-> CHOOSE i \in I : rank[i] = k]
<1>9. \A k \in I : order[k] \in I /\ rank[order[k]] = k
  BY <1>8
<1> HIDE DEF order
<1>10. \A k, l \in I : k < l => Precedes(dates, order[k], order[l])
  <2>1. SUFFICES ASSUME NEW k \in I, NEW l \in I, k < l  PROVE Precedes(dates, order[k], order[l])
    OBVIOUS
  <2>2. ~Precedes(dates, order[l], order[k]) /\ order[k] # order[l]
    BY <1>1, <1>4, <1>9, <2>1
  <2> QED  BY <1>1, <1>9, <2>2, Ordered
<1>11. order \in [I -> I]
  BY <1>9 DEF order
<1>12. \E s \in [I -> I] : \A k, l \in I : k < l => Precedes(dates, s[k], s[l])
  BY <1>10, <1>11
<1> QED  BY <1>1, <1>12 DEF Sorted

\* Counting up to N, for a set.
LEMMA CountUp ==
  ASSUME NEW N \in Nat, NEW T, 0 \in T, \A k \in 0..N : k \in T /\ k < N => k + 1 \in T
  PROVE  0..N \subseteq T
<1> DEFINE Missing == (0..N) \ T
<1>1. SUFFICES ASSUME Missing # {}  PROVE FALSE
  OBVIOUS
<1>2. Missing \in SUBSET Nat
  OBVIOUS
<1> HIDE DEF Missing
<1>3. PICK x \in Missing : \A y \in Missing : ~(<<y, x>> \in OpToRel(<, Nat))
  BY <1>1, <1>2, NatLessThanWellFounded, WFMin
<1>4. x \in Nat /\ \A y \in Missing : ~(y < x)
  BY <1>2, <1>3 DEF OpToRel
<1>5. x \in 0..N /\ x \notin T
  BY <1>3 DEF Missing
<1>6. x # 0 /\ x - 1 \in 0..N /\ x - 1 < x /\ x - 1 < N
  BY <1>4, <1>5
<1>7. x - 1 \in T
  BY <1>4, <1>6 DEF Missing
<1>8. (x - 1) + 1 \in T
  BY <1>6, <1>7
<1> QED  BY <1>4, <1>5, <1>8

\* The groups of the first threads are those of one thread less and one more.
LabelAt(dates, order, n) == DateGroupLabel(dates[order[n]], StartOfToday)

LEMMA MadeIs ==
  ASSUME NEW dates, Dates(dates), NEW order
  PROVE  /\ Made(dates, order)[0] = <<>>
         /\ \A n \in 1..Len(dates) :
              Made(dates, order)[n] = Grouped(Made(dates, order)[n - 1], LabelAt(dates, order, n), order[n])
<1> DEFINE N == Len(dates)
           Next1(r, n) == Grouped(r, LabelAt(dates, order, n), order[n])
           Makes(h, n) == h = [i \in 0..n |-> IF i = 0 THEN <<>> ELSE Next1(h[i - 1], i)]
           T == {n \in 0..N : \E h : Makes(h, n)}
<1>1. N \in Nat
  BY DEF Dates
<1>2. 0 \in T
  <2> DEFINE h == [i \in 0..0 |-> <<>>]
  <2>1. Makes(h, 0)
    OBVIOUS
  <2> HIDE DEF Makes
  <2> QED  BY <1>1, <2>1
<1>3. ASSUME NEW n \in 0..N, n \in T, n < N  PROVE n + 1 \in T
  <2>1. PICK h : Makes(h, n)
    BY <1>3
  <2> DEFINE g == [i \in 0..n + 1 |-> IF i = n + 1 THEN Next1(h[n], n + 1) ELSE h[i]]
  <2> HIDE DEF Next1
  <2>2. h[0] = <<>> /\ \A i \in 1..n : h[i] = Next1(h[i - 1], i)
    BY <2>1
  <2>3. g[0] = <<>> /\ \A i \in 1..n + 1 : g[i] = Next1(g[i - 1], i)
    <3>1. n \in Nat /\ g[n + 1] = Next1(h[n], n + 1) /\ \A i \in 0..n : g[i] = h[i]
      BY <1>1
    <3> HIDE DEF g
    <3>2. \A i \in 1..n + 1 : i # n + 1 => i \in 1..n /\ i \in 0..n /\ i - 1 \in 0..n
      BY <3>1
    <3>3. (n + 1) - 1 = n /\ n \in 0..n /\ 0 \in 0..n
      BY <3>1
    <3>4. ASSUME NEW i \in 1..n + 1  PROVE g[i] = Next1(g[i - 1], i)
      BY <2>2, <3>1, <3>2, <3>3
    <3> QED  BY <2>2, <3>1, <3>3, <3>4
  <2>4. g = [i \in 0..n + 1 |-> g[i]]
    OBVIOUS
  <2> HIDE DEF g
  <2>5. Makes(g, n + 1)
    <3>1. \A i \in 0..n + 1 : g[i] = IF i = 0 THEN <<>> ELSE Next1(g[i - 1], i)
      <4>1. \A i \in 0..n + 1 : i = 0 \/ i \in 1..n + 1
        BY <1>1
      <4> QED  BY <2>3, <4>1
    <3> QED  BY <2>4, <3>1
  <2>6. n + 1 \in 0..N
    BY <1>1, <1>3
  <2> HIDE DEF Makes
  <2> QED  BY <2>5, <2>6
<1> HIDE DEF T, Next1, Makes
<1>4. N \in T
  <2>1. \A n \in 0..N : n \in T /\ n < N => n + 1 \in T
    BY <1>3
  <2> HIDE DEF N
  <2>2. 0..N \subseteq T
    BY <1>1, <1>2, <2>1, CountUp
  <2> QED  BY <1>1, <2>2
<1>5. PICK h : Makes(h, N)
  BY <1>4 DEF T
<1>6. Makes(Made(dates, order), N)
  BY <1>5 DEF Made, Makes, Next1, LabelAt
<1> QED  BY <1>1, <1>6 DEF Makes, Next1

\* The labels have an order, in which the sorted threads meet them.
DayOf(label) == IF label = "Today" THEN 0 ELSE IF label = "Yesterday" THEN 1 ELSE 2

GroupSet == [label : {"Today", "Yesterday", "Earlier"}, indices : Seq(Nat)]

LEMMA LabelIs ==
  ASSUME NEW date, NEW now
  PROVE  DateGroupLabel(date, now) \in {"Today", "Yesterday", "Earlier"}
BY DEF DateGroupLabel

LEMMA DayIs ==
  /\ \A l \in {"Today", "Yesterday", "Earlier"} : DayOf(l) \in Nat
  /\ \A l, m \in {"Today", "Yesterday", "Earlier"} : DayOf(l) = DayOf(m) => l = m
BY DEF DayOf

LEMMA LaterDays ==
  ASSUME NEW dates, Dates(dates), NEW i \in DOMAIN dates, NEW j \in DOMAIN dates,
         Precedes(dates, i, j), clock \in Nat
  PROVE  DayOf(DateGroupLabel(dates[i], StartOfToday)) <= DayOf(DateGroupLabel(dates[j], StartOfToday))
<1> DEFINE s == StartOfToday
<1>1. Day \in Nat /\ s \in Int /\ MaxTime \in Nat /\ NoDate \notin Nat
  BY ThreadListAssumption DEF StartOfToday
<1>2. Time(dates[i]) >= Time(dates[j]) /\ Time(dates[i]) \in 0..MaxTime + 1 /\ Time(dates[j]) \in 0..MaxTime + 1
  BY <1>1, TimeIs DEF Precedes
<1>3. dates[i] = NoDate \/ (dates[i] \in 0..MaxTime /\ Time(dates[i]) = dates[i])
  <2>1. dates[i] \in (0..MaxTime) \cup {NoDate}
    BY DEF Dates
  <2> QED  BY <2>1, TimeIs
<1>4. dates[j] = NoDate \/ (dates[j] \in 0..MaxTime /\ Time(dates[j]) = dates[j])
  <2>1. dates[j] \in (0..MaxTime) \cup {NoDate}
    BY DEF Dates
  <2> QED  BY <2>1, TimeIs
<1>5. dates[j] = NoDate => dates[i] = NoDate
  BY <1>1, <1>2, <1>3, TimeIs
<1>6. dates[i] # NoDate => dates[i] \in Nat /\ dates[j] \in Nat /\ dates[i] >= dates[j]
  BY <1>2, <1>3, <1>4, <1>5
<1> HIDE DEF s
<1> QED  BY <1>1, <1>5, <1>6 DEF DateGroupLabel, DayOf, s

\* Groups in the order of their days, with each of the threads, ids, once.
ShownOnce(r, ids) ==
  /\ r \in Seq(GroupSet)
  /\ \A g, h \in DOMAIN r : g < h => DayOf(r[g].label) < DayOf(r[h].label)
  /\ \A g, h \in DOMAIN r : \A a \in DOMAIN r[g].indices : \A b \in DOMAIN r[h].indices :
       r[g].indices[a] = r[h].indices[b] => g = h /\ a = b
  /\ \A g \in DOMAIN r : \A a \in DOMAIN r[g].indices : r[g].indices[a] \in ids
  /\ \A i \in ids : \E g \in DOMAIN r : \E a \in DOMAIN r[g].indices : r[g].indices[a] = i

LastLabel(r, label) == r # <<>> /\ r[Len(r)].label = label

LEMMA GroupedOnce ==
  ASSUME NEW r, NEW ids, ShownOnce(r, ids), NEW i \in Nat, i \notin ids,
         NEW label \in {"Today", "Yesterday", "Earlier"},
         r # <<>> => DayOf(r[Len(r)].label) <= DayOf(label)
  PROVE  ShownOnce(Grouped(r, label, i), ids \cup {i}) /\ LastLabel(Grouped(r, label, i), label)
<1> DEFINE s == Grouped(r, label, i)
           L == Len(r)
<1>1. r \in Seq(GroupSet) /\ L \in Nat /\ DOMAIN r = 1..L
  BY DEF ShownOnce
<1>2. \A g \in DOMAIN r : r[g] \in GroupSet /\ r[g].indices \in Seq(Nat)
                          /\ r[g].label \in {"Today", "Yesterday", "Earlier"}
  <2>1. \A g \in DOMAIN r : r[g] \in GroupSet
    BY <1>1
  <2>2. \A e \in GroupSet : e.indices \in Seq(Nat) /\ e.label \in {"Today", "Yesterday", "Earlier"}
    BY DEF GroupSet
  <2> QED  BY <2>1, <2>2
<1>3. CASE r # <<>> /\ r[L].label = label
  <2> DEFINE x == Append(r[L].indices, i)
             n == Len(r[L].indices)
  <2>1. L \in DOMAIN r /\ n \in Nat /\ DOMAIN r[L].indices = 1..n
    BY <1>1, <1>2, <1>3
  <2>2. x \in Seq(Nat) /\ DOMAIN x = 1..n + 1 /\ x[n + 1] = i /\ \A a \in 1..n : x[a] = r[L].indices[a]
    BY <1>2, <2>1
  <2>3. s = [r EXCEPT ![L].indices = x]
    BY <1>3 DEF Grouped
  <2> HIDE DEF x, s
  <2>4. /\ DOMAIN s = DOMAIN r /\ Len(s) = L /\ s # <<>>
        /\ \A g \in DOMAIN r : g # L => s[g] = r[g]
        /\ s[L] = [r[L] EXCEPT !.indices = x]
    BY <1>1, <1>3, <2>1, <2>3
  <2>5. s[L].label = label /\ s[L].indices = x /\ s[L] \in GroupSet
    BY <1>2, <1>3, <2>1, <2>2, <2>4 DEF GroupSet
  <2>6. s \in Seq(GroupSet)
    BY <1>1, <1>2, <2>1, <2>3, <2>4, <2>5
  <2> HIDE DEF L, n
  <2>7. \A g \in DOMAIN s : s[g].label = r[g].label
    BY <1>3, <2>4, <2>5
  <2>8. \A g \in DOMAIN s : \A a \in DOMAIN s[g].indices :
          \/ a \in DOMAIN r[g].indices /\ s[g].indices[a] = r[g].indices[a] /\ r[g].indices[a] \in ids
          \/ g = L /\ a = n + 1 /\ s[g].indices[a] = i
    <3>1. \A a \in 1..n + 1 : a \in 1..n \/ a = n + 1
      BY <2>1
    <3>2. \A g \in DOMAIN r : \A a \in DOMAIN r[g].indices : r[g].indices[a] \in ids
      BY DEF ShownOnce
    <3>3. CASE \A g \in DOMAIN s : g # L => s[g] = r[g]
      <4>1. \A g \in DOMAIN s : g # L => \A a \in DOMAIN s[g].indices :
              a \in DOMAIN r[g].indices /\ s[g].indices[a] = r[g].indices[a] /\ r[g].indices[a] \in ids
        BY <2>4, <3>2, <3>3, Zenon
      <4>2. \A a \in DOMAIN s[L].indices :
              \/ a \in DOMAIN r[L].indices /\ s[L].indices[a] = r[L].indices[a] /\ r[L].indices[a] \in ids
              \/ a = n + 1 /\ s[L].indices[a] = i
        BY <2>1, <2>2, <2>5, <3>1, <3>2
      <4> QED  BY <4>1, <4>2
    <3> QED  BY <2>4, <3>3
  <2>9. \A g \in DOMAIN r : \A a \in DOMAIN r[g].indices :
          a \in DOMAIN s[g].indices /\ s[g].indices[a] = r[g].indices[a]
    <3>1. \A a \in 1..n : a \in 1..n + 1
      BY <2>1
    <3> QED  BY <2>1, <2>2, <2>4, <2>5, <3>1
  <2>10. \A g, h \in DOMAIN s : g < h => DayOf(s[g].label) < DayOf(s[h].label)
    BY <2>4, <2>7 DEF ShownOnce
  <2>11. \A g, h \in DOMAIN s : \A a \in DOMAIN s[g].indices : \A b \in DOMAIN s[h].indices :
           s[g].indices[a] = s[h].indices[b] => g = h /\ a = b
    BY <2>4, <2>8 DEF ShownOnce
  <2>12. \A g \in DOMAIN s : \A a \in DOMAIN s[g].indices : s[g].indices[a] \in ids \cup {i}
    BY <2>8
  <2>13. \A j \in ids \cup {i} : \E g \in DOMAIN s : \E a \in DOMAIN s[g].indices : s[g].indices[a] = j
    <3>1. \A j \in ids : \E g \in DOMAIN s : \E a \in DOMAIN s[g].indices : s[g].indices[a] = j
      BY <2>4, <2>9 DEF ShownOnce
    <3>2. L \in DOMAIN s /\ n + 1 \in DOMAIN s[L].indices /\ s[L].indices[n + 1] = i
      BY <2>1, <2>2, <2>4, <2>5
    <3> QED  BY <3>1, <3>2
  <2>14. LastLabel(s, label)
    BY <2>4, <2>5 DEF LastLabel
  <2> QED  BY <2>6, <2>10, <2>11, <2>12, <2>13, <2>14 DEF ShownOnce, s
<1>4. CASE ~(r # <<>> /\ r[L].label = label)
  <2> DEFINE e == [label |-> label, indices |-> <<i>>]
  <2>1. e \in GroupSet /\ e.label = label /\ DOMAIN e.indices = {1} /\ e.indices[1] = i
    BY DEF GroupSet
  <2>2. s = Append(r, e)
    BY <1>4 DEF Grouped
  <2> HIDE DEF e, s
  <2>3. /\ s \in Seq(GroupSet) /\ DOMAIN s = 1..L + 1 /\ Len(s) = L + 1 /\ s # <<>>
        /\ s[L + 1] = e /\ \A g \in 1..L : s[g] = r[g]
    BY <1>1, <2>1, <2>2
  <2> HIDE DEF L
  <2>4. \A g \in DOMAIN s : (g \in DOMAIN r /\ s[g] = r[g]) \/ (g = L + 1 /\ s[g] = e)
    BY <1>1, <2>3
  <2>5. ASSUME NEW g \in DOMAIN r  PROVE DayOf(r[g].label) < DayOf(label)
    <3>1. L \in DOMAIN r /\ r # <<>> /\ g <= L
      BY <1>1, <2>5 DEF L
    <3>2. DayOf(r[L].label) <= DayOf(label) /\ DayOf(r[L].label) # DayOf(label)
      BY <1>2, <1>4, <3>1, DayIs DEF L
    <3>3. g = L \/ DayOf(r[g].label) < DayOf(r[L].label)
      BY <1>1, <3>1 DEF ShownOnce
    <3>4. DayOf(r[g].label) \in Nat /\ DayOf(r[L].label) \in Nat /\ DayOf(label) \in Nat
      BY <1>2, <3>1, DayIs
    <3> QED  BY <3>2, <3>3, <3>4
  <2>6. \A g, h \in DOMAIN s : g < h => DayOf(s[g].label) < DayOf(s[h].label)
    <3>1. \A h \in DOMAIN s : h <= L + 1
      BY <1>1, <2>3
    <3>2. \A g, h \in DOMAIN s : g < h => g \in DOMAIN r /\ s[g] = r[g]
      BY <1>1, <2>3
    <3> QED  BY <2>1, <2>4, <2>5, <3>2 DEF ShownOnce
  <2>7. \A g \in DOMAIN s : \A a \in DOMAIN s[g].indices :
          \/ g \in DOMAIN r /\ s[g] = r[g] /\ a \in DOMAIN r[g].indices /\ s[g].indices[a] \in ids
          \/ g = L + 1 /\ a = 1 /\ s[g].indices[a] = i
    BY <2>1, <2>4 DEF ShownOnce
  <2>8. \A g, h \in DOMAIN s : \A a \in DOMAIN s[g].indices : \A b \in DOMAIN s[h].indices :
          s[g].indices[a] = s[h].indices[b] => g = h /\ a = b
    BY <2>7 DEF ShownOnce
  <2>9. \A g \in DOMAIN s : \A a \in DOMAIN s[g].indices : s[g].indices[a] \in ids \cup {i}
    BY <2>7
  <2>10. \A j \in ids \cup {i} : \E g \in DOMAIN s : \E a \in DOMAIN s[g].indices : s[g].indices[a] = j
    <3>1. \A g \in DOMAIN r : g \in DOMAIN s /\ s[g] = r[g]
      BY <1>1, <2>3
    <3>2. \A j \in ids : \E g \in DOMAIN s : \E a \in DOMAIN s[g].indices : s[g].indices[a] = j
      BY <3>1 DEF ShownOnce
    <3>3. L + 1 \in DOMAIN s
      BY <1>1, <2>3
    <3> QED  BY <2>1, <2>3, <3>2, <3>3
  <2>11. LastLabel(s, label)
    BY <2>1, <2>3 DEF LastLabel
  <2> QED  BY <2>3, <2>6, <2>8, <2>9, <2>10, <2>11 DEF ShownOnce, s
<1> QED  BY <1>3, <1>4

\* The order holds every thread once.
LEMMA OrderIs ==
  ASSUME NEW dates, Dates(dates)
  PROVE  LET N == Len(dates)
             order == Sorted(dates)
         IN  /\ N \in Nat /\ DOMAIN dates = 1..N
             /\ order \in [1..N -> 1..N]
             /\ \A k, l \in 1..N : order[k] = order[l] => k = l
             /\ \A i \in 1..N : \E k \in 1..N : order[k] = i
<1> DEFINE N == Len(dates)
           order == Sorted(dates)
           I == 1..N
<1>1. N \in Nat /\ DOMAIN dates = I
  BY DEF Dates
<1>2. order \in [I -> I]
  BY <1>1, SortedIs
<1>3. \A k, l \in I : k < l => order[k] # order[l]
  BY <1>1, <1>2, SortedIs, Ordered
<1> HIDE DEF order
<1>4. \A k, l \in I : k < l \/ l < k \/ k = l
  BY <1>1
<1>5. \A k, l \in I : order[k] = order[l] => k = l
  BY <1>3, <1>4
<1>6. IsFiniteSet(I)
  BY <1>1, UpTo
<1> HIDE DEF I
<1>7. order \in Injection(I, I)
  BY <1>2, <1>5 DEF Injection, IsInjective
<1>8. order \in Surjection(I, I)
  BY <1>6, <1>7, FS_Injection
<1>9. \A i \in I : \E k \in I : order[k] = i
  BY <1>8 DEF Surjection
<1> QED  BY <1>1, <1>2, <1>5, <1>9 DEF I, order

\* After n of the threads each of them is shown once, and the last group is
\* that of the latest.
MadeSoFar(dates, n) ==
  LET r == Made(dates, Sorted(dates))[n]
  IN  /\ ShownOnce(r, {Sorted(dates)[k] : k \in 1..n})
      /\ r # <<>> => n # 0 /\ LastLabel(r, LabelAt(dates, Sorted(dates), n))

LEMMA MadeOnce ==
  ASSUME NEW dates, Dates(dates), clock \in Nat, NEW n \in 0..Len(dates)
  PROVE  MadeSoFar(dates, n)
<1> DEFINE N == Len(dates)
           order == Sorted(dates)
           steps == Made(dates, order)
           T == {m \in 0..N : MadeSoFar(dates, m)}
<1>1. /\ N \in Nat /\ DOMAIN dates = 1..N
      /\ order \in [1..N -> 1..N]
      /\ \A k, l \in 1..N : order[k] = order[l] => k = l
      /\ \A k, l \in 1..N : k < l => Precedes(dates, order[k], order[l])
  <2>1. /\ N \in Nat /\ DOMAIN dates = 1..N
        /\ order \in [1..N -> 1..N]
        /\ \A k, l \in 1..N : order[k] = order[l] => k = l
    BY OrderIs, Zenon
  <2>2. \A k, l \in DOMAIN dates : k < l => Precedes(dates, order[k], order[l])
    BY SortedIs
  <2> QED  BY <2>1, <2>2
<1>2. /\ steps[0] = <<>>
      /\ \A m \in 1..N : steps[m] = Grouped(steps[m - 1], LabelAt(dates, order, m), order[m])
  BY MadeIs
<1> HIDE DEF steps, order
<1>3. 0 \in T
  <2>1. 0 \in 0..N /\ {order[k] : k \in 1..0} = {}
    BY <1>1
  <2>2. ShownOnce(<<>>, {})
    BY DEF ShownOnce
  <2> QED  BY <1>2, <2>1, <2>2 DEF MadeSoFar, steps, order
<1>4. ASSUME NEW m \in 0..N, m \in T, m < N  PROVE m + 1 \in T
  <2> DEFINE p == m + 1
             label == LabelAt(dates, order, p)
             ids == {order[k] : k \in 1..m}
  <2>1. /\ m \in Nat /\ p \in 1..N /\ p \in 0..N /\ p - 1 = m /\ p # 0
        /\ \A k \in 1..m : k \in 1..N /\ k < p /\ k # p
    BY <1>1, <1>4
  <2>2. ShownOnce(steps[m], ids) /\ (steps[m] # <<>> => m # 0 /\ LastLabel(steps[m], LabelAt(dates, order, m)))
    BY <1>4 DEF MadeSoFar, steps, order
  <2>3. steps[p] = Grouped(steps[m], label, order[p])
    BY <1>2, <2>1
  <2>4. order[p] \in Nat /\ order[p] \notin ids
    BY <1>1, <2>1
  <2>5. label \in {"Today", "Yesterday", "Earlier"}
    BY LabelIs DEF LabelAt
  <2>6. steps[m] # <<>> => DayOf(steps[m][Len(steps[m])].label) <= DayOf(label)
    <3>1. SUFFICES ASSUME steps[m] # <<>>  PROVE DayOf(steps[m][Len(steps[m])].label) <= DayOf(label)
      OBVIOUS
    <3>2. m \in 1..N /\ m < p
      BY <1>1, <1>4, <2>1, <2>2, <3>1
    <3>3. order[m] \in DOMAIN dates /\ order[p] \in DOMAIN dates /\ Precedes(dates, order[m], order[p])
      BY <1>1, <2>1, <3>2
    <3>4. DayOf(LabelAt(dates, order, m)) <= DayOf(label)
      BY <3>3, LaterDays DEF LabelAt
    <3> QED  BY <2>2, <3>1, <3>4 DEF LastLabel
  <2> HIDE DEF label
  <2>7. ShownOnce(steps[p], ids \cup {order[p]}) /\ LastLabel(steps[p], label)
    <3> DEFINE r == steps[m]
               i == order[p]
    <3> HIDE DEF ids, p
    <3>1. /\ ShownOnce(r, ids) /\ i \in Nat /\ i \notin ids
          /\ r # <<>> => DayOf(r[Len(r)].label) <= DayOf(label)
      BY <2>2, <2>4, <2>6
    <3> HIDE DEF r, i
    <3>2. ShownOnce(Grouped(r, label, i), ids \cup {i}) /\ LastLabel(Grouped(r, label, i), label)
      BY <2>5, <3>1, GroupedOnce
    <3> QED  BY <2>3, <3>2 DEF r, i
  <2>8. ids \cup {order[p]} = {order[k] : k \in 1..p}
    <3>1. \A k : k \in 1..p <=> k \in 1..m \/ k = p
      BY <2>1
    <3> QED  BY <3>1
  <2> HIDE DEF ids, p
  <2>9. MadeSoFar(dates, p)
    BY <2>1, <2>7, <2>8 DEF MadeSoFar, steps, order, label
  <2> QED  BY <2>1, <2>9 DEF p
<1> HIDE DEF T
<1>5. \A m \in 0..N : m \in T /\ m < N => m + 1 \in T
  BY <1>4
<1> HIDE DEF N
<1>6. 0..N \subseteq T
  BY <1>1, <1>3, <1>5, CountUp
<1> QED  BY <1>6 DEF T, N

\* What groups of the threads come to.
LEMMA GroupsOnce ==
  ASSUME NEW dates, Dates(dates), clock \in Nat
  PROVE  Groups(dates) = <<>> \/ ShownOnce(Groups(dates), DOMAIN dates)
<1> DEFINE N == Len(dates)
           order == Sorted(dates)
<1>1. /\ N \in Nat /\ DOMAIN dates = 1..N
      /\ order \in [1..N -> 1..N]
      /\ \A i \in 1..N : \E k \in 1..N : order[k] = i
  BY OrderIs
<1>2. {order[k] : k \in 1..N} = DOMAIN dates
  <2> HIDE DEF order, N
  <2> QED  BY <1>1
<1>3. N \in 0..N
  BY <1>1
<1>4. MadeSoFar(dates, N)
  BY <1>3, MadeOnce
<1>5. ShownOnce(Made(dates, order)[N], DOMAIN dates)
  BY <1>2, <1>4 DEF MadeSoFar
<1> QED  BY <1>5 DEF Groups

\* The same of the variables, with the places of the groups.
ListInv ==
  /\ ListTypeOK /\ (loading => active = 0)
  /\ groups = <<>> \/ ShownOnce(groups, DOMAIN threads)

LEMMA KeyedIs == ListInv => GroupsKeyed
<1> SUFFICES ASSUME ListInv  PROVE GroupsKeyed
  OBVIOUS
<1> DEFINE at(p) == groups[p[1]].indices[p[2]]
<1>1. \A p : p \in Places(groups) <=>
        \E g \in DOMAIN groups : \E a \in DOMAIN groups[g].indices : p = <<g, a>>
  BY DEF Places
<1>2. CASE groups = <<>>
  <2>1. DOMAIN groups = {}
    BY <1>2
  <2> QED  BY <1>1, <1>2, <2>1 DEF GroupsKeyed
<1>3. CASE ShownOnce(groups, DOMAIN threads)
  <2>1. \A g, h \in DOMAIN groups : groups[g].label = groups[h].label => g = h
    <3>1. DOMAIN groups \subseteq Nat
      BY <1>3 DEF ShownOnce
    <3>2. \A g, h \in DOMAIN groups : g < h \/ h < g \/ g = h
      BY <3>1
    <3>3. \A g \in DOMAIN groups : DayOf(groups[g].label) \in Nat
      BY DEF DayOf
    <3>4. \A g, h \in DOMAIN groups : g < h => DayOf(groups[g].label) < DayOf(groups[h].label)
      BY <1>3 DEF ShownOnce
    <3>5. \A g, h \in DOMAIN groups : g < h => groups[g].label # groups[h].label
      BY <3>3, <3>4
    <3> QED  BY <3>2, <3>5
  <2>2. \A p, q \in Places(groups) : at(p) = at(q) => p = q
    BY <1>1, <1>3 DEF ShownOnce
  <2>3. {at(p) : p \in Places(groups)} = DOMAIN threads
    <3>1. \A p \in Places(groups) : at(p) \in DOMAIN threads
      BY <1>1, <1>3 DEF ShownOnce
    <3>2. ASSUME NEW i \in DOMAIN threads  PROVE \E p \in Places(groups) : at(p) = i
      <4>1. PICK g \in DOMAIN groups : \E a \in DOMAIN groups[g].indices : groups[g].indices[a] = i
        BY <1>3 DEF ShownOnce
      <4>2. PICK a \in DOMAIN groups[g].indices : groups[g].indices[a] = i
        BY <4>1
      <4>3. <<g, a>> \in Places(groups) /\ at(<<g, a>>) = i
        BY <1>1, <4>2
      <4> QED  BY <4>3
    <3> QED  BY <3>1, <3>2
  <2> QED  BY <2>1, <2>2, <2>3 DEF GroupsKeyed
<1> QED  BY <1>2, <1>3 DEF ListInv

LEMMA ListChanges ==
  ASSUME NEW dates, dates \in Seq(0..clock \cup {NoDate}), Len(dates) <= MaxThreads,
         ListTypeOK, Changed(dates), loading' \in BOOLEAN, active' \in 0..Len(dates),
         loading' => active' = 0
  PROVE  ListInv'
<1>1. MaxTime \in Nat /\ clock \in 0..MaxTime /\ clock' = clock /\ clock \in Nat
  BY ThreadListAssumption DEF ListTypeOK, Changed
<1>2. (0..clock) \cup {NoDate} \subseteq (0..MaxTime) \cup {NoDate}
  BY <1>1
<1>3. Dates(dates)
  <2> DEFINE A == (0..clock) \cup {NoDate}
             B == (0..MaxTime) \cup {NoDate}
  <2>1. dates \in Seq(A) /\ A \subseteq B
    BY <1>2
  <2> HIDE DEF A, B
  <2>2. dates \in Seq(B)
    BY <2>1
  <2> QED  BY <2>2 DEF B, Dates
<1>4. threads' = dates /\ groups' = Groups(dates)
  BY DEF Changed
<1>5. groups' = <<>> \/ ShownOnce(groups', DOMAIN threads')
  BY <1>1, <1>3, <1>4, GroupsOnce
<1>6. ListTypeOK'
  BY <1>1, <1>4 DEF ListTypeOK
<1>7. groups' = <<>> \/ ShownOnce(groups, DOMAIN threads)'
  BY <1>5 DEF ShownOnce, GroupSet, DayOf
<1> QED  BY <1>6, <1>7 DEF ListInv

LEMMA GroupsStay ==
  ASSUME ListInv, UNCHANGED <<threads, groups>>
  PROVE  groups' = <<>> \/ ShownOnce(groups, DOMAIN threads)'
<1> DEFINE gs == groups
           ids == DOMAIN threads
<1>1. gs = <<>> \/ ShownOnce(gs, ids)
  BY DEF ListInv
<1>2. groups' = gs /\ DOMAIN threads' = ids
  OBVIOUS
<1>3. ShownOnce(groups', DOMAIN threads') <=> ShownOnce(gs, ids)
  BY <1>2
<1> QED  BY <1>1, <1>2, <1>3 DEF ShownOnce, GroupSet, DayOf

LEMMA ListInitInv == ListInit => ListInv
BY ThreadListAssumption DEF ListInit, ListInv, ListTypeOK

LEMMA ListNextInv == ListInv /\ [ListNext]_listVars => ListInv'
<1> SUFFICES ASSUME ListInv, [ListNext]_listVars  PROVE ListInv'
  OBVIOUS
<1> DEFINE A == (0..clock) \cup {NoDate}
<1>1. /\ ListTypeOK /\ MaxThreads \in Nat /\ MaxTime \in Nat /\ clock \in Nat /\ loading \in BOOLEAN
      /\ threads \in Seq(A) /\ Len(threads) \in Nat /\ Len(threads) <= MaxThreads
      /\ active \in 0..Len(threads) /\ DOMAIN threads = 1..Len(threads)
  BY ThreadListAssumption DEF ListInv, ListTypeOK
<1>2. CASE UNCHANGED listVars
  <2>1. UNCHANGED <<loading, threads, groups, clock, active>>
    BY <1>2 DEF listVars
  <2>2. groups' = <<>> \/ ShownOnce(groups, DOMAIN threads)'
    BY <2>1, GroupsStay
  <2> QED  BY <2>1, <2>2 DEF ListInv, ListTypeOK
<1>3. ASSUME NEW n \in 0..MaxThreads, NEW dates \in [1..n -> A], ListLoaded(dates)  PROVE ListInv'
  <2>1. n \in Nat /\ n <= MaxThreads
    BY <1>1
  <2> HIDE DEF A
  <2>2. dates \in Seq(A) /\ Len(dates) = n
    BY <2>1
  <2>3. active' = 0 /\ loading' \in BOOLEAN /\ Changed(dates)
    BY <1>3 DEF ListLoaded, ListInv
  <2>4. active' \in 0..Len(dates)
    BY <2>1, <2>2, <2>3
  <2> QED  BY <1>1, <2>1, <2>2, <2>3, <2>4, ListChanges DEF A
<1>4. ASSUME NEW i \in DOMAIN threads, SwitchTo(i)  PROVE ListInv'
  <2>1. UNCHANGED <<loading, threads, groups, clock>> /\ active' \in 0..Len(threads) /\ ~loading
    BY <1>1, <1>4 DEF SwitchTo
  <2>2. groups' = <<>> \/ ShownOnce(groups, DOMAIN threads)'
    BY <2>1, GroupsStay
  <2> QED  BY <2>1, <2>2 DEF ListInv, ListTypeOK
<1>5. ASSUME NEW i \in DOMAIN threads, Gone(i)  PROVE ListInv'
  <2> DEFINE s == SubSeq(threads, 1, i - 1)
             t == SubSeq(threads, i + 1, Len(threads))
  <2>1. i \in 1..Len(threads)
    BY <1>1
  <2> HIDE DEF A
  <2>2. s \in Seq(A) /\ Len(s) = i - 1
    BY <1>1, <2>1
  <2>3. t \in Seq(A) /\ Len(t) = Len(threads) - i
    BY <1>1, <2>1
  <2> HIDE DEF s, t
  <2>4. s \o t \in Seq(A) /\ Len(s \o t) = Len(threads) - 1
    <3>1. s \o t \in Seq(A) /\ Len(s \o t) = Len(s) + Len(t)
      BY <2>2, <2>3
    <3> QED  BY <1>1, <2>1, <2>2, <2>3, <3>1
  <2>5. Changed(s \o t) /\ loading' = loading /\ ~loading
        /\ active' = IF active = i THEN 0 ELSE IF active > i THEN active - 1 ELSE active
    BY <1>5 DEF Gone, s, t
  <2>6. active' \in 0..(Len(threads) - 1) /\ Len(threads) - 1 <= MaxThreads
    BY <1>1, <2>1, <2>5
  <2> QED  BY <1>1, <2>4, <2>5, <2>6, ListChanges DEF A
<1>6. CASE MessageSent
  <2> DEFINE s == [threads EXCEPT ![active] = clock]
  <2>1. clock \in A /\ active \in DOMAIN threads
    BY <1>1, <1>6 DEF MessageSent
  <2> HIDE DEF A
  <2>2. s \in Seq(A) /\ Len(s) = Len(threads)
    BY <1>1, <2>1
  <2>3. Changed(s) /\ loading' = loading /\ ~loading /\ active' = active
    BY <1>6 DEF MessageSent
  <2> HIDE DEF s
  <2> QED  BY <1>1, <2>2, <2>3, ListChanges DEF A
<1>7. CASE New
  <2> DEFINE s == <<NoDate>> \o threads
  <2>1. NoDate \in A
    OBVIOUS
  <2> HIDE DEF A
  <2>2. s \in Seq(A) /\ Len(s) = Len(threads) + 1
    BY <1>1, <2>1
  <2>3. Changed(s) /\ loading' = loading /\ ~loading /\ active' = 1 /\ Len(threads) < MaxThreads
    BY <1>7 DEF New
  <2> HIDE DEF s
  <2>4. active' \in 0..Len(s) /\ Len(s) <= MaxThreads
    BY <1>1, <2>2, <2>3
  <2> QED  BY <1>1, <2>2, <2>3, <2>4, ListChanges DEF A
<1>8. CASE Tick
  <2>1. UNCHANGED <<loading, threads, groups, active>> /\ clock' \in 0..MaxTime /\ clock' = clock + 1
    BY <1>1, <1>8 DEF Tick
  <2> DEFINE B == (0..clock') \cup {NoDate}
  <2>2. A \subseteq B
    BY <1>1, <2>1
  <2> HIDE DEF A, B
  <2>3. threads \in Seq(B)
    BY <1>1, <2>2
  <2>4. groups' = <<>> \/ ShownOnce(groups, DOMAIN threads)'
    BY <2>1, GroupsStay
  <2>5. ListTypeOK'
    BY <1>1, <2>1, <2>3 DEF ListTypeOK, B
  <2> QED  BY <2>1, <2>4, <2>5 DEF ListInv
<1> QED  BY <1>2, <1>3, <1>4, <1>5, <1>6, <1>7, <1>8 DEF ListNext

-----------------------------------------------------------------------------
(***************************************************************************)
(* The types of the parts that nothing above says.                         *)
(***************************************************************************)
CallSet == [status : {"running", "requires-action", "complete", "error", "cancelled"},
            way : {"approval", "interrupt", "result"}, declared : DeclaredLists \cup {NoList},
            decided : BOOLEAN, args : BOOLEAN]
FoldSet == [open : BOOLEAN, mounted : BOOLEAN]
CardSet == [open : BOOLEAN, prev : BOOLEAN, mounted : BOOLEAN]
PromptSet == [submitted : BOOLEAN,
              confirming : {o.id : o \in UNION DeclaredLists} \cup {Nothing}]

\* A card is mounted with its group and asks as its call does; a prompt is with
\* a mounted card that asks.
CardFits == /\ group \in FoldSet /\ (group.open => group.mounted)
            /\ card \in CardSet \cup {Nothing} /\ (card = Nothing <=> ~group.mounted)
            /\ card # Nothing => (card.open => card.mounted) /\ card.prev = Asks
PromptFits == /\ prompt \in PromptSet \cup {Nothing}
              /\ prompt # Nothing <=> card # Nothing /\ card.mounted /\ Asks

ToolTyped == /\ call \in CallSet /\ CardFits /\ PromptFits
             /\ showing \in 0..MaxShowings /\ hostSteps \in 0..MaxHostSteps

LEMMA ToolNothing == Nothing \notin CardSet /\ Nothing \notin PromptSet
BY ToolCardAssumption DEF CardSet, PromptSet

LEMMA ApprovalIs ==
  ASSUME NEW c  PROVE "approval" \in Content(c) <=> c.status = "requires-action"
<1>1. "approval" \in Content(c) <=>
        CASE "approval" = "arguments" -> HasArguments(c)
          [] "approval" = "error" -> Incomplete(c)
          [] "approval" = "approval" -> c.status = "requires-action"
          [] "approval" = "result" -> HasResult(c)
  BY DEF Content
<1> QED  BY <1>1

LEMMA ToolTypes == ToolTyped => ToolTypeOK
BY ApprovalIs DEF ToolTyped, CardFits, PromptFits, ToolTypeOK, CallSet, Asks

LEMMA ToolTypedInit == ToolInit => ToolTyped
BY ToolNothing, ToolCardAssumption
   DEF ToolInit, ToolTyped, CardFits, PromptFits, CallSet, FoldSet, Asks

LEMMA PromptedFits ==
  ASSUME ToolTyped, NEW mounted, Prompted(mounted)
  PROVE  /\ prompt' \in PromptSet \cup {Nothing} /\ showing' \in 0..MaxShowings
         /\ prompt' # Nothing <=> mounted /\ call'.status = "requires-action"
<1> DEFINE values == {o.id : o \in UNION DeclaredLists} \cup {Nothing}
<1>0. Nothing \in values /\ PromptSet = [submitted : BOOLEAN, confirming : values]
  BY DEF PromptSet
<1> HIDE DEF values
<1>1. Fresh \in PromptSet /\ Fresh # Nothing
  <2>1. Fresh \in PromptSet
    BY <1>0 DEF Fresh
  <2> QED  BY <2>1, ToolNothing
<1>2. prompt \in PromptSet \cup {Nothing} /\ showing \in 0..MaxShowings /\ MaxShowings \in Nat
  BY ToolCardAssumption DEF ToolTyped, PromptFits
<1>3. "approval" \in Content(call') <=> call'.status = "requires-action"
  BY ApprovalIs
<1> QED  BY <1>1, <1>2, <1>3 DEF Prompted

\* A click on the prompt changes what it holds.
LEMMA PromptHolds ==
  ASSUME ToolTyped, prompt # Nothing, prompt' \in PromptSet,
         UNCHANGED <<call, group, card, showing, hostSteps>>
  PROVE  ToolTyped'
<1>1. prompt' # Nothing
  BY ToolNothing
<1> QED  BY <1>1 DEF ToolTyped, CardFits, PromptFits, Asks

LEMMA OptionIds ==
  ASSUME ToolTyped, NEW o \in Options
  PROVE  o.id \in {p.id : p \in UNION DeclaredLists}
<1>1. Declared \in DeclaredLists /\ o \in Declared
  BY DEF Options, Declared, ToolTyped, CallSet
<1> QED  BY <1>1

LEMMA HostFits ==
  ASSUME ToolTyped, NEW c \in CallSet, HostStep(c)
  PROVE  ToolTyped'
<1> DEFINE asks == c.status = "requires-action"
<1>1. call' = c /\ asks \in BOOLEAN /\ Asks' = asks /\ group' = group
  BY DEF HostStep, Asks
<1>2. hostSteps' \in 0..MaxHostSteps
  BY ToolCardAssumption DEF HostStep, ToolTyped
<1>3. card' = IF card = Nothing \/ card.prev = asks THEN card
              ELSE IF asks THEN [open |-> TRUE, prev |-> TRUE, mounted |-> TRUE]
              ELSE [card EXCEPT !.prev = FALSE]
  BY DEF HostStep
<1>4. CardFits'
  <2> HIDE DEF asks
  <2>1. CardFits
    BY DEF ToolTyped
  <2>2. CASE card = Nothing \/ card.prev = asks
    BY <1>1, <1>3, <2>1, <2>2 DEF CardFits
  <2>3. CASE card # Nothing /\ card.prev # asks /\ asks
    <3>1. card' \in CardSet /\ card'.open /\ card'.prev = TRUE /\ card'.mounted
      BY <1>3, <2>3 DEF CardSet
    <3> QED  BY <1>1, <2>1, <2>3, <3>1, ToolNothing DEF CardFits
  <2>4. CASE card # Nothing /\ card.prev # asks /\ ~asks
    <3>1. card' = [card EXCEPT !.prev = FALSE] /\ card \in CardSet
      BY <1>3, <2>1, <2>4 DEF CardFits
    <3>2. card' \in CardSet /\ card'.open = card.open /\ card'.mounted = card.mounted /\ card'.prev = FALSE
      BY <3>1 DEF CardSet
    <3> QED  BY <1>1, <2>1, <2>4, <3>2, ToolNothing DEF CardFits
  <2> QED  BY <2>2, <2>3, <2>4
<1>5. Prompted(card # Nothing /\ card'.mounted)
  BY DEF HostStep
<1>6. /\ prompt' \in PromptSet \cup {Nothing} /\ showing' \in 0..MaxShowings
      /\ prompt' # Nothing <=> (card # Nothing /\ card'.mounted) /\ call'.status = "requires-action"
  BY <1>5, PromptedFits
<1>7. card' = Nothing <=> card = Nothing
  BY <1>1, <1>4 DEF CardFits, ToolTyped
<1>8. PromptFits'
  BY <1>1, <1>6, <1>7 DEF PromptFits, Asks
<1> QED  BY <1>1, <1>2, <1>4, <1>6, <1>8 DEF ToolTyped

LEMMA ToolTypedNext ==
  ASSUME ToolTyped, [ToolNext]_toolVars
  PROVE  ToolTyped'
<1>1. /\ call \in CallSet /\ CardFits /\ PromptFits
      /\ showing \in 0..MaxShowings /\ hostSteps \in 0..MaxHostSteps
  BY DEF ToolTyped
<1>2. CASE ToggleGroup
  <2>1. /\ group' = Toggled(group) /\ card' = (IF group.mounted THEN card ELSE NewCard)
        /\ UNCHANGED <<call, hostSteps>> /\ Prompted(card'.mounted)
    BY <1>2 DEF ToggleGroup
  <2>2. group' \in FoldSet /\ group'.mounted
    BY <1>1, <2>1 DEF CardFits, FoldSet, Toggled
  <2>3. NewCard \in CardSet /\ (NewCard.open => NewCard.mounted) /\ NewCard.prev = Asks
    BY DEF NewCard, CardSet, Asks
  <2>4. card' \in CardSet /\ (card'.open => card'.mounted) /\ card'.prev = Asks /\ Asks' = Asks
    BY <1>1, <2>1, <2>3 DEF CardFits, Asks
  <2>5. CardFits'
    BY <2>2, <2>4, ToolNothing DEF CardFits
  <2>6. PromptFits' /\ showing' \in 0..MaxShowings
    BY <2>1, <2>4, PromptedFits, ToolNothing DEF PromptFits, Asks
  <2> QED  BY <1>1, <2>1, <2>5, <2>6 DEF ToolTyped
<1>3. CASE ToggleCard
  <2>1. /\ group.open /\ card' = Toggled(card) /\ UNCHANGED <<call, group, hostSteps>>
        /\ Prompted(TRUE)
    BY <1>3 DEF ToggleCard
  <2>2. card \in CardSet /\ card.prev = Asks /\ Asks' = Asks
    BY <1>1, <2>1 DEF CardFits, Asks
  <2>3. card' \in CardSet /\ card'.mounted /\ card'.prev = Asks
    BY <2>1, <2>2 DEF CardSet, Toggled
  <2>4. CardFits'
    BY <1>1, <2>1, <2>2, <2>3, ToolNothing DEF CardFits
  <2>5. PromptFits' /\ showing' \in 0..MaxShowings
    BY <2>1, <2>3, PromptedFits, ToolNothing DEF PromptFits, Asks
  <2> QED  BY <1>1, <2>1, <2>4, <2>5 DEF ToolTyped
<1>4. CASE GroupGone
  <2>1. /\ group' = [group EXCEPT !.mounted = FALSE] /\ card' = Nothing /\ prompt' = Nothing
        /\ ~group.open /\ UNCHANGED <<call, showing, hostSteps>>
    BY <1>4 DEF GroupGone, Folded
  <2>2. group' \in FoldSet /\ ~group'.open /\ ~group'.mounted
    BY <1>1, <2>1 DEF CardFits, FoldSet
  <2> QED  BY <1>1, <2>1, <2>2 DEF ToolTyped, CardFits, PromptFits
<1>5. CASE CardGone
  <2>1. /\ card # Nothing /\ ~card.open /\ card' = [card EXCEPT !.mounted = FALSE] /\ prompt' = Nothing
        /\ UNCHANGED <<call, group, showing, hostSteps>>
    BY <1>5 DEF CardGone, Folded
  <2>2. card \in CardSet /\ card.prev = Asks /\ Asks' = Asks
    BY <1>1, <2>1 DEF CardFits, Asks
  <2>3. card' \in CardSet /\ ~card'.open /\ ~card'.mounted /\ card'.prev = Asks
    BY <2>1, <2>2 DEF CardSet
  <2>4. CardFits'
    BY <1>1, <2>1, <2>2, <2>3, ToolNothing DEF CardFits
  <2>5. PromptFits'
    BY <2>1, <2>3 DEF PromptFits
  <2> QED  BY <1>1, <2>1, <2>4, <2>5 DEF ToolTyped
<1>6. ASSUME prompt # Nothing  PROVE prompt \in PromptSet
  BY <1>1, <1>6 DEF PromptFits
<1>7. ASSUME NEW approved \in BOOLEAN, Respond(approved)  PROVE ToolTyped'
  <2>1. prompt # Nothing /\ prompt' = [prompt EXCEPT !.submitted = TRUE]
        /\ UNCHANGED <<call, group, card, showing, hostSteps>>
    BY <1>7 DEF Respond, Pressed, PromptVisible, Submitted, Told
  <2>2. prompt' \in PromptSet
    BY <1>6, <2>1 DEF PromptSet
  <2> QED  BY <2>1, <2>2, PromptHolds
<1>8. ASSUME NEW o \in Options, RespondWithOption(o), prompt # Nothing  PROVE ToolTyped'
  <2>1. prompt' \in PromptSet /\ UNCHANGED <<call, group, card, showing, hostSteps>>
    BY <1>8 DEF RespondWithOption, Told, PromptSet
  <2> QED  BY <1>8, <2>1, PromptHolds
<1>9. ASSUME NEW o \in Options, HandleOption(o)  PROVE ToolTyped'
  <2>1. prompt # Nothing
    BY <1>9 DEF HandleOption, Pressed, PromptVisible
  <2>2. CASE o.confirm
    <3>1. prompt' = [prompt EXCEPT !.confirming = o.id] /\ UNCHANGED <<call, group, card, showing, hostSteps>>
      BY <1>9, <2>2 DEF HandleOption
    <3>2. prompt' \in PromptSet
      BY <1>6, <2>1, <3>1, OptionIds DEF PromptSet
    <3> QED  BY <2>1, <3>1, <3>2, PromptHolds
  <2>3. CASE ~o.confirm
    BY <1>8, <1>9, <2>1, <2>3 DEF HandleOption
  <2> QED  BY <2>2, <2>3
<1>10. ASSUME NEW o \in Options, Confirm(o)  PROVE ToolTyped'
  BY <1>8, <1>10 DEF Confirm, Pressed, PromptVisible
<1>11. CASE Back
  <2>1. prompt # Nothing /\ prompt' = [prompt EXCEPT !.confirming = Nothing]
        /\ UNCHANGED <<call, group, card, showing, hostSteps>>
    BY <1>11 DEF Back, Pressed, PromptVisible
  <2>2. prompt' \in PromptSet
    BY <1>6, <2>1 DEF PromptSet
  <2> QED  BY <2>1, <2>2, PromptHolds
<1>12. ASSUME NEW list \in DeclaredLists \cup {NoList},
              NEW way \in {"approval", "interrupt", "result"}, Ask(way, list)
       PROVE  ToolTyped'
  <2> DEFINE c == [call EXCEPT !.status = "requires-action", !.way = way, !.declared = list,
                               !.decided = FALSE]
  <2>1. c \in CallSet
    BY <1>1 DEF CallSet
  <2> QED  BY <1>12, <2>1, HostFits DEF Ask
<1>13. ASSUME NEW list \in DeclaredLists \cup {NoList}, Relist(list)  PROVE ToolTyped'
  <2>1. [call EXCEPT !.declared = list] \in CallSet
    BY <1>1 DEF CallSet
  <2> QED  BY <1>13, <2>1, HostFits DEF Relist
<1>14. CASE Argue \/ Decide \/ GoOn
  <2>1. /\ [call EXCEPT !.args = TRUE] \in CallSet /\ [call EXCEPT !.decided = TRUE] \in CallSet
        /\ [call EXCEPT !.status = "running"] \in CallSet
    BY <1>1 DEF CallSet
  <2> QED  BY <1>14, <2>1, HostFits DEF Argue, Decide, GoOn
<1>15. ASSUME NEW status \in {"complete", "error", "cancelled"}, EndCall(status)  PROVE ToolTyped'
  <2>1. [call EXCEPT !.status = status] \in CallSet
    BY <1>1 DEF CallSet
  <2> QED  BY <1>15, <2>1, HostFits DEF EndCall
<1>16. CASE UNCHANGED toolVars
  BY <1>16 DEF toolVars, ToolTyped, CardFits, PromptFits, Asks
<1> QED  BY <1>2, <1>3, <1>4, <1>5, <1>7, <1>9, <1>10, <1>11, <1>12, <1>13, <1>14, <1>15, <1>16
         DEF ToolNext

\* Reasoning: an observer is one of a group that is there.
LEMMA ReasoningTypes ==
  ASSUME ReasoningTypeOK, [ReasoningNext]_reasoningVars
  PROVE  ReasoningTypeOK'
<1>1. /\ parts \in Seq(PartType) /\ Len(parts) \in Nat /\ Len(parts) <= MaxParts /\ running \in BOOLEAN
      /\ userOpen \in [1..MaxParts -> {"none", "open", "closed"}] /\ MaxParts \in Nat
  BY ReasoningAssumption DEF ReasoningTypeOK
<1>2. PinEffect => pinned' \subseteq Starts(parts')
  BY DEF PinEffect
<1>3. ASSUME NEW t \in PartType, PartAppended(t)  PROVE ReasoningTypeOK'
  <2>1. parts' \in Seq(PartType) /\ Len(parts') = Len(parts) + 1 /\ Len(parts) < MaxParts
    BY <1>1, <1>3 DEF PartAppended
  <2>2. Len(parts') <= MaxParts
    BY <1>1, <2>1
  <2> QED  BY <1>1, <1>2, <1>3, <2>1, <2>2 DEF PartAppended, ReasoningTypeOK
<1>4. CASE MessageEnded
  BY <1>1, <1>2, <1>4 DEF MessageEnded, ReasoningTypeOK
<1>5. ASSUME NEW i \in 1..MaxParts, HandleOpenChange(i)  PROVE ReasoningTypeOK'
  <2>1. userOpen' \in [1..MaxParts -> {"none", "open", "closed"}]
    BY <1>1, <1>5 DEF HandleOpenChange
  <2> QED  BY <1>1, <1>2, <1>5, <2>1 DEF HandleOpenChange, ReasoningTypeOK
<1>6. CASE UNCHANGED reasoningVars
  BY <1>6 DEF reasoningVars, ReasoningTypeOK, Starts
<1> QED  BY <1>3, <1>4, <1>5, <1>6 DEF ReasoningNext

\* CodeHeader: writes and timers come of copies that were made.
CodeInv == CodeTypeOK /\ writing + timers <= copies

LEMMA CodeCounts ==
  ASSUME NEW w \in Nat, NEW m \in Nat, NEW c \in Nat, w + m <= c, c <= MaxCopies
  PROVE  {w, m, c} \subseteq 0..MaxCopies
BY CodeHeaderAssumption

LEMMA CodeTypes ==
  ASSUME CodeInv, [CodeNext]_codeVars
  PROVE  CodeInv'
<1>1. /\ writing \in Nat /\ timers \in Nat /\ copies \in Nat /\ copies <= MaxCopies
      /\ writing + timers <= copies /\ MaxCopies \in Nat
  BY CodeHeaderAssumption DEF CodeInv, CodeTypeOK
<1>2. isCopied \in BOOLEAN /\ (isCopied => timers > 0)
  BY DEF CodeInv, CodeTypeOK
<1>3. CASE OnCopy
  <2>1. writing' = writing + 1 /\ timers' = timers /\ copies' = copies + 1 /\ copies < MaxCopies
    BY <1>3 DEF OnCopy
  <2>2. /\ writing' \in Nat /\ timers' \in Nat /\ copies' \in Nat /\ copies' <= MaxCopies
        /\ writing' + timers' <= copies'
    BY <1>1, <2>1
  <2>3. isCopied' \in BOOLEAN /\ (isCopied' => timers' > 0)
    BY <1>2, <1>3 DEF OnCopy
  <2> QED  BY <2>2, <2>3, CodeCounts DEF CodeInv, CodeTypeOK
<1>4. CASE CopiedDuration
  <2>1. writing' = writing /\ timers' = timers - 1 /\ copies' = copies /\ timers > 0 /\ isCopied' = FALSE
    BY <1>4 DEF CopiedDuration
  <2>2. /\ writing' \in Nat /\ timers' \in Nat /\ copies' \in Nat /\ copies' <= MaxCopies
        /\ writing' + timers' <= copies'
    BY <1>1, <2>1
  <2> QED  BY <2>1, <2>2, CodeCounts DEF CodeInv, CodeTypeOK
<1>5. ASSUME NEW succeeds \in BOOLEAN, CopyToClipboard(succeeds)  PROVE CodeInv'
  <2>1. writing' = writing - 1 /\ copies' = copies /\ writing > 0
    BY <1>5 DEF CopyToClipboard
  <2>2. /\ writing' \in Nat /\ timers' \in Nat /\ copies' \in Nat /\ copies' <= MaxCopies
        /\ writing' + timers' <= copies'
    <3>1. CASE succeeds
      <4>1. timers' = timers + 1
        BY <1>5, <3>1 DEF CopyToClipboard
      <4> QED  BY <1>1, <2>1, <4>1
    <3>2. CASE ~succeeds
      <4>1. timers' = timers
        BY <1>5, <3>2 DEF CopyToClipboard
      <4> QED  BY <1>1, <2>1, <4>1
    <3> QED  BY <3>1, <3>2
  <2>3. isCopied' \in BOOLEAN /\ (isCopied' => timers' > 0)
    <3>1. CASE succeeds
      <4>1. isCopied' = TRUE /\ timers' = timers + 1
        BY <1>5, <3>1 DEF CopyToClipboard
      <4> QED  BY <1>1, <4>1
    <3>2. CASE ~succeeds
      BY <1>2, <1>5, <3>2 DEF CopyToClipboard
    <3> QED  BY <3>1, <3>2
  <2> QED  BY <2>2, <2>3, CodeCounts DEF CodeInv, CodeTypeOK
<1>6. CASE UNCHANGED codeVars
  BY <1>6 DEF codeVars, CodeInv, CodeTypeOK
<1> QED  BY <1>3, <1>4, <1>5, <1>6 DEF CodeNext

\* ThreadPage: nothing is asked, answered or edited before the thread is loaded.
MessageSet == [role : {"user", "assistant"}, status : {"running", "complete", "error", "cancelled"},
               branches : 1..MaxBranches, branch : 1..MaxBranches]
PageSet == [{"isLoading", "threadsLoading", "running", "text", "dictating"} -> BOOLEAN]

PageInv == PageTypeOK /\ (page.isLoading => messages = <<>>)

\* At most the last message is being written, and that is an answer.
Last(ms) ==
  /\ ms \in Seq(MessageSet)
  /\ \A m \in DOMAIN ms :
       /\ ms[m].branch <= ms[m].branches
       /\ ms[m].status = "running" => m = Len(ms) /\ ms[m].role = "assistant"

LEMMA PageTypeIs ==
  PageTypeOK <=>
    /\ page \in PageSet /\ Last(messages)
    /\ page.running <=> \E m \in DOMAIN messages : messages[m].status = "running"
    /\ editing \subseteq {m \in DOMAIN messages : messages[m].role = "user"}
    /\ page.dictating => "dictation" \in Capability
<1>1. ASSUME NEW m \in DOMAIN messages, editing \subseteq {n \in DOMAIN messages : messages[n].role = "user"}
      PROVE  View(m) = "assistant" <=> messages[m].role = "assistant"
  BY <1>1 DEF View
<1> QED  BY <1>1 DEF PageTypeOK, PageSet, Last, MessageSet, Writing

LEMMA QuestionIs ==
  ASSUME NEW n \in 1..MaxBranches
  PROVE  /\ Question(n) \in MessageSet /\ Question(n).role = "user" /\ Question(n).status = "complete"
         /\ Question(n).branch <= Question(n).branches
         /\ \A status \in {"running", "complete", "error", "cancelled"} :
              /\ Answer(status, n) \in MessageSet /\ Answer(status, n).role = "assistant"
              /\ Answer(status, n).status = status
              /\ Answer(status, n).branch <= Answer(status, n).branches
BY DEF Question, Answer, MessageSet, MaxBranches

\* Messages without one that is being written.
Settled(ms) == \A m \in DOMAIN ms : ms[m].status # "running"

LEMMA LastAfter ==
  ASSUME NEW ms, Last(ms), Settled(ms), NEW new, Last(new)
  PROVE  /\ Last(ms \o new)
         /\ Settled(new) <=> Settled(ms \o new)
         /\ \A m \in DOMAIN ms : m \in DOMAIN (ms \o new) /\ (ms \o new)[m] = ms[m]
<1> DEFINE all == ms \o new
<1>1. ms \in Seq(MessageSet) /\ new \in Seq(MessageSet) /\ Len(ms) \in Nat /\ Len(new) \in Nat
      /\ DOMAIN ms = 1..Len(ms) /\ DOMAIN new = 1..Len(new)
  BY DEF Last
<1>2. all \in Seq(MessageSet) /\ Len(all) = Len(ms) + Len(new) /\ DOMAIN all = 1..Len(all)
      /\ (\A m \in 1..Len(ms) : all[m] = ms[m])
      /\ (\A m \in 1..Len(new) : all[Len(ms) + m] = new[m])
  BY <1>1
<1> HIDE DEF all
<1>3. \A m \in DOMAIN all : \/ m \in DOMAIN ms /\ all[m] = ms[m]
                            \/ m - Len(ms) \in DOMAIN new /\ all[m] = new[m - Len(ms)]
                               /\ (m - Len(ms) = Len(new) => m = Len(all))
  <2>1. ASSUME NEW m \in 1..Len(all)
        PROVE  m \in 1..Len(ms) \/ (m - Len(ms) \in 1..Len(new) /\ m = Len(ms) + (m - Len(ms)))
    BY <1>1, <1>2
  <2>2. \A m \in 1..Len(all) : m - Len(ms) = Len(new) => m = Len(all)
    BY <1>1, <1>2
  <2> QED  BY <1>1, <1>2, <2>1, <2>2
<1>4. Last(all)
  <2>1. \A m \in DOMAIN all : all[m].branch <= all[m].branches
    BY <1>3 DEF Last
  <2>2. \A m \in DOMAIN all : all[m].status = "running" => m = Len(all) /\ all[m].role = "assistant"
    BY <1>3 DEF Last, Settled
  <2> QED  BY <1>2, <2>1, <2>2 DEF Last
<1>5. \A m \in DOMAIN ms : m \in DOMAIN all /\ all[m] = ms[m]
  <2>1. \A m \in 1..Len(ms) : m \in 1..Len(all)
    BY <1>1, <1>2
  <2> QED  BY <1>1, <1>2, <2>1
<1>6. Settled(new) <=> Settled(all)
  <2>1. \A m \in 1..Len(new) : Len(ms) + m \in 1..Len(all)
    BY <1>1, <1>2
  <2>2. Settled(all) => Settled(new)
    BY <1>1, <1>2, <2>1 DEF Settled
  <2>3. Settled(new) => Settled(all)
    BY <1>3 DEF Settled
  <2> QED  BY <2>2, <2>3
<1> QED  BY <1>4, <1>5, <1>6 DEF all

\* A question with the answer that is written under it, one of the two alone.
LEMMA TurnIs ==
  ASSUME NEW n \in 1..MaxBranches
  PROVE  Last(Turn(n)) /\ ~Settled(Turn(n))
<1> DEFINE t == Turn(n)
<1>1. /\ t \in Seq(MessageSet) /\ Len(t) = 2 /\ DOMAIN t = {1, 2}
      /\ t[1] = Question(n) /\ t[2] = Answer("running", 1)
  BY QuestionIs DEF Turn, MaxBranches
<1> HIDE DEF t
<1>2. 1 \in 1..MaxBranches
  BY DEF MaxBranches
<1> QED  BY <1>1, <1>2, QuestionIs DEF Last, Settled, t

LEMMA AnswerIs ==
  ASSUME NEW n \in 1..MaxBranches, NEW status \in {"running", "complete", "error", "cancelled"}
  PROVE  Last(<<Answer(status, n)>>) /\ (Settled(<<Answer(status, n)>>) <=> status # "running")
<1> DEFINE t == <<Answer(status, n)>>
<1>1. t \in Seq(MessageSet) /\ Len(t) = 1 /\ DOMAIN t = {1} /\ t[1] = Answer(status, n)
  BY QuestionIs
<1> HIDE DEF t
<1>2. Last(t) /\ (Settled(t) <=> status # "running")
  BY <1>1, QuestionIs DEF Last, Settled
<1> QED  BY <1>2 DEF t

LEMMA BeforeLast ==
  ASSUME NEW n \in Nat, NEW m \in 1..n, NEW k \in 1..m - 1  PROVE k \in 1..n /\ k # n
BY SMTT(20)

LEMMA LastBefore ==
  ASSUME NEW ms, Last(ms), NEW m \in DOMAIN ms
  PROVE  LET before == SubSeq(ms, 1, m - 1)
         IN  /\ Last(before) /\ Settled(before) /\ DOMAIN before = 1..m - 1
             /\ \A k \in 1..m - 1 : k \in DOMAIN ms /\ before[k] = ms[k]
<1> DEFINE before == SubSeq(ms, 1, m - 1)
<1>1. ms \in Seq(MessageSet) /\ Len(ms) \in Nat /\ DOMAIN ms = 1..Len(ms) /\ m \in 1..Len(ms)
  BY DEF Last
<1>2. before \in Seq(MessageSet) /\ Len(before) = m - 1 /\ DOMAIN before = 1..m - 1
      /\ \A k \in 1..m - 1 : before[k] = ms[k]
  BY <1>1, SMTT(20)
<1> HIDE DEF before
<1>3. \A k \in 1..m - 1 : k \in 1..Len(ms) /\ k # Len(ms)
  BY <1>1, BeforeLast, ZenonT(30)
<1>4. \A k \in 1..m - 1 : ms[k].branch <= ms[k].branches /\ ms[k].status # "running"
  BY <1>1, <1>3 DEF Last
<1>5. Last(before) /\ Settled(before)
  BY <1>2, <1>4 DEF Last, Settled
<1> QED  BY <1>1, <1>2, <1>3, <1>5 DEF before

LEMMA PageInitInv == PageInit => PageInv
<1> SUFFICES ASSUME PageInit  PROVE PageInv
  OBVIOUS
<1>1. page \in PageSet /\ ~page.running /\ ~page.dictating
  <2> DEFINE p == [isLoading |-> TRUE, threadsLoading |-> TRUE, running |-> FALSE,
                   text |-> FALSE, dictating |-> FALSE]
             fields == {"isLoading", "threadsLoading", "running", "text", "dictating"}
  <2>1. page = p /\ ~p.running /\ ~p.dictating
    BY DEF PageInit
  <2>2. DOMAIN p = fields /\ p = [f \in fields |-> p[f]]
    OBVIOUS
  <2>3. \A f \in fields : p[f] \in BOOLEAN
    <3>1. /\ p["isLoading"] = TRUE /\ p["threadsLoading"] = TRUE /\ p["running"] = FALSE
          /\ p["text"] = FALSE /\ p["dictating"] = FALSE
      OBVIOUS
    <3> HIDE DEF p
    <3> QED  BY <3>1, Zenon
  <2> HIDE DEF p, fields
  <2>4. p \in [fields -> BOOLEAN]
    BY <2>2, <2>3
  <2> QED  BY <2>1, <2>4 DEF PageSet, fields
<1>2. messages = <<>> /\ editing = {} /\ Last(messages) /\ DOMAIN messages = {}
  BY DEF PageInit, Last
<1> QED  BY <1>1, <1>2, PageTypeIs DEF PageInv

\* What the next state has to be.
LEMMA NewPage ==
  ASSUME NEW p \in PageSet, NEW ms, NEW es, page' = p, messages' = ms, editing' = es,
         Last(ms), p.running <=> ~Settled(ms),
         \A m \in es : m \in DOMAIN ms /\ ms[m].role = "user",
         p.dictating => "dictation" \in Capability, p.isLoading => ms = <<>>
  PROVE  PageInv'
<1>1. Last(messages)' <=> Last(ms)
  BY DEF Last
<1>2. (\E m \in DOMAIN messages : messages[m].status = "running")' <=> ~Settled(ms)
  BY DEF Settled
<1>3. (editing \subseteq {m \in DOMAIN messages : messages[m].role = "user"})'
  OBVIOUS
<1>4. PageTypeOK'
  <2>1. \A m \in DOMAIN ms : m \in es => ms[m].role = "user"
    OBVIOUS
  <2>2. \A m \in DOMAIN messages' : (View(m) = "assistant")' <=> messages'[m].role = "assistant"
    BY <2>1 DEF View
  <2> QED  BY <1>1, <1>2, <1>3, <2>2 DEF PageTypeOK, PageSet, Last, MessageSet, Writing
<1> QED  BY <1>4 DEF PageInv

\* What a state is.
LEMMA PageIs ==
  ASSUME PageInv
  PROVE  /\ page \in PageSet /\ Last(messages) /\ (page.running <=> ~Settled(messages))
         /\ \A m \in editing : m \in DOMAIN messages /\ messages[m].role = "user"
         /\ page.dictating => "dictation" \in Capability
         /\ page.isLoading => messages = <<>>
BY PageTypeIs DEF PageInv, Settled

LEMMA LoadedIs ==
  ASSUME NEW turns \in 0..1
  PROVE  LET ms == [m \in 1..2 * turns |-> IF m % 2 = 1 THEN Question(1) ELSE Answer("complete", 1)]
         IN  Last(ms) /\ Settled(ms)
<1> DEFINE ms == [m \in 1..2 * turns |-> IF m % 2 = 1 THEN Question(1) ELSE Answer("complete", 1)]
<1>1. 2 * turns \in Nat /\ 1 \in 1..MaxBranches
  BY DEF MaxBranches
<1>2. \A m \in 1..2 * turns : ms[m] = Question(1) \/ ms[m] = Answer("complete", 1)
  OBVIOUS
<1>3. \A m \in 1..2 * turns : ms[m] \in MessageSet /\ ms[m].branch <= ms[m].branches /\ ms[m].status # "running"
  <2> HIDE DEF ms
  <2> QED  BY <1>1, <1>2, QuestionIs
<1>4. ms \in [1..2 * turns -> MessageSet]
  BY <1>3
<1>5. ms \in Seq(MessageSet) /\ DOMAIN ms = 1..2 * turns
  <2> HIDE DEF ms
  <2> QED  BY <1>1, <1>4
<1> HIDE DEF ms
<1>6. Last(ms) /\ Settled(ms)
  BY <1>3, <1>5 DEF Last, Settled
<1> QED  BY <1>6 DEF ms

\* Steps that change neither messages nor whether one is written.
LEMMA PageSets ==
  ASSUME PageInv, NEW p \in PageSet, Set(p), p.running = page.running,
         p.isLoading = page.isLoading, p.dictating => "dictation" \in Capability
  PROVE  PageInv'
<1>1. page' = p /\ messages' = messages /\ editing' = editing
  BY DEF Set
<1> QED  BY <1>1, PageIs, NewPage

\* A question is asked, as the last message.
LEMMA PageAsks ==
  ASSUME PageInv, ~page.running, ~page.isLoading, NEW p \in PageSet, Asked(p), p.running, ~p.isLoading,
         p.dictating => "dictation" \in Capability
  PROVE  PageInv'
<1> DEFINE ms == messages \o Turn(1)
<1>1. page' = p /\ messages' = ms /\ editing' = editing
  BY DEF Asked
<1>2. Last(messages) /\ Settled(messages) /\ Last(Turn(1)) /\ ~Settled(Turn(1))
  BY PageIs, TurnIs DEF MaxBranches
<1>3. Last(ms) /\ ~Settled(ms) /\ \A m \in DOMAIN messages : m \in DOMAIN ms /\ ms[m] = messages[m]
  BY <1>2, LastAfter
<1>4. \A m \in editing : m \in DOMAIN ms /\ ms[m].role = "user"
  BY <1>3, PageIs
<1> HIDE DEF ms
<1> QED  BY <1>1, <1>3, <1>4, NewPage

\* From message m on there is something else.
LEMMA PageBranches ==
  ASSUME PageInv, NEW m \in DOMAIN messages, NEW new, Last(new), NEW p \in PageSet,
         page' = p, messages' = SubSeq(messages, 1, m - 1) \o new,
         editing' = editing \cap (1..m - 1), p.running <=> ~Settled(new), ~p.isLoading,
         p.dictating => "dictation" \in Capability
  PROVE  PageInv'
<1> DEFINE before == SubSeq(messages, 1, m - 1)
           ms == before \o new
           es == editing \cap (1..m - 1)
<1>1. Last(messages) /\ \A k \in editing : k \in DOMAIN messages /\ messages[k].role = "user"
  BY PageIs
<1>2. /\ Last(before) /\ Settled(before) /\ DOMAIN before = 1..m - 1
      /\ \A k \in 1..m - 1 : k \in DOMAIN messages /\ before[k] = messages[k]
  BY <1>1, LastBefore
<1> HIDE DEF before
<1>3. /\ Last(ms) /\ (Settled(new) <=> Settled(ms))
      /\ \A k \in DOMAIN before : k \in DOMAIN ms /\ ms[k] = before[k]
  BY <1>2, LastAfter
<1> HIDE DEF ms
<1>4. \A k \in es : k \in DOMAIN ms /\ ms[k].role = "user"
  BY <1>1, <1>2, <1>3
<1>5. messages' = ms /\ editing' = es
  BY DEF ms, before
<1> HIDE DEF es
<1> QED  BY <1>3, <1>4, <1>5, NewPage

\* A field is set, the others stay.
LEMMA FieldSet ==
  ASSUME page \in PageSet, NEW f \in {"isLoading", "threadsLoading", "running", "text", "dictating"},
         NEW v \in BOOLEAN
  PROVE  /\ [page EXCEPT ![f] = v] \in PageSet /\ [page EXCEPT ![f] = v][f] = v
         /\ \A g \in {"isLoading", "threadsLoading", "running", "text", "dictating"} \ {f} :
              [page EXCEPT ![f] = v][g] = page[g]
BY DEF PageSet

LEMMA PageNextInv ==
  ASSUME PageInv, [PageNext]_pageVars
  PROVE  PageInv'
<1> USE DEF PageSet
<1>1. /\ page \in PageSet /\ Last(messages) /\ (page.running <=> ~Settled(messages))
      /\ \A m \in editing : m \in DOMAIN messages /\ messages[m].role = "user"
      /\ page.dictating => "dictation" \in Capability
      /\ page.isLoading => messages = <<>>
  BY PageIs
<1>2. CASE ThreadsLoaded
  <2> DEFINE p == [page EXCEPT !.threadsLoading = FALSE]
  <2>1. p \in PageSet /\ p.running = page.running /\ p.isLoading = page.isLoading /\ p.dictating = page.dictating
    BY <1>1
  <2>2. Set(p)
    BY <1>2 DEF ThreadsLoaded
  <2> HIDE DEF p
  <2> QED  BY <1>1, <2>1, <2>2, PageSets
<1>3. ASSUME NEW turns \in 0..1, ThreadLoaded(turns)  PROVE PageInv'
  <2> DEFINE p == [page EXCEPT !.isLoading = FALSE]
             ms == [m \in 1..2 * turns |-> IF m % 2 = 1 THEN Question(1) ELSE Answer("complete", 1)]
  <2>1. p \in PageSet /\ p.running = page.running /\ ~p.isLoading /\ p.dictating = page.dictating
    BY <1>1
  <2>2. page.isLoading /\ page' = p /\ messages' = ms /\ editing' = editing
    BY <1>3 DEF ThreadLoaded
  <2>3. Last(ms) /\ Settled(ms)
    BY LoadedIs
  <2>4. messages = <<>> /\ DOMAIN messages = {} /\ editing = {} /\ ~page.running
    BY <1>1, <2>2 DEF Settled
  <2> HIDE DEF p, ms
  <2> QED  BY <1>1, <2>1, <2>2, <2>3, <2>4, NewPage
<1>4. ASSUME NEW typed \in BOOLEAN, Type(typed)  PROVE PageInv'
  <2> DEFINE p == [page EXCEPT !.text = typed]
  <2>1. p \in PageSet /\ p.running = page.running /\ p.isLoading = page.isLoading /\ p.dictating = page.dictating
    BY <1>1
  <2>2. Set(p)
    BY <1>4 DEF Type
  <2> HIDE DEF p
  <2> QED  BY <1>1, <2>1, <2>2, PageSets
<1>5. ASSUME NEW on \in BOOLEAN, Set([page EXCEPT !.dictating = on]), on => "dictation" \in Capability
      PROVE  PageInv'
  <2> DEFINE p == [page EXCEPT !.dictating = on]
  <2>1. p \in PageSet /\ p.running = page.running /\ p.isLoading = page.isLoading /\ p.dictating = on
    BY <1>1
  <2>2. Set(p)
    BY <1>5
  <2> HIDE DEF p
  <2> QED  BY <1>5, <2>1, <2>2, PageSets
<1>6. CASE StartDictation \/ StopDictation
  BY <1>5, <1>6 DEF StartDictation, StopDictation
<1>7. CASE Send
  <2> DEFINE p == [page EXCEPT !.text = FALSE, !.running = TRUE, !.dictating = FALSE]
  <2>1. p \in PageSet /\ p.running = TRUE /\ p.isLoading = page.isLoading /\ p.dictating = FALSE
    BY <1>1
  <2>2. ~page.running /\ ~page.isLoading /\ Asked(p)
    BY <1>7 DEF Send
  <2> HIDE DEF p
  <2> QED  BY <2>1, <2>2, PageAsks
<1>8. CASE Suggest
  <2> DEFINE p == [page EXCEPT !.running = TRUE]
  <2>1. p \in PageSet /\ p.running = TRUE /\ p.isLoading = page.isLoading /\ p.dictating = page.dictating
    BY <1>1
  <2>2. ~page.running /\ ~page.isLoading /\ Asked(p)
    BY <1>8 DEF Suggest
  <2> HIDE DEF p
  <2> QED  BY <1>1, <2>1, <2>2, PageAsks
<1>9. ASSUME NEW status \in {"complete", "error", "cancelled"}, AnswerEnded(status)  PROVE PageInv'
  <2> DEFINE p == [page EXCEPT !.running = FALSE]
             ms == [m \in DOMAIN messages |->
                      IF Writing(m) THEN [messages[m] EXCEPT !.status = status] ELSE messages[m]]
  <2>1. p \in PageSet /\ p.running = FALSE /\ p.isLoading = page.isLoading /\ p.dictating = page.dictating
    BY <1>1
  <2>2. page.running /\ page' = p /\ messages' = ms /\ editing' = editing
    BY <1>9 DEF AnswerEnded
  <2>3. messages \in Seq(MessageSet) /\ DOMAIN messages = 1..Len(messages) /\ Len(messages) \in Nat
    BY <1>1 DEF Last
  <2>4. ASSUME NEW m \in DOMAIN messages
        PROVE  /\ ms[m] \in MessageSet /\ ms[m].status # "running" /\ ms[m].branch <= ms[m].branches
               /\ ms[m].role = messages[m].role
    <3>1. messages[m] \in MessageSet /\ messages[m].branch <= messages[m].branches
      BY <1>1, <2>3 DEF Last
    <3> QED  BY <3>1 DEF MessageSet, Writing
  <2>5. DOMAIN ms = DOMAIN messages
    OBVIOUS
  <2>6. ms \in Seq(MessageSet)
    <3>1. ms \in [1..Len(messages) -> MessageSet]
      BY <2>3, <2>4
    <3> HIDE DEF ms
    <3> QED  BY <2>3, <3>1
  <2> HIDE DEF p, ms
  <2>7. Last(ms) /\ Settled(ms)
    BY <2>4, <2>5, <2>6 DEF Last, Settled
  <2>8. page.isLoading => ms = <<>>
    BY <1>1, <2>2 DEF Settled
  <2>9. \A m \in editing : m \in DOMAIN ms /\ ms[m].role = "user"
    BY <1>1, <2>4, <2>5
  <2> QED  BY <1>1, <2>1, <2>2, <2>7, <2>8, <2>9, NewPage
<1>10. CASE Cancel
  BY <1>9, <1>10 DEF Cancel
<1>11. ASSUME NEW m, NEW es, UNCHANGED <<page, messages>>, editing' = es,
              \A k \in es : k \in editing \/ (k = m /\ m \in DOMAIN messages /\ messages[m].role = "user")
       PROVE  PageInv'
  <2> DEFINE p == page
             ms == messages
  <2>1. page' = p /\ messages' = ms /\ editing' = es
    BY <1>11
  <2> HIDE DEF p, ms
  <2> QED  BY <1>1, <1>11, <2>1, NewPage DEF p, ms
<1>12. ASSUME NEW m \in 1..2 * MaxTurns, Edit(m)  PROVE PageInv'
  <2>1. m \in DOMAIN messages /\ View(m) = "user" /\ editing' = editing \cup {m} /\ UNCHANGED <<page, messages>>
    BY <1>12 DEF Edit, UserBarShown, BarShown
  <2>2. messages[m].role = "user"
    BY <2>1 DEF View
  <2> QED  BY <1>11, <2>1, <2>2
<1>13. ASSUME NEW m \in 1..2 * MaxTurns, CancelEdit(m)  PROVE PageInv'
  BY <1>11, <1>13 DEF CancelEdit
<1>14. ASSUME NEW m \in DOMAIN messages, NEW new, Last(new), ~Settled(new), Branched(m, new)
       PROVE  PageInv'
  <2> DEFINE p == [page EXCEPT !.running = TRUE]
  <2>1. p \in PageSet /\ p.running = TRUE /\ p.isLoading = page.isLoading /\ p.dictating = page.dictating
    BY <1>1
  <2>2. page' = p /\ messages' = SubSeq(messages, 1, m - 1) \o new /\ editing' = editing \cap (1..m - 1)
    BY <1>14 DEF Branched
  <2>3. ~page.isLoading
    <3>1. DOMAIN <<>> = {}
      OBVIOUS
    <3> QED  BY <1>1, <1>14, <3>1
  <2> HIDE DEF p
  <2> QED  BY <1>1, <1>14, <2>1, <2>2, <2>3, PageBranches
<1>15. \A m \in DOMAIN messages : messages[m].branches \in 1..MaxBranches
  <2>1. \A m \in DOMAIN messages : messages[m] \in MessageSet
    BY <1>1 DEF Last
  <2> QED  BY <2>1 DEF MessageSet
<1>16. ASSUME NEW m \in DOMAIN messages, messages[m].branches < MaxBranches
       PROVE  messages[m].branches + 1 \in 1..MaxBranches
  BY <1>15, <1>16 DEF MaxBranches
<1>17. ASSUME NEW m \in 1..2 * MaxTurns, Update(m)  PROVE PageInv'
  <2>1. m \in DOMAIN messages /\ Branched(m, Turn(messages[m].branches + 1))
    BY <1>1, <1>17 DEF Update
  <2>2. messages[m].branches + 1 \in 1..MaxBranches
    BY <1>16, <2>1 DEF Branched
  <2>3. Last(Turn(messages[m].branches + 1)) /\ ~Settled(Turn(messages[m].branches + 1))
    BY <2>2, TurnIs
  <2> QED  BY <1>14, <2>1, <2>3
<1>18. ASSUME NEW m \in 1..2 * MaxTurns, Reload(m)  PROVE PageInv'
  <2> DEFINE new == <<Answer("running", messages[m].branches + 1)>>
  <2>1. m \in DOMAIN messages /\ Branched(m, new)
    BY <1>18 DEF Reload, AssistantBarShown, BarShown
  <2>2. messages[m].branches + 1 \in 1..MaxBranches
    BY <1>16, <2>1 DEF Branched
  <2>3. Last(new) /\ ~Settled(new)
    BY <2>2, AnswerIs
  <2> HIDE DEF new
  <2> QED  BY <1>14, <2>1, <2>3
<1>19. ASSUME NEW m \in 1..2 * MaxTurns, NEW b \in 1..MaxBranches, Pick(m, b)  PROVE PageInv'
  <2> DEFINE q == [messages[m] EXCEPT !.branch = b]
             rest == IF messages[m].role = "user" THEN <<Answer("complete", 1)>> ELSE <<>>
             before == SubSeq(messages, 1, m - 1)
  <2>1. /\ m \in DOMAIN messages /\ b \in 1..messages[m].branches /\ ~page.running
        /\ messages' = before \o <<q>> \o rest
        /\ editing' = editing \cap (1..m - 1) /\ page' = page
    BY <1>19 DEF Pick, PickerShown
  <2>2. messages[m] \in MessageSet /\ messages[m].status # "running"
    BY <1>1, <2>1 DEF Last, Settled
  <2>3. q \in MessageSet /\ q.branch <= q.branches /\ q.status # "running"
    BY <2>1, <2>2 DEF MessageSet
  <2> HIDE DEF q
  <2>4. <<q>> \in Seq(MessageSet) /\ DOMAIN <<q>> = {1} /\ <<q>>[1] = q
    BY <2>3
  <2>5. Last(<<q>>) /\ Settled(<<q>>)
    BY <2>3, <2>4 DEF Last, Settled
  <2>6. Last(rest) /\ Settled(rest)
    <3>1. Last(<<>>) /\ Settled(<<>>)
      BY DEF Last, Settled
    <3>2. Last(<<Answer("complete", 1)>>) /\ Settled(<<Answer("complete", 1)>>)
      BY AnswerIs DEF MaxBranches
    <3> QED  BY <3>1, <3>2
  <2> DEFINE new == <<q>> \o rest
  <2>7. Last(new) /\ Settled(new)
    BY <2>5, <2>6, LastAfter
  <2>8. before \in Seq(MessageSet) /\ <<q>> \in Seq(MessageSet) /\ rest \in Seq(MessageSet)
    BY <1>1, <2>1, <2>4, <2>6, LastBefore DEF Last
  <2> HIDE DEF rest, before
  <2>9. before \o <<q>> \o rest = before \o new
    BY <2>8
  <2>10. ~page.isLoading
    <3>1. DOMAIN <<>> = {}
      OBVIOUS
    <3> QED  BY <1>1, <2>1, <3>1
  <2>11. messages' = SubSeq(messages, 1, m - 1) \o new
    BY <2>1, <2>9 DEF before
  <2> HIDE DEF new
  <2> DEFINE p == page
  <2>12. p \in PageSet /\ page' = p /\ ~p.running /\ ~p.isLoading /\ (p.dictating => "dictation" \in Capability)
    BY <1>1, <2>1, <2>10
  <2> HIDE DEF p
  <2> QED  BY <2>1, <2>7, <2>11, <2>12, PageBranches
<1>20. CASE UNCHANGED pageVars
  <2> DEFINE p == page
             ms == messages
             es == editing
  <2>1. page' = p /\ messages' = ms /\ editing' = es
    BY <1>20 DEF pageVars
  <2> HIDE DEF p, ms, es
  <2> QED  BY <1>1, <2>1, NewPage DEF p, ms, es
<1> QED  BY <1>2, <1>3, <1>4, <1>6, <1>7, <1>8, <1>9, <1>10, <1>12, <1>13, <1>17, <1>18, <1>19, <1>20
         DEF PageNext

-----------------------------------------------------------------------------
(***************************************************************************)
(* Wordcut, for any dictionary, any patterns and any texts.                *)
(***************************************************************************)
\* u goes before v for what stands at k, the first place where they differ.
Differ(u, v, k) ==
  /\ k \in 1..Len(v) /\ k - 1 <= Len(u)
  /\ \A j \in 1..k - 1 : u[j] = v[j]
  /\ k <= Len(u) => u[k] < v[k]

LEMMA BeforeIs ==
  ASSUME NEW u \in Seq(Nat), NEW v \in Seq(Nat)
  PROVE  Before(u, v) <=> \E k \in Nat : Differ(u, v, k)
<1> DEFINE lu == Len(u)
           lv == Len(v)
<1>1. lu \in Nat /\ lv \in Nat
  OBVIOUS
<1>2. lu < lv => SubSeq(v, 1, lu) \in Seq(Nat) /\ Len(SubSeq(v, 1, lu)) = lu
                 /\ \A j \in 1..lu : SubSeq(v, 1, lu)[j] = v[j]
  <2>1. SUFFICES ASSUME lu < lv  PROVE SubSeq(v, 1, lu) \in Seq(Nat) /\ Len(SubSeq(v, 1, lu)) = lu
                 /\ \A j \in 1..lu : SubSeq(v, 1, lu)[j] = v[j]
    OBVIOUS
  <2> QED  BY <1>1, <2>1
<1>3. ASSUME Before(u, v)  PROVE \E k \in Nat : Differ(u, v, k)
  <2>1. CASE lu < lv /\ SubSeq(v, 1, lu) = u
    <3>1. \A j \in 1..lu : u[j] = v[j]
      BY <1>2, <2>1
    <3>2. (lu + 1) - 1 = lu /\ lu + 1 \in 1..lv /\ ~(lu + 1 <= lu) /\ lu + 1 \in Nat
      BY <1>1, <2>1
    <3>3. Differ(u, v, lu + 1)
      BY <1>1, <3>1, <3>2 DEF Differ
    <3> QED  BY <3>2, <3>3
  <2>2. CASE \E i \in 1..lu : i <= lv /\ u[i] < v[i] /\ \A j \in 1..i - 1 : u[j] = v[j]
    <3>1. PICK i \in 1..lu : i <= lv /\ u[i] < v[i] /\ \A j \in 1..i - 1 : u[j] = v[j]
      BY <2>2
    <3>2. i \in Nat /\ i \in 1..lv /\ i - 1 <= lu
      BY <1>1, <3>1
    <3> QED  BY <3>1, <3>2 DEF Differ
  <2> QED  BY <1>3, <2>1, <2>2 DEF Before
<1>4. ASSUME NEW k \in Nat, Differ(u, v, k)  PROVE Before(u, v)
  <2>1. k \in 1..lv /\ k - 1 <= lu /\ \A j \in 1..k - 1 : u[j] = v[j]
    BY <1>4 DEF Differ
  <2>2. CASE k <= lu
    <3>1. u[k] < v[k] /\ k \in 1..lu /\ k <= lv
      BY <1>1, <1>4, <2>1, <2>2 DEF Differ
    <3> QED  BY <2>1, <3>1 DEF Before
  <2>3. CASE ~(k <= lu)
    <3>1. k - 1 = lu /\ lu < lv
      BY <1>1, <2>1, <2>3
    <3>2. SubSeq(v, 1, lu) = u
      <4> DEFINE s == SubSeq(v, 1, lu)
      <4>1. s \in Seq(Nat) /\ Len(s) = Len(u) /\ \A j \in 1..Len(s) : s[j] = u[j]
        BY <1>2, <2>1, <3>1
      <4> HIDE DEF s
      <4>2. s = u
        BY <4>1, SeqEqual
      <4> QED  BY <4>2 DEF s
    <3> QED  BY <3>1, <3>2 DEF Before
  <2> QED  BY <2>2, <2>3
<1> QED  BY <1>3, <1>4

\* A set of numbers has a least one.
LEMMA LeastOf ==
  ASSUME NEW S, S \subseteq Nat, S # {}
  PROVE  \E x \in S : \A y \in S : x <= y
<1>1. PICK x \in S : \A y \in S : ~(<<y, x>> \in OpToRel(<, Nat))
  BY NatLessThanWellFounded, WFMin
<1>2. \A y \in S : ~(y < x)
  BY <1>1 DEF OpToRel
<1> QED  BY <1>2

\* The order of the words is one.
LEMMA WordOrder ==
  /\ \A u \in Seq(Nat) : ~Before(u, u)
  /\ \A u, v \in Seq(Nat) : u = v \/ Before(u, v) \/ Before(v, u)
  /\ \A u, v, w \in Seq(Nat) : Before(u, v) /\ Before(v, w) => Before(u, w)
<1>1. ASSUME NEW u \in Seq(Nat)  PROVE ~Before(u, u)
  <2>1. ASSUME NEW k \in Nat, Differ(u, u, k)  PROVE FALSE
    BY <2>1 DEF Differ
  <2> QED  BY <2>1, BeforeIs
<1>2. ASSUME NEW u \in Seq(Nat), NEW v \in Seq(Nat), u # v  PROVE Before(u, v) \/ Before(v, u)
  <2> DEFINE both == {i \in Nat : i \in 1..Len(u) /\ i \in 1..Len(v)}
             D == {i \in both : u[i] # v[i]}
  <2>1. CASE D = {}
    <3>1. \A i \in both : u[i] = v[i]
      BY <2>1
    <3>2. CASE Len(u) < Len(v)
      <4>1. Len(u) + 1 \in 1..Len(v) /\ (Len(u) + 1) - 1 = Len(u) /\ ~(Len(u) + 1 <= Len(u))
        BY <3>2
      <4>2. \A i \in 1..Len(u) : u[i] = v[i]
        BY <3>1, <3>2
      <4>3. Differ(u, v, Len(u) + 1)
        BY <4>1, <4>2 DEF Differ
      <4> QED  BY <4>1, <4>3, BeforeIs
    <3>3. CASE Len(v) < Len(u)
      <4>1. Len(v) + 1 \in 1..Len(u) /\ (Len(v) + 1) - 1 = Len(v) /\ ~(Len(v) + 1 <= Len(v))
        BY <3>3
      <4>2. \A i \in 1..Len(v) : v[i] = u[i]
        BY <3>1, <3>3
      <4>3. Differ(v, u, Len(v) + 1)
        BY <4>1, <4>2 DEF Differ
      <4> QED  BY <4>1, <4>3, BeforeIs
    <3>4. CASE Len(u) = Len(v)
      <4>1. \A i \in 1..Len(u) : u[i] = v[i]
        BY <3>1, <3>4
      <4> QED  BY <1>2, <3>4, <4>1, SeqEqual
    <3> QED  BY <3>2, <3>3, <3>4
  <2>2. CASE D # {}
    <3>1. PICK k \in D : \A y \in D : k <= y
      <4>1. D \subseteq Nat
        OBVIOUS
      <4> HIDE DEF D
      <4> QED  BY <2>2, <4>1, LeastOf
    <3>2. k \in Nat /\ k \in 1..Len(u) /\ k \in 1..Len(v) /\ u[k] \in Nat /\ v[k] \in Nat /\ u[k] # v[k]
      BY <3>1
    <3>3. ASSUME NEW j \in 1..k - 1  PROVE u[j] = v[j]
      <4>1. j \in both /\ ~(k <= j)
        BY <3>2
      <4>2. j \notin D
        BY <3>1, <4>1
      <4> QED  BY <4>1, <4>2
    <3>4. CASE u[k] < v[k]
      <4>1. Differ(u, v, k)
        BY <3>2, <3>3, <3>4 DEF Differ
      <4> QED  BY <3>2, <4>1, BeforeIs
    <3>5. CASE v[k] < u[k]
      <4>1. Differ(v, u, k)
        BY <3>2, <3>3, <3>5 DEF Differ
      <4> QED  BY <3>2, <4>1, BeforeIs
    <3> QED  BY <3>2, <3>4, <3>5
  <2> QED  BY <2>1, <2>2
<1>3. ASSUME NEW u \in Seq(Nat), NEW v \in Seq(Nat), NEW w \in Seq(Nat), Before(u, v), Before(v, w)
      PROVE  Before(u, w)
  <2>1. PICK k \in Nat : Differ(u, v, k)
    BY <1>3, BeforeIs
  <2>2. PICK l \in Nat : Differ(v, w, l)
    BY <1>3, BeforeIs
  <2>3. \A i \in 1..Len(u) : u[i] \in Nat
    OBVIOUS
  <2>4. \A i \in 1..Len(v) : v[i] \in Nat
    OBVIOUS
  <2>5. \A i \in 1..Len(w) : w[i] \in Nat
    OBVIOUS
  <2>6. Len(u) \in Nat /\ Len(v) \in Nat /\ Len(w) \in Nat
    OBVIOUS
  <2>7. CASE k < l
    <3>1. k \in 1..Len(w) /\ k - 1 <= Len(u) /\ k \in 1..l - 1
      BY <2>1, <2>2, <2>6, <2>7 DEF Differ
    <3>2. v[k] = w[k]
      BY <2>2, <3>1 DEF Differ
    <3>3. \A j \in 1..k - 1 : j \in 1..l - 1
      BY <3>1
    <3>4. \A j \in 1..k - 1 : u[j] = v[j] /\ v[j] = w[j]
      BY <2>1, <2>2, <3>3 DEF Differ
    <3>5. k <= Len(u) => u[k] < w[k]
      BY <2>1, <3>2 DEF Differ
    <3>6. Differ(u, w, k)
      BY <3>1, <3>4, <3>5 DEF Differ
    <3> QED  BY <3>6, BeforeIs
  <2>8. CASE l <= k
    <3>1. \A j \in 1..l - 1 : u[j] = w[j]
      <4>1. \A j \in 1..l - 1 : u[j] = v[j] /\ j <= Len(v)
        BY <2>1, <2>2, <2>8, SMTT(20) DEF Differ
      <4> QED  BY <2>2, <4>1 DEF Differ
    <3>2. l - 1 <= Len(u) /\ (l <= Len(u) => u[l] < w[l])
      <4>1. l \in 1..Len(v) /\ v[l] < w[l] /\ l \in 1..Len(w) /\ l - 1 <= Len(u)
        BY <2>1, <2>2, <2>6, <2>8 DEF Differ
      <4>2. CASE l = k
        <5>1. l <= Len(u) => u[l] < v[l] /\ l \in 1..Len(u)
          BY <2>1, <2>6, <4>1, <4>2 DEF Differ
        <5>2. v[l] \in Nat /\ w[l] \in Nat /\ (l <= Len(u) => u[l] \in Nat)
          BY <2>3, <2>4, <2>5, <4>1, <5>1
        <5> QED  BY <4>1, <5>1, <5>2, SMTT(20)
      <4>3. CASE l # k
        <5>1. l \in 1..k - 1
          BY <2>8, <4>1, <4>3
        <5> QED  BY <2>1, <4>1, <5>1 DEF Differ
      <4> QED  BY <4>2, <4>3
    <3>3. Differ(u, w, l)
      BY <2>2, <3>1, <3>2 DEF Differ
    <3> QED  BY <3>3, BeforeIs
  <2> QED  BY <2>7, <2>8
<1> QED  BY <1>1, <1>2, <1>3

\* A dictionary: words, each before the next ones.
Ascending(d) ==
  /\ d \in Seq(Seq(Nat))
  /\ \A k, l \in 1..Len(d) : k < l => Before(d[k], d[l])

\* How many words are before each gives its place: the sorted words exist.
LEMMA RankedWords ==
  ASSUME NEW W, W \subseteq Seq(Nat), IsFiniteSet(W)
  PROVE  \E s \in [1..Cardinality(W) -> W] :
           \A k, l \in 1..Cardinality(W) : k < l => Before(s[k], s[l])
<1> DEFINE n == Cardinality(W)
           I == 1..n
           over(w) == {u \in W : Before(u, w)}
           rank == [w \in W |-> Cardinality(over(w)) + 1]
<1>1. n \in Nat /\ IsFiniteSet(I) /\ Cardinality(I) = n
  BY FS_CardinalityType, UpTo
<1>2. /\ \A u \in W : ~Before(u, u)
      /\ \A u, v \in W : u = v \/ Before(u, v) \/ Before(v, u)
      /\ \A u, v, w \in W : Before(u, v) /\ Before(v, w) => Before(u, w)
  BY WordOrder, Zenon
<1>3. ASSUME NEW w \in W
      PROVE  IsFiniteSet(over(w)) /\ Cardinality(over(w)) \in Nat /\ Cardinality(over(w)) < n
  <2>1. IsFiniteSet(over(w)) /\ Cardinality(over(w)) \in Nat /\ Cardinality(over(w)) <= n
    BY FS_Subset, FS_CardinalityType
  <2>2. over(w) # W
    BY <1>2
  <2>3. Cardinality(over(w)) # n
    BY <2>2, FS_Subset
  <2> QED  BY <1>1, <2>1, <2>3
<1>4. ASSUME NEW u \in W, NEW w \in W, Before(u, w)  PROVE rank[u] < rank[w]
  <2>1. over(u) \subseteq over(w) /\ u \in over(w) /\ u \notin over(u)
    BY <1>2, <1>4
  <2>2. Cardinality(over(u)) <= Cardinality(over(w)) /\ Cardinality(over(u)) # Cardinality(over(w))
    BY <1>3, <2>1, FS_Subset
  <2>3. rank[u] = Cardinality(over(u)) + 1 /\ rank[w] = Cardinality(over(w)) + 1
    OBVIOUS
  <2>4. Cardinality(over(u)) \in Nat /\ Cardinality(over(w)) \in Nat
    BY <1>3
  <2> HIDE DEF over, rank
  <2> QED  BY <2>2, <2>3, <2>4
<1> HIDE DEF over
<1>5. rank \in [W -> I]
  BY <1>1, <1>3
<1> HIDE DEF rank
<1>6. rank \in Injection(W, I)
  <2>1. ASSUME NEW u \in W, NEW w \in W, rank[u] = rank[w]  PROVE u = w
    <3>1. rank[u] \in Int /\ ~(rank[u] < rank[w]) /\ ~(rank[w] < rank[u])
      BY <1>1, <1>5, <2>1
    <3> QED  BY <1>2, <1>4, <3>1
  <2> QED  BY <1>5, <2>1 DEF Injection, IsInjective
<1>7. rank \in Surjection(W, I)
  BY <1>1, <1>6, FS_Injection
<1>8. \A k \in I : \E w \in W : rank[w] = k
  BY <1>7 DEF Surjection
<1> DEFINE s == [k \in I |-> CHOOSE w \in W : rank[w] = k]
<1>9. \A k \in I : s[k] \in W /\ rank[s[k]] = k
  BY <1>8
<1>10. s \in [I -> W]
  BY <1>9
<1> HIDE DEF s
<1>11. ASSUME NEW k \in I, NEW l \in I, k < l  PROVE Before(s[k], s[l])
  <2>1. ~Before(s[l], s[k]) /\ s[k] # s[l]
    BY <1>1, <1>4, <1>9, <1>11
  <2> QED  BY <1>2, <1>9, <2>1
<1> QED  BY <1>10, <1>11

\* A sequence whose members each stand before the next one ascends.
LEMMA NextOnes ==
  ASSUME NEW n \in Nat, NEW s \in [1..n -> Seq(Nat)],
         \A i \in 1..n - 1 : Before(s[i], s[i + 1])
  PROVE  Ascending(s)
<1>1. s \in Seq(Seq(Nat)) /\ Len(s) = n
  OBVIOUS
<1> DEFINE T == {m \in 0..n : \A k, l \in 1..m : k < l => Before(s[k], s[l])}
<1>2. 0 \in T
  OBVIOUS
<1>3. ASSUME NEW m \in 0..n, m \in T, m < n  PROVE m + 1 \in T
  <2>1. ASSUME NEW k \in 1..m + 1, NEW l \in 1..m + 1, k < l  PROVE Before(s[k], s[l])
    <3>1. CASE l # m + 1
      <4>1. k \in 1..m /\ l \in 1..m
        BY <2>1, <3>1
      <4> QED  BY <1>3, <2>1, <4>1
    <3>2. CASE l = m + 1
      <4>1. m \in 1..n - 1 /\ k \in 1..m
        BY <1>3, <2>1, <3>2
      <4>2. Before(s[m], s[l])
        BY <3>2, <4>1
      <4>3. k = m \/ (k < m /\ m \in 1..m)
        BY <4>1
      <4>4. k = m \/ Before(s[k], s[m])
        BY <1>3, <4>1, <4>3
      <4>5. s[k] \in Seq(Nat) /\ s[m] \in Seq(Nat) /\ s[l] \in Seq(Nat)
        BY <1>3, <2>1, <4>1
      <4> QED  BY <4>2, <4>4, <4>5, WordOrder
    <3> QED  BY <3>1, <3>2
  <2>2. m + 1 \in 0..n
    BY <1>3
  <2> QED  BY <2>1, <2>2
<1>4. \A m \in 0..n : m \in T /\ m < n => m + 1 \in T
  BY <1>3
<1> HIDE DEF T
<1>5. 0..n \subseteq T
  BY <1>2, <1>4, CountUp
<1>6. n \in T
  BY <1>5
<1> QED  BY <1>1, <1>6 DEF T, Ascending

LEMMA WordsAscend ==
  ASSUME NEW W \in Added \cup {{}}  PROVE Ascending(Words(W))
<1> DEFINE V == {w \in FileWords : Len(w) > 1} \cup W
           n == Cardinality(V)
           Good(s) == \A i \in 1..n - 1 : Before(s[i], s[i + 1])
<1>1. V \subseteq Seq(Nat) /\ IsFiniteSet(V)
  <2>1. W \subseteq Seq(Nat) /\ IsFiniteSet(W)
    BY WordcutAssumption, FS_EmptySet
  <2>2. {w \in FileWords : Len(w) > 1} \subseteq FileWords /\ IsFiniteSet(FileWords) /\ FileWords \subseteq Seq(Nat)
    BY WordcutAssumption
  <2>3. IsFiniteSet({w \in FileWords : Len(w) > 1})
    BY <2>2, FS_Subset
  <2> QED  BY <2>1, <2>2, <2>3, FS_Union
<1> HIDE DEF V
<1>2. n \in Nat
  BY <1>1, FS_CardinalityType
<1>3. PICK s \in [1..n -> V] : \A k, l \in 1..n : k < l => Before(s[k], s[l])
  BY <1>1, RankedWords
<1>4. Good(s)
  <2>1. \A i \in 1..n - 1 : i \in 1..n /\ i + 1 \in 1..n /\ i < i + 1
    BY <1>2
  <2> QED  BY <1>3, <2>1
<1>5. SortUniq(V) = CHOOSE t \in [1..n -> V] : Good(t)
  BY DEF SortUniq
<1>6. SortUniq(V) \in [1..n -> V] /\ Good(SortUniq(V))
  <2> HIDE DEF Good, n
  <2> QED  BY <1>4, <1>5
<1>7. SortUniq(V) \in [1..n -> Seq(Nat)]
  BY <1>1, <1>6
<1>8. Words(W) = SortUniq(V)
  BY DEF Words, V
<1> DEFINE d == SortUniq(V)
<1> HIDE DEF d, n
<1>9. Ascending(d)
  BY <1>2, <1>6, <1>7, NextOnes DEF d, n
<1> QED  BY <1>8, <1>9 DEF d

-----------------------------------------------------------------------------
(***************************************************************************)
(* The binary search of dictSeek.                                          *)
(***************************************************************************)
Seeks(h, ch, off, first) ==
  h = [at \in Search |-> IF at.lo > at.hi THEN at.ans ELSE h[Narrowed(at, ch, off, first)]]

\* The loop goes on between l and r, with fewer words.
LEMMA Narrows ==
  ASSUME Ascending(dict), NEW ch, NEW off, NEW first, NEW at \in Search, at.lo <= at.hi
  PROVE  LET m == (at.lo + at.hi) \div 2
             b == Narrowed(at, ch, off, first)
         IN  /\ m \in at.lo..at.hi /\ m \in 1..Len(dict)
             /\ b \in Search /\ b.lo >= at.lo /\ b.hi <= at.hi
             /\ b.lo \in {at.lo, m + 1} /\ b.hi \in {at.hi, m - 1}
             /\ b.lo = m + 1 \/ b.hi = m - 1
<1> DEFINE N == Len(dict)
           m == (at.lo + at.hi) \div 2
<1>1. N \in Nat
  BY DEF Ascending
<1> HIDE DEF N
<1>2. at.lo \in 1..N + 1 /\ at.hi \in 0..N /\ at.ans \in 0..N
  BY DEF Search, N
<1>3. m \in at.lo..at.hi /\ m \in 1..N
  BY <1>1, <1>2
<1> HIDE DEF m
<1>4. m + 1 \in 1..N + 1 /\ m - 1 \in 0..N /\ m \in 0..N /\ m + 1 >= at.lo /\ m - 1 <= at.hi
  BY <1>1, <1>2, <1>3
<1>5. Narrowed(at, ch, off, first) \in
        {[at EXCEPT !.lo = m + 1], [at EXCEPT !.hi = m - 1],
         [at EXCEPT !.hi = m - 1, !.ans = m], [at EXCEPT !.lo = m + 1, !.ans = m]}
  BY DEF Narrowed, m
<1>6. at = [lo |-> at.lo, hi |-> at.hi, ans |-> at.ans]
  BY DEF Search
<1>7. ASSUME NEW b, b = [at EXCEPT !.lo = m + 1] \/ b = [at EXCEPT !.lo = m + 1, !.ans = m]
      PROVE  b \in Search /\ b.lo = m + 1 /\ b.hi = at.hi
  BY <1>2, <1>4, <1>6, <1>7 DEF Search, N
<1>8. ASSUME NEW b, b = [at EXCEPT !.hi = m - 1] \/ b = [at EXCEPT !.hi = m - 1, !.ans = m]
      PROVE  b \in Search /\ b.lo = at.lo /\ b.hi = m - 1
  BY <1>2, <1>4, <1>6, <1>8 DEF Search, N
<1>9. at.lo >= at.lo /\ at.hi <= at.hi
  BY <1>1, <1>2
<1> DEFINE b == Narrowed(at, ch, off, first)
<1> HIDE DEF b
<1>10. CASE b = [at EXCEPT !.lo = m + 1] \/ b = [at EXCEPT !.lo = m + 1, !.ans = m]
  <2>1. b \in Search /\ b.lo = m + 1 /\ b.hi = at.hi
    BY <1>7, <1>10
  <2> QED  BY <1>3, <1>4, <1>9, <2>1 DEF m, b, N
<1>11. CASE b = [at EXCEPT !.hi = m - 1] \/ b = [at EXCEPT !.hi = m - 1, !.ans = m]
  <2>1. b \in Search /\ b.lo = at.lo /\ b.hi = m - 1
    BY <1>8, <1>11
  <2> QED  BY <1>3, <1>4, <1>9, <2>1 DEF m, b, N
<1> QED  BY <1>5, <1>10, <1>11 DEF b

LEMMA SeekExists ==
  ASSUME Ascending(dict), NEW ch, NEW off, NEW first
  PROVE  \E h : Seeks(h, ch, off, first)
<1> DEFINE N == Len(dict)
           Next1(at) == Narrowed(at, ch, off, first)
           Upto(h, n) == h = [at \in Search |-> IF at.lo > at.hi THEN at.ans
                                ELSE IF at.hi < at.lo + n THEN h[Next1(at)] ELSE 0]
           T == {n \in 0..N : \E h : Upto(h, n)}
<1>1. N \in Nat
  BY DEF Ascending
<1> HIDE DEF N
<1>2. \A at \in Search : at.lo \in 1..N + 1 /\ at.hi \in 0..N
  BY DEF Search, N
<1>3. ASSUME NEW at \in Search, at.lo <= at.hi
      PROVE  /\ Next1(at) \in Search /\ Next1(at).lo \in Nat /\ Next1(at).hi \in Nat
             /\ \A n \in Nat : at.hi < at.lo + (n + 1) => Next1(at).hi < Next1(at).lo + n
  <2> DEFINE m == (at.lo + at.hi) \div 2
             b == Next1(at)
  <2>1. /\ m \in at.lo..at.hi /\ b \in Search /\ b.lo >= at.lo /\ b.hi <= at.hi
        /\ b.lo = m + 1 \/ b.hi = m - 1
    BY <1>3, Narrows
  <2> HIDE DEF m, b
  <2>2. b.lo \in Nat /\ b.hi \in Nat
    BY <1>1, <1>2, <2>1
  <2>3. at.lo \in Nat /\ at.hi \in Nat /\ m \in Nat
    BY <1>1, <1>2, <2>1
  <2>4. \A n \in Nat : at.hi < at.lo + (n + 1) => b.hi < b.lo + n
    BY <2>1, <2>2, <2>3
  <2> QED  BY <2>1, <2>2, <2>4 DEF b
<1> HIDE DEF Next1
<1>4. 0 \in T
  <2> DEFINE h == [at \in Search |-> IF at.lo > at.hi THEN at.ans ELSE 0]
  <2>1. \A at \in Search : at.lo > at.hi \/ ~(at.hi < at.lo + 0)
    BY <1>1, <1>2
  <2>2. h = [at \in Search |-> IF at.lo > at.hi THEN at.ans
               ELSE IF at.hi < at.lo + 0 THEN h[Next1(at)] ELSE 0]
    BY <2>1
  <2>3. Upto(h, 0)
    BY <2>2
  <2> HIDE DEF Upto
  <2> QED  BY <1>1, <2>3
<1>5. ASSUME NEW n \in 0..N, n \in T, n < N  PROVE n + 1 \in T
  <2>1. PICK h : Upto(h, n)
    BY <1>5
  <2> DEFINE g == [at \in Search |-> IF at.lo > at.hi THEN at.ans
                     ELSE IF at.hi < at.lo + (n + 1) THEN h[Next1(at)] ELSE 0]
  <2>2. \A at \in Search : h[at] = IF at.lo > at.hi THEN at.ans
               ELSE IF at.hi < at.lo + n THEN h[Next1(at)] ELSE 0
    BY <2>1
  <2>3. ASSUME NEW at \in Search, at.lo <= at.hi, at.hi < at.lo + (n + 1)
        PROVE  h[Next1(at)] = g[Next1(at)]
    <3> DEFINE b == Next1(at)
    <3>1. b \in Search /\ b.lo \in Nat /\ b.hi \in Nat /\ b.hi < b.lo + n /\ n \in Nat
      BY <1>1, <1>3, <2>3
    <3> HIDE DEF b
    <3>2. b.hi < b.lo + (n + 1)
      BY <3>1
    <3>3. h[b] = IF b.lo > b.hi THEN b.ans ELSE h[Next1(b)]
      BY <2>2, <3>1
    <3>4. g[b] = IF b.lo > b.hi THEN b.ans ELSE h[Next1(b)]
      BY <3>1, <3>2
    <3> QED  BY <3>3, <3>4 DEF b
  <2>4. \A at \in Search : at.lo > at.hi \/ at.lo <= at.hi
    BY <1>1, <1>2
  <2>5. \A at \in Search : g[at] = IF at.lo > at.hi THEN at.ans
               ELSE IF at.hi < at.lo + (n + 1) THEN g[Next1(at)] ELSE 0
    BY <2>3, <2>4
  <2>6. g = [at \in Search |-> g[at]]
    OBVIOUS
  <2> HIDE DEF g
  <2>7. Upto(g, n + 1)
    BY <2>5, <2>6
  <2> HIDE DEF Upto
  <2>8. n + 1 \in 0..N
    BY <1>1, <1>5
  <2> QED  BY <2>7, <2>8
<1>6. \A n \in 0..N : n \in T /\ n < N => n + 1 \in T
  BY <1>5
<1> HIDE DEF T
<1>7. 0..N \subseteq T
  BY <1>1, <1>4, <1>6, CountUp
<1>8. N \in T
  BY <1>1, <1>7
<1>9. PICK h : Upto(h, N)
  BY <1>8 DEF T
<1>10. \A at \in Search : at.lo > at.hi \/ at.hi < at.lo + N
  BY <1>1, <1>2
<1>11. h = [at \in Search |-> IF at.lo > at.hi THEN at.ans ELSE h[Next1(at)]]
  <2>1. \A at \in Search : h[at] = IF at.lo > at.hi THEN at.ans ELSE h[Next1(at)]
    BY <1>9, <1>10
  <2>2. h = [at \in Search |-> h[at]]
    BY <1>9
  <2> QED  BY <2>1, <2>2
<1> QED  BY <1>11 DEF Seeks, Next1

LEMMA SeekIs ==
  ASSUME Ascending(dict), NEW ch, NEW off, NEW first
  PROVE  \E h : /\ Seeks(h, ch, off, first)
                /\ \A l, r : DictSeek(l, r, ch, off, first) = h[[lo |-> l, hi |-> r, ans |-> None]]
<1> DEFINE h == CHOOSE h : Seeks(h, ch, off, first)
<1>1. Seeks(h, ch, off, first)
  BY SeekExists
<1>2. \A l, r : DictSeek(l, r, ch, off, first) = h[[lo |-> l, hi |-> r, ans |-> None]]
  BY DEF DictSeek, Seeks
<1> QED  BY <1>1, <1>2

\* The word at m goes on with ch after its first off characters.
GoesOn(m, ch, off) == Len(dict[m]) > off /\ dict[m][off + 1] = ch

Hits(lo, hi, ch, off) == {m \in lo..hi : GoesOn(m, ch, off)}

\* The words l to r are the same up to their character off.
SameTo(l, r, off) ==
  /\ l \in 1..Len(dict) + 1 /\ r \in 0..Len(dict) /\ off \in Nat
  /\ \A m \in l..r : Len(dict[m]) >= off /\ \A j \in 1..off : dict[m][j] = dict[l][j]

\* What stands after that ascends, and words without it come first.
LEMMA NextAscends ==
  ASSUME Ascending(dict), NEW l, NEW r, NEW off, SameTo(l, r, off),
         NEW k \in l..r, NEW m \in l..r, k < m, Len(dict[k]) > off
  PROVE  Len(dict[m]) > off /\ dict[k][off + 1] <= dict[m][off + 1]
<1>1. Len(dict) \in Nat /\ l \in 1..Len(dict) + 1 /\ r \in 0..Len(dict) /\ off \in Nat
  BY DEF Ascending, SameTo
<1>2. k \in 1..Len(dict) /\ m \in 1..Len(dict)
  BY <1>1
<1>3. dict[k] \in Seq(Nat) /\ dict[m] \in Seq(Nat) /\ Before(dict[k], dict[m])
  BY <1>2 DEF Ascending
<1>4. PICK p \in Nat : Differ(dict[k], dict[m], p)
  BY <1>3, BeforeIs
<1> DEFINE u == dict[k]
           v == dict[m]
<1>5. Len(u) \in Nat /\ Len(v) \in Nat /\ Len(u) > off /\ Len(v) >= off
  BY <1>3 DEF SameTo
<1>6. \A j \in 1..off : u[j] = v[j] /\ u[j] \in Nat
  <2>1. \A j \in 1..off : u[j] = v[j]
    BY DEF SameTo
  <2>2. \A j \in 1..off : j \in 1..Len(u)
    BY <1>1, <1>5
  <2> QED  BY <1>3, <2>1, <2>2
<1>7. p \in 1..Len(v) /\ p - 1 <= Len(u) /\ (\A j \in 1..p - 1 : u[j] = v[j]) /\ (p <= Len(u) => u[p] < v[p])
  BY <1>4 DEF Differ
<1>8. u[off + 1] \in Nat
  <2>1. off + 1 \in 1..Len(u)
    BY <1>1, <1>5
  <2> QED  BY <1>3, <2>1
<1> HIDE DEF u, v
<1>9. p > off
  <2>1. SUFFICES ASSUME p <= off  PROVE FALSE
    BY <1>1
  <2>2. p \in 1..off /\ p <= Len(u)
    BY <1>1, <1>5, <1>7, <2>1
  <2> QED  BY <1>6, <1>7, <2>2
<1>10. Len(v) > off
  BY <1>1, <1>5, <1>7, <1>9
<1>11. CASE p = off + 1
  <2>1. p <= Len(u)
    BY <1>1, <1>5, <1>11
  <2>2. v[off + 1] \in Nat
    <3>1. off + 1 \in 1..Len(v)
      BY <1>1, <1>5, <1>10
    <3> QED  BY <1>3, <3>1 DEF v
  <2>3. u[off + 1] <= v[off + 1]
    BY <1>7, <1>8, <1>11, <2>1, <2>2
  <2> QED  BY <1>10, <2>3 DEF u, v
<1>12. CASE p # off + 1
  <2>1. off + 1 \in 1..p - 1
    BY <1>1, <1>9, <1>12
  <2> QED  BY <1>7, <1>8, <1>10, <2>1 DEF u, v
<1> QED  BY <1>11, <1>12

\* What the search gives.
Sought(H, x, ans, first) ==
  /\ H = {} => x = ans
  /\ H # {} => x \in H /\ \A y \in H : IF first THEN x <= y ELSE y <= x

\* One turn, between lo and hi, at m.
TurnGoesOn(lo, hi, m, H, first, x, ans) ==
  /\ (\A k \in lo..m : k \notin H) /\ Sought(H \cap (m + 1)..hi, x, ans, first) => Sought(H, x, ans, first)
  /\ (\A k \in m..hi : k \notin H) /\ Sought(H \cap lo..(m - 1), x, ans, first) => Sought(H, x, ans, first)
  /\ m \in H /\ first /\ Sought(H \cap lo..(m - 1), x, m, first) => Sought(H, x, ans, first)
  /\ m \in H /\ ~first /\ Sought(H \cap (m + 1)..hi, x, m, first) => Sought(H, x, ans, first)

LEMMA TurnSeeks ==
  ASSUME NEW lo \in Nat, NEW hi \in Nat, NEW m \in lo..hi, NEW H \in SUBSET (lo..hi),
         NEW first \in BOOLEAN, NEW x, NEW ans
  PROVE  TurnGoesOn(lo, hi, m, H, first, x, ans)
<1> DEFINE L == H \cap lo..(m - 1)
           R == H \cap (m + 1)..hi
<1>1. \A k \in H : k \in Nat /\ (k \in L \/ k = m \/ k \in R)
  OBVIOUS
<1>2. (\A k \in L : k \in Nat /\ k < m) /\ (\A k \in R : k \in Nat /\ k > m) /\ m \in Nat
  OBVIOUS
<1>3. L \subseteq H /\ R \subseteq H
  OBVIOUS
<1>4. ASSUME \A k \in lo..m : k \notin H  PROVE H = R
  <2>1. \A k \in H : k \notin lo..m
    BY <1>4
  <2>2. \A k \in L : k \in lo..m
    OBVIOUS
  <2>3. m \in lo..m
    OBVIOUS
  <2> QED  BY <1>1, <1>3, <1>4, <2>1, <2>2, <2>3
<1>5. ASSUME \A k \in m..hi : k \notin H  PROVE H = L
  <2>1. \A k \in R : k \in m..hi
    OBVIOUS
  <2>2. m \in m..hi
    OBVIOUS
  <2> QED  BY <1>1, <1>3, <1>5, <2>1, <2>2
<1> HIDE DEF L, R
<1>6. ASSUME m \in H, first, Sought(L, x, m, first)  PROVE Sought(H, x, ans, first)
  <2>1. CASE L = {}
    <3>1. x = m
      BY <1>6, <2>1 DEF Sought
    <3>2. \A k \in H : m <= k
      BY <1>1, <1>2, <2>1
    <3> QED  BY <1>6, <3>1, <3>2 DEF Sought
  <2>2. CASE L # {}
    <3>1. x \in L /\ \A y \in L : x <= y
      BY <1>6, <2>2 DEF Sought
    <3>2. \A k \in H : x <= k
      BY <1>1, <1>2, <3>1
    <3> QED  BY <1>3, <1>6, <3>1, <3>2 DEF Sought
  <2> QED  BY <2>1, <2>2
<1>7. ASSUME m \in H, ~first, Sought(R, x, m, first)  PROVE Sought(H, x, ans, first)
  <2>1. CASE R = {}
    <3>1. x = m
      BY <1>7, <2>1 DEF Sought
    <3>2. \A k \in H : k <= m
      BY <1>1, <1>2, <2>1
    <3> QED  BY <1>7, <3>1, <3>2 DEF Sought
  <2>2. CASE R # {}
    <3>1. x \in R /\ \A y \in R : y <= x
      BY <1>7, <2>2 DEF Sought
    <3>2. \A k \in H : k <= x
      BY <1>1, <1>2, <3>1
    <3> QED  BY <1>3, <1>7, <3>1, <3>2 DEF Sought
  <2> QED  BY <2>1, <2>2
<1> QED  BY <1>4, <1>5, <1>6, <1>7 DEF L, R, TurnGoesOn

LEMMA SeekFinds ==
  ASSUME Ascending(dict), NEW l, NEW r, NEW ch \in Nat, NEW off, SameTo(l, r, off), NEW first \in BOOLEAN
  PROVE  Sought(Hits(l, r, ch, off), DictSeek(l, r, ch, off, first), None, first)
<1> DEFINE N == Len(dict)
<1>1. N \in Nat /\ l \in 1..N + 1 /\ r \in 0..N /\ off \in Nat
  BY DEF Ascending, SameTo
<1>2. PICK h : /\ Seeks(h, ch, off, first)
               /\ \A lo, hi : DictSeek(lo, hi, ch, off, first) = h[[lo |-> lo, hi |-> hi, ans |-> None]]
  BY SeekIs
<1> DEFINE Right(at) == Sought(Hits(at.lo, at.hi, ch, off), h[at], at.ans, first)
           Inside(at) == l <= at.lo /\ at.hi <= r
           T == {n \in 0..N : \A at \in Search : Inside(at) /\ at.hi < at.lo + n => Right(at)}
<1>3. \A at \in Search : at.lo \in Nat /\ at.hi \in Nat /\ at.lo \in 1..N + 1 /\ at.hi \in 0..N
  BY <1>1 DEF Search
<1> HIDE DEF N
<1>4. ASSUME NEW at \in Search, at.lo > at.hi  PROVE Right(at)
  <2>1. Hits(at.lo, at.hi, ch, off) = {}
    BY <1>3, <1>4 DEF Hits
  <2>2. h[at] = at.ans
    BY <1>2, <1>4 DEF Seeks
  <2> QED  BY <2>1, <2>2 DEF Sought
<1>5. 0 \in T
  <2>1. \A at \in Search : at.hi < at.lo + 0 => at.lo > at.hi
    BY <1>3
  <2> HIDE DEF Right
  <2> QED  BY <1>1, <1>4, <2>1
<1>6. ASSUME NEW n \in 0..N, n \in T, n < N  PROVE n + 1 \in T
  <2>1. SUFFICES ASSUME NEW at \in Search, Inside(at), at.hi < at.lo + (n + 1), at.lo <= at.hi
                 PROVE  Right(at)
    <3>1. \A at \in Search : at.lo > at.hi \/ at.lo <= at.hi
      BY <1>3
    <3>2. n + 1 \in 0..N
      BY <1>1, <1>6
    <3> HIDE DEF Right, Inside
    <3> QED  BY <1>4, <3>1, <3>2
  <2> DEFINE m == (at.lo + at.hi) \div 2
             b == Narrowed(at, ch, off, first)
             w == dict[m]
             H == Hits(at.lo, at.hi, ch, off)
  <2>2. /\ m \in at.lo..at.hi /\ m \in 1..N
        /\ b \in Search /\ b.lo >= at.lo /\ b.hi <= at.hi
        /\ b.lo \in {at.lo, m + 1} /\ b.hi \in {at.hi, m - 1}
        /\ b.lo = m + 1 \/ b.hi = m - 1
    BY <2>1, Narrows DEF N
  <2>3. b = IF Len(w) <= off \/ w[off + 1] < ch THEN [at EXCEPT !.lo = m + 1]
            ELSE IF w[off + 1] > ch THEN [at EXCEPT !.hi = m - 1]
            ELSE IF first THEN [at EXCEPT !.hi = m - 1, !.ans = m]
            ELSE [at EXCEPT !.lo = m + 1, !.ans = m]
    BY DEF Narrowed
  <2>4. h[at] = h[b]
    <3>1. ~(at.lo > at.hi)
      BY <1>3, <2>1
    <3> QED  BY <1>2, <3>1 DEF Seeks
  <2> HIDE DEF m, b
  <2>5. b.hi < b.lo + n /\ Inside(b)
    <3>1. at.lo \in Nat /\ at.hi \in Nat /\ b.lo \in Nat /\ b.hi \in Nat /\ m \in Nat /\ n \in Nat
      BY <1>1, <1>3, <2>2
    <3> QED  BY <1>1, <2>1, <2>2, <3>1
  <2>6. Right(b)
    <3> HIDE DEF Right, Inside
    <3> QED  BY <1>6, <2>2, <2>5
  <2>7. Sought(Hits(b.lo, b.hi, ch, off), h[at], b.ans, first)
    BY <2>4, <2>6
  <2>8. at.lo \in Nat /\ at.hi \in Nat /\ l <= at.lo /\ at.hi <= r
    BY <1>3, <2>1
  <2>9. at.lo..at.hi \subseteq l..r /\ m \in l..r
    BY <1>1, <2>2, <2>8
  <2>10. w \in Seq(Nat) /\ Len(w) \in Nat /\ Len(w) >= off
    <3>1. w \in Seq(Nat)
      BY <2>2 DEF Ascending, N
    <3> QED  BY <2>9, <3>1 DEF SameTo
  <2>11. H \in SUBSET (at.lo..at.hi) /\ H \cap (m + 1)..at.hi = Hits(m + 1, at.hi, ch, off)
         /\ H \cap at.lo..(m - 1) = Hits(at.lo, m - 1, ch, off)
    <3>1. (m + 1)..at.hi \subseteq at.lo..at.hi /\ at.lo..(m - 1) \subseteq at.lo..at.hi
      BY <2>2, <2>8
    <3> QED  BY <3>1 DEF Hits
  <2>12. \A k \in at.lo..at.hi : k < m /\ GoesOn(k, ch, off) => Len(w) > off /\ ch <= w[off + 1]
    BY <2>9, NextAscends DEF GoesOn
  <2>13. \A k \in at.lo..at.hi : m < k /\ Len(w) > off /\ GoesOn(k, ch, off) => w[off + 1] <= ch
    BY <2>9, NextAscends DEF GoesOn
  <2>14. \A k \in at.lo..at.hi : k \in H <=> GoesOn(k, ch, off)
    BY DEF Hits
  <2>15. at = [lo |-> at.lo, hi |-> at.hi, ans |-> at.ans]
    BY DEF Search
  <2>16. Len(w) > off => w[off + 1] \in Nat
    <3>1. Len(w) > off => off + 1 \in 1..Len(w)
      BY <1>1, <2>10
    <3> QED  BY <2>10, <3>1
  <2>17. \A k \in at.lo..m : k \in at.lo..at.hi /\ (k = m \/ k < m)
    BY <2>2, <2>8
  <2>18. \A k \in m..at.hi : k \in at.lo..at.hi /\ (k = m \/ m < k)
    BY <2>2, <2>8
  <2> HIDE DEF H, w
  <2>19. TurnGoesOn(at.lo, at.hi, m, H, first, h[at], at.ans)
    BY <2>2, <2>8, <2>11, TurnSeeks
  <2>20. CASE Len(w) <= off \/ w[off + 1] < ch
    <3>1. b.lo = m + 1 /\ b.hi = at.hi /\ b.ans = at.ans
      BY <2>3, <2>15, <2>20
    <3>2. ~GoesOn(m, ch, off)
      BY <1>1, <2>10, <2>16, <2>20 DEF GoesOn, w
    <3>3. ASSUME NEW k \in at.lo..m, k \in H  PROVE FALSE
      <4>1. k \in at.lo..at.hi /\ GoesOn(k, ch, off)
        BY <2>14, <2>17, <3>3
      <4>2. k < m
        BY <2>17, <3>2, <4>1
      <4>3. Len(w) > off /\ ch <= w[off + 1]
        BY <2>12, <4>1, <4>2
      <4> QED  BY <1>1, <2>10, <2>16, <2>20, <4>3
    <3>4. Sought(H \cap (m + 1)..at.hi, h[at], at.ans, first)
      BY <2>7, <2>11, <3>1
    <3>5. Sought(H, h[at], at.ans, first)
      BY <2>19, <3>3, <3>4, Zenon DEF TurnGoesOn
    <3> QED  BY <3>5 DEF H
  <2>21. CASE ~(Len(w) <= off \/ w[off + 1] < ch) /\ w[off + 1] > ch
    <3>1. b.lo = at.lo /\ b.hi = m - 1 /\ b.ans = at.ans
      BY <2>3, <2>15, <2>21
    <3>2. Len(w) > off
      BY <1>1, <2>10, <2>21
    <3>3. ASSUME NEW k \in m..at.hi, k \in H  PROVE FALSE
      <4>1. k \in at.lo..at.hi /\ GoesOn(k, ch, off)
        BY <2>14, <2>18, <3>3
      <4>2. k = m => w[off + 1] = ch
        BY <4>1 DEF GoesOn, w
      <4>3. m < k => w[off + 1] <= ch
        BY <2>13, <3>2, <4>1
      <4> QED  BY <2>16, <2>18, <2>21, <3>2, <4>2, <4>3
    <3>4. Sought(H \cap at.lo..(m - 1), h[at], at.ans, first)
      BY <2>7, <2>11, <3>1
    <3>5. Sought(H, h[at], at.ans, first)
      BY <2>19, <3>3, <3>4, Zenon DEF TurnGoesOn
    <3> QED  BY <3>5 DEF H
  <2>22. CASE ~(Len(w) <= off \/ w[off + 1] < ch) /\ ~(w[off + 1] > ch)
    <3>1. GoesOn(m, ch, off)
      BY <1>1, <2>10, <2>16, <2>22 DEF GoesOn, w
    <3>2. m \in H
      BY <2>2, <2>14, <3>1
    <3>3. CASE first
      <4>1. b.lo = at.lo /\ b.hi = m - 1 /\ b.ans = m
        BY <2>3, <2>15, <2>22, <3>3
      <4>2. Sought(H \cap at.lo..(m - 1), h[at], m, first)
        BY <2>7, <2>11, <4>1
      <4>3. Sought(H, h[at], at.ans, first)
        BY <2>19, <3>2, <3>3, <4>2, Zenon DEF TurnGoesOn
      <4> QED  BY <4>3 DEF H
    <3>4. CASE ~first
      <4>1. b.lo = m + 1 /\ b.hi = at.hi /\ b.ans = m
        BY <2>3, <2>15, <2>22, <3>4
      <4>2. Sought(H \cap (m + 1)..at.hi, h[at], m, first)
        BY <2>7, <2>11, <4>1
      <4>3. Sought(H, h[at], at.ans, first)
        BY <2>19, <3>2, <3>4, <4>2, Zenon DEF TurnGoesOn
      <4> QED  BY <4>3 DEF H
    <3> QED  BY <3>3, <3>4
  <2> QED  BY <2>20, <2>21, <2>22
<1>7. \A n \in 0..N : n \in T /\ n < N => n + 1 \in T
  BY <1>6
<1> HIDE DEF T
<1>8. 0..N \subseteq T
  BY <1>1, <1>5, <1>7, CountUp
<1>9. N \in T
  BY <1>1, <1>8
<1> DEFINE at == [lo |-> l, hi |-> r, ans |-> None]
<1>10. at \in Search /\ at.lo = l /\ at.hi = r /\ at.ans = None
  BY <1>1 DEF Search, N, None
<1>11. l <= l /\ r <= r /\ r < l + N
  BY <1>1
<1> HIDE DEF at
<1>12. Right(at)
  <2> HIDE DEF Right
  <2> QED  BY <1>9, <1>10, <1>11 DEF T
<1>13. DictSeek(l, r, ch, off, first) = h[at]
  BY <1>2 DEF at
<1> QED  BY <1>10, <1>12, <1>13

-----------------------------------------------------------------------------
(***************************************************************************)
(* What the other helpers give.                                            *)
(***************************************************************************)
LEMMA GreatestOf ==
  ASSUME NEW n \in Nat, NEW S, S \subseteq 0..n, S # {}
  PROVE  \E x \in S : \A y \in S : y <= x
<1> DEFINE D == {d \in Nat : d <= n /\ n - d \in S}
<1>1. \A x \in S : x \in Nat /\ x <= n /\ n - x \in D /\ n - (n - x) = x
  OBVIOUS
<1>2. D \subseteq Nat /\ D # {}
  BY <1>1
<1>3. \A d \in D : d \in Nat /\ n - d \in S
  OBVIOUS
<1> HIDE DEF D
<1>4. PICK d \in D : \A y \in D : d <= y
  BY <1>2, LeastOf
<1>5. \A y \in S : y <= n - d
  <2>1. SUFFICES ASSUME NEW y \in S  PROVE y <= n - d
    OBVIOUS
  <2>2. d <= n - y /\ d \in Nat /\ y \in Nat
    BY <1>1, <1>3, <1>4
  <2> QED  BY <2>2
<1> QED  BY <1>3, <1>5

\* Kept is the members of s at the places I.
KeptTo(s, I, h, n) ==
  h = [k \in 0..n |-> IF k = 0 THEN <<>> ELSE IF k \in I THEN Append(h[k - 1], s[k]) ELSE h[k - 1]]

LEMMA KeptMade ==
  ASSUME NEW s, Len(s) \in Nat, NEW I  PROVE KeptTo(s, I, CHOOSE h : KeptTo(s, I, h, Len(s)), Len(s))
<1> DEFINE N == Len(s)
           Next1(r, k) == IF k \in I THEN Append(r, s[k]) ELSE r
           Makes(h, n) == h = [k \in 0..n |-> IF k = 0 THEN <<>> ELSE Next1(h[k - 1], k)]
           T == {n \in 0..N : \E h : Makes(h, n)}
<1>1. N \in Nat
  OBVIOUS
<1>2. 0 \in T
  <2> DEFINE h == [k \in 0..0 |-> <<>>]
  <2>1. Makes(h, 0)
    OBVIOUS
  <2> HIDE DEF Makes
  <2> QED  BY <1>1, <2>1
<1>3. ASSUME NEW n \in 0..N, n \in T, n < N  PROVE n + 1 \in T
  <2>1. PICK h : Makes(h, n)
    BY <1>3
  <2> DEFINE g == [k \in 0..n + 1 |-> IF k = n + 1 THEN Next1(h[n], n + 1) ELSE h[k]]
  <2> HIDE DEF Next1
  <2>2. h[0] = <<>> /\ \A k \in 1..n : h[k] = Next1(h[k - 1], k)
    BY <2>1
  <2>3. g[0] = <<>> /\ \A k \in 1..n + 1 : g[k] = Next1(g[k - 1], k)
    <3>1. n \in Nat /\ g[n + 1] = Next1(h[n], n + 1) /\ \A k \in 0..n : g[k] = h[k]
      BY <1>1
    <3> HIDE DEF g
    <3>2. \A k \in 1..n + 1 : k # n + 1 => k \in 1..n /\ k \in 0..n /\ k - 1 \in 0..n
      BY <3>1
    <3>3. (n + 1) - 1 = n /\ n \in 0..n /\ 0 \in 0..n
      BY <3>1
    <3>4. ASSUME NEW k \in 1..n + 1  PROVE g[k] = Next1(g[k - 1], k)
      BY <2>2, <3>1, <3>2, <3>3
    <3> QED  BY <2>2, <3>1, <3>3, <3>4
  <2>4. g = [k \in 0..n + 1 |-> g[k]]
    OBVIOUS
  <2> HIDE DEF g
  <2>5. Makes(g, n + 1)
    <3>1. \A k \in 0..n + 1 : g[k] = IF k = 0 THEN <<>> ELSE Next1(g[k - 1], k)
      <4>1. \A k \in 0..n + 1 : k = 0 \/ k \in 1..n + 1
        BY <1>1
      <4> QED  BY <2>3, <4>1
    <3> QED  BY <2>4, <3>1
  <2>6. n + 1 \in 0..N
    BY <1>1, <1>3
  <2> HIDE DEF Makes
  <2> QED  BY <2>5, <2>6
<1>4. \A n \in 0..N : n \in T /\ n < N => n + 1 \in T
  BY <1>3
<1> HIDE DEF T
<1>5. 0..N \subseteq T
  BY <1>1, <1>2, <1>4, CountUp
<1>6. \E h : Makes(h, N)
  BY <1>1, <1>5 DEF T
<1>7. \E h : KeptTo(s, I, h, N)
  BY <1>6 DEF KeptTo
<1> QED  BY <1>7

Keeps(r, S, s, I) ==
  /\ r \in Seq(S)
  /\ \A k \in 1..Len(r) : \E n \in 1..Len(s) : n \in I /\ r[k] = s[n]
  /\ \A n \in 1..Len(s) : n \in I => \E k \in 1..Len(r) : r[k] = s[n]

LEMMA KeptIs ==
  ASSUME NEW S, NEW s \in Seq(S), NEW I  PROVE Keeps(Kept(s, I), S, s, I)
<1> DEFINE N == Len(s)
           h == CHOOSE h : KeptTo(s, I, h, N)
           Right(r, m) ==
             /\ r \in Seq(S)
             /\ \A k \in 1..Len(r) : \E n \in 1..m : n \in I /\ r[k] = s[n]
             /\ \A n \in 1..m : n \in I => \E k \in 1..Len(r) : r[k] = s[n]
           T == {m \in 0..N : Right(h[m], m)}
<1>1. N \in Nat
  OBVIOUS
<1>2. KeptTo(s, I, h, N)
  BY <1>1, KeptMade
<1>3. Kept(s, I) = h[N]
  BY DEF Kept, KeptTo
<1> HIDE DEF h
<1>4. h[0] = <<>> /\ \A k \in 1..N : h[k] = IF k \in I THEN Append(h[k - 1], s[k]) ELSE h[k - 1]
  <2> HIDE DEF N
  <2>1. 0 \in 0..N /\ \A k \in 1..N : k \in 0..N /\ k # 0
    BY <1>1
  <2>2. \A k \in 0..N : h[k] = IF k = 0 THEN <<>> ELSE IF k \in I THEN Append(h[k - 1], s[k]) ELSE h[k - 1]
    BY <1>2 DEF KeptTo
  <2> QED  BY <2>1, <2>2
<1>5. 0 \in T
  <2>1. Right(<<>>, 0)
    OBVIOUS
  <2> HIDE DEF Right
  <2> QED  BY <1>1, <1>4, <2>1
<1>6. ASSUME NEW m \in 0..N, m \in T, m < N  PROVE m + 1 \in T
  <2> DEFINE r == h[m]
  <2>1. Right(r, m) /\ m \in Nat /\ m + 1 \in 1..N /\ m + 1 \in 0..N /\ (m + 1) - 1 = m
    <3> HIDE DEF Right
    <3> QED  BY <1>1, <1>6
  <2>2. s[m + 1] \in S
    BY <2>1
  <2> HIDE DEF r
  <2>3. \A n \in 1..m : n \in 1..m + 1
    BY <2>1
  <2>4. \A n \in 1..m + 1 : n \in 1..m \/ n = m + 1
    BY <2>1
  <2>5. CASE m + 1 \in I
    <3>1. h[m + 1] = Append(r, s[m + 1])
      BY <1>4, <2>1, <2>5 DEF r
    <3> DEFINE t == Append(r, s[m + 1])
    <3>2. t \in Seq(S) /\ Len(t) = Len(r) + 1 /\ t[Len(r) + 1] = s[m + 1] /\ \A k \in 1..Len(r) : t[k] = r[k]
      BY <2>1, <2>2
    <3>3. Len(r) \in Nat /\ \A k \in 1..Len(r) + 1 : k \in 1..Len(r) \/ k = Len(r) + 1
      BY <2>1
    <3>4. Len(r) + 1 \in 1..Len(r) + 1 /\ \A k \in 1..Len(r) : k \in 1..Len(r) + 1
      BY <3>3
    <3> HIDE DEF t
    <3>5. \A k \in 1..Len(t) : \E n \in 1..m + 1 : n \in I /\ t[k] = s[n]
      <4>1. SUFFICES ASSUME NEW k \in 1..Len(t)  PROVE \E n \in 1..m + 1 : n \in I /\ t[k] = s[n]
        OBVIOUS
      <4>2. m + 1 \in 1..m + 1 /\ (k \in 1..Len(r) \/ k = Len(r) + 1)
        BY <2>1, <3>2, <3>3
      <4>3. CASE k \in 1..Len(r)
        <5>1. PICK n \in 1..m : n \in I /\ r[k] = s[n]
          BY <2>1, <4>3
        <5>2. n \in 1..m + 1 /\ t[k] = r[k]
          BY <2>3, <3>2, <4>3
        <5> QED  BY <5>1, <5>2
      <4>4. CASE k = Len(r) + 1
        BY <2>5, <3>2, <4>2, <4>4
      <4> QED  BY <4>2, <4>3, <4>4
    <3>6. \A n \in 1..m + 1 : n \in I => \E k \in 1..Len(t) : t[k] = s[n]
      BY <2>1, <2>4, <3>2, <3>4
    <3>7. Right(t, m + 1)
      BY <3>2, <3>5, <3>6
    <3> HIDE DEF Right
    <3> QED  BY <2>1, <3>1, <3>7 DEF t
  <2>6. CASE m + 1 \notin I
    <3>1. h[m + 1] = r
      BY <1>4, <2>1, <2>6 DEF r
    <3>2. Right(r, m + 1)
      BY <2>1, <2>3, <2>4, <2>6
    <3> HIDE DEF Right
    <3> QED  BY <2>1, <3>1, <3>2
  <2> QED  BY <2>5, <2>6
<1>7. \A m \in 0..N : m \in T /\ m < N => m + 1 \in T
  BY <1>6
<1> HIDE DEF T
<1>8. 0..N \subseteq T
  BY <1>1, <1>5, <1>7, CountUp
<1>9. Right(h[N], N)
  BY <1>1, <1>8 DEF T
<1> QED  BY <1>3, <1>9 DEF Keeps

-----------------------------------------------------------------------------
(***************************************************************************)
(* The acceptors follow what was begun.                                    *)
(***************************************************************************)
Kinds == {"WORD", "SPACE", "SINSYM", "NUMBER", "THAI", "PART", "DICT"}

AcceptorSet == [rule : Kinds, off : Nat, final : BOOLEAN, lo : Nat, hi : Nat, patterns : SUBSET PartRule]

\* The last k of the first i characters are the first ones of the word m, are
\* the first ones a pattern stands for.
Spelled(m, i, k) == Len(dict[m]) >= k /\ \A j \in 1..k : dict[m][j] = text[i - k + j]
Begun(pat, i, k) == \A j \in 1..k : IsMatch(pat, j - 1, text[i - k + j])

\* What an acceptor has got of the first i characters.
AcceptorRight(a, i) ==
  /\ a \in AcceptorSet /\ a.off \in 0..i
  /\ a.rule = "PART" =>
       \A pat \in PartRule : Begun(pat, i, a.off) =>
         pat \in a.patterns /\ (a.off > 0 /\ Len(pat) = a.off => a.final = TRUE)
  /\ a.rule = "DICT" =>
       /\ a.lo \in 1..Len(dict) + 1 /\ a.hi \in 0..Len(dict)
       /\ \A m \in 1..Len(dict) :
            /\ m \in a.lo..a.hi <=> Spelled(m, i, a.off)
            /\ a.off > 0 /\ Spelled(m, i, a.off) /\ Len(dict[m]) = a.off => a.final = TRUE

TextRead(i) == Ascending(dict) /\ text \in Seq(Nat) /\ i \in 0..Len(text)

LEMMA RulesAre ==
  /\ Rules \in Seq(Kinds) /\ Len(Rules) = 7 /\ Rules[6] = "PART" /\ Rules[7] = "DICT"
  /\ DOMAIN Rules = 1..7
BY DEF Rules, Kinds

LEMMA CreatedRight ==
  ASSUME NEW i, TextRead(i), NEW rule \in Kinds
  PROVE  AcceptorRight(CreateAcceptor(rule), i) /\ CreateAcceptor(rule).off = 0
         /\ CreateAcceptor(rule).rule = rule
<1> DEFINE a == CreateAcceptor(rule)
<1>1. /\ a.rule = rule /\ a.off = 0 /\ a.final = FALSE
      /\ a.patterns = (IF rule = "PART" THEN PartRule ELSE {})
      /\ a.lo = (IF rule = "DICT" THEN 1 ELSE None) /\ a.hi = (IF rule = "DICT" THEN Len(dict) ELSE None)
  BY DEF CreateAcceptor
<1>2. Len(dict) \in Nat /\ i \in Nat
  BY DEF TextRead, Ascending
<1>3. a \in AcceptorSet
  BY <1>2 DEF CreateAcceptor, AcceptorSet, None
<1> HIDE DEF a
<1>4. a.off \in 0..i
  BY <1>1, <1>2
<1>5. \A m \in 1..Len(dict) : Spelled(m, i, 0)
  <2>1. SUFFICES ASSUME NEW m \in 1..Len(dict)  PROVE Spelled(m, i, 0)
    OBVIOUS
  <2>2. dict[m] \in Seq(Nat)
    BY DEF TextRead, Ascending
  <2>3. Len(dict[m]) >= 0
    BY <2>2
  <2> QED  BY <2>3 DEF Spelled
<1>6. ~(a.off > 0)
  BY <1>1
<1>7. a.rule = "PART" => \A pat \in PartRule : pat \in a.patterns
  BY <1>1
<1>8. a.rule = "DICT" =>
        /\ a.lo \in 1..Len(dict) + 1 /\ a.hi \in 0..Len(dict)
        /\ \A m \in 1..Len(dict) : m \in a.lo..a.hi /\ Spelled(m, i, a.off)
  BY <1>1, <1>2, <1>5
<1> QED  BY <1>1, <1>3, <1>4, <1>6, <1>7, <1>8 DEF AcceptorRight, a

\* One character more of a pattern, of a word.
LEMMA BegunMore ==
  ASSUME NEW i \in Nat, NEW k \in 0..i, NEW pat
  PROVE  Begun(pat, i + 1, k + 1) <=> Begun(pat, i, k) /\ IsMatch(pat, k, text[i + 1])
<1>1. (i + 1) - (k + 1) + (k + 1) = i + 1 /\ (k + 1) - 1 = k /\ k + 1 \in 1..k + 1
  OBVIOUS
<1>2. \A j \in 1..k : (i + 1) - (k + 1) + j = i - k + j /\ j \in 1..k + 1
  OBVIOUS
<1>3. \A j \in 1..k + 1 : j \in 1..k \/ j = k + 1
  OBVIOUS
<1>4. ASSUME Begun(pat, i + 1, k + 1)  PROVE Begun(pat, i, k) /\ IsMatch(pat, k, text[i + 1])
  BY <1>1, <1>2, <1>4 DEF Begun
<1>5. ASSUME Begun(pat, i, k), IsMatch(pat, k, text[i + 1])  PROVE Begun(pat, i + 1, k + 1)
  <2>1. ASSUME NEW j \in 1..k + 1  PROVE IsMatch(pat, j - 1, text[(i + 1) - (k + 1) + j])
    <3>1. CASE j \in 1..k
      BY <1>2, <1>5, <3>1 DEF Begun
    <3>2. CASE j = k + 1
      BY <1>1, <1>5, <3>2
    <3> QED  BY <1>3, <3>1, <3>2
  <2> QED  BY <2>1 DEF Begun
<1> QED  BY <1>4, <1>5

LEMMA SpelledMore ==
  ASSUME NEW i \in Nat, NEW k \in 0..i, NEW m, dict[m] \in Seq(Nat)
  PROVE  Spelled(m, i + 1, k + 1) <=> Spelled(m, i, k) /\ GoesOn(m, text[i + 1], k)
<1> DEFINE w == dict[m]
<1>0. Len(w) \in Nat
  OBVIOUS
<1>1. (i + 1) - (k + 1) + (k + 1) = i + 1 /\ k + 1 \in 1..k + 1
  OBVIOUS
<1>2. \A j \in 1..k : (i + 1) - (k + 1) + j = i - k + j /\ j \in 1..k + 1
  OBVIOUS
<1>3. \A j \in 1..k + 1 : j \in 1..k \/ j = k + 1
  OBVIOUS
<1> HIDE DEF w
<1>4. Len(w) >= k + 1 <=> Len(w) >= k /\ Len(w) > k
  BY <1>0
<1>5. ASSUME \A j \in 1..k + 1 : w[j] = text[(i + 1) - (k + 1) + j]
      PROVE  (\A j \in 1..k : w[j] = text[i - k + j]) /\ w[k + 1] = text[i + 1]
  BY <1>1, <1>2, <1>5
<1>6. ASSUME \A j \in 1..k : w[j] = text[i - k + j], w[k + 1] = text[i + 1], NEW j \in 1..k + 1
      PROVE  w[j] = text[(i + 1) - (k + 1) + j]
  <2>1. CASE j \in 1..k
    BY <1>2, <1>6, <2>1
  <2>2. CASE j = k + 1
    BY <1>1, <1>6, <2>2
  <2> QED  BY <1>3, <2>1, <2>2
<1> QED  BY <1>4, <1>5, <1>6 DEF Spelled, GoesOn, w

\* Transit, as a record.
LEMMA TransitIs ==
  ASSUME NEW a \in AcceptorSet, NEW ch
  PROVE  LET b == Transit(a, ch)
             lo == DictSeek(a.lo, a.hi, ch, a.off, TRUE)
         IN  /\ b.rule = a.rule /\ b.off = a.off + 1
             /\ b = [rule |-> b.rule, off |-> b.off, final |-> b.final, lo |-> b.lo, hi |-> b.hi,
                     patterns |-> b.patterns]
             /\ a.rule = "PART" =>
                  /\ b.lo = a.lo /\ b.hi = a.hi /\ b.patterns = Going(a, ch)
                  /\ b.final = \E pat \in Going(a, ch) : Len(pat) = a.off + 1
             /\ a.rule = "DICT" =>
                  /\ b.lo = lo /\ b.hi = DictSeek(lo, a.hi, ch, a.off, FALSE) /\ b.patterns = a.patterns
                  /\ b.final = (Len(dict[lo]) = a.off + 1)
             /\ a.rule \notin {"PART", "DICT"} =>
                  /\ b.lo = a.lo /\ b.hi = a.hi /\ b.patterns = a.patterns
                  /\ b.final = (a.rule = "THAI" => Len(Rule0) = a.off + 1)
<1> DEFINE b == Transit(a, ch)
           lo == DictSeek(a.lo, a.hi, ch, a.off, TRUE)
           hi == DictSeek(lo, a.hi, ch, a.off, FALSE)
           going == Going(a, ch)
           G == \E pat \in going : Len(pat) = a.off + 1
           w == dict[lo]
           on == [a EXCEPT !.off = @ + 1]
<1>1. on = [rule |-> a.rule, off |-> a.off + 1, final |-> a.final, lo |-> a.lo, hi |-> a.hi, patterns |-> a.patterns]
  BY DEF AcceptorSet
<1>2. on.off = a.off + 1
  BY <1>1
<1>3. b = CASE a.rule = "DICT" -> [on EXCEPT !.lo = lo, !.hi = hi, !.final = (Len(w) = on.off)]
            [] a.rule = "PART" -> [on EXCEPT !.patterns = going, !.final = \E pat \in going : Len(pat) = on.off]
            [] a.rule = "THAI" -> [on EXCEPT !.final = (Len(Rule0) = on.off)]
            [] OTHER -> [on EXCEPT !.final = TRUE]
  BY DEF Transit
<1>4. (\E pat \in going : Len(pat) = on.off) = G
  BY <1>2
<1> HIDE DEF b, lo, hi, going, w, G, on
<1>5. CASE a.rule = "DICT"
  <2>1. b = [on EXCEPT !.lo = lo, !.hi = hi, !.final = (Len(w) = a.off + 1)]
    BY <1>2, <1>3, <1>5
  <2>2. b = [rule |-> a.rule, off |-> a.off + 1, final |-> (Len(w) = a.off + 1), lo |-> lo, hi |-> hi,
             patterns |-> a.patterns]
    BY <1>1, <2>1
  <2> QED  BY <1>5, <2>2 DEF b, lo, hi, w
<1>6. CASE a.rule = "PART"
  <2>1. b = [on EXCEPT !.patterns = going, !.final = G]
    BY <1>3, <1>4, <1>6
  <2>2. b = [rule |-> a.rule, off |-> a.off + 1, final |-> G, lo |-> a.lo, hi |-> a.hi, patterns |-> going]
    BY <1>1, <2>1
  <2> QED  BY <1>6, <2>2 DEF b, going, G
<1>7. CASE a.rule \notin {"PART", "DICT"}
  <2>1. b = [on EXCEPT !.final = (a.rule = "THAI" => Len(Rule0) = a.off + 1)]
    BY <1>2, <1>3, <1>7
  <2> DEFINE F == a.rule = "THAI" => Len(Rule0) = a.off + 1
  <2> HIDE DEF F
  <2>2. b = [rule |-> a.rule, off |-> a.off + 1, final |-> F, lo |-> a.lo, hi |-> a.hi, patterns |-> a.patterns]
    BY <1>1, <2>1 DEF F
  <2>3. /\ b.rule = a.rule /\ b.off = a.off + 1 /\ b.lo = a.lo /\ b.hi = a.hi
        /\ b.patterns = a.patterns /\ b.final = F
        /\ b = [rule |-> b.rule, off |-> b.off, final |-> b.final, lo |-> b.lo, hi |-> b.hi, patterns |-> b.patterns]
    BY <2>2
  <2> QED  BY <1>7, <2>3 DEF b, F
<1> QED  BY <1>5, <1>6, <1>7

\* The words that go on with ch are those between what the searches give.
LEMMA WordsGoOn ==
  ASSUME Ascending(dict), NEW l, NEW r, NEW ch \in Nat, NEW off, SameTo(l, r, off),
         DictSeek(l, r, ch, off, TRUE) # None
  PROVE  LET lo == DictSeek(l, r, ch, off, TRUE)
             hi == DictSeek(lo, r, ch, off, FALSE)
         IN  /\ lo \in l..r /\ hi \in lo..r /\ GoesOn(lo, ch, off)
             /\ \A m \in l..r : GoesOn(m, ch, off) <=> m \in lo..hi
<1> DEFINE lo == DictSeek(l, r, ch, off, TRUE)
           hi == DictSeek(lo, r, ch, off, FALSE)
           N == Len(dict)
<1>1. N \in Nat /\ l \in 1..N + 1 /\ r \in 0..N /\ off \in Nat
  BY DEF Ascending, SameTo
<1>2. Sought(Hits(l, r, ch, off), lo, None, TRUE)
  BY SeekFinds
<1> HIDE DEF lo
<1>3. lo \in Hits(l, r, ch, off) /\ \A y \in Hits(l, r, ch, off) : lo <= y
  BY <1>2 DEF Sought, lo
<1>4. lo \in l..r /\ GoesOn(lo, ch, off) /\ \A m \in l..r : GoesOn(m, ch, off) => lo <= m
  BY <1>3 DEF Hits
<1>5. lo..r \subseteq l..r /\ lo \in 1..N /\ lo \in 1..N + 1 /\ lo \in lo..r /\ lo \in Nat
  BY <1>1, <1>4
<1>6. SameTo(lo, r, off)
  <2>1. \A m \in l..r : Len(dict[m]) >= off /\ \A j \in 1..off : dict[m][j] = dict[l][j]
    BY DEF SameTo
  <2>2. \A m \in lo..r : Len(dict[m]) >= off /\ \A j \in 1..off : dict[m][j] = dict[lo][j]
    BY <1>4, <1>5, <2>1
  <2> QED  BY <1>1, <1>5, <2>2 DEF SameTo, N
<1>7. Sought(Hits(lo, r, ch, off), hi, None, FALSE)
  BY <1>6, SeekFinds
<1> HIDE DEF hi
<1>8. lo \in Hits(lo, r, ch, off)
  BY <1>4, <1>5 DEF Hits
<1>9. hi \in Hits(lo, r, ch, off) /\ \A y \in Hits(lo, r, ch, off) : y <= hi
  BY <1>7, <1>8 DEF Sought
<1>10. hi \in lo..r /\ GoesOn(hi, ch, off) /\ \A m \in lo..r : GoesOn(m, ch, off) => m <= hi
  BY <1>9 DEF Hits
<1>11. ASSUME NEW m \in l..r, GoesOn(m, ch, off)  PROVE m \in lo..hi
  <2>1. lo <= m
    BY <1>4, <1>11
  <2>2. m \in lo..r
    BY <1>1, <1>5, <2>1
  <2>3. m <= hi
    BY <1>10, <1>11, <2>2
  <2> QED  BY <1>10, <2>1, <2>2, <2>3
<1>12. ASSUME NEW m \in lo..hi  PROVE GoesOn(m, ch, off)
  <2>1. m \in l..r /\ hi \in l..r /\ m \in 1..N /\ m \in Nat /\ hi \in Nat
    BY <1>1, <1>5, <1>10
  <2>2. lo = m \/ lo < m
    BY <1>5, <2>1
  <2>3. m = hi \/ m < hi
    BY <1>10, <2>1
  <2>4. Len(dict[lo]) > off /\ dict[lo][off + 1] = ch
    BY <1>4 DEF GoesOn
  <2>5. CASE lo # m /\ m # hi
    <3>1. Len(dict[m]) > off /\ ch <= dict[m][off + 1]
      BY <1>4, <2>1, <2>2, <2>4, <2>5, NextAscends
    <3>2. dict[m][off + 1] <= dict[hi][off + 1] /\ dict[hi][off + 1] = ch
      BY <1>10, <2>1, <2>3, <2>5, <3>1, NextAscends DEF GoesOn
    <3>3. dict[m][off + 1] \in Nat
      <4>1. dict[m] \in Seq(Nat)
        BY <2>1 DEF Ascending, N
      <4>2. off + 1 \in 1..Len(dict[m])
        BY <1>1, <3>1, <4>1
      <4> QED  BY <4>1, <4>2
    <3> QED  BY <3>1, <3>2, <3>3 DEF GoesOn
  <2> QED  BY <1>4, <1>10, <2>5
<1>13. lo..hi \subseteq l..r
  BY <1>1, <1>4, <1>10
<1> QED  BY <1>4, <1>10, <1>11, <1>12 DEF lo, hi

LEMMA TransitRight ==
  ASSUME NEW i, TextRead(i), i < Len(text), NEW a, AcceptorRight(a, i), Accepts(a, text[i + 1])
  PROVE  AcceptorRight(Transit(a, text[i + 1]), i + 1)
<1> DEFINE ch == text[i + 1]
           b == Transit(a, ch)
           N == Len(dict)
           k == a.off
           lo == DictSeek(a.lo, a.hi, ch, a.off, TRUE)
           hi == DictSeek(lo, a.hi, ch, a.off, FALSE)
<1>1. N \in Nat /\ i \in Nat /\ ch \in Nat /\ Ascending(dict)
  BY DEF TextRead, Ascending
<1>2. a \in AcceptorSet /\ k \in 0..i /\ k \in Nat
  BY DEF AcceptorRight, TextRead
<1>3. /\ b.rule = a.rule /\ b.off = k + 1
      /\ b = [rule |-> b.rule, off |-> b.off, final |-> b.final, lo |-> b.lo, hi |-> b.hi, patterns |-> b.patterns]
      /\ a.rule = "PART" =>
           /\ b.lo = a.lo /\ b.hi = a.hi /\ b.patterns = Going(a, ch)
           /\ b.final = \E pat \in Going(a, ch) : Len(pat) = k + 1
      /\ a.rule = "DICT" =>
           /\ b.lo = lo /\ b.hi = hi /\ b.patterns = a.patterns
           /\ b.final = (Len(dict[lo]) = k + 1)
      /\ a.rule \notin {"PART", "DICT"} =>
           /\ b.lo = a.lo /\ b.hi = a.hi /\ b.patterns = a.patterns
           /\ b.final = (a.rule = "THAI" => Len(Rule0) = k + 1)
  BY <1>2, TransitIs
<1>4. a.rule \in Kinds /\ a.lo \in Nat /\ a.hi \in Nat /\ a.patterns \in SUBSET PartRule
  BY <1>2 DEF AcceptorSet
<1>5. Accepts(a, ch)
  OBVIOUS
<1> HIDE DEF ch, b, lo, hi, k
<1> SUFFICES AcceptorRight(b, i + 1)
  BY DEF b, ch
<1>6. b.off \in 0..i + 1 /\ b.off \in Nat
  BY <1>1, <1>2, <1>3
<1>7. ASSUME b.lo \in Nat, b.hi \in Nat, b.final \in BOOLEAN, b.patterns \in SUBSET PartRule
      PROVE  b \in AcceptorSet
  <2> DEFINE ru == b.rule
             of == b.off
             fi == b.final
             bl == b.lo
             bh == b.hi
             pa == b.patterns
  <2>1. ru \in Kinds /\ of \in Nat /\ fi \in BOOLEAN /\ bl \in Nat /\ bh \in Nat /\ pa \in SUBSET PartRule
    BY <1>3, <1>4, <1>6, <1>7
  <2>2. b = [rule |-> ru, off |-> of, final |-> fi, lo |-> bl, hi |-> bh, patterns |-> pa]
    BY <1>3
  <2> HIDE DEF ru, of, fi, bl, bh, pa
  <2> QED  BY <2>1, <2>2 DEF AcceptorSet
<1>8. CASE a.rule = "PART"
  <2>1. b.lo = a.lo /\ b.hi = a.hi /\ b.patterns = Going(a, ch) /\ b.rule = "PART"
        /\ b.final = \E pat \in Going(a, ch) : Len(pat) = k + 1
    BY <1>3, <1>8
  <2>2. Going(a, ch) \subseteq PartRule
    BY <1>4 DEF Going
  <2>3. b.final \in BOOLEAN
    BY <2>1
  <2>4. b \in AcceptorSet
    BY <1>4, <1>7, <2>1, <2>2, <2>3
  <2>5. ASSUME NEW pat \in PartRule, Begun(pat, i + 1, b.off)
        PROVE  pat \in b.patterns /\ (Len(pat) = b.off => b.final = TRUE)
    <3>1. Begun(pat, i, k) /\ IsMatch(pat, k, ch)
      BY <1>1, <1>2, <1>3, <2>5, BegunMore DEF ch
    <3>2. pat \in a.patterns
      BY <1>8, <3>1 DEF AcceptorRight, k
    <3>3. pat \in Going(a, ch)
      BY <3>1, <3>2 DEF Going, k
    <3>4. Len(pat) = b.off => \E q \in Going(a, ch) : Len(q) = k + 1
      BY <1>3, <3>3
    <3> QED  BY <2>1, <3>3, <3>4
  <2> QED  BY <1>6, <2>1, <2>4, <2>5 DEF AcceptorRight
<1>9. CASE a.rule = "DICT"
  <2>1. b.lo = lo /\ b.hi = hi /\ b.patterns = a.patterns /\ b.rule = "DICT"
        /\ b.final = (Len(dict[lo]) = k + 1) /\ b.off = k + 1
    BY <1>3, <1>9
  <2>2. lo # None
    BY <1>5, <1>9 DEF Accepts, lo
  <2>3. /\ a.lo \in 1..N + 1 /\ a.hi \in 0..N
        /\ \A m \in 1..N : m \in a.lo..a.hi <=> Spelled(m, i, k)
    BY <1>9 DEF AcceptorRight, k
  <2>4. \A m \in 1..N : dict[m] \in Seq(Nat)
    BY <1>1 DEF Ascending
  <2>5. \A m \in a.lo..a.hi : m \in 1..N
    BY <1>1, <2>3
  <2>6. SameTo(a.lo, a.hi, k)
    <3>1. \A m \in a.lo..a.hi : Len(dict[m]) >= k /\ \A j \in 1..k : dict[m][j] = text[i - k + j]
      BY <2>3, <2>5 DEF Spelled
    <3>2. ASSUME NEW m \in a.lo..a.hi  PROVE a.lo \in a.lo..a.hi
      BY <1>1, <2>3
    <3>3. ASSUME NEW m \in a.lo..a.hi, NEW j \in 1..k  PROVE dict[m][j] = dict[a.lo][j]
      BY <3>1, <3>2
    <3> QED  BY <1>2, <2>3, <3>1, <3>3 DEF SameTo
  <2>7. /\ lo \in a.lo..a.hi /\ hi \in lo..a.hi /\ GoesOn(lo, ch, k)
        /\ \A m \in a.lo..a.hi : GoesOn(m, ch, k) <=> m \in lo..hi
    BY <1>1, <2>2, <2>6, WordsGoOn, Zenon DEF lo, hi, k
  <2>8. lo \in 1..N /\ hi \in 1..N /\ lo \in Nat /\ hi \in Nat /\ lo..hi \subseteq a.lo..a.hi
    BY <1>1, <2>3, <2>7
  <2>9. b \in AcceptorSet
    <3>1. b.final \in BOOLEAN
      BY <2>1
    <3> QED  BY <1>4, <1>7, <2>1, <2>8, <3>1
  <2>10. ASSUME NEW m \in 1..N  PROVE m \in lo..hi <=> Spelled(m, i + 1, k + 1)
    <3>1. Spelled(m, i + 1, k + 1) <=> m \in a.lo..a.hi /\ GoesOn(m, ch, k)
      BY <1>1, <1>2, <2>3, <2>4, SpelledMore DEF ch
    <3> QED  BY <2>7, <2>8, <3>1
  <2>11. ASSUME NEW m \in 1..N, Spelled(m, i + 1, k + 1), Len(dict[m]) = k + 1  PROVE Len(dict[lo]) = k + 1
    <3>1. m \in lo..hi
      BY <2>10, <2>11
    <3>2. Spelled(lo, i + 1, k + 1)
      <4>1. lo \in lo..hi
        BY <2>7, <2>8
      <4> QED  BY <2>8, <2>10, <4>1
    <3>3. lo = m \/ lo < m
      BY <2>8, <3>1
    <3>4. SUFFICES ASSUME lo < m  PROVE FALSE
      BY <2>11, <3>3
    <3>5. Before(dict[lo], dict[m]) /\ dict[lo] \in Seq(Nat) /\ dict[m] \in Seq(Nat)
      BY <1>1, <2>8, <3>4 DEF Ascending
    <3>6. PICK p \in Nat : Differ(dict[lo], dict[m], p)
      BY <3>5, BeforeIs
    <3>7. p \in 1..k + 1 /\ (p <= Len(dict[lo]) => dict[lo][p] < dict[m][p])
      BY <2>11, <3>6 DEF Differ
    <3>8. p <= Len(dict[lo])
      <4>1. Len(dict[lo]) >= k + 1 /\ Len(dict[lo]) \in Nat
        BY <3>2, <3>5 DEF Spelled
      <4> QED  BY <1>2, <3>7, <4>1
    <3>9. dict[lo][p] = dict[m][p]
      BY <2>11, <3>2, <3>7 DEF Spelled
    <3>10. dict[m][p] \in Nat
      BY <2>11, <3>5, <3>7
    <3> QED  BY <3>7, <3>8, <3>9, <3>10
  <2>12. \A m \in 1..N : /\ m \in b.lo..b.hi <=> Spelled(m, i + 1, b.off)
                         /\ b.off > 0 /\ Spelled(m, i + 1, b.off) /\ Len(dict[m]) = b.off => b.final = TRUE
    <3>1. SUFFICES ASSUME NEW m \in 1..N
                   PROVE  /\ m \in lo..hi <=> Spelled(m, i + 1, k + 1)
                          /\ Spelled(m, i + 1, k + 1) /\ Len(dict[m]) = k + 1 => Len(dict[lo]) = k + 1
      <4>1. Len(dict[lo]) = k + 1 => b.final = TRUE
        BY <2>1
      <4>2. b.lo = lo /\ b.hi = hi /\ b.off = k + 1
        BY <2>1
      <4> HIDE DEF N
      <4> QED  BY <4>1, <4>2
    <3> QED  BY <2>10, <2>11
  <2>13. b.lo \in 1..N + 1 /\ b.hi \in 0..N
    BY <1>1, <2>1, <2>8
  <2> QED  BY <1>6, <2>1, <2>9, <2>12, <2>13 DEF AcceptorRight
<1>10. CASE a.rule \notin {"PART", "DICT"}
  <2>1. b.lo = a.lo /\ b.hi = a.hi /\ b.patterns = a.patterns /\ b.rule = a.rule
        /\ b.final = (a.rule = "THAI" => Len(Rule0) = k + 1)
    BY <1>3, <1>10
  <2>2. b.final \in BOOLEAN
    BY <2>1
  <2>3. b \in AcceptorSet
    BY <1>4, <1>7, <2>1, <2>2
  <2> QED  BY <1>6, <1>10, <2>1, <2>3 DEF AcceptorRight
<1> QED  BY <1>8, <1>9, <1>10

\* All that was begun is followed.
AcceptorsRight(s, i) ==
  /\ s \in Seq(AcceptorSet)
  /\ \A n \in 1..Len(s) : AcceptorRight(s[n], i) /\ s[n].off >= 1
  /\ \A k \in 1..i :
       /\ (\E pat \in PartRule : Begun(pat, i, k)) => \E n \in 1..Len(s) : s[n].rule = "PART" /\ s[n].off = k
       /\ (\E m \in 1..Len(dict) : Spelled(m, i, k)) => \E n \in 1..Len(s) : s[n].rule = "DICT" /\ s[n].off = k

LEMMA CreatedIs ==
  ASSUME NEW i, TextRead(i)
  PROVE  /\ Created \in Seq(AcceptorSet)
         /\ \A n \in 1..Len(Created) : AcceptorRight(Created[n], i) /\ Created[n].off = 0
         /\ \A rule \in {"PART", "DICT"} : \E n \in 1..Len(Created) : Created[n].rule = rule
<1> DEFINE I == {n \in DOMAIN Rules : ~Tagged(Rules[n])}
           new == Kept(Rules, I)
           c == [n \in 1..Len(new) |-> CreateAcceptor(new[n])]
<1>1. Created = c
  BY DEF Created
<1>2. /\ new \in Seq(Kinds)
      /\ \A n \in 1..Len(Rules) : n \in I => \E k \in 1..Len(new) : new[k] = Rules[n]
  <2> HIDE DEF I
  <2>1. Keeps(new, Kinds, Rules, I)
    BY RulesAre, KeptIs
  <2> QED  BY <2>1 DEF Keeps
<1>3. 6 \in I /\ 7 \in I
  BY RulesAre DEF Tagged
<1>4. \A rule \in {"PART", "DICT"} : \E k \in 1..Len(new) : new[k] = rule
  <2>1. 6 \in 1..Len(Rules) /\ 7 \in 1..Len(Rules)
    BY RulesAre
  <2> HIDE DEF I, new
  <2> QED  BY <1>2, <1>3, <2>1, RulesAre
<1> HIDE DEF I, new
<1>5. \A n \in 1..Len(new) : new[n] \in Kinds /\ c[n] = CreateAcceptor(new[n])
  BY <1>2
<1>6. \A n \in 1..Len(new) : AcceptorRight(c[n], i) /\ c[n].off = 0 /\ c[n].rule = new[n]
  BY <1>5, CreatedRight
<1>7. \A n \in 1..Len(new) : c[n] \in AcceptorSet
  BY <1>6 DEF AcceptorRight
<1>8. Len(new) \in Nat
  BY <1>2
<1>9. c \in Seq(AcceptorSet) /\ Len(c) = Len(new)
  BY <1>7, <1>8
<1> HIDE DEF c
<1> QED  BY <1>1, <1>4, <1>6, <1>9

LEMMA PartAccepted ==
  ASSUME NEW i, TextRead(i), i < Len(text), NEW a, AcceptorRight(a, i), a.rule = "PART",
         NEW pat \in PartRule, Begun(pat, i + 1, a.off + 1)
  PROVE  Accepts(a, text[i + 1])
<1>1. i \in Nat /\ a.off \in 0..i
  BY DEF TextRead, AcceptorRight
<1>2. Begun(pat, i, a.off) /\ IsMatch(pat, a.off, text[i + 1])
  BY <1>1, BegunMore
<1>3. pat \in Going(a, text[i + 1])
  BY <1>2 DEF AcceptorRight, Going
<1> QED  BY <1>3 DEF Accepts

LEMMA WordAccepted ==
  ASSUME NEW i, TextRead(i), i < Len(text), NEW a, AcceptorRight(a, i), a.rule = "DICT",
         NEW m \in 1..Len(dict), Spelled(m, i + 1, a.off + 1)
  PROVE  Accepts(a, text[i + 1])
<1> DEFINE ch == text[i + 1]
           k == a.off
           H == Hits(a.lo, a.hi, ch, k)
           x == DictSeek(a.lo, a.hi, ch, k, TRUE)
<1>1. Ascending(dict) /\ Len(dict) \in Nat /\ i \in Nat /\ k \in 0..i /\ k \in Nat /\ ch \in Nat
  <2>1. Ascending(dict) /\ Len(dict) \in Nat /\ i \in Nat /\ ch \in Nat
    BY DEF TextRead, Ascending
  <2>2. k \in 0..i
    BY DEF AcceptorRight
  <2> QED  BY <2>1, <2>2
<1>2. /\ a.lo \in 1..Len(dict) + 1 /\ a.hi \in 0..Len(dict)
      /\ \A n \in 1..Len(dict) : n \in a.lo..a.hi <=> Spelled(n, i, k)
  BY DEF AcceptorRight
<1>3. dict[m] \in Seq(Nat)
  BY <1>1 DEF Ascending
<1>4. Spelled(m, i, k) /\ GoesOn(m, ch, k)
  BY <1>1, <1>3, SpelledMore
<1>5. m \in H
  BY <1>2, <1>4, SMTT(20) DEF Hits
<1>6. SameTo(a.lo, a.hi, k)
  <2>1. \A n \in a.lo..a.hi : n \in 1..Len(dict) /\ a.lo \in a.lo..a.hi
    BY <1>1, <1>2
  <2>2. \A n \in a.lo..a.hi : Len(dict[n]) >= k /\ \A j \in 1..k : dict[n][j] = text[i - k + j]
    BY <1>2, <2>1 DEF Spelled
  <2>3. ASSUME NEW n \in a.lo..a.hi, NEW j \in 1..k  PROVE dict[n][j] = dict[a.lo][j]
    BY <2>1, <2>2
  <2> QED  BY <1>1, <1>2, <2>2, <2>3 DEF SameTo
<1>7. Sought(H, x, None, TRUE)
  <2> HIDE DEF ch, k
  <2> QED  BY <1>1, <1>6, SeekFinds
<1> HIDE DEF H, x
<1>8. x \in H
  BY <1>5, <1>7 DEF Sought
<1>9. x # None
  BY <1>1, <1>2, <1>8 DEF H, Hits, None
<1> QED  BY <1>9 DEF Accepts, x

LEMMA NextAcceptors ==
  ASSUME NEW i, TextRead(i), i < Len(text), AcceptorsRight(acceptors, i)
  PROVE  AcceptorsRight(TransitAll(text[i + 1]), i + 1)
<1> DEFINE ch == text[i + 1]
           all == acceptors \o Created
           I == {n \in DOMAIN all : Accepts(all[n], ch)}
           kept == Kept(all, I)
           next == [n \in 1..Len(kept) |-> Transit(kept[n], ch)]
<1>1. TransitAll(ch) = next
  BY DEF TransitAll
<1>2. acceptors \in Seq(AcceptorSet) /\ Created \in Seq(AcceptorSet)
  BY CreatedIs DEF AcceptorsRight
<1>3. /\ all \in Seq(AcceptorSet) /\ Len(all) = Len(acceptors) + Len(Created)
      /\ \A n \in 1..Len(acceptors) : all[n] = acceptors[n]
      /\ \A n \in 1..Len(Created) : all[Len(acceptors) + n] = Created[n]
      /\ \A n \in 1..Len(all) : n \in 1..Len(acceptors) \/ n - Len(acceptors) \in 1..Len(Created)
  BY <1>2
<1>4. Len(acceptors) \in Nat /\ Len(Created) \in Nat /\ DOMAIN all = 1..Len(all)
  BY <1>2, <1>3
<1> HIDE DEF all
<1>5. \A n \in 1..Len(all) : AcceptorRight(all[n], i)
  <2>1. SUFFICES ASSUME NEW n \in 1..Len(all)  PROVE AcceptorRight(all[n], i)
    OBVIOUS
  <2>2. CASE n \in 1..Len(acceptors)
    BY <1>3, <2>2 DEF AcceptorsRight
  <2>3. CASE n - Len(acceptors) \in 1..Len(Created)
    <3> DEFINE m == n - Len(acceptors)
    <3>1. n = Len(acceptors) + m
      BY <1>3, <1>4
    <3>2. all[n] = Created[m]
      BY <1>3, <2>3, <3>1
    <3> HIDE DEF m
    <3> QED  BY <2>3, <3>2, CreatedIs DEF m
  <2> QED  BY <1>3, <2>2, <2>3
<1>6. /\ kept \in Seq(AcceptorSet)
      /\ \A k \in 1..Len(kept) : \E n \in 1..Len(all) : n \in I /\ kept[k] = all[n]
      /\ \A n \in 1..Len(all) : n \in I => \E k \in 1..Len(kept) : kept[k] = all[n]
  <2> HIDE DEF I
  <2>1. Keeps(kept, AcceptorSet, all, I)
    BY <1>3, KeptIs
  <2> QED  BY <2>1 DEF Keeps
<1>7. \A n \in 1..Len(all) : n \in I <=> Accepts(all[n], ch)
  BY <1>4
<1> HIDE DEF kept, I
<1>8. Len(kept) \in Nat /\ \A n \in 1..Len(kept) : next[n] = Transit(kept[n], ch)
  BY <1>6
<1>9. \A n \in 1..Len(kept) : AcceptorRight(kept[n], i) /\ Accepts(kept[n], ch)
  BY <1>5, <1>6, <1>7
<1>10. \A n \in 1..Len(kept) : AcceptorRight(Transit(kept[n], ch), i + 1)
  BY <1>9, TransitRight
<1>11. \A n \in 1..Len(kept) :
         next[n].rule = kept[n].rule /\ next[n].off = kept[n].off + 1 /\ kept[n].off \in Nat
  <2>1. SUFFICES ASSUME NEW n \in 1..Len(kept)
                 PROVE  next[n].rule = kept[n].rule /\ next[n].off = kept[n].off + 1 /\ kept[n].off \in Nat
    OBVIOUS
  <2> DEFINE a == kept[n]
  <2>2. a \in AcceptorSet /\ next[n] = Transit(a, ch)
    BY <1>8, <1>9 DEF AcceptorRight
  <2> HIDE DEF a, next, ch
  <2>3. Transit(a, ch).rule = a.rule /\ Transit(a, ch).off = a.off + 1 /\ a.off \in Nat
    BY <2>2, TransitIs DEF AcceptorSet
  <2> QED  BY <2>2, <2>3 DEF a
<1>12. next \in Seq(AcceptorSet) /\ Len(next) = Len(kept)
  <2>1. \A n \in 1..Len(kept) : Transit(kept[n], ch) \in AcceptorSet
    BY <1>10 DEF AcceptorRight
  <2> QED  BY <1>8, <2>1
<1>13. ASSUME NEW k \in 1..i + 1, NEW rule \in {"PART", "DICT"},
              \A a : AcceptorRight(a, i) /\ a.rule = rule /\ a.off + 1 = k => Accepts(a, ch),
              k - 1 \in 1..i => \E n \in 1..Len(acceptors) : acceptors[n].rule = rule /\ acceptors[n].off = k - 1
       PROVE  \E n \in 1..Len(next) : next[n].rule = rule /\ next[n].off = k
  <2>1. i \in Nat
    BY DEF TextRead
  <2>2. \E n \in 1..Len(all) : all[n].rule = rule /\ all[n].off + 1 = k
    <3>1. CASE k = 1
      <4>1. PICK n \in 1..Len(Created) : Created[n].rule = rule
        BY CreatedIs
      <4>2. Created[n].off + 1 = k
        BY <3>1, <4>1, CreatedIs
      <4>3. Len(acceptors) + n \in 1..Len(all) /\ all[Len(acceptors) + n] = Created[n]
        BY <1>3, <1>4
      <4> QED  BY <4>1, <4>2, <4>3
    <3>2. CASE k # 1
      <4>1. k - 1 \in 1..i
        BY <2>1, <3>2
      <4>2. PICK n \in 1..Len(acceptors) : acceptors[n].rule = rule /\ acceptors[n].off = k - 1
        BY <1>13, <4>1
      <4>3. n \in 1..Len(all) /\ all[n] = acceptors[n] /\ (k - 1) + 1 = k
        BY <1>3, <1>4
      <4> QED  BY <4>2, <4>3
    <3> QED  BY <3>1, <3>2
  <2>3. PICK n \in 1..Len(all) : all[n].rule = rule /\ all[n].off + 1 = k
    BY <2>2
  <2>4. Accepts(all[n], ch)
    BY <1>5, <1>13, <2>3
  <2>5. PICK l \in 1..Len(kept) : kept[l] = all[n]
    BY <1>6, <1>7, <2>4
  <2> HIDE DEF next
  <2> QED  BY <1>11, <1>12, <2>3, <2>5
<1>14. ASSUME NEW k \in 1..i + 1, NEW pat \in PartRule, Begun(pat, i + 1, k)
       PROVE  \E n \in 1..Len(next) : next[n].rule = "PART" /\ next[n].off = k
  <2>1. \A a : AcceptorRight(a, i) /\ a.rule = "PART" /\ a.off + 1 = k => Accepts(a, ch)
    BY <1>14, PartAccepted
  <2>2. k - 1 \in 1..i => \E n \in 1..Len(acceptors) : acceptors[n].rule = "PART" /\ acceptors[n].off = k - 1
    <3>1. SUFFICES ASSUME k - 1 \in 1..i
                   PROVE  \E n \in 1..Len(acceptors) : acceptors[n].rule = "PART" /\ acceptors[n].off = k - 1
      OBVIOUS
    <3>2. i \in Nat /\ k - 1 \in 0..i /\ (k - 1) + 1 = k
      BY <3>1 DEF TextRead
    <3>3. Begun(pat, i, k - 1)
      BY <1>14, <3>2, BegunMore
    <3> QED  BY <3>1, <3>3 DEF AcceptorsRight
  <2> HIDE DEF next, ch
  <2> QED  BY <1>13, <2>1, <2>2
<1>15. ASSUME NEW k \in 1..i + 1, NEW m \in 1..Len(dict), Spelled(m, i + 1, k)
       PROVE  \E n \in 1..Len(next) : next[n].rule = "DICT" /\ next[n].off = k
  <2>1. \A a : AcceptorRight(a, i) /\ a.rule = "DICT" /\ a.off + 1 = k => Accepts(a, ch)
    BY <1>15, WordAccepted
  <2>2. k - 1 \in 1..i => \E n \in 1..Len(acceptors) : acceptors[n].rule = "DICT" /\ acceptors[n].off = k - 1
    <3>1. SUFFICES ASSUME k - 1 \in 1..i
                   PROVE  \E n \in 1..Len(acceptors) : acceptors[n].rule = "DICT" /\ acceptors[n].off = k - 1
      OBVIOUS
    <3>2. i \in Nat /\ k - 1 \in 0..i /\ (k - 1) + 1 = k /\ dict[m] \in Seq(Nat)
      BY <3>1 DEF TextRead, Ascending
    <3>3. Spelled(m, i, k - 1)
      BY <1>15, <3>2, SpelledMore
    <3> QED  BY <3>1, <3>3 DEF AcceptorsRight
  <2> HIDE DEF next, ch
  <2> QED  BY <1>13, <2>1, <2>2
<1>16. \A n \in 1..Len(next) : AcceptorRight(next[n], i + 1) /\ next[n].off >= 1
  <2>1. \A n \in 1..Len(kept) : AcceptorRight(next[n], i + 1)
    BY <1>8, <1>10
  <2> HIDE DEF next
  <2> QED  BY <1>11, <1>12, <2>1
<1> HIDE DEF next
<1>17. AcceptorsRight(next, i + 1)
  BY <1>12, <1>14, <1>15, <1>16 DEF AcceptorsRight
<1> QED  BY <1>1, <1>17

-----------------------------------------------------------------------------
(***************************************************************************)
(* The path.                                                               *)
(***************************************************************************)
InfoSet ==
  [p : Nat, w : Nat, unk : Nat, type : Kinds \cup {"INIT", "UNK"}, merge : Nat \cup {Unmerged}]

\* k is the first of the best of the first n.
FirstBest(infos, k, n) ==
  /\ \A m \in 1..n : ~Better(infos[m], infos[k])
  /\ \A m \in 1..k - 1 : Better(infos[k], infos[m])

LEMMA BetterIs ==
  ASSUME NEW a \in InfoSet, NEW b \in InfoSet, NEW c \in InfoSet
  PROVE  /\ ~Better(a, a)
         /\ Better(a, b) => ~Better(b, a)
         /\ ~Better(c, b) /\ Better(a, b) => Better(a, c)
BY DEF InfoSet, Better

LEMMA SelectIs ==
  ASSUME NEW infos \in Seq(InfoSet), infos # <<>>
  PROVE  \E k \in 1..Len(infos) :
           SelectPath(infos) = infos[k] /\ \A m \in 1..Len(infos) : ~Better(infos[m], infos[k])
<1> DEFINE N == Len(infos)
           T == {n \in 0..N : n = 0 \/ \E k \in 1..n : FirstBest(infos, k, n)}
<1>1. N \in Nat /\ N # 0 /\ \A m \in 1..N : infos[m] \in InfoSet
  OBVIOUS
<1> HIDE DEF N
<1>2. 0 \in T
  BY <1>1
<1>3. ASSUME NEW n \in 0..N, n \in T, n < N  PROVE n + 1 \in T
  <2>1. n + 1 \in 0..N /\ n + 1 \in 1..N /\ n + 1 \in 1..n + 1 /\ n \in Nat
    BY <1>1, <1>3
  <2>2. SUFFICES \E k \in 1..n + 1 : FirstBest(infos, k, n + 1)
    BY <2>1
  <2> DEFINE x == infos[n + 1]
  <2>3. \A m \in 1..n + 1 : m = n + 1 \/ m \in 1..n
    BY <2>1
  <2>4. \A m \in 1..n : m \in 1..n + 1 /\ infos[m] \in InfoSet
    BY <1>1, <2>1
  <2>5. x \in InfoSet
    BY <1>1, <2>1
  <2>6. CASE n = 0
    <3>1. \A m \in 1..n + 1 : m = n + 1
      BY <2>6
    <3>2. \A m \in 1..(n + 1) - 1 : FALSE
      BY <2>6
    <3>3. ~Better(x, x)
      BY <2>5, BetterIs
    <3>4. FirstBest(infos, n + 1, n + 1)
      BY <3>1, <3>2, <3>3 DEF FirstBest
    <3> QED  BY <2>1, <3>4
  <2>7. CASE n # 0
    <3>1. PICK k \in 1..n : FirstBest(infos, k, n)
      BY <1>3, <2>7
    <3>2. infos[k] \in InfoSet /\ k \in 1..n + 1
      BY <2>4
    <3>3. \A m \in 1..n : ~Better(infos[m], infos[k])
      BY <3>1 DEF FirstBest
    <3>4. CASE Better(x, infos[k])
      <4>1. \A m \in 1..n : Better(x, infos[m])
        BY <2>4, <2>5, <3>2, <3>3, <3>4, BetterIs
      <4>2. \A m \in 1..n + 1 : ~Better(infos[m], x)
        BY <2>3, <2>4, <2>5, <4>1, BetterIs
      <4>3. (n + 1) - 1 = n
        BY <2>1
      <4>4. FirstBest(infos, n + 1, n + 1)
        BY <4>1, <4>2, <4>3 DEF FirstBest
      <4> QED  BY <2>1, <4>4
    <3>5. CASE ~Better(x, infos[k])
      <4>1. \A m \in 1..n + 1 : ~Better(infos[m], infos[k])
        BY <2>3, <3>3, <3>5
      <4>2. FirstBest(infos, k, n + 1)
        BY <3>1, <4>1 DEF FirstBest
      <4> QED  BY <3>2, <4>2
    <3> QED  BY <3>4, <3>5
  <2> QED  BY <2>6, <2>7
<1>4. \A n \in 0..N : n \in T /\ n < N => n + 1 \in T
  BY <1>3
<1> HIDE DEF T
<1>5. 0..N \subseteq T
  BY <1>1, <1>2, <1>4, CountUp
<1>6. \E k \in 1..N : FirstBest(infos, k, N)
  BY <1>1, <1>5 DEF T
<1> DEFINE k == CHOOSE k \in 1..N : FirstBest(infos, k, N)
<1>7. k \in 1..N /\ FirstBest(infos, k, N)
  BY <1>6
<1>8. SelectPath(infos) = infos[k]
  BY DEF SelectPath, FirstBest, N
<1> HIDE DEF k
<1>9. \A m \in 1..N : ~Better(infos[m], infos[k])
  BY <1>7 DEF FirstBest
<1> QED  BY <1>7, <1>8, <1>9 DEF N

\* What each step of the path says.
PathTyped(s) ==
  /\ s \in Seq(InfoSet) /\ s # <<>> /\ s[1].w = 0 /\ s[1].unk = 0
  /\ \A j \in 2..Len(s) : s[j].p \in 0..j - 2 /\ s[j].merge \in {Unmerged} \cup 0..j - 2

\* The places within a syllable are marked.
Marked(s) ==
  \A q \in 1..Len(s) - 1, pat \in PartRule :
    Len(pat) \in 1..q /\ Begun(pat, q, Len(pat)) =>
      \A r \in q - Len(pat) + 1..q - 1 : s[r + 1].merge # Unmerged

\* The first q characters can be cut at C into words.
CutTo(C, q) ==
  \A a, b \in C \cup {0, q} :
    a < b /\ (\A c \in C : ~(a < c /\ c < b)) => SubSeq(text, a + 1, b) \in DictWords

\* So the path is as short, and has no unknown piece.
Short(s) ==
  \A q \in 1..Len(s) - 1 : \A C \in SUBSET (1..q - 1) :
    CutTo(C, q) => s[q + 1].unk = 0 /\ s[q + 1].w <= Cardinality(C) + 1

PathRight(s) == PathTyped(s) /\ Marked(s) /\ Short(s)

LEMMA BeginRight == PathRight(<<Begin>>) /\ Begin \in InfoSet
<1>1. Begin \in InfoSet /\ Begin.w = 0 /\ Begin.unk = 0
  BY DEF Begin, Info, InfoSet
<1> DEFINE b == Begin
<1> HIDE DEF b
<1>2. <<b>> \in Seq(InfoSet) /\ <<b>> # <<>> /\ <<b>>[1] = b /\ Len(<<b>>) = 1
  BY <1>1 DEF b
<1>3. (\A q \in 1..1 - 1 : FALSE) /\ \A j \in 2..1 : FALSE
  OBVIOUS
<1>4. PathTyped(<<b>>)
  BY <1>1, <1>2, <1>3 DEF PathTyped, b
<1>5. Marked(<<b>>) /\ Short(<<b>>)
  BY <1>2, <1>3 DEF Marked, Short
<1> QED  BY <1>1, <1>4, <1>5 DEF PathRight, b

\* An acceptor of the last characters of the first i.
Recent(a, i) == a \in AcceptorSet /\ a.off \in 1..i

LEMMA InfoOfIs ==
  ASSUME PathTyped(path), NEW i, i = Len(path) - 1, NEW a, Recent(a, i + 1)
  PROVE  LET f == InfoOf(a, i)
             p == i - a.off + 1
         IN  /\ f \in InfoSet /\ f.p = p /\ p \in 0..i
             /\ f.w = 1 + path[p + 1].w
             /\ f.unk = path[p + 1].unk + (IF a.rule = "PART" THEN 1 ELSE 0)
             /\ f.merge \in {Unmerged} \cup 0..i
<1> DEFINE p == i - a.off + 1
           part == a.rule = "PART"
           from == path[p + 1]
           w == 1 + from.w
           unk == from.unk + (IF part THEN 1 ELSE 0)
           merge == IF part THEN p ELSE Unmerged
           f == InfoOf(a, i)
<1>1. Len(path) \in Nat \ {0} /\ i \in Nat /\ path \in Seq(InfoSet)
  BY DEF PathTyped
<1>2. a.off \in 1..i + 1 /\ a.rule \in Kinds
  BY DEF Recent, AcceptorSet
<1>3. p \in 0..i /\ p \in Nat /\ p + 1 \in 1..Len(path)
  BY <1>1, <1>2
<1> HIDE DEF p
<1>4. from \in InfoSet
  BY <1>1, <1>3
<1>5. from.w \in Nat /\ from.unk \in Nat
  BY <1>4 DEF InfoSet
<1>6. w \in Nat /\ unk \in Nat
  BY <1>5
<1>7. merge \in {Unmerged} \cup 0..i /\ merge \in Nat \cup {Unmerged}
  BY <1>3
<1>8. f = [p |-> p, w |-> w, unk |-> unk, type |-> a.rule, merge |-> merge]
  BY DEF InfoOf, Info, p
<1> HIDE DEF w, unk, merge, f
<1>9. f \in InfoSet /\ f.p = p /\ f.w = w /\ f.unk = unk /\ f.merge = merge
  BY <1>2, <1>3, <1>6, <1>7, <1>8 DEF InfoSet
<1> QED  BY <1>3, <1>7, <1>9 DEF f, p, w, unk, merge

LEMMA FallbackIs ==
  ASSUME PathTyped(path), NEW i, i = Len(path) - 1, left \in 0..i, NEW ch
  PROVE  LET f == Fallback(ch)
         IN  f \in InfoSet /\ f.p \in 0..i /\ f.merge \in {Unmerged} \cup 0..i
<1> DEFINE from == path[left + 1]
           p == IF ch \in Above /\ left # 0 THEN from.p ELSE left
           f == Fallback(ch)
           w == 1 + from.w
           unk == 1 + from.unk
<1>1. Len(path) \in Nat \ {0} /\ i \in Nat /\ path \in Seq(InfoSet)
  BY DEF PathTyped
<1>2. left \in Nat /\ left + 1 \in 1..Len(path) /\ (left + 1) - 2 = left - 1
  BY <1>1
<1>3. from \in InfoSet
  BY <1>1, <1>2
<1>4. from.w \in Nat /\ from.unk \in Nat
  BY <1>3 DEF InfoSet
<1>5. left # 0 => from.p \in 0..left - 1
  <2>1. left # 0 => left + 1 \in 2..Len(path)
    BY <1>1, <1>2
  <2> QED  BY <1>2, <2>1 DEF PathTyped
<1>6. p \in 0..i
  BY <1>1, <1>2, <1>5
<1>7. p \in Nat /\ w \in Nat /\ unk \in Nat
  BY <1>4, <1>6
<1>8. f = [p |-> p, w |-> w, unk |-> unk, type |-> "UNK", merge |-> Unmerged]
  BY DEF Fallback, Info
<1> HIDE DEF p, w, unk, f
<1>9. f \in InfoSet /\ f.p = p /\ f.merge = Unmerged
  BY <1>7, <1>8 DEF InfoSet
<1> QED  BY <1>6, <1>9 DEF f

\* A syllable that ends here marks the places within it.
MarkedBy(finals, i, j) ==
  \E m \in 1..Len(finals) : finals[m].rule = "PART" /\ j - 1 \in i - finals[m].off + 2..i

LEMMA MergedIs ==
  ASSUME PathTyped(path), NEW i, i = Len(path) - 1, NEW finals, Len(finals) \in Nat,
         \A m \in 1..Len(finals) : Recent(finals[m], i + 1)
  PROVE  LET s == Merged(finals, i)
         IN  /\ s \in Seq(InfoSet) /\ Len(s) = Len(path)
             /\ \A j \in 1..Len(path) :
                  /\ s[j].p = path[j].p /\ s[j].w = path[j].w /\ s[j].unk = path[j].unk
                  /\ MarkedBy(finals, i, j) => s[j].merge \in 0..j - 2
                  /\ ~MarkedBy(finals, i, j) => s[j].merge = path[j].merge
<1> DEFINE s == Merged(finals, i)
           within(j) == {m \in 1..Len(finals) : finals[m].rule = "PART" /\ j - 1 \in i - finals[m].off + 2..i}
           last(j) == CHOOSE k \in within(j) : \A x \in within(j) : x <= k
           mark(j) == [path[j] EXCEPT !.merge = i - finals[last(j)].off + 1]
<1>1. Len(path) \in Nat \ {0} /\ i \in Nat /\ path \in Seq(InfoSet)
  BY DEF PathTyped
<1>2. s = [j \in 1..Len(path) |-> IF within(j) = {} THEN path[j] ELSE mark(j)]
  BY DEF Merged
<1>3. \A j \in 1..Len(path) : path[j] \in InfoSet
  BY <1>1
<1>4. ASSUME NEW j \in 1..Len(path)
      PROVE  /\ s[j] \in InfoSet
             /\ s[j].p = path[j].p /\ s[j].w = path[j].w /\ s[j].unk = path[j].unk
             /\ MarkedBy(finals, i, j) => s[j].merge \in 0..j - 2
             /\ ~MarkedBy(finals, i, j) => s[j].merge = path[j].merge
  <2>1. s[j] = IF within(j) = {} THEN path[j] ELSE mark(j)
    BY <1>2
  <2>2. MarkedBy(finals, i, j) <=> within(j) # {}
    BY DEF MarkedBy
  <2> HIDE DEF s
  <2>3. CASE within(j) = {}
    <3> HIDE DEF within
    <3> QED  BY <1>3, <2>1, <2>2, <2>3
  <2>4. CASE within(j) # {}
    <3>1. within(j) \subseteq 0..Len(finals)
      OBVIOUS
    <3>2. \E k \in within(j) : \A x \in within(j) : x <= k
      <4> HIDE DEF within
      <4> QED  BY <2>4, <3>1, GreatestOf
    <3>3. last(j) \in within(j)
      <4> HIDE DEF within
      <4> QED  BY <3>2
    <3> DEFINE m == last(j)
               o == finals[m].off
               to == i - o + 1
               from == path[j]
    <3>4. m \in 1..Len(finals) /\ j - 1 \in i - o + 2..i
      <4> HIDE DEF last
      <4> QED  BY <3>3
    <3> HIDE DEF within, last, m
    <3>5. o \in 1..i + 1
      BY <3>4 DEF Recent
    <3>6. to \in 0..j - 2 /\ to \in Nat
      <4> HIDE DEF o
      <4> QED  BY <1>1, <3>4, <3>5
    <3>7. s[j] = [from EXCEPT !.merge = to]
      BY <2>1, <2>4 DEF m
    <3>8. from \in InfoSet
      BY <1>3
    <3> HIDE DEF to, from
    <3>9. s[j] \in InfoSet /\ s[j].p = from.p /\ s[j].w = from.w /\ s[j].unk = from.unk /\ s[j].merge = to
      BY <3>6, <3>7, <3>8 DEF InfoSet
    <3> QED  BY <2>2, <2>4, <3>6, <3>9 DEF from
  <2> QED  BY <2>3, <2>4
<1> HIDE DEF within, last, mark
<1>5. s \in Seq(InfoSet) /\ Len(s) = Len(path)
  <2> DEFINE e(j) == IF within(j) = {} THEN path[j] ELSE mark(j)
  <2>1. \A j \in 1..Len(path) : e(j) \in InfoSet
    BY <1>2, <1>4
  <2> HIDE DEF e
  <2>2. s = [j \in 1..Len(path) |-> e(j)]
    BY <1>2 DEF e
  <2> QED  BY <1>1, <2>1, <2>2
<1> QED  BY <1>4, <1>5

\* What a turn of buildPath has, after the character i + 1.
Reading(i) ==
  /\ TextRead(i) /\ i = Len(path) - 1 /\ i < Len(text) /\ left \in 0..i /\ PathRight(path)

\* The acceptors that end with it, and what they say.
Ending(finals, next, i) ==
  /\ AcceptorsRight(next, i + 1)
  /\ finals \in Seq(AcceptorSet)
  /\ \A k \in 1..Len(finals) : \E n \in 1..Len(next) : next[n].final /\ finals[k] = next[n]
  /\ \A n \in 1..Len(next) : next[n].final => \E k \in 1..Len(finals) : finals[k] = next[n]

InfosOf(finals, i) ==
  IF finals = <<>> THEN <<Fallback(text[i + 1])>>
  ELSE [m \in 1..Len(finals) |-> InfoOf(finals[m], i)]

LEMMA EndingRecent ==
  ASSUME NEW i \in Nat, NEW next, NEW finals, Ending(finals, next, i)
  PROVE  Len(finals) \in Nat /\ \A m \in 1..Len(finals) : Recent(finals[m], i + 1)
<1>1. Len(finals) \in Nat
  BY DEF Ending
<1>2. ASSUME NEW m \in 1..Len(finals)  PROVE Recent(finals[m], i + 1)
  <2>1. PICK n \in 1..Len(next) : finals[m] = next[n]
    BY DEF Ending
  <2>2. AcceptorRight(next[n], i + 1) /\ next[n].off >= 1
    BY DEF Ending, AcceptorsRight
  <2>3. next[n] \in AcceptorSet /\ next[n].off \in 0..i + 1
    BY <2>2 DEF AcceptorRight
  <2> DEFINE o == next[n].off
  <2>4. o \in 1..i + 1
    <3>1. o \in 0..i + 1 /\ o >= 1
      BY <2>2, <2>3
    <3> HIDE DEF o
    <3> QED  BY <3>1
  <2> QED  BY <2>1, <2>3, <2>4 DEF Recent
<1> QED  BY <1>1, <1>2

LEMMA InfosAre ==
  ASSUME NEW i, Reading(i), NEW next, NEW finals, Ending(finals, next, i)
  PROVE  LET infos == InfosOf(finals, i)
         IN  /\ infos \in Seq(InfoSet) /\ infos # <<>>
             /\ \A k \in 1..Len(infos) : infos[k].p \in 0..i /\ infos[k].merge \in {Unmerged} \cup 0..i
             /\ finals # <<>> => /\ Len(infos) = Len(finals)
                                 /\ \A k \in 1..Len(finals) : infos[k] = InfoOf(finals[k], i)
<1> DEFINE infos == InfosOf(finals, i)
           Fits(f) == f \in InfoSet /\ f.p \in 0..i /\ f.merge \in {Unmerged} \cup 0..i
<1>1. PathTyped(path) /\ i = Len(path) - 1 /\ left \in 0..i /\ i \in Nat
  BY DEF Reading, PathRight, TextRead
<1>2. Len(finals) \in Nat /\ \A m \in 1..Len(finals) : Recent(finals[m], i + 1)
  BY <1>1, EndingRecent
<1>3. CASE finals = <<>>
  <2> DEFINE f == Fallback(text[i + 1])
  <2>1. Fits(f)
    BY <1>1, FallbackIs
  <2>2. infos = <<f>>
    BY <1>3 DEF InfosOf
  <2> HIDE DEF f, infos
  <2>3. infos \in Seq(InfoSet) /\ infos # <<>> /\ Len(infos) = 1 /\ infos[1] = f
    BY <2>1, <2>2
  <2>4. \A k \in 1..Len(infos) : infos[k] = f
    BY <2>3
  <2> QED  BY <1>3, <2>1, <2>3, <2>4 DEF infos
<1>4. CASE finals # <<>>
  <2>1. infos = [m \in 1..Len(finals) |-> InfoOf(finals[m], i)]
    BY <1>4 DEF InfosOf
  <2>2. ASSUME NEW m \in 1..Len(finals)  PROVE Fits(InfoOf(finals[m], i))
    <3> DEFINE a == finals[m]
    <3>1. Recent(a, i + 1)
      BY <1>2
    <3> HIDE DEF a
    <3>2. i - a.off + 1 \in 0..i /\ InfoOf(a, i).p = i - a.off + 1
          /\ InfoOf(a, i) \in InfoSet /\ InfoOf(a, i).merge \in {Unmerged} \cup 0..i
      BY <1>1, <3>1, InfoOfIs
    <3> QED  BY <3>2 DEF a
  <2> DEFINE e(m) == InfoOf(finals[m], i)
  <2>3. \A m \in 1..Len(finals) : Fits(e(m))
    BY <2>2
  <2>4. infos = [m \in 1..Len(finals) |-> e(m)]
    BY <2>1
  <2> HIDE DEF e, infos
  <2>5. infos \in Seq(InfoSet) /\ Len(infos) = Len(finals) /\ \A m \in 1..Len(finals) : infos[m] = e(m)
    BY <1>2, <2>3, <2>4
  <2>6. Len(finals) # 0
    BY <1>4 DEF Ending
  <2>7. infos # <<>>
    BY <2>5, <2>6
  <2> QED  BY <1>4, <2>3, <2>5, <2>7 DEF infos, e
<1> QED  BY <1>3, <1>4

\* t is the path after one more turn, f the thing selected.
Grows(t, f, finals, i) ==
  /\ t \in Seq(InfoSet) /\ Len(t) = i + 2 /\ t[i + 2] = f
  /\ \A j \in 1..i + 1 :
       /\ t[j].p = path[j].p /\ t[j].w = path[j].w /\ t[j].unk = path[j].unk
       /\ MarkedBy(finals, i, j) => t[j].merge \in 0..j - 2
       /\ ~MarkedBy(finals, i, j) => t[j].merge = path[j].merge

LEMMA GrownIs ==
  ASSUME NEW i, Reading(i), NEW next, NEW finals, Ending(finals, next, i), NEW f \in InfoSet
  PROVE  Grows(Append(Merged(finals, i), f), f, finals, i)
<1> DEFINE m == Merged(finals, i)
           t == Append(m, f)
<1>1. PathTyped(path) /\ i = Len(path) - 1 /\ i \in Nat /\ Len(path) = i + 1
  BY DEF Reading, PathRight, TextRead, PathTyped
<1>2. Len(finals) \in Nat /\ \A k \in 1..Len(finals) : Recent(finals[k], i + 1)
  BY <1>1, EndingRecent
<1>3. /\ m \in Seq(InfoSet) /\ Len(m) = i + 1
      /\ \A j \in 1..i + 1 :
           /\ m[j].p = path[j].p /\ m[j].w = path[j].w /\ m[j].unk = path[j].unk
           /\ MarkedBy(finals, i, j) => m[j].merge \in 0..j - 2
           /\ ~MarkedBy(finals, i, j) => m[j].merge = path[j].merge
  BY <1>1, <1>2, MergedIs
<1> HIDE DEF m
<1>4. t \in Seq(InfoSet) /\ Len(t) = i + 2 /\ t[i + 2] = f /\ \A j \in 1..i + 1 : t[j] = m[j]
  BY <1>1, <1>3
<1> HIDE DEF t
<1>5. Grows(t, f, finals, i)
  BY <1>3, <1>4 DEF Grows
<1> QED  BY <1>5 DEF m, t

LEMMA GrownTyped ==
  ASSUME NEW i, Reading(i), NEW finals, NEW t, NEW f, Grows(t, f, finals, i),
         f.p \in 0..i, f.merge \in {Unmerged} \cup 0..i
  PROVE  PathTyped(t)
<1>1. PathTyped(path) /\ i \in Nat /\ Len(path) = i + 1
  BY DEF Reading, PathRight, TextRead, PathTyped
<1>2. t \in Seq(InfoSet) /\ Len(t) = i + 2
  BY DEF Grows
<1>3. t # <<>>
  BY <1>1, <1>2
<1>4. t[1].w = 0 /\ t[1].unk = 0
  <2>1. 1 \in 1..i + 1
    BY <1>1
  <2> QED  BY <1>1, <2>1 DEF Grows, PathTyped
<1>5. ASSUME NEW j \in 2..i + 2  PROVE t[j].p \in 0..j - 2 /\ t[j].merge \in {Unmerged} \cup 0..j - 2
  <2>1. CASE j = i + 2
    <3>1. j - 2 = i
      BY <1>1, <2>1
    <3> QED  BY <2>1, <3>1 DEF Grows
  <2>2. CASE j # i + 2
    <3>1. j \in 1..i + 1 /\ j \in 2..Len(path)
      BY <1>1, <2>2
    <3>2. path[j].p \in 0..j - 2 /\ path[j].merge \in {Unmerged} \cup 0..j - 2
      BY <1>1, <3>1 DEF PathTyped
    <3> QED  BY <3>1, <3>2 DEF Grows
  <2> QED  BY <2>1, <2>2
<1> QED  BY <1>2, <1>3, <1>4, <1>5 DEF PathTyped

LEMMA GrownMarked ==
  ASSUME NEW i, Reading(i), NEW next, NEW finals, Ending(finals, next, i),
         NEW t, NEW f, Grows(t, f, finals, i)
  PROVE  Marked(t)
<1>1. Marked(path) /\ i \in Nat /\ Len(path) = i + 1 /\ Len(t) = i + 2 /\ Unmerged \notin Nat
  BY WordcutAssumption DEF Reading, PathRight, TextRead, PathTyped, Grows
<1>2. SUFFICES ASSUME NEW q \in 1..i + 1, NEW pat \in PartRule, Len(pat) \in 1..q, Begun(pat, q, Len(pat)),
                      NEW r \in q - Len(pat) + 1..q - 1
               PROVE  t[r + 1].merge # Unmerged
  <2>1. Len(t) - 1 = i + 1
    BY <1>1
  <2> QED  BY <2>1 DEF Marked
<1> DEFINE k == Len(pat)
           j == r + 1
<1>3. k \in Nat /\ k \in 1..q /\ q \in Nat /\ r \in Nat /\ j \in 1..i + 1 /\ j - 1 = r
  BY <1>1, <1>2
<1> HIDE DEF k, j
<1>4. CASE q = i + 1
  <2>1. PICK n \in 1..Len(next) : next[n].rule = "PART" /\ next[n].off = k
    BY <1>2, <1>4 DEF Ending, AcceptorsRight, k
  <2>2. AcceptorRight(next[n], i + 1)
    BY DEF Ending, AcceptorsRight
  <2>3. next[n].final = TRUE
    <3>1. k > 0
      BY <1>3
    <3> QED  BY <1>2, <1>4, <2>1, <2>2, <3>1 DEF AcceptorRight, k
  <2>4. PICK m \in 1..Len(finals) : finals[m] = next[n]
    BY <2>3 DEF Ending
  <2>5. j - 1 \in i - k + 2..i
    BY <1>1, <1>2, <1>3, <1>4 DEF k
  <2>6. MarkedBy(finals, i, j)
    BY <2>1, <2>4, <2>5 DEF MarkedBy
  <2>7. t[j].merge \in 0..j - 2
    BY <1>3, <2>6 DEF Grows
  <2>8. t[j].merge \in Nat
    <3> DEFINE x == t[j].merge
    <3> HIDE DEF x
    <3> QED  BY <1>3, <2>7 DEF x
  <2> QED  BY <1>1, <2>8 DEF j
<1>5. CASE q # i + 1
  <2>1. q \in 1..Len(path) - 1
    BY <1>1, <1>5
  <2>2. path[j].merge # Unmerged
    BY <1>1, <1>2, <2>1 DEF Marked, j
  <2>3. CASE MarkedBy(finals, i, j)
    <3>1. t[j].merge \in 0..j - 2
      BY <1>3, <2>3 DEF Grows
    <3> DEFINE x == t[j].merge
    <3>2. x \in Nat
      <4> HIDE DEF x
      <4> QED  BY <1>3, <3>1 DEF x
    <3> QED  BY <1>1, <3>2 DEF j
  <2>4. CASE ~MarkedBy(finals, i, j)
    BY <1>3, <2>2, <2>4 DEF Grows, j
  <2> QED  BY <2>3, <2>4
<1> QED  BY <1>4, <1>5

\* Without its last place, a cut into words is one of what comes before that.
LEMMA CutBefore ==
  ASSUME NEW q \in Nat, NEW C \in SUBSET (1..q - 1), CutTo(C, q), NEW c \in C, \A x \in C : x <= c
  PROVE  C \ {c} \in SUBSET (1..c - 1) /\ CutTo(C \ {c}, c) /\ SubSeq(text, c + 1, q) \in DictWords
         /\ c \in 1..q - 1
<1>1. c \in 1..q - 1 /\ c \in Nat /\ \A x \in C : x \in Nat /\ x >= 1
  OBVIOUS
<1>2. \A x \in C \ {c} : x \in 1..c - 1
  BY <1>1
<1>3. SubSeq(text, c + 1, q) \in DictWords
  <2>1. c < q /\ \A x \in C : ~(c < x /\ x < q)
    BY <1>1
  <2> QED  BY <2>1 DEF CutTo
<1>4. ASSUME NEW a \in (C \ {c}) \cup {0, c}, NEW b \in (C \ {c}) \cup {0, c}, a < b,
             \A x \in C \ {c} : ~(a < x /\ x < b)
      PROVE  SubSeq(text, a + 1, b) \in DictWords
  <2>1. a \in C \cup {0, q} /\ b \in C \cup {0, q}
    OBVIOUS
  <2>2. b <= c /\ b \in Nat
    BY <1>1, <1>2
  <2>3. ~(a < c /\ c < b)
    BY <1>1, <2>2
  <2>4. \A x \in C : ~(a < x /\ x < b)
    BY <1>4, <2>3
  <2> QED  BY <1>4, <2>1, <2>4 DEF CutTo
<1> QED  BY <1>1, <1>2, <1>3, <1>4 DEF CutTo

\* A word that ends here is one of what is read.
LEMMA WordEnds ==
  ASSUME NEW i, Reading(i), NEW next, NEW finals, Ending(finals, next, i),
         NEW c \in 0..i, SubSeq(text, c + 1, i + 1) \in DictWords
  PROVE  \E m \in 1..Len(finals) : finals[m].rule = "DICT" /\ finals[m].off = i + 1 - c
<1> DEFINE k == i + 1 - c
           w == SubSeq(text, c + 1, i + 1)
<1>1. i \in Nat /\ c \in Nat /\ i + 1 <= Len(text) /\ text \in Seq(Nat) /\ Len(text) \in Nat /\ Ascending(dict)
  BY DEF Reading, TextRead
<1>2. k \in 1..i + 1 /\ c + 1 \in 1..Len(text) /\ i + 1 \in 1..Len(text) /\ k > 0 /\ (i + 1) - k = c
  BY <1>1
<1>3. Len(w) = k /\ \A j \in 1..k : w[j] = text[c + j]
  BY <1>1, <1>2
<1> HIDE DEF w
<1>4. PICK m \in 1..Len(dict) : dict[m] = w
  BY DEF DictWords, w
<1>5. Spelled(m, i + 1, k)
  <2>1. k >= k
    BY <1>2
  <2> HIDE DEF k
  <2> QED  BY <1>2, <1>3, <1>4, <2>1 DEF Spelled
<1> HIDE DEF k
<1>6. PICK n \in 1..Len(next) : next[n].rule = "DICT" /\ next[n].off = k
  BY <1>2, <1>5 DEF Ending, AcceptorsRight
<1>7. AcceptorRight(next[n], i + 1)
  BY DEF Ending, AcceptorsRight
<1>8. next[n].final = TRUE
  BY <1>2, <1>3, <1>4, <1>5, <1>6, <1>7 DEF AcceptorRight
<1>9. PICK x \in 1..Len(finals) : finals[x] = next[n]
  BY <1>8 DEF Ending
<1> QED  BY <1>6, <1>9 DEF k

\* What comes before a word is short already.
LEMMA ShortBefore ==
  ASSUME NEW i, Reading(i), NEW C \in SUBSET (1..i), CutTo(C, i + 1)
  PROVE  \E c \in 0..i :
           /\ SubSeq(text, c + 1, i + 1) \in DictWords
           /\ path[c + 1].unk = 0 /\ path[c + 1].w <= Cardinality(C) /\ path[c + 1] \in InfoSet
           /\ Cardinality(C) \in Nat
<1>1. PathTyped(path) /\ Short(path) /\ i \in Nat /\ Len(path) = i + 1
  BY DEF Reading, PathRight, TextRead, PathTyped
<1>2. IsFiniteSet(C) /\ Cardinality(C) \in Nat
  <2>1. IsFiniteSet(1..i)
    BY <1>1, UpTo
  <2> QED  BY <2>1, FS_Subset, FS_CardinalityType
<1>3. \A c \in 0..i : path[c + 1] \in InfoSet
  BY <1>1 DEF PathTyped
<1>4. CASE C = {}
  <2>1. 0 \in C \cup {0, i + 1} /\ i + 1 \in C \cup {0, i + 1} /\ 0 < i + 1
    BY <1>1
  <2>2. SubSeq(text, 0 + 1, i + 1) \in DictWords
    BY <1>4, <2>1 DEF CutTo
  <2>3. path[0 + 1].unk = 0 /\ path[0 + 1].w = 0 /\ 0 \in 0..i
    BY <1>1 DEF PathTyped
  <2>4. Cardinality(C) = 0
    BY <1>4, FS_EmptySet
  <2> QED  BY <1>2, <1>3, <2>2, <2>3, <2>4
<1>5. CASE C # {}
  <2>1. PICK c \in C : \A x \in C : x <= c
    <3>1. C \subseteq 0..i
      OBVIOUS
    <3> QED  BY <1>1, <1>5, <3>1, GreatestOf
  <2>2. C \in SUBSET (1..(i + 1) - 1) /\ i + 1 \in Nat
    BY <1>1
  <2>3. C \ {c} \in SUBSET (1..c - 1) /\ CutTo(C \ {c}, c) /\ SubSeq(text, c + 1, i + 1) \in DictWords
        /\ c \in 1..(i + 1) - 1
    BY <2>1, <2>2, CutBefore
  <2>4. c \in 1..Len(path) - 1 /\ c \in 0..i
    BY <1>1, <2>3
  <2>5. path[c + 1].unk = 0 /\ path[c + 1].w <= Cardinality(C \ {c}) + 1
    BY <1>1, <2>3, <2>4 DEF Short
  <2>6. Cardinality(C \ {c}) = Cardinality(C) - 1
    BY <1>2, FS_RemoveElement
  <2>7. path[c + 1].w <= Cardinality(C)
    BY <1>2, <2>5, <2>6
  <2> QED  BY <1>2, <1>3, <2>3, <2>4, <2>5, <2>7
<1> QED  BY <1>4, <1>5

LEMMA GrownShort ==
  ASSUME NEW i, Reading(i), NEW next, NEW finals, Ending(finals, next, i),
         NEW f \in InfoSet, \A k \in 1..Len(InfosOf(finals, i)) : ~Better(InfosOf(finals, i)[k], f),
         NEW t, Grows(t, f, finals, i)
  PROVE  Short(t)
<1>1. PathTyped(path) /\ Short(path) /\ i \in Nat /\ Len(path) = i + 1 /\ i = Len(path) - 1 /\ Len(t) = i + 2
      /\ Len(t) - 1 = i + 1
  BY DEF Reading, PathRight, TextRead, PathTyped, Grows
<1>2. SUFFICES ASSUME NEW q \in 1..i + 1, NEW C \in SUBSET (1..q - 1), CutTo(C, q)
               PROVE  t[q + 1].unk = 0 /\ t[q + 1].w <= Cardinality(C) + 1
  BY <1>1 DEF Short
<1>3. CASE q # i + 1
  <2>1. q \in 1..Len(path) - 1 /\ q + 1 \in 1..i + 1
    BY <1>1, <1>3
  <2>2. path[q + 1].unk = 0 /\ path[q + 1].w <= Cardinality(C) + 1
    BY <1>1, <1>2, <2>1 DEF Short
  <2> QED  BY <2>1, <2>2 DEF Grows
<1>4. CASE q = i + 1
  <2>1. C \in SUBSET (1..i) /\ CutTo(C, i + 1) /\ q + 1 = i + 2
    BY <1>1, <1>2, <1>4
  <2>2. PICK c \in 0..i :
          /\ SubSeq(text, c + 1, i + 1) \in DictWords
          /\ path[c + 1].unk = 0 /\ path[c + 1].w <= Cardinality(C) /\ path[c + 1] \in InfoSet
          /\ Cardinality(C) \in Nat
    BY <2>1, ShortBefore
  <2>3. PICK m \in 1..Len(finals) : finals[m].rule = "DICT" /\ finals[m].off = i + 1 - c
    BY <2>2, WordEnds
  <2> DEFINE a == finals[m]
             x == InfoOf(a, i)
  <2>4. Recent(a, i + 1)
    BY <1>1, EndingRecent
  <2>5. finals # <<>> /\ m \in 1..Len(InfosOf(finals, i)) /\ InfosOf(finals, i)[m] = x
    <3>1. finals # <<>>
      OBVIOUS
    <3> QED  BY <3>1, InfosAre
  <2>6. ~Better(x, f)
    BY <2>5
  <2>7. i - a.off + 1 = c
    BY <1>1, <2>3
  <2> HIDE DEF a
  <2>8. x.w = 1 + path[c + 1].w /\ x.unk = path[c + 1].unk + 0
    <3>1. a.rule # "PART"
      BY <2>3 DEF a
    <3> QED  BY <1>1, <2>4, <2>7, <3>1, InfoOfIs
  <2> DEFINE v == path[c + 1].w
             n == Cardinality(C)
  <2>9. v \in Nat /\ n \in Nat /\ v <= n
    BY <2>2 DEF InfoSet
  <2>10. x.unk = 0 /\ x.w = 1 + v
    BY <2>2, <2>8
  <2>11. f.unk \in Nat /\ f.w \in Nat
    BY DEF InfoSet
  <2> HIDE DEF v, n, x
  <2>12. f.unk = 0 /\ f.w <= n + 1
    BY <2>6, <2>9, <2>10, <2>11 DEF Better
  <2>13. t[q + 1] = f
    BY <2>1 DEF Grows
  <2> QED  BY <2>12, <2>13 DEF n
<1> QED  BY <1>3, <1>4

-----------------------------------------------------------------------------
(***************************************************************************)
(* The steps of the word breaker.                                          *)
(***************************************************************************)
PieceSet == [s : Nat, e : Nat]

\* The pieces so far join from back to the end of the text, and what they
\* begin with, the first one aside, is within no syllable.
Joined ==
  /\ ranges \in Seq(PieceSet)
  /\ back = NotYet => ranges = <<>>
  /\ back # NotYet =>
       /\ Len(path) = Len(text) + 1 /\ back \in 0..Len(text)
       /\ ranges = <<>> => back = Len(text)
       /\ ranges # <<>> => ranges[1].s = back /\ ranges[Len(ranges)].e = Len(text)
       /\ \A i \in 1..Len(ranges) :
            ranges[i].s < ranges[i].e /\ (i < Len(ranges) => ranges[i].e = ranges[i + 1].s)
       /\ \A i \in 2..Len(ranges) : path[ranges[i].s + 1].merge = Unmerged

CutInv ==
  /\ Ascending(dict) /\ text \in Seq(Nat)
  /\ PathRight(path) /\ Len(path) <= Len(text) + 1 /\ left \in 0..Len(path) - 1
  /\ acceptors \in Seq(AcceptorSet) /\ \A n \in 1..Len(acceptors) : acceptors[n].off >= 1
  /\ back = NotYet => AcceptorsRight(acceptors, Len(path) - 1)
  /\ back \in {NotYet} \cup Nat
  /\ Joined

LEMMA PathStays ==
  ASSUME text' = text, dict' = dict, NEW s, PathRight(s), path' = s
  PROVE  PathRight(path)'
<1>1. PathTyped(path)'
  BY DEF PathRight, PathTyped
<1>2. \A pat, q, k : Begun(pat, q, k)' <=> Begun(pat, q, k)
  BY DEF Begun
<1>3. Marked(path)'
  <2>1. Marked(s)
    BY DEF PathRight
  <2> QED  BY <1>2, <2>1 DEF Marked
<1>4. DictWords' = DictWords
  BY DEF DictWords
<1>5. \A C, q : CutTo(C, q)' <=> CutTo(C, q)
  BY <1>4 DEF CutTo
<1>6. Short(path)'
  <2>1. Short(s)
    BY DEF PathRight
  <2> QED  BY <1>5, <2>1 DEF Short
<1> QED  BY <1>1, <1>3, <1>6 DEF PathRight

LEMMA AcceptorsStay ==
  ASSUME text' = text, dict' = dict, NEW s, NEW j, AcceptorsRight(s, j), acceptors' = s, Len(path') - 1 = j
  PROVE  AcceptorsRight(acceptors, Len(path) - 1)'
<1>1. \A pat, q, k : Begun(pat, q, k)' <=> Begun(pat, q, k)
  BY DEF Begun
<1>2. \A m, q, k : Spelled(m, q, k)' <=> Spelled(m, q, k)
  BY DEF Spelled
<1>3. ASSUME NEW a, AcceptorRight(a, j)  PROVE AcceptorRight(a, j)'
  BY <1>1, <1>2, <1>3 DEF AcceptorRight
<1>4. AcceptorsRight(s, j)'
  BY <1>1, <1>2, <1>3 DEF AcceptorsRight
<1> QED  BY <1>4

LEMMA EmptyPath ==
  ASSUME path' = <<Begin>>
  PROVE  PathRight(path)'
<1>1. PathTyped(<<Begin>>) /\ Len(<<Begin>>) = 1
  BY BeginRight DEF PathRight
<1> DEFINE b == <<Begin>>
<1> HIDE DEF b
<1>2. PathTyped(b)'
  BY <1>1 DEF PathTyped, b
<1>3. Marked(b)' /\ Short(b)'
  BY <1>1 DEF Marked, Short, b
<1>4. path' = b
  BY DEF b
<1>5. PathTyped(path)' /\ Marked(path)' /\ Short(path)'
  BY <1>2, <1>3, <1>4 DEF PathTyped, Marked, Short
<1> QED  BY <1>5 DEF PathRight

LEMMA CutInitInv == CutInit => CutInv
<1> SUFFICES ASSUME CutInit  PROVE CutInv
  OBVIOUS
<1>1. Ascending(dict)
  BY WordsAscend DEF CutInit
<1>2. PathRight(path) /\ Len(path) = 1
  BY BeginRight DEF CutInit
<1>3. text = <<>> /\ acceptors = <<>> /\ left = 0 /\ ranges = <<>> /\ back = 0
  BY DEF CutInit
<1>4. back # NotYet
  BY <1>3, WordcutAssumption
<1>5. Joined
  BY <1>2, <1>3, <1>4 DEF Joined
<1> QED  BY <1>1, <1>2, <1>3, <1>4, <1>5 DEF CutInv

LEMMA InitAgainInv ==
  ASSUME CutInv, NEW W \in Added, InitAgain(W)  PROVE CutInv'
<1>1. dict' = Words(W) /\ acceptors' = <<>> /\ text' = text /\ path' = path /\ left' = left
      /\ ranges' = ranges /\ back' = back /\ back = 0 /\ text = <<>>
  BY DEF InitAgain, Idle
<1>2. Ascending(dict)'
  <2>1. Ascending(Words(W))
    BY WordsAscend
  <2> DEFINE d == Words(W)
  <2> HIDE DEF d
  <2> QED  BY <1>1, <2>1 DEF Ascending, d
<1>3. PathTyped(path) /\ Marked(path) /\ Len(path) \in Nat /\ Len(path) <= 1
  BY <1>1 DEF CutInv, PathRight, PathTyped
<1>4. Len(path) - 1 <= 0
  BY <1>3
<1>5. \A q \in 1..Len(path) - 1 : FALSE
  BY <1>3, <1>4
<1>6. PathRight(path)'
  BY <1>1, <1>3, <1>5 DEF PathRight, PathTyped, Marked, Short
<1>7. back # NotYet
  BY <1>1, WordcutAssumption
<1>8. Joined'
  BY <1>1 DEF CutInv, Joined
<1> QED  BY <1>1, <1>2, <1>6, <1>7, <1>8 DEF CutInv

LEMMA StartCutInv ==
  ASSUME CutInv, NEW t \in Text, StartCut(t)  PROVE CutInv'
<1>1. text' = t /\ acceptors' = <<>> /\ path' = <<Begin>> /\ left' = 0 /\ ranges' = <<>> /\ back' = NotYet
      /\ dict' = dict
  BY DEF StartCut
<1>2. t \in Seq(Nat)
  BY WordcutAssumption
<1>3. Ascending(dict)'
  BY <1>1 DEF CutInv, Ascending
<1>4. PathRight(path)'
  BY <1>1, EmptyPath
<1>5. Len(path') = 1 /\ Len(t) \in Nat
  BY <1>1, <1>2
<1>6. AcceptorsRight(acceptors, Len(path) - 1)'
  <2>1. \A k \in 1..Len(path') - 1 : FALSE
    BY <1>5
  <2> QED  BY <1>1, <2>1 DEF AcceptorsRight
<1>7. Joined'
  BY <1>1 DEF Joined
<1> QED  BY <1>1, <1>2, <1>3, <1>4, <1>5, <1>6, <1>7 DEF CutInv

LEMMA CutReturnsInv ==
  ASSUME CutInv, CutReturns  PROVE CutInv'
<1>1. text' = <<>> /\ acceptors' = acceptors /\ path' = <<Begin>> /\ left' = 0 /\ ranges' = <<>>
      /\ back' = back /\ dict' = dict /\ back = 0
  BY DEF CutReturns
<1>2. Ascending(dict)'
  BY <1>1 DEF CutInv, Ascending
<1>3. PathRight(path)'
  BY <1>1, EmptyPath
<1>4. back' = 0 /\ back' # NotYet /\ Len(path') = 1
  BY <1>1, WordcutAssumption
<1>5. Joined'
  BY <1>1, <1>4 DEF Joined
<1> QED  BY <1>1, <1>2, <1>3, <1>4, <1>5 DEF CutInv

LEMMA PathBuiltInv ==
  ASSUME CutInv, PathBuilt  PROVE CutInv'
<1>1. text' = text /\ acceptors' = acceptors /\ path' = path /\ left' = left /\ ranges' = ranges
      /\ back' = Len(text) /\ dict' = dict /\ back = NotYet /\ Len(path) = Len(text) + 1
  BY DEF PathBuilt
<1>2. Ascending(dict)' /\ text \in Seq(Nat)
  BY <1>1 DEF CutInv, Ascending
<1>3. PathRight(path)'
  <2>1. PathRight(path)
    BY DEF CutInv
  <2>2. PICK s : s = path
    OBVIOUS
  <2> QED  BY <1>1, <2>1, <2>2, PathStays
<1>4. Len(text) \in Nat /\ Len(text) # NotYet
  BY <1>2, WordcutAssumption
<1>5. ranges = <<>>
  BY <1>1 DEF CutInv, Joined
<1>6. Joined'
  BY <1>1, <1>4, <1>5 DEF Joined
<1> QED  BY <1>1, <1>2, <1>3, <1>4, <1>6 DEF CutInv

LEMMA BuildPathInv ==
  ASSUME CutInv, BuildPath  PROVE CutInv'
<1> DEFINE i == Len(path) - 1
           ch == text[i + 1]
           next == TransitAll(ch)
           I == {n \in DOMAIN next : next[n].final}
           finals == Kept(next, I)
           infos == InfosOf(finals, i)
           f == SelectPath(infos)
           t == Append(Merged(finals, i), f)
<1>1. /\ back = NotYet /\ i < Len(text) /\ acceptors' = next /\ path' = t
      /\ left' = (IF f.type = "UNK" THEN left ELSE i)
      /\ dict' = dict /\ text' = text /\ ranges' = ranges /\ back' = back
  BY DEF BuildPath, InfosOf
<1>2. PathRight(path) /\ path \in Seq(InfoSet) /\ Len(path) \in Nat \ {0} /\ left \in 0..i
  BY DEF CutInv, PathRight, PathTyped
<1>3. text \in Seq(Nat) /\ Ascending(dict)
  BY DEF CutInv
<1>4. TextRead(i) /\ i \in Nat
  BY <1>1, <1>2, <1>3 DEF TextRead
<1>5. Reading(i)
  BY <1>1, <1>2, <1>4 DEF Reading
<1>6. AcceptorsRight(acceptors, i)
  BY <1>1 DEF CutInv
<1> HIDE DEF i
<1>7. AcceptorsRight(next, i + 1)
  BY <1>1, <1>4, <1>6, NextAcceptors
<1> HIDE DEF next
<1>8. next \in Seq(AcceptorSet) /\ DOMAIN next = 1..Len(next)
  BY <1>7 DEF AcceptorsRight
<1>9. Keeps(finals, AcceptorSet, next, I)
  <2> HIDE DEF I
  <2> QED  BY <1>8, KeptIs
<1> HIDE DEF finals
<1>10. Ending(finals, next, i)
  BY <1>7, <1>8, <1>9 DEF Ending, Keeps
<1>11. /\ infos \in Seq(InfoSet) /\ infos # <<>>
       /\ \A k \in 1..Len(infos) : infos[k].p \in 0..i /\ infos[k].merge \in {Unmerged} \cup 0..i
  BY <1>5, <1>10, InfosAre
<1> HIDE DEF I, infos
<1>12. PICK k \in 1..Len(infos) : f = infos[k] /\ \A m \in 1..Len(infos) : ~Better(infos[m], infos[k])
  BY <1>11, SelectIs
<1>13. f \in InfoSet /\ f.p \in 0..i /\ f.merge \in {Unmerged} \cup 0..i
       /\ \A m \in 1..Len(infos) : ~Better(infos[m], f)
  BY <1>11, <1>12
<1> HIDE DEF f
<1>14. Grows(t, f, finals, i)
  BY <1>5, <1>10, <1>13, GrownIs
<1> HIDE DEF t
<1>15. PathTyped(t)
  BY <1>5, <1>13, <1>14, GrownTyped
<1>16. Marked(t)
  BY <1>5, <1>10, <1>14, GrownMarked
<1>17. Short(t)
  BY <1>5, <1>10, <1>13, <1>14, GrownShort DEF infos
<1>18. PathRight(path)'
  <2>1. PathRight(t)
    BY <1>15, <1>16, <1>17 DEF PathRight
  <2>2. PICK s : s = t
    OBVIOUS
  <2> QED  BY <1>1, <2>1, <2>2, PathStays
<1>19. Len(path') = i + 2 /\ Len(path') - 1 = i + 1
  BY <1>1, <1>4, <1>14 DEF Grows
<1>20. AcceptorsRight(acceptors, Len(path) - 1)'
  <2>1. PICK s, j : s = next /\ j = i + 1
    OBVIOUS
  <2>2. AcceptorsRight(s, j) /\ acceptors' = s /\ Len(path') - 1 = j
    BY <1>1, <1>7, <1>19, <2>1
  <2> QED  BY <1>1, <2>2, AcceptorsStay
<1>21. Joined'
  <2>1. ranges = <<>>
    BY <1>1 DEF CutInv, Joined
  <2> QED  BY <1>1, <2>1 DEF Joined
<1>22. Ascending(dict)'
  BY <1>1, <1>3 DEF Ascending
<1>23. left' \in 0..Len(path') - 1 /\ Len(path') <= Len(text') + 1
  <2>1. Len(text) \in Nat /\ i < Len(text)
    BY <1>1, <1>3
  <2>2. left' \in 0..i
    BY <1>1, <1>2, <1>4
  <2> QED  BY <1>1, <1>4, <1>19, <2>1, <2>2
<1>24. acceptors' \in Seq(AcceptorSet) /\ \A n \in 1..Len(acceptors') : acceptors'[n].off >= 1
  BY <1>1, <1>7 DEF AcceptorsRight
<1> QED  BY <1>1, <1>3, <1>18, <1>20, <1>21, <1>22, <1>23, <1>24 DEF CutInv

LEMMA HeadChanged ==
  ASSUME NEW S, NEW r \in Seq(S), r # <<>>, NEW h \in S
  PROVE  LET q == <<h>> \o Tail(r)
         IN  q \in Seq(S) /\ Len(q) = Len(r) /\ q[1] = h /\ \A i \in 2..Len(r) : q[i] = r[i]
<1> DEFINE q == <<h>> \o Tail(r)
<1>1. Len(r) \in Nat \ {0} /\ Tail(r) \in Seq(S) /\ Len(Tail(r)) = Len(r) - 1
      /\ \A i \in 1..Len(r) - 1 : Tail(r)[i] = r[i + 1]
  OBVIOUS
<1> DEFINE u == Tail(r)
<1> HIDE DEF u
<1>2. q \in Seq(S) /\ Len(q) = 1 + Len(u) /\ q[1] = h /\ \A i \in 2..Len(u) + 1 : q[i] = u[i - 1]
  <2>1. <<h>> \in Seq(S) /\ Len(<<h>>) = 1 /\ <<h>>[1] = h
    OBVIOUS
  <2>2. u \in Seq(S) /\ q = <<h>> \o u
    BY <1>1 DEF u
  <2> DEFINE o == <<h>>
  <2> HIDE DEF o, q
  <2>3. o \in Seq(S) /\ Len(o) = 1 /\ o[1] = h /\ q = o \o u
    BY <2>1, <2>2 DEF o
  <2> QED  BY <2>2, <2>3
<1>3. ASSUME NEW i \in 2..Len(r)  PROVE q[i] = r[i]
  <2>1. i - 1 \in 1..Len(r) - 1 /\ (i - 1) + 1 = i /\ i \in 2..Len(u) + 1
    BY <1>1 DEF u
  <2>2. u[i - 1] = r[(i - 1) + 1]
    BY <1>1, <2>1 DEF u
  <2> QED  BY <1>2, <2>1, <2>2
<1>4. Len(q) = Len(r)
  BY <1>1, <1>2 DEF u
<1> QED  BY <1>2, <1>3, <1>4

LEMMA PutBefore ==
  ASSUME NEW S, NEW r \in Seq(S), NEW h \in S
  PROVE  LET q == <<h>> \o r
         IN  q \in Seq(S) /\ Len(q) = Len(r) + 1 /\ q[1] = h /\ \A i \in 2..Len(r) + 1 : q[i] = r[i - 1]
<1> DEFINE o == <<h>>
<1>1. o \in Seq(S) /\ Len(o) = 1 /\ o[1] = h
  OBVIOUS
<1> HIDE DEF o
<1> DEFINE q == o \o r
<1> HIDE DEF q
<1>2. /\ q \in Seq(S) /\ Len(q) = Len(o) + Len(r)
      /\ \A i \in 1..Len(o) + Len(r) : q[i] = IF i <= Len(o) THEN o[i] ELSE r[i - Len(o)]
  BY <1>1, ConcatProperties DEF q
<1>3. Len(r) \in Nat /\ Len(q) = Len(r) + 1 /\ q[1] = h
  BY <1>1, <1>2
<1>4. ASSUME NEW i \in 2..Len(r) + 1  PROVE q[i] = r[i - 1]
  <2>1. i \in 1..1 + Len(r) /\ ~(i <= 1)
    BY <1>3
  <2> QED  BY <1>1, <1>2, <2>1
<1> QED  BY <1>2, <1>3, <1>4 DEF o, q

LEMMA JoinedAgain ==
  ASSUME path' = path, text' = text, Len(path) = Len(text) + 1,
         NEW b \in 0..Len(text), back' = b, b # NotYet,
         NEW q \in Seq(PieceSet), ranges' = q, q # <<>>,
         q[1].s = b, q[Len(q)].e = Len(text),
         \A i \in 1..Len(q) : q[i].s < q[i].e /\ (i < Len(q) => q[i].e = q[i + 1].s),
         \A i \in 2..Len(q) : path[q[i].s + 1].merge = Unmerged
  PROVE  Joined'
<1>1. ranges' \in Seq(PieceSet) /\ back' # NotYet /\ ranges' # <<>>
  OBVIOUS
<1>2. Len(path') = Len(text') + 1 /\ back' \in 0..Len(text')
  OBVIOUS
<1>3. ranges'[1].s = back' /\ ranges'[Len(ranges')].e = Len(text')
  OBVIOUS
<1>4. \A i \in 1..Len(ranges') :
        ranges'[i].s < ranges'[i].e /\ (i < Len(ranges') => ranges'[i].e = ranges'[i + 1].s)
  OBVIOUS
<1>5. \A i \in 2..Len(ranges') : path'[ranges'[i].s + 1].merge = Unmerged
  OBVIOUS
<1> QED  BY <1>1, <1>2, <1>3, <1>4, <1>5, Zenon DEF Joined

LEMMA PathToRangesInv ==
  ASSUME CutInv, PathToRanges  PROVE CutInv'
<1> DEFINE info == path[back + 1]
           merges == info.merge # Unmerged /\ ranges # <<>>
           s == IF merges THEN info.merge ELSE info.p
           h == IF merges THEN [s |-> s, e |-> ranges[1].e] ELSE [s |-> s, e |-> back]
           L == Len(ranges)
           M == Len(text)
<1>1. /\ back \notin {NotYet, 0} /\ back' = s
      /\ ranges' = IF merges THEN <<[Head(ranges) EXCEPT !.s = s]>> \o Tail(ranges)
                   ELSE <<[s |-> s, e |-> back]>> \o ranges
      /\ text' = text /\ dict' = dict /\ acceptors' = acceptors /\ path' = path /\ left' = left
  BY DEF PathToRanges
<1>2. /\ ranges \in Seq(PieceSet) /\ Len(path) = M + 1 /\ back \in 1..M /\ back \in Nat
      /\ ranges = <<>> => back = M
      /\ ranges # <<>> => ranges[1].s = back /\ ranges[L].e = M
      /\ \A i \in 1..L : ranges[i].s < ranges[i].e /\ (i < L => ranges[i].e = ranges[i + 1].s)
      /\ \A i \in 2..L : path[ranges[i].s + 1].merge = Unmerged
      /\ M \in Nat
  BY <1>1 DEF CutInv, Joined
<1>3. L \in Nat /\ (ranges = <<>> <=> L = 0)
  BY <1>2
<1>4. info.p \in 0..back - 1 /\ info.merge \in {Unmerged} \cup 0..back - 1
  <2>1. back + 1 \in 2..Len(path) /\ (back + 1) - 2 = back - 1
    BY <1>2
  <2> QED  BY <2>1 DEF CutInv, PathRight, PathTyped
<1>5. s \in 0..back - 1 /\ s \in Nat /\ s < back /\ s \in 0..M
  <2>1. s \in 0..back - 1
    BY <1>4
  <2> HIDE DEF s
  <2> QED  BY <1>2, <2>1
<1> HIDE DEF s
<1>6. ASSUME merges  PROVE Joined'
  <2>1. ranges # <<>> /\ L \in Nat \ {0} /\ 1 \in 1..L
    BY <1>3, <1>6
  <2> DEFINE r == ranges[1]
  <2>2. r \in PieceSet /\ Head(ranges) = r
    BY <1>2, <2>1
  <2>3. r.s = back /\ r.s < r.e /\ r.e \in Nat
    BY <1>2, <2>1, <2>2 DEF PieceSet
  <2> DEFINE g == [s |-> s, e |-> r.e]
  <2>4. [r EXCEPT !.s = s] = g
    BY <2>2 DEF PieceSet
  <2>5. ranges' = <<g>> \o Tail(ranges)
    BY <1>1, <1>6, <2>2, <2>4
  <2>6. g \in PieceSet /\ g.s = s /\ g.e = r.e /\ s < r.e
    BY <1>2, <1>5, <2>3 DEF PieceSet
  <2> HIDE DEF g
  <2> DEFINE q == <<g>> \o Tail(ranges)
  <2>7. q \in Seq(PieceSet) /\ Len(q) = L /\ q[1] = g /\ \A i \in 2..L : q[i] = ranges[i]
    BY <1>2, <2>1, <2>6, HeadChanged
  <2> HIDE DEF q
  <2>8. q # <<>> /\ q[L].e = M
    <3>1. q # <<>>
      BY <2>1, <2>7
    <3>2. CASE L = 1
      BY <1>2, <2>1, <2>6, <2>7, <3>2
    <3>3. CASE L # 1
      <4>1. L \in 2..L
        <5> HIDE DEF L
        <5> QED  BY <2>1, <3>3
      <4> QED  BY <1>2, <2>1, <2>7, <4>1
    <3> QED  BY <3>1, <3>2, <3>3
  <2>9. ASSUME NEW i \in 1..L  PROVE q[i].s < q[i].e /\ (i < L => q[i].e = q[i + 1].s)
    <3>1. i < L => i + 1 \in 2..L
      BY <1>3
    <3>2. i < L => q[i + 1] = ranges[i + 1]
      BY <2>7, <3>1
    <3>3. CASE i = 1
      BY <1>2, <2>6, <2>7, <3>2, <3>3
    <3>4. CASE i # 1
      <4>1. i \in 2..L
        BY <1>3, <3>4
      <4> QED  BY <1>2, <2>7, <3>2, <4>1
    <3> QED  BY <3>3, <3>4
  <2>10. \A i \in 2..L : path[q[i].s + 1].merge = Unmerged
    BY <1>2, <2>7
  <2>11. ranges' = q
    BY <2>5 DEF q
  <2>12. q[Len(q)].e = M /\ q[1].s = s /\ back' = s /\ s # NotYet
    BY <1>1, <1>5, <2>6, <2>7, <2>8, WordcutAssumption
  <2>13. \A i \in 1..Len(q) : q[i].s < q[i].e /\ (i < Len(q) => q[i].e = q[i + 1].s)
    BY <2>7, <2>9
  <2>14. \A i \in 2..Len(q) : path[q[i].s + 1].merge = Unmerged
    BY <2>7, <2>10
  <2> QED  BY <1>1, <1>2, <1>5, <2>7, <2>8, <2>11, <2>12, <2>13, <2>14, JoinedAgain
<1>7. ASSUME ~merges  PROVE Joined'
  <2> DEFINE g == [s |-> s, e |-> back]
  <2>1. ranges' = <<g>> \o ranges
    BY <1>1, <1>7
  <2>2. g \in PieceSet /\ g.s = s /\ g.e = back /\ s < back
    BY <1>2, <1>5 DEF PieceSet
  <2> HIDE DEF g
  <2> DEFINE q == <<g>> \o ranges
  <2>3. q \in Seq(PieceSet) /\ Len(q) = L + 1 /\ q[1] = g /\ \A i \in 2..L + 1 : q[i] = ranges[i - 1]
    BY <1>2, <2>2, PutBefore
  <2> HIDE DEF q
  <2>4. q # <<>> /\ q[L + 1].e = M
    <3>1. q # <<>>
      BY <1>3, <2>3
    <3>2. CASE L = 0
      <4>1. back = M /\ L + 1 = 1
        BY <1>2, <1>3, <3>2
      <4> QED  BY <2>2, <2>3, <4>1
    <3>3. CASE L # 0
      <4>1. L + 1 \in 2..L + 1 /\ (L + 1) - 1 = L
        BY <1>3, <3>3
      <4> QED  BY <1>2, <1>3, <2>3, <3>3, <4>1
    <3> QED  BY <3>1, <3>2, <3>3
  <2>5. ASSUME NEW i \in 1..L + 1  PROVE q[i].s < q[i].e /\ (i < L + 1 => q[i].e = q[i + 1].s)
    <3>1. CASE i = 1
      <4>1. i < L + 1 => i + 1 \in 2..L + 1 /\ (i + 1) - 1 = 1 /\ ranges # <<>>
        BY <1>3, <3>1
      <4>2. i < L + 1 => q[i + 1] = ranges[1]
        BY <2>3, <4>1
      <4> QED  BY <1>2, <2>2, <2>3, <3>1, <4>1, <4>2
    <3>2. CASE i # 1
      <4>1. i \in 2..L + 1 /\ i - 1 \in 1..L
        BY <1>3, <3>2
      <4>2. i < L + 1 => i + 1 \in 2..L + 1 /\ (i + 1) - 1 = (i - 1) + 1 /\ i - 1 < L
        BY <1>3, <4>1
      <4>3. q[i] = ranges[i - 1]
        BY <2>3, <4>1
      <4>4. i < L + 1 => q[i + 1] = ranges[(i - 1) + 1]
        BY <2>3, <4>2
      <4>5. ranges[i - 1].s < ranges[i - 1].e /\ (i - 1 < L => ranges[i - 1].e = ranges[(i - 1) + 1].s)
        BY <1>2, <4>1
      <4> QED  BY <4>2, <4>3, <4>4, <4>5
    <3> QED  BY <3>1, <3>2
  <2>6. ASSUME NEW i \in 2..L + 1  PROVE path[q[i].s + 1].merge = Unmerged
    <3>1. q[i] = ranges[i - 1] /\ i - 1 \in 1..L
      BY <1>3, <2>3
    <3>2. CASE i = 2
      <4>1. q[i].s = back /\ ranges # <<>>
        BY <1>2, <1>3, <3>1, <3>2
      <4> QED  BY <1>7, <4>1
    <3>3. CASE i # 2
      <4>1. i - 1 \in 2..L
        BY <1>3, <3>3
      <4> QED  BY <1>2, <3>1, <4>1
    <3> QED  BY <3>2, <3>3
  <2>7. ranges' = q
    BY <2>1 DEF q
  <2>8. q[Len(q)].e = M /\ q[1].s = s /\ back' = s /\ s # NotYet
    BY <1>1, <1>5, <2>2, <2>3, <2>4, WordcutAssumption
  <2>9. \A i \in 1..Len(q) : q[i].s < q[i].e /\ (i < Len(q) => q[i].e = q[i + 1].s)
    BY <2>3, <2>5
  <2>10. \A i \in 2..Len(q) : path[q[i].s + 1].merge = Unmerged
    BY <2>3, <2>6
  <2> QED  BY <1>1, <1>2, <1>5, <2>3, <2>4, <2>7, <2>8, <2>9, <2>10, JoinedAgain
<1>8. Joined'
  BY <1>6, <1>7
<1>9. PathRight(path)'
  <2>1. PathRight(path)
    BY DEF CutInv
  <2>2. PICK p : p = path
    OBVIOUS
  <2> QED  BY <1>1, <2>1, <2>2, PathStays
<1>10. Ascending(dict)'
  BY <1>1 DEF CutInv, Ascending
<1>11. back' \in {NotYet} \cup Nat /\ back' # NotYet
  BY <1>1, <1>5, WordcutAssumption
<1> QED  BY <1>1, <1>8, <1>9, <1>10, <1>11 DEF CutInv

LEMMA NotCutInv ==
  ASSUME CutInv, UNCHANGED cutVars  PROVE CutInv'
<1>1. text' = text /\ acceptors' = acceptors /\ path' = path /\ left' = left /\ ranges' = ranges
      /\ back' = back /\ dict' = dict
  BY DEF cutVars
<1>2. PathRight(path)'
  <2>1. PathRight(path)
    BY DEF CutInv
  <2>2. PICK s : s = path
    OBVIOUS
  <2> QED  BY <1>1, <2>1, <2>2, PathStays
<1>3. (back = NotYet => AcceptorsRight(acceptors, Len(path) - 1))'
  <2>1. SUFFICES ASSUME back = NotYet  PROVE AcceptorsRight(acceptors, Len(path) - 1)'
    BY <1>1
  <2>2. PICK s, j : s = acceptors /\ j = Len(path) - 1
    OBVIOUS
  <2>3. AcceptorsRight(s, j)
    BY <2>1, <2>2 DEF CutInv
  <2> QED  BY <1>1, <2>2, <2>3, AcceptorsStay
<1>4. Ascending(dict)'
  BY <1>1 DEF CutInv, Ascending
<1>5. Joined'
  BY <1>1 DEF CutInv, Joined
<1>6. text' \in Seq(Nat) /\ Len(path') <= Len(text') + 1 /\ left' \in 0..Len(path') - 1
      /\ acceptors' \in Seq(AcceptorSet) /\ (\A n \in 1..Len(acceptors') : acceptors'[n].off >= 1)
      /\ back' \in {NotYet} \cup Nat
  BY <1>1 DEF CutInv
<1> QED  BY <1>2, <1>3, <1>4, <1>5, <1>6 DEF CutInv

\* What every step of cutting keeps.
LEMMA CutNextInv == CutInv /\ [CutNext]_cutVars => CutInv'
<1> SUFFICES ASSUME CutInv, [CutNext]_cutVars  PROVE CutInv'
  OBVIOUS
<1>1. CASE BuildPath
  BY <1>1, BuildPathInv
<1>2. CASE PathBuilt
  BY <1>2, PathBuiltInv
<1>3. CASE PathToRanges
  BY <1>3, PathToRangesInv
<1>4. CASE CutReturns
  BY <1>4, CutReturnsInv
<1>5. CASE \E t \in Text : StartCut(t)
  BY <1>5, StartCutInv
<1>6. CASE \E W \in Added : InitAgain(W)
  BY <1>6, InitAgainInv
<1>7. CASE UNCHANGED cutVars
  BY <1>7, NotCutInv
<1> QED  BY <1>1, <1>2, <1>3, <1>4, <1>5, <1>6, <1>7 DEF CutNext

LEMMA CutTypes == CutInv => CutTypeOK
<1> SUFFICES ASSUME CutInv  PROVE CutTypeOK
  OBVIOUS
<1>1. dict \in Seq(Seq(Nat)) /\ text \in Seq(Nat) /\ \A i \in 1..Len(acceptors) : acceptors[i].off >= 1
  BY DEF CutInv, Ascending
<1>2. path # <<>> /\ Len(path) <= Len(text) + 1 /\ Len(path) \in Nat
  BY DEF CutInv, PathRight, PathTyped
<1>3. \A j \in 2..Len(path) : path[j].p \in 0..j - 2 /\ path[j].merge \in {Unmerged} \cup 0..j - 2
  BY DEF CutInv, PathRight, PathTyped
<1>4. left \in 0..Len(text)
  <2>1. left \in 0..Len(path) - 1 /\ Len(text) \in Nat
    BY <1>1 DEF CutInv
  <2> QED  BY <1>2, <2>1
<1>5. \A i \in 1..Len(ranges) : ranges[i].s < ranges[i].e
  BY DEF CutInv, Joined
<1>6. back \in {NotYet} \cup 0..Len(text)
  BY DEF CutInv, Joined
<1> QED  BY <1>1, <1>2, <1>3, <1>4, <1>5, <1>6 DEF CutTypeOK

\* When the path is read to its begin, the pieces are right.
LEMMA AllRead ==
  ASSUME CutInv, text # <<>>, back = 0
  PROVE  /\ Len(text) \in Nat \ {0} /\ Len(path) = Len(text) + 1
         /\ ranges \in Seq(PieceSet) /\ ranges # <<>> /\ ranges[1].s = 0 /\ ranges[Len(ranges)].e = Len(text)
         /\ \A i \in 1..Len(ranges) :
              ranges[i].s < ranges[i].e /\ (i < Len(ranges) => ranges[i].e = ranges[i + 1].s)
         /\ \A i \in 2..Len(ranges) : path[ranges[i].s + 1].merge = Unmerged
         /\ \A i \in 1..Len(ranges) : ranges[i].s \in Nat
<1>1. Len(text) \in Nat \ {0} /\ 0 # NotYet
  BY WordcutAssumption DEF CutInv
<1>2. ranges \in Seq(PieceSet)
  BY DEF CutInv, Joined
<1>3. ASSUME NEW i \in 1..Len(ranges)  PROVE ranges[i].s \in Nat
  <2>1. ranges[i] \in PieceSet
    BY <1>2
  <2> QED  BY <2>1 DEF PieceSet
<1> QED  BY <1>1, <1>2, <1>3 DEF CutInv, Joined

LEMMA PiecesDoJoin ==
  ASSUME CutInv, text # <<>>, back = 0  PROVE PiecesJoin
<1> DEFINE N == Len(ranges)
           b == [i \in 1..N |-> ranges[i].s]
           at == b \o <<Len(text)>>
<1>1. N \in Nat \ {0}
  BY AllRead
<1>2. b \in Seq(Nat) /\ Len(b) = N /\ \A i \in 1..N : b[i] = ranges[i].s
  <2>1. \A i \in 1..N : ranges[i].s \in Nat
    BY AllRead
  <2> HIDE DEF N
  <2> QED  BY <1>1, <2>1
<1> HIDE DEF b
<1>3. <<Len(text)>> \in Seq(Nat) /\ Len(<<Len(text)>>) = 1 /\ <<Len(text)>>[1] = Len(text)
  BY AllRead
<1>4. \A i \in 1..N + 1 : at[i] = IF i <= N THEN b[i] ELSE <<Len(text)>>[i - N]
  BY <1>2, <1>3, ConcatProperties
<1>5. at[N + 1] = Len(text) /\ \A i \in 1..N : at[i] = ranges[i].s
  <2> HIDE DEF N, at
  <2>1. N + 1 \in 1..N + 1 /\ ~(N + 1 <= N) /\ (N + 1) - N = 1
    BY <1>1
  <2> QED  BY <1>1, <1>2, <1>3, <1>4, <2>1
<1> HIDE DEF at
<1>6. ASSUME NEW i \in 1..N  PROVE ranges[i].s < at[i + 1] /\ ranges[i].e = at[i + 1]
  <2>1. ranges[i].s < ranges[i].e /\ (i < N => ranges[i].e = ranges[i + 1].s)
    BY AllRead
  <2>2. CASE i = N
    BY <1>5, <2>1, <2>2, AllRead
  <2>3. CASE i # N
    <3>1. i < N /\ i + 1 \in 1..N
      <4> HIDE DEF N
      <4> QED  BY <1>1, <2>3
    <3> QED  BY <1>5, <2>1, <3>1
  <2> QED  BY <2>2, <2>3
<1>7. at[1] = 0
  BY <1>1, <1>5, AllRead
<1> QED  BY <1>6, <1>7 DEF PiecesJoin, at, b

LEMMA SyllablesDoStay ==
  ASSUME CutInv, text # <<>>, back = 0  PROVE SyllablesWhole
<1> SUFFICES ASSUME NEW i \in 1..Len(ranges), NEW p \in 0..Len(text), NEW q \in 0..Len(text),
                    p < ranges[i].s, ranges[i].s < q, IsPart(p, q)
             PROVE  FALSE
  BY DEF SyllablesWhole
<1> DEFINE s == ranges[i].s
           M == Len(text)
<1>1. M \in Nat /\ s \in Nat /\ Len(path) - 1 = M
  BY AllRead
<1>2. PICK pat \in PartRule : Len(pat) = q - p /\ \A j \in 1..q - p : IsMatch(pat, j - 1, text[p + j])
  BY DEF IsPart
<1> HIDE DEF s, M
<1>3. p < s /\ s < q /\ p \in 0..M /\ q \in 0..M
  BY DEF s, M
<1>4. Len(pat) \in 1..q /\ q \in 1..M /\ s \in q - Len(pat) + 1..q - 1
  BY <1>1, <1>2, <1>3
<1>5. Begun(pat, q, Len(pat))
  <2>1. \A j \in 1..q - p : q - (q - p) + j = p + j
    BY <1>3
  <2> QED  BY <1>2, <2>1 DEF Begun
<1>6. path[s + 1].merge # Unmerged
  <2>1. Marked(path)
    BY DEF CutInv, PathRight
  <2>2. q \in 1..Len(path) - 1
    BY <1>1, <1>4
  <2> QED  BY <1>4, <1>5, <2>1, <2>2 DEF Marked
<1>7. i # 1
  BY <1>1, <1>3, AllRead DEF s
<1>8. i \in 2..Len(ranges)
  <2>1. Len(ranges) \in Nat
    BY AllRead
  <2> QED  BY <1>7, <2>1
<1> QED  BY <1>6, <1>8, AllRead DEF s

LEMMA WordsAreFewest ==
  ASSUME CutInv, text # <<>>, back = 0  PROVE FewestWords
<1> DEFINE M == Len(text)
<1>1. M \in 1..Len(path) - 1
  BY AllRead
<1>2. Short(path)
  BY DEF CutInv, PathRight
<1>3. \A C \in SUBSET (1..M - 1) : CutTo(C, M) => path[M + 1].unk = 0 /\ path[M + 1].w <= Cardinality(C) + 1
  BY <1>1, <1>2 DEF Short
<1>4. \A C : InWords(C) <=> CutTo(C, M)
  BY DEF InWords, CutTo
<1> QED  BY <1>3, <1>4 DEF FewestWords

LEMMA CutIsRight == CutInv => CutRight
BY PiecesDoJoin, SyllablesDoStay, WordsAreFewest DEF CutRight

-----------------------------------------------------------------------------
(***************************************************************************)
(* The page.                                                               *)
(***************************************************************************)
LEMMA ToolParts == Next => [ToolNext]_toolVars
BY DEF Next, ThreadNext, threadVars

LEMMA AttachmentParts == Next => [AttachmentsNext]_attachmentVars
BY DEF Next, ThreadNext, threadVars

\* What the prompt of a tool call has told and what a tile holds, together.
LEMMA ToolInvariant == Spec => []ToolInv
<1>1. Init => ToolInv
  BY ToolInitInv DEF Init
<1>2. ToolInv /\ [Next]_vars => ToolInv'
  BY ToolParts, ToolNextInv DEF vars, threadVars, toolVars
<1> QED  BY <1>1, <1>2, PTL DEF Spec

(***************************************************************************)
(* A prompt answers once per showing: Pressed wants a prompt that is not   *)
(* submitted, and what one remembers of its answer goes only with it       *)
(* (tool-fallback.tsx).                                                    *)
(***************************************************************************)
THEOREM AnswersOnce == Spec => []OneAnswerPerShowing
<1>1. ToolInv => OneAnswerPerShowing
  BY DEF ToolInv
<1> QED  BY <1>1, ToolInvariant, PTL

(***************************************************************************)
(* Whatever lists a host declares and however it changes them, it is told  *)
(* an option it declares, confirmed if it asks to be, or a refusal, and a  *)
(* prompt that waits can be refused (tool-fallback.tsx).                   *)
(***************************************************************************)
THEOREM DeclarationKept == Spec => []DeclaredListKept
<1>1. ToolInv => DeclaredListKept
  BY AlwaysRefusable DEF ToolInv, DeclaredAnswers, DeclaredListKept
<1> QED  BY <1>1, ToolInvariant, PTL

(***************************************************************************)
(* Object URLs live exactly as long as the holder whose src they are, for  *)
(* any files and any number of replacements, removals and previews         *)
(* (attachment.tsx).                                                       *)
(***************************************************************************)
THEOREM UrlsAreHeld == Spec => []UrlsHeld
<1>1. Init => AttachmentsInv
  BY AttachmentsInitInv DEF Init
<1>2. AttachmentsInv /\ [Next]_vars => AttachmentsInv'
  BY AttachmentParts, AttachmentsNextInv DEF vars, threadVars, attachmentVars
<1> QED  BY <1>1, <1>2, HeldUrls, PTL DEF Spec

LEMMA ListParts == Next => [ListNext]_listVars
BY DEF Next, ThreadNext, threadVars

(***************************************************************************)
(* groupByDate opens a group when the label changes: each label, its key,  *)
(* comes once, and each thread is in one group, for any dates and number   *)
(* of threads and any changes of the list (thread-list.tsx).               *)
(***************************************************************************)
THEOREM GroupsHaveKeys == Spec => []GroupsKeyed
<1>1. Init => ListInv
  BY ListInitInv DEF Init
<1>2. ListInv /\ [Next]_vars => ListInv'
  BY ListParts, ListNextInv DEF vars, threadVars, listVars
<1> QED  BY <1>1, <1>2, KeyedIs, PTL DEF Spec

LEMMA ZoomParts == Next => [ZoomNext]_zoomVars
BY DEF Next, siteVars

LEMMA ZoomAlways == Spec => []ZoomInv
<1>1. Init => ZoomInv
  BY ZoomInitInv DEF Init
<1>2. ZoomInv /\ [Next]_vars => ZoomInv'
  BY ZoomParts, ZoomNextInv DEF vars, siteVars
<1> QED  BY <1>1, <1>2, PTL DEF Spec

(***************************************************************************)
(* A reset clears a key nothing is saved under (clearZoomState by id), and *)
(* is right all the same: its own timers save the place it goes to, as     *)
(* long as localStorage lets them (saveZoomState of zoompan.js).           *)
(***************************************************************************)
THEOREM PlacesRemembered == Spec => []ZoomRemembered
<1>1. ZoomInv => ZoomRemembered
  BY DEF ZoomInv
<1> QED  BY <1>1, ZoomAlways, PTL

LEMMA AdminParts == Next => [AdminNext]_adminVars
BY DEF Next

LEMMA AdminAlways == Spec => []AdminInv
<1>1. Init => AdminInv
  BY AdminInitInv DEF Init
<1>2. AdminInv /\ [Next]_vars => AdminInv'
  BY AdminParts, AdminNextInv DEF vars
<1> QED  BY <1>1, <1>2, PTL DEF Spec

(***************************************************************************)
(* saveRoles writes into the list what it sent, not what is being edited   *)
(* by then: for any users, roles and interleaving of saves, editing and    *)
(* dialogs the list shows what is stored.                                  *)
(***************************************************************************)
THEOREM ListIsAsStored == Spec => []ListedAsStored
<1>1. AdminInv => ListedAsStored
  BY DEF AdminInv, UsersInv, ListKept, ListedAsStored
<1> QED  BY <1>1, AdminAlways, PTL

(***************************************************************************)
(* The open dialog shows roles and account data of its own user, unless    *)
(* two openings of openUserRoles were awaited at once.                     *)
(***************************************************************************)
THEOREM DialogShowsItsUser == Spec => []DialogIsOfUser
<1>1. AdminInv => DialogIsOfUser
  BY DEF AdminInv, UsersInv, DialogKept, DialogIsOfUser
<1> QED  BY <1>1, AdminAlways, PTL

(***************************************************************************)
(* Each operation is followed by a list and details read after it          *)
(* (refreshAndKeepSelection): when nothing is awaited, the page shows what *)
(* the backend holds, for any documents, versions and clicks.              *)
(***************************************************************************)
THEOREM PageShowsBackend == Spec => []PageIsCurrent
<1>1. AdminInv => PageIsCurrent
  BY DEF AdminInv, KnowledgeInv, PageKept, PageIsCurrent
<1> QED  BY <1>1, AdminAlways, PTL

LEMMA CutParts == Next => [CutNext]_cutVars
BY DEF Next, siteVars

LEMMA CutAlways == Spec => []CutInv
<1>1. Init => CutInv
  BY CutInitInv DEF Init
<1>2. CutInv /\ [Next]_vars => CutInv'
  BY CutParts, CutNextInv DEF vars, siteVars
<1> QED  BY <1>1, <1>2, PTL DEF Spec

(***************************************************************************)
(* Binary searches that go on from one character to the next, acceptors    *)
(* that are dropped when they fail, and the first of the best paths of     *)
(* each place (buildPath, pathToRanges) give pieces that join to the text, *)
(* are cut within no syllable, and are no more than any words it can be    *)
(* cut into: for any dictionary, patterns and texts (wordcut.js).          *)
(***************************************************************************)
THEOREM TextsAreCutRight == Spec => []CutRight
BY CutAlways, CutIsRight, PTL

LEMMA ReasoningParts == Next => [ReasoningNext]_reasoningVars
BY DEF Next, ThreadNext, threadVars

LEMMA CodeParts == Next => [CodeNext]_codeVars
BY DEF Next, ThreadNext, threadVars

LEMMA PageStepParts == Next => [PageNext]_pageVars
BY DEF Next, ThreadNext, threadVars

LEMMA ReasoningStarts == ReasoningInit => ReasoningTypeOK
BY ReasoningAssumption DEF ReasoningInit, ReasoningTypeOK

LEMMA CodeStarts == CodeInit => CodeInv
<1> SUFFICES ASSUME CodeInit  PROVE CodeInv
  OBVIOUS
<1>1. isCopied = FALSE /\ writing = 0 /\ timers = 0 /\ copies = 0
  BY DEF CodeInit
<1>2. 0 \in Nat /\ 0 + 0 <= 0 /\ 0 <= MaxCopies
  BY CodeHeaderAssumption
<1>3. {0, 0, 0} \subseteq 0..MaxCopies
  BY <1>2, CodeCounts
<1>4. {writing, timers, copies} \subseteq 0..MaxCopies /\ writing + timers <= copies
  BY <1>1, <1>2, <1>3
<1>5. isCopied \in BOOLEAN /\ (isCopied => timers > 0)
  BY <1>1
<1> QED  BY <1>4, <1>5 DEF CodeInv, CodeTypeOK

\* What the views of a thread are like between their steps.
LEMMA ThreadAlways == Spec => [](ToolTyped /\ ReasoningTypeOK /\ AttachmentsInv /\ ListInv /\ PageInv /\ CodeInv)
<1>1. Init => ToolTyped /\ ReasoningTypeOK /\ AttachmentsInv /\ ListInv /\ PageInv /\ CodeInv
  BY ToolTypedInit, ReasoningStarts, AttachmentsInitInv, ListInitInv, PageInitInv, CodeStarts DEF Init
<1>2. ToolTyped /\ [Next]_vars => ToolTyped'
  BY ToolParts, ToolTypedNext DEF vars, threadVars, toolVars
<1>3. ReasoningTypeOK /\ [Next]_vars => ReasoningTypeOK'
  BY ReasoningParts, ReasoningTypes DEF vars, threadVars, reasoningVars
<1>4. AttachmentsInv /\ [Next]_vars => AttachmentsInv'
  BY AttachmentParts, AttachmentsNextInv DEF vars, threadVars, attachmentVars
<1>5. ListInv /\ [Next]_vars => ListInv'
  BY ListParts, ListNextInv DEF vars, threadVars, listVars
<1>6. PageInv /\ [Next]_vars => PageInv'
  BY PageStepParts, PageNextInv DEF vars, threadVars, pageVars
<1>7. CodeInv /\ [Next]_vars => CodeInv'
  BY CodeParts, CodeTypes DEF vars, threadVars, codeVars
<1> QED  BY <1>1, <1>2, <1>3, <1>4, <1>5, <1>6, <1>7, PTL DEF Spec

(***************************************************************************)
(* Every part keeps what its state is of, for all its steps: what a prompt *)
(* is like that waits (tool-fallback.tsx), which groups of parts are       *)
(* pinned (reasoning.tsx), that timers and copies are counted              *)
(* (markdown-text.tsx), that one message, the last, is running and what    *)
(* may be edited (thread.tsx), and the places the path of a text refers to *)
(* (wordcut.js).                                                           *)
(***************************************************************************)
THEOREM PartsAreTyped == Spec => []ViewTypeOK
<1>1. /\ ToolTyped /\ ReasoningTypeOK /\ AttachmentsInv /\ ListInv /\ PageInv /\ CodeInv
      /\ AdminInv /\ ZoomInv /\ CutInv
      => ViewTypeOK
  BY ToolTypes, CutTypes
     DEF AttachmentsInv, ListInv, PageInv, CodeInv, AdminInv, ZoomInv, ViewTypeOK
<1> QED  BY <1>1, ThreadAlways, AdminAlways, ZoomAlways, CutAlways, PTL
=============================================================================
