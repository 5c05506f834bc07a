----------------------------- MODULE ThreadPage -----------------------------
(***************************************************************************)
(* The page of a thread (thread.tsx): welcome or messages, the composer,   *)
(* the composers that edit a message in its place, and the branches an     *)
(* edit or a new answer adds.  What a click does to the messages is the    *)
(* runtime's (external); what can be clicked is the page's.                *)
(***************************************************************************)
EXTENDS Naturals, Sequences

CONSTANTS
  Capability,   \* what the runtime can do
  MaxTurns      \* bound: questions in the thread
ASSUME ThreadPageAssumption ==
  /\ Capability \subseteq {"dictation", "cancel", "edit", "reload", "branches"}
  /\ MaxTurns \in Nat

VARIABLES
  page,      \* [isLoading, threadsLoading, running, text, dictating]
  messages,  \* [role, status, branches, branch] of each on the shown branch
  editing    \* messages whose composer is open

pageVars == <<page, messages, editing>>

IsNewChatView == messages = <<>> /\ (~page.isLoading \/ page.threadsLoading)

MaxBranches == 2  \* bound

PageInit ==
  /\ page = [isLoading |-> TRUE, threadsLoading |-> TRUE, running |-> FALSE,
             text |-> FALSE, dictating |-> FALSE]
  /\ messages = <<>> /\ editing = {}

\* ThreadMessage: a message that is edited is its composer instead.
View(m) == IF m \in editing THEN "edit" ELSE messages[m].role

\* AssistantMessage: what is written so far, and MessageError once it failed.
Writing(m) == messages[m].status = "running"

PageTypeOK ==
  /\ page \in [{"isLoading", "threadsLoading", "running", "text", "dictating"} -> BOOLEAN]
  /\ messages \in Seq([role : {"user", "assistant"},
                       status : {"running", "complete", "error", "cancelled"},
                       branches : 1..MaxBranches, branch : 1..MaxBranches])
  /\ page.running <=> \E m \in DOMAIN messages : Writing(m)
  /\ \A m \in DOMAIN messages : Writing(m) => m = Len(messages) /\ View(m) = "assistant"
  /\ \A m \in DOMAIN messages : messages[m].branch <= messages[m].branches
  /\ editing \subseteq {m \in DOMAIN messages : messages[m].role = "user"}
  /\ page.dictating => "dictation" \in Capability

Set(p) == page' = p /\ UNCHANGED <<messages, editing>>

\* A question, and an answer; each on the branch it was added as.
Question(n) == [role |-> "user", status |-> "complete", branches |-> n, branch |-> n]
Answer(status, n) ==
  [role |-> "assistant", status |-> status, branches |-> n, branch |-> n]

\* What is loaded at startup: the list of threads, then the thread itself.
ThreadsLoaded == page.threadsLoading /\ Set([page EXCEPT !.threadsLoading = FALSE])
ThreadLoaded(turns) ==
  /\ ~page.threadsLoading /\ page.isLoading
  /\ page' = [page EXCEPT !.isLoading = FALSE]
  /\ messages' = [m \in 1..2 * turns |->
                    IF m % 2 = 1 THEN Question(1) ELSE Answer("complete", 1)]
  /\ UNCHANGED editing

Type(text) == page.text # text /\ Set([page EXCEPT !.text = text])

StartDictation ==
  /\ "dictation" \in Capability /\ ~page.dictating
  /\ Set([page EXCEPT !.dictating = TRUE])
StopDictation == page.dictating /\ Set([page EXCEPT !.dictating = FALSE])

\* A question and the answer that is written under it.
Turn(branch) == <<Question(branch), Answer("running", 1)>>

Asked(p) ==
  /\ Len(messages) < 2 * MaxTurns
  /\ messages' = messages \o Turn(1)
  /\ page' = p /\ UNCHANGED editing

\* The button that sends is shown while no answer is being written, and the
\* one that cancels otherwise.
Send ==
  /\ ~page.running /\ page.text /\ ~page.isLoading
  /\ Asked([page EXCEPT !.text = FALSE, !.running = TRUE, !.dictating = FALSE])
AnswerEnded(status) ==
  /\ page.running /\ page' = [page EXCEPT !.running = FALSE]
  /\ messages' = [m \in DOMAIN messages |->
                    IF Writing(m) THEN [messages[m] EXCEPT !.status = status]
                    ELSE messages[m]]
  /\ UNCHANGED editing
Cancel == "cancel" \in Capability /\ AnswerEnded("cancelled")

\* Suggestions are shown in a new chat while nothing is typed.
Suggest ==
  /\ IsNewChatView /\ ~page.text /\ ~page.isLoading /\ ~page.running
  /\ Asked([page EXCEPT !.running = TRUE])

(***************************************************************************)
(* The action bars, which are hidden while an answer is written.           *)
(***************************************************************************)
BarShown(m, role) == ~page.running /\ m \in DOMAIN messages /\ View(m) = role
UserBarShown(m) == BarShown(m, "user")
AssistantBarShown(m) == BarShown(m, "assistant")

Edit(m) ==
  /\ UserBarShown(m) /\ "edit" \in Capability
  /\ editing' = editing \cup {m} /\ UNCHANGED <<page, messages>>
CancelEdit(m) == m \in editing /\ editing' = editing \ {m} /\ UNCHANGED <<page, messages>>

\* What follows the message goes to another branch, with what is edited in it.
Branched(m, new) ==
  /\ messages[m].branches < MaxBranches
  /\ messages' = SubSeq(messages, 1, m - 1) \o new
  /\ editing' = editing \cap 1..m - 1
  /\ page' = [page EXCEPT !.running = TRUE]

Update(m) ==
  /\ m \in editing /\ ~page.running
  /\ Branched(m, Turn(messages[m].branches + 1))
Reload(m) ==
  /\ AssistantBarShown(m) /\ "reload" \in Capability
  /\ Branched(m, <<Answer("running", messages[m].branches + 1)>>)

\* The picker of a message with more than one branch, the previous or the next:
\* what followed it there, of which only the answer is kept, is shown again.
PickerShown(m) == m \in DOMAIN messages /\ View(m) # "edit" /\ messages[m].branches > 1

Pick(m, b) ==
  /\ "branches" \in Capability /\ ~page.running /\ PickerShown(m)
  /\ b \in {messages[m].branch - 1, messages[m].branch + 1} \cap 1..messages[m].branches
  /\ messages' = SubSeq(messages, 1, m - 1) \o <<[messages[m] EXCEPT !.branch = b]>>
                  \o (IF messages[m].role = "user" THEN <<Answer("complete", 1)>> ELSE <<>>)
  /\ editing' = editing \cap 1..m - 1 /\ UNCHANGED page

PageNext ==
  \/ ThreadsLoaded \/ \E turns \in 0..1 : ThreadLoaded(turns)
  \/ \E text \in BOOLEAN : Type(text)
  \/ StartDictation \/ StopDictation
  \/ Send \/ Cancel \/ Suggest
  \/ \E status \in {"complete", "error"} : AnswerEnded(status)
  \/ \E m \in 1..2 * MaxTurns :
       \/ Edit(m) \/ CancelEdit(m) \/ Update(m) \/ Reload(m)
       \/ \E b \in 1..MaxBranches : Pick(m, b)
=============================================================================
