--------------------------- MODULE KnowledgePage ---------------------------
(***************************************************************************)
(* The knowledge base's page: the list of documents, the details of the    *)
(* selected one, and the four operations, each of which reads the list and *)
(* the details again before it is done.  A document is what the page tells *)
(* apart of it: whether it is there, its status and its version.           *)
(***************************************************************************)
EXTENDS AdminClicks

CONSTANTS
  MaxDocs,     \* documents there can be
  MaxVersions, \* bound: versions of one document
  Ingested     \* the documents that may be there at first

ASSUME KnowledgeAssumption ==
  MaxDocs \in Nat /\ MaxVersions \in Nat \ {0} /\ Ingested \subseteq SUBSET (1..MaxDocs)

Doc == 1..MaxDocs

VARIABLES
  docs,     \* the backend
  kb,       \* the page
  tasks,    \* calls the page's coroutines await, or left behind
  overdue   \* history: what the last answers showed was no longer so

kbVars == <<docs, kb, tasks, overdue>>

DocState == [there : BOOLEAN, active : BOOLEAN, version : 0..MaxVersions]
Absent == [there |-> FALSE, active |-> FALSE, version |-> 0]
NoDocs == [d \in Doc |-> Absent]

Visible == [d \in Doc |-> IF docs[d].there THEN docs[d] ELSE Absent]

NewKnowledgePage ==
  [mounted |-> FALSE, loading |-> FALSE, list |-> NoDocs, selected |-> 0,
   detail |-> Absent, loadingDetail |-> FALSE, submitting |-> FALSE,
   success |-> FALSE, file |-> FALSE, reprocessFile |-> FALSE]

Write == {"upload", "status", "remove", "reprocess"}

\* "keep" is what was selected when the operation was submitted, "active" the
\* status that is asked for.
Call(op, for, doc, keep, active) ==
  [op |-> op, for |-> for, doc |-> doc, keep |-> keep, active |-> active,
   id |-> clicks', state |-> "asked", answer |-> NoDocs]

KnowledgeTypeOK ==
  /\ docs \in [Doc -> DocState]
  /\ kb \in [mounted : BOOLEAN, loading : BOOLEAN, list : [Doc -> DocState],
             selected : 0..MaxDocs, detail : DocState, loadingDetail : BOOLEAN,
             submitting : BOOLEAN, success : BOOLEAN, file : BOOLEAN,
             reprocessFile : BOOLEAN]
  /\ tasks \subseteq [op : {"list", "open"} \cup Write,
                      for : {"mount", "click", "submit", "gone"},
                      doc : 0..MaxDocs, keep : 0..MaxDocs, active : BOOLEAN,
                      id : Nat, state : {"asked", "answered", "failed"},
                      answer : [Doc -> DocState]]
  /\ overdue \in [list : BOOLEAN, detail : BOOLEAN]
  /\ kb.submitting <=> \E t \in tasks : t.for = "submit"

KnowledgeInit ==
  /\ \E there \in Ingested :
       docs = [d \in Doc |->
         IF d \in there THEN [there |-> TRUE, active |-> TRUE, version |-> 1] ELSE Absent]
  /\ kb = NewKnowledgePage /\ tasks = {}
  /\ overdue = [list |-> FALSE, detail |-> FALSE]

KnowledgeMount ==
  /\ UNCHANGED <<docs, overdue>>
  /\ kb' = [NewKnowledgePage EXCEPT !.mounted = TRUE, !.loading = TRUE]
  /\ tasks' = tasks \cup {Call("list", "mount", 0, 0, FALSE)}

\* What the coroutines still do to the page has no effect (mountedRef).
KnowledgeUnmount ==
  /\ kb' = NewKnowledgePage
  /\ tasks' = {[t EXCEPT !.for = "gone"] :
                 t \in {u \in tasks : u.op \in Write /\ u.state = "asked"}}
  /\ UNCHANGED <<docs, overdue>>

ChooseFile(which) ==
  /\ Neither
  /\ kb.mounted
  /\ which = "reprocessFile" => kb.selected # 0 /\ ~kb.loadingDetail
  /\ kb' = [kb EXCEPT ![which] = TRUE]
  /\ UNCHANGED <<docs, tasks, overdue>>

OpenDocument(d) ==
  /\ kb.mounted /\ ~kb.loading /\ kb.list[d].there /\ Click
  /\ UNCHANGED <<docs, overdue>>
  /\ kb' = [kb EXCEPT !.loadingDetail = TRUE]
  /\ tasks' = tasks \cup {Call("open", "click", d, 0, FALSE)}

\* The upload's form is always there, the rest with the details.
Offered(op) ==
  CASE op = "upload" -> kb.file
    [] op = "reprocess" -> kb.selected # 0 /\ ~kb.loadingDetail /\ kb.reprocessFile
    [] OTHER -> kb.selected # 0 /\ ~kb.loadingDetail

Submit(op) ==
  /\ kb.mounted /\ Offered(op) /\ ~kb.submitting /\ Click
  /\ UNCHANGED <<docs, overdue>>
  /\ kb' = [kb EXCEPT !.submitting = TRUE, !.success = FALSE]
  /\ IF op = "upload"
     THEN \E a \in BOOLEAN :
            tasks' = tasks \cup {Call(op, "submit", 0, kb.selected, a)}
     ELSE tasks' = tasks \cup
            {Call(op, "submit", kb.selected, kb.selected, ~kb.detail.active)}

\* What the backend may hold after a call; nothing, if it is refused because the
\* document is gone.
Carried(t) ==
  CASE t.op = "list" -> {docs}
    [] t.op = "upload" ->
         {[docs EXCEPT ![d] = [there |-> TRUE, active |-> t.active, version |-> 1]] :
            d \in {e \in Doc : docs[e].version = 0}}
    [] t.op \notin {"list", "upload"} /\ ~docs[t.doc].there -> {}
    [] t.op = "open" /\ docs[t.doc].there -> {docs}
    [] t.op = "status" /\ docs[t.doc].there ->
         {[docs EXCEPT ![t.doc].active = t.active]}
    [] t.op = "remove" /\ docs[t.doc].there ->
         {[docs EXCEPT ![t.doc] = [there |-> FALSE, active |-> FALSE, version |-> 1]]}
    [] t.op = "reprocess" /\ docs[t.doc].there ->
         IF docs[t.doc].version < MaxVersions
         THEN {[docs EXCEPT ![t.doc].version = @ + 1]} ELSE {}

Overdue == [list |-> TRUE, detail |-> TRUE]

\* An operation the page was left during is read again by nobody.
Serve(t) ==
  /\ Neither
  /\ t.state = "asked"
  /\ IF Carried(t) = {}
     THEN /\ tasks' = (tasks \ {t}) \cup {[t EXCEPT !.state = "failed"]}
          /\ UNCHANGED docs
     ELSE /\ docs' \in Carried(t)
          /\ tasks' = (tasks \ {t}) \cup
               {[t EXCEPT !.state = "answered",
                          !.answer = IF t.op \in Write THEN NoDocs ELSE Visible']}
  /\ overdue' = IF t.for = "gone" THEN Overdue ELSE overdue
  /\ UNCHANGED kb

\* Refused, or carried out and the answer lost.
Lose(t) ==
  /\ t.state = "asked" /\ Fault
  /\ docs' \in {docs} \cup Carried(t)
  /\ tasks' = (tasks \ {t}) \cup {[t EXCEPT !.state = "failed"]}
  /\ overdue' = IF t.for = "gone" THEN Overdue ELSE overdue
  /\ UNCHANGED kb

\* The page when a coroutine is done: an operation tells of its success
\* whatever became of reading the list and the details again.
Ended(t, page) ==
  IF t.for = "submit"
  THEN [page EXCEPT !.submitting = FALSE, !.success = TRUE] ELSE page

\* loadDocuments, and what refreshAndKeepSelection does with its result: a list
\* that could not be read has nothing in it.
Listed(t) ==
  LET data == IF t.state = "answered" THEN t.answer ELSE NoDocs
      page == [kb EXCEPT !.loading = FALSE,
                         !.list = IF t.state = "answered" THEN data ELSE @]
  IN  /\ t.op = "list" /\ t.state # "asked" /\ Neither
      /\ UNCHANGED docs
      /\ overdue' = [overdue EXCEPT !.list = page.list # Visible]
      /\ IF t.keep # 0 /\ data[t.keep].there
         THEN /\ kb' = [page EXCEPT !.loadingDetail = TRUE]
              /\ tasks' = (tasks \ {t}) \cup {Call("open", "submit", t.keep, 0, FALSE)}
         ELSE /\ kb' = Ended(t, IF t.keep # 0 THEN [page EXCEPT !.selected = 0] ELSE page)
              /\ tasks' = tasks \ {t}

Opened(t) ==
  LET page == [kb EXCEPT !.loadingDetail = FALSE] IN
  /\ t.op = "open" /\ t.state # "asked" /\ Neither
  /\ tasks' = tasks \ {t}
  /\ UNCHANGED docs
  /\ IF t.state = "answered"
     THEN /\ kb' = Ended(t, [page EXCEPT !.selected = t.doc, !.detail = t.answer[t.doc]])
          /\ overdue' = [overdue EXCEPT !.detail = t.answer[t.doc] # Visible[t.doc]]
     ELSE /\ kb' = Ended(t, page)
          /\ overdue' = [overdue EXCEPT !.detail = TRUE]

\* Variant: a change of status is not followed by reading again.
Written_statusAlone(t) ==
  /\ Neither
  /\ t.op \in Write /\ t.for = "submit" /\ t.state = "answered"
  /\ UNCHANGED <<docs, overdue>>
  /\ IF t.op = "status"
     THEN /\ kb' = Ended(t, kb) /\ tasks' = tasks \ {t}
     ELSE /\ kb' = [kb EXCEPT !.loading = TRUE]
          /\ tasks' = (tasks \ {t}) \cup {Call("list", "submit", 0, t.keep, FALSE)}

Written(t) ==
  /\ Neither
  /\ t.op \in Write /\ t.for = "submit" /\ t.state = "answered"
  /\ UNCHANGED <<docs, overdue>>
  /\ kb' = [kb EXCEPT !.loading = TRUE, !.file = @ /\ t.op # "upload",
                      !.reprocessFile = @ /\ t.op # "reprocess"]
  /\ tasks' = (tasks \ {t}) \cup {Call("list", "submit", 0, t.keep, FALSE)}

\* An operation that failed is not followed by reading anything again.
WriteFailed(t) ==
  /\ Neither
  /\ t.op \in Write /\ t.for = "submit" /\ t.state = "failed"
  /\ kb' = [kb EXCEPT !.submitting = FALSE]
  /\ tasks' = tasks \ {t} /\ overdue' = Overdue
  /\ UNCHANGED docs

Forgotten(t) ==
  /\ Neither
  /\ t.for = "gone" /\ t.state # "asked"
  /\ tasks' = tasks \ {t}
  /\ UNCHANGED <<docs, kb, overdue>>

KnowledgeNext ==
  \/ \E which \in {"file", "reprocessFile"} : ChooseFile(which)
  \/ \E d \in Doc : OpenDocument(d)
  \/ \E op \in Write : Submit(op)
  \/ \E t \in tasks :
       \/ Serve(t) \/ Lose(t) \/ Listed(t) \/ Opened(t)
       \/ Written(t) \/ WriteFailed(t) \/ Forgotten(t)

\* When nothing is awaited, list and details show what the backend holds, unless
\* the answer on display had been overtaken when it came, or an operation failed
\* or was left behind: whatever is clicked meanwhile, every operation is followed
\* by a list and details read after it (refreshAndKeepSelection).
PageIsCurrent ==
  kb.mounted /\ tasks = {} =>
    /\ ~overdue.list => kb.list = Visible
    /\ ~overdue.detail /\ kb.selected # 0 => kb.detail = Visible[kb.selected]
=============================================================================
