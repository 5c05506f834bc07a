--------------------------- MODULE KnowledgeBase ---------------------------
(***************************************************************************)
(* One document of the knowledge base (backend/knowledge/): its row and    *)
(* its versions in PostgreSQL, its chunks in Chroma, and the four          *)
(* administrative requests that write both, without a transaction that     *)
(* spans them.  Documents share nothing.                                   *)
(*                                                                         *)
(* A version is named by the request that inserts it (its uuid).  Chunks   *)
(* of a version are written, marked and deleted together, and a document   *)
(* that was parsed has at least one; so a version's chunks are one entry   *)
(* of chroma.  Handlers are coroutines of one process: a step ends at an   *)
(* await that yields.  The Chroma client's collection.update does not; its *)
(* upsert and delete run in an executor and do.  A call of Chroma may      *)
(* raise with or without having had its effect, and so may a COMMIT, whose *)
(* reply can be lost.                                                      *)
(***************************************************************************)
EXTENDS Integers, FiniteSets, FiniteSetsExt

CONSTANTS
  Request,      \* bound: the administrative requests that are made
  Kind,         \* the routes that are called
  MaxFailures,  \* bound: calls of Chroma or PostgreSQL that raise
  MaxCrashes    \* bound: times the backend's process dies

ASSUME KnowledgeAssumption ==
  /\ IsFiniteSet(Request)
  /\ Kind \subseteq {"ingest", "reprocess", "status", "remove"}
  /\ MaxFailures \in Nat
  /\ MaxCrashes \in Nat

VARIABLES
  doc,      \* the document's row
  version,  \* the rows of its versions, by the request that inserts them
  chroma,   \* the chunks of each version in the vector store
  handler,  \* the coroutine of each request
  crashes,  \* how often the process died
  overlap   \* history: a request came in while another one was handled

vars == <<doc, version, chroma, handler, crashes, overlap>>

Number == 0 .. Cardinality(Request)
Doc == [stored : BOOLEAN, active : BOOLEAN, deleted : BOOLEAN]
VersionRow == [number : Number, status : {"none", "processing", "completed", "failed"}]
Place == {"get", "load", "create", "retire", "upsert", "complete", "cleanup", "restore",
          "mark", "change", "commit", "delete", "soft", "done", "dead"}
Handler ==
  [kind : Kind,
   pc : Place,
   wanted : BOOLEAN,           \* the payload's active
   active : BOOLEAN,           \* document.is_active as it was read
   known : SUBSET Request,     \* the versions whose chroma_ids were read
   number : Number,            \* the number the new version gets
   begun : BOOLEAN,            \* the session is in a transaction
   expired : BOOLEAN,          \* its objects have to be read again
   failures : Nat,
   result : {"none", "ok", "missing", "error"}]
Idle == [pc |-> "idle"]

\* Only two of the payloads have the field active.
Payload(kind) == IF kind \in {"ingest", "status"} THEN BOOLEAN ELSE {FALSE}

Init ==
  /\ doc = [stored |-> FALSE, active |-> FALSE, deleted |-> FALSE]
  /\ version = [v \in Request |-> [number |-> 0, status |-> "none"]]
  /\ chroma = [v \in Request |-> "absent"]
  /\ handler = [q \in Request |-> Idle]
  /\ crashes = 0
  /\ overlap = FALSE

-----------------------------------------------------------------------------
At(q, pc) == handler[q].pc = pc
Came == {q \in Request : handler[q].pc # "idle"}
Running == {q \in Request : handler[q].pc \notin {"idle", "done", "dead"}}
Stored == {v \in Request : version[v].status # "none"}

\* complete_version inserts the metadata of the chunks in the transaction that
\* sets the status, so they are what get_chroma_ids finds.
Indexed == {v \in Request : version[v].status = "completed"}

Goto(q, pc) == handler' = [handler EXCEPT ![q].pc = pc]
Finish(q, result) ==
  handler' = [handler EXCEPT ![q].pc = "done", ![q].result = result]

TotalFailures == MapThenSumSet(LAMBDA q : handler[q].failures, Came)

\* A call raises, and the handler goes on at pc.
Raise(q, pc) ==
  /\ TotalFailures < MaxFailures
  /\ handler' = [handler EXCEPT ![q].pc = pc, ![q].failures = @ + 1,
                   ![q].result = IF pc = "done" THEN "error" ELSE @]

\* What Chroma holds after an update, a delete, an upsert. An update ignores
\* ids it does not have.
Marked(versions, active) ==
  [v \in Request |->
     IF v \in versions /\ chroma[v] # "absent"
       THEN IF active THEN "active" ELSE "inactive"
       ELSE chroma[v]]
Deleted(versions) == [v \in Request |-> IF v \in versions THEN "absent" ELSE chroma[v]]
Added(v, active) == [chroma EXCEPT ![v] = IF active THEN "active" ELSE "inactive"]

-----------------------------------------------------------------------------
\* A request comes in. An upload begins with the document's two INSERTs, and only
\* one of all uploads is the one of this document.
Begin(q) ==
  /\ At(q, "idle")
  /\ overlap' = (overlap \/ Running # {})
  /\ \E kind \in Kind : \E wanted \in Payload(kind) :
       /\ kind = "ingest" => \A r \in Came : handler[r].kind # "ingest"
       /\ handler' = [handler EXCEPT ![q] =
         [kind |-> kind, pc |-> IF kind = "ingest" THEN "create" ELSE "get",
          wanted |-> wanted, active |-> wanted, known |-> {}, number |-> 1,
          begun |-> FALSE, expired |-> FALSE, failures |-> 0, result |-> "none"]]
  /\ UNCHANGED <<doc, version, chroma, crashes>>

\* get_document's first SELECT.
Get(q) ==
  /\ At(q, "get")
  /\ \/ /\ doc.stored /\ ~doc.deleted
        /\ handler' = [handler EXCEPT ![q].pc = "load", ![q].active = doc.active]
     \/ ~(doc.stored /\ ~doc.deleted) /\ Finish(q, "missing")
     \/ Raise(q, "done")
  /\ UNCHANGED <<doc, version, chroma, crashes, overlap>>

NextNumber == Max({version[v].number : v \in Stored}) + 1

\* Its SELECTs of the versions and of their chunks.
Load(q) ==
  /\ At(q, "load")
  /\ \/ handler' = [handler EXCEPT ![q].known = Indexed, ![q].number = NextNumber,
          ![q].pc = CASE handler[q].kind = "reprocess" -> "create"
                      [] handler[q].kind = "status" -> "change"
                      [] handler[q].kind = "remove" -> "delete"]
     \/ Raise(q, "done")
  /\ UNCHANGED <<doc, version, chroma, crashes, overlap>>

\* Variant: no unique constraint on the number of a document's versions.
NumberFree_always(n) == TRUE

\* uq_knowledge_document_version.
NumberFree(n) == \A v \in Stored : version[v].number # n

\* create_document, create_document_version. The latter refreshes the document
\* after its commit, which begins a transaction, and the refresh may raise; an
\* exception here is nobody's to catch, and neither is one of a COMMIT that took
\* effect. A taken number is no failure of a call.
Create(q) ==
  LET new == [version EXCEPT ![q] = [number |-> handler[q].number, status |-> "processing"]]
      ingests == handler[q].kind = "ingest"
  IN  /\ At(q, "create")
      /\ \/ /\ NumberFree(handler[q].number)
            /\ version' = new
            /\ \/ handler' = [handler EXCEPT ![q].pc = "retire", ![q].begun = ~ingests]
               \/ Raise(q, "done")
            /\ doc' = IF ingests
                        THEN [stored |-> TRUE, active |-> handler[q].wanted, deleted |-> FALSE]
                        ELSE doc
         \/ /\ \/ Raise(q, "done")
               \/ ~NumberFree(handler[q].number) /\ Finish(q, "error")
            /\ UNCHANGED <<doc, version>>
      /\ UNCHANGED <<chroma, crashes, overlap>>

\* The file is parsed and, in the same step, the chunks of the versions that
\* were read are marked inactive (an upload has none). A file without text is
\* an InvalidDocumentError; an update of no ids calls nothing.
Retire(q) ==
  LET known == handler[q].known
  IN  /\ At(q, "retire")
      /\ \/ Goto(q, "mark") /\ UNCHANGED chroma
         \/ Goto(q, "upsert") /\ chroma' = Marked(known, FALSE)
         \/ known # {} /\ Raise(q, "cleanup") /\ chroma' \in {chroma, Marked(known, FALSE)}
      /\ UNCHANGED <<doc, version, crashes, overlap>>

\* Variant: new_chroma_ids is assigned after the upsert.
Upsert_idsLate(q) ==
  /\ At(q, "upsert")
  /\ \/ Goto(q, "complete") /\ chroma' = Added(q, handler[q].active)
     \/ Raise(q, "restore") /\ chroma' \in {chroma, Added(q, handler[q].active)}
  /\ UNCHANGED <<doc, version, crashes, overlap>>

\* The new chunks are active if the document was when it was read.
Upsert(q) ==
  /\ At(q, "upsert")
  /\ \/ Goto(q, "complete") /\ chroma' = Added(q, handler[q].active)
     \/ Raise(q, "cleanup") /\ chroma' \in {chroma, Added(q, handler[q].active)}
  /\ UNCHANGED <<doc, version, crashes, overlap>>

\* complete_version. When its INSERTs fail the session rolls back by itself, which
\* expires every object; when the COMMIT raises it does not, and the version may be
\* on record as completed all the same.
Complete(q) ==
  LET completed == [version EXCEPT ![q].status = "completed"]
  IN  /\ At(q, "complete")
      /\ \/ Finish(q, "ok") /\ version' = completed
         \/ /\ TotalFailures < MaxFailures
            /\ \E expired \in BOOLEAN :
                 /\ handler' = [handler EXCEPT ![q].pc = "cleanup", ![q].failures = @ + 1,
                                 ![q].begun = TRUE, ![q].expired = expired]
                 /\ version' \in IF expired THEN {version} ELSE {version, completed}
      /\ UNCHANGED <<doc, chroma, crashes, overlap>>

\* Variant: the old chunks are deleted instead of the new ones.
Cleanup_known(q) ==
  /\ At(q, "cleanup")
  /\ \/ Goto(q, "restore") /\ chroma' = Deleted(handler[q].known)
     \/ Raise(q, "restore") /\ chroma' \in {chroma, Deleted(handler[q].known)}
  /\ UNCHANGED <<doc, version, crashes, overlap>>

\* The exception handler deletes the new chunks; a failure of it is passed over.
Cleanup(q) ==
  /\ At(q, "cleanup")
  /\ \/ Goto(q, "restore") /\ chroma' = Deleted({q})
     \/ Raise(q, "restore") /\ chroma' \in {chroma, Deleted({q})}
  /\ UNCHANGED <<doc, version, crashes, overlap>>

\* Variant: the chunks are restored only if the document was inactive.
Restore_inactiveOnly(q) ==
  /\ At(q, "restore")
  /\ Goto(q, "mark")
  /\ chroma' = IF handler[q].active THEN chroma ELSE Marked(handler[q].known, TRUE)
  /\ UNCHANGED <<doc, version, crashes, overlap>>

\* It marks the old chunks active again, all of them; if there are any it reads
\* document.is_active, which raises when the document is expired.
Restore(q) ==
  LET known == handler[q].known
      lost == known # {} /\ handler[q].expired
      restored == IF handler[q].active THEN Marked(known, TRUE) ELSE chroma
  IN  /\ At(q, "restore")
      /\ \/ lost /\ Finish(q, "error") /\ UNCHANGED chroma
         \/ ~lost /\ Goto(q, "mark") /\ chroma' = restored
         \/ /\ ~lost /\ known # {} /\ handler[q].active
            /\ Raise(q, "mark")
            /\ chroma' \in {chroma, restored}
      /\ UNCHANGED <<doc, version, crashes, overlap>>

\* fail_version. A rollback of a transaction expires every object of the
\* session, so that reading version.id for the UPDATE is I/O outside of an
\* await and raises; without a transaction the rollback does nothing.
Mark(q) ==
  LET failed == [version EXCEPT ![q].status = "failed"]
  IN  /\ At(q, "mark")
      /\ \/ handler[q].begun /\ Finish(q, "error") /\ UNCHANGED version
         \/ ~handler[q].begun /\ Finish(q, "error") /\ version' = failed
         \/ ~handler[q].begun /\ Raise(q, "done") /\ version' \in {version, failed}
      /\ UNCHANGED <<doc, chroma, crashes, overlap>>

\* change_document_status marks the chunks first.
Change(q) ==
  LET known == handler[q].known
      changed == Marked(known, handler[q].wanted)
  IN  /\ At(q, "change")
      /\ \/ Goto(q, "commit") /\ chroma' = changed
         \/ known # {} /\ Raise(q, "done") /\ chroma' \in {chroma, changed}
      /\ UNCHANGED <<doc, version, crashes, overlap>>

\* Its UPDATE holds is_active only when the value is not the one that was read.
Written(q, active) == IF active # handler[q].active THEN active ELSE doc.active

SetActive(q) ==
  LET set == [doc EXCEPT !.active = Written(q, handler[q].wanted)]
  IN  /\ At(q, "commit")
      /\ \/ Finish(q, "ok") /\ doc' = set
         \/ Raise(q, "done") /\ doc' \in {doc, set}
      /\ UNCHANGED <<version, chroma, crashes, overlap>>

\* remove_document deletes the chunks first.
Delete(q) ==
  LET known == handler[q].known
  IN  /\ At(q, "delete")
      /\ \/ Goto(q, "soft") /\ chroma' = Deleted(known)
         \/ known # {} /\ Raise(q, "done") /\ chroma' \in {chroma, Deleted(known)}
      /\ UNCHANGED <<doc, version, crashes, overlap>>

SoftDelete(q) ==
  LET removed == [doc EXCEPT !.active = Written(q, FALSE), !.deleted = TRUE]
  IN  /\ At(q, "soft")
      /\ \/ Finish(q, "ok") /\ doc' = removed
         \/ Raise(q, "done") /\ doc' \in {doc, removed}
      /\ UNCHANGED <<version, chroma, crashes, overlap>>

\* The process dies: its coroutines end where they are.
Crash ==
  /\ crashes < MaxCrashes
  /\ Running # {}
  /\ crashes' = crashes + 1
  /\ handler' = [q \in Request |-> IF q \in Running THEN [handler[q] EXCEPT !.pc = "dead"]
                                                    ELSE handler[q]]
  /\ UNCHANGED <<doc, version, chroma, overlap>>

Next ==
  \/ \E q \in Request :
       \/ Begin(q) \/ Get(q) \/ Load(q) \/ Create(q) \/ Retire(q) \/ Upsert(q)
       \/ Complete(q) \/ Cleanup(q) \/ Restore(q) \/ Mark(q)
       \/ Change(q) \/ SetActive(q) \/ Delete(q) \/ SoftDelete(q)
  \/ Crash

Spec == Init /\ [][Next]_vars
-----------------------------------------------------------------------------
\* Types; a number is at most the number of versions there may be.
TypeOK ==
  /\ doc \in Doc
  /\ version \in [Request -> VersionRow]
  /\ chroma \in [Request -> {"absent", "active", "inactive"}]
  /\ handler \in [Request -> Handler \cup {Idle}]
  /\ crashes \in 0 .. MaxCrashes
  /\ overlap \in BOOLEAN

\* The versions are numbered from 1 without a gap or a repetition, although the
\* next number is read as a maximum and inserted after other requests have been.
VersionNumbersConsecutive ==
  {version[v].number : v \in Stored} = 1 .. Cardinality(Stored)

\* A request to remove the document has come to its call of Chroma.
Removing(v) ==
  \E q \in Came : handler[q].kind = "remove" /\ v \in handler[q].known

\* The versions on record as completed whose request knows it. The request of any
\* other one got an error for the COMMIT of complete_version, of which the reply
\* was lost, and took the chunks of the version away again.
Acknowledged == {v \in Indexed : handler[v].failures = 0}

\* A version that is on record as completed has its chunks in Chroma, whatever
\* else fails or is undone at the same time, unless a removal takes them or its
\* own request took it for failed.
CompletedIsIndexed ==
  \A v \in Acknowledged : chroma[v] = "absent" => Removing(v)

\* When a request that inserts a version gives up, chunks of it stay behind only
\* if two calls failed: the one it gives up for and the one that cleans up.
LeftoversNeedTwoFailures ==
  \A v \in Request :
    At(v, "done") /\ v \notin Indexed /\ chroma[v] # "absent" => handler[v].failures >= 2

\* The requests were handled one after the other, and at most one call failed
\* in each, which was not one that changes the status or removes, and not an
\* INSERT of complete_version (the COMMIT may have failed, with effect or without).
Undisturbed ==
  /\ ~overlap
  /\ crashes = 0
  /\ \A q \in Came :
       /\ ~handler[q].expired
       /\ handler[q].failures <= IF handler[q].kind \in {"ingest", "reprocess"} THEN 1 ELSE 0

\* Both stores agree between the requests: what the agents retrieve of an active
\* document has the newest version whose request succeeded, after a failed
\* reprocessing too, and of an inactive or removed one they retrieve nothing.
StoresAgree ==
  Undisturbed /\ Running = {} =>
    IF doc.active /\ ~doc.deleted
      THEN \A v \in Acknowledged :
             (\A w \in Acknowledged : version[w].number <= version[v].number)
               => chroma[v] = "active"
      ELSE \A v \in Request : chroma[v] # "active"

-----------------------------------------------------------------------------
\* What the documentation says of the knowledge base and the code does not do.

\* A request that has ended leaves its version with a final status.
FinalStatusRecorded ==
  \A v \in Request : At(v, "done") => version[v].status # "processing"

\* The agents retrieve nothing of a document that is on record as inactive, once
\* every request has ended.
InactiveNotRetrieved ==
  Running = {} /\ ~doc.active => \A v \in Request : chroma[v] # "active"
=============================================================================
