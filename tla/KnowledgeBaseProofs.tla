------------------------ MODULE KnowledgeBaseProofs ------------------------
(***************************************************************************)
(* Proofs about KnowledgeBase, for any number of requests, failures and    *)
(* crashes, in any order.                                                  *)
(***************************************************************************)
EXTENDS KnowledgeBase, FiniteSetTheorems, TLAPS

NewPlaces == {"idle", "get", "load", "create"}
VersionPlaces == {"retire", "upsert", "complete", "cleanup", "restore", "mark"}

\* A handler at one of these places has not inserted a version; at one of the
\* others below, no call of it has failed yet.
Unversioned == NewPlaces \cup {"change", "commit", "delete", "soft"}
Smooth == {"get", "load", "create", "retire", "upsert", "complete"}

\* The COMMIT of complete_version took effect and its reply was lost.
InDoubt(q) ==
  /\ version[q].status = "completed"
  /\ handler[q].failures > 0
  /\ handler[q].begun
  /\ handler[q].pc \in {"cleanup", "restore", "mark"}

\* What the place a handler is at says of its version, its chunks and what it has
\* read.
PlaceInv(q) ==
  /\ handler[q].pc \in Unversioned => q \notin Stored
  /\ handler[q].pc \in Smooth => handler[q].failures = 0
  /\ handler[q].pc \in {"get", "load"} => handler[q].kind # "ingest"
  /\ At(q, "load") => Stored # {}
  /\ At(q, "create") => handler[q].number \in 1 .. (Cardinality(Stored) + 1)
  /\ handler[q].pc \in VersionPlaces => version[q].status = "processing" \/ InDoubt(q)
  /\ At(q, "complete") => chroma[q] # "absent"
  /\ At(q, "delete") => handler[q].kind = "remove"
  /\ ~At(q, "idle") => handler[q].known \subseteq Indexed

IInv ==
  /\ TypeOK
  /\ VersionNumbersConsecutive
  /\ doc.stored => Stored # {}
  /\ \A q \in Request : PlaceInv(q)
  /\ CompletedIsIndexed

-----------------------------------------------------------------------------
LEMMA StoredFinite ==
  /\ IsFiniteSet(Stored)
  /\ Cardinality(Stored) \in Nat
  /\ Cardinality(Request) \in Nat
  /\ Cardinality(Stored) <= Cardinality(Request)
<1>1. Stored \subseteq Request
  BY DEF Stored
<1>2. IsFiniteSet(Request)
  BY KnowledgeAssumption
<1> QED  BY <1>1, <1>2, FS_Subset, FS_CardinalityType

\* Adding a version adds one.
LEMMA StoredAdd ==
  ASSUME NEW q \in Request, q \notin Stored
  PROVE  /\ IsFiniteSet(Stored \cup {q})
         /\ Cardinality(Stored \cup {q}) = Cardinality(Stored) + 1
         /\ Cardinality(Stored) + 1 <= Cardinality(Request)
<1>1. IsFiniteSet(Stored \cup {q}) /\ Cardinality(Stored \cup {q}) = Cardinality(Stored) + 1
  BY StoredFinite, FS_AddElement
<1>2. Stored \cup {q} \subseteq Request
  BY DEF Stored
<1>3. Cardinality(Stored \cup {q}) <= Cardinality(Request)
  BY <1>2, KnowledgeAssumption, FS_Subset
<1> QED  BY <1>1, <1>3

\* While a request has no version yet, the next number is one of the type.
LEMMA NumberFits ==
  ASSUME NEW q \in Request, q \notin Stored, NEW k \in 1 .. (Cardinality(Stored) + 1)
  PROVE  k \in Number
<1> DEFINE c == Cardinality(Stored)
           m == Cardinality(Request)
<1>1. c \in Nat /\ m \in Nat
  BY StoredFinite
<1>2. c + 1 <= m
  BY StoredAdd
<1>3. k \in Int /\ 1 <= k /\ k <= c + 1
  BY <1>1
<1> HIDE DEF c, m
<1>4. k \in 0 .. m
  BY <1>1, <1>2, <1>3
<1> QED  BY <1>4 DEF Number, m

\* The maximum that NextNumber takes is the number of versions.
LEMMA NextNumberIs ==
  ASSUME VersionNumbersConsecutive, Stored # {}
  PROVE  NextNumber = Cardinality(Stored) + 1
<1> DEFINE n == Cardinality(Stored)
           S == {version[v].number : v \in Stored}
<1>1. n \in Nat
  BY StoredFinite
<1>2. S = 1 .. n
  BY DEF VersionNumbersConsecutive
<1>3. n >= 1
  <2>1. n # 0
    BY StoredFinite, FS_EmptySet
  <2> QED  BY <1>1, <2>1
<1>4. n \in S /\ \A y \in S : n >= y
  BY <1>1, <1>2, <1>3
<1>5. Max(S) \in S /\ \A y \in S : Max(S) >= y
  BY <1>4 DEF Max
<1>6. Max(S) = n
  <2>1. Max(S) \in Int /\ Max(S) >= n /\ n >= Max(S)
    BY <1>1, <1>2, <1>4, <1>5
  <2> QED  BY <1>1, <2>1
<1> QED  BY <1>6 DEF NextNumber

-----------------------------------------------------------------------------
LEMMA CameType ==
  ASSUME TypeOK, NEW q \in Request, handler[q].pc # "idle"
  PROVE  handler[q] \in Handler
  BY DEF TypeOK, Idle

LEMMA CameIs ==
  ASSUME TypeOK, NEW q \in Request
  PROVE  handler[q].pc = "idle" \/ handler[q] \in Handler
  BY DEF TypeOK, Idle

\* What Goto, Finish and Raise do to a handler.
LEMMA Moves ==
  ASSUME TypeOK, NEW q \in Request, handler[q] \in Handler, NEW pc \in Place,
         \/ Goto(q, pc)
         \/ pc = "done" /\ \E r \in {"ok", "missing", "error"} : Finish(q, r)
         \/ Raise(q, pc)
  PROVE  \E n \in Handler :
           /\ handler' = [handler EXCEPT ![q] = n]
           /\ n.pc = pc
           /\ n.kind = handler[q].kind
           /\ n.known = handler[q].known
           /\ n.number = handler[q].number
           /\ n.begun = handler[q].begun
           /\ n.failures >= handler[q].failures
           /\ Goto(q, pc) => n.failures = handler[q].failures
<1> DEFINE h == handler[q]
           Good(n) == /\ n \in Handler
                      /\ handler' = [handler EXCEPT ![q] = n]
                      /\ n.pc = pc
                      /\ n.kind = h.kind
                      /\ n.known = h.known
                      /\ n.number = h.number
                      /\ n.begun = h.begun
                      /\ n.failures >= h.failures
<1>0. h.failures \in Nat /\ h.failures >= h.failures /\ q \in DOMAIN handler
  BY DEF Handler, TypeOK
<1>1. ASSUME Goto(q, pc)  PROVE \E n : Good(n)
  <2> DEFINE n == [h EXCEPT !.pc = pc]
  <2>1. n \in Handler /\ n.pc = pc /\ n.kind = h.kind /\ n.known = h.known /\ n.number = h.number
        /\ n.begun = h.begun /\ n.failures = h.failures
    BY DEF Handler
  <2>2. handler' = [handler EXCEPT ![q] = n]
    BY <1>1 DEF Goto
  <2> QED  BY <1>0, <2>1, <2>2
<1>2. ASSUME NEW r \in {"ok", "missing", "error"}, pc = "done", Finish(q, r)
      PROVE  \E n : Good(n)
  <2> DEFINE n == [h EXCEPT !.pc = "done", !.result = r]
  <2>1. n \in Handler /\ n.pc = pc /\ n.kind = h.kind /\ n.known = h.known /\ n.number = h.number
        /\ n.begun = h.begun /\ n.failures = h.failures
    BY <1>2 DEF Handler, Place
  <2>2. handler' = [handler EXCEPT ![q] = n]
    BY <1>2 DEF Finish
  <2> QED  BY <1>0, <2>1, <2>2
<1>3. ASSUME Raise(q, pc)  PROVE \E n : Good(n)
  <2> DEFINE n == [h EXCEPT !.pc = pc, !.failures = @ + 1,
                     !.result = IF pc = "done" THEN "error" ELSE @]
  <2>a. h.failures + 1 \in Nat /\ h.failures + 1 >= h.failures
    BY DEF Handler
  <2>b. (IF pc = "done" THEN "error" ELSE h.result) \in {"none", "ok", "missing", "error"}
    BY DEF Handler
  <2>1. n \in Handler /\ n.pc = pc /\ n.kind = h.kind /\ n.known = h.known /\ n.number = h.number
        /\ n.begun = h.begun /\ n.failures = h.failures + 1
    BY <2>a, <2>b DEF Handler
  <2>2. handler' = [handler EXCEPT ![q] = n]
    BY <1>3 DEF Raise
  <2> QED  BY <2>a, <2>1, <2>2
<1>4. PICK n : Good(n)
  BY <1>1, <1>2, <1>3
<1>5. ASSUME Goto(q, pc)  PROVE n.failures = h.failures
  <2>1. handler'[q] = n
    BY <1>0, <1>4
  <2>2. handler'[q] = [h EXCEPT !.pc = pc]
    BY <1>0, <1>5 DEF Goto
  <2> QED  BY <2>1, <2>2 DEF Handler
<1> QED  BY <1>4, <1>5

-----------------------------------------------------------------------------
\* A step that leaves the versions as they are keeps the sets made of them.
LEMMA SameVersions ==
  ASSUME version' = version
  PROVE  /\ Stored' = Stored
         /\ Indexed' = Indexed
         /\ VersionNumbersConsecutive => VersionNumbersConsecutive'
<1>1. Stored' = Stored /\ Indexed' = Indexed
  BY DEF Stored, Indexed
<1> QED  BY <1>1 DEF VersionNumbersConsecutive

\* What a step of one handler has to show.
LEMMA HandlerStep ==
  ASSUME IInv, NEW q \in Request, NEW n \in Handler,
         handler' = [handler EXCEPT ![q] = n],
         \A v \in Request \ {q} : version'[v] = version[v],
         Stored \subseteq Stored', Indexed \subseteq Indexed',
         Indexed' \subseteq Indexed \cup {q},
         handler[q].pc # "idle" => n.kind = handler[q].kind /\ handler[q].known \subseteq n.known,
         \A v \in Acknowledged : chroma'[v] = "absent" =>
           chroma[v] = "absent" \/ (n.kind = "remove" /\ v \in n.known),
         q \in Acknowledged' \ Acknowledged => chroma'[q] # "absent",
         \A r \in Request \ {q} :
           version[r].status = "processing" /\ chroma[r] # "absent" => chroma'[r] # "absent",
         PlaceInv(q)'
  PROVE  /\ \A r \in Request : PlaceInv(r)'
         /\ CompletedIsIndexed'
<1>1. handler'[q] = n /\ \A r \in Request \ {q} : handler'[r] = handler[r]
  BY DEF IInv, TypeOK
<1>2. Stored' \subseteq Request /\ IsFiniteSet(Stored')
  <2>1. Stored' \subseteq Request
    BY DEF Stored
  <2> QED  BY <2>1, KnowledgeAssumption, FS_Subset
<1>3. /\ Cardinality(Stored) \in Nat /\ Cardinality(Stored') \in Nat
      /\ Cardinality(Stored) <= Cardinality(Stored')
  BY <1>2, StoredFinite, FS_Subset, FS_CardinalityType
<1>4. ASSUME NEW r \in Request \ {q}  PROVE PlaceInv(r)'
  <2>1. handler'[r] = handler[r] /\ version'[r] = version[r]
    BY <1>1, <1>4
  <2>2. PlaceInv(r)
    BY <1>4 DEF IInv
  <2>3. r \notin Stored => r \notin Stored'
    BY <2>1 DEF Stored
  <2>4. At(r, "create") => handler[r].number \in 1 .. (Cardinality(Stored') + 1)
    BY <1>3, <2>2 DEF PlaceInv
  <2>5. At(r, "complete") => version[r].status = "processing" /\ chroma[r] # "absent"
    BY <2>2 DEF PlaceInv, VersionPlaces, InDoubt, At
  <2>6. At(r, "complete") => chroma'[r] # "absent"
    BY <1>4, <2>5
  <2>7. InDoubt(r) => InDoubt(r)'
    BY <2>1 DEF InDoubt
  <2> QED  BY <2>1, <2>2, <2>3, <2>4, <2>6, <2>7 DEF PlaceInv, At
<1>5. ASSUME NEW v \in Request, Removing(v)  PROVE Removing(v)'
  <2>1. PICK r \in Came : handler[r].kind = "remove" /\ v \in handler[r].known
    BY <1>5 DEF Removing
  <2>2. r \in Request /\ handler[r].pc # "idle"
    BY <2>1 DEF Came
  <2>3. CASE r = q
    <3>1. n.pc # "idle"
      BY DEF Handler, Place
    <3>2. handler'[r].kind = "remove" /\ v \in handler'[r].known /\ r \in Came'
      BY <1>1, <2>1, <2>2, <2>3, <3>1 DEF Came
    <3> QED  BY <3>2 DEF Removing
  <2>4. CASE r # q
    <3>1. handler'[r] = handler[r] /\ r \in Came'
      BY <1>1, <2>2, <2>4 DEF Came
    <3> QED  BY <2>1, <3>1 DEF Removing
  <2> QED  BY <2>3, <2>4
<1>6. ASSUME NEW v \in Acknowledged', chroma'[v] = "absent"  PROVE Removing(v)'
  <2>1. v \in Acknowledged /\ v \in Request
    <3>1. CASE v = q
      BY <1>6, <3>1 DEF Acknowledged, Indexed
    <3>2. CASE v # q
      <4>1. v \in Request /\ handler'[v] = handler[v] /\ version'[v] = version[v]
        BY <1>1, <1>6, <3>2 DEF Acknowledged, Indexed
      <4> QED  BY <1>6, <4>1 DEF Acknowledged, Indexed
    <3> QED  BY <3>1, <3>2
  <2>2. CASE chroma[v] = "absent"
    BY <1>5, <2>1, <2>2 DEF IInv, CompletedIsIndexed
  <2>3. CASE n.kind = "remove" /\ v \in n.known
    <3>1. q \in Came'
      BY <1>1 DEF Came, Handler, Place
    <3> QED  BY <1>1, <2>3, <3>1 DEF Removing
  <2> QED  BY <1>6, <2>1, <2>2, <2>3
<1>7. CompletedIsIndexed'
  BY <1>6 DEF CompletedIsIndexed
<1> QED  BY <1>4, <1>7

\* The same for a step that leaves the versions and the document's row as they
\* are, and whose deletions are of one removal.
LEMMA QuietStep ==
  ASSUME IInv, NEW q \in Request, NEW n \in Handler,
         handler' = [handler EXCEPT ![q] = n],
         version' = version, doc' \in Doc, doc'.stored => doc.stored,
         chroma' \in [Request -> {"absent", "active", "inactive"}],
         UNCHANGED crashes, overlap' \in BOOLEAN,
         handler[q].pc # "idle" => /\ n.kind = handler[q].kind
                                   /\ handler[q].known \subseteq n.known
                                   /\ n.failures >= handler[q].failures,
         \A v \in Request : chroma'[v] = "absent" =>
           \/ chroma[v] = "absent"
           \/ v = q /\ q \notin Acknowledged
           \/ n.kind = "remove" /\ v \in n.known /\ n.known \subseteq Indexed,
         PlaceInv(q)'
  PROVE  IInv'
<1>1. Stored' = Stored /\ Indexed' = Indexed /\ VersionNumbersConsecutive'
  BY SameVersions DEF IInv
<1>2. TypeOK'
  BY DEF IInv, TypeOK
<1>3. (doc.stored => Stored # {})'
  BY <1>1 DEF IInv
<1>4. \A v \in Acknowledged : chroma'[v] = "absent" =>
        chroma[v] = "absent" \/ (n.kind = "remove" /\ v \in n.known)
  BY DEF Acknowledged, Indexed
<1>5. \A r \in Request \ {q} :
        version[r].status = "processing" /\ chroma[r] # "absent" => chroma'[r] # "absent"
  BY DEF Indexed
<1>7. q \notin Acknowledged' \ Acknowledged
  <2> SUFFICES ASSUME q \in Acknowledged'  PROVE q \in Acknowledged
    OBVIOUS
  <2>1. q \in Indexed /\ handler'[q].failures = 0 /\ handler'[q] = n
    BY <1>1 DEF Acknowledged, IInv, TypeOK
  <2>2. q \in Stored
    BY <2>1 DEF Indexed, Stored
  <2>3. handler[q].pc # "idle"
    BY <2>2 DEF IInv, PlaceInv, Unversioned, NewPlaces
  <2>4. handler[q].failures \in Nat /\ n.failures >= handler[q].failures
    BY <2>3, CameType DEF IInv, Handler
  <2>5. handler[q].failures = 0
    BY <2>1, <2>4
  <2> QED  BY <2>1, <2>5 DEF Acknowledged
<1>6. (\A r \in Request : PlaceInv(r)') /\ CompletedIsIndexed'
  BY <1>1, <1>4, <1>5, <1>7, HandlerStep
<1> QED  BY <1>1, <1>2, <1>3, <1>6 DEF IInv

\* The same for a step by Goto, Finish or Raise.
LEMMA QuietMove ==
  ASSUME IInv, NEW q \in Request, handler[q].pc # "idle",
         NEW pc \in Place \ (NewPlaces \cup {"delete"}),
         \/ Goto(q, pc)
         \/ pc = "done" /\ \E r \in {"ok", "missing", "error"} : Finish(q, r)
         \/ Raise(q, pc),
         version' = version, doc' \in Doc, doc'.stored => doc.stored,
         chroma' \in [Request -> {"absent", "active", "inactive"}],
         UNCHANGED <<crashes, overlap>>,
         pc \in Unversioned => q \notin Stored,
         pc \in Smooth => Goto(q, pc) /\ handler[q].pc \in Smooth,
         pc \in VersionPlaces =>
           \/ version[q].status = "processing"
           \/ InDoubt(q) /\ pc \in {"cleanup", "restore", "mark"},
         pc = "complete" => chroma'[q] # "absent",
         \A v \in Request : chroma'[v] = "absent" =>
           \/ chroma[v] = "absent"
           \/ v = q /\ q \notin Acknowledged
           \/ handler[q].kind = "remove" /\ v \in handler[q].known
  PROVE  IInv'
<1>1. TypeOK /\ handler[q] \in Handler
  BY CameType DEF IInv
<1>2. PICK n \in Handler :
        /\ handler' = [handler EXCEPT ![q] = n]
        /\ n.pc = pc
        /\ n.kind = handler[q].kind
        /\ n.known = handler[q].known
        /\ n.number = handler[q].number
        /\ n.begun = handler[q].begun
        /\ n.failures >= handler[q].failures
        /\ Goto(q, pc) => n.failures = handler[q].failures
  BY <1>1, Moves
<1>3. n.known \subseteq Indexed
  BY <1>2 DEF IInv, PlaceInv, At
<1>4. handler'[q] = n
  BY <1>1, <1>2 DEF TypeOK
<1>5. Indexed' = Indexed /\ Stored' = Stored
  BY SameVersions
<1>8. pc \in Smooth => n.failures = 0
  BY <1>2 DEF IInv, PlaceInv
<1>9. InDoubt(q) /\ pc \in {"cleanup", "restore", "mark"} => InDoubt(q)'
  <2> SUFFICES ASSUME InDoubt(q), pc \in {"cleanup", "restore", "mark"}  PROVE InDoubt(q)'
    OBVIOUS
  <2>1. handler[q].failures \in Nat /\ n.failures \in Nat
    BY <1>1 DEF Handler
  <2>2. n.failures > 0
    BY <1>2, <2>1 DEF InDoubt
  <2> QED  BY <1>2, <1>4, <2>2 DEF InDoubt
<1>6. PlaceInv(q)'
  BY <1>2, <1>3, <1>4, <1>5, <1>8, <1>9 DEF PlaceInv, At, NewPlaces, VersionPlaces
<1>7. overlap' \in BOOLEAN
  BY <1>1 DEF TypeOK
<1> QED  BY <1>2, <1>3, <1>6, <1>7, QuietStep

\* What the calls of Chroma keep.
LEMMA MarkedIs ==
  ASSUME TypeOK, NEW versions, NEW active \in BOOLEAN
  PROVE  /\ Marked(versions, active) \in [Request -> {"absent", "active", "inactive"}]
         /\ \A v \in Request : Marked(versions, active)[v] = "absent" => chroma[v] = "absent"
  BY DEF TypeOK, Marked

LEMMA DeletedIs ==
  ASSUME TypeOK, NEW versions
  PROVE  /\ Deleted(versions) \in [Request -> {"absent", "active", "inactive"}]
         /\ \A v \in Request :
              Deleted(versions)[v] = "absent" => chroma[v] = "absent" \/ v \in versions
  BY DEF TypeOK, Deleted

LEMMA AddedIs ==
  ASSUME TypeOK, NEW q \in Request, NEW active \in BOOLEAN
  PROVE  /\ Added(q, active) \in [Request -> {"absent", "active", "inactive"}]
         /\ Added(q, active)[q] # "absent"
         /\ \A v \in Request : Added(q, active)[v] = "absent" => chroma[v] = "absent"
  BY DEF TypeOK, Added

-----------------------------------------------------------------------------
(***************************************************************************)
(* One lemma per action.                                                   *)
(***************************************************************************)

LEMMA InitInv == ASSUME Init PROVE IInv
<1>1. Stored = {} /\ Indexed = {}
  BY DEF Init, Stored, Indexed
<1>2. TypeOK
  <2>1. 0 \in Number
    BY StoredFinite DEF Number
  <2>2. doc \in Doc /\ version \in [Request -> VersionRow]
    BY <2>1 DEF Init, Doc, VersionRow
  <2>3. chroma \in [Request -> {"absent", "active", "inactive"}]
    BY DEF Init
  <2>4. handler \in [Request -> Handler \cup {Idle}]
    BY DEF Init
  <2>5. crashes \in 0 .. MaxCrashes /\ overlap \in BOOLEAN
    <3>1. MaxCrashes \in Nat
      BY KnowledgeAssumption
    <3>2. 0 \in 0 .. MaxCrashes
      BY <3>1
    <3>3. crashes = 0 /\ overlap = FALSE
      BY DEF Init
    <3> QED  BY <3>2, <3>3
  <2> QED  BY <2>2, <2>3, <2>4, <2>5 DEF TypeOK
<1>3. VersionNumbersConsecutive
  <2>1. Cardinality(Stored) = 0
    BY <1>1, FS_EmptySet
  <2> QED  BY <1>1, <2>1 DEF VersionNumbersConsecutive
<1>4. \A q \in Request : PlaceInv(q)
  BY <1>1 DEF Init, PlaceInv, At, Idle, VersionPlaces, Smooth
<1> QED  BY <1>1, <1>2, <1>3, <1>4 DEF IInv, Init, CompletedIsIndexed, Acknowledged

LEMMA BeginInv == ASSUME IInv, NEW q \in Request, Begin(q) PROVE IInv'
<1>1. PICK kind \in Kind : \E wanted \in Payload(kind) :
        handler' = [handler EXCEPT ![q] =
          [kind |-> kind, pc |-> IF kind = "ingest" THEN "create" ELSE "get",
           wanted |-> wanted, active |-> wanted, known |-> {}, number |-> 1,
           begun |-> FALSE, expired |-> FALSE, failures |-> 0, result |-> "none"]]
  BY DEF Begin
<1>2. PICK wanted \in BOOLEAN :
        handler' = [handler EXCEPT ![q] =
          [kind |-> kind, pc |-> IF kind = "ingest" THEN "create" ELSE "get",
           wanted |-> wanted, active |-> wanted, known |-> {}, number |-> 1,
           begun |-> FALSE, expired |-> FALSE, failures |-> 0, result |-> "none"]]
  BY <1>1 DEF Payload
<1> DEFINE n == [kind |-> kind, pc |-> IF kind = "ingest" THEN "create" ELSE "get",
           wanted |-> wanted, active |-> wanted, known |-> {}, number |-> 1,
           begun |-> FALSE, expired |-> FALSE, failures |-> 0, result |-> "none"]
<1>3. q \notin Stored
  BY DEF IInv, PlaceInv, Unversioned, NewPlaces, Begin, At
<1>4. n \in Handler
  <2>1. 1 \in Number
    <3>1. 1 \in 1 .. (Cardinality(Stored) + 1)
      BY StoredFinite
    <3> QED  BY <1>3, <3>1, NumberFits
  <2>2. (IF kind = "ingest" THEN "create" ELSE "get") \in Place
    BY DEF Place
  <2> QED  BY <2>1, <2>2 DEF Handler
<1>5. handler'[q] = n
  BY <1>2 DEF IInv, TypeOK
<1>6. Stored' = Stored /\ Indexed' = Indexed
  BY SameVersions DEF Begin
<1>7. 1 \in 1 .. (Cardinality(Stored') + 1)
  BY <1>6, StoredFinite
<1>8. n.pc \in {"create", "get"} /\ n.known = {} /\ n.number = 1
      /\ (n.pc = "get" => n.kind # "ingest") /\ n.failures = 0
  OBVIOUS
<1> HIDE DEF n
<1>9. PlaceInv(q)'
  BY <1>3, <1>5, <1>6, <1>7, <1>8 DEF PlaceInv, At, VersionPlaces
<1>10. doc' \in Doc /\ chroma' \in [Request -> {"absent", "active", "inactive"}]
       /\ overlap' \in BOOLEAN
  BY DEF Begin, IInv, TypeOK
<1> QED  BY <1>2, <1>4, <1>9, <1>10, QuietStep DEF Begin, At, n

LEMMA GetInv == ASSUME IInv, NEW q \in Request, Get(q) PROVE IInv'
<1>1. TypeOK /\ handler[q].pc = "get" /\ handler[q] \in Handler
  BY CameType DEF IInv, Get, At
<1>2. version' = version /\ doc' \in Doc /\ doc' = doc /\ chroma' = chroma
      /\ UNCHANGED <<crashes, overlap>>
      /\ chroma' \in [Request -> {"absent", "active", "inactive"}]
  BY <1>1 DEF Get, TypeOK
<1>3. CASE Finish(q, "missing") \/ Raise(q, "done")
  <2>1. "done" \in Place \ (NewPlaces \cup {"delete"}) /\ "done" \notin VersionPlaces
    BY DEF Place, NewPlaces, VersionPlaces
  <2> QED  BY <1>1, <1>2, <1>3, <2>1, QuietMove DEF Smooth, Unversioned, NewPlaces
<1>4. CASE doc.stored /\ handler' = [handler EXCEPT ![q].pc = "load", ![q].active = doc.active]
  <2> DEFINE n == [handler[q] EXCEPT !.pc = "load", !.active = doc.active]
  <2>1. n \in Handler /\ n.pc = "load" /\ n.kind = handler[q].kind /\ n.known = handler[q].known
        /\ n.failures = handler[q].failures
    BY <1>1 DEF Handler, Place, TypeOK, Doc
  <2>2. handler' = [handler EXCEPT ![q] = n] /\ handler'[q] = n
    BY <1>1, <1>4 DEF TypeOK
  <2> HIDE DEF n
  <2>3. Stored' = Stored /\ Indexed' = Indexed
    BY <1>2, SameVersions
  <2>4. PlaceInv(q) /\ Stored # {}
    BY <1>4 DEF IInv
  <2>5. PlaceInv(q)'
    BY <1>1, <2>1, <2>2, <2>3, <2>4
       DEF PlaceInv, At, Unversioned, NewPlaces, VersionPlaces, Smooth
  <2>6. overlap' \in BOOLEAN
    BY <1>1, <1>2 DEF TypeOK
  <2>7. n.failures >= handler[q].failures
    BY <1>1, <2>1 DEF Handler
  <2> QED  BY <1>2, <2>1, <2>2, <2>5, <2>6, <2>7, QuietStep
<1> QED  BY <1>3, <1>4 DEF Get

LEMMA LoadInv == ASSUME IInv, NEW q \in Request, Load(q) PROVE IInv'
<1>1. TypeOK /\ handler[q].pc = "load" /\ handler[q] \in Handler
  BY CameType DEF IInv, Load, At
<1>2. version' = version /\ doc' \in Doc /\ doc' = doc /\ chroma' = chroma
      /\ UNCHANGED <<crashes, overlap>>
      /\ chroma' \in [Request -> {"absent", "active", "inactive"}]
  BY <1>1 DEF Load, TypeOK
<1>3. CASE Raise(q, "done")
  <2>1. "done" \in Place \ (NewPlaces \cup {"delete"}) /\ "done" \notin VersionPlaces
    BY DEF Place, NewPlaces, VersionPlaces
  <2> QED  BY <1>1, <1>2, <1>3, <2>1, QuietMove DEF Smooth, Unversioned, NewPlaces
<1> DEFINE pc == CASE handler[q].kind = "reprocess" -> "create"
                   [] handler[q].kind = "status" -> "change"
                   [] handler[q].kind = "remove" -> "delete"
<1>4. CASE handler' = [handler EXCEPT ![q].known = Indexed, ![q].number = NextNumber,
                         ![q].pc = pc]
  <2> DEFINE n == [handler[q] EXCEPT !.known = Indexed, !.number = NextNumber, !.pc = pc]
  <2>1. PlaceInv(q) /\ VersionNumbersConsecutive
    BY DEF IInv
  <2>2. q \notin Stored /\ Stored # {} /\ handler[q].kind # "ingest"
        /\ handler[q].known \subseteq Indexed /\ handler[q].failures = 0
    BY <1>1, <2>1 DEF PlaceInv, At, Unversioned, NewPlaces, Smooth
  <2>3. NextNumber = Cardinality(Stored) + 1
    BY <2>1, <2>2, NextNumberIs
  <2>4. NextNumber \in Number /\ NextNumber \in 1 .. (Cardinality(Stored) + 1)
    <3>1. NextNumber \in 1 .. (Cardinality(Stored) + 1)
      BY <2>3, StoredFinite
    <3> QED  BY <2>2, <3>1, NumberFits
  <2>5. handler[q].kind \in {"reprocess", "status", "remove"}
    BY <1>1, <2>2, KnowledgeAssumption DEF Handler
  <2>6. /\ pc \in {"create", "change", "delete"}
        /\ pc = "delete" => handler[q].kind = "remove"
    BY <2>5
  <2> HIDE DEF pc
  <2>7. Indexed \in SUBSET Request /\ pc \in Place
    BY <2>6 DEF Indexed, Place
  <2>8. /\ n \in Handler /\ n.pc = pc /\ n.kind = handler[q].kind
        /\ n.known = Indexed /\ n.number = NextNumber /\ n.failures = handler[q].failures
    BY <1>1, <2>4, <2>7 DEF Handler
  <2>9. handler' = [handler EXCEPT ![q] = n] /\ handler'[q] = n
    BY <1>1, <1>4 DEF TypeOK
  <2> HIDE DEF n
  <2>10. Stored' = Stored /\ Indexed' = Indexed
    BY <1>2, SameVersions
  <2>11. PlaceInv(q)'
    BY <2>2, <2>4, <2>6, <2>8, <2>9, <2>10
       DEF PlaceInv, At, Unversioned, NewPlaces, VersionPlaces
  <2>12. overlap' \in BOOLEAN
    BY <1>1, <1>2 DEF TypeOK
  <2>13. n.failures >= handler[q].failures
    BY <2>2, <2>8
  <2> QED  BY <1>2, <2>2, <2>8, <2>9, <2>11, <2>12, <2>13, QuietStep
<1> QED  BY <1>3, <1>4 DEF Load

\* What Create does once the number is free: one more version, with the next
\* number.
LEMMA NewVersion ==
  ASSUME IInv, NEW q \in Request, At(q, "create"), NumberFree(handler[q].number),
         version' = [version EXCEPT ![q] = [number |-> handler[q].number,
                                            status |-> "processing"]]
  PROVE  /\ version' \in [Request -> VersionRow]
         /\ Stored' = Stored \cup {q}
         /\ Indexed' = Indexed
         /\ VersionNumbersConsecutive'
         /\ \A v \in Stored : version'[v] = version[v] /\ version[v].number < version'[q].number
<1> DEFINE k == handler[q].number
           c == Cardinality(Stored)
           row == [number |-> k, status |-> "processing"]
<1>1. q \notin Stored /\ k \in 1 .. (c + 1)
  BY DEF IInv, PlaceInv, At, Unversioned, NewPlaces
<1>2. c \in Nat /\ {version[v].number : v \in Stored} = 1 .. c
  BY StoredFinite DEF IInv, VersionNumbersConsecutive
<1>3. k \notin 1 .. c
  BY <1>2 DEF NumberFree
<1>4. k = c + 1
  BY <1>1, <1>2, <1>3
<1>5. row \in VersionRow
  BY <1>1, NumberFits DEF VersionRow
<1>6. version \in [Request -> VersionRow]
  BY DEF IInv, TypeOK
<1> HIDE DEF k, c
<1>7. version'[q] = row /\ \A v \in Request \ {q} : version'[v] = version[v]
  BY <1>6 DEF k
<1>8. Stored' = Stored \cup {q}
  BY <1>7 DEF Stored
<1>9. Indexed' = Indexed
  BY <1>1, <1>7 DEF Indexed, Stored
<1>10. {version'[v].number : v \in Stored \cup {q}} = 1 .. (c + 1)
  <2>1. \A v \in Stored : version'[v].number = version[v].number
    BY <1>1, <1>7 DEF Stored
  <2>2. {version'[v].number : v \in Stored \cup {q}} = {version[v].number : v \in Stored} \cup {k}
    BY <1>7, <2>1
  <2>3. (1 .. c) \cup {c + 1} = 1 .. (c + 1)
    BY <1>2
  <2> QED  BY <1>2, <1>4, <2>2, <2>3
<1>11. VersionNumbersConsecutive'
  BY <1>1, <1>8, <1>10, StoredAdd DEF VersionNumbersConsecutive, c
<1>12. version' \in [Request -> VersionRow]
  BY <1>5, <1>6 DEF k
<1>13. ASSUME NEW v \in Stored
       PROVE  version'[v] = version[v] /\ version[v].number < version'[q].number
  <2>1. version[v].number \in 1 .. c
    BY <1>2
  <2>2. version[v].number < k
    BY <1>2, <1>4, <2>1
  <2> QED  BY <1>1, <1>7, <2>2 DEF Stored
<1> QED  BY <1>8, <1>9, <1>11, <1>12, <1>13

LEMMA CreateInv == ASSUME IInv, NEW q \in Request, Create(q) PROVE IInv'
<1>1. TypeOK /\ handler[q].pc = "create" /\ handler[q] \in Handler
  BY CameType DEF IInv, Create, At
<1>2. chroma' = chroma /\ UNCHANGED <<crashes, overlap>>
  BY DEF Create
<1>3. "done" \in Place \ (NewPlaces \cup {"delete"}) /\ "done" \notin VersionPlaces
      /\ "retire" \in Place
  BY DEF Place, NewPlaces, VersionPlaces
<1>4. CASE UNCHANGED <<doc, version>> /\ (Raise(q, "done") \/ Finish(q, "error"))
  <2>1. doc' \in Doc /\ chroma' \in [Request -> {"absent", "active", "inactive"}]
    BY <1>1, <1>2, <1>4 DEF TypeOK
  <2> QED  BY <1>1, <1>2, <1>3, <1>4, <2>1, QuietMove DEF Smooth, Unversioned, NewPlaces
<1> DEFINE ingests == handler[q].kind = "ingest"
           created == [stored |-> TRUE, active |-> handler[q].wanted, deleted |-> FALSE]
<1>5. CASE /\ NumberFree(handler[q].number)
           /\ version' = [version EXCEPT ![q] = [number |-> handler[q].number,
                                                 status |-> "processing"]]
           /\ \/ handler' = [handler EXCEPT ![q].pc = "retire", ![q].begun = ~ingests]
              \/ Raise(q, "done")
           /\ doc' = IF ingests THEN created ELSE doc
  <2>1. /\ version' \in [Request -> VersionRow]
        /\ Stored' = Stored \cup {q} /\ Indexed' = Indexed /\ VersionNumbersConsecutive'
    BY <1>1, <1>5, NewVersion DEF At
  <2>2. \E n \in Handler :
          /\ handler' = [handler EXCEPT ![q] = n]
          /\ n.pc \in {"retire", "done"}
          /\ n.kind = handler[q].kind
          /\ n.known = handler[q].known
          /\ n.pc = "retire" => n.failures = handler[q].failures
    <3>1. CASE Raise(q, "done")
      BY <1>1, <1>3, <3>1, Moves
    <3>2. CASE handler' = [handler EXCEPT ![q].pc = "retire", ![q].begun = ~ingests]
      <4> DEFINE n == [handler[q] EXCEPT !.pc = "retire", !.begun = ~ingests]
      <4>0. (~ingests) \in BOOLEAN
        OBVIOUS
      <4> HIDE DEF ingests
      <4>1. n \in Handler /\ n.pc = "retire" /\ n.kind = handler[q].kind
            /\ n.known = handler[q].known /\ n.failures = handler[q].failures
        BY <1>1, <1>3, <4>0 DEF Handler
      <4>2. handler' = [handler EXCEPT ![q] = n]
        BY <3>2
      <4> QED  BY <4>1, <4>2
    <3> QED  BY <1>5, <3>1, <3>2
  <2>3. PICK n \in Handler :
          /\ handler' = [handler EXCEPT ![q] = n]
          /\ n.pc \in {"retire", "done"}
          /\ n.kind = handler[q].kind
          /\ n.known = handler[q].known
          /\ n.pc = "retire" => n.failures = handler[q].failures
    BY <2>2
  <2>4. handler'[q] = n
    BY <1>1, <2>3 DEF TypeOK
  <2>5. version'[q].status = "processing" /\ \A v \in Request \ {q} : version'[v] = version[v]
    BY <1>1, <1>5 DEF TypeOK
  <2>6. n.known \subseteq Indexed /\ handler[q].failures = 0
    BY <1>1, <2>3 DEF IInv, PlaceInv, At, Smooth
  <2>7. PlaceInv(q)'
    BY <2>1, <2>3, <2>4, <2>5, <2>6
       DEF PlaceInv, At, Unversioned, NewPlaces, VersionPlaces, Smooth
  <2>12. q \notin Acknowledged' \ Acknowledged
    BY <2>1, <2>5 DEF Acknowledged, Indexed
  <2>8. (\A r \in Request : PlaceInv(r)') /\ CompletedIsIndexed'
    BY <1>2, <2>1, <2>3, <2>5, <2>7, <2>12, HandlerStep DEF Indexed
  <2>9. doc' \in Doc
    <3>1. created \in Doc
      BY <1>1 DEF Handler, Doc
    <3> HIDE DEF created, ingests
    <3> QED  BY <1>1, <1>5, <3>1 DEF TypeOK
  <2>10. TypeOK'
    BY <1>1, <1>2, <2>1, <2>3, <2>9 DEF TypeOK
  <2>11. (doc.stored => Stored # {})'
    BY <2>1
  <2> QED  BY <2>1, <2>8, <2>10, <2>11 DEF IInv
<1> QED  BY <1>4, <1>5 DEF Create

LEMMA RetireInv == ASSUME IInv, NEW q \in Request, Retire(q) PROVE IInv'
<1>1. TypeOK /\ handler[q].pc = "retire" /\ handler[q] \in Handler
  BY CameType DEF IInv, Retire, At
<1>2. version[q].status = "processing"
  BY <1>1 DEF IInv, PlaceInv, VersionPlaces, InDoubt
<1>3. {"mark", "upsert", "cleanup"} \subseteq Place \ (NewPlaces \cup {"delete", "complete"})
  BY DEF Place, NewPlaces
<1>4. PICK pc \in {"mark", "upsert", "cleanup"} :
        /\ Goto(q, pc) \/ Raise(q, pc)
        /\ pc = "upsert" => Goto(q, pc)
  BY DEF Retire
<1>5. chroma' = chroma \/ chroma' = Marked(handler[q].known, FALSE)
  BY DEF Retire
<1>6. chroma \in [Request -> {"absent", "active", "inactive"}]
  BY <1>1 DEF TypeOK
<1>7. /\ chroma' \in [Request -> {"absent", "active", "inactive"}]
      /\ \A v \in Request : chroma'[v] = "absent" => chroma[v] = "absent"
  BY <1>1, <1>5, <1>6, MarkedIs
<1>8. version' = version /\ doc' = doc /\ doc' \in Doc /\ UNCHANGED <<crashes, overlap>>
  BY <1>1 DEF Retire, TypeOK
<1> QED  BY <1>1, <1>2, <1>3, <1>4, <1>7, <1>8, QuietMove DEF Smooth, Unversioned, NewPlaces

LEMMA UpsertInv == ASSUME IInv, NEW q \in Request, Upsert(q) PROVE IInv'
<1>1. TypeOK /\ handler[q].pc = "upsert" /\ handler[q] \in Handler
  BY CameType DEF IInv, Upsert, At
<1>2. version[q].status = "processing"
  BY <1>1 DEF IInv, PlaceInv, VersionPlaces, InDoubt
<1>3. {"complete", "cleanup"} \subseteq Place \ (NewPlaces \cup {"delete"})
  BY DEF Place, NewPlaces
<1>4. PICK pc \in {"complete", "cleanup"} :
        /\ Goto(q, pc) \/ Raise(q, pc)
        /\ pc = "complete" => Goto(q, pc) /\ chroma' = Added(q, handler[q].active)
  BY DEF Upsert
<1>5. chroma' = chroma \/ chroma' = Added(q, handler[q].active)
  BY DEF Upsert
<1>6. chroma \in [Request -> {"absent", "active", "inactive"}] /\ handler[q].active \in BOOLEAN
  BY <1>1 DEF TypeOK, Handler
<1>7. /\ chroma' \in [Request -> {"absent", "active", "inactive"}]
      /\ \A v \in Request : chroma'[v] = "absent" => chroma[v] = "absent"
      /\ pc = "complete" => chroma'[q] # "absent"
  BY <1>1, <1>4, <1>5, <1>6, AddedIs
<1>8. version' = version /\ doc' = doc /\ doc' \in Doc /\ UNCHANGED <<crashes, overlap>>
  BY <1>1 DEF Upsert, TypeOK
<1> QED  BY <1>1, <1>2, <1>3, <1>4, <1>7, <1>8, QuietMove DEF Smooth, Unversioned, NewPlaces

LEMMA CleanupInv == ASSUME IInv, NEW q \in Request, Cleanup(q) PROVE IInv'
<1>1. TypeOK /\ handler[q].pc = "cleanup" /\ handler[q] \in Handler
  BY CameType DEF IInv, Cleanup, At
<1>2. version[q].status = "processing" \/ InDoubt(q)
  BY <1>1 DEF IInv, PlaceInv, VersionPlaces
<1>9. q \notin Acknowledged
  BY <1>2 DEF InDoubt, Acknowledged, Indexed
<1>3. "restore" \in Place \ (NewPlaces \cup {"delete"}) /\ "restore" # "complete"
  BY DEF Place, NewPlaces
<1>4. Goto(q, "restore") \/ Raise(q, "restore")
  BY DEF Cleanup
<1>5. chroma' = chroma \/ chroma' = Deleted({q})
  BY DEF Cleanup
<1>6. chroma \in [Request -> {"absent", "active", "inactive"}]
  BY <1>1 DEF TypeOK
<1>7. /\ chroma' \in [Request -> {"absent", "active", "inactive"}]
      /\ \A v \in Request : chroma'[v] = "absent" => chroma[v] = "absent" \/ v = q
  BY <1>1, <1>5, <1>6, DeletedIs
<1>8. version' = version /\ doc' = doc /\ doc' \in Doc /\ UNCHANGED <<crashes, overlap>>
  BY <1>1 DEF Cleanup, TypeOK
<1> QED  BY <1>1, <1>2, <1>3, <1>4, <1>7, <1>8, <1>9, QuietMove
         DEF Smooth, Unversioned, NewPlaces, VersionPlaces

LEMMA RestoreInv == ASSUME IInv, NEW q \in Request, Restore(q) PROVE IInv'
<1>1. TypeOK /\ handler[q].pc = "restore" /\ handler[q] \in Handler
  BY CameType DEF IInv, Restore, At
<1>2. version[q].status = "processing" \/ InDoubt(q)
  BY <1>1 DEF IInv, PlaceInv, VersionPlaces
<1>9. q \notin Acknowledged
  BY <1>2 DEF InDoubt, Acknowledged, Indexed
<1>3. {"mark", "done"} \subseteq Place \ (NewPlaces \cup {"delete", "complete"})
  BY DEF Place, NewPlaces
<1>4. Finish(q, "error") \/ Goto(q, "mark") \/ Raise(q, "mark")
  BY DEF Restore
<1>5. chroma' = chroma \/ chroma' = Marked(handler[q].known, TRUE)
  BY DEF Restore
<1>6. chroma \in [Request -> {"absent", "active", "inactive"}]
  BY <1>1 DEF TypeOK
<1>7. /\ chroma' \in [Request -> {"absent", "active", "inactive"}]
      /\ \A v \in Request : chroma'[v] = "absent" => chroma[v] = "absent"
  <2>1. CASE chroma' = chroma
    BY <1>6, <2>1
  <2>2. CASE chroma' = Marked(handler[q].known, TRUE)
    <3>1. LET marked == Marked(handler[q].known, TRUE) IN
          /\ marked \in [Request -> {"absent", "active", "inactive"}]
          /\ \A v \in Request : marked[v] = "absent" => chroma[v] = "absent"
      BY <1>1, MarkedIs
    <3> QED  BY <2>2, <3>1
  <2> QED  BY <1>5, <2>1, <2>2
<1>8. version' = version /\ doc' = doc /\ doc' \in Doc /\ UNCHANGED <<crashes, overlap>>
  BY <1>1 DEF Restore, TypeOK
<1> QED  BY <1>1, <1>2, <1>3, <1>4, <1>7, <1>8, <1>9, QuietMove
         DEF Smooth, Unversioned, NewPlaces, VersionPlaces

LEMMA ChangeInv == ASSUME IInv, NEW q \in Request, Change(q) PROVE IInv'
<1>1. TypeOK /\ handler[q].pc = "change" /\ handler[q] \in Handler
  BY CameType DEF IInv, Change, At
<1>2. {"commit", "done"} \subseteq Place \ (NewPlaces \cup {"delete", "complete"})
      /\ VersionPlaces \cap {"commit", "done"} = {}
  BY DEF Place, NewPlaces, VersionPlaces
<1>3. PICK pc \in {"commit", "done"} : Goto(q, pc) \/ Raise(q, pc)
  BY DEF Change
<1>4. chroma' = chroma \/ chroma' = Marked(handler[q].known, handler[q].wanted)
  BY DEF Change
<1>5. chroma \in [Request -> {"absent", "active", "inactive"}] /\ handler[q].wanted \in BOOLEAN
  BY <1>1 DEF TypeOK, Handler
<1>6. /\ chroma' \in [Request -> {"absent", "active", "inactive"}]
      /\ \A v \in Request : chroma'[v] = "absent" => chroma[v] = "absent"
  BY <1>1, <1>4, <1>5, MarkedIs
<1>7. version' = version /\ doc' = doc /\ doc' \in Doc /\ UNCHANGED <<crashes, overlap>>
  BY <1>1 DEF Change, TypeOK
<1>8. q \notin Stored
  BY <1>1 DEF IInv, PlaceInv, Unversioned
<1> QED  BY <1>1, <1>2, <1>3, <1>6, <1>7, <1>8, QuietMove DEF Smooth

LEMMA DeleteInv == ASSUME IInv, NEW q \in Request, Delete(q) PROVE IInv'
<1>1. TypeOK /\ handler[q].pc = "delete" /\ handler[q] \in Handler
  BY CameType DEF IInv, Delete, At
<1>2. handler[q].kind = "remove"
  BY <1>1 DEF IInv, PlaceInv, At
<1>3. {"soft", "done"} \subseteq Place \ (NewPlaces \cup {"delete", "complete"})
      /\ VersionPlaces \cap {"soft", "done"} = {}
  BY DEF Place, NewPlaces, VersionPlaces
<1>4. PICK pc \in {"soft", "done"} : Goto(q, pc) \/ Raise(q, pc)
  BY DEF Delete
<1>5. chroma' = chroma \/ chroma' = Deleted(handler[q].known)
  BY DEF Delete
<1>6. chroma \in [Request -> {"absent", "active", "inactive"}]
  BY <1>1 DEF TypeOK
<1>7. /\ chroma' \in [Request -> {"absent", "active", "inactive"}]
      /\ \A v \in Request :
           chroma'[v] = "absent" => chroma[v] = "absent" \/ v \in handler[q].known
  BY <1>1, <1>5, <1>6, DeletedIs
<1>8. version' = version /\ doc' = doc /\ doc' \in Doc /\ UNCHANGED <<crashes, overlap>>
  BY <1>1 DEF Delete, TypeOK
<1>9. q \notin Stored
  BY <1>1 DEF IInv, PlaceInv, Unversioned
<1> QED  BY <1>1, <1>2, <1>3, <1>4, <1>7, <1>8, <1>9, QuietMove DEF Smooth

\* The two steps that write the document's row.
LEMMA DocWritten ==
  ASSUME IInv, NEW q \in Request, SetActive(q) \/ SoftDelete(q)
  PROVE  doc' \in Doc /\ (doc'.stored => doc.stored)
<1>1. handler[q].pc # "idle"
  BY DEF SetActive, SoftDelete, At
<1>2. handler[q].wanted \in BOOLEAN /\ doc \in Doc
  BY <1>1, CameType DEF IInv, TypeOK, Handler
<1>3. doc.active \in BOOLEAN
  BY <1>2 DEF Doc
<1>4. \A b \in BOOLEAN : Written(q, b) \in BOOLEAN
  BY <1>3 DEF Written
<1>5. CASE doc' = doc
  BY <1>2, <1>5
<1>6. CASE doc' = [doc EXCEPT !.active = Written(q, handler[q].wanted)]
  BY <1>2, <1>4, <1>6 DEF Doc
<1>7. CASE doc' = [doc EXCEPT !.active = Written(q, FALSE), !.deleted = TRUE]
  <2>1. Written(q, FALSE) \in BOOLEAN
    BY <1>4
  <2> QED  BY <1>2, <2>1, <1>7 DEF Doc
<1> QED  BY <1>5, <1>6, <1>7 DEF SetActive, SoftDelete

LEMMA DocInv == ASSUME IInv, NEW q \in Request, SetActive(q) \/ SoftDelete(q) PROVE IInv'
<1>1. handler[q].pc # "idle"
  BY DEF SetActive, SoftDelete, At
<1>2. "done" \in Place \ (NewPlaces \cup {"delete"}) /\ "done" \notin VersionPlaces
  BY DEF Place, NewPlaces, VersionPlaces
<1>3. Finish(q, "ok") \/ Raise(q, "done")
  BY DEF SetActive, SoftDelete
<1>4. chroma' = chroma /\ chroma' \in [Request -> {"absent", "active", "inactive"}]
      /\ version' = version /\ UNCHANGED <<crashes, overlap>>
  BY DEF SetActive, SoftDelete, IInv, TypeOK
<1> QED  BY <1>1, <1>2, <1>3, <1>4, DocWritten, QuietMove DEF Smooth, Unversioned, NewPlaces

\* A version in processing that gets its final status.
LEMMA FinalStatus ==
  ASSUME IInv, NEW q \in Request, version[q].status = "processing",
         NEW s \in {"completed", "failed"},
         version' = [version EXCEPT ![q].status = s]
  PROVE  /\ version' \in [Request -> VersionRow]
         /\ \A v \in Request \ {q} : version'[v] = version[v]
         /\ Stored' = Stored
         /\ Indexed' = IF s = "completed" THEN Indexed \cup {q} ELSE Indexed
         /\ VersionNumbersConsecutive'
<1>1. version \in [Request -> VersionRow]
  BY DEF IInv, TypeOK
<1> DEFINE row == [version[q] EXCEPT !.status = s]
<1>2. row \in VersionRow /\ row.status = s /\ row.number = version[q].number
  BY <1>1 DEF VersionRow
<1>3. version' = [version EXCEPT ![q] = row]
  OBVIOUS
<1> HIDE DEF row
<1>4. version'[q] = row /\ \A v \in Request \ {q} : version'[v] = version[v]
  BY <1>1, <1>3
<1>5. version' \in [Request -> VersionRow]
  BY <1>1, <1>2, <1>3
<1>6. Stored' = Stored
  BY <1>2, <1>4 DEF Stored
<1>7. Indexed' = IF s = "completed" THEN Indexed \cup {q} ELSE Indexed
  BY <1>2, <1>4 DEF Indexed
<1>8. \A v \in Request : version'[v].number = version[v].number
  BY <1>2, <1>4
<1>9. {version'[v].number : v \in Stored} = {version[v].number : v \in Stored}
  BY <1>8 DEF Stored
<1>10. VersionNumbersConsecutive'
  BY <1>6, <1>9 DEF VersionNumbersConsecutive, IInv
<1> QED  BY <1>4, <1>5, <1>6, <1>7, <1>10

LEMMA CompleteInv == ASSUME IInv, NEW q \in Request, Complete(q) PROVE IInv'
<1>1. TypeOK /\ handler[q].pc = "complete" /\ handler[q] \in Handler
  BY CameType DEF IInv, Complete, At
<1>2. version[q].status = "processing" /\ chroma[q] # "absent" /\ handler[q].known \subseteq Indexed
  BY <1>1 DEF IInv, PlaceInv, VersionPlaces, InDoubt, At
<1>3. UNCHANGED <<doc, chroma, crashes, overlap>>
  BY DEF Complete
<1>4. doc' \in Doc /\ chroma' \in [Request -> {"absent", "active", "inactive"}]
      /\ overlap' \in BOOLEAN /\ crashes' \in 0 .. MaxCrashes
  BY <1>1, <1>3 DEF TypeOK
<1> DEFINE completed == [version EXCEPT ![q].status = "completed"]
           Row == [version[q] EXCEPT !.status = "completed"]
\* Whether it is recorded or not, the number of the version stays.
<1>5. ASSUME version' = version \/ version' = completed
      PROVE  /\ version' \in [Request -> VersionRow]
             /\ \A v \in Request \ {q} : version'[v] = version[v]
             /\ Stored' = Stored
             /\ Indexed \subseteq Indexed' /\ Indexed' \subseteq Indexed \cup {q}
             /\ VersionNumbersConsecutive'
  <2>1. CASE version' = version
    BY <1>1, <2>1, SameVersions DEF IInv, TypeOK
  <2>2. CASE version' = completed
    BY <1>2, <2>2, FinalStatus
  <2> QED  BY <1>5, <2>1, <2>2
<1>6. ASSUME NEW n \in Handler,
             handler' = [handler EXCEPT ![q] = n],
             n.kind = handler[q].kind, n.known = handler[q].known,
             version' = version \/ version' = completed,
             \/ n.pc = "done"
             \/ n.pc = "cleanup" /\ n.begun /\ n.failures > 0
      PROVE  IInv'
  <2>1. handler'[q] = n
    BY <1>1, <1>6 DEF TypeOK
  <2>2. version'[q].status \in {"processing", "completed"}
    <3>1. q \in DOMAIN version /\ version[q] \in VersionRow
      BY <1>1 DEF TypeOK
    <3>2. version' = completed => version'[q].status = "completed"
      BY <3>1 DEF VersionRow
    <3> QED  BY <1>2, <1>6, <3>2
  <2>3. n.pc = "cleanup" => version'[q].status = "processing" \/ InDoubt(q)'
    BY <1>6, <2>1, <2>2 DEF InDoubt
  <2>4. PlaceInv(q)'
    BY <1>2, <1>5, <1>6, <2>1, <2>3
       DEF PlaceInv, At, Unversioned, NewPlaces, VersionPlaces, Smooth
  <2>5. \A v \in Request : chroma'[v] = chroma[v]
    BY <1>3
  <2>6. (\A r \in Request : PlaceInv(r)') /\ CompletedIsIndexed'
    BY <1>2, <1>5, <1>6, <2>4, <2>5, HandlerStep DEF Acknowledged, Indexed
  <2>7. TypeOK'
    BY <1>1, <1>4, <1>5, <1>6 DEF TypeOK
  <2>8. (doc.stored => Stored # {})'
    BY <1>3, <1>5, <1>6 DEF IInv
  <2> QED  BY <1>5, <1>6, <2>6, <2>7, <2>8 DEF IInv
<1>7. CASE Finish(q, "ok") /\ version' = completed
  <2>1. "done" \in Place
    BY DEF Place
  <2>2. PICK n \in Handler :
          /\ handler' = [handler EXCEPT ![q] = n]
          /\ n.pc = "done"
          /\ n.kind = handler[q].kind
          /\ n.known = handler[q].known
    BY <1>1, <1>7, <2>1, Moves
  <2> QED  BY <1>6, <1>7, <2>2
<1>8. ASSUME NEW expired \in BOOLEAN,
             handler' = [handler EXCEPT ![q].pc = "cleanup", ![q].failures = @ + 1,
                           ![q].begun = TRUE, ![q].expired = expired],
             version' = version \/ version' = completed
      PROVE  IInv'
  <2> DEFINE n == [handler[q] EXCEPT !.pc = "cleanup", !.failures = @ + 1,
                     !.begun = TRUE, !.expired = expired]
  <2>1. handler[q].failures + 1 \in Nat /\ handler[q].failures + 1 > 0 /\ "cleanup" \in Place
    BY <1>1 DEF Handler, Place
  <2>2. n \in Handler /\ n.pc = "cleanup" /\ n.kind = handler[q].kind
        /\ n.known = handler[q].known /\ n.begun = TRUE /\ n.failures > 0
    BY <1>1, <2>1 DEF Handler
  <2>3. handler' = [handler EXCEPT ![q] = n]
    BY <1>8
  <2> HIDE DEF n
  <2> QED  BY <1>6, <1>8, <2>2, <2>3
<1>9. Complete(q) =>
        \/ Finish(q, "ok") /\ version' = completed
        \/ \E expired \in BOOLEAN :
             /\ handler' = [handler EXCEPT ![q].pc = "cleanup", ![q].failures = @ + 1,
                              ![q].begun = TRUE, ![q].expired = expired]
             /\ version' = version \/ version' = completed
  BY DEF Complete
<1> QED  BY <1>7, <1>8, <1>9

LEMMA MarkInv == ASSUME IInv, NEW q \in Request, Mark(q) PROVE IInv'
<1>1. TypeOK /\ handler[q].pc = "mark" /\ handler[q] \in Handler
  BY CameType DEF IInv, Mark, At
<1>2. handler[q].known \subseteq Indexed
      /\ (version[q].status = "processing" \/ InDoubt(q))
  BY <1>1 DEF IInv, PlaceInv, VersionPlaces, At
<1>3. UNCHANGED <<doc, chroma, crashes, overlap>>
  BY DEF Mark
<1>4. doc' \in Doc /\ chroma' \in [Request -> {"absent", "active", "inactive"}]
  BY <1>1, <1>3 DEF TypeOK
<1>5. Finish(q, "error") \/ Raise(q, "done")
  BY DEF Mark
<1>6. "done" \in Place \ (NewPlaces \cup {"delete"}) /\ "done" \notin VersionPlaces
  BY DEF Place, NewPlaces, VersionPlaces
<1>7. CASE UNCHANGED version
  BY <1>1, <1>3, <1>4, <1>5, <1>6, <1>7, QuietMove DEF Smooth, Unversioned, NewPlaces
<1>8. CASE ~handler[q].begun /\ version' = [version EXCEPT ![q].status = "failed"]
  <2>0. version[q].status = "processing"
    BY <1>2, <1>8 DEF InDoubt
  <2>1. /\ version' \in [Request -> VersionRow]
        /\ \A v \in Request \ {q} : version'[v] = version[v]
        /\ Stored' = Stored
        /\ Indexed' = Indexed
        /\ VersionNumbersConsecutive'
    BY <2>0, <1>8, FinalStatus
  <2>2. PICK n \in Handler :
          /\ handler' = [handler EXCEPT ![q] = n]
          /\ n.pc = "done"
          /\ n.kind = handler[q].kind
          /\ n.known = handler[q].known
    BY <1>1, <1>5, <1>6, Moves
  <2>3. handler'[q] = n
    BY <1>1, <2>2 DEF TypeOK
  <2>4. PlaceInv(q)'
    BY <1>2, <1>6, <2>1, <2>2, <2>3 DEF PlaceInv, At, Unversioned, NewPlaces, Smooth
  <2>8. q \notin Acknowledged'
    BY <2>0, <2>1 DEF Acknowledged, Indexed
  <2>5. (\A r \in Request : PlaceInv(r)') /\ CompletedIsIndexed'
    BY <1>3, <2>1, <2>2, <2>4, <2>8, HandlerStep
  <2>6. TypeOK'
    BY <1>1, <1>3, <2>1, <2>2 DEF TypeOK
  <2>7. (doc.stored => Stored # {})'
    BY <1>3, <2>1 DEF IInv
  <2> QED  BY <2>1, <2>5, <2>6, <2>7 DEF IInv
<1> QED  BY <1>7, <1>8 DEF Mark

LEMMA CrashInv == ASSUME IInv, Crash PROVE IInv'
<1>1. UNCHANGED <<doc, version, chroma, overlap>> /\ crashes' = crashes + 1 /\ crashes < MaxCrashes
  BY DEF Crash
<1>2. Stored' = Stored /\ Indexed' = Indexed /\ VersionNumbersConsecutive'
  BY <1>1, SameVersions DEF IInv
<1>3. ASSUME NEW q \in Request
      PROVE  \/ handler'[q] = handler[q]
             \/ /\ handler[q] \in Handler /\ handler'[q] \in Handler
                /\ handler'[q].pc = "dead"
                /\ handler'[q].kind = handler[q].kind
                /\ handler'[q].failures = handler[q].failures
                /\ handler'[q].known = handler[q].known
  <2>1. CASE q \in Running
    <3>1. handler[q] \in Handler
      BY <2>1, CameType DEF IInv, Running
    <3>2. handler'[q] = [handler[q] EXCEPT !.pc = "dead"]
      BY <2>1 DEF Crash
    <3>3. "dead" \in Place
      BY DEF Place
    <3> QED  BY <3>1, <3>2, <3>3 DEF Handler
  <2>2. CASE q \notin Running
    BY <2>2 DEF Crash
  <2> QED  BY <2>1, <2>2
<1>4. TypeOK'
  <2>1. handler' \in [Request -> Handler \cup {Idle}]
    <3>1. \A q \in Request : handler'[q] \in Handler \cup {Idle}
      BY <1>3 DEF IInv, TypeOK
    <3>2. handler' = [q \in Request |-> handler'[q]]
      BY DEF Crash
    <3> QED  BY <3>1, <3>2
  <2>2. crashes' \in 0 .. MaxCrashes
    BY <1>1, KnowledgeAssumption DEF IInv, TypeOK
  <2> QED  BY <1>1, <2>1, <2>2 DEF IInv, TypeOK
<1>5. ASSUME NEW q \in Request  PROVE PlaceInv(q)'
  <2>1. PlaceInv(q) /\ version' = version /\ chroma' = chroma
    BY <1>1 DEF IInv
  <2>2. CASE handler'[q] = handler[q]
    BY <1>2, <2>1, <2>2 DEF PlaceInv, InDoubt, At
  <2>3. CASE /\ handler[q] \in Handler
             /\ handler'[q].pc = "dead"
             /\ handler'[q].known = handler[q].known
    <3>1. handler[q].known \subseteq Indexed
      <4>1. handler[q].pc # "idle"
        BY <2>3 DEF Handler, Place
      <4> QED  BY <2>1, <4>1 DEF PlaceInv, At
    <3> QED  BY <1>2, <2>3, <3>1
             DEF PlaceInv, At, Unversioned, NewPlaces, VersionPlaces, Smooth
  <2> QED  BY <1>3, <2>2, <2>3
<1>6. CompletedIsIndexed'
  <2>1. ASSUME NEW v \in Acknowledged, chroma[v] = "absent"  PROVE Removing(v)'
    <3>1. Removing(v)
      BY <2>1 DEF IInv, CompletedIsIndexed
    <3>2. PICK r \in Came : handler[r].kind = "remove" /\ v \in handler[r].known
      BY <3>1 DEF Removing
    <3>3. r \in Came' /\ handler'[r].kind = "remove" /\ v \in handler'[r].known
      BY <1>3, <3>2 DEF Came
    <3> QED  BY <3>3 DEF Removing
  <2>2. Acknowledged' = Acknowledged
    BY <1>2, <1>3 DEF Acknowledged, Indexed
  <2> QED  BY <1>1, <2>1, <2>2 DEF CompletedIsIndexed
<1> QED  BY <1>1, <1>2, <1>4, <1>5, <1>6 DEF IInv

\* A step that changes nothing.
LEMMA StutterInv == ASSUME IInv, UNCHANGED vars PROVE IInv'
<1>1. UNCHANGED <<doc, version, chroma, handler, crashes, overlap>>
  BY DEF vars
<1>2. Stored' = Stored /\ Indexed' = Indexed /\ VersionNumbersConsecutive'
  BY <1>1, SameVersions DEF IInv
<1>3. TypeOK'
  BY <1>1 DEF IInv, TypeOK
<1>4. \A q \in Request : PlaceInv(q)'
  BY <1>1, <1>2 DEF IInv, PlaceInv, InDoubt, At
<1>5. \A v : Removing(v)' <=> Removing(v)
  BY <1>1 DEF Removing, Came
<1>6. CompletedIsIndexed'
  BY <1>1, <1>2, <1>5 DEF IInv, CompletedIsIndexed, Acknowledged
<1> QED  BY <1>1, <1>2, <1>3, <1>4, <1>6 DEF IInv

-----------------------------------------------------------------------------
(***************************************************************************)
(* Chunks of a version that was not completed.                             *)
(***************************************************************************)

\* Why a version that was not completed, or whose completion was not acknowledged,
\* may have chunks in Chroma: it is about to be completed or cleaned up, the
\* cleanup failed, or its handler died.
Excused(h) ==
  \/ h.pc \in {"complete", "dead"}
  \/ h.pc = "cleanup" /\ h.failures >= 1
  \/ h.pc \in {"restore", "mark", "done"} /\ h.failures >= 2

UpToComplete == {"get", "load", "create", "retire", "upsert", "complete", "change",
                 "commit", "delete", "soft"}

LeftInv ==
  \A v \in Request :
    /\ v \notin Acknowledged /\ chroma[v] # "absent" => Excused(handler[v])
    /\ At(v, "dead") => crashes > 0
    /\ handler[v].pc \in UpToComplete => ~handler[v].expired

(***************************************************************************)
(* Requests that are handled one after the other.                          *)
(***************************************************************************)

\* What StoresAgree says of the two stores.
Agree ==
  IF doc.active /\ ~doc.deleted
    THEN \A v \in Acknowledged :
           (\A w \in Acknowledged : version[w].number <= version[v].number) => chroma[v] = "active"
    ELSE \A v \in Request : chroma[v] # "active"

NoneActive == \A v \in Acknowledged : chroma[v] # "active"
Present == ~doc.deleted => \A v \in Acknowledged : chroma[v] # "absent"
Shown(active) == IF active THEN "active" ELSE "inactive"

\* What the only handler that runs has read is still so, and what the stores hold
\* at each place it can be at.
PhaseInv(q) ==
  LET h == handler[q]
      ingests == h.kind = "ingest"
  IN  /\ h.pc \notin {"get", "create"} => ~doc.deleted /\ h.active = doc.active
      /\ At(q, "create") =>
           IF ingests THEN Stored = {} /\ h.active = h.wanted
                      ELSE Stored # {} /\ ~doc.deleted /\ h.active = doc.active
      /\ h.pc \notin {"get", "load"} => Acknowledged \subseteq h.known
      /\ h.pc \in {"change", "commit"} => h.kind = "status"
      /\ h.pc \in {"delete", "soft"} => h.kind = "remove"
      /\ h.pc \in VersionPlaces => \A v \in Acknowledged : version[v].number < version[q].number
      /\ h.pc \in {"get", "load", "create", "retire", "mark", "change", "delete"} => Agree
      /\ h.pc \in {"upsert", "complete"} => NoneActive
      /\ At(q, "complete") => chroma[q] = Shown(h.active)
      /\ h.pc \in {"cleanup", "restore"} => h.failures >= 1 /\ (~h.active => NoneActive)
      /\ At(q, "commit") => \A v \in Acknowledged : chroma[v] = Shown(h.wanted)
      /\ At(q, "soft") => \A v \in Acknowledged : chroma[v] = "absent"
      /\ ~At(q, "soft") => Present

SeqInv ==
  Undisturbed =>
    /\ \A q \in Running : Running = {q} /\ PhaseInv(q)
    /\ Running = {} => Agree /\ Present
    /\ (\A r \in Came : handler[r].kind # "ingest") => Stored = {}

\* A handler that goes on at pc after f failures.
Moved(h, n, pc, f) ==
  /\ n.pc = pc
  /\ n.kind = h.kind
  /\ n.wanted = h.wanted
  /\ n.active = h.active
  /\ n.known = h.known
  /\ n.expired = h.expired
  /\ n.failures = h.failures + f

LEMMA MoveIs ==
  ASSUME TypeOK, NEW q \in Request, handler[q] \in Handler, NEW pc \in Place
  PROVE  /\ Goto(q, pc) => Moved(handler[q], handler'[q], pc, 0)
         /\ \A r : pc = "done" /\ Finish(q, r) => Moved(handler[q], handler'[q], pc, 0)
         /\ Raise(q, pc) => Moved(handler[q], handler'[q], pc, 1)
<1> DEFINE h == handler[q]
<1>1. h.failures \in Nat /\ q \in DOMAIN handler
  BY DEF TypeOK, Handler
<1>2. h.failures + 0 = h.failures
  BY <1>1
<1>3. ASSUME Goto(q, pc)  PROVE Moved(h, handler'[q], pc, 0)
  <2>1. handler'[q] = [h EXCEPT !.pc = pc]
    BY <1>1, <1>3 DEF Goto
  <2> QED  BY <1>2, <2>1 DEF Moved, Handler
<1>4. ASSUME NEW r, pc = "done", Finish(q, r)  PROVE Moved(h, handler'[q], pc, 0)
  <2>1. handler'[q] = [h EXCEPT !.pc = "done", !.result = r]
    BY <1>1, <1>4 DEF Finish
  <2> QED  BY <1>2, <1>4, <2>1 DEF Moved, Handler
<1>5. ASSUME Raise(q, pc)  PROVE Moved(h, handler'[q], pc, 1)
  <2>1. handler'[q] = [h EXCEPT !.pc = pc, !.failures = @ + 1,
                         !.result = IF pc = "done" THEN "error" ELSE @]
    BY <1>1, <1>5 DEF Raise
  <2> QED  BY <2>1 DEF Moved, Handler
<1> QED  BY <1>3, <1>4, <1>5

\* A step of the handler of q, after it began.
Works(q) ==
  \/ Get(q) \/ Load(q) \/ Create(q) \/ Retire(q) \/ Upsert(q) \/ Complete(q) \/ Cleanup(q)
  \/ Restore(q) \/ Mark(q) \/ Change(q) \/ SetActive(q) \/ Delete(q) \/ SoftDelete(q)

LEMMA Alone ==
  ASSUME TypeOK, NEW q \in Request, Begin(q) \/ Works(q), NEW r \in Request \ {q}
  PROVE  /\ handler'[r] = handler[r]
         /\ version'[r] = version[r]
         /\ chroma'[r] # "absent" => chroma[r] # "absent"
<1>1. handler'[r] = handler[r]
  BY DEF TypeOK, Begin, Works, Get, Load, Create, Retire, Upsert, Complete, Cleanup, Restore,
         Mark, Change, SetActive, Delete, SoftDelete, Goto, Finish, Raise
<1>2. version'[r] = version[r]
  BY DEF TypeOK, Begin, Works, Get, Load, Create, Retire, Upsert, Complete, Cleanup, Restore,
         Mark, Change, SetActive, Delete, SoftDelete
<1>3. chroma'[r] # "absent" => chroma[r] # "absent"
  <2>1. chroma'[r] = chroma[r] \/ (\E V, b : chroma' = Marked(V, b))
        \/ (\E V : chroma' = Deleted(V)) \/ \E b : chroma' = Added(q, b)
    BY DEF Begin, Works, Get, Load, Create, Retire, Upsert, Complete, Cleanup, Restore,
           Mark, Change, SetActive, Delete, SoftDelete
  <2>2. ASSUME NEW V, NEW b, chroma' = Marked(V, b)
        PROVE  chroma'[r] # "absent" => chroma[r] # "absent"
    BY <2>2 DEF Marked
  <2>3. ASSUME NEW V, chroma' = Deleted(V)
        PROVE  chroma'[r] # "absent" => chroma[r] # "absent"
    BY <2>3 DEF Deleted
  <2>4. ASSUME NEW b, chroma' = Added(q, b)
        PROVE  chroma'[r] # "absent" => chroma[r] # "absent"
    BY <2>4 DEF Added, TypeOK
  <2> QED  BY <2>1, <2>2, <2>3, <2>4
<1> QED  BY <1>1, <1>2, <1>3, Zenon

LEMMA Waiting ==
  ASSUME IInv, NEW q \in Request, Works(q)
  PROVE  /\ TypeOK /\ handler[q] \in Handler /\ q \in DOMAIN handler
         /\ handler[q].pc \notin {"idle", "done", "dead"}
         /\ UNCHANGED <<crashes, overlap>>
<1>1. TypeOK /\ UNCHANGED <<crashes, overlap>>
  BY DEF IInv, Works, Get, Load, Create, Retire, Upsert, Complete, Cleanup, Restore, Mark,
         Change, SetActive, Delete, SoftDelete
<1>2. handler[q].pc \notin {"idle", "done", "dead"}
  BY DEF Works, Get, Load, Create, Retire, Upsert, Complete, Cleanup, Restore, Mark,
         Change, SetActive, Delete, SoftDelete, At
<1> QED  BY <1>1, <1>2, CameType DEF TypeOK

\* What becomes of the handler, besides its place and what it reads.
LEMMA WorkKeeps ==
  ASSUME IInv, LeftInv, NEW q \in Request, Works(q)
  PROVE  /\ handler'[q].kind = handler[q].kind
         /\ handler'[q].failures >= handler[q].failures
         /\ handler[q].expired => handler'[q].expired
         /\ handler'[q].pc \notin {"idle", "dead"}
<1> DEFINE h == handler[q]
           n == handler'[q]
           Kept == /\ n.kind = h.kind
                   /\ n.failures >= h.failures
                   /\ h.expired => n.expired
                   /\ n.pc \notin {"idle", "dead"}
<1>1. TypeOK /\ h \in Handler /\ q \in DOMAIN handler /\ h.failures \in Nat
  BY Waiting DEF Handler
<1>2. ASSUME NEW pc \in Place \ {"dead"}, NEW f \in {0, 1}, Moved(h, n, pc, f)  PROVE Kept
  <2>1. pc # "idle"
    BY <1>2 DEF Place
  <2> QED  BY <1>1, <1>2, <2>1 DEF Moved
<1>3. \A pc \in Place \ {"dead"} : Goto(q, pc) \/ Raise(q, pc) => Kept
  <2> SUFFICES ASSUME NEW pc \in Place \ {"dead"}, Goto(q, pc) \/ Raise(q, pc)  PROVE Kept
    OBVIOUS
  <2> QED  BY <1>1, <1>2, MoveIs
<1>4. \A r : Finish(q, r) => Kept
  <2>1. "done" \in Place \ {"dead"}
    BY DEF Place
  <2> QED  BY <1>1, <1>2, <2>1, MoveIs
<1>5. {"done", "create", "retire", "upsert", "complete", "cleanup", "restore", "mark", "change",
       "commit", "delete", "soft"} \subseteq Place \ {"dead"}
  BY DEF Place
<1>6. CASE Get(q)
  <2>1. CASE handler' = [handler EXCEPT ![q].pc = "load", ![q].active = doc.active]
    BY <1>1, <2>1 DEF Handler
  <2> QED  BY <1>3, <1>4, <1>5, <1>6, <2>1 DEF Get
<1>7. CASE Load(q)
  <2> DEFINE pc == CASE h.kind = "reprocess" -> "create"
                     [] h.kind = "status" -> "change"
                     [] h.kind = "remove" -> "delete"
  <2>1. CASE handler' = [handler EXCEPT ![q].known = Indexed, ![q].number = NextNumber,
                           ![q].pc = pc]
    <3>1. PlaceInv(q)
      BY DEF IInv
    <3>2. h.kind \in {"reprocess", "status", "remove"}
      BY <1>1, <1>7, <3>1, KnowledgeAssumption DEF PlaceInv, Load, At, Handler
    <3>3. pc \notin {"idle", "dead"}
      BY <3>2
    <3> DEFINE m == [h EXCEPT !.known = Indexed, !.number = NextNumber, !.pc = pc]
    <3> HIDE DEF pc
    <3>4. handler' = [handler EXCEPT ![q] = m]
      BY <1>1, <2>1
    <3>5. m.kind = h.kind /\ m.failures = h.failures /\ m.expired = h.expired /\ m.pc = pc
      BY <1>1 DEF Handler
    <3> HIDE DEF m
    <3>6. n = m
      BY <1>1, <3>4
    <3> QED  BY <1>1, <3>3, <3>5, <3>6
  <2> QED  BY <1>3, <1>5, <1>7, <2>1 DEF Load
<1>8. CASE Create(q)
  <2>1. CASE handler' = [handler EXCEPT ![q].pc = "retire", ![q].begun = ~(h.kind = "ingest")]
    BY <1>1, <2>1 DEF Handler
  <2> QED  BY <1>3, <1>4, <1>5, <1>8, <2>1 DEF Create
<1>9. CASE Complete(q)
  <2>1. ASSUME NEW b \in BOOLEAN,
               handler' = [handler EXCEPT ![q].pc = "cleanup", ![q].failures = @ + 1,
                             ![q].begun = TRUE, ![q].expired = b]
        PROVE  Kept
    <3>1. ~h.expired
      BY <1>9 DEF LeftInv, Complete, At, UpToComplete
    <3> QED  BY <1>1, <2>1, <3>1 DEF Handler
  <2> QED  BY <1>4, <1>9, <2>1 DEF Complete
<1>10. CASE Retire(q) \/ Upsert(q) \/ Cleanup(q) \/ Restore(q) \/ Mark(q) \/ Change(q)
            \/ SetActive(q) \/ Delete(q) \/ SoftDelete(q)
  BY <1>3, <1>4, <1>5, <1>10
     DEF Retire, Upsert, Cleanup, Restore, Mark, Change, SetActive, Delete, SoftDelete
<1> QED  BY <1>6, <1>7, <1>8, <1>9, <1>10 DEF Works

\* The version of a handler that still works is not one of the acknowledged, and
\* becomes one only if it is recorded without a failure.
LEMMA NotAcknowledged == ASSUME IInv, NEW q \in Request, Works(q) PROVE q \notin Acknowledged
<1>1. handler[q].pc \in Unversioned \cup VersionPlaces
  BY DEF Works, Get, Load, Create, Retire, Upsert, Complete, Cleanup, Restore, Mark, Change,
         SetActive, Delete, SoftDelete, At, Unversioned, NewPlaces, VersionPlaces
<1>2. CASE handler[q].pc \in Unversioned
  BY <1>2 DEF IInv, PlaceInv, Acknowledged, Indexed, Stored
<1>3. CASE handler[q].pc \in VersionPlaces
  <2>1. version[q].status = "processing" \/ InDoubt(q)
    BY <1>3 DEF IInv, PlaceInv
  <2> QED  BY <2>1 DEF InDoubt, Acknowledged, Indexed
<1> QED  BY <1>1, <1>2, <1>3

LEMMA AcknowledgedAfter ==
  ASSUME IInv, LeftInv, NEW q \in Request, Works(q), Indexed \subseteq Indexed',
         Indexed' \subseteq Indexed \cup {q}
  PROVE  /\ Acknowledged \subseteq Acknowledged'
         /\ Acknowledged' \subseteq Acknowledged \cup {q}
         /\ Indexed' = Indexed \/ handler'[q].failures > 0 => Acknowledged' = Acknowledged
<1>1. q \notin Acknowledged
  BY NotAcknowledged
<1>2. ASSUME NEW v \in Request \ {q}  PROVE v \in Acknowledged <=> v \in Acknowledged'
  <2>1. handler'[v] = handler[v] /\ version'[v] = version[v]
    BY Alone DEF IInv
  <2> QED  BY <2>1 DEF Acknowledged, Indexed
<1>3. Acknowledged \subseteq Request /\ Acknowledged' \subseteq Request
  BY DEF Acknowledged, Indexed
<1>4. Indexed' = Indexed \/ handler'[q].failures > 0 => q \notin Acknowledged'
  <2> SUFFICES ASSUME Indexed' = Indexed \/ handler'[q].failures > 0, q \in Acknowledged'
               PROVE  FALSE
    OBVIOUS
  <2>1. handler'[q].failures = 0 /\ q \in Indexed'
    BY DEF Acknowledged
  <2>2. q \in Indexed
    BY <2>1
  <2>3. handler[q].failures \in Nat /\ handler'[q].failures >= handler[q].failures
    BY Waiting, WorkKeeps DEF Handler
  <2>4. handler[q].failures = 0
    BY <2>1, <2>3
  <2> QED  BY <1>1, <2>2, <2>4 DEF Acknowledged
<1> QED  BY <1>1, <1>2, <1>3, <1>4

LEMMA InitLeft == ASSUME Init PROVE LeftInv
  BY DEF Init, LeftInv, At, Idle, UpToComplete

\* What a step of the handler of q has to show of its own version.
LEMMA LeftStep ==
  ASSUME IInv, LeftInv, NEW q \in Request, Begin(q) \/ Works(q),
         UNCHANGED crashes,
         q \notin Acknowledged' /\ chroma'[q] # "absent" => Excused(handler'[q]),
         handler'[q].pc # "dead",
         handler'[q].pc \in UpToComplete => ~handler'[q].expired
  PROVE  LeftInv'
<1>1. ASSUME NEW r \in Request \ {q}
      PROVE  /\ (r \notin Acknowledged /\ chroma[r] # "absent" => Excused(handler[r]))'
             /\ (At(r, "dead") => crashes > 0)'
             /\ (handler[r].pc \in UpToComplete => ~handler[r].expired)'
  <2>1. /\ handler'[r] = handler[r] /\ version'[r] = version[r]
        /\ chroma'[r] # "absent" => chroma[r] # "absent"
    BY Alone DEF IInv
  <2>2. r \in Acknowledged => r \in Acknowledged'
    BY <2>1 DEF Acknowledged, Indexed
  <2> QED  BY <2>1, <2>2 DEF LeftInv, At, Excused
<1> QED  BY <1>1 DEF LeftInv, At

LEMMA BeginLeft == ASSUME IInv, LeftInv, NEW q \in Request, Begin(q) PROVE LeftInv'
<1>1. q \in DOMAIN handler /\ handler[q].pc = "idle" /\ version' = version /\ chroma' = chroma
      /\ crashes' = crashes
  BY DEF IInv, TypeOK, Begin, At
<1>2. handler'[q].pc \in {"create", "get"} /\ handler'[q].expired = FALSE
  BY <1>1 DEF Begin
<1>3. q \notin Acknowledged
  BY <1>1 DEF IInv, PlaceInv, Unversioned, NewPlaces, Acknowledged, Indexed, Stored
<1>4. chroma[q] = "absent"
  BY <1>1, <1>3 DEF LeftInv, Excused
<1> QED  BY <1>1, <1>2, <1>4, LeftStep

\* A step that leaves the version without chunks, or leads to a place where they
\* are excused.
LEMMA WorkLeft ==
  ASSUME IInv, LeftInv, NEW q \in Request, Works(q),
         q \notin Acknowledged' /\ chroma'[q] # "absent" => Excused(handler'[q]),
         handler'[q].pc \in UpToComplete => ~handler'[q].expired
  PROVE  LeftInv'
  BY Waiting, WorkKeeps, LeftStep

LEMMA QuietLeft ==
  ASSUME IInv, LeftInv, NEW q \in Request,
         \/ Get(q) \/ Load(q) \/ Create(q) \/ Retire(q) \/ Change(q) \/ SetActive(q)
         \/ Delete(q) \/ SoftDelete(q),
         Indexed' = Indexed,
         handler'[q].expired = handler[q].expired
  PROVE  LeftInv'
<1>1. handler[q].pc \in UpToComplete /\ handler[q].pc \notin {"complete"}
  BY DEF Get, Load, Create, Retire, Change, SetActive, Delete, SoftDelete, At, UpToComplete
<1>2. chroma[q] = "absent"
  BY <1>1, NotAcknowledged DEF Works, LeftInv, Excused, UpToComplete
<1>3. chroma'[q] # "absent" => chroma[q] # "absent"
  <2>1. chroma' = chroma \/ (\E V, b : chroma' = Marked(V, b)) \/ \E V : chroma' = Deleted(V)
    BY DEF Get, Load, Create, Retire, Change, SetActive, Delete, SoftDelete
  <2> QED  BY <2>1 DEF Marked, Deleted
<1> QED  BY <1>1, <1>2, <1>3, WorkLeft DEF Works, LeftInv

LEMMA MovesExpired ==
  ASSUME TypeOK, NEW q \in Request, handler[q] \in Handler,
         \/ Get(q) \/ Load(q) \/ Create(q) \/ Retire(q) \/ Change(q) \/ SetActive(q)
         \/ Delete(q) \/ SoftDelete(q)
  PROVE  handler'[q].expired = handler[q].expired
<1> DEFINE h == handler[q]
<1>0. q \in DOMAIN handler
  BY DEF TypeOK
<1>1. \A pc \in Place : Goto(q, pc) \/ Raise(q, pc) => handler'[q].expired = h.expired
  BY MoveIs DEF Moved
<1>2. \A r : Finish(q, r) => handler'[q].expired = h.expired
  <2>1. "done" \in Place
    BY DEF Place
  <2> QED  BY <2>1, MoveIs DEF Moved
<1>3. {"done", "upsert", "mark", "cleanup", "commit", "soft"} \subseteq Place
  BY DEF Place
<1>4. CASE Get(q)
  <2>1. CASE handler' = [handler EXCEPT ![q].pc = "load", ![q].active = doc.active]
    BY <1>0, <2>1 DEF Handler
  <2> QED  BY <1>1, <1>2, <1>3, <1>4, <2>1 DEF Get
<1>5. CASE Load(q)
  <2> DEFINE pc == CASE h.kind = "reprocess" -> "create"
                     [] h.kind = "status" -> "change"
                     [] h.kind = "remove" -> "delete"
  <2>1. CASE handler' = [handler EXCEPT ![q].known = Indexed, ![q].number = NextNumber,
                           ![q].pc = pc]
    <3> DEFINE m == [h EXCEPT !.known = Indexed, !.number = NextNumber, !.pc = pc]
    <3> HIDE DEF pc
    <3>1. handler' = [handler EXCEPT ![q] = m]
      BY <1>0, <2>1
    <3>2. m.expired = h.expired
      BY DEF Handler
    <3> HIDE DEF m
    <3> QED  BY <1>0, <3>1, <3>2
  <2> QED  BY <1>1, <1>3, <1>5, <2>1 DEF Load
<1>6. CASE Create(q)
  <2>1. CASE handler' = [handler EXCEPT ![q].pc = "retire", ![q].begun = ~(h.kind = "ingest")]
    BY <1>0, <2>1 DEF Handler
  <2> QED  BY <1>1, <1>2, <1>3, <1>6, <2>1 DEF Create
<1>7. CASE Retire(q) \/ Change(q) \/ SetActive(q) \/ Delete(q) \/ SoftDelete(q)
  BY <1>1, <1>2, <1>3, <1>7 DEF Retire, Change, SetActive, Delete, SoftDelete
<1> QED  BY <1>4, <1>5, <1>6, <1>7

LEMMA EarlyLeft ==
  ASSUME IInv, LeftInv, NEW q \in Request,
         \/ Get(q) \/ Load(q) \/ Create(q) \/ Retire(q) \/ Change(q) \/ SetActive(q)
         \/ Delete(q) \/ SoftDelete(q)
  PROVE  LeftInv'
<1>1. handler'[q].expired = handler[q].expired
  BY Waiting, MovesExpired DEF Works
<1>2. Indexed' = Indexed
  <2>1. CASE version' = version
    BY <2>1, SameVersions
  <2>2. CASE Create(q) /\ version' # version
    BY <2>2, NewVersion DEF Create
  <2> QED  BY <2>1, <2>2 DEF Get, Load, Retire, Change, SetActive, Delete, SoftDelete
<1> QED  BY <1>1, <1>2, QuietLeft

LEMMA UpsertLeft == ASSUME IInv, LeftInv, NEW q \in Request, Upsert(q) PROVE LeftInv'
<1>1. TypeOK /\ handler[q] \in Handler /\ handler[q].failures \in Nat
  BY Waiting DEF Works, Handler
<1>3. "complete" \in Place /\ "cleanup" \in Place
  BY DEF Place
<1>4. ~handler[q].expired
  BY DEF LeftInv, Upsert, At, UpToComplete
<1>5. CASE Goto(q, "complete")
  BY <1>1, <1>3, <1>4, <1>5, MoveIs, WorkLeft DEF Works, Moved, Excused
<1>6. CASE Raise(q, "cleanup")
  <2>1. Moved(handler[q], handler'[q], "cleanup", 1)
    BY <1>1, <1>3, <1>6, MoveIs
  <2>2. handler'[q].pc = "cleanup" /\ handler'[q].failures >= 1
    BY <1>1, <2>1 DEF Moved
  <2> QED  BY <2>2, WorkLeft DEF Works, Excused, UpToComplete
<1> QED  BY <1>5, <1>6 DEF Upsert

LEMMA CompleteLeft == ASSUME IInv, LeftInv, NEW q \in Request, Complete(q) PROVE LeftInv'
<1>1. /\ TypeOK /\ handler[q] \in Handler /\ handler[q].failures \in Nat
      /\ q \in DOMAIN handler /\ version[q] \in VersionRow /\ q \in DOMAIN version
  BY Waiting DEF Works, Handler, TypeOK
<1>2. CASE Finish(q, "ok") /\ version' = [version EXCEPT ![q].status = "completed"]
  <2>1. handler[q].failures = 0
    BY DEF IInv, PlaceInv, Smooth, Complete, At
  <2>2. version'[q].status = "completed"
    BY <1>1, <1>2 DEF VersionRow
  <2>3. "done" \in Place /\ handler'[q].pc = "done" /\ handler'[q].failures = 0
    BY <1>1, <1>2, <2>1 DEF Place, Finish, Handler
  <2>4. q \in Acknowledged'
    BY <2>2, <2>3 DEF Acknowledged, Indexed
  <2> QED  BY <2>3, <2>4, WorkLeft DEF Works, UpToComplete
<1>3. ASSUME NEW b \in BOOLEAN,
             handler' = [handler EXCEPT ![q].pc = "cleanup", ![q].failures = @ + 1,
                           ![q].begun = TRUE, ![q].expired = b]
      PROVE  LeftInv'
  <2>1. handler'[q].pc = "cleanup" /\ handler'[q].failures = handler[q].failures + 1
    BY <1>1, <1>3 DEF Handler
  <2>2. handler'[q].failures >= 1
    BY <1>1, <2>1
  <2> QED  BY <2>1, <2>2, WorkLeft DEF Works, Excused, UpToComplete
<1> QED  BY <1>2, <1>3 DEF Complete

LEMMA LateLeft ==
  ASSUME IInv, LeftInv, NEW q \in Request, Cleanup(q) \/ Restore(q) \/ Mark(q)
  PROVE  LeftInv'
<1>1. TypeOK /\ handler[q] \in Handler /\ handler[q].failures \in Nat
  BY Waiting DEF Works, Handler
<1>2. q \notin Acknowledged
  <2>1. handler[q].pc \in {"cleanup", "restore", "mark"}
    BY DEF Cleanup, Restore, Mark, At
  <2>2. version[q].status = "processing" \/ InDoubt(q)
    BY <2>1 DEF IInv, PlaceInv, VersionPlaces
  <2> QED  BY <2>2 DEF InDoubt, Acknowledged, Indexed
<1>3. {"restore", "mark", "done"} \subseteq Place /\ {"restore", "mark", "done"} \cap UpToComplete = {}
  BY DEF Place, UpToComplete
<1>4. CASE Cleanup(q)
  <2>1. CASE Goto(q, "restore") /\ chroma' = Deleted({q})
    <3>1. chroma'[q] = "absent" /\ handler'[q].pc = "restore"
      BY <1>1, <1>3, <2>1, MoveIs DEF Deleted, Moved
    <3> QED  BY <1>3, <1>4, <3>1, WorkLeft DEF Works
  <2>2. CASE Raise(q, "restore") /\ (chroma' = chroma \/ chroma' = Deleted({q}))
    <3>1. Moved(handler[q], handler'[q], "restore", 1)
      BY <1>1, <1>3, <2>2, MoveIs
    <3>2. chroma'[q] # "absent" => chroma[q] # "absent"
      BY <2>2 DEF Deleted
    <3>3. chroma[q] # "absent" => handler[q].failures >= 1
      BY <1>2, <1>4 DEF LeftInv, Excused, Cleanup, At
    <3>4. chroma'[q] # "absent" => handler'[q].failures >= 2
      BY <1>1, <3>1, <3>2, <3>3 DEF Moved
    <3> QED  BY <1>3, <1>4, <3>1, <3>4, WorkLeft DEF Works, Moved, Excused
  <2> QED  BY <1>4, <2>1, <2>2 DEF Cleanup
<1>5. CASE Restore(q) \/ Mark(q)
  <2>1. PICK pc \in {"mark", "done"}, f \in {0, 1} : Moved(handler[q], handler'[q], pc, f)
    BY <1>1, <1>3, <1>5, MoveIs DEF Restore, Mark
  <2>2. chroma'[q] # "absent" => chroma[q] # "absent"
    BY <1>5 DEF Restore, Mark, Marked
  <2>3. chroma[q] # "absent" => handler[q].failures >= 2
    BY <1>2, <1>5 DEF LeftInv, Excused, Restore, Mark, At
  <2>4. chroma'[q] # "absent" => handler'[q].failures >= 2
    BY <1>1, <2>1, <2>2, <2>3 DEF Moved
  <2>5. handler'[q].pc \in {"mark", "done"}
    BY <2>1 DEF Moved
  <2> QED  BY <1>3, <1>5, <2>4, <2>5, WorkLeft DEF Works, Excused
<1> QED  BY <1>4, <1>5

LEMMA CrashLeft == ASSUME IInv, LeftInv, Crash PROVE LeftInv'
<1>1. UNCHANGED <<version, chroma>> /\ crashes \in Nat /\ crashes' = crashes + 1
  BY KnowledgeAssumption DEF Crash, IInv, TypeOK
<1>2. Indexed' = Indexed
  BY <1>1, SameVersions
<1>3. ASSUME NEW v \in Request
      PROVE  /\ handler'[v] = handler[v] \/ handler'[v].pc = "dead"
             /\ v \in Acknowledged' <=> v \in Acknowledged
  <2>1. CASE v \in Running
    <3>1. handler[v] \in Handler
      BY <2>1, CameType DEF IInv, Running
    <3>2. handler'[v].pc = "dead" /\ handler'[v].failures = handler[v].failures
      BY <2>1, <3>1 DEF Crash, Handler
    <3> QED  BY <1>2, <3>2 DEF Acknowledged
  <2>2. CASE v \notin Running
    <3>1. handler'[v] = handler[v]
      BY <2>2 DEF Crash
    <3> QED  BY <1>2, <3>1 DEF Acknowledged
  <2> QED  BY <2>1, <2>2
<1>4. crashes' > 0
  BY <1>1
<1>5. ASSUME NEW v \in Request
      PROVE  /\ (v \notin Acknowledged /\ chroma[v] # "absent" => Excused(handler[v]))'
             /\ (handler[v].pc \in UpToComplete => ~handler[v].expired)'
  BY <1>1, <1>3 DEF LeftInv, Excused, UpToComplete
<1> QED  BY <1>4, <1>5 DEF LeftInv, At

LEMMA LeftNext == ASSUME IInv, LeftInv, [Next]_vars PROVE LeftInv'
<1>1. CASE UNCHANGED vars
  <2>1. UNCHANGED <<version, chroma, handler, crashes>>
    BY <1>1 DEF vars
  <2>2. Acknowledged' = Acknowledged
    BY <2>1 DEF Acknowledged, Indexed
  <2> QED  BY <2>1, <2>2 DEF LeftInv, At, Excused
<1> QED  BY <1>1, BeginLeft, EarlyLeft, UpsertLeft, CompleteLeft, LateLeft, CrashLeft DEF Next

-----------------------------------------------------------------------------
\* A history that is undisturbed after a step was so before it.
LEMMA Before ==
  ASSUME IInv, LeftInv, SeqInv, NEW q \in Request, Works(q), Undisturbed'
  PROVE  /\ Undisturbed
         /\ Running = {q}
         /\ PhaseInv(q)
         /\ (\A r \in Came : handler[r].kind # "ingest") => Stored = {}
         /\ q \in Came' /\ handler'[q].failures <= 1
         /\ ~handler'[q].expired
         /\ handler[q].kind \in {"status", "remove"} => handler'[q].failures <= 0
         /\ \A r \in Request \ {q} : handler'[r] = handler[r]
<1>1. TypeOK /\ handler[q] \in Handler /\ UNCHANGED <<crashes, overlap>>
      /\ handler[q].pc \notin {"idle", "done", "dead"}
  BY Waiting
<1>2. \A r \in Request \ {q} : handler'[r] = handler[r]
  BY <1>1, Alone
<1>3. /\ handler'[q].kind = handler[q].kind
      /\ handler'[q].failures >= handler[q].failures
      /\ handler[q].expired => handler'[q].expired
      /\ handler'[q].pc \notin {"idle", "dead"}
  BY WorkKeeps
<1>4. q \in Came' /\ q \in Running
  BY <1>1, <1>3 DEF Came, Running
<1>5. handler'[q] \in Handler
  <2>1. IInv'
    BY GetInv, LoadInv, CreateInv, RetireInv, UpsertInv, CompleteInv, CleanupInv, RestoreInv,
       MarkInv, ChangeInv, DeleteInv, DocInv DEF Works
  <2> QED  BY <1>3, <2>1 DEF IInv, TypeOK, Idle
<1>6. handler[q].failures \in Nat /\ handler'[q].failures \in Nat
  BY <1>1, <1>5 DEF Handler
<1>7. /\ ~handler'[q].expired
      /\ handler'[q].failures <= IF handler'[q].kind \in {"ingest", "reprocess"} THEN 1 ELSE 0
  BY <1>4 DEF Undisturbed
<1>8. Undisturbed
  <2>1. ASSUME NEW r \in Came
        PROVE  /\ ~handler[r].expired
               /\ handler[r].failures <= IF handler[r].kind \in {"ingest", "reprocess"} THEN 1 ELSE 0
    <3>1. CASE r = q
      BY <1>3, <1>6, <1>7, <3>1
    <3>2. CASE r # q
      <4>1. handler'[r] = handler[r] /\ r \in Came'
        BY <1>2, <3>2 DEF Came
      <4> QED  BY <4>1 DEF Undisturbed
    <3> QED  BY <3>1, <3>2
  <2> QED  BY <1>1, <2>1 DEF Undisturbed
<1>9. Running = {q} /\ PhaseInv(q) /\ ((\A r \in Came : handler[r].kind # "ingest") => Stored = {})
  BY <1>4, <1>8 DEF SeqInv
<1>10. handler'[q].failures <= 1
  BY <1>6, <1>7
<1> QED  BY <1>2, <1>3, <1>4, <1>7, <1>8, <1>9, <1>10

\* Only the version whose handler is about to complete it or to clean up may have
\* chunks without being completed.
LEMMA OnlyMine ==
  ASSUME IInv, LeftInv, Undisturbed, NEW v \in Request, v \notin Acknowledged, chroma[v] # "absent"
  PROVE  handler[v].pc \in {"complete", "cleanup"} /\ v \in Running
<1>1. Excused(handler[v])
  BY DEF LeftInv
<1>2. handler[v].pc # "dead"
  BY DEF LeftInv, Undisturbed, At
<1>3. handler[v].pc \notin {"restore", "mark", "done"}
  <2> SUFFICES ASSUME handler[v].pc \in {"restore", "mark", "done"}  PROVE FALSE
    OBVIOUS
  <2>1. v \in Came /\ handler[v].failures >= 2
    BY <1>1 DEF Excused, Came
  <2>2. handler[v].failures <= 1 \/ handler[v].failures <= 0
    BY <2>1 DEF Undisturbed
  <2>3. handler[v].failures \in Nat
    BY <2>1, CameType DEF IInv, Handler, Came
  <2> QED  BY <2>1, <2>2, <2>3
<1>4. handler[v].pc \in {"complete", "cleanup"}
  BY <1>1, <1>2, <1>3 DEF Excused
<1> QED  BY <1>4 DEF Running

\* So, when nobody is there, nothing but the completed versions has chunks.
LEMMA RestIsAbsent ==
  ASSUME IInv, LeftInv, Undisturbed, NEW q \in Request, Running = {q},
         handler[q].pc \notin {"complete", "cleanup"}, NEW v \in Request \ Acknowledged
  PROVE  chroma[v] = "absent"
  BY OnlyMine

\* What a step has to show.
LEMMA SeqStep ==
  ASSUME IInv, LeftInv, SeqInv, NEW q \in Request, Works(q), Undisturbed',
         handler'[q].pc # "done" => PhaseInv(q)',
         handler'[q].pc = "done" => Agree' /\ Present',
         Stored' = Stored \/ handler[q].kind = "ingest" \/ Stored # {}
  PROVE  SeqInv'
<1>1. /\ Running = {q}
      /\ (\A r \in Came : handler[r].kind # "ingest") => Stored = {}
      /\ \A r \in Request \ {q} : handler'[r] = handler[r]
  BY Before
<1>2. handler'[q].pc \notin {"idle", "dead"} /\ handler'[q].kind = handler[q].kind
  BY WorkKeeps
<1>3. Running' \subseteq {q} /\ (q \in Running' <=> handler'[q].pc # "done")
  BY <1>1, <1>2 DEF Running
<1>4. ASSUME \A r \in Came' : handler'[r].kind # "ingest"  PROVE Stored' = {}
  <2>1. \A r \in Came : r \in Came' /\ handler'[r].kind = handler[r].kind
    BY <1>1, <1>2 DEF Came
  <2>2. Stored = {} /\ q \in Came
    BY <1>1, <1>4, <2>1 DEF Came, Running
  <2> QED  BY <1>4, <2>1, <2>2
<1>5. \A r \in Running' : Running' = {r} /\ PhaseInv(r)'
  BY <1>3
<1>6. Running' = {} => Agree' /\ Present'
  BY <1>3
<1> QED  BY <1>4, <1>5, <1>6 DEF SeqInv

LEMMA AcknowledgedIn ==
  Acknowledged \subseteq Request /\ Acknowledged \subseteq Indexed /\ Acknowledged \subseteq Stored
  BY DEF Acknowledged, Indexed, Stored

\* A step of a handler that leaves the versions as they are.
LEMMA StillAcknowledged ==
  ASSUME IInv, LeftInv, NEW q \in Request, Works(q), version' = version
  PROVE  Stored' = Stored /\ Acknowledged' = Acknowledged
  BY SameVersions, AcknowledgedAfter

LEMMA SameStores ==
  ASSUME UNCHANGED <<doc, chroma>>, Acknowledged' = Acknowledged, \A v \in Acknowledged : version'[v] = version[v]
  PROVE  /\ Agree => Agree'
         /\ Present => Present'
         /\ NoneActive => NoneActive'
<1>1. \A v \in Request : chroma'[v] = chroma[v]
  OBVIOUS
<1>2. Agree => Agree'
  BY <1>1 DEF Agree
<1> QED  BY <1>2 DEF Present, NoneActive

LEMMA BeginSeq ==
  ASSUME IInv, LeftInv, SeqInv, NEW q \in Request, Begin(q), Undisturbed'
  PROVE  SeqInv'
<1>1. PICK kind \in Kind, wanted \in BOOLEAN :
        /\ kind = "ingest" => \A r \in Came : handler[r].kind # "ingest"
        /\ handler' = [handler EXCEPT ![q] =
             [kind |-> kind, pc |-> IF kind = "ingest" THEN "create" ELSE "get",
              wanted |-> wanted, active |-> wanted, known |-> {}, number |-> 1,
              begun |-> FALSE, expired |-> FALSE, failures |-> 0, result |-> "none"]]
  BY DEF Begin, Payload
<1>2. q \in DOMAIN handler /\ handler[q].pc = "idle" /\ UNCHANGED <<doc, version, chroma, crashes>>
  BY DEF IInv, TypeOK, Begin, At
<1>3. /\ handler'[q].kind = kind /\ handler'[q].known = {}
      /\ handler'[q].active = handler'[q].wanted
      /\ handler'[q].pc = IF kind = "ingest" THEN "create" ELSE "get"
  BY <1>1, <1>2
<1>4. \A r \in Request \ {q} : handler'[r] = handler[r]
  BY <1>1
<1>5. ~overlap /\ Running = {}
  BY DEF Begin, Undisturbed
<1>6. Came \subseteq Came' /\ Came' = Came \cup {q} /\ q \notin Came
  BY <1>2, <1>3, <1>4 DEF Came
<1>7. Undisturbed
  <2>1. \A r \in Came : handler'[r] = handler[r] /\ r \in Came'
    BY <1>4, <1>6 DEF Came
  <2> QED  BY <1>2, <1>5, <2>1 DEF Undisturbed
<1>8. Agree /\ Present /\ ((\A r \in Came : handler[r].kind # "ingest") => Stored = {})
  BY <1>5, <1>7 DEF SeqInv
<1>9. Stored' = Stored /\ Acknowledged' = Acknowledged
  <2>1. Stored' = Stored /\ Indexed' = Indexed
    BY <1>2, SameVersions
  <2>2. q \notin Indexed
    BY <1>2 DEF IInv, PlaceInv, Unversioned, NewPlaces, Indexed, Stored
  <2> QED  BY <1>4, <2>1, <2>2 DEF Acknowledged, Indexed
<1>10. Agree' /\ Present'
  BY <1>2, <1>8, <1>9, SameStores
<1>11. Running' = {q}
  BY <1>3, <1>4, <1>5 DEF Running
<1>12. PhaseInv(q)'
  <2>1. kind = "ingest" => Stored' = {} /\ Acknowledged' = {}
    BY <1>1, <1>8, <1>9, AcknowledgedIn
  <2> QED  BY <1>3, <1>10, <2>1 DEF PhaseInv, At, VersionPlaces
<1>13. (\A r \in Came' : handler'[r].kind # "ingest") => Stored' = {}
  <2>1. \A r \in Came : handler'[r] = handler[r]
    BY <1>4, <1>6 DEF Came
  <2> QED  BY <1>6, <1>8, <1>9, <2>1
<1> QED  BY <1>11, <1>12, <1>13 DEF SeqInv

\* A step that reads, or ends with the stores as they were.
LEMMA EndsSeq ==
  ASSUME IInv, LeftInv, SeqInv, NEW q \in Request, Works(q), Undisturbed',
         UNCHANGED <<doc, version, chroma>>, handler'[q].pc = "done",
         handler[q].pc \in {"get", "load", "create", "retire", "mark", "change", "delete"}
  PROVE  SeqInv'
<1>1. PhaseInv(q)
  BY Before
<1>2. Stored' = Stored /\ Acknowledged' = Acknowledged
  BY StillAcknowledged
<1>3. Agree /\ Present
  BY <1>1 DEF PhaseInv, At
<1>4. Agree' /\ Present'
  BY <1>2, <1>3, SameStores
<1> QED  BY <1>2, <1>4, SeqStep

LEMMA MovesTo ==
  ASSUME IInv, NEW q \in Request, Works(q)
  PROVE  /\ \A pc \in Place : Goto(q, pc) => Moved(handler[q], handler'[q], pc, 0)
         /\ \A pc \in Place : Raise(q, pc) => Moved(handler[q], handler'[q], pc, 1)
         /\ \A r : Finish(q, r) => Moved(handler[q], handler'[q], "done", 0)
         /\ handler[q].failures \in Nat
<1>1. "done" \in Place
  BY DEF Place
<1> QED  BY <1>1, Waiting, MoveIs DEF Handler

LEMMA GetSeq ==
  ASSUME IInv, LeftInv, SeqInv, NEW q \in Request, Get(q), Undisturbed'
  PROVE  SeqInv'
<1>1. Works(q) /\ At(q, "get") /\ UNCHANGED <<doc, version, chroma>>
  BY DEF Works, Get
<1>2. TypeOK /\ handler[q] \in Handler /\ q \in DOMAIN handler
  BY <1>1, Waiting
<1>3. CASE Finish(q, "missing") \/ Raise(q, "done")
  <2>1. handler'[q].pc = "done"
    BY <1>1, <1>3, MovesTo DEF Moved, Place
  <2> QED  BY <1>1, <2>1, EndsSeq DEF At
<1>4. CASE /\ doc.stored /\ ~doc.deleted
           /\ handler' = [handler EXCEPT ![q].pc = "load", ![q].active = doc.active]
  <2>1. handler'[q].pc = "load" /\ handler'[q].active = doc.active
    BY <1>2, <1>4 DEF Handler
  <2>2. PhaseInv(q)
    BY <1>1, Before
  <2>3. Agree /\ Present
    BY <1>1, <2>2 DEF PhaseInv, At
  <2>4. Stored' = Stored /\ Acknowledged' = Acknowledged
    BY <1>1, StillAcknowledged
  <2>5. Agree' /\ Present'
    BY <1>1, <2>3, <2>4, SameStores
  <2>6. PhaseInv(q)'
    BY <1>1, <1>4, <2>1, <2>5 DEF PhaseInv, At, VersionPlaces
  <2> QED  BY <1>1, <2>1, <2>4, <2>6, SeqStep
<1> QED  BY <1>3, <1>4 DEF Get

LEMMA LoadSeq ==
  ASSUME IInv, LeftInv, SeqInv, NEW q \in Request, Load(q), Undisturbed'
  PROVE  SeqInv'
<1>1. Works(q) /\ At(q, "load") /\ UNCHANGED <<doc, version, chroma>>
  BY DEF Works, Load
<1>2. TypeOK /\ handler[q] \in Handler /\ q \in DOMAIN handler
  BY <1>1, Waiting
<1>3. CASE Raise(q, "done")
  <2>1. handler'[q].pc = "done"
    BY <1>1, <1>3, MovesTo DEF Moved, Place
  <2> QED  BY <1>1, <2>1, EndsSeq DEF At
<1> DEFINE h == handler[q]
           pc == CASE h.kind = "reprocess" -> "create"
                   [] h.kind = "status" -> "change"
                   [] h.kind = "remove" -> "delete"
           m == [h EXCEPT !.known = Indexed, !.number = NextNumber, !.pc = pc]
<1>4. CASE handler' = [handler EXCEPT ![q].known = Indexed, ![q].number = NextNumber,
                         ![q].pc = pc]
  <2>1. h.kind # "ingest" /\ Stored # {}
    BY <1>1 DEF IInv, PlaceInv, At
  <2>2. h.kind \in {"reprocess", "status", "remove"}
    BY <1>2, <2>1, KnowledgeAssumption DEF Handler
  <2>3. /\ pc \in {"create", "change", "delete"}
        /\ pc = "change" => h.kind = "status"
        /\ pc = "delete" => h.kind = "remove"
    BY <2>2
  <2> HIDE DEF pc
  <2>4. m.pc = pc /\ m.kind = h.kind /\ m.known = Indexed /\ m.active = h.active
    BY <1>2 DEF Handler
  <2>5. handler'[q] = m
    BY <1>2, <1>4
  <2> HIDE DEF m
  <2>6. PhaseInv(q)
    BY <1>1, Before
  <2>7. Agree /\ Present /\ ~doc.deleted /\ h.active = doc.active
    BY <1>1, <2>6 DEF PhaseInv, At
  <2>8. Stored' = Stored /\ Acknowledged' = Acknowledged
    BY <1>1, StillAcknowledged
  <2>9. Agree' /\ Present'
    BY <1>1, <2>7, <2>8, SameStores
  <2>11. Acknowledged' \subseteq m.known
    BY <2>4, <2>8, AcknowledgedIn
  <2>10. PhaseInv(q)'
    BY <1>1, <2>1, <2>3, <2>4, <2>5, <2>7, <2>8, <2>9, <2>11 DEF PhaseInv, At, VersionPlaces
  <2> QED  BY <1>1, <2>3, <2>4, <2>5, <2>8, <2>10, SeqStep
<1> QED  BY <1>3, <1>4 DEF Load

LEMMA CreateSeq ==
  ASSUME IInv, LeftInv, SeqInv, NEW q \in Request, Create(q), Undisturbed'
  PROVE  SeqInv'
<1> DEFINE h == handler[q]
           ingests == h.kind = "ingest"
<1>1. Works(q) /\ At(q, "create") /\ chroma' = chroma
  BY DEF Works, Create
<1>2. TypeOK /\ h \in Handler /\ q \in DOMAIN handler
  BY <1>1, Waiting
<1>3. PhaseInv(q) /\ Running = {q} /\ Undisturbed
  BY <1>1, Before
<1>4. /\ Acknowledged \subseteq h.known /\ Agree /\ Present
      /\ IF ingests THEN Stored = {} /\ h.active = h.wanted
                    ELSE Stored # {} /\ ~doc.deleted /\ h.active = doc.active
  BY <1>1, <1>3 DEF PhaseInv, At
<1>5. CASE UNCHANGED <<doc, version>> /\ (Raise(q, "done") \/ Finish(q, "error"))
  <2>1. handler'[q].pc = "done"
    BY <1>1, <1>5, MovesTo DEF Moved, Place
  <2> QED  BY <1>1, <1>5, <2>1, EndsSeq DEF At
<1>6. CASE /\ NumberFree(h.number)
           /\ version' = [version EXCEPT ![q] = [number |-> h.number, status |-> "processing"]]
           /\ \/ handler' = [handler EXCEPT ![q].pc = "retire", ![q].begun = ~ingests]
              \/ Raise(q, "done")
           /\ doc' = IF ingests
                       THEN [stored |-> TRUE, active |-> h.wanted, deleted |-> FALSE]
                       ELSE doc
  <2>1. /\ Acknowledged' = Acknowledged
        /\ \A v \in Stored : version'[v] = version[v] /\ version[v].number < version'[q].number
    <3>1. /\ Stored' = Stored \cup {q} /\ Indexed' = Indexed
          /\ \A v \in Stored : version'[v] = version[v] /\ version[v].number < version'[q].number
      BY <1>1, <1>6, NewVersion
    <3> QED  BY <1>1, <3>1, AcknowledgedAfter
  <2>2. Acknowledged \subseteq Stored
    BY AcknowledgedIn
  <2>3. \A v \in Request \ Acknowledged : chroma[v] = "absent"
    BY <1>1, <1>3, RestIsAbsent DEF At
  <2>4. Agree' /\ Present'
    <3>1. CASE ingests
      <4>1. Acknowledged' = {}
        BY <1>4, <2>1, <2>2, <3>1
      <4>2. \A v \in Request : chroma'[v] # "active"
        BY <1>1, <1>4, <2>2, <2>3, <3>1
      <4> QED  BY <4>1, <4>2 DEF Agree, Present
    <3>2. CASE ~ingests
      BY <1>1, <1>4, <1>6, <2>1, <2>2, <3>2, SameStores
    <3> QED  BY <3>1, <3>2
  <2>5. Stored' = Stored \/ ingests \/ Stored # {}
    BY <1>4
  <2>6. CASE Raise(q, "done")
    <3>1. handler'[q].pc = "done"
      BY <1>1, <2>6, MovesTo DEF Moved, Place
    <3> QED  BY <1>1, <2>4, <2>5, <3>1, SeqStep
  <2>7. CASE handler' = [handler EXCEPT ![q].pc = "retire", ![q].begun = ~ingests]
    <3>1. /\ handler'[q].pc = "retire" /\ handler'[q].kind = h.kind
          /\ handler'[q].known = h.known /\ handler'[q].active = h.active
      BY <1>2, <2>7 DEF Handler
    <3>2. ~doc'.deleted /\ h.active = doc'.active
      BY <1>4, <1>6
    <3>3. \A v \in Acknowledged' : version'[v].number < version'[q].number
      BY <2>1, <2>2
    <3>4. PhaseInv(q)'
      BY <1>4, <2>1, <2>4, <3>1, <3>2, <3>3 DEF PhaseInv, At
    <3> QED  BY <1>1, <2>5, <3>1, <3>4, SeqStep
  <2> QED  BY <1>6, <2>6, <2>7
<1> QED  BY <1>1, <1>5, <1>6 DEF Create

\* What holds from the reading on until the handler ends.
LEMMA InHand ==
  ASSUME IInv, LeftInv, SeqInv, NEW q \in Request, Works(q), Undisturbed',
         handler[q].pc \notin {"get", "load", "create"}
  PROVE  /\ ~doc.deleted /\ handler[q].active = doc.active /\ Acknowledged \subseteq handler[q].known
         /\ TypeOK /\ handler[q] \in Handler /\ q \in DOMAIN handler
         /\ handler[q].active \in BOOLEAN /\ handler[q].wanted \in BOOLEAN
         /\ handler[q].failures \in Nat
         /\ chroma \in [Request -> {"absent", "active", "inactive"}]
         /\ handler[q].pc \in VersionPlaces => q \notin Acknowledged
         /\ handler[q].pc \notin {"complete", "cleanup"} =>
              \A v \in Request \ Acknowledged : chroma[v] = "absent"
<1>1. PhaseInv(q) /\ Running = {q} /\ Undisturbed
  BY Before
<1>2. TypeOK /\ handler[q] \in Handler /\ q \in DOMAIN handler
  BY Waiting
<1>3. handler[q].active \in BOOLEAN /\ handler[q].wanted \in BOOLEAN /\ handler[q].failures \in Nat
      /\ chroma \in [Request -> {"absent", "active", "inactive"}]
  BY <1>2 DEF Handler, TypeOK
<1>4. q \notin Acknowledged
  BY NotAcknowledged
<1>5. ~doc.deleted /\ handler[q].active = doc.active /\ Acknowledged \subseteq handler[q].known
  BY <1>1 DEF PhaseInv
<1> QED  BY <1>1, <1>2, <1>3, <1>4, <1>5, RestIsAbsent

LEMMA RetireSeq ==
  ASSUME IInv, LeftInv, SeqInv, NEW q \in Request, Retire(q), Undisturbed'
  PROVE  SeqInv'
<1> DEFINE h == handler[q]
<1>1. Works(q) /\ h.pc = "retire" /\ UNCHANGED <<doc, version>>
  BY DEF Works, Retire, At
<1>2. /\ ~doc.deleted /\ h.active = doc.active /\ Acknowledged \subseteq h.known
      /\ h.failures \in Nat /\ h.active \in BOOLEAN
  BY <1>1, InHand
<1>3. PhaseInv(q)
  BY <1>1, Before
<1>4. /\ Agree /\ Present
      /\ \A v \in Acknowledged : version[v].number < version[q].number
  BY <1>1, <1>3 DEF PhaseInv, At, VersionPlaces
<1>5. Stored' = Stored /\ Acknowledged' = Acknowledged
  BY <1>1, StillAcknowledged
<1>6. chroma' = chroma \/ chroma' = Marked(h.known, FALSE)
  BY <1>2 DEF Retire
<1>7. chroma' = Marked(h.known, FALSE) => NoneActive' /\ Present'
  <2> SUFFICES ASSUME chroma' = Marked(h.known, FALSE)  PROVE NoneActive' /\ Present'
    OBVIOUS
  <2>1. \A v \in Acknowledged : chroma'[v] # "active" /\ (chroma'[v] = "absent" => chroma[v] = "absent")
    BY <1>2, AcknowledgedIn DEF Marked
  <2> QED  BY <1>1, <1>4, <1>5, <2>1 DEF NoneActive, Present
<1>8. chroma' = chroma => Agree' /\ Present' /\ (~h.active => NoneActive')
  <2> SUFFICES ASSUME chroma' = chroma  PROVE Agree' /\ Present' /\ (~h.active => NoneActive')
    OBVIOUS
  <2>1. Agree' /\ Present'
    BY <1>1, <1>4, <1>5, SameStores
  <2>2. ~h.active => NoneActive
    BY <1>2, <1>4, AcknowledgedIn DEF Agree, NoneActive
  <2> QED  BY <1>1, <1>5, <2>1, <2>2, SameStores
<1>9. {"mark", "upsert", "cleanup"} \subseteq Place
  BY DEF Place
<1>10. CASE Goto(q, "mark") /\ chroma' = chroma
  <2>1. Moved(h, handler'[q], "mark", 0)
    BY <1>1, <1>9, <1>10, MovesTo
  <2>2. PhaseInv(q)'
    BY <1>1, <1>2, <1>4, <1>5, <1>8, <1>10, <2>1 DEF PhaseInv, Moved, At
  <2> QED  BY <1>1, <1>5, <2>1, <2>2, SeqStep DEF Moved
<1>11. CASE Goto(q, "upsert") /\ chroma' = Marked(h.known, FALSE)
  <2>1. Moved(h, handler'[q], "upsert", 0)
    BY <1>1, <1>9, <1>11, MovesTo
  <2>2. PhaseInv(q)'
    BY <1>1, <1>2, <1>4, <1>5, <1>7, <1>11, <2>1 DEF PhaseInv, Moved, At
  <2> QED  BY <1>1, <1>5, <2>1, <2>2, SeqStep DEF Moved
<1>12. CASE Raise(q, "cleanup")
  <2>1. Moved(h, handler'[q], "cleanup", 1)
    BY <1>1, <1>9, <1>12, MovesTo
  <2>2. handler'[q].failures >= 1
    BY <1>2, <2>1 DEF Moved
  <2>3. Present' /\ (~h.active => NoneActive')
    BY <1>6, <1>7, <1>8
  <2>4. PhaseInv(q)'
    BY <1>1, <1>2, <1>4, <1>5, <2>1, <2>2, <2>3 DEF PhaseInv, Moved, At
  <2> QED  BY <1>1, <1>5, <2>1, <2>4, SeqStep DEF Moved
<1> QED  BY <1>2, <1>10, <1>11, <1>12 DEF Retire

LEMMA UpsertSeq ==
  ASSUME IInv, LeftInv, SeqInv, NEW q \in Request, Upsert(q), Undisturbed'
  PROVE  SeqInv'
<1> DEFINE h == handler[q]
<1>1. Works(q) /\ h.pc = "upsert" /\ UNCHANGED <<doc, version>>
  BY DEF Works, Upsert, At
<1>2. /\ ~doc.deleted /\ h.active = doc.active /\ Acknowledged \subseteq h.known
      /\ h.failures \in Nat /\ q \notin Acknowledged
      /\ chroma \in [Request -> {"absent", "active", "inactive"}]
  BY <1>1, InHand DEF VersionPlaces
<1>3. PhaseInv(q)
  BY <1>1, Before
<1>4. /\ NoneActive /\ Present
      /\ \A v \in Acknowledged : version[v].number < version[q].number
  BY <1>1, <1>3 DEF PhaseInv, At, VersionPlaces
<1>5. Stored' = Stored /\ Acknowledged' = Acknowledged
  BY <1>1, StillAcknowledged
<1>6. chroma' = chroma \/ chroma' = Added(q, h.active)
  BY DEF Upsert
<1>7. NoneActive' /\ Present' /\ (chroma' = Added(q, h.active) => chroma'[q] = Shown(h.active))
  <2>1. \A v \in Acknowledged : chroma'[v] = chroma[v]
    BY <1>2, <1>6, AcknowledgedIn DEF Added
  <2>2. chroma' = Added(q, h.active) => chroma'[q] = Shown(h.active)
    BY <1>2 DEF Added, Shown
  <2> QED  BY <1>1, <1>4, <1>5, <2>1, <2>2 DEF NoneActive, Present
<1>8. {"complete", "cleanup"} \subseteq Place
  BY DEF Place
<1>9. CASE Goto(q, "complete") /\ chroma' = Added(q, h.active)
  <2>1. Moved(h, handler'[q], "complete", 0)
    BY <1>1, <1>8, <1>9, MovesTo
  <2>2. PhaseInv(q)'
    BY <1>1, <1>2, <1>4, <1>5, <1>7, <1>9, <2>1 DEF PhaseInv, Moved, At, Shown
  <2> QED  BY <1>1, <1>5, <2>1, <2>2, SeqStep DEF Moved
<1>10. CASE Raise(q, "cleanup")
  <2>1. Moved(h, handler'[q], "cleanup", 1)
    BY <1>1, <1>8, <1>10, MovesTo
  <2>2. handler'[q].failures >= 1
    BY <1>2, <2>1 DEF Moved
  <2>3. PhaseInv(q)'
    BY <1>1, <1>2, <1>4, <1>5, <1>7, <2>1, <2>2 DEF PhaseInv, Moved, At
  <2> QED  BY <1>1, <1>5, <2>1, <2>3, SeqStep DEF Moved
<1> QED  BY <1>9, <1>10 DEF Upsert

LEMMA CompleteSeq ==
  ASSUME IInv, LeftInv, SeqInv, NEW q \in Request, Complete(q), Undisturbed'
  PROVE  SeqInv'
<1> DEFINE h == handler[q]
<1>1. Works(q) /\ h.pc = "complete" /\ UNCHANGED <<doc, chroma>>
  BY DEF Works, Complete, At
<1>2. /\ ~doc.deleted /\ h.active = doc.active /\ Acknowledged \subseteq h.known
      /\ TypeOK /\ h \in Handler /\ q \in DOMAIN handler
      /\ h.failures \in Nat /\ q \notin Acknowledged /\ h.active \in BOOLEAN
  BY <1>1, InHand DEF VersionPlaces
<1>3. PhaseInv(q) /\ Running = {q} /\ Undisturbed
  BY <1>1, Before
<1>4. /\ NoneActive /\ Present /\ chroma[q] = Shown(h.active)
      /\ \A v \in Acknowledged : version[v].number < version[q].number
  BY <1>1, <1>3 DEF PhaseInv, At, VersionPlaces
<1>5. CASE Finish(q, "ok") /\ version' = [version EXCEPT ![q].status = "completed"]
  <2>1. version[q].status = "processing"
    BY <1>1 DEF IInv, PlaceInv, VersionPlaces, InDoubt
  <2>2. Stored' = Stored /\ Acknowledged' = Acknowledged \cup {q}
    <3>1. Stored' = Stored /\ Indexed' = Indexed \cup {q}
      BY <1>5, <2>1, FinalStatus
    <3>2. handler[q].failures = 0
      BY <1>1 DEF IInv, PlaceInv, Smooth
    <3>3. handler'[q].failures = 0
      BY <1>1, <1>2, <1>5, <3>2, MovesTo DEF Moved
    <3> QED  BY <1>1, <3>1, <3>3, AcknowledgedAfter DEF Acknowledged
  <2>3. \A v \in Request : version'[v].number = version[v].number
    BY <1>2, <1>5 DEF TypeOK, VersionRow
  <2>4. \A v \in Request : version[v].number \in Nat
    BY <1>2, StoredFinite DEF TypeOK, VersionRow, Number
  <2>5. Agree'
    <3>1. CASE doc.active
      <4>1. ASSUME NEW v \in Acknowledged',
                   \A w \in Acknowledged' : version'[w].number <= version'[v].number
            PROVE  v = q
        <5>1. v \in Request
          BY <2>2, <4>1, AcknowledgedIn
        <5>2. version[q].number <= version[v].number
          BY <2>2, <2>3, <4>1, <5>1
        <5>3. v \in Acknowledged => version[v].number < version[q].number
          BY <1>4
        <5> QED  BY <2>2, <2>4, <4>1, <5>1, <5>2, <5>3
      <4>2. chroma[q] = "active"
        BY <1>2, <1>4, <3>1 DEF Shown
      <4> QED  BY <1>1, <1>2, <3>1, <4>1, <4>2 DEF Agree
    <3>2. CASE ~doc.active
      <4>1. \A v \in Request \ (Acknowledged \cup {q}) : chroma[v] = "absent"
        BY <1>3, OnlyMine
      <4>2. \A v \in Request : chroma[v] # "active"
        BY <1>2, <1>4, <3>2, <4>1 DEF Shown, NoneActive
      <4> QED  BY <1>1, <3>2, <4>2 DEF Agree
    <3> QED  BY <3>1, <3>2
  <2>6. Present'
    BY <1>1, <1>4, <2>2 DEF Present, Shown
  <2>7. handler'[q].pc = "done"
    BY <1>1, <1>5, MovesTo DEF Moved
  <2> QED  BY <1>1, <2>2, <2>5, <2>6, <2>7, SeqStep
<1>6. ASSUME NEW b \in BOOLEAN,
             version' = version \/ version' = [version EXCEPT ![q].status = "completed"],
             handler' = [handler EXCEPT ![q].pc = "cleanup", ![q].failures = @ + 1,
                           ![q].begun = TRUE, ![q].expired = b]
      PROVE  SeqInv'
  <2>1. /\ handler'[q].pc = "cleanup" /\ handler'[q].failures = h.failures + 1
        /\ handler'[q].kind = h.kind /\ handler'[q].active = h.active
        /\ handler'[q].known = h.known
    BY <1>2, <1>6 DEF Handler
  <2>2. handler'[q].failures >= 1
    BY <1>2, <2>1
  <2>6. version[q].status = "processing"
    BY <1>1 DEF IInv, PlaceInv, VersionPlaces, InDoubt
  <2>7. /\ Stored' = Stored /\ Indexed \subseteq Indexed' /\ Indexed' \subseteq Indexed \cup {q}
        /\ \A v \in Request \ {q} : version'[v] = version[v]
        /\ version'[q].number = version[q].number
    BY <1>2, <1>6, <2>6, SameVersions, FinalStatus DEF TypeOK, VersionRow
  <2>8. handler'[q].failures > 0
    BY <1>2, <2>1
  <2>3. Stored' = Stored /\ Acknowledged' = Acknowledged
    BY <1>1, <2>7, <2>8, AcknowledgedAfter
  <2>9. \A v \in Acknowledged : version'[v] = version[v]
    BY <1>2, <2>7, AcknowledgedIn
  <2>4. NoneActive' /\ Present'
    BY <1>1, <1>4, <2>3, <2>9, SameStores
  <2>5. PhaseInv(q)'
    BY <1>1, <1>2, <1>4, <2>1, <2>2, <2>3, <2>4, <2>7, <2>9 DEF PhaseInv, At
  <2> QED  BY <1>1, <2>1, <2>3, <2>5, SeqStep
<1>7. Complete(q) =>
        \/ Finish(q, "ok") /\ version' = [version EXCEPT ![q].status = "completed"]
        \/ \E expired \in BOOLEAN :
             /\ handler' = [handler EXCEPT ![q].pc = "cleanup", ![q].failures = @ + 1,
                              ![q].begun = TRUE, ![q].expired = expired]
             /\ \/ version' = version
                \/ version' = [version EXCEPT ![q].status = "completed"]
  BY DEF Complete
<1> QED  BY <1>5, <1>6, <1>7

LEMMA CleanupSeq ==
  ASSUME IInv, LeftInv, SeqInv, NEW q \in Request, Cleanup(q), Undisturbed'
  PROVE  SeqInv'
<1> DEFINE h == handler[q]
<1>1. Works(q) /\ h.pc = "cleanup" /\ UNCHANGED <<doc, version>>
  BY DEF Works, Cleanup, At
<1>2. /\ ~doc.deleted /\ h.active = doc.active /\ Acknowledged \subseteq h.known
      /\ h.failures \in Nat /\ q \notin Acknowledged
  BY <1>1, InHand DEF VersionPlaces
<1>3. PhaseInv(q) /\ handler'[q].failures <= 1
  BY <1>1, Before
<1>4. /\ h.failures >= 1 /\ (~h.active => NoneActive) /\ Present
      /\ \A v \in Acknowledged : version[v].number < version[q].number
  BY <1>1, <1>3 DEF PhaseInv, At, VersionPlaces
<1>5. Stored' = Stored /\ Acknowledged' = Acknowledged
  BY <1>1, StillAcknowledged
<1>6. "restore" \in Place
  BY DEF Place
<1>7. ~Raise(q, "restore")
  <2> SUFFICES ASSUME Raise(q, "restore")  PROVE FALSE
    OBVIOUS
  <2>1. handler'[q].failures = h.failures + 1
    BY <1>1, <1>6, MovesTo DEF Moved
  <2> QED  BY <1>2, <1>3, <1>4, <2>1
<1>8. Goto(q, "restore") /\ chroma' = Deleted({q})
  BY <1>7 DEF Cleanup
<1>9. Moved(h, handler'[q], "restore", 0)
  BY <1>1, <1>6, <1>8, MovesTo
<1>10. handler'[q].failures >= 1
  BY <1>2, <1>4, <1>9 DEF Moved
<1>11. Present' /\ (~h.active => NoneActive')
  <2>1. \A v \in Acknowledged : chroma'[v] = chroma[v]
    BY <1>2, <1>8, AcknowledgedIn DEF Deleted
  <2> QED  BY <1>1, <1>4, <1>5, <2>1 DEF NoneActive, Present
<1>12. PhaseInv(q)'
  BY <1>1, <1>2, <1>4, <1>5, <1>9, <1>10, <1>11 DEF PhaseInv, Moved, At
<1> QED  BY <1>1, <1>5, <1>9, <1>12, SeqStep DEF Moved

LEMMA RestoreSeq ==
  ASSUME IInv, LeftInv, SeqInv, NEW q \in Request, Restore(q), Undisturbed'
  PROVE  SeqInv'
<1> DEFINE h == handler[q]
<1>1. Works(q) /\ h.pc = "restore" /\ UNCHANGED <<doc, version>>
  BY DEF Works, Restore, At
<1>2. /\ ~doc.deleted /\ h.active = doc.active /\ Acknowledged \subseteq h.known
      /\ h.failures \in Nat /\ q \notin Acknowledged /\ h.active \in BOOLEAN
      /\ \A v \in Request \ Acknowledged : chroma[v] = "absent"
  BY <1>1, InHand DEF VersionPlaces
<1>3. PhaseInv(q) /\ handler'[q].failures <= 1 /\ ~handler'[q].expired
  BY <1>1, Before
<1>4. /\ h.failures >= 1 /\ (~h.active => NoneActive) /\ Present
      /\ \A v \in Acknowledged : version[v].number < version[q].number
  BY <1>1, <1>3 DEF PhaseInv, At, VersionPlaces
<1>5. Stored' = Stored /\ Acknowledged' = Acknowledged
  BY <1>1, StillAcknowledged
<1>6. "mark" \in Place
  BY DEF Place
<1>7. ~Raise(q, "mark")
  <2> SUFFICES ASSUME Raise(q, "mark")  PROVE FALSE
    OBVIOUS
  <2>1. handler'[q].failures = h.failures + 1
    BY <1>1, <1>6, MovesTo DEF Moved
  <2> QED  BY <1>2, <1>3, <1>4, <2>1
<1>8. ~(h.expired /\ Finish(q, "error"))
  BY <1>1, <1>3, MovesTo DEF Moved
<1>9. Goto(q, "mark") /\ chroma' = IF h.active THEN Marked(h.known, TRUE) ELSE chroma
  BY <1>2, <1>7, <1>8 DEF Restore
<1>10. Moved(h, handler'[q], "mark", 0)
  BY <1>1, <1>6, <1>9, MovesTo
<1>11. Agree' /\ Present'
  <2>1. CASE h.active
    <3>1. \A v \in Acknowledged : chroma[v] # "absent"
      BY <1>2, <1>4 DEF Present
    <3>2. \A v \in Acknowledged : chroma'[v] = "active"
      BY <1>2, <1>9, <2>1, <3>1, AcknowledgedIn DEF Marked
    <3> QED  BY <1>1, <1>2, <1>5, <2>1, <3>2 DEF Agree, Present
  <2>2. CASE ~h.active
    <3>1. \A v \in Request : chroma[v] # "active"
      BY <1>2, <1>4, <2>2 DEF NoneActive
    <3> QED  BY <1>1, <1>2, <1>4, <1>5, <1>9, <2>2, <3>1 DEF Agree, Present
  <2> QED  BY <2>1, <2>2
<1>12. PhaseInv(q)'
  BY <1>1, <1>2, <1>4, <1>5, <1>10, <1>11 DEF PhaseInv, Moved, At
<1> QED  BY <1>1, <1>5, <1>10, <1>12, SeqStep DEF Moved

LEMMA MarkSeq ==
  ASSUME IInv, LeftInv, SeqInv, NEW q \in Request, Mark(q), Undisturbed'
  PROVE  SeqInv'
<1>1. Works(q) /\ handler[q].pc = "mark" /\ UNCHANGED <<doc, chroma>>
  BY DEF Works, Mark, At
<1>2. PhaseInv(q) /\ TypeOK
  BY <1>1, Before, Waiting
<1>3. Agree /\ Present
  BY <1>1, <1>2 DEF PhaseInv, At
<1>4. version[q].status = "processing" \/ handler[q].begun
  BY <1>1 DEF IInv, PlaceInv, VersionPlaces, InDoubt
<1>5. q \notin Acknowledged
  BY <1>1, NotAcknowledged
<1>6. \/ version' = version
      \/ ~handler[q].begun /\ version' = [version EXCEPT ![q].status = "failed"]
  BY DEF Mark
<1>7. /\ Stored' = Stored /\ Acknowledged' = Acknowledged
      /\ \A v \in Acknowledged : version'[v] = version[v]
  <2>1. CASE version' = version
    BY <1>1, <2>1, StillAcknowledged
  <2>2. CASE ~handler[q].begun /\ version' = [version EXCEPT ![q].status = "failed"]
    <3>1. /\ Stored' = Stored /\ Indexed' = Indexed
          /\ \A v \in Request \ {q} : version'[v] = version[v]
      BY <1>4, <2>2, FinalStatus
    <3> QED  BY <1>1, <1>5, <3>1, AcknowledgedAfter, AcknowledgedIn
  <2> QED  BY <1>6, <2>1, <2>2
<1>8. Agree' /\ Present'
  BY <1>1, <1>3, <1>7, SameStores
<1>9. handler'[q].pc = "done"
  BY <1>1, MovesTo DEF Moved, Mark, Place
<1> QED  BY <1>1, <1>7, <1>8, <1>9, SeqStep

LEMMA ChangeSeq ==
  ASSUME IInv, LeftInv, SeqInv, NEW q \in Request, Change(q), Undisturbed'
  PROVE  SeqInv'
<1> DEFINE h == handler[q]
<1>1. Works(q) /\ h.pc = "change" /\ UNCHANGED <<doc, version>>
  BY DEF Works, Change, At
<1>2. /\ ~doc.deleted /\ h.active = doc.active /\ Acknowledged \subseteq h.known
      /\ h.failures \in Nat /\ h.wanted \in BOOLEAN
  BY <1>1, InHand
<1>3. PhaseInv(q) /\ (h.kind \in {"status", "remove"} => handler'[q].failures <= 0)
  BY <1>1, Before
<1>4. Present /\ h.kind = "status"
  BY <1>1, <1>3 DEF PhaseInv, At
<1>5. Stored' = Stored /\ Acknowledged' = Acknowledged
  BY <1>1, StillAcknowledged
<1>6. {"commit", "done"} \subseteq Place
  BY DEF Place
<1>7. ~Raise(q, "done")
  <2> SUFFICES ASSUME Raise(q, "done")  PROVE FALSE
    OBVIOUS
  <2>1. handler'[q].failures = h.failures + 1
    BY <1>1, <1>6, MovesTo DEF Moved
  <2> QED  BY <1>2, <1>3, <1>4, <2>1
<1>8. Goto(q, "commit") /\ chroma' = Marked(h.known, h.wanted)
  BY <1>2, <1>7 DEF Change
<1>9. Moved(h, handler'[q], "commit", 0)
  BY <1>1, <1>6, <1>8, MovesTo
<1>10. \A v \in Acknowledged : chroma'[v] = Shown(h.wanted)
  <2>1. \A v \in Acknowledged : chroma[v] # "absent"
    BY <1>2, <1>4 DEF Present
  <2> QED  BY <1>2, <1>8, <2>1, AcknowledgedIn DEF Marked, Shown
<1>11. Present'
  BY <1>5, <1>10 DEF Present, Shown
<1>12. PhaseInv(q)'
  BY <1>1, <1>2, <1>4, <1>5, <1>9, <1>10, <1>11 DEF PhaseInv, Moved, At, VersionPlaces, Shown
<1> QED  BY <1>1, <1>5, <1>9, <1>12, SeqStep DEF Moved

LEMMA SetActiveSeq ==
  ASSUME IInv, LeftInv, SeqInv, NEW q \in Request, SetActive(q), Undisturbed'
  PROVE  SeqInv'
<1> DEFINE h == handler[q]
<1>1. Works(q) /\ h.pc = "commit" /\ UNCHANGED <<version, chroma>>
  BY DEF Works, SetActive, At
<1>2. /\ ~doc.deleted /\ h.active = doc.active /\ Acknowledged \subseteq h.known
      /\ TypeOK /\ h.failures \in Nat /\ h.wanted \in BOOLEAN
      /\ \A v \in Request \ Acknowledged : chroma[v] = "absent"
  BY <1>1, InHand
<1>3. PhaseInv(q) /\ (h.kind \in {"status", "remove"} => handler'[q].failures <= 0)
  BY <1>1, Before
<1>4. h.kind = "status" /\ \A v \in Acknowledged : chroma[v] = Shown(h.wanted)
  BY <1>1, <1>3 DEF PhaseInv, At
<1>5. Stored' = Stored /\ Acknowledged' = Acknowledged
  BY <1>1, StillAcknowledged
<1>6. ~Raise(q, "done")
  <2> SUFFICES ASSUME Raise(q, "done")  PROVE FALSE
    OBVIOUS
  <2>1. handler'[q].failures = h.failures + 1
    BY <1>1, MovesTo DEF Moved, Place
  <2> QED  BY <1>2, <1>3, <1>4, <2>1
<1>7. Finish(q, "ok") /\ doc' = [doc EXCEPT !.active = Written(q, h.wanted)]
  BY <1>6 DEF SetActive
<1>8. doc'.active = h.wanted /\ ~doc'.deleted
  BY <1>2, <1>7 DEF Written, TypeOK, Doc
<1>9. Agree' /\ Present'
  <2>1. CASE h.wanted
    BY <1>1, <1>4, <1>5, <1>8, <2>1 DEF Agree, Present, Shown
  <2>2. CASE ~h.wanted
    <3>1. \A v \in Request : chroma[v] # "active"
      BY <1>2, <1>4, <2>2 DEF Shown
    <3> QED  BY <1>1, <1>4, <1>5, <1>8, <2>2, <3>1 DEF Agree, Present, Shown
  <2> QED  BY <2>1, <2>2
<1>10. handler'[q].pc = "done"
  BY <1>1, <1>7, MovesTo DEF Moved
<1> QED  BY <1>1, <1>5, <1>9, <1>10, SeqStep

LEMMA DeleteSeq ==
  ASSUME IInv, LeftInv, SeqInv, NEW q \in Request, Delete(q), Undisturbed'
  PROVE  SeqInv'
<1> DEFINE h == handler[q]
<1>1. Works(q) /\ h.pc = "delete" /\ UNCHANGED <<doc, version>>
  BY DEF Works, Delete, At
<1>2. /\ ~doc.deleted /\ h.active = doc.active /\ Acknowledged \subseteq h.known
      /\ h.failures \in Nat
  BY <1>1, InHand
<1>3. PhaseInv(q) /\ (h.kind \in {"status", "remove"} => handler'[q].failures <= 0)
  BY <1>1, Before
<1>4. h.kind = "remove"
  BY <1>1, <1>3 DEF PhaseInv
<1>5. Stored' = Stored /\ Acknowledged' = Acknowledged
  BY <1>1, StillAcknowledged
<1>6. {"soft", "done"} \subseteq Place
  BY DEF Place
<1>7. ~Raise(q, "done")
  <2> SUFFICES ASSUME Raise(q, "done")  PROVE FALSE
    OBVIOUS
  <2>1. handler'[q].failures = h.failures + 1
    BY <1>1, <1>6, MovesTo DEF Moved
  <2> QED  BY <1>2, <1>3, <1>4, <2>1
<1>8. Goto(q, "soft") /\ chroma' = Deleted(h.known)
  BY <1>2, <1>7 DEF Delete
<1>9. Moved(h, handler'[q], "soft", 0)
  BY <1>1, <1>6, <1>8, MovesTo
<1>10. \A v \in Acknowledged : chroma'[v] = "absent"
  BY <1>2, <1>8, AcknowledgedIn DEF Deleted
<1>11. PhaseInv(q)'
  BY <1>1, <1>2, <1>4, <1>5, <1>9, <1>10 DEF PhaseInv, Moved, At, VersionPlaces
<1> QED  BY <1>1, <1>5, <1>9, <1>11, SeqStep DEF Moved

LEMMA SoftDeleteSeq ==
  ASSUME IInv, LeftInv, SeqInv, NEW q \in Request, SoftDelete(q), Undisturbed'
  PROVE  SeqInv'
<1> DEFINE h == handler[q]
<1>1. Works(q) /\ h.pc = "soft" /\ UNCHANGED <<version, chroma>>
  BY DEF Works, SoftDelete, At
<1>2. TypeOK /\ h.failures \in Nat /\ \A v \in Request \ Acknowledged : chroma[v] = "absent"
  BY <1>1, InHand
<1>3. PhaseInv(q) /\ (h.kind \in {"status", "remove"} => handler'[q].failures <= 0)
  BY <1>1, Before
<1>4. h.kind = "remove" /\ \A v \in Acknowledged : chroma[v] = "absent"
  BY <1>1, <1>3 DEF PhaseInv, At
<1>5. Stored' = Stored
  BY <1>1, StillAcknowledged
<1>6. ~Raise(q, "done")
  <2> SUFFICES ASSUME Raise(q, "done")  PROVE FALSE
    OBVIOUS
  <2>1. handler'[q].failures = h.failures + 1
    BY <1>1, MovesTo DEF Moved, Place
  <2> QED  BY <1>2, <1>3, <1>4, <2>1
<1>7. Finish(q, "ok") /\ doc' = [doc EXCEPT !.active = Written(q, FALSE), !.deleted = TRUE]
  BY <1>6 DEF SoftDelete
<1>8. doc'.deleted
  BY <1>2, <1>7 DEF TypeOK, Doc
<1>9. \A v \in Request : chroma'[v] # "active"
  BY <1>1, <1>2, <1>4
<1>10. Agree' /\ Present'
  BY <1>8, <1>9 DEF Agree, Present
<1>11. handler'[q].pc = "done"
  BY <1>1, <1>7, MovesTo DEF Moved
<1> QED  BY <1>1, <1>5, <1>10, <1>11, SeqStep

LEMMA InitSeq == ASSUME Init PROVE SeqInv
<1>1. Stored = {} /\ Acknowledged = {} /\ Running = {}
  BY DEF Init, Stored, Acknowledged, Indexed, Running, Idle
<1>2. Agree /\ Present
  BY <1>1 DEF Init, Agree, Present
<1> QED  BY <1>1, <1>2 DEF SeqInv

LEMMA SeqNext == ASSUME IInv, LeftInv, SeqInv, [Next]_vars PROVE SeqInv'
<1>1. CASE UNCHANGED vars
  <2>1. UNCHANGED <<doc, version, chroma, handler, crashes, overlap>>
    BY <1>1 DEF vars
  <2>2. /\ Stored' = Stored /\ Acknowledged' = Acknowledged /\ Running' = Running /\ Came' = Came
        /\ (Undisturbed' => Undisturbed)
    BY <2>1 DEF Stored, Acknowledged, Indexed, Running, Came, Undisturbed
  <2>3. (Agree => Agree') /\ (Present => Present') /\ (NoneActive => NoneActive')
    BY <2>1, <2>2, SameStores
  <2>4. \A q \in Request : PhaseInv(q) => PhaseInv(q)'
    BY <2>1, <2>2, <2>3 DEF PhaseInv, At
  <2>5. Running \subseteq Request
    BY DEF Running
  <2> QED  BY <2>1, <2>2, <2>3, <2>4, <2>5 DEF SeqInv
<1>2. CASE Crash
  <2>1. crashes' > 0
    BY <1>2, KnowledgeAssumption DEF Crash, IInv, TypeOK
  <2>2. ~Undisturbed'
    BY <2>1 DEF Undisturbed
  <2> QED  BY <2>2 DEF SeqInv
<1>3. CASE ~Undisturbed'
  BY <1>3 DEF SeqInv
<1> QED  BY <1>1, <1>2, <1>3, BeginSeq, GetSeq, LoadSeq, CreateSeq, RetireSeq, UpsertSeq,
            CompleteSeq, CleanupSeq, RestoreSeq, MarkSeq, ChangeSeq, SetActiveSeq, DeleteSeq,
            SoftDeleteSeq DEF Next

-----------------------------------------------------------------------------
(***************************************************************************)
(* The theorems.                                                           *)
(***************************************************************************)

\* The strengthening holds in every state: where a handler is tells what status
\* its version has, which is "completed" before its end only if a COMMIT's reply
\* was lost, that the version's chunks are in Chroma when it is about to be
\* completed, and that what was read of the versions still holds of them.
THEOREM Invariant == Spec => []IInv
<1>1. Init => IInv
  BY InitInv
<1>2. IInv /\ [Next]_vars => IInv'
  <2> SUFFICES ASSUME IInv, [Next]_vars  PROVE IInv'
    OBVIOUS
  <2>1. ASSUME NEW q \in Request,
               \/ Begin(q) \/ Get(q) \/ Load(q) \/ Create(q) \/ Retire(q) \/ Upsert(q)
               \/ Complete(q) \/ Cleanup(q) \/ Restore(q) \/ Mark(q)
               \/ Change(q) \/ SetActive(q) \/ Delete(q) \/ SoftDelete(q)
        PROVE  IInv'
    BY <2>1, BeginInv, GetInv, LoadInv, CreateInv, RetireInv, UpsertInv, CompleteInv,
       CleanupInv, RestoreInv, MarkInv, ChangeInv, DeleteInv, DocInv
  <2> QED  BY <2>1, CrashInv, StutterInv DEF Next
<1> QED  BY <1>1, <1>2, PTL DEF Spec

\* The rows, the chunks and the coroutines have their types, and no version gets
\* a number beyond the number of requests.
THEOREM TypeCorrect == Spec => []TypeOK
<1>1. IInv => TypeOK
  BY DEF IInv
<1> QED  BY <1>1, Invariant, PTL

\* However the requests overlap, whichever calls fail and whenever the process
\* dies, the versions of a document are numbered from 1 without gap: of two
\* reprocessings that read the same maximum one violates the unique constraint.
THEOREM NumbersConsecutive == Spec => []VersionNumbersConsecutive
<1>1. IInv => VersionNumbersConsecutive
  BY DEF IInv
<1> QED  BY <1>1, Invariant, PTL

\* No cleanup of another failed upload or reprocessing, no retiring and no change
\* of status takes the chunks of a version that is on record as completed. (Its own
\* request's cleanup does, when only the reply of complete_version's COMMIT was
\* lost; such a version is not one of the acknowledged.)
THEOREM CompletedKeepsChunks == Spec => []CompletedIsIndexed
<1>1. IInv => CompletedIsIndexed
  BY DEF IInv
<1> QED  BY <1>1, Invariant, PTL

\* How a version that was not acknowledged may have kept its chunks, and what the two
\* stores hold around and between requests that are handled one after the other.
THEOREM StoresInvariant == Spec => [](IInv /\ LeftInv /\ SeqInv)
<1>1. Init => LeftInv /\ SeqInv
  BY InitLeft, InitSeq
<1>2. IInv /\ LeftInv /\ SeqInv /\ [Next]_vars => LeftInv' /\ SeqInv'
  BY LeftNext, SeqNext
<1> QED  BY <1>1, <1>2, Invariant, PTL DEF Spec

\* Whatever the other requests do at the same time, chunks of a failed upload or
\* reprocessing stay in Chroma only if the call that cleans up failed too.
THEOREM OneFailureLeavesNothing == Spec => []LeftoversNeedTwoFailures
<1>1. IInv /\ LeftInv => LeftoversNeedTwoFailures
  BY AcknowledgedIn DEF LeftInv, LeftoversNeedTwoFailures, Excused, At
<1> QED  BY <1>1, StoresInvariant, PTL

\* Between requests that did not overlap, Chroma holds what the row of the
\* document promises of the versions whose requests succeeded, although no
\* transaction spans the two: the compensation of a failed reprocessing restores
\* what the retiring of the old chunks took away, also when the reply of its last
\* COMMIT was lost.
THEOREM StoresAgreeBetween == Spec => []StoresAgree
<1>1. SeqInv => StoresAgree
  BY DEF SeqInv, StoresAgree, Agree
<1> QED  BY <1>1, StoresInvariant, PTL
=============================================================================
