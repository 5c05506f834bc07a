-------------------------- MODULE ChatMemoryProofs --------------------------
(***************************************************************************)
(* Proofs about ChatMemory, for any number of requests, any limit and any  *)
(* number of handlers, tasks and INSERTs at once.                          *)
(***************************************************************************)
EXTENDS ChatMemory, FiniteSetTheorems, WellFoundedInduction, TLAPS

-----------------------------------------------------------------------------
(***************************************************************************)
(* Sets of times.                                                          *)
(***************************************************************************)
LEMMA NatMin ==
  ASSUME NEW T \in SUBSET Nat, T # {}
  PROVE  \E n \in T : \A m \in T : n <= m
<1>1. PICK x \in T : \A y \in T : ~(<<y, x>> \in OpToRel(<, Nat))
  BY NatLessThanWellFounded, WFMin
<1>2. \A y \in T : ~(y < x)
  BY <1>1 DEF OpToRel
<1> QED  BY <1>2

LEMMA NatMax ==
  ASSUME NEW T \in SUBSET Nat, T # {}, NEW b \in Nat, \A m \in T : m <= b
  PROVE  /\ MaxOf(T) \in T
         /\ \A m \in T : m <= MaxOf(T)
<1> DEFINE U == {b - m : m \in T}
<1>1. U \in SUBSET Nat /\ U # {}
  <2>1. \A m \in T : b - m \in Nat
    OBVIOUS
  <2> QED  BY <2>1
<1>2. PICK u \in U : \A v \in U : u <= v
  BY <1>1, NatMin
<1>3. PICK n \in T : u = b - n
  OBVIOUS
<1>4. \A m \in T : b - n <= b - m
  BY <1>2, <1>3
<1>5. \A m \in T : m <= n
  BY <1>4
<1> QED  BY <1>5 DEF MaxOf

\* What the newest of a finite set of times are: they are later than the rest,
\* and no more than their number.
Later(m, U) == {k \in U : k > m}

LEMMA LaterShrinks ==
  ASSUME NEW U \in SUBSET Nat, IsFiniteSet(U), NEW m \in U, NEW k \in U, m < k
  PROVE  /\ Cardinality(Later(m, U)) \in Nat /\ Cardinality(Later(k, U)) \in Nat
         /\ Cardinality(Later(k, U)) <= Cardinality(Later(m, U))
<1> USE DEF Later
<1>1. Later(m, U) \subseteq U /\ Later(k, U) \subseteq Later(m, U)
  <2>1. \A x \in U : x > k => x > m
    OBVIOUS
  <2> QED  BY <2>1
<1>2. IsFiniteSet(Later(m, U)) /\ IsFiniteSet(Later(k, U))
  BY <1>1, FS_Subset
<1> QED  BY <1>1, <1>2, FS_Subset, FS_CardinalityType

LEMMA NewestIsLater ==
  ASSUME NEW U \in SUBSET Nat, IsFiniteSet(U), NEW n \in Nat,
         NEW m \in U \ Newest(n, U), NEW k \in Newest(n, U)
  PROVE  m < k
<1>1. k \in U /\ Cardinality(Later(k, U)) < n /\ ~(Cardinality(Later(m, U)) < n)
  BY DEF Newest, Later
<1>2. ASSUME k < m  PROVE FALSE
  BY <1>1, <1>2, LaterShrinks
<1>3. k # m
  OBVIOUS
<1> QED  BY <1>1, <1>2, <1>3

LEMMA NewestAreFew ==
  ASSUME NEW U \in SUBSET Nat, IsFiniteSet(U), NEW n \in Nat
  PROVE  /\ Newest(n, U) \subseteq U
         /\ Cardinality(Newest(n, U)) <= n
<1> DEFINE N == Newest(n, U)
<1>1. N \subseteq U /\ IsFiniteSet(N)
  BY FS_Subset DEF Newest
<1>2. CASE N = {}
  BY <1>2, FS_EmptySet
<1>3. CASE N # {}
  <2>1. N \in SUBSET Nat
    BY <1>1
  <2>2. PICK x \in N : \A y \in N : x <= y
    BY <1>3, <2>1, NatMin
  <2>3. N \ {x} \subseteq Later(x, U)
    BY <1>1, <2>1, <2>2 DEF Later
  <2>4. Cardinality(Later(x, U)) < n
    BY <2>2 DEF Newest, Later
  <2>5. IsFiniteSet(Later(x, U))
    BY FS_Subset DEF Later
  <2>6. Cardinality(N \ {x}) <= Cardinality(Later(x, U))
    BY <2>3, <2>5, FS_Subset
  <2>7. Cardinality(N \ {x}) = Cardinality(N) - 1
    BY <1>1, <2>2, FS_RemoveElement
  <2>8. Cardinality(N) \in Nat /\ Cardinality(Later(x, U)) \in Nat
    BY <1>1, <2>5, FS_CardinalityType
  <2> QED  BY <1>1, <2>4, <2>6, <2>7, <2>8
<1> QED  BY <1>1, <1>2, <1>3

-----------------------------------------------------------------------------
(***************************************************************************)
(* Types, with what a task has read: committed rows, and something to      *)
(* compress once it has asked the model.                                   *)
(***************************************************************************)
TaskInv ==
  \A r \in Request :
    /\ post[r].messages \subseteq rows
    /\ At(r, "llm") => ToCompress(post[r].messages, post[r].seen) # {}

TypeInv == TypeOK /\ TaskInv

LEMMA RowsFinite ==
  ASSUME TypeOK
  PROVE  /\ rows \in SUBSET Nat /\ inserting \in SUBSET Nat
         /\ \A ms \in SUBSET rows : ms \in SUBSET Nat /\ IsFiniteSet(ms)
         /\ IsFiniteSet(inserting)
         /\ \A m \in rows : m <= clock
<1>1. clock \in Nat /\ rows \subseteq 1..clock /\ inserting \subseteq 1..clock
  BY DEF TypeOK
<1>2. IsFiniteSet(1..clock)
  BY <1>1, FS_Interval
<1>3. \A ms \in SUBSET rows : IsFiniteSet(ms)
  BY <1>1, <1>2, FS_Subset
<1>4. IsFiniteSet(inserting)
  BY <1>1, <1>2, FS_Subset
<1> QED  BY <1>1, <1>3, <1>4

LEMMA NoPostType == NoPost \in Post /\ NoSummary \in Summary
BY DEF NoPost, NoSummary, Post, Summary

\* A handler that is left holds nothing.
LEMMA LeftPost ==
  ASSUME NEW pc \in {"compress", "done"}
  PROVE  LET p == [NoPost EXCEPT !.pc = pc]
         IN  p \in Post /\ p.pc = pc /\ p.mine = 0 /\ p.seen = NoSummary /\ p.messages = {}
BY NoPostType DEF NoPost, Post

\* What a step that changes one handler has to show of it.
LEMMA PostStep ==
  ASSUME TypeInv, NEW r \in Request, NEW p \in Post,
         post' = [post EXCEPT ![r] = p],
         clock' \in Nat, clock <= clock', inserting' \subseteq 1..clock',
         rows' = rows, late' = late, inserting' \cap rows = {},
         partials' \in Nat, summary' \in Summary,
         p.messages \subseteq rows,
         p.pc = "llm" => ToCompress(p.messages, p.seen) # {},
         p.pc = "sent" => Cardinality(p.messages) <= Limit
  PROVE  TypeInv'
<1>1. post'[r] = p /\ \A q \in Request \ {r} : post'[q] = post[q]
  BY DEF TypeInv, TypeOK
<1>2. rows' \subseteq (1..clock') \ inserting' /\ late' \subseteq rows'
  BY DEF TypeInv, TypeOK
<1>3. post' \in [Request -> Post]
  BY DEF TypeInv, TypeOK
<1>4. \A q \in Request : (At(q, "sent") => Cardinality(post[q].messages) <= Limit)'
  BY <1>1 DEF TypeInv, TypeOK, At
<1>5. TypeOK'
  BY <1>2, <1>3, <1>4 DEF TypeOK
<1>6. TaskInv'
  BY <1>1 DEF TypeInv, TaskInv, At
<1> QED  BY <1>5, <1>6 DEF TypeInv

\* The same for a step that inserts and commits nothing.
LEMMA QuietPost ==
  ASSUME TypeInv, NEW r \in Request, NEW p \in Post,
         post' = [post EXCEPT ![r] = p],
         UNCHANGED <<clock, inserting, rows, late>>,
         partials' \in Nat, summary' \in Summary,
         p.messages \subseteq rows,
         p.pc = "llm" => ToCompress(p.messages, p.seen) # {},
         p.pc = "sent" => Cardinality(p.messages) <= Limit
  PROVE  TypeInv'
<1>1. /\ clock' \in Nat /\ clock <= clock' /\ inserting' \subseteq 1..clock'
      /\ rows' = rows /\ late' = late /\ inserting' \cap rows = {}
  BY DEF TypeInv, TypeOK
<1> QED  BY <1>1, PostStep

\* A step that leaves a handler with nothing.
LEMMA LeaveStep ==
  ASSUME TypeInv, NEW r \in Request, NEW pc \in {"compress", "done"}, Leave(r, pc),
         UNCHANGED <<clock, inserting, rows, late>>,
         partials' \in Nat, summary' \in Summary
  PROVE  TypeInv'
<1> DEFINE p == [NoPost EXCEPT !.pc = pc]
<1>1. p \in Post /\ p.pc = pc /\ p.messages = {}
  BY LeftPost
<1>2. post' = [post EXCEPT ![r] = p]
  BY DEF Leave
<1> HIDE DEF p
<1> QED  BY <1>1, <1>2, QuietPost

LEMMA StampIs ==
  ASSUME TypeInv, Stamp
  PROVE  /\ clock' = clock + 1 /\ clock' \in Nat /\ clock <= clock'
         /\ inserting' = inserting \cup {clock'} /\ inserting' \subseteq 1..clock'
         /\ rows' = rows /\ late' = late /\ inserting' \cap rows = {}
         /\ summary' = summary
<1>1. clock \in Nat /\ rows \subseteq (1..clock) \ inserting /\ inserting \subseteq 1..clock
  BY DEF TypeInv, TypeOK
<1> QED  BY <1>1 DEF Stamp

\* What is compressed: the oldest of what is not covered.
LEMMA ToCompressIs ==
  ASSUME TypeOK, NEW ms \in SUBSET rows, NEW s \in Summary
  PROVE  /\ ToCompress(ms, s) \subseteq Uncovered(ms, s)
         /\ Uncovered(ms, s) \subseteq ms
         /\ \A c \in ToCompress(ms, s), m \in Uncovered(ms, s) :
              m < c => m \in ToCompress(ms, s)
<1> DEFINE U == Uncovered(ms, s)
<1>1. U \subseteq ms /\ U \in SUBSET Nat /\ IsFiniteSet(U)
  BY RowsFinite DEF Uncovered
<1>2. Limit \div 2 \in Nat
  BY MemoryAssumption
<1>3. ToCompress(ms, s) \in {{}, U \ Newest(Limit \div 2, U)}
  BY DEF ToCompress
<1>4. ASSUME NEW c \in U \ Newest(Limit \div 2, U), NEW m \in U, m < c
      PROVE  m \notin Newest(Limit \div 2, U)
  <2>1. SUFFICES ASSUME m \in Newest(Limit \div 2, U)  PROVE FALSE
    OBVIOUS
  <2>2. c < m
    BY <1>1, <1>2, <2>1, NewestIsLater
  <2> QED  BY <1>1, <1>4, <2>2
<1> QED  BY <1>1, <1>3, <1>4

LEMMA NewSummaryIs ==
  ASSUME TypeOK, NEW ms \in SUBSET rows, NEW s \in Summary, ToCompress(ms, s) # {}
  PROVE  /\ NewSummary(ms, s) \in Summary
         /\ NewSummary(ms, s).until \in ToCompress(ms, s)
         /\ \A m \in ToCompress(ms, s) : m <= NewSummary(ms, s).until
         /\ NewSummary(ms, s).covers = s.covers \cup ToCompress(ms, s)
<1> DEFINE C == ToCompress(ms, s)
<1>1. C \in SUBSET Nat /\ C # {} /\ clock \in Nat /\ \A m \in C : m <= clock
  BY ToCompressIs, RowsFinite DEF TypeOK
<1>2. MaxOf(C) \in C /\ \A m \in C : m <= MaxOf(C)
  BY <1>1, NatMax
<1>3. s.covers \subseteq Nat
  BY DEF Summary
<1> QED  BY <1>1, <1>2, <1>3 DEF NewSummary, Summary

-----------------------------------------------------------------------------
LEMMA TypeInit == Init => TypeInv
BY NoPostType, MemoryAssumption
   DEF Init, TypeInv, TypeOK, TaskInv, At, NoPost

Commits(m) ==
  /\ rows' = rows \cup {m}
  /\ late' = IF \E k \in rows : k > m THEN late \cup {m} ELSE late

LEMMA TypeSettle ==
  ASSUME TypeInv, Settle
  PROVE  TypeInv'
<1>1. PICK m \in inserting : /\ inserting' = inserting \ {m}
                             /\ Commits(m) \/ UNCHANGED <<rows, late>>
                             /\ UNCHANGED <<clock, partials, summary, post>>
  BY DEF Settle, Commits
<1>2. rows' \subseteq (1..clock') \ inserting' /\ rows \subseteq rows' /\ late' \subseteq rows'
  BY <1>1 DEF TypeInv, TypeOK, Commits
<1>3. TypeOK'
  BY <1>1, <1>2 DEF TypeInv, TypeOK, At
<1>4. TaskInv'
  BY <1>1, <1>2 DEF TypeInv, TaskInv, At
<1> QED  BY <1>3, <1>4 DEF TypeInv

LEMMA TypePartial ==
  ASSUME TypeInv, InsertPartial
  PROVE  TypeInv'
<1>1. Stamp /\ partials' \in Nat /\ post' = post
  BY DEF InsertPartial, TypeInv, TypeOK
<1>a. /\ clock' \in Nat /\ clock <= clock' /\ inserting' \subseteq 1..clock'
      /\ rows' = rows /\ late' = late /\ inserting' \cap rows = {}
  BY <1>1, StampIs
<1>2. rows' \subseteq (1..clock') \ inserting' /\ late' \subseteq rows'
  BY <1>a DEF TypeInv, TypeOK
<1>3. TypeOK'
  BY <1>1, <1>2, StampIs DEF TypeInv, TypeOK, At
<1>4. TaskInv'
  BY <1>1, StampIs DEF TypeInv, TaskInv, At
<1> QED  BY <1>3, <1>4 DEF TypeInv

LEMMA TypeLoad ==
  ASSUME TypeInv, NEW r \in Request, LoadChat(r) \/ GetSummary(r) \/ InsertUser(r)
  PROVE  TypeInv'
<1> USE DEF TypeInv, TypeOK
<1>1. CASE LoadChat(r)
  <2> DEFINE p == [post[r] EXCEPT !.pc = "loaded", !.seen = summary]
  <2>1. p \in Post /\ p.pc = "loaded" /\ p.messages \subseteq rows
    BY DEF Post, TaskInv
  <2>2. post' = [post EXCEPT ![r] = p]
    BY <1>1 DEF LoadChat
  <2>3. UNCHANGED <<clock, inserting, rows, late>> /\ partials' \in Nat /\ summary' \in Summary
    BY <1>1 DEF LoadChat
  <2> HIDE DEF p, TypeInv, TypeOK
  <2> QED  BY <2>1, <2>2, <2>3, QuietPost
<1>2. CASE GetSummary(r)
  <2> DEFINE p == [post[r] EXCEPT !.pc = "recall", !.seen = IF @ = NoSummary THEN summary ELSE @]
  <2>1. p \in Post /\ p.pc = "recall" /\ p.messages \subseteq rows
    BY DEF Post, TaskInv
  <2>2. post' = [post EXCEPT ![r] = p]
    BY <1>2 DEF GetSummary
  <2>3. UNCHANGED <<clock, inserting, rows, late>> /\ partials' \in Nat /\ summary' \in Summary
    BY <1>2 DEF GetSummary
  <2> HIDE DEF p, TypeInv, TypeOK
  <2> QED  BY <2>1, <2>2, <2>3, QuietPost
<1>3. CASE InsertUser(r)
  <2> DEFINE p == [post[r] EXCEPT !.pc = "insert", !.mine = clock + 1]
  <2>0. post[r] \in Post /\ clock + 1 \in Nat /\ post[r].messages \subseteq rows
    BY DEF TaskInv
  <2>1. p \in Post /\ p.pc = "insert" /\ p.messages \subseteq rows
    BY <2>0 DEF Post
  <2>2. post' = [post EXCEPT ![r] = p]
    BY <1>3 DEF InsertUser
  <2>3. Stamp /\ partials' \in Nat /\ summary' \in Summary
    BY <1>3 DEF InsertUser, Stamp
  <2> HIDE DEF p, TypeInv, TypeOK
  <2> QED  BY <2>1, <2>2, <2>3, StampIs, PostStep
<1> QED  BY <1>1, <1>2, <1>3

LEMMA TypeInserted ==
  ASSUME TypeInv, NEW r \in Request, Inserted(r)
  PROVE  TypeInv'
<1>1. UNCHANGED <<clock, inserting, rows, late>> /\ partials' \in Nat /\ summary' \in Summary
  BY DEF Inserted, TypeInv, TypeOK
<1>2. \/ Leave(r, "done") \/ Leave(r, "compress")
      \/ post' = [post EXCEPT ![r].pc = "stored"]
  BY DEF Inserted
<1>3. CASE post' = [post EXCEPT ![r].pc = "stored"]
  <2> DEFINE p == [post[r] EXCEPT !.pc = "stored"]
  <2>1. p \in Post /\ p.pc = "stored" /\ p.messages \subseteq rows
    BY DEF Post, TypeInv, TypeOK, TaskInv
  <2>2. post' = [post EXCEPT ![r] = p]
    BY <1>3
  <2> HIDE DEF p
  <2> QED  BY <1>1, <2>1, <2>2, QuietPost
<1> QED  BY <1>1, <1>2, <1>3, LeaveStep

LEMMA TypeGetMessages ==
  ASSUME TypeInv, NEW r \in Request, GetMessages(r)
  PROVE  TypeInv'
<1> DEFINE U == Uncovered(rows, post[r].seen)
           p == [post[r] EXCEPT !.pc = "sent", !.messages = Newest(Limit, U)]
<1>1. U \subseteq rows
  BY DEF Uncovered
<1>2. U \in SUBSET Nat /\ IsFiniteSet(U)
  BY <1>1, RowsFinite DEF TypeInv
<1>3. Newest(Limit, U) \subseteq U /\ Cardinality(Newest(Limit, U)) <= Limit
  BY <1>2, NewestAreFew, MemoryAssumption
<1>4. post[r] \in Post
  BY DEF TypeInv, TypeOK
<1>5. post' = [post EXCEPT ![r] = p]
  BY DEF GetMessages
<1>6. UNCHANGED <<clock, inserting, rows, late>> /\ partials' \in Nat /\ summary' \in Summary
  BY DEF GetMessages, TypeInv, TypeOK
<1> HIDE DEF U
<1>7. p \in Post /\ p.pc = "sent" /\ p.messages = Newest(Limit, U)
  BY <1>2, <1>3, <1>4 DEF Post
<1> HIDE DEF p
<1> QED  BY <1>1, <1>3, <1>5, <1>6, <1>7, QuietPost

LEMMA TypeEnd ==
  ASSUME TypeInv, NEW r \in Request, InsertAnswer(r) \/ Interrupt(r) \/ Break(r)
  PROVE  TypeInv'
<1>1. CASE InsertAnswer(r)
  <2> DEFINE p == [NoPost EXCEPT !.pc = "reply", !.mine = clock + 1]
  <2>0. clock + 1 \in Nat
    BY DEF TypeInv, TypeOK
  <2>1. p \in Post /\ p.pc = "reply" /\ p.messages = {}
    BY <2>0, NoPostType DEF Post, NoPost
  <2>2. post' = [post EXCEPT ![r] = p] /\ Stamp /\ partials' \in Nat /\ summary' \in Summary
    BY <1>1 DEF InsertAnswer, Stamp, TypeInv, TypeOK
  <2> HIDE DEF p
  <2> QED  BY <2>1, <2>2, StampIs, PostStep
<1>2. CASE Interrupt(r)
  BY <1>2, LeaveStep DEF Interrupt, TypeInv, TypeOK
<1>3. CASE Break(r)
  BY <1>3, LeaveStep DEF Break, TypeInv, TypeOK
<1> QED  BY <1>1, <1>2, <1>3

LEMMA TypeTask ==
  ASSUME TypeInv, NEW r \in Request,
         TaskMessages(r) \/ TaskSummary(r) \/ WriteSummary(r) \/ CompressRaises(r)
  PROVE  TypeInv'
<1>1. CASE TaskMessages(r)
  <2> DEFINE p == [post[r] EXCEPT !.pc = "covered", !.messages = rows]
  <2>0. post[r] \in Post /\ rows \in SUBSET Nat
    BY RowsFinite DEF TypeInv, TypeOK
  <2>1. p \in Post /\ p.pc = "covered" /\ p.messages = rows
    BY <2>0 DEF Post
  <2>2. post' = [post EXCEPT ![r] = p]
    BY <1>1 DEF TaskMessages
  <2>3. UNCHANGED <<clock, inserting, rows, late>> /\ partials' \in Nat /\ summary' \in Summary
    BY <1>1 DEF TaskMessages, TypeInv, TypeOK
  <2> HIDE DEF p
  <2> QED  BY <2>1, <2>2, <2>3, QuietPost
<1>2. CASE TaskSummary(r)
  <2> DEFINE p == [post[r] EXCEPT !.pc = "llm", !.seen = summary]
  <2>1. UNCHANGED <<clock, inserting, rows, late>> /\ partials' \in Nat /\ summary' \in Summary
    BY <1>2 DEF TaskSummary, TypeInv, TypeOK
  <2>2. \/ Leave(r, "done")
        \/ /\ ToCompress(post[r].messages, summary) # {}
           /\ post' = [post EXCEPT ![r] = p]
    BY <1>2 DEF TaskSummary
  <2>3. p \in Post /\ p.pc = "llm" /\ p.messages = post[r].messages /\ p.seen = summary
    BY DEF Post, TypeInv, TypeOK
  <2>4. post[r].messages \subseteq rows
    BY DEF TypeInv, TaskInv
  <2> HIDE DEF p
  <2>5. CASE post' = [post EXCEPT ![r] = p] /\ ToCompress(post[r].messages, summary) # {}
    BY <2>1, <2>3, <2>4, <2>5, QuietPost
  <2> QED  BY <2>1, <2>2, <2>5, LeaveStep
<1>3. CASE WriteSummary(r)
  <2>1. post[r].messages \in SUBSET rows /\ post[r].seen \in Summary
        /\ ToCompress(post[r].messages, post[r].seen) # {}
    BY <1>3 DEF WriteSummary, TypeInv, TypeOK, TaskInv, Post
  <2>2. NewSummary(post[r].messages, post[r].seen) \in Summary
    BY <2>1, NewSummaryIs DEF TypeInv
  <2>3. summary' \in Summary /\ UNCHANGED <<clock, inserting, rows, late>> /\ partials' \in Nat
    BY <1>3, <2>2 DEF WriteSummary, TypeInv, TypeOK
  <2> QED  BY <1>3, <2>3, LeaveStep DEF WriteSummary
<1>4. CASE CompressRaises(r)
  BY <1>4, LeaveStep DEF CompressRaises, TypeInv, TypeOK
<1> QED  BY <1>1, <1>2, <1>3, <1>4

LEMMA TypeStep == TypeInv /\ [Next]_vars => TypeInv'
<1> SUFFICES ASSUME TypeInv, [Next]_vars  PROVE TypeInv'
  OBVIOUS
<1>1. CASE UNCHANGED vars
  BY <1>1 DEF vars, TypeInv, TypeOK, TaskInv, At
<1>2. CASE Next
  <2>1. CASE Settle
    BY <2>1, TypeSettle
  <2>2. CASE InsertPartial
    BY <2>2, TypePartial
  <2>3. ASSUME NEW r \in Request,
               \/ LoadChat(r) \/ InsertUser(r) \/ Inserted(r) \/ GetSummary(r)
               \/ GetMessages(r) \/ InsertAnswer(r) \/ Interrupt(r) \/ Break(r)
               \/ TaskMessages(r) \/ TaskSummary(r) \/ WriteSummary(r) \/ CompressRaises(r)
        PROVE  TypeInv'
    BY <2>3, TypeLoad, TypeInserted, TypeGetMessages, TypeEnd, TypeTask
  <2> QED  BY <1>2, <2>1, <2>2, <2>3 DEF Next
<1> QED  BY <1>1, <1>2

\* The memory keeps its types: a message has one time, is committed or on its
\* way, and no more than recent_messages_limit of them go with a request.
THEOREM MemoryTypes == Spec => []TypeOK
<1>1. Spec => []TypeInv
  BY TypeInit, TypeStep, PTL DEF Spec
<1> QED  BY <1>1, PTL DEF TypeInv

-----------------------------------------------------------------------------
(***************************************************************************)
(* What the summary tells.  A row that is not late becomes visible as the  *)
(* newest, so that what has been read lacks, up to its own newest message, *)
(* late rows only: every summary, the stored one and those that handlers   *)
(* and tasks still hold, tells of the rows up to its until but late ones,  *)
(* and until is the time of a row.                                         *)
(***************************************************************************)
OnRecord(s, R, L) ==
  /\ s.until \in R \cup {0}
  /\ s.covers \subseteq {m \in R : m <= s.until}
  /\ \A m \in R \ L : m <= s.until => m \in s.covers

\* No row but late ones is missing before one of ms.
Complete(ms, R, L) == \A m \in ms, k \in R \ L : k <= m => k \in ms

Window(p, R, L) ==
  /\ \A k \in p.messages : k > p.seen.until
  /\ \A m \in R \ L : p.seen.until < m /\ m <= p.mine /\ m \notin p.messages =>
       \A k \in p.messages : m < k

HolderInv(p, R, L) ==
  /\ OnRecord(p.seen, R, L)
  /\ p.pc \in {"stored", "recall", "sent"} => p.mine \in R
  /\ p.pc \in {"covered", "llm"} => Complete(p.messages, R, L)
  /\ p.pc = "sent" => Window(p, R, L)

ExactInv ==
  /\ OnRecord(summary, rows, late)
  /\ \A r \in Request : HolderInv(post[r], rows, late)

LEMMA NothingHeld ==
  ASSUME NEW R \in SUBSET Nat, NEW L, \A m \in R : m > 0
  PROVE  /\ OnRecord(NoSummary, R, L)
         /\ \A pc \in {"idle", "compress", "done"} :
              HolderInv([NoPost EXCEPT !.pc = pc], R, L)
<1>a. \A m \in R : ~(m <= 0)
  OBVIOUS
<1>1. OnRecord(NoSummary, R, L)
  BY <1>a DEF OnRecord, NoSummary
<1> QED  BY <1>1 DEF HolderInv, NoPost

\* A row later than all others changes nothing that is held.
LEMMA LaterRow ==
  ASSUME NEW R \in SUBSET Nat, NEW L, NEW n \in Nat, n > 0, \A m \in R : m < n
  PROVE  /\ \A s \in Summary : OnRecord(s, R, L) => OnRecord(s, R \cup {n}, L)
         /\ \A p \in Post : p.messages \subseteq R /\ HolderInv(p, R, L)
                              => HolderInv(p, R \cup {n}, L)
<1>1. ASSUME NEW s \in Summary, OnRecord(s, R, L)
      PROVE  OnRecord(s, R \cup {n}, L)
  BY <1>1 DEF OnRecord, Summary
<1>a. \A m \in R : ~(n <= m)
  OBVIOUS
<1>2. ASSUME NEW p \in Post, p.messages \subseteq R, HolderInv(p, R, L)
      PROVE  HolderInv(p, R \cup {n}, L)
  <2>1. OnRecord(p.seen, R \cup {n}, L)
    BY <1>1, <1>2 DEF HolderInv, Post
  <2>2. ASSUME Complete(p.messages, R, L)  PROVE Complete(p.messages, R \cup {n}, L)
    <3>1. \A m \in p.messages : ~(n <= m)
      BY <1>a, <1>2
    <3> QED  BY <2>2, <3>1 DEF Complete
  <2>3. ASSUME Window(p, R, L), p.mine \in R  PROVE Window(p, R \cup {n}, L)
    <3>1. ~(n <= p.mine)
      BY <1>a, <2>3
    <3> QED  BY <2>3, <3>1 DEF Window
  <2> QED  BY <1>2, <2>1, <2>2, <2>3 DEF HolderInv
<1> QED  BY <1>1, <1>2

\* Nor does a late one.
LEMMA LateRow ==
  ASSUME NEW R \in SUBSET Nat, NEW L, NEW n \in Nat
  PROVE  /\ \A s \in Summary : OnRecord(s, R, L) => OnRecord(s, R \cup {n}, L \cup {n})
         /\ \A p \in Post : HolderInv(p, R, L) => HolderInv(p, R \cup {n}, L \cup {n})
<1>a. (R \cup {n}) \ (L \cup {n}) \subseteq R \ L
  OBVIOUS
<1>1. ASSUME NEW s, OnRecord(s, R, L)
      PROVE  OnRecord(s, R \cup {n}, L \cup {n})
  BY <1>1 DEF OnRecord
<1>2. ASSUME NEW p \in Post, HolderInv(p, R, L)
      PROVE  HolderInv(p, R \cup {n}, L \cup {n})
  <2>1. OnRecord(p.seen, R \cup {n}, L \cup {n})
    BY <1>1, <1>2 DEF HolderInv
  <2>2. Complete(p.messages, R, L) => Complete(p.messages, R \cup {n}, L \cup {n})
    BY <1>a DEF Complete
  <2>3. Window(p, R, L) => Window(p, R \cup {n}, L \cup {n})
    BY <1>a DEF Window
  <2> QED  BY <1>2, <2>1, <2>2, <2>3 DEF HolderInv
<1> QED  BY <1>1, <1>2

LEMMA ExactInit == Init => ExactInv
<1> SUFFICES ASSUME Init  PROVE ExactInv
  OBVIOUS
<1>1. rows = {} /\ inserting = {} /\ summary = NoSummary
  BY DEF Init
<1>2. \A r \in Request : post[r] = [NoPost EXCEPT !.pc = "idle"]
  BY DEF Init, NoPost
<1> QED  BY <1>1, <1>2, NothingHeld DEF ExactInv

LEMMA ExactSettle ==
  ASSUME TypeInv, ExactInv, Settle
  PROVE  ExactInv'
<1>1. PICK m \in inserting : /\ inserting' = inserting \ {m}
                             /\ Commits(m) \/ UNCHANGED <<rows, late>>
                             /\ UNCHANGED <<clock, partials, summary, post>>
  BY DEF Settle, Commits
<1>2. m \in Nat /\ m > 0 /\ m \notin rows /\ rows \in SUBSET Nat
  BY DEF TypeInv, TypeOK
<1>3. summary \in Summary /\ \A r \in Request : post[r] \in Post /\ post[r].messages \subseteq rows
  BY DEF TypeInv, TypeOK, TaskInv
<1>a. OnRecord(summary, rows, late) /\ \A r \in Request : HolderInv(post[r], rows, late)
  BY DEF ExactInv
<1>4. CASE Commits(m)
  <2>1. CASE \E k \in rows : k > m
    <3>1. rows' = rows \cup {m} /\ late' = late \cup {m}
      BY <1>4, <2>1 DEF Commits
    <3> QED  BY <1>1, <1>2, <1>3, <1>a, <3>1, LateRow DEF ExactInv
  <2>2. CASE ~\E k \in rows : k > m
    <3>1. rows' = rows \cup {m} /\ late' = late
      BY <1>4, <2>2 DEF Commits
    <3>2. \A k \in rows : k < m
      BY <1>2, <2>2
    <3> QED  BY <1>1, <1>2, <1>3, <1>a, <3>1, <3>2, LaterRow DEF ExactInv
  <2> QED  BY <2>1, <2>2
<1>5. CASE UNCHANGED <<rows, late>>
  BY <1>1, <1>5, <1>a DEF ExactInv
<1> QED  BY <1>1, <1>4, <1>5

\* What a step that changes one handler has to show of it.
LEMMA ExactPost ==
  ASSUME TypeInv, ExactInv, NEW r \in Request, NEW p,
         post' = [post EXCEPT ![r] = p], rows' = rows,
         late' = late, OnRecord(summary', rows, late), HolderInv(p, rows, late)
  PROVE  ExactInv'
<1>1. \A q \in Request : post'[q] = IF q = r THEN p ELSE post[q]
  BY DEF TypeInv, TypeOK
<1>2. \A q \in Request : HolderInv(post'[q], rows, late)
  BY <1>1 DEF ExactInv
<1> QED  BY <1>2 DEF ExactInv

LEMMA ExactLeave ==
  ASSUME TypeInv, ExactInv, NEW r \in Request, NEW pc \in {"compress", "done"},
         Leave(r, pc), UNCHANGED <<clock, inserting, rows, late>>, OnRecord(summary', rows, late)
  PROVE  ExactInv'
<1> DEFINE p == [NoPost EXCEPT !.pc = pc]
<1>1. rows \in SUBSET Nat /\ \A m \in rows : m > 0
  BY DEF TypeInv, TypeOK
<1>2. HolderInv(p, rows, late)
  BY <1>1, NothingHeld
<1>3. post' = [post EXCEPT ![r] = p]
  BY DEF Leave
<1> HIDE DEF p
<1> QED  BY <1>2, <1>3, ExactPost

LEMMA ExactStamps ==
  ASSUME TypeInv, ExactInv, NEW r \in Request,
         InsertUser(r) \/ InsertAnswer(r)
  PROVE  ExactInv'
<1>1. Stamp /\ rows' = rows /\ late' = late /\ OnRecord(summary', rows, late)
  BY StampIs DEF InsertUser, InsertAnswer, ExactInv
<1>2. CASE InsertUser(r)
  <2> DEFINE p == [post[r] EXCEPT !.pc = "insert", !.mine = clock + 1]
  <2>1. post' = [post EXCEPT ![r] = p]
    BY <1>2 DEF InsertUser
  <2>2. p.pc = "insert" /\ p.seen = post[r].seen
    BY DEF TypeInv, TypeOK, Post
  <2>3. HolderInv(p, rows, late)
    BY <2>2 DEF HolderInv, ExactInv
  <2> HIDE DEF p
  <2> QED  BY <1>1, <2>1, <2>3, ExactPost
<1>3. CASE InsertAnswer(r)
  <2> DEFINE p == [NoPost EXCEPT !.pc = "reply", !.mine = clock + 1]
  <2>1. post' = [post EXCEPT ![r] = p]
    BY <1>3 DEF InsertAnswer
  <2>2. p.pc = "reply" /\ p.seen = NoSummary
    BY DEF NoPost
  <2>3. rows \in SUBSET Nat /\ \A m \in rows : m > 0
    BY DEF TypeInv, TypeOK
  <2>4. HolderInv(p, rows, late)
    BY <2>2, <2>3, NothingHeld DEF HolderInv
  <2> HIDE DEF p
  <2> QED  BY <1>1, <2>1, <2>4, ExactPost
<1> QED  BY <1>2, <1>3

LEMMA ExactLoad ==
  ASSUME TypeInv, ExactInv, NEW r \in Request,
         LoadChat(r) \/ Inserted(r) \/ GetSummary(r)
  PROVE  ExactInv'
<1> DEFINE mine == post[r]
<1>1. UNCHANGED <<clock, inserting, rows, late, summary>> /\ OnRecord(summary', rows, late)

  BY DEF LoadChat, Inserted, GetSummary, ExactInv
<1>2. post[r] \in Post /\ HolderInv(post[r], rows, late)
  BY DEF TypeInv, TypeOK, ExactInv
<1>3. CASE LoadChat(r)
  <2> DEFINE p == [post[r] EXCEPT !.pc = "loaded", !.seen = summary]
  <2>1. post' = [post EXCEPT ![r] = p]
    BY <1>3 DEF LoadChat
  <2>2. p.pc = "loaded" /\ p.seen = summary
    BY <1>2 DEF Post
  <2>3. HolderInv(p, rows, late)
    BY <2>2 DEF HolderInv, ExactInv
  <2> HIDE DEF p
  <2> QED  BY <1>1, <2>1, <2>3, ExactPost
<1>4. CASE Inserted(r)
  <2> DEFINE p == [post[r] EXCEPT !.pc = "stored"]
  <2>1. \/ Leave(r, "done") \/ Leave(r, "compress")
        \/ post' = [post EXCEPT ![r] = p] /\ post[r].mine \in rows
    BY <1>4 DEF Inserted
  <2>2. p.pc = "stored" /\ p.seen = post[r].seen /\ p.mine = post[r].mine
    BY <1>2 DEF Post
  <2> HIDE DEF p
  <2>3. CASE post' = [post EXCEPT ![r] = p] /\ post[r].mine \in rows
    <3>1. HolderInv(p, rows, late)
      BY <1>2, <2>2, <2>3 DEF HolderInv
    <3> QED  BY <1>1, <2>3, <3>1, ExactPost
  <2> QED  BY <1>1, <2>1, <2>3, ExactLeave
<1>5. CASE GetSummary(r)
  <2> DEFINE p == [post[r] EXCEPT !.pc = "recall", !.seen = IF @ = NoSummary THEN summary ELSE @]
  <2>1. post' = [post EXCEPT ![r] = p] /\ post[r].pc = "stored"
    BY <1>5 DEF GetSummary, At
  <2>2. p.pc = "recall" /\ p.seen \in {post[r].seen, summary} /\ p.mine = post[r].mine
    BY <1>2 DEF Post
  <2>3. HolderInv(p, rows, late)
    BY <1>2, <2>1, <2>2 DEF HolderInv, ExactInv
  <2> HIDE DEF p
  <2> QED  BY <1>1, <2>1, <2>3, ExactPost
<1> QED  BY <1>3, <1>4, <1>5

LEMMA ExactGetMessages ==
  ASSUME TypeInv, ExactInv, NEW r \in Request, GetMessages(r)
  PROVE  ExactInv'
<1> DEFINE U == Uncovered(rows, post[r].seen)
           p == [post[r] EXCEPT !.pc = "sent", !.messages = Newest(Limit, U)]
<1>1. post' = [post EXCEPT ![r] = p] /\ post[r].pc = "recall" /\ rows' = rows /\ late' = late
      /\ OnRecord(summary', rows, late)
  BY DEF GetMessages, At, ExactInv
<1>2. post[r] \in Post /\ HolderInv(post[r], rows, late)
  BY DEF TypeInv, TypeOK, ExactInv
<1>3. p.pc = "sent" /\ p.seen = post[r].seen /\ p.mine = post[r].mine
      /\ p.messages = Newest(Limit, U)
  BY <1>2 DEF Post
<1> HIDE DEF p
<1>4. U \subseteq rows /\ U \in SUBSET Nat /\ IsFiniteSet(U)
  BY RowsFinite DEF TypeInv, Uncovered
<1>5. Limit \in Nat /\ Newest(Limit, U) \subseteq U
  BY <1>4, NewestAreFew, MemoryAssumption
<1>6. \A m \in U \ Newest(Limit, U), k \in Newest(Limit, U) : m < k
  BY <1>4, <1>5, NewestIsLater
<1>7. \A m \in rows : p.seen.until < m <=> m \in U
  BY <1>2, <1>3, RowsFinite DEF Uncovered, TypeInv, Post, Summary
<1>8. Window(p, rows, late)
  BY <1>3, <1>4, <1>5, <1>6, <1>7 DEF Window, Uncovered
<1>9. HolderInv(p, rows, late)
  BY <1>1, <1>2, <1>3, <1>8 DEF HolderInv
<1> QED  BY <1>1, <1>9, ExactPost

\* What was compressed, put to a summary that tells of all rows up to its
\* until but late ones, makes one that does.
LEMMA NewSummaryOnRecord ==
  ASSUME TypeOK, NEW ms \in SUBSET rows, NEW s \in Summary, ToCompress(ms, s) # {},
         Complete(ms, rows, late), OnRecord(s, rows, late)
  PROVE  OnRecord(NewSummary(ms, s), rows, late)
<1> DEFINE C == ToCompress(ms, s)
           until == NewSummary(ms, s).until
<1>1. rows \in SUBSET Nat /\ s.until \in Nat /\ s.covers \subseteq {m \in rows : m <= s.until}
  BY RowsFinite DEF OnRecord, Summary
<1>2. until \in C /\ (\A m \in C : m <= until) /\ NewSummary(ms, s).covers = s.covers \cup C
  BY NewSummaryIs
<1>3. \A m : m \in C => m \in ms /\ m \in rows /\ s.until < m
  BY <1>1, ToCompressIs DEF Uncovered
<1>4. \A m \in rows \ late : s.until < m /\ m < until => m \in C
  <2>1. SUFFICES ASSUME NEW m \in rows \ late, s.until < m, m < until  PROVE m \in C
    OBVIOUS
  <2>2. m \in ms
    <3>a. until \in ms /\ until \in rows
      BY <1>2, <1>3
    <3>b. until \in Nat /\ m \in Nat /\ m < until
      BY <1>1, <2>1, <3>a
    <3> HIDE DEF C, until
    <3>1. until \in ms /\ m <= until
      BY <3>a, <3>b
    <3> QED  BY <3>1 DEF Complete
  <2>3. m \in Uncovered(ms, s)
    BY <1>1, <2>1, <2>2 DEF Uncovered
  <2> QED  BY <1>2, <2>1, <2>3, ToCompressIs
<1>a. until \in Nat /\ s.until < until /\ \A m \in rows : m \in Nat
  BY <1>1, <1>2, <1>3
<1> HIDE DEF C, until
<1>5. \A m \in rows \ late : m <= until => m \in s.covers \cup C
  <2>1. SUFFICES ASSUME NEW m \in rows \ late, m <= until  PROVE m \in s.covers \cup C
    OBVIOUS
  <2>2. m \in Nat /\ s.until \in Nat /\ until \in Nat
    BY <1>1, <1>a
  <2>3. CASE m <= s.until
    BY <2>3 DEF OnRecord
  <2>4. CASE ~(m <= s.until)
    BY <1>2, <1>4, <2>1, <2>2, <2>4
  <2> QED  BY <2>3, <2>4
<1>6. s.covers \cup C \subseteq {m \in rows : m <= until}
  <2>1. C \subseteq {m \in rows : m <= until}
    BY <1>2, <1>3
  <2>2. ASSUME NEW m \in s.covers  PROVE m \in rows /\ m <= until
    <3>1. m \in rows /\ m <= s.until
      BY <1>1, <2>2
    <3>2. m \in Nat /\ s.until \in Nat /\ until \in Nat /\ s.until < until
      BY <1>1, <1>a, <3>1
    <3> QED  BY <3>1, <3>2
  <2> QED  BY <2>1, <2>2
<1>7. until \in rows
  BY <1>2, <1>3
<1> QED  BY <1>2, <1>5, <1>6, <1>7 DEF OnRecord, until

LEMMA ExactTask ==
  ASSUME TypeInv, ExactInv, NEW r \in Request,
         TaskMessages(r) \/ TaskSummary(r) \/ WriteSummary(r) \/ CompressRaises(r)
  PROVE  ExactInv'
<1>1. UNCHANGED <<clock, inserting, rows, late>>
  BY DEF TaskMessages, TaskSummary, WriteSummary, CompressRaises, ExactInv
<1>2. post[r] \in Post /\ HolderInv(post[r], rows, late)
  BY DEF TypeInv, TypeOK, ExactInv
<1>3. CASE TaskMessages(r)
  <2> DEFINE p == [post[r] EXCEPT !.pc = "covered", !.messages = rows]
  <2>1. post' = [post EXCEPT ![r] = p] /\ OnRecord(summary', rows, late)
    BY <1>3 DEF TaskMessages, ExactInv
  <2>2. p.pc = "covered" /\ p.seen = post[r].seen /\ p.messages = rows
    BY <1>2 DEF Post
  <2>3. HolderInv(p, rows, late)
    BY <1>2, <2>2 DEF HolderInv, Complete
  <2> HIDE DEF p
  <2> QED  BY <1>1, <2>1, <2>3, ExactPost
<1>4. CASE TaskSummary(r)
  <2> DEFINE p == [post[r] EXCEPT !.pc = "llm", !.seen = summary]
  <2>1. OnRecord(summary', rows, late) /\ post[r].pc = "covered"
    BY <1>4 DEF TaskSummary, At, ExactInv
  <2>2. Leave(r, "done") \/ post' = [post EXCEPT ![r] = p]
    BY <1>4 DEF TaskSummary
  <2>3. p.pc = "llm" /\ p.seen = summary /\ p.messages = post[r].messages
    BY <1>2 DEF Post
  <2>4. HolderInv(p, rows, late)
    BY <1>2, <2>1, <2>3 DEF HolderInv, ExactInv
  <2> HIDE DEF p
  <2> QED  BY <1>1, <2>1, <2>2, <2>4, ExactPost, ExactLeave
<1>5. CASE WriteSummary(r)
  <2>1. post[r].messages \in SUBSET rows /\ post[r].seen \in Summary
        /\ ToCompress(post[r].messages, post[r].seen) # {}
    BY <1>5 DEF WriteSummary, TypeInv, TypeOK, TaskInv, Post
  <2>2. Complete(post[r].messages, rows, late) /\ OnRecord(post[r].seen, rows, late)
    BY <1>2, <1>5 DEF HolderInv, WriteSummary, At
  <2>3. OnRecord(NewSummary(post[r].messages, post[r].seen), rows, late)
    BY <2>1, <2>2, NewSummaryOnRecord DEF TypeInv
  <2>4. OnRecord(summary', rows, late) /\ Leave(r, "done")
    BY <1>5, <2>3 DEF WriteSummary, ExactInv
  <2> QED  BY <1>1, <2>4, ExactLeave
<1>6. CASE CompressRaises(r)
  <2>1. OnRecord(summary', rows, late) /\ Leave(r, "done")
    BY <1>6 DEF CompressRaises, ExactInv
  <2> QED  BY <1>1, <2>1, ExactLeave
<1> QED  BY <1>3, <1>4, <1>5, <1>6

LEMMA ExactStep == TypeInv /\ ExactInv /\ [Next]_vars => ExactInv'
<1> SUFFICES ASSUME TypeInv, ExactInv, [Next]_vars  PROVE ExactInv'
  OBVIOUS
<1>1. CASE UNCHANGED vars
  BY <1>1 DEF vars, ExactInv
<1>2. CASE Next
  <2>1. CASE Settle
    BY <2>1, ExactSettle
  <2>2. CASE InsertPartial
    <3>1. Stamp /\ post' = post
      BY <2>2 DEF InsertPartial
    <3> QED  BY <3>1, StampIs DEF ExactInv
  <2>3. ASSUME NEW r \in Request, Interrupt(r) \/ Break(r)
        PROVE  ExactInv'
    <3>1. UNCHANGED <<clock, inserting, rows, late>> /\ OnRecord(summary', rows, late)
          /\ (Leave(r, "done") \/ Leave(r, "compress"))
      BY <2>3 DEF Interrupt, Break, ExactInv
    <3> QED  BY <3>1, ExactLeave
  <2>4. ASSUME NEW r \in Request,
               \/ LoadChat(r) \/ InsertUser(r) \/ Inserted(r) \/ GetSummary(r)
               \/ GetMessages(r) \/ InsertAnswer(r)
               \/ TaskMessages(r) \/ TaskSummary(r) \/ WriteSummary(r) \/ CompressRaises(r)
        PROVE  ExactInv'
    BY <2>4, ExactLoad, ExactStamps, ExactGetMessages, ExactTask
  <2> QED  BY <1>2, <2>1, <2>2, <2>3, <2>4 DEF Next
<1> QED  BY <1>1, <1>2

LEMMA ExactAlways == Spec => [](TypeInv /\ ExactInv)
<1>1. Init => TypeInv /\ ExactInv
  BY TypeInit, ExactInit
<1>2. TypeInv /\ ExactInv /\ [Next]_vars => (TypeInv /\ ExactInv)'
  BY TypeStep, ExactStep
<1> QED  BY <1>1, <1>2, PTL DEF Spec

\* However many compress_if_needed tasks overlap, fail, or overwrite each
\* other's summary with an older one, and however INSERTs overlap: the stored
\* summary tells of messages up to its covered_until only, and of all of them
\* but such as were committed after a newer one.
THEOREM SummaryIsExact == Spec => []SummaryExact
<1>1. ExactInv => SummaryExact
  BY DEF ExactInv, OnRecord, SummaryExact
<1> QED  BY <1>1, ExactAlways, PTL

LEMMA ExactTail == TypeInv /\ ExactInv => ContextTail
<1> SUFFICES ASSUME TypeInv, ExactInv, NEW r \in Request, At(r, "sent")
             PROVE  /\ post[r].seen.covers \cap post[r].messages = {}
                    /\ \A m \in rows \ late : m <= post[r].mine /\ m \notin Told(r) =>
                         \A k \in post[r].messages : m < k
  BY DEF ContextTail
<1> DEFINE p == post[r]
<1>1. OnRecord(p.seen, rows, late) /\ Window(p, rows, late)
  BY DEF ExactInv, HolderInv, At
<1>2. p.seen.until \in Nat /\ rows \in SUBSET Nat /\ p.messages \subseteq rows
  BY RowsFinite DEF TypeInv, TypeOK, TaskInv, Post, Summary
<1>3. /\ p.seen.covers \subseteq {m \in rows : m <= p.seen.until}
      /\ \A m \in rows \ late : m <= p.seen.until => m \in p.seen.covers
  BY <1>1 DEF OnRecord
<1> HIDE DEF p
<1>4. p.seen.covers \cap p.messages = {}
  <2>0. \A k \in p.messages : k \in Nat /\ k > p.seen.until
    BY <1>1, <1>2 DEF Window
  <2>1. \A k \in p.messages : ~(k <= p.seen.until)
    BY <1>2, <2>0
  <2> QED  BY <1>3, <2>1
<1>5. \A m \in rows \ late : m \notin p.seen.covers => p.seen.until < m
  BY <1>2, <1>3
<1>6. \A m \in rows \ late : m <= p.mine /\ m \notin p.seen.covers \cup p.messages =>
        \A k \in p.messages : m < k
  BY <1>1, <1>5 DEF Window
<1> QED  BY <1>4, <1>6 DEF p, Told

\* What get_chat_memory gives the agents: summary and messages overlap in
\* nothing, and a message the context lacks is older than every message in it,
\* unless it was committed after a newer one.
THEOREM ContextHasTail == Spec => []ContextTail
BY ExactTail, ExactAlways, PTL
=============================================================================
