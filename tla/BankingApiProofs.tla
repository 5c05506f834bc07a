-------------------------- MODULE BankingApiProofs --------------------------
(***************************************************************************)
(* Proofs about BankingApi, for any number of handlers, calls, customers   *)
(* and amounts.                                                            *)
(***************************************************************************)
EXTENDS BankingApi, FiniteSetTheorems, TLAPS

\* The fields a payload has, by the route it is for.
LEMMA PayloadFields ==
  ASSUME NEW p \in Payload
  PROVE  /\ p.op \in {"open", "profile", "balance", "limit", "pix"}
         /\ p.customer \in Customer
         /\ p.op = "open" => /\ p.balance \in Nat /\ p.limit \in Nat
                            /\ p.segment \in Mark /\ p.score \in Mark
         /\ p.op = "profile" => p.segment \in Mark /\ p.score \in Mark
         /\ p.op = "balance" => p.balance \in Nat
         /\ p.op = "limit" => p.limit \in Nat
         /\ p.op = "pix" => p.request \in RequestId /\ p.amount \in Money /\ p.amount \in Nat
<1>1. Money \subseteq Nat
  BY BankingAssumption DEF Money
<1>2. CASE p \in [op : {"open"}, customer : Customer, balance : Money, limit : Money,
                  segment : Mark, score : Mark]
  BY <1>1, <1>2
<1>3. CASE p \in [op : {"profile"}, customer : Customer, segment : Mark, score : Mark]
  BY <1>3
<1>4. CASE p \in [op : {"balance"}, customer : Customer, balance : Money]
  BY <1>1, <1>4
<1>5. CASE p \in [op : {"limit"}, customer : Customer, limit : Money]
  BY <1>1, <1>5
<1>6. CASE p \in [op : {"pix"}, customer : Customer, request : RequestId, amount : Money \ {0}]
  BY <1>1, <1>6
<1> QED  BY <1>2, <1>3, <1>4, <1>5, <1>6 DEF Payload

\* What a handler wants to commit is a record, if its debit is covered.
LEMMA WantedType ==
  ASSUME NEW p \in Payload, NEW seen \in Record,
         p.op = "pix" => p.amount <= seen.balance
  PROVE  Wanted(p, seen) \in Record
<1>1. CASE p.op = "open"
  BY <1>1, PayloadFields DEF Wanted, Record
<1>2. CASE p.op = "profile"
  <2>1. [seen EXCEPT !.segment = p.segment, !.score = p.score] \in Record
    BY <1>2, PayloadFields DEF Record
  <2> QED  BY <1>2, <2>1 DEF Wanted
<1>3. CASE p.op = "balance"
  <2>1. [seen EXCEPT !.balance = p.balance] \in Record
    BY <1>3, PayloadFields DEF Record
  <2> QED  BY <1>3, <2>1 DEF Wanted
<1>4. CASE p.op = "limit"
  <2>1. [seen EXCEPT !.limit = p.limit] \in Record
    BY <1>4, PayloadFields DEF Record
  <2> QED  BY <1>4, <2>1 DEF Wanted
<1>5. CASE p.op = "pix"
  <2>1. p.amount \in Nat /\ seen.balance \in Nat
    BY <1>5, PayloadFields DEF Record
  <2>2. seen.balance - p.amount \in Nat
    BY <1>5, <2>1
  <2>3. [seen EXCEPT !.balance = @ - p.amount] \in Record
    BY <2>2 DEF Record
  <2> QED  BY <1>5, <2>3 DEF Wanted
<1> QED  BY <1>1, <1>2, <1>3, <1>4, <1>5, PayloadFields

\* Mixing the columns of two records gives a record.
LEMMA WrittenType ==
  ASSUME NEW row \in Record, NEW seen \in Record, NEW new \in Record
  PROVE  Written(row, seen, new) \in Record
<1>1. DOMAIN row = {"open", "balance", "limit", "segment", "score"}
  BY DEF Record
<1>2. Written(row, seen, new) =
        [open |-> IF new.open # seen.open THEN new.open ELSE row.open,
         balance |-> IF new.balance # seen.balance THEN new.balance ELSE row.balance,
         limit |-> IF new.limit # seen.limit THEN new.limit ELSE row.limit,
         segment |-> IF new.segment # seen.segment THEN new.segment ELSE row.segment,
         score |-> IF new.score # seen.score THEN new.score ELSE row.score]
  BY <1>1 DEF Written
<1> QED  BY <1>2 DEF Record

-----------------------------------------------------------------------------
\* The handler records of a step.
LEMMA HandlerUpdates ==
  ASSUME NEW h \in Handler
  PROVE  /\ \A s \in {"ok", "missing", "conflict", "error"}, g \in SUBSET Transfer :
              [h EXCEPT !.pc = "done", !.status = s, !.given = g] \in Handler
         /\ [h EXCEPT !.pc = "load"] \in Handler
         /\ \A row \in Record : [h EXCEPT !.pc = "commit", !.seen = row] \in Handler
  BY DEF Handler

LEMMA RefusalType ==
  ASSUME NEW p \in Payload, NEW row \in Record
  PROVE  Refusal(p, row) \in {"none", "missing", "conflict"}
  BY PayloadFields DEF Refusal, Record

LEMMA RunningType ==
  ASSUME TypeOK, NEW k \in Call, call[k].pc # "idle"
  PROVE  call[k] \in Handler
  BY DEF TypeOK, Idle

\* Answering a call leaves the other calls and a handler that is done.
LEMMA AnswerStep ==
  ASSUME TypeOK, NEW k \in Call, call[k] \in Handler,
         NEW s \in {"ok", "missing", "conflict", "error"}, NEW g \in SUBSET Transfer,
         Answer(k, s, g)
  PROVE  /\ call' \in [Call -> Handler \cup {Idle}]
         /\ DebitCovered => DebitCovered'
<1>1. [call[k] EXCEPT !.pc = "done", !.status = s, !.given = g] \in Handler
  BY HandlerUpdates
<1>2. call' \in [Call -> Handler \cup {Idle}]
  BY <1>1 DEF TypeOK, Answer
<1>3. call'[k].pc = "done" /\ \A j \in Call \ {k} : call'[j] = call[j]
  BY <1>1 DEF TypeOK, Answer, Handler
<1>4. ASSUME DebitCovered, NEW j \in Call, call'[j].pc = "commit", call'[j].payload.op = "pix"
      PROVE  call'[j].payload.amount <= call'[j].seen.balance
  BY <1>3, <1>4 DEF DebitCovered, At
<1> QED  BY <1>2, <1>4 DEF DebitCovered, At

LEMMA TypeStep ==
  ASSUME TypeOK, DebitCovered, [Next]_vars
  PROVE  TypeOK' /\ DebitCovered'
<1>1. ASSUME NEW k \in Call, Begin(k)  PROVE TypeOK' /\ DebitCovered'
  <2>1. PICK p \in Payload :
          call' = [call EXCEPT ![k] =
            [pc |-> IF p.op = "pix" THEN "find" ELSE "load", payload |-> p,
             seen |-> bank[p.customer], status |-> "none", given |-> {}]]
    BY <1>1 DEF Begin
  <2>2. bank[p.customer] \in Record
    BY PayloadFields DEF TypeOK
  <2>3. [pc |-> IF p.op = "pix" THEN "find" ELSE "load", payload |-> p,
         seen |-> bank[p.customer], status |-> "none", given |-> {}] \in Handler
    BY <2>2 DEF Handler
  <2>4. TypeOK'
    BY <1>1, <2>1, <2>3 DEF TypeOK, Begin
  <2>5. call'[k].pc # "commit" /\ \A j \in Call \ {k} : call'[j] = call[j]
    BY <2>1 DEF TypeOK
  <2>6. DebitCovered'
    BY <2>5 DEF DebitCovered, At
  <2> QED  BY <2>4, <2>6
<1>2. ASSUME NEW k \in Call, Find(k)  PROVE TypeOK' /\ DebitCovered'
  <2>1. call[k] \in Handler
    BY <1>2, RunningType DEF Find, At
  <2>2. CASE \E t \in transfers : Answer(k, "ok", {t})
    <3>1. PICK t \in transfers : Answer(k, "ok", {t})
      BY <2>2
    <3>2. {t} \in SUBSET Transfer
      BY DEF TypeOK
    <3> QED  BY <1>2, <2>1, <3>1, <3>2, AnswerStep DEF Find, TypeOK
  <2>3. CASE call' = [call EXCEPT ![k].pc = "load"]
    <3>1. [call[k] EXCEPT !.pc = "load"] \in Handler
      BY <2>1, HandlerUpdates
    <3>2. TypeOK'
      BY <1>2, <2>3, <3>1 DEF TypeOK, Find
    <3>3. call'[k].pc = "load" /\ \A j \in Call \ {k} : call'[j] = call[j]
      BY <2>1, <2>3 DEF TypeOK, Handler
    <3>4. DebitCovered'
      BY <3>3 DEF DebitCovered, At
    <3> QED  BY <3>2, <3>4
  <2> QED  BY <1>2, <2>2, <2>3 DEF Find
<1>3. ASSUME NEW k \in Call, Load(k)  PROVE TypeOK' /\ DebitCovered'
  <2> DEFINE p == call[k].payload
             row == bank[p.customer]
  <2>1. call[k] \in Handler
    BY <1>3, RunningType DEF Load, At
  <2>2. p \in Payload /\ row \in Record
    BY <2>1, PayloadFields DEF TypeOK, Handler
  <2>3. CASE Refusal(p, row) = "none"
    <3>1. call' = [call EXCEPT ![k].pc = "commit", ![k].seen = row]
      BY <1>3, <2>3 DEF Load
    <3>2. [call[k] EXCEPT !.pc = "commit", !.seen = row] \in Handler
      BY <2>1, <2>2, HandlerUpdates
    <3>3. TypeOK'
      BY <1>3, <3>1, <3>2 DEF TypeOK, Load
    <3>4. p.op = "pix" => p.amount <= row.balance
      BY <2>2, <2>3, PayloadFields DEF Refusal, Record
    <3>5. /\ call'[k].payload = p /\ call'[k].seen = row
          /\ \A j \in Call \ {k} : call'[j] = call[j]
      BY <2>1, <3>1 DEF TypeOK, Handler
    <3>6. DebitCovered'
      BY <3>4, <3>5 DEF DebitCovered, At
    <3> QED  BY <3>3, <3>6
  <2>4. CASE Refusal(p, row) # "none"
    <3>1. Answer(k, Refusal(p, row), {}) /\ UNCHANGED <<bank, transfers>>
      BY <1>3, <2>4 DEF Load
    <3>2. Refusal(p, row) \in {"missing", "conflict"}
      BY <2>2, <2>4, RefusalType
    <3> QED  BY <2>1, <3>1, <3>2, AnswerStep DEF TypeOK
  <2> QED  BY <2>3, <2>4
<1>4. ASSUME NEW k \in Call, Commit(k)  PROVE TypeOK' /\ DebitCovered'
  <2> DEFINE p == call[k].payload
             row == [id |-> k, request |-> p.request, customer |-> p.customer,
                     amount |-> p.amount]
             inserted == IF p.op = "pix" THEN {row} ELSE {}
  <2>1. call[k] \in Handler /\ call[k].pc = "commit"
    BY <1>4, RunningType DEF Commit, At
  <2>2. p \in Payload /\ call[k].seen \in Record /\ bank[p.customer] \in Record
    BY <2>1, PayloadFields DEF TypeOK, Handler
  <2>3. p.op = "pix" => p.amount <= call[k].seen.balance
    BY <2>1 DEF DebitCovered, At
  <2>4. Written(bank[p.customer], call[k].seen, Wanted(p, call[k].seen)) \in Record
    BY <2>2, <2>3, WantedType, WrittenType
  <2>5. bank' \in [Customer -> Record]
    BY <1>4, <2>4 DEF Commit, TypeOK
  <2>6. inserted \in SUBSET Transfer
    BY <2>2, PayloadFields DEF Transfer
  <2>7. transfers' \in SUBSET Transfer
    BY <1>4, <2>6 DEF Commit, TypeOK
  <2>8. Answer(k, "ok", inserted) \/ Answer(k, "error", {})
    BY <1>4 DEF Commit
  <2>9. call' \in [Call -> Handler \cup {Idle}] /\ DebitCovered'
    BY <2>1, <2>6, <2>8, AnswerStep
  <2> QED  BY <2>5, <2>7, <2>9 DEF TypeOK
<1>5. ASSUME NEW k \in Call, Fail(k)  PROVE TypeOK' /\ DebitCovered'
  <2>1. call[k] \in Handler
    BY <1>5, RunningType DEF Fail
  <2> QED  BY <1>5, <2>1, AnswerStep DEF Fail, TypeOK
<1>6. CASE UNCHANGED vars
  BY <1>6 DEF vars, TypeOK, DebitCovered, At
<1> QED  BY <1>1, <1>2, <1>3, <1>4, <1>5, <1>6 DEF Next

-----------------------------------------------------------------------------
\* No interleaving of the handlers takes a balance or a limit below zero.
THEOREM TypeCorrect == Spec => [](TypeOK /\ DebitCovered)
<1>1. Init => TypeOK /\ DebitCovered
  <2>1. Init => TypeOK
    BY BankingAssumption DEF Init, TypeOK
  <2>2. Init => DebitCovered
    BY DEF Init, Idle, DebitCovered, At
  <2> QED  BY <2>1, <2>2
<1>2. TypeOK /\ DebitCovered /\ [Next]_vars => (TypeOK /\ DebitCovered)'
  BY TypeStep
<1> QED  BY <1>1, <1>2, PTL DEF Spec

\* One transfer per request_id: the SELECT that looks for it is not enough, the
\* unique key decides between two handlers that both found none.
THEOREM PaysOnce == Spec => []RetryPaysOnce
<1>1. Init => RetryPaysOnce
  BY DEF Init, RetryPaysOnce
<1>2. RetryPaysOnce /\ [Next]_vars => RetryPaysOnce'
  <2> SUFFICES ASSUME RetryPaysOnce, [Next]_vars  PROVE RetryPaysOnce'
    OBVIOUS
  <2>1. ASSUME NEW k \in Call, Commit(k)  PROVE RetryPaysOnce'
    <3> DEFINE p == call[k].payload
               row == [id |-> k, request |-> p.request, customer |-> p.customer,
                       amount |-> p.amount]
    <3>1. CASE p.op # "pix"
      BY <2>1, <3>1 DEF Commit, RetryPaysOnce
    <3>2. CASE p.op = "pix"
      <4>1. transfers' = transfers \cup {row}
        BY <2>1, <3>2 DEF Commit
      <4>2. \A t \in transfers : t.request # row.request
        BY <2>1, <3>2 DEF Commit, KeysFree
      <4> QED  BY <4>1, <4>2 DEF RetryPaysOnce
    <3> QED  BY <3>1, <3>2
  <2>2. ASSUME UNCHANGED transfers  PROVE RetryPaysOnce'
    BY <2>2 DEF RetryPaysOnce
  <2> QED  BY <2>1, <2>2 DEF Next, vars, Begin, Find, Load, Fail
<1> QED  BY <1>1, <1>2, PTL DEF Spec

\* A handler that has answered does nothing more, and no transfer is deleted.
LEMMA AnswersStay ==
  ASSUME TypeOK, AnswersAgree, NEW k \in Call,
         transfers \subseteq transfers',
         \A j \in Call \ {k} : call'[j] = call[j],
         At(k, "done")' =>
           (call'[k].status = "ok" /\ call'[k].payload.op = "pix" =>
              \E t \in transfers' : /\ call'[k].given = {t}
                                    /\ t.request = call'[k].payload.request)
  PROVE  AnswersAgree'
  BY DEF AnswersAgree, At

\* A request_id that was answered as paid has the transfer that was answered.
THEOREM PaidIsOnRecord == Spec => []AnswersAgree
<1>1. Init => AnswersAgree
  BY DEF Init, Idle, AnswersAgree, At
<1>2. TypeOK /\ AnswersAgree /\ [Next]_vars => AnswersAgree'
  <2> SUFFICES ASSUME TypeOK, AnswersAgree, [Next]_vars  PROVE AnswersAgree'
    OBVIOUS
  <2>1. ASSUME NEW k \in Call, Begin(k)  PROVE AnswersAgree'
    <3>1. PICK p \in Payload :
            call' = [call EXCEPT ![k] =
              [pc |-> IF p.op = "pix" THEN "find" ELSE "load", payload |-> p,
               seen |-> bank[p.customer], status |-> "none", given |-> {}]]
      BY <2>1 DEF Begin
    <3>2. call'[k].pc # "done" /\ \A j \in Call \ {k} : call'[j] = call[j]
      BY <3>1 DEF TypeOK
    <3> QED  BY <2>1, <3>2, AnswersStay DEF Begin, At
  <2>2. ASSUME NEW k \in Call, Find(k)  PROVE AnswersAgree'
    <3>1. call[k] \in Handler
      BY <2>2, RunningType DEF Find, At
    <3>2. CASE call' = [call EXCEPT ![k].pc = "load"]
      <4>1. call'[k].pc # "done" /\ \A j \in Call \ {k} : call'[j] = call[j]
        BY <3>1, <3>2 DEF TypeOK, Handler
      <4> QED  BY <2>2, <4>1, AnswersStay DEF Find, At
    <3>3. ASSUME NEW t \in transfers, t.request = call[k].payload.request,
                 Answer(k, "ok", {t})
          PROVE  AnswersAgree'
      <4>1. /\ call'[k].given = {t} /\ call'[k].payload = call[k].payload
            /\ \A j \in Call \ {k} : call'[j] = call[j]
        BY <3>1, <3>3 DEF TypeOK, Handler, Answer
      <4> QED  BY <2>2, <3>3, <4>1, AnswersStay DEF Find
    <3> QED  BY <2>2, <3>2, <3>3 DEF Find
  <2>3. ASSUME NEW k \in Call, call[k] \in Handler,
               NEW s \in {"missing", "conflict", "error"}, Answer(k, s, {}),
               transfers \subseteq transfers'
        PROVE  AnswersAgree'
    <3>1. /\ call'[k].status # "ok"
          /\ \A j \in Call \ {k} : call'[j] = call[j]
      BY <2>3 DEF TypeOK, Handler, Answer
    <3> QED  BY <2>3, <3>1, AnswersStay
  <2>4. ASSUME NEW k \in Call, Load(k)  PROVE AnswersAgree'
    <3> DEFINE p == call[k].payload
               row == bank[p.customer]
    <3>1. call[k] \in Handler
      BY <2>4, RunningType DEF Load, At
    <3>2. CASE Refusal(p, row) = "none"
      <4>1. call'[k].pc # "done" /\ \A j \in Call \ {k} : call'[j] = call[j]
        BY <2>4, <3>1, <3>2 DEF TypeOK, Handler, Load
      <4> QED  BY <2>4, <4>1, AnswersStay DEF Load, At
    <3>3. CASE Refusal(p, row) # "none"
      <4>1. p \in Payload /\ row \in Record
        BY <3>1, PayloadFields DEF TypeOK, Handler
      <4>2. Refusal(p, row) \in {"missing", "conflict"}
        BY <3>3, <4>1, RefusalType
      <4> QED  BY <2>4, <2>3, <3>1, <3>3, <4>2 DEF Load
    <3> QED  BY <3>2, <3>3
  <2>5. ASSUME NEW k \in Call, Commit(k)  PROVE AnswersAgree'
    <3> DEFINE p == call[k].payload
               row == [id |-> k, request |-> p.request, customer |-> p.customer,
                       amount |-> p.amount]
               inserted == IF p.op = "pix" THEN {row} ELSE {}
    <3>1. call[k] \in Handler /\ transfers \subseteq transfers'
      BY <2>5, RunningType DEF Commit, At
    <3>2. CASE Answer(k, "error", {})
      BY <2>3, <3>1, <3>2
    <3>3. CASE Answer(k, "ok", inserted)
      <4>1. /\ call'[k].given = inserted /\ call'[k].payload = p
            /\ \A j \in Call \ {k} : call'[j] = call[j]
        BY <3>1, <3>3 DEF TypeOK, Handler, Answer
      <4>2. p.op = "pix" => row \in transfers' /\ inserted = {row} /\ row.request = p.request
        BY <2>5 DEF Commit
      <4> QED  BY <3>1, <4>1, <4>2, AnswersStay
    <3> QED  BY <2>5, <3>2, <3>3 DEF Commit
  <2>6. ASSUME NEW k \in Call, Fail(k)  PROVE AnswersAgree'
    <3>1. call[k] \in Handler
      BY <2>6, RunningType DEF Fail
    <3> QED  BY <2>3, <2>6, <3>1 DEF Fail
  <2>7. CASE UNCHANGED vars
    BY <2>7 DEF vars, AnswersAgree, At
  <2> QED  BY <2>1, <2>2, <2>4, <2>5, <2>6, <2>7 DEF Next
<1> QED  BY <1>1, <1>2, TypeCorrect, PTL DEF Spec
-----------------------------------------------------------------------------
(***************************************************************************)
(* The money of an instance that only calls /v1/pix.  A handler may commit *)
(* over a balance that has changed since it loaded it; what it loaded was  *)
(* enough together with what had been paid by then, and transfers only     *)
(* become more.                                                            *)
(***************************************************************************)
Enough(balance, c) == balance + Cardinality(CentsPaid(c)) >= Seed[c].balance

MoneyInv ==
  /\ TypeOK /\ DebitCovered
  /\ IsFiniteSet(transfers)
  /\ \A k \in Call : ~At(k, "idle") => call[k].payload.op = "pix"
  /\ \A k \in Call : At(k, "commit") => Enough(call[k].seen.balance, call[k].payload.customer)
  /\ MoneyNeverLost

LEMMA CentsAreFinite ==
  ASSUME IsFiniteSet(transfers), NEW c
  PROVE  IsFiniteSet(CentsPaid(c)) /\ Cardinality(CentsPaid(c)) \in Nat
<1>1. IsFiniteSet(1 .. MaxMoney)
  BY FS_Interval, BankingAssumption
<1>2. IsFiniteSet(transfers \X (1 .. MaxMoney))
  BY <1>1, FS_Product
<1>3. CentsPaid(c) \in SUBSET (transfers \X (1 .. MaxMoney))
  BY DEF CentsPaid
<1> QED  BY <1>2, <1>3, FS_Subset, FS_CardinalityType

\* A transfer that is inserted adds its amount for its customer, and nothing for others.
LEMMA CentsAdded ==
  ASSUME IsFiniteSet(transfers), NEW row \in Transfer, row \notin transfers,
         transfers' = transfers \cup {row}
  PROVE  /\ IsFiniteSet(transfers')
         /\ Cardinality(CentsPaid(row.customer)') = Cardinality(CentsPaid(row.customer)) + row.amount
         /\ \A c : c # row.customer => CentsPaid(c)' = CentsPaid(c)
<1>1. row.amount \in 0 .. MaxMoney /\ row.amount \in Nat /\ MaxMoney \in Nat
  BY BankingAssumption DEF Transfer, Money
<1> DEFINE c == row.customer
           old == CentsPaid(c)
           new == {row} \X (1 .. row.amount)
<1>2. IsFiniteSet(transfers')
  BY FS_AddElement
<1>3. CentsPaid(c)' = old \cup new
  BY <1>1 DEF CentsPaid
<1>4. old \cap new = {}
  BY DEF CentsPaid
<1>5. IsFiniteSet(1 .. row.amount) /\ Cardinality(1 .. row.amount) = row.amount
  <2> DEFINE n == row.amount
  <2>1. 1 \in Int /\ n \in Int /\ n \in Nat
    BY <1>1
  <2> HIDE DEF n
  <2>2. IsFiniteSet(1 .. n) /\ Cardinality(1 .. n) = IF 1 > n THEN 0 ELSE n - 1 + 1
    BY <2>1, FS_Interval
  <2>3. Cardinality(1 .. n) = n
    BY <2>1, <2>2
  <2> QED  BY <2>2, <2>3 DEF n
<1>6. IsFiniteSet({row}) /\ Cardinality({row}) = 1
  BY FS_Singleton
<1>7. IsFiniteSet(new) /\ Cardinality(new) = 1 * row.amount
  <2> DEFINE A == {row}
             B == 1 .. row.amount
  <2> HIDE DEF A, B
  <2>1. IsFiniteSet(A) /\ IsFiniteSet(B) /\ Cardinality(A) = 1 /\ Cardinality(B) = row.amount
    BY <1>5, <1>6 DEF A, B
  <2>2. IsFiniteSet(A \X B) /\ Cardinality(A \X B) = Cardinality(A) * Cardinality(B)
    BY <2>1, FS_Product
  <2> QED  BY <2>1, <2>2 DEF A, B
<1>8. IsFiniteSet(old) /\ Cardinality(old) \in Nat
  BY CentsAreFinite
<1>9. \A d : d # c => CentsPaid(d)' = CentsPaid(d)
  BY DEF CentsPaid
<1> HIDE DEF old, new
<1>10. Cardinality(old \cup new) = Cardinality(old) + Cardinality(new) - Cardinality(old \cap new)
  BY <1>7, <1>8, FS_Union
<1>11. Cardinality(old \cap new) = 0
  BY <1>4, FS_EmptySet
<1>12. Cardinality(old \cup new) = Cardinality(old) + row.amount
  BY <1>1, <1>7, <1>8, <1>10, <1>11
<1> QED  BY <1>2, <1>3, <1>9, <1>12 DEF old

\* A commit debits what the handler had loaded, whatever the balance has become.
LEMMA PixWrites ==
  ASSUME NEW row \in Record, NEW seen \in Record, NEW p \in Payload, p.op = "pix"
  PROVE  Written(row, seen, Wanted(p, seen)).balance = seen.balance - p.amount
<1>1. p.amount \in Nat /\ p.amount # 0 /\ seen.balance \in Nat
  <2>1. p.amount \in Nat /\ seen.balance \in Nat
    BY PayloadFields DEF Record
  <2>2. p.amount # 0
    BY DEF Payload
  <2> QED  BY <2>1, <2>2
<1> DEFINE new == [seen EXCEPT !.balance = seen.balance - p.amount]
<1>2. Wanted(p, seen) = new
  BY DEF Wanted
<1>3. new.balance = seen.balance - p.amount /\ new.balance # seen.balance
  BY <1>1 DEF Record
<1>4. "balance" \in DOMAIN row
  BY DEF Record
<1> HIDE DEF new
<1> QED  BY <1>2, <1>3, <1>4 DEF Written

\* A step that pays nothing.
LEMMA MoneyQuiet ==
  ASSUME MoneyInv, UNCHANGED <<bank, transfers>>, TypeOK', DebitCovered', NEW k \in Call,
         \A j \in Call \ {k} : call'[j] = call[j],
         call'[k].pc # "idle" => call'[k].payload.op = "pix",
         call'[k].pc = "commit" => Enough(call'[k].seen.balance, call'[k].payload.customer)
  PROVE  MoneyInv'
<1>1. \A c : CentsPaid(c)' = CentsPaid(c)
  BY DEF CentsPaid
<1>2. \A b, c : Enough(b, c)' <=> Enough(b, c)
  BY <1>1 DEF Enough
<1>3. ASSUME NEW j \in Call, call'[j].pc = "commit"
      PROVE  Enough(call'[j].seen.balance, call'[j].payload.customer)
  BY <1>3 DEF MoneyInv, At
<1>4. \A j \in Call : At(j, "commit")' => Enough(call[j].seen.balance, call[j].payload.customer)'
  BY <1>1, <1>3 DEF Enough, At
<1>5. \A j \in Call : (~At(j, "idle"))' => (call[j].payload.op = "pix")'
  BY DEF MoneyInv, At
<1>6. MoneyNeverLost'
  BY <1>1 DEF MoneyInv, MoneyNeverLost
<1>7. IsFiniteSet(transfers)'
  BY DEF MoneyInv
<1> QED  BY <1>4, <1>5, <1>6, <1>7 DEF MoneyInv

LEMMA MoneyCommit ==
  ASSUME MoneyInv, NEW k \in Call, Commit(k), TypeOK', DebitCovered'
  PROVE  MoneyInv'
<1>1. PICK p \in Payload, seen \in Record : call[k].payload = p /\ call[k].seen = seen
  BY RunningType DEF MoneyInv, Commit, At, Handler
<1>2. p.op = "pix" /\ Enough(seen.balance, p.customer)
  BY <1>1 DEF MoneyInv, Commit, At
<1>3. PICK row \in Transfer : /\ row.request = p.request /\ row.customer = p.customer
                              /\ row.amount = p.amount
                              /\ transfers' = transfers \cup {row}
  <2> DEFINE r == [id |-> k, request |-> p.request, customer |-> p.customer, amount |-> p.amount]
  <2>1. r \in Transfer
    BY <1>2, PayloadFields DEF Transfer
  <2>2. transfers' = transfers \cup {r}
    BY <1>1, <1>2 DEF Commit
  <2> QED  BY <2>1, <2>2
<1>4. row \notin transfers
  BY <1>1, <1>2, <1>3 DEF Commit, KeysFree
<1>5. PICK c \in Customer : c = p.customer
  BY PayloadFields
<1>6. /\ IsFiniteSet(transfers')
      /\ Cardinality(CentsPaid(c)') = Cardinality(CentsPaid(c)) + p.amount
      /\ \A d : d # c => CentsPaid(d)' = CentsPaid(d)
  <2>1. row.customer = c /\ row.amount = p.amount
    BY <1>3, <1>5
  <2>2. IsFiniteSet(transfers)
    BY DEF MoneyInv
  <2>3. /\ IsFiniteSet(transfers')
        /\ Cardinality(CentsPaid(row.customer)') = Cardinality(CentsPaid(row.customer)) + row.amount
        /\ \A d : d # row.customer => CentsPaid(d)' = CentsPaid(d)
    BY <1>3, <1>4, <2>2, CentsAdded
  <2> QED  BY <2>1, <2>3
<1>7. p.amount \in Nat /\ seen.balance \in Nat /\ Seed[c].balance \in Nat
  BY <1>2, PayloadFields, BankingAssumption DEF Record
<1>8. Cardinality(CentsPaid(c)) \in Nat
  BY CentsAreFinite DEF MoneyInv
<1>9. bank \in [Customer -> Record]
  BY DEF MoneyInv, TypeOK
<1>10. bank'[c].balance = seen.balance - p.amount /\ \A d \in Customer \ {c} : bank'[d] = bank[d]
  <2>1. bank' = [bank EXCEPT ![c] = Written(bank[c], seen, Wanted(p, seen))]
    BY <1>1, <1>5 DEF Commit
  <2>2. Written(bank[c], seen, Wanted(p, seen)).balance = seen.balance - p.amount
    BY <1>2, <1>9, PixWrites
  <2> QED  BY <1>9, <2>1, <2>2
<1>11. MoneyNeverLost'
  <2>1. seen.balance + Cardinality(CentsPaid(c)) >= Seed[c].balance
    BY <1>2, <1>5 DEF Enough
  <2>2. bank'[c].balance + Cardinality(CentsPaid(c)') >= Seed[c].balance
    BY <1>6, <1>7, <1>8, <1>10, <2>1
  <2>3. \A d \in Customer \ {c} : bank[d].balance + Cardinality(CentsPaid(d)) >= Seed[d].balance
    BY DEF MoneyInv, MoneyNeverLost
  <2>4. \A d \in Customer \ {c} : bank'[d].balance + Cardinality(CentsPaid(d)') >= Seed[d].balance
    BY <1>6, <1>10, <2>3
  <2> QED  BY <2>2, <2>4 DEF MoneyNeverLost
<1>12. call'[k].pc = "done" /\ call'[k].payload = p /\ \A j \in Call \ {k} : call'[j] = call[j]
  BY <1>1, RunningType DEF MoneyInv, TypeOK, Commit, Answer, Handler, At
<1>13. \A j \in Call : (~At(j, "idle"))' => (call[j].payload.op = "pix")'
  BY <1>2, <1>12 DEF MoneyInv, At
<1>14. ASSUME NEW j \in Call, call'[j].pc = "commit"
       PROVE  Enough(call[j].seen.balance, call[j].payload.customer)'
  <2>1. j # k /\ call'[j] = call[j]
    BY <1>12, <1>14
  <2>2. PICK d, b : d = call[j].payload.customer /\ b = call[j].seen.balance
    OBVIOUS
  <2>3. b \in Nat /\ d \in Customer
    BY <1>14, <2>1, <2>2, RunningType, PayloadFields DEF MoneyInv, Handler, Record
  <2>4. b + Cardinality(CentsPaid(d)) >= Seed[d].balance
    BY <1>14, <2>1, <2>2 DEF MoneyInv, At, Enough
  <2>5. b + Cardinality(CentsPaid(d)') >= Seed[d].balance
    <3>1. CASE d # c
      BY <1>6, <2>4, <3>1
    <3>2. CASE d = c
      BY <1>6, <1>7, <1>8, <2>3, <2>4, <3>2
    <3> QED  BY <3>1, <3>2
  <2> QED  BY <2>1, <2>2, <2>5 DEF Enough
<1> QED  BY <1>6, <1>11, <1>13, <1>14 DEF MoneyInv, At

LEMMA MoneyStep ==
  ASSUME Operation \subseteq {"pix"}, MoneyInv, [Next]_vars
  PROVE  MoneyInv'
<1>0. TypeOK /\ DebitCovered /\ TypeOK' /\ DebitCovered'
  BY TypeStep DEF MoneyInv
<1>1. ASSUME NEW k \in Call, Begin(k)  PROVE MoneyInv'
  <2>1. PICK p \in Payload :
          /\ p.op = "pix"
          /\ call' = [call EXCEPT ![k] =
               [pc |-> IF p.op = "pix" THEN "find" ELSE "load", payload |-> p,
                seen |-> bank[p.customer], status |-> "none", given |-> {}]]
    BY <1>1 DEF Begin
  <2>2. call'[k].pc = "find" /\ call'[k].payload = p /\ \A j \in Call \ {k} : call'[j] = call[j]
    BY <1>0, <2>1 DEF TypeOK
  <2> QED  BY <1>0, <1>1, <2>1, <2>2, MoneyQuiet DEF Begin
<1>2. ASSUME NEW k \in Call, call[k] \in Handler, UNCHANGED <<bank, transfers>>,
             NEW h \in Handler, call' = [call EXCEPT ![k] = h],
             h.payload = call[k].payload, call[k].pc # "idle",
             h.pc = "commit" => Enough(h.seen.balance, h.payload.customer)
      PROVE  MoneyInv'
  <2>1. call'[k] = h /\ \A j \in Call \ {k} : call'[j] = call[j]
    BY <1>0, <1>2 DEF TypeOK
  <2>2. call[k].payload.op = "pix"
    BY <1>2 DEF MoneyInv, At
  <2> QED  BY <1>0, <1>2, <2>1, <2>2, MoneyQuiet
<1>3. ASSUME NEW k \in Call, call[k] \in Handler, call[k].pc # "idle",
             UNCHANGED <<bank, transfers>>,
             NEW s \in {"ok", "missing", "conflict", "error"}, NEW g \in SUBSET Transfer,
             Answer(k, s, g)
      PROVE  MoneyInv'
  <2> DEFINE h == [call[k] EXCEPT !.pc = "done", !.status = s, !.given = g]
  <2>1. h \in Handler /\ h.payload = call[k].payload /\ h.pc = "done"
    BY <1>3 DEF Handler
  <2>2. call' = [call EXCEPT ![k] = h]
    BY <1>0, <1>3 DEF Answer, TypeOK
  <2> HIDE DEF h
  <2> QED  BY <1>2, <1>3, <2>1, <2>2
<1>4. ASSUME NEW k \in Call, Find(k)  PROVE MoneyInv'
  <2>1. call[k] \in Handler /\ call[k].pc # "idle" /\ UNCHANGED <<bank, transfers>>
    BY <1>0, <1>4, RunningType DEF Find, At
  <2>2. CASE \E t \in transfers : Answer(k, "ok", {t})
    <3>1. PICK t \in transfers : Answer(k, "ok", {t})
      BY <2>2
    <3>2. {t} \in SUBSET Transfer
      BY <1>0 DEF TypeOK
    <3> QED  BY <1>3, <2>1, <3>1, <3>2
  <2>3. CASE call' = [call EXCEPT ![k].pc = "load"]
    <3> DEFINE h == [call[k] EXCEPT !.pc = "load"]
    <3>1. h \in Handler /\ h.payload = call[k].payload /\ h.pc = "load"
      BY <2>1 DEF Handler
    <3>2. call' = [call EXCEPT ![k] = h]
      BY <2>3
    <3> HIDE DEF h
    <3> QED  BY <1>2, <2>1, <3>1, <3>2
  <2> QED  BY <1>4, <2>2, <2>3 DEF Find
<1>5. ASSUME NEW k \in Call, Load(k)  PROVE MoneyInv'
  <2> DEFINE p == call[k].payload
             row == bank[p.customer]
  <2>1. call[k] \in Handler /\ call[k].pc # "idle" /\ UNCHANGED <<bank, transfers>>
    BY <1>0, <1>5, RunningType DEF Load, At
  <2>2. p \in Payload /\ p.customer \in Customer /\ row \in Record
    BY <1>0, <2>1, PayloadFields DEF TypeOK, Handler
  <2>3. CASE Refusal(p, row) # "none"
    <3>1. Answer(k, Refusal(p, row), {})
      BY <1>5, <2>3 DEF Load
    <3>2. Refusal(p, row) \in {"missing", "conflict"}
      BY <2>2, <2>3, RefusalType
    <3> QED  BY <1>3, <2>1, <3>1, <3>2
  <2>4. CASE Refusal(p, row) = "none"
    <3> DEFINE h == [call[k] EXCEPT !.pc = "commit", !.seen = row]
    <3>1. h \in Handler /\ h.payload = p /\ h.seen = row
      BY <2>1, <2>2 DEF Handler
    <3>2. call' = [call EXCEPT ![k] = h]
      BY <1>5, <2>4 DEF Load
    <3>3. Enough(row.balance, p.customer)
      BY <2>2 DEF MoneyInv, MoneyNeverLost, Enough
    <3>4. h.pc = "commit" => Enough(h.seen.balance, h.payload.customer)
      BY <3>1, <3>3
    <3> HIDE DEF h
    <3> QED  BY <1>2, <2>1, <3>1, <3>2, <3>4
  <2> QED  BY <2>3, <2>4
<1>6. ASSUME NEW k \in Call, Fail(k)  PROVE MoneyInv'
  <2>1. call[k] \in Handler /\ call[k].pc # "idle" /\ UNCHANGED <<bank, transfers>>
    BY <1>0, <1>6, RunningType DEF Fail
  <2> QED  BY <1>3, <1>6, <2>1 DEF Fail
<1>7. CASE UNCHANGED vars
  BY <1>7 DEF vars, MoneyInv, TypeOK, DebitCovered, At, Enough, CentsPaid, MoneyNeverLost
<1> QED  BY <1>0, <1>1, <1>4, <1>5, <1>6, <1>7, MoneyCommit DEF Next

\* Where only /v1/pix is called, a customer's money is on record: what was there
\* is still in the account or was paid by transfers, whatever handlers overlap.
THEOREM MoneyStays == Operation \subseteq {"pix"} => (Spec => []MoneyNeverLost)
<1> SUFFICES ASSUME Operation \subseteq {"pix"}  PROVE Spec => []MoneyNeverLost
  OBVIOUS
<1>1. Init => MoneyInv
  <2> SUFFICES ASSUME Init  PROVE MoneyInv
    OBVIOUS
  <2>1. TypeOK
    BY BankingAssumption DEF Init, TypeOK
  <2>2. DebitCovered /\ \A k \in Call : At(k, "idle") /\ ~At(k, "commit")
    BY DEF Init, Idle, DebitCovered, At
  <2>3. IsFiniteSet(transfers)
    BY FS_EmptySet DEF Init
  <2>4. \A c \in Customer : CentsPaid(c) = {}
    BY DEF Init, CentsPaid
  <2>5. \A c \in Customer : Seed[c].balance \in Nat
    BY BankingAssumption DEF Record
  <2>6. MoneyNeverLost
    BY <2>4, <2>5, FS_EmptySet DEF Init, MoneyNeverLost
  <2> QED  BY <2>1, <2>2, <2>3, <2>6 DEF MoneyInv
<1>2. MoneyInv /\ [Next]_vars => MoneyInv'
  BY MoneyStep
<1>3. MoneyInv => MoneyNeverLost
  BY DEF MoneyInv
<1> QED  BY <1>1, <1>2, <1>3, PTL DEF Spec

-----------------------------------------------------------------------------
(***************************************************************************)
(* The ledger.  What a handler has loaded may be old when it commits, but  *)
(* nobody closes a customer again, and a record that is not open is        *)
(* changed by opening it only; and an UPDATE holds no column but those the *)
(* handler changed.  So a handler that commits over another record than it *)
(* has loaded still does what the ledger allows, unless it computes what   *)
(* it writes from a balance that is not the account's any more.            *)
(***************************************************************************)
Loaded(p, seen, row) ==
  /\ Refusal(p, seen) = "none"
  /\ row.open \/ seen = row

LoadedInv ==
  \A k \in Call : At(k, "commit") =>
    Loaded(call[k].payload, call[k].seen, bank[call[k].payload.customer])

LedgerInv == TypeOK /\ DebitCovered /\ LoadedInv

\* The columns of what is written.
LEMMA WrittenIs ==
  ASSUME NEW row \in Record, NEW seen \in Record, NEW new \in Record
  PROVE  Written(row, seen, new) =
           [open |-> IF new.open # seen.open THEN new.open ELSE row.open,
            balance |-> IF new.balance # seen.balance THEN new.balance ELSE row.balance,
            limit |-> IF new.limit # seen.limit THEN new.limit ELSE row.limit,
            segment |-> IF new.segment # seen.segment THEN new.segment ELSE row.segment,
            score |-> IF new.score # seen.score THEN new.score ELSE row.score]
<1>1. DOMAIN row = {"open", "balance", "limit", "segment", "score"}
  BY DEF Record
<1> QED  BY <1>1 DEF Written

\* A customer is open after every commit.
LEMMA WrittenOpen ==
  ASSUME NEW p \in Payload, NEW seen \in Record, NEW row \in Record, NEW new \in Record,
         new = Wanted(p, seen), Loaded(p, seen, row)
  PROVE  Written(row, seen, new).open
<1>1. Written(row, seen, new).open = IF new.open # seen.open THEN new.open ELSE row.open
  <2>1. "open" \in DOMAIN row
    BY DEF Record
  <2> QED  BY <2>1 DEF Written
<1>2. seen.open \in BOOLEAN /\ row.open \in BOOLEAN
  BY DEF Record
<1>3. CASE p.op = "open"
  <2>1. new.open = TRUE
    BY <1>3 DEF Wanted
  <2>2. seen.open = FALSE
    BY <1>2, <1>3 DEF Loaded, Refusal
  <2> QED  BY <1>1, <2>1, <2>2
<1>4. CASE p.op # "open"
  <2>1. seen.open = TRUE
    BY <1>2, <1>4 DEF Loaded, Refusal
  <2>2. row.open = TRUE
    BY <1>2, <2>1 DEF Loaded
  <2>3. p.op \in {"profile", "balance", "limit", "pix"}
    BY <1>4, PayloadFields
  <2>4. new.open = seen.open
    BY <2>3 DEF Wanted, Record
  <2> QED  BY <1>1, <2>1, <2>2, <2>4
<1> QED  BY <1>3, <1>4

\* What the step of one call leaves of the others.
LEMMA LoadedStep ==
  ASSUME LedgerInv, NEW k \in Call, bank' = bank,
         \A j \in Call \ {k} : call'[j] = call[j],
         call'[k].pc = "commit" =>
           Loaded(call'[k].payload, call'[k].seen, bank[call'[k].payload.customer])
  PROVE  LoadedInv'
<1>1. ASSUME NEW j \in Call, call'[j].pc = "commit"
      PROVE  Loaded(call'[j].payload, call'[j].seen, bank[call'[j].payload.customer])
  <2>1. CASE j = k
    BY <1>1, <2>1
  <2>2. CASE j # k
    BY <1>1, <2>2 DEF LedgerInv, LoadedInv, At
  <2> QED  BY <2>1, <2>2
<1> QED  BY <1>1 DEF LoadedInv, At, Loaded, Refusal

LEMMA CommitIs ==
  ASSUME LedgerInv, NEW k \in Call, Commit(k)
  PROVE  /\ call[k].payload \in Payload /\ call[k].seen \in Record
         /\ call[k].payload.customer \in Customer
         /\ bank[call[k].payload.customer] \in Record
         /\ Wanted(call[k].payload, call[k].seen) \in Record
         /\ Loaded(call[k].payload, call[k].seen, bank[call[k].payload.customer])
         /\ call'[k].pc = "done" /\ \A j \in Call \ {k} : call'[j] = call[j]
<1>1. call[k] \in Handler /\ call[k].pc = "commit"
  BY RunningType DEF LedgerInv, Commit, At
<1>2. call[k].payload \in Payload /\ call[k].seen \in Record
  BY <1>1 DEF Handler
<1>3. call[k].payload.customer \in Customer
  BY <1>2, PayloadFields
<1>4. bank[call[k].payload.customer] \in Record
  BY <1>3 DEF LedgerInv, TypeOK
<1>5. call[k].payload.op = "pix" => call[k].payload.amount <= call[k].seen.balance
  BY <1>1 DEF LedgerInv, DebitCovered, At
<1>6. Wanted(call[k].payload, call[k].seen) \in Record
  BY <1>2, <1>5, WantedType
<1>7. Loaded(call[k].payload, call[k].seen, bank[call[k].payload.customer])
  BY <1>1 DEF LedgerInv, LoadedInv, At
<1>8. call'[k].pc = "done" /\ \A j \in Call \ {k} : call'[j] = call[j]
  BY <1>1 DEF Commit, Answer, Handler, LedgerInv, TypeOK
<1> QED  BY <1>2, <1>3, <1>4, <1>6, <1>7, <1>8

LEMMA LoadedCommit ==
  ASSUME LedgerInv, NEW k \in Call, Commit(k)
  PROVE  LoadedInv'
<1> DEFINE c == call[k].payload.customer
           new == Written(bank[c], call[k].seen, Wanted(call[k].payload, call[k].seen))
<1>1. bank' = [bank EXCEPT ![c] = new]
  BY DEF Commit
<1>2. new.open
  BY CommitIs, WrittenOpen
<1> HIDE DEF c, new
<1>3. bank \in [Customer -> Record]
  BY DEF LedgerInv, TypeOK
<1>4. ASSUME NEW j \in Call, call'[j].pc = "commit"
      PROVE  Loaded(call'[j].payload, call'[j].seen, bank'[call'[j].payload.customer])
  <2>1. j # k /\ call'[j] = call[j]
    BY <1>4, CommitIs
  <2>2. Loaded(call[j].payload, call[j].seen, bank[call[j].payload.customer])
    BY <1>4, <2>1 DEF LedgerInv, LoadedInv, At
  <2>3. call[j].payload.customer \in Customer
    BY <1>4, <2>1, RunningType, PayloadFields DEF LedgerInv, Handler
  <2>4. CASE call[j].payload.customer = c
    <3>1. bank'[call[j].payload.customer] = new
      BY <1>1, <1>3, <2>3, <2>4
    <3> QED  BY <1>2, <2>1, <2>2, <3>1 DEF Loaded
  <2>5. CASE call[j].payload.customer # c
    <3>1. bank'[call[j].payload.customer] = bank[call[j].payload.customer]
      BY <1>1, <1>3, <2>3, <2>5
    <3> QED  BY <2>1, <2>2, <3>1
  <2> QED  BY <2>4, <2>5
<1> QED  BY <1>4 DEF LoadedInv, At, Loaded, Refusal

LEMMA LedgerInvStep ==
  ASSUME LedgerInv, [Next]_vars
  PROVE  LedgerInv'
<1>0. TypeOK /\ DebitCovered /\ TypeOK' /\ DebitCovered'
  BY TypeStep DEF LedgerInv
<1>1. ASSUME NEW k \in Call, Begin(k)  PROVE LoadedInv'
  <2>1. bank' = bank /\ call'[k].pc # "commit" /\ \A j \in Call \ {k} : call'[j] = call[j]
    BY <1>0, <1>1 DEF Begin, TypeOK
  <2> QED  BY <2>1, LoadedStep
<1>2. ASSUME NEW k \in Call, Find(k)  PROVE LoadedInv'
  <2>1. call[k] \in Handler
    BY <1>0, <1>2, RunningType DEF Find, At
  <2>2. bank' = bank /\ call'[k].pc # "commit" /\ \A j \in Call \ {k} : call'[j] = call[j]
    BY <1>0, <1>2, <2>1 DEF Find, Answer, Handler, TypeOK
  <2> QED  BY <2>2, LoadedStep
<1>3. ASSUME NEW k \in Call, Load(k)  PROVE LoadedInv'
  <2> DEFINE p == call[k].payload
             row == bank[p.customer]
  <2>1. call[k] \in Handler /\ bank' = bank
    BY <1>0, <1>3, RunningType DEF Load, At
  <2>2. CASE Refusal(p, row) # "none"
    <3>1. call'[k].pc # "commit" /\ \A j \in Call \ {k} : call'[j] = call[j]
      BY <1>0, <1>3, <2>1, <2>2 DEF Load, Answer, Handler, TypeOK
    <3> QED  BY <2>1, <3>1, LoadedStep
  <2>3. CASE Refusal(p, row) = "none"
    <3>1. call' = [call EXCEPT ![k].pc = "commit", ![k].seen = row]
      BY <1>3, <2>3 DEF Load
    <3>2. /\ call'[k].payload = p /\ call'[k].seen = row
          /\ \A j \in Call \ {k} : call'[j] = call[j]
      BY <1>0, <2>1, <3>1 DEF Handler, TypeOK
    <3>3. Loaded(call'[k].payload, call'[k].seen, bank[call'[k].payload.customer])
      BY <2>3, <3>2 DEF Loaded
    <3> QED  BY <2>1, <3>2, <3>3, LoadedStep
  <2> QED  BY <2>2, <2>3
<1>4. ASSUME NEW k \in Call, Fail(k)  PROVE LoadedInv'
  <2>1. call[k] \in Handler
    BY <1>0, <1>4, RunningType DEF Fail
  <2>2. bank' = bank /\ call'[k].pc # "commit" /\ \A j \in Call \ {k} : call'[j] = call[j]
    BY <1>0, <1>4, <2>1 DEF Fail, Answer, Handler, TypeOK
  <2> QED  BY <2>2, LoadedStep
<1>5. ASSUME UNCHANGED vars  PROVE LoadedInv'
  <2>1. bank' = bank /\ call' = call
    BY <1>5 DEF vars
  <2> QED  BY <2>1 DEF LedgerInv, LoadedInv, At, Loaded, Refusal
<1>6. LoadedInv'
  BY <1>1, <1>2, <1>3, <1>4, <1>5, LoadedCommit DEF Next
<1> QED  BY <1>0, <1>6 DEF LedgerInv

-----------------------------------------------------------------------------
LEMMA MarksSet ==
  ASSUME NEW row \in Record, NEW u \in Mark, NEW v \in Mark
  PROVE  [row EXCEPT !.segment = u, !.score = v] =
           [open |-> row.open, balance |-> row.balance, limit |-> row.limit,
            segment |-> u, score |-> v]
<1> DEFINE half == [row EXCEPT !.segment = u]
<1>1. half = [open |-> row.open, balance |-> row.balance, limit |-> row.limit,
              segment |-> u, score |-> row.score]
  BY DEF Record
<1>2. half \in Record
  BY DEF Record
<1>3. [row EXCEPT !.segment = u, !.score = v] = [half EXCEPT !.score = v]
  OBVIOUS
<1> HIDE DEF half
<1>4. [half EXCEPT !.score = v] =
        [open |-> half.open, balance |-> half.balance, limit |-> half.limit,
         segment |-> half.segment, score |-> v]
  BY <1>2 DEF Record
<1> QED  BY <1>1, <1>3, <1>4

MarksOf(written, row) ==
  \E u, v \in Mark : written = [row EXCEPT !.segment = u, !.score = v]

\* What each route writes of a record, whatever has become of it since it was
\* loaded.
LEMMA WrittenProfile ==
  ASSUME NEW row \in Record, NEW seen \in Record,
         NEW new \in Record, new.open = seen.open, new.balance = seen.balance,
         new.limit = seen.limit
  PROVE  MarksOf(Written(row, seen, new), row)
<1> DEFINE u == IF new.segment # seen.segment THEN new.segment ELSE row.segment
           v == IF new.score # seen.score THEN new.score ELSE row.score
<1>2. u \in Mark /\ v \in Mark
  BY DEF Record
<1>3. Written(row, seen, new) = [open |-> row.open, balance |-> row.balance,
                                 limit |-> row.limit, segment |-> u, score |-> v]
  BY WrittenIs
<1> HIDE DEF u, v
<1>4. [row EXCEPT !.segment = u, !.score = v] =
        [open |-> row.open, balance |-> row.balance,
         limit |-> row.limit, segment |-> u, score |-> v]
  BY <1>2, MarksSet
<1> QED  BY <1>2, <1>3, <1>4 DEF MarksOf

LEMMA WrittenBalance ==
  ASSUME NEW row \in Record, NEW seen \in Record, NEW n \in Nat,
         NEW new \in Record, new.open = seen.open, new.balance = n,
         new.limit = seen.limit, new.segment = seen.segment, new.score = seen.score
  PROVE  Written(row, seen, new) =
           [row EXCEPT !.balance = IF n # seen.balance THEN n ELSE row.balance]
<1> DEFINE b == IF n # seen.balance THEN n ELSE row.balance
<1>2. Written(row, seen, new) = [open |-> row.open, balance |-> b,
                                 limit |-> row.limit, segment |-> row.segment,
                                 score |-> row.score]
  BY WrittenIs
<1> HIDE DEF b
<1>3. [row EXCEPT !.balance = b] =
        [open |-> row.open, balance |-> b,
         limit |-> row.limit, segment |-> row.segment, score |-> row.score]
  BY DEF Record
<1> QED  BY <1>2, <1>3 DEF b

LEMMA WrittenLimit ==
  ASSUME NEW row \in Record, NEW seen \in Record, NEW n \in Nat,
         NEW new \in Record, new.open = seen.open, new.balance = seen.balance,
         new.limit = n, new.segment = seen.segment, new.score = seen.score
  PROVE  Written(row, seen, new) =
           [row EXCEPT !.limit = IF n # seen.limit THEN n ELSE row.limit]
<1> DEFINE b == IF n # seen.limit THEN n ELSE row.limit
<1>2. Written(row, seen, new) = [open |-> row.open, balance |-> row.balance,
                                 limit |-> b, segment |-> row.segment,
                                 score |-> row.score]
  BY WrittenIs
<1> HIDE DEF b
<1>3. [row EXCEPT !.limit = b] =
        [open |-> row.open, balance |-> row.balance,
         limit |-> b, segment |-> row.segment, score |-> row.score]
  BY DEF Record
<1> QED  BY <1>2, <1>3 DEF b

LEMMA WrittenOver ==
  ASSUME NEW row \in Record, NEW new \in Record
  PROVE  Written(row, row, new) = new
<1>1. DOMAIN row = {"open", "balance", "limit", "segment", "score"} /\ DOMAIN new = DOMAIN row
  BY DEF Record
<1>2. new = [col \in DOMAIN row |-> new[col]]
  BY <1>1 DEF Record
<1>3. Written(row, row, new) = [col \in DOMAIN row |-> new[col]]
  BY DEF Written
<1> QED  BY <1>2, <1>3

\* Every commit but that of an overtaken PIX is an operation of the ledger, or
\* changes nothing: an amount that is already loaded is not written.
LEMMA CommitIsLedger ==
  ASSUME LedgerInv, NEW k \in Call, Commit(k), ~Overtaken(k)
  PROVE  Ledger!Next \/ UNCHANGED Ledger!vars
<1>1. PICK p \in Payload, seen \in Record : call[k].payload = p /\ call[k].seen = seen
  BY CommitIs
<1>2. PICK c \in Customer : c = p.customer
  BY PayloadFields
<1>3. PICK row \in Record : row = bank[c]
  BY <1>1, <1>2, CommitIs
<1>4. Loaded(p, seen, row) /\ Wanted(p, seen) \in Record
  BY <1>1, <1>2, <1>3, CommitIs
<1>5. bank \in [Customer -> Record] /\ row.open \in BOOLEAN /\ row.balance \in Nat
      /\ seen.open \in BOOLEAN /\ seen.balance \in Nat
  BY DEF LedgerInv, TypeOK, Record
<1> DEFINE paid == {[request |-> t.request, customer |-> t.customer, amount |-> t.amount] :
                      t \in transfers}
<1>6. bank' = [bank EXCEPT ![c] = Written(row, seen, Wanted(p, seen))]
  BY <1>1, <1>2, <1>3 DEF Commit
<1>7. p.op # "open" => row.open /\ bank[c].open
  BY <1>3, <1>4, <1>5 DEF Refusal, Loaded
<1>8. CASE p.op # "pix"
  <2>1. transfers' = transfers
    BY <1>1, <1>8 DEF Commit
  <2>2. paid' = paid
    BY <2>1
  <2>3. CASE p.op = "open"
    <3>1. PICK m \in Money, n \in Money, x \in Mark, y \in Mark :
            p.balance = m /\ p.limit = n /\ p.segment = x /\ p.score = y
      BY <2>3 DEF Payload
    <3>2. bank[c].open = FALSE
      BY <1>1, <1>2, <1>3, <1>5, <2>3 DEF Commit, KeysFree
    <3>3. seen = row
      BY <1>3, <1>4, <3>2 DEF Loaded
    <3>4. bank' = [bank EXCEPT ![c] = Wanted(p, seen)]
      BY <1>4, <1>6, <3>3, WrittenOver
    <3>5. bank' = [bank EXCEPT ![c] = [open |-> TRUE, balance |-> m, limit |-> n,
                                       segment |-> x, score |-> y]]
      BY <2>3, <3>1, <3>4 DEF Wanted
    <3>6. Ledger!Open(c)
      BY <2>2, <3>2, <3>5 DEF Ledger!Open, Ledger!Money, Money
    <3> QED  BY <3>6 DEF Ledger!Next
  <2>4. CASE p.op = "profile"
    <3>a. Wanted(p, seen) = [seen EXCEPT !.segment = p.segment, !.score = p.score]
      BY <2>4 DEF Wanted
    <3>2. /\ Wanted(p, seen).open = seen.open /\ Wanted(p, seen).balance = seen.balance
          /\ Wanted(p, seen).limit = seen.limit
      BY <3>a DEF Record
    <3>b. MarksOf(Written(row, seen, Wanted(p, seen)), row)
      BY <1>4, <3>2, WrittenProfile
    <3>3. PICK x \in Mark, y \in Mark :
            Written(row, seen, Wanted(p, seen)) = [row EXCEPT !.segment = x, !.score = y]
      BY <3>b, Zenon DEF MarksOf
    <3>4. bank' = [bank EXCEPT ![c].segment = x, ![c].score = y]
      BY <1>3, <1>5, <1>6, <3>3
    <3>5. Ledger!Set(c)
      BY <1>7, <2>2, <2>4, <3>4 DEF Ledger!Set
    <3> QED  BY <3>5 DEF Ledger!Next
  <2>5. CASE p.op = "balance"
    <3>1. PICK m \in Money : p.balance = m
      BY <2>5 DEF Payload
    <3>2. m \in Nat
      BY BankingAssumption DEF Money
    <3>a. Wanted(p, seen) = [seen EXCEPT !.balance = m]
      BY <2>5, <3>1 DEF Wanted
    <3>3. /\ Wanted(p, seen).open = seen.open /\ Wanted(p, seen).balance = m
          /\ Wanted(p, seen).limit = seen.limit
          /\ Wanted(p, seen).segment = seen.segment /\ Wanted(p, seen).score = seen.score
      BY <3>a DEF Record
    <3>4. Written(row, seen, Wanted(p, seen)) =
            [row EXCEPT !.balance = IF m # seen.balance THEN m ELSE row.balance]
      BY <1>4, <3>2, <3>3, WrittenBalance
    <3>5. CASE m # seen.balance
      <4>0. Written(row, seen, Wanted(p, seen)) = [row EXCEPT !.balance = m]
        BY <3>4, <3>5
      <4>1. bank' = [bank EXCEPT ![c].balance = m]
        BY <1>3, <1>6, <4>0
      <4>2. Ledger!Set(c)
        BY <1>7, <2>2, <2>5, <4>1 DEF Ledger!Set, Ledger!Money, Money
      <4> QED  BY <4>2 DEF Ledger!Next
    <3>6. CASE m = seen.balance
      <4>1. [row EXCEPT !.balance = row.balance] = row
        BY DEF Record
      <4>a. Written(row, seen, Wanted(p, seen)) = row
        BY <3>4, <3>6, <4>1
      <4>2. bank' = bank
        BY <1>3, <1>5, <1>6, <4>a
      <4> QED  BY <2>2, <4>2 DEF Ledger!vars
    <3> QED  BY <3>5, <3>6
  <2>6. CASE p.op = "limit"
    <3>1. PICK m \in Money : p.limit = m
      BY <2>6 DEF Payload
    <3>2. m \in Nat
      BY BankingAssumption DEF Money
    <3>a. Wanted(p, seen) = [seen EXCEPT !.limit = m]
      BY <2>6, <3>1 DEF Wanted
    <3>3. /\ Wanted(p, seen).open = seen.open /\ Wanted(p, seen).balance = seen.balance
          /\ Wanted(p, seen).limit = m
          /\ Wanted(p, seen).segment = seen.segment /\ Wanted(p, seen).score = seen.score
      BY <3>a DEF Record
    <3>4. Written(row, seen, Wanted(p, seen)) =
            [row EXCEPT !.limit = IF m # seen.limit THEN m ELSE row.limit]
      BY <1>4, <3>2, <3>3, WrittenLimit
    <3>5. CASE m # seen.limit
      <4>0. Written(row, seen, Wanted(p, seen)) = [row EXCEPT !.limit = m]
        BY <3>4, <3>5
      <4>1. bank' = [bank EXCEPT ![c].limit = m]
        BY <1>3, <1>6, <4>0
      <4>2. Ledger!Set(c)
        BY <1>7, <2>2, <2>6, <4>1 DEF Ledger!Set, Ledger!Money, Money
      <4> QED  BY <4>2 DEF Ledger!Next
    <3>6. CASE m = seen.limit
      <4>1. [row EXCEPT !.limit = row.limit] = row
        BY DEF Record
      <4>a. Written(row, seen, Wanted(p, seen)) = row
        BY <3>4, <3>6, <4>1
      <4>2. bank' = bank
        BY <1>3, <1>5, <1>6, <4>a
      <4> QED  BY <2>2, <4>2 DEF Ledger!vars
    <3> QED  BY <3>5, <3>6
  <2> QED  BY <1>8, <2>3, <2>4, <2>5, <2>6, PayloadFields
<1>9. CASE p.op = "pix"
  <2>1. PICK q \in RequestId, m \in Money \ {0} : p.request = q /\ p.amount = m
    BY <1>9 DEF Payload
  <2>2. row.balance = seen.balance
    BY <1>1, <1>2, <1>3, <1>9 DEF Overtaken, Commit
  <2>3. m \in Nat /\ m # 0 /\ m <= row.balance
    <3>1. m \in Nat /\ m # 0
      BY BankingAssumption DEF Money
    <3>2. m <= seen.balance
      BY <1>1, <1>9, <2>1 DEF LedgerInv, DebitCovered, Commit
    <3> QED  BY <2>2, <3>1, <3>2
  <2>4. bank' = [bank EXCEPT ![c].balance = @ - m]
    <3>a. Wanted(p, seen) = [seen EXCEPT !.balance = seen.balance - m]
      BY <1>9, <2>1 DEF Wanted
    <3>1. /\ Wanted(p, seen).open = seen.open
          /\ Wanted(p, seen).balance = seen.balance - m
          /\ Wanted(p, seen).limit = seen.limit
          /\ Wanted(p, seen).segment = seen.segment /\ Wanted(p, seen).score = seen.score
      BY <3>a DEF Record
    <3>2. seen.balance - m \in Nat /\ seen.balance - m # seen.balance
      BY <1>5, <2>2, <2>3
    <3>3. Written(row, seen, Wanted(p, seen)) = [row EXCEPT !.balance = seen.balance - m]
      BY <1>4, <3>1, <3>2, WrittenBalance
    <3> QED  BY <1>3, <1>6, <2>2, <3>3
  <2>5. \A t \in paid : t.request # q
    BY <1>1, <1>9, <2>1 DEF Commit, KeysFree
  <2> DEFINE new == [id |-> k, request |-> q, customer |-> c, amount |-> m]
  <2>6. transfers' = transfers \cup {new}
    BY <1>1, <1>2, <1>9, <2>1 DEF Commit
  <2>7. paid' = paid \cup {[request |-> q, customer |-> c, amount |-> m]}
    <3>1. paid' = {[request |-> t.request, customer |-> t.customer, amount |-> t.amount] :
                     t \in transfers'}
      OBVIOUS
    <3>2. new.request = q /\ new.customer = c /\ new.amount = m
      OBVIOUS
    <3> HIDE DEF new
    <3> QED  BY <2>6, <3>1, <3>2
  <2>8. bank[c].open /\ m <= bank[c].balance
    BY <1>3, <1>7, <1>9, <2>3
  <2> HIDE DEF paid
  <2>9. m \in Ledger!Money \ {0}
    BY DEF Ledger!Money, Money
  <2> USE DEF paid
  <2>10. Ledger!Pay(q, c)
    BY <2>4, <2>5, <2>7, <2>8, <2>9 DEF Ledger!Pay
  <2> QED  BY <2>10 DEF Ledger!Next
<1> QED  BY <1>8, <1>9

\* However many threads the pool has and however their handlers overlap, every
\* commit is one operation of the ledger: the only one that may not be is a PIX
\* whose account's balance was changed between its SELECT and its COMMIT.
THEOREM ApiIsLedger == Spec => ImplementsLedger
<1>1. Init => LedgerInv
  <2> SUFFICES ASSUME Init  PROVE LedgerInv
    OBVIOUS
  <2>1. TypeOK
    BY BankingAssumption DEF Init, TypeOK
  <2>2. \A k \in Call : call[k].pc = "idle"
    BY DEF Init, Idle
  <2> QED  BY <2>1, <2>2 DEF LedgerInv, DebitCovered, LoadedInv, At
<1>2. LedgerInv /\ [Next]_vars => LedgerInv'
  BY LedgerInvStep
<1>3. Init => Ledger!Init
  BY DEF Init, Ledger!Init
<1>4. LedgerInv /\ [Next]_vars =>
        [Ledger!Next \/ \E k \in Call : Overtaken(k) /\ At(k, "done")']_(Ledger!vars)
  <2> SUFFICES ASSUME LedgerInv, [Next]_vars
               PROVE  [Ledger!Next \/ \E k \in Call : Overtaken(k) /\ At(k, "done")']_(Ledger!vars)
    OBVIOUS
  <2>1. CASE UNCHANGED <<bank, transfers>>
    BY <2>1 DEF Ledger!vars
  <2>2. ASSUME NEW k \in Call, Commit(k)
        PROVE  [Ledger!Next \/ \E j \in Call : Overtaken(j) /\ At(j, "done")']_(Ledger!vars)
    <3>1. CASE Overtaken(k)
      <4>1. At(k, "done")'
        BY <2>2, CommitIs DEF At
      <4> QED  BY <3>1, <4>1
    <3>2. CASE ~Overtaken(k)
      BY <2>2, <3>2, CommitIsLedger
    <3> QED  BY <3>1, <3>2
  <2> QED  BY <2>1, <2>2 DEF Next, vars, Begin, Find, Load, Fail
<1> QED  BY <1>1, <1>2, <1>3, <1>4, PTL DEF Spec, ImplementsLedger

=============================================================================
