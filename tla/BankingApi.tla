----------------------------- MODULE BankingApi -----------------------------
(***************************************************************************)
(* The Banking API (banking_api/app.py): synchronous handlers that run in  *)
(* a pool of threads, each in a transaction of its own at PostgreSQL's     *)
(* default isolation, READ COMMITTED.  Every statement sees what is        *)
(* committed when it runs; what the handler changed is written by          *)
(* session.commit(), in one transaction, and only the attributes whose     *)
(* value differs from the one that was loaded.                             *)
(*                                                                         *)
(* Amounts are whole cents.  A customer's rows in customers, accounts and  *)
(* credit_cards are one record here: they are inserted together, and every *)
(* handler changes the columns of one table only.                          *)
(***************************************************************************)
EXTENDS Integers, FiniteSets

CONSTANTS
  Customer,   \* customer ids a caller may name
  RequestId,  \* request_ids a PIX may carry
  Call,       \* bound: the HTTP requests that are made
  Threads,    \* how many handlers run at once
  Operation,  \* which of the routes are called
  MaxMoney,   \* bound: the largest amount in a payload
  Mark,       \* values of the profile's columns
  Seed        \* the records the migration leaves in the tables

Money == 0 .. MaxMoney
Record == [open : BOOLEAN, balance : Nat, limit : Nat, segment : Mark, score : Mark]

ASSUME BankingAssumption ==
  /\ MaxMoney \in Nat
  /\ Threads \in Nat \ {0}
  /\ Seed \in [Customer -> Record]

\* What a caller may send; the schemas want a PIX to be above zero.
Payload ==
  [op : {"open"}, customer : Customer, balance : Money, limit : Money,
   segment : Mark, score : Mark]
  \cup [op : {"profile"}, customer : Customer, segment : Mark, score : Mark]
  \cup [op : {"balance"}, customer : Customer, balance : Money]
  \cup [op : {"limit"}, customer : Customer, limit : Money]
  \cup [op : {"pix"}, customer : Customer, request : RequestId, amount : Money \ {0}]

\* A row of pix_transfers; its id is the call that inserted it.
Transfer == [id : Call, request : RequestId, customer : Customer, amount : Money]

VARIABLES
  bank,       \* the committed record of each customer
  transfers,  \* the committed rows of pix_transfers
  call        \* the handler of each HTTP request

vars == <<bank, transfers, call>>

Idle == [pc |-> "idle"]
Handler == [pc : {"find", "load", "commit", "done"}, payload : Payload, seen : Record,
            status : {"none", "ok", "missing", "conflict", "error"},
            given : SUBSET Transfer]

Init ==
  /\ bank = Seed
  /\ transfers = {}
  /\ call = [k \in Call |-> Idle]

-----------------------------------------------------------------------------
At(k, pc) == call[k].pc = pc
Running == {k \in Call : call[k].pc \notin {"idle", "done"}}
Answer(k, status, given) ==
  call' = [call EXCEPT ![k].pc = "done", ![k].status = status, ![k].given = given]

\* A request comes in while a thread is free.
Begin(k) ==
  /\ At(k, "idle")
  /\ Cardinality(Running) < Threads
  /\ \E p \in Payload :
       /\ p.op \in Operation
       /\ call' = [call EXCEPT ![k] =
            [pc |-> IF p.op = "pix" THEN "find" ELSE "load", payload |-> p,
             seen |-> bank[p.customer], status |-> "none", given |-> {}]]
  /\ UNCHANGED <<bank, transfers>>

\* Variant: an existing transfer is looked up by its customer.
Find_byCustomer(k) ==
  LET same == {t \in transfers : t.customer = call[k].payload.customer}
  IN  /\ At(k, "find")
      /\ \/ \E t \in same : Answer(k, "ok", {t})
         \/ same = {} /\ call' = [call EXCEPT ![k].pc = "load"]
      /\ UNCHANGED <<bank, transfers>>

\* A transfer of this request_id is answered again, whatever else is asked for.
Find(k) ==
  LET same == {t \in transfers : t.request = call[k].payload.request}
  IN  /\ At(k, "find")
      /\ \/ \E t \in same : Answer(k, "ok", {t})
         \/ same = {} /\ call' = [call EXCEPT ![k].pc = "load"]
      /\ UNCHANGED <<bank, transfers>>

\* Variant: the balance is not compared with the amount.
Refusal_noFunds(p, row) ==
  CASE p.op = "open" -> IF row.open THEN "conflict" ELSE "none"
    [] p.op # "open" -> IF row.open THEN "none" ELSE "missing"

\* Why a handler raises after its SELECT, if it does.
Refusal(p, row) ==
  CASE p.op = "open" -> IF row.open THEN "conflict" ELSE "none"
    [] p.op # "open" /\ ~row.open -> "missing"
    [] p.op = "pix" /\ row.open /\ row.balance < p.amount -> "conflict"
    [] OTHER -> "none"

Load(k) ==
  LET p == call[k].payload
      row == bank[p.customer]
  IN  /\ At(k, "load")
      /\ IF Refusal(p, row) = "none"
           THEN call' = [call EXCEPT ![k].pc = "commit", ![k].seen = row]
           ELSE Answer(k, Refusal(p, row), {})
      /\ UNCHANGED <<bank, transfers>>

\* Variant: the amount is added.
Wanted_credit(p, seen) ==
  CASE p.op = "open" ->
         [open |-> TRUE, balance |-> p.balance, limit |-> p.limit,
          segment |-> p.segment, score |-> p.score]
    [] p.op = "profile" -> [seen EXCEPT !.segment = p.segment, !.score = p.score]
    [] p.op = "balance" -> [seen EXCEPT !.balance = p.balance]
    [] p.op = "limit" -> [seen EXCEPT !.limit = p.limit]
    [] p.op = "pix" -> [seen EXCEPT !.balance = @ + p.amount]

\* The record as the handler has it in memory when it commits.
Wanted(p, seen) ==
  CASE p.op = "open" ->
         [open |-> TRUE, balance |-> p.balance, limit |-> p.limit,
          segment |-> p.segment, score |-> p.score]
    [] p.op = "profile" -> [seen EXCEPT !.segment = p.segment, !.score = p.score]
    [] p.op = "balance" -> [seen EXCEPT !.balance = p.balance]
    [] p.op = "limit" -> [seen EXCEPT !.limit = p.limit]
    [] p.op = "pix" -> [seen EXCEPT !.balance = @ - p.amount]

\* The UPDATE holds the columns whose value is not the loaded one.
Written(row, seen, new) ==
  [col \in DOMAIN row |-> IF new[col] # seen[col] THEN new[col] ELSE row[col]]

\* Variant: pix_transfers.request_id has no unique constraint.
KeysFree_notUnique(p) == p.op = "open" => ~bank[p.customer].open

\* Variant: customers have no unique key: who was opened is opened again.
KeysFree_reopened(p) == p.op = "pix" => \A t \in transfers : t.request # p.request

\* The primary key of customers, the unique request_id of pix_transfers.
KeysFree(p) ==
  /\ p.op = "open" => ~bank[p.customer].open
  /\ p.op = "pix" => \A t \in transfers : t.request # p.request

\* Variant: the debit is committed before the transfer's row is inserted, and
\* the insert may fail.
Commit_noRow(k) ==
  LET p == call[k].payload
  IN  /\ At(k, "commit")
      /\ KeysFree(p)
      /\ bank' = [bank EXCEPT ![p.customer] =
                    Written(@, call[k].seen, Wanted(p, call[k].seen))]
      /\ Answer(k, "error", {})
      /\ UNCHANGED transfers

\* The caller may still see an error: the refresh or the connection fails.
Commit(k) ==
  LET p == call[k].payload
      row == [id |-> k, request |-> p.request, customer |-> p.customer,
              amount |-> p.amount]
      inserted == IF p.op = "pix" THEN {row} ELSE {}
  IN  /\ At(k, "commit")
      /\ KeysFree(p)
      /\ bank' = [bank EXCEPT ![p.customer] =
                    Written(@, call[k].seen, Wanted(p, call[k].seen))]
      /\ transfers' = transfers \cup inserted
      /\ Answer(k, "ok", inserted) \/ Answer(k, "error", {})

\* A taken key, the database or the process makes the handler fail: its
\* transaction is rolled back.
Fail(k) ==
  /\ call[k].pc \in {"find", "load", "commit"}
  /\ Answer(k, "error", {})
  /\ UNCHANGED <<bank, transfers>>

Next == \E k \in Call : Begin(k) \/ Find(k) \/ Load(k) \/ Commit(k) \/ Fail(k)

Spec == Init /\ [][Next]_vars
-----------------------------------------------------------------------------
\* Types; what is hard in it is that a balance is never below zero, although
\* the balance that is checked is not the one that is committed over.
TypeOK ==
  /\ bank \in [Customer -> Record]
  /\ transfers \subseteq Transfer
  /\ call \in [Call -> Handler \cup {Idle}]

\* What makes TypeOK inductive: the debit that waits to be committed was covered
\* by the balance the handler has loaded.
DebitCovered ==
  \A k \in Call : At(k, "commit") /\ call[k].payload.op = "pix" =>
    call[k].payload.amount <= call[k].seen.balance

\* However often and however concurrently a request_id is sent, one transfer
\* at most is executed for it.
RetryPaysOnce ==
  \A t, u \in transfers : t.request = u.request => t = u

\* Whoever was told that a request_id is paid was told of the one transfer
\* that is on record for it.
AnswersAgree ==
  \A k \in Call : At(k, "done") =>
    (call[k].status = "ok" /\ call[k].payload.op = "pix" =>
       \E t \in transfers : /\ call[k].given = {t}
                            /\ t.request = call[k].payload.request)

\* The cents of the transfers that are on record for a customer.
CentsPaid(c) ==
  {u \in transfers \X (1 .. MaxMoney) : u[1].customer = c /\ u[2] <= u[1].amount}

\* Amounts on record and money left never add up to less than there was: a
\* transfer that fails debits nothing.  (For instances that only call /v1/pix;
\* that they may add up to more is said in the README.)
MoneyNeverLost ==
  \A c \in Customer : bank[c].balance + Cardinality(CentsPaid(c)) >= Seed[c].balance

\* A PIX about to be committed although another handler has changed the balance
\* of its account since it was loaded.
Overtaken(k) ==
  /\ At(k, "commit")
  /\ call[k].payload.op = "pix"
  /\ bank[call[k].payload.customer].balance # call[k].seen.balance

Ledger == INSTANCE BankLedger WITH
  paid <- {[request |-> t.request, customer |-> t.customer, amount |-> t.amount] :
             t \in transfers}

\* However handlers overlap, the API is the ledger: whole operations, debits of
\* exactly the amount.  An overtaken PIX is the one step that may not be (the
\* README says what it does).
ImplementsLedger ==
  Ledger!Init
  /\ [][Ledger!Next \/ \E k \in Call : Overtaken(k) /\ At(k, "done")']_(Ledger!vars)
=============================================================================
