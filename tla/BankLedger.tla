----------------------------- MODULE BankLedger -----------------------------
(***************************************************************************)
(* What the Banking API is there for: a customer's record changes by whole *)
(* operations, and a transfer debits its account by exactly its amount,    *)
(* once per request_id, and never beyond the balance.                      *)
(***************************************************************************)
EXTENDS Integers

CONSTANTS Customer, RequestId, MaxMoney, Mark, Seed

Money == 0 .. MaxMoney

VARIABLES
  bank,  \* the record of each customer
  paid   \* the transfers that were executed

vars == <<bank, paid>>

Init == bank = Seed /\ paid = {}

Open(c) ==
  /\ bank[c].open = FALSE
  /\ \E m, n \in Money, x, y \in Mark :
       bank' = [bank EXCEPT ![c] = [open |-> TRUE, balance |-> m, limit |-> n,
                                    segment |-> x, score |-> y]]
  /\ UNCHANGED paid

Set(c) ==
  /\ bank[c].open
  /\ \/ \E m \in Money : bank' = [bank EXCEPT ![c].balance = m]
     \/ \E m \in Money : bank' = [bank EXCEPT ![c].limit = m]
     \/ \E x, y \in Mark : bank' = [bank EXCEPT ![c].segment = x, ![c].score = y]
  /\ UNCHANGED paid

Pay(q, c) ==
  /\ bank[c].open
  /\ \A t \in paid : t.request # q
  /\ \E m \in Money \ {0} :
       /\ m <= bank[c].balance
       /\ bank' = [bank EXCEPT ![c].balance = @ - m]
       /\ paid' = paid \cup {[request |-> q, customer |-> c, amount |-> m]}

Next == \E c \in Customer : Open(c) \/ Set(c) \/ \E q \in RequestId : Pay(q, c)

Spec == Init /\ [][Next]_vars
=============================================================================
