--------------------------- MODULE MCBankingApi ---------------------------
\* Instances of BankingApi for TLC.
EXTENDS BankingApi, TLC

CONSTANTS c1, c2, q1, q2, k1, k2, k3, k4, m1, m2

Symmetry == Permutations({q1, q2}) \cup Permutations({k1, k2, k3, k4})

\* The migration's customer, and one that has to be opened.
SeedOne == [c \in Customer |->
  [open |-> c = c1, balance |-> IF c = c1 THEN 2 ELSE 0,
   limit |-> IF c = c1 THEN 1 ELSE 0, segment |-> m1, score |-> m1]]

\* Two customers with money.
SeedTwo == [c \in Customer |->
  [open |-> TRUE, balance |-> 3, limit |-> 1, segment |-> m1, score |-> m1]]
===========================================================================
