\* Retried and concurrent PIX calls on two accounts.
CONSTANTS
  c1 = c1
  c2 = c2
  q1 = q1
  q2 = q2
  k1 = k1
  k2 = k2
  k3 = k3
  k4 = k4
  m1 = m1
  m2 = m2
  Customer = {c1, c2}
  RequestId = {q1, q2}
  Call = {k1, k2, k3, k4}
  Threads = 3
  Operation = {"pix"}
  MaxMoney = 2
  Mark = {m1}
  Seed <- SeedTwo
SPECIFICATION Spec
SYMMETRY Symmetry
INVARIANTS
  TypeOK
  RetryPaysOnce
  AnswersAgree
  MoneyNeverLost
\* Every call is answered in the end.
CHECK_DEADLOCK FALSE
