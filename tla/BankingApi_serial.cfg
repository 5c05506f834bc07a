\* All the routes that write, two handlers at a time.
CONSTANTS
  c1 = c1
  c2 = c2
  q1 = q1
  q2 = q2
  k1 = k1
  k2 = k2
  k3 = k3
  k4 = k4
  m1 = m1
  m2 = m2
  Customer = {c1, c2}
  RequestId = {q1}
  Call = {k1, k2, k3}
  Threads = 2
  Operation = {"open", "profile", "balance", "limit", "pix"}
  MaxMoney = 1
  Mark = {m1, m2}
  Seed <- SeedOne
SPECIFICATION Spec
SYMMETRY Symmetry
PROPERTY
  ImplementsLedger
\* Every call is answered in the end.
CHECK_DEADLOCK FALSE
