\* Four POSTs, two of them open at a time, a window of two messages,
\* two INSERTs on their way at once.
CONSTANTS
  r1 = r1
  r2 = r2
  r3 = r3
  r4 = r4
  Request = {r1, r2, r3, r4}
  Limit = 2
  MaxOpen = 2
  MaxInserts = 2
SPECIFICATION Spec
SYMMETRY Symmetry
INVARIANTS
  SummaryExact
  ContextTail
\* Every request is served in the end.
CHECK_DEADLOCK FALSE
