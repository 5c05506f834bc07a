\* A document is deactivated while its upload is handled, and nothing fails.
CONSTANTS
  q1 = q1
  q2 = q2
  q3 = q3
  q4 = q4
  Request = {q1, q2}
  Kind = {"ingest", "status"}
  MaxFailures = 0
  MaxCrashes = 0
SPECIFICATION Spec
SYMMETRY Symmetry
INVARIANTS
  InactiveNotRetrieved
\* Every request is answered in the end.
CHECK_DEADLOCK FALSE
