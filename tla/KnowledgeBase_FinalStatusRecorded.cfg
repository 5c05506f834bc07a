\* Files without text, and nothing fails.
CONSTANTS
  q1 = q1
  q2 = q2
  q3 = q3
  q4 = q4
  Request = {q1, q2}
  Kind = {"ingest", "reprocess"}
  MaxFailures = 0
  MaxCrashes = 0
SPECIFICATION Spec
SYMMETRY Symmetry
INVARIANTS
  FinalStatusRecorded
\* Every request is answered in the end.
CHECK_DEADLOCK FALSE
