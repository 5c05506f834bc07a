\* Requests of every kind at once, a failing call and a crash.
CONSTANTS
  q1 = q1
  q2 = q2
  q3 = q3
  q4 = q4
  Request = {q1, q2, q3, q4}
  Kind = {"ingest", "reprocess", "status", "remove"}
  MaxFailures = 1
  MaxCrashes = 1
SPECIFICATION Spec
SYMMETRY Symmetry
INVARIANTS
  VersionNumbersConsecutive
  CompletedIsIndexed
  LeftoversNeedTwoFailures
  StoresAgree
\* Every request is answered in the end.
CHECK_DEADLOCK FALSE
