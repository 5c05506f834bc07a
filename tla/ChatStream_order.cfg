\* One request whose replies are duplicated and overtake one another.
CONSTANTS
  r1 = r1
  Request = {r1}
  MaxChunks = 3
  MaxLosses = 0
  MaxDuplicates = 1
  Window = 2
  Kind = {"completed", "confirmation_required"}
  Size = {0, 1, 3}
SPECIFICATION Spec
INVARIANTS
  AnswerHasSource
  ChunksInOrder
  InterruptedIsPrefix
\* Every request ends and stays ended.
CHECK_DEADLOCK FALSE
