\* The promise to the client and its progress, across a redelivery.
CONSTANTS
  r1 = r1
  Request = {r1}
  MaxChunks = 1
  MaxLosses = 1
  MaxDuplicates = 0
  Window = 1
  Kind = {"completed"}
  Size = {1}
SPECIFICATION FairSpec
INVARIANTS
  AnnouncedIsStored
PROPERTIES
  ImplementsOutcome
  StreamEnds
  RegistrationReleased
  QueuesDrain
\* Every request ends and stays ended.
CHECK_DEADLOCK FALSE
