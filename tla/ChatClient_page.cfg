\* One customer's page: two messages, chats that are switched while a reply comes.
CONSTANTS
  MaxChats = 2
  MaxSends = 2
  MaxChunks = 1
  MaxUses = 2
  MaxFaults = 1
  InitialChats = 1
  Contents <- NoneOrEmpty
SPECIFICATION Spec
INVARIANTS
  TypeOK
  EventsWhole
  CompleteIsStored
  RowsShown
PROPERTIES
  ThreadGrows
  CheckpointKept
\* The page may be left as it is.
CHECK_DEADLOCK FALSE
