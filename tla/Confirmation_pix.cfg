\* A question and two confirmations, through a dead worker or a lost channel.
CONSTANTS
  r1 = r1
  r2 = r2
  r3 = r3
  Request = {r1, r2, r3}
  MaxAttempts = 4
  MaxLosses = 1
  Amount = {1}
  Limit = {3}
  Funds = 2
  CardLimit = 2
  MaxCheckpoints = 2
SYMMETRY Same
SPECIFICATION Spec
INVARIANTS
  OncePerConfirmation
  SaidIsDone
PROPERTY SettledStays
\* Every request ends and stays ended.
CHECK_DEADLOCK FALSE
