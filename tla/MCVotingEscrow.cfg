CONSTANTS
  Users = {alice, bob}
  WEEK = 1
  MAX_LOCK_TIME = 4
  MIN_LOCK_PERIODS = 2
  One = 100
  Amounts = {2}
  LockTimes = {1, 2}
  TimeSteps = {1}
  MaxAmount = 4
  MaxTime = 4
  alice = alice
  bob = bob
SYMMETRY UserSymmetry
CONSTRAINT DriftBound
SPECIFICATION Spec
INVARIANTS
  SlopesAreScheduled
  TotalIsSumOfUsers
  PowerIsLocked
PROPERTIES
  PastIsFinal
CHECK_DEADLOCK FALSE
