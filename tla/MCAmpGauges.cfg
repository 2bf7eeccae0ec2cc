CONSTANTS
  Users = {alice, bob}
  WEEK = 1
  MAX_LOCK_TIME = 3
  MIN_LOCK_PERIODS = 1
  One = 100
  Amounts = {3}
  LockTimes = {2}
  TimeSteps = {1}
  MaxAmount = 3
  MaxTime = 2
  Validators = {1, 2}
  MAX_BPS = 2
  Bps = {1}
  validators_limit = 1
  alice = alice
  bob = bob
SYMMETRY UserSymmetry
CONSTRAINT SpoilBound
VIEW GaugeView
SPECIFICATION GaugeSpec
INVARIANTS
  VotesFollowLocks
  SlopesAreVoted
  VotesAreCounted
PROPERTIES
  TunedAreTheStrongest
CHECK_DEADLOCK FALSE
