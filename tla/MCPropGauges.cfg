CONSTANTS
  Users = {alice, bob}
  WEEK = 2
  MAX_LOCK_TIME = 6
  MIN_LOCK_PERIODS = 1
  One = 100
  Amounts = {3}
  LockTimes = {2}
  TimeSteps = {1}
  MaxAmount = 3
  MaxTime = 3
  Proposals = {1}
  Options = {"Yes", "No"}
  EndTimes = {2}
  MAX_BPS = 2
  Configs <- PropConfigs
  alice = alice
  bob = bob
SYMMETRY UserSymmetry
CONSTRAINT PropBound
VIEW PropView
SPECIFICATION PropSpec
INVARIANTS
  VotesAddUp
  VotesFollowEscrow
  HubVoteFollows
  
CHECK_DEADLOCK FALSE
