CONSTANTS
  Users = {alice, bob}
  Extras = {"token"}
  One = 10
  Configs <- ProxyConfigs
  LpAmounts = {2}
  StakeAmounts = {2}
  WeeklyFees = 3
  MaxLp = 2
  MaxStake = 2
  MaxHeight = 2
  MaxPeriod = 2
  MaxGifts = 1
  alice = alice
  bob = bob
SYMMETRY UserSymmetry
SPECIFICATION ProxySpec
INVARIANTS
  
  StakersAreCovered
  

  
CHECK_DEADLOCK FALSE
