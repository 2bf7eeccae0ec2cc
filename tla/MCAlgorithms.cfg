SPECIFICATION Spec
CONSTANTS
  v1 = v1
  v2 = v2
  v3 = v3
  One = 12
  ChainOrder <- Chain
  Whitelists <- Lists
  Goals <- GoalSet
  MaxAmount = 6
  MaxUnclaimed = 5
  MaxBatchCount = 4
  MaxPoints = 2
  COMMISSION_DENOM = 10
  Pools = {1, 7, 50, 120}
  Offers = {0, 1, 2, 5, 12, 30, 31, 90}
  Commissions = {0, 1, 3}
  Tokens = {1, 2, 3, 4, 5}
  MaxFees = 6
INVARIANTS
  StakeReachesShares
  ReconcileNeverOverdeducts
  GoalIsTheBest
  SwapPairsTheDeposit
  
  DistributionFillsFirst
