SPECIFICATION Spec
CONSTANTS
  u1 = u1
  u2 = u2
  v1 = v1
  v2 = v2
  v3 = v3
  Users = {u1}
  HubAddr = hub
  Validators = {v1, v2}
  ChainOrder <- Chain2
  InitialWhitelist <- White2
  InitialConfig <- Brief
  Configs <- Managed
  One = 10
  FeeCap = 1
  ChainUnbonding = 1
  MaxGap = 1
  BondAmounts = {2}
  RewardAmounts = {1}
  DelegationSlashes = {1}
  UnbondingSlashes = {}
  MinRedelegations = {0, 2}
  GaugePoints <- Points
  MaxBatches = 2
  MaxStake = 3
INVARIANTS
  DueBatchCanBeSubmitted

  
