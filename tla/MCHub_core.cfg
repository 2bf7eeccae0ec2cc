\* Two users, one validator, two batches, slashing of unbonding entries, blocks up
\* to 2 apart with the margin in unbond_period that the gap calls for.
SPECIFICATION Spec
CONSTANTS
  u1 = u1
  u2 = u2
  v1 = v1
  v2 = v2
  v3 = v3
  Users = {u1, u2}
  HubAddr = hub
  Validators = {v1}
  ChainOrder <- Chain1
  InitialWhitelist <- White1
  InitialConfig <- Margin
  Configs = {}
  One = 10
  FeeCap = 1
  ChainUnbonding = 2
  MaxGap = 2
  BondAmounts = {3}
  RewardAmounts = {1}
  DelegationSlashes = {}
  UnbondingSlashes = {1}
  MinRedelegations = {}
  GaugePoints = {}
  MaxBatches = 3
  MaxStake = 4
SYMMETRY Symmetry
INVARIANTS
  TypeOK
  ShareAccounting
  Conservation
  
PROPERTIES
  FairWithdrawals
