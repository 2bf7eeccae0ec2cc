\* Every request is paid out: one validator, two users, no slashing.
SPECIFICATION FairSpec
CONSTANTS
  u1 = u1
  u2 = u2
  v1 = v1
  v2 = v2
  v3 = v3
  Users = {u1, u2}
  HubAddr = hub
  Validators = {v1}
  ChainOrder <- Chain1
  InitialWhitelist <- White1
  InitialConfig <- Plain
  Configs = {}
  One = 10
  FeeCap = 1
  ChainUnbonding = 2
  MaxGap = 1
  BondAmounts = {2}
  RewardAmounts = {1}
  DelegationSlashes = {}
  UnbondingSlashes = {}
  MinRedelegations = {}
  GaugePoints = {}
  MaxBatches = 3
  MaxStake = 4
PROPERTIES
  RequestsArePaid
