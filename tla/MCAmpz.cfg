SPECIFICATION Spec
CONSTANTS
  u1 = u1
  u2 = u2
  Users = {u1, u2}
  Luna = "luna"
  Other = "other"
  Astro = "astro"
  LP = "lp"
  AmpLP = "ampLP"
  COMMISSION_DENOM = 10
  Commission = 1
  InitialPool = 30
  InitialFunds <- Funds
  Swaps = {3}
  Gifts = {2}
  MaxCalls = 2
  DecimalOne = 100
  FarmConfigs <- FarmSettings
  Bonds = {10}
  Shares = {5}
  Earnings = {8}
  MaxEarnings = 2
  MaxTime = 1
  Operators = {"controller", "operator"}
  BPS = 10
  MaxFee = 1
  FeeConfigs <- FeeSettings
  AstroCoins = {"astro", "other"}
  Executions <- ExecutionChoices
  Rewards = {10}
  MaxRewards = 2
INVARIANTS
  SourcesAreUnique
  NothingIsLeftBehind
PROPERTIES
  FarmIsAPool
  ExecutionsTakeOnlyTheirSource
SYMMETRY Symmetry
CHECK_DEADLOCK FALSE
