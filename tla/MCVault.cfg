CONSTANTS
  Users = {alice, bob}
  Lsds = {"eris"}
  One = 100
  Configs <- VaultConfigs
  Limit = 1
  Deposits = {15}
  Parts = {15}
  Loans = {10}
  Bought = {15}
  Rates = {150}
  MaxDeposits = 2
  Backs = {0}
  Roundings = {1}
  MaxId = 2
  MaxTime = 2
  MaxLoans = 1
  alice = alice
  bob = bob
SPECIFICATION FairSpec

  
PROPERTIES
  
  RequestsArePaid
CHECK_DEADLOCK FALSE
