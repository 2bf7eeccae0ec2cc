CONSTANTS
  Validators = {1, 2}
  Grants <- EmpGrants
  Limits = {1, 2}
  MaxPeriod = 4
  MaxGrants = 2
SPECIFICATION Spec
INVARIANTS
  SlopesAreGranted
  PointsAreGranted
  PointsAreTuned
CHECK_DEADLOCK FALSE
