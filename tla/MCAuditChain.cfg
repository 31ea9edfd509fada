SPECIFICATION Spec
CONSTANTS
  Workers = {w1, w2}
  Events = {1, 2, 3}
  Other = 0
  a = a
  b = b
  Tenants = {a, b}
  TenantOf <- MCTenantOf
  Malformed = {}
  MaxDeliver = 2
  None = None
SYMMETRY MCSymmetry
CHECK_DEADLOCK FALSE
INVARIANTS
  TypeOK
  PersistedOnce
  AckedIsPersisted
  AlarmExplained
PROPERTIES
  LinkedToSurvivor
