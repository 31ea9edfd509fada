SPECIFICATION FairSpec
CONSTANTS
  Workers = {w1, w2}
  Events = {1, 2, 3}
  Other = 0
  a = a
  b = b
  Tenants = {a, b}
  TenantOf <- MCTenantOf
  Malformed = {2}
  MaxDeliver = 2
  None = None
CHECK_DEADLOCK FALSE
PROPERTY
  Persisted
