SPECIFICATION Spec
CONSTANTS
  Workers = {w1, w2}
  Events = {1, 2, 3}
  Other = 0
  a = a
  b = b
  Tenants = {a, b}
  TenantOf <- MCTenantOf
  Malformed = {}
  MaxDeliver = 1
  None = None
CHECK_DEADLOCK FALSE
INVARIANT NoFork
