SPECIFICATION Spec
CONSTANTS
  Workers = {w1, w2}
  Events = {1, 2}
  Other = 2
  a = a
  b = b
  Tenants = {a, b}
  TenantOf <- MCTenantOf
  Malformed = {}
  MaxDeliver = 2
  None = None
CHECK_DEADLOCK FALSE
PROPERTY AnchorKept
