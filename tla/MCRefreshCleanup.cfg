SPECIFICATION Spec
CONSTANTS
  Requests = {p1, p2}
  Tokens = {k1, k2}
  Legacy = {}
  c1 = c1
  c2 = c2
  u1 = u1
  u2 = u2
  t1 = t1
  t2 = t2
  Clients <- MCClients
  Users <- MCUsers
  Tenants = {t1, t2}
  TenantOf <- MCTenantOf
  MaxFaults = 0
  MaxLoad = 3
  MaxRoots = 2
  None = None
SYMMETRY MCSymmetry
CONSTRAINT MCBound
PROPERTY CleanupSparesLive
