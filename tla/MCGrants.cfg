SPECIFICATION MCSpec
CONSTANTS
  Requests = {p1, p2}
  Codes = {g1, g2}
  c1 = c1
  c2 = c2
  r1 = r1
  r2 = r2
  Clients <- MCClients
  Public = {c1}
  Uris = {r1, r2}
  Registered <- MCRegistered
  Verifiers = {v1}
  States = {s1}
  MaxFaults = 1
  MaxChanges = 1
  None = None
  DeviceCodes = {g1, g2, g3}
  DeviceClients = {k1}
  Creates = {p1, p2}
  Polls = {p1, p2}
  ta = ta
  tb = tb
  ua = ua
  ub = ub
  Users = {ua, ub}
  Tenants = {ta, tb}
  TenantOf <- MCTenantOf
  MaxActive = 1
  Unset = Unset
  Jtis = {g1, g2}
  Revokers = {p1, p2}
SYMMETRY MCSymmetry
CONSTRAINTS MCBound DeviceBound AccessBound
INVARIANTS
  TypeOK
  TokensBound
  DeviceTypeOK
  LimitBounded
  IndexAgrees
  NoLateToken
  DecisionObeyed
  SubjectInTenant
  AccessTypeOK
  RevocationExplained
PROPERTIES
  IsOneTimeGrant
