SPECIFICATION Spec
CONSTANTS
  Requests = {p1, p2}
  Codes = {g1, g2}
  c1 = c1
  c2 = c2
  r1 = r1
  r2 = r2
  Clients <- MCClients
  Public = {c1}
  Uris = {r1, r2}
  Registered <- MCRegistered
  Verifiers = {v1}
  States = {s1}
  MaxFaults = 1
  MaxChanges = 1
  None = None
SYMMETRY MCSymmetry
CONSTRAINT MCBound
INVARIANT StateOneTime
