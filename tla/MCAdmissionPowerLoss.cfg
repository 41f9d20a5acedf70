SPECIFICATION Spec
CONSTANTS
  Peers = {p1, p2}
  Codes = {c1, c2}
  NoGrant = NoGrant
  NoCert = NoCert
  MaxUses = 1
  MaxCodes = 2
  MaxMembers = 2
  CodeLifetime = 2
  CertLifetime = 1
  LoadSettles = FALSE
  MaxTime = 2
  MaxCerts = 3
  MaxFaults = 3
SYMMETRY Symmetry
INVARIANT UsesBounded
