SPECIFICATION TokenSpec
SYMMETRY Symmetry
CONSTANTS
  Clients = {c1, c2}
  Codes = {k1, k2}
  Pairs = {p1, p2, p3}
  Requests = {r1}
  None = None
  CodeLife = 0
  AccessLife = 0
  RefreshLife = 1
  Horizon = 2
  MaxFaults = 1
INVARIANTS
  OneLivePairPerFamily
  AccessFollowsGrant
  ReplayedFamilyIsGone
  UndisturbedGrantLives
PROPERTIES
  AdmittedIsEntitled
  ImplementsTokenFamily
