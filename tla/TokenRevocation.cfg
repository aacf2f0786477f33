SPECIFICATION TokenSpec
SYMMETRY Symmetry
CONSTANTS
  Clients = {c1, c2}
  Codes = {k1}
  Pairs = {p1, p2}
  Requests = {r1, r2}
  None = None
  CodeLife = 0
  AccessLife = 0
  RefreshLife = 1
  Horizon = 2
  MaxFaults = 0
INVARIANTS
  AnsweredRevocationHolds
