SPECIFICATION ConsentSpec
SYMMETRY Symmetry
CONSTANTS
  Clients = {c1, c2, c3}
  Pages = {g1, g2, g3}
  Posts = {s1, s2}
  None = None
  MaxClients = 2
INVARIANTS
  DecisionIsFinal
