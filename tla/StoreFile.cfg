SPECIFICATION FileSpec
CONSTANTS
  None = None
  Procs = {p1, p2, p3}
  Files = {f1, f2, f3}
  Newest = 2
SYMMETRY Symmetry
INVARIANTS
  OneProcessInside
  InsideIsReady
  InstallationIsKept
