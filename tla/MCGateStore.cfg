SPECIFICATION StoreSpec
CONSTANTS
  o1 = o1
  o2 = o2
  o3 = o3
  b1 = b1
  b2 = b2
  t1 = t1
  t2 = t2
  m1 = m1
  m2 = m2
  h1 = h1
  h2 = h2
  c1 = c1
  p1 = p1
  p2 = p2
  k1 = k1
  k2 = k2
  k3 = k3
  None = None
  Pristine = Pristine
  StableIDs = TRUE
  Operations <- MCOperations
  Plans <- MCPlans
  Bindings <- MCBindings
  Chats <- MCChats
  Shares = {h1, h2}
  Conversations = {c1}
  Messages = {m1, m2}
  Texts = {"t"}
  Edits = {}
  Sources <- MCSources
  Keys <- MCKeys
  Payloads = {x1}
  PlanInputs <- MCPlanInputs
  DocInputs <- MCDocInputs
  PatchInputs <- MCPatchInputs
SYMMETRY Permuted
INVARIANTS
  StoreTypeOK
  OneUnresolvedPerLock
  EvidenceKept
  BaselineHistory
  ShareClaimedOnce
PROPERTIES
  TerminalIsFinal
  VersionStep
