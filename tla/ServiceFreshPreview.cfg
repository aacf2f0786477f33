SPECIFICATION Spec
CONSTANTS
  h1 = h1
  c1 = c1
  m1 = m1
  m2 = m2
  None = None
  Pristine = Pristine
  StableIDs = TRUE
  Callers = {caller}
  Operations = {o1, o2}
  Plans = {p1, p2}
  Bindings = {b1}
  Chats = {t1}
  Shares = {h1}
  Conversations = {c1}
  Messages = {m1, m2}
  Texts = {"t", "u"}
  Edits = {edited}
  Sources <- MCSources
  Keys <- MCKeys
  Payloads <- MCPayloads
  PlanInputs = {}
  DocInputs = {}
  PatchInputs = {}
PROPERTIES
  FreshPreviewCanBeApplied
