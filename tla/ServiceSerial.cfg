SPECIFICATION Spec
CONSTANTS
  h1 = h1
  c1 = c1
  m1 = m1
  m2 = m2
  None = None
  Pristine = Pristine
  StableIDs = TRUE
  Callers = {caller}
  Operations = {o1, o2, o3}
  Plans = {p1, p2, p3}
  Bindings = {b1}
  Chats = {t1, t2}
  Shares = {h1}
  Conversations = {c1}
  Messages = {m1, m2}
  Texts = {"t", "u"}
  Edits = {edited}
  Sources <- MCSources
  Keys <- MCKeys
  Payloads <- MCPayloads
  PlanInputs = {}
  DocInputs = {}
  PatchInputs = {}
INVARIANTS
  BindingsOwnTheirChat
  BaselineIsOwnWrite
  SucceededIsVerified
  OutstandingHoldsLock
  FailedLeftNoTrace
PROPERTIES
  ImplementsWriteOnce
  UpdatesReplaceTheBaseline
