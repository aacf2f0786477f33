SPECIFICATION SyncSpec
CONSTANTS
  None = None
  HumanIds = {h1}
  Texts = {"new", "human"}
  Sources <- MCSources
  StableIDs = TRUE
  MaxEdits = 3
INVARIANTS
  WritesWhatFits
  ApplicableIsBuildable
  DiffSeesEveryEdit
PROPERTIES
  DiffIsTheWholeChange
  MessagesStayInPlace
