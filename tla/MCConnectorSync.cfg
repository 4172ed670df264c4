SPECIFICATION Spec
CONSTANTS
  Run = {r1, r2}
  NoRun = NoRun
  Folder = {inbox}
  NoFolder = NoFolder
  MaxUid = 2
  MaxGen = 2
  MaxFailed = 0
  Poison = {}
  Msg <- MCMsg
  MessageAt <- MCMessageAt
SYMMETRY Symmetry
CHECK_DEADLOCK FALSE
INVARIANTS NeverLoseMail LedgerAgrees DisableStopsIngest
PROPERTIES AbandonedStaysAbandoned ArchiveSpec
