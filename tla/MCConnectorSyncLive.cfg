SPECIFICATION FairSpec
CONSTANTS
  Run = {r1, r2}
  NoRun = NoRun
  Folder = {inbox}
  NoFolder = NoFolder
  MaxUid = 2
  MaxGen = 1
  MaxFailed = 0
  Poison = {1}
  Msg <- MCMsg
  MessageAt <- MCMessageAt
PROPERTIES MailEventuallyStored
CHECK_DEADLOCK FALSE
