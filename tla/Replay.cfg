CONSTANTS
  p1 = p1
  p2 = p2
  search = search
  create = create
  a = a
  b = b
  NoTool = none
  NoArgs = noargs
  Tools = {search, create}
  Replays <- AllReplays
  Requests <- AllRequests
  Worlds <- AllWorlds
  MaxSteps = 3
  MaxFaults = 1
SPECIFICATION Spec
INVARIANTS
  TypeOK
  EachRecordingAnswersOnce
  SubstitutionIsReported
  FaithfulIsAnswered
  CleanMeansWholePath
  OnlyNamedReadsRunLive
CHECK_DEADLOCK FALSE
