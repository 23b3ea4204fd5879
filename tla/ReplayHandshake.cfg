CONSTANTS
  p1 = p1
  p2 = p2
  search = search
  create = create
  a = a
  b = b
  NoTool = none
  NoArgs = noargs
  Tools = {search, create}
  Replays <- GreetedReplay
  Requests <- AllRequests
  Worlds <- AllWorlds
  MaxSteps = 3
  MaxFaults = 0
SPECIFICATION Spec
PROPERTIES
  FaithfulReplayIsClean
CHECK_DEADLOCK FALSE
