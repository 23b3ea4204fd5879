CONSTANTS
  Conversations = {traced, anonymous}
  Identified = {traced}
  Unattributed = unattributed
  Tools = {jira}
  Writes = {create}
  NoWrite = none
  QueueDepth = 1
  Idle = 1
  TTL = 3
  CallTime = 1
  MaxCalls = 2
  MaxTime = 4
  MaxFaults = 1
SPECIFICATION FairSpec
INVARIANTS
  TypeOK
  ForwardedStepsAreDistinct
  OwnWritesAreRemembered
  HolesAreCounted
PROPERTIES
  AcceptedIsSettled
  ShutdownEnds
CHECK_DEADLOCK FALSE
