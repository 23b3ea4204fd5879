CONSTANTS
  Conversations = {traced, anonymous}
  Identified = {traced}
  Unattributed = unattributed
  Tools = {jira}
  Writes = {create}
  NoWrite = none
  QueueDepth = 1
  Idle = 0
  TTL = 2
  CallTime = 1
  MaxCalls = 2
  MaxTime = 1
  MaxFaults = 0
SPECIFICATION Spec
INVARIANTS
  StepsAreDistinct
CHECK_DEADLOCK FALSE
