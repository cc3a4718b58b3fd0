\* One instance whose handler may raise: the pending entry is never read again.
SPECIFICATION FairPipelineSpec
CONSTANTS
  i1 = i1
  i2 = i2
  e1 = e1
  e2 = e2
  m1 = m1
  Instances = {i1}
  Listeners = {i1}
  Events = {e1}
  Messages = {m1}
  MsgOf <- MCMsgOf
  BatchLimit = 2
  MaxFaults = 0
  MayRefuse = FALSE
  MayLinger = FALSE
  ReadCount = 2
  MayFail = TRUE
  MayLoseRedis = FALSE
PROPERTIES
  PendingIsRecovered
