\* Two instances and two events of one message; crashes, restarts and failures
\* of every step on both sides, and a Redis that may lose its data.
SPECIFICATION PipelineSpec
CONSTANTS
  i1 = i1
  i2 = i2
  e1 = e1
  e2 = e2
  m1 = m1
  Instances = {i1, i2}
  Listeners = {i1, i2}
  Events = {e1, e2}
  Messages = {m1}
  MsgOf <- MCMsgOf
  BatchLimit = 2
  MaxFaults = 1
  MayRefuse = FALSE
  MayLinger = FALSE
  ReadCount = 2
  MayFail = TRUE
  MayLoseRedis = TRUE
CONSTRAINT MCShortLog
SYMMETRY MCSymmetry
INVARIANTS
  NothingSkipped
  HandledInOrderOnce
  InFlightIsPending
  ReachesEveryInstance
  OnlyCommittedHandled
