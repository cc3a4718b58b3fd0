\* One instance, two concurrent requests about one message, three events; crashes,
\* rounds that fail or are sent again.
SPECIFICATION SystemSpec
CONSTANTS
  i1 = i1
  r1 = r1
  r2 = r2
  u1 = u1
  m1 = m1
  None = None
  Requests = {r1, r2}
  Users = {u1}
  Moderators = {}
  Messages = {m1}
  ClientIds = {}
  MaxEvents = 3
  MaxExpiries = 0
  Instances = {i1}
  BatchLimit = 2
  MaxFaults = 1
  MayRefuse = FALSE
  MayLinger = FALSE
  ReadCount = 2
  MayFail = FALSE
  MayLoseRedis = TRUE
CONSTRAINTS MCShortLog MCNarrow
SYMMETRY MCSymmetry
INVARIANTS
  FirstPublishedInOrder
  NewestPublishedLast
  
PROPERTIES
  DeliversAsSpecified
