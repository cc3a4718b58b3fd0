\* Two workers racing over three rows, two per batch, every kind of failure.
SPECIFICATION Spec
CONSTANTS
  i1 = i1
  i2 = i2
  e1 = e1
  e2 = e2
  e3 = e3
  m1 = m1
  m2 = m2
  Instances = {i1, i2}
  Events = {e1, e2, e3}
  Messages = {m1, m2}
  MsgOf <- MCMsgOf
  BatchLimit = 2
  MaxFaults = 1
  MayRefuse = TRUE
  MayLinger = TRUE
SYMMETRY MCSymmetry
INVARIANTS
  TypeOK
  NoEventLost
  OnlyCommittedPublished
  DuplicatesOnlyFromFaults
PROPERTIES
  KeepsPromise
