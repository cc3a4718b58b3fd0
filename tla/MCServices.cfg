\* Each part on its own instance: see README, Bounds.
SPECIFICATION ServicesSpec
CONSTANTS
  o = o
  a = a
  b = b
  g = g
  d1 = d1
  d2 = d2
  q1 = q1
  q2 = q2
  q3 = q3
  q4 = q4
  e1 = e1
  e2 = e2
  m1 = m1
  m2 = m2
  m3 = m3
  None = None
  Users = {o, a}
  Conversations = {g, d1, d2}
  Requests = {q1, q2, q3}
  FirstKind <- MCFirstKind
  FirstRole <- MCFirstRole
  People = {o, a}
  Messages = {d1, d2}
  SenderOf <- MCSenderOf
  Emojis = {e1, e2}
  Calls = {q1, q2}
  Devices = {d1, d2}
  Uses = {q1, q2, q3, q4}
  Attempts = {q1, q2, q3}
  Limit = 1
  Window = 2
  MaxTime = 4
  Recipients = {o, b}
  Sends = {a}
  Endpoints = {g}
  Registrations = {q1, q2, q3}
  Objects = {m1, m2, m3}
  Letters = {d1, d2}
  Avatars = {a}
  Jobs = {q1, q2}
SYMMETRY MCSymmetry
CHECK_DEADLOCK FALSE
INVARIANTS
  ServicesTypeOK
  CacheFollowsRows
  DMIsForTwo
  TwinsOnlyFromOverlap
  OneReaction
  ReadAllClearsTheBadge
  LastToldIsStored
  LoginWorks
  RevokeAllIsThorough
  RefusedByWindow
  NobodyIsMissed
  SubscribedIsReachable
  MediaMatchesRows
PROPERTIES
  OwnerStays
  ShownNeverGoesBack
  DeadStaysDead
