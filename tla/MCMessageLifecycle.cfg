\* Two concurrent requests of a member and a moderator on two messages.
SPECIFICATION Spec
CONSTANTS
  r1 = r1
  r2 = r2
  u1 = u1
  u2 = u2
  m1 = m1
  m2 = m2
  c1 = c1
  None = None
  Requests = {r1, r2}
  Users = {u1, u2}
  Moderators = {u2}
  Messages = {m1, m2}
  ClientIds = {c1}
  MaxEvents = 3
  MaxExpiries = 1
SYMMETRY MCSymmetry
INVARIANTS
  TypeOK
  
  OutboxTellsDatabase
  StoredOncePerClientId
PROPERTIES
  DeletedStaysDeleted
