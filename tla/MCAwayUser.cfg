\* One tab, whose instance may die.
SPECIFICATION Spec
CONSTANTS
  i1 = i1
  i2 = i2
  u1 = u1
  c1 = c1
  c2 = c2
  c3 = c3
  v1 = v1
  v2 = v2
  None = None
  Users = {u1}
  Instances = {i1}
  Conversations = {v1}
  Conns = {c1}
  UserOf <- MCUserOf
  InstanceOf <- MCInstanceOf
INVARIANTS
  AwayUsersAreNotified
