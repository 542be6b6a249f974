CONSTANTS
  loop = loop
  admin = admin
  q1 = q1
  room = room
  None = None
  Rows <- OneRow
  Rooms <- OneRoom
  RoomOf <- SameRoom
  Untimed <- Nothing
  Endless <- Nothing
  Long <- OneRow
  Ticks <- LoopAndAdmin
  Once <- Admin
  Requests <- Nothing
  Kinds <- Nothing
  MaxTries = 1
  MaxCalls = 1
  MaxCrashes = 0
SPECIFICATION Spec
INVARIANT DispatchedOnce
