CONSTANTS
  loop = loop
  admin = admin
  q1 = q1
  room = room
  None = None
  Rows <- OneRow
  Rooms <- OneRoom
  RoomOf <- SameRoom
  Untimed <- Nothing
  Endless <- OneRow
  Long <- OneRow
  Ticks <- LoopAndAdmin
  Once <- Admin
  Requests <- OneRequest
  Kinds <- AllKinds
  MaxTries = 0
  MaxCalls = 1
  MaxCrashes = 1
SPECIFICATION FairSpec
INVARIANT DispatchedInTime
PROPERTY FollowedUntilTheEnd
