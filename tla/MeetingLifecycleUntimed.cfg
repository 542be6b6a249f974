CONSTANTS
  loop = loop
  admin = admin
  q1 = q1
  room = room
  None = None
  Rows <- OneRow
  Rooms <- OneRoom
  RoomOf <- SameRoom
  Untimed <- OneRow
  Endless <- OneRow
  Long <- OneRow
  Ticks <- Loop
  Once <- Nothing
  Requests <- Nothing
  Kinds <- Nothing
  MaxTries = 1
  MaxCalls = 0
  MaxCrashes = 0
SPECIFICATION FairSpec
PROPERTY NothingHangs
