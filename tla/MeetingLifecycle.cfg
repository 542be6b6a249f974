CONSTANTS
  loop = loop
  admin = admin
  q1 = q1
  room = room
  None = None
  Rows <- TwoRows
  Rooms <- OneRoom
  RoomOf <- SameRoom
  Untimed <- Second
  Endless <- Second
  Long <- TwoRows
  Ticks <- Loop
  Once <- Nothing
  Requests <- Nothing
  Kinds <- Nothing
  MaxTries = 1
  MaxCalls = 0
  MaxCrashes = 1
SPECIFICATION FairSpec
INVARIANT TypeOK
INVARIANT YoungBotIsFollowed
PROPERTY ImplementsSlots
PROPERTY TimedNeverHangs
