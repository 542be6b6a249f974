CONSTANTS
  m1 = m1
  done = done
  nameless = nameless
  other = other
  h1 = h1
  h2 = h2
  q1 = q1
  Nothing = Nothing
  NoEvent = NoEvent
  Meetings <- OneMeeting
  Events <- AllEvents
  About <- AboutEvent
  Anonymous <- NoIds
  Handlers <- TwoHandlers
  Polls <- OnePoll
  Polled <- OfTheMeeting
  RingSize = 1
  Tries <- TriesOf
  MaxFailures = 1
  MaxCrashes = 1
SPECIFICATION FairSpec
INVARIANT TypeOK
INVARIANT RingIsSet
INVARIANT ActedOnce
INVARIANT AckedIsActedOn
INVARIANT HandedOff
PROPERTY EndedIsSettled
CHECK_DEADLOCK FALSE
