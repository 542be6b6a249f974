CONSTANTS
  e1 = e1
  e2 = e2
  e3 = e3
  g1 = g1
  g2 = g2
  m1 = m1
  A = A
  B = B
  Events <- ThreeEvents
  Mails <- TwoMails
  Manuals <- OneManual
  CodeOf <- SharedLink
  MaxCrashes = 1
SPECIFICATION FairSpec
INVARIANT TypeOK
INVARIANT RejectedForCause
PROPERTY ImplementsSlots
PROPERTY TrackedUnlessTwins
