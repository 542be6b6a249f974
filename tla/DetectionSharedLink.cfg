CONSTANTS
  e1 = e1
  e2 = e2
  e3 = e3
  g1 = g1
  g2 = g2
  m1 = m1
  A = A
  B = B
  Events <- ThreeEvents
  Mails <- Nothing
  Manuals <- Nothing
  CodeOf <- SharedLink
  MaxCrashes = 0
SPECIFICATION FairSpec
PROPERTY InvitationTracked
