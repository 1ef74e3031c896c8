CONSTANTS
  a = a
  b = b
  c = c
  x = x
  NoCh = NoCh
  ScanList <- MCScanList
  Strong <- MCStrong
  Dead <- MCDead
  Deadline = 2
  MaxPolls = 3
  e0 = e0
  e1 = e1
  e2 = e2
  t1 = t1
  Junk = Junk
  Ifs <- MCIfs
  LinkLocal <- MCLinkLocal
  Tuners = {t1}
  Link <- MCLink
  StrayLinks <- MCStrayLinks
  MaxCopies = 2
  ListChunk = 1
SPECIFICATION MainSpec
INVARIANTS
  MainTypeOK
  StrongChannelsOnce
  IdentifiedAsTuned
  FindAllOrNothing
  ListWithinCapacity
PROPERTY DiscoveryEnds
\* main returns and the program ends: no step follows.
CHECK_DEADLOCK FALSE
