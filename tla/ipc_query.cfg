\* The IPC comes and goes, with its own interfaces; one client lists the table through
\* the query interface, the other uses a package; the manager's command sets defaults.
SPECIFICATION QuerySpec
SYMMETRY MCSymmetry
CONSTANTS
  a1 = a1  a2 = a2  q = q  m = m
  t1 = t1  t2 = t2  c1 = c1  c2 = c2
  Threads = {t1, t2}
  Clients = {c1, c2}
  Descriptors = {q, m, a1, a2}
  PublishedByUser = {a1, a2}
  Owned <- QueryAndManager
  Family <- MCFamily
  Version <- MCVersion
  Request <- MCRequest
  DefaultTargets = {}
  WaitOptions = {1}
  MaxInterfaces = 4
  MaxInstances = 2
  MaxPublishCount = 7
  LockIsRecursive = FALSE
  MayCrash = FALSE
  MayDeinit = TRUE
  RegistryMayFail = FALSE
  Forever = Forever
  NoThread = NoThread
  NoDescriptor = NoDescriptor
  Words <- MCWords
  Numeral <- MCNumeral
  EntrySize <- MCEntrySize
  ResultSize = 25
  Commands <- MCCommands
INVARIANTS
  NoSelfDeadlock
  OnHoldHasWaiter
  RegistryTracksPublished
  
PROPERTIES
  ListingIsComplete
