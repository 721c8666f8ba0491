\* Concurrent publish, unpublish, set_default, get and release; no fault.
SPECIFICATION FairSpec
CONSTANTS
  a1 = a1  a2 = a2  b1 = b1  q = q  m = m
  t1 = t1  t2 = t2  c1 = c1  c2 = c2
  Threads = {t1, t2}
  Clients = {c1, c2}
  Descriptors = {a1, a2, b1}
  PublishedByUser = {a1, a2, b1}
  Owned <- NoOwned
  Family <- MCFamily
  Version <- MCVersion
  Request <- MCRequest
  DefaultTargets <- Pair
  WaitOptions = {Forever}
  MaxInterfaces = 2
  MaxInstances = 2
  MaxPublishCount = 6
  LockIsRecursive = FALSE
  MayCrash = FALSE
  MayDeinit = FALSE
  RegistryMayFail = FALSE
  Forever = Forever
  NoThread = NoThread
  NoDescriptor = NoDescriptor
INVARIANTS
  TypeOK
  RefCountsHolders
  DefaultAgreesWithRegistry
PROPERTIES
  StarGetsDefault
  PublishMakesFirstDefault
  DirectorySpec
  UnpublishCompletes
