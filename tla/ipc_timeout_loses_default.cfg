\* An unpublish that times out clears the default flag.
SPECIFICATION Spec
CONSTANTS
  a1 = a1  a2 = a2  b1 = b1  q = q  m = m
  t1 = t1  t2 = t2  c1 = c1  c2 = c2
  Threads = {t1, t2}
  Clients = {c1, c2}
  Descriptors = {a1, a2}
  PublishedByUser = {a1, a2}
  Owned <- NoOwned
  Family <- MCFamily
  Version <- MCVersion
  Request <- MCRequest
  DefaultTargets <- Pair
  WaitOptions = {0}
  MaxInterfaces = 2
  MaxInstances = 2
  MaxPublishCount = 5
  LockIsRecursive = FALSE
  MayCrash = FALSE
  MayDeinit = FALSE
  RegistryMayFail = FALSE
  Forever = Forever
  NoThread = NoThread
  NoDescriptor = NoDescriptor
INVARIANTS
  DefaultAgreesWithRegistry
