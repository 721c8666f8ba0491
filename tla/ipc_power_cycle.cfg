\* Power cycles, at every step of set_default too, and deinit and init, on a port with a recursive lock.
SPECIFICATION Spec
CONSTANTS
  a1 = a1  a2 = a2  b1 = b1  q = q  m = m
  t1 = t1  t2 = t2  c1 = c1  c2 = c2
  Threads = {t1, t2}
  Clients = {c1, c2}
  Descriptors = {q, m, a1, a2}
  PublishedByUser = {a1, a2}
  Owned <- QueryAndManager
  Family <- MCFamily
  Version <- MCVersion
  Request <- MCRequest
  DefaultTargets <- Pair
  WaitOptions = {Forever}
  MaxInterfaces = 4
  MaxInstances = 2
  MaxPublishCount = 8
  LockIsRecursive = TRUE
  MayCrash = TRUE
  MayDeinit = TRUE
  RegistryMayFail = FALSE
  Forever = Forever
  NoThread = NoThread
  NoDescriptor = NoDescriptor
INVARIANTS
  
  AtMostOneDefault
