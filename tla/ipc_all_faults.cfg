\* The inductive invariant of the proofs, with every fault at once.
SPECIFICATION Spec
CONSTANTS
  a1 = a1  a2 = a2  b1 = b1  q = q  m = m
  t1 = t1  t2 = t2  c1 = c1  c2 = c2
  Threads = {t1, t2}
  Clients = {c1, c2}
  Descriptors = {a1, a2}
  PublishedByUser = {a1, a2}
  Owned <- NoOwned
  Family <- MCFamily
  Version <- MCVersion
  Request <- MCRequest
  DefaultTargets <- Pair
  WaitOptions = {Forever, 0, 1}
  MaxInterfaces = 2
  MaxInstances = 1
  MaxPublishCount = 4
  LockIsRecursive = TRUE
  MayCrash = TRUE
  MayDeinit = FALSE
  RegistryMayFail = TRUE
  Forever = Forever
  NoThread = NoThread
  NoDescriptor = NoDescriptor
INVARIANTS
  IInv
  HeldAnswersRequest
  UniqueNames
  InstanceLimit
