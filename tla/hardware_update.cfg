\* The sample as it is; the two threads take their steps in any order.
SPECIFICATION HardwareSpec
CHECK_DEADLOCK FALSE
CONSTANTS
  main = main  display = display  q = q  m = m
  contoso_200401 = contoso_200401  contoso_480401 = contoso_480401
  Threads = {main}
  Clients = {display}
  Descriptors = {q, m, contoso_200401, contoso_480401}
  PublishedByUser = {contoso_200401, contoso_480401}
  Owned <- QueryAndManager
  Family <- MCFamily
  Version <- MCVersion
  Request <- MCRequest
  DefaultTargets = {}
  WaitOptions = {Forever}
  MaxInterfaces = 4
  MaxInstances = 2
  MaxPublishCount = 8
  LockIsRecursive = FALSE
  MayCrash = FALSE
  MayDeinit = FALSE
  RegistryMayFail = FALSE
  Forever = Forever
  NoThread = NoThread
  NoDescriptor = NoDescriptor
INVARIANTS
  PicturesAreWhole
PROPERTIES
  ProgramEnds
