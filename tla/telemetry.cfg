\* The sample as it is; main and the sensors take their steps in any order.
SPECIFICATION TelemetrySpec
CHECK_DEADLOCK FALSE
CONSTANTS
  main = main  consumer = consumer  sensors_1 = sensors_1  q = q  m = m
  Sensors = {"temperature", "accelerometer"}
  Threads = {main}
  Clients = {consumer}
  Descriptors = {q, m, sensors_1}
  PublishedByUser = {sensors_1}
  Owned <- QueryAndManager
  Family <- MCFamily
  Version <- MCVersion
  Request <- MCRequest
  DefaultTargets = {}
  WaitOptions = {Forever}
  MaxInterfaces = 4
  MaxInstances = 2
  MaxPublishCount = 8
  LockIsRecursive = FALSE
  MayCrash = FALSE
  MayDeinit = FALSE
  RegistryMayFail = FALSE
  Forever = Forever
  NoThread = NoThread
  NoDescriptor = NoDescriptor
INVARIANTS
  AtMostOneLate
  SubscribedWhileHeld
PROPERTIES
  ProgramEnds
