SPECIFICATION MCSpec
CONSTANTS
  Chains = 3
  Routes <- RoutesHL
  Attempts = {"t1", "t2"}
  RouteOf <- HLForAll
  NoAdapter = NoAdapter
  Apps = {app}
  AppHome <- AppAtEnd
  Senders = {runner}
  SourceChains = {1}
  Levels = {0, 1}
  Versions = {1, 2}
  Signers = {"k1", "k2"}
  DeployedSigner = "k1"
  DeployedLevel = 0
  Windows <- OwnerWindows
  InFlightEntry = "forwardInFlight"
  AdminOps = {"peer", "verifier", "options", "pause", "drain", "root", "profile"}
  MaxRecords = 2
  MaxSends = 2
  MaxTime = 2
  MaxChanges = 2
  MaxMessages = 3
  Creations <- CreationsTwo
  Settings <- SettingsOne
  Executors = {"main", "second"}
  Main = "main"
  MaxFaults = 1
INVARIANTS
  DeliveredTraceAuthentic
  RecordedTransitionAuthentic
  DeliveredFromOneMessage
  JournalHolds
PROPERTIES
  ImplementsDelivery
  DrainedCompletes
  Settles
CHECK_DEADLOCK FALSE
