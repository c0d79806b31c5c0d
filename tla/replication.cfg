SPECIFICATION LiveSpec
CONSTANTS
  Follower = {f1, f2}
  Successor = f1
  None = None
  Erased = Erased
  GenerationLimit = 3
  VersionLimit = 2
  BusyLimit = 1
  RetryLimit = 1
  Setup <- ReplicationSetup
INVARIANT TypeOK
PROPERTY ReplicaWhole
PROPERTY BackedUp
PROPERTY CatchesUp
