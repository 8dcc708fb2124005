SPECIFICATION Spec
CONSTANTS
  Players = {p1}
  Inputs <- OnePlayerInputs
  Rtts <- OnePlayerRtts
  QueueLimit = 3
  FullSnapshotEvery = 2
  HeartbeatTimeout = 0
  WorldMax = 2
  MaxStep = 1
  SpawnPoints <- OneSpawn
INVARIANTS
  TypeOK
  DistanceIsEarned
PROPERTIES
  SeqNeverFalls
  NoTeleport
  MovesAreAcknowledged
