SPECIFICATION FairStreamSpec
CONSTANTS
  Players = {p1, p2}
  Inputs <- OneInput
  Rtts <- NoRtts
  QueueLimit = 1
  FullSnapshotEvery = 2
  HeartbeatTimeout = 0
  WorldMax = 1
  MaxStep = 1
  SpawnPoints <- TwoSpawns
INVARIANTS
  ViewMotionExact
  BaselineIsLastTick
PROPERTIES
  TicksKeepViewsRight
  ViewsResync
  SilentPlayersTimeOut
