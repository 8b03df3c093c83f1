SPECIFICATION FairSpec
CONSTANTS
  Host = Host
  Guests = {g1, g2}
  None = None
  Scenes = 2
  Programmes <- Cycle
  MapOf <- SameTrack
  SceneFrames = 2
  Lead = 1
  Slack = 1
  AcksArrive = TRUE
CHECK_DEADLOCK FALSE
INVARIANT NobodyFails
INVARIANT OneBoundary
INVARIANT NobodyRunsAlone
INVARIANT BaselineFirst
INVARIANT FinishIsShared
INVARIANT SceneIsShared
PROPERTY EverySceneStarts
