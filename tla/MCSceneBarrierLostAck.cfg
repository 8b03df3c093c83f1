SPECIFICATION FairSpec
CONSTANTS
  Host = Host
  Guests = {g1}
  None = None
  Scenes = 2
  Programmes <- OneRace
  MapOf <- SameTrack
  SceneFrames = 2
  Lead = 1
  Slack = 1
  AcksArrive = FALSE
CHECK_DEADLOCK FALSE
PROPERTY EverySceneStarts
