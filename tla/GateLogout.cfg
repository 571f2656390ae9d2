SPECIFICATION Spec
CONSTANTS
  Tenants = {"A", "B"}
  KeyIds = {"k1", "k2", "k3"}
  Prefixes = {"tk"}
  Realm <- MCRealm
  SeedKeys <- MCKeys
  TouchEvery = 3
  IdleLimit = 3
  MaxTime = 5
  Users <- MCUsers
  SessionIds = {"x1", "x2"}
  Tabs = {"t1", "t2"}
  SessionTtl = 3
  PendingTtl = 1
  SessionIdle = 1
  SeenEvery = 0
  Requests = {"r1", "r2"}
  Peers = {"in", "out"}
  Inside = {"in"}
  Scenes <- MCSessionScene
  Minute = 2
  Hour = 2
  FailuresPerMinute = 1
  RatePerMinute = 1
PROPERTIES
  EndedStaysEnded
CHECK_DEADLOCK FALSE
