SPECIFICATION Spec
CONSTANTS
  Peers = {a, b}
  Builds <- AnySets
  Policies = {"WAIT", "PREDICT"}
  Resolutions = {"pcam.desync.report"}
  Interval = 1
  Choices <- ErrantHost
  NoContacts = "none"
  MaxTick = 2
SYMMETRY PeerSymmetry
CHECK_DEADLOCK FALSE
INVARIANTS TypeOK SameTimeline InStep MatchMeansEqual
