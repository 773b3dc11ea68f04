SPECIFICATION FairSpec
CONSTANTS
  Peers = {a, b}
  Builds <- AnySets
  Policies = {"WAIT", "PREDICT"}
  Resolutions = {"pcam.desync.abort", "pcam.desync.report"}
  Interval = 2
  Choices <- AgreedHost
  NoContacts = "none"
  MaxTick = 2
CHECK_DEADLOCK FALSE
PROPERTIES SessionAdvances DriftNoticed AbortSpreads
