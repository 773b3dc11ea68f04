SPECIFICATION Spec
CONSTANTS
  Inputs = {"none", "strike"}
  Hosts = {"none", "contact"}
  NoInput = "none"
  NoHost = "none"
  StartStates <- Starts
  NoState = nostate
  Retained = 3
  MaxTick = 5
  Cues <- StrikeCues
  Raises <- StrikeRaises
INVARIANTS TypeOK FramesOnHistory WindowComplete PresentedIsShown ManagerAgrees
PROPERTIES ReconciledOnce TimelineSpec
