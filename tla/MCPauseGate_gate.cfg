SPECIFICATION FairSpec
CONSTANTS
  beat = beat
  tray = tray
  w1 = w1
  w2 = w2
  j1 = j1
  j2 = j2
  None = None
  Hands <- BeatOnly
  Beat = beat
  Workers <- TwoWorkers
  Jobs <- TwoJobs
  Faults = {"restart"}
  MaxFaults = 1
INVARIANTS
  GateAgrees
PROPERTIES
  LiftedByHand
  Drained
