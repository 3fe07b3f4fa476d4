SPECIFICATION Spec
CONSTANTS
  beat = beat
  tray = tray
  w1 = w1
  w2 = w2
  j1 = j1
  j2 = j2
  None = None
  Hands <- BothHands
  Beat = beat
  Workers <- OneWorker
  Jobs <- OneJob
  Faults = {}
  MaxFaults = 0
SYMMETRY Symmetry
INVARIANTS
  ResumeLifts
