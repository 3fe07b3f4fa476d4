SPECIFICATION Spec
CONSTANTS
  first = first
  more = more
  probe = probe
  take = take
  t1 = t1
  t2 = t2
  NoJob = NoJob
  NoToken = NoToken
  Jobs <- OneRun
  Takes <- MCTakes
  Tokens <- TwoTokens
  TakeOf <- OneRunTake
  Kind <- OneRunKind
  Epochs <- OneRunEpochs
  Faults = {"slow", "crash", "unheard", "ioerror", "shutdown", "pause", "stall"}
  MaxFaults = 1
SYMMETRY Symmetry
INVARIANTS
  TypeOK
  LockedStands
  CancelKeepsNothing
  WeightsTrained
  BaseStands
PROPERTIES
  HarvestAgrees
  HandoverSpec
CHECK_DEADLOCK FALSE
