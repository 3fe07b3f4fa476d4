SPECIFICATION Spec
CONSTANTS
  first = first
  more = more
  probe = probe
  take = take
  t1 = t1
  t2 = t2
  NoJob = NoJob
  NoToken = NoToken
  Jobs <- ShortRun
  Takes <- MCTakes
  Tokens <- TwoTokens
  TakeOf <- ShortRunTake
  Kind <- ShortRunKind
  Epochs <- ShortRunEpochs
  Faults = {"slow"}
  MaxFaults = 1
SYMMETRY Symmetry
PROPERTIES
  FinishedOnTake
CHECK_DEADLOCK FALSE
