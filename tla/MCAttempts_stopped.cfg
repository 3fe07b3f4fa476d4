SPECIFICATION Spec
CONSTANTS
  first = first
  more = more
  probe = probe
  take = take
  t1 = t1
  t2 = t2
  NoJob = NoJob
  NoToken = NoToken
  Jobs <- ShortRun
  Takes <- MCTakes
  Tokens <- TwoTokens
  TakeOf <- ShortRunTake
  Kind <- ShortRunKind
  Epochs <- ShortRunEpochs
  Faults = {"slow", "shutdown"}
  MaxFaults = 2
SYMMETRY Symmetry
PROPERTIES
  StopIsKept
CHECK_DEADLOCK FALSE
