SPECIFICATION Spec
CONSTANTS
  first = first
  more = more
  probe = probe
  take = take
  t1 = t1
  t2 = t2
  NoJob = NoJob
  NoToken = NoToken
  Jobs <- TwoRuns
  Takes <- MCTakes
  Tokens <- TwoTokens
  TakeOf <- TwoRunsTake
  Kind <- TwoRunsKind
  Epochs <- TwoRunsEpochs
  Faults = {"pause", "crash", "stall", "unheard", "overrun"}
  MaxFaults = 1
SYMMETRY Symmetry
INVARIANTS
  SuccessIsOwn
PROPERTIES
  TakesKeep
CHECK_DEADLOCK FALSE
