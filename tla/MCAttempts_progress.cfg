SPECIFICATION OneSpec
CONSTANTS
  first = first
  more = more
  probe = probe
  take = take
  t1 = t1
  t2 = t2
  NoJob = NoJob
  NoToken = NoToken
  Jobs <- OneOfTwo
  Takes <- MCTakes
  Tokens <- TwoTokens
  TakeOf <- OneOfTwoTake
  Kind <- OneOfTwoKind
  Epochs <- OneOfTwoEpochs
  Faults = {"crash", "unheard", "ioerror", "shutdown", "pause", "stall", "overrun"}
  MaxFaults = 1
PROPERTIES
  AskAnswered
  Drains
CHECK_DEADLOCK FALSE
