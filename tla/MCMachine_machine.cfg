SPECIFICATION MCSpec
CONSTANTS
  None = None
  d1 = d1
  d2 = d2
  Faults = {"hang", "shutdown", "net", "step", "kill", "count", "handle", "write", "session", "crash", "statement", "diskfull"}
  MaxFaults = 1
  StallWindow = 2
  Room = 2
  Provisioners = {p1, p2}
  Interrupted = {"broken", "starts"}
  Width = 2
  Hands = {menu}
  Start = start
  MaxQueued = 1
  MaxLeft = 1
  Daemons <- MCDaemons
  AskedCaps = {1, 2}
INVARIANTS
  EndedRightly
  ReadyRuns
  AwakeFollows
  NoFratricide
  RowTells
  KeptIsLive
PROPERTIES
  CapAskIsTaken
  SilentEnds
  MCEndsReady
  CapTakesEffect
  MCClaimsFollow
  MCStopEnds
  AskIsAnswered
CHECK_DEADLOCK FALSE
