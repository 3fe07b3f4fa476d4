SPECIFICATION MCSpec
CONSTANTS
  None = None
  Nan = Nan
  l1 = l1
  l2 = l2
  beat = beat
  menu = menu
  w1 = w1
  j1 = j1
  Hands <- BothHands
  Beat = beat
  Workers <- OneWorker
  Jobs <- OneJob
  Faults = {"ask"}
  MaxFaults = 1
  Epochs = 3
  Attempts = 2
  Esrs = {1, 2}
  Keep = 1
  Letters = {"a"}
  Longest = 2
  MaxWritten = 5
  Sizes = {3, 30, 1201}
  Cuts = {1, 2, 20}
  ByteRates = {0, 1}
  SampleRates = {44100, 48000}
  MaxSize = 1300
  MaxChunks = 3
  RunEpochs = 3
  Gaps = {0, 1, 3}
  Second = 4
  MaxClock = 5
  AvgWindow = 2
  Lengths = {2}
  Starts = {None, 1}
  RunRates = {2, 5}
  Unknown = None
  MaxJobs = 3
  Libraries <- MCLibraries
  Default = l1
  Environments = {None}
  Caps = {0, 9}
  Beats = {beat}
  Pids = {1, 2, 3}
  Slots = {s1, s2}
  MaxLives = 3
INVARIANTS
  Heard
CHECK_DEADLOCK FALSE
