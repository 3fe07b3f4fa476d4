------------------------------- MODULE MCParts -------------------------------
(***************************************************************************)
(* The parts that turn one thing into another and keep it: the trainer's   *)
(* files into a take, its output into lines, rows and estimates, an upload *)
(* into a verdict, the configuration into a file, process numbers into     *)
(* kills, and the orders of two hands into a gate.  They share no state,   *)
(* so that a behaviour of this instance is a behaviour of one of them,     *)
(* chosen at the start.                                                    *)
(***************************************************************************)
EXTENDS CkptSaver, LineReader, WavCheck, Progress, Estimates, ConfigFile, Recovery, PauseGate

CONSTANTS l1, l2, beat, menu, w1, j1

VARIABLE part

MCLibraries == {l1, l2}

\* A pool of one worker and one row, between the menu and the heartbeat.
BothHands == {beat, menu}
OneWorker == {w1}
OneJob == {j1}

saverOnly == <<attempt, child, files, pipe, nudge, saver, take, figures, asked, marred>>
progressOnly == <<clock, printed, tracker, wrote, runRow, epochRows, arrived, missed>>
configOnly == <<file, tmpFile, environment, booted, savers, typed, astray>>
recoveryOnly == <<process, slots, elsewhere, self, killedOther>>
gateOnly == <<gateVars, call, askVars, poolVars>>
dataVars ==
  <<part, faults, saverOnly, lineVars, wavVars, progressOnly, estimateVars, configOnly,
    recoveryOnly, gateOnly>>

\* The other parts stay as they are.
Only(name) ==
  /\ part = name /\ UNCHANGED part
  /\ name # "saver" => UNCHANGED saverOnly
  /\ name # "line" => UNCHANGED lineVars
  /\ name # "wav" => UNCHANGED wavVars
  /\ name # "progress" => UNCHANGED progressOnly
  /\ name # "estimates" => UNCHANGED estimateVars
  /\ name # "config" => UNCHANGED configOnly
  /\ name # "recovery" => UNCHANGED recoveryOnly
  /\ name # "gate" => UNCHANGED gateOnly

\* A part that knows no faults has none.
Faultless(next) == next /\ UNCHANGED faults

MCInit ==
  /\ part \in {"saver", "line", "wav", "progress", "estimates", "config", "recovery", "gate"}
  /\ Init /\ SaverInit /\ LineInit /\ WavInit /\ ProgressInit /\ EstimateInit /\ RecoveryInit
  /\ ConfigInit
  /\ part # "config" => file = None

MCNext ==
  \/ Only("saver") /\ SaverNext
  \/ Only("line") /\ Faultless(LineNext)
  \/ Only("wav") /\ Faultless(WavNext)
  \/ Only("progress") /\ ProgressNext
  \/ Only("estimates") /\ Faultless(EstimateNext)
  \/ Only("config") /\ ConfigNext
  \/ Only("recovery") /\ RecoveryNext
  \/ Only("gate") /\ Next

MCSpec == MCInit /\ [][MCNext]_dataVars
=============================================================================
