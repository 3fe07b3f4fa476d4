------------------------------- MODULE Attempts -------------------------------
(***************************************************************************)
(* Every attempt at a job, from the claim to the terminal write, as        *)
(* internal/worker runs it: runJob, supervise, the checkpoint saver,       *)
(* obey, beginReap and classify, over the statements of Library.           *)
(*                                                                         *)
(* An attempt is named by its claim token.  It has three threads of        *)
(* control that interleave freely: the trainer process (child), the        *)
(* goroutine that reads its output and then classifies (phase) and the     *)
(* saver (saver).  Attempts of one daemon and of many daemons are alike.   *)
(*                                                                         *)
(* What the environment may do wrong is a set of named faults with a       *)
(* common budget, so that an instance can say which of them it checks.     *)
(***************************************************************************)
EXTENDS Library

CONSTANTS
  Faults,      \* the kinds of trouble this instance lets happen
  MaxFaults    \* how often, all kinds together

FaultKinds == {
  "slow",        \* cron takes a run that is alive for a silent one
  "crash",       \* the daemon dies, and its transactions with it
  "unheard",     \* a statement commits and its answer is lost
  "ioerror",     \* a statement or a file operation fails
  "shutdown",    \* the daemon is asked to stop
  "pause",       \* a hand presses Pause now
  "stall",       \* no output for the whole stall window
  "overrun"}     \* the saver's last look outlives the wait for it

ASSUME AttemptsAssumption == Faults \subseteq FaultKinds /\ MaxFaults \in Nat

VARIABLES
  att,         \* att[t]: the attempt made under claim t
  faults       \* how many faults have happened

vars == <<row, ckpt, locked, att, faults>>

Phases == {"none", "claimed", "spawned", "running", "draining", "classify",
           "keeping", "storing", "finish", "gone"}
Reasons == {"none", "cancel", "stall", "verdict", "shutdown", "pause", "stop", "lost"}
Plans == {"none", "cancelled", "failed", "requeue", "verdict", "exported", "harvested"}

Children == {"none", "alive", "ok", "bad"}
Models == {"none", "nam", "pair"}
Savers == {"off", "idle", "writing", "storing", "done"}

Attempt == [
  phase : Phases,                    \* where the goroutine of runJob is
  job : Jobs \cup {NoJob},
  stop : BOOLEAN, cancel : BOOLEAN,  \* the asks on the row as it was claimed
  base : Nat,                        \* the epoch the child resumes from
  epoch : Nat,                       \* the epochs the child has completed
  child : Children,
  model : Models,                    \* what the driver has exported
  verdict : BOOLEAN,                 \* a probe's verdict was read
  reason : Reasons,                  \* procEntry.reason
  nudged : BOOLEAN,                  \* ckptSaver.pending
  saver : Savers,
  last : BOOLEAN,                    \* this is the saver's last look
  pair : Nat,                        \* the epoch the saver read off the disk
  plan : Plans,                      \* the terminal write to make
  reached : Nat]                     \* and the epoch it reports

Unused == [phase |-> "none", job |-> NoJob, stop |-> FALSE, cancel |-> FALSE,
           base |-> 0, epoch |-> 0, child |-> "none", model |-> "none", verdict |-> FALSE,
           reason |-> "none", nudged |-> FALSE, saver |-> "off", last |-> FALSE,
           pair |-> 0, plan |-> "none", reached |-> 0]

Init ==
  /\ LibraryInit
  /\ att = [t \in Tokens |-> Unused]
  /\ faults = 0

-----------------------------------------------------------------------------
(* Operators on one attempt.                                               *)

TrainLane(j) == Kind[j] # "probe_self"

\* The entry is registered and beginReap has not closed the door on it.
Killable == {"spawned", "running", "draining"}

\* procEntry.kill: the first reason sticks, and nothing is killed once reaping has begun.
Killed(a, why) ==
  IF a.phase \in Killable
  THEN [a EXCEPT !.reason = IF @ = "none" THEN why ELSE @,
                 !.child = IF @ = "alive" THEN "bad" ELSE @]
  ELSE a

\* Mutant: every answer is a reason to stop.
ObeyedBlindly(a, answer) == Killed(a, answer)

\* obey: the answer of a checkpoint write, turned on this attempt's own child.
Obeyed(a, answer) == IF answer = "go" THEN a ELSE Killed(a, answer)

\* The saver goes back to its select, or ends after the last look.
Rested(a) ==
  [a EXCEPT !.saver = IF a.last THEN "done" ELSE "idle", !.pair = 0]

\* runJob has returned: what is left is the history and, at worst, a saver
\* that outlived its attempt.
Returned(a) ==
  [Unused EXCEPT !.phase = "gone", !.job = a.job, !.base = a.base,
                 !.epoch = a.epoch, !.saver = a.saver, !.last = a.last, !.pair = a.pair]

\* The process is dead, saver and all.
Dead(a) ==
  [Unused EXCEPT !.phase = "gone", !.job = a.job, !.base = a.base,
                 !.epoch = a.epoch, !.saver = IF a.saver = "off" THEN "off" ELSE "done"]

Planned(a, what, n) == [a EXCEPT !.phase = "finish", !.plan = what, !.reached = n]

\* The budget.
Fault(kind) ==
  /\ kind \in Faults
  /\ faults < MaxFaults
  /\ faults' = faults + 1

\* A statement on the pool's own context fails with the library, or because the pool
\* is being stopped.
PoolFault == Fault("ioerror") \/ Fault("shutdown")

\* There is somebody who may still write to row j.
Attended(j) == \E t \in Tokens : Mine(j, t) /\ att[t].phase # "gone"

-----------------------------------------------------------------------------
(* Claiming and starting.                                                  *)

\* A worker pops row j.  The reply carries the asks that were waiting on the row.
Claim(j, t) ==
  /\ att[t].phase = "none"
  /\ ClaimNext(j, t)
  /\ att' = [att EXCEPT ![t] = [Unused EXCEPT !.phase = "claimed", !.job = j,
                                  !.stop = row[j].stop, !.cancel = row[j].cancel]]
  /\ UNCHANGED faults

\* The claim commits and the reply never arrives: the row runs and nobody runs it.
ClaimUnheard(j, t) ==
  /\ Fault("unheard")
  /\ att[t].phase = "none"
  /\ ClaimNext(j, t)
  /\ att' = [att EXCEPT ![t] = [Unused EXCEPT !.phase = "gone", !.job = j]]

\* runJob on a row that carries a cancel.
AnswerCancel(t) ==
  /\ att[t].phase = "claimed" /\ att[t].cancel
  /\ att' = [att EXCEPT ![t] = Planned(@, "cancelled", 0)]
  /\ UNCHANGED <<libVars, faults>>

\* Mutant: whatever weights the take has will do.
AnyWeights(j) == ckpt[TakeOf[j]].job # NoJob

\* The weights on the take are this job's own.
OwnWeights(j) == ckpt[TakeOf[j]].job = j

\* runJob on a row that carries a stop: the library's pair is the result, if this
\* job put it there and the read does not fail; otherwise there is nothing to keep.
AnswerStop(t) ==
  LET j == att[t].job IN
  /\ att[t].phase = "claimed" /\ att[t].stop /\ ~att[t].cancel
  /\ \/ /\ OwnWeights(j)
        /\ att' = [att EXCEPT ![t] = Planned(@, "harvested", ckpt[TakeOf[j]].reached)]
        /\ UNCHANGED faults
     \/ /\ ~OwnWeights(j)
        /\ att' = [att EXCEPT ![t] = Planned(@, "failed", 0)]
        /\ UNCHANGED faults
     \/ /\ PoolFault
        /\ att' = [att EXCEPT ![t] = Planned(@, "failed", 0)]
  /\ UNCHANGED libVars

\* A train_more on a take without weights has nothing to continue from.
BaseUnavailable(j) == Kind[j] = "train_more" /\ ckpt[TakeOf[j]].job = NoJob

\* Mutant: only a run that this job began itself is picked up.
OwnResume(j) == IF TrainLane(j) /\ OwnWeights(j) THEN ckpt[TakeOf[j]].reached ELSE 0

\* A train-lane child resumes from the take's own weights, whoever trained them.
Resume(j) == IF TrainLane(j) THEN ckpt[TakeOf[j]].reached ELSE 0

\* materialize and Spawn succeed, and the entry is registered.
SpawnChild(t) ==
  LET j == att[t].job IN
  /\ att[t].phase = "claimed" /\ ~att[t].stop /\ ~att[t].cancel
  /\ ~BaseUnavailable(j)
  /\ att' = [att EXCEPT ![t] = [@ EXCEPT !.phase = "spawned", !.child = "alive",
                                         !.base = Resume(j), !.epoch = Resume(j)]]
  /\ UNCHANGED <<libVars, faults>>

\* One of the steps before the child runs fails, or there is no base.
RefuseJob(t) ==
  LET j == att[t].job IN
  /\ att[t].phase = "claimed" /\ ~att[t].stop /\ ~att[t].cancel
  /\ \/ BaseUnavailable(j) /\ UNCHANGED faults
     \/ Fault("ioerror")
  /\ att' = [att EXCEPT ![t] = Planned(@, "failed", 0)]
  /\ UNCHANGED libVars

\* SetJobPGID, and supervise begins: if the row has left us the child goes at once.
\* An error is only logged.
RecordPgid(t) ==
  LET j == att[t].job
      Begun(a) == [a EXCEPT !.phase = "running",
                            !.saver = IF TrainLane(j) THEN "idle" ELSE "off"] IN
  /\ att[t].phase = "spawned"
  /\ \/ /\ Unlocked(j)
        /\ att' = [att EXCEPT ![t] = Begun(IF Mine(j, t) THEN @ ELSE Killed(@, "lost"))]
        /\ UNCHANGED faults
     \/ /\ PoolFault
        /\ att' = [att EXCEPT ![t] = Begun(@)]
  /\ UNCHANGED libVars

-----------------------------------------------------------------------------
(* The child, and the reader of its output.                                *)

\* One more epoch: its pair is on disk and the reader nudges the saver.
Epoch(t) ==
  /\ att[t].phase = "running" /\ att[t].child = "alive"
  /\ TrainLane(att[t].job)
  /\ att[t].model = "none" /\ att[t].epoch < Epochs[att[t].job]
  /\ att' = [att EXCEPT ![t] = [@ EXCEPT !.epoch = att[t].epoch + 1, !.nudged = TRUE]]
  /\ UNCHANGED <<libVars, faults>>

\* The driver exports model.nam, then model.ckpt if this run wrote any checkpoint.
Export(t) ==
  /\ att[t].phase \in {"running", "draining"} /\ att[t].child = "alive"
  /\ TrainLane(att[t].job) /\ att[t].epoch >= Epochs[att[t].job]
  /\ \/ /\ att[t].model = "none"
        /\ att' = [att EXCEPT ![t].model = "nam"]
     \/ /\ att[t].model = "nam" /\ att[t].epoch > att[t].base
        /\ att' = [att EXCEPT ![t].model = "pair"]
  /\ UNCHANGED <<libVars, faults>>

\* The child leaves by itself: with 0 once everything is exported, in any other case not.
ChildExit(t) ==
  /\ att[t].phase \in {"running", "draining"} /\ att[t].child = "alive"
  /\ \/ att' = [att EXCEPT ![t].child = "bad"]
     \/ /\ \/ ~TrainLane(att[t].job)
           \/ att[t].model = "pair"
           \/ att[t].model = "nam" /\ att[t].epoch = att[t].base
        /\ att' = [att EXCEPT ![t].child = "ok"]
  /\ UNCHANGED <<libVars, faults>>

\* The reader meets a probe's verdict, and the probe has done its work.
ReadVerdict(t) ==
  /\ att[t].phase = "running" /\ ~TrainLane(att[t].job) /\ ~att[t].verdict
  /\ att' = [att EXCEPT ![t] = Killed([@ EXCEPT !.verdict = TRUE], "verdict")]
  /\ UNCHANGED <<libVars, faults>>

\* The pipe is closed, by the end of the child, by a kill, or by a child that only closed
\* its output; the saver is told to finish.
Eof(t) ==
  /\ att[t].phase = "running"
  /\ att' = [att EXCEPT ![t].phase = "draining"]
  /\ UNCHANGED <<libVars, faults>>

\* A kill that comes from outside the attempt: the menu's Pause now, the pool's
\* shutdown or the stall watchdog.
Kill(t, why) ==
  /\ Fault(why)
  /\ att[t].phase \in Killable
  /\ att[t].phase = "spawned" => why = "pause"
  /\ att' = [att EXCEPT ![t] = Killed(@, why)]
  /\ UNCHANGED libVars

-----------------------------------------------------------------------------
(* The saver.                                                              *)

\* It looks at the disk when it is nudged, and once more when the reader is done.
\* It takes some whole pair this run wrote: the newest, the one before it if the
\* newest is torn, the best if the last one is being rotated away; or none, as when
\* the driver or the end of the attempt has removed the files.
SaverLook(t) ==
  /\ att[t].saver = "idle"
  /\ \E lastLook \in BOOLEAN :
       /\ IF lastLook THEN att[t].phase # "running" ELSE att[t].nudged
       /\ \/ \E n \in (att[t].base + 1)..att[t].epoch :
               /\ att[t].phase # "gone"
               /\ att' = [att EXCEPT ![t] = [@ EXCEPT !.saver = "writing", !.pair = n,
                                               !.nudged = FALSE, !.last = lastLook]]
          \/ att' = [att EXCEPT ![t] =
                       Rested([@ EXCEPT !.nudged = FALSE, !.last = lastLook])]
  /\ UNCHANGED <<libVars, faults>>

\* PutCheckpoint begins: the fence holds, or the run learns that it is not ours.
SaverPut(t) ==
  LET j == att[t].job IN
  /\ att[t].saver = "writing"
  /\ \/ /\ PutLock(j, t)
        /\ att' = [att EXCEPT ![t].saver = "storing"]
     \/ /\ PutRefused(j, t)
        /\ att' = [att EXCEPT ![t] = Killed(Rested(@), "lost")]
  /\ UNCHANGED faults

\* It commits, and the verdict it returns is obeyed.
SaverStored(t) ==
  LET j == att[t].job IN
  /\ att[t].saver = "storing"
  /\ PutStore(j, t, att[t].pair)
  /\ att' = [att EXCEPT ![t] = Obeyed(Rested(@), Verdict(j))]
  /\ UNCHANGED faults

\* The write fails or runs out of time, before the commit or after it: nothing is obeyed.
SaverFailed(t) ==
  LET j == att[t].job IN
  /\ Fault("ioerror")
  /\ \/ att[t].saver = "writing" /\ UNCHANGED libVars
     \/ att[t].saver = "storing" /\ (Rollback(j, t) \/ PutStore(j, t, att[t].pair))
  /\ att' = [att EXCEPT ![t] = Rested(@)]

-----------------------------------------------------------------------------
(* Reaping and classifying.                                                *)

\* stop() waits for the saver's last look, a bounded time; then beginReap closes
\* the door on kills, sweeps the group, and the child is waited for.
BeginReap(t) ==
  /\ att[t].phase = "draining"
  /\ \/ att[t].saver \in {"off", "done"} /\ UNCHANGED faults
     \/ att[t].saver \notin {"off", "done"} /\ Fault("overrun")
  /\ att' = [att EXCEPT ![t] = [@ EXCEPT !.phase = "classify",
                                  !.child = IF att[t].child = "alive" THEN "bad" ELSE att[t].child]]
  /\ UNCHANGED libVars

\* The row is not ours: nothing is written.
ClassifyLost(t) ==
  /\ att[t].phase = "classify" /\ att[t].reason = "lost"
  /\ att' = [att EXCEPT ![t] = Returned(@)]
  /\ UNCHANGED <<libVars, faults>>

ClassifyCancel(t) ==
  /\ att[t].phase = "classify" /\ att[t].reason = "cancel"
  /\ att' = [att EXCEPT ![t] = Planned(@, "cancelled", 0)]
  /\ UNCHANGED <<libVars, faults>>

\* The daemon goes away, or a probe is paused, and the child did not finish by itself.
GoesBack(t) ==
  /\ \/ att[t].reason = "shutdown"
     \/ att[t].reason = "pause" /\ ~TrainLane(att[t].job)
  /\ att[t].child # "ok"

ClassifyRequeue(t) ==
  /\ att[t].phase = "classify" /\ GoesBack(t)
  /\ att' = [att EXCEPT ![t] = Planned(@, "requeue", 0)]
  /\ UNCHANGED <<libVars, faults>>

\* None of the three above: the run is judged by what it left behind.
Judged(t) ==
  att[t].phase = "classify" /\ att[t].reason \notin {"lost", "cancel"} /\ ~GoesBack(t)

ClassifyProbe(t) ==
  /\ Judged(t) /\ ~TrainLane(att[t].job)
  /\ att' = [att EXCEPT ![t] = Planned(@, IF @.verdict THEN "verdict" ELSE "failed", 0)]
  /\ UNCHANGED <<libVars, faults>>

\* The row is next, with the epochs the trainer was asked for.
ToRow(a) == Planned(a, "exported", Epochs[a.job])

\* Mutant: the take gets what the driver left, whether this run wrote a checkpoint or not.
ExportedAnyway(a) == [a EXCEPT !.phase = "keeping"]

\* finishTrainSuccess: the exported pair goes to the take first, if the driver got
\* as far as model.ckpt.  Without a readable model the run has failed.
Exported(a) == IF a.model = "pair" THEN [a EXCEPT !.phase = "keeping"] ELSE ToRow(a)

TrainSuccess(t) ==
  \/ /\ att' = [att EXCEPT ![t] = Exported(@)]
     /\ UNCHANGED faults
  \/ /\ Fault("ioerror")
     /\ att' = [att EXCEPT ![t] = Planned(@, "failed", 0)]

\* A model and a clean exit win over a stop, a pause, a stall and a shutdown.
Natural(t) == att[t].child = "ok" /\ att[t].model # "none"

ClassifyNatural(t) ==
  /\ Judged(t) /\ TrainLane(att[t].job) /\ Natural(t)
  /\ TrainSuccess(t)
  /\ UNCHANGED libVars

\* An early stop, and a pause is one too: reading a row.
EarlyStop(t) ==
  /\ Judged(t) /\ TrainLane(att[t].job) /\ ~Natural(t)
  /\ att[t].reason \in {"stop", "pause"}

\* Mutant: the epoch the trainer reached, not the one the library holds.
HarvestPrinted(t) ==
  /\ EarlyStop(t) /\ OwnWeights(att[t].job)
  /\ att' = [att EXCEPT ![t] = Planned(@, "harvested", @.epoch)]
  /\ UNCHANGED <<libVars, faults>>

ClassifyHarvest(t) ==
  LET j == att[t].job IN
  /\ EarlyStop(t) /\ OwnWeights(j)
  /\ att' = [att EXCEPT ![t] = Planned(@, "harvested", ckpt[TakeOf[j]].reached)]
  /\ UNCHANGED <<libVars, faults>>

\* Nothing of this job is in the library, or the read of it fails.
NothingKept(t) ==
  \/ ~OwnWeights(att[t].job) /\ UNCHANGED faults
  \/ Fault("ioerror")

\* ...but the driver had already exported the model when the kill landed.
ClassifyLateExport(t) ==
  /\ EarlyStop(t) /\ att[t].model # "none"
  /\ \/ ~OwnWeights(att[t].job) /\ TrainSuccess(t)
     \/ Fault("ioerror") /\ att' = [att EXCEPT ![t] = Exported(@)]
  /\ UNCHANGED libVars

\* ...and there is no model: a pause puts the run back, a stop has failed.
ClassifyEmpty(t) ==
  /\ EarlyStop(t) /\ NothingKept(t) /\ att[t].model = "none"
  /\ att' = [att EXCEPT ![t] =
               Planned(@, IF @.reason = "pause" THEN "requeue" ELSE "failed", 0)]
  /\ UNCHANGED libVars

\* A stall or a crash of the trainer.
ClassifyFailed(t) ==
  /\ Judged(t) /\ TrainLane(att[t].job) /\ ~Natural(t)
  /\ att[t].reason \notin {"stop", "pause"}
  /\ att' = [att EXCEPT ![t] = Planned(@, "failed", 0)]
  /\ UNCHANGED <<libVars, faults>>

Classify(t) ==
  \/ ClassifyLost(t)    \/ ClassifyCancel(t)  \/ ClassifyRequeue(t)
  \/ ClassifyProbe(t)   \/ ClassifyNatural(t) \/ ClassifyHarvest(t)
  \/ ClassifyLateExport(t) \/ ClassifyEmpty(t) \/ ClassifyFailed(t)

-----------------------------------------------------------------------------
(* The terminal writes.                                                    *)

\* The finished pair goes to the take; whatever comes of it, the row is next.
KeepFinal(t) ==
  LET j == att[t].job IN
  /\ att[t].phase = "keeping"
  /\ \/ PutLock(j, t) /\ att' = [att EXCEPT ![t].phase = "storing"]
     \/ PutRefused(j, t) /\ att' = [att EXCEPT ![t] = ToRow(@)]
  /\ UNCHANGED faults

FinalStored(t) ==
  LET j == att[t].job IN
  /\ att[t].phase = "storing"
  /\ PutStore(j, t, Epochs[j])
  /\ att' = [att EXCEPT ![t] = ToRow(@)]
  /\ UNCHANGED faults

FinalFailed(t) ==
  LET j == att[t].job IN
  /\ Fault("ioerror")
  /\ \/ att[t].phase = "keeping" /\ UNCHANGED libVars
     \/ att[t].phase = "storing" /\ (Rollback(j, t) \/ PutStore(j, t, Epochs[j]))
  /\ att' = [att EXCEPT ![t] = ToRow(@)]

\* The one statement that ends the attempt; its fence decides whether it counts.
TerminalWrite(t) ==
  LET j == att[t].job IN
  \/ att[t].plan = "cancelled" /\ FinishCancelled(j, t)
  \/ att[t].plan = "failed" /\ FinishFailed(j, t)
  \/ att[t].plan = "requeue" /\ RequeueJob(j, t)
  \/ att[t].plan = "verdict" /\ FinishProbeSelf(j, t)
  \/ att[t].plan \in {"exported", "harvested"} /\ FinishSucceeded(j, t, att[t].reached)

Finish(t) ==
  /\ att[t].phase = "finish"
  /\ TerminalWrite(t)
  /\ att' = [att EXCEPT ![t] = Returned(@)]
  /\ UNCHANGED faults

\* The statement fails.  It is logged and not repeated.  The two that answer an ask on
\* a claimed row are on the pool's context, the others outlive a shutdown.
FinishFault(t) ==
  /\ att[t].phase = "finish"
  /\ \/ Fault("ioerror")
     \/ Fault("shutdown") /\ (att[t].cancel \/ (att[t].stop /\ att[t].plan = "harvested"))
  /\ att' = [att EXCEPT ![t] = Returned(@)]
  /\ UNCHANGED libVars

\* The daemon dies: its open transactions roll back, its rows stay as they are.
Crash(t) ==
  /\ Fault("crash")
  /\ att[t].phase \notin {"none", "gone"}
  /\ Rollback(att[t].job, t)
  /\ att' = [att EXCEPT ![t] = Dead(@)]

-----------------------------------------------------------------------------
(* The application and cron.                                               *)

Application(j) ==
  /\ Enqueue(j) \/ AskStop(j) \/ AskCancel(j) \/ CancelStale(j)
  /\ UNCHANGED <<att, faults>>

Close(j) == CloseQueued(j) /\ UNCHANGED <<att, faults>>

\* A row without anybody behind it stays silent, and cron gets to it.
MarkSilent(j) == ~Attended(j) /\ MarkPaused(j) /\ UNCHANGED <<att, faults>>

\* A run that is alive is silent for longer than cron's window.
MarkSlow(j) == Attended(j) /\ Fault("slow") /\ MarkPaused(j) /\ UNCHANGED att

Saver(t) == SaverLook(t) \/ SaverPut(t) \/ SaverStored(t)

Reader(t) ==
  \/ AnswerCancel(t) \/ AnswerStop(t) \/ SpawnChild(t) \/ RefuseJob(t)
  \/ RecordPgid(t) \/ ReadVerdict(t) \/ Eof(t) \/ BeginReap(t) \/ Classify(t)
  \/ KeepFinal(t) \/ FinalStored(t) \/ Finish(t)

Child(t) == Epoch(t) \/ Export(t) \/ ChildExit(t)

Trouble(t) ==
  \/ SaverFailed(t) \/ FinalFailed(t) \/ FinishFault(t) \/ Crash(t)
  \/ \E why \in {"shutdown", "pause", "stall"} : Kill(t, why)

Next ==
  \/ \E j \in Jobs : Application(j) \/ Close(j) \/ MarkSilent(j) \/ MarkSlow(j)
  \/ \E j \in Jobs, t \in Tokens : Claim(j, t) \/ ClaimUnheard(j, t)
  \/ \E t \in Tokens : Saver(t) \/ Reader(t) \/ Child(t) \/ Trouble(t)

Spec == Init /\ [][Next]_vars

\* The goroutines of a daemon that is up keep going, the application closes what only
\* it can close, and cron runs.  The trainer itself may hang: its output ends all the
\* same (Eof), because the stall watchdog kills it.  Nobody has to queue, ask or fail.
Fairness ==
  /\ \A j \in Jobs : WF_vars(Close(j)) /\ WF_vars(MarkSilent(j))
  /\ \A j \in Jobs : WF_vars(\E t \in Tokens : Claim(j, t))
  /\ \A t \in Tokens : WF_vars(Saver(t)) /\ WF_vars(Reader(t))

FairSpec == Spec /\ Fairness

-----------------------------------------------------------------------------
(* Safety.                                                                 *)

\* The one claim that a row which is not up for grabs lets write weights.
HolderOf(r) == IF r.state = "running" /\ ~r.paused THEN r.token ELSE NoToken

\* The columns, the procEntry, the saver and the outcome stay in their domains.
TypeOK ==
  /\ LibraryTypeOK
  /\ att \in [Tokens -> Attempt]
  /\ faults \in 0..MaxFaults

\* Between the fence that PutCheckpoint reads and the upsert it makes, nobody takes
\* the row away: not a claim, a cron mark, a cancel or a terminal write.
LockedStands ==
  \A j \in Jobs, t \in Tokens :
    locked[j] = t => HolderOf(row[j]) = t /\ att[t].job = j

\* A cancelled job leaves nothing on its take, whatever write of its run was on the
\* way when the cancel was answered (store/checkpoint.go, "FOR UPDATE is not decoration").
CancelKeepsNothing ==
  \A j \in Jobs : row[j].state = "cancelled" => ckpt[TakeOf[j]].job # j

\* The weights on a take are an epoch that the attempt they are signed with really
\* trained: after the one it resumed from, and not beyond the last it completed.
WeightsTrained ==
  \A k \in Takes : ckpt[k].job # NoJob =>
    /\ TakeOf[ckpt[k].job] = k
    /\ ckpt[k].token \in Tokens
    /\ LET a == att[ckpt[k].token] IN
       a.job = ckpt[k].job /\ ckpt[k].reached \in (a.base + 1)..a.epoch

\* A training that succeeded reports an epoch one of its own attempts trained: the
\* parent's weights are never filed as its output.  The one exception is a run that
\* resumes at its last epoch and has nothing left to train.
SuccessIsOwn ==
  \A j \in Jobs : row[j].state = "succeeded" /\ TrainLane(j) =>
    \E t \in Tokens :
      /\ att[t].job = j
      /\ \/ row[j].result \in (att[t].base + 1)..att[t].epoch
         \/ row[j].result = Epochs[j] /\ att[t].base >= Epochs[j]

\* Until the attempt that holds the row stores something itself, the take is where that
\* attempt resumed from: no write of a displaced attempt slips in under it.
BaseStands ==
  \A j \in Jobs, t \in Tokens :
    /\ row[j].state = "running" /\ row[j].token = t /\ TrainLane(j)
    /\ att[t].phase \in Killable /\ ckpt[TakeOf[j]].token # t
    => ckpt[TakeOf[j]].reached = att[t].base

\* A run closed from the library reports what the library holds, and holds what it
\* reports: between reading the take and closing the row nothing moved.
HarvestAgrees ==
  [][\A j \in Jobs :
       /\ row[j].state = "running" /\ row'[j].state = "succeeded"
       /\ att[row[j].token].plan = "harvested"
       => /\ ckpt[TakeOf[j]].job = j
          /\ row'[j].result = ckpt[TakeOf[j]].reached]_vars

-----------------------------------------------------------------------------
(* The abstract specification.                                             *)

\* A row is open until it ends.
StageOf(r) == CASE r.state = "absent" -> "absent"
                [] r.state \in {"queued", "running"} -> "open"
                [] OTHER -> r.state

Lease == INSTANCE Handover WITH
  stage  <- [j \in Jobs |-> StageOf(row[j])],
  holder <- [j \in Jobs |-> HolderOf(row[j])],
  spent  <- {t \in Tokens : att[t].phase # "none"},
  kept   <- [k \in Takes |-> [job |-> ckpt[k].job, token |-> ckpt[k].token]]

\* However the threads of the attempts interleave, the library only does what Handover
\* allows: one claim at a time keeps weights, outcomes are final, a cancel leaves none.
HandoverSpec == Lease!Spec

\* The attempt that has take k, once it has an epoch behind it.
At(k) == {t \in Tokens :
            /\ att[t].epoch > 0
            /\ \E j \in Jobs : TakeOf[j] = k /\ row[j].state = "running" /\ row[j].token = t}

Runner(k) == CHOOSE t \in At(k) : TRUE

\* Its numbers; without one, the take's.
StartOf(k) == IF At(k) = {} THEN ckpt[k].reached ELSE att[Runner(k)].base
DoneOn(k) == IF At(k) = {} THEN ckpt[k].reached ELSE att[Runner(k)].epoch

Run(k) == INSTANCE Keeping WITH
  base <- StartOf(k), done <- DoneOn(k), held <- ckpt[k].reached

\* Through every claim, mark, crash and overrun, the attempts at a take are one training:
\* each begins where the take stands, and nothing is kept that it did not add.
TakesKeep ==
  /\ \A k \in Takes : Run(k)!Init
  /\ [][\A k \in Takes : [Run(k)!Next]_(Run(k)!vars)]_vars

-----------------------------------------------------------------------------
(* Progress.                                                               *)

\* A stop or a cancel asked of a job is answered: the job ends, or the attempt it was
\* asked of does and takes the stop with it.  Neither is left hanging on a row.
AskAnswered ==
  \A j \in Jobs : row[j].stop \/ row[j].cancel ~>
                    row[j].state \in Terminal \/ ~(row[j].stop \/ row[j].cancel)

\* Every job that is queued ends, whatever goes wrong on the way.
Drains == \A j \in Jobs : row[j].state = "queued" ~> row[j].state \in Terminal

-----------------------------------------------------------------------------
(* What the code and its documentation say, and a run refutes.             *)

\* "The take gets the finished model": when a run succeeds with the model its trainer
\* exported with a checkpoint, the take's row says the same thing.
FinishedOnTake ==
  [][\A j \in Jobs :
       /\ row[j].state = "running" /\ row'[j].state = "succeeded"
       /\ att[row[j].token].plan = "exported" /\ att[row[j].token].model = "pair"
       => /\ ckpt[TakeOf[j]].job = j
          /\ ckpt[TakeOf[j]].reached = row'[j].result]_vars

\* "Has it been asked to stop: close it with what the library holds": a row that was
\* claimed with a stop on it fails only if the library holds nothing of that run.
StopIsKept ==
  [][\A j \in Jobs :
       /\ row[j].state = "running" /\ row'[j].state = "failed"
       /\ att[row[j].token].stop
       => ckpt[TakeOf[j]].job # j]_vars
=============================================================================
