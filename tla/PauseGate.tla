------------------------------- MODULE PauseGate -------------------------------
(***************************************************************************)
(* The pause of a worker pool: the gate before a claim, the flag that      *)
(* catches a child no snapshot saw, and the file that remembers a pause    *)
(* over a restart (internal/worker: Pause, Resume, rememberPause, Start,   *)
(* workerLoop, register).  It is worked by two goroutines, the menu's and  *)
(* the heartbeat's, which takes its orders from a column of the library    *)
(* and clears it when they are carried out.                                *)
(*                                                                         *)
(* A call is the sequence of the shared accesses it has still to make; no  *)
(* lock is held across two of them.                                        *)
(***************************************************************************)
EXTENDS Trouble, Sequences

CONSTANTS
  Hands,      \* the goroutines that call Pause and Resume
  Beat,       \* the heartbeat's, one of them
  Workers,    \* the goroutines of the pool
  Jobs        \* the rows they may claim

\* Faults here: "ioerror", the file, or the statement that clears the ask, fails;
\* "restart", the daemon stops or dies, and comes up again; "slow", cron gives a run that
\* is alive to whoever claims it.

ASSUME PauseGateAssumption == Beat \in Hands /\ None \notin Workers \cup Jobs

VARIABLES
  paused, pauseKill,   \* the pool's two flags
  pauseFile,           \* the remembered pause is there
  pauseTmp,            \* ...and its temporary name
  call,                \* call[h]: what hand h is busy with
  wanted,              \* workers.pause_wanted
  served,              \* a history variable: what is wanted was carried out before
  worker,              \* worker[w]: where worker w is, and its child
  procs,               \* procs[j]: the worker whose entry is registered under row j
  job                  \* job[j]: the row

gateVars == <<paused, pauseKill, pauseFile, pauseTmp>>
askVars == <<wanted, served>>
poolVars == <<worker, procs, job>>
vars == <<gateVars, call, askVars, poolVars, faults>>

Orders == {"after", "now", "resume"}
Places == {"idle", "open", "claimed", "registered", "running", "reaping"}
Accesses == {"gate", "write", "rename", "arm", "snapshot", "kill",
             "disarm", "open", "forget", "consume"}

\* Mutant: the flag is raised only after the children were looked up.
ProgramArmingLate(order) ==
  CASE order = "after"  -> <<"gate", "write", "rename">>
    [] order = "now"    -> <<"gate", "write", "rename", "snapshot", "kill", "arm">>
    [] order = "resume" -> <<"disarm", "open", "forget">>

\* Mutant: "pause now" is taken for a passing thing and not remembered.
ProgramForgetful(order) ==
  CASE order = "after"  -> <<"gate", "write", "rename">>
    [] order = "now"    -> <<"gate", "arm", "snapshot", "kill">>
    [] order = "resume" -> <<"disarm", "open", "forget">>

\* Mutant: Resume opens the gate and leaves the flag up.
ProgramLeavingArmed(order) ==
  CASE order = "after"  -> <<"gate", "write", "rename">>
    [] order = "now"    -> <<"gate", "write", "rename", "arm", "snapshot", "kill">>
    [] order = "resume" -> <<"open", "forget">>

\* Pause(false), Pause(true) and Resume.
Program(order) ==
  CASE order = "after"  -> <<"gate", "write", "rename">>
    [] order = "now"    -> <<"gate", "write", "rename", "arm", "snapshot", "kill">>
    [] order = "resume" -> <<"disarm", "open", "forget">>

NoCall == [order |-> "none", todo |-> <<>>, prey |-> {}, again |-> FALSE]
IdleWorker == [at |-> "idle", job |-> None, killed |-> FALSE]

Init ==
  /\ paused = FALSE /\ pauseKill = FALSE /\ pauseFile = FALSE /\ pauseTmp = FALSE
  /\ call = [h \in Hands |-> NoCall]
  /\ wanted = "none" /\ served = FALSE
  /\ worker = [w \in Workers |-> IdleWorker]
  /\ procs = [j \in Jobs |-> None]
  /\ job = [j \in Jobs |-> [state |-> "queued", holder |-> None]]
  /\ faults = 0

-----------------------------------------------------------------------------
(* The orders.                                                             *)

HandFree(h) == call[h].todo = <<>>

\* No call is under way.
BetweenCalls == \A h \in Hands : HandFree(h)

\* A click in the menu; one goroutine serves them all.
Click(h, order) ==
  /\ HandFree(h)
  /\ call' = [call EXCEPT ![h] = [NoCall EXCEPT !.order = order, !.todo = Program(order)]]
  /\ UNCHANGED <<gateVars, askVars, poolVars, faults>>

\* The application asks a trainer by name.
Ask(order) ==
  /\ wanted' = order /\ served' = FALSE
  /\ UNCHANGED <<gateVars, call, poolVars, faults>>

\* A beat has read the ask, and applies it.
BeatReads ==
  /\ HandFree(Beat) /\ wanted # "none"
  /\ call' = [call EXCEPT ![Beat] =
                [NoCall EXCEPT !.order = wanted, !.again = served,
                               !.todo = Program(wanted) \o <<"consume">>]]
  /\ UNCHANGED <<gateVars, askVars, poolVars, faults>>

-----------------------------------------------------------------------------
(* The accesses of a call.                                                 *)

At(h, access) == ~HandFree(h) /\ Head(call[h].todo) = access
Done(h) == call' = [call EXCEPT ![h].todo = Tail(@)]

Flag(h) ==
  /\ \/ At(h, "gate") /\ paused' = TRUE /\ UNCHANGED pauseKill
     \/ At(h, "open") /\ paused' = FALSE /\ UNCHANGED pauseKill
     \/ At(h, "arm") /\ pauseKill' = TRUE /\ UNCHANGED paused
     \/ At(h, "disarm") /\ pauseKill' = FALSE /\ UNCHANGED paused
  /\ Done(h)
  /\ UNCHANGED <<pauseFile, pauseTmp, askVars, poolVars, faults>>

\* rememberPause(true): the temporary file, and nothing more if that fails.
Write(h) ==
  /\ At(h, "write")
  /\ \/ pauseTmp' = TRUE /\ Done(h) /\ UNCHANGED faults
     \/ /\ Fault("ioerror")
        /\ call' = [call EXCEPT ![h].todo = Tail(Tail(@))]
        /\ UNCHANGED pauseTmp
  /\ UNCHANGED <<paused, pauseKill, pauseFile, askVars, poolVars>>

\* ...then the rename, which finds no temporary file if the other hand took it.
RenamePause(h) ==
  /\ At(h, "rename")
  /\ \/ pauseTmp /\ pauseTmp' = FALSE /\ pauseFile' = TRUE /\ UNCHANGED faults
     \/ ~pauseTmp /\ UNCHANGED <<pauseTmp, pauseFile, faults>>
     \/ Fault("ioerror") /\ UNCHANGED <<pauseTmp, pauseFile>>
  /\ Done(h)
  /\ UNCHANGED <<paused, pauseKill, askVars, poolVars>>

\* rememberPause(false).
Forget(h) ==
  /\ At(h, "forget")
  /\ \/ pauseFile' = FALSE /\ UNCHANGED faults
     \/ Fault("ioerror") /\ UNCHANGED pauseFile
  /\ Done(h)
  /\ UNCHANGED <<paused, pauseKill, pauseTmp, askVars, poolVars>>

Snapshot(h) ==
  /\ At(h, "snapshot")
  /\ call' = [call EXCEPT ![h].todo = Tail(@),
                          ![h].prey = {procs[j] : j \in Jobs} \ {None}]
  /\ UNCHANGED <<gateVars, askVars, poolVars, faults>>

\* procEntry.kill, one entry after the other.
KillNext(h) ==
  /\ At(h, "kill")
  /\ \/ \E w \in call[h].prey :
          /\ worker' = [worker EXCEPT ![w].killed = TRUE]
          /\ call' = [call EXCEPT ![h].prey = @ \ {w}]
     \/ call[h].prey = {} /\ Done(h) /\ UNCHANGED worker
  /\ UNCHANGED <<gateVars, askVars, procs, job, faults>>

\* The ask that stands has had its whole effect: only the column is to be cleared.
CarriedOut == served \/ (At(Beat, "consume") /\ wanted = call[Beat].order)

\* ConsumePauseWanted is guarded by the order it carried out.
Consume(h) ==
  /\ At(h, "consume")
  /\ \/ /\ wanted = call[h].order
        /\ wanted' = "none" /\ served' = FALSE /\ UNCHANGED faults
     \/ wanted # call[h].order /\ UNCHANGED <<askVars, faults>>
     \/ /\ Fault("ioerror")
        /\ served' = CarriedOut /\ UNCHANGED wanted
  /\ Done(h)
  /\ UNCHANGED <<gateVars, poolVars>>

Call(h) ==
  \/ Flag(h) \/ Write(h) \/ RenamePause(h) \/ Forget(h)
  \/ Snapshot(h) \/ KillNext(h) \/ Consume(h)

-----------------------------------------------------------------------------
(* The workers.                                                            *)

Moves(w, to) == worker' = [worker EXCEPT ![w].at = to]

\* The gate is read before the claim, and not again.
PassGate(w) ==
  /\ worker[w].at = "idle" /\ ~paused
  /\ Moves(w, "open")
  /\ UNCHANGED <<gateVars, call, askVars, procs, job, faults>>

Claim(w) ==
  /\ worker[w].at = "open"
  /\ \/ \E j \in Jobs :
          /\ job[j].state \in {"queued", "marked"}
          /\ job' = [job EXCEPT ![j] = [state |-> "running", holder |-> w]]
          /\ worker' = [worker EXCEPT ![w] = [@ EXCEPT !.at = "claimed", !.job = j]]
     \/ /\ \A j \in Jobs : job[j].state \notin {"queued", "marked"}
        /\ Moves(w, "idle")
        /\ UNCHANGED job
  /\ UNCHANGED <<gateVars, call, askVars, procs, faults>>

\* The child is spawned and its entry replaces whatever the row had.
Register(w) ==
  /\ worker[w].at = "claimed"
  /\ procs' = [procs EXCEPT ![worker[w].job] = w]
  /\ Moves(w, "registered")
  /\ UNCHANGED <<gateVars, call, askVars, job, faults>>

\* The pause that fired in between is heard of here.
CheckFlag(w) ==
  /\ worker[w].at = "registered"
  /\ worker' = [worker EXCEPT ![w] = [@ EXCEPT !.at = "running",
                                               !.killed = @ \/ pauseKill]]
  /\ UNCHANGED <<gateVars, call, askVars, procs, job, faults>>

\* The child is gone, killed or done: beginReap closes the door on later kills.
Reap(w) ==
  /\ worker[w].at = "running"
  /\ Moves(w, "reaping")
  /\ call' = [h \in Hands |-> [call[h] EXCEPT !.prey = @ \ {w}]]
  /\ UNCHANGED <<gateVars, askVars, procs, job, faults>>

\* runJob has returned.
Vacate(w) == worker' = [worker EXCEPT ![w] = IdleWorker]

\* The row ends, without a child if materialize refused it, or goes back if the pause
\* found nothing to keep; a row that has passed to another claim is not touched, and
\* neither is its entry.
Leave(w) ==
  LET j == worker[w].job IN
  /\ worker[w].at \in {"claimed", "reaping"}
  /\ IF job[j].holder = w /\ job[j].state # "done"
     THEN \E to \in IF worker[w].killed THEN {"queued", "done"} ELSE {"done"} :
            job' = [job EXCEPT ![j] = [state |-> to, holder |-> None]]
     ELSE UNCHANGED job
  /\ procs' = [procs EXCEPT ![j] = IF @ = w THEN None ELSE @]
  /\ Vacate(w)
  /\ UNCHANGED <<gateVars, call, askVars, faults>>

\* Cron takes a run for silent; a run nobody is behind it is.
Mark(j) ==
  /\ job[j].state = "running"
  /\ IF job[j].holder = None THEN UNCHANGED faults ELSE Fault("slow")
  /\ job' = [job EXCEPT ![j].state = "marked"]
  /\ UNCHANGED <<gateVars, call, askVars, worker, procs>>

\* The process ends, in good order or not, and the next one starts: its flag is down,
\* and if the file is there Pause(false) has run before any worker and any hand.
Restarted(gate) ==
  /\ Fault("restart")
  /\ paused' = gate /\ pauseKill' = FALSE
  /\ pauseTmp' = (pauseTmp /\ ~gate)
  /\ call' = [h \in Hands |-> NoCall]
  /\ worker' = [w \in Workers |-> IdleWorker]
  /\ procs' = [j \in Jobs |-> None]
  /\ \E back \in SUBSET Jobs :
       job' = [j \in Jobs |->
                 IF job[j].holder = None THEN job[j]
                 ELSE [state |-> IF j \in back THEN "queued" ELSE job[j].state,
                       holder |-> None]]
  /\ served' = CarriedOut
  /\ UNCHANGED <<pauseFile, wanted>>

\* Mutant: a launch starts with an open gate.
RestartOpen == Restarted(FALSE)

Restart == Restarted(pauseFile)

Worker(w) ==
  \/ PassGate(w) \/ Claim(w) \/ Register(w) \/ CheckFlag(w) \/ Reap(w) \/ Leave(w)

Next ==
  \/ \E order \in Orders : Ask(order) \/ \E h \in Hands \ {Beat} : Click(h, order)
  \/ BeatReads
  \/ \E h \in Hands : Call(h)
  \/ \E w \in Workers : Worker(w)
  \/ \E j \in Jobs : Mark(j)
  \/ Restart

Spec == Init /\ [][Next]_vars

\* A call that was begun goes on, the beat comes round, idle workers poll, and a child
\* ends sooner or later.  Nobody has to ask for anything.
Fairness ==
  /\ \A h \in Hands : WF_vars(Call(h))
  /\ WF_vars(BeatReads)
  /\ \A w \in Workers : WF_vars(Worker(w))
  /\ \A j \in Jobs : WF_vars(Mark(j) /\ job[j].holder = None)

FairSpec == Spec /\ Fairness

-----------------------------------------------------------------------------
(* Properties.                                                             *)

Rows == [state : {"queued", "running", "marked", "done"}, holder : Workers \cup {None}]

\* The flags, the calls, the workers and the rows stay in their domains, and a worker
\* has a row exactly from its claim to its return.
TypeOK ==
  /\ {paused, pauseKill, pauseFile, pauseTmp, served} \subseteq BOOLEAN
  /\ wanted \in Orders \cup {"none"}
  /\ call \in [Hands -> [order : Orders \cup {"none"}, todo : Seq(Accesses),
                         prey : SUBSET Workers, again : BOOLEAN]]
  /\ worker \in [Workers -> [at : Places, job : Jobs \cup {None}, killed : BOOLEAN]]
  /\ \A w \in Workers : worker[w].job = None <=> worker[w].at \in {"idle", "open"}
  /\ procs \in [Jobs -> Workers \cup {None}]
  /\ job \in [Jobs -> Rows]
  /\ faults \in 0..MaxFaults

\* "Pause now" catches every child: whoever is in the claim-to-register window when the
\* entries are looked up finds the flag (worker.go, "one of the two always catches the
\* child").  Once no call is under way, no child runs on under a raised flag.
CaughtNow ==
  BetweenCalls /\ pauseKill =>
    \A w \in Workers : worker[w].at = "running" => worker[w].killed

\* Even of a row that two workers of the pool have claimed, because cron took the first for
\* silent: the child whose entry the row has is caught.
EntryCaught ==
  BetweenCalls /\ pauseKill =>
    \A w \in Workers :
      worker[w].at = "running" /\ procs[worker[w].job] = w => worker[w].killed

\* Resume takes the flag down with the gate: a pool that claims does not kill what it
\* claimed.
ResumeLifts == BetweenCalls /\ pauseKill => paused

\* "rememberPause writes the gate to disk so a restart does not lift it": with the file
\* system answering, a pause that stands is on disk once no call is under way.
Remembered == BetweenCalls /\ paused => pauseFile

\* Between two calls the flags and the file say the same.
GateAgrees == ResumeLifts /\ Remembered

\* A pause that stands is not lifted by a launch, nor by a Resume that was carried out
\* before: only by one that is given now.
LiftedByHand ==
  [][paused /\ ~paused' =>
       \E h \in Hands : ~HandFree(h) /\ ~(call[h].order = "resume" /\ call[h].again)]_vars

\* A queued row is trained, unless the pool is paused.
Drained == \A j \in Jobs : job[j].state = "queued" ~> job[j].state = "done" \/ paused
=============================================================================
