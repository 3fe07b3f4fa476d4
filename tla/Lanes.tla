-------------------------------- MODULE Lanes --------------------------------
(***************************************************************************)
(* The workers of one pool: a train lane whose width changes while it      *)
(* runs, a probe lane of one, and the counts they publish, which keep the  *)
(* machine awake.  internal/worker, Start, workerLoop, claim, SetCap and   *)
(* publishStats; CountByState; OnCounts in cmd/namtrainerd; awake.Keeper,  *)
(* enabled.  What an attempt does is Attempts' affair, how a pause is      *)
(* taken is PauseGate's: here a run is a run and the gate a flag.  What is *)
(* counted are rows, not children: a row may run on under this name after  *)
(* its worker is gone, and a child train on after its row is.              *)
(***************************************************************************)
EXTENDS Trouble, FiniteSets

CONSTANTS
  Width,       \* the workers spawned for the train lane (CapLimit)
  Hands,       \* the goroutines that give orders: the menu's, the heartbeat's
  Start,       \* the goroutine that starts the pool
  MaxQueued,   \* the claimable rows looked at, of each lane
  MaxLeft      \* the rows looked at that run under this name with no worker, of each lane

Lane == {"train", "probe"}
Workers == {[lane |-> "train", idx |-> i] : i \in 0..Width - 1}
             \cup {[lane |-> "probe", idx |-> 0]}

ASSUME LanesAssumption ==
  /\ Width \in Nat \ {0} /\ MaxQueued \in Nat /\ MaxLeft \in Nat
  /\ Start \notin Hands /\ Workers \cap (Hands \cup {Start}) = {}

\* Faults here: "count", the counting fails; "handle", the assertion cannot be taken;
\* "write", a terminal write fails.

VARIABLES
  cap,         \* Pool.trainCap
  shut,        \* Pool.paused
  worker,      \* where each worker is: idle, gated, claimed, running, displaced, closed
  hand,        \* what each caller is at: rest, or about to publish
  waiting,     \* the claimable rows of each lane
  left,        \* the running rows under this name, of each lane, with no worker
  counting,    \* what each publisher counted; one at a time is inside countsMu
  held,        \* Keeper.release # nil
  unpublished, \* the last publish could not count, or not hold (history)
  overLeft     \* the last count had rows with no worker in it (history)

lanesVars ==
  <<cap, shut, worker, hand, waiting, left, counting, held, unpublished, overLeft, faults>>

Callers == Hands \cup {Start}
Publishers == Workers \cup Callers

LanesInit ==
  /\ cap \in 1..Width
  /\ shut \in BOOLEAN            \* a pause that was remembered
  /\ worker = [w \in Workers |-> "idle"]
  /\ hand = [h \in Callers |-> IF h = Start THEN "publish" ELSE "rest"]
  /\ waiting \in [Lane -> 0..MaxQueued]
  /\ left \in [Lane -> 0..MaxLeft]     \* of a life that crashed: recover leaves the rows
  /\ counting = [p \in Publishers |-> None]
  /\ held = FALSE /\ unpublished = FALSE /\ overLeft = FALSE /\ faults = 0

\* CountByState: the rows that are running under this worker's name, whoever runs them,
\* and the claimable ones.
Runs == {w \in Workers : worker[w] \in {"claimed", "running"}}
Left == left["train"] + left["probe"]
Mine == Cardinality(Runs) + Left
Claimable == waiting["train"] + waiting["probe"]

-----------------------------------------------------------------------------
(* Publishing, one at a time.                                              *)

Publishes(who) ==
  IF who \in Workers THEN worker[who] \in {"claimed", "closed"} ELSE hand[who] = "publish"

Counted == [running |-> Mine, queued |-> Claimable, over |-> Left > 0]

\* Mutant: the counts are read before the lock is taken.
CountUnlocked(who) ==
  /\ Publishes(who) /\ counting[who] = None
  /\ counting' = [counting EXCEPT ![who] = Counted]
  /\ UNCHANGED <<cap, shut, worker, hand, waiting, left, held, unpublished, overLeft, faults>>

\* publishStats: countsMu, and CountByState under it.
Count(who) ==
  /\ Publishes(who) /\ \A p \in Publishers : counting[p] = None
  /\ counting' = [counting EXCEPT ![who] = Counted]
  /\ UNCHANGED <<cap, shut, worker, hand, waiting, left, held, unpublished, overLeft, faults>>

\* OnCounts: hold while anything runs, or while claimable work waits for an open gate.
Holds(running, queued) == running > 0 \/ (queued > 0 /\ ~shut)

Published(who) ==
  /\ counting' = [counting EXCEPT ![who] = None]
  /\ IF who \in Workers
     THEN worker' = [worker EXCEPT ![who] = IF @ = "claimed" THEN "running" ELSE "idle"]
          /\ UNCHANGED hand
     ELSE hand' = [hand EXCEPT ![who] = "rest"] /\ UNCHANGED worker

\* The counts go to the keeper.  The last ones stay when counting failed, and nothing is
\* held when the assertion cannot be taken.
Publish(who) ==
  LET c == counting[who]
      pending == Holds(c.running, c.queued) IN
  /\ c # None
  /\ Published(who)
  /\ \/ /\ held' = pending /\ overLeft' = c.over
        /\ unpublished' = FALSE
        /\ UNCHANGED faults
     \/ /\ Fault("count") \/ (Fault("handle") /\ pending /\ ~held)
        /\ unpublished' = TRUE
        /\ UNCHANGED <<held, overLeft>>
  /\ UNCHANGED <<cap, shut, waiting, left>>

-----------------------------------------------------------------------------
(* The workers.                                                            *)

\* Mutant: one worker too many.
WideGate(w) == w.lane = "probe" \/ w.idx <= cap

\* The gate of a worker: the live width of its lane.
Gate(w) == w.lane = "probe" \/ w.idx < cap

\* Start has published before it lets the workers go.
PassGate(w) ==
  /\ worker[w] = "idle" /\ hand[Start] = "rest" /\ ~shut /\ Gate(w)
  /\ worker' = [worker EXCEPT ![w] = "gated"]
  /\ UNCHANGED <<cap, shut, hand, waiting, left, counting, held, unpublished, overLeft, faults>>

\* A row of this name with no worker is claimable once cron has marked it.
Claim(w) ==
  /\ worker[w] = "gated"
  /\ \/ /\ waiting[w.lane] > 0
        /\ waiting' = [waiting EXCEPT ![w.lane] = @ - 1]
        /\ worker' = [worker EXCEPT ![w] = "claimed"]
        /\ UNCHANGED left
     \/ /\ left[w.lane] > 0
        /\ left' = [left EXCEPT ![w.lane] = @ - 1]
        /\ worker' = [worker EXCEPT ![w] = "claimed"]
        /\ UNCHANGED waiting
     \/ /\ waiting[w.lane] = 0
        /\ worker' = [worker EXCEPT ![w] = "idle"]
        /\ UNCHANGED <<waiting, left>>
  /\ UNCHANGED <<cap, shut, hand, counting, held, unpublished, overLeft, faults>>

\* A run whose row was taken by another trainer, or cancelled as stale, trains on until it
\* looks at its row again.
Displace(w) ==
  /\ worker[w] = "running"
  /\ worker' = [worker EXCEPT ![w] = "displaced"]
  /\ UNCHANGED <<cap, shut, hand, waiting, left, counting, held, unpublished, overLeft, faults>>

\* The run is over.  Its row is closed or back in the queue, unless the write that says so
\* fails: then it runs on under this name.  A displaced run has no row to close.
Close(w) ==
  /\ worker[w] \in {"running", "displaced"}
  /\ worker' = [worker EXCEPT ![w] = "closed"]
  /\ \/ UNCHANGED <<waiting, left, faults>>
     \/ /\ worker[w] = "running" /\ waiting[w.lane] < MaxQueued
        /\ waiting' = [waiting EXCEPT ![w.lane] = @ + 1]
        /\ UNCHANGED <<left, faults>>
     \/ /\ worker[w] = "running" /\ Fault("write")
        /\ left' = [left EXCEPT ![w.lane] = @ + 1]
        /\ UNCHANGED waiting
  /\ UNCHANGED <<cap, shut, hand, counting, held, unpublished, overLeft>>

-----------------------------------------------------------------------------
(* Orders, and the rest of the library.                                    *)

PauseLanes(h) ==
  /\ hand[h] = "rest" /\ ~shut /\ shut' = TRUE
  /\ hand' = [hand EXCEPT ![h] = "publish"]
  /\ UNCHANGED <<cap, worker, waiting, left, counting, held, unpublished, overLeft, faults>>

ResumeLanes(h) ==
  /\ hand[h] = "rest" /\ shut /\ shut' = FALSE
  /\ hand' = [hand EXCEPT ![h] = "publish"]
  /\ UNCHANGED <<cap, worker, waiting, left, counting, held, unpublished, overLeft, faults>>

\* Clamped to what was spawned; nothing is killed.
SetCap(h) ==
  /\ hand[h] = "rest"
  /\ \E n \in 0..Width + 1 :
       /\ cap' = IF n < 1 THEN 1 ELSE IF n > Width THEN Width ELSE n
       /\ cap' # cap
  /\ hand' = [hand EXCEPT ![h] = "publish"]
  /\ UNCHANGED <<shut, worker, waiting, left, counting, held, unpublished, overLeft, faults>>

\* Notify of itself: the runtime is up.
Nudge(h) ==
  /\ hand[h] = "rest"
  /\ hand' = [hand EXCEPT ![h] = "publish"]
  /\ UNCHANGED <<cap, shut, worker, waiting, left, counting, held, unpublished, overLeft, faults>>

\* Another trainer pops a marked row, or the application closes it.
LeftMoves(lane) ==
  /\ left[lane] > 0
  /\ left' = [left EXCEPT ![lane] = @ - 1]
  /\ UNCHANGED <<cap, shut, worker, hand, waiting, counting, held, unpublished, overLeft, faults>>

\* The application queues, and the other trainers pop.
QueueMoves(lane) ==
  /\ \/ waiting[lane] < MaxQueued /\ waiting' = [waiting EXCEPT ![lane] = @ + 1]
     \/ waiting[lane] > 0 /\ waiting' = [waiting EXCEPT ![lane] = @ - 1]
  /\ UNCHANGED <<cap, shut, worker, hand, left, counting, held, unpublished, overLeft, faults>>

WorkerMoves(w) == PassGate(w) \/ Claim(w) \/ Count(w) \/ Publish(w)
HandPublishes(h) == Count(h) \/ Publish(h)

Orders(h) == PauseLanes(h) \/ ResumeLanes(h) \/ SetCap(h) \/ Nudge(h)

LanesNext ==
  \/ \E w \in Workers : WorkerMoves(w) \/ Displace(w) \/ Close(w)
  \/ \E h \in Hands : Orders(h)
  \/ \E h \in Callers : HandPublishes(h)
  \/ \E l \in Lane : QueueMoves(l) \/ LeftMoves(l)

LanesSpec == LanesInit /\ [][LanesNext]_lanesVars

-----------------------------------------------------------------------------
(* Properties.                                                             *)

\* While a child trains a row of this worker the machine is held awake, whoever publishes
\* what he counted meanwhile, unless the last publish could not count or not hold.
KeptAwake == (\E w \in Workers : worker[w] = "running") /\ ~unpublished => held

\* "a pause means the machine is the musician's again, sleep included": with nothing
\* running and nobody about to publish, a paused pool holds nothing, unless the last count
\* found rows under its name that none of its workers runs.
PausedSleeps ==
  /\ shut /\ ~unpublished /\ ~overLeft /\ counting = [p \in Publishers |-> None]
  /\ \A w \in Workers : worker[w] = "idle"
  /\ \A h \in Callers : hand[h] = "rest"
  => ~held

\* The machine is held awake by what the pool does, neither less nor longer.
AwakeFollows == KeptAwake /\ PausedSleeps

\* A cap "takes effect as running jobs finish": when it is left alone, no worker above
\* it trains in the end.
CapTakesEffect ==
  \A n \in 1..Width - 1 :
    <>[](cap = n) => <>[](\A w \in Workers : w.lane = "train" /\ w.idx >= n => worker[w] = "idle")
=============================================================================
