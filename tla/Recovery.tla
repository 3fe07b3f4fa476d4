------------------------------ MODULE Recovery ------------------------------
(***************************************************************************)
(* Children over a crash: the daemon spawns each as a process group of its *)
(* own, the library remembers the group's number, and the next start kills *)
(* what the last life left before it claims anything.  internal/worker,    *)
(* Spawn (runner.go) and recover (recover.go); OrphanedChildrenOf.  A      *)
(* process number is handed out again when its process is gone.            *)
(***************************************************************************)
EXTENDS Trouble, FiniteSets

CONSTANTS
  Pids,        \* process numbers
  Slots,       \* the rows this daemon may hold
  MaxLives     \* how often it starts

ASSUME RecoveryAssumption ==
  None \notin Pids /\ MaxLives \in Nat

\* Faults here: "crash".

VARIABLES
  process,     \* what has each number
  slots,       \* this worker's running rows: the child and whether its number is recorded
  elsewhere,   \* the numbers recorded in the running rows of other workers
  self,        \* this daemon: where it is in its start, and the list it works off
  killedOther  \* recovery killed a process that was not this daemon's (history)

recoveryVars == <<process, slots, elsewhere, self, killedOther, faults>>

\* whose: this daemon's, another daemon's on the same machine, or anybody's; trainer:
\* the driver is in its argv.  A daemon's scratch root is in the argv of its trainers.
Free == [whose |-> "nobody", trainer |-> FALSE, life |-> 0]
TrainerOf(whose, life) == [whose |-> whose, trainer |-> TRUE, life |-> life]
Stranger == [whose |-> "stranger", trainer |-> FALSE, life |-> 0]

RecoveryInit ==
  /\ process = [p \in Pids |-> Free]
  /\ slots = [s \in Slots |-> None]
  /\ elsewhere = {}
  /\ self = [at |-> "work", life |-> 1, list |-> {}, checked |-> None]
  /\ killedOther = FALSE /\ faults = 0

-----------------------------------------------------------------------------
(* Life.                                                                   *)

\* A claim and a Spawn: the child is there before its number is recorded.
Spawn(s, p) ==
  /\ self.at = "work" /\ slots[s] = None /\ process[p] = Free
  /\ process' = [process EXCEPT ![p] = TrainerOf("self", self.life)]
  /\ slots' = [slots EXCEPT ![s] = [pid |-> p, life |-> self.life, recorded |-> FALSE]]
  /\ UNCHANGED <<elsewhere, self, killedOther, faults>>

Held(s) == self.at = "work" /\ slots[s] # None /\ slots[s].life = self.life

Record(s) ==
  /\ Held(s) /\ ~slots[s].recorded
  /\ slots' = [slots EXCEPT ![s].recorded = TRUE]
  /\ UNCHANGED <<process, elsewhere, self, killedOther, faults>>

\* A child exits, is reaped, and its row is closed or requeued, the number with it.
Finish(s) ==
  /\ Held(s)
  /\ process' = [process EXCEPT ![slots[s].pid] = Free]
  /\ slots' = [slots EXCEPT ![s] = None]
  /\ UNCHANGED <<elsewhere, self, killedOther, faults>>

\* Cron marks a row that a life before left, and whoever claims it records anew.
Taken(s) ==
  /\ slots[s] # None /\ slots[s].life < self.life
  /\ slots' = [slots EXCEPT ![s] = None]
  /\ UNCHANGED <<process, elsewhere, self, killedOther, faults>>

\* The daemon dies, its children do not.  A claim may have been in flight.
DaemonDies ==
  /\ Fault("crash") /\ self.life < MaxLives
  /\ self' = [at |-> "list", life |-> self.life + 1, list |-> {}, checked |-> None]
  /\ UNCHANGED <<process, slots, elsewhere, killedOther>>

\* Processes nobody here waits for: a left child ends by itself, others come and go.
\* Numbers are handed out in turn, so one that was just looked up is not handed out
\* before the kill that follows, nor is one that is still on record handed to the trainer
\* of another daemon.
ProcessEnds(p) ==
  /\ process[p].whose # "nobody"
  /\ process[p].whose = "self" => process[p].life < self.life
  /\ process' = [process EXCEPT ![p] = Free]
  /\ elsewhere' = elsewhere \ {p}
  /\ UNCHANGED <<slots, self, killedOther, faults>>

ProcessBegins(p) ==
  /\ process[p] = Free /\ self.checked # p
  /\ \/ /\ process' = [process EXCEPT ![p] = Stranger]
        /\ UNCHANGED elsewhere
     \/ /\ p \notin self.list \cup {slots[s].pid : s \in {r \in Slots : slots[r] # None}}
        /\ process' = [process EXCEPT ![p] = TrainerOf("other", 1)]
        /\ elsewhere' = elsewhere \cup {p}
  /\ UNCHANGED <<slots, self, killedOther, faults>>

-----------------------------------------------------------------------------
(* The start.                                                              *)

\* OrphanedChildrenOf: this worker's running rows that have a number.
OwnChildren ==
  {slots[s].pid : s \in {r \in Slots : slots[r] # None /\ slots[r].recorded}}

List ==
  /\ self.at = "list"
  /\ self' = [self EXCEPT !.at = "guard", !.list = OwnChildren]
  /\ UNCHANGED <<process, slots, elsewhere, killedOther, faults>>

\* ps: a group leader by that number, with the driver in its argv.
LooksOurs(p) == process[p].trainer

Guard(p) ==
  /\ self.at = "guard" /\ self.checked = None /\ p \in self.list
  /\ self' = [self EXCEPT !.list = @ \ {p}, !.checked = IF LooksOurs(p) THEN p ELSE None]
  /\ UNCHANGED <<process, slots, elsewhere, killedOther, faults>>

KillChecked ==
  /\ self.at = "guard" /\ self.checked # None
  /\ killedOther' = (killedOther \/ process[self.checked].whose \in {"other", "stranger"})
  /\ process' = [process EXCEPT ![self.checked] = Free]
  /\ elsewhere' = elsewhere \ {self.checked}
  /\ self' = [self EXCEPT !.checked = None]
  /\ UNCHANGED <<slots, faults>>

\* Mutant: only what the library remembers is killed.
NoSweep ==
  /\ self.at = "guard" /\ self.list = {} /\ self.checked = None
  /\ self' = [self EXCEPT !.at = "work"]
  /\ UNCHANGED <<process, slots, elsewhere, killedOther, faults>>

\* pkill by the scratch root, which only this daemon's trainers have in their argv; the
\* scratch is wiped and the workers are started.
Sweep ==
  /\ self.at = "guard" /\ self.list = {} /\ self.checked = None
  /\ process' = [p \in Pids |-> IF process[p].whose = "self" THEN Free ELSE process[p]]
  /\ self' = [self EXCEPT !.at = "work"]
  /\ UNCHANGED <<slots, elsewhere, killedOther, faults>>

RecoveryNext ==
  \/ \E s \in Slots : (\E p \in Pids : Spawn(s, p)) \/ Record(s) \/ Finish(s) \/ Taken(s)
  \/ DaemonDies
  \/ \E p \in Pids : ProcessEnds(p) \/ ProcessBegins(p) \/ Guard(p)
  \/ List \/ KillChecked \/ Sweep

RecoverySpec == RecoveryInit /\ [][RecoveryNext]_recoveryVars

-----------------------------------------------------------------------------
(* Properties.                                                             *)

\* "Recovery fully completes BEFORE any worker can claim a job": while a daemon works,
\* no child of a life before holds the card, recorded or not.
NoStrays ==
  self.at = "work" => \A p \in Pids : process[p].whose = "self" => process[p].life = self.life

\* "recycled, leave it alone": the sweep kills nobody else, as long as no other trainer
\* of this machine has got the number.
OnlyOwn == ~killedOther

\* A start kills all that a life before left, and nothing else.
KillsItsOwn == NoStrays /\ OnlyOwn
=============================================================================
