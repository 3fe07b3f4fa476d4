------------------------------ MODULE CkptSaver ------------------------------
(***************************************************************************)
(* One run's weights on their way from the trainer's scratch directory to  *)
(* the library: what the trainer writes and rotates, how the saver finds   *)
(* the newest whole pair among names that come and go under it             *)
(* (internal/worker: live.go, ckpt.go), and how the take's best pair is    *)
(* merged (PutCheckpoint).  Attempts says when a write is fenced and what  *)
(* its answer does; here every write is this run's own.                    *)
(*                                                                         *)
(* A pair is a .ckpt and its .nam sibling.  Each is written in place, so   *)
(* a pair is part or whole; a figure is the validation ESR printed for one *)
(* epoch of one attempt.  Epochs count from 0, `reached' from 1.           *)
(***************************************************************************)
EXTENDS Trouble, Sequences, FiniteSets

CONSTANTS
  Epochs,      \* the epochs the job asks for
  Attempts,    \* how many attempts are looked at
  Esrs,        \* the finite figures a validation may give
  Nan,         \* the figure of a run that diverged
  Keep         \* save_top_k of the trainer's best checkpoints

\* Faults here: "kill", the child is killed for a pause, a stall or a shutdown; "crash",
\* the daemon dies and its child with it; "ioerror", a statement fails, or commits and its
\* answer is lost; "ask", the application asks the run to stop.

VARIABLES
  attempt,     \* the attempt under way
  child,       \* where its trainer is
  files,       \* the pairs in its scratch directory
  pipe,        \* figures printed and not yet read
  nudge,       \* ckptSaver.pending, epoch and esr
  saver,       \* the saver's goroutine
  take,        \* the take's row in take_checkpoint
  figures,     \* job_epochs: the figure last recorded for each epoch
  asked,       \* the epoch in which the run was asked to stop
  marred       \* a statement of this attempt failed (history)

diskVars == <<child, files, pipe>>
libraryVars == <<take, figures, asked>>
saverVars == <<attempt, diskVars, nudge, saver, libraryVars, marred, faults>>

Figure == [epoch : 0..Epochs - 1, esr : Esrs \cup {Nan}]
PairName == [kind : {"best", "last"}, epoch : 0..Epochs - 1, esr : Esrs \cup {Nan, None}]
Pair == [reached : 1..Epochs, esr : Esrs \cup {None}]

TakeRow == [reached : 1..Epochs, attempt : 1..Attempts, esr : Figure \cup {None},
            best : Pair \cup {None}]

ASSUME CkptSaverAssumption ==
  /\ Epochs \in Nat \ {0} /\ Attempts \in Nat \ {0} /\ Keep \in Nat \ {0}
  /\ Esrs \subseteq Nat /\ Nan \notin Nat /\ None # Nan
  /\ None \notin Figure \cup PairName \cup Pair \cup TakeRow

Asleep == [at |-> "idle", final |-> FALSE, epoch |-> 0, esr |-> None, pick |-> None,
           cands |-> {}, best |-> None, last |-> None, sent |-> None]
Quiet == [pending |-> FALSE, epoch |-> 0, esr |-> None]
\* The trainer that begins, or has nothing to do, at epoch n.
Started(n) == [at |-> IF n < Epochs THEN "train" ELSE "out", epoch |-> n, base |-> n,
               esr |-> None]

SaverInit ==
  /\ attempt = 1
  /\ child = Started(0)
  /\ files = {} /\ pipe = <<>>
  /\ nudge = Quiet /\ saver = Asleep
  /\ take = None /\ asked = None
  /\ figures = [n \in 0..Epochs - 1 |-> None]
  /\ marred = FALSE /\ faults = 0

-----------------------------------------------------------------------------
(* The trainer.                                                            *)

Now(kind) == [kind |-> kind, epoch |-> child.epoch,
              esr |-> IF kind = "best" THEN child.esr ELSE None]
File(name, whole) == [name |-> name, whole |-> whole]
Names(kind) == {f.name : f \in {g \in files : g.name.kind = kind}}

\* ModelCheckpoint ranks a figure that is not a number last.
Worse(a, b) ==
  \/ a.esr = Nan /\ b.esr # Nan
  \/ a.esr \in Nat /\ b.esr \in Nat /\ a.esr > b.esr

\* A network whose weights are no longer numbers stays that way.
Validations == IF child.esr = Nan THEN {Nan} ELSE Esrs \cup {Nan}

\* An epoch is validated: its figure is printed before anything is written.
Validate ==
  /\ child.at = "train"
  /\ \E v \in Validations :
       /\ child' = [child EXCEPT !.at = "best", !.esr = v]
       /\ pipe' = Append(pipe, [epoch |-> child.epoch, esr |-> v])
  /\ UNCHANGED <<files, attempt, nudge, saver, libraryVars, marred, faults>>

\* save_top_k: a figure must beat one of the best to take its place.
AmongBest ==
  Cardinality(Names("best")) < Keep \/ \E n \in Names("best") : Worse(n, Now("best"))

Writing(kind) == IF kind = "best" THEN "in best" ELSE "in last"

\* ModelCheckpoint writes a pair: first the .ckpt, then the .nam beside it...
Begin(kind) ==
  /\ child.at = kind /\ (kind = "best" => AmongBest)
  /\ files' = files \cup {File(Now(kind), FALSE)}
  /\ child' = [child EXCEPT !.at = Writing(kind)]
  /\ UNCHANGED <<pipe, attempt, nudge, saver, libraryVars, marred, faults>>

\* ...a figure that is not among the best writes no best pair...
SkipBest ==
  /\ child.at = "best" /\ ~AmongBest
  /\ child' = [child EXCEPT !.at = "last"]
  /\ UNCHANGED <<files, pipe, attempt, nudge, saver, libraryVars, marred, faults>>

Complete(kind, next) ==
  /\ child.at = Writing(kind)
  /\ files' = (files \ {File(Now(kind), FALSE)}) \cup {File(Now(kind), TRUE)}
  /\ child' = [child EXCEPT !.at = next]
  /\ UNCHANGED <<pipe, attempt, nudge, saver, libraryVars, marred, faults>>

\* ...and only then removes what the new pair replaces.
DropWorst ==
  /\ child.at = "drop"
  /\ child' = [child EXCEPT !.at = "last"]
  /\ \/ /\ Cardinality(Names("best")) > Keep
        /\ \E f \in files :
             /\ f.name.kind = "best"
             /\ \A n \in Names("best") : ~Worse(n, f.name)
             /\ files' = files \ {f}
     \/ /\ Cardinality(Names("best")) <= Keep
        /\ UNCHANGED files
  /\ UNCHANGED <<pipe, attempt, nudge, saver, libraryVars, marred, faults>>

Rotate ==
  /\ child.at = "rotate"
  /\ files' = {f \in files : f.name.kind = "last" => f.name.epoch = child.epoch}
  /\ child' = [Started(child.epoch + 1) EXCEPT !.base = child.base,
                  !.esr = IF child.esr = Nan THEN Nan ELSE None]
  /\ UNCHANGED <<pipe, attempt, nudge, saver, libraryVars, marred, faults>>

\* A kill freezes the directory as it stands.
Killed == child' = [child EXCEPT !.at = "out"]

KillTrainer ==
  /\ child.at # "out"
  /\ Fault("kill")
  /\ Killed
  /\ UNCHANGED <<files, pipe, attempt, nudge, saver, libraryVars, marred>>

\* Stop and keep, or a cancel, while the trainer trains.
AskToStop ==
  /\ child.at # "out" /\ asked = None
  /\ Fault("ask")
  /\ asked' = child.epoch
  /\ UNCHANGED <<attempt, diskVars, nudge, saver, take, figures, marred>>

TrainerStep ==
  \/ Validate
  \/ \E kind \in {"best", "last"} : Begin(kind)
  \/ SkipBest
  \/ Complete("best", "drop") \/ DropWorst
  \/ Complete("last", "rotate") \/ Rotate

-----------------------------------------------------------------------------
(* The reader of the trainer's output.                                     *)

\* A figure is recorded as the epoch's row, if the library takes it, and the saver is
\* told.
ReadFigure ==
  LET f == Head(pipe) IN
  /\ pipe # <<>> /\ Head(pipe).esr # Nan
  /\ pipe' = Tail(pipe)
  /\ nudge' = [pending |-> TRUE, epoch |-> f.epoch, esr |-> f]
  /\ \/ /\ figures' = [figures EXCEPT ![f.epoch] = f]
        /\ UNCHANGED <<marred, faults>>
     \/ /\ Fault("ioerror") /\ marred' = TRUE
        /\ UNCHANGED figures
  /\ UNCHANGED <<attempt, child, files, saver, take, asked>>

\* parseEpochESR refuses a figure that is not a number, and the line is one like any
\* other.
ReadNan ==
  /\ pipe # <<>> /\ Head(pipe).esr = Nan
  /\ pipe' = Tail(pipe)
  /\ UNCHANGED <<attempt, child, files, nudge, saver, libraryVars, marred, faults>>

ReaderStep == ReadFigure \/ ReadNan

\* The group has closed the pipe and stop() was called.
Stopping == child.at = "out" /\ pipe = <<>>

-----------------------------------------------------------------------------
(* Selection.                                                              *)

\* selectBestCkpt: the lowest finite figure, and the lower epoch of two alike.
SelectBest(names) ==
  LET finite == {n \in names : n.esr # Nan} IN
  {n \in finite : \A m \in finite :
     n.esr < m.esr \/ (n.esr = m.esr /\ n.epoch <= m.epoch)}

\* selectLastCkpt: every candidate, newest first.
NewestOf(names) == {n \in names : \A m \in names : n.epoch >= m.epoch}

\* qualifyPair: the files behind a name, at the moment they are read.
WholePair(name) == File(name, TRUE) \in files

\* A pair is what its name says, whatever has happened to the directory since.  Its
\* figure is its name's, if that is above zero.
ReadPair(name) ==
  [reached |-> name.epoch + 1,
   esr |-> IF name.esr \in Nat /\ name.esr > 0 THEN name.esr ELSE None]

-----------------------------------------------------------------------------
(* The saver.                                                              *)

Look(final) ==
  /\ saver' = [Asleep EXCEPT !.at = "best", !.final = final, !.sent = saver.sent,
                             !.epoch = nudge.epoch, !.esr = nudge.esr,
                             !.pick = IF SelectBest(Names("best")) = {} THEN None
                                      ELSE CHOOSE n \in SelectBest(Names("best")) : TRUE]
  /\ nudge' = [nudge EXCEPT !.pending = FALSE]
  /\ UNCHANGED <<attempt, diskVars, libraryVars, marred, faults>>

\* The select of the saver's loop: a nudge...
LookOnNudge ==
  /\ saver.at = "idle" /\ nudge.pending
  /\ Look(FALSE)

\* Mutant: the loop ends with the run, and nobody looks again.
NoLastLook ==
  /\ saver.at = "idle" /\ Stopping
  /\ saver' = [saver EXCEPT !.at = "done"]
  /\ UNCHANGED <<attempt, diskVars, nudge, libraryVars, marred, faults>>

\* ...or the end of the run, which gets one last look.
LastLook ==
  /\ saver.at = "idle" /\ Stopping
  /\ Look(TRUE)

Rested == [Asleep EXCEPT !.at = IF saver.final THEN "done" ELSE "idle", !.sent = saver.sent]

\* The best name is read, and the last ones are listed.
ReadBest ==
  /\ saver.at = "best"
  /\ saver' = [saver EXCEPT
       !.at = "last",
       !.best = IF saver.pick # None /\ WholePair(saver.pick) THEN ReadPair(saver.pick) ELSE None,
       !.pick = None,
       !.cands = Names("last")]
  /\ UNCHANGED <<attempt, diskVars, nudge, libraryVars, marred, faults>>

\* readPair: newest first, and a torn or vanished pair sends one back.
ReadLast ==
  /\ saver.at = "last"
  /\ \E name \in NewestOf(saver.cands) :
       saver' = IF WholePair(name)
                THEN [saver EXCEPT !.at = "figure", !.cands = {}, !.last = ReadPair(name)]
                ELSE [saver EXCEPT !.cands = @ \ {name}]
  /\ UNCHANGED <<attempt, diskVars, nudge, libraryVars, marred, faults>>

\* No last pair at all: the best one stands in for it, and without that there is
\* nothing to store yet.
FallBack ==
  /\ saver.at = "last" /\ saver.cands = {}
  /\ saver' = IF saver.best = None THEN Rested
              ELSE [saver EXCEPT !.at = "figure", !.last = saver.best]
  /\ UNCHANGED <<attempt, diskVars, nudge, libraryVars, marred, faults>>

\* Mutant: the reader's figure goes with whatever pair was found.
FigureAtHand(n) == saver.esr

\* The reader's figure if it is this very epoch's, else the one job_epochs has.
FigureFor(n) ==
  IF saver.epoch = n /\ saver.esr # None THEN saver.esr ELSE figures[n]

EpochESR ==
  /\ saver.at = "figure"
  /\ LET n == saver.last.reached - 1 IN
     \/ /\ saver' = [saver EXCEPT !.at = "put", !.esr = FigureFor(n)]
        /\ UNCHANGED <<marred, faults>>
     \/ /\ Fault("ioerror") /\ marred' = TRUE
        /\ saver' = [saver EXCEPT !.at = "put", !.esr = None]
  /\ UNCHANGED <<attempt, diskVars, nudge, libraryVars>>

\* The library holds these very bytes: they are not sent again.
Offered == IF saver.best = saver.sent THEN None ELSE saver.best

\* Mutant: the best pair is assigned like the other columns.
MergedByAssignment(kept, offered) == offered

\* Whoever offers a lower figure wins, and nobody's silence takes anything away.
Merged(kept, offered) ==
  IF offered # None /\ offered.esr # None /\ (kept = None \/ kept.esr = None
                                               \/ offered.esr < kept.esr)
  THEN offered ELSE kept

\* PutCheckpoint, by a run that is still the take's.
Stored ==
  [reached |-> saver.last.reached, attempt |-> attempt, esr |-> saver.esr,
   best |-> IF take = None THEN Offered ELSE Merged(take.best, Offered)]

\* Mutant: the bytes count as sent whether or not they arrived.
SentAnyway(arrived) == IF saver.best = None THEN saver.sent ELSE saver.best

Sent(arrived) == IF arrived /\ saver.best # None THEN saver.best ELSE saver.sent

\* The answer is where an ask is heard, and the child is killed for it.
PutCheckpoint ==
  /\ saver.at = "put"
  /\ \/ /\ take' = Stored
        /\ saver' = [Rested EXCEPT !.sent = Sent(TRUE)]
        /\ IF asked = None THEN UNCHANGED child ELSE Killed
        /\ UNCHANGED <<marred, faults>>
     \/ /\ Fault("ioerror") /\ marred' = TRUE
        /\ saver' = [Rested EXCEPT !.sent = Sent(FALSE)]
        /\ take' \in {take, Stored}
        /\ UNCHANGED child
  /\ UNCHANGED <<attempt, files, pipe, nudge, figures, asked>>

SaverStep ==
  \/ LookOnNudge \/ LastLook
  \/ ReadBest \/ ReadLast \/ FallBack \/ EpochESR \/ PutCheckpoint

-----------------------------------------------------------------------------
(* One attempt after the other.                                            *)

\* Mutant: the next attempt finds the directory of the one before.
FreshDirAmong(old) == old

\* The scratch directory is a new one.
FreshDir(old) == {}

NewAttempt ==
  /\ attempt < Attempts
  /\ attempt' = attempt + 1
  /\ child' = Started(IF take = None THEN 0 ELSE take.reached)
  /\ files' = FreshDir(files)
  /\ pipe' = <<>> /\ nudge' = Quiet /\ saver' = Asleep
  /\ marred' = FALSE /\ asked' = None
  /\ UNCHANGED <<take, figures>>

\* The row goes back to the queue once the saver is done, and is claimed again.
Handover ==
  /\ saver.at = "done"
  /\ NewAttempt
  /\ UNCHANGED faults

\* The daemon dies with its child; nobody looks again.
DieWithTrainer ==
  /\ saver.at # "done"
  /\ Fault("crash")
  /\ NewAttempt

SaverNext == TrainerStep \/ KillTrainer \/ AskToStop \/ ReaderStep \/ SaverStep \/ Handover \/ DieWithTrainer

SaverSpec == SaverInit /\ [][SaverNext]_saverVars

-----------------------------------------------------------------------------
(* Properties.                                                             *)

SaverTypeOK ==
  /\ attempt \in 1..Attempts
  /\ child \in [at : {"train", "best", "in best", "drop", "last", "in last", "rotate", "out"},
                epoch : 0..Epochs, base : 0..Epochs, esr : Esrs \cup {Nan, None}]
  /\ files \subseteq [name : PairName, whole : BOOLEAN]
  /\ pipe \in Seq(Figure)
  /\ nudge \in [pending : BOOLEAN, epoch : 0..Epochs - 1, esr : Figure \cup {None}]
  /\ saver \in [at : {"idle", "best", "last", "figure", "put", "done"}, final : BOOLEAN,
                epoch : 0..Epochs - 1, esr : Figure \cup {None}, pick : PairName \cup {None},
                cands : SUBSET PairName, best : Pair \cup {None}, last : Pair \cup {None},
                sent : Pair \cup {None}]
  /\ take \in TakeRow \cup {None}
  /\ figures \in [0..Epochs - 1 -> Figure \cup {None}]
  /\ asked \in {None} \cup 0..Epochs - 1
  /\ marred \in BOOLEAN /\ faults \in 0..MaxFaults

\* "attaching one epoch's figure to another's weights would be a lie" (ckpt.go): the
\* figure on the take is of the epoch its weights are of.
FigureOfEpoch == take # None /\ take.esr # None => take.esr.epoch = take.reached - 1

\* What the saver keeps quiet about, the library has, or has better.
SentIsKept ==
  saver.sent # None /\ saver.sent.esr # None =>
    /\ take # None /\ take.best # None /\ take.best.esr # None
    /\ take.best.esr <= saver.sent.esr

\* "This last look is where it catches up": once the saver of a run without trouble is
\* done, the take holds the newest pair the run left whole.
CaughtUp ==
  saver.at = "done" /\ ~marred =>
    \A f \in files :
      f.whole /\ f.name.kind = "last" =>
        /\ take # None
        /\ take.attempt = attempt
        /\ take.reached >= f.name.epoch + 1

\* A run never leaves the take behind where it found it: what is stored may step back
\* while a checkpoint is rotated, but not below what the attempt resumed from.
GroundHolds == child.base > 0 => take # None /\ take.reached >= child.base

\* "nobody's silence takes anything away": the best figure of a take only improves.
BestStands ==
  [][take # None /\ take.best # None /\ take.best.esr # None =>
       /\ take' # None /\ take'.best # None /\ take'.best.esr # None
       /\ take'.best.esr <= take.best.esr]_saverVars

\* "a cancel now arrives at the end of the epoch in progress" (checkpoint.go): with the
\* output read, the library answering and the saver at rest, a run that was asked to
\* stop is not two epochs further on.
Heard ==
  asked # None /\ child.at # "out" /\ pipe = <<>> /\ saver.at = "idle"
    /\ ~nudge.pending /\ ~marred => child.epoch <= asked + 1

-----------------------------------------------------------------------------
(* The abstract specification.                                             *)

\* An epoch counts once a pair of it is whole.
Completed ==
  IF \E f \in files : f.whole /\ f.name.epoch = child.epoch
  THEN child.epoch + 1 ELSE child.epoch

Run == INSTANCE Keeping WITH
  base <- child.base,
  done <- Completed,
  held <- IF take = None THEN 0 ELSE take.reached

\* Whatever the trainer rotates away under the saver, and whatever is killed or lost on
\* the way, the library takes only epochs this attempt completed after its base, and the
\* next attempt starts from what the library has.
SaverKeeping == Run!Spec
=============================================================================
