------------------------------ MODULE Estimates ------------------------------
(***************************************************************************)
(* The two figures a queue's length is estimated from: what a running job  *)
(* has still to compute (internal/store/queue.go) and what an epoch costs  *)
(* this worker (AvgSPerEpoch, internal/store/worker.go).  One lane of one  *)
(* worker runs job after job; rows are closed in the order of their ids,   *)
(* several at the same instant if need be.                                 *)
(***************************************************************************)
EXTENDS Integers, FiniteSetsExt

CONSTANTS
  AvgWindow,   \* AvgSPerEpochWindow
  Lengths,     \* the epochs a job may ask for
  Starts,      \* where it may resume: NULL or an epoch
  RunRates,    \* the rates a run may report
  Unknown,     \* NULL
  MaxJobs      \* the jobs looked at

ASSUME EstimatesAssumption ==
  /\ AvgWindow \in Nat \ {0} /\ MaxJobs \in Nat /\ Unknown \notin Nat
  /\ Lengths \subseteq Nat /\ Starts \subseteq Nat \cup {Unknown}
  /\ RunRates \subseteq Nat \ {0}

VARIABLES
  going,        \* the running job
  ended,        \* the terminal rows
  instant       \* now()

estimateVars == <<going, ended, instant>>

Idle == [running |-> FALSE, id |-> 0, epochs |-> 0, start |-> Unknown, epoch |-> Unknown,
         rate |-> Unknown]

EstimateInit == going = Idle /\ ended = {} /\ instant = 0

Known(v, otherwise) == IF v = Unknown THEN otherwise ELSE v

-----------------------------------------------------------------------------

BeginRun ==
  /\ ~going.running /\ Cardinality(ended) < MaxJobs
  /\ \E n \in Lengths : \E from \in Starts :
       going' = [Idle EXCEPT !.running = TRUE, !.id = going.id + 1, !.epochs = n, !.start = from]
  /\ UNCHANGED <<ended, instant>>

\* Epochs keep their numbers across a resume, and the throttle may leave some out.
ReportEpoch ==
  /\ going.running
  /\ \E n \in Known(going.epoch, Known(going.start, 0) - 1) + 1..going.epochs - 1 :
       \E r \in RunRates \cup {going.rate} :
         going' = [going EXCEPT !.epoch = n, !.rate = r]
  /\ UNCHANGED <<ended, instant>>

\* A failed row counts like a succeeded one, which stands for both here.
EndRun ==
  /\ going.running
  /\ instant' \in {instant, instant + 1}
  /\ \E state \in {"succeeded", "cancelled"} :
       ended' = ended \cup {[state |-> state, at |-> instant', id |-> going.id,
                             epoch |-> going.epoch, start |-> going.start, rate |-> going.rate]}
  /\ going' = [Idle EXCEPT !.id = going.id]

EstimateNext == BeginRun \/ ReportEpoch \/ EndRun
EstimateSpec == EstimateInit /\ [][EstimateNext]_estimateVars

-----------------------------------------------------------------------------
(* The queries.                                                            *)

\* remainingEpochs: once an epoch is reported it is absolute.
Remaining(r) ==
  LET done == IF r.epoch # Unknown THEN r.epoch + 1 ELSE Known(r.start, 0) IN
  IF r.epochs > done THEN r.epochs - done ELSE 0

\* AvgSPerEpoch's subquery: the newest rows, each worth at least one epoch.
Worth(r) == Max({1, r.epoch + 1 - Known(r.start, 0)})
Counts(r) == r.state \in {"succeeded", "failed"} /\ r.rate # Unknown /\ r.epoch # Unknown
Counted == {r \in ended : Counts(r)}

\* ORDER BY finished_at DESC, id LIMIT AvgWindow.
Newer(r, s) == r.at > s.at \/ (r.at = s.at /\ r.id < s.id)
Recent == {r \in Counted : Cardinality({s \in Counted : Newer(s, r)}) < AvgWindow}

\* cum - ep: what the rows before it are worth.
Before(r) == SumFunction([s \in {q \in Recent : Newer(q, r)} |-> Worth(s)])

\* Mutant: the row at the edge counts in full.
WeightUnclipped(r) == IF Before(r) < AvgWindow THEN Worth(r) ELSE 0

\* The row that straddles the edge counts for what lies inside.
Weight(r) == IF Before(r) < AvgWindow THEN Min({Worth(r), AvgWindow - Before(r)}) ELSE 0

Weighted == SumFunction([r \in Recent |-> r.rate * Weight(r)])
Weights == SumFunction([r \in Recent |-> Weight(r)])

-----------------------------------------------------------------------------
(* Properties.                                                             *)

\* What a running job has left are its epochs beyond the last one it reported, or beyond
\* the ones it was spared.
RemainingIsLeft ==
  going.running =>
    Remaining(going) =
      Cardinality({n \in Known(going.start, 0)..going.epochs - 1 :
                     n > Known(going.epoch, -1)})

\* The epochs this worker computed, each with the row it is of; which of two is the later
\* one; and the last AvgWindow of them.
Computed == UNION {{r} \X (1..Worth(r)) : r \in Counted}
Later(e, f) == Newer(e[1], f[1]) \/ (e[1] = f[1] /\ e[2] > f[2])
LastComputed == {e \in Computed : Cardinality({f \in Computed : Later(f, e)}) < AvgWindow}

\* The average is the mean over the last AvgWindow epochs, neither more nor fewer, though
\* the query looks at rows, and at no more than AvgWindow of them.
AverageIsOfLastEpochs ==
  /\ Weights = Cardinality(LastComputed)
  /\ Weighted = SumFunction([e \in LastComputed |-> e[1].rate])

\* What the application makes its estimates of is what the rows say.
EstimatesAgree == RemainingIsLeft /\ AverageIsOfLastEpochs
=============================================================================
