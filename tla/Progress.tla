------------------------------ MODULE Progress ------------------------------
(***************************************************************************)
(* What a training's output becomes in the library while it runs: the      *)
(* live epoch with its rate (jobs.epoch, s_per_epoch, esr), at most one a  *)
(* second, and a row per finished epoch with what it cost (job_epochs).    *)
(* internal/worker, supervise and epochTracker; internal/store, the        *)
(* statements.  The trainer prints "Epoch n" any number of times while it  *)
(* works on epoch n, and the driver prints n's figure when it is done.     *)
(*                                                                         *)
(* Time is counted in bursts of 50 ms.  An average is kept in hundredths   *)
(* of one, rounded down.                                                   *)
(***************************************************************************)
EXTENDS Trouble, FiniteSetsExt

CONSTANTS
  RunEpochs,   \* the epochs the job asks for
  Gaps,        \* the times that may pass between two lines
  Second,      \* the throttle
  MaxClock     \* how long is looked at

Burst == 1
Unit == 100

ASSUME ProgressAssumption ==
  /\ RunEpochs \in Nat \ {0} /\ Gaps \subseteq Nat /\ Second \in Nat /\ MaxClock \in Nat

\* Faults here: "missed", a statement fails and nobody tries it again.

VARIABLES
  clock,
  printed,     \* the trainer: the epoch it is at, whether its figure is out, whether it ended
  tracker,     \* epochTracker
  wrote,       \* supervise: lastWrite, lastEpochAt and the newest figure read
  runRow,      \* jobs: epoch, s_per_epoch, and which epoch the figure in esr is of
  epochRows,   \* job_epochs: the seconds of each recorded epoch
  arrived,     \* when each epoch of this attempt was first seen (history)
  missed       \* a statement of this attempt failed (history)

progressVars ==
  <<clock, printed, tracker, wrote, runRow, epochRows, arrived, missed, faults>>

Unseen == [have |-> FALSE, last |-> 0, at |-> 0, rate |-> 0]
Unsaid == [at |-> None, epochAt |-> None, figure |-> None]
\* A function with its value at x new or changed.
With(f, x, value) == [k \in DOMAIN f \cup {x} |-> IF k = x THEN value ELSE f[k]]

RunsFrom(n) == [epoch |-> n, started |-> FALSE, out |-> FALSE, over |-> FALSE]

ProgressInit ==
  /\ clock = 0 /\ printed = RunsFrom(0)
  /\ tracker = Unseen /\ wrote = Unsaid
  /\ runRow = [epoch |-> None, rate |-> None, figure |-> None]
  /\ epochRows = <<>> /\ arrived = <<>>
  /\ missed = FALSE /\ faults = 0

Pass ==
  /\ ~printed.over
  /\ \E d \in Gaps : clock + d <= MaxClock /\ clock' = clock + d

\* A statement that fails is not tried again.
Stated(variable, value) ==
  \/ variable' = value /\ UNCHANGED <<missed, faults>>
  \/ Fault("missed") /\ missed' = TRUE /\ UNCHANGED variable

-----------------------------------------------------------------------------
(* epochTracker.observe.                                                   *)

\* Mutant: a burst does not move the baseline.
SinceAnyGap(t, ep) ==
  LET d == (Unit * (clock' - t.at)) \div (ep - t.last) IN
  IF d <= Unit * Burst THEN [t EXCEPT !.last = ep]
  ELSE [t EXCEPT !.last = ep, !.at = clock',
                 !.rate = IF @ = 0 THEN d ELSE (7 * @ + 3 * d) \div 10]

\* The cost of an epoch since the one before, unless both came in one burst.
Since(t, ep) ==
  LET d == (Unit * (clock' - t.at)) \div (ep - t.last) IN
  [t EXCEPT !.last = ep, !.at = clock',
            !.rate = IF d <= Unit * Burst THEN @
                     ELSE IF @ = 0 THEN d ELSE (7 * @ + 3 * d) \div 10]

\* The first epoch line is the baseline; only an advance counts.
Observed(t, ep) ==
  IF ~t.have THEN [have |-> TRUE, last |-> ep, at |-> clock', rate |-> 0]
  ELSE IF ep <= t.last THEN t
  ELSE Since(t, ep)

Rate(t) == IF t.rate > 0 THEN t.rate ELSE None

\* UpdateProgress: a figure that is not there leaves the one that is.
Told(t) == [epoch |-> t.last, rate |-> Rate(t),
            figure |-> IF wrote.figure = None THEN runRow.figure ELSE wrote.figure]

-----------------------------------------------------------------------------
(* Lines.                                                                  *)

\* At most one write a second.
Throttled(t) == wrote.at # None /\ clock' - wrote.at < Second

\* An "Epoch n" line: of the epoch the trainer has just begun, or once more.
EpochLine ==
  LET seen == Observed(tracker, printed.epoch) IN
  /\ Pass
  /\ printed.epoch < RunEpochs
  /\ printed' = [printed EXCEPT !.started = TRUE]
  /\ tracker' = seen
  /\ arrived' = IF printed.epoch \in DOMAIN arrived THEN arrived
                ELSE With(arrived, printed.epoch, clock')
  /\ IF seen # tracker /\ ~Throttled(seen)
     THEN /\ wrote' = [wrote EXCEPT !.at = clock']
          /\ Stated(runRow, Told(seen))
     ELSE UNCHANGED <<wrote, runRow, missed, faults>>
  /\ UNCHANGED epochRows

Positive(d) == IF d > 0 THEN d ELSE None

\* What THIS epoch took: the gap since the previous figure, of this attempt.
Cost == IF wrote.epochAt = None THEN None ELSE Positive(clock' - wrote.epochAt)

\* "DRIVER: epoch_esr=n=v": the row of the epoch, written anew by a later attempt.
FigureLine ==
  /\ Pass
  /\ printed.started /\ ~printed.out
  /\ printed' = [printed EXCEPT !.out = TRUE]
  /\ wrote' = [wrote EXCEPT !.epochAt = clock', !.figure = printed.epoch]
  /\ Stated(epochRows, With(epochRows, printed.epoch, Cost))
  /\ UNCHANGED <<tracker, runRow, arrived>>

\* A figure that is not a number: the line is one like any other.
NanLine ==
  /\ Pass
  /\ printed.started /\ ~printed.out
  /\ printed' = [printed EXCEPT !.out = TRUE]
  /\ UNCHANGED <<tracker, wrote, runRow, epochRows, arrived, missed, faults>>

NextEpoch ==
  /\ printed.out /\ ~printed.over /\ printed.epoch + 1 < RunEpochs
  /\ printed' = RunsFrom(printed.epoch + 1)
  /\ UNCHANGED <<clock, tracker, wrote, runRow, epochRows, arrived, missed, faults>>

\* The output has ended, wherever the trainer was: the last epoch is written whatever
\* the throttle says.
Flush ==
  /\ ~printed.over
  /\ printed' = [printed EXCEPT !.over = TRUE]
  /\ IF tracker.have THEN Stated(runRow, Told(tracker)) ELSE UNCHANGED <<runRow, missed, faults>>
  /\ UNCHANGED <<clock, tracker, wrote, epochRows, arrived>>

\* The row is requeued and claimed again, and the run resumes from an epoch the take has
\* (its rows among job_epochs say which).
NewRun ==
  /\ printed.over
  /\ \E n \in {0} \cup {e + 1 : e \in DOMAIN epochRows} :
       n < RunEpochs /\ printed' = RunsFrom(n)
  /\ tracker' = Unseen /\ wrote' = Unsaid
  /\ runRow' = [runRow EXCEPT !.epoch = None, !.rate = None]
  /\ arrived' = <<>> /\ missed' = FALSE
  /\ UNCHANGED <<clock, epochRows, faults>>

ProgressNext == EpochLine \/ FigureLine \/ NanLine \/ NextEpoch \/ Flush \/ NewRun
ProgressSpec == ProgressInit /\ [][ProgressNext]_progressVars

-----------------------------------------------------------------------------
(* Properties.                                                             *)

\* "so the last epoch isn't lost to the 1/s throttle": the row a run leaves says the last
\* epoch that was seen, and the last figure.
LastIsTold ==
  printed.over /\ tracker.have /\ ~missed =>
    /\ runRow.epoch = Max(DOMAIN arrived)
    /\ wrote.figure # None => runRow.figure = wrote.figure

\* The cost of every epoch of this attempt that was seen after another one.
Costs ==
  {(Unit * (arrived[p[1]] - arrived[p[2]])) \div (p[1] - p[2]) :
     p \in {q \in (DOMAIN arrived) \X (DOMAIN arrived) :
            q[2] < q[1] /\ \A k \in DOMAIN arrived : ~(q[2] < k /\ k < q[1])}}

\* The rate lies among the costs it is an average of: the silent import before the first
\* line, a burst and a repeated line have no part in it.
RateIsAmongCosts ==
  tracker.rate > 0 => Min(Costs) <= tracker.rate /\ tracker.rate <= Max(Costs)

\* "the only figure that stays true": however often a job was requeued and resumed, its
\* epochs together never cost more than the time there was.
CostsAreTime ==
  MapThenSumSet(LAMBDA n : IF epochRows[n] = None THEN 0 ELSE epochRows[n], DOMAIN epochRows) <= clock

\* What a run says of its progress is true of it: its last epoch, what its epochs cost,
\* how long one takes.
ProgressIsTold == LastIsTold /\ CostsAreTime /\ RateIsAmongCosts
=============================================================================
