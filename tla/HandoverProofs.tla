---------------------------- MODULE HandoverProofs ----------------------------
(***************************************************************************)
(* More about Attempts, for all jobs, takes, claim tokens and budgets: its *)
(* library does what Handover allows, the weights on a take were trained   *)
(* by the attempt they are signed with, what a run reports is its own, and *)
(* the attempts at one take are one training, as Keeping describes it.     *)
(*                                                                         *)
(* The invariant of AttemptsProofs says who may write.  The one added here *)
(* says what is written: Honest ties the numbers of one attempt to one     *)
(* another, Tenancy the rows to the claims, and the rest are the           *)
(* properties themselves, each of which the others need.                   *)
(***************************************************************************)
EXTENDS AttemptsProofs

\* Attempt u, made at job j, trained epoch n after the one it resumed from.
TrainedBy(u, j, n) == att[u].job = j /\ n \in (att[u].base + 1)..att[u].epoch

\* What the numbers of one attempt have to do with where it is.
Honest(a) ==
  /\ a.phase \in {"none", "claimed"} => a.base = 0 /\ a.epoch = 0 /\ a.model = "none"
  /\ a.phase \in {"none", "claimed", "spawned"} => a.saver = "off"
  /\ a.base <= a.epoch
  /\ a.epoch > a.base => a.epoch <= Epochs[a.job]
  /\ a.model # "none" => a.epoch >= Epochs[a.job]
  /\ a.model = "pair" => a.epoch > a.base
  /\ a.phase \in {"keeping", "storing"} => a.model = "pair"
  /\ a.phase # "finish" => a.plan = "none"
  /\ a.plan = "exported" => a.reached = Epochs[a.job] /\ a.epoch >= Epochs[a.job]
  /\ a.plan = "verdict" => ~TrainLane(a.job)
  /\ a.saver \in {"writing", "storing"} => a.pair \in (a.base + 1)..a.epoch

\* Who has which row: a running row has a claim, a claim is on the row of its own job,
\* and a take has one live job.
RunningHeld == \A j \in Jobs : row[j].state = "running" => row[j].token \in Tokens
TokenOwned == \A j \in Jobs, t \in Tokens : row[j].token = t => att[t].job = j
OneLive == \A i, j \in Jobs : TakeOf[i] = TakeOf[j] /\ Live(i) /\ Live(j) => i = j

Tenancy == RunningHeld /\ TokenOwned /\ OneLive

\* A run that is closed from the library reports what an attempt at it trained.
HarvestIsOwn ==
  \A t \in Tokens : att[t].plan = "harvested" =>
    \E u \in Tokens : TrainedBy(u, att[t].job, att[t].reached)

Truth ==
  /\ \A t \in Tokens : Honest(att[t])
  /\ Tenancy
  /\ WeightsTrained /\ BaseStands /\ HarvestIsOwn /\ SuccessIsOwn

-----------------------------------------------------------------------------
(* The operators on an attempt, once more: what they leave alone.          *)

\* The same training, seen from the numbers.
SameRun(a, b) ==
  /\ b.job = a.job /\ b.base = a.base /\ b.epoch = a.epoch

\* A kill leaves the numbers, the model and the plan alone.
LEMMA KilledFrame ==
  ASSUME NEW a \in Attempt, NEW why \in Reasons
  PROVE  /\ SameRun(a, Killed(a, why))
         /\ Killed(a, why).model = a.model /\ Killed(a, why).plan = a.plan
         /\ Killed(a, why).pair = a.pair /\ Killed(a, why).reached = a.reached
  BY DEF SameRun, Killed, Attempt

\* A rest leaves all but the saver alone.
LEMMA RestedFrame ==
  ASSUME NEW a \in Attempt
  PROVE  /\ SameRun(a, Rested(a))
         /\ Rested(a).model = a.model /\ Rested(a).plan = a.plan
         /\ Rested(a).reached = a.reached
  BY DEF SameRun, Rested, Attempt

\* A plan changes the plan.
LEMMA PlannedFrame ==
  ASSUME NEW a \in Attempt, NEW what \in Plans, NEW n \in Nat
  PROVE  /\ SameRun(a, Planned(a, what, n))
         /\ Planned(a, what, n).model = a.model /\ Planned(a, what, n).pair = a.pair
         /\ Planned(a, what, n).plan = what /\ Planned(a, what, n).reached = n
  BY DEF SameRun, Planned, Attempt

\* Of an attempt that is over only its numbers are left.
LEMMA OverFrame ==
  ASSUME NEW a \in Attempt
  PROVE  /\ SameRun(a, Returned(a)) /\ Returned(a).pair = a.pair
         /\ Returned(a).model = "none" /\ Returned(a).plan = "none"
         /\ SameRun(a, Dead(a)) /\ Dead(a).saver \in {"off", "done"}
         /\ Dead(a).model = "none" /\ Dead(a).plan = "none"
  BY DEF SameRun, Returned, Dead, Unused, Attempt

-----------------------------------------------------------------------------
(* One step of one attempt.                                                *)

\* What a step of an attempt after its claim does to it: the job stays, the base once
\* there stays, the epochs only grow, a child resumes from the take, and a plan to
\* harvest is what the take held when it was made.
Advance(a, b) ==
  /\ b.phase # "none" /\ b.job = a.job
  /\ a.phase # "claimed" => b.base = a.base /\ a.epoch <= b.epoch
  /\ b.phase \in Killable => \/ a.phase \in Killable
                             \/ TrainLane(a.job) => b.base = ckpt[TakeOf[a.job]].reached
  /\ b.plan = "harvested" => \/ a.plan = "harvested" /\ b.reached = a.reached
                             \/ OwnWeights(a.job) /\ b.reached = ckpt[TakeOf[a.job]].reached
  /\ Honest(b)

\* A kill on top of a step is a step.
LEMMA KilledAdvance ==
  ASSUME NEW a \in Attempt, NEW b \in Attempt, Advance(a, b), NEW why \in Reasons
  PROVE  Advance(a, Killed(b, why))
  BY KilledType, KilledFrame DEF Advance, Honest, SameRun

\* So is a rest of a saver that is there.
LEMMA RestedAdvance ==
  ASSUME NEW a \in Attempt, NEW b \in Attempt, Advance(a, b), b.saver # "off"
  PROVE  Advance(a, Rested(b))
  BY RestedType, RestedFrame DEF Advance, Honest, SameRun

\* A plan is a step, if what it reports is so.
LEMMA PlannedAdvance ==
  ASSUME NEW a \in Attempt, Honest(a), a.phase # "none", a.job \in Jobs,
         NEW what \in Plans, NEW n \in Nat,
         what = "exported" => n = Epochs[a.job] /\ a.epoch >= Epochs[a.job],
         what = "verdict" => ~TrainLane(a.job),
         what = "harvested" => OwnWeights(a.job) /\ n = ckpt[TakeOf[a.job]].reached
  PROVE  Advance(a, Planned(a, what, n))
<1>1. a.base \in Nat /\ a.epoch \in Nat
  BY DEF Attempt
<1> DEFINE b == Planned(a, what, n)
<1>2. /\ b.phase = "finish" /\ b.job = a.job /\ b.saver = a.saver
      /\ b.base = a.base /\ b.epoch = a.epoch /\ b.model = a.model
      /\ b.pair = a.pair /\ b.plan = what /\ b.reached = n
  BY PlannedType, PlannedFrame DEF SameRun
<1> HIDE DEF b
<1>3. Honest(b)
  BY <1>1, <1>2 DEF Honest
<1>4. Advance(a, b)
  BY <1>1, <1>2, <1>3 DEF Advance, Killable
<1> QED BY <1>4 DEF b

\* So is a return, and the death of the daemon.
LEMMA OverAdvance ==
  ASSUME NEW a \in Attempt, Honest(a), a.phase # "none"
  PROVE  Advance(a, Returned(a)) /\ Advance(a, Dead(a))
<1>1. a.base \in Nat /\ a.epoch \in Nat
  BY DEF Attempt
<1> QED BY <1>1, OverType, OverFrame DEF Advance, Honest, SameRun, Killable

\* And a step that does nothing.
LEMMA IdleAdvance ==
  ASSUME NEW a \in Attempt, Honest(a), a.phase # "none" PROVE Advance(a, a)
<1>1. a.base \in Nat /\ a.epoch \in Nat
  BY DEF Attempt
<1> QED BY <1>1 DEF Advance

-----------------------------------------------------------------------------
(* The actions of an attempt, one after the other.                         *)

Advances(t) ==
  /\ att[t].phase # "none"
  /\ \E b \in Attempt : att' = [att EXCEPT ![t] = b] /\ Advance(att[t], b)

\* What every step of an attempt may use.
LEMMA HonestFacts ==
  ASSUME IInv, Truth, NEW t \in Tokens, att[t].phase # "none"
  PROVE  /\ att[t] \in Attempt /\ Honest(att[t])
         /\ att[t].job \in Jobs /\ TakeOf[att[t].job] \in Takes
         /\ att[t].base \in Nat /\ att[t].epoch \in Nat
         /\ ckpt[TakeOf[att[t].job]].reached \in Nat
         /\ Epochs[att[t].job] \in Nat \ {0}
  BY AttemptFacts, LibraryAssumption DEF Truth

\* An ask that was waiting on the row is answered with what the take holds, if at all.
LEMMA AnswerAdvances ==
  ASSUME IInv, Truth, NEW t \in Tokens, AnswerCancel(t) \/ AnswerStop(t)
  PROVE  Advances(t)
<1>1. att[t].phase # "none"
  BY DEF AnswerCancel, AnswerStop
<1>2. PICK what \in {"cancelled", "failed", "harvested"}, n \in Nat :
        /\ att' = [att EXCEPT ![t] = Planned(att[t], what, n)]
        /\ what = "harvested" =>
             OwnWeights(att[t].job) /\ n = ckpt[TakeOf[att[t].job]].reached
  <2>1. CASE AnswerCancel(t)
    BY <2>1 DEF AnswerCancel
  <2>2. CASE AnswerStop(t)
    BY <1>1, <2>2, HonestFacts DEF AnswerStop
  <2> QED BY <2>1, <2>2
<1>3. {"cancelled", "failed", "harvested"} \subseteq Plans
  BY DEF Plans
<1>4. Planned(att[t], what, n) \in Attempt /\ Advance(att[t], Planned(att[t], what, n))
  BY <1>1, <1>2, <1>3, HonestFacts, PlannedType, PlannedAdvance
<1> QED BY <1>1, <1>2, <1>4 DEF Advances

\* A child resumes from what the take holds, or there is none.
LEMMA StartAdvances ==
  ASSUME IInv, Truth, NEW t \in Tokens, SpawnChild(t) \/ RefuseJob(t)
  PROVE  Advances(t)
<1> DEFINE a == att[t]
<1>1. a.phase = "claimed"
  BY DEF SpawnChild, RefuseJob
<1>2. /\ a \in Attempt /\ Honest(a) /\ a.job \in Jobs
      /\ ckpt[TakeOf[a.job]].reached \in Nat
  BY <1>1, HonestFacts
<1>3. CASE SpawnChild(t)
  <2> DEFINE from == Resume(a.job)
             b == [a EXCEPT !.phase = "spawned", !.child = "alive",
                            !.base = from, !.epoch = from]
  <2>1. from \in Nat /\ (TrainLane(a.job) => from = ckpt[TakeOf[a.job]].reached)
    BY <1>2 DEF Resume
  <2>2. att' = [att EXCEPT ![t] = b]
    BY <1>3 DEF SpawnChild
  <2> HIDE DEF from, a
  <2>3. b \in Attempt
    BY <1>2, <2>1, Zenon DEF Attempt, Phases, Children
  <2>4. /\ b.phase = "spawned" /\ b.job = a.job /\ b.saver = a.saver
        /\ b.base = from /\ b.epoch = from /\ b.model = a.model /\ b.plan = a.plan
        /\ b.pair = a.pair /\ b.reached = a.reached
    BY <1>2 DEF Attempt
  <2> HIDE DEF b
  <2>5. Honest(b)
    BY <1>1, <1>2, <2>1, <2>4 DEF Honest
  <2>6. Advance(a, b)
    BY <1>1, <1>2, <2>1, <2>4, <2>5 DEF Advance, Killable, Honest
  <2> QED BY <1>1, <2>2, <2>3, <2>6 DEF Advances, a
<1>4. CASE RefuseJob(t)
  <2>1. att' = [att EXCEPT ![t] = Planned(a, "failed", 0)]
    BY <1>4 DEF RefuseJob
  <2>2. "failed" \in Plans
    BY DEF Plans
  <2> QED BY <1>1, <1>2, <2>1, <2>2, PlannedType, PlannedAdvance DEF Advances
<1> QED BY <1>3, <1>4

\* The run begins, killed or not.
LEMMA RecordPgidAdvances ==
  ASSUME IInv, Truth, NEW t \in Tokens, RecordPgid(t)
  PROVE  Advances(t)
<1> DEFINE s == IF TrainLane(att[t].job) THEN "idle" ELSE "off"
           Begun(a) == [a EXCEPT !.phase = "running", !.saver = s]
<1>1. att[t].phase = "spawned"
  BY DEF RecordPgid
<1>2. att[t] \in Attempt /\ Honest(att[t])
  BY <1>1, HonestFacts
<1>3. s \in Savers /\ s \notin {"writing", "storing"}
  BY DEF Savers
<1>4. "lost" \in Reasons
  BY DEF Reasons
<1>5. PICK a \in {att[t], Killed(att[t], "lost")} : att' = [att EXCEPT ![t] = Begun(a)]
  BY DEF RecordPgid
<1> HIDE DEF s
<1>6. /\ a \in Attempt /\ a.phase = "spawned" /\ SameRun(att[t], a)
      /\ a.model = att[t].model /\ a.plan = att[t].plan /\ a.reached = att[t].reached
  BY <1>1, <1>2, <1>4, KilledType, KilledFrame DEF SameRun
<1>7. Begun(a) \in Attempt
  BY <1>3, <1>6, Zenon DEF Attempt, Phases
<1> DEFINE b == Begun(a)
<1>8. /\ b.phase = "running" /\ b.job = a.job /\ b.saver = s
      /\ b.base = a.base /\ b.epoch = a.epoch /\ b.model = a.model /\ b.plan = a.plan
      /\ b.reached = a.reached
  BY <1>6 DEF Attempt
<1>9. att[t].base \in Nat /\ att[t].epoch \in Nat
  BY <1>2 DEF Attempt
<1> HIDE DEF b, Begun
<1>10. Honest(b)
  BY <1>1, <1>2, <1>3, <1>6, <1>8, <1>9 DEF Honest, SameRun
<1>11. Advance(att[t], b)
  BY <1>1, <1>2, <1>6, <1>8, <1>9, <1>10 DEF Advance, Killable, SameRun
<1> QED BY <1>1, <1>5, <1>7, <1>11 DEF Advances, b

\* One epoch more, one export more, or the end.
LEMMA ChildAdvances ==
  ASSUME IInv, Truth, NEW t \in Tokens, Child(t)
  PROVE  Advances(t)
<1> DEFINE a == att[t]
<1>1. a.phase \in {"running", "draining"}
  BY DEF Child, Epoch, Export, ChildExit
<1>2. /\ a \in Attempt /\ Honest(a) /\ a.base \in Nat /\ a.epoch \in Nat
      /\ Epochs[a.job] \in Nat
  BY <1>1, HonestFacts
<1>3. CASE Epoch(t)
  <2> DEFINE n == a.epoch + 1
             b == [a EXCEPT !.epoch = n, !.nudged = TRUE]
  <2>1. n \in Nat /\ n > a.epoch
    BY <1>2
  <2>2. att' = [att EXCEPT ![t] = b] /\ a.model = "none" /\ n <= Epochs[a.job]
    BY <1>2, <1>3 DEF Epoch
  <2> HIDE DEF n, a
  <2>3. b \in Attempt
    BY <1>2, <2>1, Zenon DEF Attempt
  <2>4. /\ b.phase = a.phase /\ b.job = a.job /\ b.saver = a.saver /\ b.base = a.base
        /\ b.epoch = n /\ b.model = a.model /\ b.plan = a.plan /\ b.pair = a.pair
        /\ b.reached = a.reached
    BY <1>2 DEF Attempt
  <2> HIDE DEF b
  <2>5. Honest(b)
    BY <1>1, <1>2, <2>1, <2>2, <2>4 DEF Honest
  <2>6. Advance(a, b)
    BY <1>1, <1>2, <2>1, <2>4, <2>5 DEF Advance, Killable
  <2> QED BY <1>1, <2>2, <2>3, <2>6 DEF Advances, a
<1>4. CASE Export(t)
  <2>1. PICK m \in {"nam", "pair"} :
          att' = [att EXCEPT ![t].model = m] /\ (m = "pair" => a.epoch > a.base)
    BY <1>4 DEF Export
  <2>2. a.epoch >= Epochs[a.job]
    BY <1>4 DEF Export
  <2> DEFINE b == [a EXCEPT !.model = m]
  <2>3. att' = [att EXCEPT ![t] = b]
    BY <2>1
  <2>4. b \in Attempt
    BY <1>2, Zenon DEF Attempt, Models
  <2>5. /\ b.phase = a.phase /\ b.job = a.job /\ b.saver = a.saver /\ b.base = a.base
        /\ b.epoch = a.epoch /\ b.model = m /\ b.plan = a.plan /\ b.pair = a.pair
        /\ b.reached = a.reached
    BY <1>2 DEF Attempt
  <2> HIDE DEF b, a
  <2>6. Honest(b)
    BY <1>1, <1>2, <2>1, <2>2, <2>5 DEF Honest
  <2>7. Advance(a, b)
    BY <1>1, <1>2, <2>5, <2>6 DEF Advance, Killable
  <2> QED BY <1>1, <2>3, <2>4, <2>7 DEF Advances, a
<1>5. CASE ChildExit(t)
  <2>1. PICK c \in {"ok", "bad"} : att' = [att EXCEPT ![t].child = c]
    BY <1>5 DEF ChildExit
  <2> DEFINE b == [a EXCEPT !.child = c]
  <2>2. att' = [att EXCEPT ![t] = b]
    BY <2>1
  <2>3. b \in Attempt
    BY <1>2, Zenon DEF Attempt, Children
  <2>4. /\ b.phase = a.phase /\ b.job = a.job /\ b.saver = a.saver /\ b.base = a.base
        /\ b.epoch = a.epoch /\ b.model = a.model /\ b.plan = a.plan /\ b.pair = a.pair
        /\ b.reached = a.reached
    BY <1>2 DEF Attempt
  <2> HIDE DEF b, a
  <2>5. Honest(b)
    BY <1>1, <1>2, <2>4 DEF Honest
  <2>6. Advance(a, b)
    BY <1>1, <1>2, <2>4, <2>5 DEF Advance, Killable
  <2> QED BY <1>1, <2>2, <2>3, <2>6 DEF Advances, a
<1> QED BY <1>3, <1>4, <1>5 DEF Child

\* The reader and the hands outside change no number.
LEMMA ReadAdvances ==
  ASSUME IInv, Truth, NEW t \in Tokens,
         \/ ReadVerdict(t) \/ Eof(t)
         \/ \E why \in {"shutdown", "pause", "stall"} : Kill(t, why)
  PROVE  Advances(t)
<1> DEFINE a == att[t]
<1>1. a.phase \in Killable
  BY DEF ReadVerdict, Eof, Kill, Killable
<1>2. a.phase # "none"
  BY <1>1 DEF Killable
<1>3. a \in Attempt /\ Honest(a) /\ a.base \in Nat /\ a.epoch \in Nat
  BY <1>2, HonestFacts
<1>4. {"verdict", "shutdown", "pause", "stall"} \subseteq Reasons
  BY DEF Reasons
<1>5. CASE ReadVerdict(t)
  <2> DEFINE b == [a EXCEPT !.verdict = TRUE]
  <2>1. att' = [att EXCEPT ![t] = Killed(b, "verdict")]
    BY <1>5 DEF ReadVerdict
  <2> HIDE DEF a
  <2>2. /\ b \in Attempt
        /\ b.phase = a.phase /\ b.job = a.job /\ b.saver = a.saver /\ b.base = a.base
        /\ b.epoch = a.epoch /\ b.model = a.model /\ b.plan = a.plan /\ b.pair = a.pair
        /\ b.reached = a.reached
    BY <1>3 DEF Attempt
  <2> HIDE DEF b
  <2>3. Honest(b)
    BY <1>3, <2>2 DEF Honest
  <2>4. Advance(a, b)
    BY <1>1, <1>2, <1>3, <2>2, <2>3 DEF Advance
  <2>5. Killed(b, "verdict") \in Attempt /\ Advance(a, Killed(b, "verdict"))
    BY <1>3, <1>4, <2>2, <2>4, KilledType, KilledAdvance
  <2> QED BY <1>2, <2>1, <2>5 DEF Advances, a
<1>6. CASE Eof(t)
  <2> DEFINE b == [a EXCEPT !.phase = "draining"]
  <2>1. att' = [att EXCEPT ![t] = b] /\ a.phase = "running"
    BY <1>6 DEF Eof
  <2> HIDE DEF a
  <2>2. b \in Attempt
    BY <1>3, Zenon DEF Attempt, Phases
  <2>3. /\ b.phase = "draining" /\ b.job = a.job /\ b.saver = a.saver /\ b.base = a.base
        /\ b.epoch = a.epoch /\ b.model = a.model /\ b.plan = a.plan /\ b.pair = a.pair
        /\ b.reached = a.reached
    BY <1>3 DEF Attempt
  <2> HIDE DEF b
  <2>4. Honest(b)
    BY <1>3, <2>1, <2>3 DEF Honest
  <2>5. Advance(a, b)
    BY <1>1, <1>2, <1>3, <2>3, <2>4 DEF Advance
  <2> QED BY <1>2, <2>1, <2>2, <2>5 DEF Advances, a
<1>7. ASSUME NEW why \in {"shutdown", "pause", "stall"}, Kill(t, why)
      PROVE  Advances(t)
  <2>1. att' = [att EXCEPT ![t] = Killed(a, why)]
    BY <1>7 DEF Kill
  <2>2. Killed(a, why) \in Attempt /\ Advance(a, Killed(a, why))
    BY <1>2, <1>3, <1>4, KilledType, KilledAdvance, IdleAdvance
  <2> QED BY <1>2, <2>1, <2>2 DEF Advances
<1> QED BY <1>5, <1>6, <1>7

\* The saver picks a pair this run wrote, or none.
LEMMA SaverLookAdvances ==
  ASSUME IInv, Truth, NEW t \in Tokens, SaverLook(t)
  PROVE  Advances(t)
<1> DEFINE a == att[t]
<1>1. a.saver = "idle" /\ a.phase # "none"
  BY DEF SaverLook, IInv, AttInv, Sound
<1>2. a \in Attempt /\ Honest(a) /\ a.base \in Nat /\ a.epoch \in Nat
  BY <1>1, HonestFacts
<1>3. a.phase \notin {"claimed", "spawned"}
  BY <1>1, <1>2 DEF Honest
<1>4. PICK lastLook \in BOOLEAN :
        \/ \E n \in (a.base + 1)..a.epoch :
             att' = [att EXCEPT ![t] = [@ EXCEPT !.saver = "writing", !.pair = n,
                                             !.nudged = FALSE, !.last = lastLook]]
        \/ att' = [att EXCEPT ![t] =
                     Rested([@ EXCEPT !.nudged = FALSE, !.last = lastLook])]
  BY DEF SaverLook
<1>5. ASSUME NEW n \in (a.base + 1)..a.epoch,
             att' = [att EXCEPT ![t] = [@ EXCEPT !.saver = "writing", !.pair = n,
                                             !.nudged = FALSE, !.last = lastLook]]
      PROVE  Advances(t)
  <2> DEFINE b == [a EXCEPT !.saver = "writing", !.pair = n,
                            !.nudged = FALSE, !.last = lastLook]
  <2>1. att' = [att EXCEPT ![t] = b]
    BY <1>5
  <2>2. n \in Nat
    BY <1>2
  <2> HIDE DEF a
  <2>3. b \in Attempt
    BY <1>2, <2>2, Zenon DEF Attempt, Savers
  <2>4. /\ b.phase = a.phase /\ b.job = a.job /\ b.saver = "writing" /\ b.base = a.base
        /\ b.epoch = a.epoch /\ b.model = a.model /\ b.plan = a.plan /\ b.pair = n
        /\ b.reached = a.reached
    BY <1>2 DEF Attempt
  <2> HIDE DEF b
  <2>5. Honest(b)
    BY <1>1, <1>2, <1>3, <2>4 DEF Honest
  <2>6. Advance(a, b)
    BY <1>1, <1>2, <2>4, <2>5 DEF Advance
  <2> QED BY <1>1, <2>1, <2>3, <2>6 DEF Advances, a
<1>6. CASE att' = [att EXCEPT ![t] =
                     Rested([@ EXCEPT !.nudged = FALSE, !.last = lastLook])]
  <2> DEFINE b == [a EXCEPT !.nudged = FALSE, !.last = lastLook]
  <2>1. att' = [att EXCEPT ![t] = Rested(b)]
    BY <1>6
  <2> HIDE DEF a
  <2>2. /\ b \in Attempt
        /\ b.phase = a.phase /\ b.job = a.job /\ b.saver = a.saver /\ b.base = a.base
        /\ b.epoch = a.epoch /\ b.model = a.model /\ b.plan = a.plan /\ b.pair = a.pair
        /\ b.reached = a.reached
    BY <1>2 DEF Attempt
  <2> HIDE DEF b
  <2>3. Honest(b)
    BY <1>2, <2>2 DEF Honest
  <2>4. Advance(a, b)
    BY <1>1, <1>2, <2>2, <2>3 DEF Advance
  <2>5. Rested(b) \in Attempt /\ Advance(a, Rested(b))
    BY <1>1, <1>2, <2>2, <2>4, RestedType, RestedAdvance
  <2> QED BY <1>1, <2>1, <2>5 DEF Advances, a
<1> QED BY <1>4, <1>5, <1>6

\* The fence is read.
LEMMA FenceAdvances ==
  ASSUME IInv, Truth, NEW t \in Tokens, SaverPut(t) \/ KeepFinal(t)
  PROVE  Advances(t)
<1> DEFINE a == att[t]
<1>1. a.phase # "none" /\ (a.saver = "writing" \/ a.phase = "keeping")
  BY DEF SaverPut, KeepFinal, IInv, AttInv, Sound
<1>2. /\ a \in Attempt /\ Honest(a) /\ a.base \in Nat /\ a.epoch \in Nat
      /\ a.job \in Jobs /\ Epochs[a.job] \in Nat
  BY <1>1, HonestFacts
<1>3. Advance(a, a)
  BY <1>1, <1>2, IdleAdvance
<1>4. "lost" \in Reasons /\ "exported" \in Plans
  BY DEF Reasons, Plans
<1>5. CASE SaverPut(t) /\ att' = [att EXCEPT ![t].saver = "storing"]
  <2> DEFINE b == [a EXCEPT !.saver = "storing"]
  <2>1. att' = [att EXCEPT ![t] = b] /\ a.saver = "writing"
    BY <1>5 DEF SaverPut
  <2> HIDE DEF a
  <2>2. b \in Attempt
    BY <1>2, Zenon DEF Attempt, Savers
  <2>3. /\ b.phase = a.phase /\ b.job = a.job /\ b.saver = "storing" /\ b.base = a.base
        /\ b.epoch = a.epoch /\ b.model = a.model /\ b.plan = a.plan /\ b.pair = a.pair
        /\ b.reached = a.reached
    BY <1>2 DEF Attempt
  <2> HIDE DEF b
  <2>4. Honest(b)
    BY <1>2, <2>1, <2>3 DEF Honest
  <2>5. Advance(a, b)
    BY <1>1, <1>2, <2>3, <2>4 DEF Advance
  <2> QED BY <1>1, <2>1, <2>2, <2>5 DEF Advances, a
<1>6. CASE SaverPut(t) /\ att' = [att EXCEPT ![t] = Killed(Rested(@), "lost")]
  <2>1. a.saver = "writing"
    BY <1>6 DEF SaverPut
  <2>2. Rested(a) \in Attempt /\ Advance(a, Rested(a))
    BY <1>2, <1>3, <2>1, RestedType, RestedAdvance
  <2>3. /\ Killed(Rested(a), "lost") \in Attempt
        /\ Advance(a, Killed(Rested(a), "lost"))
    BY <1>2, <1>4, <2>2, KilledType, KilledAdvance
  <2> QED BY <1>1, <1>6, <2>3 DEF Advances
<1>7. CASE KeepFinal(t) /\ att' = [att EXCEPT ![t].phase = "storing"]
  <2> DEFINE b == [a EXCEPT !.phase = "storing"]
  <2>1. att' = [att EXCEPT ![t] = b] /\ a.phase = "keeping"
    BY <1>7 DEF KeepFinal
  <2> HIDE DEF a
  <2>2. b \in Attempt
    BY <1>2, Zenon DEF Attempt, Phases
  <2>3. /\ b.phase = "storing" /\ b.job = a.job /\ b.saver = a.saver /\ b.base = a.base
        /\ b.epoch = a.epoch /\ b.model = a.model /\ b.plan = a.plan /\ b.pair = a.pair
        /\ b.reached = a.reached
    BY <1>2 DEF Attempt
  <2> HIDE DEF b
  <2>4. Honest(b)
    BY <1>2, <2>1, <2>3 DEF Honest
  <2>5. Advance(a, b)
    BY <1>1, <1>2, <2>3, <2>4 DEF Advance, Killable
  <2> QED BY <1>1, <2>1, <2>2, <2>5 DEF Advances, a
<1>8. CASE KeepFinal(t) /\ att' = [att EXCEPT ![t] = ToRow(@)]
  <2>1. a.model = "pair"
    BY <1>2, <1>8 DEF KeepFinal, Honest
  <2>2. a.epoch >= Epochs[a.job]
    BY <1>2, <2>1 DEF Honest
  <2>3. ToRow(a) \in Attempt /\ Advance(a, ToRow(a))
    BY <1>1, <1>2, <1>4, <2>2, PlannedType, PlannedAdvance DEF ToRow
  <2> QED BY <1>1, <1>8, <2>3 DEF Advances
<1> QED BY <1>5, <1>6, <1>7, <1>8 DEF SaverPut, KeepFinal

\* The write is over, committed or not.
LEMMA UpsertAdvances ==
  ASSUME IInv, Truth, NEW t \in Tokens,
         SaverStored(t) \/ SaverFailed(t) \/ FinalStored(t) \/ FinalFailed(t)
  PROVE  Advances(t)
<1> DEFINE a == att[t]
<1>1. /\ a.phase # "none"
      /\ a.saver \in {"writing", "storing"} \/ a.phase \in {"keeping", "storing"}
  BY DEF SaverStored, SaverFailed, FinalStored, FinalFailed, IInv, AttInv, Sound
<1>2. /\ a \in Attempt /\ Honest(a) /\ a.base \in Nat /\ a.epoch \in Nat
      /\ a.job \in Jobs /\ Epochs[a.job] \in Nat
  BY <1>1, HonestFacts
<1>3. CASE SaverStored(t) \/ SaverFailed(t)
  <2>1. a.saver # "off"
    BY <1>3 DEF SaverStored, SaverFailed
  <2>2. Rested(a) \in Attempt /\ Advance(a, Rested(a))
    BY <1>1, <1>2, <2>1, RestedType, RestedAdvance, IdleAdvance
  <2>3. Verdict(a.job) \in {"go", "cancel", "stop"} /\ {"cancel", "stop"} \subseteq Reasons
    BY DEF Verdict, Reasons
  <2>4. /\ Obeyed(Rested(a), Verdict(a.job)) \in Attempt
        /\ Advance(a, Obeyed(Rested(a), Verdict(a.job)))
    BY <1>2, <2>2, <2>3, KilledType, KilledAdvance DEF Obeyed
  <2>5. \/ att' = [att EXCEPT ![t] = Rested(a)]
        \/ att' = [att EXCEPT ![t] = Obeyed(Rested(a), Verdict(a.job))]
    BY <1>3 DEF SaverStored, SaverFailed
  <2> QED BY <1>1, <2>2, <2>4, <2>5 DEF Advances
<1>4. CASE FinalStored(t) \/ FinalFailed(t)
  <2>1. a.phase \in {"keeping", "storing"} /\ att' = [att EXCEPT ![t] = ToRow(a)]
    BY <1>4 DEF FinalStored, FinalFailed
  <2>2. a.epoch >= Epochs[a.job] /\ "exported" \in Plans
    BY <1>2, <2>1 DEF Honest, Plans
  <2>3. ToRow(a) \in Attempt /\ Advance(a, ToRow(a))
    BY <1>1, <1>2, <2>2, PlannedType, PlannedAdvance DEF ToRow
  <2> QED BY <1>1, <2>1, <2>3 DEF Advances
<1> QED BY <1>3, <1>4

\* The door is closed on kills.
LEMMA BeginReapAdvances ==
  ASSUME IInv, Truth, NEW t \in Tokens, BeginReap(t)
  PROVE  Advances(t)
<1> DEFINE a == att[t]
           c == IF a.child = "alive" THEN "bad" ELSE a.child
           b == [a EXCEPT !.phase = "classify", !.child = c]
<1>1. a.phase = "draining" /\ att' = [att EXCEPT ![t] = b]
  BY DEF BeginReap
<1>2. a \in Attempt /\ Honest(a) /\ a.base \in Nat /\ a.epoch \in Nat
  BY <1>1, HonestFacts
<1>3. c \in Children
  BY <1>2 DEF Attempt, Children
<1> HIDE DEF c, a
<1>4. b \in Attempt
  BY <1>2, <1>3, Zenon DEF Attempt, Phases
<1>5. /\ b.phase = "classify" /\ b.job = a.job /\ b.saver = a.saver /\ b.base = a.base
      /\ b.epoch = a.epoch /\ b.model = a.model /\ b.plan = a.plan /\ b.pair = a.pair
      /\ b.reached = a.reached
  BY <1>2 DEF Attempt
<1> HIDE DEF b
<1>6. Honest(b)
  BY <1>1, <1>2, <1>5 DEF Honest
<1>7. Advance(a, b)
  BY <1>1, <1>2, <1>5, <1>6 DEF Advance, Killable
<1> QED BY <1>1, <1>4, <1>7 DEF Advances, a

\* The exported model goes on to the take or the row.
LEMMA ExportedAdvances ==
  ASSUME NEW a \in Attempt, Honest(a), a.phase = "classify", a.job \in Jobs,
         a.model # "none"
  PROVE  Exported(a) \in Attempt /\ Advance(a, Exported(a))
<1>1. a.base \in Nat /\ a.epoch \in Nat /\ Epochs[a.job] \in Nat
  BY EpochsType DEF Attempt
<1>2. a.epoch >= Epochs[a.job] /\ "exported" \in Plans
  BY DEF Honest, Plans
<1>3. CASE a.model = "pair"
  <2> DEFINE b == [a EXCEPT !.phase = "keeping"]
  <2>1. b \in Attempt
    BY Zenon DEF Attempt, Phases
  <2>2. /\ b.phase = "keeping" /\ b.job = a.job /\ b.saver = a.saver /\ b.base = a.base
        /\ b.epoch = a.epoch /\ b.model = a.model /\ b.plan = a.plan /\ b.pair = a.pair
        /\ b.reached = a.reached
    BY DEF Attempt
  <2>3. Exported(a) = b
    BY <1>3 DEF Exported
  <2> HIDE DEF b
  <2>4. Honest(b)
    BY <1>1, <1>3, <2>2 DEF Honest
  <2>5. Advance(a, b)
    BY <1>1, <2>2, <2>4 DEF Advance, Killable
  <2> QED BY <2>1, <2>3, <2>5
<1>4. CASE a.model # "pair"
  <2>1. Exported(a) = Planned(a, "exported", Epochs[a.job])
    BY <1>4 DEF Exported, ToRow
  <2> QED BY <1>1, <1>2, <2>1, PlannedType, PlannedAdvance
<1> QED BY <1>3, <1>4

\* The verdict on a run reports what was trained.
LEMMA ClassifyAdvances ==
  ASSUME IInv, Truth, NEW t \in Tokens, Classify(t)
  PROVE  Advances(t)
<1> DEFINE a == att[t]
           Plan(what, n) == /\ att' = [att EXCEPT ![t] = Planned(a, what, n)]
                            /\ what \in Plans /\ n \in Nat
                            /\ what # "exported"
                            /\ what = "verdict" => ~TrainLane(a.job)
                            /\ what = "harvested" =>
                                 OwnWeights(a.job) /\ n = ckpt[TakeOf[a.job]].reached
<1>1. a.phase = "classify"
  BY DEF Classify, ClassifyLost, ClassifyCancel, ClassifyRequeue, ClassifyProbe,
         ClassifyNatural, ClassifyHarvest, ClassifyLateExport, ClassifyEmpty,
         ClassifyFailed, EarlyStop, Judged
<1>2. /\ a \in Attempt /\ Honest(a) /\ a.job \in Jobs
      /\ ckpt[TakeOf[a.job]].reached \in Nat
  BY <1>1, HonestFacts
<1>3. \/ \E what, n : Plan(what, n)
      \/ att' = [att EXCEPT ![t] = Returned(a)]
      \/ a.model # "none" /\ att' = [att EXCEPT ![t] = Exported(a)]
  <2>1. CASE ClassifyLost(t)
    BY <2>1 DEF ClassifyLost
  <2>2. CASE ClassifyCancel(t)
    <3>1. Plan("cancelled", 0)
      BY <2>2 DEF ClassifyCancel, Plans
    <3> QED BY <3>1
  <2>3. CASE ClassifyRequeue(t)
    <3>1. Plan("requeue", 0)
      BY <2>3 DEF ClassifyRequeue, Plans
    <3> QED BY <3>1
  <2>4. CASE ClassifyFailed(t)
    <3>1. Plan("failed", 0)
      BY <2>4 DEF ClassifyFailed, Plans
    <3> QED BY <3>1
  <2>5. CASE ClassifyProbe(t)
    <3> DEFINE what == IF a.verdict THEN "verdict" ELSE "failed"
    <3>1. Plan(what, 0)
      BY <2>5 DEF ClassifyProbe, Plans
    <3> QED BY <3>1
  <2>6. CASE ClassifyHarvest(t)
    <3>1. Plan("harvested", ckpt[TakeOf[a.job]].reached)
      BY <1>2, <2>6 DEF ClassifyHarvest, Plans
    <3> QED BY <3>1
  <2>7. CASE ClassifyEmpty(t)
    <3> DEFINE what == IF a.reason = "pause" THEN "requeue" ELSE "failed"
    <3>1. Plan(what, 0)
      BY <2>7 DEF ClassifyEmpty, Plans
    <3> QED BY <3>1
  <2>8. CASE ClassifyNatural(t) \/ ClassifyLateExport(t)
    <3>1. Plan("failed", 0) \/ att' = [att EXCEPT ![t] = Exported(a)]
      BY <2>8 DEF ClassifyNatural, ClassifyLateExport, TrainSuccess, Plans
    <3>2. a.model # "none"
      BY <2>8 DEF ClassifyNatural, ClassifyLateExport, Natural
    <3> QED BY <3>1, <3>2
  <2> QED
    BY <2>1, <2>2, <2>3, <2>4, <2>5, <2>6, <2>7, <2>8 DEF Classify
<1>4. ASSUME NEW what, NEW n, Plan(what, n)
      PROVE  Advances(t)
  <2>1. Planned(a, what, n) \in Attempt /\ Advance(a, Planned(a, what, n))
    BY <1>1, <1>2, <1>4, PlannedType, PlannedAdvance
  <2> QED BY <1>1, <1>4, <2>1 DEF Advances
<1>5. CASE att' = [att EXCEPT ![t] = Returned(a)]
  BY <1>1, <1>2, <1>5, OverType, OverAdvance DEF Advances
<1>6. CASE a.model # "none" /\ att' = [att EXCEPT ![t] = Exported(a)]
  BY <1>1, <1>2, <1>6, ExportedAdvances DEF Advances
<1> HIDE DEF Plan
<1> QED BY <1>3, <1>4, <1>5, <1>6

\* The attempt returns, or its daemon dies.
LEMMA OverAdvances ==
  ASSUME IInv, Truth, NEW t \in Tokens, Finish(t) \/ FinishFault(t) \/ Crash(t)
  PROVE  Advances(t)
<1>1. /\ att[t].phase # "none"
      /\ \/ att' = [att EXCEPT ![t] = Returned(att[t])]
         \/ att' = [att EXCEPT ![t] = Dead(att[t])]
  BY DEF Finish, FinishFault, Crash
<1>2. att[t] \in Attempt /\ Honest(att[t])
  BY <1>1, HonestFacts
<1> QED BY <1>1, <1>2, OverType, OverAdvance DEF Advances

\* The steps of an attempt that do not touch the library.
Quiet(t) ==
  \/ AnswerCancel(t) \/ AnswerStop(t) \/ SpawnChild(t) \/ RefuseJob(t)
  \/ RecordPgid(t) \/ ReadVerdict(t) \/ Eof(t) \/ BeginReap(t) \/ Classify(t)
  \/ SaverLook(t) \/ Child(t) \/ FinishFault(t)
  \/ \E why \in {"shutdown", "pause", "stall"} : Kill(t, why)

\* And they are quiet.
LEMMA QuietAdvances ==
  ASSUME IInv, Truth, NEW t \in Tokens, Quiet(t)
  PROVE  Advances(t) /\ UNCHANGED libVars
<1>1. Advances(t)
  BY AnswerAdvances, StartAdvances, RecordPgidAdvances, ReadAdvances, BeginReapAdvances,
     ClassifyAdvances, SaverLookAdvances, ChildAdvances, OverAdvances DEF Quiet
<1>2. Classify(t) => UNCHANGED libVars
  BY DEF Classify, ClassifyLost, ClassifyCancel, ClassifyRequeue, ClassifyProbe,
              ClassifyNatural, ClassifyHarvest, ClassifyLateExport, ClassifyEmpty,
              ClassifyFailed
<1>3. ~Classify(t) => UNCHANGED libVars
  BY DEF Quiet, AnswerCancel, AnswerStop, SpawnChild, RefuseJob, RecordPgid,
              ReadVerdict, Eof, BeginReap, SaverLook, Child, Epoch, Export, ChildExit,
              FinishFault, Kill
<1> QED BY <1>1, <1>2, <1>3

-----------------------------------------------------------------------------
(* What a step of the attempts keeps of what was trained.                  *)

\* An attempt stays at its job, and what it trained it has trained.
Grown(a, b) ==
  a.job \in Jobs =>
    /\ b.job = a.job
    /\ \/ a.base = 0 /\ a.epoch = 0
       \/ b.base = a.base /\ a.epoch <= b.epoch
Grows == \A u \in Tokens : Grown(att[u], att'[u])

\* The plans that were not made in this step stand, the others are the take's.
Planning ==
  \A u \in Tokens : att'[u].plan = "harvested" =>
    /\ att[u].job \in Jobs /\ att'[u].job = att[u].job
    /\ \/ att[u].plan = "harvested" /\ att'[u].reached = att[u].reached
       \/ OwnWeights(att[u].job) /\ att'[u].reached = ckpt[TakeOf[att[u].job]].reached

\* A child that may be killed was there before, or has just resumed from its take.
Based ==
  \A u \in Tokens : att'[u].phase \in Killable =>
    /\ att[u].job \in Jobs /\ att'[u].job = att[u].job
    /\ \/ att[u].phase \in Killable /\ att'[u].base = att[u].base
       \/ TrainLane(att[u].job) => att'[u].base = ckpt[TakeOf[att[u].job]].reached

\* What a step of the attempts is to the library's half of the invariant.
Honestly == Grows /\ Planning /\ Based /\ \A u \in Tokens : Honest(att'[u])

\* The numbers of attempts are numbers.
LEMMA Numbers ==
  ASSUME IInv, NEW u \in Tokens
  PROVE  /\ att[u].base \in Nat /\ att[u].epoch \in Nat /\ att[u].reached \in Nat
         /\ att[u].phase # "none" => att[u].job \in Jobs
         /\ att[u].phase = "none" => att[u].job = NoJob
  BY DEF IInv, AttInv, Attempt, Sound

\* Nothing happens to the attempts.
LEMMA StillHonest == ASSUME IInv, Truth, UNCHANGED att PROVE Honestly
<1>1. Grows
  BY Numbers DEF Grows, Grown
<1>2. \A u \in Tokens : Honest(att[u])
  BY DEF Truth
<1>3. \A u \in Tokens : att[u].phase = "finish" \/ att[u].phase \in Killable
                           => att[u].job \in Jobs
  BY Numbers DEF Killable
<1>4. Planning
  BY <1>2, <1>3 DEF Planning, Honest
<1>5. Based
  BY <1>3 DEF Based
<1> QED BY <1>1, <1>2, <1>4, <1>5 DEF Honestly

\* One attempt goes on.
LEMMA AdvancesHonest ==
  ASSUME IInv, Truth, NEW t \in Tokens, Advances(t)
  PROVE  Honestly
<1>1. PICK b \in Attempt : att' = [att EXCEPT ![t] = b] /\ Advance(att[t], b)
  BY DEF Advances
<1>2. att'[t] = b /\ \A u \in Tokens : u # t => att'[u] = att[u]
  BY <1>1 DEF IInv, AttInv
<1>3. \A u \in Tokens : Honest(att[u])
  BY DEF Truth
<1>4. att[t].phase # "none" /\ att[t].job \in Jobs
  BY Numbers DEF Advances
<1>5. \A u \in Tokens : att[u].phase = "finish" \/ att[u].phase \in Killable
                           => att[u].job \in Jobs
  BY Numbers DEF Killable
<1>6. att[t].base \in Nat /\ att[t].epoch \in Nat
  BY Numbers
<1>7. \A u \in Tokens : Honest(att'[u])
  BY <1>1, <1>2, <1>3 DEF Advance
<1>8. Grown(att[t], b)
  BY <1>1, <1>3, <1>4, <1>6 DEF Advance, Grown, Honest
<1>9. Grows
  BY <1>2, <1>8, Numbers DEF Grows, Grown
<1>10. Planning
  BY <1>1, <1>2, <1>3, <1>4, <1>5 DEF Planning, Advance, Honest
<1>11. b.phase \in Killable /\ att[t].phase \in Killable => b.base = att[t].base
  BY <1>1 DEF Advance, Killable
<1>12. Based
  BY <1>1, <1>2, <1>4, <1>5, <1>11 DEF Based, Advance
<1> QED BY <1>7, <1>9, <1>10, <1>12 DEF Honestly

-----------------------------------------------------------------------------
(* The library's half, conjunct by conjunct.                               *)

\* No row is handed out, revived or filled with a result.
RowsLive == \A j \in Jobs : row'[j].state \in {"queued", "running"} => Live(j)
RowsHeld == \A j \in Jobs :
  /\ row'[j].state = "running" => row[j].state = "running" /\ row'[j].token = row[j].token
  /\ row'[j].token \in {row[j].token, NoToken}
RowsDone == \A j \in Jobs :
  row'[j].state = "succeeded" => row[j].state = "succeeded" /\ row'[j].result = row[j].result

\* The take of a running job is not touched, and others at most lose their weights.
TakesStand == \A j \in Jobs : row'[j].state = "running" => ckpt'[TakeOf[j]] = ckpt[TakeOf[j]]
TakesKept == \A k \in Takes : ckpt'[k] \in {ckpt[k], NoWeights}

\* The tenants stay.
LEMMA TenancyKept ==
  ASSUME IInv, Tenancy, Grows, RowsLive, RowsHeld
  PROVE  Tenancy'
<1>1. OneLive'
  BY DEF Tenancy, OneLive, RowsLive, Live
<1>2. RunningHeld'
  BY DEF Tenancy, RunningHeld, RowsHeld
<1>3. TokenOwned'
  <2> SUFFICES ASSUME NEW j \in Jobs, NEW t \in Tokens, row'[j].token = t
               PROVE  att'[t].job = j
    BY DEF TokenOwned
  <2>1. row[j].token = t
    BY LibraryAssumption DEF RowsHeld
  <2>2. att[t].job = j
    BY <2>1 DEF Tenancy, TokenOwned
  <2> QED BY <2>2 DEF Grows, Grown
<1> QED BY <1>1, <1>2, <1>3 DEF Tenancy

\* What was trained stays trained.
LEMMA TrainedStays ==
  ASSUME IInv, IInv', Grows, NEW u \in Tokens, NEW j \in Jobs, NEW n, TrainedBy(u, j, n)
  PROVE  att'[u].job = j /\ n \in (att'[u].base + 1)..att'[u].epoch
<1>1. att[u].job = j /\ n \in (att[u].base + 1)..att[u].epoch
  BY DEF TrainedBy
<1>2. att[u].base \in Nat /\ att[u].epoch \in Nat
  BY Numbers
<1>3. n \in Nat /\ att[u].epoch >= 1
  BY <1>1, <1>2
<1>4. att'[u].job = j /\ att'[u].base = att[u].base /\ att[u].epoch <= att'[u].epoch
  BY <1>1, <1>2, <1>3 DEF Grows, Grown
<1>5. att'[u].base \in Nat /\ att'[u].epoch \in Nat
  BY DEF IInv, AttInv, Attempt
<1> QED BY <1>1, <1>2, <1>3, <1>4, <1>5

\* Weights on a take are what their writer trained: the ones that stay, the ones moved
\* aside, and the ones just written.
LEMMA WeightsKept ==
  ASSUME IInv, IInv', WeightsTrained, Grows,
         \A k \in Takes :
           \/ ckpt'[k] \in {ckpt[k], NoWeights}
           \/ \E j \in Jobs, u \in Tokens :
                /\ k = TakeOf[j] /\ ckpt'[k].job = j /\ ckpt'[k].token = u
                /\ TrainedBy(u, j, ckpt'[k].reached)
  PROVE  WeightsTrained'
<1> SUFFICES ASSUME NEW k \in Takes, ckpt'[k].job # NoJob
             PROVE  /\ TakeOf[ckpt'[k].job] = k
                    /\ ckpt'[k].token \in Tokens
                    /\ att'[ckpt'[k].token].job = ckpt'[k].job
                    /\ ckpt'[k].reached \in (att'[ckpt'[k].token].base + 1)..
                                              att'[ckpt'[k].token].epoch
  BY DEF WeightsTrained
<1>1. CASE ckpt'[k] = ckpt[k]
  <2>1. /\ TakeOf[ckpt[k].job] = k /\ ckpt[k].token \in Tokens
        /\ TrainedBy(ckpt[k].token, ckpt[k].job, ckpt[k].reached)
    BY <1>1 DEF WeightsTrained, TrainedBy
  <2>2. ckpt[k].job \in Jobs
    BY <1>1 DEF IInv, LibInv, LibraryTypeOK, Weights
  <2> QED BY <1>1, <2>1, <2>2, TrainedStays
<1>2. CASE ckpt'[k] = NoWeights
  BY <1>2 DEF NoWeights
<1>3. CASE \E j \in Jobs, u \in Tokens :
             /\ k = TakeOf[j] /\ ckpt'[k].job = j /\ ckpt'[k].token = u
             /\ TrainedBy(u, j, ckpt'[k].reached)
  BY <1>3, TrainedStays
<1> QED BY <1>1, <1>2, <1>3

\* What a harvest is going to report was trained at the same job.
LEMMA HarvestKept ==
  ASSUME IInv, IInv', WeightsTrained, HarvestIsOwn, Grows, Planning
  PROVE  HarvestIsOwn'
<1> SUFFICES ASSUME NEW t \in Tokens, att'[t].plan = "harvested"
             PROVE  \E u \in Tokens :
                      /\ att'[u].job = att'[t].job
                      /\ att'[t].reached \in (att'[u].base + 1)..att'[u].epoch
  BY DEF HarvestIsOwn, TrainedBy
<1>1. att[t].job \in Jobs /\ att'[t].job = att[t].job
  BY DEF Planning
<1>2. PICK u \in Tokens : TrainedBy(u, att[t].job, att'[t].reached)
  <2>1. CASE att[t].plan = "harvested" /\ att'[t].reached = att[t].reached
    BY <2>1 DEF HarvestIsOwn
  <2>2. CASE OwnWeights(att[t].job) /\ att'[t].reached = ckpt[TakeOf[att[t].job]].reached
    <3> DEFINE k == TakeOf[att[t].job]
    <3>1. k \in Takes /\ ckpt[k].job = att[t].job /\ ckpt[k].job # NoJob
      BY <1>1, <2>2, LibraryAssumption DEF OwnWeights
    <3>2. ckpt[k].token \in Tokens /\ TrainedBy(ckpt[k].token, att[t].job, att'[t].reached)
      BY <2>2, <3>1 DEF WeightsTrained, TrainedBy
    <3> QED BY <3>2
  <2> QED BY <2>1, <2>2 DEF Planning
<1> QED BY <1>1, <1>2, TrainedStays

\* A result was trained by an attempt at its job, or there was nothing left to train.
Owned(j, n) ==
  \E t \in Tokens :
    /\ att[t].job = j
    /\ \/ n \in (att[t].base + 1)..att[t].epoch
       \/ n = Epochs[j] /\ att[t].base >= Epochs[j]

\* And it stays so.
LEMMA OwnedStays ==
  ASSUME IInv, IInv', Grows, NEW j \in Jobs, NEW n, Owned(j, n)
  PROVE  \E t \in Tokens :
           /\ att'[t].job = j
           /\ \/ n \in (att'[t].base + 1)..att'[t].epoch
              \/ n = Epochs[j] /\ att'[t].base >= Epochs[j]
<1>1. PICK t \in Tokens :
        /\ att[t].job = j
        /\ TrainedBy(t, j, n) \/ (n = Epochs[j] /\ att[t].base >= Epochs[j])
  BY DEF Owned, TrainedBy
<1>2. CASE TrainedBy(t, j, n)
  BY <1>2, TrainedStays
<1>3. CASE n = Epochs[j] /\ att[t].base >= Epochs[j]
  <2>1. Epochs[j] \in Nat \ {0} /\ att[t].base \in Nat
    BY Numbers, LibraryAssumption
  <2>2. att'[t].job = j /\ att'[t].base = att[t].base
    BY <1>1, <1>3, <2>1 DEF Grows, Grown
  <2> QED BY <1>3, <2>2
<1> QED BY <1>1, <1>2, <1>3

\* The results that were there stay their own.
LEMMA SuccessKept ==
  ASSUME IInv, IInv', SuccessIsOwn, Grows,
         \A j \in Jobs : row'[j].state = "succeeded" /\ TrainLane(j) =>
           \/ row[j].state = "succeeded" /\ row'[j].result = row[j].result
           \/ Owned(j, row'[j].result)
  PROVE  SuccessIsOwn'
<1> SUFFICES ASSUME NEW j \in Jobs, row'[j].state = "succeeded", TrainLane(j)
             PROVE  \E t \in Tokens :
                      /\ att'[t].job = j
                      /\ \/ row'[j].result \in (att'[t].base + 1)..att'[t].epoch
                         \/ row'[j].result = Epochs[j] /\ att'[t].base >= Epochs[j]
  BY DEF SuccessIsOwn
<1>1. Owned(j, row'[j].result)
  BY DEF SuccessIsOwn, Owned
<1> QED BY <1>1, OwnedStays

\* Where a run resumed from stands while nobody writes to its take.
LEMMA BaseKept ==
  ASSUME IInv, BaseStands, Tenancy, Based, RowsHeld, TakesStand
  PROVE  BaseStands'
<1> SUFFICES ASSUME NEW j \in Jobs, NEW t \in Tokens,
                    row'[j].state = "running", row'[j].token = t, TrainLane(j),
                    att'[t].phase \in Killable, ckpt'[TakeOf[j]].token # t
             PROVE  ckpt'[TakeOf[j]].reached = att'[t].base
  BY DEF BaseStands
<1>1. row[j].state = "running" /\ row[j].token = t /\ ckpt'[TakeOf[j]] = ckpt[TakeOf[j]]
  BY DEF RowsHeld, TakesStand
<1>2. att[t].job = j
  BY <1>1 DEF Tenancy, TokenOwned
<1>3. CASE att[t].phase \in Killable /\ att'[t].base = att[t].base
  BY <1>1, <1>3 DEF BaseStands
<1>4. CASE TrainLane(j) => att'[t].base = ckpt[TakeOf[j]].reached
  BY <1>1, <1>4
<1> QED BY <1>2, <1>3, <1>4 DEF Based

-----------------------------------------------------------------------------
(* The statements of the library.                                          *)

Undisturbed == RowsLive /\ RowsHeld /\ RowsDone /\ TakesStand /\ TakesKept

\* The types of the library's tables.
LEMMA Tables ==
  ASSUME IInv
  PROVE  /\ row \in [Jobs -> Row] /\ ckpt \in [Takes -> Weights]
         /\ locked \in [Jobs -> Tokens \cup {NoToken}]
         /\ TakeOf \in [Jobs -> Takes] /\ NoToken \notin Tokens /\ NoJob \notin Jobs
  BY LibraryAssumption DEF IInv, LibInv, LibraryTypeOK

\* A step that keeps out of the tables disturbs nothing.
LEMMA SameUndisturbed == ASSUME UNCHANGED <<row, ckpt>> PROVE Undisturbed
  BY DEF Undisturbed, RowsLive, RowsHeld, RowsDone, TakesStand, TakesKept, Live

\* One row changes, and its take only if the job of the row has ended: no other job on
\* the take is running.
LEMMA OneRowUndisturbed ==
  ASSUME IInv, Tenancy, NEW j \in Jobs, NEW r \in Row, row' = [row EXCEPT ![j] = r],
         r.state \in {"queued", "running"} => Live(j),
         r.state = "running" => row[j].state = "running" /\ r.token = row[j].token,
         r.token \in {row[j].token, NoToken},
         r.state # "succeeded",
         \/ UNCHANGED ckpt
         \/ /\ ckpt' = [ckpt EXCEPT ![TakeOf[j]] = NoWeights]
            /\ Live(j) /\ r.state # "running"
  PROVE  Undisturbed
<1>1. row'[j] = r /\ \A i \in Jobs : i # j => row'[i] = row[i]
  BY Tables
<1>2. RowsLive /\ RowsHeld /\ RowsDone
  BY <1>1 DEF RowsLive, RowsHeld, RowsDone, Live
<1>3. TakesKept
  BY Tables DEF TakesKept
<1>4. TakesStand
  <2> SUFFICES ASSUME NEW i \in Jobs, row'[i].state = "running",
                      ckpt' = [ckpt EXCEPT ![TakeOf[j]] = NoWeights],
                      Live(j), r.state # "running"
               PROVE  ckpt'[TakeOf[i]] = ckpt[TakeOf[i]]
    BY DEF TakesStand
  <2>1. i # j /\ Live(i)
    BY <1>1 DEF Live
  <2>2. TakeOf[i] # TakeOf[j]
    BY <2>1 DEF Tenancy, OneLive
  <2> QED BY <2>2, Tables
<1> QED BY <1>2, <1>3, <1>4 DEF Undisturbed

\* A job that ends as cancelled.
LEMMA CloseUndisturbed ==
  ASSUME IInv, Tenancy, NEW j \in Jobs, Live(j), CloseCancelled(j)
  PROVE  Undisturbed
<1> DEFINE r == [row[j] EXCEPT !.state = "cancelled"]
<1>1. row[j] \in Row /\ row' = [row EXCEPT ![j] = r]
  BY Tables DEF CloseCancelled
<1>2. r \in Row /\ r.state = "cancelled" /\ r.token = row[j].token
  BY <1>1 DEF Row, States
<1>3. \/ UNCHANGED ckpt
      \/ ckpt' = [ckpt EXCEPT ![TakeOf[j]] = NoWeights]
  BY DEF CloseCancelled, MoveAside
<1> HIDE DEF r
<1> QED BY <1>1, <1>2, <1>3, OneRowUndisturbed

\* What the application and cron do, but for a job they queue.
LEMMA OutsideUndisturbed ==
  ASSUME IInv, Tenancy, NEW j \in Jobs,
         AskStop(j) \/ AskCancel(j) \/ CloseQueued(j) \/ CancelStale(j) \/ MarkPaused(j)
  PROVE  Undisturbed
<1>0. row[j] \in Row
  BY Tables
<1>1. CASE AskStop(j)
  <2> DEFINE r == [row[j] EXCEPT !.stop = TRUE]
  <2>1. r \in Row /\ row' = [row EXCEPT ![j] = r]
    BY <1>0, <1>1 DEF AskStop, Row
  <2>2. r.state = row[j].state /\ r.token = row[j].token /\ UNCHANGED ckpt
    BY <1>0, <1>1 DEF AskStop, Row
  <2>3. row[j].state = "running"
    BY <1>1 DEF AskStop
  <2> HIDE DEF r
  <2> QED BY <2>1, <2>2, <2>3, OneRowUndisturbed DEF Live
<1>2. CASE AskCancel(j)
  <2> DEFINE r == [row[j] EXCEPT !.cancel = TRUE]
  <2>1. r \in Row /\ row' = [row EXCEPT ![j] = r]
    BY <1>0, <1>2 DEF AskCancel, Row
  <2>2. r.state = row[j].state /\ r.token = row[j].token /\ UNCHANGED ckpt
    BY <1>0, <1>2 DEF AskCancel, Row
  <2>3. Live(j)
    BY <1>2 DEF AskCancel
  <2> HIDE DEF r
  <2> QED BY <2>1, <2>2, <2>3, OneRowUndisturbed DEF Live
<1>3. CASE CloseQueued(j)
  BY <1>3, CloseUndisturbed DEF CloseQueued, Live
<1>4. CASE CancelStale(j)
  <2>1. PICK t \in {row[j].token, NoToken} :
          row' = [row EXCEPT ![j] = [@ EXCEPT !.state = "cancelled", !.token = t]]
    BY <1>4 DEF CancelStale
  <2> DEFINE r == [row[j] EXCEPT !.state = "cancelled", !.token = t]
  <2>2. r \in Row /\ row' = [row EXCEPT ![j] = r]
    BY <1>0, <2>1 DEF Row, States
  <2>3. r.state = "cancelled" /\ r.token = t
    BY <1>0 DEF Row
  <2>4. \/ UNCHANGED ckpt
        \/ ckpt' = [ckpt EXCEPT ![TakeOf[j]] = NoWeights]
    BY <1>4 DEF CancelStale, MoveAside
  <2>5. Live(j)
    BY <1>4 DEF CancelStale, Live
  <2> HIDE DEF r
  <2> QED BY <2>1, <2>2, <2>3, <2>4, <2>5, OneRowUndisturbed
<1>5. CASE MarkPaused(j)
  <2> DEFINE r == [row[j] EXCEPT !.paused = TRUE]
  <2>1. r \in Row /\ row' = [row EXCEPT ![j] = r]
    BY <1>0, <1>5 DEF MarkPaused, Row
  <2>2. r.state = row[j].state /\ r.token = row[j].token /\ UNCHANGED ckpt
    BY <1>0, <1>5 DEF MarkPaused, Row
  <2>3. row[j].state = "running"
    BY <1>5 DEF MarkPaused
  <2> HIDE DEF r
  <2> QED BY <2>1, <2>2, <2>3, OneRowUndisturbed DEF Live
<1> QED BY <1>1, <1>2, <1>3, <1>4, <1>5

\* The terminal writes, but for a success that counts.
LEMMA FinishUndisturbed ==
  ASSUME IInv, Tenancy, NEW j \in Jobs, NEW t \in Tokens, NEW n,
         \/ FinishFailed(j, t) \/ FinishCancelled(j, t) \/ RequeueJob(j, t)
         \/ FinishSucceeded(j, t, n) /\ ~(Mine(j, t) /\ ~row[j].cancel)
  PROVE  Undisturbed
<1>0. row[j] \in Row
  BY Tables
<1>1. CASE ~Mine(j, t)
  <2>1. UNCHANGED <<row, ckpt>>
    BY <1>1 DEF FinishFailed, FinishCancelled, RequeueJob, FinishSucceeded
  <2> QED BY <2>1, SameUndisturbed
<1>2. CASE Mine(j, t) /\ CloseCancelled(j)
  BY <1>2, CloseUndisturbed DEF Mine, Live
<1>3. CASE Mine(j, t) /\ FinishFailed(j, t)
  <2> DEFINE r == [row[j] EXCEPT !.state = "failed"]
  <2>1. r \in Row /\ row' = [row EXCEPT ![j] = r] /\ UNCHANGED ckpt
    BY <1>0, <1>3 DEF FinishFailed, Row, States
  <2>2. r.state = "failed" /\ r.token = row[j].token
    BY <1>0 DEF Row
  <2> HIDE DEF r
  <2> QED BY <2>1, <2>2, OneRowUndisturbed
<1>4. CASE Mine(j, t) /\ RequeueJob(j, t)
  <2> DEFINE r == [row[j] EXCEPT !.state = "queued", !.token = NoToken, !.stop = FALSE]
  <2>1. r \in Row /\ row' = [row EXCEPT ![j] = r] /\ UNCHANGED ckpt
    BY <1>0, <1>4 DEF RequeueJob, Row, States
  <2>2. r.state = "queued" /\ r.token = NoToken
    BY <1>0 DEF Row
  <2>3. Live(j)
    BY <1>4 DEF Mine, Live
  <2> HIDE DEF r
  <2> QED BY <2>1, <2>2, <2>3, OneRowUndisturbed
<1>5. Mine(j, t) => FinishFailed(j, t) \/ RequeueJob(j, t) \/ CloseCancelled(j)
  BY DEF FinishCancelled, FinishSucceeded
<1> QED BY <1>1, <1>2, <1>3, <1>4, <1>5

-----------------------------------------------------------------------------
(* The actions.                                                            *)

\* A step of the attempts beside an undisturbed library.
LEMMA UndisturbedTruth ==
  ASSUME IInv, IInv', Truth, Honestly, Undisturbed
  PROVE  Truth'
<1>1. Tenancy'
  BY TenancyKept DEF Truth, Honestly, Undisturbed
<1>2. WeightsTrained'
  BY WeightsKept DEF Truth, Honestly, Undisturbed, TakesKept
<1>3. BaseStands'
  BY BaseKept DEF Truth, Honestly, Undisturbed
<1>4. HarvestIsOwn'
  BY HarvestKept DEF Truth, Honestly
<1>5. SuccessIsOwn'
  BY SuccessKept DEF Truth, Honestly, Undisturbed, RowsDone
<1> QED BY <1>1, <1>2, <1>3, <1>4, <1>5 DEF Truth, Honestly

\* An attempt that goes on beside an undisturbed library.
LEMMA AdvancesTruth ==
  ASSUME IInv, IInv', Truth, NEW t \in Tokens, Advances(t), Undisturbed
  PROVE  Truth'
  BY AdvancesHonest, UndisturbedTruth

\* The steps of an attempt that stay out of the tables.
LEMMA QuietTruth ==
  ASSUME IInv, IInv', Truth, NEW t \in Tokens,
         Quiet(t) \/ SaverPut(t) \/ KeepFinal(t) \/ Crash(t)
  PROVE  Truth'
<1>1. Advances(t)
  BY QuietAdvances, FenceAdvances, OverAdvances
<1>2. UNCHANGED <<row, ckpt>>
  BY QuietAdvances DEF libVars, SaverPut, KeepFinal, PutLock, PutRefused, Crash, Rollback
<1> QED BY <1>1, <1>2, SameUndisturbed, AdvancesTruth

\* The weights an attempt writes while it has the lock are its own, and where the run it
\* belongs to resumed from is of no account any more.
LEMMA StoreTruth ==
  ASSUME IInv, IInv', Truth, NEW t \in Tokens, Advances(t), NEW n,
         locked[att[t].job] = t, PutStore(att[t].job, t, n),
         TrainedBy(t, att[t].job, n)
  PROVE  Truth'
<1> DEFINE j == att[t].job
<1>1. j \in Jobs /\ Honestly
  BY Numbers, AdvancesHonest DEF Advances
<1>2. UNCHANGED row /\ ckpt' = [ckpt EXCEPT ![TakeOf[j]] = [job |-> j, token |-> t, reached |-> n]]
  BY DEF PutStore
<1>3. row[j].state = "running" /\ row[j].token = t
  BY <1>1, Tables DEF IInv, LibInv, LockHolds, HolderOf
<1>4. RowsLive /\ RowsHeld /\ RowsDone
  BY <1>2 DEF RowsLive, RowsHeld, RowsDone, Live
<1>5. Tenancy'
  BY <1>1, <1>4, TenancyKept DEF Truth, Honestly
<1>6. ASSUME NEW k \in Takes
      PROVE  \/ ckpt'[k] \in {ckpt[k], NoWeights}
             \/ \E i \in Jobs, u \in Tokens :
                  /\ k = TakeOf[i] /\ ckpt'[k].job = i /\ ckpt'[k].token = u
                  /\ TrainedBy(u, i, ckpt'[k].reached)
  <2>1. CASE k # TakeOf[j]
    BY <1>2, <2>1, Tables
  <2>2. CASE k = TakeOf[j]
    <3>1. ckpt'[k] = [job |-> j, token |-> t, reached |-> n]
      BY <1>2, <2>2, Tables
    <3>2. ckpt'[k].job = j /\ ckpt'[k].token = t /\ ckpt'[k].reached = n
      BY <3>1
    <3> QED BY <1>1, <2>2, <3>2
  <2> QED BY <2>1, <2>2
<1>7. WeightsTrained'
  BY <1>1, <1>6, WeightsKept DEF Truth, Honestly
<1>8. BaseStands'
  <2> SUFFICES ASSUME NEW i \in Jobs, NEW u \in Tokens,
                      row[i].state = "running", row[i].token = u, TrainLane(i),
                      att'[u].phase \in Killable, ckpt'[TakeOf[i]].token # u
               PROVE  ckpt'[TakeOf[i]].reached = att'[u].base
    BY <1>2 DEF BaseStands
  <2>1. CASE TakeOf[i] = TakeOf[j]
    <3>1. i = j
      BY <1>1, <1>3, <2>1 DEF Truth, Tenancy, OneLive, Live
    <3>2. ckpt'[TakeOf[j]].token = t
      BY <1>1, <1>2, Tables
    <3> QED BY <1>3, <3>1, <3>2
  <2>2. CASE TakeOf[i] # TakeOf[j]
    <3>1. ckpt'[TakeOf[i]] = ckpt[TakeOf[i]]
      BY <1>2, <2>2, Tables
    <3>2. att[u].job = i
      BY DEF Truth, Tenancy, TokenOwned
    <3>3. CASE att[u].phase \in Killable /\ att'[u].base = att[u].base
      BY <3>1, <3>3 DEF Truth, BaseStands
    <3>4. CASE TrainLane(i) => att'[u].base = ckpt[TakeOf[i]].reached
      BY <3>1, <3>4
    <3> QED BY <1>1, <3>2, <3>3, <3>4 DEF Honestly, Based
  <2> QED BY <2>1, <2>2
<1>9. HarvestIsOwn'
  BY <1>1, HarvestKept DEF Truth, Honestly
<1>10. SuccessIsOwn'
  BY <1>1, <1>4, SuccessKept DEF Truth, Honestly, RowsDone
<1> QED BY <1>1, <1>5, <1>7, <1>8, <1>9, <1>10 DEF Truth, Honestly

\* A write that is over: the weights of the saver or of the finished run, or none.
LEMMA UpsertTruth ==
  ASSUME IInv, IInv', Truth, NEW t \in Tokens,
         SaverStored(t) \/ SaverFailed(t) \/ FinalStored(t) \/ FinalFailed(t)
  PROVE  Truth'
<1> DEFINE a == att[t]
           j == a.job
<1>1. Advances(t)
  BY UpsertAdvances
<1>2. /\ a \in Attempt /\ Honest(a) /\ a.base \in Nat /\ a.epoch \in Nat
      /\ j \in Jobs /\ Epochs[j] \in Nat \ {0}
  BY <1>1, HonestFacts DEF Advances
<1>3. CASE UNCHANGED libVars \/ Rollback(j, t)
  <2>1. UNCHANGED <<row, ckpt>>
    BY <1>3 DEF libVars, Rollback
  <2> QED BY <1>1, <2>1, SameUndisturbed, AdvancesTruth
<1>4. CASE a.saver = "storing" /\ PutStore(j, t, a.pair)
  <2>1. locked[j] = t
    BY <1>4 DEF IInv, AttInv, Storing
  <2>2. TrainedBy(t, j, a.pair)
    BY <1>2, <1>4 DEF TrainedBy, Honest
  <2> QED BY <1>1, <1>4, <2>1, <2>2, StoreTruth
<1>5. CASE a.phase = "storing" /\ PutStore(j, t, Epochs[j])
  <2>1. locked[j] = t
    BY <1>5 DEF IInv, AttInv, Storing
  <2>2. a.model = "pair"
    BY <1>2, <1>5 DEF Honest
  <2>3. Epochs[j] \in (a.base + 1)..a.epoch
    BY <1>2, <2>2 DEF Honest
  <2> QED BY <1>1, <1>5, <2>1, <2>3, StoreTruth DEF TrainedBy
<1> QED
  BY <1>3, <1>4, <1>5 DEF SaverStored, SaverFailed, FinalStored, FinalFailed

\* A success that counts reports the run's own epoch.
LEMMA SucceededTruth ==
  ASSUME IInv, IInv', Truth, NEW t \in Tokens, Finish(t),
         att[t].plan \in {"verdict", "exported", "harvested"},
         Mine(att[t].job, t), ~row[att[t].job].cancel
  PROVE  Truth'
<1> DEFINE a == att[t]
           j == a.job
           n == IF a.plan = "verdict" THEN 0 ELSE a.reached
           r == [row[j] EXCEPT !.state = "succeeded", !.result = n]
<1>1. Advances(t) /\ Honestly /\ j \in Jobs
  BY OverAdvances, AdvancesHonest, Numbers DEF Advances
<1>2. FinishSucceeded(j, t, n)
  BY DEF Finish, TerminalWrite, FinishProbeSelf
<1>3. row' = [row EXCEPT ![j] = r] /\ UNCHANGED ckpt
  BY <1>2 DEF FinishSucceeded
<1>4. row[j] \in Row
  BY <1>1, Tables
<1>5. r.state = "succeeded" /\ r.token = row[j].token /\ r.result = n
  BY <1>4 DEF Row
<1>6. row[j].state = "running"
  BY DEF Mine
<1> HIDE DEF r, n
<1>7. row'[j] = r /\ \A i \in Jobs : i # j => row'[i] = row[i]
  BY <1>1, <1>3, Tables
<1>8. RowsLive /\ RowsHeld /\ TakesStand /\ TakesKept
  BY <1>3, <1>5, <1>6, <1>7 DEF RowsLive, RowsHeld, TakesStand, TakesKept, Live
<1>9. TrainLane(j) => Owned(j, n)
  <2> SUFFICES ASSUME TrainLane(j) PROVE Owned(j, n)
    OBVIOUS
  <2>1. /\ a \in Attempt /\ Honest(a) /\ a.base \in Nat /\ a.epoch \in Nat
        /\ Epochs[j] \in Nat \ {0}
    BY <1>1, HonestFacts DEF Advances
  <2>2. a.plan # "verdict" /\ n = a.reached
    BY <2>1 DEF Honest, n
  <2>3. CASE a.plan = "exported"
    BY <2>1, <2>2, <2>3 DEF Honest, Owned
  <2>4. CASE a.plan = "harvested"
    BY <2>2, <2>4 DEF Truth, HarvestIsOwn, TrainedBy, Owned
  <2> QED BY <2>2, <2>3, <2>4
<1>10. Tenancy'
  BY <1>1, <1>8, TenancyKept DEF Truth, Honestly
<1>11. WeightsTrained'
  BY <1>1, <1>8, WeightsKept DEF Truth, Honestly, TakesKept
<1>12. BaseStands'
  BY <1>1, <1>8, BaseKept DEF Truth, Honestly
<1>13. HarvestIsOwn'
  BY <1>1, HarvestKept DEF Truth, Honestly
<1>14. SuccessIsOwn'
  BY <1>1, <1>5, <1>7, <1>9, SuccessKept DEF Truth, Honestly
<1> QED BY <1>1, <1>10, <1>11, <1>12, <1>13, <1>14 DEF Truth, Honestly

\* Any other terminal write reports nothing.
LEMMA FinishTruth ==
  ASSUME IInv, IInv', Truth, NEW t \in Tokens, Finish(t)
  PROVE  Truth'
<1> DEFINE j == att[t].job
<1>1. Advances(t) /\ j \in Jobs
  BY OverAdvances, Numbers DEF Advances
<1>2. CASE att[t].plan \in {"verdict", "exported", "harvested"} /\ Mine(j, t) /\ ~row[j].cancel
  BY <1>2, SucceededTruth
<1>3. CASE ~(att[t].plan \in {"verdict", "exported", "harvested"} /\ Mine(j, t) /\ ~row[j].cancel)
  <2>1. \/ FinishFailed(j, t) \/ FinishCancelled(j, t) \/ RequeueJob(j, t)
        \/ FinishSucceeded(j, t, 0) /\ ~(Mine(j, t) /\ ~row[j].cancel)
        \/ FinishSucceeded(j, t, att[t].reached) /\ ~(Mine(j, t) /\ ~row[j].cancel)
    BY <1>3 DEF Finish, TerminalWrite, FinishProbeSelf
  <2>2. Undisturbed
    BY <1>1, <2>1, FinishUndisturbed DEF Truth
  <2> QED BY <1>1, <2>2, AdvancesTruth
<1> QED BY <1>2, <1>3

\* A claim is fresh: it is on no row yet, it has trained nothing, and there is no child
\* that would have resumed from somewhere.
LEMMA ClaimTruth ==
  ASSUME IInv, IInv', Truth, NEW j \in Jobs, NEW t \in Tokens, Claim(j, t) \/ ClaimUnheard(j, t)
  PROVE  Truth'
<1> DEFINE r == [row[j] EXCEPT !.state = "running", !.token = t, !.paused = FALSE]
<1>1. att[t].phase = "none" /\ att[t].job = NoJob
  BY Numbers DEF Claim, ClaimUnheard
<1>2. PICK b :
        /\ att' = [att EXCEPT ![t] = b]
        /\ b.job = j /\ b.base = 0 /\ b.epoch = 0 /\ b.model = "none" /\ b.plan = "none"
        /\ b.saver = "off" /\ b.phase \in {"claimed", "gone"}
  <2>1. CASE Claim(j, t)
    <3> DEFINE b == [Unused EXCEPT !.phase = "claimed", !.job = j,
                                   !.stop = row[j].stop, !.cancel = row[j].cancel]
    <3>1. att' = [att EXCEPT ![t] = b]
      BY <2>1 DEF Claim
    <3>2. /\ b.job = j /\ b.base = 0 /\ b.epoch = 0 /\ b.model = "none" /\ b.plan = "none"
          /\ b.saver = "off" /\ b.phase = "claimed"
      BY DEF Unused
    <3> QED BY <3>1, <3>2
  <2>2. CASE ClaimUnheard(j, t)
    <3> DEFINE b == [Unused EXCEPT !.phase = "gone", !.job = j]
    <3>1. att' = [att EXCEPT ![t] = b]
      BY <2>2 DEF ClaimUnheard
    <3>2. /\ b.job = j /\ b.base = 0 /\ b.epoch = 0 /\ b.model = "none" /\ b.plan = "none"
          /\ b.saver = "off" /\ b.phase = "gone"
      BY DEF Unused
    <3> QED BY <3>1, <3>2
  <2> QED BY <2>1, <2>2
<1>3. att'[t] = b /\ \A u \in Tokens : u # t => att'[u] = att[u]
  BY <1>2 DEF IInv, AttInv
<1>4. \A u \in Tokens : Honest(att'[u])
  <2>1. Epochs[j] \in Nat
    BY EpochsType
  <2>2. Honest(b)
    BY <1>2, <2>1 DEF Honest
  <2> QED BY <1>3, <2>2 DEF Truth
<1>5. Grows
  BY <1>1, <1>3, Numbers, Tables DEF Grows, Grown
<1>6. \A u \in Tokens : att[u].phase \in Killable \/ att[u].phase = "finish" => att[u].job \in Jobs
  BY Numbers DEF Killable
<1>7. Planning
  BY <1>2, <1>3, <1>6 DEF Planning, Truth, Honest
<1>8. Claimable(j) /\ UNCHANGED ckpt /\ row' = [row EXCEPT ![j] = r]
  BY DEF Claim, ClaimUnheard, ClaimNext
<1>9. row[j] \in Row
  BY Tables
<1>10. r.state = "running" /\ r.token = t
  BY <1>9 DEF Row
<1> HIDE DEF r
<1>11. row'[j] = r /\ \A i \in Jobs : i # j => row'[i] = row[i]
  BY <1>8, Tables
<1>12. Tenancy'
  <2>1. OneLive'
    BY <1>8, <1>11 DEF Truth, Tenancy, OneLive, Live, Claimable
  <2>2. RunningHeld'
    BY <1>10, <1>11 DEF Truth, Tenancy, RunningHeld
  <2>3. TokenOwned'
    BY <1>1, <1>2, <1>3, <1>10, <1>11, Tables DEF Truth, Tenancy, TokenOwned
  <2> QED BY <2>1, <2>2, <2>3 DEF Tenancy
<1>13. WeightsTrained'
  BY <1>5, <1>8, WeightsKept DEF Truth
<1>14. BaseStands'
  <2> SUFFICES ASSUME NEW i \in Jobs, NEW u \in Tokens,
                      row'[i].state = "running", row'[i].token = u, TrainLane(i),
                      att'[u].phase \in Killable, ckpt'[TakeOf[i]].token # u
               PROVE  ckpt'[TakeOf[i]].reached = att'[u].base
    BY DEF BaseStands
  <2>1. u # t
    BY <1>2, <1>3 DEF Killable
  <2>2. i # j
    BY <1>10, <1>11, <2>1
  <2>3. att'[u] = att[u] /\ row'[i] = row[i]
    BY <1>3, <1>11, <2>1, <2>2
  <2> QED BY <1>8, <2>3 DEF Truth, BaseStands
<1>15. HarvestIsOwn'
  BY <1>5, <1>7, HarvestKept DEF Truth
<1>16. SuccessIsOwn'
  BY <1>5, <1>10, <1>11, SuccessKept DEF Truth
<1> QED BY <1>4, <1>12, <1>13, <1>14, <1>15, <1>16 DEF Truth

\* The application and cron have no part in what is trained.
LEMMA OutsiderTruth ==
  ASSUME IInv, IInv', Truth, NEW j \in Jobs,
         Application(j) \/ Close(j) \/ MarkSilent(j) \/ MarkSlow(j)
  PROVE  Truth'
<1>1. Honestly
  BY StillHonest DEF Application, Close, MarkSilent, MarkSlow
<1>2. CASE ~Enqueue(j)
  <2>1. Undisturbed
    BY <1>2, OutsideUndisturbed DEF Truth, Application, Close, MarkSilent, MarkSlow
  <2> QED BY <1>1, <2>1, UndisturbedTruth
<1>3. CASE Enqueue(j)
  <2> DEFINE r == [row[j] EXCEPT !.state = "queued"]
  <2>1. row[j] \in Row /\ row' = [row EXCEPT ![j] = r] /\ UNCHANGED ckpt
    BY <1>3, Tables DEF Enqueue
  <2>2. r.state = "queued" /\ r.token = row[j].token
    BY <2>1 DEF Row
  <2> HIDE DEF r
  <2>3. row'[j] = r /\ \A i \in Jobs : i # j => row'[i] = row[i]
    BY <2>1, Tables
  <2>4. RowsHeld /\ RowsDone /\ TakesStand /\ TakesKept
    BY <2>1, <2>2, <2>3 DEF RowsHeld, RowsDone, TakesStand, TakesKept
  <2>5. Tenancy'
    <3>1. OneLive'
      BY <1>3, <2>3 DEF Enqueue, Truth, Tenancy, OneLive, Live
    <3>2. RunningHeld'
      BY <2>4 DEF Truth, Tenancy, RunningHeld, RowsHeld
    <3>3. TokenOwned'
      <4> SUFFICES ASSUME NEW i \in Jobs, NEW t \in Tokens, row'[i].token = t
                   PROVE  att'[t].job = i
        BY DEF TokenOwned
      <4>1. row[i].token = t
        BY <2>4, Tables DEF RowsHeld
      <4> QED BY <1>1, <4>1 DEF Truth, Tenancy, TokenOwned, Honestly, Grows, Grown
    <3> QED BY <3>1, <3>2, <3>3 DEF Tenancy
  <2>6. WeightsTrained'
    BY <1>1, <2>4, WeightsKept DEF Truth, Honestly, TakesKept
  <2>7. BaseStands'
    BY <1>1, <2>4, BaseKept DEF Truth, Honestly
  <2>8. HarvestIsOwn'
    BY <1>1, HarvestKept DEF Truth, Honestly
  <2>9. SuccessIsOwn'
    BY <1>1, <2>4, SuccessKept DEF Truth, Honestly, RowsDone
  <2> QED BY <1>1, <2>5, <2>6, <2>7, <2>8, <2>9 DEF Truth, Honestly
<1> QED BY <1>2, <1>3

-----------------------------------------------------------------------------
(* The theorems about what is trained.                                     *)

\* It holds of an empty library with nobody at work.
LEMMA InitTruth == Init => Truth
<1> SUFFICES ASSUME Init PROVE Truth
  OBVIOUS
<1>1. \A t \in Tokens : att[t] = Unused
  BY DEF Init
<1>2. /\ Unused.base = 0 /\ Unused.epoch = 0 /\ Unused.model = "none"
      /\ Unused.plan = "none" /\ Unused.saver = "off" /\ Unused.phase = "none"
  BY DEF Unused
<1>3. \A t \in Tokens : Honest(att[t])
  <2>1. Honest(Unused)
    BY <1>2 DEF Honest
  <2> QED BY <1>1, <2>1
<1>4. \A j \in Jobs : row[j].state = "absent" /\ row[j].token = NoToken
  BY DEF Init, LibraryInit, NoRow
<1>5. \A k \in Takes : ckpt[k].job = NoJob
  BY DEF Init, LibraryInit, NoWeights
<1>6. Tenancy
  BY <1>4, LibraryAssumption DEF Tenancy, OneLive, RunningHeld, TokenOwned, Live
<1>7. WeightsTrained /\ BaseStands /\ HarvestIsOwn /\ SuccessIsOwn
  BY <1>1, <1>2, <1>4, <1>5
     DEF WeightsTrained, BaseStands, HarvestIsOwn, SuccessIsOwn
<1> QED BY <1>3, <1>6, <1>7 DEF Truth

\* Every step keeps it.
LEMMA NextTruth == IInv /\ IInv' /\ Truth /\ [Next]_vars => Truth'
<1> SUFFICES ASSUME IInv, IInv', Truth, [Next]_vars PROVE Truth'
  OBVIOUS
<1>1. CASE UNCHANGED vars
  BY <1>1, StillHonest, SameUndisturbed, UndisturbedTruth DEF vars
<1>2. ASSUME NEW j \in Jobs, Application(j) \/ Close(j) \/ MarkSilent(j) \/ MarkSlow(j)
      PROVE  Truth'
  BY <1>2, OutsiderTruth
<1>3. ASSUME NEW j \in Jobs, NEW t \in Tokens, Claim(j, t) \/ ClaimUnheard(j, t)
      PROVE  Truth'
  BY <1>3, ClaimTruth
<1>4. ASSUME NEW t \in Tokens, Saver(t) \/ Reader(t) \/ Child(t) \/ Trouble(t)
      PROVE  Truth'
  <2>1. \/ Quiet(t) \/ SaverPut(t) \/ KeepFinal(t) \/ Crash(t)
        \/ SaverStored(t) \/ SaverFailed(t) \/ FinalStored(t) \/ FinalFailed(t)
        \/ Finish(t)
    BY <1>4 DEF Saver, Reader, Trouble, Quiet
  <2> QED BY <2>1, QuietTruth, UpsertTruth, FinishTruth
<1> QED BY <1>1, <1>2, <1>3, <1>4 DEF Next

\* The invariant is one of the specification.
LEMMA Truthful == Spec => []Truth
<1> QED BY InitTruth, NextTruth, Invariant, PTL DEF Spec

\* However many trainers write to a take, one after the other or at once, the weights on
\* it are an epoch that the attempt they are signed with trained itself.
THEOREM WeightsAreTrained == Spec => []WeightsTrained
<1>1. Truth => WeightsTrained
  BY DEF Truth
<1> QED BY <1>1, Truthful, PTL

\* A run that holds its row finds its take as it left it: no late write of an attempt the
\* row was taken from comes in between (PutCheckpoint's fence, under its lock).
THEOREM BaseIsKept == Spec => []BaseStands
<1>1. Truth => BaseStands
  BY DEF Truth
<1> QED BY <1>1, Truthful, PTL

\* What a training that succeeded reports was trained by an attempt at it, closed by the
\* trainer, by a stop or by a pause, by this claim or an earlier one.
THEOREM SuccessesAreOwn == Spec => []SuccessIsOwn
<1>1. Truth => SuccessIsOwn
  BY DEF Truth
<1> QED BY <1>1, Truthful, PTL

-----------------------------------------------------------------------------
(* A run closed from the library.                                          *)

\* Once the child is reaped the saver is done, unless its last look outlives the wait.
Closing == {"classify", "keeping", "storing", "finish"}
SaverDone(a) == a.phase \in Closing => a.saver \in {"off", "done"}
Closed == \A t \in Tokens : SaverDone(att[t])

\* What a harvest is going to report is what the take holds, while the row is its own.
HarvestStands ==
  \A j \in Jobs, t \in Tokens :
    /\ row[j].state = "running" /\ row[j].token = t /\ att[t].plan = "harvested"
    => ckpt[TakeOf[j]].job = j /\ ckpt[TakeOf[j]].reached = att[t].reached

\* The saver of an attempt whose phase moves on, and the phase of one that is over.
LEMMA PhaseFrame ==
  ASSUME NEW a \in Attempt, NEW what, NEW n, NEW why
  PROVE  /\ Planned(a, what, n).saver = a.saver
         /\ Exported(a).saver = a.saver /\ ToRow(a).saver = a.saver
         /\ Returned(a).phase = "gone" /\ Dead(a).phase = "gone"
         /\ Killed(a, why).phase = a.phase /\ Killed(a, why).saver = a.saver
         /\ Rested(a).phase = a.phase
  BY DEF Planned, Exported, ToRow, Returned, Dead, Unused, Killed, Rested, Attempt

\* One attempt goes on, and its saver is done if it has to be.
LEMMA ClosedStep ==
  ASSUME IInv, Closed, NEW t \in Tokens, NEW b, att' = [att EXCEPT ![t] = b], SaverDone(b)
  PROVE  Closed'
  BY DEF IInv, AttInv, Closed

\* The steps before the child is reaped lead to no phase where it matters, and the ones
\* that skip the child have no saver.
LEMMA EarlyClosed ==
  ASSUME IInv, Truth, Closed, NEW t \in Tokens,
         \/ AnswerCancel(t) \/ AnswerStop(t) \/ SpawnChild(t) \/ RefuseJob(t)
         \/ RecordPgid(t) \/ ReadVerdict(t) \/ Eof(t) \/ Child(t)
         \/ \E why \in {"shutdown", "pause", "stall"} : Kill(t, why)
  PROVE  Closed'
<1> DEFINE a == att[t]
<1>1. a \in Attempt /\ att \in [Tokens -> Attempt] /\ Honest(a)
  BY DEF IInv, AttInv, Truth
<1>2. CASE AnswerCancel(t) \/ AnswerStop(t) \/ RefuseJob(t)
  <2>1. PICK what, n : att' = [att EXCEPT ![t] = Planned(a, what, n)]
    BY <1>2 DEF AnswerCancel, AnswerStop, RefuseJob
  <2>2. a.phase = "claimed"
    BY <1>2 DEF AnswerCancel, AnswerStop, RefuseJob
  <2>3. a.saver = "off"
    BY <1>1, <2>2 DEF Honest
  <2>4. SaverDone(Planned(a, what, n))
    BY <1>1, <2>3, PhaseFrame DEF SaverDone
  <2> QED BY <2>1, <2>4, ClosedStep
<1>3. CASE SpawnChild(t)
  <2> DEFINE from == Resume(a.job)
             b == [a EXCEPT !.phase = "spawned", !.child = "alive",
                            !.base = from, !.epoch = from]
  <2>1. att' = [att EXCEPT ![t] = b]
    BY <1>3 DEF SpawnChild
  <2> HIDE DEF from, a
  <2>2. b.phase = "spawned"
    BY <1>1 DEF Attempt
  <2> HIDE DEF b
  <2>3. SaverDone(b)
    BY <2>2 DEF SaverDone, Closing
  <2> QED BY <2>1, <2>3, ClosedStep
<1>4. CASE RecordPgid(t)
  <2> DEFINE s == IF TrainLane(a.job) THEN "idle" ELSE "off"
             Begun(c) == [c EXCEPT !.phase = "running", !.saver = s]
  <2>1. PICK c \in {a, Killed(a, "lost")} : att' = [att EXCEPT ![t] = Begun(c)]
    BY <1>4 DEF RecordPgid
  <2>2. "lost" \in Reasons
    BY DEF Reasons
  <2>3. c \in Attempt
    BY <1>1, <2>2, KilledType
  <2> HIDE DEF s, a
  <2>4. Begun(c).phase = "running"
    BY <2>3 DEF Attempt
  <2>5. SaverDone(Begun(c))
    BY <2>4 DEF SaverDone, Closing
  <2> QED BY <2>1, <2>5, ClosedStep
<1>5. CASE ReadVerdict(t)
  <2> DEFINE b == [a EXCEPT !.verdict = TRUE]
  <2>1. att' = [att EXCEPT ![t] = Killed(b, "verdict")] /\ a.phase = "running"
    BY <1>5 DEF ReadVerdict
  <2>2. b \in Attempt /\ b.phase = a.phase
    BY <1>1 DEF Attempt
  <2> HIDE DEF b
  <2>3. SaverDone(Killed(b, "verdict"))
    BY <2>1, <2>2, PhaseFrame DEF SaverDone, Closing
  <2> QED BY <2>1, <2>3, ClosedStep
<1>6. CASE Eof(t)
  <2> DEFINE b == [a EXCEPT !.phase = "draining"]
  <2>1. att' = [att EXCEPT ![t] = b]
    BY <1>6 DEF Eof
  <2>2. b.phase = "draining"
    BY <1>1 DEF Attempt
  <2> HIDE DEF b
  <2>3. SaverDone(b)
    BY <2>2 DEF SaverDone, Closing
  <2> QED BY <2>1, <2>3, ClosedStep
<1>7. CASE Child(t)
  <2>1. a.phase \in {"running", "draining"}
    BY <1>7 DEF Child, Epoch, Export, ChildExit
  <2>2. \E n, m, c :
          \/ att' = [att EXCEPT ![t] = [a EXCEPT !.epoch = n, !.nudged = TRUE]]
          \/ att' = [att EXCEPT ![t] = [a EXCEPT !.model = m]]
          \/ att' = [att EXCEPT ![t] = [a EXCEPT !.child = c]]
    BY <1>7 DEF Child, Epoch, Export, ChildExit
  <2>3. PICK b : att' = [att EXCEPT ![t] = b] /\ b.phase = a.phase
    BY <1>1, <2>2 DEF Attempt
  <2>4. SaverDone(b)
    BY <2>1, <2>3 DEF SaverDone, Closing
  <2> QED BY <2>3, <2>4, ClosedStep
<1>8. ASSUME NEW why, Kill(t, why) PROVE Closed'
  <2>1. att' = [att EXCEPT ![t] = Killed(a, why)] /\ a.phase \in Killable
    BY <1>8 DEF Kill
  <2>2. SaverDone(Killed(a, why))
    BY <1>1, <2>1, PhaseFrame DEF SaverDone, Closing, Killable
  <2> QED BY <2>1, <2>2, ClosedStep
<1> QED BY <1>2, <1>3, <1>4, <1>5, <1>6, <1>7, <1>8

\* The saver has nothing to do with a reaped child.
LEMMA SaverClosed ==
  ASSUME IInv, Closed, NEW t \in Tokens,
         SaverLook(t) \/ SaverPut(t) \/ SaverStored(t) \/ SaverFailed(t)
  PROVE  Closed' /\ att[t].phase \notin Closing /\ att'[t].phase = att[t].phase
<1> DEFINE a == att[t]
<1>1. a \in Attempt /\ att \in [Tokens -> Attempt]
  BY DEF IInv, AttInv
<1>2. a.phase \notin Closing
  BY DEF SaverLook, SaverPut, SaverStored, SaverFailed, Closed, SaverDone
<1>3. PICK b : att' = [att EXCEPT ![t] = b] /\ b.phase = a.phase
  <2>1. CASE SaverLook(t)
    <3>1. \E n, lastLook :
            \/ att' = [att EXCEPT ![t] = [a EXCEPT !.saver = "writing", !.pair = n,
                                            !.nudged = FALSE, !.last = lastLook]]
            \/ att' = [att EXCEPT ![t] =
                         Rested([a EXCEPT !.nudged = FALSE, !.last = lastLook])]
      BY <2>1 DEF SaverLook
    <3>2. ASSUME NEW n, NEW lastLook
          PROVE  /\ [a EXCEPT !.saver = "writing", !.pair = n,
                              !.nudged = FALSE, !.last = lastLook].phase = a.phase
                 /\ Rested([a EXCEPT !.nudged = FALSE, !.last = lastLook]).phase = a.phase
      BY <1>1 DEF Rested, Attempt
    <3>3. PICK n, lastLook :
            \/ att' = [att EXCEPT ![t] = [a EXCEPT !.saver = "writing", !.pair = n,
                                            !.nudged = FALSE, !.last = lastLook]]
            \/ att' = [att EXCEPT ![t] =
                         Rested([a EXCEPT !.nudged = FALSE, !.last = lastLook])]
      BY <3>1
    <3> DEFINE b == [a EXCEPT !.saver = "writing", !.pair = n,
                              !.nudged = FALSE, !.last = lastLook]
               c == Rested([a EXCEPT !.nudged = FALSE, !.last = lastLook])
    <3>4. (att' = [att EXCEPT ![t] = b] \/ att' = [att EXCEPT ![t] = c])
          /\ b.phase = a.phase /\ c.phase = a.phase
      BY <3>2, <3>3
    <3> HIDE DEF a, b, c
    <3> QED BY <3>4
  <2>2. CASE SaverPut(t)
    <3>1. \/ att' = [att EXCEPT ![t] = [a EXCEPT !.saver = "storing"]]
          \/ att' = [att EXCEPT ![t] = Killed(Rested(a), "lost")]
      BY <2>2 DEF SaverPut
    <3>2. [a EXCEPT !.saver = "storing"].phase = a.phase
      BY <1>1 DEF Attempt
    <3>3. Killed(Rested(a), "lost").phase = a.phase
      BY <1>1, RestedType, PhaseFrame
    <3> QED BY <3>1, <3>2, <3>3
  <2>3. CASE SaverStored(t) \/ SaverFailed(t)
    <3>1. \/ att' = [att EXCEPT ![t] = Rested(a)]
          \/ att' = [att EXCEPT ![t] = Killed(Rested(a), Verdict(a.job))]
      BY <2>3 DEF SaverStored, SaverFailed, Obeyed
    <3> QED BY <1>1, <3>1, RestedType, PhaseFrame
  <2> QED BY <2>1, <2>2, <2>3
<1>4. SaverDone(b)
  BY <1>2, <1>3 DEF SaverDone
<1>5. att'[t] = b
  BY <1>1, <1>3
<1> QED BY <1>2, <1>3, <1>4, <1>5, ClosedStep

\* From the reaping on, the saver is done.
LEMMA LateClosed ==
  ASSUME "overrun" \notin Faults, IInv, Closed, NEW t \in Tokens,
         \/ BeginReap(t) \/ Classify(t) \/ KeepFinal(t) \/ FinalStored(t) \/ FinalFailed(t)
         \/ Finish(t) \/ FinishFault(t) \/ Crash(t)
  PROVE  Closed'
<1> DEFINE a == att[t]
<1>1. a \in Attempt /\ att \in [Tokens -> Attempt]
  BY DEF IInv, AttInv
<1>2. CASE BeginReap(t)
  <2> DEFINE c == IF a.child = "alive" THEN "bad" ELSE a.child
             b == [a EXCEPT !.phase = "classify", !.child = c]
  <2>1. att' = [att EXCEPT ![t] = b] /\ a.saver \in {"off", "done"}
    BY <1>2 DEF BeginReap, Fault
  <2> HIDE DEF c, a
  <2>2. b.saver = a.saver
    BY <1>1 DEF Attempt
  <2> HIDE DEF b
  <2>3. SaverDone(b)
    BY <2>1, <2>2 DEF SaverDone
  <2> USE DEF a
  <2> QED BY <2>1, <2>3, ClosedStep
<1>3. CASE Classify(t) \/ KeepFinal(t) \/ FinalStored(t) \/ FinalFailed(t)
  <2>1. a.phase \in Closing
    BY <1>3 DEF Closing, KeepFinal, FinalStored, FinalFailed, Classify, ClassifyLost,
                ClassifyCancel, ClassifyRequeue, ClassifyProbe, ClassifyNatural,
                ClassifyHarvest, ClassifyLateExport, ClassifyEmpty, ClassifyFailed,
                EarlyStop, Judged
  <2>2. a.saver \in {"off", "done"}
    BY <2>1 DEF Closed, SaverDone
  <2>3. \E what, n :
          \/ att' = [att EXCEPT ![t] = Planned(a, what, n)]
          \/ att' = [att EXCEPT ![t] = Returned(a)]
          \/ att' = [att EXCEPT ![t] = Exported(a)]
          \/ att' = [att EXCEPT ![t] = ToRow(a)]
          \/ att' = [att EXCEPT ![t].phase = "storing"]
    BY <1>3 DEF KeepFinal, FinalStored, FinalFailed, Classify, ClassifyLost,
                ClassifyCancel, ClassifyRequeue, ClassifyProbe, ClassifyNatural,
                ClassifyHarvest, ClassifyLateExport, ClassifyEmpty, ClassifyFailed,
                TrainSuccess
  <2>4. [a EXCEPT !.phase = "storing"].saver = a.saver
    BY <1>1 DEF Attempt
  <2>5. Returned(a).phase \notin Closing
    BY <1>1, PhaseFrame DEF Closing
  <2>6. PICK what, n :
          \/ att' = [att EXCEPT ![t] = Planned(a, what, n)]
          \/ att' = [att EXCEPT ![t] = Returned(a)]
          \/ att' = [att EXCEPT ![t] = Exported(a)]
          \/ att' = [att EXCEPT ![t] = ToRow(a)]
          \/ att' = [att EXCEPT ![t] = [a EXCEPT !.phase = "storing"]]
    BY <2>3
  <2>7. /\ SaverDone(Planned(a, what, n)) /\ SaverDone(Returned(a))
        /\ SaverDone(Exported(a)) /\ SaverDone(ToRow(a))
        /\ SaverDone([a EXCEPT !.phase = "storing"])
    BY <1>1, <2>2, <2>4, <2>5, PhaseFrame DEF SaverDone
  <2> QED BY <2>6, <2>7, ClosedStep
<1>4. CASE Finish(t) \/ FinishFault(t) \/ Crash(t)
  <2>1. \/ att' = [att EXCEPT ![t] = Returned(a)]
        \/ att' = [att EXCEPT ![t] = Dead(a)]
    BY <1>4 DEF Finish, FinishFault, Crash
  <2>2. SaverDone(Returned(a)) /\ SaverDone(Dead(a))
    BY <1>1, PhaseFrame DEF SaverDone, Closing
  <2> QED BY <2>1, <2>2, ClosedStep
<1> QED BY <1>2, <1>3, <1>4

\* A step of whoever it is.
LEMMA StaysClosed ==
  ASSUME "overrun" \notin Faults, IInv, Truth, Closed, [Next]_vars
  PROVE  Closed'
<1>1. CASE UNCHANGED att
  BY <1>1 DEF Closed
<1>2. ASSUME NEW j \in Jobs, Application(j) \/ Close(j) \/ MarkSilent(j) \/ MarkSlow(j)
      PROVE  Closed'
  BY <1>1, <1>2 DEF Application, Close, MarkSilent, MarkSlow
<1>3. ASSUME NEW j \in Jobs, NEW t \in Tokens, Claim(j, t) \/ ClaimUnheard(j, t)
      PROVE  Closed'
  <2> DEFINE b == [Unused EXCEPT !.phase = "claimed", !.job = j,
                                 !.stop = row[j].stop, !.cancel = row[j].cancel]
             c == [Unused EXCEPT !.phase = "gone", !.job = j]
  <2>1. att' = [att EXCEPT ![t] = b] \/ att' = [att EXCEPT ![t] = c]
    BY <1>3 DEF Claim, ClaimUnheard
  <2>2. b.phase = "claimed" /\ c.phase = "gone"
    BY DEF Unused
  <2> HIDE DEF b, c
  <2>3. SaverDone(b) /\ SaverDone(c)
    BY <2>2 DEF SaverDone, Closing
  <2> QED BY <2>1, <2>3, ClosedStep
<1>4. ASSUME NEW t \in Tokens, Saver(t) \/ Reader(t) \/ Child(t) \/ Trouble(t)
      PROVE  Closed'
  <2>1. \/ AnswerCancel(t) \/ AnswerStop(t) \/ SpawnChild(t) \/ RefuseJob(t)
        \/ RecordPgid(t) \/ ReadVerdict(t) \/ Eof(t) \/ Child(t)
        \/ \E why \in {"shutdown", "pause", "stall"} : Kill(t, why)
        \/ SaverLook(t) \/ SaverPut(t) \/ SaverStored(t) \/ SaverFailed(t)
        \/ BeginReap(t) \/ Classify(t) \/ KeepFinal(t) \/ FinalStored(t) \/ FinalFailed(t)
        \/ Finish(t) \/ FinishFault(t) \/ Crash(t)
    BY <1>4 DEF Saver, Reader, Trouble
  <2> QED BY <2>1, EarlyClosed, SaverClosed, LateClosed
<1> QED BY <1>1, <1>2, <1>3, <1>4 DEF Next, vars

\* The take of a run that is about to report it does not move.
LEMMA HarvestMoves ==
  ASSUME IInv, Truth, HarvestStands, Planning, RowsHeld,
         \A j \in Jobs, t \in Tokens :
           row'[j].state = "running" /\ row'[j].token = t /\ att'[t].plan = "harvested"
             => ckpt'[TakeOf[j]] = ckpt[TakeOf[j]]
  PROVE  HarvestStands'
<1> SUFFICES ASSUME NEW j \in Jobs, NEW t \in Tokens,
                    row'[j].state = "running", row'[j].token = t, att'[t].plan = "harvested"
             PROVE  ckpt'[TakeOf[j]].job = j /\ ckpt'[TakeOf[j]].reached = att'[t].reached
  BY DEF HarvestStands
<1>1. row[j].state = "running" /\ row[j].token = t
  BY DEF RowsHeld
<1>2. att[t].job = j
  BY <1>1 DEF Truth, Tenancy, TokenOwned
<1>3. ckpt'[TakeOf[j]] = ckpt[TakeOf[j]]
  OBVIOUS
<1> QED BY <1>1, <1>2, <1>3 DEF Planning, HarvestStands, OwnWeights

\* Beside an undisturbed library nothing moves at all.
LEMMA HarvestUndisturbed ==
  ASSUME IInv, Truth, HarvestStands, Planning, RowsHeld, TakesStand
  PROVE  HarvestStands'
  BY HarvestMoves DEF TakesStand

\* A job is queued: no run is concerned.
LEMMA EnqueueStands ==
  ASSUME IInv, NEW j \in Jobs, Enqueue(j)
  PROVE  RowsHeld /\ RowsDone /\ TakesStand /\ TakesKept
<1> DEFINE r == [row[j] EXCEPT !.state = "queued"]
<1>1. row[j] \in Row /\ row' = [row EXCEPT ![j] = r] /\ UNCHANGED ckpt
  BY Tables DEF Enqueue
<1>2. r.state = "queued" /\ r.token = row[j].token
  BY <1>1 DEF Row
<1> HIDE DEF r
<1>3. row'[j] = r /\ \A i \in Jobs : i # j => row'[i] = row[i]
  BY <1>1, Tables
<1> QED BY <1>1, <1>2, <1>3 DEF RowsHeld, RowsDone, TakesStand, TakesKept

\* A row that is claimed goes to a claim that plans nothing yet.
LEMMA ClaimPlansNothing ==
  ASSUME IInv, NEW j \in Jobs, NEW t \in Tokens, Claim(j, t) \/ ClaimUnheard(j, t)
  PROVE  /\ att'[t].plan = "none" /\ \A u \in Tokens : u # t => att'[u] = att[u]
         /\ row'[j].token = t /\ row'[j].state = "running"
         /\ \A i \in Jobs : i # j => row'[i] = row[i]
         /\ UNCHANGED ckpt
<1> DEFINE b == [Unused EXCEPT !.phase = "claimed", !.job = j,
                               !.stop = row[j].stop, !.cancel = row[j].cancel]
           c == [Unused EXCEPT !.phase = "gone", !.job = j]
           r == [row[j] EXCEPT !.state = "running", !.token = t, !.paused = FALSE]
<1>1. att' = [att EXCEPT ![t] = b] \/ att' = [att EXCEPT ![t] = c]
  BY DEF Claim, ClaimUnheard
<1>2. b.plan = "none" /\ c.plan = "none"
  BY DEF Unused
<1>3. row' = [row EXCEPT ![j] = r] /\ UNCHANGED ckpt
  BY DEF Claim, ClaimUnheard, ClaimNext
<1>4. row[j] \in Row
  BY Tables
<1>5. r.token = t /\ r.state = "running"
  BY <1>4 DEF Row
<1> HIDE DEF b, c, r
<1>6. att'[t] \in {b, c} /\ \A u \in Tokens : u # t => att'[u] = att[u]
  BY <1>1 DEF IInv, AttInv
<1>7. row'[j] = r /\ \A i \in Jobs : i # j => row'[i] = row[i]
  BY <1>3, Tables
<1> QED BY <1>2, <1>3, <1>5, <1>6, <1>7

\* The write of another claim is to another take, and a run that is about to report has
\* no write of its own on the way.
LEMMA StoreStands ==
  ASSUME IInv, Truth, Closed, HarvestStands, NEW t \in Tokens,
         SaverStored(t) \/ SaverFailed(t) \/ FinalStored(t) \/ FinalFailed(t),
         NEW n, PutStore(att[t].job, t, n), locked[att[t].job] = t, att'[t].plan # "harvested"
  PROVE  HarvestStands'
<1> DEFINE j == att[t].job
<1>1. Advances(t) /\ Honestly /\ j \in Jobs
  BY UpsertAdvances, AdvancesHonest, Numbers DEF Advances
<1>2. UNCHANGED row /\ ckpt' = [ckpt EXCEPT ![TakeOf[j]] = [job |-> j, token |-> t, reached |-> n]]
  BY DEF PutStore
<1>3. row[j].state = "running" /\ row[j].token = t
  BY <1>1, Tables DEF IInv, LibInv, LockHolds, HolderOf
<1>4. ASSUME NEW i \in Jobs, NEW u \in Tokens,
             row'[i].state = "running", row'[i].token = u, att'[u].plan = "harvested"
      PROVE  ckpt'[TakeOf[i]] = ckpt[TakeOf[i]]
  <2>1. row[i].state = "running" /\ row[i].token # t
    BY <1>2, <1>4
  <2>2. i # j
    BY <1>3, <2>1
  <2>3. TakeOf[i] # TakeOf[j]
    BY <1>1, <1>3, <2>1, <2>2 DEF Truth, Tenancy, OneLive, Live
  <2> QED BY <1>2, <2>3, Tables
<1>5. RowsHeld
  BY <1>2 DEF RowsHeld
<1> QED BY <1>1, <1>4, <1>5, HarvestMoves DEF Honestly

\* A write that is over leaves the runs that are about to report alone.
LEMMA UpsertHarvest ==
  ASSUME IInv, IInv', Truth, Truth', Closed, HarvestStands, NEW t \in Tokens,
         SaverStored(t) \/ SaverFailed(t) \/ FinalStored(t) \/ FinalFailed(t)
  PROVE  HarvestStands'
<1> DEFINE a == att[t]
           j == a.job
<1>1. Advances(t) /\ Honestly
  BY UpsertAdvances, AdvancesHonest
<1>2. a \in Attempt /\ att \in [Tokens -> Attempt]
  BY DEF IInv, AttInv
<1>3. CASE UNCHANGED libVars \/ Rollback(j, t)
  <2>1. UNCHANGED <<row, ckpt>>
    BY <1>3 DEF libVars, Rollback
  <2> QED BY <1>1, <2>1, SameUndisturbed, HarvestUndisturbed DEF Honestly, Undisturbed
<1>4. CASE (SaverStored(t) \/ SaverFailed(t)) /\ PutStore(j, t, a.pair) /\ a.saver = "storing"
  <2>1. locked[j] = t
    BY <1>4 DEF IInv, AttInv, Storing
  <2>2. att'[t].phase \notin Closing
    BY <1>4, SaverClosed
  <2>3. att'[t].plan # "harvested"
    BY <2>2 DEF Truth, Honest, Closing
  <2> QED BY <1>4, <2>1, <2>3, StoreStands
<1>5. CASE (FinalStored(t) \/ FinalFailed(t)) /\ PutStore(j, t, Epochs[j]) /\ a.phase = "storing"
  <2>1. locked[j] = t
    BY <1>5 DEF IInv, AttInv, Storing
  <2>2. att' = [att EXCEPT ![t] = ToRow(a)]
    BY <1>5 DEF FinalStored, FinalFailed
  <2>3. ToRow(a).plan = "exported"
    BY <1>2 DEF ToRow, Planned, Attempt
  <2>4. att'[t].plan # "harvested"
    BY <1>2, <2>2, <2>3
  <2> QED BY <1>5, <2>1, <2>4, StoreStands
<1> QED
  BY <1>3, <1>4, <1>5 DEF SaverStored, SaverFailed, FinalStored, FinalFailed

\* A success that counts, as a step of the rows.
LEMMA SucceededRow ==
  ASSUME IInv, NEW j \in Jobs, NEW t \in Tokens, NEW n,
         FinishSucceeded(j, t, n), Mine(j, t), ~row[j].cancel
  PROVE  /\ row'[j].state = "succeeded" /\ row'[j].result = n
         /\ \A i \in Jobs : i # j => row'[i] = row[i]
         /\ RowsHeld /\ TakesStand
<1> DEFINE r == [row[j] EXCEPT !.state = "succeeded", !.result = n]
<1>1. row' = [row EXCEPT ![j] = r] /\ UNCHANGED ckpt
  BY DEF FinishSucceeded
<1>2. row[j] \in Row
  BY Tables
<1>3. r.state = "succeeded" /\ r.token = row[j].token /\ r.result = n
  BY <1>2 DEF Row
<1> HIDE DEF r
<1>4. row'[j] = r /\ \A i \in Jobs : i # j => row'[i] = row[i]
  BY <1>1, Tables
<1> QED BY <1>1, <1>3, <1>4 DEF RowsHeld, TakesStand

\* HarvestAgrees, of one step.
Reported ==
  \A j \in Jobs :
    /\ row[j].state = "running" /\ row'[j].state = "succeeded"
    /\ att[row[j].token].plan = "harvested"
    => ckpt[TakeOf[j]].job = j /\ row'[j].result = ckpt[TakeOf[j]].reached

\* A step beside an undisturbed library reports nothing.
LEMMA UndisturbedHarvest ==
  ASSUME IInv, Truth, HarvestStands, Honestly, Undisturbed
  PROVE  HarvestStands' /\ Reported
<1>1. HarvestStands'
  BY HarvestUndisturbed DEF Honestly, Undisturbed
<1>2. Reported
  BY DEF Undisturbed, RowsDone, Reported
<1> QED BY <1>1, <1>2

\* A terminal write reports what its attempt planned, and that is what the take holds.
LEMMA FinishHarvest ==
  ASSUME IInv, Truth, HarvestStands, NEW t \in Tokens, Finish(t)
  PROVE  HarvestStands' /\ Reported
<1> DEFINE j == att[t].job
<1>1. Advances(t) /\ Honestly /\ j \in Jobs
  BY OverAdvances, AdvancesHonest, Numbers DEF Advances
<1>2. CASE \/ FinishFailed(j, t) \/ FinishCancelled(j, t) \/ RequeueJob(j, t)
           \/ FinishSucceeded(j, t, 0) /\ ~(Mine(j, t) /\ ~row[j].cancel)
           \/ FinishSucceeded(j, t, att[t].reached) /\ ~(Mine(j, t) /\ ~row[j].cancel)
  <2>1. Undisturbed
    BY <1>1, <1>2, FinishUndisturbed DEF Truth
  <2> QED BY <1>1, <2>1, UndisturbedHarvest
<1>3. CASE /\ Mine(j, t) /\ ~row[j].cancel
           /\ \/ att[t].plan = "verdict" /\ FinishSucceeded(j, t, 0)
              \/ att[t].plan \in {"exported", "harvested"}
                   /\ FinishSucceeded(j, t, att[t].reached)
  <2>1. PICK n : FinishSucceeded(j, t, n) /\ (att[t].plan = "harvested" => n = att[t].reached)
    BY <1>3
  <2>2. /\ row'[j].result = n /\ \A i \in Jobs : i # j => row'[i] = row[i]
        /\ RowsHeld /\ TakesStand
    BY <1>1, <1>3, <2>1, SucceededRow
  <2>3. HarvestStands'
    BY <1>1, <2>2, HarvestUndisturbed DEF Honestly
  <2>4. Reported
    <3> SUFFICES ASSUME NEW i \in Jobs, row[i].state = "running",
                        row'[i].state = "succeeded", att[row[i].token].plan = "harvested"
                 PROVE  ckpt[TakeOf[i]].job = i /\ row'[i].result = ckpt[TakeOf[i]].reached
      BY DEF Reported
    <3>1. i = j
      BY <2>2
    <3>2. row[j].token = t
      BY <1>3 DEF Mine
    <3> QED BY <2>1, <2>2, <3>1, <3>2 DEF HarvestStands
  <2> QED BY <2>3, <2>4
<1> QED BY <1>2, <1>3 DEF Finish, TerminalWrite, FinishProbeSelf

\* Every step keeps what is going to be reported, and what it reports is that.
LEMMA NextHarvest ==
  ASSUME IInv, IInv', Truth, Truth', Closed, HarvestStands, [Next]_vars
  PROVE  HarvestStands' /\ Reported
<1>1. CASE UNCHANGED vars
  BY <1>1, StillHonest, SameUndisturbed, UndisturbedHarvest DEF vars
<1>2. ASSUME NEW j \in Jobs, Application(j) \/ Close(j) \/ MarkSilent(j) \/ MarkSlow(j)
      PROVE  HarvestStands' /\ Reported
  <2>1. Honestly
    BY <1>2, StillHonest DEF Application, Close, MarkSilent, MarkSlow
  <2>2. CASE Enqueue(j)
    <3>1. RowsHeld /\ RowsDone /\ TakesStand
      BY <2>2, EnqueueStands
    <3> QED BY <2>1, <3>1, HarvestUndisturbed DEF Honestly, RowsDone, Reported
  <2>3. CASE ~Enqueue(j)
    <3>1. Undisturbed
      BY <1>2, <2>3, OutsideUndisturbed DEF Truth, Application, Close, MarkSilent, MarkSlow
    <3> QED BY <2>1, <3>1, UndisturbedHarvest
  <2> QED BY <2>2, <2>3
<1>3. ASSUME NEW j \in Jobs, NEW t \in Tokens, Claim(j, t) \/ ClaimUnheard(j, t)
      PROVE  HarvestStands' /\ Reported
  <2>1. /\ att'[t].plan = "none" /\ \A u \in Tokens : u # t => att'[u] = att[u]
        /\ row'[j].token = t /\ row'[j].state = "running"
        /\ \A i \in Jobs : i # j => row'[i] = row[i]
        /\ UNCHANGED ckpt
    BY <1>3, ClaimPlansNothing
  <2>2. HarvestStands'
    <3> SUFFICES ASSUME NEW i \in Jobs, NEW u \in Tokens,
                        row'[i].state = "running", row'[i].token = u, att'[u].plan = "harvested"
                 PROVE  ckpt'[TakeOf[i]].job = i /\ ckpt'[TakeOf[i]].reached = att'[u].reached
      BY DEF HarvestStands
    <3>1. u # t /\ i # j
      BY <2>1
    <3> QED BY <2>1, <3>1 DEF HarvestStands
  <2>3. Reported
    BY <2>1 DEF Reported
  <2> QED BY <2>2, <2>3
<1>4. ASSUME NEW t \in Tokens, Saver(t) \/ Reader(t) \/ Child(t) \/ Trouble(t)
      PROVE  HarvestStands' /\ Reported
  <2>1. CASE Quiet(t) \/ SaverPut(t) \/ KeepFinal(t) \/ Crash(t)
    <3>1. Honestly
      BY <2>1, QuietAdvances, FenceAdvances, OverAdvances, AdvancesHonest
    <3>2. UNCHANGED <<row, ckpt>>
      BY <2>1, QuietAdvances
         DEF libVars, SaverPut, KeepFinal, PutLock, PutRefused, Crash, Rollback
    <3> QED BY <3>1, <3>2, SameUndisturbed, UndisturbedHarvest
  <2>2. CASE SaverStored(t) \/ SaverFailed(t) \/ FinalStored(t) \/ FinalFailed(t)
    <3>1. HarvestStands'
      BY <2>2, UpsertHarvest
    <3>2. UNCHANGED row
      BY <2>2 DEF SaverStored, SaverFailed, FinalStored, FinalFailed, PutStore, Rollback,
                  libVars
    <3> QED BY <3>1, <3>2 DEF Reported
  <2>3. CASE Finish(t)
    BY <2>3, FinishHarvest
  <2> QED BY <1>4, <2>1, <2>2, <2>3 DEF Saver, Reader, Trouble, Quiet
<1> QED BY <1>1, <1>2, <1>3, <1>4 DEF Next

\* A run closed from the library, by a stop or by a pause, reports what the library holds
\* and holds what it reports, if the wait for the saver is long enough for its last look.
THEOREM HarvestsAgree ==
  ASSUME "overrun" \notin Faults
  PROVE  Spec => HarvestAgrees
<1>1. Init => Closed /\ HarvestStands
  <2> SUFFICES ASSUME Init PROVE Closed /\ HarvestStands
    OBVIOUS
  <2>1. \A t \in Tokens : att[t].phase = "none"
    BY DEF Init, Unused
  <2>2. \A j \in Jobs : row[j].state = "absent"
    BY DEF Init, LibraryInit, NoRow
  <2> QED BY <2>1, <2>2 DEF Closed, SaverDone, Closing, HarvestStands
<1>2. IInv /\ Truth /\ Closed /\ [Next]_vars => Closed'
  BY StaysClosed
<1>3. IInv /\ IInv' /\ Truth /\ Truth' /\ Closed /\ HarvestStands /\ [Next]_vars
        => HarvestStands' /\ Reported
  BY NextHarvest
<1>4. Reported => \A j \in Jobs :
        /\ row[j].state = "running" /\ row'[j].state = "succeeded"
        /\ att[row[j].token].plan = "harvested"
        => /\ ckpt[TakeOf[j]].job = j
           /\ row'[j].result = ckpt[TakeOf[j]].reached
  BY DEF Reported
<1> QED BY <1>1, <1>2, <1>3, <1>4, Invariant, Truthful, PTL DEF Spec, HarvestAgrees

-----------------------------------------------------------------------------
(* Attempts implements Handover.                                           *)

\* The state of Handover that the library and the attempts stand for.
Stages == [j \in Jobs |-> StageOf(row[j])]
Holders == [j \in Jobs |-> HolderOf(row[j])]
Claims == {t \in Tokens : att[t].phase # "none"}
Keeps == [k \in Takes |-> [job |-> ckpt[k].job, token |-> ckpt[k].token]]

\* What Handover allows a step to do.
Allowed == [Lease!Next]_(Lease!vars)

\* Each of its steps, over that state.
LEMMA SameAllowed ==
  ASSUME UNCHANGED <<Stages, Holders, Claims, Keeps>> PROVE Allowed
  BY DEF Allowed, Lease!vars, Stages, Holders, Claims, Keeps

LEMMA OfferAllowed ==
  ASSUME NEW j \in Jobs, Stages[j] = "absent",
         \A i \in Jobs : TakeOf[i] = TakeOf[j] => Stages[i] # "open",
         Stages' = [Stages EXCEPT ![j] = "open"],
         UNCHANGED <<Holders, Claims, Keeps>>
  PROVE  Allowed
<1>1. Lease!Offer(j)
  BY DEF Lease!Offer, Stages, Holders, Claims, Keeps
<1> QED BY <1>1 DEF Allowed, Lease!Next

LEMMA TakeUpAllowed ==
  ASSUME NEW j \in Jobs, NEW t \in Tokens, Stages[j] = "open", Holders[j] = NoToken,
         t \notin Claims, Holders' = [Holders EXCEPT ![j] = t],
         Claims' = Claims \cup {t}, UNCHANGED <<Stages, Keeps>>
  PROVE  Allowed
<1>1. Lease!TakeUp(j, t)
  BY DEF Lease!TakeUp, Stages, Holders, Claims, Keeps
<1> QED BY <1>1 DEF Allowed, Lease!Next

LEMMA LetGoAllowed ==
  ASSUME NEW j \in Jobs, Holders[j] # NoToken, Holders' = [Holders EXCEPT ![j] = NoToken],
         UNCHANGED <<Stages, Claims, Keeps>>
  PROVE  Allowed
<1>1. Lease!LetGo(j)
  BY DEF Lease!LetGo, Stages, Holders, Claims, Keeps
<1> QED BY <1>1 DEF Allowed, Lease!Next

LEMMA KeepAllowed ==
  ASSUME NEW j \in Jobs, Holders[j] # NoToken,
         Keeps' = [Keeps EXCEPT ![TakeOf[j]] = [job |-> j, token |-> Holders[j]]],
         UNCHANGED <<Stages, Holders, Claims>>
  PROVE  Allowed
<1>1. Lease!Keep(j)
  BY DEF Lease!Keep, Stages, Holders, Claims, Keeps
<1> QED BY <1>1 DEF Allowed, Lease!Next

LEMMA EndAllowed ==
  ASSUME NEW j \in Jobs, Stages[j] = "open",
         NEW how \in {"succeeded", "failed"}, Stages' = [Stages EXCEPT ![j] = how],
         Holders' = [Holders EXCEPT ![j] = NoToken], UNCHANGED <<Claims, Keeps>>
  PROVE  Allowed
<1>1. Lease!End(j)
  BY DEF Lease!End, Stages, Holders, Claims, Keeps
<1> QED BY <1>1 DEF Allowed, Lease!Next

LEMMA CancelAllowed ==
  ASSUME NEW j \in Jobs, Stages[j] = "open", Stages' = [Stages EXCEPT ![j] = "cancelled"],
         Holders' = [Holders EXCEPT ![j] = NoToken], UNCHANGED Claims,
         \/ UNCHANGED Keeps
         \/ Keeps' = [Keeps EXCEPT ![TakeOf[j]] = [job |-> NoJob, token |-> NoToken]],
         Keeps'[TakeOf[j]].job # j
  PROVE  Allowed
<1>1. Lease!Cancel(j)
  BY DEF Lease!Cancel, Lease!Nothing, Stages, Holders, Claims, Keeps
<1> QED BY <1>1 DEF Allowed, Lease!Next

\* One row changes.
LEMMA RowMaps ==
  ASSUME IInv, NEW j \in Jobs, NEW r, row' = [row EXCEPT ![j] = r]
  PROVE  /\ Stages' = [Stages EXCEPT ![j] = StageOf(r)]
         /\ Holders' = [Holders EXCEPT ![j] = HolderOf(r)]
         /\ Stages[j] = StageOf(row[j]) /\ Holders[j] = HolderOf(row[j])
<1>1. row'[j] = r /\ \A i \in Jobs : i # j => row'[i] = row[i]
  BY Tables
<1>2. Stages' = [Stages EXCEPT ![j] = StageOf(r)]
  <2>1. \A i \in Jobs : Stages'[i] = StageOf(row'[i])
    BY DEF Stages, StageOf
  <2>2. \A i \in Jobs : Stages[i] = StageOf(row[i])
    BY DEF Stages
  <2>3. \A i \in Jobs : Stages'[i] = [Stages EXCEPT ![j] = StageOf(r)][i]
    BY <1>1, <2>1, <2>2 DEF Stages
  <2> QED BY <2>3 DEF Stages
<1>3. Holders' = [Holders EXCEPT ![j] = HolderOf(r)]
  <2>1. \A i \in Jobs : Holders'[i] = HolderOf(row'[i])
    BY DEF Holders, HolderOf
  <2>2. \A i \in Jobs : Holders[i] = HolderOf(row[i])
    BY DEF Holders
  <2>3. \A i \in Jobs : Holders'[i] = [Holders EXCEPT ![j] = HolderOf(r)][i]
    BY <1>1, <2>1, <2>2 DEF Holders
  <2> QED BY <2>3 DEF Holders
<1> QED BY <1>2, <1>3 DEF Stages, Holders

\* No row, no take and no claim changes.
LEMMA SameMaps ==
  /\ UNCHANGED row => UNCHANGED <<Stages, Holders>>
  /\ UNCHANGED ckpt => UNCHANGED Keeps
  /\ UNCHANGED att => UNCHANGED Claims
  BY DEF Stages, Holders, Keeps, Claims, StageOf, HolderOf

\* An attempt that goes on is none that begins.
LEMMA ClaimsStay ==
  ASSUME IInv, NEW t \in Tokens, Advances(t)
  PROVE  UNCHANGED Claims
<1>1. PICK b : att' = [att EXCEPT ![t] = b] /\ b.phase # "none" /\ att[t].phase # "none"
  BY DEF Advances, Advance
<1>2. att'[t] = b /\ \A u \in Tokens : u # t => att'[u] = att[u]
  BY <1>1 DEF IInv, AttInv
<1> QED BY <1>1, <1>2 DEF Claims

\* One take changes.
LEMMA TakeMaps ==
  ASSUME IInv, NEW k \in Takes, NEW w, ckpt' = [ckpt EXCEPT ![k] = w]
  PROVE  /\ Keeps' = [Keeps EXCEPT ![k] = [job |-> w.job, token |-> w.token]]
         /\ Keeps'[k] = [job |-> w.job, token |-> w.token]
<1>1. ckpt'[k] = w /\ \A i \in Takes : i # k => ckpt'[i] = ckpt[i]
  BY Tables
<1> QED BY <1>1 DEF Keeps

\* A job is cancelled: its weights go, or were not there.
LEMMA CancelledAllowed ==
  ASSUME IInv, NEW j \in Jobs, Live(j), NEW r, row' = [row EXCEPT ![j] = r],
         r.state = "cancelled", MoveAside(j), UNCHANGED Claims
  PROVE  Allowed
<1>1. /\ Stages' = [Stages EXCEPT ![j] = StageOf(r)]
      /\ Holders' = [Holders EXCEPT ![j] = HolderOf(r)]
      /\ Stages[j] = StageOf(row[j])
  BY RowMaps
<1>2. StageOf(r) = "cancelled" /\ HolderOf(r) = NoToken /\ StageOf(row[j]) = "open"
  BY DEF StageOf, HolderOf, Live
<1>3. TakeOf[j] \in Takes /\ NoJob # j
  BY Tables
<1>4. CASE ckpt' = [ckpt EXCEPT ![TakeOf[j]] = NoWeights]
  <2>1. NoWeights.job = NoJob /\ NoWeights.token = NoToken
    BY DEF NoWeights
  <2>2. /\ Keeps' = [Keeps EXCEPT ![TakeOf[j]] = [job |-> NoJob, token |-> NoToken]]
        /\ Keeps'[TakeOf[j]] = [job |-> NoJob, token |-> NoToken]
    BY <1>3, <1>4, <2>1, TakeMaps
  <2>3. Keeps'[TakeOf[j]].job # j
    BY <1>3, <2>2
  <2> QED BY <1>1, <1>2, <2>2, <2>3, CancelAllowed
<1>5. CASE ckpt[TakeOf[j]].job # j /\ UNCHANGED ckpt
  <2>1. UNCHANGED Keeps
    BY <1>5, SameMaps
  <2>2. Keeps'[TakeOf[j]].job # j
    BY <1>3, <1>5, <2>1 DEF Keeps
  <2> QED BY <1>1, <1>2, <2>1, <2>2, CancelAllowed
<1> QED BY <1>4, <1>5 DEF MoveAside

LEMMA CloseAllowed ==
  ASSUME IInv, NEW j \in Jobs, Live(j), CloseCancelled(j), UNCHANGED Claims
  PROVE  Allowed
<1> DEFINE r == [row[j] EXCEPT !.state = "cancelled"]
<1>1. row' = [row EXCEPT ![j] = r] /\ MoveAside(j)
  BY DEF CloseCancelled
<1>2. r.state = "cancelled"
  BY Tables DEF Row
<1> HIDE DEF r
<1> QED BY <1>1, <1>2, CancelledAllowed

\* The row changes in a way that does not show.
LEMMA HiddenAllowed ==
  ASSUME IInv, NEW j \in Jobs, NEW r, row' = [row EXCEPT ![j] = r],
         r.state = row[j].state, r.token = row[j].token, r.paused = row[j].paused,
         UNCHANGED ckpt, UNCHANGED Claims
  PROVE  Allowed
<1>1. /\ Stages' = [Stages EXCEPT ![j] = StageOf(r)]
      /\ Holders' = [Holders EXCEPT ![j] = HolderOf(r)]
      /\ Stages[j] = StageOf(row[j]) /\ Holders[j] = HolderOf(row[j])
  BY RowMaps
<1>2. StageOf(r) = StageOf(row[j]) /\ HolderOf(r) = HolderOf(row[j])
  BY DEF StageOf, HolderOf
<1>3. UNCHANGED <<Stages, Holders>>
  BY <1>1, <1>2 DEF Stages, Holders
<1> QED BY <1>3, SameMaps, SameAllowed

\* An open row is let go: it stays open and nobody holds it any more.
LEMMA FreedAllowed ==
  ASSUME IInv, NEW j \in Jobs, NEW r, row' = [row EXCEPT ![j] = r],
         Live(j), r.state \in {"queued", "running"}, HolderOf(r) = NoToken,
         UNCHANGED ckpt, UNCHANGED Claims
  PROVE  Allowed
<1>1. /\ Stages' = [Stages EXCEPT ![j] = StageOf(r)]
      /\ Holders' = [Holders EXCEPT ![j] = NoToken]
      /\ Stages[j] = StageOf(row[j])
  BY RowMaps
<1>2. StageOf(r) = "open" /\ StageOf(row[j]) = "open"
  BY DEF StageOf, Live
<1>3. UNCHANGED Stages
  BY <1>1, <1>2 DEF Stages
<1>4. CASE Holders[j] = NoToken
  <2>1. UNCHANGED Holders
    BY <1>1, <1>4 DEF Holders
  <2> QED BY <1>3, <2>1, SameMaps, SameAllowed
<1>5. CASE Holders[j] # NoToken
  BY <1>1, <1>3, <1>5, SameMaps, LetGoAllowed
<1> QED BY <1>4, <1>5

\* An open row ends otherwise.
LEMMA EndedAllowed ==
  ASSUME IInv, NEW j \in Jobs, NEW r, row' = [row EXCEPT ![j] = r],
         Live(j), r.state \in {"succeeded", "failed"}, UNCHANGED ckpt, UNCHANGED Claims
  PROVE  Allowed
<1>1. /\ Stages' = [Stages EXCEPT ![j] = StageOf(r)]
      /\ Holders' = [Holders EXCEPT ![j] = HolderOf(r)]
      /\ Stages[j] = StageOf(row[j])
  BY RowMaps
<1>2. StageOf(r) = r.state /\ HolderOf(r) = NoToken /\ StageOf(row[j]) = "open"
  BY DEF StageOf, HolderOf, Live
<1> QED BY <1>1, <1>2, SameMaps, EndAllowed

\* The application and cron.
LEMMA OutsiderAllowed ==
  ASSUME IInv, NEW j \in Jobs, Application(j) \/ Close(j) \/ MarkSilent(j) \/ MarkSlow(j)
  PROVE  Allowed
<1>1. UNCHANGED Claims
  BY SameMaps DEF Application, Close, MarkSilent, MarkSlow
<1>2. row[j] \in Row
  BY Tables
<1>3. CASE Enqueue(j)
  <2> DEFINE r == [row[j] EXCEPT !.state = "queued"]
  <2>1. /\ row' = [row EXCEPT ![j] = r] /\ UNCHANGED ckpt /\ row[j].state = "absent"
        /\ \A i \in Jobs : TakeOf[i] = TakeOf[j] => ~Live(i)
    BY <1>3 DEF Enqueue
  <2>2. r.state = "queued"
    BY <1>2 DEF Row
  <2> HIDE DEF r
  <2>3. /\ Stages' = [Stages EXCEPT ![j] = StageOf(r)]
        /\ Holders' = [Holders EXCEPT ![j] = HolderOf(r)]
        /\ Stages[j] = StageOf(row[j]) /\ Holders[j] = HolderOf(row[j])
    BY <2>1, RowMaps
  <2>4. /\ StageOf(r) = "open" /\ HolderOf(r) = NoToken
        /\ StageOf(row[j]) = "absent" /\ HolderOf(row[j]) = NoToken
    BY <2>1, <2>2 DEF StageOf, HolderOf
  <2>5. UNCHANGED Holders
    BY <2>3, <2>4 DEF Holders
  <2>6. \A i \in Jobs : TakeOf[i] = TakeOf[j] => Stages[i] # "open"
    BY <2>1, Tables DEF Stages, StageOf, Live, Row, States
  <2> QED BY <1>1, <2>1, <2>3, <2>4, <2>5, <2>6, SameMaps, OfferAllowed
<1>4. CASE AskStop(j)
  <2> DEFINE r == [row[j] EXCEPT !.stop = TRUE]
  <2>1. row' = [row EXCEPT ![j] = r] /\ UNCHANGED ckpt
    BY <1>4 DEF AskStop
  <2>2. r.state = row[j].state /\ r.token = row[j].token /\ r.paused = row[j].paused
    BY <1>2 DEF Row
  <2> HIDE DEF r
  <2> QED BY <1>1, <2>1, <2>2, HiddenAllowed
<1>5. CASE AskCancel(j)
  <2> DEFINE r == [row[j] EXCEPT !.cancel = TRUE]
  <2>1. row' = [row EXCEPT ![j] = r] /\ UNCHANGED ckpt
    BY <1>5 DEF AskCancel
  <2>2. r.state = row[j].state /\ r.token = row[j].token /\ r.paused = row[j].paused
    BY <1>2 DEF Row
  <2> HIDE DEF r
  <2> QED BY <1>1, <2>1, <2>2, HiddenAllowed
<1>6. CASE CancelStale(j)
  <2>1. PICK t : /\ row' = [row EXCEPT ![j] = [row[j] EXCEPT !.state = "cancelled", !.token = t]]
                 /\ MoveAside(j) /\ Live(j)
    BY <1>6 DEF CancelStale, Live
  <2> DEFINE r == [row[j] EXCEPT !.state = "cancelled", !.token = t]
  <2>2. r.state = "cancelled"
    BY <1>2 DEF Row
  <2> HIDE DEF r
  <2>3. row' = [row EXCEPT ![j] = r]
    BY <2>1 DEF r
  <2> QED BY <1>1, <2>1, <2>2, <2>3, CancelledAllowed
<1>7. CASE CloseQueued(j)
  BY <1>1, <1>7, CloseAllowed DEF CloseQueued, Live
<1>8. CASE MarkPaused(j)
  <2> DEFINE r == [row[j] EXCEPT !.paused = TRUE]
  <2>1. row' = [row EXCEPT ![j] = r] /\ UNCHANGED ckpt /\ row[j].state = "running"
    BY <1>8 DEF MarkPaused
  <2>2. r.state = "running" /\ HolderOf(r) = NoToken
    BY <1>2, <2>1 DEF Row, HolderOf
  <2> HIDE DEF r
  <2> QED BY <1>1, <2>1, <2>2, FreedAllowed DEF Live
<1> QED
  BY <1>3, <1>4, <1>5, <1>6, <1>7, <1>8 DEF Application, Close, MarkSilent, MarkSlow

\* A claim is fresh, and on a row that nobody holds.
LEMMA ClaimAllowed ==
  ASSUME IInv, NEW j \in Jobs, NEW t \in Tokens, Claim(j, t) \/ ClaimUnheard(j, t)
  PROVE  Allowed
<1> DEFINE b == [Unused EXCEPT !.phase = "claimed", !.job = j,
                               !.stop = row[j].stop, !.cancel = row[j].cancel]
           c == [Unused EXCEPT !.phase = "gone", !.job = j]
           r == [row[j] EXCEPT !.state = "running", !.token = t, !.paused = FALSE]
<1>1. /\ att' = [att EXCEPT ![t] = b] \/ att' = [att EXCEPT ![t] = c]
      /\ att[t].phase = "none"
      /\ row' = [row EXCEPT ![j] = r] /\ UNCHANGED ckpt /\ Claimable(j)
  BY DEF Claim, ClaimUnheard, ClaimNext
<1>2. b.phase # "none" /\ c.phase # "none"
  BY DEF Unused
<1>3. row[j] \in Row
  BY Tables
<1>4. r.state = "running" /\ r.token = t /\ r.paused = FALSE
  BY <1>3 DEF Row
<1> HIDE DEF b, c, r
<1>5. att'[t].phase # "none" /\ \A u \in Tokens : u # t => att'[u] = att[u]
  BY <1>1, <1>2 DEF IInv, AttInv
<1>6. Claims' = Claims \cup {t} /\ t \notin Claims
  BY <1>1, <1>5 DEF Claims
<1>7. /\ Stages' = [Stages EXCEPT ![j] = StageOf(r)]
      /\ Holders' = [Holders EXCEPT ![j] = HolderOf(r)]
      /\ Stages[j] = StageOf(row[j]) /\ Holders[j] = HolderOf(row[j])
  BY <1>1, RowMaps
<1>8. /\ StageOf(r) = "open" /\ StageOf(row[j]) = "open"
      /\ HolderOf(r) = t /\ HolderOf(row[j]) = NoToken
  BY <1>1, <1>4 DEF StageOf, HolderOf, Claimable
<1>9. UNCHANGED Stages
  BY <1>7, <1>8 DEF Stages
<1> QED BY <1>1, <1>6, <1>7, <1>8, <1>9, SameMaps, TakeUpAllowed

\* Weights are written by the claim that holds the row: it has the lock.
LEMMA StoreAllowed ==
  ASSUME IInv, NEW t \in Tokens, Advances(t), NEW n,
         locked[att[t].job] = t, PutStore(att[t].job, t, n)
  PROVE  Allowed
<1> DEFINE j == att[t].job
           w == [job |-> j, token |-> t, reached |-> n]
<1>1. j \in Jobs /\ UNCHANGED Claims
  BY Numbers, ClaimsStay DEF Advances
<1>2. UNCHANGED row /\ ckpt' = [ckpt EXCEPT ![TakeOf[j]] = w]
  BY DEF PutStore
<1>3. HolderOf(row[j]) = t
  BY <1>1 DEF IInv, LibInv, LockHolds
<1>4. Holders[j] = t /\ t # NoToken /\ TakeOf[j] \in Takes
  BY <1>1, <1>3, Tables DEF Holders
<1>5. w.job = j /\ w.token = t
  OBVIOUS
<1> HIDE DEF w
<1>6. Keeps' = [Keeps EXCEPT ![TakeOf[j]] = [job |-> j, token |-> t]]
  BY <1>2, <1>4, <1>5, TakeMaps
<1> QED BY <1>1, <1>2, <1>4, <1>6, SameMaps, KeepAllowed

\* The one statement that ends an attempt ends its row, lets go of it, or counts for nothing.
LEMMA FinishAllowed ==
  ASSUME IInv, Truth, NEW t \in Tokens, Finish(t)
  PROVE  Allowed
<1> DEFINE j == att[t].job
<1>1. j \in Jobs /\ UNCHANGED Claims
  BY Numbers, OverAdvances, ClaimsStay DEF Advances
<1>2. row[j] \in Row
  BY <1>1, Tables
<1>3. PICK n : \/ FinishFailed(j, t) \/ FinishCancelled(j, t) \/ RequeueJob(j, t)
               \/ FinishSucceeded(j, t, n)
  BY DEF Finish, TerminalWrite, FinishProbeSelf
<1>4. CASE ~Mine(j, t)
  <2>1. UNCHANGED row /\ UNCHANGED ckpt
    BY <1>3, <1>4 DEF FinishFailed, FinishCancelled, RequeueJob, FinishSucceeded
  <2> QED BY <1>1, <2>1, SameMaps, SameAllowed
<1>5. CASE Mine(j, t) /\ CloseCancelled(j)
  BY <1>1, <1>5, CloseAllowed DEF Mine, Live
<1>6. CASE Mine(j, t) /\ FinishFailed(j, t)
  <2> DEFINE r == [row[j] EXCEPT !.state = "failed"]
  <2>1. row' = [row EXCEPT ![j] = r] /\ UNCHANGED ckpt /\ Live(j)
    BY <1>6 DEF FinishFailed, Mine, Live
  <2>2. r.state = "failed"
    BY <1>2 DEF Row
  <2> HIDE DEF r
  <2> QED BY <1>1, <2>1, <2>2, EndedAllowed
<1>7. CASE Mine(j, t) /\ RequeueJob(j, t)
  <2> DEFINE r == [row[j] EXCEPT !.state = "queued", !.token = NoToken, !.stop = FALSE]
  <2>1. row' = [row EXCEPT ![j] = r] /\ UNCHANGED ckpt /\ Live(j)
    BY <1>7 DEF RequeueJob, Mine, Live
  <2>2. r.state = "queued"
    BY <1>2 DEF Row
  <2> HIDE DEF r
  <2>3. HolderOf(r) = NoToken
    BY <2>2 DEF HolderOf
  <2> QED BY <1>1, <2>1, <2>2, <2>3, FreedAllowed
<1>8. CASE Mine(j, t) /\ ~row[j].cancel /\ FinishSucceeded(j, t, n)
  <2> DEFINE r == [row[j] EXCEPT !.state = "succeeded", !.result = n]
  <2>1. row' = [row EXCEPT ![j] = r] /\ UNCHANGED ckpt /\ Live(j)
    BY <1>8 DEF FinishSucceeded, Mine, Live
  <2>2. r.state = "succeeded"
    BY <1>2 DEF Row
  <2> HIDE DEF r
  <2> QED BY <1>1, <2>1, <2>2, EndedAllowed
<1>9. Mine(j, t) => \/ FinishFailed(j, t) \/ RequeueJob(j, t) \/ CloseCancelled(j)
                    \/ ~row[j].cancel /\ FinishSucceeded(j, t, n)
  BY <1>3 DEF FinishCancelled, FinishSucceeded
<1> QED BY <1>4, <1>5, <1>6, <1>7, <1>8, <1>9

\* Every step of the attempts is a step of Handover, or none.
LEMMA NextAllowed == IInv /\ Truth /\ [Next]_vars => Allowed
<1> SUFFICES ASSUME IInv, Truth, [Next]_vars PROVE Allowed
  OBVIOUS
<1>1. CASE UNCHANGED vars
  BY <1>1, SameMaps, SameAllowed DEF vars
<1>2. ASSUME NEW j \in Jobs, Application(j) \/ Close(j) \/ MarkSilent(j) \/ MarkSlow(j)
      PROVE  Allowed
  BY <1>2, OutsiderAllowed
<1>3. ASSUME NEW j \in Jobs, NEW t \in Tokens, Claim(j, t) \/ ClaimUnheard(j, t)
      PROVE  Allowed
  BY <1>3, ClaimAllowed
<1>4. ASSUME NEW t \in Tokens, Saver(t) \/ Reader(t) \/ Child(t) \/ Trouble(t)
      PROVE  Allowed
  <2> DEFINE j == att[t].job
  <2>1. CASE Quiet(t) \/ SaverPut(t) \/ KeepFinal(t) \/ Crash(t)
    <3>1. UNCHANGED Claims
      BY <2>1, QuietAdvances, FenceAdvances, OverAdvances, ClaimsStay
    <3>2. UNCHANGED row /\ UNCHANGED ckpt
      BY <2>1, QuietAdvances
         DEF libVars, SaverPut, KeepFinal, PutLock, PutRefused, Crash, Rollback
    <3> QED BY <3>1, <3>2, SameMaps, SameAllowed
  <2>2. CASE SaverStored(t) \/ SaverFailed(t) \/ FinalStored(t) \/ FinalFailed(t)
    <3>1. Advances(t)
      BY <2>2, UpsertAdvances
    <3>2. CASE UNCHANGED libVars \/ Rollback(j, t)
      <4>1. UNCHANGED row /\ UNCHANGED ckpt
        BY <3>2 DEF libVars, Rollback
      <4> QED BY <3>1, <4>1, ClaimsStay, SameMaps, SameAllowed
    <3>3. ASSUME NEW n, Storing(att[t]), PutStore(j, t, n)
          PROVE  Allowed
      <4>1. locked[j] = t
        BY <3>3 DEF IInv, AttInv
      <4> QED BY <3>1, <3>3, <4>1, StoreAllowed
    <3> QED BY <2>2, <3>2, <3>3
            DEF SaverStored, SaverFailed, FinalStored, FinalFailed, Storing
  <2>3. CASE Finish(t)
    BY <2>3, FinishAllowed
  <2> QED BY <1>4, <2>1, <2>2, <2>3 DEF Saver, Reader, Trouble, Quiet
<1> QED BY <1>1, <1>2, <1>3, <1>4 DEF Next

\* However the threads of the attempts interleave, whatever fails on the way and however
\* many daemons there are, the library only does what Handover allows: one claim at a time
\* keeps weights, an outcome is final, a cancel leaves no weights.
THEOREM ImplementsHandover == Spec => HandoverSpec
<1>1. Init => Lease!Init
  <2> SUFFICES ASSUME Init PROVE Lease!Init
    OBVIOUS
  <2>1. \A j \in Jobs : row[j].state = "absent"
    BY DEF Init, LibraryInit, NoRow
  <2>2. \A k \in Takes : ckpt[k].job = NoJob /\ ckpt[k].token = NoToken
    BY DEF Init, LibraryInit, NoWeights
  <2>3. \A t \in Tokens : att[t].phase = "none"
    BY DEF Init, Unused
  <2> QED BY <2>1, <2>2, <2>3 DEF Lease!Init, Lease!Nothing, StageOf, HolderOf
<1>2. IInv /\ Truth /\ [Next]_vars => [Lease!Next]_(Lease!vars)
  BY NextAllowed DEF Allowed
<1> QED BY <1>1, <1>2, Invariant, Truthful, PTL DEF Spec, HandoverSpec, Lease!Spec

-----------------------------------------------------------------------------
(* Attempts implements Keeping, take by take.                              *)

\* A step as the contract of take k sees it.
Kept(k) == [Run(k)!Next]_(Run(k)!vars)

\* A signature is of somebody's weights.
Signed == \A k \in Takes : ckpt[k].token # NoToken => ckpt[k].job # NoJob

\* A take has one attempt at most, and its numbers are the contract's.
LEMMA OneRunner ==
  ASSUME IInv, Truth, NEW k \in Takes, NEW t \in At(k)
  PROVE  At(k) = {t} /\ StartOf(k) = att[t].base /\ DoneOn(k) = att[t].epoch
<1>1. \A u \in At(k) : u = t
  <2> SUFFICES ASSUME NEW u \in At(k) PROVE u = t
    OBVIOUS
  <2>1. PICK i \in Jobs : TakeOf[i] = k /\ row[i].state = "running" /\ row[i].token = u
    BY DEF At
  <2>2. PICK j \in Jobs : TakeOf[j] = k /\ row[j].state = "running" /\ row[j].token = t
    BY DEF At
  <2>3. i = j
    BY <2>1, <2>2 DEF Truth, Tenancy, OneLive, Live
  <2> QED BY <2>1, <2>2, <2>3
<1>2. At(k) = {t}
  BY <1>1
<1>3. Runner(k) = t
  BY <1>2 DEF Runner
<1> QED BY <1>2, <1>3 DEF StartOf, DoneOn

\* The same of the state after a step, where it is known who that is.
LEMMA NextRunner ==
  ASSUME NEW k, NEW t, At(k)' = {t}
  PROVE  StartOf(k)' = att'[t].base /\ DoneOn(k)' = att'[t].epoch
<1>1. Runner(k)' = t
  BY DEF Runner
<1> QED BY <1>1 DEF StartOf, DoneOn

LEMMA NoRunner ==
  ASSUME NEW k
  PROVE  /\ At(k) = {} => StartOf(k) = ckpt[k].reached /\ DoneOn(k) = ckpt[k].reached
         /\ At(k)' = {} => StartOf(k)' = ckpt'[k].reached /\ DoneOn(k)' = ckpt'[k].reached
BY DEF StartOf, DoneOn

\* How the contract reads a step.
LEMMA SameKept ==
  ASSUME NEW k, StartOf(k)' = StartOf(k), DoneOn(k)' = DoneOn(k),
         ckpt'[k].reached = ckpt[k].reached
  PROVE  Kept(k)
BY DEF Kept, Run!vars

LEMMA TrainKept ==
  ASSUME NEW k, StartOf(k)' = StartOf(k), DoneOn(k)' = DoneOn(k) + 1,
         ckpt'[k].reached = ckpt[k].reached
  PROVE  Kept(k)
BY DEF Kept, Run!Next, Run!Train

LEMMA KeepKept ==
  ASSUME NEW k, StartOf(k)' = StartOf(k), DoneOn(k)' = DoneOn(k),
         ckpt'[k].reached \in (StartOf(k) + 1)..DoneOn(k)
  PROVE  Kept(k)
BY DEF Kept, Run!Next, Run!Put

\* A take whose attempt is over, with its weights or without.
LEMMA LeftKept ==
  ASSUME NEW k, At(k)' = {}, ckpt'[k].reached \in {ckpt[k].reached, 0}
  PROVE  Kept(k)
<1>1. StartOf(k)' = ckpt'[k].reached /\ DoneOn(k)' = ckpt'[k].reached
  BY NoRunner
<1>2. Run(k)!Again \/ Run(k)!Clear
  BY <1>1 DEF Run!Again, Run!Clear
<1> QED BY <1>2 DEF Kept, Run!Next

\* An attempt that has an epoch behind it has the numbers it had.
Ageless ==
  \A u \in Tokens : att'[u].epoch > 0 =>
    att'[u].base = att[u].base /\ att'[u].epoch = att[u].epoch

\* Nobody trains, resumes, claims or stores: attempts stay or are over.
LEMMA UndisturbedKept ==
  ASSUME IInv, Truth, Ageless, RowsHeld, TakesStand, TakesKept, NEW k \in Takes
  PROVE  Kept(k)
<1>1. At(k)' \subseteq At(k)
  BY DEF At, Ageless, RowsHeld
<1>2. CASE At(k)' = {}
  <2>1. ckpt'[k].reached \in {ckpt[k].reached, 0}
    BY DEF TakesKept, NoWeights
  <2> QED BY <1>2, <2>1, LeftKept
<1>3. ASSUME NEW t \in At(k)' PROVE Kept(k)
  <2>1. At(k) = {t} /\ StartOf(k) = att[t].base /\ DoneOn(k) = att[t].epoch
    BY <1>1, <1>3, OneRunner
  <2>2. StartOf(k)' = att'[t].base /\ DoneOn(k)' = att'[t].epoch
    <3>1. At(k)' = {t}
      BY <1>1, <1>3, <2>1
    <3> QED BY <3>1, NextRunner
  <2>3. t \in Tokens /\ att'[t].epoch > 0
    BY <1>3 DEF At
  <2>4. PICK j \in Jobs : TakeOf[j] = k /\ row'[j].state = "running"
    BY <1>3 DEF At
  <2>5. ckpt'[k] = ckpt[k]
    BY <2>4 DEF TakesStand
  <2> QED BY <2>1, <2>2, <2>3, <2>5, SameKept DEF Ageless
<1> QED BY <1>2, <1>3

\* Nothing happens to a take or to the attempt that has it.
LEMMA StillKept ==
  ASSUME NEW k, At(k)' = At(k), ckpt'[k].reached = ckpt[k].reached,
         \A u \in At(k) : att'[u].base = att[u].base /\ att'[u].epoch = att[u].epoch
  PROVE  Kept(k)
<1>1. CASE At(k) = {}
  BY <1>1, NoRunner, SameKept
<1>2. CASE At(k) # {}
  <2>1. Runner(k) \in At(k) /\ Runner(k)' = Runner(k)
    BY <1>2 DEF Runner
  <2>2. StartOf(k)' = StartOf(k) /\ DoneOn(k)' = DoneOn(k)
    BY <1>2, <2>1 DEF StartOf, DoneOn
  <2> QED BY <2>2, SameKept
<1> QED BY <1>1, <1>2

\* What the operators on an attempt do to its numbers.
LEMMA RunFrame ==
  ASSUME NEW a \in Attempt, NEW what, NEW n, NEW why
  PROVE  /\ SameRun(a, Planned(a, what, n)) /\ SameRun(a, Killed(a, why))
         /\ SameRun(a, Rested(a)) /\ SameRun(a, Returned(a)) /\ SameRun(a, Dead(a))
         /\ SameRun(a, Exported(a)) /\ SameRun(a, ToRow(a))
  BY DEF SameRun, Planned, Killed, Rested, Returned, Dead, Exported, ToRow, Unused, Attempt

\* Everything but an epoch and a resume.
SameAge(t) ==
  \/ AnswerCancel(t) \/ AnswerStop(t) \/ RefuseJob(t) \/ RecordPgid(t) \/ Export(t)
  \/ ChildExit(t) \/ ReadVerdict(t) \/ Eof(t) \/ BeginReap(t) \/ Classify(t)
  \/ SaverLook(t) \/ SaverPut(t) \/ SaverStored(t) \/ SaverFailed(t)
  \/ KeepFinal(t) \/ FinalStored(t) \/ FinalFailed(t)
  \/ Finish(t) \/ FinishFault(t) \/ Crash(t)
  \/ \E why \in {"shutdown", "pause", "stall"} : Kill(t, why)

LEMMA SameAgeRuns ==
  ASSUME IInv, NEW t \in Tokens, SameAge(t)
  PROVE  \E b : att' = [att EXCEPT ![t] = b] /\ SameRun(att[t], b)
<1> DEFINE a == att[t]
<1>1. a \in Attempt
  BY DEF IInv, AttInv
<1>2. CASE AnswerCancel(t) \/ AnswerStop(t) \/ RefuseJob(t)
  BY <1>1, <1>2, RunFrame DEF AnswerCancel, AnswerStop, RefuseJob
<1>3. CASE RecordPgid(t)
  <2> DEFINE s == IF TrainLane(a.job) THEN "idle" ELSE "off"
  <2>1. PICK c \in {a, Killed(a, "lost")} :
          att' = [att EXCEPT ![t] = [c EXCEPT !.phase = "running", !.saver = s]]
    BY <1>3 DEF RecordPgid
  <2>2. c \in Attempt /\ SameRun(a, c)
    <3>1. "lost" \in Reasons /\ SameRun(a, a)
      BY DEF Reasons, SameRun
    <3>2. Killed(a, "lost") \in Attempt /\ SameRun(a, Killed(a, "lost"))
      BY <1>1, <3>1, RunFrame, KilledType
    <3> QED BY <1>1, <2>1, <3>1, <3>2
  <2>3. SameRun(a, [c EXCEPT !.phase = "running", !.saver = s])
    BY <2>2 DEF SameRun, Attempt
  <2> QED BY <2>1, <2>3
<1>4. CASE Export(t) \/ ChildExit(t) \/ Eof(t)
  BY <1>1, <1>4 DEF Export, ChildExit, Eof, SameRun, Attempt
<1>5. CASE ReadVerdict(t)
  <2> DEFINE c == [a EXCEPT !.verdict = TRUE]
  <2>1. c \in Attempt /\ SameRun(a, c)
    BY <1>1 DEF Attempt, SameRun
  <2>2. att' = [att EXCEPT ![t] = Killed(c, "verdict")]
    BY <1>5 DEF ReadVerdict
  <2> HIDE DEF c
  <2>3. SameRun(c, Killed(c, "verdict"))
    BY <2>1, RunFrame
  <2> QED BY <2>1, <2>2, <2>3 DEF SameRun
<1>6. CASE BeginReap(t)
  <2> DEFINE c == IF a.child = "alive" THEN "bad" ELSE a.child
  <2>1. att' = [att EXCEPT ![t] = [a EXCEPT !.phase = "classify", !.child = c]]
    BY <1>6 DEF BeginReap
  <2> HIDE DEF c
  <2>2. SameRun(a, [a EXCEPT !.phase = "classify", !.child = c])
    BY <1>1 DEF SameRun, Attempt
  <2> QED BY <2>1, <2>2
<1>7. CASE Classify(t)
  BY <1>1, <1>7, RunFrame
     DEF Classify, ClassifyLost, ClassifyCancel, ClassifyRequeue, ClassifyProbe,
         ClassifyNatural, ClassifyHarvest, ClassifyLateExport, ClassifyEmpty,
         ClassifyFailed, TrainSuccess
<1>8. CASE SaverLook(t)
  <2>1. PICK lastLook \in BOOLEAN :
          \/ \E n : att' = [att EXCEPT ![t] = [a EXCEPT !.saver = "writing", !.pair = n,
                                                 !.nudged = FALSE, !.last = lastLook]]
          \/ att' = [att EXCEPT ![t] =
                       Rested([a EXCEPT !.nudged = FALSE, !.last = lastLook])]
    BY <1>8 DEF SaverLook
  <2> DEFINE c == [a EXCEPT !.nudged = FALSE, !.last = lastLook]
  <2>2. c \in Attempt /\ SameRun(a, c)
    BY <1>1 DEF Attempt, SameRun
  <2>3. \A n : SameRun(a, [a EXCEPT !.saver = "writing", !.pair = n,
                                    !.nudged = FALSE, !.last = lastLook])
    BY <1>1 DEF Attempt, SameRun
  <2>4. SameRun(a, Rested(c))
    <3> HIDE DEF c
    <3>1. SameRun(c, Rested(c))
      BY <2>2, RunFrame
    <3> QED BY <2>2, <3>1 DEF SameRun
  <2> QED BY <2>1, <2>3, <2>4
<1>9. CASE SaverPut(t) \/ SaverStored(t) \/ SaverFailed(t)
  <2> DEFINE c == Rested(a)
  <2>1. c \in Attempt /\ SameRun(a, c)
    BY <1>1, RunFrame, RestedType
  <2>2. SameRun(a, [a EXCEPT !.saver = "storing"])
    BY <1>1 DEF Attempt, SameRun
  <2>3. \/ att' = [att EXCEPT ![t] = [a EXCEPT !.saver = "storing"]]
        \/ att' = [att EXCEPT ![t] = c]
        \/ \E why : att' = [att EXCEPT ![t] = Killed(c, why)]
    BY <1>9 DEF SaverPut, SaverStored, SaverFailed, Obeyed
  <2> HIDE DEF c
  <2>4. \A why : SameRun(c, Killed(c, why))
    BY <2>1, RunFrame
  <2>5. \A why : SameRun(a, Killed(c, why))
    BY <2>1, <2>4 DEF SameRun
  <2> QED BY <2>1, <2>2, <2>3, <2>5
<1>10. CASE KeepFinal(t) \/ FinalStored(t) \/ FinalFailed(t)
  <2>1. SameRun(a, [a EXCEPT !.phase = "storing"])
    BY <1>1 DEF Attempt, SameRun
  <2> QED BY <1>1, <1>10, <2>1, RunFrame DEF KeepFinal, FinalStored, FinalFailed
<1>11. CASE Finish(t) \/ FinishFault(t) \/ Crash(t)
  BY <1>1, <1>11, RunFrame DEF Finish, FinishFault, Crash
<1>12. CASE \E why \in {"shutdown", "pause", "stall"} : Kill(t, why)
  BY <1>1, <1>12, RunFrame DEF Kill
<1> QED
  BY <1>2, <1>3, <1>4, <1>5, <1>6, <1>7, <1>8, <1>9, <1>10, <1>11, <1>12 DEF SameAge

LEMMA AgeStays ==
  ASSUME IInv, NEW t \in Tokens, SameAge(t)
  PROVE  \A u \in Tokens : att'[u].base = att[u].base /\ att'[u].epoch = att[u].epoch
<1>1. PICK b : att' = [att EXCEPT ![t] = b] /\ SameRun(att[t], b)
  BY SameAgeRuns
<1>2. att'[t] = b /\ \A u \in Tokens : u # t => att'[u] = att[u]
  BY <1>1 DEF IInv, AttInv
<1> QED BY <1>1, <1>2 DEF SameRun

\* Nobody has another row of a take than the one that runs.
LEMMA OneRow ==
  ASSUME IInv, Truth, NEW j \in Jobs, NEW t \in Tokens, Mine(j, t)
  PROVE  \A i \in Jobs : TakeOf[i] = TakeOf[j] /\ row[i].state = "running" => i = j
BY DEF Truth, Tenancy, OneLive, Live, Mine

\* One attempt changes, and it has no row of this take.
LEMMA AwayKept ==
  ASSUME IInv, NEW k \in Takes, NEW t \in Tokens, NEW b, att' = [att EXCEPT ![t] = b],
         UNCHANGED <<row, ckpt>>, ~\E j \in Jobs : TakeOf[j] = k /\ Mine(j, t)
  PROVE  Kept(k)
<1>1. \A u \in Tokens : u # t => att'[u] = att[u]
  BY DEF IInv, AttInv
<1>2. t \notin At(k) /\ t \notin At(k)'
  BY DEF At, Mine
<1>3. At(k)' = At(k)
  BY <1>1, <1>2 DEF At
<1>4. \A u \in At(k) : att'[u] = att[u]
  BY <1>1, <1>2 DEF At
<1> QED BY <1>3, <1>4, StillKept

\* What is stored was trained by the attempt that has the take, after where it began.
LEMMA StoreKept ==
  ASSUME IInv, Truth, NEW k \in Takes, NEW t \in Tokens, NEW n,
         att[t].job \in Jobs, locked[att[t].job] = t, PutStore(att[t].job, t, n),
         TrainedBy(t, att[t].job, n),
         \A u \in Tokens : att'[u].base = att[u].base /\ att'[u].epoch = att[u].epoch
  PROVE  Kept(k)
<1> DEFINE j == att[t].job
           w == [job |-> j, token |-> t, reached |-> n]
<1>1. UNCHANGED row /\ ckpt' = [ckpt EXCEPT ![TakeOf[j]] = w] /\ w.reached = n
  BY DEF PutStore
<1> HIDE DEF w
<1>2. row[j].state = "running" /\ row[j].token = t
  BY Tables DEF IInv, LibInv, LockHolds, HolderOf
<1>3. At(k)' = At(k)
  BY <1>1 DEF At
<1>4. CASE k # TakeOf[j]
  <2>1. ckpt'[k] = ckpt[k]
    BY <1>1, <1>4, Tables
  <2>2. \A u \in At(k) : u \in Tokens
    BY DEF At
  <2> QED BY <1>3, <2>1, <2>2, StillKept
<1>5. CASE k = TakeOf[j]
  <2>1. n \in (att[t].base + 1)..att[t].epoch
    BY DEF TrainedBy
  <2>2. att[t].epoch > 0
    BY <2>1, Numbers
  <2>3. t \in At(k)
    BY <1>2, <1>5, <2>2 DEF At
  <2>4. At(k) = {t} /\ StartOf(k) = att[t].base /\ DoneOn(k) = att[t].epoch
    BY <2>3, OneRunner
  <2>5. StartOf(k)' = att'[t].base /\ DoneOn(k)' = att'[t].epoch
    BY <1>3, <2>4, NextRunner
  <2>6. ckpt'[k].reached = n
    BY <1>1, <1>5, Tables
  <2> QED BY <2>1, <2>4, <2>5, <2>6, KeepKept
<1> QED BY <1>4, <1>5

\* A write that is over, with its weights or without.
LEMMA UpsertKept ==
  ASSUME IInv, Truth, NEW k \in Takes, NEW t \in Tokens,
         SaverStored(t) \/ SaverFailed(t) \/ FinalStored(t) \/ FinalFailed(t)
  PROVE  Kept(k)
<1> DEFINE a == att[t]
           j == a.job
<1>1. Advances(t)
  BY UpsertAdvances
<1>2. /\ a \in Attempt /\ Honest(a) /\ a.base \in Nat /\ a.epoch \in Nat
      /\ j \in Jobs /\ Epochs[j] \in Nat \ {0}
  BY <1>1, HonestFacts DEF Advances
<1>3. \A u \in Tokens : att'[u].base = att[u].base /\ att'[u].epoch = att[u].epoch
  BY AgeStays DEF SameAge
<1>4. CASE UNCHANGED libVars \/ Rollback(j, t)
  <2>1. UNCHANGED <<row, ckpt>>
    BY <1>4 DEF libVars, Rollback
  <2>2. RowsHeld /\ TakesStand /\ TakesKept
    BY <2>1, SameUndisturbed DEF Undisturbed
  <2> QED BY <1>3, <2>2, UndisturbedKept DEF Ageless
<1>5. CASE a.saver = "storing" /\ PutStore(j, t, a.pair)
  <2>1. locked[j] = t
    BY <1>5 DEF IInv, AttInv, Storing
  <2>2. TrainedBy(t, j, a.pair)
    BY <1>2, <1>5 DEF TrainedBy, Honest
  <2> QED BY <1>2, <1>3, <1>5, <2>1, <2>2, StoreKept
<1>6. CASE a.phase = "storing" /\ PutStore(j, t, Epochs[j])
  <2>1. locked[j] = t
    BY <1>6 DEF IInv, AttInv, Storing
  <2>2. a.model = "pair"
    BY <1>2, <1>6 DEF Honest
  <2>3. TrainedBy(t, j, Epochs[j])
    BY <1>2, <2>2 DEF Honest, TrainedBy
  <2> QED BY <1>2, <1>3, <1>6, <2>1, <2>3, StoreKept
<1> QED
  BY <1>4, <1>5, <1>6 DEF SaverStored, SaverFailed, FinalStored, FinalFailed

\* A run that has trained nothing yet and has its row finds its take where it began.
LEMMA FirstEpoch ==
  ASSUME IInv, Truth, Signed, NEW j \in Jobs, NEW t \in Tokens,
         Mine(j, t), TrainLane(j), att[t].phase = "running", att[t].epoch = 0
  PROVE  ckpt[TakeOf[j]].reached = 0 /\ att[t].base = 0
<1> DEFINE k == TakeOf[j]
<1>1. att[t].base = 0
  <2>1. att[t].base <= att[t].epoch
    BY DEF Truth, Honest
  <2> QED BY <2>1, Numbers
<1>2. ckpt[k].token # t
  <2> SUFFICES ASSUME ckpt[k].token = t PROVE FALSE
    OBVIOUS
  <2>1. ckpt[k].job # NoJob
    BY Tables DEF Signed
  <2>2. ckpt[k].reached \in (att[t].base + 1)..att[t].epoch
    BY <2>1, Tables DEF Truth, WeightsTrained
  <2> QED BY <1>1, <2>2
<1>3. ckpt[k].reached = att[t].base
  BY <1>2 DEF Truth, BaseStands, Mine, Killable
<1> QED BY <1>1, <1>3

\* An epoch is trained from where the take stands, or on top of the epochs before it.
LEMMA EpochKept ==
  ASSUME IInv, Truth, Signed, NEW k \in Takes, NEW t \in Tokens, Epoch(t)
  PROVE  Kept(k)
<1> DEFINE j == att[t].job
           b == [att[t] EXCEPT !.epoch = att[t].epoch + 1, !.nudged = TRUE]
<1>1. /\ att' = [att EXCEPT ![t] = b] /\ UNCHANGED <<row, ckpt>>
      /\ att[t].phase = "running" /\ TrainLane(j)
  BY DEF Epoch, libVars
<1>2. b.base = att[t].base /\ b.epoch = att[t].epoch + 1
  BY DEF IInv, AttInv, Attempt
<1> HIDE DEF b
<1>3. att'[t] = b /\ \A u \in Tokens : u # t => att'[u] = att[u]
  BY <1>1 DEF IInv, AttInv
<1>4. CASE ~\E i \in Jobs : TakeOf[i] = k /\ Mine(i, t)
  BY <1>1, <1>4, AwayKept
<1>5. ASSUME NEW i \in Jobs, TakeOf[i] = k, Mine(i, t)
      PROVE  Kept(k)
  <2>1. i = j
    BY <1>5 DEF Truth, Tenancy, TokenOwned, Mine
  <2>2. \A i2 \in Jobs : TakeOf[i2] = k /\ row[i2].state = "running" => row[i2].token = t
    BY <1>5, OneRow DEF Mine
  <2>3. At(k) \subseteq {t} /\ At(k)' \subseteq {t}
    BY <1>1, <2>2 DEF At
  <2>4. att[t].epoch \in Nat
    BY Numbers
  <2>5. At(k)' = {t}
    <3>1. att'[t].epoch > 0
      BY <1>2, <1>3, <2>4
    <3>2. t \in At(k)'
      BY <1>1, <1>5, <3>1 DEF At, Mine
    <3> QED BY <2>3, <3>2
  <2>6. StartOf(k)' = att[t].base /\ DoneOn(k)' = att[t].epoch + 1
    BY <1>2, <1>3, <2>5, NextRunner
  <2>7. CASE att[t].epoch > 0
    <3>1. t \in At(k)
      BY <1>5, <2>7 DEF At, Mine
    <3>2. StartOf(k) = att[t].base /\ DoneOn(k) = att[t].epoch
      BY <3>1, OneRunner
    <3> QED BY <1>1, <2>6, <3>2, TrainKept
  <2>8. CASE att[t].epoch = 0
    <3>1. At(k) = {}
      BY <2>3, <2>8 DEF At
    <3>2. ckpt[k].reached = 0 /\ att[t].base = 0
      BY <1>1, <1>5, <2>1, <2>8, FirstEpoch
    <3>3. StartOf(k) = 0 /\ DoneOn(k) = 0
      BY <3>1, <3>2, NoRunner
    <3> QED BY <1>1, <2>6, <2>8, <3>2, <3>3, TrainKept
  <2> QED BY <2>4, <2>7, <2>8
<1> QED BY <1>4, <1>5

\* A child that resumes brings the take's own number.
LEMMA SpawnKept ==
  ASSUME IInv, Truth, NEW k \in Takes, NEW t \in Tokens, SpawnChild(t)
  PROVE  Kept(k)
<1> DEFINE j == att[t].job
           from == Resume(j)
           b == [att[t] EXCEPT !.phase = "spawned", !.child = "alive",
                               !.base = from, !.epoch = from]
<1>1. /\ att' = [att EXCEPT ![t] = b] /\ UNCHANGED <<row, ckpt>>
      /\ att[t].phase = "claimed"
  BY DEF SpawnChild, libVars
<1>2. b.base = from /\ b.epoch = from
  BY DEF IInv, AttInv, Attempt
<1>3. from = 0 \/ from = ckpt[TakeOf[j]].reached
  BY DEF Resume
<1>4. j \in Jobs /\ att[t].base = 0 /\ att[t].epoch = 0
  BY <1>1, Numbers DEF Truth, Honest
<1>5. from \in Nat
  BY <1>4, Tables DEF Resume, Weights
<1> HIDE DEF b, from
<1>6. att'[t] = b /\ \A u \in Tokens : u # t => att'[u] = att[u]
  BY <1>1 DEF IInv, AttInv
<1>7. CASE ~\E i \in Jobs : TakeOf[i] = k /\ Mine(i, t)
  BY <1>1, <1>7, AwayKept
<1>8. CASE from = 0
  <2>1. \A u \in Tokens : att'[u].base = att[u].base /\ att'[u].epoch = att[u].epoch
    BY <1>2, <1>4, <1>6, <1>8
  <2>2. RowsHeld /\ TakesStand /\ TakesKept
    BY <1>1, SameUndisturbed DEF Undisturbed
  <2> QED BY <2>1, <2>2, UndisturbedKept DEF Ageless
<1>9. ASSUME from # 0, NEW i \in Jobs, TakeOf[i] = k, Mine(i, t)
      PROVE  Kept(k)
  <2>1. i = j
    BY <1>9 DEF Truth, Tenancy, TokenOwned, Mine
  <2>2. \A i2 \in Jobs : TakeOf[i2] = k /\ row[i2].state = "running" => row[i2].token = t
    BY <1>9, OneRow DEF Mine
  <2>3. At(k) \subseteq {t} /\ At(k)' \subseteq {t}
    BY <1>1, <2>2 DEF At
  <2>4. At(k) = {}
    BY <1>4, <2>3 DEF At
  <2>5. At(k)' = {t}
    <3>1. att'[t].epoch > 0
      BY <1>2, <1>5, <1>6, <1>9
    <3>2. t \in At(k)'
      BY <1>1, <1>9, <3>1 DEF At, Mine
    <3> QED BY <2>3, <3>2
  <2>6. StartOf(k)' = from /\ DoneOn(k)' = from
    BY <1>2, <1>6, <2>5, NextRunner
  <2>7. StartOf(k) = from /\ DoneOn(k) = from
    BY <1>3, <1>9, <2>1, <2>4, NoRunner
  <2> QED BY <1>1, <2>6, <2>7, SameKept
<1> QED BY <1>7, <1>8, <1>9

\* A claim has trained nothing, and whoever had the row before has it no more.
LEMMA ClaimKept ==
  ASSUME IInv, Truth, NEW k \in Takes, NEW j \in Jobs, NEW t \in Tokens,
         Claim(j, t) \/ ClaimUnheard(j, t)
  PROVE  Kept(k)
<1> DEFINE b == [Unused EXCEPT !.phase = "claimed", !.job = j,
                               !.stop = row[j].stop, !.cancel = row[j].cancel]
           c == [Unused EXCEPT !.phase = "gone", !.job = j]
<1>1. /\ row'[j].token = t /\ row'[j].state = "running"
      /\ \A i \in Jobs : i # j => row'[i] = row[i]
      /\ \A u \in Tokens : u # t => att'[u] = att[u]
      /\ UNCHANGED ckpt
  BY ClaimPlansNothing
<1>2. att[t].phase = "none" /\ att[t].job = NoJob /\ Claimable(j)
  BY Numbers DEF Claim, ClaimUnheard, ClaimNext
<1>3. att[t].epoch = 0
  BY <1>2 DEF Truth, Honest
<1>4. att'[t].epoch = 0
  <2>1. att' = [att EXCEPT ![t] = b] \/ att' = [att EXCEPT ![t] = c]
    BY DEF Claim, ClaimUnheard
  <2>2. b.epoch = 0 /\ c.epoch = 0
    BY DEF Unused
  <2> HIDE DEF b, c
  <2> QED BY <2>1, <2>2 DEF IInv, AttInv
<1>5. t \notin At(k) /\ t \notin At(k)'
  BY <1>3, <1>4 DEF At
<1>6. CASE k = TakeOf[j]
  <2>1. \A i \in Jobs : TakeOf[i] = k /\ row'[i].state = "running" => i = j
    BY <1>1, <1>2, <1>6 DEF Truth, Tenancy, OneLive, Live, Claimable
  <2>2. At(k)' = {}
    BY <1>1, <1>5, <2>1 DEF At
  <2> QED BY <1>1, <2>2, LeftKept
<1>7. CASE k # TakeOf[j]
  <2>1. At(k)' = At(k)
    BY <1>1, <1>5, <1>7 DEF At
  <2>2. \A u \in At(k) : att'[u] = att[u]
    BY <1>1, <1>5 DEF At
  <2> QED BY <1>1, <2>1, <2>2, StillKept
<1> QED BY <1>6, <1>7

\* The application and cron train nothing: they end an attempt, or a job and its weights.
LEMMA OutsiderKept ==
  ASSUME IInv, Truth, NEW k \in Takes, NEW j \in Jobs,
         Application(j) \/ Close(j) \/ MarkSilent(j) \/ MarkSlow(j)
  PROVE  Kept(k)
<1>1. UNCHANGED att
  BY DEF Application, Close, MarkSilent, MarkSlow
<1>2. RowsHeld /\ TakesStand /\ TakesKept
  BY EnqueueStands, OutsideUndisturbed
     DEF Truth, Undisturbed, Application, Close, MarkSilent, MarkSlow
<1> QED BY <1>1, <1>2, UndisturbedKept DEF Ageless

\* A terminal write leaves the weights, or takes them with the job.
LEMMA FinishKept ==
  ASSUME IInv, Truth, NEW k \in Takes, NEW t \in Tokens, Finish(t)
  PROVE  Kept(k)
<1> DEFINE j == att[t].job
<1>1. j \in Jobs
  BY OverAdvances, Numbers DEF Advances
<1>2. PICK n : \/ FinishFailed(j, t) \/ FinishCancelled(j, t) \/ RequeueJob(j, t)
               \/ FinishSucceeded(j, t, n)
  BY DEF Finish, TerminalWrite, FinishProbeSelf
<1>3. RowsHeld /\ TakesStand /\ TakesKept
  <2>1. CASE FinishSucceeded(j, t, n) /\ Mine(j, t) /\ ~row[j].cancel
    <3>1. UNCHANGED ckpt
      BY <2>1 DEF FinishSucceeded
    <3> QED BY <1>1, <2>1, <3>1, SucceededRow DEF TakesKept
  <2>2. CASE ~(FinishSucceeded(j, t, n) /\ Mine(j, t) /\ ~row[j].cancel)
    BY <1>1, <1>2, <2>2, FinishUndisturbed DEF Truth, Undisturbed
  <2> QED BY <2>1, <2>2
<1>4. \A u \in Tokens : att'[u].base = att[u].base /\ att'[u].epoch = att[u].epoch
  BY AgeStays DEF SameAge
<1> QED BY <1>3, <1>4, UndisturbedKept DEF Ageless

\* Every step, as every take sees it.
LEMMA NextKept ==
  ASSUME IInv, Truth, Signed, [Next]_vars, NEW k \in Takes
  PROVE  Kept(k)
<1>1. CASE UNCHANGED vars
  <2>1. UNCHANGED <<row, ckpt, att>>
    BY <1>1 DEF vars
  <2>2. RowsHeld /\ TakesStand /\ TakesKept
    BY <2>1, SameUndisturbed DEF Undisturbed
  <2> QED BY <2>1, <2>2, UndisturbedKept DEF Ageless
<1>2. ASSUME NEW j \in Jobs, Application(j) \/ Close(j) \/ MarkSilent(j) \/ MarkSlow(j)
      PROVE  Kept(k)
  BY <1>2, OutsiderKept
<1>3. ASSUME NEW j \in Jobs, NEW t \in Tokens, Claim(j, t) \/ ClaimUnheard(j, t)
      PROVE  Kept(k)
  BY <1>3, ClaimKept
<1>4. ASSUME NEW t \in Tokens, Saver(t) \/ Reader(t) \/ Child(t) \/ Trouble(t)
      PROVE  Kept(k)
  <2>1. CASE Epoch(t) \/ SpawnChild(t)
    BY <2>1, EpochKept, SpawnKept
  <2>2. CASE SaverStored(t) \/ SaverFailed(t) \/ FinalStored(t) \/ FinalFailed(t) \/ Finish(t)
    BY <2>2, UpsertKept, FinishKept
  <2>3. CASE /\ Quiet(t) \/ SaverPut(t) \/ KeepFinal(t) \/ Crash(t)
             /\ ~(Epoch(t) \/ SpawnChild(t))
    <3>1. SameAge(t)
      BY <2>3 DEF Quiet, Child, SameAge
    <3>2. UNCHANGED <<row, ckpt>>
      BY <2>3, QuietAdvances
         DEF libVars, SaverPut, KeepFinal, PutLock, PutRefused, Crash, Rollback
    <3>3. RowsHeld /\ TakesStand /\ TakesKept
      BY <3>2, SameUndisturbed DEF Undisturbed
    <3> QED BY <3>1, <3>3, AgeStays, UndisturbedKept DEF Ageless
  <2> QED BY <1>4, <2>1, <2>2, <2>3 DEF Saver, Reader, Trouble, Quiet
<1> QED BY <1>1, <1>2, <1>3, <1>4 DEF Next

\* Weights come with a signature, and lose it with it.
LEMMA SignedStays ==
  ASSUME IInv, Truth, Signed, [Next]_vars
  PROVE  Signed'
<1>1. CASE TakesKept
  <2>1. \A k \in Takes : ckpt'[k].token # NoToken => ckpt'[k] = ckpt[k]
    BY <1>1 DEF TakesKept, NoWeights
  <2> QED BY <2>1 DEF Signed
<1>2. ASSUME NEW t \in Tokens, NEW n, att[t].job \in Jobs, PutStore(att[t].job, t, n)
      PROVE  Signed'
  <2> DEFINE j == att[t].job
             w == [job |-> j, token |-> t, reached |-> n]
  <2>1. ckpt' = [ckpt EXCEPT ![TakeOf[j]] = w] /\ w.job # NoJob
    BY <1>2, Tables DEF PutStore
  <2> HIDE DEF w
  <2>2. \A k \in Takes : ckpt'[k] = ckpt[k] \/ ckpt'[k].job # NoJob
    BY <2>1, Tables
  <2> QED BY <2>2 DEF Signed
<1>3. CASE UNCHANGED ckpt
  BY <1>3 DEF Signed
<1>4. ASSUME NEW j \in Jobs, Application(j) \/ Close(j) \/ MarkSilent(j) \/ MarkSlow(j)
      PROVE  TakesKept
  BY <1>4, EnqueueStands, OutsideUndisturbed
     DEF Truth, Undisturbed, Application, Close, MarkSilent, MarkSlow
<1>5. ASSUME NEW t \in Tokens, Saver(t) \/ Reader(t) \/ Child(t) \/ Trouble(t)
      PROVE  \/ TakesKept \/ UNCHANGED ckpt
             \/ att[t].job \in Jobs /\ \E n : PutStore(att[t].job, t, n)
  <2>1. CASE Quiet(t) \/ SaverPut(t) \/ KeepFinal(t) \/ Crash(t)
    BY <2>1, QuietAdvances
       DEF libVars, SaverPut, KeepFinal, PutLock, PutRefused, Crash, Rollback
  <2>2. CASE SaverStored(t) \/ SaverFailed(t) \/ FinalStored(t) \/ FinalFailed(t)
    <3>1. att[t].job \in Jobs
      BY <2>2, UpsertAdvances, Numbers DEF Advances
    <3> QED BY <2>2, <3>1
            DEF SaverStored, SaverFailed, FinalStored, FinalFailed, Rollback, libVars
  <2>3. CASE Finish(t)
    <3> DEFINE j == att[t].job
    <3>1. j \in Jobs
      BY <2>3, OverAdvances, Numbers DEF Advances
    <3>2. PICK n : \/ FinishFailed(j, t) \/ FinishCancelled(j, t) \/ RequeueJob(j, t)
                   \/ FinishSucceeded(j, t, n)
      BY <2>3 DEF Finish, TerminalWrite, FinishProbeSelf
    <3>3. CASE FinishSucceeded(j, t, n) /\ Mine(j, t) /\ ~row[j].cancel
      BY <3>3 DEF FinishSucceeded
    <3>4. CASE ~(FinishSucceeded(j, t, n) /\ Mine(j, t) /\ ~row[j].cancel)
      BY <3>1, <3>2, <3>4, FinishUndisturbed DEF Truth, Undisturbed
    <3> QED BY <3>3, <3>4
  <2> QED BY <1>5, <2>1, <2>2, <2>3 DEF Saver, Reader, Trouble, Quiet
<1>6. ASSUME NEW j \in Jobs, NEW t \in Tokens, Claim(j, t) \/ ClaimUnheard(j, t)
      PROVE  UNCHANGED ckpt
  BY <1>6 DEF Claim, ClaimUnheard, ClaimNext
<1>7. CASE UNCHANGED vars
  BY <1>3, <1>7 DEF vars
<1> QED BY <1>1, <1>2, <1>3, <1>4, <1>5, <1>6, <1>7 DEF Next

\* However many attempts a take goes through, and however each of them ends, together they
\* are one training: every attempt begins where the take stands, and what it stores it has
\* trained beyond that.
THEOREM TakesAreOneTraining == Spec => TakesKeep
<1>1. Init => Signed /\ \A k \in Takes : Run(k)!Init
  <2> SUFFICES ASSUME Init PROVE Signed /\ \A k \in Takes : Run(k)!Init
    OBVIOUS
  <2>1. \A k \in Takes : ckpt[k].reached = 0 /\ ckpt[k].token = NoToken
    BY DEF Init, LibraryInit, NoWeights
  <2>2. \A j \in Jobs : row[j].state = "absent"
    BY DEF Init, LibraryInit, NoRow
  <2>3. \A k \in Takes : At(k) = {}
    BY <2>2 DEF At
  <2>4. \A k \in Takes : Run(k)!Init
    BY <2>1, <2>3 DEF Run!Init, StartOf, DoneOn
  <2> QED BY <2>1, <2>4 DEF Signed
<1>2. IInv /\ Truth /\ Signed /\ [Next]_vars =>
        Signed' /\ [\A k \in Takes : [Run(k)!Next]_(Run(k)!vars)]_vars
  BY NextKept, SignedStays DEF Kept
<1> QED BY <1>1, <1>2, Invariant, Truthful, PTL DEF Spec, TakesKeep
=============================================================================
