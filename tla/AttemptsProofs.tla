--------------------------- MODULE AttemptsProofs ---------------------------
(***************************************************************************)
(* Proofs about Attempts, for all jobs, takes, claim tokens and budgets.   *)
(*                                                                         *)
(* The inductive invariant has two halves.  LibInv speaks of the library   *)
(* alone: whoever has a row's lock still holds the row.  AttInv ties the   *)
(* attempts to the locks: who is between the two halves of a checkpoint    *)
(* write has the lock of its own job.  Each statement of Library keeps the *)
(* first half, each kind of step of an attempt the second, and an action   *)
(* is one of each.                                                         *)
(***************************************************************************)
EXTENDS Attempts, TLAPS

LockHolds == \A j \in Jobs, t \in Tokens : locked[j] = t => HolderOf(row[j]) = t
LockOwned == \A j \in Jobs, t \in Tokens : locked[j] = t => att[t].job = j

LibInv == LibraryTypeOK /\ LockHolds /\ CancelKeepsNothing

\* Between the fence and the upsert.
Storing(a) == a.saver = "storing" \/ a.phase = "storing"

\* What is always true of one attempt.
Sound(a) ==
  /\ a.phase = "none" => a.job = NoJob /\ a.saver = "off"
  /\ a.phase # "none" => a.job \in Jobs
  /\ ~(a.saver = "storing" /\ a.phase = "storing")

AttInv ==
  /\ att \in [Tokens -> Attempt]
  /\ faults \in 0..MaxFaults
  /\ \A t \in Tokens : Sound(att[t])
  /\ LockOwned
  /\ \A t \in Tokens : Storing(att[t]) => locked[att[t].job] = t

IInv == LibInv /\ AttInv

-----------------------------------------------------------------------------
(* The operators on an attempt.                                            *)

\* An ordinary step of an attempt: it stays the attempt at its job, and it is not
\* between fence and upsert unless it was.
Ordinary(a, b) ==
  /\ b \in Attempt /\ b.job = a.job /\ b.phase # "none"
  /\ Storing(b) => Storing(a)
  /\ ~(b.saver = "storing" /\ b.phase = "storing")

\* A kill changes the reason and the child, and nothing else.
LEMMA KilledType ==
  ASSUME NEW a \in Attempt, NEW why \in Reasons
  PROVE  /\ Killed(a, why) \in Attempt
         /\ Killed(a, why).job = a.job
         /\ Killed(a, why).phase = a.phase
         /\ Killed(a, why).saver = a.saver
<1>1. CASE a.phase \notin Killable
  BY <1>1 DEF Killed
<1>2. CASE a.phase \in Killable
  <2> DEFINE r == IF a.reason = "none" THEN why ELSE a.reason
             c == IF a.child = "alive" THEN "bad" ELSE a.child
  <2>1. Killed(a, why) = [a EXCEPT !.reason = r, !.child = c]
    BY <1>2 DEF Killed
  <2>2. r \in Reasons /\ c \in Children
    BY DEF Attempt, Children
  <2> HIDE DEF r, c
  <2> QED BY <2>1, <2>2 DEF Attempt
<1> QED BY <1>1, <1>2

\* The saver rests, and nothing else changes.
LEMMA RestedType ==
  ASSUME NEW a \in Attempt
  PROVE  /\ Rested(a) \in Attempt
         /\ Rested(a).job = a.job
         /\ Rested(a).phase = a.phase
         /\ Rested(a).saver \in {"idle", "done"}
  BY DEF Rested, Attempt, Savers

\* The attempt nobody has made yet.
LEMMA UnusedType == Unused \in Attempt
  BY DEF Unused, Attempt, Phases, Reasons, Plans, Children, Models, Savers

\* An attempt that has returned or died is over.
LEMMA OverType ==
  ASSUME NEW a \in Attempt, a.phase # "none"
  PROVE  /\ Returned(a) \in Attempt /\ Returned(a).phase = "gone"
         /\ Returned(a).job = a.job /\ Returned(a).saver = a.saver
         /\ Dead(a) \in Attempt /\ Dead(a).phase = "gone"
         /\ Dead(a).job = a.job /\ Dead(a).saver # "storing"
<1>1. Returned(a) \in Attempt
  <2>1. "gone" \in Phases
    BY DEF Phases
  <2> QED BY <2>1, UnusedType, Zenon DEF Returned, Attempt
<1>2. /\ Returned(a).phase = "gone" /\ Returned(a).job = a.job
      /\ Returned(a).saver = a.saver
  BY UnusedType DEF Returned, Attempt
<1>3. Dead(a) \in Attempt
  <2> DEFINE s == IF a.saver = "off" THEN "off" ELSE "done"
  <2>1. Dead(a) = [Unused EXCEPT !.phase = "gone", !.job = a.job, !.base = a.base,
                                 !.epoch = a.epoch, !.saver = s]
    BY DEF Dead
  <2>2. s \in Savers
    BY DEF Savers
  <2> HIDE DEF s
  <2>3. a.job \in Jobs \cup {NoJob} /\ a.base \in Nat /\ a.epoch \in Nat
    BY DEF Attempt
  <2>4. "gone" \in Phases
    BY DEF Phases
  <2>5. [Unused EXCEPT !.phase = "gone", !.job = a.job, !.base = a.base,
                       !.epoch = a.epoch, !.saver = s] \in Attempt
    BY <2>2, <2>3, <2>4, UnusedType, Zenon DEF Attempt
  <2> QED BY <2>1, <2>5
<1>4. /\ Dead(a).phase = "gone" /\ Dead(a).job = a.job
      /\ Dead(a).saver # "storing"
  BY UnusedType DEF Dead, Attempt
<1> QED BY <1>1, <1>2, <1>3, <1>4

\* A terminal write is planned, and nothing else changes.
LEMMA PlannedType ==
  ASSUME NEW a \in Attempt, NEW what \in Plans, NEW n \in Nat
  PROVE  /\ Planned(a, what, n) \in Attempt
         /\ Planned(a, what, n).job = a.job
         /\ Planned(a, what, n).phase = "finish"
         /\ Planned(a, what, n).saver = a.saver
  BY DEF Planned, Attempt, Phases

\* What the library answers is obeyed with a reason of its own.
LEMMA ObeyedType ==
  ASSUME NEW a \in Attempt, NEW j \in Jobs
  PROVE  /\ Obeyed(a, Verdict(j)) \in Attempt
         /\ Obeyed(a, Verdict(j)).job = a.job
         /\ Obeyed(a, Verdict(j)).phase = a.phase
         /\ Obeyed(a, Verdict(j)).saver = a.saver
<1>1. Verdict(j) \in {"go", "cancel", "stop"}
  BY DEF Verdict
<1>2. Verdict(j) # "go" => Verdict(j) \in Reasons
  BY <1>1 DEF Reasons
<1> QED BY <1>2, KilledType DEF Obeyed

\* The epochs a job asks for are a number.
LEMMA EpochsType == ASSUME NEW j \in Jobs PROVE Epochs[j] \in Nat
  BY LibraryAssumption

\* An exported model goes to the take or straight to the row.
LEMMA ExportedType ==
  ASSUME NEW a \in Attempt, a.job \in Jobs
  PROVE  /\ Exported(a) \in Attempt
         /\ Exported(a).job = a.job
         /\ Exported(a).phase \in {"keeping", "finish"}
         /\ Exported(a).saver = a.saver
<1>1. CASE a.model = "pair"
  BY <1>1 DEF Exported, Attempt, Phases
<1>2. CASE a.model # "pair"
  BY <1>2, PlannedType, EpochsType DEF Exported, ToRow, Plans
<1> QED BY <1>1, <1>2

-----------------------------------------------------------------------------
(* The library's half.                                                     *)

\* Nobody has the lock of row j and the row changes: the half holds if the new row is
\* well formed and a job that is cancelled has nothing on its take.
LEMMA RowStep ==
  ASSUME LibInv, NEW j \in Jobs, Unlocked(j),
         NEW r \in Row, row' = [row EXCEPT ![j] = r],
         UNCHANGED locked,
         \/ UNCHANGED ckpt
         \/ ckpt' = [ckpt EXCEPT ![TakeOf[j]] = NoWeights],
         r.state = "cancelled" => ckpt'[TakeOf[j]].job # j
  PROVE  LibInv'
<1>1. NoWeights \in Weights /\ NoWeights.job = NoJob
  BY DEF NoWeights, Weights
<1>2. TakeOf \in [Jobs -> Takes] /\ NoJob \notin Jobs /\ NoToken \notin Tokens
  BY LibraryAssumption
<1>3. LibraryTypeOK'
  BY <1>1, <1>2 DEF LibInv, LibraryTypeOK
<1>4. LockHolds'
  BY <1>2 DEF LibInv, LockHolds, LibraryTypeOK, Unlocked
<1>5. CancelKeepsNothing'
  <2> SUFFICES ASSUME NEW i \in Jobs, row'[i].state = "cancelled"
               PROVE  ckpt'[TakeOf[i]].job # i
    BY DEF CancelKeepsNothing
  <2>1. CASE i = j
    BY <2>1 DEF LibInv, LibraryTypeOK
  <2>2. CASE i # j
    <3>1. row'[i] = row[i]
      BY <2>2 DEF LibInv, LibraryTypeOK
    <3>2. ckpt[TakeOf[i]].job # i
      BY <3>1 DEF LibInv, CancelKeepsNothing
    <3> QED BY <3>2, <1>1, <1>2 DEF LibInv, LibraryTypeOK
  <2> QED BY <2>1, <2>2
<1> QED BY <1>3, <1>4, <1>5 DEF LibInv

\* The library is not touched at all.
LEMMA LibSame == ASSUME LibInv, UNCHANGED libVars PROVE LibInv'
  BY DEF LibInv, libVars, LibraryTypeOK, LockHolds, CancelKeepsNothing, HolderOf

\* A row that is not running is not locked.
LEMMA Unheld ==
  ASSUME LibInv, NEW j \in Jobs, row[j].state # "running"
  PROVE  Unlocked(j)
  BY LibraryAssumption DEF LibInv, LibraryTypeOK, LockHolds, HolderOf, Unlocked

\* Moving aside leaves nothing of this job on its take.
LEMMA MoveAsideClears ==
  ASSUME LibInv, NEW j \in Jobs, MoveAside(j)
  PROVE  /\ \/ UNCHANGED ckpt
            \/ ckpt' = [ckpt EXCEPT ![TakeOf[j]] = NoWeights]
         /\ ckpt'[TakeOf[j]].job # j
<1>1. CASE ckpt' = [ckpt EXCEPT ![TakeOf[j]] = NoWeights]
  <2>1. TakeOf[j] \in Takes /\ NoJob # j
    BY LibraryAssumption
  <2>2. ckpt'[TakeOf[j]] = NoWeights
    BY <1>1, <2>1 DEF LibInv, LibraryTypeOK
  <2>3. NoWeights.job = NoJob
    BY DEF NoWeights
  <2> QED BY <1>1, <2>1, <2>2, <2>3
<1>2. CASE ckpt[TakeOf[j]].job # j /\ UNCHANGED ckpt
  BY <1>2
<1> QED BY <1>1, <1>2 DEF MoveAside

\* A job that turns cancelled moves its weights aside.
LEMMA CloseCancelledKeeps ==
  ASSUME LibInv, NEW j \in Jobs, Unlocked(j), CloseCancelled(j), UNCHANGED locked
  PROVE  LibInv'
<1> DEFINE r == [row[j] EXCEPT !.state = "cancelled"]
<1>1. r \in Row /\ row' = [row EXCEPT ![j] = r]
  BY DEF CloseCancelled, LibInv, LibraryTypeOK, Row, States
<1>2. /\ \/ UNCHANGED ckpt
         \/ ckpt' = [ckpt EXCEPT ![TakeOf[j]] = NoWeights]
      /\ ckpt'[TakeOf[j]].job # j
  BY MoveAsideClears DEF CloseCancelled
<1> HIDE DEF r
<1> QED BY <1>1, <1>2, RowStep

\* A claim gives an unlocked row to a token.
LEMMA ClaimNextKeeps ==
  ASSUME LibInv, NEW j \in Jobs, NEW t \in Tokens, ClaimNext(j, t)
  PROVE  LibInv'
<1> DEFINE r == [row[j] EXCEPT !.state = "running", !.token = t, !.paused = FALSE]
<1>1. r \in Row /\ row' = [row EXCEPT ![j] = r] /\ r.state = "running"
  BY DEF ClaimNext, LibInv, LibraryTypeOK, Row, States
<1> HIDE DEF r
<1> QED BY <1>1, RowStep DEF ClaimNext

\* The fence has just been read.
LEMMA PutLockKeeps ==
  ASSUME LibInv, NEW j \in Jobs, NEW t \in Tokens, PutLock(j, t)
  PROVE  LibInv'
  BY DEF PutLock, LibInv, LibraryTypeOK, LockHolds, CancelKeepsNothing, HolderOf,
         MineToKeep, Mine

\* The row is still the writer's, so it is not cancelled when the weights land.
LEMMA PutStoreKeeps ==
  ASSUME LibInv, NEW j \in Jobs, NEW t \in Tokens, NEW n \in Nat,
         locked[j] = t, PutStore(j, t, n)
  PROVE  LibInv'
<1>1. row[j].state = "running"
  BY LibraryAssumption DEF LibInv, LockHolds, HolderOf
<1>2. LibraryTypeOK'
  BY LibraryAssumption DEF PutStore, LibInv, LibraryTypeOK, Weights
<1>3. LockHolds'
  BY LibraryAssumption DEF PutStore, LibInv, LibraryTypeOK, LockHolds, HolderOf
<1>4. CancelKeepsNothing'
  BY <1>1, LibraryAssumption DEF PutStore, LibInv, LibraryTypeOK, CancelKeepsNothing
<1> QED BY <1>2, <1>3, <1>4 DEF LibInv

\* A transaction that does not commit leaves the row and the take as they were.
LEMMA RollbackKeeps ==
  ASSUME LibInv, NEW j \in Jobs, NEW t \in Tokens, Rollback(j, t)
  PROVE  LibInv'
  BY LibraryAssumption
     DEF Rollback, LibInv, LibraryTypeOK, LockHolds, CancelKeepsNothing, HolderOf

\* Back to the queue, or nothing.
LEMMA RequeueKeeps ==
  ASSUME LibInv, NEW j \in Jobs, NEW t \in Tokens, RequeueJob(j, t)
  PROVE  LibInv'
<1>1. CASE Mine(j, t)
  <2> DEFINE r == [row[j] EXCEPT !.state = "queued", !.token = NoToken, !.stop = FALSE]
  <2>1. r \in Row /\ r.state = "queued"
    BY DEF LibInv, LibraryTypeOK, Row, States
  <2>2. row' = [row EXCEPT ![j] = r]
    BY <1>1 DEF RequeueJob
  <2> HIDE DEF r
  <2> QED BY <2>1, <2>2, RowStep DEF RequeueJob
<1>2. CASE ~Mine(j, t)
  BY <1>2, LibSame DEF RequeueJob, libVars
<1> QED BY <1>1, <1>2

\* Succeeded, or cancelled after all, or nothing.
LEMMA FinishSucceededKeeps ==
  ASSUME LibInv, NEW j \in Jobs, NEW t \in Tokens, NEW n \in Nat, FinishSucceeded(j, t, n)
  PROVE  LibInv'
<1>1. CASE Mine(j, t) /\ ~row[j].cancel
  <2> DEFINE r == [row[j] EXCEPT !.state = "succeeded", !.result = n]
  <2>3. row[j] \in Row /\ "succeeded" \in States
    BY DEF LibInv, LibraryTypeOK, States
  <2>4. r \in Row /\ r.state = "succeeded"
    BY <2>3 DEF Row
  <2>1. row' = [row EXCEPT ![j] = r]
    BY <1>1 DEF FinishSucceeded
  <2>2. UNCHANGED ckpt
    BY <1>1 DEF FinishSucceeded
  <2> HIDE DEF r
  <2> QED BY <2>1, <2>2, <2>4, RowStep DEF FinishSucceeded
<1>2. CASE Mine(j, t) /\ row[j].cancel
  BY <1>2, CloseCancelledKeeps DEF FinishSucceeded
<1>3. CASE ~Mine(j, t)
  BY <1>3, LibSame DEF FinishSucceeded, libVars
<1> QED BY <1>1, <1>2, <1>3

\* Failed, or nothing.
LEMMA FinishFailedKeeps ==
  ASSUME LibInv, NEW j \in Jobs, NEW t \in Tokens, FinishFailed(j, t)
  PROVE  LibInv'
<1>1. CASE Mine(j, t)
  <2> DEFINE r == [row[j] EXCEPT !.state = "failed"]
  <2>1. r \in Row /\ row' = [row EXCEPT ![j] = r] /\ r.state = "failed"
    BY <1>1 DEF FinishFailed, LibInv, LibraryTypeOK, Row, States
  <2> HIDE DEF r
  <2> QED BY <2>1, RowStep DEF FinishFailed
<1>2. CASE ~Mine(j, t)
  BY <1>2, LibSame DEF FinishFailed, libVars
<1> QED BY <1>1, <1>2

\* Cancelled, or nothing.
LEMMA FinishCancelledKeeps ==
  ASSUME LibInv, NEW j \in Jobs, NEW t \in Tokens, FinishCancelled(j, t)
  PROVE  LibInv'
<1>1. CASE Mine(j, t)
  BY <1>1, CloseCancelledKeeps DEF FinishCancelled
<1>2. CASE ~Mine(j, t)
  BY <1>2, LibSame DEF FinishCancelled, libVars
<1> QED BY <1>1, <1>2

\* What the application and cron do to a row.
LEMMA OutsideKeeps ==
  ASSUME LibInv, NEW j \in Jobs,
         \/ Enqueue(j) \/ AskStop(j) \/ AskCancel(j) \/ CloseQueued(j)
         \/ CancelStale(j) \/ MarkPaused(j)
  PROVE  LibInv' /\ UNCHANGED locked
<1>1. CASE Enqueue(j)
  <2> DEFINE r == [row[j] EXCEPT !.state = "queued"]
  <2>1. r \in Row /\ row' = [row EXCEPT ![j] = r] /\ r.state = "queued"
    BY <1>1 DEF Enqueue, LibInv, LibraryTypeOK, Row, States
  <2> HIDE DEF r
  <2> QED BY <1>1, <2>1, RowStep, Unheld DEF Enqueue
<1>2. CASE AskStop(j)
  <2> DEFINE r == [row[j] EXCEPT !.stop = TRUE]
  <2>1. r \in Row /\ row' = [row EXCEPT ![j] = r] /\ r.state = row[j].state
    BY <1>2 DEF AskStop, LibInv, LibraryTypeOK, Row
  <2> HIDE DEF r
  <2> QED BY <1>2, <2>1, RowStep DEF AskStop
<1>3. CASE AskCancel(j)
  <2> DEFINE r == [row[j] EXCEPT !.cancel = TRUE]
  <2>1. r \in Row /\ row' = [row EXCEPT ![j] = r] /\ r.state = row[j].state
    BY <1>3 DEF AskCancel, LibInv, LibraryTypeOK, Row
  <2> HIDE DEF r
  <2> QED BY <1>3, <2>1, RowStep DEF AskCancel, Live
<1>4. CASE CloseQueued(j)
  BY <1>4, CloseCancelledKeeps, Unheld DEF CloseQueued
<1>5. CASE CancelStale(j)
  <2>1. PICK t \in {row[j].token, NoToken} :
          row' = [row EXCEPT ![j] = [@ EXCEPT !.state = "cancelled", !.token = t]]
    BY <1>5 DEF CancelStale
  <2> DEFINE r == [row[j] EXCEPT !.state = "cancelled", !.token = t]
  <2>2. r \in Row /\ row' = [row EXCEPT ![j] = r]
    BY <2>1 DEF LibInv, LibraryTypeOK, Row, States
  <2>3. /\ \/ UNCHANGED ckpt
           \/ ckpt' = [ckpt EXCEPT ![TakeOf[j]] = NoWeights]
        /\ ckpt'[TakeOf[j]].job # j
    BY <1>5, MoveAsideClears DEF CancelStale
  <2> HIDE DEF r
  <2> QED BY <1>5, <2>2, <2>3, RowStep DEF CancelStale
<1>6. CASE MarkPaused(j)
  <2> DEFINE r == [row[j] EXCEPT !.paused = TRUE]
  <2>1. r \in Row /\ row' = [row EXCEPT ![j] = r] /\ r.state = row[j].state
    BY <1>6 DEF MarkPaused, LibInv, LibraryTypeOK, Row
  <2> HIDE DEF r
  <2> QED BY <1>6, <2>1, RowStep DEF MarkPaused
<1> QED BY <1>1, <1>2, <1>3, <1>4, <1>5, <1>6

-----------------------------------------------------------------------------
(* The attempts' half.                                                     *)

\* A fault takes one from the budget.
LEMMA FaultType ==
  ASSUME AttInv, NEW kind, Fault(kind)
  PROVE  faults' \in 0..MaxFaults
  BY AttemptsAssumption DEF AttInv, Fault

\* An ordinary step leaves the locks where they are.
LEMMA OrdinaryStep ==
  ASSUME LibInv, AttInv, NEW t \in Tokens, att[t].phase # "none",
         NEW b, Ordinary(att[t], b), att' = [att EXCEPT ![t] = b],
         UNCHANGED locked, faults' \in 0..MaxFaults
  PROVE  AttInv'
<1>1. att' \in [Tokens -> Attempt]
  BY DEF AttInv, Ordinary
<1>2. \A u \in Tokens : u # t => att'[u] = att[u]
  BY DEF AttInv
<1>3. att'[t] = b /\ b.job = att[t].job
  BY DEF AttInv, Ordinary
<1>4. \A u \in Tokens : Sound(att'[u])
  BY <1>2, <1>3 DEF AttInv, Sound, Ordinary
<1>5. LockOwned'
  BY <1>2, <1>3 DEF AttInv, LockOwned
<1>6. \A u \in Tokens : Storing(att'[u]) => locked'[att'[u].job] = u
  BY <1>2, <1>3 DEF AttInv, Ordinary
<1> QED BY <1>1, <1>4, <1>5, <1>6 DEF AttInv

\* A claim finds the token unused, so no lock carries it yet.
LEMMA FreshStep ==
  ASSUME LibInv, AttInv, NEW t \in Tokens, att[t].phase = "none", NEW j \in Jobs,
         NEW b \in Attempt, b.job = j, b.phase \in {"claimed", "gone"}, b.saver = "off",
         att' = [att EXCEPT ![t] = b],
         UNCHANGED locked, faults' \in 0..MaxFaults
  PROVE  AttInv'
<1>1. att' \in [Tokens -> Attempt]
  BY DEF AttInv
<1>2. \A u \in Tokens : u # t => att'[u] = att[u]
  BY DEF AttInv
<1>3. att'[t] = b
  BY DEF AttInv
<1>4. \A u \in Tokens : Sound(att'[u])
  BY <1>2, <1>3 DEF AttInv, Sound
<1>5. \A i \in Jobs : locked[i] # t
  BY LibraryAssumption DEF AttInv, Sound, LockOwned
<1>6. LockOwned'
  BY <1>2, <1>5 DEF AttInv, LockOwned
<1>7. \A u \in Tokens : Storing(att'[u]) => locked'[att'[u].job] = u
  BY <1>2, <1>3 DEF AttInv, Storing
<1> QED BY <1>1, <1>4, <1>6, <1>7 DEF AttInv

\* The fence has been read: the attempt has the lock of its own job.
LEMMA AcquireStep ==
  ASSUME LibInv, AttInv, NEW t \in Tokens, att[t].phase # "none",
         PutLock(att[t].job, t),
         NEW b \in Attempt, b.job = att[t].job, b.phase # "none",
         ~(b.saver = "storing" /\ b.phase = "storing"),
         att' = [att EXCEPT ![t] = b], faults' \in 0..MaxFaults
  PROVE  AttInv'
<1> DEFINE j == att[t].job
<1>0. j \in Jobs /\ locked \in [Jobs -> Tokens \cup {NoToken}] /\ NoToken \notin Tokens
  BY LibraryAssumption DEF AttInv, Sound, LibInv, LibraryTypeOK
<1>1. att' \in [Tokens -> Attempt]
  BY DEF AttInv
<1>2. \A u \in Tokens : u # t => att'[u] = att[u]
  BY DEF AttInv
<1>3. att'[t] = b
  BY DEF AttInv
<1>4. \A u \in Tokens : Sound(att'[u])
  BY <1>0, <1>2, <1>3 DEF AttInv, Sound
<1>5. locked[j] = NoToken /\ locked' = [locked EXCEPT ![j] = t]
  BY DEF PutLock, Unlocked
<1>6. LockOwned'
  BY <1>0, <1>2, <1>3, <1>5 DEF AttInv, LockOwned
<1>7. ASSUME NEW u \in Tokens, Storing(att'[u])
      PROVE  locked'[att'[u].job] = u
  <2>1. CASE u = t
    BY <2>1, <1>0, <1>3, <1>5
  <2>2. CASE u # t
    <3>1. att'[u] = att[u] /\ locked[att[u].job] = u
      BY <2>2, <1>2, <1>7 DEF AttInv
    <3>2. att[u].job # j
      BY <3>1, <1>0, <1>5
    <3> QED BY <3>1, <3>2, <1>5
  <2> QED BY <2>1, <2>2
<1> QED BY <1>1, <1>4, <1>6, <1>7 DEF AttInv

\* The transaction is over: the attempt is not between fence and upsert any more.
LEMMA ReleaseStep ==
  ASSUME LibInv, AttInv, NEW t \in Tokens, att[t].phase # "none",
         \/ locked' = [locked EXCEPT ![att[t].job] = IF @ = t THEN NoToken ELSE @]
         \/ /\ locked[att[t].job] = t
            /\ locked' = [locked EXCEPT ![att[t].job] = NoToken],
         NEW b \in Attempt, b.job = att[t].job, b.phase # "none", ~Storing(b),
         att' = [att EXCEPT ![t] = b], faults' \in 0..MaxFaults
  PROVE  AttInv'
<1> DEFINE j == att[t].job
<1>0. j \in Jobs /\ locked \in [Jobs -> Tokens \cup {NoToken}] /\ NoToken \notin Tokens
  BY LibraryAssumption DEF AttInv, Sound, LibInv, LibraryTypeOK
<1>1. att' \in [Tokens -> Attempt]
  BY DEF AttInv
<1>2. \A u \in Tokens : u # t => att'[u] = att[u]
  BY DEF AttInv
<1>3. att'[t] = b
  BY DEF AttInv
<1>4. \A u \in Tokens : Sound(att'[u])
  BY <1>0, <1>2, <1>3 DEF AttInv, Sound, Storing
<1>5. \A i \in Jobs : locked'[i] = locked[i] \/ (locked[i] = t /\ locked'[i] = NoToken)
  BY <1>0
<1>6. LockOwned'
  BY <1>0, <1>2, <1>3, <1>5 DEF AttInv, LockOwned
<1>7. ASSUME NEW u \in Tokens, Storing(att'[u])
      PROVE  locked'[att'[u].job] = u
  <2>1. u # t
    BY <1>3, <1>7
  <2>2. att'[u] = att[u] /\ locked[att[u].job] = u
    BY <2>1, <1>2, <1>7 DEF AttInv
  <2>3. att[u].job \in Jobs
    BY <2>2, <1>7 DEF AttInv, Sound, Storing
  <2> QED BY <2>1, <2>2, <2>3, <1>5
<1> QED BY <1>1, <1>4, <1>6, <1>7 DEF AttInv

\* Nothing happens to any attempt or lock.
LEMMA IdleStep ==
  ASSUME AttInv, UNCHANGED <<att, locked>>, faults' \in 0..MaxFaults
  PROVE  AttInv'
  BY DEF AttInv, LockOwned

\* An ordinary step beside an unchanged library.
LEMMA QuietStep ==
  ASSUME IInv, NEW t \in Tokens, att[t].phase # "none",
         NEW b, Ordinary(att[t], b), att' = [att EXCEPT ![t] = b],
         UNCHANGED libVars, faults' \in 0..MaxFaults
  PROVE  IInv'
<1>1. LibInv' /\ UNCHANGED locked
  BY LibSame DEF IInv, libVars
<1> QED BY <1>1, OrdinaryStep DEF IInv

\* A step that begins no write of weights is ordinary.
LEMMA MildOrdinary ==
  ASSUME NEW a \in Attempt, Sound(a), a.phase # "none",
         NEW b \in Attempt, b.job = a.job, b.phase # "none",
         b.phase = a.phase \/ b.phase # "storing",
         b.saver = a.saver \/ b.saver # "storing"
  PROVE  Ordinary(a, b)
  BY DEF Ordinary, Sound, Storing

\* Planning a terminal write is an ordinary step.
LEMMA PlannedOrdinary ==
  ASSUME NEW a \in Attempt, NEW what \in Plans, NEW n \in Nat
  PROVE  Ordinary(a, Planned(a, what, n))
  BY PlannedType DEF Ordinary, Storing

\* A kill keeps an ordinary step ordinary.
LEMMA KilledOrdinary ==
  ASSUME NEW a \in Attempt, NEW b, Ordinary(a, b), NEW why \in Reasons
  PROVE  Ordinary(a, Killed(b, why))
  BY KilledType DEF Ordinary, Storing

\* What every step of an attempt may use.
LEMMA AttemptFacts ==
  ASSUME IInv, NEW t \in Tokens, att[t].phase # "none"
  PROVE  /\ att[t] \in Attempt /\ att[t].job \in Jobs /\ Sound(att[t])
         /\ att[t].epoch \in Nat /\ att[t].base \in Nat
         /\ att[t].pair \in Nat /\ att[t].reached \in Nat
         /\ faults \in 0..MaxFaults
         /\ TakeOf[att[t].job] \in Takes
         /\ ckpt[TakeOf[att[t].job]].reached \in Nat
<1>1. att[t] \in Attempt /\ Sound(att[t]) /\ faults \in 0..MaxFaults
  BY DEF IInv, AttInv
<1>2. att[t].job \in Jobs
  BY <1>1 DEF Sound
<1>3. /\ att[t].epoch \in Nat /\ att[t].base \in Nat
      /\ att[t].pair \in Nat /\ att[t].reached \in Nat
  BY <1>1 DEF Attempt
<1>4. TakeOf[att[t].job] \in Takes
  BY <1>2, LibraryAssumption
<1>5. ckpt[TakeOf[att[t].job]] \in Weights
  BY <1>4 DEF IInv, LibInv, LibraryTypeOK
<1> QED BY <1>1, <1>2, <1>3, <1>4, <1>5 DEF Weights

-----------------------------------------------------------------------------
(* The actions of an attempt.                                              *)

\* A worker claims, heard or not.
LEMMA ClaimKeeps ==
  ASSUME IInv, NEW j \in Jobs, NEW t \in Tokens, Claim(j, t) \/ ClaimUnheard(j, t)
  PROVE  IInv'
<1>1. LibInv' /\ UNCHANGED locked
  BY ClaimNextKeeps DEF IInv, Claim, ClaimUnheard, ClaimNext
<1>2. PICK b \in Attempt :
        /\ b.job = j /\ b.phase \in {"claimed", "gone"} /\ b.saver = "off"
        /\ att' = [att EXCEPT ![t] = b]
  <2>1. CASE Claim(j, t)
    <3> DEFINE b == [Unused EXCEPT !.phase = "claimed", !.job = j,
                                   !.stop = row[j].stop, !.cancel = row[j].cancel]
    <3>1. row[j].stop \in BOOLEAN /\ row[j].cancel \in BOOLEAN
      BY DEF IInv, LibInv, LibraryTypeOK, Row
    <3>2. b \in Attempt
      BY <3>1, UnusedType DEF Attempt, Phases
    <3>3. b.job = j /\ b.phase = "claimed" /\ b.saver = "off"
      BY DEF Unused
    <3> QED BY <2>1, <3>2, <3>3 DEF Claim
  <2>2. CASE ClaimUnheard(j, t)
    <3> DEFINE b == [Unused EXCEPT !.phase = "gone", !.job = j]
    <3>1. b \in Attempt
      BY UnusedType DEF Attempt, Phases
    <3>2. b.job = j /\ b.phase = "gone" /\ b.saver = "off"
      BY DEF Unused
    <3> QED BY <2>2, <3>1, <3>2 DEF ClaimUnheard
  <2> QED BY <2>1, <2>2
<1>3. att[t].phase = "none" /\ faults' \in 0..MaxFaults
  BY FaultType DEF IInv, AttInv, Claim, ClaimUnheard
<1> QED BY <1>1, <1>2, <1>3, FreshStep DEF IInv

\* An ask that was waiting on the row is answered without a child.
LEMMA AnswerKeeps ==
  ASSUME IInv, NEW t \in Tokens, AnswerCancel(t) \/ AnswerStop(t)
  PROVE  IInv'
<1>1. att[t].phase # "none" /\ UNCHANGED libVars
  BY DEF AnswerCancel, AnswerStop
<1>2. faults' \in 0..MaxFaults
  BY FaultType DEF IInv, AttInv, AnswerCancel, AnswerStop, PoolFault
<1>3. \E what \in Plans, n \in Nat : att' = [att EXCEPT ![t] = Planned(att[t], what, n)]
  <2>1. CASE AnswerCancel(t)
    BY <2>1 DEF AnswerCancel, Plans
  <2>2. CASE AnswerStop(t)
    BY <2>2, <1>1, AttemptFacts DEF AnswerStop, Plans
  <2> QED BY <2>1, <2>2
<1> QED BY <1>1, <1>2, <1>3, AttemptFacts, PlannedOrdinary, QuietStep

\* The child is spawned, or the attempt fails before there is one.
LEMMA StartKeeps ==
  ASSUME IInv, NEW t \in Tokens, SpawnChild(t) \/ RefuseJob(t)
  PROVE  IInv'
<1>1. att[t].phase = "claimed" /\ UNCHANGED libVars
  BY DEF SpawnChild, RefuseJob
<1>2. faults' \in 0..MaxFaults
  BY FaultType DEF IInv, AttInv, SpawnChild, RefuseJob
<1>3. CASE SpawnChild(t)
  <2> DEFINE from == Resume(att[t].job)
             b == [att[t] EXCEPT !.phase = "spawned", !.child = "alive",
                                 !.base = from, !.epoch = from]
  <2>1. from \in Nat
    BY <1>1, AttemptFacts DEF Resume
  <2>2. att' = [att EXCEPT ![t] = b]
    BY <1>3 DEF SpawnChild
  <2> HIDE DEF from
  <2>4. att[t] \in Attempt /\ Sound(att[t]) /\ att[t].phase # "none"
    BY <1>1, AttemptFacts
  <2>5. b \in Attempt
    BY <2>1, <2>4, Zenon DEF Attempt, Phases, Children
  <2>6. b.job = att[t].job /\ b.phase = "spawned" /\ b.saver = att[t].saver
    BY <2>4 DEF Attempt
  <2>3. Ordinary(att[t], b)
    BY <2>4, <2>5, <2>6, MildOrdinary
  <2> HIDE DEF b
  <2> QED BY <1>1, <1>2, <2>2, <2>3, QuietStep
<1>4. CASE RefuseJob(t)
  BY <1>1, <1>2, <1>4, AttemptFacts, PlannedOrdinary, QuietStep DEF RefuseJob, Plans
<1> QED BY <1>3, <1>4

\* The pgid is recorded, or the child goes.
LEMMA RecordPgidKeeps ==
  ASSUME IInv, NEW t \in Tokens, RecordPgid(t)
  PROVE  IInv'
<1> DEFINE Begun(a) == [a EXCEPT !.phase = "running",
                                 !.saver = IF TrainLane(att[t].job) THEN "idle" ELSE "off"]
<1>1. att[t].phase = "spawned" /\ UNCHANGED libVars /\ att[t] \in Attempt
  BY AttemptFacts DEF RecordPgid
<1>2. faults' \in 0..MaxFaults
  BY FaultType DEF IInv, AttInv, RecordPgid, PoolFault
<1>3. ASSUME NEW a \in Attempt, a.job = att[t].job
      PROVE  Ordinary(att[t], Begun(a))
  <2> DEFINE s == IF TrainLane(att[t].job) THEN "idle" ELSE "off"
  <2>1. s \in {"idle", "off"}
    OBVIOUS
  <2> HIDE DEF s
  <2>5. "running" \in Phases /\ s \in Savers
    BY <2>1 DEF Phases, Savers
  <2>2. [a EXCEPT !.phase = "running", !.saver = s] \in Attempt
    BY <2>1, <2>5, Zenon DEF Attempt
  <2>3. /\ [a EXCEPT !.phase = "running", !.saver = s].job = att[t].job
        /\ [a EXCEPT !.phase = "running", !.saver = s].phase = "running"
        /\ [a EXCEPT !.phase = "running", !.saver = s].saver = s
    BY <1>3 DEF Attempt
  <2>4. Begun(a) = [a EXCEPT !.phase = "running", !.saver = s]
    BY DEF s
  <2> HIDE DEF Begun
  <2> QED BY <2>1, <2>2, <2>3, <2>4 DEF Ordinary, Storing
<1>4. "lost" \in Reasons
  BY DEF Reasons
<1>5. \E a \in {att[t], Killed(att[t], "lost")} : att' = [att EXCEPT ![t] = Begun(a)]
  BY DEF RecordPgid
<1> HIDE DEF Begun
<1> QED BY <1>1, <1>2, <1>3, <1>4, <1>5, KilledType, QuietStep

\* The child trains, exports or leaves.
LEMMA ChildKeeps ==
  ASSUME IInv, NEW t \in Tokens, Child(t)
  PROVE  IInv'
<1>1. att[t].phase \in {"running", "draining"} /\ UNCHANGED <<libVars, faults>>
  BY DEF Child, Epoch, Export, ChildExit
<1>2. att[t] \in Attempt /\ Sound(att[t]) /\ att[t].phase # "none" /\ faults' \in 0..MaxFaults
  BY <1>1, AttemptFacts
<1>3. PICK b \in Attempt :
        /\ b.job = att[t].job /\ b.phase = att[t].phase /\ b.saver = att[t].saver
        /\ att' = [att EXCEPT ![t] = b]
  <2>1. CASE Epoch(t)
    <3> DEFINE n == att[t].epoch + 1
               b == [att[t] EXCEPT !.epoch = n, !.nudged = TRUE]
    <3>1. n \in Nat
      BY <1>1, AttemptFacts
    <3>2. att' = [att EXCEPT ![t] = b]
      BY <2>1 DEF Epoch
    <3> HIDE DEF n
    <3>3. b \in Attempt
      BY <1>2, <3>1 DEF Attempt
    <3>4. b.job = att[t].job /\ b.phase = att[t].phase /\ b.saver = att[t].saver
      BY <1>2 DEF Attempt
    <3> QED BY <3>2, <3>3, <3>4
  <2>2. CASE Export(t)
    <3>1. PICK m \in {"nam", "pair"} : att' = [att EXCEPT ![t].model = m]
      BY <2>2 DEF Export
    <3> DEFINE b == [att[t] EXCEPT !.model = m]
    <3>2. att' = [att EXCEPT ![t] = b]
      BY <3>1
    <3>3. b \in Attempt
      BY <1>2, Zenon DEF Attempt, Models
    <3>4. b.job = att[t].job /\ b.phase = att[t].phase /\ b.saver = att[t].saver
      BY <1>2 DEF Attempt
    <3> QED BY <3>2, <3>3, <3>4
  <2>3. CASE ChildExit(t)
    <3>1. PICK c \in {"ok", "bad"} : att' = [att EXCEPT ![t].child = c]
      BY <2>3 DEF ChildExit
    <3> DEFINE b == [att[t] EXCEPT !.child = c]
    <3>2. att' = [att EXCEPT ![t] = b]
      BY <3>1
    <3>3. b \in Attempt
      BY <1>2, Zenon DEF Attempt, Children
    <3>4. b.job = att[t].job /\ b.phase = att[t].phase /\ b.saver = att[t].saver
      BY <1>2 DEF Attempt
    <3> QED BY <3>2, <3>3, <3>4
  <2> QED BY <2>1, <2>2, <2>3 DEF Child
<1>4. Ordinary(att[t], b)
  BY <1>2, <1>3, MildOrdinary
<1> QED BY <1>1, <1>2, <1>3, <1>4, QuietStep

\* A verdict is read, the output ends, or a kill comes from outside.
LEMMA ReadKeeps ==
  ASSUME IInv, NEW t \in Tokens,
         \/ ReadVerdict(t) \/ Eof(t)
         \/ \E why \in {"shutdown", "pause", "stall"} : Kill(t, why)
  PROVE  IInv'
<1>1. att[t].phase \in Killable /\ UNCHANGED libVars
  BY DEF ReadVerdict, Eof, Kill, Killable
<1>2. att[t].phase # "none" /\ att[t].phase # "storing"
  BY <1>1 DEF Killable
<1>3. faults' \in 0..MaxFaults
  BY FaultType DEF IInv, AttInv, ReadVerdict, Eof, Kill
<1>4. {"verdict", "shutdown", "pause", "stall"} \subseteq Reasons
  BY DEF Reasons
<1>9. att[t] \in Attempt /\ Sound(att[t])
  BY <1>2, AttemptFacts
<1>5. Ordinary(att[t], att[t])
  BY <1>2, <1>9, MildOrdinary
<1>6. CASE ReadVerdict(t)
  <2> DEFINE b == [att[t] EXCEPT !.verdict = TRUE]
  <2>3. b \in Attempt
    BY <1>9 DEF Attempt
  <2>4. b.job = att[t].job /\ b.phase = att[t].phase /\ b.saver = att[t].saver
    BY <1>9 DEF Attempt
  <2> HIDE DEF b
  <2>5. Ordinary(att[t], b)
    BY <1>2, <1>9, <2>3, <2>4, MildOrdinary
  <2> USE DEF b
  <2>1. Ordinary(att[t], [att[t] EXCEPT !.verdict = TRUE])
    BY <2>5
  <2>2. Ordinary(att[t], Killed([att[t] EXCEPT !.verdict = TRUE], "verdict"))
    BY <1>2, <1>4, <2>1, AttemptFacts, KilledOrdinary
  <2> QED BY <1>1, <1>2, <1>3, <1>6, <2>2, QuietStep DEF ReadVerdict
<1>7. CASE Eof(t)
  <2> DEFINE b == [att[t] EXCEPT !.phase = "draining"]
  <2>1. att' = [att EXCEPT ![t] = b]
    BY <1>7 DEF Eof
  <2>2. b \in Attempt
    BY <1>9 DEF Attempt, Phases
  <2>3. b.job = att[t].job /\ b.phase = "draining" /\ b.saver = att[t].saver
    BY <1>9 DEF Attempt
  <2> HIDE DEF b
  <2>4. Ordinary(att[t], b)
    BY <1>2, <1>9, <2>2, <2>3, MildOrdinary
  <2> QED BY <1>1, <1>2, <1>3, <2>1, <2>4, QuietStep
<1>8. ASSUME NEW why \in {"shutdown", "pause", "stall"}, Kill(t, why)
      PROVE  IInv'
  <2>1. Ordinary(att[t], Killed(att[t], why))
    BY <1>2, <1>4, <1>5, AttemptFacts, KilledOrdinary
  <2> QED BY <1>1, <1>2, <1>3, <1>8, <2>1, QuietStep DEF Kill
<1> QED BY <1>6, <1>7, <1>8

\* The saver looks at the disk: it takes a pair to write, or rests.
LEMMA SaverLookKeeps ==
  ASSUME IInv, NEW t \in Tokens, SaverLook(t)
  PROVE  IInv'
<1>1. att[t].saver = "idle" /\ UNCHANGED <<libVars, faults>>
  BY DEF SaverLook
<1>2. att[t].phase # "none"
  BY <1>1 DEF IInv, AttInv, Sound
<1>3. /\ att[t] \in Attempt /\ Sound(att[t]) /\ faults' \in 0..MaxFaults
      /\ att[t].base \in Nat /\ att[t].epoch \in Nat
  BY <1>1, <1>2, AttemptFacts
<1>4. PICK b \in Attempt :
        /\ b.job = att[t].job /\ b.phase = att[t].phase /\ b.saver # "storing"
        /\ att' = [att EXCEPT ![t] = b]
  <2>1. PICK lastLook \in BOOLEAN :
          \/ \E n \in (att[t].base + 1)..att[t].epoch :
               att' = [att EXCEPT ![t] = [@ EXCEPT !.saver = "writing", !.pair = n,
                                               !.nudged = FALSE, !.last = lastLook]]
          \/ att' = [att EXCEPT ![t] =
                       Rested([@ EXCEPT !.nudged = FALSE, !.last = lastLook])]
    BY DEF SaverLook
  <2>2. ASSUME NEW n \in (att[t].base + 1)..att[t].epoch,
               att' = [att EXCEPT ![t] = [@ EXCEPT !.saver = "writing", !.pair = n,
                                               !.nudged = FALSE, !.last = lastLook]]
        PROVE  \E b \in Attempt :
                 /\ b.job = att[t].job /\ b.phase = att[t].phase /\ b.saver # "storing"
                 /\ att' = [att EXCEPT ![t] = b]
    <3> DEFINE b == [att[t] EXCEPT !.saver = "writing", !.pair = n,
                                   !.nudged = FALSE, !.last = lastLook]
    <3>1. n \in Nat
      BY <1>3
    <3>2. b \in Attempt
      BY <1>3, <3>1, Zenon DEF Attempt, Savers
    <3>3. b.job = att[t].job /\ b.phase = att[t].phase /\ b.saver = "writing"
      BY <1>3 DEF Attempt
    <3> QED BY <2>2, <3>2, <3>3
  <2>3. CASE att' = [att EXCEPT ![t] =
                       Rested([@ EXCEPT !.nudged = FALSE, !.last = lastLook])]
    <3> DEFINE a == [att[t] EXCEPT !.nudged = FALSE, !.last = lastLook]
    <3>1. a \in Attempt
      BY <1>3 DEF Attempt
    <3>2. a.job = att[t].job /\ a.phase = att[t].phase
      BY <1>3 DEF Attempt
    <3>3. att' = [att EXCEPT ![t] = Rested(a)]
      BY <2>3
    <3> HIDE DEF a
    <3> QED BY <3>1, <3>2, <3>3, RestedType
  <2> QED BY <2>1, <2>2, <2>3
<1>5. Ordinary(att[t], b)
  BY <1>2, <1>3, <1>4, MildOrdinary
<1> QED BY <1>1, <1>2, <1>3, <1>4, <1>5, QuietStep

\* An attempt that is not storing reads the fence.
LEMMA FenceKeeps ==
  ASSUME IInv, NEW t \in Tokens, SaverPut(t) \/ KeepFinal(t)
  PROVE  IInv'
<1>1. att[t].saver = "writing" \/ att[t].phase = "keeping"
  BY DEF SaverPut, KeepFinal
<1>2. att[t].phase # "none"
  BY <1>1 DEF IInv, AttInv, Sound
<1>3. /\ att[t] \in Attempt /\ att[t].job \in Jobs /\ Sound(att[t])
      /\ faults' \in 0..MaxFaults /\ LibInv /\ AttInv
  BY <1>2, AttemptFacts DEF IInv, SaverPut, KeepFinal
<1>4. "lost" \in Reasons
  BY DEF Reasons
<1>5. CASE SaverPut(t) /\ PutLock(att[t].job, t)
  <2> DEFINE b == [att[t] EXCEPT !.saver = "storing"]
  <2>1. CASE att[t].phase # "storing"
    <3>1. b \in Attempt
      BY <1>3, Zenon DEF Attempt, Savers
    <3>2. b.job = att[t].job /\ b.phase = att[t].phase
      BY <1>3 DEF Attempt
    <3>3. att' = [att EXCEPT ![t] = b]
      BY <1>2, <1>3, <1>5, <2>1, LibraryAssumption DEF SaverPut, PutLock, PutRefused
    <3>4. AttInv'
      BY <1>2, <1>3, <1>5, <2>1, <3>1, <3>2, <3>3, AcquireStep
    <3> QED BY <1>3, <1>5, <3>4, PutLockKeeps DEF IInv
  <2>2. CASE att[t].phase = "storing"
    <3>1. locked[att[t].job] = t
      BY <2>2 DEF IInv, AttInv, Storing
    <3> QED BY <1>5, <3>1, LibraryAssumption DEF PutLock, Unlocked
  <2> QED BY <2>1, <2>2
<1>6. CASE SaverPut(t) /\ PutRefused(att[t].job, t)
  <2>1. att' = [att EXCEPT ![t] = Killed(Rested(att[t]), "lost")]
    BY <1>6 DEF SaverPut, PutLock, PutRefused
  <2>2. /\ Rested(att[t]) \in Attempt /\ Rested(att[t]).job = att[t].job
        /\ Rested(att[t]).phase = att[t].phase /\ Rested(att[t]).saver # "storing"
    BY <1>3, RestedType
  <2>3. Ordinary(att[t], Rested(att[t]))
    BY <1>2, <1>3, <2>2, MildOrdinary
  <2>4. Ordinary(att[t], Killed(Rested(att[t]), "lost"))
    BY <1>3, <1>4, <2>3, KilledOrdinary
  <2> QED BY <1>2, <1>3, <1>6, <2>1, <2>4, QuietStep DEF PutRefused
<1>7. CASE KeepFinal(t) /\ PutLock(att[t].job, t)
  <2> DEFINE b == [att[t] EXCEPT !.phase = "storing"]
  <2>1. CASE att[t].saver # "storing"
    <3>1. b \in Attempt
      BY <1>3 DEF Attempt, Phases
    <3>2. b.job = att[t].job /\ b.phase = "storing" /\ b.saver = att[t].saver
      BY <1>3 DEF Attempt
    <3>3. att' = [att EXCEPT ![t] = b]
      BY <1>7 DEF KeepFinal, PutLock, PutRefused
    <3>4. AttInv'
      BY <1>2, <1>3, <1>7, <2>1, <3>1, <3>2, <3>3, AcquireStep
    <3> QED BY <1>3, <1>7, <3>4, PutLockKeeps DEF IInv
  <2>2. CASE att[t].saver = "storing"
    <3>1. locked[att[t].job] = t
      BY <2>2 DEF IInv, AttInv, Storing
    <3> QED BY <1>7, <3>1, LibraryAssumption DEF PutLock, Unlocked
  <2> QED BY <2>1, <2>2
<1>8. CASE KeepFinal(t) /\ PutRefused(att[t].job, t)
  <2>1. att' = [att EXCEPT ![t] = ToRow(att[t])]
    BY <1>8 DEF KeepFinal, PutLock, PutRefused
  <2>2. Ordinary(att[t], ToRow(att[t]))
    BY <1>3, EpochsType, PlannedOrdinary DEF ToRow, Plans
  <2> QED BY <1>2, <1>3, <1>8, <2>1, <2>2, QuietStep DEF PutRefused
<1> QED BY <1>5, <1>6, <1>7, <1>8 DEF SaverPut, KeepFinal

\* The other half of the write, committed or rolled back, ends the transaction.
LEMMA UpsertKeeps ==
  ASSUME IInv, NEW t \in Tokens,
         SaverStored(t) \/ SaverFailed(t) \/ FinalStored(t) \/ FinalFailed(t)
  PROVE  IInv'
<1> DEFINE j == att[t].job
<1>1. att[t].saver \in {"writing", "storing"} \/ att[t].phase \in {"keeping", "storing"}
  BY DEF SaverStored, SaverFailed, FinalStored, FinalFailed
<1>2. att[t].phase # "none"
  BY <1>1 DEF IInv, AttInv, Sound
<1>3. /\ att[t] \in Attempt /\ j \in Jobs /\ Sound(att[t]) /\ att[t].pair \in Nat
      /\ LibInv /\ AttInv /\ Epochs[j] \in Nat
  BY <1>2, AttemptFacts, EpochsType DEF IInv
<1>4. faults' \in 0..MaxFaults
  BY FaultType DEF IInv, AttInv, SaverStored, SaverFailed, FinalStored, FinalFailed
<1>5. /\ Rested(att[t]) \in Attempt /\ Rested(att[t]).job = j
      /\ Rested(att[t]).phase = att[t].phase /\ Rested(att[t]).saver # "storing"
  BY <1>3, RestedType
<1>6. /\ ToRow(att[t]) \in Attempt /\ ToRow(att[t]).job = j
      /\ ToRow(att[t]).phase = "finish" /\ ToRow(att[t]).saver = att[t].saver
  BY <1>3, PlannedType DEF ToRow, Plans
<1>7. Ordinary(att[t], Rested(att[t])) /\ Ordinary(att[t], ToRow(att[t]))
  BY <1>2, <1>3, <1>5, <1>6, MildOrdinary
<1>8. CASE att[t].saver = "storing" /\ (SaverStored(t) \/ SaverFailed(t))
  <2>1. PICK b \in {Rested(att[t]), Obeyed(Rested(att[t]), Verdict(j))} :
          att' = [att EXCEPT ![t] = b]
    BY <1>8 DEF SaverStored, SaverFailed
  <2>2. b \in Attempt /\ b.job = j /\ b.phase = att[t].phase /\ b.saver # "storing"
    BY <1>3, <1>5, ObeyedType
  <2>3. ~Storing(b)
    BY <1>3, <1>8, <2>2 DEF Sound, Storing
  <2>4. locked[j] = t
    BY <1>8 DEF IInv, AttInv, Storing
  <2>5. PutStore(j, t, att[t].pair) \/ Rollback(j, t)
    BY <1>8 DEF SaverStored, SaverFailed
  <2>6. LibInv'
    BY <1>3, <2>4, <2>5, PutStoreKeeps, RollbackKeeps
  <2>7. AttInv'
    BY <1>2, <1>3, <1>4, <2>1, <2>2, <2>3, <2>4, <2>5, ReleaseStep DEF PutStore, Rollback
  <2> QED BY <2>6, <2>7 DEF IInv
<1>9. CASE att[t].phase = "storing" /\ (FinalStored(t) \/ FinalFailed(t))
  <2>1. att' = [att EXCEPT ![t] = ToRow(att[t])]
    BY <1>9 DEF FinalStored, FinalFailed
  <2>2. ~Storing(ToRow(att[t]))
    BY <1>3, <1>6, <1>9 DEF Sound, Storing
  <2>3. locked[j] = t
    BY <1>9 DEF IInv, AttInv, Storing
  <2>4. PutStore(j, t, Epochs[j]) \/ Rollback(j, t)
    BY <1>9 DEF FinalStored, FinalFailed
  <2>5. LibInv'
    BY <1>3, <2>3, <2>4, PutStoreKeeps, RollbackKeeps
  <2>6. AttInv'
    BY <1>2, <1>3, <1>4, <1>6, <2>1, <2>2, <2>3, <2>4, ReleaseStep DEF PutStore, Rollback
  <2> QED BY <2>5, <2>6 DEF IInv
<1>10. CASE att[t].saver = "writing" /\ SaverFailed(t)
  BY <1>2, <1>4, <1>7, <1>10, QuietStep DEF SaverFailed
<1>11. CASE att[t].phase = "keeping" /\ FinalFailed(t)
  BY <1>2, <1>4, <1>7, <1>11, QuietStep DEF FinalFailed
<1> QED
  BY <1>8, <1>9, <1>10, <1>11 DEF SaverStored, SaverFailed, FinalStored, FinalFailed

\* The attempt is reaped.
LEMMA BeginReapKeeps ==
  ASSUME IInv, NEW t \in Tokens, BeginReap(t)
  PROVE  IInv'
<1>1. att[t].phase = "draining" /\ UNCHANGED libVars
  BY DEF BeginReap
<1>2. att[t] \in Attempt /\ Sound(att[t])
  BY <1>1, AttemptFacts
<1>3. faults' \in 0..MaxFaults
  BY FaultType DEF IInv, AttInv, BeginReap
<1> DEFINE c == IF att[t].child = "alive" THEN "bad" ELSE att[t].child
           b == [att[t] EXCEPT !.phase = "classify", !.child = c]
<1>4. c \in Children
  BY <1>2 DEF Attempt, Children
<1>5. att' = [att EXCEPT ![t] = b]
  BY DEF BeginReap
<1> HIDE DEF c
<1>6. b \in Attempt
  BY <1>2, <1>4 DEF Attempt, Phases
<1>7. b.job = att[t].job /\ b.phase = "classify" /\ b.saver = att[t].saver
  BY <1>2 DEF Attempt
<1> HIDE DEF b
<1>8. Ordinary(att[t], b)
  BY <1>1, <1>2, <1>6, <1>7, MildOrdinary
<1> QED BY <1>1, <1>3, <1>5, <1>8, QuietStep

\* Every verdict on a run is a plan, or leaves the attempt with nothing to do.
LEMMA ClassifyKeeps ==
  ASSUME IInv, NEW t \in Tokens, Classify(t)
  PROVE  IInv'
<1> DEFINE j == att[t].job
<1>1. att[t].phase = "classify" /\ UNCHANGED libVars
  BY DEF Classify, ClassifyLost, ClassifyCancel, ClassifyRequeue, ClassifyProbe,
         ClassifyNatural, ClassifyHarvest, ClassifyLateExport, ClassifyEmpty,
         ClassifyFailed, EarlyStop, Judged
<1>2. /\ att[t] \in Attempt /\ Sound(att[t]) /\ j \in Jobs
      /\ ckpt[TakeOf[j]].reached \in Nat
  BY <1>1, AttemptFacts
<1>3. faults' \in 0..MaxFaults
  BY FaultType
     DEF IInv, AttInv, Classify, ClassifyLost, ClassifyCancel, ClassifyRequeue,
         ClassifyProbe, ClassifyNatural, ClassifyHarvest, ClassifyLateExport,
         ClassifyEmpty, ClassifyFailed, TrainSuccess, NothingKept
<1>4. \/ \E what \in Plans, n \in Nat : att' = [att EXCEPT ![t] = Planned(att[t], what, n)]
      \/ att' = [att EXCEPT ![t] = Returned(att[t])]
      \/ att' = [att EXCEPT ![t] = Exported(att[t])]
  <2>1. CASE ClassifyLost(t)
    BY <2>1 DEF ClassifyLost
  <2>2. CASE ClassifyCancel(t) \/ ClassifyRequeue(t) \/ ClassifyFailed(t)
    BY <2>2 DEF ClassifyCancel, ClassifyRequeue, ClassifyFailed, Plans
  <2>3. CASE ClassifyProbe(t)
    <3> DEFINE what == IF att[t].verdict THEN "verdict" ELSE "failed"
    <3>1. att' = [att EXCEPT ![t] = Planned(att[t], what, 0)]
      BY <2>3 DEF ClassifyProbe
    <3>2. what \in Plans
      BY DEF Plans
    <3> QED BY <3>1, <3>2
  <2>4. CASE ClassifyNatural(t)
    BY <2>4 DEF ClassifyNatural, TrainSuccess, Plans
  <2>5. CASE ClassifyHarvest(t)
    BY <1>2, <2>5 DEF ClassifyHarvest, Plans
  <2>6. CASE ClassifyLateExport(t)
    BY <2>6 DEF ClassifyLateExport, TrainSuccess, Plans
  <2>7. CASE ClassifyEmpty(t)
    <3> DEFINE what == IF att[t].reason = "pause" THEN "requeue" ELSE "failed"
    <3>1. att' = [att EXCEPT ![t] = Planned(att[t], what, 0)]
      BY <2>7 DEF ClassifyEmpty
    <3>2. what \in Plans
      BY DEF Plans
    <3> QED BY <3>1, <3>2
  <2> QED BY <2>1, <2>2, <2>3, <2>4, <2>5, <2>6, <2>7 DEF Classify
<1>5. CASE \E what \in Plans, n \in Nat : att' = [att EXCEPT ![t] = Planned(att[t], what, n)]
  BY <1>1, <1>2, <1>3, <1>5, PlannedOrdinary, QuietStep
<1>6. CASE att' = [att EXCEPT ![t] = Returned(att[t])]
  <2>1. Ordinary(att[t], Returned(att[t]))
    BY <1>1, <1>2, OverType, MildOrdinary
  <2> QED BY <1>1, <1>3, <1>6, <2>1, QuietStep
<1>7. CASE att' = [att EXCEPT ![t] = Exported(att[t])]
  <2>1. Ordinary(att[t], Exported(att[t]))
    BY <1>1, <1>2, ExportedType, MildOrdinary
  <2> QED BY <1>1, <1>3, <1>7, <2>1, QuietStep
<1> QED BY <1>4, <1>5, <1>6, <1>7

\* The terminal write takes place, or fails; either way runJob returns.
LEMMA FinishKeeps ==
  ASSUME IInv, NEW t \in Tokens, Finish(t) \/ FinishFault(t)
  PROVE  IInv'
<1> DEFINE j == att[t].job
<1>1. att[t].phase = "finish" /\ att' = [att EXCEPT ![t] = Returned(att[t])]
  BY DEF Finish, FinishFault
<1>2. /\ att[t] \in Attempt /\ Sound(att[t]) /\ j \in Jobs
      /\ att[t].reached \in Nat /\ LibInv /\ AttInv
  BY <1>1, AttemptFacts DEF IInv
<1>3. faults' \in 0..MaxFaults
  BY FaultType DEF IInv, AttInv, Finish, FinishFault
<1>4. Ordinary(att[t], Returned(att[t]))
  BY <1>1, <1>2, OverType, MildOrdinary
<1>5. CASE Finish(t)
  <2>1. UNCHANGED locked
    BY <1>5 DEF Finish, TerminalWrite, FinishCancelled, FinishFailed, RequeueJob,
                FinishProbeSelf, FinishSucceeded
  <2>2. LibInv'
    <3>1. CASE FinishCancelled(j, t) \/ FinishFailed(j, t) \/ RequeueJob(j, t)
      BY <1>2, <3>1, FinishCancelledKeeps, FinishFailedKeeps, RequeueKeeps
    <3>2. CASE \E n \in Nat : FinishSucceeded(j, t, n)
      BY <1>2, <3>2, FinishSucceededKeeps
    <3> QED BY <1>2, <1>5, <3>1, <3>2 DEF Finish, TerminalWrite, FinishProbeSelf
  <2>3. AttInv'
    BY <1>1, <1>2, <1>3, <1>4, <2>1, OrdinaryStep
  <2> QED BY <2>2, <2>3 DEF IInv
<1>6. CASE FinishFault(t)
  BY <1>1, <1>3, <1>4, <1>6, QuietStep DEF FinishFault
<1> QED BY <1>5, <1>6

\* The daemon of an attempt dies, and its transaction with it.
LEMMA CrashKeeps ==
  ASSUME IInv, NEW t \in Tokens, Crash(t)
  PROVE  IInv'
<1>1. /\ att[t].phase # "none" /\ Rollback(att[t].job, t)
      /\ att' = [att EXCEPT ![t] = Dead(att[t])]
  BY DEF Crash
<1>2. att[t] \in Attempt /\ att[t].job \in Jobs /\ LibInv /\ AttInv
  BY <1>1, AttemptFacts DEF IInv
<1>3. faults' \in 0..MaxFaults
  BY FaultType DEF IInv, AttInv, Crash
<1>4. /\ Dead(att[t]) \in Attempt /\ Dead(att[t]).job = att[t].job
      /\ Dead(att[t]).phase # "none" /\ ~Storing(Dead(att[t]))
  BY <1>1, <1>2, OverType DEF Storing
<1>5. AttInv'
  BY <1>1, <1>2, <1>3, <1>4, ReleaseStep DEF Rollback
<1> QED BY <1>1, <1>2, <1>5, RollbackKeeps DEF IInv

\* The application and cron do not touch an attempt.
LEMMA OutsiderKeeps ==
  ASSUME IInv, NEW j \in Jobs, Application(j) \/ Close(j) \/ MarkSilent(j) \/ MarkSlow(j)
  PROVE  IInv'
<1>1. LibInv' /\ UNCHANGED locked
  BY OutsideKeeps DEF IInv, Application, Close, MarkSilent, MarkSlow
<1>2. UNCHANGED att
  BY DEF Application, Close, MarkSilent, MarkSlow
<1>3. faults' \in 0..MaxFaults
  BY FaultType DEF IInv, AttInv, Application, Close, MarkSilent, MarkSlow
<1> QED BY <1>1, <1>2, <1>3, IdleStep DEF IInv

-----------------------------------------------------------------------------
(* The theorems.                                                           *)

\* The invariant holds of an empty library with nobody at work.
LEMMA InitInv == Init => IInv
<1> SUFFICES ASSUME Init PROVE IInv
  OBVIOUS
<1> USE DEF Init, LibraryInit
<1>1. LibraryTypeOK
  <2>1. NoRow \in Row /\ NoWeights \in Weights
    BY DEF NoRow, NoWeights, Row, Weights, States
  <2> QED BY <2>1 DEF LibraryTypeOK
<1>2. LockHolds /\ LockOwned
  BY LibraryAssumption DEF LockHolds, LockOwned
<1>3. CancelKeepsNothing
  BY DEF CancelKeepsNothing, NoRow
<1>4. att \in [Tokens -> Attempt] /\ faults \in 0..MaxFaults
  BY UnusedType, AttemptsAssumption
<1>5. ASSUME NEW t \in Tokens PROVE Sound(att[t]) /\ ~Storing(att[t])
  BY DEF Sound, Storing, Unused
<1> QED BY <1>1, <1>2, <1>3, <1>4, <1>5 DEF IInv, LibInv, AttInv

\* Every step keeps it.
LEMMA NextInv == IInv /\ [Next]_vars => IInv'
<1> SUFFICES ASSUME IInv, [Next]_vars PROVE IInv'
  OBVIOUS
<1>1. CASE UNCHANGED vars
  <2>1. LibInv'
    BY <1>1, LibSame DEF IInv, vars, libVars
  <2>2. AttInv'
    BY <1>1, IdleStep DEF IInv, AttInv, vars
  <2> QED BY <2>1, <2>2 DEF IInv
<1>2. ASSUME NEW j \in Jobs, Application(j) \/ Close(j) \/ MarkSilent(j) \/ MarkSlow(j)
      PROVE  IInv'
  BY <1>2, OutsiderKeeps
<1>3. ASSUME NEW j \in Jobs, NEW t \in Tokens, Claim(j, t) \/ ClaimUnheard(j, t)
      PROVE  IInv'
  BY <1>3, ClaimKeeps
<1>4. ASSUME NEW t \in Tokens, Saver(t) PROVE IInv'
  BY <1>4, SaverLookKeeps, FenceKeeps, UpsertKeeps DEF Saver
<1>5. ASSUME NEW t \in Tokens, Reader(t) PROVE IInv'
  BY <1>5, AnswerKeeps, StartKeeps, RecordPgidKeeps, ReadKeeps, BeginReapKeeps,
     ClassifyKeeps, FenceKeeps, UpsertKeeps, FinishKeeps DEF Reader
<1>6. ASSUME NEW t \in Tokens, Child(t) PROVE IInv'
  BY <1>6, ChildKeeps
<1>7. ASSUME NEW t \in Tokens, Trouble(t) PROVE IInv'
  BY <1>7, UpsertKeeps, FinishKeeps, CrashKeeps, ReadKeeps DEF Trouble
<1> QED BY <1>1, <1>2, <1>3, <1>4, <1>5, <1>6, <1>7 DEF Next

\* The invariant is one of the specification.
LEMMA Invariant == Spec => []IInv
<1> QED BY InitInv, NextInv, PTL DEF Spec

\* Whatever the attempts, the application and cron do, the columns, the procEntry, the
\* saver and the budget stay in their domains.
THEOREM TypeCorrect == Spec => []TypeOK
<1>1. IInv => TypeOK
  BY DEF IInv, LibInv, AttInv, TypeOK
<1> QED BY <1>1, Invariant, PTL

\* PutCheckpoint's FOR UPDATE is enough: from the fence to the commit, the row stays the
\* writer's, however many daemons, jobs and claims there are (store/checkpoint.go).
THEOREM LocksStand == Spec => []LockedStands
<1>1. IInv => LockedStands
  BY DEF IInv, LibInv, AttInv, LockHolds, LockOwned, LockedStands
<1> QED BY <1>1, Invariant, PTL

\* No interleaving of a cancel with a write on its way leaves weights of the cancelled
\* job on its take.
THEOREM CancelLeavesNothing == Spec => []CancelKeepsNothing
<1>1. IInv => CancelKeepsNothing
  BY DEF IInv, LibInv
<1> QED BY <1>1, Invariant, PTL
=============================================================================
