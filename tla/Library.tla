------------------------------- MODULE Library -------------------------------
(***************************************************************************)
(* The part of the shared PostgreSQL library a trainer reads and writes:   *)
(* one row per job, one set of weights per take, and the SQL statements of *)
(* internal/store as actions on them.  A statement that an interleaving    *)
(* cannot split is one action; PutCheckpoint is two, because it reads the  *)
(* job row under FOR UPDATE and upserts the take's weights afterwards.     *)
(*                                                                         *)
(* Abstracted: the bytes of a model, the audio and the log; priorities and *)
(* queue times (any claimable row may be popped); the nam version a row    *)
(* pins (every worker runs it); error codes and provenance columns; the    *)
(* best pair kept beside the last one.                                     *)
(***************************************************************************)
EXTENDS Naturals

CONSTANTS
  Jobs,      \* the jobs the application may ever queue
  Takes,     \* the takes they train
  Tokens,    \* claim tokens: gen_random_uuid() never returns one twice
  NoJob,     \* the job_id of a take that has no weights
  NoToken,   \* a NULL claim_token
  TakeOf,    \* TakeOf[j]: the take job j trains
  Kind,      \* Kind[j]: train, train_more or probe_self
  Epochs     \* Epochs[j]: the epoch count job j asks for

Kinds == {"train", "train_more", "probe_self"}

ASSUME LibraryAssumption ==
  /\ NoJob \notin Jobs
  /\ NoToken \notin Tokens
  /\ TakeOf \in [Jobs -> Takes]
  /\ Kind \in [Jobs -> Kinds]
  /\ Epochs \in [Jobs -> Nat \ {0}]

VARIABLES
  row,       \* row[j]: the columns of job j that decide who may do what
  ckpt,      \* ckpt[k]: take_checkpoint of take k
  locked     \* locked[j]: the claim whose transaction holds row j's lock

libVars == <<row, ckpt, locked>>

States == {"absent", "queued", "running", "succeeded", "failed", "cancelled"}
Terminal == {"succeeded", "failed", "cancelled"}

Row == [state : States, token : Tokens \cup {NoToken}, stop : BOOLEAN,
        cancel : BOOLEAN, paused : BOOLEAN, result : Nat]
Weights == [job : Jobs \cup {NoJob}, token : Tokens \cup {NoToken}, reached : Nat]

NoRow == [state |-> "absent", token |-> NoToken, stop |-> FALSE,
          cancel |-> FALSE, paused |-> FALSE, result |-> 0]
NoWeights == [job |-> NoJob, token |-> NoToken, reached |-> 0]

LibraryInit ==
  /\ row = [j \in Jobs |-> NoRow]
  /\ ckpt = [k \in Takes |-> NoWeights]
  /\ locked = [j \in Jobs |-> NoToken]

-----------------------------------------------------------------------------
(* The fences.                                                             *)

\* Mutant: the fence forgets the claim token.
MineWhateverToken(j, t) == row[j].state = "running"

\* The WHERE clause of every write after a claim.
Mine(j, t) == row[j].state = "running" /\ row[j].token = t

\* Mutant: the fence of PutCheckpoint forgets paused_at.
MineToKeepPaused(j, t) == Mine(j, t)

\* PutCheckpoint's own fence, which also wants the row not to be up for grabs.
MineToKeep(j, t) == Mine(j, t) /\ ~row[j].paused

\* An UPDATE of the row waits for the transaction that holds its lock.
Unlocked(j) == locked[j] = NoToken

\* Mutant: a stop or a cancel keeps a paused row from being claimed, as it once did.
ClaimableUnasked(j) ==
  /\ ~row[j].stop /\ ~row[j].cancel
  /\ row[j].state = "queued" \/ (row[j].state = "running" /\ row[j].paused)

Claimable(j) ==
  \/ row[j].state = "queued" /\ ~row[j].stop /\ ~row[j].cancel
  \/ row[j].state = "running" /\ row[j].paused

\* What a checkpoint write answers to the run that made it.
Verdict(j) ==
  CASE row[j].cancel -> "cancel"
    [] row[j].stop /\ ~row[j].cancel -> "stop"
    [] OTHER -> "go"

-----------------------------------------------------------------------------
(* The statements of a trainer.                                            *)

\* FOR UPDATE SKIP LOCKED: a row somebody is writing is passed by.
ClaimNext(j, t) ==
  /\ Claimable(j)
  /\ Unlocked(j)
  /\ row' = [row EXCEPT ![j] = [@ EXCEPT !.state = "running", !.token = t,
                                         !.paused = FALSE]]
  /\ UNCHANGED <<ckpt, locked>>

\* Mutant: the fence of PutCheckpoint is read without FOR UPDATE.
PutWithoutLock(j, t) == Unlocked(j) /\ MineToKeep(j, t) /\ UNCHANGED libVars

\* The `mine` half: the fence is read and the row stays locked.
PutLock(j, t) ==
  /\ Unlocked(j)
  /\ MineToKeep(j, t)
  /\ locked' = [locked EXCEPT ![j] = t]
  /\ UNCHANGED <<row, ckpt>>

\* The `kept` half: the upsert, and the commit that lets the row go.
PutStore(j, t, n) ==
  /\ ckpt' = [ckpt EXCEPT ![TakeOf[j]] = [job |-> j, token |-> t, reached |-> n]]
  /\ locked' = [locked EXCEPT ![j] = NoToken]
  /\ UNCHANGED row

\* The fence did not match: nothing is written.
PutRefused(j, t) ==
  /\ Unlocked(j)
  /\ ~MineToKeep(j, t)
  /\ UNCHANGED libVars

\* A transaction that errors or dies before it commits leaves only its lock behind, and not for long.
Rollback(j, t) ==
  /\ locked' = [locked EXCEPT ![j] = IF @ = t THEN NoToken ELSE @]
  /\ UNCHANGED <<row, ckpt>>

\* Mutant: the stop ask stays on the row, as it once did.
RequeueKeepingStop(j, t) ==
  /\ Unlocked(j)
  /\ row' = IF Mine(j, t)
            THEN [row EXCEPT ![j] = [@ EXCEPT !.state = "queued", !.token = NoToken]]
            ELSE row
  /\ UNCHANGED <<ckpt, locked>>

\* Back to the queue.  The stop goes with the attempt it was asked of; a cancel and
\* cron's mark stay.
RequeueJob(j, t) ==
  /\ Unlocked(j)
  /\ \/ /\ Mine(j, t)
        /\ row' = [row EXCEPT ![j] = [@ EXCEPT !.state = "queued", !.token = NoToken,
                                               !.stop = FALSE]]
     \/ /\ ~Mine(j, t)
        /\ UNCHANGED row
  /\ UNCHANGED <<ckpt, locked>>

\* The trigger on a job that turns cancelled: the weights this job put on its take
\* are moved aside.  What it does with weights of another run is not ours to know.
MoveAside(j) ==
  \/ ckpt' = [ckpt EXCEPT ![TakeOf[j]] = NoWeights]
  \/ /\ ckpt[TakeOf[j]].job # j
     /\ UNCHANGED ckpt

CloseCancelled(j) ==
  /\ row' = [row EXCEPT ![j].state = "cancelled"]
  /\ MoveAside(j)

\* A cancel that arrived in time wins over the result, in the terminal transaction itself.
FinishSucceeded(j, t, n) ==
  /\ Unlocked(j)
  /\ \/ /\ Mine(j, t)
        /\ ~row[j].cancel
        /\ row' = [row EXCEPT ![j] = [@ EXCEPT !.state = "succeeded", !.result = n]]
        /\ UNCHANGED ckpt
     \/ /\ Mine(j, t)
        /\ row[j].cancel
        /\ CloseCancelled(j)
     \/ /\ ~Mine(j, t)
        /\ UNCHANGED <<row, ckpt>>
  /\ UNCHANGED locked

\* The same for a probe, which keeps nothing.
FinishProbeSelf(j, t) == FinishSucceeded(j, t, 0)

FinishFailed(j, t) ==
  /\ Unlocked(j)
  /\ \/ /\ Mine(j, t)
        /\ row' = [row EXCEPT ![j].state = "failed"]
     \/ /\ ~Mine(j, t)
        /\ UNCHANGED row
  /\ UNCHANGED <<ckpt, locked>>

FinishCancelled(j, t) ==
  /\ Unlocked(j)
  /\ \/ /\ Mine(j, t)
        /\ CloseCancelled(j)
     \/ /\ ~Mine(j, t)
        /\ UNCHANGED <<row, ckpt>>
  /\ UNCHANGED locked

-----------------------------------------------------------------------------
(* What the application and the library's cron do to the same rows.        *)

\* jobs_one_live: a take has at most one job that is queued or running.
Live(j) == row[j].state \in {"queued", "running"}

Enqueue(j) ==
  /\ row[j].state = "absent"
  /\ \A i \in Jobs : TakeOf[i] = TakeOf[j] => ~Live(i)
  /\ row' = [row EXCEPT ![j].state = "queued"]
  /\ UNCHANGED <<ckpt, locked>>

\* Stop and keep is asked of a run.  A queued row has nothing to keep, and only the
\* attempt that is running can answer.
AskStop(j) ==
  /\ row[j].state = "running" /\ ~row[j].stop /\ Unlocked(j)
  /\ row' = [row EXCEPT ![j].stop = TRUE]
  /\ UNCHANGED <<ckpt, locked>>

\* A cancel is about the job, running or not.
AskCancel(j) ==
  /\ Live(j) /\ ~row[j].cancel /\ Unlocked(j)
  /\ row' = [row EXCEPT ![j].cancel = TRUE]
  /\ UNCHANGED <<ckpt, locked>>

\* The application closes a queued row that carries a cancel: nobody will claim it.
\* It has no such hand for a stop.
CloseQueued(j) ==
  /\ row[j].state = "queued" /\ row[j].cancel
  /\ CloseCancelled(j)
  /\ UNCHANGED locked

\* The application cancels a running row it takes for stale, with or without
\* clearing the claim of whoever holds it.
CancelStale(j) ==
  /\ row[j].state = "running" /\ Unlocked(j)
  /\ \E t \in {row[j].token, NoToken} :
       row' = [row EXCEPT ![j] = [@ EXCEPT !.state = "cancelled", !.token = t]]
  /\ MoveAside(j)
  /\ UNCHANGED locked

\* Cron marks a running row nobody has touched for a while as up for grabs; the
\* row keeps its claim and the take keeps its weights.
MarkPaused(j) ==
  /\ row[j].state = "running" /\ ~row[j].paused /\ Unlocked(j)
  /\ row' = [row EXCEPT ![j].paused = TRUE]
  /\ UNCHANGED <<ckpt, locked>>

LibraryTypeOK ==
  /\ row \in [Jobs -> Row]
  /\ ckpt \in [Takes -> Weights]
  /\ locked \in [Jobs -> Tokens \cup {NoToken}]
=============================================================================
