# A model of the capture trainer's queue worker

`namtrainerd` is a daemon that trains NAM models. It has no API of its own: it
pops rows from the job queue of an application's PostgreSQL library, runs a Python
trainer per row, puts the weights into the library epoch by epoch, and closes
the row. Several daemons may share one library, a run may pass from one to
another, and everything a daemon learns about a run (cancel it, stop it and keep
what there is, it is not yours any more) it learns from the answer to its own
checkpoint write.

This directory specifies that in TLA+, model-checks it with TLC on small
instances, and proves its safety with TLAPS for all instances.

    tlc -workers 2 -config MCAttempts_handover.cfg MCAttempts
    tlc -workers 2 -config MCMachine_machine.cfg MCMachine
    tlapm CkptSaverProofs.tla

## 1. Inventory

"Modelled in part" means that some operation of the component changes state that no
module has; what is left out is said in section 7.

### 1.1 Queue, take and worker rows (`internal/store`, `internal/jobs`)

State: a row of `jobs` per job (`state`, `claim_token`, `stop_requested`,
`cancel_requested`, `paused_at`, progress, the result), a row of `take_checkpoint`
per take (the last pair and the best one), `job_epochs`, a row of `workers` per
daemon, the row locks of open transactions, one advisory lock per worker name.

Hard: every write after a claim is fenced on `state = 'running' AND claim_token`,
`PutCheckpoint` on `paused_at IS NULL` as well, and it is a transaction of two
statements. The rows are shared by daemons that do not know each other.

Correct when: only the claim that holds a row, unpaused, changes its take's
weights; an outcome is final; a cancel leaves no weights of its job; a queued job
ends; the best pair of a take only improves; the estimates say what the rows say.

### 1.2 The attempt (`internal/worker/worker.go`)

State, per claim: where `runJob` is, the registered process (`procEntry`: first
reason sticks, `reaping` closes the door), the child and what it has exported,
the probe verdict, the terminal write to make.

Hard: three goroutines per attempt, kills from five directions, statements that
fail before or after they commit, and a library that hangs under the reader.

Correct when: a model that the child finished is not thrown away by a late kill;
a stop keeps what the library holds and nothing of the parent's; a pause does not
lose a run; a lost claim writes nothing; a child is killed for silence only if it
was silent; a probe's verdict is its first marker.

### 1.3 Checkpoints (`ckpt.go`, `live.go`)

State: the scratch directory, which the trainer writes and rotates while the saver
lists and reads it; the pending nudge; the saver's place; what it has sent.

Hard: names come and go between the listing and the read, files are half written,
a figure is announced before its weights exist, the last look races the
classification of its own attempt.

Correct when: the newest whole pair arrives; the figure beside the weights is of
their epoch; the best pair is not held back unless it arrived; no attempt takes a
take back behind its own start.

### 1.4 Output (`parse.go`, the reading half of `worker.go`)

State: the line buffer, the epoch tracker, the throttled row.

Hard: `\r`, `\n` and `\r\n` cut anywhere by a read; the first epoch after a resume,
bursts, repeated lines, a figure that is not a number.

Correct when: every line is given once; an average lies among the costs it is an
average of; the last epoch is not lost to the throttle.

### 1.5 The pool (`worker.go` 286–470, `awake.go`)

State: `paused`, `pauseKill`, the file that remembers a pause, the entries by job
id, the train lane's live width, the counts that are published, the wake handle.

Hard: two flags, a file and a map are touched one after the other without a lock,
from the menu's goroutine and the heartbeat's, while workers claim and children
are born; gate and width are read before the claim; several publishers count, and what
they count are rows, which may run on under this name when nobody here runs them.

Correct when: Pause now reaches every child, a pool that is resumed trains, a
restart neither lifts a pause nor invents one; a lower cap takes effect; the
machine is awake while something trains here and may sleep when paused and idle.

### 1.6 The daemon (`cmd/namtrainerd`, `store.go`, `heartbeat.go`)

State: where `run` is, what the daemon is ready by (profile and schema), its
identity, its row, the beat under way in each of three goroutines, the asked cap.

Hard: the library may be unreachable, not migrated or migrated too far at any
point; a stop may come at any point; a beat may outlive the pool; an ask is
applied, read back, saved and consumed in steps of their own beside a hand and a
second beat.

Correct when: a row exists before what refers to it and says ready no longer than
its daemon is; a start kills no living daemon's trainer; an asked stop ends; an
ask is cleared only when it is in force, and what is in force is what the next
start reads, unless a saving failed or was overtaken.

### 1.7 What outlives a daemon (`recover.go`, `runner.go`, `provision.go`, `config.go`)

State: process groups and their recorded numbers; the runtime directory and its
lock; `config.toml`.

Hard: a crash between any two steps; numbers that are used again; a directory
where a file under the right name may be short or old; a file that several goroutines
rewrite by one temporary file and without a lock, a person edits and a full disk cuts
short.

Correct when: a start kills what its last life left and nothing else; a daemon
that takes jobs has a runtime that runs them, and gets one in the end; the next
start reads a whole file and connects where a person last said, as long as savings do
not meet; how they meet is a finding (section 5).

### 1.8 Uploads (`internal/wav`)

The walk over the chunks of a capture. Hard: sizes are claims. Correct when: a
capture is accepted exactly if the bytes its format is read from, and all the bytes it
is measured by, are there.

### 1.9 External

PostgreSQL, the application's triggers and cron, the desktop application, NAM and
Lightning, the operating system's processes. Their actions are modelled from how
this repository uses or describes them, and are marked so in `PROJECT.json`.

The hazards of this code, with their lines and the properties that cover them,
are listed in `PROJECT.json`; a hazard that nothing covers says why.

## 2. Modules

| module | code | what it is |
|---|---|---|
| `Library` | `store/queue.go`, `worker.go`, `checkpoint.go` | rows, locks, statements, the application, cron |
| `Attempts` | `worker.go`, `ckpt.go` | every attempt of every daemon, over `Library` |
| `Handover` | | the abstract contract of the queue, which `Attempts` implements |
| `Keeping` | | the abstract contract of a take's epochs, which `Attempts` and `CkptSaver` both implement |
| `Trouble` | | named faults with a common budget, for the modules below |
| `PauseGate` | `worker.go` 286–470 | the pause of one pool, worked by menu and heartbeat |
| `CkptSaver` | `ckpt.go`, `live.go`, `PutCheckpoint`, the driver | trainer's files to the take |
| `LineReader` | `parse.go` | output to lines |
| `Progress` | `parse.go`, `worker.go`, `store/worker.go` | epochs to progress rows |
| `Estimates` | `store/queue.go`, `store/worker.go` | rows to what is left and what an epoch costs |
| `WavCheck` | `wav.go` | chunks to a verdict |
| `ConfigFile` | `config.go`, `main.go`, `heartbeat.go` | the configuration and who rewrites it |
| `Recovery` | `recover.go`, `runner.go` | process groups over crashes |
| `Supervise` | `supervise` in `worker.go` | reader, watchdog, a library that hangs |
| `Provision` | `provision.go`, `embed.go` | the runtime directory |
| `Lanes` | `worker.go`, `awake.go` | claims by lane and width, counts, keep-awake |
| `Daemon` | `main.go`, `heartbeat.go`, `store.go` | start, beats, identity, stop |
| `CapAsk` | `heartbeat.go`, `main.go` | the asked cap: applied, saved, consumed |
| `MCAttempts`, `MCPauseGate`, `MCParts`, `MCMachine` | | the instances TLC checks |
| `AttemptsProofs`, `HandoverProofs`, `PauseGateProofs`, `CkptSaverProofs`, `DaemonProofs` | | theorems about the module of that name; `HandoverProofs` has the refinement and what else is true of `Attempts` |
| `PoolProofs` | | theorems about `Supervise`, `Lanes`, `CapAsk` |
| `StartProofs` | | theorems about `Recovery`, `ConfigFile`, `Provision` |
| `ReadingProofs` | | theorems about `LineReader`, `Progress`, `Estimates`, `WavCheck` |

`Attempts` composes with `Library` (it EXTENDS it: a reader's step is a statement on
the rows and a move of the attempt). `PauseGate`, `Lanes`, `Supervise` and `CkptSaver`
each open one box that `Attempts` treats as a step: how a pool gets to a claim, how
it stops claiming, how output becomes a kill, how a look becomes a pair. They share no
variables with `Attempts`. Where `SaverLook` there takes any epoch the run has completed,
`CkptSaver` says which one and with what, and both implement one contract of what a
take keeps (`Keeping`); `Kill` may come at any time, and `Supervise` says when the
watchdog's does.

### Library and Attempts

`row[j]` holds the deciding columns of job `j`, `ckpt[k]` the checkpoint of take
`k`, `locked[j]` the claim whose open transaction holds the row's lock. A statement
is one action, because PostgreSQL makes it one: its `WHERE` clause is the disjunct
that writes or the one that matches no row. `PutCheckpoint` is the exception. Its
`mine` reads the row under `FOR UPDATE`, its `kept` upserts the take: `PutLock` and
`PutStore` are separate steps with the lock between them (`Rollback` when the
transaction dies), and every other `UPDATE` of that row wants `Unlocked`.
`ClaimNext` has `SKIP LOCKED`: it is not enabled on a locked row. The library's
trigger on a row that turns cancelled moves the weights of that job aside
(`MoveAside`; what it does to weights of another job the repository does not say,
so both are allowed).

An attempt is named by its claim token, `att[t]`:

| field | code |
|---|---|
| `phase` | where `runJob` is: claimed, spawned (the child runs, `SetJobPGID` is under way), running (the reader), draining (the output has ended, the saver is awaited), classify (after `beginReap`), keeping/storing (`finishTrainSuccess` writes the pair), finish (before the terminal statement), gone |
| `stop`, `cancel` | the asks that came with the claimed row |
| `base`, `epoch` | the epoch the child resumed from, and the last one it completed |
| `child`, `model` | alive, left with 0, or not; `model.nam` / `model.ckpt` exported |
| `reason`, `verdict` | `procEntry.reason`; a probe's verdict line was read |
| `saver`, `nudged`, `last`, `pair` | the saver's goroutine, its `pending`, its last look, the epoch it read off the disk |
| `plan`, `reached` | the terminal write `classify` chose |

The child (`Epoch`, `Export`, `ChildExit`), the goroutine of `runJob` (`Reader`)
and the saver (`Saver`) are separate actions, so that they interleave at every
statement. Attempts of one daemon and of several are the same: nothing the code
does to an attempt depends on where its rival runs. What can go wrong is a set of
faults with a common budget: cron marks a live run (`slow`), a daemon dies
(`crash`), a claim's reply is lost (`unheard`), a statement or a file operation
fails, before or after it commits (`ioerror`), shutdown, Pause now, a stall, and a
last look that outlives the wait for it (`overrun`). A child that dies by itself
and a stop or cancel at any moment are free of charge.

### Handover

Four variables: what has become of a job (`stage`), the claim that may keep
weights for it now (`holder`), the claims ever made (`spent`), whose weights are
on a take (`kept`). It says that a claim that was let go never holds again, that
only a holder keeps, that an end is an end, and that a cancel ends without weights.
`HandoverSpec` in `Attempts` is the refinement: `holder[j]` is the token of a
running row that is not marked, so cron's mark and a requeue are both `LetGo`, a
takeover is `TakeUp`, and the straggler's fenced writes are stutters.

### Keeping

Three numbers of a take: where the attempt under way started (`base`), the epochs it
has behind it (`done`), and the epoch of the weights in the library (`held`). An
attempt trains on, the library takes an epoch it completed after its base, the next
attempt begins at `held` and loses what was not kept, a cancel clears all three.
`CkptSaver` maps the trainer, the directory and the answers of one run to it
(`SaverKeeping`): an epoch is done when a pair of it is whole. `Attempts` maps every
take to one (`TakesKeep`): the attempt is the one whose claim is on the running row,
once it has an epoch behind it (`At`), so that a claim, a requeue, a crash and a
terminal write are all `Again`, and whatever a displaced attempt goes on training is
nothing to its take.

### PauseGate

A call of `Pause` or `Resume` is the sequence of the shared accesses it has still
to make (`Program`), because no lock is held over two of them: `gate` and `open`
store `paused`, `arm` and `disarm` store `pauseKill`, `write` and `rename` are the two
halves of `rememberPause(true)`, `forget` is `rememberPause(false)`, `snapshot` copies
`procs` under its mutex and `kill` is one `procEntry.kill` after the other. The
heartbeat's calls end with `consume`, the guarded `ConsumePauseWanted`. One action
does one access, so hands, workers and a restart interleave at each. `Restart` is
the end of the process and the start of the next up to the first moment a worker
or a hand moves. `served` is a history variable: the ask in the column has been
carried out and only the clearing is missing.

### CkptSaver

The trainer writes a pair in place (part, then whole) under a name with its epoch,
prints the figure before either, removes the worst of the best pairs after the new
one and rotates the last pair. The saver lists, picks, opens, falls back and puts in
separate steps (`ReadBest`, `ReadLast`, `FallBack`, `EpochESR`, `PutCheckpoint`), each
against the directory as it is by then. `take` has the last pair with its epoch and
figure and the best pair that `Merged` keeps. A kill freezes the directory, a new
attempt starts from what the library holds.

### LineReader, Progress, Estimates, WavCheck

`LineReader` takes a byte at a time from a text that is still being written; the
reference, `AreLinesOf`, looks at the whole text and says which line each of its ends
closes. `Progress` has a clock in bursts
of 50 ms, the tracker, the throttle and the rows; its histories are when each epoch
was seen. `Estimates` closes rows in the order of their ids and compares the query,
written with its window clause, with the last epochs counted one by one. `WavCheck`
visits headers as the code does; the reference looks at the list of chunks. Every size
is what a chunk declares, a `fmt ` chunk's too: sixteen bytes behind its header are read
as a format whatever it declares, so the rates of a shorter one are whatever lies there.

### ConfigFile, CapAsk

A saving is four steps: read again (`ApplySetup`, `KeepCap`), truncate the temporary
file, fill it, rename it. The menu's goroutine saves what was typed and a cap, every
beating goroutine a cap, and their steps interleave as they like. Who opened the
temporary file goes on writing to it under whatever name it has by then (`fd`): `config.toml`
itself, when another saving renamed it meanwhile, or none. `typed` is the address of the
last Setup that was reported saved, `astray` how savings met since one was last saved by
itself: `crossed` inside `writeConfig`, or `overtaken` by one that had re-read before it.

`CapAsk` has what `ConfigFile` makes of a text as one step, and looks at the order of
applying an ask, reading the pool's cap, saving it and consuming the ask among the
ticker's beat, provisioning's beat and a hand. `overtaken` are those who hold a cap the
pool has left since they read it.

### Recovery

`process[p]` says what has a number: this daemon's trainer of some life, another
daemon's, a stranger, or nobody. A start lists the recorded numbers of its own rows,
checks each one's argv (`Guard`) and kills it (`KillChecked`) in two steps, between
which the process may end; then it sweeps by scratch root.

### Supervise

The trainer prints into a pipe, the reader takes a line, resets the watchdog and
writes to a library that may hang. Time (`Tick`) passes only when nothing that is fast
can move. A child that was killed leaves what it wrote in the pipe.

### Provision

One action per step of `Provision` between the lock and the profile, each with what
it finds, makes or leaves half made when it fails or its daemon dies. The directory
is shared by several daemons; the lock is the operating system's and dies with its
holder. `misjudged` is a history: a probe of something good failed (a stop cancels
it), and the step that follows tore it down.

### Lanes

A worker reads gate and width, claims, runs, closes and publishes; publishing is
counting inside `countsMu` and then telling the keeper, either of which may fail. The
pool's start publishes before a worker moves, and a hand may publish without an order
(`Nudge`). Counted are the rows: those of the workers that run one, and those in `left`,
which run under this name with nobody behind them because a life crashed or a terminal
write failed. A child whose row was taken by another trainer is `displaced` and not
counted.

### Daemon

`run` in order: open, identity, first beat, recover, work, join, farewell, leave; each may
fail, wait for the library, or be left by a stop. A beat asks for the contract,
judges it and writes the row in three steps, in the main goroutine, the ticker's and
provisioning's.

## 3. What is checked

| run | instance | states | shows |
|---|---|---|---|
| `handover` | one job of two epochs, two claims, one fault of any kind but `overrun` | 990 k | types, locks, cancel, weights, a displaced attempt's writes, harvest; refinement of `Handover` |
| `continue` | a training and its continuation on one take, two claims, one fault of `pause`, `crash`, `stall`, `unheard`, `overrun` | 540 k | a parent's weights are never closed as the continuation's; refinement of `Keeping` with two jobs, also without the wait for the saver |
| `progress` | a training or a probe of one epoch beside a job that failed before, one fault of any kind but `slow` | 18 k | liveness |
| `gate` | the heartbeat alone, two workers, two rows, one restart | 160 k | flags, file and children agree at rest; nothing left behind keeps a row from ending |
| `parts` | `CkptSaver`, `LineReader`, `WavCheck`, `Progress`, `Estimates`, `ConfigFile`, `Recovery`, and `PauseGate` under two hands | 1.9 M | what each turns into what; refinement of `Keeping` by `CkptSaver` |
| `machine` | `Supervise`, `Provision`, `Lanes`, `Daemon` (alone, and beside a rival of its name), `CapAsk` | 80 k | safety and liveness of each |
| `finish`, `stopped`, `stuck`, `diverged`, `oneRun`, `meeting` | smallest that show it | — | the findings of section 5 |

`MCParts` and `MCMachine` put modules that share no state into one instance: the
initial state chooses which of them runs, the others stay still. A behaviour of the
instance is a behaviour of one module, and nothing is claimed of their product.

Safety of rows and attempts:

- `LockedStands` — from the fence a checkpoint write reads to its commit, nobody takes the row away.
- `CancelKeepsNothing` — a cancelled job has no weights on its take.
- `WeightsTrained` — weights on a take are an epoch that the attempt they are signed with trained.
- `SuccessIsOwn` — a training that succeeded reports an epoch one of its own attempts trained, never its parent's (a run that resumes at its last epoch has nothing to train and is the exception the code has too).
- `BaseStands` — until the holder stores something, the take is where it resumed from.
- `HarvestAgrees` (step) — a row closed from the library says what the library says.
- `HandoverSpec`, `TakesKeep` — refinement: of the queue's contract, and of `Keeping` take by take. The second says that the attempts at a take are one training: each starts where the take stands, and what it stores it has trained beyond that.

Of the pause, where "at rest" means that no call is under way:

- `GateAgrees` — at rest, `pauseKill` is not up behind an open gate, and a pool that is paused has its file.
- `LiftedByHand` (step) — a pause is not lifted by a start, nor by a `Resume` that was carried out before.
- `CaughtNow` — at rest under a raised `pauseKill` no child runs that was not told to go, with menu and heartbeat giving orders at once. `EntryCaught`, the same of the children that are in `procs`, has no run: it is what the theorem says of rows claimed twice.

Of what is turned into something else:

- `FigureOfEpoch`, `SentIsKept`, `BestStands` (step), `CaughtUp` — the checkpoint properties of 1.3; the last says that after a run without trouble the take holds the newest whole pair.
- `SaverKeeping` — refinement of `Keeping`. That a take never falls back behind the epoch its attempt resumed from (`GroundHolds`) is part of it.
- `LinesAreThose`, `VerdictIsRight`, `EstimatesAgree` — each against its reference.
- `ProgressIsTold` — the row's last epoch, the sum of the costs, the average among them.
- `StartsWell`, `TypedIsKept` — the next start reads a whole file unless two savings crossed inside `writeConfig`, runs by a cap in range, and connects where a person last said unless savings met since; a Setup that is saved by itself mends that.
- `KillsItsOwn` — no child of an earlier life beside the workers; nobody else's killed.

Of the machine:

- `EndedRightly` — a kill for silence follows one; a verdict is the first marker.
- `ReadyRuns` — a daemon that takes jobs has what a trainer runs on.
- `AwakeFollows` — held awake while a child trains a row of this worker, not held when paused, idle and settled, unless the last publish failed, or the last count had rows in it that nobody here runs.
- `NoFratricide`, `RowTells` — the identity and the row of 1.6.
- `KeptIsLive`, `CapAskIsTaken` (step) — the cap of 1.6: with nobody saving, the file has the pool's cap, unless the saving that came last failed or was overtaken between its read and its write; an ask is cleared only when in force.

Liveness:

- `AskAnswered` — a stop or a cancel is answered by the end of the job or goes with the attempt it was asked of; `Drains` — a queued job ends; `Drained` — a queued row ends, or the pool is paused.
- `SilentEnds` — a trainer that is silent for good is done with.
- `MCEndsReady` — every daemon is ready in the end, unless the tree starts without being whole.
- `CapTakesEffect` — a cap that is left alone is in force in the end.
- `MCClaimsFollow` — with a library that stays reachable and ours a daemon works in the end; from one that moved on nothing is claimed for ever.
- `MCStopEnds` — a stop ends, wherever the daemon is.
- `AskIsAnswered` — an asked cap does not stay asked.

The passing runs are the conditions under which each property holds, and each
condition is needed. `GateAgrees` needs the calls one at a time (`stuck`): with two hands
a `Pause` inside a `Resume`, between the gate and the file, also leaves the pool
paused and the file removed, so the next start claims. `LiftedByHand` needs, of
the heartbeat alone, that a failed write of the file and a launch do not meet; with a
second hand it needs a consume that succeeds and no launch at all. `CaughtNow` needs a row that
is not claimed twice in one pool: a second worker that claims the row cron marked
replaces the first entry in `procs`, and Pause now does not find the first child;
`EntryCaught` holds even then. `HarvestAgrees` needs a
saver that ends within the wait for it. `SilentEnds` and `EndedRightly` need a library
that does not hang, or forgive it. `NoFratricide` needs a session that is not lost.
`StartsWell` and `TypedIsKept` need savings that do not meet (`meeting`), `KeptIsLive` a
cap that is not changed between a saving's read and its write, `AwakeFollows` no rows left
behind.
And because gate and width are read before the claim and not after it, a claim that
was under way when `Pause(false)` or `SetCap` returned still takes its row; nothing
here says otherwise.

Every property of a passing run has a mutant in `PROJECT.json`: the same
definition with a plausible mistake (a fence without its token, a write without
its lock, a harvest that trusts the printed epoch) that the same run refutes.

Bounds, and why they are enough. Two claims on a job are the smallest number with
a straggler and its successor; a third claim only meets the same two fences. Two
epochs give an older and a newer pair, and a resume between them; `CkptSaver` has
three, so that a third pair pushes one of the best out while the last rotates, with
`save_top_k` 1 and two figures that can beat one another. One fault makes each
single failure meet every interleaving. Two workers of a pool are enough, since a worker
meets another only at a job id, a width and a count; two daemons, since a daemon
meets another only at a lock and a directory; three lives and three process numbers
let a number be recorded, freed and used again. Sizes, rates and gaps are chosen at
the edges of the comparisons they enter: an odd chunk, a `fmt ` chunk of three bytes and
one of thirty, a cut of one byte, of two and of more than a format's sixteen, and with a
byte a second a capture of 3, of 30 and of 1201 seconds, about the least and the most that
is taken; a gap of nothing, of a burst, of more than a burst; a cap below and above its
range. Two savers, the menu's and one beat's, meet in every way two can. In `machine` a daemon without a rival loses no session (nobody could take its name), at most one training row waits or is left without a worker, and the probe lane has
nothing to do (its worker is gated, publishes and is paused like the others); only a probe
prints a failed check, which to a training is text; of the three who change a cap, any
two are at it at once. In `parts` the pool
under two hands has one worker and one row. Tokens are symmetric in the safety runs
(nothing compares them but for equality); the liveness runs use no symmetry, and
`progress` takes the tokens in turn instead. Deadlock is checked in the runs of
`PauseGate` and nowhere else: elsewhere the system rightly stops when all jobs have
ended, a text is read, or no token or life is left.

Fairness, weak but for the last, and of nothing that the code does not run by itself:

- of each attempt's reader and saver: goroutines of a live daemon run, and their statements end, with the answer or with their connection, which is a fault (the terminal writes, and so a stop that waits for them, have no deadline of their own);
- of a claim on a claimable row (idle workers poll), of cron's mark on a row nobody attends, of the application's close of a queued row that carries a cancel;
- of the hands' calls once begun, of the beats that follow one another, of the loops of a pool, of a run that ends (the stall watchdog sees to that);
- of the watchdog's timer and of time;
- of a library that hangs: it comes back, or its connection dies;
- of provisioning's steps, each a command that ends, and of the polled lock;
- of the start of a daemon (its supervisor starts it again), and of PostgreSQL noticing a dead session;
- strong, of getting `countsMu`: Go's mutex does not starve a waiter.

Not of the child: a trainer may hang for ever. Nobody has to queue, ask, click or
give an order. A stop is only asked of a running row; a stop on a queued row would
keep it from being claimed, and the code has nobody to close it.

## 4. What is proved

Each theorem is for all values of the constants, under the assumptions their module
declares (null values are not members, bounds are numbers, sets of figures are
numbers) and those in the last column, and follows from an inductive invariant by
`Init => Inv`, `Inv /\ [Next]_vars => Inv'` (one lemma per action) and
`Inv => property`.

| theorem | states | the invariant adds | only if |
|---|---|---|---|
| `TypeCorrect`, `LocksStand`, `CancelLeavesNothing` (`AttemptsProofs`) | `TypeOK`, `LockedStands`, `CancelKeepsNothing` | who has the lock, and who is storing | |
| `ImplementsHandover` (`HandoverProofs`) | `HandoverSpec` | as above, and whose row it is (`Tenancy`) | |
| `WeightsAreTrained`, `BaseIsKept`, `SuccessesAreOwn` | `WeightsTrained`, `BaseStands`, `SuccessIsOwn` | how the numbers of one attempt stand to one another and to the take (`Honest`), how rows stand to claims (`Tenancy`); of each step, whose base it takes and by which plan (`Based`, `Planning`) | |
| `TakesAreOneTraining` | `TakesKeep` | a take's weights are signed (`Signed`); the rest is `IInv` and `Truth` of the rows above | |
| `HarvestsAgree` | `HarvestAgrees` | who classifies has no saver left (`Closed`), and the take is what the plan says until the terminal write (`HarvestStands`) | `"overrun"` is no fault |
| `PauseCatchesEntries` (`PauseGateProofs`) | `EntryCaught` | which access comes after which (`CallsOrdered`); a child in `procs` that is not told to go is in the snapshot of a call that is under way, or one has still to be taken (`Sought`) | |
| `PauseCatchesAll` | `CaughtNow` | every live child has its entry (`Held`) | `"slow"` is no fault |
| `FlagFollowsGate`, `GateAndFileAgree` | `ResumeLifts`, `GateAgrees` | what gate, flag and file are before each access of the call under way (`Flags`) | one hand, the heartbeat; for the file, `"ioerror"` is no fault |
| `PausesAreLiftedByHand` | `LiftedByHand` | when an order may be met again (`Again`) | one hand, and `"restart"` and `"ioerror"` are not both faults; or neither is |
| `FiguresBelong` (`CkptSaverProofs`) | `FigureOfEpoch` | which epoch each of the figure's four hands says it is of (`FiguresTell`) | |
| `GroundIsHeld` | `GroundHolds` | whatever the saver saw or holds is past the attempt's base (`SeenIsNew`) | |
| `ImplementsKeeping` | `SaverKeeping` | no file is of an epoch the trainer has not come to (`NoneAhead`); what the saver holds was completed, whatever became of its files (`HandsFull`); the pair just written is not the one removed to make room (`PairAtHand`) | |
| `SentArrived`, `BestOnlyImproves` | `SentIsKept`, `BestStands` | types | |
| `LastLookCatchesUp` | `CaughtUp` | a directory without its trainer stays as it is (`Frozen`), and the last look reads all of it (`LooksAtAll`) | |
| `EndsAreRight` (`PoolProofs`) | `EndedRightly` | the timer is no further than the silence (`TimerTells`); the first marker ahead is the first printed (`FirstIsAhead`); a line is in hand only to be written; a hang leaves its mark | |
| `AwakeWhileTraining` | `AwakeFollows` | one counts at a time (`OneCounts`); who runs was counted (`CountsRuns`); who was counted has still to publish that it is done, unless it was a row with no worker (`CountsTold`), so that a paused pool holds the machine for somebody (`HeldForSome`) | |
| `KeptStaysLive`, `AsksAreTaken` | `KeptIsLive`, `CapAskIsTaken` | who is about to write has read the pool's cap or was overtaken (`WriterKnows`); a beat that applied its ask holds the pool's cap unless somebody meddled (`TakerKnows`) | |
| `StartKillsItsOwn` (`StartProofs`) | `KillsItsOwn` | lives are numbered in order; what may stand behind a number on record, listed or checked (`OnRecord`); only trainers have the driver in their argv | |
| `StartsAreWell` | `StartsWell` | who saves holds a whole configuration; as long as no two crossed, the one inside `writeConfig` writes to the temporary file and finds there what it made of it (`Apart`) | |
| `AddressesAreKept` | `TypedIsKept` | as long as nothing went astray the file says what was typed, and so does who keeps a cap and re-read since (`TypedInv`) | no address from the environment |
| `OneAtATime`, `ReadyMeansRuns` | `OneProvisions`, `ReadyRuns` | who works has the lock (`LockedOut`); what the steps so far have found or made (`Found`); beside a ready daemon nothing is taken apart (`Spared`) | |
| `StartSparesTheLiving`, `RowsTell` (`DaemonProofs`) | `NoFratricide`, `RowTells` | who is past the identity holds it (`Holds`); children only at work (`OwnAtWork`); the first beat wrote the row (`RowFirst`); a stop is there before the end begins (`StopsFirst`); where a daemon may be when a beat or its row says ready (`BeatsAtWork`, `RowAtWork`) | |
| `VerdictsAreRight` (`ReadingProofs`) | `VerdictIsRight`, for any sizes a chunk may declare | what the walk has found is what lies before the place it is at, which is a chunk's beginning (`Tells`) | |
| `LinesAreRead` | `LinesAreThose` | the lines given and the buffer are the lines and the rest of what was read (`Between`, `HeldBack`, `AllOut`); a `\r` that was passed is not the first half of a `\r\n` (`Unbroken`) | |
| `ProgressStaysTold` | `ProgressIsTold` | the tracker stands at the last epoch seen (`TrackerTells`); its rate is between two of the costs (`RateBetween`); what is recorded was spent before the last figure (`SpentBefore`) | |
| `EstimatesAreRight` | `EstimatesAgree` | types, and that a run's epoch is not below its start; the rest is about the query (`WeightIs`, `LastAreRecent`) | |

The conditions are those of section 3: without them the property is false, and section
6 says in which way. `NoFratricide`, `EndedRightly`, `CaughtUp`, `CapAskIsTaken`, `KeptIsLive`,
`AwakeFollows`, `StartsWell`, `TypedIsKept` and `ReadyRuns` carry theirs in the property,
as a history. What is proved of savings is proved of any number of beating goroutines.

`CancelKeepsNothing` shows the pattern. A checkpoint write that has passed its fence
is an attempt in `storing`, and its `PutStore` would put weights on the take of a row
cancelled since. The step is safe because the row is locked, so `IInv` adds three
facts:

1. `LockHolds`: who has the lock of a row holds the row, unpaused; every action that would change that wants `Unlocked`.
2. Who is `storing`, as the saver or as the finisher, has the lock of its own job; and it is never both (a last look that outlived the wait and the final write of the same attempt exclude each other by the lock).
3. `LockOwned`: the lock of a job is had by an attempt at that job; with the fresh claims (`phase = "none"` has no job) a new attempt finds no lock under its own token.

`LibInv` (types, 1 and the property itself) is about the library's variables alone
and each statement keeps it; `AttInv` (types, 2 and 3) is about the attempts, and a
step is ordinary, fresh, acquiring or releasing (`OrdinaryStep`, `FreshStep`,
`AcquireStep`, `ReleaseStep`). Each action is one of each; `NextInv` puts them together.

`HandoverProofs` goes on from there. `IInv` says who may write; `Truth` says what is
written, and has the three properties among its parts because each needs the others:
that the take stands where a holder resumed (`BaseStands`) makes its next weights
newer than its base, which makes them trained (`WeightsTrained`), which makes a
reported epoch its own (`SuccessIsOwn`). The refinement takes `Handover`'s four
variables as functions of the rows, the take and the claims (`Stages`, `Holders`,
`Claims`, `Keeps`); each action of `Attempts` is shown to be one of `Handover`'s or a
stutter.

`TakesKeep` is the same for the numbers, of each take by itself. A take has one live
job, and its running row one claim, so the attempt of a take is one or none (`OneRunner`).
A step that ages nobody and hands out no row leaves it, or leaves the take without one
(`UndisturbedKept`); a claim puts a fresh attempt in its place, whose first epoch
counts from where the take stands, since nothing was written to the take between its
resume and then (`FirstEpoch`, by `BaseStands`); a write is by the holder, because it has
the lock, and of what it trained, because of `Honest` (`StoreKept`). So no step of a
displaced attempt reaches its take at all, and that is the content of the theorem.

`PauseGateProofs` reads what a hand is going to do off its state, since a call is the
sequence of accesses it has still to make. An argument about two goroutines becomes
one about the heads of two sequences and what is behind them.

`ReadingProofs` is about recursion: where the n-th chunk begins, what a set of rows
adds up to. A theorem of induction takes an operator, which the provers cannot
instantiate; the well-foundedness of the strict subsets of a finite set does not. So
what cannot have a smallest exception is shown to have none (`NatInduct`, `SetsInduct`,
`SetsDescend`), and from that the equations of `ChunkAt` (`ChunkAtIs`) and of the sum
(`SumsExist`, `SumsAdd`), and that a finite set of numbers has a largest and a
smallest (`Extremes`).

`EstimatesAgree` says of a query over rows what holds of epochs. Its proof counts the
epochs later than a given one (`LaterAre`), finds that a row which the `LIMIT` leaves
out has a whole window of epochs after each of its own (`LastAreRecent`), that any other
row has as many of the last epochs as the query gives it weight (`WeightIs`), and
exchanges the sums over rows for those over epochs (`SumsByFirst`). Ties of
`finished_at` need no case of their own: only the transitivity of the order is used.

Only model-checked: everything under "Liveness" in section 3, which needs fairness or
ENABLED.


## 5. Findings

- `finish`: `finishTrainSuccess` ignores what `PutCheckpoint` answers, and its fence is stronger than that of `FinishSucceeded`. A run cron marks as silent while it finishes is closed as succeeded, and the take keeps an older epoch, or nothing. The comment says the take gets the finished model.
- `stopped`: a stop that waits on a claimed row is answered by reading the take on the pool's context. A shutdown fails the read, the failure is taken for an empty take, and the row is closed as failed, "nothing kept", on a context that outlives the shutdown.
- `stuck`: `Resume` clears `pauseKill` before it opens the gate, `Pause(true)` sets it after it shut the gate. A `Resume` around the middle of a `Pause(true)` leaves the gate open and the flag up; every child is then killed as it registers, and the menu shows a pool that is not paused.
- `diverged`: a figure that is not a number is refused before the nudge. From that epoch on a run writes no checkpoint, and the checkpoint write's answer is the only place where it hears of a stop or a cancel.
- `oneRun`: a cap that is saved during a run against another library (`ORBITNAM_DSN`, "for one run") makes that library the configured one.
- `meeting`: the menu and a beat re-read, truncate and rename the same files with nothing between them. One truncates `config.toml.tmp` when the other has filled it and is about to rename it: the emptied file becomes `config.toml`, Setup reports its address saved, and the next start reads the defaults. "Which is also why nothing here needs a lock", says `main.go:513`.

## 6. Known limits, without a run of their own

Conditions of the properties above that the code does not enforce, and places where
a comment promises more than it does. Each was met while modelling.

- `stop()` of the saver waits forty seconds for a last look that may take longer; `classify` then reads the take before that look has stored its epoch, against `worker.go:747`. Adding `overrun` to the faults of `handover` shows it (`HarvestAgrees`). The watchdog stays armed during that wait.
- When `ConsumePauseWanted` fails, the next beat applies the same order again, over what the menu did since (`heartbeat.go:156` against `worker.go:98`). Adding `ioerror` and a second hand to `gate` shows it (`LiftedByHand`). It also compares the order and not the asking, so that an order given again between the read and the clearing is cleared with the first.
- A pause whose file could not be written is lifted by the next start; the code logs it. Adding `ioerror` to `gate` with two troubles shows it (`LiftedByHand`).
- A row that cron marked and another worker of the same pool claimed leaves the first child out of reach of Pause now (`worker.go:936`).
- An unpacking that was cut short may leave a python that starts. It is trusted, against `provision.go:53-56`, and every environment made from it fails (`EndsReady` excepts it).
- A stop that cancels a provisioning probe makes it fail; what it was probing is taken for broken and torn down, beside a daemon that may be running on it (`misjudged`).
- Two overlapping beats may apply one ask's cap over another's and clear it (`meddled`).
- A saving that re-read before another one landed renames the older values over it, though nothing crossed inside `writeConfig` (`heartbeat.go:179`, `main.go:517`): of an address, `TypedIsKept` says under which condition it does not happen. In `ConfigFile` a text of which only a part was written is taken not to parse; a cut at the end of a line would parse, with the defaults for what is missing.
- A cap that is changed between a saving's read of it and its write (`heartbeat.go:184-185`) may leave the older one in the file, against `main.go:259-260` (`overtaken`).
- `CountByState` counts rows, not runs. A pool that starts paused over the rows of a crashed life, or whose terminal write failed before a pause, holds the machine awake with nothing running, against `main.go:192-193`: until cron marked the rows, somebody took them, and somebody here publishes again, which an idle pool does only when it is told something (`overLeft`). And a child whose row was taken holds nothing awake, though it trains until it next asks.
- Nothing looks at the session that holds an identity after it was opened; when it is lost a second daemon of the name starts and kills the first one's trainers (`store.go:117`).
- A recorded process number that another daemon's trainer got meanwhile looks ours (`recover.go:66`); `Recovery` assumes that away (`ProcessBegins` gives no trainer a number that is on record).
- With the last pair in rotation the best pair is stored as the last one, so that a take may step back for a while; `GroundHolds` bounds how far.
- `FinishFailed` does not look at a pending cancel.
- `model.nam` may be short when its exporter is killed.
- A stop during the first beat or the identity exits non-zero, unlike one before them (`main.go:110`), which a supervisor may take for a crash.
- Keep-awake is published by what a daemon's own pool does: when another daemon drains the shared queue, the handle is not released before this one's next count (`main.go:167-168`).
- `AppendLog` has no deadline, so a hung library stops the reader, and the watchdog kills a healthy child.
- A line that ends with `\r` is given when the next byte arrives.
- `wav.go` takes a duration from a declared byte rate that it does not check against the other fields, and a format from sixteen bytes behind its header whatever size a `fmt ` chunk declares (`wav.go:61-73`): of a shorter one the rest is read out of the next chunk's header.
- `PauseGate` has one beating goroutine; provisioning's one beat (`main.go:440`) may run beside the ticker's and meet the same ask.
- A stop waits for terminal writes that are on a context without a deadline (`worker.go:840`, `worker.go:411`): it ends when they answer or their connection dies.

## 7. Not modelled, and why

- Log file (`applog`): rotation under one mutex that nothing depends on. A reopen that fails leaves the log closed (`applog.go:73`).
- Tray: a view; its calls are actions of `PauseGate`, `Lanes`, `ConfigFile` and `Daemon`.
- `AppendLog`, the tally of probes and the listing of jobs: they add or read rows that nobody decides by.
- Test doubles, the storage test kit, packaging, CI: only tests and builds run them.
- The wording and spelling of lines, errors, error codes and menu texts; the address of a library and its connection pool (a Setup of `Daemon` only makes one known; that it may empty it, and that a daemon without a menu ends over an empty one, `main.go:102-103`, is left out); a keeper that was switched off; priorities and queue times (any claimable row may be popped); the pinned nam version (every worker runs it); the bytes of a model.

## 8. What could follow

Proofs: the order of two calls under both hands, once the code has a lock to state it by.
Models: a second pool under `Lanes`, for the counts of a shared queue.
