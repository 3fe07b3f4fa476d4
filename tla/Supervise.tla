----------------------------- MODULE Supervise -----------------------------
(***************************************************************************)
(* internal/worker, supervise: one goroutine reads the trainer's output    *)
(* line by line, writes what it reads to the library, and decides a probe; *)
(* a watchdog kills a trainer that has been silent for the stall window.   *)
(* Time passes only while nothing else can happen at once: the reader is   *)
(* fast, the trainer prints when it likes, and the library may hang.       *)
(***************************************************************************)
EXTENDS Trouble, Sequences

CONSTANTS
  StallWindow,   \* p.stall, in ticks
  Room           \* the lines an unread pipe holds

ASSUME SuperviseAssumption ==
  StallWindow \in Nat \ {0} /\ Room \in Nat \ {0}

\* Faults here: "hang", the library answers nothing for a while; "shutdown".

VARIABLES
  lane,        \* train or probe
  trainer,     \* the child: alive, its silence and the longest one, its first verdict
  unread,      \* the lines in the pipe
  reader,      \* supervise: where it is, the line in hand, what it found
  watchdog,    \* ticks since the timer was last reset; it fires once
  queries,     \* up or hung, and whether it ever hung
  ending,      \* p.ctx is done
  why          \* procEntry.reason

superviseVars == <<lane, trainer, unread, reader, watchdog, queries, ending, why, faults>>

\* What a line can be to supervise: an epoch, a failed check, a blank, anything else.
Lines == {"epoch", "checkfail", "blank", "text"}
Verdicts == {"none", "pass", "fail"}

\* What an epoch line or a failed check says of a probe.
SaysOfProbe(line) == CASE line = "epoch" -> "pass" [] line = "checkfail" -> "fail" [] OTHER -> "none"

SuperviseInit ==
  /\ lane \in {"train", "probe"}
  /\ trainer = [alive |-> TRUE, silent |-> 0, longest |-> 0, says |-> "none"]
  /\ unread = <<>>
  /\ reader = [at |-> "read", line |-> "blank", verdict |-> "none", saw |-> FALSE]
  /\ watchdog = 0
  /\ queries = [hung |-> FALSE, ever |-> FALSE]
  /\ ending = FALSE /\ why = "none" /\ faults = 0

\* procEntry.kill: the first reason sticks.
KilledFor(reason) ==
  /\ why' = IF why = "none" THEN reason ELSE why
  /\ trainer' = [trainer EXCEPT !.alive = FALSE]

-----------------------------------------------------------------------------
(* The trainer.                                                            *)

\* A trainer whose pipe is full waits in its write.
PrintLine ==
  /\ trainer.alive /\ Len(unread) < Room
  /\ \E line \in Lines :
       /\ unread' = Append(unread, line)
       /\ trainer' = [trainer EXCEPT !.silent = 0, !.says = IF @ = "none" THEN SaysOfProbe(line) ELSE @]
  /\ UNCHANGED <<lane, reader, watchdog, queries, ending, why, faults>>

ExitByItself ==
  /\ trainer.alive
  /\ trainer' = [trainer EXCEPT !.alive = FALSE]
  /\ UNCHANGED <<lane, unread, reader, watchdog, queries, ending, why, faults>>

-----------------------------------------------------------------------------
(* The reader.                                                             *)

\* Mutant: a blank line does not count as a sign of life.
ReadBlankUnheard ==
  /\ reader.at = "read" /\ unread # <<>> /\ Head(unread) = "blank"
  /\ unread' = Tail(unread)
  /\ UNCHANGED <<lane, trainer, reader, watchdog, queries, ending, why, faults>>

\* A blank line resets the watchdog and is not kept.
ReadBlank ==
  /\ reader.at = "read" /\ unread # <<>> /\ Head(unread) = "blank"
  /\ unread' = Tail(unread)
  /\ watchdog' = 0
  /\ UNCHANGED <<lane, trainer, reader, queries, ending, why, faults>>

ReadLine ==
  /\ reader.at = "read" /\ unread # <<>> /\ Head(unread) # "blank"
  /\ unread' = Tail(unread)
  /\ watchdog' = 0
  /\ reader' = [reader EXCEPT !.at = "write", !.line = Head(unread)]
  /\ UNCHANGED <<lane, trainer, queries, ending, why, faults>>

\* AppendLog, RecordEpoch and UpdateProgress return when the library answers, or at once
\* when the pool is being stopped; they carry no deadline of their own.
Answered == ~queries.hung \/ ending

\* Only the first marker of a probe decides it.
Decides(line) == lane = "probe" /\ reader.verdict = "none" /\ SaysOfProbe(line) # "none"

Written ==
  /\ reader.at = "write" /\ Answered
  /\ reader' = [reader EXCEPT
       !.at = "read", !.line = "blank",
       !.verdict = IF Decides(reader.line) THEN SaysOfProbe(reader.line) ELSE @,
       !.saw = @ \/ reader.line = "epoch"]
  /\ IF Decides(reader.line) THEN KilledFor("verdict") ELSE UNCHANGED <<why, trainer>>
  /\ UNCHANGED <<lane, unread, watchdog, queries, ending, faults>>

\* The group has closed the pipe: the last progress is flushed, if there was any.
AtEof ==
  /\ reader.at = "read" /\ unread = <<>> /\ ~trainer.alive
  /\ reader' = [reader EXCEPT !.at = IF reader.saw THEN "flush" ELSE "done"]
  /\ UNCHANGED <<lane, trainer, unread, watchdog, queries, ending, why, faults>>

Flushed ==
  /\ reader.at = "flush" /\ Answered
  /\ reader' = [reader EXCEPT !.at = "done"]
  /\ UNCHANGED <<lane, trainer, unread, watchdog, queries, ending, why, faults>>

Reads == ReadBlank \/ ReadLine \/ Written \/ AtEof \/ Flushed

\* The reader has nothing to do but wait: for a line, or for the library.
Waiting ==
  \/ reader.at = "read" /\ unread = <<>> /\ trainer.alive
  \/ reader.at \in {"write", "flush"} /\ ~Answered

-----------------------------------------------------------------------------
(* The clock, the watchdog and the others.                                 *)

Longer(silence) == IF silence < StallWindow THEN silence + 1 ELSE silence

\* Time passes while the reader waits: what it can do at once takes none.
Tick ==
  /\ Waiting /\ watchdog < StallWindow
  /\ watchdog' = watchdog + 1
  /\ trainer' = [trainer EXCEPT !.silent = Longer(@),
                                    !.longest = IF @ < Longer(trainer.silent)
                                                THEN Longer(trainer.silent) ELSE @]
  /\ UNCHANGED <<lane, unread, reader, queries, ending, why, faults>>

\* Mutant: the first epoch stops the watchdog.
StallBeforeEpochs ==
  /\ reader.at # "done" /\ ~reader.saw /\ watchdog = StallWindow
  /\ watchdog' = StallWindow + 1
  /\ KilledFor("stall")
  /\ UNCHANGED <<lane, unread, reader, queries, ending, faults>>

\* time.AfterFunc; it is stopped when supervise returns.  A reset arms it again.
Stall ==
  /\ reader.at # "done" /\ watchdog = StallWindow
  /\ watchdog' = StallWindow + 1
  /\ KilledFor("stall")
  /\ UNCHANGED <<lane, unread, reader, queries, ending, faults>>

\* The pool is stopped; the goroutine beside the reader kills the child for it.
PoolStops ==
  /\ Fault("shutdown")
  /\ ~ending /\ ending' = TRUE
  /\ UNCHANGED <<lane, trainer, unread, reader, watchdog, queries, why>>

Shutdown ==
  /\ ending /\ reader.at # "done" /\ trainer.alive
  /\ KilledFor("shutdown")
  /\ UNCHANGED <<lane, unread, reader, watchdog, queries, ending, faults>>

Hang ==
  /\ Fault("hang")
  /\ queries' = [hung |-> TRUE, ever |-> TRUE]
  /\ UNCHANGED <<lane, trainer, unread, reader, watchdog, ending, why>>

Recovers ==
  /\ queries.hung
  /\ queries' = [queries EXCEPT !.hung = FALSE]
  /\ UNCHANGED <<lane, trainer, unread, reader, watchdog, ending, why, faults>>

SuperviseNext ==
  \/ PrintLine \/ ExitByItself
  \/ Reads
  \/ Tick \/ Stall \/ PoolStops \/ Shutdown
  \/ Hang \/ Recovers

SuperviseSpec == SuperviseInit /\ [][SuperviseNext]_superviseVars

-----------------------------------------------------------------------------
(* Properties.                                                             *)

\* "no output within the stall window": while the library answers, a trainer that is
\* killed for its silence had printed nothing, not even a blank line, for that long (a line
\* that arrives with the timer comes too late).
StallMeansSilent ==
  why = "stall" /\ ~queries.ever => trainer.longest >= StallWindow

\* A probe's verdict is the first marker it printed, however much more of its output was
\* in the pipe when it was killed for it.
VerdictIsFirst == reader.verdict # "none" => reader.verdict = trainer.says

\* A child is ended for what it did: for a silence that was one, by its first marker.
EndedRightly == StallMeansSilent /\ VerdictIsFirst

\* A trainer that falls silent for good, dead or hanging, is done with.
SilentEnds ==
  <>[](trainer.silent > 0 \/ ~trainer.alive) => <>(reader.at = "done")
=============================================================================
