------------------------------ MODULE PoolProofs ------------------------------
(***************************************************************************)
(* What runs in a pool, each proved for itself: a child is ended for what  *)
(* it did (EndedRightly), for any stall window and any pipe; the machine   *)
(* is held awake while a child trains and, but for rows that run under     *)
(* this name with no worker, no longer (AwakeFollows), for any width,      *)
(* hands, queues and rows left by a crashed life; the cap that is kept is  *)
(* the cap the pool runs by unless a saving was overtaken (KeptIsLive),    *)
(* and an ask is cleared when the pool runs by it (CapAskIsTaken), for any *)
(* caps, hands, asks, faults and restarts.                                 *)
(*                                                                         *)
(* StallMeansSilent: while the library answers time passes only for a      *)
(* reader that has read everything, so the timer of an empty pipe is no    *)
(* further than the trainer's silence (TimerTells).  VerdictIsFirst: as    *)
(* long as nothing is decided, the first marker among what is in the       *)
(* reader's hand and in the pipe is the first one printed (FirstIsAhead).  *)
(*                                                                         *)
(* AwakeFollows: one counts at a time, and between his counting and his    *)
(* publishing no worker starts (CountsRuns), while every worker he counted *)
(* is still to publish that it is done (CountsTold): of the rows nobody    *)
(* runs, nobody will.                                                      *)
(*                                                                         *)
(* KeptIsLive: who is about to write a cap has read the pool's, or the     *)
(* pool has left it since and he counts as overtaken (WriterKnows).        *)
(*                                                                         *)
(* CapAskIsTaken speaks of the moment of the clearing: it rests on what a  *)
(* goroutine between its applying and its clearing knows (TakerKnows).     *)
(***************************************************************************)
EXTENDS Supervise, Lanes, CapAsk, FiniteSetTheorems, TLAPS

-----------------------------------------------------------------------------
(* A child is ended for what it did.                                       *)

Trainer == [alive : BOOLEAN, silent : 0..StallWindow, longest : 0..StallWindow, says : Verdicts]

Reader ==
  [at : {"read", "write", "flush", "done"}, line : Lines, verdict : Verdicts, saw : BOOLEAN]

SuperviseTypeOK ==
  /\ lane \in {"train", "probe"}
  /\ trainer \in Trainer
  /\ unread \in Seq(Lines)
  /\ reader \in Reader
  /\ watchdog \in 0..StallWindow + 1
  /\ queries \in [hung : BOOLEAN, ever : BOOLEAN]
  /\ ending \in BOOLEAN /\ why \in {"none", "stall", "shutdown", "verdict"}

HungEver == queries.hung => queries.ever

TimerTells ==
  ~queries.ever =>
    /\ unread = <<>> /\ trainer.alive => watchdog <= trainer.silent
    /\ watchdog <= StallWindow => watchdog <= trainer.longest
    /\ why = "stall" => trainer.longest >= StallWindow

\* The reader holds a line only to write it.
LineInHand == reader.at # "write" => reader.line = "blank"

FirstAt(i) ==
  SaysOfProbe(unread[i]) # "none" /\ \A j \in 1..i - 1 : SaysOfProbe(unread[j]) = "none"

FirstIsAhead ==
  /\ reader.verdict # "none" => reader.verdict = trainer.says
  /\ reader.verdict = "none" /\ lane = "probe" =>
       /\ SaysOfProbe(reader.line) # "none" => trainer.says = SaysOfProbe(reader.line)
       /\ SaysOfProbe(reader.line) = "none" =>
            /\ \A i \in 1..Len(unread) : FirstAt(i) => trainer.says = SaysOfProbe(unread[i])
            /\ trainer.says # "none" => \E i \in 1..Len(unread) : SaysOfProbe(unread[i]) # "none"

SuperviseInv == SuperviseTypeOK /\ HungEver /\ TimerTells /\ LineInHand /\ FirstIsAhead

-----------------------------------------------------------------------------
LEMMA Says == SaysOfProbe("blank") = "none" /\ \A line \in Lines : SaysOfProbe(line) \in Verdicts
BY DEF SaysOfProbe, Lines, Verdicts

LEMMA SuperviseBegins == SuperviseInit => SuperviseInv
<1> SUFFICES ASSUME SuperviseInit PROVE SuperviseInv
  OBVIOUS
<1> USE SuperviseAssumption DEF SuperviseInit
<1>1. SuperviseTypeOK
  <2>1. trainer \in Trainer
    BY DEF Trainer, Verdicts
  <2>2. reader \in Reader
    BY DEF Reader, Lines, Verdicts
  <2>3. queries \in [hung : BOOLEAN, ever : BOOLEAN] /\ unread \in Seq(Lines)
    OBVIOUS
  <2>4. watchdog \in 0..StallWindow + 1
    OBVIOUS
  <2> QED BY <2>1, <2>2, <2>3, <2>4 DEF SuperviseTypeOK
<1>2. HungEver /\ TimerTells /\ LineInHand
  BY DEF HungEver, TimerTells, LineInHand
<1>3. FirstIsAhead
  BY Says DEF FirstIsAhead
<1> QED BY <1>1, <1>2, <1>3 DEF SuperviseInv

\* Whoever is killed says no more, and the first reason sticks.
LEMMA Killed ==
  ASSUME SuperviseTypeOK, NEW reason \in {"stall", "shutdown", "verdict"}, KilledFor(reason)
  PROVE  /\ trainer' \in Trainer /\ why' \in {"none", "stall", "shutdown", "verdict"}
         /\ ~trainer'.alive /\ trainer'.says = trainer.says
         /\ trainer'.silent = trainer.silent /\ trainer'.longest = trainer.longest
         /\ why' = why \/ why' = reason
BY DEF KilledFor, SuperviseTypeOK, Trainer

LEMMA PrintKeeps ==
  ASSUME SuperviseInv, PrintLine
  PROVE  SuperviseInv'
<1> USE DEF SuperviseInv, SuperviseTypeOK
<1>1. PICK line \in Lines :
        /\ unread' = Append(unread, line)
        /\ trainer' = [trainer EXCEPT !.silent = 0,
                                      !.says = IF @ = "none" THEN SaysOfProbe(line) ELSE @]
  BY DEF PrintLine
<1>2. /\ trainer' \in Trainer
      /\ trainer'.says = IF trainer.says = "none" THEN SaysOfProbe(line) ELSE trainer.says
      /\ trainer'.longest = trainer.longest
  <2>1. SaysOfProbe(line) \in Verdicts /\ 0 \in 0..StallWindow
    BY Says, SuperviseAssumption
  <2>2. trainer \in Trainer
    OBVIOUS
  <2> HIDE DEF SuperviseInv, SuperviseTypeOK
  <2> QED BY <1>1, <2>1, <2>2 DEF Trainer
<1>3. /\ unread' \in Seq(Lines) /\ Len(unread') = Len(unread) + 1 /\ unread' # <<>>
      /\ \A i \in 1..Len(unread) : unread'[i] = unread[i]
      /\ unread'[Len(unread) + 1] = line
      /\ Len(unread) \in Nat
  BY <1>1
<1>4. SuperviseTypeOK' /\ HungEver' /\ LineInHand'
  BY <1>2, <1>3 DEF PrintLine, HungEver, LineInHand
<1>5. TimerTells'
  BY <1>2, <1>3 DEF PrintLine, TimerTells
<1>6. FirstIsAhead'
  <2> SUFFICES ASSUME reader.verdict = "none", lane = "probe"
               PROVE  FirstIsAhead'
    BY <1>2 DEF PrintLine, FirstIsAhead
  <2>1. CASE SaysOfProbe(reader.line) # "none"
    BY <1>2, <2>1 DEF PrintLine, FirstIsAhead
  <2>2. CASE SaysOfProbe(reader.line) = "none"
    <3>1. ASSUME NEW i \in 1..Len(unread'), FirstAt(i)'
          PROVE  trainer'.says = SaysOfProbe(unread'[i])
      <4>1. CASE i \in 1..Len(unread)
        <5>1. FirstAt(i)
          BY <1>3, <3>1, <4>1 DEF FirstAt
        <5> QED BY <1>2, <1>3, <2>2, <4>1, <5>1 DEF FirstIsAhead, FirstAt
      <4>2. CASE i = Len(unread) + 1
        <5>1. \A j \in 1..Len(unread) : SaysOfProbe(unread[j]) = "none"
          BY <1>3, <3>1, <4>2 DEF FirstAt
        <5>2. trainer.says = "none"
          BY <2>2, <5>1 DEF FirstIsAhead
        <5> QED BY <1>2, <1>3, <4>2, <5>2
      <4> QED BY <1>3, <4>1, <4>2
    <3>2. ASSUME trainer'.says # "none" PROVE \E i \in 1..Len(unread') : SaysOfProbe(unread'[i]) # "none"
      <4>1. CASE trainer.says = "none"
        BY <1>2, <1>3, <3>2, <4>1
      <4>2. CASE trainer.says # "none"
        <5>1. PICK i \in 1..Len(unread) : SaysOfProbe(unread[i]) # "none"
          BY <2>2, <4>2 DEF FirstIsAhead
        <5> QED BY <1>3, <5>1
      <4> QED BY <4>1, <4>2
    <3> QED BY <2>2, <3>1, <3>2 DEF PrintLine, FirstIsAhead
  <2> QED BY <2>1, <2>2
<1> QED BY <1>4, <1>5, <1>6 DEF SuperviseInv

\* A line less in the pipe.
LEMMA Shifted ==
  ASSUME SuperviseTypeOK, unread # <<>>, unread' = Tail(unread)
  PROVE  /\ Head(unread) \in Lines /\ unread[1] = Head(unread)
         /\ unread' \in Seq(Lines) /\ Len(unread') = Len(unread) - 1
         /\ Len(unread) \in Nat \ {0}
         /\ \A i \in 1..Len(unread) - 1 : unread'[i] = unread[i + 1]
BY DEF SuperviseTypeOK

\* Without its first line, if that says nothing, the pipe says what it said.
LEMMA AheadStill ==
  ASSUME SuperviseInv, unread # <<>>, unread' = Tail(unread), SaysOfProbe(Head(unread)) = "none",
         SaysOfProbe(reader.line) = "none", SaysOfProbe(reader.line)' = "none", UNCHANGED <<trainer, lane>>,
         reader'.verdict = reader.verdict
  PROVE  FirstIsAhead'
<1>1. /\ unread[1] = Head(unread) /\ Len(unread') = Len(unread) - 1
      /\ Len(unread) \in Nat \ {0}
      /\ \A i \in 1..Len(unread) - 1 : unread'[i] = unread[i + 1]
  BY Shifted DEF SuperviseInv
<1> SUFFICES ASSUME reader.verdict = "none", lane = "probe"
             PROVE  FirstIsAhead'
  BY DEF SuperviseInv, FirstIsAhead
<1>2. ASSUME NEW i \in 1..Len(unread'), FirstAt(i)'
      PROVE  trainer.says = SaysOfProbe(unread'[i])
  <2>1. i + 1 \in 1..Len(unread) /\ unread'[i] = unread[i + 1]
    BY <1>1
  <2>2. ASSUME NEW j \in 1..i PROVE SaysOfProbe(unread[j]) = "none"
    <3>1. CASE j = 1
      BY <1>1, <3>1
    <3>2. CASE j # 1
      <4>1. j - 1 \in 1..i - 1 /\ j - 1 \in 1..Len(unread) - 1 /\ (j - 1) + 1 = j
        BY <1>1, <3>2
      <4>2. SaysOfProbe(unread'[j - 1]) = "none"
        BY <1>2, <4>1 DEF FirstAt
      <4> QED BY <1>1, <4>1, <4>2
    <3> QED BY <3>1, <3>2
  <2>3. FirstAt(i + 1)
    BY <1>2, <2>1, <2>2 DEF FirstAt
  <2> QED BY <2>1, <2>3 DEF SuperviseInv, FirstIsAhead
<1>3. ASSUME trainer.says # "none" PROVE \E i \in 1..Len(unread') : SaysOfProbe(unread'[i]) # "none"
  <2>1. PICK i \in 1..Len(unread) : SaysOfProbe(unread[i]) # "none"
    BY <1>3 DEF SuperviseInv, FirstIsAhead
  <2>2. i - 1 \in 1..Len(unread') /\ unread'[i - 1] = unread[i]
    BY <1>1, <2>1
  <2> QED BY <2>1, <2>2
<1> QED BY <1>2, <1>3 DEF FirstIsAhead

LEMMA ReadBlankKeeps ==
  ASSUME SuperviseInv, ReadBlank
  PROVE  SuperviseInv'
<1> USE SuperviseAssumption DEF SuperviseInv
<1>1. unread # <<>> /\ unread' = Tail(unread) /\ Head(unread) = "blank" /\ reader.line = "blank"
  BY DEF ReadBlank, LineInHand
<1>2. SuperviseTypeOK'
  BY <1>1, Shifted DEF ReadBlank, SuperviseTypeOK
<1>3. HungEver' /\ LineInHand'
  BY DEF ReadBlank, HungEver, LineInHand
<1>4. TimerTells'
  BY DEF ReadBlank, TimerTells, SuperviseTypeOK, Trainer
<1>5. FirstIsAhead'
  BY <1>1, AheadStill, Says DEF ReadBlank
<1> QED BY <1>2, <1>3, <1>4, <1>5

LEMMA ReadLineKeeps ==
  ASSUME SuperviseInv, ReadLine
  PROVE  SuperviseInv'
<1> USE SuperviseAssumption DEF SuperviseInv
<1>1. unread # <<>> /\ unread' = Tail(unread) /\ reader.line = "blank"
  BY DEF ReadLine, LineInHand
<1>2. Head(unread) \in Lines /\ unread' \in Seq(Lines) /\ unread[1] = Head(unread)
      /\ Len(unread) \in Nat \ {0}
  BY <1>1, Shifted
<1>3. reader' \in Reader /\ reader'.at = "write" /\ reader'.line = Head(unread)
      /\ reader'.verdict = reader.verdict
  BY <1>2 DEF ReadLine, SuperviseTypeOK, Reader
<1>4. SuperviseTypeOK'
  BY <1>2, <1>3 DEF ReadLine, SuperviseTypeOK
<1>5. HungEver' /\ LineInHand'
  BY <1>3 DEF ReadLine, HungEver, LineInHand
<1>6. TimerTells'
  BY DEF ReadLine, TimerTells, SuperviseTypeOK, Trainer
<1>7. FirstIsAhead'
  <2>1. CASE SaysOfProbe(Head(unread)) = "none"
    BY <1>1, <1>3, <2>1, AheadStill, Says DEF ReadLine
  <2>2. CASE SaysOfProbe(Head(unread)) # "none"
    <3>1. FirstAt(1)
      BY <1>2, <2>2 DEF FirstAt
    <3>2. reader.verdict = "none" /\ lane = "probe" => trainer.says = SaysOfProbe(Head(unread))
      BY <1>1, <1>2, <3>1, Says DEF FirstIsAhead
    <3> QED BY <1>3, <2>2, <3>2 DEF ReadLine, FirstIsAhead
  <2> QED BY <2>1, <2>2
<1> QED BY <1>4, <1>5, <1>6, <1>7

LEMMA WrittenKeeps ==
  ASSUME SuperviseInv, Written
  PROVE  SuperviseInv'
<1> USE SuperviseAssumption DEF SuperviseInv
<1>1. CASE Decides(reader.line)
  <2>1. KilledFor("verdict")
    BY <1>1 DEF Written
  <2>2. /\ trainer' \in Trainer /\ why' \in {"none", "stall", "shutdown", "verdict"}
        /\ ~trainer'.alive /\ trainer'.says = trainer.says /\ trainer'.longest = trainer.longest
        /\ why' = why \/ why' = "verdict"
    BY <2>1, Killed
  <2>3. reader' \in Reader /\ reader'.verdict = SaysOfProbe(reader.line) /\ reader'.line = "blank"
        /\ reader'.at = "read"
    BY <1>1, Says DEF Written, SuperviseTypeOK, Reader, Lines
  <2>4. SuperviseTypeOK' /\ HungEver' /\ LineInHand'
    BY <2>2, <2>3 DEF Written, SuperviseTypeOK, HungEver, LineInHand
  <2>5. TimerTells'
    BY <2>2 DEF Written, TimerTells
  <2>6. FirstIsAhead'
    BY <1>1, <2>2, <2>3 DEF Decides, FirstIsAhead
  <2> QED BY <2>4, <2>5, <2>6
<1>2. CASE ~Decides(reader.line)
  <2>1. reader' \in Reader /\ reader'.verdict = reader.verdict /\ reader'.line = "blank"
        /\ reader'.at = "read"
    BY <1>2 DEF Written, SuperviseTypeOK, Reader, Lines
  <2>2. UNCHANGED <<why, trainer, lane, unread, watchdog, queries, ending>>
    BY <1>2 DEF Written
  <2>3. SuperviseTypeOK' /\ HungEver' /\ LineInHand' /\ TimerTells'
    BY <2>1, <2>2 DEF SuperviseTypeOK, HungEver, LineInHand, TimerTells
  <2>4. FirstIsAhead'
    BY <1>2, <2>1, <2>2, Says DEF Decides, FirstIsAhead, FirstAt
  <2> QED BY <2>3, <2>4
<1> QED BY <1>1, <1>2

LEMMA TickKeeps ==
  ASSUME SuperviseInv, Tick
  PROVE  SuperviseInv'
<1> USE SuperviseAssumption DEF SuperviseInv
<1>1. /\ trainer' \in Trainer /\ trainer'.says = trainer.says /\ trainer'.alive = trainer.alive
      /\ trainer'.silent = Longer(trainer.silent)
      /\ trainer'.longest >= Longer(trainer.silent) /\ trainer'.longest >= trainer.longest
  <2>1. trainer.silent \in 0..StallWindow /\ trainer.longest \in 0..StallWindow
    BY DEF SuperviseTypeOK, Trainer
  <2>2. Longer(trainer.silent) \in 0..StallWindow
    BY <2>1 DEF Longer
  <2> DEFINE most == IF trainer.longest < Longer(trainer.silent)
                     THEN Longer(trainer.silent) ELSE trainer.longest
  <2>3. most \in 0..StallWindow /\ most >= Longer(trainer.silent) /\ most >= trainer.longest
    BY <2>1, <2>2
  <2>4. trainer' = [trainer EXCEPT !.silent = Longer(trainer.silent), !.longest = most]
    BY DEF Tick
  <2>5. trainer \in Trainer
    BY DEF SuperviseTypeOK
  <2> HIDE DEF most, SuperviseInv
  <2> QED BY <2>2, <2>3, <2>4, <2>5 DEF Trainer
<1>2. SuperviseTypeOK' /\ HungEver' /\ LineInHand'
  BY <1>1 DEF Tick, SuperviseTypeOK, HungEver, LineInHand
<1>3. ~queries.ever => unread = <<>> /\ trainer.alive
  BY DEF Tick, Waiting, Answered, HungEver, SuperviseTypeOK
<1>4. trainer.silent \in 0..StallWindow /\ trainer.longest \in 0..StallWindow
      /\ trainer'.longest \in 0..StallWindow /\ watchdog \in 0..StallWindow + 1
  BY <1>1 DEF SuperviseTypeOK, Trainer
<1>5. TimerTells'
  BY <1>1, <1>3, <1>4 DEF Tick, TimerTells, Longer
<1>6. FirstIsAhead'
  BY <1>1 DEF Tick, FirstIsAhead, FirstAt
<1> QED BY <1>2, <1>5, <1>6

LEMMA StallKeeps ==
  ASSUME SuperviseInv, Stall
  PROVE  SuperviseInv'
<1> USE SuperviseAssumption DEF SuperviseInv
<1>1. /\ trainer' \in Trainer /\ why' \in {"none", "stall", "shutdown", "verdict"}
      /\ ~trainer'.alive /\ trainer'.says = trainer.says /\ trainer'.longest = trainer.longest
      /\ why' = why \/ why' = "stall"
  BY Killed DEF Stall
<1>2. SuperviseTypeOK' /\ HungEver' /\ LineInHand'
  BY <1>1 DEF Stall, SuperviseTypeOK, HungEver, LineInHand
<1>3. TimerTells'
  BY <1>1 DEF Stall, TimerTells
<1>4. FirstIsAhead'
  BY <1>1 DEF Stall, FirstIsAhead, FirstAt
<1> QED BY <1>2, <1>3, <1>4

LEMMA ShutdownKeeps ==
  ASSUME SuperviseInv, Shutdown
  PROVE  SuperviseInv'
<1> USE SuperviseAssumption DEF SuperviseInv
<1>1. /\ trainer' \in Trainer /\ why' \in {"none", "stall", "shutdown", "verdict"}
      /\ ~trainer'.alive /\ trainer'.says = trainer.says /\ trainer'.longest = trainer.longest
      /\ why' = why \/ why' = "shutdown"
  BY Killed DEF Shutdown
<1>2. SuperviseTypeOK' /\ HungEver' /\ LineInHand'
  BY <1>1 DEF Shutdown, SuperviseTypeOK, HungEver, LineInHand
<1>3. TimerTells'
  BY <1>1 DEF Shutdown, TimerTells
<1>4. FirstIsAhead'
  BY <1>1 DEF Shutdown, FirstIsAhead, FirstAt
<1> QED BY <1>2, <1>3, <1>4

\* The steps that touch neither the trainer's words, the pipe nor the timer.
LEMMA OthersKeep ==
  ASSUME SuperviseInv, ExitByItself \/ AtEof \/ Flushed \/ PoolStops \/ Hang \/ Recovers
  PROVE  SuperviseInv'
<1> USE DEF SuperviseInv, ExitByItself, AtEof, Flushed, PoolStops, Hang, Recovers
<1>1. /\ trainer' \in Trainer /\ trainer'.says = trainer.says
      /\ trainer'.silent = trainer.silent /\ trainer'.longest = trainer.longest
      /\ trainer'.alive => trainer.alive
  BY DEF SuperviseTypeOK, Trainer
<1>2. reader' \in Reader /\ reader'.line = reader.line /\ reader'.verdict = reader.verdict
      /\ (reader'.at = "write" <=> reader.at = "write")
  BY DEF SuperviseTypeOK, Reader
<1>3. SuperviseTypeOK' /\ HungEver' /\ LineInHand'
  <2>1. queries' \in [hung : BOOLEAN, ever : BOOLEAN] /\ HungEver'
    <3>1. queries \in [hung : BOOLEAN, ever : BOOLEAN]
      BY DEF SuperviseTypeOK
    <3>2. \/ UNCHANGED queries
          \/ queries' = [hung |-> TRUE, ever |-> TRUE]
          \/ queries' = [queries EXCEPT !.hung = FALSE]
      OBVIOUS
    <3> HIDE DEF ExitByItself, AtEof, Flushed, PoolStops, Hang, Recovers
    <3>3. CASE UNCHANGED queries
      BY <3>1, <3>3 DEF HungEver
    <3>4. CASE queries' = [hung |-> TRUE, ever |-> TRUE]
      BY <3>4 DEF HungEver
    <3>5. CASE queries' = [queries EXCEPT !.hung = FALSE]
      BY <3>1, <3>5 DEF HungEver
    <3> QED BY <3>2, <3>3, <3>4, <3>5
  <2>2. UNCHANGED <<lane, unread, watchdog, why>> /\ ending' \in BOOLEAN
    BY DEF SuperviseTypeOK
  <2> HIDE DEF ExitByItself, AtEof, Flushed, PoolStops, Hang, Recovers
  <2> QED BY <1>1, <1>2, <2>1, <2>2 DEF SuperviseTypeOK, LineInHand
<1>4. TimerTells'
  BY <1>1 DEF TimerTells, HungEver, SuperviseTypeOK
<1>5. FirstIsAhead'
  BY <1>1, <1>2 DEF FirstIsAhead, FirstAt
<1> QED BY <1>3, <1>4, <1>5

LEMMA SuperviseKept == SuperviseInv /\ [SuperviseNext]_superviseVars => SuperviseInv'
<1> SUFFICES ASSUME SuperviseInv, [SuperviseNext]_superviseVars PROVE SuperviseInv'
  OBVIOUS
<1>1. CASE UNCHANGED superviseVars
  BY <1>1 DEF superviseVars, SuperviseInv, SuperviseTypeOK, HungEver, TimerTells, LineInHand,
    FirstIsAhead, FirstAt
<1>2. CASE SuperviseNext
  BY <1>2, PrintKeeps, ReadBlankKeeps, ReadLineKeeps, WrittenKeeps, TickKeeps, StallKeeps,
    ShutdownKeeps, OthersKeep DEF SuperviseNext, Reads
<1> QED BY <1>1, <1>2

LEMMA SuperviseInvariant == SuperviseSpec => []SuperviseInv
BY SuperviseBegins, SuperviseKept, PTL DEF SuperviseSpec

\* A kill for silence follows one, and a verdict is the first marker printed, however the
\* trainer, the reader and the timer are scheduled.
THEOREM EndsAreRight == SuperviseSpec => []EndedRightly
<1>1. SuperviseInv => EndedRightly
  BY DEF SuperviseInv, TimerTells, FirstIsAhead, EndedRightly, StallMeansSilent, VerdictIsFirst
<1> QED BY <1>1, SuperviseInvariant, PTL

-----------------------------------------------------------------------------
(* The machine is held awake by what the lanes do.                         *)

Counts == [running : Nat, queued : Nat, over : BOOLEAN]

LanesTypeOK ==
  /\ shut \in BOOLEAN /\ held \in BOOLEAN /\ unpublished \in BOOLEAN /\ overLeft \in BOOLEAN
  /\ worker \in [Workers -> {"idle", "gated", "claimed", "running", "displaced", "closed"}]
  /\ hand \in [Callers -> {"rest", "publish"}]
  /\ waiting \in [Lane -> Nat] /\ left \in [Lane -> Nat]
  /\ counting \in [Publishers -> Counts \cup {None}]

\* Whoever counted is still about to publish, and nobody else counts meanwhile.
OneCounts ==
  \A p \in Publishers :
    counting[p] # None => Publishes(p) /\ \A q \in Publishers \ {p} : counting[q] = None

\* What was counted still says that something trains; while it is not published, no
\* worker starts.
CountsRuns ==
  \A p \in Publishers :
    counting[p] # None =>
      /\ (\E w \in Workers : worker[w] = "running") => counting[p].running > 0
      /\ p \in Workers /\ worker[p] = "claimed" => counting[p].running > 0

\* A worker that will publish of itself after p did.
Tells(w, p) ==
  /\ worker[w] \in {"claimed", "running", "displaced", "closed"}
  /\ w = p => worker[w] = "claimed"

\* Of what was counted as running somebody is still to publish that it is not, unless a row
\* with no worker was among it.
CountsTold ==
  \A p \in Publishers :
    counting[p] # None /\ counting[p].running > 0 /\ ~counting[p].over =>
      \E w \in Workers : Tells(w, p)

\* A paused pool holds the machine only as long as somebody is to publish, or over rows
\* with no worker.
HeldForSome ==
  held /\ shut /\ ~unpublished /\ ~overLeft =>
    \/ \E w \in Workers : worker[w] \in {"claimed", "running", "displaced", "closed"}
    \/ \E h \in Callers : hand[h] = "publish"

LanesInv ==
  LanesTypeOK /\ OneCounts /\ CountsRuns /\ CountsTold /\ HeldForSome /\ KeptAwake

\* The workers are finitely many, so that a row under this worker's name counts.
LEMMA WorkersFinite == IsFiniteSet(Workers)
<1> DEFINE T == {[lane |-> "train", idx |-> i] : i \in 0..Width - 1}
           f == [i \in 0..Width - 1 |-> [lane |-> "train", idx |-> i]]
<1>1. IsFiniteSet(0..Width - 1)
  BY FS_Interval, LanesAssumption
<1>2. f \in Surjection(0..Width - 1, T)
  BY DEF Surjection
<1> HIDE DEF f, T
<1>3. IsFiniteSet(T)
  BY <1>1, <1>2, FS_Surjection
<1>4. IsFiniteSet({[lane |-> "probe", idx |-> 0]})
  BY FS_Singleton
<1>5. IsFiniteSet(T \cup {[lane |-> "probe", idx |-> 0]})
  BY <1>3, <1>4, FS_Union
<1> QED BY <1>5 DEF Workers, T

LEMMA MineCounts ==
  ASSUME LanesTypeOK
  PROVE  /\ Mine \in Nat /\ Left \in Nat
         /\ (\E w \in Workers : worker[w] \in {"claimed", "running"}) => Mine > 0
         /\ Mine > 0 /\ ~(Left > 0) => \E w \in Workers : worker[w] \in {"claimed", "running"}
<1>1. IsFiniteSet(Runs)
  BY WorkersFinite, FS_Subset DEF Runs
<1>2. Cardinality(Runs) \in Nat /\ (Cardinality(Runs) = 0 <=> Runs = {})
  BY <1>1, FS_CardinalityType, FS_EmptySet
<1>3. Runs # {} <=> \E w \in Workers : worker[w] \in {"claimed", "running"}
  BY DEF Runs
<1>4. Left \in Nat
  BY DEF Left, LanesTypeOK, Lane
<1> QED BY <1>2, <1>3, <1>4 DEF Mine

LEMMA LanesBegin == LanesInit => LanesInv
<1> SUFFICES ASSUME LanesInit PROVE LanesInv
  OBVIOUS
<1>1. waiting \in [Lane -> Nat] /\ left \in [Lane -> Nat]
  BY LanesAssumption DEF LanesInit
<1>2. LanesTypeOK
  BY <1>1 DEF LanesInit, LanesTypeOK
<1>3. \A p \in Publishers : counting[p] = None
  BY DEF LanesInit
<1>4. \A w \in Workers : worker[w] = "idle"
  BY DEF LanesInit
<1> QED BY <1>2, <1>3, <1>4
        DEF LanesInv, OneCounts, CountsRuns, CountsTold, HeldForSome, KeptAwake, LanesInit

LEMMA CountKeeps ==
  ASSUME LanesInv, NEW who \in Publishers, Count(who)
  PROVE  LanesInv'
<1> DEFINE c == Counted
<1>0. LanesTypeOK
  BY DEF LanesInv
<1>1. c \in Counts /\ c.running = Mine /\ (c.over <=> Left > 0)
  <2>1. Claimable \in Nat
    BY <1>0 DEF Claimable, LanesTypeOK, Lane
  <2>2. Mine \in Nat /\ (Left > 0) \in BOOLEAN
    BY <1>0, MineCounts
  <2>3. Counted \in Counts
    BY <2>1, <2>2 DEF Counted, Counts
  <2>4. Counted.running = Mine /\ Counted.over = (Left > 0)
    BY DEF Counted
  <2> QED BY <2>2, <2>3, <2>4
<1>2. /\ counting' = [counting EXCEPT ![who] = c] /\ Publishes(who)
      /\ UNCHANGED <<shut, worker, hand, waiting, left, held, unpublished, overLeft>>
      /\ \A p \in Publishers : counting[p] = None
  BY DEF Count
<1> HIDE DEF c
<1>3. LanesTypeOK'
  BY <1>1, <1>2 DEF LanesInv, LanesTypeOK
<1>4. counting'[who] = c /\ \A q \in Publishers \ {who} : counting'[q] = None
  BY <1>2 DEF LanesInv, LanesTypeOK
<1>5. OneCounts'
  BY <1>2, <1>4 DEF OneCounts, Publishes
<1>6. CountsRuns'
  BY <1>0, <1>1, <1>2, <1>4, MineCounts DEF CountsRuns
<1>7. CountsTold'
  <2> SUFFICES ASSUME Mine > 0, ~(Left > 0) PROVE \E w \in Workers : Tells(w, who)'
    BY <1>1, <1>4 DEF CountsTold
  <2>1. PICK w \in Workers : worker[w] \in {"claimed", "running"}
    BY <1>0, MineCounts
  <2>2. w = who => worker[w] = "claimed"
    BY <1>2, <2>1 DEF Publishes
  <2> QED BY <1>2, <2>1, <2>2 DEF Tells
<1>8. HeldForSome' /\ KeptAwake'
  BY <1>2 DEF LanesInv, HeldForSome, KeptAwake
<1> QED BY <1>3, <1>5, <1>6, <1>7, <1>8 DEF LanesInv

LEMMA PublishKeeps ==
  ASSUME LanesInv, NEW who \in Publishers, Publish(who)
  PROVE  LanesInv'
<1>1. /\ counting[who] # None /\ counting' = [counting EXCEPT ![who] = None]
      /\ UNCHANGED <<shut, waiting, left>> /\ LanesTypeOK
      /\ \/ /\ held' = Holds(counting[who].running, counting[who].queued)
            /\ overLeft' = counting[who].over /\ unpublished' = FALSE
         \/ unpublished' = TRUE /\ UNCHANGED <<held, overLeft>>
  BY DEF Publish, Published, LanesInv
<1>2. /\ Publishes(who) /\ counting[who] \in Counts
      /\ \A q \in Publishers : counting'[q] = None
  BY <1>1 DEF LanesInv, OneCounts, LanesTypeOK
<1>3. /\ worker' \in [Workers -> {"idle", "gated", "claimed", "running", "displaced", "closed"}]
      /\ \A w \in Workers :
           worker'[w] = IF w # who THEN worker[w]
                        ELSE IF worker[w] = "claimed" THEN "running" ELSE "idle"
  <2>1. CASE who \in Workers
    BY <1>1, <2>1 DEF Publish, Published, LanesTypeOK
  <2>2. CASE who \notin Workers
    BY <1>1, <2>2 DEF Publish, Published, LanesTypeOK
  <2> QED BY <2>1, <2>2
<1>4. hand' \in [Callers -> {"rest", "publish"}]
  BY <1>1 DEF Publish, Published, LanesTypeOK, Publishers
<1>5. held' \in BOOLEAN /\ unpublished' \in BOOLEAN /\ overLeft' \in BOOLEAN
  BY <1>1, <1>2 DEF Holds, LanesTypeOK, Counts
<1>6. LanesTypeOK'
  <2>1. counting' \in [Publishers -> Counts \cup {None}]
    BY <1>1 DEF LanesTypeOK
  <2> QED BY <1>1, <1>3, <1>4, <1>5, <2>1 DEF LanesTypeOK
<1>7. OneCounts' /\ CountsRuns' /\ CountsTold'
  BY <1>2 DEF OneCounts, CountsRuns, CountsTold
<1>8. HeldForSome'
  <2> SUFFICES ASSUME held', shut, ~unpublished', ~overLeft'
               PROVE  \E w \in Workers :
                        worker'[w] \in {"claimed", "running", "displaced", "closed"}
    BY <1>1 DEF HeldForSome
  <2>1. counting[who].running > 0 /\ ~counting[who].over
    BY <1>1 DEF Holds
  <2>2. PICK w \in Workers : Tells(w, who)
    BY <1>1, <2>1 DEF LanesInv, CountsTold
  <2> QED BY <1>3, <2>2 DEF Tells
<1>9. KeptAwake'
  <2> SUFFICES ASSUME NEW w \in Workers, worker'[w] = "running", ~unpublished'
               PROVE  held'
    BY DEF KeptAwake
  <2>1. counting[who].running > 0
    BY <1>1, <1>3 DEF LanesInv, CountsRuns
  <2> QED BY <1>1, <2>1 DEF Holds
<1> QED BY <1>6, <1>7, <1>8, <1>9 DEF LanesInv

\* A step that neither counts nor publishes, and starts nothing: a worker that publishes of
\* itself goes on to, and a hand as well.
LEMMA QuietKeeps ==
  ASSUME LanesInv, UNCHANGED <<counting, held, unpublished, overLeft>>, LanesTypeOK',
         \A w \in Workers :
           \/ worker'[w] = worker[w]
           \/ worker[w] \in {"idle", "gated"} /\ worker'[w] \in {"idle", "gated", "claimed"}
           \/ worker[w] \in {"running", "displaced"} /\ worker'[w] \in {"displaced", "closed"},
         \A h \in Callers : hand[h] = "publish" => hand'[h] = "publish",
         shut' # shut => \E h \in Callers : hand'[h] = "publish"
  PROVE  LanesInv'
<1>1. ASSUME NEW p \in Publishers, counting[p] # None
      PROVE  Publishes(p)' /\ (p \in Workers => worker'[p] = worker[p])
  <2>1. Publishes(p)
    BY <1>1 DEF LanesInv, OneCounts
  <2>2. p \in Workers => worker[p] \in {"claimed", "closed"} /\ worker'[p] = worker[p]
    BY <2>1 DEF Publishes
  <2>3. p \notin Workers => p \in Callers
    BY DEF Publishers
  <2> QED BY <2>1, <2>2, <2>3 DEF Publishes
<1>2. \A w \in Workers : worker'[w] = "running" => worker[w] = "running"
  OBVIOUS
<1>3. \A w \in Workers : worker[w] \in {"claimed", "running", "displaced", "closed"} =>
        worker'[w] \in {"claimed", "running", "displaced", "closed"}
  OBVIOUS
<1>4. OneCounts'
  BY <1>1 DEF LanesInv, OneCounts
<1>5. CountsRuns'
  BY <1>1, <1>2 DEF LanesInv, CountsRuns
<1>6. CountsTold'
  <2> SUFFICES ASSUME NEW p \in Publishers, counting[p] # None, counting[p].running > 0,
                      ~counting[p].over
               PROVE  \E w \in Workers : Tells(w, p)'
    BY DEF CountsTold
  <2>1. PICK w \in Workers : Tells(w, p)
    BY DEF LanesInv, CountsTold
  <2> QED BY <1>1, <1>3, <2>1 DEF Tells
<1>7. HeldForSome'
  BY <1>3 DEF LanesInv, HeldForSome
<1>8. KeptAwake'
  BY <1>2 DEF LanesInv, KeptAwake
<1> QED BY <1>4, <1>5, <1>6, <1>7, <1>8 DEF LanesInv

LEMMA LanesKept == LanesInv /\ [LanesNext]_lanesVars => LanesInv'
<1> SUFFICES ASSUME LanesInv, [LanesNext]_lanesVars PROVE LanesInv'
  OBVIOUS
<1>0. LanesTypeOK
  BY DEF LanesInv
<1>1. ASSUME NEW w \in Workers, PassGate(w) PROVE LanesInv'
  <2>1. LanesTypeOK'
    BY <1>0, <1>1 DEF PassGate, LanesTypeOK
  <2> QED BY <1>0, <1>1, <2>1, QuietKeeps DEF PassGate, LanesTypeOK
<1>2. ASSUME NEW w \in Workers, Claim(w) PROVE LanesInv'
  <2>0. w.lane \in Lane
    BY DEF Workers, Lane
  <2>1. LanesTypeOK'
    BY <1>0, <1>2, <2>0 DEF Claim, LanesTypeOK
  <2> QED BY <1>0, <1>2, <2>1, QuietKeeps DEF Claim, LanesTypeOK
<1>8. ASSUME NEW w \in Workers, Displace(w) PROVE LanesInv'
  <2>1. LanesTypeOK'
    BY <1>0, <1>8 DEF Displace, LanesTypeOK
  <2> QED BY <1>0, <1>8, <2>1, QuietKeeps DEF Displace, LanesTypeOK
<1>3. ASSUME NEW w \in Workers, Close(w) PROVE LanesInv'
  <2>0. w.lane \in Lane
    BY DEF Workers, Lane
  <2>1. LanesTypeOK'
    BY <1>0, <1>3, <2>0 DEF Close, LanesTypeOK
  <2> QED BY <1>0, <1>3, <2>1, QuietKeeps DEF Close, LanesTypeOK
<1>4. ASSUME NEW h \in Hands, Orders(h) PROVE LanesInv'
  <2>1. LanesTypeOK'
    BY <1>0, <1>4 DEF Orders, PauseLanes, ResumeLanes, SetCap, Nudge, LanesTypeOK
  <2>2. /\ UNCHANGED <<counting, held, unpublished, overLeft, worker>>
        /\ hand' = [hand EXCEPT ![h] = "publish"]
    BY <1>4 DEF Orders, PauseLanes, ResumeLanes, SetCap, Nudge
  <2>3. /\ h \in Callers /\ hand'[h] = "publish"
        /\ \A g \in Callers : hand[g] = "publish" => hand'[g] = "publish"
    BY <1>0, <2>2 DEF LanesTypeOK, Callers
  <2> QED BY <2>1, <2>2, <2>3, QuietKeeps
<1>5. ASSUME NEW l \in Lane, QueueMoves(l) \/ LeftMoves(l) PROVE LanesInv'
  <2>1. LanesTypeOK'
    BY <1>0, <1>5 DEF QueueMoves, LeftMoves, LanesTypeOK
  <2> QED BY <1>5, <2>1, QuietKeeps DEF QueueMoves, LeftMoves
<1>6. ASSUME NEW p \in Publishers, Count(p) \/ Publish(p) PROVE LanesInv'
  BY <1>6, CountKeeps, PublishKeeps
<1>7. CASE UNCHANGED lanesVars
  BY <1>0, <1>7, QuietKeeps DEF lanesVars, LanesTypeOK
<1> QED BY <1>1, <1>2, <1>3, <1>4, <1>5, <1>6, <1>7, <1>8
        DEF LanesNext, WorkerMoves, HandPublishes, Publishers

\* While a child trains a row of this worker the machine is held awake, and a paused pool
\* with nothing left to do lets it sleep unless the last count found rows that none of its
\* workers runs, for any width, any hands, any queues and any rows a crashed life left.
THEOREM AwakeWhileTraining == LanesSpec => []AwakeFollows
<1>1. LanesInv => AwakeFollows
  BY DEF LanesInv, HeldForSome, AwakeFollows, PausedSleeps
<1> QED BY <1>1, LanesBegin, LanesKept, PTL DEF LanesSpec

-----------------------------------------------------------------------------
(* The cap that is kept, and the cap that is asked for.                    *)

Places == {"rest", "apply", "read", "save", "consume"}
Taker == [at : Places, wanted : AskedCaps \cup {None}, read : AskedCaps \cup {None}]

CapTypeOK ==
  /\ asking \in AskedCaps \cup {None}
  /\ liveCap \in AskedCaps /\ keptCap \in AskedCaps
  /\ taker \in [Takers -> Taker]
  /\ meddled \in BOOLEAN /\ unsaved \in BOOLEAN /\ overtaken \subseteq Takers

\* The menu asks the library nothing; a beat that applied its ask holds the pool's cap,
\* unless somebody changed that under it.
TakerKnows ==
  /\ taker["menu"].at \in {"rest", "read", "save"}
  /\ \A t \in Takers \ {"menu"} :
       /\ taker[t].at # "rest" => taker[t].wanted # None
       /\ taker[t].at \in {"read", "save", "consume"} => taker[t].wanted = liveCap \/ meddled

\* Who is about to write has read the pool's cap, or the pool has left it since.
WriterKnows ==
  \A t \in Takers :
    taker[t].at = "save" =>
      taker[t].read \in AskedCaps /\ (taker[t].read = liveCap \/ t \in overtaken)

CapInv == CapTypeOK /\ TakerKnows /\ WriterKnows /\ KeptIsLive

-----------------------------------------------------------------------------
LEMMA CapBegins == CapInit => CapInv
<1> SUFFICES ASSUME CapInit PROVE CapInv
  OBVIOUS
<1>1. CapTypeOK
  BY DEF CapInit, CapTypeOK, Untaken, Taker, Places
<1>2. TakerKnows /\ WriterKnows /\ KeptIsLive
  BY DEF CapInit, TakerKnows, WriterKnows, KeptIsLive, Untaken, Takers
<1> QED BY <1>1, <1>2 DEF CapInv

LEMMA UntakenIsTaker == Untaken \in Taker /\ Untaken.at = "rest"
BY DEF Untaken, Taker, Places

\* What a goroutine's own step does to the others: nothing.
LEMMA TakerMoved ==
  ASSUME CapTypeOK, NEW t \in Takers, NEW to \in Places, Moves(t, to)
  PROVE  /\ taker' \in [Takers -> Taker]
         /\ taker'[t].at = to /\ taker'[t].wanted = taker[t].wanted
         /\ \A o \in Takers \ {t} : taker'[o] = taker[o]
<1>1. taker[t] \in Taker
  BY DEF CapTypeOK
<1>2. [taker[t] EXCEPT !.at = to] \in Taker
  BY <1>1 DEF Taker
<1>3. taker' = [taker EXCEPT ![t] = [taker[t] EXCEPT !.at = to]]
  BY DEF Moves
<1> QED BY <1>1, <1>2, <1>3 DEF CapTypeOK, Taker

\* A cap that changes overtakes whoever is about to write another.
LEMMA CapBecomes ==
  ASSUME CapInv, NEW t \in Takers, taker[t].at \in {"rest", "apply"},
         NEW n \in AskedCaps, Becomes(n), NEW to \in Places \ {"save"}, Moves(t, to)
  PROVE  overtaken' \subseteq Takers /\ WriterKnows'
<1>1. /\ overtaken' = overtaken \cup {o \in Takers : n # liveCap /\ At(o, "save")}
      /\ liveCap' = n
  BY DEF Becomes
<1>2. overtaken' \subseteq Takers
  BY <1>1 DEF CapInv, CapTypeOK
<1>3. ASSUME NEW o \in Takers, taker'[o].at = "save"
      PROVE  taker'[o].read \in AskedCaps /\ (taker'[o].read = liveCap' \/ o \in overtaken')
  <2>1. o # t /\ taker'[o] = taker[o]
    BY <1>3, TakerMoved DEF CapInv
  <2>2. taker[o].read \in AskedCaps /\ (taker[o].read = liveCap \/ o \in overtaken)
    BY <1>3, <2>1 DEF CapInv, WriterKnows
  <2> QED BY <1>1, <1>3, <2>1, <2>2 DEF At
<1> QED BY <1>2, <1>3 DEF WriterKnows

LEMMA TakeKeeps ==
  ASSUME CapInv, NEW t \in Takers, TakeAsk(t)
  PROVE  CapInv'
<1>1. [at |-> "apply", wanted |-> asking, read |-> None] \in Taker
  BY DEF CapInv, CapTypeOK, Taker, Places
<1>2. taker' \in [Takers -> Taker]
  BY <1>1 DEF TakeAsk, CapInv, CapTypeOK
<1> QED BY <1>1, <1>2
        DEF TakeAsk, CapInv, CapTypeOK, TakerKnows, WriterKnows, KeptIsLive, At, Takers

LEMMA ApplyKeeps ==
  ASSUME CapInv, NEW t \in Takers, ApplyAsk(t)
  PROVE  CapInv'
<1>1. t # "menu" /\ taker[t].wanted \in AskedCaps /\ taker[t].at = "apply"
  BY DEF ApplyAsk, CapInv, TakerKnows, CapTypeOK, At, Taker, Takers
<1> DEFINE to == IF taker[t].wanted = liveCap THEN "consume" ELSE "read"
<1>2. /\ to \in Places \ {"save"} /\ Moves(t, to) /\ Becomes(taker[t].wanted)
      /\ meddled' = OtherHolds(t) /\ UNCHANGED <<asking, keptCap, unsaved>>
  BY DEF ApplyAsk, Places
<1> HIDE DEF to
<1>3. overtaken' \subseteq Takers /\ WriterKnows'
  BY <1>1, <1>2, CapBecomes
<1>4. /\ taker' \in [Takers -> Taker] /\ taker'[t].at = to
      /\ taker'[t].wanted = taker[t].wanted /\ \A o \in Takers \ {t} : taker'[o] = taker[o]
  BY <1>2, TakerMoved DEF CapInv
<1>5. liveCap' = taker[t].wanted /\ meddled' \in BOOLEAN
  BY <1>2 DEF Becomes, OtherHolds
<1>6. CapTypeOK'
  BY <1>1, <1>2, <1>3, <1>4, <1>5 DEF CapInv, CapTypeOK
<1>7. TakerKnows'
  <2>1. taker'["menu"].at \in {"rest", "read", "save"}
    BY <1>1, <1>4 DEF CapInv, TakerKnows, Takers
  <2>2. ASSUME NEW o \in Takers \ {"menu"}
        PROVE  /\ taker'[o].at # "rest" => taker'[o].wanted # None
               /\ taker'[o].at \in {"read", "save", "consume"} =>
                    taker'[o].wanted = liveCap' \/ meddled'
    <3>1. CASE o = t
      BY <1>1, <1>4, <1>5, <3>1, TroubleAssumption, CapAskAssumption
    <3>2. CASE o # t
      BY <1>2, <1>4, <3>2 DEF OtherHolds, CapInv, TakerKnows
    <3> QED BY <3>1, <3>2
  <2> QED BY <2>1, <2>2 DEF TakerKnows
<1>8. KeptIsLive'
  <2>1. CASE taker[t].wanted = liveCap
    BY <1>1, <1>2, <1>4, <1>5, <2>1 DEF CapInv, KeptIsLive
  <2>2. CASE taker[t].wanted # liveCap
    BY <1>4, <2>2 DEF KeptIsLive, to
  <2> QED BY <2>1, <2>2
<1> QED BY <1>3, <1>6, <1>7, <1>8 DEF CapInv

LEMMA HandKeeps ==
  ASSUME CapInv, CapByHand
  PROVE  CapInv'
<1>1. PICK n \in AskedCaps : Becomes(n)
  BY DEF CapByHand
<1>2. /\ taker["menu"].at = "rest" /\ "menu" \in Takers /\ Moves("menu", "read")
      /\ meddled' /\ UNCHANGED <<asking, keptCap, unsaved>> /\ "read" \in Places \ {"save"}
  BY DEF CapByHand, At, Takers, Places
<1>3. overtaken' \subseteq Takers /\ WriterKnows'
  BY <1>1, <1>2, CapBecomes
<1>4. /\ taker' \in [Takers -> Taker] /\ taker'["menu"].at = "read"
      /\ \A o \in Takers \ {"menu"} : taker'[o] = taker[o]
  BY <1>2, TakerMoved DEF CapInv
<1>5. liveCap' = n
  BY <1>1 DEF Becomes
<1>6. meddled' \in BOOLEAN
  BY DEF CapByHand
<1>7. CapTypeOK'
  BY <1>2, <1>3, <1>4, <1>5, <1>6 DEF CapInv, CapTypeOK
<1>8. TakerKnows' /\ KeptIsLive'
  BY <1>2, <1>4 DEF CapInv, TakerKnows, KeptIsLive
<1> QED BY <1>3, <1>7, <1>8 DEF CapInv

LEMMA ReadKeeps ==
  ASSUME CapInv, NEW t \in Takers, ReadCap(t)
  PROVE  CapInv'
<1> DEFINE r == [taker[t] EXCEPT !.at = "save", !.read = liveCap]
<1>1. /\ taker[t] \in Taker /\ taker[t].at = "read" /\ liveCap \in AskedCaps
      /\ UNCHANGED <<asking, liveCap, keptCap, meddled, overtaken, unsaved>>
      /\ taker' = [taker EXCEPT ![t] = r]
  BY DEF ReadCap, At, CapInv, CapTypeOK
<1>2. r \in Taker /\ r.at = "save" /\ r.read = liveCap /\ r.wanted = taker[t].wanted
  BY <1>1 DEF Taker, Places
<1> HIDE DEF r
<1>3. taker' \in [Takers -> Taker] /\ taker'[t] = r /\ \A o \in Takers \ {t} : taker'[o] = taker[o]
  BY <1>1, <1>2 DEF CapInv, CapTypeOK
<1>4. CapTypeOK'
  BY <1>1, <1>3 DEF CapInv, CapTypeOK
<1>5. TakerKnows'
  BY <1>1, <1>2, <1>3 DEF CapInv, TakerKnows
<1>6. WriterKnows'
  BY <1>1, <1>2, <1>3 DEF CapInv, WriterKnows
<1>7. KeptIsLive'
  BY <1>2, <1>3 DEF KeptIsLive
<1> QED BY <1>4, <1>5, <1>6, <1>7 DEF CapInv

LEMMA SaveKeeps ==
  ASSUME CapInv, NEW t \in Takers, SaveCap(t)
  PROVE  CapInv'
<1> DEFINE r == IF t = "menu" THEN Untaken
                ELSE [at |-> "consume", wanted |-> taker[t].wanted, read |-> None]
<1>1. /\ taker[t] \in Taker /\ taker[t].at = "save" /\ overtaken' = overtaken \ {t}
      /\ UNCHANGED <<asking, liveCap, meddled>> /\ taker' = [taker EXCEPT ![t] = r]
      /\ \/ keptCap' = taker[t].read /\ unsaved' = (t \in overtaken)
         \/ unsaved' = TRUE /\ UNCHANGED keptCap
  BY DEF SaveCap, Saved, At, CapInv, CapTypeOK
<1>2. /\ r \in Taker /\ (t = "menu" => r.at = "rest")
      /\ t # "menu" => r.at = "consume" /\ r.wanted = taker[t].wanted
  BY <1>1, UntakenIsTaker DEF Taker, Places
<1> HIDE DEF r
<1>3. taker' \in [Takers -> Taker] /\ taker'[t] = r /\ \A o \in Takers \ {t} : taker'[o] = taker[o]
  BY <1>1, <1>2 DEF CapInv, CapTypeOK
<1>4. taker[t].read \in AskedCaps /\ (taker[t].read = liveCap \/ t \in overtaken)
  BY <1>1 DEF CapInv, WriterKnows
<1>5. CapTypeOK'
  <2>0. (t \in overtaken) \in BOOLEAN
    OBVIOUS
  <2>1. unsaved' \in BOOLEAN
    BY <1>1, <2>0, Zenon
  <2>2. keptCap' \in AskedCaps /\ overtaken' \subseteq Takers
    BY <1>1, <1>4 DEF CapInv, CapTypeOK
  <2> QED BY <1>1, <1>3, <2>1, <2>2 DEF CapInv, CapTypeOK
<1>6. TakerKnows'
  BY <1>1, <1>2, <1>3 DEF CapInv, TakerKnows
<1>7. WriterKnows'
  BY <1>1, <1>2, <1>3 DEF CapInv, WriterKnows
<1>8. KeptIsLive'
  BY <1>1, <1>4 DEF KeptIsLive
<1> QED BY <1>5, <1>6, <1>7, <1>8 DEF CapInv

LEMMA ConsumeKeeps ==
  ASSUME CapInv, NEW t \in Takers, ConsumeAsk(t)
  PROVE  CapInv'
<1>1. taker' \in [Takers -> Taker] /\ taker'[t] = Untaken /\ \A o \in Takers \ {t} : taker'[o] = taker[o]
  BY UntakenIsTaker DEF ConsumeAsk, CapInv, CapTypeOK
<1>2. /\ taker[t].at = "consume" /\ asking' \in AskedCaps \cup {None}
      /\ UNCHANGED <<liveCap, keptCap, meddled, overtaken, unsaved>>
  BY DEF ConsumeAsk, At, CapInv, CapTypeOK
<1>3. CapTypeOK'
  BY <1>1, <1>2 DEF CapInv, CapTypeOK
<1>4. TakerKnows'
  BY <1>1, <1>2, UntakenIsTaker DEF CapInv, TakerKnows, Takers
<1>5. WriterKnows'
  BY <1>1, <1>2, UntakenIsTaker DEF CapInv, WriterKnows
<1>6. KeptIsLive'
  BY <1>1, <1>2 DEF CapInv, KeptIsLive
<1> QED BY <1>3, <1>4, <1>5, <1>6 DEF CapInv

LEMMA RestartKeeps ==
  ASSUME CapInv, RestartWithKept
  PROVE  CapInv'
<1>1. taker' = [t \in Takers |-> Untaken] /\ taker' \in [Takers -> Taker]
  BY UntakenIsTaker DEF RestartWithKept
<1> QED BY <1>1, UntakenIsTaker
        DEF RestartWithKept, CapInv, CapTypeOK, TakerKnows, WriterKnows, KeptIsLive, Takers

LEMMA CapKept == CapInv /\ [CapNext]_capVars => CapInv'
<1> SUFFICES ASSUME CapInv, [CapNext]_capVars PROVE CapInv'
  OBVIOUS
<1>1. CASE UNCHANGED capVars
  BY <1>1 DEF capVars, CapInv, CapTypeOK, TakerKnows, WriterKnows, KeptIsLive
<1>2. CASE AskForCap
  BY <1>2 DEF AskForCap, CapInv, CapTypeOK, TakerKnows, WriterKnows, KeptIsLive
<1>3. CASE CapByHand \/ RestartWithKept
  BY <1>3, HandKeeps, RestartKeeps
<1>4. ASSUME NEW t \in Takers, TakerStep(t) PROVE CapInv'
  BY <1>4, TakeKeeps, ApplyKeeps, ReadKeeps, SaveKeeps, ConsumeKeeps DEF TakerStep
<1> QED BY <1>1, <1>2, <1>3, <1>4 DEF CapNext

LEMMA CapInvariant == CapSpec => []CapInv
<1> QED BY CapBegins, CapKept, PTL DEF CapSpec

-----------------------------------------------------------------------------
\* Whoever changed the cap between an ask and its saving, the configuration ends up with
\* the pool's (persistCap reads the pool's cap, not the ask), unless the saving that came
\* last failed or was overtaken between its read and its write.
THEOREM KeptStaysLive == CapSpec => []KeptIsLive
<1>1. CapInv => KeptIsLive
  BY DEF CapInv
<1> QED BY <1>1, CapInvariant, PTL

\* ConsumeCapWanted clears no ask but the one the pool runs by, for two goroutines that
\* beat and a hand beside them.
THEOREM AsksAreTaken == CapSpec => CapAskIsTaken
<1> DEFINE Taken == asking # None /\ asking' = None => liveCap = asking \/ meddled
<1>1. CapInv /\ [CapNext]_capVars => [Taken]_capVars
  <2> SUFFICES ASSUME CapInv, CapNext PROVE Taken
    OBVIOUS
  <2>1. CASE AskForCap
    BY <2>1, TroubleAssumption, CapAskAssumption DEF AskForCap
  <2>2. CASE CapByHand \/ RestartWithKept
    BY <2>2 DEF CapByHand, RestartWithKept
  <2>3. ASSUME NEW t \in Takers, TakeAsk(t) \/ ApplyAsk(t) \/ ReadCap(t) \/ SaveCap(t) PROVE Taken
    BY <2>3 DEF TakeAsk, ApplyAsk, ReadCap, SaveCap
  <2>4. ASSUME NEW t \in Takers, ConsumeAsk(t) PROVE Taken
    BY <2>4 DEF ConsumeAsk, CapInv, TakerKnows, At
  <2> QED BY <2>1, <2>2, <2>3, <2>4 DEF CapNext, TakerStep
<1> QED BY <1>1, CapInvariant, PTL DEF CapSpec, CapAskIsTaken
=============================================================================
