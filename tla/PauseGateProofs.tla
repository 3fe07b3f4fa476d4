---------------------------- MODULE PauseGateProofs ----------------------------
(***************************************************************************)
(* Proofs about PauseGate, for any hands, workers, rows and budget.        *)
(*                                                                         *)
(* A call is the accesses it has still to make, so that what a hand is     *)
(* going to do is in its state: Ordered says which access comes after      *)
(* which, and every argument about two goroutines is one about the head of *)
(* that sequence and what is behind it.                                    *)
(***************************************************************************)
EXTENDS PauseGate, SequenceTheorems, TLAPS

\* The accesses of a pause, and of a resume.
Pausing == {"gate", "write", "rename", "arm", "snapshot", "kill"}
Resuming == {"disarm", "open", "forget"}

\* Which access comes after which.
Pair(a, b) ==
  \/ a = "gate" /\ b = "write"
  \/ a = "write" /\ b = "rename"
  \/ a = "rename" /\ b = "arm"
  \/ a = "arm" /\ b = "snapshot"
  \/ a = "snapshot" /\ b = "kill"
  \/ a = "disarm" /\ b = "open"
  \/ a = "open" /\ b = "forget"
  \/ a \in {"rename", "kill", "forget"} /\ b = "consume"

\* What a call has still to do.
Ordered(order, s) ==
  /\ \A i \in 1..Len(s) :
       /\ i < Len(s) => Pair(s[i], s[i + 1])
       /\ i = Len(s) => s[i] \in {"rename", "kill", "forget", "consume"}
       /\ s[i] \in Pausing => order # "resume"
       /\ s[i] \in Resuming => order = "resume"

Calls == [order : Orders \cup {"none"}, todo : Seq(Accesses),
          prey : SUBSET Workers, again : BOOLEAN]
Minders == [at : Places, job : Jobs \cup {None}, killed : BOOLEAN]

\* TypeOK in three parts.
TypedFlags ==
  /\ {paused, pauseKill, pauseFile, pauseTmp, served} \subseteq BOOLEAN
  /\ wanted \in Orders \cup {"none"}
  /\ faults \in 0..MaxFaults
TypedCalls == call \in [Hands -> Calls]
TypedPool ==
  /\ worker \in [Workers -> Minders]
  /\ \A w \in Workers : worker[w].job = None <=> worker[w].at \in {"idle", "open"}
  /\ procs \in [Jobs -> Workers \cup {None}]
  /\ job \in [Jobs -> Rows]

\* Every call is in the middle of its program.
CallsOrdered == \A h \in Hands : Ordered(call[h].order, call[h].todo)

CInv == TypedCalls /\ CallsOrdered
GInv == TypeOK /\ CallsOrdered

\* A worker between its claim and its return has its row, for all that nobody but cron
\* takes a row from a run...
Owns(w) ==
  worker[w].at \notin {"idle", "open"} =>
    /\ worker[w].job \in Jobs
    /\ job[worker[w].job].state = "running"
    /\ job[worker[w].job].holder = w

\* ...and its entry, from the registration on.
Enters(w) ==
  worker[w].at \in {"registered", "running", "reaping"} => procs[worker[w].job] = w

Held == \A w \in Workers : Owns(w) /\ Enters(w)

\* A hand that still seeks a worker: the entries are still to be looked up, or it was
\* among them.
Seeks(h, w) == At(h, "snapshot") \/ (At(h, "kill") /\ w \in call[h].prey)

\* A child that has its entry and runs on under a raised flag is on the way of somebody's
\* "pause now".
Sought(w) ==
  pauseKill /\ worker[w].at = "running" /\ procs[worker[w].job] = w =>
    worker[w].killed \/ \E h \in Hands : Seeks(h, w)

AllSought == \A w \in Workers : Sought(w)

\* With one hand: what the two flags may be at each access of its call...
Flags ==
  /\ pauseKill => paused
  /\ At(Beat, "open") => ~pauseKill
  /\ \A access \in Pausing \ {"gate"} : At(Beat, access) => paused
  /\ At(Beat, "forget") => ~paused
  /\ At(Beat, "consume") /\ call[Beat].order = "resume" => ~paused

\* ...and the file, if the file system answers...
Filed ==
  /\ paused /\ ~pauseFile => At(Beat, "write") \/ At(Beat, "rename")
  /\ At(Beat, "rename") => pauseTmp
  /\ At(Beat, "consume") /\ call[Beat].order = "resume" => ~pauseFile
  /\ served /\ wanted = "resume" => ~pauseFile

\* ...and what an order that was carried out before can still do.
Again ==
  /\ served /\ wanted = "resume" => ~paused
  /\ served /\ ~HandFree(Beat) => call[Beat].order = wanted /\ call[Beat].again
  /\ ~HandFree(Beat) /\ call[Beat].order = "resume" /\ call[Beat].again => ~paused

\* A launch takes the gate from the file.  What a call did to the gate lasts if the file
\* always follows, or if there is no launch.
Lasting == "ioerror" \notin Faults \/ "restart" \notin Faults

FlagInv == Flags /\ ("ioerror" \notin Faults => Filed) /\ (Lasting => Again)

\* Without a failing statement and a launch no order is met twice.
Once == ~served /\ \A h \in Hands : ~call[h].again

-----------------------------------------------------------------------------
(* Sequences of accesses.                                                  *)

\* The programs, access by access, with the beat's last one behind them or without.
LEMMA Listed ==
  ASSUME NEW order, NEW s, NEW n \in 1..7, Len(s) = n,
         \/ order = "after" /\ n \in {3, 4}
            /\ s[1] = "gate" /\ s[2] = "write" /\ s[3] = "rename"
         \/ order = "now" /\ n \in {6, 7}
            /\ s[1] = "gate" /\ s[2] = "write" /\ s[3] = "rename"
            /\ s[4] = "arm" /\ s[5] = "snapshot" /\ s[6] = "kill"
         \/ order = "resume" /\ n \in {3, 4}
            /\ s[1] = "disarm" /\ s[2] = "open" /\ s[3] = "forget",
         n \in {4, 7} => s[n] = "consume"
  PROVE  Ordered(order, s)
<1>1. ASSUME NEW i \in 1..n, order = "after"
      PROVE  /\ i < n => Pair(s[i], s[i + 1])
             /\ i = n => s[i] \in {"rename", "kill", "forget", "consume"}
             /\ s[i] \notin Resuming
  <2>1. s[1] = "gate" /\ s[2] = "write" /\ s[3] = "rename" /\ n \in {3, 4}
    BY <1>1
  <2>2. i = 1 \/ i = 2 \/ i = 3 \/ (i = 4 /\ n = 4)
    BY <1>1, <2>1
  <2>3. n = 4 => s[4] = "consume"
    BY <1>1
  <2>4. CASE i = 1
    BY <1>1, <2>1, <2>3, <2>4 DEF Pair, Resuming
  <2>5. CASE i = 2
    BY <1>1, <2>1, <2>3, <2>5 DEF Pair, Resuming
  <2>6. CASE i = 3
    BY <1>1, <2>1, <2>3, <2>6 DEF Pair, Resuming
  <2>7. CASE i = 4 /\ n = 4
    BY <1>1, <2>1, <2>3, <2>7 DEF Pair, Resuming
  <2> QED BY <2>2, <2>4, <2>5, <2>6, <2>7
<1>2. ASSUME NEW i \in 1..n, order = "resume"
      PROVE  /\ i < n => Pair(s[i], s[i + 1])
             /\ i = n => s[i] \in {"rename", "kill", "forget", "consume"}
             /\ s[i] \notin Pausing
  <2>1. s[1] = "disarm" /\ s[2] = "open" /\ s[3] = "forget" /\ n \in {3, 4}
    BY <1>2
  <2>2. i = 1 \/ i = 2 \/ i = 3 \/ (i = 4 /\ n = 4)
    BY <1>2, <2>1
  <2>3. n = 4 => s[4] = "consume"
    BY <1>2
  <2> QED BY <1>2, <2>1, <2>2, <2>3 DEF Pair, Pausing
<1>3. ASSUME NEW i \in 1..n, order = "now"
      PROVE  /\ i < n => Pair(s[i], s[i + 1])
             /\ i = n => s[i] \in {"rename", "kill", "forget", "consume"}
             /\ s[i] \notin Resuming
  <2>1. /\ s[1] = "gate" /\ s[2] = "write" /\ s[3] = "rename" /\ n \in {6, 7}
        /\ s[4] = "arm" /\ s[5] = "snapshot" /\ s[6] = "kill"
    BY <1>3
  <2>2. i = 1 \/ i = 2 \/ i = 3 \/ i = 4 \/ i = 5 \/ i = 6 \/ (i = 7 /\ n = 7)
    BY <1>3, <2>1
  <2>3. n = 7 => s[7] = "consume"
    BY <1>3
  <2>4. CASE i = 1
    BY <1>3, <2>1, <2>3, <2>4 DEF Pair, Resuming
  <2>5. CASE i = 2
    BY <1>3, <2>1, <2>3, <2>5 DEF Pair, Resuming
  <2>6. CASE i = 3
    BY <1>3, <2>1, <2>3, <2>6 DEF Pair, Resuming
  <2>7. CASE i = 4
    BY <1>3, <2>1, <2>3, <2>7 DEF Pair, Resuming
  <2>8. CASE i = 5
    BY <1>3, <2>1, <2>3, <2>8 DEF Pair, Resuming
  <2>9. CASE i = 6
    BY <1>3, <2>1, <2>3, <2>9 DEF Pair, Resuming
  <2>10. CASE i = 7 /\ n = 7
    BY <1>3, <2>1, <2>3, <2>10 DEF Pair, Resuming
  <2> QED BY <2>2, <2>4, <2>5, <2>6, <2>7, <2>8, <2>9, <2>10
<1>4. order \in {"after", "now", "resume"}
  OBVIOUS
<1> QED BY <1>1, <1>2, <1>3, <1>4 DEF Ordered

\* What a call begins with.
Begins(order, s) ==
  /\ s \in Seq(Accesses) /\ s # <<>> /\ Ordered(order, s)
  /\ Head(s) \in {"gate", "disarm"}

\* A call begins with its whole program.
LEMMA ProgramOrdered ==
  ASSUME NEW order \in Orders
  PROVE  Begins(order, Program(order))
<1> DEFINE s == Program(order)
<1>1. CASE order = "after"
  <2>1. s = <<"gate", "write", "rename">>
    BY <1>1 DEF Program
  <2>2. /\ s \in Seq(Accesses) /\ s # <<>> /\ Len(s) = 3 /\ Head(s) = "gate"
        /\ s[1] = "gate" /\ s[2] = "write" /\ s[3] = "rename"
    BY <2>1 DEF Accesses
  <2> HIDE DEF s
  <2>3. Ordered(order, s)
    BY <1>1, <2>2, Listed
  <2> QED BY <2>2, <2>3 DEF Begins, s
<1>2. CASE order = "now"
  <2>1. s = <<"gate", "write", "rename", "arm", "snapshot", "kill">>
    BY <1>2 DEF Program
  <2>2. /\ s \in Seq(Accesses) /\ s # <<>> /\ Len(s) = 6 /\ Head(s) = "gate"
        /\ s[1] = "gate" /\ s[2] = "write" /\ s[3] = "rename"
        /\ s[4] = "arm" /\ s[5] = "snapshot" /\ s[6] = "kill"
    BY <2>1 DEF Accesses
  <2> HIDE DEF s
  <2>3. Ordered(order, s)
    BY <1>2, <2>2, Listed
  <2> QED BY <2>2, <2>3 DEF Begins, s
<1>3. CASE order = "resume"
  <2>1. s = <<"disarm", "open", "forget">>
    BY <1>3 DEF Program
  <2>2. /\ s \in Seq(Accesses) /\ s # <<>> /\ Len(s) = 3 /\ Head(s) = "disarm"
        /\ s[1] = "disarm" /\ s[2] = "open" /\ s[3] = "forget"
    BY <2>1 DEF Accesses
  <2> HIDE DEF s
  <2>3. Ordered(order, s)
    BY <1>3, <2>2, Listed
  <2> QED BY <2>2, <2>3 DEF Begins, s
<1> QED BY <1>1, <1>2, <1>3 DEF Orders

\* The heartbeat clears the ask at the end.
LEMMA ConsumeOrdered ==
  ASSUME NEW order \in Orders
  PROVE  Begins(order, Program(order) \o <<"consume">>)
<1> DEFINE p == Program(order)
           s == p \o <<"consume">>
<1>1. /\ p \in Seq(Accesses) /\ <<"consume">> \in Seq(Accesses)
      /\ Len(<<"consume">>) = 1 /\ <<"consume">>[1] = "consume"
  BY ProgramOrdered DEF Begins, Accesses
<1>2. /\ s \in Seq(Accesses) /\ Len(s) = Len(p) + 1
      /\ \A i \in 1..Len(p) + 1 : s[i] = IF i <= Len(p) THEN p[i] ELSE <<"consume">>[i - Len(p)]
  BY <1>1, ConcatProperties
<1>6. /\ \A i \in 1..Len(p) : s[i] = p[i]
      /\ s[Len(p) + 1] = "consume" /\ s # <<>> /\ Head(s) = s[1]
  <2> HIDE DEF p, s
  <2>1. Len(p) \in Nat
    BY <1>1
  <2>2. \A i \in 1..Len(p) : i \in 1..Len(p) + 1 /\ i <= Len(p)
    BY <2>1
  <2>3. \A i \in 1..Len(p) : s[i] = p[i]
    BY <1>2, <2>2
  <2>4. Len(p) + 1 \in 1..Len(p) + 1 /\ ~(Len(p) + 1 <= Len(p)) /\ Len(p) + 1 - Len(p) = 1
    BY <2>1
  <2>5. s[Len(p) + 1] = "consume"
    BY <1>1, <1>2, <2>4
  <2>6. s # <<>>
    BY <1>2, <2>1
  <2> QED BY <1>2, <2>3, <2>5, <2>6
<1>3. CASE order = "after"
  <2>1. p = <<"gate", "write", "rename">>
    BY <1>3 DEF Program
  <2>2. Len(p) = 3 /\ p[1] = "gate" /\ p[2] = "write" /\ p[3] = "rename"
    BY <2>1
  <2> HIDE DEF p, s
  <2>3. /\ s # <<>> /\ Len(s) = 4 /\ Head(s) = s[1]
        /\ s[1] = "gate" /\ s[2] = "write" /\ s[3] = "rename" /\ s[4] = "consume"
    BY <1>2, <1>6, <2>2
  <2>4. Ordered(order, s)
    BY <1>3, <2>3, Listed
  <2> QED BY <1>2, <2>3, <2>4 DEF Begins, s, p
<1>4. CASE order = "now"
  <2>1. p = <<"gate", "write", "rename", "arm", "snapshot", "kill">>
    BY <1>4 DEF Program
  <2>2. /\ Len(p) = 6 /\ p[1] = "gate" /\ p[2] = "write" /\ p[3] = "rename"
        /\ p[4] = "arm" /\ p[5] = "snapshot" /\ p[6] = "kill"
    BY <2>1
  <2> HIDE DEF p, s
  <2>3. /\ s # <<>> /\ Len(s) = 7 /\ Head(s) = s[1]
        /\ s[1] = "gate" /\ s[2] = "write" /\ s[3] = "rename"
        /\ s[4] = "arm" /\ s[5] = "snapshot" /\ s[6] = "kill" /\ s[7] = "consume"
    BY <1>2, <1>6, <2>2
  <2>4. Ordered(order, s)
    BY <1>4, <2>3, Listed
  <2> QED BY <1>2, <2>3, <2>4 DEF Begins, s, p
<1>5. CASE order = "resume"
  <2>1. p = <<"disarm", "open", "forget">>
    BY <1>5 DEF Program
  <2>2. Len(p) = 3 /\ p[1] = "disarm" /\ p[2] = "open" /\ p[3] = "forget"
    BY <2>1
  <2> HIDE DEF p, s
  <2>3. /\ s # <<>> /\ Len(s) = 4 /\ Head(s) = s[1]
        /\ s[1] = "disarm" /\ s[2] = "open" /\ s[3] = "forget" /\ s[4] = "consume"
    BY <1>2, <1>6, <2>2
  <2>4. Ordered(order, s)
    BY <1>5, <2>3, Listed
  <2> QED BY <1>2, <2>3, <2>4 DEF Begins, s, p
<1> QED BY <1>3, <1>4, <1>5 DEF Orders

\* An access is made: the next one is the one that comes after it, if there is one.
LEMMA TailOrdered ==
  ASSUME NEW order, NEW s \in Seq(Accesses), s # <<>>, Ordered(order, s)
  PROVE  /\ Tail(s) \in Seq(Accesses) /\ Ordered(order, Tail(s))
         /\ Head(s) \in Accesses
         /\ Tail(s) # <<>> => Pair(Head(s), Head(Tail(s)))
         /\ Tail(s) = <<>> => Head(s) \in {"rename", "kill", "forget", "consume"}
         /\ Head(s) \in Pausing => order # "resume"
         /\ Head(s) \in Resuming => order = "resume"
<1>0. \A u \in Seq(Accesses) : u # <<>> => Len(u) \in Nat \ {0}
  BY EmptySeq
<1>1. /\ Tail(s) \in Seq(Accesses) /\ Len(Tail(s)) = Len(s) - 1 /\ Len(s) \in Nat \ {0}
      /\ \A i \in 1..Len(Tail(s)) : Tail(s)[i] = s[i + 1]
      /\ Head(s) \in Accesses
  BY <1>0, HeadTailProperties
<1>2. Head(s) = s[1]
  OBVIOUS
<1>3. Ordered(order, Tail(s))
  <2> DEFINE u == Tail(s)
  <2> HIDE DEF u
  <2>1. ASSUME NEW i \in 1..Len(u)
        PROVE  /\ i < Len(u) => Pair(u[i], u[i + 1])
               /\ i = Len(u) => u[i] \in {"rename", "kill", "forget", "consume"}
               /\ u[i] \in Pausing => order # "resume"
               /\ u[i] \in Resuming => order = "resume"
    <3>1. /\ Len(u) = Len(s) - 1 /\ Len(s) \in Nat
          /\ \A k \in 1..Len(u) : u[k] = s[k + 1]
      BY <1>1 DEF u
    <3> DEFINE k == i + 1
    <3>2. k \in 1..Len(s) /\ u[i] = s[k] /\ (i < Len(u) <=> k < Len(s)) /\ (i = Len(u) <=> k = Len(s))
      BY <3>1
    <3>3. i < Len(u) => u[k] = s[k + 1]
      BY <3>1
    <3> HIDE DEF k
    <3>4. /\ k < Len(s) => Pair(s[k], s[k + 1])
          /\ k = Len(s) => s[k] \in {"rename", "kill", "forget", "consume"}
          /\ s[k] \in Pausing => order # "resume"
          /\ s[k] \in Resuming => order = "resume"
      BY <3>2 DEF Ordered
    <3>5. i < Len(u) => Pair(u[i], u[k])
      BY <3>2, <3>3, <3>4
    <3> QED BY <3>2, <3>4, <3>5 DEF k
  <2> QED BY <2>1 DEF Ordered, u
<1>4. Tail(s) # <<>> => Pair(Head(s), Head(Tail(s)))
  <2> SUFFICES ASSUME Tail(s) # <<>> PROVE Pair(Head(s), Head(Tail(s)))
    OBVIOUS
  <2>1. Len(Tail(s)) \in Nat \ {0}
    BY <1>0, <1>1
  <2>2. Head(Tail(s)) = s[2]
    BY <1>1, <2>1
  <2>3. 1 \in 1..Len(s) /\ 1 < Len(s) /\ 1 + 1 = 2
    BY <1>1, <2>1
  <2>4. Pair(s[1], s[2])
    BY <2>3 DEF Ordered
  <2> QED BY <1>2, <2>2, <2>4
<1>5. Tail(s) = <<>> => Len(s) = 1
  BY <1>0, <1>1, SMTT(40)
<1>6. 1 \in 1..Len(s)
  BY <1>1
<1> QED BY <1>1, <1>2, <1>3, <1>4, <1>5, <1>6 DEF Ordered

-----------------------------------------------------------------------------
(* The calls.                                                              *)

LEMMA Parts == TypeOK <=> TypedFlags /\ TypedCalls /\ TypedPool
BY DEF TypeOK, TypedFlags, TypedCalls, TypedPool, Calls, Minders

LEMMA NoCallOrdered == NoCall \in Calls /\ Ordered(NoCall.order, NoCall.todo) /\ NoCall.todo = <<>>
<1>1. <<>> \in Seq(Accesses) /\ Len(<<>>) = 0
  OBVIOUS
<1>2. NoCall \in Calls
  BY <1>1 DEF NoCall, Calls
<1>3. NoCall.todo = <<>>
  BY DEF NoCall
<1>4. \A i \in 1..0 : FALSE
  OBVIOUS
<1> QED BY <1>1, <1>2, <1>3, <1>4 DEF Ordered

\* A call under way: where it is, and what is behind that.
LEMMA UnderWay ==
  ASSUME CInv, NEW h \in Hands, ~HandFree(h)
  PROVE  /\ call[h] \in Calls /\ Tail(call[h].todo) \in Seq(Accesses)
         /\ Ordered(call[h].order, Tail(call[h].todo))
         /\ Head(call[h].todo) \in Accesses
         /\ Tail(call[h].todo) # <<>> => Pair(Head(call[h].todo), Head(Tail(call[h].todo)))
         /\ Tail(call[h].todo) = <<>> =>
              Head(call[h].todo) \in {"rename", "kill", "forget", "consume"}
         /\ Head(call[h].todo) \in Pausing => call[h].order # "resume"
         /\ Head(call[h].todo) \in Resuming => call[h].order = "resume"
<1>1. /\ call[h] \in Calls /\ call[h].todo \in Seq(Accesses) /\ call[h].todo # <<>>
      /\ Ordered(call[h].order, call[h].todo)
  BY DEF CInv, TypedCalls, CallsOrdered, HandFree, Calls
<1> HIDE DEF Ordered
<1> QED BY <1>1, TailOrdered

\* One hand's call is replaced by one in the middle of its program.
LEMMA Replaced ==
  ASSUME CInv, NEW h \in Hands, NEW c \in Calls, Ordered(c.order, c.todo),
         call' = [call EXCEPT ![h] = c]
  PROVE  CInv' /\ call'[h] = c /\ \A g \in Hands \ {h} : call'[g] = call[g]
BY DEF CInv, TypedCalls, CallsOrdered

\* An access is done.
LEMMA Advanced ==
  ASSUME CInv, NEW h \in Hands, ~HandFree(h), Done(h)
  PROVE  /\ CInv' /\ \A g \in Hands \ {h} : call'[g] = call[g]
         /\ call'[h].order = call[h].order /\ call'[h].prey = call[h].prey
         /\ call'[h].again = call[h].again /\ call'[h].todo = Tail(call[h].todo)
<1> DEFINE c == [call[h] EXCEPT !.todo = Tail(@)]
<1>1. /\ call[h] \in Calls /\ Tail(call[h].todo) \in Seq(Accesses)
      /\ Ordered(call[h].order, Tail(call[h].todo))
  BY UnderWay
<1>2. /\ c \in Calls /\ c.order = call[h].order /\ c.prey = call[h].prey
      /\ c.again = call[h].again /\ c.todo = Tail(call[h].todo)
  BY <1>1 DEF Calls
<1>3. call' = [call EXCEPT ![h] = c]
  BY DEF Done
<1> HIDE DEF c
<1> QED BY <1>1, <1>2, <1>3, Replaced

\* Where a hand is after it: at what comes next.
LEMMA Follows ==
  ASSUME CInv, NEW h \in Hands, ~HandFree(h), call'[h].todo = Tail(call[h].todo), NEW b, At(h, b)'
  PROVE  Pair(Head(call[h].todo), b)
BY UnderWay DEF At, HandFree

LEMMA CallsKept == CInv /\ TypedFlags /\ TypedPool /\ [Next]_vars => CInv'
<1> SUFFICES ASSUME CInv, TypedFlags, TypedPool, [Next]_vars PROVE CInv'
  OBVIOUS
<1>1. ASSUME NEW h \in Hands, NEW order \in Orders, Click(h, order) PROVE CInv'
  <2> DEFINE c == [NoCall EXCEPT !.order = order, !.todo = Program(order)]
  <2>1. Program(order) \in Seq(Accesses) /\ Ordered(order, Program(order))
    BY ProgramOrdered DEF Begins
  <2>2. c \in Calls /\ c.order = order /\ c.todo = Program(order)
    BY <2>1 DEF NoCall, Calls
  <2>3. call' = [call EXCEPT ![h] = c]
    BY <1>1 DEF Click
  <2> HIDE DEF c
  <2> QED BY <2>1, <2>2, <2>3, Replaced
<1>2. CASE BeatReads
  <2> DEFINE s == Program(wanted) \o <<"consume">>
             c == [NoCall EXCEPT !.order = wanted, !.again = served, !.todo = s]
  <2>1. wanted \in Orders /\ served \in BOOLEAN
    BY <1>2 DEF BeatReads, TypedFlags
  <2>2. s \in Seq(Accesses) /\ Ordered(wanted, s)
    BY <2>1, ConsumeOrdered DEF Begins
  <2>3. call' = [call EXCEPT ![Beat] = c]
    BY <1>2 DEF BeatReads
  <2> HIDE DEF s
  <2>4. c \in Calls /\ c.order = wanted /\ c.todo = s
    BY <2>1, <2>2 DEF NoCall, Calls
  <2> HIDE DEF c
  <2> QED BY <2>2, <2>3, <2>4, Replaced, PauseGateAssumption
<1>3. ASSUME NEW h \in Hands, Flag(h) \/ RenamePause(h) \/ Forget(h) \/ Consume(h) PROVE CInv'
  <2>1. ~HandFree(h) /\ Done(h)
    BY <1>3 DEF Flag, RenamePause, Forget, Consume, At
  <2> QED BY <2>1, Advanced
<1>4. ASSUME NEW h \in Hands, Write(h) PROVE CInv'
  <2>1. ~HandFree(h) /\ Head(call[h].todo) = "write"
    BY <1>4 DEF Write, At
  <2>2. CASE Done(h)
    BY <2>1, <2>2, Advanced
  <2>3. CASE call' = [call EXCEPT ![h].todo = Tail(Tail(@))]
    <3> DEFINE t == Tail(call[h].todo)
               c == [call[h] EXCEPT !.todo = Tail(t)]
    <3>1. /\ call[h] \in Calls /\ t \in Seq(Accesses) /\ Ordered(call[h].order, t)
          /\ t # <<>>
      BY <2>1, UnderWay
    <3> HIDE DEF t
    <3>2. Tail(t) \in Seq(Accesses) /\ Ordered(call[h].order, Tail(t))
      BY <3>1, TailOrdered
    <3>3. c \in Calls /\ c.order = call[h].order /\ c.todo = Tail(t)
      BY <3>1, <3>2 DEF Calls
    <3>4. call' = [call EXCEPT ![h] = c]
      BY <2>3 DEF t
    <3> HIDE DEF c
    <3> QED BY <3>2, <3>3, <3>4, Replaced
  <2> QED BY <1>4, <2>2, <2>3 DEF Write
<1>5. ASSUME NEW h \in Hands, Snapshot(h) PROVE CInv'
  <2> DEFINE p == {procs[j] : j \in Jobs} \ {None}
             c == [call[h] EXCEPT !.todo = Tail(@), !.prey = p]
  <2>1. ~HandFree(h)
    BY <1>5 DEF Snapshot, At
  <2>2. /\ call[h] \in Calls /\ Tail(call[h].todo) \in Seq(Accesses)
        /\ Ordered(call[h].order, Tail(call[h].todo))
    BY <2>1, UnderWay
  <2>3. p \in SUBSET Workers
    BY DEF TypedPool
  <2>4. call' = [call EXCEPT ![h] = c]
    BY <1>5 DEF Snapshot
  <2> HIDE DEF p
  <2>5. c \in Calls /\ c.order = call[h].order /\ c.todo = Tail(call[h].todo)
    BY <2>2, <2>3 DEF Calls
  <2> HIDE DEF c
  <2> QED BY <2>2, <2>4, <2>5, Replaced
<1>6. ASSUME NEW h \in Hands, KillNext(h) PROVE CInv'
  <2>1. ~HandFree(h)
    BY <1>6 DEF KillNext, At
  <2>2. CASE Done(h)
    BY <2>1, <2>2, Advanced
  <2>3. ASSUME NEW w \in call[h].prey, call' = [call EXCEPT ![h].prey = @ \ {w}]
        PROVE  CInv'
    <3> DEFINE c == [call[h] EXCEPT !.prey = @ \ {w}]
    <3>1. call[h] \in Calls /\ Ordered(call[h].order, call[h].todo)
      BY DEF CInv, TypedCalls, CallsOrdered
    <3>2. c \in Calls /\ c.order = call[h].order /\ c.todo = call[h].todo
      BY <3>1 DEF Calls
    <3>3. call' = [call EXCEPT ![h] = c]
      BY <2>3
    <3> HIDE DEF c
    <3> QED BY <3>1, <3>2, <3>3, Replaced
  <2> QED BY <1>6, <2>2, <2>3 DEF KillNext
<1>7. ASSUME NEW w \in Workers, Reap(w) PROVE CInv'
  <2>1. call' = [g \in Hands |-> [call[g] EXCEPT !.prey = @ \ {w}]]
    BY <1>7 DEF Reap
  <2>2. ASSUME NEW g \in Hands
        PROVE  /\ call'[g] \in Calls
               /\ call'[g].order = call[g].order /\ call'[g].todo = call[g].todo
    BY <2>1, <2>2 DEF CInv, TypedCalls, Calls
  <2>3. call' \in [Hands -> Calls]
    BY <2>1, <2>2
  <2> QED BY <2>2, <2>3 DEF CInv, TypedCalls, CallsOrdered
<1>8. CASE Restart
  BY <1>8, NoCallOrdered DEF Restart, Restarted, CInv, TypedCalls, CallsOrdered
<1>9. CASE UNCHANGED call
  BY <1>9 DEF CInv, TypedCalls, CallsOrdered
<1>10. ASSUME NEW order \in Orders, Ask(order) PROVE CInv'
  BY <1>9, <1>10 DEF Ask
<1>11. ASSUME NEW w \in Workers, Worker(w) PROVE CInv'
  BY <1>7, <1>9, <1>11 DEF Worker, PassGate, Claim, Register, CheckFlag, Leave
<1>12. ASSUME NEW j \in Jobs, Mark(j) PROVE CInv'
  BY <1>9, <1>12 DEF Mark
<1>13. CASE UNCHANGED vars
  BY <1>9, <1>13 DEF vars
<1> QED BY <1>1, <1>2, <1>3, <1>4, <1>5, <1>6, <1>8, <1>10, <1>11, <1>12, <1>13
     DEF Next, Call

-----------------------------------------------------------------------------
(* Types.                                                                  *)

LEMMA FlagsKept == CInv /\ TypedFlags /\ [Next]_vars => TypedFlags'
<1> SUFFICES ASSUME CInv, TypedFlags, [Next]_vars PROVE TypedFlags'
  OBVIOUS
<1> USE DEF TypedFlags
<1>1. ASSUME NEW kind, Fault(kind) PROVE faults' \in 0..MaxFaults
  BY <1>1, TroubleAssumption DEF Fault
<1>2. ASSUME NEW h \in Hands, NEW order \in Orders, Click(h, order) PROVE TypedFlags'
  BY <1>2 DEF Click, gateVars, askVars
<1>3. ASSUME NEW order \in Orders, Ask(order) PROVE TypedFlags'
  BY <1>3 DEF Ask, gateVars
<1>4. CASE BeatReads
  BY <1>4 DEF BeatReads, gateVars, askVars
<1>5. ASSUME NEW h \in Hands, Flag(h) PROVE TypedFlags'
  BY <1>5 DEF Flag, askVars
<1>6. ASSUME NEW h \in Hands, Write(h) PROVE TypedFlags'
  BY <1>1, <1>6 DEF Write, askVars
<1>7. ASSUME NEW h \in Hands, RenamePause(h) PROVE TypedFlags'
  BY <1>1, <1>7 DEF RenamePause, askVars
<1>8. ASSUME NEW h \in Hands, Forget(h) PROVE TypedFlags'
  BY <1>1, <1>8 DEF Forget, askVars
<1>9. ASSUME NEW h \in Hands, Snapshot(h) \/ KillNext(h) PROVE TypedFlags'
  BY <1>9 DEF Snapshot, KillNext, gateVars, askVars
<1>10. served \in BOOLEAN /\ CarriedOut \in BOOLEAN
  BY DEF CarriedOut
<1>11. ASSUME NEW h \in Hands, Consume(h) PROVE TypedFlags'
  BY <1>1, <1>10, <1>11 DEF Consume, gateVars, askVars
<1>12. ASSUME NEW w \in Workers, Worker(w) PROVE TypedFlags'
  BY <1>12 DEF Worker, PassGate, Claim, Register, CheckFlag, Reap, Leave, gateVars, askVars
<1>13. ASSUME NEW j \in Jobs, Mark(j) PROVE TypedFlags'
  BY <1>1, <1>13 DEF Mark, gateVars, askVars
<1>14. CASE Restart
  BY <1>1, <1>10, <1>14 DEF Restart, Restarted
<1>15. CASE UNCHANGED vars
  BY <1>15 DEF vars, gateVars, askVars
<1> QED BY <1>2, <1>3, <1>4, <1>5, <1>6, <1>7, <1>8, <1>9, <1>11, <1>12, <1>13, <1>14, <1>15
     DEF Next, Call

LEMMA PoolKept == CInv /\ TypedPool /\ [Next]_vars => TypedPool'
<1> SUFFICES ASSUME CInv, TypedPool, [Next]_vars PROVE TypedPool'
  OBVIOUS
<1>1. CASE UNCHANGED poolVars
  BY <1>1 DEF TypedPool, poolVars
<1>2. ASSUME NEW h \in Hands, KillNext(h) PROVE TypedPool'
  <2>1. CASE UNCHANGED worker
    BY <1>1, <1>2, <2>1 DEF KillNext, poolVars
  <2>2. ASSUME NEW w \in call[h].prey, worker' = [worker EXCEPT ![w].killed = TRUE]
        PROVE  TypedPool'
    <3>1. w \in Workers
      BY DEF CInv, TypedCalls, Calls
    <3>2. UNCHANGED <<procs, job>>
      BY <1>2 DEF KillNext
    <3> QED BY <2>2, <3>1, <3>2 DEF TypedPool, Minders
  <2> QED BY <1>2, <2>1, <2>2 DEF KillNext
<1>3. ASSUME NEW w \in Workers, PassGate(w) PROVE TypedPool'
  BY <1>3 DEF PassGate, Moves, TypedPool, Minders, Places
<1>4. ASSUME NEW w \in Workers, Claim(w) PROVE TypedPool'
  <2>1. UNCHANGED procs /\ worker[w].at = "open"
    BY <1>4 DEF Claim
  <2>2. CASE Moves(w, "idle") /\ UNCHANGED job
    BY <2>1, <2>2 DEF Moves, TypedPool, Minders, Places
  <2>3. ASSUME NEW j \in Jobs,
               job' = [job EXCEPT ![j] = [state |-> "running", holder |-> w]],
               worker' = [worker EXCEPT ![w] = [@ EXCEPT !.at = "claimed", !.job = j]]
        PROVE  TypedPool'
    <3>1. j # None
      BY PauseGateAssumption
    <3>2. job' \in [Jobs -> Rows]
      BY <2>3 DEF TypedPool, Rows
    <3> QED BY <2>1, <2>3, <3>1, <3>2, ZenonT(40) DEF TypedPool, Minders, Places
  <2> QED BY <1>4, <2>2, <2>3 DEF Claim
<1>5. ASSUME NEW w \in Workers, Register(w) PROVE TypedPool'
  BY <1>5 DEF Register, Moves, TypedPool, Minders, Places
<1>6. ASSUME NEW w \in Workers, CheckFlag(w) PROVE TypedPool'
  <2>1. (worker[w].killed \/ pauseKill) \in BOOLEAN
    OBVIOUS
  <2> QED BY <1>6, <2>1 DEF CheckFlag, TypedPool, Minders, Places
<1>7. ASSUME NEW w \in Workers, Reap(w) PROVE TypedPool'
  BY <1>7 DEF Reap, Moves, TypedPool, Minders, Places
<1>8. ASSUME NEW w \in Workers, Leave(w) PROVE TypedPool'
  <2> DEFINE j == worker[w].job
  <2>1. /\ worker[w].at \in {"claimed", "reaping"}
        /\ \/ UNCHANGED job
           \/ \E to \in {"queued", "done"} : job' = [job EXCEPT ![j] = [state |-> to, holder |-> None]]
        /\ procs' = [procs EXCEPT ![j] = IF @ = w THEN None ELSE @]
        /\ worker' = [worker EXCEPT ![w] = IdleWorker]
    BY <1>8 DEF Leave, Vacate
  <2>2. job' \in [Jobs -> Rows]
    BY <2>1 DEF TypedPool, Rows
  <2>3. procs' \in [Jobs -> Workers \cup {None}]
    BY <2>1 DEF TypedPool
  <2>4. /\ worker' \in [Workers -> Minders]
        /\ \A v \in Workers : worker'[v].job = None <=> worker'[v].at \in {"idle", "open"}
    BY <2>1 DEF TypedPool, Minders, Places, IdleWorker
  <2> QED BY <2>2, <2>3, <2>4 DEF TypedPool
<1>9. ASSUME NEW j \in Jobs, Mark(j) PROVE TypedPool'
  BY <1>9 DEF Mark, TypedPool, Rows
<1>10. CASE Restart
  <2>1. /\ worker' = [w \in Workers |-> IdleWorker] /\ procs' = [j \in Jobs |-> None]
        /\ \E back \in SUBSET Jobs :
             job' = [j \in Jobs |->
                       IF job[j].holder = None THEN job[j]
                       ELSE [state |-> IF j \in back THEN "queued" ELSE job[j].state,
                             holder |-> None]]
    BY <1>10 DEF Restart, Restarted
  <2>2. job' \in [Jobs -> Rows]
    BY <2>1 DEF TypedPool, Rows
  <2> QED BY <2>1, <2>2 DEF TypedPool, Minders, Places, IdleWorker
<1>11. ASSUME NEW w \in Workers, Worker(w) PROVE TypedPool'
  BY <1>3, <1>4, <1>5, <1>6, <1>7, <1>8, <1>11 DEF Worker
<1>12. ASSUME NEW h \in Hands, Call(h) PROVE TypedPool'
  BY <1>1, <1>2, <1>12 DEF Call, Flag, Write, RenamePause, Forget, Snapshot, Consume
<1>13. \/ UNCHANGED poolVars
       \/ \E h \in Hands : Call(h)
       \/ \E w \in Workers : Worker(w)
       \/ \E j \in Jobs : Mark(j)
       \/ Restart
  BY DEF Next, Ask, Click, BeatReads, vars
<1> QED BY <1>1, <1>9, <1>10, <1>11, <1>12, <1>13

\* At the beginning.
LEMMA Beginning == Init => GInv
<1> SUFFICES ASSUME Init PROVE GInv
  OBVIOUS
<1>1. TypedFlags
  <2>1. faults \in 0..MaxFaults
    BY TroubleAssumption DEF Init
  <2>2. {paused, pauseKill, pauseFile, pauseTmp, served} \subseteq BOOLEAN
    BY Zenon DEF Init
  <2> QED BY <2>1, <2>2 DEF Init, TypedFlags
<1>2. CInv
  BY NoCallOrdered DEF Init, CInv, TypedCalls, CallsOrdered
<1>3. TypedPool
  BY DEF Init, TypedPool, Minders, Places, IdleWorker, Rows
<1> QED BY <1>1, <1>2, <1>3, Parts DEF GInv, CInv

LEMMA GKept == GInv /\ [Next]_vars => GInv'
<1> SUFFICES ASSUME GInv, [Next]_vars PROVE GInv'
  OBVIOUS
<1>1. CInv /\ TypedFlags /\ TypedPool
  BY Parts DEF GInv, CInv
<1>2. CInv' /\ TypedFlags' /\ TypedPool'
  BY <1>1, CallsKept, FlagsKept, PoolKept
<1>3. TypeOK'
  BY <1>2 DEF CInv, TypeOK, TypedFlags, TypedCalls, TypedPool, Calls, Minders
<1> QED BY <1>2, <1>3 DEF GInv, CInv

LEMMA GAlways == Spec => []GInv
BY Beginning, GKept, PTL DEF Spec

-----------------------------------------------------------------------------
(* "Pause now" catches every child.                                        *)

LEMMA HeldKept ==
  ASSUME "slow" \notin Faults
  PROVE  GInv /\ Held /\ [Next]_vars => Held'
<1> SUFFICES ASSUME GInv, Held, [Next]_vars PROVE Held'
  OBVIOUS
<1>0. /\ worker \in [Workers -> Minders] /\ job \in [Jobs -> Rows]
      /\ procs \in [Jobs -> Workers \cup {None}]
      /\ \A w \in Workers : worker[w].job = None <=> worker[w].at \in {"idle", "open"}
  BY DEF GInv, TypeOK, Minders
<1>1. CASE UNCHANGED poolVars
  BY <1>1 DEF Held, Owns, Enters, poolVars
<1>2. ASSUME NEW w \in Workers, NEW v \in Workers \ {w},
             worker[w].at \notin {"idle", "open"}, worker[v].at \notin {"idle", "open"}
      PROVE  worker[w].job # worker[v].job
  <2>1. job[worker[w].job].holder = w /\ job[worker[v].job].holder = v
    BY <1>2 DEF Held, Owns
  <2> QED BY <1>2, <2>1
<1>3. ASSUME NEW h \in Hands, KillNext(h) PROVE Held'
  <2>1. /\ UNCHANGED <<procs, job>>
        /\ \/ UNCHANGED worker
           \/ \E w \in call[h].prey : worker' = [worker EXCEPT ![w].killed = TRUE]
    BY <1>3 DEF KillNext
  <2>2. ASSUME NEW v \in Workers
        PROVE  worker'[v].at = worker[v].at /\ worker'[v].job = worker[v].job
    BY <1>0, <2>1 DEF Minders
  <2> QED BY <2>1, <2>2 DEF Held, Owns, Enters
<1>4. ASSUME NEW w \in Workers, PassGate(w) PROVE Held'
  BY <1>0, <1>4 DEF PassGate, Moves, Held, Owns, Enters, Minders
<1>5. ASSUME NEW w \in Workers, Claim(w) PROVE Held'
  <2>1. CASE Moves(w, "idle") /\ UNCHANGED job /\ UNCHANGED procs
    BY <1>0, <2>1 DEF Moves, Held, Owns, Enters, Minders
  <2>2. ASSUME NEW j \in Jobs, job[j].state \in {"queued", "marked"}, UNCHANGED procs,
               job' = [job EXCEPT ![j] = [state |-> "running", holder |-> w]],
               worker' = [worker EXCEPT ![w] = [@ EXCEPT !.at = "claimed", !.job = j]]
        PROVE  Held'
    <3>1. worker'[w].at = "claimed" /\ worker'[w].job = j
          /\ job'[j] = [state |-> "running", holder |-> w]
      BY <1>0, <2>2 DEF Minders
    <3>2. ASSUME NEW v \in Workers \ {w} PROVE worker'[v] = worker[v]
      BY <1>0, <2>2
    <3>3. ASSUME NEW v \in Workers \ {w}, worker[v].at \notin {"idle", "open"}
          PROVE  worker[v].job # j /\ worker[v].job \in Jobs
      BY <2>2, <3>3 DEF Held, Owns
    <3>4. ASSUME NEW i \in Jobs, i # j PROVE job'[i] = job[i]
      BY <1>0, <2>2, <3>4
    <3> QED BY <2>2, <3>1, <3>2, <3>3, <3>4 DEF Held, Owns, Enters
  <2> QED BY <1>5, <2>1, <2>2 DEF Claim
<1>6. ASSUME NEW w \in Workers, Register(w) PROVE Held'
  <2>1. /\ UNCHANGED job /\ worker[w].at = "claimed"
        /\ procs' = [procs EXCEPT ![worker[w].job] = w]
        /\ worker' = [worker EXCEPT ![w].at = "registered"]
    BY <1>6 DEF Register, Moves
  <2>2. worker'[w].job = worker[w].job /\ worker[w].job \in Jobs
        /\ procs'[worker[w].job] = w
    BY <1>0, <2>1 DEF Minders, Held, Owns
  <2>3. ASSUME NEW v \in Workers \ {w}, worker[v].at \notin {"idle", "open"}
        PROVE  worker'[v] = worker[v] /\ procs'[worker[v].job] = procs[worker[v].job]
    <3>1. worker[v].job # worker[w].job /\ worker[v].job \in Jobs
      BY <1>2, <2>1, <2>3 DEF Held, Owns
    <3> QED BY <1>0, <2>1, <3>1
  <2>4. ASSUME NEW v \in Workers \ {w} PROVE worker'[v] = worker[v]
    BY <1>0, <2>1
  <2> QED BY <2>1, <2>2, <2>3, <2>4 DEF Held, Owns, Enters
<1>7. ASSUME NEW w \in Workers, CheckFlag(w) PROVE Held'
  BY <1>0, <1>7 DEF CheckFlag, Held, Owns, Enters, Minders
<1>8. ASSUME NEW w \in Workers, Reap(w) PROVE Held'
  BY <1>0, <1>8 DEF Reap, Moves, Held, Owns, Enters, Minders
<1>9. ASSUME NEW w \in Workers, Leave(w) PROVE Held'
  <2> DEFINE j == worker[w].job
  <2>1. /\ worker[w].at \in {"claimed", "reaping"}
        /\ \/ UNCHANGED job
           \/ \E to \in {"queued", "done"} : job' = [job EXCEPT ![j] = [state |-> to, holder |-> None]]
        /\ procs' = [procs EXCEPT ![j] = IF @ = w THEN None ELSE @]
        /\ worker' = [worker EXCEPT ![w] = IdleWorker]
    BY <1>9 DEF Leave, Vacate
  <2>2. ASSUME NEW v \in Workers \ {w} PROVE worker'[v] = worker[v]
    BY <1>0, <2>1
  <2>3. ASSUME NEW i \in Jobs, i # j PROVE job'[i] = job[i] /\ procs'[i] = procs[i]
    BY <1>0, <2>1, <2>3
  <2>4. worker'[w].at = "idle"
    BY <1>0, <2>1 DEF IdleWorker
  <2>5. ASSUME NEW v \in Workers \ {w}, worker[v].at \notin {"idle", "open"}
        PROVE  worker[v].job \in Jobs /\ worker[v].job # j
    BY <1>2, <2>1, <2>5 DEF Held, Owns
  <2> QED BY <2>2, <2>3, <2>4, <2>5 DEF Held, Owns, Enters
<1>10. ASSUME NEW j \in Jobs, Mark(j) PROVE Held'
  <2>1. /\ job[j].holder = None /\ job' = [job EXCEPT ![j].state = "marked"]
        /\ UNCHANGED <<worker, procs>>
    BY <1>10 DEF Mark, Fault
  <2>2. ASSUME NEW v \in Workers, worker[v].at \notin {"idle", "open"}
        PROVE  job'[worker[v].job] = job[worker[v].job]
    <3>1. worker[v].job \in Jobs /\ worker[v].job # j
      BY <2>1, <2>2, PauseGateAssumption DEF Held, Owns
    <3> QED BY <1>0, <2>1, <3>1
  <2>3. worker' = worker /\ procs' = procs
    BY <2>1
  <2>4. ASSUME NEW v \in Workers PROVE Owns(v)'
    BY <2>2, <2>3 DEF Held, Owns
  <2>5. ASSUME NEW v \in Workers PROVE Enters(v)'
    BY <2>3 DEF Held, Enters
  <2> QED BY <2>4, <2>5 DEF Held
<1>11. CASE Restart
  BY <1>11 DEF Restart, Restarted, Held, Owns, Enters, IdleWorker
<1>12. ASSUME NEW w \in Workers, Worker(w) PROVE Held'
  BY <1>4, <1>5, <1>6, <1>7, <1>8, <1>9, <1>12 DEF Worker
<1>13. ASSUME NEW h \in Hands, Call(h) PROVE Held'
  BY <1>1, <1>3, <1>13 DEF Call, Flag, Write, RenamePause, Forget, Snapshot, Consume
<1>14. \/ UNCHANGED poolVars
       \/ \E h \in Hands : Call(h)
       \/ \E w \in Workers : Worker(w)
       \/ \E j \in Jobs : Mark(j)
       \/ Restart
  BY DEF Next, Ask, Click, BeatReads, vars
<1> QED BY <1>1, <1>10, <1>11, <1>12, <1>13, <1>14

\* Only its own worker gives a row an entry, and not while its child runs.
LEMMA EntriesStand ==
  ASSUME GInv, [Next]_vars, NEW w \in Workers, worker'[w].at = "running",
         NEW j \in Jobs, procs'[j] = w
  PROVE  procs[j] = w
<1>0. /\ worker \in [Workers -> Minders] /\ procs \in [Jobs -> Workers \cup {None}]
      /\ w # None
  BY PauseGateAssumption DEF GInv, TypeOK, Minders
<1>1. ASSUME NEW v \in Workers, Register(v) PROVE procs[j] = w
  <2>1. procs' = [procs EXCEPT ![worker[v].job] = v] /\ worker'[v].at = "registered"
    BY <1>0, <1>1 DEF Register, Moves, Minders
  <2> QED BY <1>0, <2>1
<1>2. ASSUME NEW v \in Workers, Leave(v) PROVE procs[j] = w
  <2>1. \E i : procs' = [procs EXCEPT ![i] = IF @ = v THEN None ELSE @]
    BY <1>2 DEF Leave
  <2> QED BY <1>0, <2>1
<1>3. CASE Restart
  BY <1>0, <1>3 DEF Restart, Restarted
<1>4. \/ UNCHANGED procs \/ Restart
      \/ \E v \in Workers : Register(v) \/ Leave(v)
  BY DEF Next, Ask, Click, BeatReads, Call, Flag, Write, RenamePause, Forget, Snapshot, KillNext,
         Consume, Worker, PassGate, Claim, CheckFlag, Reap, Mark, vars, poolVars
<1> QED BY <1>1, <1>2, <1>3, <1>4

LEMMA SoughtKept ==
  ASSUME GInv, AllSought, [Next]_vars, NEW w \in Workers
  PROVE  Sought(w)'
<1> SUFFICES ASSUME pauseKill', worker'[w].at = "running", ~worker'[w].killed,
                    procs'[worker'[w].job] = w
             PROVE  \E h \in Hands : Seeks(h, w)'
  BY DEF Sought
<1>0. /\ worker \in [Workers -> Minders] /\ procs \in [Jobs -> Workers \cup {None}]
      /\ CInv
      /\ worker[w].at = "running" => worker[w].job \in Jobs
  BY DEF GInv, TypeOK, Minders, CInv, TypedCalls, Calls
\* Whoever sought it before goes on, if its own call and the worker are left as they were.
<1>1. ASSUME pauseKill, worker[w].at = "running", ~worker[w].killed,
             worker'[w].job = worker[w].job
      PROVE  \E h \in Hands : Seeks(h, w)
  <2>1. procs[worker[w].job] = w
    BY <1>0, <1>1, EntriesStand
  <2> QED BY <1>1, <2>1 DEF AllSought, Sought
<1>2. ASSUME NEW h \in Hands, Seeks(h, w), call'[h].todo = call[h].todo,
             w \in call[h].prey => w \in call'[h].prey
      PROVE  Seeks(h, w)'
  BY <1>2 DEF Seeks, At, HandFree
<1>3. ASSUME UNCHANGED <<pauseKill, worker>>, NEW h \in Hands, ~Seeks(h, w),
             \A g \in Hands \ {h} : call'[g] = call[g]
      PROVE  \E g \in Hands : Seeks(g, w)'
  BY <1>1, <1>2, <1>3
<1>4. ASSUME UNCHANGED <<pauseKill, call>>, UNCHANGED worker \/ worker'[w] = worker[w]
      PROVE  \E g \in Hands : Seeks(g, w)'
  BY <1>1, <1>2, <1>4
<1>5. ASSUME NEW h \in Hands, NEW order \in Orders, Click(h, order)
      PROVE  \E g \in Hands : Seeks(g, w)'
  <2>1. ~Seeks(h, w) /\ UNCHANGED <<pauseKill, worker>>
    BY <1>5 DEF Click, Seeks, At, gateVars, poolVars
  <2>2. \A g \in Hands \ {h} : call'[g] = call[g]
    BY <1>0, <1>5 DEF Click, CInv, TypedCalls
  <2> QED BY <1>3, <2>1, <2>2
<1>6. CASE BeatReads
  <2>1. ~Seeks(Beat, w) /\ UNCHANGED <<pauseKill, worker>>
    BY <1>6 DEF BeatReads, Seeks, At, gateVars, poolVars
  <2>2. \A g \in Hands \ {Beat} : call'[g] = call[g]
    BY <1>0, <1>6 DEF BeatReads, CInv, TypedCalls
  <2> QED BY <1>3, <2>1, <2>2, PauseGateAssumption
<1>7. ASSUME NEW h \in Hands, Flag(h) PROVE \E g \in Hands : Seeks(g, w)'
  <2>1. ~HandFree(h) /\ Done(h) /\ UNCHANGED worker
    BY <1>7 DEF Flag, At, poolVars
  <2>2. /\ \A g \in Hands \ {h} : call'[g] = call[g]
        /\ call'[h].todo = Tail(call[h].todo)
    BY <1>0, <2>1, Advanced
  <2>3. CASE At(h, "arm")
    <3>1. Tail(call[h].todo) # <<>> /\ Head(Tail(call[h].todo)) = "snapshot"
      BY <1>0, <2>1, <2>3, UnderWay DEF At, Pair
    <3> QED BY <2>2, <3>1 DEF Seeks, At, HandFree
  <2>4. CASE At(h, "gate") \/ At(h, "open")
    BY <1>3, <1>7, <2>1, <2>2, <2>4 DEF Flag, Seeks, At
  <2>5. CASE At(h, "disarm")
    BY <1>7, <2>5 DEF Flag, At
  <2> QED BY <1>7, <2>3, <2>4, <2>5 DEF Flag
<1>8. ASSUME NEW h \in Hands, Write(h) \/ RenamePause(h) \/ Forget(h) \/ Consume(h)
      PROVE  \E g \in Hands : Seeks(g, w)'
  <2>1. ~Seeks(h, w) /\ UNCHANGED <<pauseKill, worker>>
    BY <1>8 DEF Write, RenamePause, Forget, Consume, Seeks, At, gateVars, poolVars
  <2>2. \A g \in Hands \ {h} : call'[g] = call[g]
    BY <1>0, <1>8 DEF Write, RenamePause, Forget, Consume, Done, CInv, TypedCalls
  <2> QED BY <1>3, <2>1, <2>2
<1>9. ASSUME NEW h \in Hands, Snapshot(h) PROVE \E g \in Hands : Seeks(g, w)'
  <2>1. /\ At(h, "snapshot") /\ UNCHANGED worker
        /\ call' = [call EXCEPT ![h].todo = Tail(@),
                                ![h].prey = {procs[j] : j \in Jobs} \ {None}]
    BY <1>9 DEF Snapshot, poolVars
  <2>2. w \in {procs[j] : j \in Jobs} \ {None}
    <3>1. worker[w].job \in Jobs /\ procs[worker[w].job] = w
      BY <1>0, <2>1, EntriesStand
    <3> QED BY <3>1, PauseGateAssumption
  <2>3. call'[h].todo = Tail(call[h].todo) /\ w \in call'[h].prey
    BY <1>0, <2>1, <2>2 DEF CInv, TypedCalls, Calls
  <2>4. Tail(call[h].todo) # <<>> /\ Head(Tail(call[h].todo)) = "kill"
    BY <1>0, <2>1, UnderWay DEF At, Pair
  <2> QED BY <2>3, <2>4 DEF Seeks, At, HandFree
<1>10. ASSUME NEW h \in Hands, KillNext(h) PROVE \E g \in Hands : Seeks(g, w)'
  <2>1. At(h, "kill") /\ UNCHANGED pauseKill
    BY <1>10 DEF KillNext, gateVars
  <2>2. CASE call[h].prey = {} /\ Done(h) /\ UNCHANGED worker
    <3>1. ~Seeks(h, w)
      BY <2>1, <2>2 DEF Seeks, At
    <3>2. \A g \in Hands \ {h} : call'[g] = call[g]
      BY <1>0, <2>2 DEF Done, CInv, TypedCalls
    <3> QED BY <1>3, <2>1, <2>2, <3>1, <3>2
  <2>3. ASSUME NEW v \in call[h].prey, worker' = [worker EXCEPT ![v].killed = TRUE],
               call' = [call EXCEPT ![h].prey = @ \ {v}]
        PROVE  \E g \in Hands : Seeks(g, w)'
    <3>1. v # w /\ worker'[w] = worker[w]
      BY <1>0, <2>3 DEF Minders
    <3>2. PICK g \in Hands : Seeks(g, w)
      BY <1>1, <2>1, <3>1
    <3>3. call'[g].todo = call[g].todo /\ (w \in call[g].prey => w \in call'[g].prey)
      BY <1>0, <2>3, <3>1 DEF CInv, TypedCalls, Calls
    <3> QED BY <1>2, <3>2, <3>3
  <2> QED BY <1>10, <2>2, <2>3 DEF KillNext
<1>11. ASSUME NEW v \in Workers, PassGate(v) \/ Claim(v) \/ Register(v) \/ Leave(v)
       PROVE  \E g \in Hands : Seeks(g, w)'
  <2>1. UNCHANGED <<pauseKill, call>>
    BY <1>11 DEF PassGate, Claim, Register, Leave, gateVars
  <2>2. worker'[v].at # "running" /\ (v # w => worker'[w] = worker[w])
    <3>1. CASE PassGate(v) \/ Register(v) \/ Leave(v)
      BY <1>0, <3>1 DEF PassGate, Register, Leave, Vacate, Moves, Minders, IdleWorker
    <3>2. CASE Claim(v)
      <4>1. \/ worker' = [worker EXCEPT ![v].at = "idle"]
            \/ \E j \in Jobs :
                 worker' = [worker EXCEPT ![v] = [@ EXCEPT !.at = "claimed", !.job = j]]
        BY <3>2 DEF Claim, Moves
      <4> QED BY <1>0, <4>1 DEF Minders
    <3> QED BY <1>11, <3>1, <3>2
  <2> QED BY <1>4, <2>1, <2>2
<1>12. ASSUME NEW v \in Workers, CheckFlag(v) PROVE \E g \in Hands : Seeks(g, w)'
  <2>1. UNCHANGED <<pauseKill, call>>
    BY <1>12 DEF CheckFlag, gateVars
  <2>2. v # w
    BY <1>0, <1>12, <2>1 DEF CheckFlag, Minders
  <2>3. worker'[w] = worker[w]
    BY <1>0, <1>12, <2>2 DEF CheckFlag
  <2> QED BY <1>4, <2>1, <2>3
<1>13. ASSUME NEW v \in Workers, Reap(v) PROVE \E g \in Hands : Seeks(g, w)'
  <2>1. /\ UNCHANGED pauseKill
        /\ call' = [h \in Hands |-> [call[h] EXCEPT !.prey = @ \ {v}]]
        /\ worker' = [worker EXCEPT ![v].at = "reaping"]
    BY <1>13 DEF Reap, Moves, gateVars
  <2>2. v # w /\ worker'[w] = worker[w]
    BY <1>0, <2>1 DEF Minders
  <2>3. PICK g \in Hands : Seeks(g, w)
    BY <1>1, <2>1, <2>2
  <2>4. call'[g].todo = call[g].todo /\ (w \in call[g].prey => w \in call'[g].prey)
    BY <1>0, <2>1, <2>2 DEF CInv, TypedCalls, Calls
  <2> QED BY <1>2, <2>3, <2>4
<1>14. CASE Restart
  BY <1>14 DEF Restart, Restarted
<1>15. ASSUME NEW v \in Workers, Worker(v) PROVE \E g \in Hands : Seeks(g, w)'
  BY <1>11, <1>12, <1>13, <1>15 DEF Worker
<1>16. ASSUME NEW h \in Hands, Call(h) PROVE \E g \in Hands : Seeks(g, w)'
  BY <1>7, <1>8, <1>9, <1>10, <1>16 DEF Call
<1>17. \/ UNCHANGED <<pauseKill, call, worker>>
       \/ \E order \in Orders, h \in Hands : Click(h, order)
       \/ BeatReads \/ Restart
       \/ \E h \in Hands : Call(h)
       \/ \E v \in Workers : Worker(v)
  BY DEF Next, Ask, Mark, vars, gateVars, poolVars
<1> QED BY <1>4, <1>5, <1>6, <1>14, <1>15, <1>16, <1>17

LEMMA SoughtAlways == Spec => [](GInv /\ AllSought)
<1>1. Init => AllSought
  BY DEF Init, AllSought, Sought
<1>2. GInv /\ AllSought /\ [Next]_vars => AllSought'
  BY SoughtKept DEF AllSought
<1> QED BY <1>1, <1>2, GAlways, PTL DEF Spec

\* "Pause now" reaches every child whose entry its row has, whatever the hands do at once,
\* wherever the daemon dies, and whatever cron takes for silent (worker.go: "one of the two
\* always catches the child").
THEOREM PauseCatchesEntries == Spec => []EntryCaught
<1>1. AllSought => EntryCaught
  BY DEF AllSought, Sought, Seeks, EntryCaught, BetweenCalls, At
<1> QED BY <1>1, SoughtAlways, PTL

\* As long as cron leaves a run that is alive to its worker, that is every child.
THEOREM PauseCatchesAll ==
  ASSUME "slow" \notin Faults
  PROVE  Spec => []CaughtNow
<1>1. Init => Held
  BY DEF Init, Held, Owns, Enters, IdleWorker
<1>2. GInv /\ Held /\ [Next]_vars => Held'
  BY HeldKept
<1>3. Held /\ AllSought => CaughtNow
  BY DEF Held, Enters, AllSought, Sought, Seeks, CaughtNow, BetweenCalls, At
<1> QED BY <1>1, <1>2, <1>3, SoughtAlways, PTL DEF Spec

-----------------------------------------------------------------------------
(* The flags, the file and the orders.                                     *)

\* Where the heartbeat is after an access: at what comes next, and nowhere else.
LEMMA BeatMoves ==
  ASSUME CInv, NEW access, At(Beat, access), Done(Beat)
  PROVE  /\ \A b : At(Beat, b)' => Pair(access, b)
         /\ HandFree(Beat)' => access \in {"rename", "kill", "forget", "consume"}
         /\ call'[Beat].order = call[Beat].order /\ call'[Beat].again = call[Beat].again
<1>1. Beat \in Hands /\ ~HandFree(Beat) /\ Head(call[Beat].todo) = access
  BY PauseGateAssumption DEF At
<1>2. /\ call'[Beat].todo = Tail(call[Beat].todo)
      /\ call'[Beat].order = call[Beat].order /\ call'[Beat].again = call[Beat].again
  BY <1>1, Advanced
<1> QED BY <1>1, <1>2, UnderWay, Follows DEF HandFree

\* Where it is when the write fails: behind the rename.
LEMMA BeatSkips ==
  ASSUME CInv, At(Beat, "write"), call' = [call EXCEPT ![Beat].todo = Tail(Tail(@))]
  PROVE  /\ \A b : At(Beat, b)' => b \in {"arm", "consume"}
         /\ call'[Beat].order = call[Beat].order /\ call'[Beat].again = call[Beat].again
<1> DEFINE s == Tail(call[Beat].todo)
<1>1. Beat \in Hands /\ ~HandFree(Beat) /\ Head(call[Beat].todo) = "write"
  BY PauseGateAssumption DEF At
<1>2. /\ s \in Seq(Accesses) /\ Ordered(call[Beat].order, s) /\ s # <<>>
      /\ Head(s) = "rename"
  BY <1>1, UnderWay DEF Pair
<1>3. Tail(s) # <<>> => Pair("rename", Head(Tail(s)))
  <2> HIDE DEF s
  <2> QED BY <1>2, TailOrdered
<1>4. /\ call'[Beat].todo = Tail(s)
      /\ call'[Beat].order = call[Beat].order /\ call'[Beat].again = call[Beat].again
  BY <1>1 DEF CInv, TypedCalls, Calls
<1> QED BY <1>3, <1>4 DEF At, HandFree, Pair

\* What an access says about the order it belongs to.
LEMMA OrderOf ==
  ASSUME CInv
  PROVE  /\ \A a \in Pausing : At(Beat, a) => call[Beat].order # "resume"
         /\ \A a \in Resuming : At(Beat, a) => call[Beat].order = "resume"
BY PauseGateAssumption, UnderWay DEF At

LEMMA FlagsStand ==
  ASSUME Hands = {Beat}
  PROVE  GInv /\ FlagInv /\ [Next]_vars => FlagInv'
<1> SUFFICES ASSUME GInv, FlagInv, [Next]_vars PROVE FlagInv'
  OBVIOUS
<1>0. /\ CInv /\ TypedFlags
  BY Parts DEF GInv, CInv
<1>1. \A a, b : At(Beat, a) /\ At(Beat, b) => a = b
  BY DEF At
<1>2. CASE UNCHANGED <<gateVars, call, askVars>>
  BY <1>2 DEF FlagInv, Flags, Filed, Again, At, HandFree, gateVars, askVars
<1>3. ASSUME NEW order \in Orders, Ask(order) PROVE FlagInv'
  <2>1. UNCHANGED <<gateVars, call>> /\ served' = FALSE
    BY <1>3 DEF Ask
  <2> QED BY <2>1 DEF FlagInv, Flags, Filed, Again, At, HandFree, gateVars
<1>4. CASE BeatReads
  <2>1. /\ UNCHANGED <<gateVars, askVars>> /\ HandFree(Beat)
        /\ call'[Beat].order = wanted /\ call'[Beat].again = served
        /\ call'[Beat].todo = Program(wanted) \o <<"consume">> /\ wanted \in Orders
    BY <1>0, <1>4, PauseGateAssumption DEF BeatReads, CInv, TypedCalls, TypedFlags, NoCall
  <2>2. ~HandFree(Beat)' /\ Head(call'[Beat].todo) \in {"gate", "disarm"}
    BY <2>1, ConsumeOrdered DEF Begins, HandFree
  <2>3. \A a : At(Beat, a)' => a \in {"gate", "disarm"}
    BY <2>2 DEF At
  <2>4. /\ paused' = paused /\ pauseKill' = pauseKill /\ pauseFile' = pauseFile /\ wanted' = wanted
        /\ served' = served
    BY <2>1 DEF gateVars, askVars
  <2>5. \A a : ~At(Beat, a)
    BY <2>1 DEF At
  <2>6. Flags' /\ ("ioerror" \notin Faults => Filed')
    BY <2>3, <2>4, <2>5 DEF FlagInv, Flags, Filed, Pausing
  <2>7. Lasting => Again'
    BY <2>1, <2>4 DEF FlagInv, Again
  <2> QED BY <2>6, <2>7 DEF FlagInv, Lasting
<1>5. ASSUME Flag(Beat) PROVE FlagInv'
  <2>1. Done(Beat) /\ UNCHANGED <<pauseFile, pauseTmp, wanted, served>> /\ ~HandFree(Beat)
    BY <1>5 DEF Flag, At, askVars
  <2>2. CASE At(Beat, "gate") /\ paused' = TRUE /\ UNCHANGED pauseKill
    <3>1. /\ \A b : At(Beat, b)' => b = "write"
          /\ ~HandFree(Beat)'
          /\ call'[Beat].order = call[Beat].order /\ call'[Beat].again = call[Beat].again
      BY <1>0, <2>1, <2>2, BeatMoves DEF Pair
    <3>2. At(Beat, "write")' /\ call[Beat].order # "resume"
      BY <1>0, <2>2, <3>1, OrderOf DEF At, Pausing
    <3>3. Flags'
      BY <2>1, <2>2, <3>1, <3>2 DEF FlagInv, Flags, Pausing
    <3>4. "ioerror" \notin Faults => Filed'
      BY <1>1, <2>1, <2>2, <3>1, <3>2 DEF FlagInv, Filed, Again, Lasting
    <3>5. Lasting => Again'
      BY <2>1, <2>2, <3>1, <3>2 DEF FlagInv, Again
    <3> QED BY <3>3, <3>4, <3>5 DEF FlagInv, Lasting
  <2>3. CASE At(Beat, "open") /\ paused' = FALSE /\ UNCHANGED pauseKill
    <3>1. /\ \A b : At(Beat, b)' => b = "forget"
          /\ ~HandFree(Beat)'
          /\ call'[Beat].order = call[Beat].order /\ call'[Beat].again = call[Beat].again
      BY <1>0, <2>1, <2>3, BeatMoves DEF Pair
    <3>2. ~pauseKill
      BY <2>3 DEF FlagInv, Flags
    <3>3. Flags'
      BY <2>1, <2>3, <3>1, <3>2 DEF FlagInv, Flags, Pausing
    <3>4. "ioerror" \notin Faults => Filed'
      BY <1>1, <2>1, <2>3, <3>1, <3>2 DEF FlagInv, Filed, Again, Lasting
    <3>5. Lasting => Again'
      BY <2>1, <2>3, <3>1, <3>2 DEF FlagInv, Again
    <3> QED BY <3>3, <3>4, <3>5 DEF FlagInv, Lasting
  <2>4. CASE At(Beat, "arm") /\ pauseKill' = TRUE /\ UNCHANGED paused
    <3>1. /\ \A b : At(Beat, b)' => b = "snapshot"
          /\ ~HandFree(Beat)'
          /\ call'[Beat].order = call[Beat].order /\ call'[Beat].again = call[Beat].again
      BY <1>0, <2>1, <2>4, BeatMoves DEF Pair
    <3>2. paused
      BY <2>4 DEF FlagInv, Flags, Pausing
    <3>3. Flags'
      BY <2>1, <2>4, <3>1, <3>2 DEF FlagInv, Flags, Pausing
    <3>4. "ioerror" \notin Faults => Filed'
      BY <1>1, <2>1, <2>4, <3>1, <3>2 DEF FlagInv, Filed, Again, Lasting
    <3>5. Lasting => Again'
      BY <2>1, <2>4, <3>1, <3>2 DEF FlagInv, Again
    <3> QED BY <3>3, <3>4, <3>5 DEF FlagInv, Lasting
  <2>5. CASE At(Beat, "disarm") /\ pauseKill' = FALSE /\ UNCHANGED paused
    <3>1. /\ \A b : At(Beat, b)' => b = "open"
          /\ ~HandFree(Beat)'
          /\ call'[Beat].order = call[Beat].order /\ call'[Beat].again = call[Beat].again
      BY <1>0, <2>1, <2>5, BeatMoves DEF Pair
    <3>3. Flags'
      BY <2>1, <2>5, <3>1 DEF FlagInv, Flags, Pausing
    <3>4. "ioerror" \notin Faults => Filed'
      BY <1>1, <2>1, <2>5, <3>1 DEF FlagInv, Filed, Again, Lasting
    <3>5. Lasting => Again'
      BY <2>1, <2>5, <3>1 DEF FlagInv, Again
    <3> QED BY <3>3, <3>4, <3>5 DEF FlagInv, Lasting
  <2> QED BY <1>5, <2>2, <2>3, <2>4, <2>5 DEF Flag
<1>6. ASSUME Write(Beat) PROVE FlagInv'
  <2>1. /\ At(Beat, "write") /\ ~HandFree(Beat)
        /\ UNCHANGED <<paused, pauseKill, pauseFile, wanted, served>>
    BY <1>6 DEF Write, At, askVars
  <2>2. paused /\ call[Beat].order # "resume"
    BY <1>0, <2>1, OrderOf DEF FlagInv, Flags, Pausing
  <2>3. CASE pauseTmp' = TRUE /\ Done(Beat)
    <3>1. /\ \A b : At(Beat, b)' => b = "rename"
          /\ ~HandFree(Beat)'
          /\ call'[Beat].order = call[Beat].order /\ call'[Beat].again = call[Beat].again
      BY <1>0, <2>1, <2>3, BeatMoves DEF Pair
    <3>2. At(Beat, "rename")'
      BY <3>1 DEF At
    <3>3. Flags' /\ (Lasting => Again')
      BY <2>1, <2>2, <3>1 DEF FlagInv, Flags, Again, Pausing
    <3>4. "ioerror" \notin Faults => Filed'
      BY <2>1, <2>3, <3>1, <3>2 DEF FlagInv, Filed
    <3> QED BY <3>3, <3>4 DEF FlagInv, Lasting
  <2>4. CASE Fault("ioerror") /\ call' = [call EXCEPT ![Beat].todo = Tail(Tail(@))]
    <3>1. /\ \A b : At(Beat, b)' => b \in {"arm", "consume"}
          /\ call'[Beat].order = call[Beat].order /\ call'[Beat].again = call[Beat].again
      BY <1>0, <2>1, <2>4, BeatSkips
    <3>2. Flags' /\ (Lasting => Again')
      BY <2>1, <2>2, <3>1 DEF FlagInv, Flags, Again, Pausing
    <3> QED BY <2>4, <3>2 DEF FlagInv, Lasting, Fault
  <2> QED BY <1>6, <2>3, <2>4 DEF Write
<1>7. ASSUME RenamePause(Beat) PROVE FlagInv'
  <2>1. /\ At(Beat, "rename") /\ ~HandFree(Beat) /\ Done(Beat)
        /\ UNCHANGED <<paused, pauseKill, wanted, served>>
    BY <1>7 DEF RenamePause, At, askVars
  <2>2. paused /\ call[Beat].order # "resume"
    BY <1>0, <2>1, OrderOf DEF FlagInv, Flags, Pausing
  <2>3. /\ \A b : At(Beat, b)' => b \in {"arm", "consume"}
        /\ call'[Beat].order = call[Beat].order /\ call'[Beat].again = call[Beat].again
    BY <1>0, <2>1, BeatMoves DEF Pair
  <2>4. Flags' /\ (Lasting => Again')
    BY <2>1, <2>2, <2>3 DEF FlagInv, Flags, Again, Pausing
  <2>5. ASSUME "ioerror" \notin Faults PROVE Filed'
    <3>1. pauseFile' = TRUE
      BY <1>7, <2>1, <2>5 DEF RenamePause, Fault, FlagInv, Filed
    <3>2. ~(served /\ wanted = "resume")
      BY <2>1, <2>2, <2>5 DEF FlagInv, Again, Lasting
    <3> QED BY <2>1, <2>2, <2>3, <3>1, <3>2 DEF Filed
  <2> QED BY <2>4, <2>5 DEF FlagInv, Lasting
<1>8. ASSUME Forget(Beat) PROVE FlagInv'
  <2>1. /\ At(Beat, "forget") /\ ~HandFree(Beat) /\ Done(Beat)
        /\ UNCHANGED <<paused, pauseKill, wanted, served>>
        /\ "ioerror" \notin Faults => pauseFile' = FALSE
    BY <1>8 DEF Forget, Fault, At, askVars
  <2>2. /\ \A b : At(Beat, b)' => b = "consume"
        /\ call'[Beat].order = call[Beat].order /\ call'[Beat].again = call[Beat].again
    BY <1>0, <2>1, BeatMoves DEF Pair
  <2>3. ~paused /\ ~pauseKill
    BY <2>1 DEF FlagInv, Flags
  <2>4. Flags' /\ (Lasting => Again')
    BY <2>1, <2>2, <2>3 DEF FlagInv, Flags, Again, Pausing
  <2>5. "ioerror" \notin Faults => Filed'
    BY <2>1, <2>2, <2>3 DEF Filed
  <2> QED BY <2>4, <2>5 DEF FlagInv, Lasting
<1>9. ASSUME Snapshot(Beat) \/ KillNext(Beat) PROVE FlagInv'
  <2>1. At(Beat, "snapshot") \/ At(Beat, "kill")
    BY <1>9 DEF Snapshot, KillNext
  <2>2. /\ UNCHANGED <<paused, pauseKill, pauseFile, pauseTmp, wanted, served>> /\ ~HandFree(Beat)
        /\ paused /\ call[Beat].order # "resume"
    <3>1. paused
      BY <2>1 DEF FlagInv, Flags, Pausing
    <3>2. call[Beat].order # "resume"
      BY <1>0, <2>1, OrderOf DEF Pausing
    <3> QED BY <1>9, <2>1, <3>1, <3>2 DEF Snapshot, KillNext, At, gateVars, askVars
  <2>3. /\ \A b : At(Beat, b)' => b \in {"kill", "consume"}
        /\ call'[Beat].order = call[Beat].order /\ call'[Beat].again = call[Beat].again
    <3>1. CASE Snapshot(Beat)
      <4>1. /\ At(Beat, "snapshot") /\ call'[Beat].todo = Tail(call[Beat].todo)
            /\ call'[Beat].order = call[Beat].order /\ call'[Beat].again = call[Beat].again
        BY <1>0, <3>1, PauseGateAssumption DEF Snapshot, CInv, TypedCalls, Calls
      <4>2. \A b : At(Beat, b)' => b = "kill"
        BY <1>0, <4>1, Follows, PauseGateAssumption DEF At, Pair
      <4> QED BY <4>1, <4>2
    <3>2. CASE KillNext(Beat)
      <4>1. At(Beat, "kill")
        BY <3>2 DEF KillNext
      <4>2. CASE Done(Beat)
        BY <1>0, <4>1, <4>2, BeatMoves DEF Pair
      <4>3. ASSUME NEW w \in call[Beat].prey, call' = [call EXCEPT ![Beat].prey = @ \ {w}]
            PROVE  /\ call'[Beat].order = call[Beat].order
                   /\ call'[Beat].again = call[Beat].again
                   /\ call'[Beat].todo = call[Beat].todo
        BY <1>0, <4>3, PauseGateAssumption DEF CInv, TypedCalls, Calls
      <4> QED BY <3>2, <4>1, <4>2, <4>3 DEF KillNext, At, HandFree
    <3> QED BY <1>9, <3>1, <3>2
  <2>4. Flags' /\ (Lasting => Again')
    BY <2>2, <2>3 DEF FlagInv, Flags, Again, Pausing
  <2>5. "ioerror" \notin Faults => Filed'
    BY <1>1, <2>1, <2>2, <2>3 DEF FlagInv, Filed
  <2> QED BY <2>4, <2>5 DEF FlagInv, Lasting
<1>10. ASSUME Consume(Beat) PROVE FlagInv'
  <2>1. /\ At(Beat, "consume") /\ Done(Beat) /\ ~HandFree(Beat)
        /\ UNCHANGED <<paused, pauseKill, pauseFile, pauseTmp>>
        /\ \/ served' = FALSE
           \/ wanted # call[Beat].order /\ UNCHANGED <<wanted, served>>
           \/ "ioerror" \in Faults /\ served' = CarriedOut /\ UNCHANGED wanted
    BY <1>10 DEF Consume, Fault, At, gateVars, askVars
  <2>2. \A b : ~At(Beat, b)'
    BY <1>0, <2>1, BeatMoves DEF Pair
  <2>3. HandFree(Beat)'
    BY <2>2 DEF At
  <2>4. Flags'
    BY <2>1, <2>2 DEF FlagInv, Flags
  <2>5. "ioerror" \notin Faults => Filed'
    BY <1>1, <2>1, <2>2 DEF FlagInv, Filed
  <2>6. ASSUME Lasting PROVE Again'
    <3>1. served' /\ wanted' = "resume" => ~paused
      BY <2>1, <2>6 DEF FlagInv, Flags, Again, CarriedOut
    <3> QED BY <2>1, <2>3, <3>1 DEF Again
  <2> QED BY <2>4, <2>5, <2>6 DEF FlagInv, Lasting
<1>11. CASE Restart
  <2>1. /\ paused' = pauseFile /\ pauseKill' = FALSE /\ UNCHANGED <<pauseFile, wanted>>
        /\ served' = CarriedOut /\ "restart" \in Faults
    BY <1>11 DEF Restart, Restarted, Fault
  <2>2. HandFree(Beat)' /\ \A b : ~At(Beat, b)'
    BY <1>11, PauseGateAssumption DEF Restart, Restarted, HandFree, At, NoCall
  <2>3. "ioerror" \notin Faults /\ CarriedOut /\ wanted = "resume" => ~pauseFile
    BY DEF CarriedOut, FlagInv, Filed
  <2>4. Flags' /\ ("ioerror" \notin Faults => Filed')
    BY <2>1, <2>2, <2>3 DEF Flags, Filed
  <2>5. Lasting => Again'
    BY <2>1, <2>2, <2>3 DEF Again, Lasting
  <2> QED BY <2>4, <2>5 DEF FlagInv, Lasting
<1>12. ASSUME NEW w \in Workers, Reap(w) PROVE FlagInv'
  <2>1. /\ UNCHANGED <<gateVars, askVars>>
        /\ call' = [h \in Hands |-> [call[h] EXCEPT !.prey = @ \ {w}]]
    BY <1>12 DEF Reap
  <2>2. /\ call'[Beat].order = call[Beat].order /\ call'[Beat].again = call[Beat].again
        /\ call'[Beat].todo = call[Beat].todo
    BY <1>0, <2>1, PauseGateAssumption DEF CInv, TypedCalls, Calls
  <2>3. (HandFree(Beat)' <=> HandFree(Beat)) /\ \A b : At(Beat, b)' <=> At(Beat, b)
    BY <2>2 DEF At, HandFree
  <2>4. Flags' /\ ("ioerror" \notin Faults => Filed')
    BY <2>1, <2>2, <2>3 DEF FlagInv, Flags, Filed, gateVars, askVars
  <2>5. Lasting => Again'
    BY <2>1, <2>2, <2>3 DEF FlagInv, Again, gateVars, askVars
  <2> QED BY <2>4, <2>5 DEF FlagInv, Lasting
<1>13. ASSUME NEW w \in Workers, Worker(w) PROVE FlagInv'
  BY <1>2, <1>12, <1>13 DEF Worker, PassGate, Claim, Register, CheckFlag, Leave
<1>14. ASSUME NEW h \in Hands, Call(h) PROVE FlagInv'
  BY <1>5, <1>6, <1>7, <1>8, <1>9, <1>10, <1>14 DEF Call
<1>15. Hands \ {Beat} = {}
  OBVIOUS
<1>16. CASE UNCHANGED vars
  BY <1>2, <1>16 DEF vars
<1>17. ASSUME NEW j \in Jobs, Mark(j) PROVE FlagInv'
  BY <1>2, <1>17 DEF Mark
<1> QED BY <1>3, <1>4, <1>11, <1>13, <1>14, <1>15, <1>16, <1>17 DEF Next

LEMMA FlagsAlways ==
  ASSUME Hands = {Beat}
  PROVE  Spec => [](GInv /\ FlagInv)
<1>1. Init => FlagInv
  BY NoCallOrdered DEF Init, FlagInv, Flags, Filed, Again, At, HandFree
<1>2. GInv /\ FlagInv /\ [Next]_vars => FlagInv'
  BY FlagsStand
<1> QED BY <1>1, <1>2, GAlways, PTL DEF Spec

\* With the heartbeat alone at the gate a raised flag means a closed gate whenever no call is
\* under way, whatever fails and whenever the daemon dies: what is claimed is not killed.
THEOREM FlagFollowsGate ==
  ASSUME Hands = {Beat}
  PROVE  Spec => []ResumeLifts
<1>1. FlagInv => ResumeLifts
  BY DEF FlagInv, Flags, ResumeLifts
<1> QED BY <1>1, FlagsAlways, PTL

\* If the file system answers, a closed gate is also on disk then (worker.go: "so a restart
\* does not lift it").
THEOREM GateAndFileAgree ==
  ASSUME Hands = {Beat}, "ioerror" \notin Faults
  PROVE  Spec => []GateAgrees
<1>1. FlagInv => GateAgrees
  BY PauseGateAssumption
     DEF FlagInv, Flags, Filed, GateAgrees, ResumeLifts, Remembered, BetweenCalls, At
<1> QED BY <1>1, FlagsAlways, PTL

LEMMA OnceStands ==
  ASSUME "ioerror" \notin Faults, "restart" \notin Faults
  PROVE  GInv /\ Once /\ [Next]_vars => Once'
<1> SUFFICES ASSUME GInv, Once, [Next]_vars PROVE Once'
  OBVIOUS
<1>0. CInv
  BY Parts DEF GInv, CInv
<1>1. ASSUME NEW h \in Hands, NEW c, call' = [call EXCEPT ![h] = c], ~c.again, ~served'
      PROVE  Once'
  BY <1>0, <1>1 DEF Once, CInv, TypedCalls
<1>2. ASSUME NEW h \in Hands, NEW order, Click(h, order) PROVE Once'
  <2> DEFINE c == [NoCall EXCEPT !.order = order, !.todo = Program(order)]
  <2>1. ~c.again
    BY DEF NoCall
  <2>2. call' = [call EXCEPT ![h] = c] /\ ~served'
    BY <1>2 DEF Click, askVars, Once
  <2> HIDE DEF c
  <2> QED BY <1>1, <2>1, <2>2
<1>3. CASE BeatReads
  <2> DEFINE c == [NoCall EXCEPT !.order = wanted, !.again = served,
                                 !.todo = Program(wanted) \o <<"consume">>]
  <2>1. ~c.again
    BY DEF NoCall, Once
  <2>2. call' = [call EXCEPT ![Beat] = c] /\ ~served'
    BY <1>3 DEF BeatReads, askVars, Once
  <2> HIDE DEF c
  <2> QED BY <1>1, <2>1, <2>2, PauseGateAssumption
<1>4. ASSUME NEW h \in Hands, Call(h) PROVE Once'
  <2>1. ~served'
    BY <1>4 DEF Call, Flag, Write, RenamePause, Forget, Snapshot, KillNext, Consume, Fault, askVars,
                Once
  <2>2. \/ Done(h)
        \/ \E p \in SUBSET Workers :
              call' = [call EXCEPT ![h].todo = Tail(@), ![h].prey = p]
        \/ \E p \in SUBSET Workers : call' = [call EXCEPT ![h].prey = p]
    <3>1. \A w : call[h].prey \ {w} \in SUBSET Workers
      BY <1>0 DEF CInv, TypedCalls, Calls
    <3>2. {procs[j] : j \in Jobs} \ {None} \in SUBSET Workers
      BY DEF GInv, TypeOK
    <3> QED BY <1>4, <3>1, <3>2
            DEF Call, Flag, Write, RenamePause, Forget, Snapshot, KillNext, Consume, Fault
  <2>3. call \in [Hands -> Calls] /\ call[h] \in Calls
    BY <1>0 DEF CInv, TypedCalls
  <2>4. ASSUME Done(h) PROVE \A g \in Hands : ~call'[g].again
    BY <2>3, <2>4 DEF Done, Calls, Once
  <2>5. ASSUME NEW p, \/ call' = [call EXCEPT ![h].todo = Tail(@), ![h].prey = p]
                      \/ call' = [call EXCEPT ![h].prey = p]
        PROVE  \A g \in Hands : ~call'[g].again
    <3>1. CASE call' = [call EXCEPT ![h].todo = Tail(@), ![h].prey = p]
      BY <2>3, <3>1 DEF Calls, Once
    <3>2. CASE call' = [call EXCEPT ![h].prey = p]
      BY <2>3, <3>2 DEF Calls, Once
    <3> QED BY <2>5, <3>1, <3>2
  <2>6. \A g \in Hands : ~call'[g].again
    BY <2>2, <2>4, <2>5 DEF Once
  <2> QED BY <2>1, <2>6 DEF Once
<1>5. ASSUME NEW w \in Workers, Worker(w) PROVE Once'
  <2>1. /\ UNCHANGED askVars
        /\ \/ UNCHANGED call
           \/ call' = [h \in Hands |-> [call[h] EXCEPT !.prey = @ \ {w}]]
    BY <1>5 DEF Worker, PassGate, Claim, Register, CheckFlag, Reap, Leave
  <2>2. \A g \in Hands : call'[g].again = call[g].again
    BY <1>0, <2>1 DEF CInv, TypedCalls, Calls
  <2> QED BY <2>1, <2>2 DEF Once, askVars
<1>6. ~Restart
  BY DEF Restart, Restarted, Fault
<1>7. ASSUME UNCHANGED call, ~served' PROVE Once'
  BY <1>7 DEF Once
<1>8. \/ UNCHANGED call /\ ~served'
      \/ BeatReads \/ Restart
      \/ \E h \in Hands, order \in Orders : Click(h, order)
      \/ \E h \in Hands : Call(h)
      \/ \E w \in Workers : Worker(w)
  BY DEF Next, Ask, Mark, vars, askVars, Once
<1> QED BY <1>2, <1>3, <1>4, <1>5, <1>6, <1>7, <1>8

\* A pause is lifted by an access to the gate, or by a launch.
LEMMA LiftsAre ==
  ASSUME GInv, [Next]_vars, paused, ~paused'
  PROVE  Restart \/ \E h \in Hands : Flag(h)
<1>1. ASSUME NEW h \in Hands, Call(h) PROVE Flag(h)
  BY <1>1 DEF Call, Write, RenamePause, Forget, Snapshot, KillNext, Consume, gateVars
<1>2. ASSUME NEW w \in Workers, Worker(w) PROVE UNCHANGED paused
  BY <1>2 DEF Worker, PassGate, Claim, Register, CheckFlag, Reap, Leave, gateVars
<1> QED BY <1>1, <1>2 DEF Next, Ask, Click, BeatReads, Mark, vars, gateVars

\* Neither a launch lifts a pause, nor a Resume that was carried out before and is read
\* again: only one that was asked for since.  For one hand a launch or a failing statement
\* may come, and not both; for several, neither.
THEOREM PausesAreLiftedByHand ==
  ASSUME \/ Hands = {Beat} /\ Lasting
         \/ "ioerror" \notin Faults /\ "restart" \notin Faults
  PROVE  Spec => LiftedByHand
<1> DEFINE Lifts == paused /\ ~paused' =>
              \E h \in Hands : ~HandFree(h) /\ ~(call[h].order = "resume" /\ call[h].again)
<1>1. CASE Hands = {Beat} /\ Lasting
  <2>1. ASSUME GInv, FlagInv, [Next]_vars, paused, ~paused'
        PROVE  \E h \in Hands : ~HandFree(h) /\ ~(call[h].order = "resume" /\ call[h].again)
    <3>1. CASE Flag(Beat)
      <4>1. ~HandFree(Beat)
        BY <3>1 DEF Flag, At
      <4> QED BY <1>1, <2>1, <4>1 DEF FlagInv, Again
    <3>2. CASE Restart
      <4>1. "ioerror" \notin Faults
        BY <1>1, <3>2 DEF Restart, Restarted, Fault, Lasting
      <4>2. At(Beat, "write") \/ At(Beat, "rename")
        BY <2>1, <3>2, <4>1 DEF Restart, Restarted, FlagInv, Filed
      <4>3. CInv
        BY <2>1, Parts DEF GInv, CInv
      <4>4. ~HandFree(Beat) /\ call[Beat].order # "resume"
        BY <4>2, <4>3, OrderOf DEF At, Pausing
      <4> QED BY <1>1, <4>4
    <3> QED BY <1>1, <2>1, <3>1, <3>2, LiftsAre
  <2>2. GInv /\ FlagInv /\ [Next]_vars => [Lifts]_vars
    BY <2>1
  <2> QED BY <1>1, <2>2, FlagsAlways, PTL DEF Spec, LiftedByHand
<1>2. CASE "ioerror" \notin Faults /\ "restart" \notin Faults
  <2>1. ASSUME GInv, Once, [Next]_vars, paused, ~paused'
        PROVE  \E h \in Hands : ~HandFree(h) /\ ~(call[h].order = "resume" /\ call[h].again)
    <3>1. ~Restart
      BY <1>2 DEF Restart, Restarted, Fault
    <3>2. PICK h \in Hands : Flag(h)
      BY <2>1, <3>1, LiftsAre
    <3>3. ~HandFree(h)
      BY <3>2 DEF Flag, At
    <3> QED BY <2>1, <3>3 DEF Once
  <2>2. GInv /\ Once /\ [Next]_vars => [Lifts]_vars
    BY <2>1
  <2>3. Init => Once
    BY DEF Init, Once, NoCall
  <2>4. GInv /\ Once /\ [Next]_vars => Once'
    BY <1>2, OnceStands
  <2> QED BY <2>2, <2>3, <2>4, GAlways, PTL DEF Spec, LiftedByHand
<1> QED BY <1>1, <1>2
=============================================================================
