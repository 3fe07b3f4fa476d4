-------------------------------- MODULE Daemon --------------------------------
(***************************************************************************)
(* The life of a daemon around its pool: cmd/namtrainerd, run, the first   *)
(* beat, the heartbeat and the asks it brings back, and the identity that  *)
(* keeps two daemons of one name apart (internal/store).  The library may  *)
(* be unreachable, not yet migrated, or migrated past what this build      *)
(* knows.  What a pool does with a run is Attempts', how the runtime is    *)
(* provisioned is Provision's, what a start kills is Recovery's affair.    *)
(***************************************************************************)
EXTENDS Trouble

CONSTANTS
  Daemons      \* the processes started under one worker name on one machine

ASSUME DaemonAssumption ==
  /\ None \notin Daemons /\ "stale" \notin Daemons
  /\ None \notin [by : Daemons, ready : BOOLEAN]

\* Faults here: "kill", a daemon dies; "session", the library drops its sessions, the one
\* that holds an identity among them.

VARIABLES
  library,     \* up; contract: none (not migrated), ours, moved; known: an address is set
  identity,    \* who holds the advisory lock: a daemon, a session nobody is behind, None
  row,         \* workers: who wrote it, ready
  daemon,      \* the main goroutine of each, and what it is ready by
  beat,        \* the beat under way in each of its goroutines
  child,       \* the trainers: none, its daemon's own, left by one that died
  lost,        \* a session was lost under a live daemon (history)
  robbed,      \* a start killed a live daemon's child (history)
  unsaid       \* a daemon ended without a farewell that arrived (history)

daemonVars ==
  <<library, identity, row, daemon, beat, child, lost, robbed, unsaid, faults>>
histories == <<lost, robbed, unsaid>>

Beaters == {"main", "loop", "prov"}
NoBeat == [at |-> "rest", sees |-> "error", ready |-> FALSE]
Asleep == [at |-> "down", stop |-> FALSE, profile |-> FALSE, schemaOK |-> FALSE,
           beats |-> FALSE]

DaemonInit ==
  /\ library \in [up : BOOLEAN, contract : {"none", "ours"}, known : BOOLEAN]
  /\ identity = None /\ row = None
  /\ daemon = [d \in Daemons |-> Asleep]
  /\ beat = [d \in Daemons |-> [b \in Beaters |-> NoBeat]]
  /\ child = [d \in Daemons |-> "none"]
  /\ lost = FALSE /\ robbed = FALSE /\ unsaid = FALSE /\ faults = 0

Goes(d, from, to) == daemon[d].at = from /\ daemon' = [daemon EXCEPT ![d].at = to]

\* The process ends: its goroutines with it, and its connections, unless it was killed.
Ended(d) ==
  /\ daemon' = [daemon EXCEPT ![d] = Asleep]
  /\ beat' = [beat EXCEPT ![d] = [b \in Beaters |-> NoBeat]]
  /\ identity' = IF identity = d THEN None ELSE identity

-----------------------------------------------------------------------------
(* The start.                                                              *)

\* launchd, systemd or a hand starts it.  With a menu to fix it from, an empty address
\* is waited out.
Launch(d) ==
  /\ Goes(d, "down", IF library.known THEN "open" ELSE "unset")
  /\ UNCHANGED <<library, identity, row, beat, child, histories, faults>>

\* SIGTERM, or the menu's Restart...
AskStop(d) ==
  /\ daemon[d].at # "down" /\ ~daemon[d].stop
  /\ daemon' = [daemon EXCEPT ![d].stop = TRUE]
  /\ UNCHANGED <<library, identity, row, beat, child, histories, faults>>

\* ...or its Setup, which is there before the library is.
Setup(d) ==
  /\ daemon[d].at # "down" /\ ~daemon[d].stop
  /\ daemon' = [daemon EXCEPT ![d].stop = TRUE]
  /\ library' = [library EXCEPT !.known = TRUE]
  /\ UNCHANGED <<identity, row, beat, child, histories, faults>>

\* Mutant: the wait for the library does not look at the context.
DeafToStop(d) ==
  /\ daemon[d].stop /\ daemon[d].at \in {"unset", "first"}
  /\ beat[d]["main"].at = "rest"
  /\ Ended(d)
  /\ UNCHANGED <<library, row, child, histories, faults>>

\* Whatever it waits for, a stop ends the wait.
StopsWaiting(d) ==
  /\ daemon[d].stop /\ daemon[d].at \in {"unset", "open", "first"}
  /\ beat[d]["main"].at = "rest"
  /\ Ended(d)
  /\ UNCHANGED <<library, row, child, histories, faults>>

\* store.Open, again every five seconds.
OpenLibrary(d) ==
  /\ library.up /\ ~daemon[d].stop
  /\ Goes(d, "open", "identity")
  /\ UNCHANGED <<library, identity, row, beat, child, histories, faults>>

\* Mutant: a name that is taken is taken over.
ClaimTaken(d) ==
  /\ Goes(d, "identity", "first")
  /\ identity' = d
  /\ UNCHANGED <<library, row, beat, child, histories, faults>>

\* ClaimIdentity: the name is free, or this process gives up, as it does when it cannot
\* ask.
ClaimIdentity(d) ==
  /\ daemon[d].at = "identity"
  /\ IF library.up /\ ~daemon[d].stop /\ identity = None
     THEN Goes(d, "identity", "first") /\ identity' = d /\ UNCHANGED beat
     ELSE Ended(d)
  /\ UNCHANGED <<library, row, child, histories, faults>>

\* pool.Start: what a life before left is killed, whoever it was.
Recover(d) ==
  /\ daemon[d].at = "recover"
  /\ IF library.up /\ ~daemon[d].stop
     THEN /\ Goes(d, "recover", "work")
          /\ robbed' = (robbed \/ \E e \in Daemons \ {d} : child[e] = "own")
          /\ child' = [e \in Daemons |-> "none"]
          /\ UNCHANGED <<identity, beat>>
     ELSE Ended(d) /\ UNCHANGED <<robbed, child>>
  /\ UNCHANGED <<library, row, lost, unsaid, faults>>

-----------------------------------------------------------------------------
(* The heartbeat.  A profile is there once provisioning is through.        *)

Says(d, b, from) == beat[d][b].at = from
Ready(d) == daemon[d].profile /\ daemon[d].schemaOK

\* awaitFirstBeat, the loop's ticker, and the one beat after provisioning.  A beat that
\* begins after a stop fails at its first query.
BeginBeat(d, b) ==
  /\ Says(d, b, "rest") /\ ~daemon[d].stop
  /\ \/ b = "main" /\ daemon[d].at = "first" /\ UNCHANGED daemon
     \/ b = "loop" /\ daemon[d].at = "work" /\ UNCHANGED daemon
     \/ /\ b = "prov" /\ daemon[d].beats
        /\ daemon' = [daemon EXCEPT ![d].beats = FALSE]
  /\ beat' = [beat EXCEPT ![d][b].at = "ask"]
  /\ UNCHANGED <<library, identity, row, child, histories, faults>>

\* QueueContract.
Answers(d) == library.up /\ ~daemon[d].stop /\ library.contract # "none"

AskContract(d, b) ==
  /\ Says(d, b, "ask")
  /\ beat' = [beat EXCEPT ![d][b].at = "judge",
                          ![d][b].sees = IF Answers(d) THEN library.contract ELSE "error"]
  /\ UNCHANGED <<library, identity, row, daemon, child, histories, faults>>

\* Mutant: what the first beat found stays.
JudgeOnce(d, b) ==
  /\ Says(d, b, "judge")
  /\ daemon' = [daemon EXCEPT ![d].schemaOK =
                  IF b = "main" THEN beat[d][b].sees = "ours"
                  ELSE @ /\ beat[d][b].sees = "ours"]
  /\ beat' = [beat EXCEPT ![d][b].at = "upsert",
                          ![d][b].ready = beat[d][b].sees = "ours" /\ daemon[d].profile]
  /\ UNCHANGED <<library, identity, row, child, histories, faults>>

\* What the contract says about claiming, and what the row will say about it.
Judge(d, b) ==
  /\ Says(d, b, "judge")
  /\ daemon' = [daemon EXCEPT ![d].schemaOK = beat[d][b].sees = "ours"]
  /\ beat' = [beat EXCEPT ![d][b].at = "upsert",
                          ![d][b].ready = beat[d][b].sees = "ours" /\ daemon[d].profile]
  /\ UNCHANGED <<library, identity, row, child, histories, faults>>

Upserted(d, b) ==
  /\ row' = [by |-> d, ready |-> beat[d][b].ready]
  /\ IF b = "main" THEN Goes(d, "first", "recover") ELSE UNCHANGED daemon

\* Mutant: the beat has a context of its own.
DetachedUpsert(d, b) ==
  /\ Says(d, b, "upsert")
  /\ beat' = [beat EXCEPT ![d][b] = NoBeat]
  /\ IF library.up /\ library.contract # "none" THEN Upserted(d, b) ELSE UNCHANGED <<row, daemon>>
  /\ UNCHANGED <<library, identity, child, histories, faults>>

\* store.Heartbeat: the row is written; a first beat is through.
Upsert(d, b) ==
  /\ Says(d, b, "upsert")
  /\ beat' = [beat EXCEPT ![d][b] = NoBeat]
  /\ IF Answers(d) THEN Upserted(d, b) ELSE UNCHANGED <<row, daemon>>
  /\ UNCHANGED <<library, identity, child, histories, faults>>

BeatStep(d, b) == AskContract(d, b) \/ Judge(d, b) \/ Upsert(d, b)

-----------------------------------------------------------------------------
(* Work, and its end.                                                      *)

\* provisionLoop has a runtime: the profile is set, and a beat says so.
Provisioned(d) ==
  /\ daemon[d].at = "work" /\ ~daemon[d].stop /\ ~daemon[d].profile
  /\ daemon' = [daemon EXCEPT ![d].profile = TRUE, ![d].beats = TRUE]
  /\ UNCHANGED <<library, identity, row, beat, child, histories, faults>>

\* A claim, and its child.
ClaimRun(d) ==
  /\ daemon[d].at = "work" /\ ~daemon[d].stop /\ Ready(d) /\ library.up
  /\ child[d] = "none"
  /\ child' = [child EXCEPT ![d] = "own"]
  /\ UNCHANGED <<library, identity, row, daemon, beat, histories, faults>>

EndRun(d) ==
  /\ daemon[d].at = "work" /\ child[d] = "own"
  /\ child' = [child EXCEPT ![d] = "none"]
  /\ UNCHANGED <<library, identity, row, daemon, beat, histories, faults>>

\* pool.Stop: no more rows are claimed...
StopPool(d) ==
  /\ daemon[d].stop /\ Goes(d, "work", "join")
  /\ UNCHANGED <<library, identity, row, beat, child, histories, faults>>

\* ...every child is killed, and every worker joined: its last writes have no deadline of
\* their own, and end with the answer or with their connection.
JoinPool(d) ==
  /\ Goes(d, "join", "farewell")
  /\ child' = [child EXCEPT ![d] = "none"]
  /\ UNCHANGED <<library, identity, row, beat, histories, faults>>

\* The last beat: not ready, with a deadline and a context of its own.
Farewell(d) ==
  /\ Goes(d, "farewell", "leave")
  /\ IF library.up /\ library.contract # "none"
     THEN row' = [by |-> d, ready |-> FALSE] /\ UNCHANGED unsaid
     ELSE unsaid' = TRUE /\ UNCHANGED row
  /\ UNCHANGED <<library, identity, beat, child, lost, robbed, faults>>

\* The deferred calls: the identity and the connections are let go.
Leave(d) ==
  /\ daemon[d].at = "leave"
  /\ Ended(d)
  /\ UNCHANGED <<library, row, child, histories, faults>>

Main(d) ==
  \/ Launch(d) \/ StopsWaiting(d) \/ OpenLibrary(d) \/ ClaimIdentity(d) \/ Recover(d)
  \/ StopPool(d) \/ JoinPool(d) \/ Farewell(d) \/ Leave(d)

-----------------------------------------------------------------------------
(* The rest.                                                               *)

\* A killed daemon's session is there until the library notices; its child stays.
Die(d) ==
  /\ daemon[d].at # "down" /\ Fault("kill")
  /\ daemon' = [daemon EXCEPT ![d] = Asleep]
  /\ beat' = [beat EXCEPT ![d] = [b \in Beaters |-> NoBeat]]
  /\ identity' = IF identity = d THEN "stale" ELSE identity
  /\ child' = [child EXCEPT ![d] = IF @ = "own" THEN "left" ELSE @]
  /\ unsaid' = TRUE
  /\ UNCHANGED <<library, row, lost, robbed>>

SessionNoticed ==
  /\ identity = "stale" /\ identity' = None
  /\ UNCHANGED <<library, row, daemon, beat, child, histories, faults>>

\* The library is restarted, or a connection dies while its daemon lives.
LoseSession ==
  /\ identity \in Daemons /\ Fault("session")
  /\ identity' = None /\ lost' = TRUE
  /\ UNCHANGED <<library, row, daemon, beat, child, robbed, unsaid>>

\* The network comes and goes, the application migrates.
Reachable ==
  /\ library' = [library EXCEPT !.up = ~@]
  /\ UNCHANGED <<identity, row, daemon, beat, child, histories, faults>>

Migrate ==
  /\ library.contract # "moved"
  /\ library' = [library EXCEPT !.contract = IF @ = "none" THEN "ours" ELSE "moved"]
  /\ UNCHANGED <<identity, row, daemon, beat, child, histories, faults>>

DaemonNext ==
  \/ \E d \in Daemons :
       \/ Main(d) \/ AskStop(d) \/ Setup(d)
       \/ \E b \in Beaters : BeginBeat(d, b) \/ BeatStep(d, b)
       \/ Provisioned(d) \/ ClaimRun(d) \/ EndRun(d) \/ Die(d)
  \/ SessionNoticed \/ LoseSession \/ Reachable \/ Migrate

DaemonSpec == DaemonInit /\ [][DaemonNext]_daemonVars

-----------------------------------------------------------------------------
(* Properties.                                                             *)

\* "One daemon per worker name, enforced by the database itself": no start kills the
\* trainer of a daemon that lives, as long as no session was lost.
NoFratricide == robbed => lost

\* jobs.worker references workers(name): nothing is claimed under a name that has no row,
\* in whatever order the library became reachable and was migrated.
RowBeforeRuns == (\E d \in Daemons : child[d] # "none") => row # None

\* "so the app sees the worker gone now": a row says ready only while its daemon is there,
\* unless one could not say farewell.
ReadyIsThere ==
  row # None /\ row.ready /\ ~unsaid =>
    \E d \in Daemons : daemon[d].at \in {"first", "recover", "work", "join", "farewell"}

\* The row is there before what refers to it, and says ready no longer than its daemon
\* is there to be.
RowTells == RowBeforeRuns /\ ReadyIsThere

\* "then this succeeds by itself": once the library stays reachable and ours and nobody
\* stops the daemons, one is ready in the end and its row says so, whatever it died of.
ComesReady ==
  <>[](library.up /\ library.contract = "ours" /\ library.known
         /\ \A d \in Daemons : ~daemon[d].stop)
    => <>[](row # None /\ row.ready /\ \E d \in Daemons : daemon[d].at = "work" /\ Ready(d))

\* A daemon that is asked to stop ends, wherever it is and whatever the library does.
StopEnds == \A d \in Daemons : daemon[d].stop ~> daemon[d].at = "down"

\* A schema this build does not know is claimed from no more.
MovedStops ==
  <>[](library.contract = "moved") => <>[](\A d \in Daemons : ~ENABLED ClaimRun(d))
=============================================================================
