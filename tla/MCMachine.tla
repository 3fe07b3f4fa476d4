------------------------------ MODULE MCMachine ------------------------------
(***************************************************************************)
(* The goroutines of a daemon: its start and end with its heartbeats, the  *)
(* provisioning of its runtime, its lanes, the supervision of one child,   *)
(* the caps it is asked for.  They share no state here (what the modules   *)
(* say of one another is a flag), so that a behaviour of this instance is  *)
(* a behaviour of one of them, chosen at the start.  The daemon has two    *)
(* instances: one daemon and a library that comes and goes, and one beside *)
(* a second process of its name on a library that stays.                   *)
(***************************************************************************)
EXTENDS Supervise, Provision, Lanes, Daemon, CapAsk

CONSTANTS d1, d2

VARIABLE part

MCDaemons == {d1, d2}

superviseOnly == <<lane, trainer, unread, reader, watchdog, queries, ending, why>>
provisionOnly == <<tree, archive, venv, marker, driver, signal, lockedBy, at, misjudged>>
lanesOnly ==
  <<cap, shut, worker, hand, waiting, left, counting, held, unpublished, overLeft>>
daemonOnly == <<library, identity, row, daemon, beat, child, lost, robbed, unsaid>>
capOnly == <<asking, liveCap, keptCap, taker, meddled, overtaken, unsaved>>
machineVars ==
  <<part, faults, superviseOnly, provisionOnly, lanesOnly, daemonOnly, capOnly>>

\* The other parts stay as they are.
Only(names) ==
  /\ part \in names /\ UNCHANGED part
  /\ "supervise" \notin names => UNCHANGED superviseOnly
  /\ "provision" \notin names => UNCHANGED provisionOnly
  /\ "lanes" \notin names => UNCHANGED lanesOnly
  /\ "daemon" \notin names => UNCHANGED daemonOnly
  /\ "cap" \notin names => UNCHANGED capOnly

Parts == {"supervise", "provision", "lanes", "daemon", "rivals", "cap"}

\* A part that is not chosen has one initial state.
MCInit ==
  /\ part \in Parts
  /\ SuperviseInit /\ ProvisionInit /\ LanesInit /\ DaemonInit /\ CapInit
  /\ part # "supervise" => lane = "train"
  /\ part # "provision" =>
       /\ tree = "none" /\ ~archive /\ venv = "none" /\ ~marker
       /\ driver = "none" /\ signal = "none"
  /\ waiting["probe"] = 0 /\ left["probe"] = 0 /\ waiting["train"] + left["train"] <= 1
  /\ part # "lanes" => cap = 1 /\ ~shut /\ waiting["train"] = 0 /\ left["train"] = 0
  /\ part # "daemon" =>
       library = [up |-> part = "rivals", contract |-> "ours", known |-> TRUE]
  /\ part # "cap" => asking = None /\ liveCap = 1

\* The second process only starts and works: it is never provisioned, nor asked to stop.
Rivals ==
  /\ library' = library
  /\ ~daemon'[d2].profile /\ ~daemon'[d2].stop
  /\ \A d \in Daemons : beat'[d]["prov"].at = "rest"

\* Without a rival a lost session changes nothing.
Alone == daemon'[d2].at = "down" /\ ~lost'

\* One row waits or is left, and the probe lane has nothing to do.
OneRow ==
  /\ waiting'["train"] + left'["train"] <= 1
  /\ waiting'["probe"] = 0 /\ worker'[[lane |-> "probe", idx |-> 0]] = "idle"

\* Only a probe prints a failed check: to a training it is text.
ProbesFail ==
  lane = "train" => \A i \in DOMAIN unread' : unread'[i] # "checkfail"

\* Any two of those who change the cap are at it at once, not all three.
TwoAtOnce == \E t \in Takers : taker'[t].at = "rest"

MCNext ==
  \/ Only({"supervise"}) /\ SuperviseNext /\ ProbesFail
  \/ Only({"provision"}) /\ ProvisionNext
  \/ Only({"lanes"}) /\ LanesNext /\ OneRow
  \/ Only({"daemon", "rivals"}) /\ DaemonNext /\ IF part = "rivals" THEN Rivals ELSE Alone
  \/ Only({"cap"}) /\ CapNext /\ TwoAtOnce

\* The reader and the timers are goroutines of a live daemon, time passes, and a library
\* that hangs comes back or its connection dies.  The trainer owes nothing.
SuperviseFairness ==
  LET on == part = "supervise" IN
  /\ WF_superviseVars(on /\ Reads) /\ WF_superviseVars(on /\ Tick)
  /\ WF_superviseVars(on /\ Stall) /\ WF_superviseVars(on /\ Shutdown)
  /\ WF_superviseVars(on /\ Recovers)

\* provisionLoop goes on, a command ends, and the lock is polled.
ProvisionFairness ==
  \A d \in Provisioners :
    /\ WF_provisionVars(part = "provision" /\ Works(d))
    /\ WF_provisionVars(part = "provision" /\ Lock(d))

\* The loops run, a run ends (the stall watchdog sees to that), and who has the mutex
\* lets it go: each of its queries carries a deadline.
LanesFairness ==
  /\ \A w \in Workers :
       WF_lanesVars(part = "lanes" /\ (Claim(w) \/ Close(w) \/ Publish(w)))
  /\ \A h \in Callers : WF_lanesVars(part = "lanes" /\ Publish(h))
  /\ \A p \in Publishers : SF_lanesVars(part = "lanes" /\ Count(p))

\* Its supervisor starts it, its goroutines run, the statements of a beat have a deadline,
\* the last writes a stop waits for end with their connection at the latest, a runtime is
\* provisioned in the end (Provision), and a dead session is noticed.
DaemonFairness ==
  /\ WF_daemonVars(part = "daemon" /\ Main(d1))
  /\ WF_daemonVars(part = "daemon" /\ Provisioned(d1))
  /\ \A b \in Beaters :
       WF_daemonVars(part = "daemon" /\ (BeginBeat(d1, b) \/ BeatStep(d1, b)))
  /\ WF_daemonVars(part = "daemon" /\ SessionNoticed)

\* Beats follow one another, and each of their statements has a deadline.
CapFairness == \A t \in Takers : WF_capVars(part = "cap" /\ TakerStep(t) /\ TwoAtOnce)

MCFairness ==
  SuperviseFairness /\ ProvisionFairness /\ LanesFairness /\ DaemonFairness /\ CapFairness

\* EndsReady, StopEnds, and what a daemon claims by, of the part they are about.
MCEndsReady == part = "provision" => EndsReady
MCClaimsFollow == part = "daemon" => ComesReady /\ MovedStops
MCStopEnds == part = "daemon" => StopEnds

MCSpec == MCInit /\ [][MCNext]_machineVars /\ MCFairness
=============================================================================
