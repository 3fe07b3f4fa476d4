------------------------------ MODULE Provision ------------------------------
(***************************************************************************)
(* internal/runtime, Provision: the python runtime is brought up step by   *)
(* step under a file lock, by daemons that may die at any step and that    *)
(* try again for ever (cmd/namtrainerd, provisionLoop).  The runtime       *)
(* directory outlives them; what a step finds there decides what it does.  *)
(***************************************************************************)
EXTENDS Trouble

CONSTANTS
  Provisioners,   \* the daemons on one runtime directory
  Interrupted     \* what a tar that is cut short may leave of python

ASSUME ProvisionAssumption ==
  /\ None \notin Provisioners
  /\ Interrupted \subseteq {"broken", "starts"} /\ Interrupted # {}

\* Faults here: "net", a download fails, stalls or does not match its digest; "step", a
\* command or a write fails, a probe of what is good among them (a stop cancels it); "kill",
\* a daemon dies with the command it runs.

VARIABLES
  tree,        \* the unpacked python: none, broken, starts (not whole), whole
  archive,     \* the verified tarball is there
  venv,        \* the environment: none, part, whole
  marker,      \* venv-nam-<pin>.ok
  driver,      \* trainer_driver.py: none, part, current
  signal,      \* the capture signal: none, bad, good
  lockedBy,    \* .provision.lock
  at,          \* each daemon's step
  misjudged    \* a check of something good failed (history)

provisionVars ==
  <<tree, archive, venv, marker, driver, signal, lockedBy, at, misjudged, faults>>
runtimeVars == <<tree, archive, venv, marker, driver, signal>>

Steps == {"python", "fetch", "unpack", "started", "venv", "create", "pip", "mark",
          "driver", "write", "signal", "profile"}

ProvisionInit ==
  /\ tree \in {"none", "broken", "whole"} /\ archive \in BOOLEAN
  /\ venv \in {"none", "part"} /\ marker \in BOOLEAN
  /\ driver \in {"none", "part"} /\ signal \in {"none", "bad"}
  /\ lockedBy = None
  /\ at = [d \in Provisioners |-> "down"]
  /\ misjudged = FALSE /\ faults = 0

Starts == tree \in {"starts", "whole"}
Step(d, from, to) == at[d] = from /\ at' = [at EXCEPT ![d] = to]

\* provisionLoop: the first try, and one more after each that failed.
Try(d) ==
  /\ at[d] \in {"down", "failed"}
  /\ at' = [at EXCEPT ![d] = "lock"]
  /\ UNCHANGED <<runtimeVars, lockedBy, misjudged, faults>>

\* Mutant: whoever finds the lock taken goes on without it.
LockIgnored(d) ==
  /\ Step(d, "lock", "python")
  /\ lockedBy' = IF lockedBy = None THEN d ELSE lockedBy
  /\ UNCHANGED <<runtimeVars, misjudged, faults>>

Lock(d) ==
  /\ lockedBy = None
  /\ Step(d, "lock", "python")
  /\ lockedBy' = d
  /\ UNCHANGED <<runtimeVars, misjudged, faults>>

\* A step fails: the error goes up, and the lock is let go.
Failed(d) ==
  /\ at' = [at EXCEPT ![d] = "failed"]
  /\ lockedBy' = None

Fail(d, kind) == Fault(kind) /\ Failed(d)

-----------------------------------------------------------------------------
(* Python.                                                                 *)

\* Mutant: an interpreter that is there is good.
TrustPython(d) ==
  /\ IF tree # "none" THEN Step(d, "python", "venv") /\ UNCHANGED tree
     ELSE Step(d, "python", "fetch") /\ tree' = "none"
  /\ UNCHANGED <<archive, venv, marker, driver, signal, lockedBy, misjudged, faults>>

\* A probe says what is good, or fails all the same.
Probed(good) == good /\ UNCHANGED <<misjudged, faults>>
Refuted(good) ==
  IF good THEN Fault("step") /\ misjudged' = TRUE ELSE UNCHANGED <<misjudged, faults>>

\* An interpreter that starts is trusted; anything else is dropped and unpacked anew.
CheckPython(d) ==
  /\ \/ Probed(Starts) /\ Step(d, "python", "venv") /\ UNCHANGED tree
     \/ Refuted(Starts) /\ Step(d, "python", "fetch") /\ tree' = "none"
  /\ UNCHANGED <<archive, venv, marker, driver, signal, lockedBy>>

\* Verified before it is renamed into place: what is there is good.
Fetch(d) ==
  /\ at[d] = "fetch"
  /\ \/ Step(d, "fetch", "unpack") /\ archive' = TRUE /\ UNCHANGED <<lockedBy, faults>>
     \/ ~archive /\ Fail(d, "net") /\ UNCHANGED archive
  /\ UNCHANGED <<tree, venv, marker, driver, signal, misjudged>>

\* tar writes the tree file by file...
BeginUnpack(d) ==
  /\ Step(d, "unpack", "started")
  /\ tree' = "broken"
  /\ UNCHANGED <<archive, venv, marker, driver, signal, lockedBy, misjudged, faults>>

\* ...and its result must start.
Unpacked(d) ==
  /\ at[d] = "started"
  /\ \/ Step(d, "started", "venv") /\ tree' = "whole" /\ UNCHANGED <<lockedBy, faults>>
     \/ Fail(d, "step") /\ tree' \in Interrupted
  /\ UNCHANGED <<archive, venv, marker, driver, signal, misjudged>>

-----------------------------------------------------------------------------
(* The environment.  Its python is the tree's.                             *)

Imports == venv = "whole" /\ Starts

\* The marker AND a live import; else the marker goes first.
CheckVenv(d) ==
  /\ \/ Probed(marker /\ Imports) /\ Step(d, "venv", "driver") /\ UNCHANGED marker
     \/ Refuted(marker /\ Imports) /\ Step(d, "venv", "create") /\ marker' = FALSE
  /\ UNCHANGED <<tree, archive, venv, driver, signal, lockedBy>>

\* python -m venv --clear wants a whole standard library.
CreateVenv(d) ==
  /\ at[d] = "create"
  /\ \/ tree = "whole" /\ Step(d, "create", "pip") /\ UNCHANGED <<lockedBy, faults>>
     \/ tree = "whole" /\ Fail(d, "step")
     \/ tree # "whole" /\ Failed(d) /\ UNCHANGED faults
  /\ venv' = "part"
  /\ UNCHANGED <<tree, archive, marker, driver, signal, misjudged>>

Pip(d) ==
  /\ at[d] = "pip"
  /\ \/ Step(d, "pip", "mark") /\ venv' = "whole" /\ UNCHANGED <<lockedBy, faults>>
     \/ Fail(d, "net") /\ UNCHANGED venv
  /\ UNCHANGED <<tree, archive, marker, driver, signal, misjudged>>

\* The marker is written only after pip succeeds.
Mark(d) ==
  /\ at[d] = "mark"
  /\ \/ Step(d, "mark", "driver") /\ marker' = TRUE /\ UNCHANGED <<lockedBy, faults>>
     \/ Fail(d, "step") /\ UNCHANGED marker
  /\ UNCHANGED <<tree, archive, venv, driver, signal, misjudged>>

-----------------------------------------------------------------------------
(* The driver, the signal and the profile.                                 *)

\* The driver is written on every start, in place.
BeginDriver(d) ==
  /\ Step(d, "driver", "write")
  /\ driver' = "part"
  /\ UNCHANGED <<tree, archive, venv, marker, signal, lockedBy, misjudged, faults>>

WriteDriver(d) ==
  /\ at[d] = "write"
  /\ \/ Step(d, "write", "signal") /\ driver' = "current" /\ UNCHANGED <<lockedBy, faults>>
     \/ Fail(d, "step") /\ UNCHANGED driver
  /\ UNCHANGED <<tree, archive, venv, marker, signal, misjudged>>

\* The signal is known by its digest, and replaced if it has another one.
EnsureSignal(d) ==
  /\ at[d] = "signal"
  /\ \/ Step(d, "signal", "profile") /\ signal' = "good" /\ UNCHANGED <<lockedBy, faults>>
     \/ signal # "good" /\ Fail(d, "net") /\ UNCHANGED signal
  /\ UNCHANGED <<tree, archive, venv, marker, driver, misjudged>>

\* import nam once more, for its version; then the lock is let go.
Profile(d) ==
  /\ at[d] = "profile"
  /\ \/ Imports /\ at' = [at EXCEPT ![d] = "ready"] /\ lockedBy' = None /\ UNCHANGED faults
     \/ Fail(d, "step")
  /\ UNCHANGED <<runtimeVars, misjudged>>

\* The daemon dies; the kernel lets its lock go.  What was being written stays as it is.
ProvisionerDies(d) ==
  /\ at[d] # "down" /\ Fault("kill")
  /\ at' = [at EXCEPT ![d] = "down"]
  /\ lockedBy' = IF lockedBy = d THEN None ELSE lockedBy
  /\ IF at[d] = "started" THEN tree' \in Interrupted ELSE UNCHANGED tree
  /\ UNCHANGED <<archive, venv, marker, driver, signal, misjudged>>

Works(d) ==
  \/ Try(d)
  \/ CheckPython(d) \/ Fetch(d) \/ BeginUnpack(d) \/ Unpacked(d)
  \/ CheckVenv(d) \/ CreateVenv(d) \/ Pip(d) \/ Mark(d)
  \/ BeginDriver(d) \/ WriteDriver(d) \/ EnsureSignal(d) \/ Profile(d)

ProvisionNext == \E d \in Provisioners : Works(d) \/ Lock(d) \/ ProvisionerDies(d)

ProvisionSpec == ProvisionInit /\ [][ProvisionNext]_provisionVars

-----------------------------------------------------------------------------
(* Properties.                                                             *)

\* "An flock serializes two daemons that might race the same runtime dir."
OneProvisions ==
  \A d, e \in Provisioners : at[d] \in Steps /\ at[e] \in Steps => d = e

\* A daemon that takes jobs has what a trainer runs on, unless another one was mistaken
\* about it since; only the driver may be in its hands, or left half written.
ReadyRuns ==
  \A d \in Provisioners : at[d] = "ready" /\ ~misjudged =>
    /\ Imports /\ signal = "good"
    /\ driver # "current" => faults > 0 \/ \E e \in Provisioners : at[e] = "write"

\* In the end every daemon is ready, whatever it found and wherever it or another one
\* died; "without the liveness probe" a broken tree "would be trusted forever".  A tree
\* that was cut short and starts all the same is: nothing that comes later mends it.
EndsReady ==
  <>[](tree # "starts") => <>[](\A d \in Provisioners : at[d] = "ready")
=============================================================================
