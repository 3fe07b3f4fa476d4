-------------------------------- MODULE CapAsk --------------------------------
(***************************************************************************)
(* How many trainings run at once is asked by the application in the       *)
(* worker's row and by a hand in the menu; the heartbeat takes the ask,    *)
(* the pool runs by it, the configuration keeps it for the next start      *)
(* (cmd/namtrainerd, beat, persistCap and the menu's SetCap;               *)
(* internal/store, Heartbeat and ConsumeCapWanted).  Two goroutines beat:  *)
(* the ticker's and, once, provisioning's.  A saving reads the pool's cap  *)
(* and writes it later; how the file is written, and Setup's saving, which *)
(* keeps the cap it read and ends in a restart, are ConfigFile's.          *)
(***************************************************************************)
EXTENDS Trouble

CONSTANT AskedCaps     \* the caps that may be asked for

ASSUME CapAskAssumption == AskedCaps \subseteq Nat \ {0}

\* Faults here: "statement", one fails, or is carried out and its answer is lost; "crash";
\* "diskfull", the saving fails, its re-reading of the file included.

VARIABLES
  asking,      \* workers.train_cap_wanted
  liveCap,     \* the pool's
  keptCap,     \* config.toml's
  taker,       \* where each goroutine is, the ask it holds and the cap it read
  meddled,     \* the cap was changed under an ask already applied (history)
  overtaken,   \* who is to write a cap the pool has left since he read it (history)
  unsaved      \* the last saving failed, or was of somebody overtaken (history)

capVars == <<asking, liveCap, keptCap, taker, meddled, overtaken, unsaved, faults>>

Takers == {"loop", "prov", "menu"}
Untaken == [at |-> "rest", wanted |-> None, read |-> None]

CapInit ==
  /\ asking \in AskedCaps \cup {None}
  /\ liveCap \in AskedCaps /\ keptCap = liveCap
  /\ taker = [t \in Takers |-> Untaken]
  /\ meddled = FALSE /\ overtaken = {} /\ unsaved = FALSE /\ faults = 0

At(t, from) == taker[t].at = from
Moves(t, to) == taker' = [taker EXCEPT ![t].at = to]

\* The pool's cap becomes n under everybody else's hands.
Becomes(n) ==
  /\ liveCap' = n
  /\ overtaken' = overtaken \cup {t \in Takers : n # liveCap /\ At(t, "save")}

\* The application asks, as often as it likes.
AskForCap ==
  /\ \E n \in AskedCaps : asking' = n
  /\ UNCHANGED <<liveCap, keptCap, taker, meddled, overtaken, unsaved, faults>>

\* The row is written, and what is asked comes back.
TakeAsk(t) ==
  /\ At(t, "rest") /\ t # "menu" /\ asking # None
  /\ taker' = [taker EXCEPT ![t] = [at |-> "apply", wanted |-> asking, read |-> None]]
  /\ UNCHANGED <<asking, liveCap, keptCap, meddled, overtaken, unsaved, faults>>

\* Another beat has applied an ask and not cleared it yet.
OtherHolds(t) == \E o \in Takers \ {t, "menu"} : taker[o].at \in {"read", "save", "consume"}

\* Mutant: an ask for the cap there is needs nothing at all.
ApplyChange(t) ==
  /\ At(t, "apply")
  /\ Moves(t, IF taker[t].wanted = liveCap THEN "rest" ELSE "read")
  /\ Becomes(taker[t].wanted)
  /\ meddled' = OtherHolds(t)
  /\ UNCHANGED <<asking, keptCap, unsaved, faults>>

\* An ask for the cap there is needs no saving.
ApplyAsk(t) ==
  /\ At(t, "apply")
  /\ Moves(t, IF taker[t].wanted = liveCap THEN "consume" ELSE "read")
  /\ Becomes(taker[t].wanted)
  /\ meddled' = OtherHolds(t)
  /\ UNCHANGED <<asking, keptCap, unsaved, faults>>

\* The menu's.
CapByHand ==
  /\ At("menu", "rest")
  /\ \E n \in AskedCaps \ {liveCap} : Becomes(n)
  /\ Moves("menu", "read")
  /\ meddled' = TRUE
  /\ UNCHANGED <<asking, keptCap, unsaved, faults>>

\* Mutant: what was asked is kept, whatever the pool runs by meanwhile.
ReadAsked(t) ==
  /\ At(t, "read")
  /\ taker' = [taker EXCEPT ![t].at = "save",
                            ![t].read = IF t = "menu" THEN liveCap ELSE taker[t].wanted]
  /\ UNCHANGED <<asking, liveCap, keptCap, meddled, overtaken, unsaved, faults>>

\* persistCap reads the pool's cap, not the ask.
ReadCap(t) ==
  /\ At(t, "read")
  /\ taker' = [taker EXCEPT ![t].at = "save", ![t].read = liveCap]
  /\ UNCHANGED <<asking, liveCap, keptCap, meddled, overtaken, unsaved, faults>>

\* The menu's order ends here; a beat has its ask to clear.
Saved(t) ==
  taker' = [taker EXCEPT ![t] = IF t = "menu" THEN Untaken
                                ELSE [at |-> "consume", wanted |-> @.wanted, read |-> None]]

\* It writes what it read, and a saving that fails is only logged.
SaveCap(t) ==
  /\ At(t, "save")
  /\ Saved(t)
  /\ overtaken' = overtaken \ {t}
  /\ \/ keptCap' = taker[t].read /\ unsaved' = (t \in overtaken) /\ UNCHANGED faults
     \/ Fault("diskfull") /\ unsaved' = TRUE /\ UNCHANGED keptCap
  /\ UNCHANGED <<asking, liveCap, meddled>>

\* Mutant: whatever is asked by now is done with.
ConsumeAnything(t) ==
  /\ At(t, "consume")
  /\ asking' = None
  /\ taker' = [taker EXCEPT ![t] = Untaken]
  /\ UNCHANGED <<liveCap, keptCap, meddled, overtaken, unsaved, faults>>

\* ConsumeCapWanted, guarded by the value; what is not cleared is asked again.
ConsumeAsk(t) ==
  LET cleared == IF asking = taker[t].wanted THEN None ELSE asking IN
  /\ At(t, "consume")
  /\ \/ asking' = cleared /\ UNCHANGED faults
     \/ Fault("statement") /\ asking' \in {asking, cleared}
  /\ taker' = [taker EXCEPT ![t] = Untaken]
  /\ UNCHANGED <<liveCap, keptCap, meddled, overtaken, unsaved>>

\* The next life starts with what was kept.
RestartWithKept ==
  /\ Fault("crash")
  /\ liveCap' = keptCap
  /\ taker' = [t \in Takers |-> Untaken]
  /\ overtaken' = {} /\ unsaved' = FALSE
  /\ UNCHANGED <<asking, keptCap, meddled>>

TakerStep(t) == TakeAsk(t) \/ ApplyAsk(t) \/ ReadCap(t) \/ SaveCap(t) \/ ConsumeAsk(t)

CapNext ==
  \/ AskForCap \/ CapByHand \/ RestartWithKept
  \/ \E t \in Takers : TakerStep(t)

CapSpec == CapInit /\ [][CapNext]_capVars

-----------------------------------------------------------------------------
(* Properties.                                                             *)

\* "an ask that changed in between is not lost": an ask is cleared when the pool runs by
\* it, unless a hand or the other beat has changed that since.
CapAskIsTaken ==
  [][asking # None /\ asking' = None => liveCap = asking \/ meddled]_capVars

\* "so the next boot keeps it": with nobody at it, the cap the next start reads is the one
\* the pool runs by, whoever changed it between an ask and its saving, unless the saving
\* that came last failed or was overtaken between its own read and its write.
KeptIsLive ==
  (\A t \in Takers : taker[t].at \notin {"read", "save"}) /\ ~unsaved => keptCap = liveCap

\* An ask is answered, an ask for the cap there already is included.
AskIsAnswered == \A n \in AskedCaps : asking = n ~> asking # n
=============================================================================
