-------------------------------- MODULE Keeping --------------------------------
(***************************************************************************)
(* What becomes of the epochs a take is trained, from one attempt to the   *)
(* next: an attempt starts where the take stands and nowhere else, what is *)
(* kept was trained and adds to what the attempt found, and what was       *)
(* trained and not kept is lost when the next one starts.                  *)
(*                                                                         *)
(* CkptSaver implements it with one run's files, goroutines and answers    *)
(* (SaverKeeping), Attempts with claims, fences and many takes             *)
(* (TakesKeep): it is where the two models of one checkpoint writer agree. *)
(***************************************************************************)
EXTENDS Naturals

VARIABLES
  base,      \* the epochs the attempt under way started from
  done,      \* the epochs it has behind it
  held       \* the epochs of the weights the library holds

vars == <<base, done, held>>

Init == base = 0 /\ done = 0 /\ held = 0

Train == done' = done + 1 /\ UNCHANGED <<base, held>>

\* While a checkpoint is rotated the older one may be all there is, and is kept.
Put == held' \in (base + 1)..done /\ UNCHANGED <<base, done>>

\* The next attempt, or none.
Again == base' = held /\ done' = held /\ UNCHANGED held

\* The weights of a cancelled job are moved aside.
Clear == base' = 0 /\ done' = 0 /\ held' = 0

Next == Train \/ Put \/ Again \/ Clear

Spec == Init /\ [][Next]_vars
=============================================================================
