------------------------------- MODULE Trouble -------------------------------
(* What the environment may do wrong, as a set of named faults with a common *)
(* budget: an instance says which of them it checks and how often.           *)
EXTENDS Naturals

CONSTANTS
  Faults,      \* the kinds of trouble this instance lets happen
  MaxFaults,   \* how often, all kinds together
  None         \* NULL, nil, nothing

ASSUME TroubleAssumption == MaxFaults \in Nat /\ None \notin Nat

VARIABLE faults

Fault(kind) ==
  /\ kind \in Faults
  /\ faults < MaxFaults
  /\ faults' = faults + 1
=============================================================================
