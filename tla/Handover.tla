------------------------------ MODULE Handover ------------------------------
(***************************************************************************)
(* What the shared library promises about a run that may pass from one     *)
(* trainer to another: at any time at most one claim may put weights on a  *)
(* take, a claim that was let go never comes back, an outcome is final,    *)
(* and a cancelled job leaves no weights behind.                           *)
(*                                                                         *)
(* Attempts implements it: see HandoverSpec there.                         *)
(***************************************************************************)
CONSTANTS Jobs, Takes, Tokens, NoJob, NoToken, TakeOf

VARIABLES
  stage,     \* stage[j]: not queued yet, open, or how it ended
  holder,    \* holder[j]: the claim that may keep weights for job j now
  spent,     \* the claims that were ever made
  kept       \* kept[k]: whose weights are on take k, by job and claim

vars == <<stage, holder, spent, kept>>

Nothing == [job |-> NoJob, token |-> NoToken]

Init ==
  /\ stage = [j \in Jobs |-> "absent"]
  /\ holder = [j \in Jobs |-> NoToken]
  /\ spent = {}
  /\ kept = [k \in Takes |-> Nothing]

\* One open job per take.
Offer(j) ==
  /\ stage[j] = "absent"
  /\ \A i \in Jobs : TakeOf[i] = TakeOf[j] => stage[i] # "open"
  /\ stage' = [stage EXCEPT ![j] = "open"]
  /\ UNCHANGED <<holder, spent, kept>>

\* A fresh claim, on a job nobody holds.
TakeUp(j, t) ==
  /\ stage[j] = "open" /\ holder[j] = NoToken
  /\ t \notin spent
  /\ holder' = [holder EXCEPT ![j] = t]
  /\ spent' = spent \cup {t}
  /\ UNCHANGED <<stage, kept>>

LetGo(j) ==
  /\ holder[j] # NoToken
  /\ holder' = [holder EXCEPT ![j] = NoToken]
  /\ UNCHANGED <<stage, spent, kept>>

Keep(j) ==
  /\ holder[j] # NoToken
  /\ kept' = [kept EXCEPT ![TakeOf[j]] = [job |-> j, token |-> holder[j]]]
  /\ UNCHANGED <<stage, holder, spent>>

End(j) ==
  /\ stage[j] = "open"
  /\ \E how \in {"succeeded", "failed"} : stage' = [stage EXCEPT ![j] = how]
  /\ holder' = [holder EXCEPT ![j] = NoToken]
  /\ UNCHANGED <<spent, kept>>

Cancel(j) ==
  /\ stage[j] = "open"
  /\ stage' = [stage EXCEPT ![j] = "cancelled"]
  /\ holder' = [holder EXCEPT ![j] = NoToken]
  /\ kept' \in {kept, [kept EXCEPT ![TakeOf[j]] = Nothing]}
  /\ kept'[TakeOf[j]].job # j
  /\ UNCHANGED spent

Next == \E j \in Jobs :
  \/ Offer(j) \/ LetGo(j) \/ Keep(j) \/ End(j) \/ Cancel(j)
  \/ \E t \in Tokens : TakeUp(j, t)

Spec == Init /\ [][Next]_vars
=============================================================================
