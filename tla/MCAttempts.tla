----------------------------- MODULE MCAttempts -----------------------------
(* Small instances of Attempts: a take trained and continued, and a probe.  *)
EXTENDS Attempts, TLC

CONSTANTS first, more, probe, take, t1, t2

MCTakes == {take}

\* A training and its continuation, on one take.
TwoRuns == {first, more}
TwoRunsTake == [j \in TwoRuns |-> take]
TwoRunsKind == first :> "train" @@ more :> "train_more"
TwoRunsEpochs == first :> 1 @@ more :> 2

\* One training of two epochs.
OneRun == {first}
OneRunTake == first :> take
OneRunKind == first :> "train"
OneRunEpochs == first :> 2

\* One training of one epoch.
ShortRun == {first}
ShortRunTake == OneRunTake
ShortRunKind == OneRunKind
ShortRunEpochs == first :> 1

\* A training of one epoch or a probe.
OneOfTwo == {first, probe}
OneOfTwoTake == [j \in OneOfTwo |-> take]
OneOfTwoKind == first :> "train" @@ probe :> "probe_self"
OneOfTwoEpochs == [j \in OneOfTwo |-> 1]

TwoTokens == {t1, t2}

\* One of the two has failed before, whichever, and the other is yet to be queued.
OneInit ==
  /\ \E past \in Jobs : row = [[j \in Jobs |-> NoRow] EXCEPT ![past].state = "failed"]
  /\ ckpt = [k \in Takes |-> NoWeights]
  /\ locked = [j \in Jobs |-> NoToken]
  /\ att = [t \in Tokens |-> Unused]
  /\ faults = 0

\* Claim tokens are as good as one another, so that they can be taken in turn.
InTurn == {t \in Tokens : t = t2 => att[t1].phase # "none"}

\* Next, with the tokens in turn.
OneNext ==
  \/ \E j \in Jobs : Application(j) \/ Close(j) \/ MarkSilent(j) \/ MarkSlow(j)
  \/ \E j \in Jobs : \E t \in InTurn : Claim(j, t) \/ ClaimUnheard(j, t)
  \/ \E t \in Tokens : Saver(t) \/ Reader(t) \/ Child(t) \/ Trouble(t)

\* Fairness, when there is one job to be fair to.
OneFairness ==
  /\ WF_vars(\E j \in Jobs : Close(j)) /\ WF_vars(\E j \in Jobs : MarkSilent(j))
  /\ WF_vars(\E j \in Jobs : \E t \in Tokens : Claim(j, t))
  /\ \A t \in Tokens : WF_vars(Saver(t)) /\ WF_vars(Reader(t))

OneSpec == OneInit /\ [][OneNext]_vars /\ OneFairness

Symmetry == Permutations(Tokens)
=============================================================================
