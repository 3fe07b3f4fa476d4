---------------------------- MODULE CkptSaverProofs ----------------------------
(***************************************************************************)
(* What the saver leaves in the library, for any number of epochs, figures *)
(* and attempts, kills, crashes and lost answers, and with a directory     *)
(* that changes at every step under the one who reads it: a figure belongs *)
(* to the epoch of the weights it stands beside (FigureOfEpoch), the best  *)
(* pair is replaced only by a better one (BestStands) and held back only   *)
(* where the library has it (SentIsKept), no attempt puts a take back      *)
(* behind its start (GroundHolds), and the run of attempts is one of       *)
(* Keeping (SaverKeeping).                                                 *)
(*                                                                         *)
(* None of them is inductive.  A figure passes four hands on its way, each *)
(* of which says which epoch it is of (FiguresTell); whatever the saver    *)
(* saw or holds is of this attempt, and so past its base (SeenIsNew).      *)
(***************************************************************************)
EXTENDS CkptSaver, FiniteSetTheorems, TLAPS

\* Nothing trains past the last epoch.
Trains == child.at # "out" => child.epoch < Epochs

SaverTells ==
  /\ saver.at \in {"best", "last", "figure"} /\ saver.esr # None => saver.esr.epoch = saver.epoch
  /\ saver.at \in {"figure", "put"} => saver.last # None
  /\ saver.at = "put" /\ saver.esr # None => saver.esr.epoch = saver.last.reached - 1

FiguresTell ==
  /\ \A n \in 0..Epochs - 1 : figures[n] # None => figures[n].epoch = n
  /\ nudge.esr # None => nudge.esr.epoch = nudge.epoch
  /\ SaverTells

SaverSees ==
  /\ saver.pick # None => saver.pick.epoch >= child.base
  /\ \A n \in saver.cands : n.epoch >= child.base
  /\ saver.best # None => saver.best.reached > child.base
  /\ saver.last # None => saver.last.reached > child.base

SeenIsNew ==
  /\ child.base <= child.epoch
  /\ \A f \in files : f.name.epoch >= child.base
  /\ SaverSees

SaverInv ==
  /\ SaverTypeOK /\ Trains /\ FiguresTell /\ SeenIsNew
  /\ FigureOfEpoch /\ SentIsKept /\ GroundHolds

-----------------------------------------------------------------------------
(* What the helpers return.                                                *)

LEMMA Starting ==
  ASSUME NEW n \in 0..Epochs
  PROVE  /\ Started(n).at \in {"train", "out"} /\ Started(n).epoch = n /\ Started(n).base = n
         /\ Started(n).esr = None
         /\ Started(n) \in [at : {"train", "out"}, epoch : 0..Epochs, base : 0..Epochs,
                            esr : Esrs \cup {Nan, None}]
         /\ Started(n).at # "out" => n < Epochs
BY CkptSaverAssumption DEF Started

LEMMA Naming ==
  ASSUME SaverTypeOK, Trains, child.at # "out", NEW kind \in {"best", "last"}
  PROVE  Now(kind) \in PairName /\ Now(kind).epoch = child.epoch
<1>1. child.epoch \in 0..Epochs /\ child.esr \in Esrs \cup {Nan, None}
  BY DEF SaverTypeOK
<1>2. child.epoch \in 0..Epochs - 1
  BY <1>1, CkptSaverAssumption DEF Trains
<1> QED BY <1>1, <1>2 DEF Now, PairName

LEMMA Listing ==
  ASSUME SaverTypeOK, SeenIsNew, NEW kind
  PROVE  \A n \in Names(kind) : n \in PairName /\ n.epoch >= child.base
<1>1. \A f \in files : f.name \in PairName
  BY DEF SaverTypeOK
<1> QED BY <1>1 DEF SeenIsNew, Names

LEMMA Reading ==
  ASSUME NEW n \in PairName
  PROVE  ReadPair(n) \in Pair /\ ReadPair(n).reached = n.epoch + 1 /\ ReadPair(n) # None
<1>1. n.epoch \in 0..Epochs - 1 /\ n.esr \in Esrs \cup {Nan, None}
  BY DEF PairName
<1>2. n.epoch + 1 \in 1..Epochs
  BY <1>1, CkptSaverAssumption
<1>3. (IF n.esr \in Nat /\ n.esr > 0 THEN n.esr ELSE None) \in Esrs \cup {None}
  BY <1>1, CkptSaverAssumption, TroubleAssumption
<1>4. ReadPair(n) \in Pair
  BY <1>2, <1>3 DEF ReadPair, Pair
<1> QED BY <1>4, CkptSaverAssumption DEF ReadPair

\* The merge keeps what is there or takes what is better.
LEMMA Merging ==
  ASSUME NEW kept \in Pair \cup {None}, NEW offered \in Pair \cup {None}
  PROVE  /\ Merged(kept, offered) \in Pair \cup {None}
         /\ kept # None /\ kept.esr # None =>
              /\ Merged(kept, offered) # None /\ Merged(kept, offered).esr # None
              /\ Merged(kept, offered).esr <= kept.esr
         /\ offered # None /\ offered.esr # None =>
              /\ Merged(kept, offered) # None /\ Merged(kept, offered).esr # None
              /\ Merged(kept, offered).esr <= offered.esr
<1>1. kept # None /\ kept.esr # None => kept.esr \in Nat
  BY CkptSaverAssumption DEF Pair
<1>2. offered # None /\ offered.esr # None => offered.esr \in Nat
  BY CkptSaverAssumption DEF Pair
<1> QED BY <1>1, <1>2 DEF Merged

-----------------------------------------------------------------------------
(* The steps of the trainer, of those who kill or stop it, and of the      *)
(* reader where it records nothing: the saver and the library stay.        *)

Child ==
  [at : {"train", "best", "in best", "drop", "last", "in last", "rotate", "out"},
   epoch : 0..Epochs, base : 0..Epochs, esr : Esrs \cup {Nan, None}]
FileRec == [name : PairName, whole : BOOLEAN]

\* What such a step may do to the directory, the trainer and its output.
DiskMoves ==
  /\ child' \in Child /\ child'.base = child.base /\ child'.epoch >= child.epoch
  /\ Trains'
  /\ files' \subseteq FileRec /\ \A f \in files' : f.name.epoch >= child.base
  /\ pipe' \in Seq(Figure)

LEMMA Sizes == Epochs \in Nat /\ Epochs > 0
BY CkptSaverAssumption

LEMMA ChildNumbers ==
  ASSUME NEW c \in Child
  PROVE  c.epoch \in Nat /\ c.epoch <= Epochs /\ c.base \in Nat
<1>1. c.epoch \in 0..Epochs /\ c.base \in 0..Epochs
  BY DEF Child
<1> QED BY <1>1, Sizes

\* The types a step of the trainer starts from.
LEMMA DiskTypes ==
  ASSUME SaverTypeOK
  PROVE  /\ child \in Child /\ files \subseteq FileRec /\ pipe \in Seq(Figure)
         /\ asked \in {None} \cup 0..Epochs - 1 /\ marred \in BOOLEAN
         /\ faults \in 0..MaxFaults
BY DEF SaverTypeOK, Child, FileRec

LEMMA DiskKeeps ==
  ASSUME SaverInv, DiskMoves, UNCHANGED <<attempt, nudge, saver, take, figures>>,
         asked' \in {None} \cup 0..Epochs - 1, faults' \in 0..MaxFaults, marred' \in BOOLEAN
  PROVE  SaverInv'
<1> USE DEF SaverInv, DiskMoves
<1>1. SaverTypeOK'
  <2>1. nudge' = nudge /\ saver' = saver /\ take' = take /\ figures' = figures /\ attempt' = attempt
    OBVIOUS
  <2> QED BY <2>1 DEF SaverTypeOK, Child, FileRec
<1>2. FiguresTell' /\ FigureOfEpoch' /\ SentIsKept' /\ GroundHolds'
  BY DEF FiguresTell, SaverTells, FigureOfEpoch, SentIsKept, GroundHolds
<1>3. child.base \in Nat /\ child.epoch \in Nat /\ child'.epoch \in Nat
  BY DiskTypes, ChildNumbers
<1>4. SeenIsNew'
  BY <1>3 DEF SeenIsNew, SaverSees
<1> QED BY <1>1, <1>2, <1>4

LEMMA Faulty ==
  ASSUME SaverTypeOK, NEW kind, Fault(kind)
  PROVE  faults' \in 0..MaxFaults
<1>1. faults \in 0..MaxFaults
  BY DEF SaverTypeOK
<1> QED BY <1>1, TroubleAssumption DEF Fault

LEMMA ValidateKeeps ==
  ASSUME SaverInv, Validate
  PROVE  SaverInv'
<1> USE DEF Validate, libraryVars
<1>1. SaverTypeOK /\ Trains /\ SeenIsNew
  BY DEF SaverInv
<1>2. PICK v \in Validations :
        /\ child' = [child EXCEPT !.at = "best", !.esr = v]
        /\ pipe' = Append(pipe, [epoch |-> child.epoch, esr |-> v])
  OBVIOUS
<1>3. v \in Esrs \cup {Nan}
  BY DEF Validations
<1>4. child \in Child /\ child.epoch \in 0..Epochs - 1
  <2>1. child \in Child /\ child.epoch < Epochs
    BY <1>1, DiskTypes DEF Trains
  <2> QED BY <2>1, ChildNumbers, Sizes
<1>5. [epoch |-> child.epoch, esr |-> v] \in Figure
  BY <1>3, <1>4 DEF Figure
<1>6. pipe' \in Seq(Figure)
  BY <1>1, <1>2, <1>5, DiskTypes
<1>7. child' \in Child /\ child'.base = child.base /\ child'.epoch = child.epoch
  BY <1>2, <1>3, <1>4 DEF Child
<1>8. DiskMoves
  BY <1>1, <1>4, <1>6, <1>7, DiskTypes, CkptSaverAssumption
  DEF DiskMoves, Trains, SeenIsNew, FileRec, PairName
<1> QED BY <1>1, <1>8, DiskKeeps, DiskTypes

LEMMA BeginKeeps ==
  ASSUME SaverInv, NEW kind \in {"best", "last"}, Begin(kind)
  PROVE  SaverInv'
<1> USE DEF Begin, libraryVars
<1>1. SaverTypeOK /\ Trains /\ SeenIsNew
  BY DEF SaverInv
<1>2. Now(kind) \in PairName /\ Now(kind).epoch = child.epoch
  BY <1>1, Naming
<1>3. File(Now(kind), FALSE) \in FileRec /\ File(Now(kind), FALSE).name.epoch = child.epoch
  BY <1>2 DEF File, FileRec
<1>4. child \in Child /\ child.epoch < Epochs
  BY <1>1, DiskTypes DEF Trains
<1>5. child' \in Child /\ child'.base = child.base /\ child'.epoch = child.epoch
  BY <1>4 DEF Child, Writing
<1>6. child.epoch \in Nat /\ child.base \in Nat
  BY <1>4, ChildNumbers
<1>7. files' \subseteq FileRec /\ \A f \in files' : f.name.epoch >= child.base
  BY <1>1, <1>3, <1>6, DiskTypes DEF SeenIsNew
<1>8. DiskMoves
  <2>1. Trains' /\ child'.epoch >= child.epoch
    BY <1>4, <1>5, <1>6 DEF Trains
  <2>2. pipe' \in Seq(Figure)
    BY <1>1, DiskTypes
  <2> QED BY <1>5, <1>7, <2>1, <2>2 DEF DiskMoves
<1> QED BY <1>1, <1>8, DiskKeeps, DiskTypes

LEMMA CompleteKeeps ==
  ASSUME SaverInv, NEW kind \in {"best", "last"}, NEW next \in {"drop", "rotate"},
         Complete(kind, next)
  PROVE  SaverInv'
<1> USE DEF Complete, libraryVars
<1>1. SaverTypeOK /\ Trains /\ SeenIsNew
  BY DEF SaverInv
<1>2. child.at # "out"
  BY DEF Writing
<1>3. Now(kind) \in PairName /\ Now(kind).epoch = child.epoch
  BY <1>1, <1>2, Naming
<1>4. File(Now(kind), TRUE) \in FileRec /\ File(Now(kind), TRUE).name.epoch = child.epoch
  BY <1>3 DEF File, FileRec
<1>5. child \in Child /\ child.epoch < Epochs
  BY <1>1, <1>2, DiskTypes DEF Trains
<1>6. child' \in Child /\ child'.base = child.base /\ child'.epoch = child.epoch
  BY <1>5 DEF Child
<1>7. child.epoch \in Nat /\ child.base \in Nat
  BY <1>5, ChildNumbers
<1>8. files' \subseteq FileRec /\ \A f \in files' : f.name.epoch >= child.base
  BY <1>1, <1>4, <1>7, DiskTypes DEF SeenIsNew
<1>9. DiskMoves
  <2>1. Trains' /\ child'.epoch >= child.epoch
    BY <1>5, <1>6, <1>7 DEF Trains
  <2>2. pipe' \in Seq(Figure)
    BY <1>1, DiskTypes
  <2> QED BY <1>6, <1>8, <2>1, <2>2 DEF DiskMoves
<1> QED BY <1>1, <1>9, DiskKeeps, DiskTypes

\* Nothing is added to the directory, and the epoch stays.
LEMMA DroppingKeeps ==
  ASSUME SaverInv, SkipBest \/ DropWorst
  PROVE  SaverInv'
<1> USE DEF SkipBest, DropWorst, libraryVars
<1>1. SaverTypeOK /\ Trains /\ SeenIsNew
  BY DEF SaverInv
<1>2. child.at # "out" /\ files' \subseteq files /\ child' = [child EXCEPT !.at = "last"]
  OBVIOUS
<1>3. child \in Child /\ child.epoch < Epochs
  BY <1>1, <1>2, DiskTypes DEF Trains
<1>4. child' \in Child /\ child'.base = child.base /\ child'.epoch = child.epoch
  BY <1>2, <1>3 DEF Child
<1>5. DiskMoves
  BY <1>1, <1>2, <1>3, <1>4, DiskTypes, ChildNumbers DEF DiskMoves, Trains, SeenIsNew
<1> QED BY <1>1, <1>5, DiskKeeps, DiskTypes

LEMMA RotateKeeps ==
  ASSUME SaverInv, Rotate
  PROVE  SaverInv'
<1> USE DEF Rotate, libraryVars
<1>1. SaverTypeOK /\ Trains /\ SeenIsNew
  BY DEF SaverInv
<1>2. child \in Child /\ child.epoch + 1 \in 0..Epochs /\ child.epoch \in Nat
  BY <1>1, DiskTypes, ChildNumbers, Sizes DEF Trains
<1>3. /\ child' \in Child /\ child'.base = child.base /\ child'.epoch = child.epoch + 1
      /\ child'.at # "out" => child.epoch + 1 < Epochs
  <2> DEFINE n == child.epoch + 1
  <2>1. /\ Started(n).at \in {"train", "out"} /\ Started(n).epoch = n /\ Started(n).base = n
        /\ Started(n) \in [at : {"train", "out"}, epoch : 0..Epochs, base : 0..Epochs,
                           esr : Esrs \cup {Nan, None}]
        /\ Started(n).at # "out" => n < Epochs
    BY <1>2, Starting
  <2>2. child' = [Started(n) EXCEPT !.base = child.base,
                    !.esr = IF child.esr = Nan THEN Nan ELSE None]
    OBVIOUS
  <2> HIDE DEF n
  <2>3. child' \in Child /\ child'.base = child.base /\ child'.epoch = n
        /\ child'.at = Started(n).at
    BY <1>2, <2>1, <2>2 DEF Child
  <2> QED BY <2>1, <2>3 DEF n
<1>4. DiskMoves
  BY <1>1, <1>2, <1>3, DiskTypes, CkptSaverAssumption DEF DiskMoves, Trains, SeenIsNew
<1> QED BY <1>1, <1>4, DiskKeeps, DiskTypes

LEMMA StillKeeps ==
  ASSUME SaverInv, KillTrainer \/ AskToStop \/ ReadNan
  PROVE  SaverInv'
<1> USE DEF KillTrainer, AskToStop, ReadNan, Killed, libraryVars, diskVars
<1>1. SaverTypeOK /\ Trains /\ SeenIsNew
  BY DEF SaverInv
<1>2. child \in Child
  BY <1>1, DiskTypes
<1>3. child' \in Child /\ child'.base = child.base /\ child'.epoch = child.epoch
  BY <1>2 DEF Child
<1>4. pipe' \in Seq(Figure)
  BY <1>1, DiskTypes
<1>5. Trains'
  BY <1>1, <1>2 DEF Trains, Child
<1>6. DiskMoves
  BY <1>1, <1>2, <1>3, <1>4, <1>5, DiskTypes, ChildNumbers DEF DiskMoves, SeenIsNew
<1>7. asked' \in {None} \cup 0..Epochs - 1
  <2>1. CASE AskToStop
    <3>1. child.epoch < Epochs
      BY <1>1, <2>1 DEF Trains
    <3>2. child.epoch \in 0..Epochs - 1
      BY <1>2, <3>1, ChildNumbers, Sizes
    <3> QED BY <2>1, <3>2
  <2>2. CASE UNCHANGED asked
    BY <1>1, <2>2, DiskTypes
  <2> QED BY <2>1, <2>2
<1>8. faults' \in 0..MaxFaults /\ marred' \in BOOLEAN
  BY <1>1, DiskTypes, Faulty
<1> QED BY <1>6, <1>7, <1>8, DiskKeeps

-----------------------------------------------------------------------------
(* The reader's record, and the steps of the saver.                        *)

NudgeRec == [pending : BOOLEAN, epoch : 0..Epochs - 1, esr : Figure \cup {None}]

SaverRec ==
  [at : {"idle", "best", "last", "figure", "put", "done"}, final : BOOLEAN,
   epoch : 0..Epochs - 1, esr : Figure \cup {None}, pick : PairName \cup {None},
   cands : SUBSET PairName, best : Pair \cup {None}, last : Pair \cup {None},
   sent : Pair \cup {None}]

LEMMA SaverTypes ==
  ASSUME SaverTypeOK
  PROVE  /\ nudge \in NudgeRec /\ saver \in SaverRec
         /\ take \in TakeRow \cup {None}
         /\ figures \in [0..Epochs - 1 -> Figure \cup {None}]
         /\ attempt \in 1..Attempts
BY DEF SaverTypeOK, NudgeRec, SaverRec

LEMMA ReadKeeps ==
  ASSUME SaverInv, ReadFigure
  PROVE  SaverInv'
<1> USE DEF ReadFigure
<1> DEFINE f == Head(pipe)
<1>1. SaverTypeOK /\ FiguresTell
  BY DEF SaverInv
<1>2. f \in Figure /\ pipe' \in Seq(Figure) /\ f.epoch \in 0..Epochs - 1 /\ f # None
  <2>1. pipe \in Seq(Figure) /\ pipe # <<>>
    BY <1>1, DiskTypes
  <2>2. f \in Figure /\ pipe' \in Seq(Figure)
    BY <2>1
  <2> QED BY <2>2, CkptSaverAssumption DEF Figure
<1>3. nudge' \in NudgeRec /\ nudge'.esr = f /\ nudge'.epoch = f.epoch
  BY <1>2 DEF NudgeRec
<1>4. /\ figures' \in [0..Epochs - 1 -> Figure \cup {None}]
      /\ \A n \in 0..Epochs - 1 : figures'[n] # None => figures'[n].epoch = n
  <2>1. UNCHANGED figures \/ figures' = [figures EXCEPT ![f.epoch] = f]
    OBVIOUS
  <2> HIDE DEF f
  <2> QED BY <1>1, <1>2, <2>1, SaverTypes DEF FiguresTell
<1>5. faults' \in 0..MaxFaults /\ marred' \in BOOLEAN
  BY <1>1, DiskTypes, Faulty
<1>6. SaverTypeOK'
  <2>1. /\ attempt' = attempt /\ child' = child /\ files' = files /\ saver' = saver
        /\ take' = take /\ asked' = asked
    OBVIOUS
  <2> HIDE DEF ReadFigure, f
  <2>2. attempt' \in 1..Attempts /\ child' \in Child /\ files' \subseteq FileRec
        /\ saver' \in SaverRec /\ take' \in TakeRow \cup {None}
        /\ asked' \in {None} \cup 0..Epochs - 1
    BY <1>1, <2>1, DiskTypes, SaverTypes
  <2> QED BY <1>2, <1>3, <1>4, <1>5, <2>2
      DEF SaverTypeOK, NudgeRec, SaverRec, Child, FileRec
<1>7. FiguresTell'
  BY <1>1, <1>3, <1>4 DEF FiguresTell, SaverTells
<1>8. Trains' /\ SeenIsNew' /\ FigureOfEpoch' /\ SentIsKept' /\ GroundHolds'
  BY DEF SaverInv, Trains, SeenIsNew, SaverSees, FigureOfEpoch, SentIsKept, GroundHolds
<1> QED BY <1>6, <1>7, <1>8 DEF SaverInv

\* A step of the saver that writes nothing.
LEMMA SaverKeeps ==
  ASSUME SaverInv, UNCHANGED <<attempt, child, files, pipe, take, figures, asked>>,
         nudge' \in NudgeRec, nudge'.esr = nudge.esr, nudge'.epoch = nudge.epoch,
         saver' \in SaverRec, saver'.sent = saver.sent, SaverTells', SaverSees',
         faults' \in 0..MaxFaults, marred' \in BOOLEAN
  PROVE  SaverInv'
<1>1. SaverTypeOK'
  <2>1. SaverTypeOK
    BY DEF SaverInv
  <2> QED BY <2>1 DEF SaverTypeOK, NudgeRec, SaverRec
<1>2. FiguresTell' /\ SeenIsNew'
  BY DEF SaverInv, FiguresTell, SeenIsNew
<1>3. Trains' /\ FigureOfEpoch' /\ SentIsKept' /\ GroundHolds'
  BY DEF SaverInv, Trains, FigureOfEpoch, SentIsKept, GroundHolds
<1> QED BY <1>1, <1>2, <1>3 DEF SaverInv

LEMMA LookKeeps ==
  ASSUME SaverInv, NEW final \in BOOLEAN, Look(final)
  PROVE  SaverInv'
<1>1. SaverTypeOK /\ FiguresTell /\ SeenIsNew
  BY DEF SaverInv
<1>2. nudge \in NudgeRec /\ saver \in SaverRec
  BY <1>1, SaverTypes
<1> DEFINE pick == IF SelectBest(Names("best")) = {} THEN None
                   ELSE CHOOSE n \in SelectBest(Names("best")) : TRUE
<1>3. pick \in PairName \cup {None} /\ (pick # None => pick.epoch >= child.base)
  <2>1. CASE SelectBest(Names("best")) = {}
    BY <2>1
  <2>2. CASE SelectBest(Names("best")) # {}
    <3>1. pick \in SelectBest(Names("best"))
      BY <2>2
    <3>2. pick \in Names("best")
      BY <3>1 DEF SelectBest
    <3> QED BY <1>1, <3>2, Listing
  <2> QED BY <2>1, <2>2
<1>4. saver' = [at |-> "best", final |-> final, epoch |-> nudge.epoch, esr |-> nudge.esr,
                pick |-> pick, cands |-> {}, best |-> None, last |-> None, sent |-> saver.sent]
  BY DEF Look, Asleep
<1> HIDE DEF pick
<1>5. saver' \in SaverRec
  BY <1>2, <1>3, <1>4 DEF SaverRec, NudgeRec
<1>6. SaverTells'
  BY <1>1, <1>4 DEF SaverTells, FiguresTell
<1>7. SaverSees'
  <2>1. /\ saver'.pick = pick /\ saver'.cands = {} /\ saver'.best = None /\ saver'.last = None
    BY <1>4
  <2>2. child' = child
    BY DEF Look, diskVars
  <2> QED BY <1>3, <2>1, <2>2 DEF SaverSees
<1>8. nudge' \in NudgeRec /\ nudge'.esr = nudge.esr /\ nudge'.epoch = nudge.epoch
  BY <1>2 DEF Look, NudgeRec
<1>9. faults' \in 0..MaxFaults /\ marred' \in BOOLEAN
  BY <1>1, DiskTypes DEF Look
<1> QED BY <1>4, <1>5, <1>6, <1>7, <1>8, <1>9, SaverKeeps DEF Look, diskVars, libraryVars

LEMMA ReadBestKeeps ==
  ASSUME SaverInv, ReadBest
  PROVE  SaverInv'
<1>1. SaverTypeOK /\ FiguresTell /\ SeenIsNew
  BY DEF SaverInv
<1>2. nudge \in NudgeRec /\ saver \in SaverRec
  BY <1>1, SaverTypes
<1> DEFINE best ==
      IF saver.pick # None /\ WholePair(saver.pick) THEN ReadPair(saver.pick) ELSE None
<1>3. best \in Pair \cup {None} /\ (best # None => best.reached > child.base)
  <2>1. CASE saver.pick # None
    <3>1. saver.pick \in PairName /\ saver.pick.epoch >= child.base
      BY <1>1, <1>2, <2>1 DEF SaverRec, SeenIsNew, SaverSees
    <3>2. saver.pick.epoch \in Nat /\ child.base \in Nat
      BY <1>1, <3>1, Sizes, DiskTypes, ChildNumbers DEF PairName
    <3> QED BY <3>1, <3>2, Reading
  <2>2. CASE saver.pick = None
    BY <2>2
  <2> QED BY <2>1, <2>2
<1>4. saver' = [saver EXCEPT !.at = "last", !.best = best, !.pick = None,
                             !.cands = Names("last")]
  BY DEF ReadBest
<1>5. saver.at = "best" /\ \A n \in Names("last") : n \in PairName /\ n.epoch >= child.base
  BY <1>1, Listing DEF ReadBest
<1> HIDE DEF best
<1>6. saver' \in SaverRec
  BY <1>2, <1>3, <1>4, <1>5 DEF SaverRec
<1>7. SaverTells'
  BY <1>1, <1>2, <1>4, <1>5 DEF SaverTells, FiguresTell, SaverRec
<1>8. SaverSees'
  BY <1>1, <1>2, <1>3, <1>4, <1>5 DEF SaverSees, SeenIsNew, SaverRec, ReadBest, diskVars
<1>9. faults' \in 0..MaxFaults /\ marred' \in BOOLEAN
  BY <1>1, DiskTypes DEF ReadBest
<1>10. saver'.sent = saver.sent
  BY <1>2, <1>4 DEF SaverRec
<1> QED BY <1>2, <1>6, <1>7, <1>8, <1>9, <1>10, SaverKeeps DEF ReadBest, diskVars, libraryVars

LEMMA ReadLastKeeps ==
  ASSUME SaverInv, ReadLast
  PROVE  SaverInv'
<1>1. SaverTypeOK /\ FiguresTell /\ SeenIsNew
  BY DEF SaverInv
<1>2. nudge \in NudgeRec /\ saver \in SaverRec
  BY <1>1, SaverTypes
<1>3. PICK name \in NewestOf(saver.cands) :
        saver' = IF WholePair(name)
                 THEN [saver EXCEPT !.at = "figure", !.cands = {}, !.last = ReadPair(name)]
                 ELSE [saver EXCEPT !.cands = saver.cands \ {name}]
  BY DEF ReadLast
<1>4. saver.at = "last" /\ name \in PairName /\ name.epoch >= child.base
  BY <1>1, <1>2, <1>3 DEF NewestOf, ReadLast, SaverRec, SeenIsNew, SaverSees
<1>5. ReadPair(name) \in Pair /\ ReadPair(name) # None /\ ReadPair(name).reached > child.base
  <2>1. name.epoch \in Nat /\ child.base \in Nat
    BY <1>1, <1>4, Sizes, DiskTypes, ChildNumbers DEF PairName
  <2> QED BY <1>4, <2>1, Reading
<1>6. saver' \in SaverRec /\ saver'.sent = saver.sent
  BY <1>2, <1>3, <1>5 DEF SaverRec
<1>7. SaverTells'
  BY <1>1, <1>2, <1>3, <1>4, <1>5 DEF SaverTells, FiguresTell, SaverRec
<1>8. SaverSees'
  BY <1>1, <1>2, <1>3, <1>4, <1>5 DEF SaverSees, SeenIsNew, SaverRec, ReadLast, diskVars
<1>9. faults' \in 0..MaxFaults /\ marred' \in BOOLEAN
  BY <1>1, DiskTypes DEF ReadLast
<1> QED BY <1>2, <1>6, <1>7, <1>8, <1>9, SaverKeeps DEF ReadLast, diskVars, libraryVars

LEMMA Resting ==
  ASSUME SaverTypeOK
  PROVE  /\ Rested \in SaverRec /\ Rested.sent = saver.sent /\ Rested.at \in {"idle", "done"}
         /\ Rested.pick = None /\ Rested.cands = {} /\ Rested.best = None /\ Rested.last = None
         /\ Rested.at = (IF saver.final THEN "done" ELSE "idle") /\ ~Rested.final
<1>1. saver \in SaverRec
  BY SaverTypes
<1>2. saver.sent \in Pair \cup {None} /\ saver.final \in BOOLEAN
  BY <1>1 DEF SaverRec
<1>3. Rested = [at |-> IF saver.final THEN "done" ELSE "idle", final |-> FALSE, epoch |-> 0,
                esr |-> None, pick |-> None, cands |-> {}, best |-> None, last |-> None,
                sent |-> saver.sent]
  <2> DEFINE at == IF saver.final THEN "done" ELSE "idle"
             sent == saver.sent
  <2>1. Rested = [Asleep EXCEPT !.at = at, !.sent = sent]
    BY DEF Rested
  <2> HIDE DEF at, sent
  <2>2. Rested = [at |-> at, final |-> FALSE, epoch |-> 0, esr |-> None, pick |-> None,
                  cands |-> {}, best |-> None, last |-> None, sent |-> sent]
    BY <2>1 DEF Asleep
  <2> QED BY <2>2 DEF at, sent
<1>4. 0 \in 0..Epochs - 1
  BY Sizes
<1> QED BY <1>2, <1>3, <1>4 DEF SaverRec

LEMMA FallBackKeeps ==
  ASSUME SaverInv, FallBack
  PROVE  SaverInv'
<1>1. SaverTypeOK /\ FiguresTell /\ SeenIsNew
  BY DEF SaverInv
<1>2. nudge \in NudgeRec /\ saver \in SaverRec
  BY <1>1, SaverTypes
<1>3. faults' \in 0..MaxFaults /\ marred' \in BOOLEAN
  BY <1>1, DiskTypes DEF FallBack
<1>4. CASE saver.best = None
  <2>1. saver' = Rested
    BY <1>4 DEF FallBack
  <2>2. SaverTells' /\ SaverSees' /\ saver' \in SaverRec /\ saver'.sent = saver.sent
    BY <1>1, <2>1, Resting DEF SaverTells, SaverSees
  <2> QED BY <1>2, <1>3, <2>2, SaverKeeps DEF FallBack, diskVars, libraryVars
<1>5. CASE saver.best # None
  <2>1. saver' = [saver EXCEPT !.at = "figure", !.last = saver.best] /\ saver.at = "last"
    BY <1>5 DEF FallBack
  <2>2. saver' \in SaverRec /\ saver'.sent = saver.sent
    BY <1>2, <2>1 DEF SaverRec
  <2>3. SaverTells'
    BY <1>1, <1>2, <1>5, <2>1 DEF SaverTells, FiguresTell, SaverRec
  <2>4. SaverSees'
    BY <1>1, <1>2, <1>5, <2>1 DEF SaverSees, SeenIsNew, SaverRec, FallBack, diskVars
  <2> QED BY <1>2, <1>3, <2>2, <2>3, <2>4, SaverKeeps DEF FallBack, diskVars, libraryVars
<1> QED BY <1>4, <1>5

LEMMA EpochESRKeeps ==
  ASSUME SaverInv, EpochESR
  PROVE  SaverInv'
<1>1. SaverTypeOK /\ FiguresTell /\ SeenIsNew
  BY DEF SaverInv
<1>2. nudge \in NudgeRec /\ saver \in SaverRec
  BY <1>1, SaverTypes
<1> DEFINE n == saver.last.reached - 1
<1>3. saver.at = "figure" /\ n \in 0..Epochs - 1
  <2>1. saver.at = "figure" /\ saver.last \in Pair
    BY <1>1, <1>2 DEF EpochESR, FiguresTell, SaverTells, SaverRec
  <2>2. saver.last.reached \in 1..Epochs
    BY <2>1 DEF Pair
  <2> QED BY <2>1, <2>2, Sizes
<1>4. FigureFor(n) \in Figure \cup {None} /\ (FigureFor(n) # None => FigureFor(n).epoch = n)
  BY <1>1, <1>2, <1>3, SaverTypes DEF FigureFor, FiguresTell, SaverTells, SaverRec
<1>5. PICK esr \in {FigureFor(n), None} : saver' = [saver EXCEPT !.at = "put", !.esr = esr]
  BY DEF EpochESR
<1>6. esr \in Figure \cup {None} /\ (esr # None => esr.epoch = saver.last.reached - 1)
  BY <1>4, <1>5
<1> HIDE DEF n
<1>7. saver' \in SaverRec /\ saver'.sent = saver.sent
  BY <1>2, <1>5, <1>6 DEF SaverRec
<1>8. SaverTells'
  BY <1>1, <1>2, <1>3, <1>5, <1>6 DEF SaverTells, FiguresTell, SaverRec
<1>9. SaverSees'
  BY <1>1, <1>2, <1>5 DEF SaverSees, SeenIsNew, SaverRec, EpochESR, diskVars
<1>10. faults' \in 0..MaxFaults /\ marred' \in BOOLEAN
  BY <1>1, DiskTypes, Faulty DEF EpochESR
<1> QED BY <1>2, <1>7, <1>8, <1>9, <1>10, SaverKeeps DEF EpochESR, diskVars, libraryVars

\* What a write would leave, against what is there and what the saver holds.
LEMMA Storing ==
  ASSUME SaverInv, saver.at = "put"
  PROVE  /\ Stored \in TakeRow /\ Stored # None
         /\ Stored.reached > child.base
         /\ Stored.esr # None => Stored.esr.epoch = Stored.reached - 1
         /\ take # None /\ take.best # None /\ take.best.esr # None =>
              /\ Stored.best # None /\ Stored.best.esr # None
              /\ Stored.best.esr <= take.best.esr
         /\ saver.best # None /\ saver.best.esr # None =>
              /\ Stored.best # None /\ Stored.best.esr # None
              /\ Stored.best.esr <= saver.best.esr
<1>1. SaverTypeOK /\ FiguresTell /\ SeenIsNew /\ SentIsKept
  BY DEF SaverInv
<1>2. saver \in SaverRec /\ take \in TakeRow \cup {None} /\ attempt \in 1..Attempts
  BY <1>1, SaverTypes
<1>3. /\ saver.last # None /\ saver.last \in Pair /\ saver.last.reached > child.base
      /\ saver.esr \in Figure \cup {None}
      /\ saver.esr # None => saver.esr.epoch = saver.last.reached - 1
  BY <1>1, <1>2 DEF FiguresTell, SaverTells, SeenIsNew, SaverSees, SaverRec
<1>4. saver.best \in Pair \cup {None} /\ saver.sent \in Pair \cup {None}
  BY <1>2 DEF SaverRec
<1>5. take # None => take.best \in Pair \cup {None}
  BY <1>2 DEF TakeRow
<1> DEFINE best == IF take = None THEN Offered ELSE Merged(take.best, Offered)
<1>6. Offered \in Pair \cup {None}
  BY <1>4 DEF Offered
<1>7. best \in Pair \cup {None}
  BY <1>5, <1>6, Merging
<1>8. take # None /\ take.best # None /\ take.best.esr # None =>
        best # None /\ best.esr # None /\ best.esr <= take.best.esr
  BY <1>5, <1>6, Merging
<1>9. saver.best # None /\ saver.best.esr # None =>
        best # None /\ best.esr # None /\ best.esr <= saver.best.esr
  <2> SUFFICES ASSUME saver.best # None, saver.best.esr # None
               PROVE  best # None /\ best.esr # None /\ best.esr <= saver.best.esr
    OBVIOUS
  <2>1. CASE saver.best = saver.sent
    <3>1. /\ take # None /\ take.best # None /\ take.best.esr # None
          /\ take.best.esr <= saver.best.esr
      BY <1>1, <2>1 DEF SentIsKept
    <3>2. take.best \in Pair /\ saver.best \in Pair /\ best \in Pair
      BY <1>4, <1>5, <1>7, <1>8, <3>1
    <3>3. take.best.esr \in Nat /\ saver.best.esr \in Nat /\ best.esr \in Nat
      BY <1>8, <3>1, <3>2, CkptSaverAssumption DEF Pair
    <3> QED BY <1>8, <3>1, <3>3
  <2>2. CASE saver.best # saver.sent
    <3>1. Offered = saver.best
      BY <2>2 DEF Offered
    <3>2. saver.best.esr \in Nat
      BY <1>4, CkptSaverAssumption DEF Pair
    <3>3. CASE take = None
      BY <3>1, <3>2, <3>3
    <3>4. CASE take # None
      BY <1>5, <1>6, <3>1, <3>4, Merging
    <3> QED BY <3>3, <3>4
  <2> QED BY <2>1, <2>2
<1>10. Stored = [reached |-> saver.last.reached, attempt |-> attempt, esr |-> saver.esr,
                 best |-> best]
  BY DEF Stored
<1> HIDE DEF best
<1>11. saver.last.reached \in 1..Epochs
  BY <1>3 DEF Pair
<1>12. Stored \in TakeRow
  BY <1>2, <1>3, <1>7, <1>10, <1>11 DEF TakeRow
<1>13. Stored # None
  BY <1>12, CkptSaverAssumption
<1> QED BY <1>3, <1>8, <1>9, <1>10, <1>12, <1>13

\* Killing a trainer changes neither where it is nor where it began.
LEMMA KilledChild ==
  ASSUME SaverTypeOK, Trains, UNCHANGED child \/ Killed
  PROVE  child' \in Child /\ child'.base = child.base /\ child'.epoch = child.epoch /\ Trains'
<1>1. child \in Child
  BY DiskTypes
<1>2. CASE Killed
  BY <1>1, <1>2 DEF Killed, Child, Trains
<1>3. CASE UNCHANGED child
  BY <1>1, <1>3 DEF Trains
<1> QED BY <1>2, <1>3

LEMMA PutKeeps ==
  ASSUME SaverInv, PutCheckpoint
  PROVE  SaverInv'
<1>1. SaverTypeOK /\ Trains /\ FiguresTell /\ SeenIsNew /\ SentIsKept /\ FigureOfEpoch
      /\ GroundHolds
  BY DEF SaverInv
<1>2. saver.at = "put" /\ UNCHANGED <<attempt, files, pipe, nudge, figures, asked>>
  BY DEF PutCheckpoint
<1>3. saver \in SaverRec /\ take \in TakeRow \cup {None} /\ child \in Child
  BY <1>1, SaverTypes, DiskTypes
<1>4. child' \in Child /\ child'.base = child.base /\ child'.epoch = child.epoch /\ Trains'
  BY <1>1, KilledChild DEF PutCheckpoint
<1>5. take' \in {take, Stored}
  BY DEF PutCheckpoint
<1>6. take' \in TakeRow \cup {None}
  BY <1>2, <1>3, <1>5, Storing
<1>7. PICK sent \in {saver.sent, saver.best} :
        /\ saver' = [Rested EXCEPT !.sent = sent]
        /\ sent # saver.sent => take' = Stored /\ saver.best # None
  BY DEF PutCheckpoint, Sent
<1>8. sent \in Pair \cup {None}
  BY <1>3 DEF SaverRec
<1>9. /\ saver' \in SaverRec /\ saver'.sent = sent /\ saver'.at \in {"idle", "done"}
      /\ saver'.pick = None /\ saver'.cands = {} /\ saver'.best = None /\ saver'.last = None
  <2>1. /\ Rested \in SaverRec /\ Rested.at \in {"idle", "done"}
        /\ Rested.pick = None /\ Rested.cands = {} /\ Rested.best = None /\ Rested.last = None
    BY <1>1, Resting
  <2> QED BY <1>7, <1>8, <2>1 DEF SaverRec
<1>10. faults' \in 0..MaxFaults /\ marred' \in BOOLEAN
  BY <1>1, DiskTypes, Faulty DEF PutCheckpoint
<1>11. SaverTypeOK'
  <2>1. /\ attempt' = attempt /\ files' = files /\ pipe' = pipe /\ nudge' = nudge
        /\ figures' = figures /\ asked' = asked
    BY <1>2
  <2> QED BY <1>1, <1>4, <1>6, <1>9, <1>10, <2>1 DEF SaverTypeOK, Child, SaverRec
<1>12. FiguresTell'
  BY <1>1, <1>2, <1>9 DEF FiguresTell, SaverTells
<1>13. SeenIsNew'
  BY <1>1, <1>2, <1>4, <1>9 DEF SeenIsNew, SaverSees
<1>14. FigureOfEpoch'
  BY <1>1, <1>2, <1>5, Storing DEF FigureOfEpoch
<1>15. GroundHolds'
  <2>1. CASE take' = take
    BY <1>1, <1>4, <2>1 DEF GroundHolds
  <2>2. CASE take' = Stored
    <3>1. Stored.reached \in Nat /\ child.base \in Nat
      BY <1>2, <1>3, Storing, Sizes, ChildNumbers DEF TakeRow
    <3> QED BY <1>2, <1>4, <2>2, <3>1, Storing DEF GroundHolds
  <2> QED BY <1>5, <2>1, <2>2
<1>16. SentIsKept'
  <2> SUFFICES ASSUME sent # None, sent.esr # None
               PROVE  /\ take' # None /\ take'.best # None /\ take'.best.esr # None
                      /\ take'.best.esr <= sent.esr
    BY <1>9 DEF SentIsKept
  <2>1. CASE sent = saver.sent
    <3>1. /\ take # None /\ take.best # None /\ take.best.esr # None
          /\ take.best.esr <= sent.esr
      BY <1>1, <2>1 DEF SentIsKept
    <3>2. CASE take' = take
      BY <3>1, <3>2
    <3>3. CASE take' = Stored
      <4>1. /\ Stored # None /\ Stored.best # None /\ Stored.best.esr # None
            /\ Stored.best.esr <= take.best.esr /\ Stored \in TakeRow
        BY <1>2, <3>1, Storing
      <4>2. take.best \in Pair /\ Stored.best \in Pair /\ sent \in Pair
        BY <1>3, <1>8, <3>1, <4>1 DEF TakeRow
      <4>3. take.best.esr \in Nat /\ Stored.best.esr \in Nat /\ sent.esr \in Nat
        BY <3>1, <4>1, <4>2, CkptSaverAssumption DEF Pair
      <4> QED BY <3>1, <3>3, <4>1, <4>3
    <3> QED BY <1>5, <3>2, <3>3
  <2>2. CASE sent # saver.sent
    BY <1>2, <1>7, <2>2, Storing
  <2> QED BY <2>1, <2>2
<1> QED BY <1>4, <1>11, <1>12, <1>13, <1>14, <1>15, <1>16 DEF SaverInv

LEMMA NewAttemptKeeps ==
  ASSUME SaverInv, NewAttempt, faults' \in 0..MaxFaults
  PROVE  SaverInv'
<1>1. SaverTypeOK /\ FiguresTell /\ FigureOfEpoch
  BY DEF SaverInv
<1> DEFINE n == IF take = None THEN 0 ELSE take.reached
<1>2. n \in 0..Epochs /\ (n > 0 => take # None /\ take.reached = n)
  BY <1>1, SaverTypes, Sizes DEF TakeRow
<1>3. child' = Started(n) /\ attempt' = attempt + 1 /\ attempt < Attempts
      /\ files' = {} /\ pipe' = <<>> /\ nudge' = Quiet /\ saver' = Asleep
      /\ marred' = FALSE /\ asked' = None /\ take' = take /\ figures' = figures
  BY DEF NewAttempt, FreshDir
<1> HIDE DEF n
<1>4. /\ child' \in Child /\ child'.base = n /\ child'.epoch = n
      /\ child'.at # "out" => n < Epochs
  BY <1>2, <1>3, Starting DEF Child
<1>5. nudge' \in NudgeRec /\ saver' \in SaverRec
  <2>1. 0 \in 0..Epochs - 1
    BY Sizes
  <2> QED BY <1>3, <2>1 DEF Quiet, Asleep, NudgeRec, SaverRec
<1>6. attempt' \in 1..Attempts
  BY <1>1, <1>3, SaverTypes, CkptSaverAssumption
<1>7. SaverTypeOK'
  <2>1. /\ pipe' \in Seq(Figure) /\ files' \subseteq FileRec
        /\ take' \in TakeRow \cup {None} /\ figures' \in [0..Epochs - 1 -> Figure \cup {None}]
        /\ asked' \in {None} \cup 0..Epochs - 1 /\ marred' \in BOOLEAN
    <3>1. <<>> \in Seq(Figure) /\ {} \subseteq FileRec /\ FALSE \in BOOLEAN
      OBVIOUS
    <3>2. take \in TakeRow \cup {None} /\ figures \in [0..Epochs - 1 -> Figure \cup {None}]
      BY <1>1, SaverTypes
    <3> QED BY <1>3, <3>1, <3>2
  <2> QED BY <1>4, <1>5, <1>6, <2>1 DEF SaverTypeOK, Child, FileRec, NudgeRec, SaverRec
<1>8. Trains' /\ FigureOfEpoch'
  BY <1>1, <1>3, <1>4 DEF Trains, FigureOfEpoch
<1>9. FiguresTell'
  BY <1>1, <1>3 DEF FiguresTell, SaverTells, Quiet, Asleep
<1>10. SeenIsNew'
  BY <1>2, <1>3, <1>4, Sizes DEF SeenIsNew, SaverSees, Asleep
<1>11. SentIsKept' /\ GroundHolds'
  BY <1>2, <1>3, <1>4, Sizes DEF SentIsKept, GroundHolds, Asleep
<1> QED BY <1>7, <1>8, <1>9, <1>10, <1>11 DEF SaverInv

-----------------------------------------------------------------------------
LEMMA InitInv == SaverInit => SaverInv
<1> SUFFICES ASSUME SaverInit PROVE SaverInv
  OBVIOUS
<1>1. 0 \in 0..Epochs /\ 0 \in 0..Epochs - 1
  BY Sizes
<1>2. /\ child \in Child /\ child.base = 0 /\ child.epoch = 0
      /\ child.at # "out" => 0 < Epochs
  BY <1>1, Starting DEF SaverInit, Child
<1>3. nudge \in NudgeRec /\ saver \in SaverRec
  BY <1>1 DEF SaverInit, Quiet, Asleep, NudgeRec, SaverRec
<1>4. 1 \in 1..Attempts /\ 0 \in 0..MaxFaults
  BY CkptSaverAssumption, TroubleAssumption
<1>5. SaverTypeOK
  <2>1. /\ pipe \in Seq(Figure) /\ files \subseteq FileRec
        /\ take \in TakeRow \cup {None} /\ figures \in [0..Epochs - 1 -> Figure \cup {None}]
        /\ asked \in {None} \cup 0..Epochs - 1 /\ marred \in BOOLEAN
        /\ attempt \in 1..Attempts /\ faults \in 0..MaxFaults
    <3>1. <<>> \in Seq(Figure) /\ {} \subseteq FileRec /\ FALSE \in BOOLEAN
          /\ [n \in 0..Epochs - 1 |-> None] \in [0..Epochs - 1 -> Figure \cup {None}]
      OBVIOUS
    <3>2. /\ attempt = 1 /\ files = {} /\ pipe = <<>> /\ take = None /\ asked = None
          /\ figures = [n \in 0..Epochs - 1 |-> None] /\ marred = FALSE /\ faults = 0
      BY DEF SaverInit
    <3> QED BY <1>4, <3>1, <3>2
  <2> QED BY <1>2, <1>3, <2>1 DEF SaverTypeOK, Child, FileRec, NudgeRec, SaverRec
<1>6. Trains /\ FigureOfEpoch /\ SentIsKept /\ GroundHolds
  BY <1>2 DEF SaverInit, Trains, FigureOfEpoch, SentIsKept, GroundHolds, Asleep
<1>7. FiguresTell /\ SeenIsNew
  BY <1>2 DEF SaverInit, FiguresTell, SaverTells, SeenIsNew, SaverSees, Quiet, Asleep
<1> QED BY <1>5, <1>6, <1>7 DEF SaverInv

LEMMA NextInv == SaverInv /\ [SaverNext]_saverVars => SaverInv'
<1> SUFFICES ASSUME SaverInv, [SaverNext]_saverVars PROVE SaverInv'
  OBVIOUS
<1>1. CASE UNCHANGED saverVars
  <2>1. /\ attempt' = attempt /\ child' = child /\ files' = files /\ pipe' = pipe
        /\ nudge' = nudge /\ saver' = saver /\ take' = take /\ asked' = asked
        /\ figures' = figures /\ marred' = marred /\ faults' = faults
    BY <1>1 DEF saverVars, diskVars, libraryVars
  <2>2. SaverTypeOK'
    <3>1. SaverTypeOK
      BY DEF SaverInv
    <3>2. /\ nudge' \in NudgeRec /\ saver' \in SaverRec /\ take' \in TakeRow \cup {None}
          /\ figures' \in [0..Epochs - 1 -> Figure \cup {None}] /\ attempt' \in 1..Attempts
      BY <2>1, <3>1, SaverTypes
    <3>3. /\ child' \in Child /\ files' \subseteq FileRec /\ pipe' \in Seq(Figure)
          /\ asked' \in {None} \cup 0..Epochs - 1 /\ marred' \in BOOLEAN
          /\ faults' \in 0..MaxFaults
      BY <2>1, <3>1, DiskTypes
    <3> QED BY <3>2, <3>3 DEF SaverTypeOK, Child, FileRec, NudgeRec, SaverRec
  <2>3. Trains' /\ FiguresTell' /\ SeenIsNew' /\ FigureOfEpoch' /\ SentIsKept' /\ GroundHolds'
    BY <2>1 DEF SaverInv, Trains, FiguresTell, SaverTells, SeenIsNew, SaverSees, FigureOfEpoch,
      SentIsKept, GroundHolds
  <2> QED BY <2>2, <2>3 DEF SaverInv
<1>2. CASE TrainerStep
  BY <1>2, ValidateKeeps, BeginKeeps, DroppingKeeps, CompleteKeeps, RotateKeeps DEF TrainerStep
<1>3. CASE KillTrainer \/ AskToStop \/ ReaderStep
  BY <1>3, StillKeeps, ReadKeeps DEF ReaderStep
<1>4. CASE SaverStep
  BY <1>4, LookKeeps, ReadBestKeeps, ReadLastKeeps, FallBackKeeps, EpochESRKeeps, PutKeeps
  DEF SaverStep, LookOnNudge, LastLook
<1>5. CASE Handover \/ DieWithTrainer
  <2>1. NewAttempt
    BY <1>5 DEF Handover, DieWithTrainer
  <2>2. faults' \in 0..MaxFaults
    BY <1>5, DiskTypes, Faulty DEF Handover, DieWithTrainer, SaverInv
  <2> QED BY <2>1, <2>2, NewAttemptKeeps
<1> QED BY <1>1, <1>2, <1>3, <1>4, <1>5 DEF SaverNext

LEMMA SaverInvariant == SaverSpec => []SaverInv
BY InitInv, NextInv, PTL DEF SaverSpec

\* A figure on a take is of the epoch whose weights are there.
THEOREM FiguresBelong == SaverSpec => []FigureOfEpoch
<1>1. SaverInv => FigureOfEpoch
  BY DEF SaverInv
<1> QED BY <1>1, SaverInvariant, PTL

\* No attempt puts a take back behind where it started from.
THEOREM GroundIsHeld == SaverSpec => []GroundHolds
<1>1. SaverInv => GroundHolds
  BY DEF SaverInv
<1> QED BY <1>1, SaverInvariant, PTL

\* What counts as sent has arrived, or something better has.
THEOREM SentArrived == SaverSpec => []SentIsKept
<1>1. SaverInv => SentIsKept
  BY DEF SaverInv
<1> QED BY <1>1, SaverInvariant, PTL

\* Only PutCheckpoint writes a take.
LEMMA TakeStays ==
  ASSUME SaverInv, [SaverNext]_saverVars
  PROVE  UNCHANGED take \/ (saver.at = "put" /\ take' = Stored)
<1>1. CASE UNCHANGED saverVars
  BY <1>1 DEF saverVars, libraryVars
<1>2. CASE TrainerStep
  BY <1>2 DEF TrainerStep, Validate, Begin, SkipBest, Complete, DropWorst, Rotate, libraryVars
<1>3. CASE KillTrainer \/ AskToStop \/ ReaderStep
  BY <1>3 DEF KillTrainer, AskToStop, ReaderStep, ReadFigure, ReadNan, libraryVars
<1>4. CASE SaverStep
  BY <1>4 DEF SaverStep, LookOnNudge, LastLook, Look, ReadBest, ReadLast, FallBack, EpochESR,
    PutCheckpoint, libraryVars
<1>5. CASE Handover \/ DieWithTrainer
  BY <1>5 DEF Handover, DieWithTrainer, NewAttempt
<1> QED BY <1>1, <1>2, <1>3, <1>4, <1>5 DEF SaverNext

\* The best pair of a take gives way to a better one only, whichever attempt offers it.
THEOREM BestOnlyImproves == SaverSpec => BestStands
<1> DEFINE Improves ==
      take # None /\ take.best # None /\ take.best.esr # None =>
        /\ take' # None /\ take'.best # None /\ take'.best.esr # None
        /\ take'.best.esr <= take.best.esr
<1>1. SaverInv /\ [SaverNext]_saverVars => [Improves]_saverVars
  <2> SUFFICES ASSUME SaverInv, [SaverNext]_saverVars,
                      take # None, take.best # None, take.best.esr # None
               PROVE  /\ take' # None /\ take'.best # None /\ take'.best.esr # None
                      /\ take'.best.esr <= take.best.esr
    OBVIOUS
  <2>1. CASE UNCHANGED take
    <3>1. take.best \in Pair
      BY SaverTypes DEF SaverInv, TakeRow
    <3>2. take.best.esr \in Nat
      BY <3>1, CkptSaverAssumption DEF Pair
    <3> QED BY <2>1, <3>2
  <2>2. CASE saver.at = "put" /\ take' = Stored
    BY <2>2, Storing
  <2> QED BY <2>1, <2>2, TakeStays
<1> QED BY <1>1, SaverInvariant, PTL DEF SaverSpec, BestStands

-----------------------------------------------------------------------------
(* The last look.                                                          *)

\* The pairs of last weights that a resume can start from.
WholeLasts == {f \in files : f.whole /\ f.name.kind = "last"}

\* From the last look on the directory is what the run left.
Frozen == saver.final \/ saver.at = "done" => Stopping

\* What the last look has before it, it passes over only for something newer.
LooksAtAll ==
  saver.final =>
    /\ saver.at = "last" => \A f \in WholeLasts : f.name \in saver.cands
    /\ saver.at \in {"figure", "put"} => \A f \in WholeLasts : saver.last.reached >= f.name.epoch + 1

LastInv == Frozen /\ LooksAtAll /\ CaughtUp

\* A step that leaves the saver, the take and a directory that is frozen.
LEMMA FarFromLast ==
  ASSUME LastInv, UNCHANGED <<attempt, saver, take>>,
         Stopping => Stopping' /\ UNCHANGED <<files, marred>>
  PROVE  LastInv'
<1>1. CASE saver.final \/ saver.at = "done"
  <2>1. Stopping /\ Stopping' /\ UNCHANGED <<files, marred>>
    BY <1>1 DEF LastInv, Frozen
  <2> QED BY <2>1 DEF LastInv, Frozen, LooksAtAll, WholeLasts, CaughtUp
<1>2. CASE ~saver.final /\ saver.at # "done"
  BY <1>2 DEF LastInv, Frozen, LooksAtAll, CaughtUp
<1> QED BY <1>1, <1>2

\* A step of the saver from before its end, that is not the storing.
LEMMA LastGoesOn ==
  ASSUME LastInv, UNCHANGED <<child, files, pipe, take>>, saver'.at # "done",
         saver'.final => Stopping, LooksAtAll'
  PROVE  LastInv'
BY DEF LastInv, Frozen, Stopping, CaughtUp

LEMMA LastKept == SaverInv /\ LastInv /\ [SaverNext]_saverVars => LastInv'
<1> SUFFICES ASSUME SaverInv, LastInv, [SaverNext]_saverVars PROVE LastInv'
  OBVIOUS
<1>0. /\ SaverTypeOK /\ saver \in SaverRec /\ nudge \in NudgeRec /\ files \subseteq FileRec
      /\ child \in Child
  BY SaverTypes, DiskTypes DEF SaverInv
<1>1. CASE UNCHANGED saverVars
  BY <1>1, FarFromLast DEF saverVars, diskVars, libraryVars, Stopping
<1>2. CASE TrainerStep
  <2>1. child.at # "out" /\ UNCHANGED <<attempt, saver, take>>
    BY <1>2 DEF TrainerStep, Validate, Begin, SkipBest, Complete, DropWorst, Rotate, Writing,
         libraryVars
  <2> QED BY <2>1, FarFromLast DEF Stopping
<1>3. CASE KillTrainer \/ AskToStop
  BY <1>3, FarFromLast DEF KillTrainer, AskToStop, Stopping, libraryVars, diskVars
<1>4. CASE ReaderStep
  <2>1. pipe # <<>> /\ UNCHANGED <<attempt, saver, take>>
    BY <1>4 DEF ReaderStep, ReadFigure, ReadNan, libraryVars
  <2> QED BY <2>1, FarFromLast DEF Stopping
<1>5. ASSUME NEW final \in BOOLEAN, Look(final), final => Stopping
      PROVE  LastInv'
  <2>1. /\ saver'.at = "best" /\ saver'.final = final
        /\ UNCHANGED <<child, files, pipe, take>>
    BY <1>5 DEF Look, Asleep, diskVars, libraryVars
  <2> QED BY <1>5, <2>1, LastGoesOn DEF LooksAtAll
<1>6. CASE ReadBest
  <2>1. /\ saver.at = "best" /\ saver'.at = "last" /\ saver'.final = saver.final
        /\ saver'.cands = Names("last") /\ UNCHANGED <<child, files, pipe, take>>
    BY <1>0, <1>6 DEF ReadBest, SaverRec, diskVars, libraryVars
  <2>2. \A f \in WholeLasts : f.name \in Names("last")
    BY DEF WholeLasts, Names
  <2>3. LooksAtAll'
    BY <2>1, <2>2 DEF LooksAtAll, WholeLasts
  <2>4. saver'.final => Stopping
    BY <2>1 DEF LastInv, Frozen
  <2> QED BY <2>1, <2>3, <2>4, LastGoesOn
<1>7. CASE ReadLast
  <2>1. PICK name \in NewestOf(saver.cands) :
          saver' = IF WholePair(name)
                   THEN [saver EXCEPT !.at = "figure", !.cands = {}, !.last = ReadPair(name)]
                   ELSE [saver EXCEPT !.cands = @ \ {name}]
    BY <1>7 DEF ReadLast
  <2>2. saver.at = "last" /\ UNCHANGED <<child, files, pipe, take>>
    BY <1>7 DEF ReadLast, diskVars, libraryVars
  <2>3. /\ name \in saver.cands /\ \A m \in saver.cands : name.epoch >= m.epoch
        /\ saver.cands \subseteq PairName
    BY <1>0 DEF NewestOf, SaverRec
  <2>4. CASE WholePair(name)
    <3>1. /\ saver'.at = "figure" /\ saver'.final = saver.final
          /\ saver'.last = ReadPair(name)
      BY <1>0, <2>1, <2>4 DEF SaverRec
    <3>2. saver'.last.reached = name.epoch + 1
      BY <2>3, <3>1, Reading
    <3>3. ASSUME saver.final, NEW f \in WholeLasts PROVE saver'.last.reached >= f.name.epoch + 1
      <4>1. f.name \in saver.cands
        BY <2>2, <3>3 DEF LastInv, LooksAtAll
      <4>2. /\ name.epoch >= f.name.epoch /\ name.epoch \in 0..Epochs - 1
            /\ f.name.epoch \in 0..Epochs - 1
        BY <2>3, <4>1 DEF PairName
      <4> QED BY <3>2, <4>2, Sizes
    <3>4. LooksAtAll'
      BY <2>2, <3>1, <3>3 DEF LooksAtAll, WholeLasts
    <3>5. saver'.final => Stopping
      BY <3>1 DEF LastInv, Frozen
    <3> QED BY <2>2, <3>1, <3>4, <3>5, LastGoesOn
  <2>5. CASE ~WholePair(name)
    <3>1. /\ saver'.at = "last" /\ saver'.final = saver.final
          /\ saver'.cands = saver.cands \ {name}
      BY <1>0, <2>1, <2>2, <2>5 DEF SaverRec
    <3>2. ASSUME NEW f \in WholeLasts PROVE f.name # name
      <4>1. f \in files /\ f.whole /\ f \in FileRec
        BY <1>0 DEF WholeLasts
      <4>2. f = [name |-> f.name, whole |-> TRUE]
        BY <4>1 DEF FileRec
      <4> QED BY <2>5, <4>1, <4>2 DEF WholePair, File
    <3>3. LooksAtAll'
      BY <2>2, <3>1, <3>2 DEF LastInv, LooksAtAll, WholeLasts
    <3>4. saver'.final => Stopping
      BY <3>1 DEF LastInv, Frozen
    <3> QED BY <2>2, <3>1, <3>3, <3>4, LastGoesOn
  <2> QED BY <2>4, <2>5
<1>8. CASE FallBack
  <2>1. /\ saver.at = "last" /\ saver.cands = {}
        /\ UNCHANGED <<attempt, child, files, pipe, take>>
        /\ \/ saver' = Rested
           \/ saver' = [saver EXCEPT !.at = "figure", !.last = saver.best]
    BY <1>8 DEF FallBack, diskVars, libraryVars
  <2>2. saver.final => WholeLasts = {} /\ Stopping
    BY <2>1 DEF LastInv, LooksAtAll, Frozen
  <2>3. CASE saver' = Rested
    <3>1. saver'.at \in {"idle", "done"} /\ ~saver'.final /\ (saver'.at = "done" => saver.final)
      BY <1>0, <2>3, Resting
    <3> QED BY <2>1, <2>2, <3>1 DEF LastInv, Frozen, LooksAtAll, CaughtUp, WholeLasts, Stopping
  <2>4. CASE saver' = [saver EXCEPT !.at = "figure", !.last = saver.best]
    <3>1. saver'.at = "figure" /\ saver'.final = saver.final
      BY <1>0, <2>4 DEF SaverRec
    <3>2. LooksAtAll'
      BY <2>1, <2>2, <3>1 DEF LooksAtAll, WholeLasts
    <3> QED BY <2>1, <2>2, <3>1, <3>2, LastGoesOn
  <2> QED BY <2>1, <2>3, <2>4
<1>9. CASE EpochESR
  <2>1. /\ saver.at = "figure" /\ saver'.at = "put" /\ saver'.final = saver.final
        /\ saver'.last = saver.last /\ UNCHANGED <<child, files, pipe, take>>
    BY <1>0, <1>9 DEF EpochESR, SaverRec, diskVars, libraryVars
  <2>2. LooksAtAll'
    BY <2>1 DEF LastInv, LooksAtAll, WholeLasts
  <2>3. saver'.final => Stopping
    BY <2>1 DEF LastInv, Frozen
  <2> QED BY <2>1, <2>2, <2>3, LastGoesOn
<1>10. CASE PutCheckpoint
  <2>1. /\ saver.at = "put" /\ UNCHANGED <<attempt, files, pipe>>
        /\ \E s \in {Sent(TRUE), Sent(FALSE)} : saver' = [Rested EXCEPT !.sent = s]
        /\ UNCHANGED child \/ Killed
        /\ marred' \/ (take' = Stored /\ marred' = marred)
    BY <1>10 DEF PutCheckpoint
  <2>2. saver'.at \in {"idle", "done"} /\ ~saver'.final /\ (saver'.at = "done" => saver.final)
    BY <1>0, <2>1, Resting DEF SaverRec
  <2>3. Stopping => Stopping'
    BY <1>0, <2>1 DEF Stopping, Killed, Child
  <2>4. Frozen' /\ LooksAtAll'
    BY <2>2, <2>3 DEF LastInv, Frozen, LooksAtAll
  <2>5. CaughtUp'
    <3> SUFFICES ASSUME saver.final, take' = Stored, NEW f \in WholeLasts
                 PROVE  take' # None /\ take'.attempt = attempt /\ take'.reached >= f.name.epoch + 1
      BY <2>1, <2>2 DEF CaughtUp, WholeLasts
    <3>1. Stored # None
      BY <2>1, Storing
    <3>2. Stored.reached = saver.last.reached /\ Stored.attempt = attempt
      BY DEF Stored
    <3> QED BY <2>1, <3>1, <3>2 DEF LastInv, LooksAtAll
  <2> QED BY <2>4, <2>5 DEF LastInv
<1>11. CASE Handover \/ DieWithTrainer
  <2>1. saver' = Asleep
    BY <1>11 DEF Handover, DieWithTrainer, NewAttempt
  <2> QED BY <2>1 DEF Asleep, LastInv, Frozen, LooksAtAll, CaughtUp
<1>12. CASE SaverStep
  BY <1>5, <1>6, <1>7, <1>8, <1>9, <1>10, <1>12 DEF SaverStep, LookOnNudge, LastLook
<1> QED BY <1>1, <1>2, <1>3, <1>4, <1>11, <1>12 DEF SaverNext

\* The last look catches up: once the saver of a run whose statements succeeded is done, the
\* take holds the newest pair the run left whole, whatever was rotated under the looks
\* before and wherever the run was cut off (live.go).
THEOREM LastLookCatchesUp == SaverSpec => []CaughtUp
<1>1. SaverInit => LastInv
  BY DEF SaverInit, Asleep, LastInv, Frozen, LooksAtAll, CaughtUp
<1>2. LastInv => CaughtUp
  BY DEF LastInv
<1> QED BY <1>1, <1>2, LastKept, SaverInvariant, PTL DEF SaverSpec

-----------------------------------------------------------------------------
(* The contract.                                                           *)

\* No pair is of an epoch the trainer has not come to.
NoneAhead == \A f \in files : f.name.epoch <= child.epoch

\* What the saver has in its hands was completed, whatever became of its files.
HandsFull ==
  /\ saver.best # None => saver.best.reached <= Completed
  /\ saver.last # None => saver.last.reached <= Completed

\* Between two validations a pair of the epoch is on its way, and the one just written is
\* not what makes room for itself.
PairAtHand ==
  /\ IsFiniteSet(Names("best"))
  /\ child.at = "in best" => Now("best") \in Names("best")
  /\ child.at = "drop" => File(Now("best"), TRUE) \in files
  /\ child.at = "rotate" => File(Now("last"), TRUE) \in files
  /\ child.at \in {"in best", "drop"} =>
       \/ Cardinality(Names("best")) <= Keep
       \/ \E n \in Names("best") : Worse(n, Now("best"))

Reach == NoneAhead /\ HandsFull /\ PairAtHand

Held == IF take = None THEN 0 ELSE take.reached

\* A step as the contract sees it.
Kept == [Run!Next]_(Run!vars)

LEMMA Counting ==
  ASSUME SaverTypeOK
  PROVE  /\ child.epoch \in Nat /\ child.base \in Nat /\ Held \in Nat /\ Held <= Epochs
         /\ Completed \in {child.epoch, child.epoch + 1} /\ Completed \in Nat
<1>1. child.epoch \in Nat /\ child.base \in Nat
  BY DiskTypes, ChildNumbers
<1>2. Held \in Nat /\ Held <= Epochs
  BY SaverTypes, Sizes DEF Held, TakeRow
<1> QED BY <1>1, <1>2 DEF Completed

\* What is read off a whole pair is completed.
LEMMA WholeIsCompleted ==
  ASSUME SaverTypeOK, NoneAhead, NEW name \in PairName, WholePair(name)
  PROVE  ReadPair(name).reached <= Completed
<1>1. name.epoch <= child.epoch /\ name.epoch \in Nat /\ child.epoch \in Nat
  BY Counting, Sizes DEF NoneAhead, WholePair, File, PairName
<1>2. CASE name.epoch = child.epoch
  <2>1. Completed = child.epoch + 1
    BY <1>2 DEF Completed, WholePair, File
  <2> QED BY <1>1, <1>2, <2>1, Reading
<1>3. CASE name.epoch # child.epoch
  BY <1>1, <1>3, Reading, Counting
<1> QED BY <1>2, <1>3

\* How the contract reads a step, by what it does to the three numbers.
LEMMA KeptSame ==
  ASSUME child'.base = child.base, Completed' = Completed, Held' = Held
  PROVE  Kept
BY DEF Kept, Run!vars, Held

LEMMA KeptTrain ==
  ASSUME child'.base = child.base, Completed' = Completed + 1, Held' = Held
  PROVE  Kept
BY DEF Kept, Run!Next, Run!Train, Held

LEMMA KeptKeep ==
  ASSUME child'.base = child.base, Completed' = Completed, Held' \in (child.base + 1)..Completed
  PROVE  Kept
BY DEF Kept, Run!Next, Run!Put, Held

LEMMA KeptAgain ==
  ASSUME child'.base = Held, Completed' = Held, Held' = Held
  PROVE  Kept
BY DEF Kept, Run!Next, Run!Again, Held

\* The files stay, and the epoch.
LEMMA StillCompleted ==
  ASSUME UNCHANGED files, child'.epoch = child.epoch
  PROVE  Completed' = Completed
BY DEF Completed


\* What the saver holds stays completed, while the completed epochs only grow.
LEMMA HandsStay ==
  ASSUME SaverTypeOK, Reach, UNCHANGED saver, Completed' \in {Completed, Completed + 1}
  PROVE  HandsFull'
<1>1. saver.best # None => saver.best.reached \in Nat
  BY SaverTypes, Sizes DEF SaverRec, Pair
<1>2. saver.last # None => saver.last.reached \in Nat
  BY SaverTypes, Sizes DEF SaverRec, Pair
<1> QED BY <1>1, <1>2, Counting DEF Reach, HandsFull

LEMMA TopK == Keep \in Nat
BY CkptSaverAssumption

\* Room for one more.
LEMMA AddOne ==
  ASSUME NEW S, NEW x, IsFiniteSet(S), NEW n \in Nat, Cardinality(S) < n
  PROVE  Cardinality(S \cup {x}) <= n
<1>1. Cardinality(S) \in Nat
  BY FS_CardinalityType
<1>2. Cardinality(S \cup {x}) = IF x \in S THEN Cardinality(S) ELSE Cardinality(S) + 1
  BY FS_AddElement
<1> QED BY <1>1, <1>2

LEMMA ValidateKept ==
  ASSUME SaverInv, Reach, Validate
  PROVE  Reach' /\ Kept
<1> USE DEF Validate, libraryVars
<1>1. SaverTypeOK /\ child \in Child
  BY DiskTypes DEF SaverInv
<1>2. child'.at = "best" /\ child'.epoch = child.epoch /\ child'.base = child.base
  BY <1>1 DEF Child
<1>3. Completed' = Completed
  BY <1>2, StillCompleted
<1>4. NoneAhead'
  BY <1>2 DEF Reach, NoneAhead
<1>5. PairAtHand'
  BY <1>2 DEF Reach, PairAtHand, Names
<1> QED BY <1>1, <1>2, <1>3, <1>4, <1>5, HandsStay, KeptSame DEF Reach, Held

LEMMA BeginKept ==
  ASSUME SaverInv, Reach, NEW kind \in {"best", "last"}, Begin(kind)
  PROVE  Reach' /\ Kept
<1> USE DEF Begin, libraryVars
<1> DEFINE new == File(Now(kind), FALSE)
<1>1. SaverTypeOK /\ child \in Child /\ child.epoch \in Nat
  BY DiskTypes, ChildNumbers DEF SaverInv
<1>2. child'.at = Writing(kind) /\ child'.epoch = child.epoch /\ child'.base = child.base
      /\ child'.esr = child.esr
  BY <1>1 DEF Child
<1>3. ~new.whole /\ new.name = Now(kind) /\ Now(kind).epoch = child.epoch
      /\ Now(kind).kind = kind
  BY DEF File, Now
<1>4. /\ files' = files \cup {new} /\ UNCHANGED <<saver, take>>
      /\ child.at = kind /\ (kind = "best" => AmongBest)
  OBVIOUS
<1> HIDE DEF new, Begin, libraryVars
<1>5. Completed' = Completed
  BY <1>2, <1>3, <1>4 DEF Completed
<1>6. NoneAhead'
  BY <1>1, <1>2, <1>3, <1>4 DEF Reach, NoneAhead
<1>7. CASE kind = "last"
  <2>1. child'.at = "in last" /\ Names("best")' = Names("best")
    BY <1>2, <1>3, <1>4, <1>7 DEF Writing, Names
  <2>2. PairAtHand'
    BY <2>1 DEF Reach, PairAtHand
  <2> QED BY <1>1, <1>2, <1>4, <1>5, <1>6, <2>2, HandsStay, KeptSame DEF Reach, Held
<1>8. CASE kind = "best"
  <2>1. child'.at = "in best" /\ Now("best")' = Now("best")
    BY <1>2, <1>8 DEF Writing, Now
  <2>2. Names("best")' = Names("best") \cup {Now("best")}
    BY <1>3, <1>4, <1>8 DEF Names
  <2>3. IsFiniteSet(Names("best"))
    BY DEF Reach, PairAtHand
  <2>4. IsFiniteSet(Names("best")')
    BY <2>2, <2>3, FS_AddElement
  <2>5. \/ Cardinality(Names("best")') <= Keep
        \/ \E n \in Names("best") : Worse(n, Now("best"))
    <3>1. CASE Cardinality(Names("best")) < Keep
      <4> DEFINE S == Names("best")
                 x == Now("best")
      <4>1. IsFiniteSet(S) /\ Cardinality(S) < Keep
        BY <2>3, <3>1
      <4> HIDE DEF S, x
      <4>2. Cardinality(S \cup {x}) <= Keep
        BY <4>1, AddOne, TopK
      <4> QED BY <2>2, <4>2 DEF S, x
    <3>2. CASE \E n \in Names("best") : Worse(n, Now("best"))
      BY <3>2
    <3> QED BY <1>4, <1>8, <3>1, <3>2 DEF AmongBest
  <2>6. PairAtHand'
    BY <2>1, <2>2, <2>4, <2>5 DEF PairAtHand, Worse
  <2> QED BY <1>1, <1>2, <1>4, <1>5, <1>6, <2>6, HandsStay, KeptSame DEF Reach, Held
<1> QED BY <1>7, <1>8

LEMMA CompleteKept ==
  ASSUME SaverInv, Reach, Complete("best", "drop") \/ Complete("last", "rotate")
  PROVE  Reach' /\ Kept
<1> USE DEF Complete, libraryVars
<1>1. PICK kind \in {"best", "last"} :
        /\ child.at = Writing(kind)
        /\ files' = (files \ {File(Now(kind), FALSE)}) \cup {File(Now(kind), TRUE)}
        /\ child' = [child EXCEPT !.at = IF kind = "best" THEN "drop" ELSE "rotate"]
        /\ UNCHANGED <<saver, take>>
  OBVIOUS
<1> HIDE DEF Complete, libraryVars
<1> DEFINE part == File(Now(kind), FALSE)
           new == File(Now(kind), TRUE)
<1>2. SaverTypeOK /\ child \in Child /\ child.epoch \in Nat
  BY DiskTypes, ChildNumbers DEF SaverInv
<1>3. /\ child'.at = (IF kind = "best" THEN "drop" ELSE "rotate")
      /\ child'.epoch = child.epoch /\ child'.base = child.base /\ child'.esr = child.esr
  BY <1>1, <1>2 DEF Child
<1>4. new.whole = TRUE /\ new.name = Now(kind) /\ part.whole = FALSE /\ part.name = Now(kind)
      /\ Now(kind).epoch = child.epoch /\ Now(kind).kind = kind
  BY DEF File, Now
<1>5. files' = (files \ {part}) \cup {new}
  BY <1>1
<1>6. \A k : Now(k)' = Now(k) /\ File(Now(k), TRUE)' = File(Now(k), TRUE)
  BY <1>3 DEF Now, File
<1> HIDE DEF part, new
<1>7. Completed' = child.epoch + 1
  BY <1>3, <1>4, <1>5 DEF Completed
<1>8. NoneAhead'
  BY <1>2, <1>3, <1>4, <1>5 DEF Reach, NoneAhead
<1>9. Completed' \in {Completed, Completed + 1}
  BY <1>2, <1>7 DEF Completed
<1>10. CASE kind = "last"
  <2>1. Names("best")' = Names("best")
    BY <1>4, <1>5, <1>10 DEF Names
  <2>2. child'.at = "rotate" /\ File(Now("last"), TRUE) \in files'
    BY <1>3, <1>5, <1>10 DEF new
  <2>3. PairAtHand'
    BY <1>6, <2>1, <2>2 DEF Reach, PairAtHand
  <2> QED BY <1>1, <1>2, <1>3, <1>8, <1>9, <2>3, HandsStay, KeptSame, KeptTrain DEF Reach, Held
<1>11. CASE kind = "best"
  <2>1. child.at = "in best" /\ child'.at = "drop"
    BY <1>1, <1>3, <1>11 DEF Writing
  <2>2. Now("best") \in Names("best")
    BY <2>1 DEF Reach, PairAtHand
  <2>3. Names("best")' = Names("best")
    BY <1>4, <1>5, <1>11, <2>2 DEF Names
  <2>4. File(Now("best"), TRUE) \in files'
    BY <1>5, <1>11 DEF new
  <2>5. PairAtHand'
    BY <1>6, <2>1, <2>3, <2>4 DEF Reach, PairAtHand, Worse
  <2> QED BY <1>1, <1>2, <1>3, <1>8, <1>9, <2>5, HandsStay, KeptSame, KeptTrain DEF Reach, Held
<1> QED BY <1>10, <1>11

\* The worst of the best pairs goes, and it is never the one of this epoch.
LEMMA DroppingKept ==
  ASSUME SaverInv, Reach, SkipBest \/ DropWorst
  PROVE  Reach' /\ Kept
<1>1. SaverTypeOK /\ child \in Child
  BY DiskTypes DEF SaverInv
<1>2. /\ child' = [child EXCEPT !.at = "last"] /\ UNCHANGED <<saver, take>>
      /\ files' \subseteq files
  BY DEF SkipBest, DropWorst, libraryVars
<1>3. child'.at = "last" /\ child'.epoch = child.epoch /\ child'.base = child.base
  BY <1>1, <1>2 DEF Child
<1>4. Completed' = Completed
  <2>1. CASE UNCHANGED files
    BY <1>3, <2>1, StillCompleted
  <2>2. CASE files' # files
    <3>1. PICK f \in files :
            /\ child.at = "drop" /\ Cardinality(Names("best")) > Keep
            /\ \A n \in Names("best") : ~Worse(n, f.name)
            /\ files' = files \ {f}
      BY <2>2 DEF SkipBest, DropWorst
    <3>2. Cardinality(Names("best")) \in Nat
      BY FS_CardinalityType DEF Reach, PairAtHand
    <3>3. f.name # Now("best") /\ File(Now("best"), TRUE) \in files
      <4>1. ~(Cardinality(Names("best")) <= Keep)
        BY <3>1, <3>2, TopK
      <4>2. PICK n \in Names("best") : Worse(n, Now("best"))
        BY <3>1, <4>1 DEF Reach, PairAtHand
      <4> QED BY <3>1, <4>2 DEF Reach, PairAtHand
    <3> DEFINE new == File(Now("best"), TRUE)
    <3>4. new \in files /\ new \in files' /\ new.whole /\ new.name.epoch = child.epoch
      BY <3>1, <3>3 DEF File, Now
    <3> HIDE DEF new
    <3> QED BY <1>3, <3>4 DEF Completed
  <2> QED BY <2>1, <2>2
<1>5. NoneAhead'
  BY <1>2, <1>3 DEF Reach, NoneAhead
<1>6. PairAtHand'
  <2>1. Names("best")' \subseteq Names("best")
    BY <1>2 DEF Names
  <2>2. IsFiniteSet(Names("best")')
    BY <2>1, FS_Subset DEF Reach, PairAtHand
  <2> QED BY <1>3, <2>2 DEF PairAtHand
<1> QED BY <1>1, <1>2, <1>3, <1>4, <1>5, <1>6, HandsStay, KeptSame DEF Reach, Held

LEMMA RotateKept ==
  ASSUME SaverInv, Reach, Rotate
  PROVE  Reach' /\ Kept
<1>1. SaverTypeOK /\ Trains /\ child \in Child
  BY DiskTypes DEF SaverInv
<1>2. child.at = "rotate" /\ child.epoch \in Nat /\ child.epoch + 1 \in 0..Epochs
  BY <1>1, ChildNumbers, Sizes DEF Trains, Rotate
<1> DEFINE n == child.epoch + 1
<1>3. Started(n).at \in {"train", "out"} /\ Started(n).epoch = n
      /\ Started(n) \in [at : {"train", "out"}, epoch : 0..Epochs, base : 0..Epochs,
                         esr : Esrs \cup {Nan, None}]
  BY <1>2, Starting
<1> HIDE DEF n
<1>4. child'.at \in {"train", "out"} /\ child'.epoch = n /\ child'.base = child.base
  BY <1>3 DEF Rotate, n
<1>5. files' \subseteq files /\ UNCHANGED <<saver, take>>
  BY DEF Rotate, libraryVars
<1>6. \A f \in files : f.name.epoch \in Nat /\ f.name.epoch < n
  BY <1>1, <1>2, DiskTypes, Sizes DEF Reach, NoneAhead, FileRec, PairName, n
<1>7. Completed' = n
  BY <1>4, <1>5, <1>6 DEF Completed
<1>8. Completed = n
  <2>1. File(Now("last"), TRUE) \in files
    BY <1>2 DEF Reach, PairAtHand
  <2>2. File(Now("last"), TRUE).whole /\ File(Now("last"), TRUE).name.epoch = child.epoch
    BY DEF File, Now
  <2> QED BY <2>1, <2>2 DEF Completed, n
<1>9. NoneAhead'
  BY <1>2, <1>4, <1>5, <1>6 DEF NoneAhead, n
<1>10. PairAtHand'
  <2>1. Names("best")' \subseteq Names("best")
    BY <1>5 DEF Names
  <2>2. IsFiniteSet(Names("best")')
    BY <2>1, FS_Subset DEF Reach, PairAtHand
  <2> QED BY <1>4, <2>2 DEF PairAtHand
<1> QED BY <1>1, <1>4, <1>5, <1>7, <1>8, <1>9, <1>10, HandsStay, KeptSame DEF Reach, Held


\* A kill, an ask and a figure that is read leave the directory and the hands.
LEMMA StillKept ==
  ASSUME SaverInv, Reach, KillTrainer \/ AskToStop \/ ReaderStep
  PROVE  Reach' /\ Kept
<1>1. SaverTypeOK /\ child \in Child
  BY DiskTypes DEF SaverInv
<1>2. /\ UNCHANGED <<files, saver, take>>
      /\ UNCHANGED child \/ Killed
  BY DEF KillTrainer, AskToStop, ReaderStep, ReadFigure, ReadNan, libraryVars, diskVars
<1>3. /\ child'.epoch = child.epoch /\ child'.base = child.base /\ child'.esr = child.esr
      /\ child'.at \in {child.at, "out"}
  BY <1>1, <1>2 DEF Killed, Child
<1>4. Completed' = Completed
  BY <1>2, <1>3, StillCompleted
<1>5. NoneAhead'
  BY <1>2, <1>3 DEF Reach, NoneAhead
<1>6. PairAtHand'
  <2>1. \A k : Now(k)' = Now(k)
    BY <1>3 DEF Now
  <2> QED BY <1>2, <1>3, <2>1 DEF Reach, PairAtHand, Names, File, Worse
<1> QED BY <1>1, <1>2, <1>3, <1>4, <1>5, <1>6, HandsStay, KeptSame DEF Reach, Held

\* Whatever the saver does but store, it leaves all but its hands.
LEMMA HandsKept ==
  ASSUME Reach, UNCHANGED <<child, files, take>>, HandsFull'
  PROVE  Reach' /\ Kept
<1>1. Completed' = Completed /\ NoneAhead'
  BY DEF Completed, Reach, NoneAhead
<1>2. PairAtHand'
  BY DEF Reach, PairAtHand, Names, Now
<1> QED BY <1>1, <1>2, KeptSame DEF Reach, Held

LEMMA SaverKept ==
  ASSUME SaverInv, Reach,
         LookOnNudge \/ LastLook \/ ReadBest \/ ReadLast \/ FallBack \/ EpochESR
  PROVE  Reach' /\ Kept
<1>1. SaverTypeOK /\ SeenIsNew /\ saver \in SaverRec /\ NoneAhead /\ HandsFull
  BY SaverTypes DEF SaverInv, Reach
<1>2. UNCHANGED <<child, files, take>>
  BY DEF LookOnNudge, LastLook, Look, ReadBest, ReadLast, FallBack, EpochESR, diskVars,
    libraryVars
<1>3. Completed' = Completed
  BY <1>2 DEF Completed
<1>4. CASE LookOnNudge \/ LastLook
  <2>1. saver'.best = None /\ saver'.last = None
    BY <1>4 DEF LookOnNudge, LastLook, Look, Asleep
  <2> QED BY <1>2, <2>1, HandsKept DEF HandsFull
<1>5. CASE ReadBest
  <2>1. saver'.last = saver.last
    BY <1>1, <1>5 DEF ReadBest, SaverRec
  <2>2. \/ saver'.best = None
        \/ /\ saver.pick \in PairName /\ WholePair(saver.pick)
           /\ saver'.best = ReadPair(saver.pick)
    BY <1>1, <1>5 DEF ReadBest, SaverRec
  <2>3. HandsFull'
    BY <1>1, <1>3, <2>1, <2>2, WholeIsCompleted DEF HandsFull
  <2> QED BY <1>2, <2>3, HandsKept
<1>6. CASE ReadLast
  <2>1. saver'.best = saver.best
    BY <1>1, <1>6 DEF ReadLast, SaverRec
  <2>2. \/ saver'.last = saver.last
        \/ \E name \in PairName : WholePair(name) /\ saver'.last = ReadPair(name)
    BY <1>1, <1>6 DEF ReadLast, NewestOf, SaverRec
  <2>3. HandsFull'
    BY <1>1, <1>3, <2>1, <2>2, WholeIsCompleted DEF HandsFull
  <2> QED BY <1>2, <2>3, HandsKept
<1>7. CASE FallBack
  <2>1. CASE saver' = Rested
    BY <1>1, <1>2, <2>1, Resting, HandsKept DEF HandsFull
  <2>2. CASE saver' = [saver EXCEPT !.at = "figure", !.last = saver.best]
    <3>1. saver'.best = saver.best /\ saver'.last = saver.best
      BY <1>1, <2>2 DEF SaverRec
    <3>2. HandsFull'
      BY <1>1, <1>3, <3>1 DEF HandsFull
    <3> QED BY <1>2, <3>2, HandsKept
  <2> QED BY <1>7, <2>1, <2>2 DEF FallBack
<1>8. CASE EpochESR
  <2>1. saver'.best = saver.best /\ saver'.last = saver.last
    BY <1>1, <1>8 DEF EpochESR, SaverRec
  <2>2. HandsFull'
    BY <1>1, <1>3, <2>1 DEF HandsFull
  <2> QED BY <1>2, <2>2, HandsKept
<1> QED BY <1>4, <1>5, <1>6, <1>7, <1>8

\* What is stored lies between the base and what is completed.
LEMMA PutKept ==
  ASSUME SaverInv, Reach, PutCheckpoint
  PROVE  Reach' /\ Kept
<1>1. SaverTypeOK /\ FiguresTell /\ Trains /\ child \in Child /\ saver \in SaverRec
  BY DiskTypes, SaverTypes DEF SaverInv
<1>2. saver.at = "put" /\ UNCHANGED files /\ (UNCHANGED child \/ Killed)
  BY DEF PutCheckpoint
<1>3. /\ child'.epoch = child.epoch /\ child'.base = child.base /\ child'.esr = child.esr
      /\ child'.at \in {child.at, "out"}
  BY <1>1, <1>2 DEF Killed, Child
<1>4. Completed' = Completed
  BY <1>2, <1>3, StillCompleted
<1>5. saver'.best = None /\ saver'.last = None
  <2>1. PICK sent : saver' = [Rested EXCEPT !.sent = sent]
    BY DEF PutCheckpoint
  <2>2. Rested \in SaverRec /\ Rested.best = None /\ Rested.last = None
    BY <1>1, Resting
  <2> QED BY <2>1, <2>2 DEF SaverRec
<1>6. Reach'
  <2>1. \A k : Now(k)' = Now(k)
    BY <1>3 DEF Now
  <2>2. PairAtHand'
    BY <1>2, <1>3, <2>1 DEF Reach, PairAtHand, Names, File, Worse
  <2>3. NoneAhead'
    BY <1>2, <1>3 DEF Reach, NoneAhead
  <2> QED BY <1>5, <2>2, <2>3 DEF Reach, HandsFull
<1>7. CASE take' = take
  BY <1>3, <1>4, <1>6, <1>7, KeptSame DEF Held
<1>8. CASE take' = Stored
  <2>1. Stored # None /\ Stored.reached > child.base /\ Stored.reached = saver.last.reached
    BY <1>2, Storing DEF Stored
  <2>2. saver.last # None /\ saver.last \in Pair
    BY <1>1, <1>2 DEF FiguresTell, SaverTells, SaverRec
  <2>3. Stored.reached <= Completed /\ Stored.reached \in Nat
    BY <2>1, <2>2, Sizes DEF Reach, HandsFull, Pair
  <2>4. Stored.reached \in (child.base + 1)..Completed
    BY <1>1, <2>1, <2>3, Counting
  <2>5. Held' = Stored.reached
    BY <1>8, <2>1 DEF Held
  <2> QED BY <1>3, <1>4, <1>6, <2>4, <2>5, KeptKeep
<1> QED BY <1>6, <1>7, <1>8 DEF PutCheckpoint

\* The next attempt begins where the take stands, in a directory of its own.
LEMMA NewAttemptKept ==
  ASSUME SaverInv, Reach, NewAttempt
  PROVE  Reach' /\ Kept
<1>1. SaverTypeOK /\ Held \in 0..Epochs
  BY Counting DEF SaverInv
<1>2. /\ child' = Started(Held) /\ files' = {} /\ saver' = Asleep /\ take' = take
  BY DEF NewAttempt, FreshDir, Held
<1>3. /\ child'.at \in {"train", "out"} /\ child'.epoch = Held /\ child'.base = Held
  BY <1>1, <1>2, Starting
<1>4. Completed' = Held /\ Held' = Held
  BY <1>2, <1>3 DEF Completed, Held
<1>5. NoneAhead' /\ HandsFull'
  BY <1>2 DEF NoneAhead, HandsFull, Asleep
<1>6. PairAtHand'
  <2>1. Names("best")' = {}
    BY <1>2 DEF Names
  <2> QED BY <1>3, <2>1, FS_EmptySet DEF PairAtHand
<1> QED BY <1>3, <1>4, <1>5, <1>6, KeptAgain DEF Reach

LEMMA NextKept == SaverInv /\ Reach /\ [SaverNext]_saverVars => Reach' /\ Kept
<1> SUFFICES ASSUME SaverInv, Reach, [SaverNext]_saverVars PROVE Reach' /\ Kept
  OBVIOUS
<1>1. CASE UNCHANGED saverVars
  <2>1. UNCHANGED <<child, files, take, saver>>
    BY <1>1 DEF saverVars, diskVars, libraryVars
  <2>2. HandsFull'
    BY <2>1 DEF Reach, HandsFull, Completed
  <2> QED BY <2>1, <2>2, HandsKept
<1>2. CASE TrainerStep
  BY <1>2, ValidateKept, BeginKept, DroppingKept, CompleteKept, RotateKept DEF TrainerStep
<1>3. CASE KillTrainer \/ AskToStop \/ ReaderStep
  BY <1>3, StillKept
<1>4. CASE SaverStep
  BY <1>4, SaverKept, PutKept DEF SaverStep
<1>5. CASE Handover \/ DieWithTrainer
  BY <1>5, NewAttemptKept DEF Handover, DieWithTrainer
<1> QED BY <1>1, <1>2, <1>3, <1>4, <1>5 DEF SaverNext

\* The saver keeps the contract of Keeping, for any trainer, figures, kills, crashes and
\* lost answers: only whole epochs of this attempt reach the library, and the library is
\* where the next attempt starts (live.go, ckpt.go, runner.go).
THEOREM ImplementsKeeping == SaverSpec => SaverKeeping
<1>1. SaverInit => Reach /\ Run!Init
  <2> SUFFICES ASSUME SaverInit PROVE Reach /\ Run!Init
    OBVIOUS
  <2>1. /\ child.at \in {"train", "out"} /\ child.epoch = 0 /\ child.base = 0
    BY Starting, Sizes DEF SaverInit
  <2>2. files = {} /\ take = None /\ saver.best = None /\ saver.last = None
    BY DEF SaverInit, Asleep
  <2>3. Completed = 0
    BY <2>1, <2>2 DEF Completed
  <2>4. Names("best") = {}
    BY <2>2 DEF Names
  <2>5. Reach
    BY <2>1, <2>2, <2>4, FS_EmptySet DEF Reach, NoneAhead, HandsFull, PairAtHand
  <2> QED BY <2>1, <2>2, <2>3, <2>5 DEF Run!Init
<1>2. SaverSpec => []Reach
  BY <1>1, NextKept, SaverInvariant, PTL DEF SaverSpec
<1>3. SaverInv /\ Reach /\ [SaverNext]_saverVars => [Run!Next]_(Run!vars)
  BY NextKept DEF Kept
<1> QED BY <1>1, <1>2, <1>3, SaverInvariant, PTL DEF SaverSpec, SaverKeeping, Run!Spec

=============================================================================
