------------------------------ MODULE DaemonProofs ------------------------------
(***************************************************************************)
(* No start kills the trainer of a daemon that lives (NoFratricide), and   *)
(* the row of a daemon is there before what refers to it and says ready no *)
(* longer than the daemon is (RowTells), for any number of daemons, deaths *)
(* and lost sessions, and a library that comes, goes and moves at will.    *)
(*                                                                         *)
(* The first rests on the lock: who is past the claim of the identity      *)
(* holds it (Holds).  The second rests on where a daemon may be when a     *)
(* beat says ready (BeatsAtWork) and on a stop being there before the end  *)
(* begins (StopsFirst): a beat that is late writes nothing any more.       *)
(***************************************************************************)
EXTENDS Daemon, TLAPS

Places ==
  {"down", "unset", "open", "identity", "first", "recover", "work", "join", "farewell", "leave"}

DaemonRec ==
  [at : Places, stop : BOOLEAN, profile : BOOLEAN, schemaOK : BOOLEAN, beats : BOOLEAN]

BeatRec ==
  [at : {"rest", "ask", "judge", "upsert"}, sees : {"error", "none", "ours", "moved"},
   ready : BOOLEAN]

DaemonTypeOK ==
  /\ library \in [up : BOOLEAN, contract : {"none", "ours", "moved"}, known : BOOLEAN]
  /\ identity \in Daemons \cup {"stale", None}
  /\ row \in [by : Daemons, ready : BOOLEAN] \cup {None}
  /\ daemon \in [Daemons -> DaemonRec]
  /\ beat \in [Daemons -> [Beaters -> BeatRec]]
  /\ child \in [Daemons -> {"none", "own", "left"}]
  /\ lost \in BOOLEAN /\ robbed \in BOOLEAN /\ unsaid \in BOOLEAN

\* Who is past the claim has the lock, until a session is lost.
Holds ==
  ~lost => \A d \in Daemons :
    daemon[d].at \in {"first", "recover", "work", "join", "farewell", "leave"} => identity = d

OwnAtWork == \A d \in Daemons : child[d] = "own" => daemon[d].at \in {"work", "join"}

\* The first beat wrote the row.
RowFirst ==
  /\ \A d \in Daemons : daemon[d].at \in {"recover", "work", "join", "farewell", "leave"} => row # None
  /\ RowBeforeRuns

StopsFirst ==
  \A d \in Daemons : daemon[d].at \in {"join", "farewell", "leave"} => daemon[d].stop

\* A beat that will say ready was judged by a daemon that has a runtime, and so works.
BeatsAtWork ==
  \A d \in Daemons :
    /\ daemon[d].profile => daemon[d].at \in {"work", "join", "farewell", "leave"}
    /\ \A b \in Beaters : beat[d][b].ready => daemon[d].profile

RowAtWork ==
  row # None /\ row.ready /\ ~unsaid => daemon[row.by].at \in {"work", "join", "farewell"}

DaemonInv ==
  /\ DaemonTypeOK /\ Holds /\ OwnAtWork /\ RowFirst /\ StopsFirst /\ BeatsAtWork /\ RowAtWork
  /\ NoFratricide

-----------------------------------------------------------------------------
LEMMA InitInv == DaemonInit => DaemonInv
<1> SUFFICES ASSUME DaemonInit PROVE DaemonInv
  OBVIOUS
<1> USE DEF DaemonInit
<1>1. NoBeat \in BeatRec /\ Asleep \in DaemonRec
  BY DEF NoBeat, BeatRec, Asleep, DaemonRec, Places
<1>2. daemon \in [Daemons -> DaemonRec] /\ beat \in [Daemons -> [Beaters -> BeatRec]]
  BY <1>1
<1>3. DaemonTypeOK
  BY <1>2 DEF DaemonTypeOK
<1>4. Holds /\ OwnAtWork /\ RowFirst /\ StopsFirst
  BY DEF Holds, OwnAtWork, RowFirst, RowBeforeRuns, StopsFirst, Asleep
<1>5. BeatsAtWork
  BY DEF BeatsAtWork, Asleep, NoBeat
<1>6. RowAtWork /\ NoFratricide
  BY DEF RowAtWork, NoFratricide
<1> QED BY <1>3, <1>4, <1>5, <1>6 DEF DaemonInv

\* A process that goes from one place to the next changes nothing else of its own.
LEMMA Went ==
  ASSUME DaemonTypeOK, NEW d \in Daemons, NEW from \in Places, NEW to \in Places,
         Goes(d, from, to)
  PROVE  /\ daemon' \in [Daemons -> DaemonRec]
         /\ daemon[d].at = from /\ daemon'[d].at = to
         /\ daemon'[d].stop = daemon[d].stop /\ daemon'[d].profile = daemon[d].profile
         /\ \A e \in Daemons \ {d} : daemon'[e] = daemon[e]
<1>1. daemon[d] \in DaemonRec
  BY DEF DaemonTypeOK
<1>2. [daemon[d] EXCEPT !.at = to] \in DaemonRec
  BY <1>1 DEF DaemonRec
<1>3. daemon' = [daemon EXCEPT ![d] = [daemon[d] EXCEPT !.at = to]]
  BY DEF Goes
<1>4. daemon[d].at = from
  BY DEF Goes
<1> QED BY <1>1, <1>2, <1>3, <1>4 DEF DaemonTypeOK, DaemonRec

\* A process that ends forgets what it was at.
LEMMA EndedAll ==
  ASSUME DaemonTypeOK, NEW d \in Daemons,
         daemon' = [daemon EXCEPT ![d] = Asleep],
         beat' = [beat EXCEPT ![d] = [b \in Beaters |-> NoBeat]]
  PROVE  /\ daemon' \in [Daemons -> DaemonRec]
         /\ beat' \in [Daemons -> [Beaters -> BeatRec]]
         /\ daemon'[d].at = "down" /\ ~daemon'[d].stop /\ ~daemon'[d].profile
         /\ \A b \in Beaters : ~beat'[d][b].ready
         /\ \A e \in Daemons \ {d} : daemon'[e] = daemon[e] /\ beat'[e] = beat[e]
<1>1. NoBeat \in BeatRec /\ Asleep \in DaemonRec
  BY DEF NoBeat, BeatRec, Asleep, DaemonRec, Places
<1>2. [b \in Beaters |-> NoBeat] \in [Beaters -> BeatRec]
  BY <1>1
<1> QED BY <1>1, <1>2 DEF DaemonTypeOK, Asleep, NoBeat

LEMMA LaunchKeeps ==
  ASSUME DaemonInv, NEW d \in Daemons, Launch(d)
  PROVE  DaemonInv'
<1>1. Goes(d, "down", (IF library.known THEN "open" ELSE "unset")) /\ "down" \in Places /\ (IF library.known THEN "open" ELSE "unset") \in Places
  BY DEF Launch, Places
<1>2. DaemonTypeOK
  BY DEF DaemonInv
<1> HIDE DEF Goes
<1>3. /\ daemon' \in [Daemons -> DaemonRec]
      /\ daemon[d].at = "down" /\ daemon'[d].at = (IF library.known THEN "open" ELSE "unset")
      /\ daemon'[d].stop = daemon[d].stop /\ daemon'[d].profile = daemon[d].profile
      /\ \A e \in Daemons \ {d} : daemon'[e] = daemon[e]
  BY <1>1, <1>2, Went
<1>4. DaemonTypeOK'
  BY DaemonAssumption, <1>3
  DEF Launch, DaemonInv, DaemonTypeOK, histories
<1>5. Holds'
  BY DaemonAssumption, <1>3
  DEF Launch, DaemonInv, DaemonTypeOK, Holds, histories
<1>6. OwnAtWork'
  BY DaemonAssumption, <1>3
  DEF Launch, DaemonInv, DaemonTypeOK, OwnAtWork, histories
<1>7. RowFirst'
  BY DaemonAssumption, <1>3
  DEF Launch, DaemonInv, DaemonTypeOK, RowFirst, RowBeforeRuns, histories
<1>8. StopsFirst'
  BY DaemonAssumption, <1>3
  DEF Launch, DaemonInv, DaemonTypeOK, StopsFirst, histories
<1>9. BeatsAtWork'
  BY DaemonAssumption, <1>3
  DEF Launch, DaemonInv, DaemonTypeOK, BeatsAtWork, histories
<1>10. RowAtWork'
  BY DaemonAssumption, <1>3
  DEF Launch, DaemonInv, DaemonTypeOK, RowAtWork, BeatsAtWork, StopsFirst, histories
<1>11. NoFratricide'
  BY DaemonAssumption, <1>3
  DEF Launch, DaemonInv, DaemonTypeOK, NoFratricide, Holds, OwnAtWork, histories
<1> QED BY <1>4, <1>5, <1>6, <1>7, <1>8, <1>9, <1>10, <1>11 DEF DaemonInv

LEMMA OpenKeeps ==
  ASSUME DaemonInv, NEW d \in Daemons, OpenLibrary(d)
  PROVE  DaemonInv'
<1>1. Goes(d, "open", "identity") /\ "open" \in Places /\ "identity" \in Places
  BY DEF OpenLibrary, Places
<1>2. DaemonTypeOK
  BY DEF DaemonInv
<1> HIDE DEF Goes
<1>3. /\ daemon' \in [Daemons -> DaemonRec]
      /\ daemon[d].at = "open" /\ daemon'[d].at = "identity"
      /\ daemon'[d].stop = daemon[d].stop /\ daemon'[d].profile = daemon[d].profile
      /\ \A e \in Daemons \ {d} : daemon'[e] = daemon[e]
  BY <1>1, <1>2, Went
<1>4. DaemonTypeOK'
  BY DaemonAssumption, <1>3
  DEF OpenLibrary, DaemonInv, DaemonTypeOK, histories
<1>5. Holds'
  BY DaemonAssumption, <1>3
  DEF OpenLibrary, DaemonInv, DaemonTypeOK, Holds, histories
<1>6. OwnAtWork'
  BY DaemonAssumption, <1>3
  DEF OpenLibrary, DaemonInv, DaemonTypeOK, OwnAtWork, histories
<1>7. RowFirst'
  BY DaemonAssumption, <1>3
  DEF OpenLibrary, DaemonInv, DaemonTypeOK, RowFirst, RowBeforeRuns, histories
<1>8. StopsFirst'
  BY DaemonAssumption, <1>3
  DEF OpenLibrary, DaemonInv, DaemonTypeOK, StopsFirst, histories
<1>9. BeatsAtWork'
  BY DaemonAssumption, <1>3
  DEF OpenLibrary, DaemonInv, DaemonTypeOK, BeatsAtWork, histories
<1>10. RowAtWork'
  BY DaemonAssumption, <1>3
  DEF OpenLibrary, DaemonInv, DaemonTypeOK, RowAtWork, BeatsAtWork, StopsFirst, histories
<1>11. NoFratricide'
  BY DaemonAssumption, <1>3
  DEF OpenLibrary, DaemonInv, DaemonTypeOK, NoFratricide, Holds, OwnAtWork, histories
<1> QED BY <1>4, <1>5, <1>6, <1>7, <1>8, <1>9, <1>10, <1>11 DEF DaemonInv

LEMMA AskStopKeeps ==
  ASSUME DaemonInv, NEW d \in Daemons, AskStop(d)
  PROVE  DaemonInv'
<1>1. daemon[d] \in DaemonRec
  BY DEF DaemonInv, DaemonTypeOK
<1>2. [daemon[d] EXCEPT !.stop = TRUE] \in DaemonRec
  BY <1>1 DEF DaemonRec
<1>3. daemon' = [daemon EXCEPT ![d] = [daemon[d] EXCEPT !.stop = TRUE]]
  BY DEF AskStop
<1>4. daemon' \in [Daemons -> DaemonRec]
  BY <1>2, <1>3 DEF DaemonInv, DaemonTypeOK
<1>5. DaemonTypeOK'
  BY DaemonAssumption, <1>1, <1>2, <1>3, <1>4
  DEF AskStop, DaemonRec, DaemonInv, DaemonTypeOK, histories
<1>6. Holds'
  BY DaemonAssumption, <1>1, <1>2, <1>3, <1>4
  DEF AskStop, DaemonRec, DaemonInv, DaemonTypeOK, Holds, histories
<1>7. OwnAtWork'
  BY DaemonAssumption, <1>1, <1>2, <1>3, <1>4
  DEF AskStop, DaemonRec, DaemonInv, DaemonTypeOK, OwnAtWork, histories
<1>8. RowFirst'
  BY DaemonAssumption, <1>1, <1>2, <1>3, <1>4
  DEF AskStop, DaemonRec, DaemonInv, DaemonTypeOK, RowFirst, RowBeforeRuns, histories
<1>9. StopsFirst'
  BY DaemonAssumption, <1>1, <1>2, <1>3, <1>4
  DEF AskStop, DaemonRec, DaemonInv, DaemonTypeOK, StopsFirst, histories
<1>10. BeatsAtWork'
  BY DaemonAssumption, <1>1, <1>2, <1>3, <1>4
  DEF AskStop, DaemonRec, DaemonInv, DaemonTypeOK, BeatsAtWork, histories
<1>11. RowAtWork'
  BY DaemonAssumption, <1>1, <1>2, <1>3, <1>4
  DEF AskStop, DaemonRec, DaemonInv, DaemonTypeOK, RowAtWork, BeatsAtWork, StopsFirst, histories
<1>12. NoFratricide'
  BY DaemonAssumption, <1>1, <1>2, <1>3, <1>4
  DEF AskStop, DaemonRec, DaemonInv, DaemonTypeOK, NoFratricide, Holds, OwnAtWork, histories
<1> QED BY <1>5, <1>6, <1>7, <1>8, <1>9, <1>10, <1>11, <1>12 DEF DaemonInv

LEMMA SetupKeeps ==
  ASSUME DaemonInv, NEW d \in Daemons, Setup(d)
  PROVE  DaemonInv'
<1>1. daemon[d] \in DaemonRec
  BY DEF DaemonInv, DaemonTypeOK
<1>2. [daemon[d] EXCEPT !.stop = TRUE] \in DaemonRec
  BY <1>1 DEF DaemonRec
<1>3. daemon' = [daemon EXCEPT ![d] = [daemon[d] EXCEPT !.stop = TRUE]]
  BY DEF Setup
<1>4. daemon' \in [Daemons -> DaemonRec]
  BY <1>2, <1>3 DEF DaemonInv, DaemonTypeOK
<1>5. DaemonTypeOK'
  BY DaemonAssumption, <1>1, <1>2, <1>3, <1>4
  DEF Setup, DaemonRec, DaemonInv, DaemonTypeOK, histories
<1>6. Holds'
  BY DaemonAssumption, <1>1, <1>2, <1>3, <1>4
  DEF Setup, DaemonRec, DaemonInv, DaemonTypeOK, Holds, histories
<1>7. OwnAtWork'
  BY DaemonAssumption, <1>1, <1>2, <1>3, <1>4
  DEF Setup, DaemonRec, DaemonInv, DaemonTypeOK, OwnAtWork, histories
<1>8. RowFirst'
  BY DaemonAssumption, <1>1, <1>2, <1>3, <1>4
  DEF Setup, DaemonRec, DaemonInv, DaemonTypeOK, RowFirst, RowBeforeRuns, histories
<1>9. StopsFirst'
  BY DaemonAssumption, <1>1, <1>2, <1>3, <1>4
  DEF Setup, DaemonRec, DaemonInv, DaemonTypeOK, StopsFirst, histories
<1>10. BeatsAtWork'
  BY DaemonAssumption, <1>1, <1>2, <1>3, <1>4
  DEF Setup, DaemonRec, DaemonInv, DaemonTypeOK, BeatsAtWork, histories
<1>11. RowAtWork'
  BY DaemonAssumption, <1>1, <1>2, <1>3, <1>4
  DEF Setup, DaemonRec, DaemonInv, DaemonTypeOK, RowAtWork, BeatsAtWork, StopsFirst, histories
<1>12. NoFratricide'
  BY DaemonAssumption, <1>1, <1>2, <1>3, <1>4
  DEF Setup, DaemonRec, DaemonInv, DaemonTypeOK, NoFratricide, Holds, OwnAtWork, histories
<1> QED BY <1>5, <1>6, <1>7, <1>8, <1>9, <1>10, <1>11, <1>12 DEF DaemonInv

LEMMA ProvisionedKeeps ==
  ASSUME DaemonInv, NEW d \in Daemons, Provisioned(d)
  PROVE  DaemonInv'
<1>1. daemon[d] \in DaemonRec
  BY DEF DaemonInv, DaemonTypeOK
<1>2. [daemon[d] EXCEPT !.profile = TRUE, !.beats = TRUE] \in DaemonRec
  BY <1>1 DEF DaemonRec
<1>3. daemon' = [daemon EXCEPT ![d] = [daemon[d] EXCEPT !.profile = TRUE, !.beats = TRUE]]
  BY DEF Provisioned
<1>4. daemon' \in [Daemons -> DaemonRec]
  BY <1>2, <1>3 DEF DaemonInv, DaemonTypeOK
<1>5. DaemonTypeOK'
  BY DaemonAssumption, <1>1, <1>2, <1>3, <1>4
  DEF Provisioned, DaemonRec, DaemonInv, DaemonTypeOK, histories
<1>6. Holds'
  BY DaemonAssumption, <1>1, <1>2, <1>3, <1>4
  DEF Provisioned, DaemonRec, DaemonInv, DaemonTypeOK, Holds, histories
<1>7. OwnAtWork'
  BY DaemonAssumption, <1>1, <1>2, <1>3, <1>4
  DEF Provisioned, DaemonRec, DaemonInv, DaemonTypeOK, OwnAtWork, histories
<1>8. RowFirst'
  BY DaemonAssumption, <1>1, <1>2, <1>3, <1>4
  DEF Provisioned, DaemonRec, DaemonInv, DaemonTypeOK, RowFirst, RowBeforeRuns, histories
<1>9. StopsFirst'
  BY DaemonAssumption, <1>1, <1>2, <1>3, <1>4
  DEF Provisioned, DaemonRec, DaemonInv, DaemonTypeOK, StopsFirst, histories
<1>10. BeatsAtWork'
  BY DaemonAssumption, <1>1, <1>2, <1>3, <1>4
  DEF Provisioned, DaemonRec, DaemonInv, DaemonTypeOK, BeatsAtWork, histories
<1>11. RowAtWork'
  BY DaemonAssumption, <1>1, <1>2, <1>3, <1>4
  DEF Provisioned, DaemonRec, DaemonInv, DaemonTypeOK, RowAtWork, BeatsAtWork, StopsFirst, histories
<1>12. NoFratricide'
  BY DaemonAssumption, <1>1, <1>2, <1>3, <1>4
  DEF Provisioned, DaemonRec, DaemonInv, DaemonTypeOK, NoFratricide, Holds, OwnAtWork, histories
<1> QED BY <1>5, <1>6, <1>7, <1>8, <1>9, <1>10, <1>11, <1>12 DEF DaemonInv

LEMMA StopsWaitingKeeps ==
  ASSUME DaemonInv, NEW d \in Daemons, StopsWaiting(d)
  PROVE  DaemonInv'
<1>1. /\ daemon' \in [Daemons -> DaemonRec]
      /\ beat' \in [Daemons -> [Beaters -> BeatRec]]
      /\ daemon'[d].at = "down" /\ ~daemon'[d].stop /\ ~daemon'[d].profile
      /\ \A b \in Beaters : ~beat'[d][b].ready
      /\ \A e \in Daemons \ {d} : daemon'[e] = daemon[e] /\ beat'[e] = beat[e]
  BY EndedAll DEF StopsWaiting, Ended, DaemonInv
<1>2. DaemonTypeOK'
  BY DaemonAssumption, <1>1
  DEF StopsWaiting, Ended, DaemonInv, DaemonTypeOK, histories
<1>3. Holds'
  BY DaemonAssumption, <1>1
  DEF StopsWaiting, Ended, DaemonInv, DaemonTypeOK, Holds, histories
<1>4. OwnAtWork'
  BY DaemonAssumption, <1>1
  DEF StopsWaiting, Ended, DaemonInv, DaemonTypeOK, OwnAtWork, histories
<1>5. RowFirst'
  BY DaemonAssumption, <1>1
  DEF StopsWaiting, Ended, DaemonInv, DaemonTypeOK, RowFirst, RowBeforeRuns, histories
<1>6. StopsFirst'
  BY DaemonAssumption, <1>1
  DEF StopsWaiting, Ended, DaemonInv, DaemonTypeOK, StopsFirst, histories
<1>7. BeatsAtWork'
  BY DaemonAssumption, <1>1
  DEF StopsWaiting, Ended, DaemonInv, DaemonTypeOK, BeatsAtWork, histories
<1>8. RowAtWork'
  BY DaemonAssumption, <1>1
  DEF StopsWaiting, Ended, DaemonInv, DaemonTypeOK, RowAtWork, BeatsAtWork, StopsFirst, histories
<1>9. NoFratricide'
  BY DaemonAssumption, <1>1
  DEF StopsWaiting, Ended, DaemonInv, DaemonTypeOK, NoFratricide, Holds, OwnAtWork, histories
<1> QED BY <1>2, <1>3, <1>4, <1>5, <1>6, <1>7, <1>8, <1>9 DEF DaemonInv

LEMMA LeaveKeeps ==
  ASSUME DaemonInv, NEW d \in Daemons, Leave(d)
  PROVE  DaemonInv'
<1>1. /\ daemon' \in [Daemons -> DaemonRec]
      /\ beat' \in [Daemons -> [Beaters -> BeatRec]]
      /\ daemon'[d].at = "down" /\ ~daemon'[d].stop /\ ~daemon'[d].profile
      /\ \A b \in Beaters : ~beat'[d][b].ready
      /\ \A e \in Daemons \ {d} : daemon'[e] = daemon[e] /\ beat'[e] = beat[e]
  BY EndedAll DEF Leave, Ended, DaemonInv
<1>2. DaemonTypeOK'
  BY DaemonAssumption, <1>1
  DEF Leave, Ended, DaemonInv, DaemonTypeOK, histories
<1>3. Holds'
  BY DaemonAssumption, <1>1
  DEF Leave, Ended, DaemonInv, DaemonTypeOK, Holds, histories
<1>4. OwnAtWork'
  BY DaemonAssumption, <1>1
  DEF Leave, Ended, DaemonInv, DaemonTypeOK, OwnAtWork, histories
<1>5. RowFirst'
  BY DaemonAssumption, <1>1
  DEF Leave, Ended, DaemonInv, DaemonTypeOK, RowFirst, RowBeforeRuns, histories
<1>6. StopsFirst'
  BY DaemonAssumption, <1>1
  DEF Leave, Ended, DaemonInv, DaemonTypeOK, StopsFirst, histories
<1>7. BeatsAtWork'
  BY DaemonAssumption, <1>1
  DEF Leave, Ended, DaemonInv, DaemonTypeOK, BeatsAtWork, histories
<1>8. RowAtWork'
  BY DaemonAssumption, <1>1
  DEF Leave, Ended, DaemonInv, DaemonTypeOK, RowAtWork, BeatsAtWork, StopsFirst, histories
<1>9. NoFratricide'
  BY DaemonAssumption, <1>1
  DEF Leave, Ended, DaemonInv, DaemonTypeOK, NoFratricide, Holds, OwnAtWork, histories
<1> QED BY <1>2, <1>3, <1>4, <1>5, <1>6, <1>7, <1>8, <1>9 DEF DaemonInv

LEMMA ClaimKeeps ==
  ASSUME DaemonInv, NEW d \in Daemons, library.up /\ ~daemon[d].stop /\ identity = None, ClaimIdentity(d)
  PROVE  DaemonInv'
<1>1. /\ daemon' \in [Daemons -> DaemonRec]
      /\ daemon[d].at = "identity" /\ daemon'[d].at = "first"
      /\ daemon'[d].stop = daemon[d].stop /\ daemon'[d].profile = daemon[d].profile
      /\ \A e \in Daemons \ {d} : daemon'[e] = daemon[e]
  <2>1. Goes(d, "identity", "first") /\ "identity" \in Places /\ "first" \in Places
    BY DEF ClaimIdentity, Places
  <2> QED BY <2>1, Went DEF DaemonInv
<1>2. DaemonTypeOK'
  BY DaemonAssumption, <1>1
  DEF ClaimIdentity, DaemonInv, DaemonTypeOK, histories
<1>3. Holds'
  BY DaemonAssumption, <1>1
  DEF ClaimIdentity, DaemonInv, DaemonTypeOK, Holds, histories
<1>4. OwnAtWork'
  BY DaemonAssumption, <1>1
  DEF ClaimIdentity, DaemonInv, DaemonTypeOK, OwnAtWork, histories
<1>5. RowFirst'
  BY DaemonAssumption, <1>1
  DEF ClaimIdentity, DaemonInv, DaemonTypeOK, RowFirst, RowBeforeRuns, histories
<1>6. StopsFirst'
  BY DaemonAssumption, <1>1
  DEF ClaimIdentity, DaemonInv, DaemonTypeOK, StopsFirst, histories
<1>7. BeatsAtWork'
  BY DaemonAssumption, <1>1
  DEF ClaimIdentity, DaemonInv, DaemonTypeOK, BeatsAtWork, histories
<1>8. RowAtWork'
  BY DaemonAssumption, <1>1
  DEF ClaimIdentity, DaemonInv, DaemonTypeOK, RowAtWork, BeatsAtWork, StopsFirst, histories
<1>9. NoFratricide'
  BY DaemonAssumption, <1>1
  DEF ClaimIdentity, DaemonInv, DaemonTypeOK, NoFratricide, Holds, OwnAtWork, histories
<1> QED BY <1>2, <1>3, <1>4, <1>5, <1>6, <1>7, <1>8, <1>9 DEF DaemonInv

LEMMA ClaimFailKeeps ==
  ASSUME DaemonInv, NEW d \in Daemons, ~(library.up /\ ~daemon[d].stop /\ identity = None), ClaimIdentity(d)
  PROVE  DaemonInv'
<1>1. /\ daemon' \in [Daemons -> DaemonRec]
      /\ beat' \in [Daemons -> [Beaters -> BeatRec]]
      /\ daemon'[d].at = "down" /\ ~daemon'[d].stop /\ ~daemon'[d].profile
      /\ \A b \in Beaters : ~beat'[d][b].ready
      /\ \A e \in Daemons \ {d} : daemon'[e] = daemon[e] /\ beat'[e] = beat[e]
  BY EndedAll DEF ClaimIdentity, Ended, DaemonInv
<1>2. DaemonTypeOK'
  BY DaemonAssumption, <1>1
  DEF ClaimIdentity, Ended, DaemonInv, DaemonTypeOK, histories
<1>3. Holds'
  BY DaemonAssumption, <1>1
  DEF ClaimIdentity, Ended, DaemonInv, DaemonTypeOK, Holds, histories
<1>4. OwnAtWork'
  BY DaemonAssumption, <1>1
  DEF ClaimIdentity, Ended, DaemonInv, DaemonTypeOK, OwnAtWork, histories
<1>5. RowFirst'
  BY DaemonAssumption, <1>1
  DEF ClaimIdentity, Ended, DaemonInv, DaemonTypeOK, RowFirst, RowBeforeRuns, histories
<1>6. StopsFirst'
  BY DaemonAssumption, <1>1
  DEF ClaimIdentity, Ended, DaemonInv, DaemonTypeOK, StopsFirst, histories
<1>7. BeatsAtWork'
  BY DaemonAssumption, <1>1
  DEF ClaimIdentity, Ended, DaemonInv, DaemonTypeOK, BeatsAtWork, histories
<1>8. RowAtWork'
  BY DaemonAssumption, <1>1
  DEF ClaimIdentity, Ended, DaemonInv, DaemonTypeOK, RowAtWork, BeatsAtWork, StopsFirst, histories
<1>9. NoFratricide'
  BY DaemonAssumption, <1>1
  DEF ClaimIdentity, Ended, DaemonInv, DaemonTypeOK, NoFratricide, Holds, OwnAtWork, histories
<1> QED BY <1>2, <1>3, <1>4, <1>5, <1>6, <1>7, <1>8, <1>9 DEF DaemonInv

LEMMA RecoverKeeps ==
  ASSUME DaemonInv, NEW d \in Daemons, library.up /\ ~daemon[d].stop, Recover(d)
  PROVE  DaemonInv'
<1>1. /\ daemon' \in [Daemons -> DaemonRec]
      /\ daemon[d].at = "recover" /\ daemon'[d].at = "work"
      /\ daemon'[d].stop = daemon[d].stop /\ daemon'[d].profile = daemon[d].profile
      /\ \A e \in Daemons \ {d} : daemon'[e] = daemon[e]
  <2>1. Goes(d, "recover", "work") /\ "recover" \in Places /\ "work" \in Places
    BY DEF Recover, Places
  <2> QED BY <2>1, Went DEF DaemonInv
<1>2. DaemonTypeOK'
  BY DaemonAssumption, <1>1
  DEF Recover, DaemonInv, DaemonTypeOK, histories
<1>3. Holds'
  BY DaemonAssumption, <1>1
  DEF Recover, DaemonInv, DaemonTypeOK, Holds, histories
<1>4. OwnAtWork'
  BY DaemonAssumption, <1>1
  DEF Recover, DaemonInv, DaemonTypeOK, OwnAtWork, histories
<1>5. RowFirst'
  BY DaemonAssumption, <1>1
  DEF Recover, DaemonInv, DaemonTypeOK, RowFirst, RowBeforeRuns, histories
<1>6. StopsFirst'
  BY DaemonAssumption, <1>1
  DEF Recover, DaemonInv, DaemonTypeOK, StopsFirst, histories
<1>7. BeatsAtWork'
  BY DaemonAssumption, <1>1
  DEF Recover, DaemonInv, DaemonTypeOK, BeatsAtWork, histories
<1>8. RowAtWork'
  BY DaemonAssumption, <1>1
  DEF Recover, DaemonInv, DaemonTypeOK, RowAtWork, BeatsAtWork, StopsFirst, histories
<1>9. NoFratricide'
  BY DaemonAssumption, <1>1
  DEF Recover, DaemonInv, DaemonTypeOK, NoFratricide, Holds, OwnAtWork, histories
<1> QED BY <1>2, <1>3, <1>4, <1>5, <1>6, <1>7, <1>8, <1>9 DEF DaemonInv

LEMMA RecoverFailKeeps ==
  ASSUME DaemonInv, NEW d \in Daemons, ~(library.up /\ ~daemon[d].stop), Recover(d)
  PROVE  DaemonInv'
<1>1. /\ daemon' \in [Daemons -> DaemonRec]
      /\ beat' \in [Daemons -> [Beaters -> BeatRec]]
      /\ daemon'[d].at = "down" /\ ~daemon'[d].stop /\ ~daemon'[d].profile
      /\ \A b \in Beaters : ~beat'[d][b].ready
      /\ \A e \in Daemons \ {d} : daemon'[e] = daemon[e] /\ beat'[e] = beat[e]
  BY EndedAll DEF Recover, Ended, DaemonInv
<1>2. DaemonTypeOK'
  BY DaemonAssumption, <1>1
  DEF Recover, Ended, DaemonInv, DaemonTypeOK, histories
<1>3. Holds'
  BY DaemonAssumption, <1>1
  DEF Recover, Ended, DaemonInv, DaemonTypeOK, Holds, histories
<1>4. OwnAtWork'
  BY DaemonAssumption, <1>1
  DEF Recover, Ended, DaemonInv, DaemonTypeOK, OwnAtWork, histories
<1>5. RowFirst'
  BY DaemonAssumption, <1>1
  DEF Recover, Ended, DaemonInv, DaemonTypeOK, RowFirst, RowBeforeRuns, histories
<1>6. StopsFirst'
  BY DaemonAssumption, <1>1
  DEF Recover, Ended, DaemonInv, DaemonTypeOK, StopsFirst, histories
<1>7. BeatsAtWork'
  BY DaemonAssumption, <1>1
  DEF Recover, Ended, DaemonInv, DaemonTypeOK, BeatsAtWork, histories
<1>8. RowAtWork'
  BY DaemonAssumption, <1>1
  DEF Recover, Ended, DaemonInv, DaemonTypeOK, RowAtWork, BeatsAtWork, StopsFirst, histories
<1>9. NoFratricide'
  BY DaemonAssumption, <1>1
  DEF Recover, Ended, DaemonInv, DaemonTypeOK, NoFratricide, Holds, OwnAtWork, histories
<1> QED BY <1>2, <1>3, <1>4, <1>5, <1>6, <1>7, <1>8, <1>9 DEF DaemonInv

LEMMA StopPoolKeeps ==
  ASSUME DaemonInv, NEW d \in Daemons, StopPool(d)
  PROVE  DaemonInv'
<1>1. /\ daemon' \in [Daemons -> DaemonRec]
      /\ daemon[d].at = "work" /\ daemon'[d].at = "join"
      /\ daemon'[d].stop = daemon[d].stop /\ daemon'[d].profile = daemon[d].profile
      /\ \A e \in Daemons \ {d} : daemon'[e] = daemon[e]
  <2>1. Goes(d, "work", "join") /\ "work" \in Places /\ "join" \in Places
    BY DEF StopPool, Places
  <2> QED BY <2>1, Went DEF DaemonInv
<1>2. DaemonTypeOK'
  BY DaemonAssumption, <1>1
  DEF StopPool, DaemonInv, DaemonTypeOK, histories
<1>3. Holds'
  BY DaemonAssumption, <1>1
  DEF StopPool, DaemonInv, DaemonTypeOK, Holds, histories
<1>4. OwnAtWork'
  BY DaemonAssumption, <1>1
  DEF StopPool, DaemonInv, DaemonTypeOK, OwnAtWork, histories
<1>5. RowFirst'
  BY DaemonAssumption, <1>1
  DEF StopPool, DaemonInv, DaemonTypeOK, RowFirst, RowBeforeRuns, histories
<1>6. StopsFirst'
  BY DaemonAssumption, <1>1
  DEF StopPool, DaemonInv, DaemonTypeOK, StopsFirst, histories
<1>7. BeatsAtWork'
  BY DaemonAssumption, <1>1
  DEF StopPool, DaemonInv, DaemonTypeOK, BeatsAtWork, histories
<1>8. RowAtWork'
  BY DaemonAssumption, <1>1
  DEF StopPool, DaemonInv, DaemonTypeOK, RowAtWork, BeatsAtWork, StopsFirst, histories
<1>9. NoFratricide'
  BY DaemonAssumption, <1>1
  DEF StopPool, DaemonInv, DaemonTypeOK, NoFratricide, Holds, OwnAtWork, histories
<1> QED BY <1>2, <1>3, <1>4, <1>5, <1>6, <1>7, <1>8, <1>9 DEF DaemonInv

LEMMA JoinPoolKeeps ==
  ASSUME DaemonInv, NEW d \in Daemons, JoinPool(d)
  PROVE  DaemonInv'
<1>1. /\ daemon' \in [Daemons -> DaemonRec]
      /\ daemon[d].at = "join" /\ daemon'[d].at = "farewell"
      /\ daemon'[d].stop = daemon[d].stop /\ daemon'[d].profile = daemon[d].profile
      /\ \A e \in Daemons \ {d} : daemon'[e] = daemon[e]
  <2>1. Goes(d, "join", "farewell") /\ "join" \in Places /\ "farewell" \in Places
    BY DEF JoinPool, Places
  <2> QED BY <2>1, Went DEF DaemonInv
<1>2. DaemonTypeOK'
  BY DaemonAssumption, <1>1
  DEF JoinPool, DaemonInv, DaemonTypeOK, histories
<1>3. Holds'
  BY DaemonAssumption, <1>1
  DEF JoinPool, DaemonInv, DaemonTypeOK, Holds, histories
<1>4. OwnAtWork'
  BY DaemonAssumption, <1>1
  DEF JoinPool, DaemonInv, DaemonTypeOK, OwnAtWork, histories
<1>5. RowFirst'
  BY DaemonAssumption, <1>1
  DEF JoinPool, DaemonInv, DaemonTypeOK, RowFirst, RowBeforeRuns, histories
<1>6. StopsFirst'
  BY DaemonAssumption, <1>1
  DEF JoinPool, DaemonInv, DaemonTypeOK, StopsFirst, histories
<1>7. BeatsAtWork'
  BY DaemonAssumption, <1>1
  DEF JoinPool, DaemonInv, DaemonTypeOK, BeatsAtWork, histories
<1>8. RowAtWork'
  BY DaemonAssumption, <1>1
  DEF JoinPool, DaemonInv, DaemonTypeOK, RowAtWork, BeatsAtWork, StopsFirst, histories
<1>9. NoFratricide'
  BY DaemonAssumption, <1>1
  DEF JoinPool, DaemonInv, DaemonTypeOK, NoFratricide, Holds, OwnAtWork, histories
<1> QED BY <1>2, <1>3, <1>4, <1>5, <1>6, <1>7, <1>8, <1>9 DEF DaemonInv

LEMMA FarewellKeeps ==
  ASSUME DaemonInv, NEW d \in Daemons, Farewell(d)
  PROVE  DaemonInv'
<1>1. /\ daemon' \in [Daemons -> DaemonRec]
      /\ daemon[d].at = "farewell" /\ daemon'[d].at = "leave"
      /\ daemon'[d].stop = daemon[d].stop /\ daemon'[d].profile = daemon[d].profile
      /\ \A e \in Daemons \ {d} : daemon'[e] = daemon[e]
  <2>1. Goes(d, "farewell", "leave") /\ "farewell" \in Places /\ "leave" \in Places
    BY DEF Farewell, Places
  <2> QED BY <2>1, Went DEF DaemonInv
<1>2. row' \in [by : Daemons, ready : BOOLEAN] \cup {None} /\ row' # None
  <2>1. row # None
    BY <1>1 DEF DaemonInv, RowFirst
  <2>2. [by |-> d, ready |-> FALSE] \in [by : Daemons, ready : BOOLEAN]
    OBVIOUS
  <2>3. row' = row \/ row' = [by |-> d, ready |-> FALSE]
    BY DEF Farewell
  <2> QED BY <2>1, <2>2, <2>3, DaemonAssumption DEF DaemonInv, DaemonTypeOK
<1>3. DaemonTypeOK'
  BY DaemonAssumption, <1>1, <1>2
  DEF Farewell, DaemonInv, DaemonTypeOK, histories
<1>4. Holds'
  BY DaemonAssumption, <1>1, <1>2
  DEF Farewell, DaemonInv, DaemonTypeOK, Holds, histories
<1>5. OwnAtWork'
  BY DaemonAssumption, <1>1, <1>2
  DEF Farewell, DaemonInv, DaemonTypeOK, OwnAtWork, histories
<1>6. RowFirst'
  BY DaemonAssumption, <1>1, <1>2
  DEF Farewell, DaemonInv, DaemonTypeOK, RowFirst, RowBeforeRuns, histories
<1>7. StopsFirst'
  BY DaemonAssumption, <1>1, <1>2
  DEF Farewell, DaemonInv, DaemonTypeOK, StopsFirst, histories
<1>8. BeatsAtWork'
  BY DaemonAssumption, <1>1, <1>2
  DEF Farewell, DaemonInv, DaemonTypeOK, BeatsAtWork, histories
<1>9. RowAtWork'
  BY DaemonAssumption, <1>1, <1>2
  DEF Farewell, DaemonInv, DaemonTypeOK, RowAtWork, BeatsAtWork, StopsFirst, histories
<1>10. NoFratricide'
  BY DaemonAssumption, <1>1, <1>2
  DEF Farewell, DaemonInv, DaemonTypeOK, NoFratricide, Holds, OwnAtWork, histories
<1> QED BY <1>3, <1>4, <1>5, <1>6, <1>7, <1>8, <1>9, <1>10 DEF DaemonInv

LEMMA DieKeeps ==
  ASSUME DaemonInv, NEW d \in Daemons, Die(d)
  PROVE  DaemonInv'
<1>1. /\ daemon' \in [Daemons -> DaemonRec]
      /\ beat' \in [Daemons -> [Beaters -> BeatRec]]
      /\ daemon'[d].at = "down" /\ ~daemon'[d].stop /\ ~daemon'[d].profile
      /\ \A b \in Beaters : ~beat'[d][b].ready
      /\ \A e \in Daemons \ {d} : daemon'[e] = daemon[e] /\ beat'[e] = beat[e]
  BY EndedAll DEF Die, Ended, DaemonInv
<1>2. DaemonTypeOK'
  BY DaemonAssumption, <1>1
  DEF Die, DaemonInv, DaemonTypeOK, histories
<1>3. Holds'
  BY DaemonAssumption, <1>1
  DEF Die, DaemonInv, DaemonTypeOK, Holds, histories
<1>4. OwnAtWork'
  BY DaemonAssumption, <1>1
  DEF Die, DaemonInv, DaemonTypeOK, OwnAtWork, histories
<1>5. RowFirst'
  BY DaemonAssumption, <1>1
  DEF Die, DaemonInv, DaemonTypeOK, RowFirst, RowBeforeRuns, histories
<1>6. StopsFirst'
  BY DaemonAssumption, <1>1
  DEF Die, DaemonInv, DaemonTypeOK, StopsFirst, histories
<1>7. BeatsAtWork'
  BY DaemonAssumption, <1>1
  DEF Die, DaemonInv, DaemonTypeOK, BeatsAtWork, histories
<1>8. RowAtWork'
  BY DaemonAssumption, <1>1
  DEF Die, DaemonInv, DaemonTypeOK, RowAtWork, BeatsAtWork, StopsFirst, histories
<1>9. NoFratricide'
  BY DaemonAssumption, <1>1
  DEF Die, DaemonInv, DaemonTypeOK, NoFratricide, Holds, OwnAtWork, histories
<1> QED BY <1>2, <1>3, <1>4, <1>5, <1>6, <1>7, <1>8, <1>9 DEF DaemonInv

LEMMA ClaimRunKeeps ==
  ASSUME DaemonInv, NEW d \in Daemons, ClaimRun(d)
  PROVE  DaemonInv'
<1>1. DaemonTypeOK'
  BY DaemonAssumption
  DEF ClaimRun, Ready, DaemonInv, DaemonTypeOK, histories
<1>2. Holds'
  BY DaemonAssumption
  DEF ClaimRun, Ready, DaemonInv, DaemonTypeOK, Holds, histories
<1>3. OwnAtWork'
  BY DaemonAssumption
  DEF ClaimRun, Ready, DaemonInv, DaemonTypeOK, OwnAtWork, histories
<1>4. RowFirst'
  BY DaemonAssumption
  DEF ClaimRun, Ready, DaemonInv, DaemonTypeOK, RowFirst, RowBeforeRuns, histories
<1>5. StopsFirst'
  BY DaemonAssumption
  DEF ClaimRun, Ready, DaemonInv, DaemonTypeOK, StopsFirst, histories
<1>6. BeatsAtWork'
  BY DaemonAssumption
  DEF ClaimRun, Ready, DaemonInv, DaemonTypeOK, BeatsAtWork, histories
<1>7. RowAtWork'
  BY DaemonAssumption
  DEF ClaimRun, Ready, DaemonInv, DaemonTypeOK, RowAtWork, BeatsAtWork, StopsFirst, histories
<1>8. NoFratricide'
  BY DaemonAssumption
  DEF ClaimRun, Ready, DaemonInv, DaemonTypeOK, NoFratricide, Holds, OwnAtWork, histories
<1> QED BY <1>1, <1>2, <1>3, <1>4, <1>5, <1>6, <1>7, <1>8 DEF DaemonInv

LEMMA EndRunKeeps ==
  ASSUME DaemonInv, NEW d \in Daemons, EndRun(d)
  PROVE  DaemonInv'
<1>1. DaemonTypeOK'
  BY DaemonAssumption
  DEF EndRun, DaemonInv, DaemonTypeOK, histories
<1>2. Holds'
  BY DaemonAssumption
  DEF EndRun, DaemonInv, DaemonTypeOK, Holds, histories
<1>3. OwnAtWork'
  BY DaemonAssumption
  DEF EndRun, DaemonInv, DaemonTypeOK, OwnAtWork, histories
<1>4. RowFirst'
  BY DaemonAssumption
  DEF EndRun, DaemonInv, DaemonTypeOK, RowFirst, RowBeforeRuns, histories
<1>5. StopsFirst'
  BY DaemonAssumption
  DEF EndRun, DaemonInv, DaemonTypeOK, StopsFirst, histories
<1>6. BeatsAtWork'
  BY DaemonAssumption
  DEF EndRun, DaemonInv, DaemonTypeOK, BeatsAtWork, histories
<1>7. RowAtWork'
  BY DaemonAssumption
  DEF EndRun, DaemonInv, DaemonTypeOK, RowAtWork, BeatsAtWork, StopsFirst, histories
<1>8. NoFratricide'
  BY DaemonAssumption
  DEF EndRun, DaemonInv, DaemonTypeOK, NoFratricide, Holds, OwnAtWork, histories
<1> QED BY <1>1, <1>2, <1>3, <1>4, <1>5, <1>6, <1>7, <1>8 DEF DaemonInv

LEMMA NoticedKeeps ==
  ASSUME DaemonInv, SessionNoticed
  PROVE  DaemonInv'
<1>1. DaemonTypeOK'
  BY DaemonAssumption
  DEF SessionNoticed, DaemonInv, DaemonTypeOK, histories
<1>2. Holds'
  BY DaemonAssumption
  DEF SessionNoticed, DaemonInv, DaemonTypeOK, Holds, histories
<1>3. OwnAtWork'
  BY DaemonAssumption
  DEF SessionNoticed, DaemonInv, DaemonTypeOK, OwnAtWork, histories
<1>4. RowFirst'
  BY DaemonAssumption
  DEF SessionNoticed, DaemonInv, DaemonTypeOK, RowFirst, RowBeforeRuns, histories
<1>5. StopsFirst'
  BY DaemonAssumption
  DEF SessionNoticed, DaemonInv, DaemonTypeOK, StopsFirst, histories
<1>6. BeatsAtWork'
  BY DaemonAssumption
  DEF SessionNoticed, DaemonInv, DaemonTypeOK, BeatsAtWork, histories
<1>7. RowAtWork'
  BY DaemonAssumption
  DEF SessionNoticed, DaemonInv, DaemonTypeOK, RowAtWork, BeatsAtWork, StopsFirst, histories
<1>8. NoFratricide'
  BY DaemonAssumption
  DEF SessionNoticed, DaemonInv, DaemonTypeOK, NoFratricide, Holds, OwnAtWork, histories
<1> QED BY <1>1, <1>2, <1>3, <1>4, <1>5, <1>6, <1>7, <1>8 DEF DaemonInv

LEMMA LoseKeeps ==
  ASSUME DaemonInv, LoseSession
  PROVE  DaemonInv'
<1>1. DaemonTypeOK'
  BY DaemonAssumption
  DEF LoseSession, DaemonInv, DaemonTypeOK, histories
<1>2. Holds'
  BY DaemonAssumption
  DEF LoseSession, DaemonInv, DaemonTypeOK, Holds, histories
<1>3. OwnAtWork'
  BY DaemonAssumption
  DEF LoseSession, DaemonInv, DaemonTypeOK, OwnAtWork, histories
<1>4. RowFirst'
  BY DaemonAssumption
  DEF LoseSession, DaemonInv, DaemonTypeOK, RowFirst, RowBeforeRuns, histories
<1>5. StopsFirst'
  BY DaemonAssumption
  DEF LoseSession, DaemonInv, DaemonTypeOK, StopsFirst, histories
<1>6. BeatsAtWork'
  BY DaemonAssumption
  DEF LoseSession, DaemonInv, DaemonTypeOK, BeatsAtWork, histories
<1>7. RowAtWork'
  BY DaemonAssumption
  DEF LoseSession, DaemonInv, DaemonTypeOK, RowAtWork, BeatsAtWork, StopsFirst, histories
<1>8. NoFratricide'
  BY DaemonAssumption
  DEF LoseSession, DaemonInv, DaemonTypeOK, NoFratricide, Holds, OwnAtWork, histories
<1> QED BY <1>1, <1>2, <1>3, <1>4, <1>5, <1>6, <1>7, <1>8 DEF DaemonInv

LEMMA ReachableKeeps ==
  ASSUME DaemonInv, Reachable
  PROVE  DaemonInv'
<1>1. DaemonTypeOK'
  BY DaemonAssumption
  DEF Reachable, DaemonInv, DaemonTypeOK, histories
<1>2. Holds'
  BY DaemonAssumption
  DEF Reachable, DaemonInv, DaemonTypeOK, Holds, histories
<1>3. OwnAtWork'
  BY DaemonAssumption
  DEF Reachable, DaemonInv, DaemonTypeOK, OwnAtWork, histories
<1>4. RowFirst'
  BY DaemonAssumption
  DEF Reachable, DaemonInv, DaemonTypeOK, RowFirst, RowBeforeRuns, histories
<1>5. StopsFirst'
  BY DaemonAssumption
  DEF Reachable, DaemonInv, DaemonTypeOK, StopsFirst, histories
<1>6. BeatsAtWork'
  BY DaemonAssumption
  DEF Reachable, DaemonInv, DaemonTypeOK, BeatsAtWork, histories
<1>7. RowAtWork'
  BY DaemonAssumption
  DEF Reachable, DaemonInv, DaemonTypeOK, RowAtWork, BeatsAtWork, StopsFirst, histories
<1>8. NoFratricide'
  BY DaemonAssumption
  DEF Reachable, DaemonInv, DaemonTypeOK, NoFratricide, Holds, OwnAtWork, histories
<1> QED BY <1>1, <1>2, <1>3, <1>4, <1>5, <1>6, <1>7, <1>8 DEF DaemonInv

LEMMA MigrateKeeps ==
  ASSUME DaemonInv, Migrate
  PROVE  DaemonInv'
<1>1. DaemonTypeOK'
  BY DaemonAssumption
  DEF Migrate, DaemonInv, DaemonTypeOK, histories
<1>2. Holds'
  BY DaemonAssumption
  DEF Migrate, DaemonInv, DaemonTypeOK, Holds, histories
<1>3. OwnAtWork'
  BY DaemonAssumption
  DEF Migrate, DaemonInv, DaemonTypeOK, OwnAtWork, histories
<1>4. RowFirst'
  BY DaemonAssumption
  DEF Migrate, DaemonInv, DaemonTypeOK, RowFirst, RowBeforeRuns, histories
<1>5. StopsFirst'
  BY DaemonAssumption
  DEF Migrate, DaemonInv, DaemonTypeOK, StopsFirst, histories
<1>6. BeatsAtWork'
  BY DaemonAssumption
  DEF Migrate, DaemonInv, DaemonTypeOK, BeatsAtWork, histories
<1>7. RowAtWork'
  BY DaemonAssumption
  DEF Migrate, DaemonInv, DaemonTypeOK, RowAtWork, BeatsAtWork, StopsFirst, histories
<1>8. NoFratricide'
  BY DaemonAssumption
  DEF Migrate, DaemonInv, DaemonTypeOK, NoFratricide, Holds, OwnAtWork, histories
<1> QED BY <1>1, <1>2, <1>3, <1>4, <1>5, <1>6, <1>7, <1>8 DEF DaemonInv

LEMMA AskKeeps ==
  ASSUME DaemonInv, NEW d \in Daemons, NEW b \in Beaters, AskContract(d, b)
  PROVE  DaemonInv'
<1>1. beat[d][b] \in BeatRec /\ beat[d] \in [Beaters -> BeatRec]
  BY DEF DaemonInv, DaemonTypeOK
<1>2. beat' = [beat EXCEPT ![d] = [beat[d] EXCEPT ![b] = beat'[d][b]]]
  BY DEF DaemonInv, DaemonTypeOK, AskContract, Answers
<1>3. beat'[d][b] \in BeatRec /\ beat'[d][b].ready = beat[d][b].ready
  BY <1>1 DEF AskContract, Answers, BeatRec, NoBeat, DaemonInv, DaemonTypeOK, DaemonRec
<1>4. beat' \in [Daemons -> [Beaters -> BeatRec]]
  <2>1. [beat[d] EXCEPT ![b] = beat'[d][b]] \in [Beaters -> BeatRec]
    BY <1>1, <1>3
  <2> QED BY <1>2, <2>1 DEF DaemonInv, DaemonTypeOK
<1>5. \A e \in Daemons : \A c \in Beaters : e # d \/ c # b => beat'[e][c] = beat[e][c]
  BY <1>1, <1>2 DEF DaemonInv, DaemonTypeOK
<1>6. DaemonTypeOK'
  BY DaemonAssumption, <1>1, <1>3, <1>4, <1>5
  DEF AskContract, DaemonInv, DaemonTypeOK, histories
<1>7. Holds'
  BY DaemonAssumption, <1>1, <1>3, <1>4, <1>5
  DEF AskContract, DaemonInv, DaemonTypeOK, Holds, histories
<1>8. OwnAtWork'
  BY DaemonAssumption, <1>1, <1>3, <1>4, <1>5
  DEF AskContract, DaemonInv, DaemonTypeOK, OwnAtWork, histories
<1>9. RowFirst'
  BY DaemonAssumption, <1>1, <1>3, <1>4, <1>5
  DEF AskContract, DaemonInv, DaemonTypeOK, RowFirst, RowBeforeRuns, histories
<1>10. StopsFirst'
  BY DaemonAssumption, <1>1, <1>3, <1>4, <1>5
  DEF AskContract, DaemonInv, DaemonTypeOK, StopsFirst, histories
<1>11. BeatsAtWork'
  BY DaemonAssumption, <1>1, <1>3, <1>4, <1>5
  DEF AskContract, DaemonInv, DaemonTypeOK, BeatsAtWork, histories
<1>12. RowAtWork'
  BY DaemonAssumption, <1>1, <1>3, <1>4, <1>5
  DEF AskContract, DaemonInv, DaemonTypeOK, RowAtWork, BeatsAtWork, StopsFirst, histories
<1>13. NoFratricide'
  BY DaemonAssumption, <1>1, <1>3, <1>4, <1>5
  DEF AskContract, DaemonInv, DaemonTypeOK, NoFratricide, Holds, OwnAtWork, histories
<1> QED BY <1>6, <1>7, <1>8, <1>9, <1>10, <1>11, <1>12, <1>13 DEF DaemonInv

LEMMA BeginKeeps ==
  ASSUME DaemonInv, NEW d \in Daemons, NEW b \in Beaters, BeginBeat(d, b)
  PROVE  DaemonInv'
<1>1. beat[d][b] \in BeatRec /\ beat[d] \in [Beaters -> BeatRec]
  BY DEF DaemonInv, DaemonTypeOK
<1>2. beat' = [beat EXCEPT ![d] = [beat[d] EXCEPT ![b] = beat'[d][b]]]
  BY DEF DaemonInv, DaemonTypeOK, BeginBeat, Says
<1>3. beat'[d][b] \in BeatRec /\ beat'[d][b].ready = beat[d][b].ready
  BY <1>1 DEF BeginBeat, Says, BeatRec, NoBeat, DaemonInv, DaemonTypeOK, DaemonRec
<1>4. beat' \in [Daemons -> [Beaters -> BeatRec]]
  <2>1. [beat[d] EXCEPT ![b] = beat'[d][b]] \in [Beaters -> BeatRec]
    BY <1>1, <1>3
  <2> QED BY <1>2, <2>1 DEF DaemonInv, DaemonTypeOK
<1>5. \A e \in Daemons : \A c \in Beaters : e # d \/ c # b => beat'[e][c] = beat[e][c]
  BY <1>1, <1>2 DEF DaemonInv, DaemonTypeOK
<1>6. /\ daemon' \in [Daemons -> DaemonRec]
      /\ \A e \in Daemons : daemon'[e].at = daemon[e].at /\ daemon'[e].stop = daemon[e].stop
           /\ daemon'[e].profile = daemon[e].profile
  <2>1. daemon[d] \in DaemonRec
    BY DEF DaemonInv, DaemonTypeOK
  <2> DEFINE new == [daemon[d] EXCEPT !.beats = FALSE]
  <2>2. /\ new \in DaemonRec
        /\ new.at = daemon[d].at /\ new.stop = daemon[d].stop /\ new.profile = daemon[d].profile
    BY <2>1 DEF DaemonRec
  <2>3. UNCHANGED daemon \/ daemon' = [daemon EXCEPT ![d] = new]
    BY DEF BeginBeat
  <2> HIDE DEF new
  <2> QED BY <2>1, <2>2, <2>3 DEF DaemonInv, DaemonTypeOK
<1>7. DaemonTypeOK'
  BY DaemonAssumption, <1>1, <1>3, <1>4, <1>5, <1>6
  DEF BeginBeat, DaemonInv, DaemonTypeOK, histories
<1>8. Holds'
  BY DaemonAssumption, <1>1, <1>3, <1>4, <1>5, <1>6
  DEF BeginBeat, DaemonInv, DaemonTypeOK, Holds, histories
<1>9. OwnAtWork'
  BY DaemonAssumption, <1>1, <1>3, <1>4, <1>5, <1>6
  DEF BeginBeat, DaemonInv, DaemonTypeOK, OwnAtWork, histories
<1>10. RowFirst'
  BY DaemonAssumption, <1>1, <1>3, <1>4, <1>5, <1>6
  DEF BeginBeat, DaemonInv, DaemonTypeOK, RowFirst, RowBeforeRuns, histories
<1>11. StopsFirst'
  BY DaemonAssumption, <1>1, <1>3, <1>4, <1>5, <1>6
  DEF BeginBeat, DaemonInv, DaemonTypeOK, StopsFirst, histories
<1>12. BeatsAtWork'
  BY DaemonAssumption, <1>1, <1>3, <1>4, <1>5, <1>6
  DEF BeginBeat, DaemonInv, DaemonTypeOK, BeatsAtWork, histories
<1>13. RowAtWork'
  BY DaemonAssumption, <1>1, <1>3, <1>4, <1>5, <1>6
  DEF BeginBeat, DaemonInv, DaemonTypeOK, RowAtWork, BeatsAtWork, StopsFirst, histories
<1>14. NoFratricide'
  BY DaemonAssumption, <1>1, <1>3, <1>4, <1>5, <1>6
  DEF BeginBeat, DaemonInv, DaemonTypeOK, NoFratricide, Holds, OwnAtWork, histories
<1> QED BY <1>7, <1>8, <1>9, <1>10, <1>11, <1>12, <1>13, <1>14 DEF DaemonInv

LEMMA JudgeKeeps ==
  ASSUME DaemonInv, NEW d \in Daemons, NEW b \in Beaters, Judge(d, b)
  PROVE  DaemonInv'
<1>1. beat[d][b] \in BeatRec /\ beat[d] \in [Beaters -> BeatRec]
  BY DEF DaemonInv, DaemonTypeOK
<1>2. beat' = [beat EXCEPT ![d] = [beat[d] EXCEPT ![b] = beat'[d][b]]]
  BY DEF DaemonInv, DaemonTypeOK, Judge, Says
<1>3. beat'[d][b] \in BeatRec /\ (beat'[d][b].ready => daemon[d].profile)
  BY <1>1 DEF Judge, Says, BeatRec, NoBeat, DaemonInv, DaemonTypeOK, DaemonRec
<1>4. beat' \in [Daemons -> [Beaters -> BeatRec]]
  <2>1. [beat[d] EXCEPT ![b] = beat'[d][b]] \in [Beaters -> BeatRec]
    BY <1>1, <1>3
  <2> QED BY <1>2, <2>1 DEF DaemonInv, DaemonTypeOK
<1>5. \A e \in Daemons : \A c \in Beaters : e # d \/ c # b => beat'[e][c] = beat[e][c]
  BY <1>1, <1>2 DEF DaemonInv, DaemonTypeOK
<1>6. /\ daemon' \in [Daemons -> DaemonRec]
      /\ \A e \in Daemons : daemon'[e].at = daemon[e].at /\ daemon'[e].stop = daemon[e].stop
           /\ daemon'[e].profile = daemon[e].profile
  <2>1. daemon[d] \in DaemonRec
    BY DEF DaemonInv, DaemonTypeOK
  <2> DEFINE new == [daemon[d] EXCEPT !.schemaOK = (beat[d][b].sees = "ours")]
  <2>2. /\ new \in DaemonRec
        /\ new.at = daemon[d].at /\ new.stop = daemon[d].stop /\ new.profile = daemon[d].profile
    BY <2>1 DEF DaemonRec
  <2>3. UNCHANGED daemon \/ daemon' = [daemon EXCEPT ![d] = new]
    BY DEF Judge
  <2> HIDE DEF new
  <2> QED BY <2>1, <2>2, <2>3 DEF DaemonInv, DaemonTypeOK
<1>7. DaemonTypeOK'
  BY DaemonAssumption, <1>1, <1>3, <1>4, <1>5, <1>6
  DEF Judge, DaemonInv, DaemonTypeOK, histories
<1>8. Holds'
  BY DaemonAssumption, <1>1, <1>3, <1>4, <1>5, <1>6
  DEF Judge, DaemonInv, DaemonTypeOK, Holds, histories
<1>9. OwnAtWork'
  BY DaemonAssumption, <1>1, <1>3, <1>4, <1>5, <1>6
  DEF Judge, DaemonInv, DaemonTypeOK, OwnAtWork, histories
<1>10. RowFirst'
  BY DaemonAssumption, <1>1, <1>3, <1>4, <1>5, <1>6
  DEF Judge, DaemonInv, DaemonTypeOK, RowFirst, RowBeforeRuns, histories
<1>11. StopsFirst'
  BY DaemonAssumption, <1>1, <1>3, <1>4, <1>5, <1>6
  DEF Judge, DaemonInv, DaemonTypeOK, StopsFirst, histories
<1>12. BeatsAtWork'
  BY DaemonAssumption, <1>1, <1>3, <1>4, <1>5, <1>6
  DEF Judge, DaemonInv, DaemonTypeOK, BeatsAtWork, histories
<1>13. RowAtWork'
  BY DaemonAssumption, <1>1, <1>3, <1>4, <1>5, <1>6
  DEF Judge, DaemonInv, DaemonTypeOK, RowAtWork, BeatsAtWork, StopsFirst, histories
<1>14. NoFratricide'
  BY DaemonAssumption, <1>1, <1>3, <1>4, <1>5, <1>6
  DEF Judge, DaemonInv, DaemonTypeOK, NoFratricide, Holds, OwnAtWork, histories
<1> QED BY <1>7, <1>8, <1>9, <1>10, <1>11, <1>12, <1>13, <1>14 DEF DaemonInv

LEMMA UpsertKeeps ==
  ASSUME DaemonInv, NEW d \in Daemons, NEW b \in Beaters, Upsert(d, b)
  PROVE  DaemonInv'
<1>1. beat[d][b] \in BeatRec /\ beat[d] \in [Beaters -> BeatRec]
  BY DEF DaemonInv, DaemonTypeOK
<1>2. beat' = [beat EXCEPT ![d] = [beat[d] EXCEPT ![b] = beat'[d][b]]]
  BY DEF DaemonInv, DaemonTypeOK, Upsert, Says
<1>3. beat'[d][b] \in BeatRec /\ ~beat'[d][b].ready
  BY <1>1 DEF Upsert, Says, BeatRec, NoBeat, DaemonInv, DaemonTypeOK, DaemonRec
<1>4. beat' \in [Daemons -> [Beaters -> BeatRec]]
  <2>1. [beat[d] EXCEPT ![b] = beat'[d][b]] \in [Beaters -> BeatRec]
    BY <1>1, <1>3
  <2> QED BY <1>2, <2>1 DEF DaemonInv, DaemonTypeOK
<1>5. \A e \in Daemons : \A c \in Beaters : e # d \/ c # b => beat'[e][c] = beat[e][c]
  BY <1>1, <1>2 DEF DaemonInv, DaemonTypeOK
<1>6. /\ daemon' \in [Daemons -> DaemonRec]
      /\ daemon'[d].stop = daemon[d].stop /\ daemon'[d].profile = daemon[d].profile
      /\ \/ daemon'[d].at = daemon[d].at
         \/ daemon[d].at = "first" /\ daemon'[d].at = "recover"
      /\ \A e \in Daemons \ {d} : daemon'[e] = daemon[e]
  <2>1. CASE Answers(d) /\ b = "main"
    <3>1. Goes(d, "first", "recover") /\ "first" \in Places /\ "recover" \in Places
      BY <2>1 DEF Upsert, Upserted, Places
    <3> QED BY <3>1, Went DEF DaemonInv
  <2>2. CASE ~(Answers(d) /\ b = "main")
    BY <2>2 DEF Upsert, Upserted, DaemonInv, DaemonTypeOK
  <2> QED BY <2>1, <2>2
<1>7. \/ UNCHANGED <<row, daemon>>
      \/ /\ row' = [by |-> d, ready |-> beat[d][b].ready] /\ ~daemon[d].stop
         /\ row' \in [by : Daemons, ready : BOOLEAN] /\ row' # None
  <2>1. beat[d][b].ready \in BOOLEAN
    BY <1>1 DEF BeatRec
  <2> QED BY <2>1, DaemonAssumption DEF Upsert, Upserted, Answers
<1>8. DaemonTypeOK'
  BY DaemonAssumption, <1>1, <1>3, <1>4, <1>5, <1>6, <1>7
  DEF Upsert, DaemonRec, DaemonInv, DaemonTypeOK, histories
<1>9. Holds'
  BY DaemonAssumption, <1>1, <1>3, <1>4, <1>5, <1>6, <1>7
  DEF Upsert, DaemonRec, DaemonInv, DaemonTypeOK, Holds, histories
<1>10. OwnAtWork'
  BY DaemonAssumption, <1>1, <1>3, <1>4, <1>5, <1>6, <1>7
  DEF Upsert, DaemonRec, DaemonInv, DaemonTypeOK, OwnAtWork, histories
<1>11. RowFirst'
  BY DaemonAssumption, <1>1, <1>3, <1>4, <1>5, <1>6, <1>7
  DEF Upsert, DaemonRec, DaemonInv, DaemonTypeOK, RowFirst, RowBeforeRuns, histories
<1>12. StopsFirst'
  BY DaemonAssumption, <1>1, <1>3, <1>4, <1>5, <1>6, <1>7
  DEF Upsert, DaemonRec, DaemonInv, DaemonTypeOK, StopsFirst, histories
<1>13. BeatsAtWork'
  BY DaemonAssumption, <1>1, <1>3, <1>4, <1>5, <1>6, <1>7
  DEF Upsert, DaemonRec, DaemonInv, DaemonTypeOK, BeatsAtWork, histories
<1>14. RowAtWork'
  BY DaemonAssumption, <1>1, <1>3, <1>4, <1>5, <1>6, <1>7
  DEF Upsert, DaemonRec, DaemonInv, DaemonTypeOK, RowAtWork, BeatsAtWork, StopsFirst, histories
<1>15. NoFratricide'
  BY DaemonAssumption, <1>1, <1>3, <1>4, <1>5, <1>6, <1>7
  DEF Upsert, DaemonRec, DaemonInv, DaemonTypeOK, NoFratricide, Holds, OwnAtWork, histories
<1> QED BY <1>8, <1>9, <1>10, <1>11, <1>12, <1>13, <1>14, <1>15 DEF DaemonInv

-----------------------------------------------------------------------------
LEMMA NextInv == DaemonInv /\ [DaemonNext]_daemonVars => DaemonInv'
<1> SUFFICES ASSUME DaemonInv, [DaemonNext]_daemonVars PROVE DaemonInv'
  OBVIOUS
<1>1. CASE UNCHANGED daemonVars
  BY <1>1 DEF daemonVars, histories, DaemonInv, DaemonTypeOK, Holds, OwnAtWork, RowFirst,
    RowBeforeRuns, StopsFirst, BeatsAtWork, RowAtWork, NoFratricide
<1>2. CASE \E d \in Daemons : Main(d)
  BY <1>2, LaunchKeeps, StopsWaitingKeeps, OpenKeeps, ClaimKeeps, ClaimFailKeeps, RecoverKeeps,
    RecoverFailKeeps, StopPoolKeeps, JoinPoolKeeps, FarewellKeeps, LeaveKeeps DEF Main
<1>3. CASE \E d \in Daemons : \E b \in Beaters : BeginBeat(d, b) \/ BeatStep(d, b)
  BY <1>3, BeginKeeps, AskKeeps, JudgeKeeps, UpsertKeeps DEF BeatStep
<1>4. CASE \E d \in Daemons : \/ AskStop(d) \/ Setup(d) \/ Provisioned(d)
                              \/ ClaimRun(d) \/ EndRun(d) \/ Die(d)
  BY <1>4, AskStopKeeps, SetupKeeps, ProvisionedKeeps, ClaimRunKeeps, EndRunKeeps, DieKeeps
<1>5. CASE SessionNoticed \/ LoseSession \/ Reachable \/ Migrate
  BY <1>5, NoticedKeeps, LoseKeeps, ReachableKeeps, MigrateKeeps
<1> QED BY <1>1, <1>2, <1>3, <1>4, <1>5 DEF DaemonNext

LEMMA DaemonInvariant == DaemonSpec => []DaemonInv
BY InitInv, NextInv, PTL DEF DaemonSpec

\* The advisory lock does what the kill of a start relies on: whoever recovers is alone.
THEOREM StartSparesTheLiving == DaemonSpec => []NoFratricide
<1>1. DaemonInv => NoFratricide
  BY DEF DaemonInv
<1> QED BY <1>1, DaemonInvariant, PTL

\* A row before its runs, and no ready row without its daemon.
THEOREM RowsTell == DaemonSpec => []RowTells
<1>1. ASSUME DaemonInv PROVE RowBeforeRuns /\ ReadyIsThere
  <2>1. RowBeforeRuns
    BY <1>1 DEF DaemonInv, RowFirst
  <2>2. row # None => row.by \in Daemons
    BY <1>1 DEF DaemonInv, DaemonTypeOK
  <2>3. ReadyIsThere
    BY <1>1, <2>2 DEF DaemonInv, RowAtWork, ReadyIsThere
  <2> QED BY <2>1, <2>3
<1>2. DaemonInv => RowTells
  BY <1>1 DEF RowTells
<1> QED BY <1>2, DaemonInvariant, PTL
=============================================================================
