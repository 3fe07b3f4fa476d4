------------------------------ MODULE StartProofs ------------------------------
(***************************************************************************)
(* What outlives a daemon, as the next one finds it.  A start kills what a *)
(* life before left, and nothing else (KillsItsOwn), for any processes,    *)
(* rows, lives and crashes; it reads a whole configuration with a cap in   *)
(* range (StartsWell), and connects where a person last said               *)
(* (TypedIsKept), for any addresses, caps, edits, failed writes and        *)
(* crashes.  A daemon that takes jobs has a runtime that runs them         *)
(* (ReadyRuns), and one daemon at a time works on it (OneProvisions), for  *)
(* any number of daemons, deaths and failures.                             *)
(*                                                                         *)
(* Neither half of KillsItsOwn is inductive.  That the sweep leaves no     *)
(* child of an earlier life rests on the lives being numbered in order;    *)
(* that the kill of a checked number hits nobody else rests on which       *)
(* process may stand behind a number that is on record, listed or checked  *)
(* (OnRecord).                                                             *)
(*                                                                         *)
(* The two on the configuration hold however savers interleave, as long as *)
(* no two were inside writeConfig at once: then the temporary file is what *)
(* the one that is made of it (Apart), and what he holds says what was     *)
(* typed unless he read it too early (TypedInv).  A Setup that is saved by *)
(* itself ends whatever went astray before.                                *)
(*                                                                         *)
(* ReadyRuns speaks of a daemon that is through.  What it has must stand   *)
(* while another one works on the same directory: so the invariant says    *)
(* what the one with the lock has found or made so far (Found), that it    *)
(* takes no step that destroys while somebody is ready (Spared), and that  *)
(* everybody who works has the lock.                                       *)
(***************************************************************************)
EXTENDS Recovery, ConfigFile, Provision, TLAPS

-----------------------------------------------------------------------------
(* A start kills its own.                                                  *)

Process ==
  [whose : {"nobody", "self", "other", "stranger"}, trainer : BOOLEAN, life : Nat]

Slot == [pid : Pids, life : Nat, recorded : BOOLEAN]

RecoveryTypeOK ==
  /\ process \in [Pids -> Process]
  /\ slots \in [Slots -> Slot \cup {None}]
  /\ self \in [at : {"work", "list", "guard"}, life : Nat, list : SUBSET Pids,
               checked : Pids \cup {None}]
  /\ killedOther \in BOOLEAN

\* A child of this daemon's is of this life or of one before.
LivesInOrder == \A p \in Pids : process[p].whose = "self" => process[p].life <= self.life

\* A number that is on record, listed or checked is no trainer of somebody else's, and one
\* that was checked is this daemon's or nobody's.
OnRecord ==
  /\ \A s \in Slots : slots[s] # None => process[slots[s].pid].whose # "other"
  /\ \A p \in self.list : process[p].whose # "other"
  /\ self.checked # None => process[self.checked].whose \in {"self", "nobody"}

\* Only a trainer has the driver in its argv.
ArgvTells == \A p \in Pids : process[p].whose = "stranger" => ~process[p].trainer

RecoveryInv == RecoveryTypeOK /\ LivesInOrder /\ OnRecord /\ ArgvTells /\ NoStrays /\ OnlyOwn

LEMMA RecoveryBegins == RecoveryInit => RecoveryInv
<1> SUFFICES ASSUME RecoveryInit PROVE RecoveryInv
  OBVIOUS
<1> USE RecoveryAssumption, TroubleAssumption DEF RecoveryInit, Free
<1>1. process \in [Pids -> Process]
  BY DEF Process
<1>2. RecoveryTypeOK
  BY <1>1 DEF RecoveryTypeOK, Slot
<1>3. LivesInOrder /\ OnRecord /\ ArgvTells /\ NoStrays /\ OnlyOwn
  BY DEF LivesInOrder, OnRecord, ArgvTells, NoStrays, OnlyOwn
<1> QED BY <1>2, <1>3 DEF RecoveryInv

LEMMA SpawnKeeps ==
  ASSUME RecoveryInv, NEW s \in Slots, NEW p \in Pids, Spawn(s, p)
  PROVE  RecoveryInv'
<1> QED BY RecoveryAssumption, TroubleAssumption
    DEF Spawn, TrainerOf, Free, RecoveryInv, RecoveryTypeOK, LivesInOrder, OnRecord, ArgvTells,
      NoStrays, OnlyOwn, Process, Slot

LEMMA RecordKeeps ==
  ASSUME RecoveryInv, NEW s \in Slots, Record(s)
  PROVE  RecoveryInv'
<1> USE DEF Record, Held
<1>1. slots[s] \in Slot
  BY DEF RecoveryInv, RecoveryTypeOK
<1>2. [slots[s] EXCEPT !.recorded = TRUE] \in Slot
  BY <1>1 DEF Slot
<1>3. slots' = [slots EXCEPT ![s] = [slots[s] EXCEPT !.recorded = TRUE]]
  OBVIOUS
<1>4. RecoveryTypeOK'
  BY <1>2, <1>3 DEF RecoveryInv, RecoveryTypeOK
<1>5. \A r \in Slots : slots'[r] # None => slots[r] # None /\ slots'[r].pid = slots[r].pid
  BY <1>1, <1>3 DEF RecoveryInv, RecoveryTypeOK, Slot
<1> QED BY <1>4, <1>5 DEF RecoveryInv, LivesInOrder, OnRecord, ArgvTells, NoStrays, OnlyOwn

LEMMA FinishKeeps ==
  ASSUME RecoveryInv, NEW s \in Slots, Finish(s)
  PROVE  RecoveryInv'
<1> QED BY RecoveryAssumption, TroubleAssumption
    DEF Finish, Held, Free, RecoveryInv, RecoveryTypeOK, LivesInOrder, OnRecord, ArgvTells,
      NoStrays, OnlyOwn, Process, Slot

LEMMA TakenKeeps ==
  ASSUME RecoveryInv, NEW s \in Slots, Taken(s)
  PROVE  RecoveryInv'
<1> QED BY RecoveryAssumption, TroubleAssumption
    DEF Taken, RecoveryInv, RecoveryTypeOK, LivesInOrder, OnRecord, ArgvTells, NoStrays,
      OnlyOwn, Process, Slot

LEMMA DiesKeeps ==
  ASSUME RecoveryInv, DaemonDies
  PROVE  RecoveryInv'
<1> QED BY RecoveryAssumption, TroubleAssumption
    DEF DaemonDies, Fault, RecoveryInv, RecoveryTypeOK, LivesInOrder, OnRecord, ArgvTells,
      NoStrays, OnlyOwn, Process, Slot

LEMMA EndsKeeps ==
  ASSUME RecoveryInv, NEW p \in Pids, ProcessEnds(p)
  PROVE  RecoveryInv'
<1> QED BY RecoveryAssumption, TroubleAssumption
    DEF ProcessEnds, Free, RecoveryInv, RecoveryTypeOK, LivesInOrder, OnRecord, ArgvTells,
      NoStrays, OnlyOwn, Process, Slot

LEMMA BeginsKeeps ==
  ASSUME RecoveryInv, NEW p \in Pids, ProcessBegins(p)
  PROVE  RecoveryInv'
<1> DEFINE onRecord == self.list \cup {slots[s].pid : s \in {r \in Slots : slots[r] # None}}
<1> USE RecoveryAssumption, TroubleAssumption
<1>1. CASE process' = [process EXCEPT ![p] = Stranger] /\ UNCHANGED elsewhere
  BY <1>1 DEF ProcessBegins, Free, Stranger, RecoveryInv, RecoveryTypeOK, LivesInOrder,
    OnRecord, ArgvTells, NoStrays, OnlyOwn, Process, Slot
<1>2. CASE p \notin onRecord /\ process' = [process EXCEPT ![p] = TrainerOf("other", 1)]
  <2>1. p \notin self.list /\ \A s \in Slots : slots[s] # None => slots[s].pid # p
    BY <1>2
  <2>2. TrainerOf("other", 1) \in Process /\ TrainerOf("other", 1).whose = "other"
    BY DEF TrainerOf, Process
  <2>3. RecoveryTypeOK'
    BY <1>2, <2>2 DEF ProcessBegins, RecoveryInv, RecoveryTypeOK
  <2>4. \A q \in Pids : q # p => process'[q] = process[q]
    BY <1>2 DEF RecoveryInv, RecoveryTypeOK
  <2>5. process'[p].whose = "other"
    BY <1>2, <2>2 DEF RecoveryInv, RecoveryTypeOK
  <2>6. LivesInOrder' /\ ArgvTells' /\ NoStrays' /\ OnlyOwn'
    BY <2>4, <2>5 DEF ProcessBegins, RecoveryInv, LivesInOrder, ArgvTells, NoStrays, OnlyOwn
  <2>7. OnRecord'
    BY <2>1, <2>4, <2>5 DEF ProcessBegins, RecoveryInv, RecoveryTypeOK, OnRecord, Slot
  <2> QED BY <2>3, <2>6, <2>7 DEF RecoveryInv
<1> QED BY <1>1, <1>2 DEF ProcessBegins

LEMMA GuardKeeps ==
  ASSUME RecoveryInv, NEW p \in Pids, Guard(p)
  PROVE  RecoveryInv'
<1> QED BY RecoveryAssumption, TroubleAssumption
    DEF Guard, LooksOurs, RecoveryInv, RecoveryTypeOK, LivesInOrder, OnRecord, ArgvTells,
      NoStrays, OnlyOwn, Process, Slot

LEMMA ListKeeps ==
  ASSUME RecoveryInv, List
  PROVE  RecoveryInv'
<1> USE DEF List
<1>1. OwnChildren \subseteq Pids /\ \A p \in OwnChildren : process[p].whose # "other"
  BY DEF OwnChildren, RecoveryInv, RecoveryTypeOK, OnRecord, Slot
<1>2. RecoveryTypeOK'
  BY <1>1 DEF RecoveryInv, RecoveryTypeOK
<1>3. OnRecord'
  BY <1>1 DEF RecoveryInv, RecoveryTypeOK, OnRecord
<1> QED BY <1>2, <1>3 DEF RecoveryInv, RecoveryTypeOK, LivesInOrder, ArgvTells, NoStrays, OnlyOwn

LEMMA KillKeeps ==
  ASSUME RecoveryInv, KillChecked
  PROVE  RecoveryInv'
<1> QED BY RecoveryAssumption, TroubleAssumption
    DEF KillChecked, Free, RecoveryInv, RecoveryTypeOK, LivesInOrder, OnRecord, ArgvTells,
      NoStrays, OnlyOwn, Process, Slot

LEMMA SweepKeeps ==
  ASSUME RecoveryInv, Sweep
  PROVE  RecoveryInv'
<1> QED BY RecoveryAssumption, TroubleAssumption
    DEF Sweep, Free, RecoveryInv, RecoveryTypeOK, LivesInOrder, OnRecord, ArgvTells, NoStrays,
      OnlyOwn, Process, Slot

-----------------------------------------------------------------------------
LEMMA RecoveryKept == RecoveryInv /\ [RecoveryNext]_recoveryVars => RecoveryInv'
<1> SUFFICES ASSUME RecoveryInv, [RecoveryNext]_recoveryVars PROVE RecoveryInv'
  OBVIOUS
<1>1. CASE UNCHANGED recoveryVars
  BY <1>1 DEF recoveryVars, RecoveryInv, RecoveryTypeOK, LivesInOrder, OnRecord, ArgvTells,
    NoStrays, OnlyOwn
<1>2. ASSUME NEW s \in Slots, (\E p \in Pids : Spawn(s, p)) \/ Record(s) \/ Finish(s) \/ Taken(s)
      PROVE  RecoveryInv'
  BY <1>2, SpawnKeeps, RecordKeeps, FinishKeeps, TakenKeeps
<1>3. CASE DaemonDies
  BY <1>3, DiesKeeps
<1>4. ASSUME NEW p \in Pids, ProcessEnds(p) \/ ProcessBegins(p) \/ Guard(p)
      PROVE  RecoveryInv'
  BY <1>4, EndsKeeps, BeginsKeeps, GuardKeeps
<1>5. CASE List \/ KillChecked \/ Sweep
  BY <1>5, ListKeeps, KillKeeps, SweepKeeps
<1> QED BY <1>1, <1>2, <1>3, <1>4, <1>5 DEF RecoveryNext

\* The start leaves no trainer of an earlier life beside its workers, recorded or not, and
\* kills nothing that is not this daemon's, for any number of rows, processes and crashes
\* (recover.go).
THEOREM StartKillsItsOwn == RecoverySpec => []KillsItsOwn
<1>1. RecoveryInv => KillsItsOwn
  BY DEF RecoveryInv, KillsItsOwn
<1> QED BY <1>1, RecoveryBegins, RecoveryKept, PTL DEF RecoverySpec

-----------------------------------------------------------------------------
(* The configuration.                                                      *)

Saver == [at : {"idle", "write", "fill", "rename"}, owns : {"nothing", "setup", "cap"},
          config : Contents \cup {None}, fd : {"none", "tmp", "file", "gone"},
          stale : BOOLEAN]

\* What a run holds is in range and split; what is in the file may be neither, before it
\* was read.
Runs == {c \in Contents : c.cap \in 1..MaxCap /\ c.dsn = None}

Texts == Contents \cup {None, Empty, Torn}

HoldsWhole(s) == s.config \in Runs /\ s.owns # "nothing"

ConfigTypeOK ==
  /\ file \in Texts /\ tmpFile \in Texts
  /\ environment \in Environments
  /\ booted \in Runs \cup {None}
  /\ savers \in [Editors -> Saver]
  /\ \A h \in Editors : savers[h] # AtRest => HoldsWhole(savers[h])
  /\ faults \in Nat

\* As long as no two savings crossed: the file is whole, one at a time is inside
\* writeConfig, and the temporary file is what that one made of it.
Apart ==
  "crossed" \notin astray =>
    /\ NeverTorn
    /\ \A h \in Editors : InWriteConfig(h) =>
         /\ savers[h].fd = "tmp"
         /\ tmpFile = IF savers[h].at = "fill" THEN Empty ELSE savers[h].config
         /\ \A g \in Editors \ {h} : ~InWriteConfig(g)

ConfigInv == ConfigTypeOK /\ Apart

\* As long as nothing went astray the file says what was typed, and so does whoever
\* read it since and saves something else.
TypedInv ==
  astray = {} =>
    /\ Address(file) = typed
    /\ \A h \in Editors :
         savers[h].owns = "cap" /\ ~savers[h].stale => savers[h].config.library = typed

-----------------------------------------------------------------------------
LEMMA Fresh == FreshFile \in Contents /\ FreshFile.dsn = None /\ FreshFile.library = Default
<1>1. 1 \in 1..MaxCap
  BY DEF MaxCap
<1> QED BY <1>1, ConfigAssumption DEF FreshFile, Content, Contents

LEMMA InRange == ASSUME NEW cap \in Nat PROVE Normalized(cap) \in 1..MaxCap
BY DEF Normalized, MaxCap

LEMMA Distinct == Empty # None /\ Torn # None /\ Empty \notin Contents /\ Torn \notin Contents
                    /\ Empty # Torn
<1>1. Empty # Torn
  BY DEF Empty, Torn
<1> QED BY <1>1, ConfigAssumption

LEMMA WholeContent ==
  ASSUME NEW c \in Contents
  PROVE  /\ c # None /\ WholeFile(c) /\ Parsed(c) = c /\ c.cap \in Nat
         /\ c.library \in Libraries \cup Environments /\ c.dsn \in Libraries \cup {None}
         /\ Address(c) = IF c.dsn # None THEN c.dsn ELSE c.library
<1>1. /\ c # None /\ WholeFile(c)
      /\ c.cap \in Caps \cup 1..MaxCap
      /\ c.library \in Libraries \cup Environments /\ c.dsn \in Libraries \cup {None}
  BY ConfigAssumption, Distinct DEF Contents, WholeFile
<1>2. c.cap \in Nat
  <2>1. 1..MaxCap \subseteq Nat
    BY DEF MaxCap
  <2> QED BY <1>1, <2>1, ConfigAssumption
<1> QED BY <1>1, <1>2, Distinct DEF Address, Parsed

\* What is not whole and still parses says what a fresh install's file says.
LEMMA Unwritten ==
  ASSUME NEW c \in {None, Empty}
  PROVE  Parsed(c) = FreshFile /\ Address(c) = Default
BY Fresh, Distinct, ConfigAssumption DEF Parsed, WholeFile, Address

\* What is read is in range, and of an environment that says nothing it is what the file
\* says.
LEMMA Loading ==
  ASSUME NEW c \in Contents \cup {None, Empty}, NEW override \in Environments
  PROVE  /\ Loaded(c, override) \in Runs
         /\ override = None => Loaded(c, override).library = Address(c)
<1> DEFINE d == Parsed(c)
           cap == Normalized(d.cap)
           library == SplitLibrary(d, override)
<1>1. d \in Contents
  BY Fresh, WholeContent, Unwritten
<1>2. cap \in 1..MaxCap
  BY <1>1, WholeContent, InRange
<1>3. library \in Libraries \cup Environments
  BY <1>1, WholeContent DEF SplitLibrary
<1>4. override = None => library = Address(c)
  BY <1>1, WholeContent, Unwritten, Fresh DEF SplitLibrary
<1>5. Loaded(c, override) = [cap |-> cap, library |-> library, dsn |-> None]
  BY DEF Loaded, Content
<1> HIDE DEF cap, library, d
<1> QED BY <1>2, <1>3, <1>4, <1>5 DEF Runs, Contents

LEMMA Resting ==
  AtRest \in Saver /\ AtRest.at = "idle" /\ AtRest.owns = "nothing" /\ AtRest.fd = "none"
BY DEF AtRest, Saver

\* One saver goes on with a configuration of its own.
LEMMA SaverMoves ==
  ASSUME ConfigTypeOK, NEW h \in Editors, NEW s \in Saver, s = AtRest \/ HoldsWhole(s),
         savers' = [savers EXCEPT ![h] = s], faults' \in Nat,
         file' \in Texts, tmpFile' \in Texts, UNCHANGED <<environment, booted>>
  PROVE  /\ ConfigTypeOK' /\ savers'[h] = s
         /\ \A g \in Editors \ {h} : savers'[g] = savers[g]
<1>1. savers'[h] = s /\ \A g \in Editors \ {h} : savers'[g] = savers[g]
  BY DEF ConfigTypeOK
<1>2. \A g \in Editors : savers'[g] # AtRest => HoldsWhole(savers'[g])
  BY <1>1 DEF ConfigTypeOK
<1> QED BY <1>1, <1>2 DEF ConfigTypeOK

LEMMA ConfigBegins == ConfigInit => ConfigInv /\ TypedInv
<1> SUFFICES ASSUME ConfigInit PROVE ConfigInv /\ TypedInv
  OBVIOUS
<1>1. PICK c \in Caps, library \in Libraries, dsn \in Libraries \cup {None} :
        file \in {None, Content(c, library, dsn)}
  BY DEF ConfigInit
<1>2. Content(c, library, dsn) \in Contents
  BY DEF Content, Contents
<1>3. ConfigTypeOK
  BY <1>1, <1>2, Resting, ConfigAssumption DEF ConfigInit, ConfigTypeOK, Texts, HoldsWhole
<1>4. \A h \in Editors : ~InWriteConfig(h) /\ savers[h].owns = "nothing"
  BY Resting DEF ConfigInit, InWriteConfig
<1>5. NeverTorn
  BY <1>1, <1>2, WholeContent DEF NeverTorn
<1> QED BY <1>3, <1>4, <1>5 DEF ConfigInv, Apart, TypedInv, ConfigInit

-----------------------------------------------------------------------------
(* What a step of the configuration leaves, whatever the environment says, *)
(* and what was typed, when it says nothing.                               *)

LEMMA BootKeeps ==
  ASSUME ConfigInv, Boot
  PROVE  ConfigInv' /\ (TypedInv => TypedInv')
<1>0. /\ ConfigTypeOK /\ file # Torn
      /\ booted' = Loaded(file, environment) /\ file' = (IF file = None THEN FreshFile ELSE file)
      /\ UNCHANGED <<tmpFile, environment, savers, typed, astray, faults>>
  BY DEF ConfigInv, Boot
<1>1. file' \in Contents \cup {Empty} /\ booted' \in Runs
  BY <1>0, Fresh, Loading DEF ConfigTypeOK, Texts, HoldsWhole
<1>2. Address(file') = Address(file)
  BY <1>0, Fresh, Unwritten, WholeContent
<1>3. NeverTorn => NeverTorn'
  BY <1>0, Fresh, WholeContent DEF NeverTorn
<1> QED BY <1>0, <1>1, <1>2, <1>3 DEF ConfigInv, ConfigTypeOK, Texts, HoldsWhole, Apart, InWriteConfig, TypedInv

LEMMA EndKeeps ==
  ASSUME ConfigInv, Quit \/ CrashRun
  PROVE  ConfigInv' /\ (TypedInv => TypedInv')
<1>1. /\ ConfigTypeOK /\ Gone /\ UNCHANGED <<file, tmpFile, typed, astray>>
      /\ environment' \in Environments /\ faults' \in Nat
  BY DEF ConfigInv, ConfigTypeOK, Quit, CrashRun, Fault
<1>2. \A h \in Editors : savers'[h] = AtRest
  BY <1>1 DEF Gone
<1>3. ConfigTypeOK'
  BY <1>1, <1>2, Resting DEF Gone, ConfigTypeOK
<1> QED BY <1>1, <1>2, <1>3, Resting DEF ConfigInv, Apart, NeverTorn, InWriteConfig, TypedInv

LEMMA EditKeeps ==
  ASSUME ConfigInv, EditByHand
  PROVE  ConfigInv' /\ (TypedInv => TypedInv')
<1>1. PICK cap \in Caps : file' = [file EXCEPT !.cap = cap]
  BY DEF EditByHand
<1>2. /\ file \in Contents /\ faults' \in Nat
      /\ UNCHANGED <<tmpFile, environment, booted, savers, typed, astray>>
  BY DEF EditByHand, WholeFile, Fault, ConfigInv, ConfigTypeOK, Texts, HoldsWhole
<1>3. file' \in Contents /\ file'.dsn = file.dsn /\ file'.library = file.library
  BY <1>1, <1>2 DEF Contents
<1>4. NeverTorn' /\ Address(file') = Address(file)
  BY <1>2, <1>3, WholeContent DEF NeverTorn
<1> QED BY <1>2, <1>3, <1>4 DEF ConfigInv, ConfigTypeOK, Texts, HoldsWhole, Apart, InWriteConfig, TypedInv

\* A saver begins, from what it read or was given.
LEMMA SaverBegins ==
  ASSUME ConfigInv, NEW h \in Editors, NEW owns \in {"setup", "cap"}, NEW c \in Runs,
         Holding(h, owns, c), faults' \in Nat
  PROVE  /\ ConfigInv'
         /\ TypedInv /\ (owns = "cap" /\ astray = {} => c.library = typed) => TypedInv'
<1> DEFINE s == [AtRest EXCEPT !.at = "write", !.owns = owns, !.config = c]
<1>1. s \in Saver /\ s.config = c /\ s.at = "write" /\ s.owns = owns
  BY DEF Saver, AtRest, Runs
<1>2. /\ savers' = [savers EXCEPT ![h] = s] /\ savers[h] = AtRest
      /\ UNCHANGED <<file, tmpFile, environment, booted, typed, astray>>
  BY DEF Holding
<1> HIDE DEF s
<1>3. /\ ConfigTypeOK' /\ savers'[h] = s
      /\ \A g \in Editors \ {h} : savers'[g] = savers[g]
  BY <1>1, <1>2, SaverMoves DEF ConfigInv, ConfigTypeOK, Texts, HoldsWhole
<1>4. \A g \in Editors : InWriteConfig(g)' => InWriteConfig(g) /\ savers'[g] = savers[g]
  BY <1>1, <1>3 DEF InWriteConfig
<1>5. Apart'
  BY <1>2, <1>4 DEF ConfigInv, Apart, NeverTorn
<1> QED BY <1>1, <1>2, <1>3, <1>5 DEF ConfigInv, TypedInv

LEMMA SetupKeeps ==
  ASSUME ConfigInv, ApplySetup
  PROVE  ConfigInv' /\ (TypedInv => TypedInv')
<1>1. PICK c \in Runs, library \in Libraries :
        Holding("menu", "setup", [c EXCEPT !.library = library])
  <2>1. ASSUME file # Torn, NEW library \in Libraries,
               Holding("menu", "setup", [Loaded(file, environment) EXCEPT !.library = library])
        PROVE  \E c \in Runs : Holding("menu", "setup", [c EXCEPT !.library = library])
    BY <2>1, Loading DEF ConfigInv, ConfigTypeOK, Texts, HoldsWhole
  <2>2. ASSUME NEW library \in Libraries,
               Holding("menu", "setup", [booted EXCEPT !.library = library])
        PROVE  \E c \in Runs : Holding("menu", "setup", [c EXCEPT !.library = library])
    BY <2>2 DEF Holding, ConfigInv, ConfigTypeOK
  <2> QED BY <2>1, <2>2 DEF ApplySetup
<1>2. [c EXCEPT !.library = library] \in Runs
  BY DEF Runs, Contents
<1>3. faults' \in Nat
  BY DEF ApplySetup, Fault, ConfigInv, ConfigTypeOK
<1> QED BY <1>1, <1>2, <1>3, SaverBegins DEF Editors

LEMMA CapKeeps ==
  ASSUME ConfigInv, NEW h \in Editors, KeepCap(h)
  PROVE  /\ ConfigInv'
         /\ Environments = {None} /\ TypedInv => TypedInv'
<1> DEFINE old == Loaded(file, environment)
<1>1. PICK cap \in Caps : Holding(h, "cap", [old EXCEPT !.cap = Normalized(cap)])
  BY DEF KeepCap
<1>2. /\ file \in Contents \cup {None, Empty} /\ environment \in Environments
      /\ faults' \in Nat
  BY DEF KeepCap, ConfigInv, ConfigTypeOK, Texts, HoldsWhole
<1>3. old \in Runs /\ (environment = None => old.library = Address(file))
  BY <1>2, Loading
<1> HIDE DEF old
<1>4. Normalized(cap) \in 1..MaxCap
  BY InRange, ConfigAssumption
<1> DEFINE c == [old EXCEPT !.cap = Normalized(cap)]
<1>5. c \in Runs /\ c.library = old.library
  BY <1>3, <1>4 DEF Runs, Contents
<1>6. Holding(h, "cap", c)
  BY <1>1
<1> HIDE DEF c
<1>7. ASSUME Environments = {None}, TypedInv, astray = {} PROVE c.library = typed
  BY <1>2, <1>3, <1>5, <1>7 DEF TypedInv
<1> QED BY <1>2, <1>5, <1>6, <1>7, SaverBegins

LEMMA TruncateKeeps ==
  ASSUME ConfigInv, NEW h \in Editors, TruncateTmp(h)
  PROVE  ConfigInv' /\ (TypedInv => TypedInv')
<1> DEFINE s == [savers[h] EXCEPT !.at = "fill", !.fd = "tmp"]
<1>1. /\ savers[h].at = "write" /\ savers[h] # AtRest
      /\ savers' = [savers EXCEPT ![h] = s] /\ tmpFile' = Empty
      /\ astray' = IF \E g \in Editors : InWriteConfig(g) THEN astray \cup {"crossed"} ELSE astray
      /\ UNCHANGED <<file, environment, booted, typed, faults>>
      /\ ConfigTypeOK /\ savers[h] \in Saver /\ savers[h].config \in Runs /\ savers[h].owns # "nothing"
  BY Resting DEF TruncateTmp, Opens, ConfigInv, ConfigTypeOK, Texts, HoldsWhole
<1>2. /\ s \in Saver /\ s.config = savers[h].config /\ s.at = "fill" /\ s.fd = "tmp"
      /\ s.owns = savers[h].owns /\ s.stale = savers[h].stale
  BY <1>1 DEF Saver
<1> HIDE DEF s
<1>3. /\ ConfigTypeOK' /\ savers'[h] = s
      /\ \A g \in Editors \ {h} : savers'[g] = savers[g]
  BY <1>1, <1>2, SaverMoves DEF ConfigTypeOK, Texts, HoldsWhole
<1>4. Apart'
  <2> SUFFICES ASSUME "crossed" \notin astray' PROVE Apart'
    BY DEF Apart
  <2>1. astray' = astray /\ \A g \in Editors : ~InWriteConfig(g)
    BY <1>1
  <2>2. \A g \in Editors : InWriteConfig(g)' => g = h
    BY <1>3, <2>1 DEF InWriteConfig
  <2> QED BY <1>1, <1>2, <1>3, <2>1, <2>2 DEF ConfigInv, Apart, NeverTorn
<1>5. astray' = {} => astray = {}
  BY <1>1
<1> QED BY <1>1, <1>2, <1>3, <1>4, <1>5 DEF ConfigInv, TypedInv

LEMMA FillKeeps ==
  ASSUME ConfigInv, NEW h \in Editors, Fill(h)
  PROVE  ConfigInv' /\ (TypedInv => TypedInv')
<1>1. /\ savers[h].at = "fill" /\ savers[h] # AtRest /\ InWriteConfig(h)
      /\ UNCHANGED <<environment, booted, typed, astray>>
      /\ ConfigTypeOK /\ faults' \in Nat /\ savers[h] \in Saver /\ savers[h].config \in Runs /\ savers[h].owns # "nothing"
  BY Resting DEF Fill, Fault, ConfigInv, ConfigTypeOK, Texts, HoldsWhole, InWriteConfig
\* Into the temporary file, as long as nobody crossed; into anything parsable or not, else.
<1>2. ASSUME NEW texts \in SUBSET (Texts),
             PutInto(savers[h].fd, texts)
      PROVE  /\ file' \in Texts /\ tmpFile' \in Texts
             /\ "crossed" \notin astray => file' = file /\ tmpFile' \in texts
  <2>1. file' \in Texts /\ tmpFile' \in Texts
    BY <1>1, <1>2 DEF PutInto, ConfigTypeOK
  <2>2. "crossed" \notin astray => savers[h].fd = "tmp"
    BY <1>1 DEF ConfigInv, Apart
  <2> QED BY <1>2, <2>1, <2>2 DEF PutInto
<1>3. "crossed" \notin astray => Opened(savers[h].fd) = Empty
  BY <1>1 DEF ConfigInv, Apart, Opened
<1>4. ASSUME NEW s \in Saver, s = AtRest \/ HoldsWhole(s),
             savers' = [savers EXCEPT ![h] = s],
             s.owns = "cap" => s.owns = savers[h].owns /\ s.config = savers[h].config
                                 /\ s.stale = savers[h].stale,
             file' \in Texts, tmpFile' \in Texts,
             "crossed" \notin astray =>
               /\ file' = file
               /\ s.at # "idle" => s.at = "rename" /\ s.fd = "tmp" /\ tmpFile' = s.config
      PROVE  ConfigInv' /\ (TypedInv => TypedInv')
  <2>1. /\ ConfigTypeOK' /\ savers'[h] = s
        /\ \A g \in Editors \ {h} : savers'[g] = savers[g]
    BY <1>1, <1>4, SaverMoves
  <2>2. Apart'
    <3> SUFFICES ASSUME "crossed" \notin astray PROVE Apart'
      BY <1>1 DEF Apart
    <3>1. NeverTorn' /\ \A g \in Editors \ {h} : ~InWriteConfig(g)'
      BY <1>1, <1>4, <2>1 DEF ConfigInv, Apart, NeverTorn, InWriteConfig
    <3> QED BY <1>4, <2>1, <3>1 DEF Apart, InWriteConfig
  <2>3. astray = {} => file' = file
    BY <1>4
  <2> QED BY <1>1, <1>4, <2>1, <2>2, <2>3 DEF ConfigInv, TypedInv
<1>5. ASSUME PutInto(savers[h].fd, Over(Opened(savers[h].fd), savers[h].config)),
             savers' = [savers EXCEPT ![h].at = "rename"]
      PROVE  ConfigInv' /\ (TypedInv => TypedInv')
  <2> DEFINE s == [savers[h] EXCEPT !.at = "rename"]
             texts == Over(Opened(savers[h].fd), savers[h].config)
  <2>1. /\ s \in Saver /\ s.config = savers[h].config /\ s.at = "rename"
        /\ s.fd = savers[h].fd /\ s.owns = savers[h].owns /\ s.stale = savers[h].stale
    BY <1>1 DEF Saver
  <2>2. savers' = [savers EXCEPT ![h] = s]
    BY <1>5
  <2>3. /\ texts \in SUBSET (Texts)
        /\ "crossed" \notin astray => texts = {savers[h].config}
    BY <1>1, <1>3 DEF Over, Runs, Texts
  <2>4. "crossed" \notin astray => s.fd = "tmp"
    BY <1>1, <2>1 DEF ConfigInv, Apart
  <2>5. PutInto(savers[h].fd, texts)
    BY <1>5
  <2> HIDE DEF s, texts
  <2>6. /\ file' \in Texts /\ tmpFile' \in Texts
        /\ "crossed" \notin astray => file' = file /\ tmpFile' \in texts
    BY <1>2, <2>3, <2>5
  <2> QED BY <1>1, <1>4, <2>1, <2>2, <2>3, <2>4, <2>6 DEF HoldsWhole
<1>6. ASSUME PutInto(savers[h].fd, {Opened(savers[h].fd), Torn}), Ends(h)
      PROVE  ConfigInv' /\ (TypedInv => TypedInv')
  <2>1. file' \in Texts /\ tmpFile' \in Texts
    BY <1>1, <1>6 DEF PutInto, Opened, ConfigTypeOK, Texts, HoldsWhole
  <2>2. "crossed" \notin astray => file' = file
    BY <1>1, <1>6 DEF PutInto, ConfigInv, Apart
  <2> DEFINE s == AtRest
  <2>3. savers' = [savers EXCEPT ![h] = s]
    BY <1>6 DEF Ends
  <2>4. s = AtRest /\ s \in Saver /\ s.at = "idle" /\ s.owns # "cap"
    BY Resting
  <2> HIDE DEF s
  <2> QED BY <1>4, <2>1, <2>2, <2>3, <2>4
<1> QED BY <1>5, <1>6 DEF Fill

LEMMA RenameKeeps ==
  ASSUME ConfigInv, NEW h \in Editors, Rename(h)
  PROVE  ConfigInv' /\ (TypedInv => TypedInv')
<1>1. /\ savers[h].at = "rename" /\ savers[h] # AtRest /\ InWriteConfig(h)
      /\ UNCHANGED <<environment, booted, faults>>
      /\ ConfigTypeOK /\ savers[h] \in Saver /\ savers[h].config \in Runs /\ savers[h].owns # "nothing"
  BY Resting DEF Rename, ConfigInv, ConfigTypeOK, Texts, HoldsWhole, InWriteConfig
<1>2. savers[h].config \in Contents /\ savers[h].config # None
      /\ Address(savers[h].config) = savers[h].config.library
  BY <1>1, WholeContent DEF Runs
<1>3. CASE tmpFile = None
  <2>1. /\ savers' = [savers EXCEPT ![h] = AtRest] /\ UNCHANGED <<file, tmpFile, typed, astray>>
    BY <1>3 DEF Rename, Ends
  <2>2. /\ ConfigTypeOK' /\ savers'[h] = AtRest
        /\ \A g \in Editors \ {h} : savers'[g] = savers[g]
    BY <1>1, <2>1, Resting, SaverMoves DEF ConfigTypeOK
  <2>3. "crossed" \in astray
    BY <1>1, <1>2, <1>3 DEF ConfigInv, Apart
  <2> QED BY <2>1, <2>2, <2>3 DEF ConfigInv, Apart, TypedInv
<1>4. CASE tmpFile # None
  <2> DEFINE setup == savers[h].owns = "setup"
             other(g) == [savers[g] EXCEPT !.fd = RenamedTo(@), !.stale = @ \/ setup]
  <2>1. /\ file' = tmpFile /\ tmpFile' = None
        /\ typed' = IF setup THEN savers[h].config.library ELSE typed
        /\ astray' = Landed(h)
        /\ savers' = [g \in Editors |-> IF g = h \/ savers[g] = AtRest THEN AtRest ELSE other(g)]
    BY <1>4 DEF Rename
  <2>2. ASSUME NEW g \in Editors, savers[g] # AtRest
        PROVE  /\ other(g) \in Saver /\ other(g).config = savers[g].config
               /\ other(g).at = savers[g].at /\ other(g).owns = savers[g].owns
               /\ other(g).stale = (savers[g].stale \/ setup)
    <3>1. savers[g] \in Saver
      BY <1>1 DEF ConfigTypeOK
    <3>2. savers[g].fd \in {"none", "tmp", "file", "gone"} /\ savers[g].stale \in BOOLEAN
      BY <3>1 DEF Saver
    <3>3. RenamedTo(savers[g].fd) \in {"none", "tmp", "file", "gone"}
      BY <3>2 DEF RenamedTo
    <3> HIDE DEF setup
    <3>4. (savers[g].stale \/ setup) \in BOOLEAN
      BY <3>2
    <3> QED BY <3>1, <3>3, <3>4 DEF Saver
  <2> HIDE DEF other
  <2>3. /\ savers' \in [Editors -> Saver] /\ savers'[h] = AtRest
        /\ \A g \in Editors : savers'[g] # AtRest =>
             savers[g] # AtRest /\ g # h /\ savers'[g] = other(g)
    BY <2>1, <2>2, Resting
  <2>4. \A g \in Editors : savers'[g] # AtRest => HoldsWhole(savers'[g])
    BY <1>1, <2>2, <2>3 DEF ConfigTypeOK, Texts, HoldsWhole
  <2>5. \A g \in Editors : InWriteConfig(g)' => InWriteConfig(g) /\ g # h
    BY <2>2, <2>3, Resting DEF InWriteConfig
  \* What stays uncrossed, or is mended, was renamed by itself.
  <2>6. "crossed" \notin astray' => tmpFile = savers[h].config /\ ByItself(h)
    BY <1>1, <2>1 DEF Landed, ConfigInv, Apart, ByItself
  <2>7. ConfigTypeOK'
    BY <1>1, <2>1, <2>3, <2>4 DEF ConfigTypeOK, Texts, HoldsWhole
  <2>8. Apart'
    <3> SUFFICES ASSUME "crossed" \notin astray' PROVE Apart'
      BY DEF Apart
    <3>1. \A g \in Editors : ~InWriteConfig(g)'
      BY <2>5, <2>6 DEF ByItself
    <3>2. NeverTorn'
      BY <1>2, <2>1, <2>6, WholeContent DEF NeverTorn
    <3> QED BY <3>1, <3>2 DEF Apart
  <2>9. ASSUME TypedInv PROVE TypedInv'
    <3> SUFFICES ASSUME astray' = {} PROVE TypedInv'
      BY DEF TypedInv
    <3>1. Address(file') = savers[h].config.library
      BY <1>2, <2>1, <2>6
    <3>2. CASE setup
      BY <2>1, <2>2, <2>3, <3>1, <3>2, Resting DEF TypedInv
    <3>3. CASE ~setup
      <4>1. astray = {} /\ ~savers[h].stale
        BY <2>1, <3>3 DEF Landed
      <4>2. savers[h].owns = "cap"
        BY <1>1, <3>3 DEF Saver
      <4>3. Address(file') = typed' /\ typed' = typed
        BY <2>1, <2>9, <3>1, <3>3, <4>1, <4>2 DEF TypedInv
      <4>4. \A g \in Editors : savers'[g].owns = "cap" /\ ~savers'[g].stale =>
              savers[g].owns = "cap" /\ ~savers[g].stale /\ savers'[g].config = savers[g].config
        BY <2>2, <2>3, Resting
      <4> QED BY <2>9, <4>1, <4>3, <4>4 DEF TypedInv
    <3> QED BY <3>2, <3>3
  <2> QED BY <2>7, <2>8, <2>9 DEF ConfigInv
<1> QED BY <1>3, <1>4

LEMMA ConfigKept ==
  ConfigInv /\ [ConfigNext]_configVars =>
    ConfigInv' /\ (Environments = {None} /\ TypedInv => TypedInv')
<1> SUFFICES ASSUME ConfigInv, [ConfigNext]_configVars
             PROVE  ConfigInv' /\ (Environments = {None} /\ TypedInv => TypedInv')
  OBVIOUS
<1>1. CASE UNCHANGED configVars
  BY <1>1 DEF configVars, ConfigInv, ConfigTypeOK, Apart, NeverTorn, InWriteConfig, TypedInv
<1>2. CASE Boot \/ Quit \/ CrashRun \/ EditByHand \/ ApplySetup
  BY <1>2, BootKeeps, EndKeeps, EditKeeps, SetupKeeps
<1>3. ASSUME NEW h \in Editors, KeepCap(h) \/ TruncateTmp(h) \/ Fill(h) \/ Rename(h)
      PROVE  ConfigInv' /\ (Environments = {None} /\ TypedInv => TypedInv')
  BY <1>3, CapKeeps, TruncateKeeps, FillKeeps, RenameKeeps
<1> QED BY <1>1, <1>2, <1>3 DEF ConfigNext

\* Unless two savings were inside writeConfig at once, no start finds half a file, whoever
\* saved or edited it and whatever cut that short; and none runs by a cap out of range
\* (config.go: "Save atomically rewrites config.toml").
THEOREM StartsAreWell == ConfigSpec => []StartsWell
<1>1. ConfigInv => StartsWell
  BY DEF ConfigInv, ConfigTypeOK, Apart, StartsWell, CapInRange, Runs
<1>2. ConfigInv /\ [ConfigNext]_configVars => ConfigInv'
  BY ConfigKept
<1> QED BY <1>1, <1>2, ConfigBegins, PTL DEF ConfigSpec

\* With ORBITNAM_DSN unset, a start connects where a person was last told it would, past
\* any number of caps kept meanwhile by any number of goroutines, failed writes, crashes
\* and edits, and whatever the file of an older daemon held, unless savings crossed or one
\* that had read the file before that Setup landed after it (main.go, heartbeat.go).
THEOREM AddressesAreKept ==
  ASSUME Environments = {None}
  PROVE  ConfigSpec => []TypedIsKept
<1>1. ConfigInv /\ TypedInv => TypedIsKept
  BY DEF TypedInv, TypedIsKept
<1>2. ConfigInv /\ TypedInv /\ [ConfigNext]_configVars => ConfigInv' /\ TypedInv'
  BY ConfigKept
<1> QED BY <1>1, <1>2, ConfigBegins, PTL DEF ConfigSpec

-----------------------------------------------------------------------------
(* A daemon that takes jobs has a runtime that runs them.                  *)

ProvisionTypeOK ==
  /\ tree \in {"none", "broken", "starts", "whole"}
  /\ archive \in BOOLEAN
  /\ venv \in {"none", "part", "whole"}
  /\ marker \in BOOLEAN
  /\ driver \in {"none", "part", "current"}
  /\ signal \in {"none", "bad", "good"}
  /\ at \in [Provisioners -> Steps \cup {"down", "lock", "failed", "ready"}]
  /\ misjudged \in BOOLEAN
  /\ faults \in Nat

LockedOut == \A d \in Provisioners : at[d] \in Steps => lockedBy = d

\* What the steps so far have found or made.
Found ==
  \A d \in Provisioners :
    /\ at[d] \in {"venv", "create"} => Starts
    /\ at[d] \in {"pip", "mark"} => tree = "whole"
    /\ at[d] = "mark" => venv = "whole"
    /\ at[d] \in {"driver", "write", "signal", "profile"} => Imports /\ marker
    /\ at[d] \in {"signal", "profile"} => driver = "current"
    /\ at[d] = "profile" => signal = "good"

Whole == Imports /\ marker /\ signal = "good"

\* Beside a daemon that is ready nothing is taken apart.
Spared ==
  (\E d \in Provisioners : at[d] = "ready") /\ ~misjudged =>
    /\ Whole
    /\ \A e \in Provisioners :
         at[e] \in Steps => at[e] \in {"python", "venv", "driver", "write", "signal", "profile"}
    /\ driver # "current" => faults > 0 \/ \E e \in Provisioners : at[e] = "write"

ProvisionInv == ProvisionTypeOK /\ LockedOut /\ Found /\ Spared


-----------------------------------------------------------------------------
LEMMA ProvisionBegins == ProvisionInit => ProvisionInv
<1> SUFFICES ASSUME ProvisionInit PROVE ProvisionInv
  OBVIOUS
<1> \A d \in Provisioners : at[d] = "down"
  BY DEF ProvisionInit
<1>1. ProvisionTypeOK
  <2>1. at \in [Provisioners -> Steps \cup {"down", "lock", "failed", "ready"}]
    BY DEF ProvisionInit
  <2> QED BY <2>1 DEF ProvisionInit, ProvisionTypeOK
<1>2. LockedOut /\ Found
  BY DEF LockedOut, Found, Steps
<1>3. Spared
  BY DEF Spared
<1> QED BY <1>1, <1>2, <1>3 DEF ProvisionInv

LEMMA TryKeeps ==
  ASSUME ProvisionInv, NEW d \in Provisioners, Try(d)
  PROVE  ProvisionInv'
<1> USE DEF Try, Step, Fail, Failed, Fault, Starts, Imports, runtimeVars
<1>1. ProvisionTypeOK'
  <2>1. at' \in [Provisioners -> Steps \cup {"down", "lock", "failed", "ready"}]
    BY DEF ProvisionInv, ProvisionTypeOK, Steps
  <2>2. faults' \in Nat
    BY TroubleAssumption DEF ProvisionInv, ProvisionTypeOK
  <2> QED BY <2>1, <2>2, ProvisionAssumption DEF ProvisionInv, ProvisionTypeOK
<1>2. LockedOut'
  BY ProvisionAssumption DEF ProvisionInv, ProvisionTypeOK, LockedOut, Steps
<1>3. Found'
  BY DEF ProvisionInv, ProvisionTypeOK, LockedOut, Found, Steps
<1>4. Spared'
  BY DEF ProvisionInv, ProvisionTypeOK, LockedOut, Found, Spared, Whole, Steps
<1> QED BY <1>1, <1>2, <1>3, <1>4 DEF ProvisionInv

LEMMA LockKeeps ==
  ASSUME ProvisionInv, NEW d \in Provisioners, Lock(d)
  PROVE  ProvisionInv'
<1> USE DEF Lock, Step, Fail, Failed, Fault, Starts, Imports, runtimeVars
<1>1. ProvisionTypeOK'
  <2>1. at' \in [Provisioners -> Steps \cup {"down", "lock", "failed", "ready"}]
    BY DEF ProvisionInv, ProvisionTypeOK, Steps
  <2>2. faults' \in Nat
    BY TroubleAssumption DEF ProvisionInv, ProvisionTypeOK
  <2> QED BY <2>1, <2>2, ProvisionAssumption DEF ProvisionInv, ProvisionTypeOK
<1>2. LockedOut'
  BY ProvisionAssumption DEF ProvisionInv, ProvisionTypeOK, LockedOut, Steps
<1>3. Found'
  BY DEF ProvisionInv, ProvisionTypeOK, LockedOut, Found, Steps
<1>4. Spared'
  BY DEF ProvisionInv, ProvisionTypeOK, LockedOut, Found, Spared, Whole, Steps
<1> QED BY <1>1, <1>2, <1>3, <1>4 DEF ProvisionInv

LEMMA PythonKeeps ==
  ASSUME ProvisionInv, NEW d \in Provisioners, CheckPython(d)
  PROVE  ProvisionInv'
<1> USE DEF CheckPython, Probed, Refuted, Step, Fail, Failed, Fault, Starts, Imports, runtimeVars
<1>1. ProvisionTypeOK'
  <2>1. at' \in [Provisioners -> Steps \cup {"down", "lock", "failed", "ready"}]
    BY DEF ProvisionInv, ProvisionTypeOK, Steps
  <2>2. faults' \in Nat
    BY TroubleAssumption DEF ProvisionInv, ProvisionTypeOK
  <2> QED BY <2>1, <2>2, ProvisionAssumption DEF ProvisionInv, ProvisionTypeOK
<1>2. LockedOut'
  BY ProvisionAssumption DEF ProvisionInv, ProvisionTypeOK, LockedOut, Steps
<1>3. Found'
  BY DEF ProvisionInv, ProvisionTypeOK, LockedOut, Found, Steps
<1>4. Spared'
  BY DEF ProvisionInv, ProvisionTypeOK, LockedOut, Found, Spared, Whole, Steps
<1> QED BY <1>1, <1>2, <1>3, <1>4 DEF ProvisionInv

LEMMA FetchKeeps ==
  ASSUME ProvisionInv, NEW d \in Provisioners, Fetch(d)
  PROVE  ProvisionInv'
<1> USE DEF Fetch, Step, Fail, Failed, Fault, Starts, Imports, runtimeVars
<1>1. ProvisionTypeOK'
  <2>1. at' \in [Provisioners -> Steps \cup {"down", "lock", "failed", "ready"}]
    BY DEF ProvisionInv, ProvisionTypeOK, Steps
  <2>2. faults' \in Nat
    BY TroubleAssumption DEF ProvisionInv, ProvisionTypeOK
  <2> QED BY <2>1, <2>2, ProvisionAssumption DEF ProvisionInv, ProvisionTypeOK
<1>2. LockedOut'
  BY ProvisionAssumption DEF ProvisionInv, ProvisionTypeOK, LockedOut, Steps
<1>3. Found'
  BY DEF ProvisionInv, ProvisionTypeOK, LockedOut, Found, Steps
<1>4. Spared'
  BY DEF ProvisionInv, ProvisionTypeOK, LockedOut, Found, Spared, Whole, Steps
<1> QED BY <1>1, <1>2, <1>3, <1>4 DEF ProvisionInv

LEMMA BeginKeeps ==
  ASSUME ProvisionInv, NEW d \in Provisioners, BeginUnpack(d)
  PROVE  ProvisionInv'
<1> USE DEF BeginUnpack, Step, Fail, Failed, Fault, Starts, Imports, runtimeVars
<1>1. ProvisionTypeOK'
  <2>1. at' \in [Provisioners -> Steps \cup {"down", "lock", "failed", "ready"}]
    BY DEF ProvisionInv, ProvisionTypeOK, Steps
  <2>2. faults' \in Nat
    BY TroubleAssumption DEF ProvisionInv, ProvisionTypeOK
  <2> QED BY <2>1, <2>2, ProvisionAssumption DEF ProvisionInv, ProvisionTypeOK
<1>2. LockedOut'
  BY ProvisionAssumption DEF ProvisionInv, ProvisionTypeOK, LockedOut, Steps
<1>3. Found'
  BY DEF ProvisionInv, ProvisionTypeOK, LockedOut, Found, Steps
<1>4. Spared'
  BY DEF ProvisionInv, ProvisionTypeOK, LockedOut, Found, Spared, Whole, Steps
<1> QED BY <1>1, <1>2, <1>3, <1>4 DEF ProvisionInv

LEMMA UnpackedKeeps ==
  ASSUME ProvisionInv, NEW d \in Provisioners, Unpacked(d)
  PROVE  ProvisionInv'
<1> USE DEF Unpacked, Step, Fail, Failed, Fault, Starts, Imports, runtimeVars
<1>1. ProvisionTypeOK'
  <2>1. at' \in [Provisioners -> Steps \cup {"down", "lock", "failed", "ready"}]
    BY DEF ProvisionInv, ProvisionTypeOK, Steps
  <2>2. faults' \in Nat
    BY TroubleAssumption DEF ProvisionInv, ProvisionTypeOK
  <2> QED BY <2>1, <2>2, ProvisionAssumption DEF ProvisionInv, ProvisionTypeOK
<1>2. LockedOut'
  BY ProvisionAssumption DEF ProvisionInv, ProvisionTypeOK, LockedOut, Steps
<1>3. Found'
  BY DEF ProvisionInv, ProvisionTypeOK, LockedOut, Found, Steps
<1>4. Spared'
  BY DEF ProvisionInv, ProvisionTypeOK, LockedOut, Found, Spared, Whole, Steps
<1> QED BY <1>1, <1>2, <1>3, <1>4 DEF ProvisionInv

LEMMA VenvKeeps ==
  ASSUME ProvisionInv, NEW d \in Provisioners, CheckVenv(d)
  PROVE  ProvisionInv'
<1> USE DEF CheckVenv, Probed, Refuted, Step, Fail, Failed, Fault, Starts, Imports, runtimeVars
<1>1. ProvisionTypeOK'
  <2>1. at' \in [Provisioners -> Steps \cup {"down", "lock", "failed", "ready"}]
    BY DEF ProvisionInv, ProvisionTypeOK, Steps
  <2>2. faults' \in Nat
    BY TroubleAssumption DEF ProvisionInv, ProvisionTypeOK
  <2> QED BY <2>1, <2>2, ProvisionAssumption DEF ProvisionInv, ProvisionTypeOK
<1>2. LockedOut'
  BY ProvisionAssumption DEF ProvisionInv, ProvisionTypeOK, LockedOut, Steps
<1>3. Found'
  BY DEF ProvisionInv, ProvisionTypeOK, LockedOut, Found, Steps
<1>4. Spared'
  BY DEF ProvisionInv, ProvisionTypeOK, LockedOut, Found, Spared, Whole, Steps
<1> QED BY <1>1, <1>2, <1>3, <1>4 DEF ProvisionInv

LEMMA CreateKeeps ==
  ASSUME ProvisionInv, NEW d \in Provisioners, CreateVenv(d)
  PROVE  ProvisionInv'
<1> USE DEF CreateVenv, Step, Fail, Failed, Fault, Starts, Imports, runtimeVars
<1>1. ProvisionTypeOK'
  <2>1. at' \in [Provisioners -> Steps \cup {"down", "lock", "failed", "ready"}]
    BY DEF ProvisionInv, ProvisionTypeOK, Steps
  <2>2. faults' \in Nat
    BY TroubleAssumption DEF ProvisionInv, ProvisionTypeOK
  <2> QED BY <2>1, <2>2, ProvisionAssumption DEF ProvisionInv, ProvisionTypeOK
<1>2. LockedOut'
  BY ProvisionAssumption DEF ProvisionInv, ProvisionTypeOK, LockedOut, Steps
<1>3. Found'
  BY DEF ProvisionInv, ProvisionTypeOK, LockedOut, Found, Steps
<1>4. Spared'
  BY DEF ProvisionInv, ProvisionTypeOK, LockedOut, Found, Spared, Whole, Steps
<1> QED BY <1>1, <1>2, <1>3, <1>4 DEF ProvisionInv

LEMMA PipKeeps ==
  ASSUME ProvisionInv, NEW d \in Provisioners, Pip(d)
  PROVE  ProvisionInv'
<1> USE DEF Pip, Step, Fail, Failed, Fault, Starts, Imports, runtimeVars
<1>1. ProvisionTypeOK'
  <2>1. at' \in [Provisioners -> Steps \cup {"down", "lock", "failed", "ready"}]
    BY DEF ProvisionInv, ProvisionTypeOK, Steps
  <2>2. faults' \in Nat
    BY TroubleAssumption DEF ProvisionInv, ProvisionTypeOK
  <2> QED BY <2>1, <2>2, ProvisionAssumption DEF ProvisionInv, ProvisionTypeOK
<1>2. LockedOut'
  BY ProvisionAssumption DEF ProvisionInv, ProvisionTypeOK, LockedOut, Steps
<1>3. Found'
  BY DEF ProvisionInv, ProvisionTypeOK, LockedOut, Found, Steps
<1>4. Spared'
  BY DEF ProvisionInv, ProvisionTypeOK, LockedOut, Found, Spared, Whole, Steps
<1> QED BY <1>1, <1>2, <1>3, <1>4 DEF ProvisionInv

LEMMA MarkKeeps ==
  ASSUME ProvisionInv, NEW d \in Provisioners, Mark(d)
  PROVE  ProvisionInv'
<1> USE DEF Mark, Step, Fail, Failed, Fault, Starts, Imports, runtimeVars
<1>1. ProvisionTypeOK'
  <2>1. at' \in [Provisioners -> Steps \cup {"down", "lock", "failed", "ready"}]
    BY DEF ProvisionInv, ProvisionTypeOK, Steps
  <2>2. faults' \in Nat
    BY TroubleAssumption DEF ProvisionInv, ProvisionTypeOK
  <2> QED BY <2>1, <2>2, ProvisionAssumption DEF ProvisionInv, ProvisionTypeOK
<1>2. LockedOut'
  BY ProvisionAssumption DEF ProvisionInv, ProvisionTypeOK, LockedOut, Steps
<1>3. Found'
  BY DEF ProvisionInv, ProvisionTypeOK, LockedOut, Found, Steps
<1>4. Spared'
  BY DEF ProvisionInv, ProvisionTypeOK, LockedOut, Found, Spared, Whole, Steps
<1> QED BY <1>1, <1>2, <1>3, <1>4 DEF ProvisionInv

LEMMA BeginDriverKeeps ==
  ASSUME ProvisionInv, NEW d \in Provisioners, BeginDriver(d)
  PROVE  ProvisionInv'
<1> USE DEF BeginDriver, Step, Fail, Failed, Fault, Starts, Imports, runtimeVars
<1>1. ProvisionTypeOK'
  <2>1. at' \in [Provisioners -> Steps \cup {"down", "lock", "failed", "ready"}]
    BY DEF ProvisionInv, ProvisionTypeOK, Steps
  <2>2. faults' \in Nat
    BY TroubleAssumption DEF ProvisionInv, ProvisionTypeOK
  <2> QED BY <2>1, <2>2, ProvisionAssumption DEF ProvisionInv, ProvisionTypeOK
<1>2. LockedOut'
  BY ProvisionAssumption DEF ProvisionInv, ProvisionTypeOK, LockedOut, Steps
<1>3. Found'
  BY DEF ProvisionInv, ProvisionTypeOK, LockedOut, Found, Steps
<1>4. Spared'
  BY DEF ProvisionInv, ProvisionTypeOK, LockedOut, Found, Spared, Whole, Steps
<1> QED BY <1>1, <1>2, <1>3, <1>4 DEF ProvisionInv

LEMMA WriteDriverKeeps ==
  ASSUME ProvisionInv, NEW d \in Provisioners, WriteDriver(d)
  PROVE  ProvisionInv'
<1> USE DEF WriteDriver, Step, Fail, Failed, Fault, Starts, Imports, runtimeVars
<1>1. ProvisionTypeOK'
  <2>1. at' \in [Provisioners -> Steps \cup {"down", "lock", "failed", "ready"}]
    BY DEF ProvisionInv, ProvisionTypeOK, Steps
  <2>2. faults' \in Nat
    BY TroubleAssumption DEF ProvisionInv, ProvisionTypeOK
  <2> QED BY <2>1, <2>2, ProvisionAssumption DEF ProvisionInv, ProvisionTypeOK
<1>2. LockedOut'
  BY ProvisionAssumption DEF ProvisionInv, ProvisionTypeOK, LockedOut, Steps
<1>3. Found'
  BY DEF ProvisionInv, ProvisionTypeOK, LockedOut, Found, Steps
<1>4. Spared'
  BY DEF ProvisionInv, ProvisionTypeOK, LockedOut, Found, Spared, Whole, Steps
<1> QED BY <1>1, <1>2, <1>3, <1>4 DEF ProvisionInv

LEMMA SignalKeeps ==
  ASSUME ProvisionInv, NEW d \in Provisioners, EnsureSignal(d)
  PROVE  ProvisionInv'
<1> USE DEF EnsureSignal, Step, Fail, Failed, Fault, Starts, Imports, runtimeVars
<1>1. ProvisionTypeOK'
  <2>1. at' \in [Provisioners -> Steps \cup {"down", "lock", "failed", "ready"}]
    BY DEF ProvisionInv, ProvisionTypeOK, Steps
  <2>2. faults' \in Nat
    BY TroubleAssumption DEF ProvisionInv, ProvisionTypeOK
  <2> QED BY <2>1, <2>2, ProvisionAssumption DEF ProvisionInv, ProvisionTypeOK
<1>2. LockedOut'
  BY ProvisionAssumption DEF ProvisionInv, ProvisionTypeOK, LockedOut, Steps
<1>3. Found'
  BY DEF ProvisionInv, ProvisionTypeOK, LockedOut, Found, Steps
<1>4. Spared'
  BY DEF ProvisionInv, ProvisionTypeOK, LockedOut, Found, Spared, Whole, Steps
<1> QED BY <1>1, <1>2, <1>3, <1>4 DEF ProvisionInv

LEMMA ProfileKeeps ==
  ASSUME ProvisionInv, NEW d \in Provisioners, Profile(d)
  PROVE  ProvisionInv'
<1> USE DEF Profile, Step, Fail, Failed, Fault, Starts, Imports, runtimeVars
<1>1. ProvisionTypeOK'
  <2>1. at' \in [Provisioners -> Steps \cup {"down", "lock", "failed", "ready"}]
    BY DEF ProvisionInv, ProvisionTypeOK, Steps
  <2>2. faults' \in Nat
    BY TroubleAssumption DEF ProvisionInv, ProvisionTypeOK
  <2> QED BY <2>1, <2>2, ProvisionAssumption DEF ProvisionInv, ProvisionTypeOK
<1>2. LockedOut'
  BY ProvisionAssumption DEF ProvisionInv, ProvisionTypeOK, LockedOut, Steps
<1>3. Found'
  BY DEF ProvisionInv, ProvisionTypeOK, LockedOut, Found, Steps
<1>4. Spared'
  BY DEF ProvisionInv, ProvisionTypeOK, LockedOut, Found, Spared, Whole, Steps
<1> QED BY <1>1, <1>2, <1>3, <1>4 DEF ProvisionInv

LEMMA ProvisionerDiesKeeps ==
  ASSUME ProvisionInv, NEW d \in Provisioners, ProvisionerDies(d)
  PROVE  ProvisionInv'
<1> USE DEF ProvisionerDies, Step, Fail, Failed, Fault, Starts, Imports, runtimeVars
<1>1. ProvisionTypeOK'
  <2>1. at' \in [Provisioners -> Steps \cup {"down", "lock", "failed", "ready"}]
    BY DEF ProvisionInv, ProvisionTypeOK, Steps
  <2>2. faults' \in Nat
    BY TroubleAssumption DEF ProvisionInv, ProvisionTypeOK
  <2> QED BY <2>1, <2>2, ProvisionAssumption DEF ProvisionInv, ProvisionTypeOK
<1>2. LockedOut'
  BY ProvisionAssumption DEF ProvisionInv, ProvisionTypeOK, LockedOut, Steps
<1>3. Found'
  BY DEF ProvisionInv, ProvisionTypeOK, LockedOut, Found, Steps
<1>4. Spared'
  BY DEF ProvisionInv, ProvisionTypeOK, LockedOut, Found, Spared, Whole, Steps
<1> QED BY <1>1, <1>2, <1>3, <1>4 DEF ProvisionInv

-----------------------------------------------------------------------------
\* Every step of ProvisionNext keeps the invariant.
LEMMA ProvisionKept == ProvisionInv /\ [ProvisionNext]_provisionVars => ProvisionInv'
<1> SUFFICES ASSUME ProvisionInv, [ProvisionNext]_provisionVars PROVE ProvisionInv'
  OBVIOUS
<1>1. CASE UNCHANGED provisionVars
  BY <1>1 DEF provisionVars, ProvisionInv, ProvisionTypeOK, LockedOut, Found, Spared,
    Whole, Imports, Starts
<1>2. CASE ProvisionNext
  <2>1. PICK d \in Provisioners : Works(d) \/ Lock(d) \/ ProvisionerDies(d)
    BY <1>2 DEF ProvisionNext
  <2>2. CASE Works(d)
    BY <2>2, TryKeeps, PythonKeeps, FetchKeeps, BeginKeeps, UnpackedKeeps, VenvKeeps,
      CreateKeeps, PipKeeps, MarkKeeps, BeginDriverKeeps, WriteDriverKeeps, SignalKeeps,
      ProfileKeeps DEF Works
  <2> QED BY <2>1, <2>2, LockKeeps, ProvisionerDiesKeeps
<1> QED BY <1>1, <1>2

LEMMA ProvisionInvariant == ProvisionSpec => []ProvisionInv
BY ProvisionBegins, ProvisionKept, PTL DEF ProvisionSpec

\* The lock: no two daemons work on one runtime directory.
THEOREM OneAtATime == ProvisionSpec => []OneProvisions
<1>1. ProvisionInv => OneProvisions
  BY DEF ProvisionInv, LockedOut, OneProvisions
<1> QED BY <1>1, ProvisionInvariant, PTL

\* Whoever is ready can train, whatever the other daemons do to the directory, as long as
\* none of them takes something good for broken.
THEOREM ReadyMeansRuns == ProvisionSpec => []ReadyRuns
<1>1. ProvisionInv => ReadyRuns
  BY DEF ProvisionInv, Spared, Whole, ReadyRuns
<1> QED BY <1>1, ProvisionInvariant, PTL
=============================================================================
