----------------------------- MODULE ConfigFile -----------------------------
(***************************************************************************)
(* config.toml: read and normalised at every start, and rewritten whole by *)
(* goroutines that each own a few of its values, the menu's (Setup, a cap) *)
(* and the two that beat (the cap).  No lock is held while one re-reads,   *)
(* changes and saves, and all of them save by the same temporary file.     *)
(* internal/config; cmd/namtrainerd, the setup and cap paths.  A library   *)
(* is an address; the six fields it is made of decide nothing here.        *)
(***************************************************************************)
EXTENDS Trouble

CONSTANTS
  Libraries,    \* the addresses a person may type
  Default,      \* the address of a fresh install
  Environments, \* what ORBITNAM_DSN may be when a run is started: unset or an address
  Caps,         \* the caps that may be asked for or typed
  Beats         \* the goroutines that beat: the ticker's, and for a while provisioning's

MaxCap == 8

\* What a whole file may hold.
Contents == [cap : Caps \cup 1..MaxCap, library : Libraries \cup Environments,
             dsn : Libraries \cup {None}]

\* What a file is when it was truncated and not written yet, and when a text was written
\* over a longer one or a writing stopped half way, which is taken not to parse.
Empty == [text |-> "none"]
Torn == [text |-> "garbled"]

ASSUME ConfigAssumption ==
  /\ Caps \subseteq Nat
  /\ Default \in Libraries /\ None \notin Libraries \cup Contents /\ None \in Environments
  /\ {Empty, Torn} \cap (Contents \cup {None}) = {} /\ "menu" \notin Beats

\* Faults here: "diskfull", a write fails; "unreadable", a read does; "crash"; "byhand",
\* the file is edited in a text editor.

VARIABLES
  file,         \* config.toml: a content, None, Empty or Torn
  tmpFile,      \* config.toml.tmp
  environment,  \* ORBITNAM_DSN of this run
  booted,       \* the configuration this run was started with
  savers,       \* where each goroutine is, what it holds, and where the file it opened is
  typed,        \* the address of the last Setup that was reported saved (history)
  astray        \* how savings met since a Setup was last saved by itself (history)

configVars == <<file, tmpFile, environment, booted, savers, typed, astray, faults>>

\* A file from before the fields has an address in `dsn` and none in them.
Content(cap, library, dsn) == [cap |-> cap, library |-> library, dsn |-> dsn]
WholeFile(content) == content \notin {None, Empty, Torn}
AtRest == [at |-> "idle", owns |-> "nothing", config |-> None, fd |-> "none", stale |-> FALSE]

Editors == {"menu"} \cup Beats

\* Inside writeConfig, between the opening and the renaming.
InWriteConfig(h) == savers[h].at \in {"fill", "rename"}

-----------------------------------------------------------------------------
(* Load.                                                                   *)

Normalized(cap) == IF cap < 1 THEN 1 ELSE IF cap > MaxCap THEN MaxCap ELSE cap

\* Mutant: an old file's dsn is left where it is.
UnsplitLibrary(content, override) ==
  IF override # None THEN override ELSE content.library

\* What the fields hold once the file's dsn, and then the environment's, were split
\* into them.
SplitLibrary(content, override) ==
  IF override # None THEN override ELSE IF content.dsn # None THEN content.dsn
  ELSE content.library

\* A file that cannot be parsed is an error; a missing one is made, with the defaults,
\* and they are what an empty one says.
FreshFile == Content(1, Default, None)
Parsed(content) == IF WholeFile(content) THEN content ELSE FreshFile

Loaded(content, override) ==
  LET c == Parsed(content) IN
  Content(Normalized(c.cap), SplitLibrary(c, override), None)

\* Where a start without the environment's help connects.
Address(content) ==
  IF content = Torn THEN None
  ELSE IF Parsed(content).dsn # None THEN Parsed(content).dsn ELSE Parsed(content).library

ConfigInit ==
  /\ \E c \in Caps : \E library \in Libraries : \E dsn \in Libraries \cup {None} :
       file \in {None, Content(c, library, dsn)}
  /\ typed = Address(file)
  /\ tmpFile = None
  /\ environment = None /\ booted = None
  /\ savers = [h \in Editors |-> AtRest]
  /\ astray = {} /\ faults = 0

\* The daemon starts.  A file that is not there is written, with a rename like any
\* other.
Boot ==
  /\ booted = None /\ file # Torn
  /\ booted' = Loaded(file, environment)
  /\ file' = IF file = None THEN FreshFile ELSE file
  /\ UNCHANGED <<tmpFile, environment, savers, typed, astray, faults>>

Gone ==
  /\ booted' = None
  /\ savers' = [h \in Editors |-> AtRest]

\* Restart: main returns, whatever its goroutines are at.
Quit ==
  /\ booted # None
  /\ Gone
  /\ environment' \in Environments
  /\ UNCHANGED <<file, tmpFile, typed, astray, faults>>

CrashRun ==
  /\ booted # None
  /\ Fault("crash")
  /\ Gone
  /\ UNCHANGED <<file, tmpFile, environment, typed, astray>>

-----------------------------------------------------------------------------
(* Those that save.                                                        *)

\* A goroutine has re-read the file, changed what it owns, and goes on to save it whole.
Holding(h, owns, config) ==
  /\ booted # None /\ savers[h] = AtRest
  /\ savers' = [savers EXCEPT ![h] = [AtRest EXCEPT !.at = "write", !.owns = owns,
                                                   !.config = config]]
  /\ UNCHANGED <<file, tmpFile, environment, booted, typed, astray>>

\* applySetup, for the address; Setup's keep_awake decides nothing here.  When the file
\* cannot be read it falls back to a copy of what this run was started with.
ApplySetup ==
  \/ /\ file # Torn /\ UNCHANGED faults
     /\ \E library \in Libraries :
          Holding("menu", "setup", [Loaded(file, environment) EXCEPT !.library = library])
  \/ /\ \/ file = Torn /\ UNCHANGED faults
        \/ Fault("unreadable")
     /\ \E library \in Libraries :
          Holding("menu", "setup", [booted EXCEPT !.library = library])

\* persistCap, called by the menu and by every beat: the pool's cap, which SetCap
\* clamped to the same range.  When the file cannot be read nothing is saved.
KeepCap(h) ==
  /\ file # Torn
  /\ \E cap \in Caps :
       Holding(h, "cap", [Loaded(file, environment) EXCEPT !.cap = Normalized(cap)])
  /\ UNCHANGED faults

Opens(h, where) ==
  /\ savers[h].at = "write"
  /\ savers' = [savers EXCEPT ![h].at = "fill", ![h].fd = where]
  /\ astray' = IF \E g \in Editors : InWriteConfig(g) THEN astray \cup {"crossed"} ELSE astray
  /\ UNCHANGED <<environment, booted, typed, faults>>

\* Mutant: the file itself is written.
InPlace(h) == Opens(h, "file") /\ file' = Empty /\ UNCHANGED tmpFile

\* writeConfig: the temporary file is made or truncated, whoever else has it open...
TruncateTmp(h) == Opens(h, "tmp") /\ tmpFile' = Empty /\ UNCHANGED file

\* What is in a file after a text was written over what it held.
Over(old, new) == IF old \in {Empty, new} THEN {new} ELSE {new, Torn}

\* The file that was opened may by now have another name, or none.
Opened(fd) == IF fd = "tmp" THEN tmpFile ELSE IF fd = "file" THEN file ELSE None
PutInto(fd, texts) ==
  /\ tmpFile' \in IF fd = "tmp" THEN texts ELSE {tmpFile}
  /\ file' \in IF fd = "file" THEN texts ELSE {file}

Ends(h) == savers' = [savers EXCEPT ![h] = AtRest]

\* ...it is filled...
Fill(h) ==
  /\ savers[h].at = "fill"
  /\ \/ /\ PutInto(savers[h].fd, Over(Opened(savers[h].fd), savers[h].config))
        /\ savers' = [savers EXCEPT ![h].at = "rename"]
        /\ UNCHANGED faults
     \/ /\ Fault("diskfull")
        /\ PutInto(savers[h].fd, {Opened(savers[h].fd), Torn})
        /\ Ends(h)
  /\ UNCHANGED <<environment, booted, typed, astray>>

\* Where an opened file is once config.toml.tmp was renamed.
RenamedTo(fd) == IF fd = "tmp" THEN "file" ELSE IF fd = "file" THEN "gone" ELSE fd

\* Nobody else is writing, and what is renamed is what was written.
ByItself(h) == tmpFile = savers[h].config /\ \A g \in Editors \ {h} : ~InWriteConfig(g)

\* What a saving that lands does to how things stand: a Setup saved by itself mends
\* them, and whoever re-read before a Setup landed writes over it.
Landed(h) ==
  IF savers[h].owns = "setup" /\ ByItself(h) THEN {}
  ELSE IF savers[h].stale THEN astray \cup {"overtaken"} ELSE astray

\* ...and what has its name by now is renamed over the file: nothing, when another
\* saving did that.  Setup then reports, and stops the daemon.
Rename(h) ==
  /\ savers[h].at = "rename"
  /\ IF tmpFile = None THEN Ends(h) /\ UNCHANGED <<file, tmpFile, typed, astray>>
     ELSE
       LET setup == savers[h].owns = "setup" IN
       /\ file' = tmpFile /\ tmpFile' = None
       /\ typed' = IF setup THEN savers[h].config.library ELSE typed
       /\ astray' = Landed(h)
       /\ savers' = [g \in Editors |->
            IF g = h \/ savers[g] = AtRest THEN AtRest
            ELSE [savers[g] EXCEPT !.fd = RenamedTo(@), !.stale = @ \/ setup]]
  /\ UNCHANGED <<environment, booted, faults>>

EditByHand ==
  /\ Fault("byhand")
  /\ WholeFile(file)
  /\ \E cap \in Caps : file' = [file EXCEPT !.cap = cap]
  /\ UNCHANGED <<tmpFile, environment, booted, savers, typed, astray>>

ConfigNext ==
  \/ Boot \/ Quit \/ CrashRun \/ EditByHand \/ ApplySetup
  \/ \E h \in Editors : KeepCap(h) \/ TruncateTmp(h) \/ Fill(h) \/ Rename(h)

ConfigSpec == ConfigInit /\ [][ConfigNext]_configVars

-----------------------------------------------------------------------------
(* Properties.                                                             *)

\* "Save atomically rewrites config.toml": a saving leaves a whole file behind, in
\* whatever state the process or the disk left it.
NeverTorn == file = None \/ WholeFile(file)

\* However it came into the file, the cap a daemon starts with is one the schema takes.
CapInRange == booted # None => booted.cap \in 1..MaxCap

\* Unless two savings were inside writeConfig at once, whatever cut one short or edited
\* the file, the next start reads a whole one; and it always runs by a cap in range.
StartsWell == ("crossed" \notin astray => NeverTorn) /\ CapInRange

\* A start connects where a person last said, once that was reported saved: past full
\* disks, crashes, caps kept meanwhile and a file from before the fields, unless savings
\* crossed, or one that had re-read the file before that Setup landed after it.
TypedIsKept == astray = {} => Address(file) = typed

\* "Every writer re-reads, changes only what it owns, and writes that - which is also why
\* nothing here needs a lock": however savings meet, the address a Setup was reported
\* saved with is the file's.
SetupStands == Address(file) = typed

\* Whoever rewrites the file to keep a cap leaves it pointing where it pointed: past a
\* dsn from before the fields, a crash, a full disk, and an ORBITNAM_DSN that was to
\* count "for one run".  How savings meet is not its affair.
LibraryStands ==
  [][file' # file /\ astray' = {} /\ (\A h \in Editors : savers[h].owns # "setup") =>
       Address(file') = Address(file)]_configVars
=============================================================================
