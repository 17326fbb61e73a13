------------------------------- MODULE FmonScan -------------------------------
(***************************************************************************)
(* One machine on which fmon runs: its configuration, its database, and    *)
(* the one run that holds the write lock, against a disk other programs    *)
(* keep changing (FmonDisk).  A run works on a private copy of the         *)
(* database, the transaction tx: Commit publishes it, and a crash, a       *)
(* cancellation or a fatal error drops it (Abort).  Each system call of a  *)
(* scan is a step of its own, so the disk may change between any two; only *)
(* the stats with which a run starts are taken in one step.                *)
(***************************************************************************)
EXTENDS FmonDisk, Sequences

CONSTANTS
  FirstDisk,       \* the disk before the first run
  ConfigChoices,   \* the configurations a user may write
  Commands,        \* the commands a user or a timer may run
  ScanFull,        \* the values of --full that scans are run with
  ScanOnly,        \* the path filters scans are run with; {} means none
  Accidents        \* which of "crash", "lost database", "edit during a run" happen

Config == [sources : SUBSET Path, exclude : SUBSET Path]

ASSUME ScanConstants ==
  /\ FirstDisk \in [Path -> Entry]
  /\ \A p \in Path : FirstDisk[p].mtime = 0
  /\ ConfigChoices \subseteq Config
  /\ ConfigChoices # {}
  /\ Commands \subseteq {"scan", "add", "rm", "init", "clear"}
  /\ ScanFull \subseteq BOOLEAN
  /\ ScanOnly \subseteq SUBSET Path
  /\ Accidents \subseteq {"crash", "lost database", "edit during a run"}

VARIABLES
  cfg,    \* fmon.toml: the listed sources, and the paths its patterns match
  db,     \* fmon.db as last committed
  tx,     \* the database as the current transaction sees it; db when there is none
  pc,     \* where the current run stands
  run,    \* the current run
  walk,   \* the source being scanned (sourceScan)
  rep,    \* the report of the current run
  gone,   \* observer: paths that were no regular file at some point of this run
  calm    \* observer: nothing outside has happened since this run began

runVars == <<db, tx, pc, run, walk, rep>>
vars == <<diskVars, cfg, runVars, gone, calm>>

------------------------------------------------------------------------------
(* The database. *)

Source == [type : {"folder", "file"}, status : {"active", "missing"}]
FileState == [src : Path, hash : Content, size : Nat, mtime : Nat]
Event == [event : {"ADDED", "MODIFIED", "DELETED"},
          old : Content \cup {Nil}, new : Content \cup {Nil}]

ASSUME NilIsNoRow == Nil \notin Source /\ Nil \notin FileState

\* Tables keyed by path.  The history of a path is its records in order; the
\* order between records of different paths is left out.
Database == [sources : [Path -> Source \cup {Nil}],
             files : [Path -> FileState \cup {Nil}],
             history : [Path -> Seq(Event)],
             rebuild : BOOLEAN]

EmptyDatabase == [sources |-> [p \in Path |-> Nil],
                  files |-> [p \in Path |-> Nil],
                  history |-> [p \in Path |-> <<>>],
                  rebuild |-> FALSE]

Watched(d) == {s \in Path : d.sources[s] # Nil}

Rows(d, s) == {p \in Path : d.files[p] # Nil /\ d.files[p].src = s}

TypeFor(kind) == IF kind = "dir" THEN "folder" ELSE "file"

\* kinds maps each new source to the kind of entry found there.
InsertSources(d, kinds) ==
  [d EXCEPT !.sources = [s \in Path |-> IF s \in DOMAIN kinds
                           THEN [type |-> TypeFor(kinds[s]), status |-> "active"]
                           ELSE d.sources[s]]]

DeleteFileStates(d, paths) ==
  [d EXCEPT !.files = [p \in Path |-> IF p \in paths THEN Nil ELSE d.files[p]]]

\* Mutant: the history goes with the source.
DeleteSourcesAndHistory(d, dropped) ==
  DeleteFileStates(
    [d EXCEPT !.sources = [s \in Path |-> IF s \in dropped THEN Nil ELSE d.sources[s]],
              !.history = [p \in Path |-> IF \E s \in dropped : p \in Tree(s) THEN <<>>
                                          ELSE d.history[p]]],
    UNION {Rows(d, s) : s \in dropped})

\* The foreign key cascade takes the rows; the history has no foreign key.
DeleteSources(d, dropped) ==
  DeleteFileStates(
    [d EXCEPT !.sources = [s \in Path |-> IF s \in dropped THEN Nil ELSE d.sources[s]]],
    UNION {Rows(d, s) : s \in dropped})

SetSourceStatus(d, s, status) == [d EXCEPT !.sources[s] = [d.sources[s] EXCEPT !.status = status]]

\* events maps each path to the records this step adds for it.
InsertHistory(d, events) ==
  [d EXCEPT !.history = [p \in Path |-> IF p \in DOMAIN events
                                        THEN d.history[p] \o events[p]
                                        ELSE d.history[p]]]

ClearHistory(d, paths) ==
  [d EXCEPT !.history = [q \in Path |-> IF q \in paths THEN <<>> ELSE d.history[q]]]

------------------------------------------------------------------------------
(* The run. *)

NoRun == [cmd |-> "none", full |-> FALSE, target |-> Nil, plan |-> {}, scope |-> {},
          fresh |-> {}, cfg |-> [sources |-> {}, exclude |-> {}]]
NoWalk == [src |-> Nil, todo |-> {}, seen |-> {}, unreadable |-> {}, file |-> Nil]
NoReport == [alerts |-> {}, notices |-> {}, rebuilt |-> FALSE, errors |-> FALSE]

Run == [cmd : Commands \cup {"none"}, full : BOOLEAN, target : Path \cup {Nil},
        scope : SUBSET Path,   \* planned sources
        plan : SUBSET Path,    \* those of them not yet scanned
        fresh : SUBSET Path,   \* planned sources to baseline silently
        cfg : Config]          \* fmon.toml as loaded when the run started
Item == [path : Path, kind : {"dir", "file"}]
Stat == [path : Path, size : Nat, mtime : Nat]
Walk == [src : Path \cup {Nil},
         todo : SUBSET Item,         \* entries listed and not yet visited
         seen : SUBSET Path,
         unreadable : SUBSET Path,
         file : Stat \cup {Nil}]     \* the file being hashed, as stat saw it
Report == [alerts : SUBSET Path,     \* sources found missing
           notices : SUBSET Path,    \* sources back on disk
           rebuilt : BOOLEAN,        \* "baseline rebuilt"
           errors : BOOLEAN]         \* a non-fatal problem was met

ASSUME NilIsNoStat == Nil \notin Stat

TypeOK ==
  /\ DiskTypeOK
  /\ cfg \in Config
  /\ db \in Database
  /\ tx \in Database
  /\ pc \in {"idle", "plan", "root", "walk", "hash", "save", "commit"}
  /\ run \in Run
  /\ walk \in Walk
  /\ rep \in Report
  /\ gone \subseteq Path
  /\ calm \in BOOLEAN

\* exclude is the set of paths the configured patterns match (Excluder.Match).
Match(p) == p \in run.cfg.exclude

NotFiles == {p \in Path : At(p).kind # "file"}

Observe == gone' = NotFiles /\ calm' = TRUE

Init ==
  /\ disk = FirstDisk
  /\ offline = {}
  /\ clock = 0
  /\ cfg \in ConfigChoices
  /\ db = EmptyDatabase
  /\ tx = EmptyDatabase
  /\ pc = "idle"
  /\ run = NoRun
  /\ walk = NoWalk
  /\ rep = NoReport
  /\ gone = {}
  /\ calm = FALSE

------------------------------------------------------------------------------
(* Starting a run.  Each start loads fmon.toml and takes the write lock      *)
(* (BEGIN IMMEDIATE); a run that is refused at once changes nothing and is   *)
(* left out.                                                                 *)

\* How reconcile's stat of a configured source the database does not know may
\* end.  Only directories and regular files become sources.
Found(kinds) == {s \in DOMAIN kinds : kinds[s] \in {"dir", "file"}}

BeginScan(full, only) ==
  LET accepted == Topmost(cfg.sources)
      known == Watched(db)
  IN \E kinds \in [accepted \ known -> Kinds \cup {"error"}] :
       LET new == Found(kinds)
           planned == (accepted \cap known) \cup new
       IN /\ "scan" \in Commands
          /\ pc = "idle"
          /\ \A s \in DOMAIN kinds : kinds[s] \in Outcomes(s)
          /\ only \subseteq planned    \* filterPlanned refuses the run otherwise
          /\ pc' = "plan"
          /\ tx' = InsertSources(DeleteSources(db, known \ accepted),
                                 [s \in new |-> kinds[s]])
          /\ run' = [cmd |-> "scan", full |-> full, target |-> Nil,
                     plan |-> IF only = {} THEN planned ELSE only,
                     scope |-> IF only = {} THEN planned ELSE only,
                     fresh |-> new, cfg |-> cfg]
          /\ rep' = [NoReport EXCEPT
                       !.rebuilt = db.rebuild,
                       !.errors = \E s \in DOMAIN kinds : kinds[s] \in {"other", "error"}]
          /\ Observe
          /\ UNCHANGED <<diskVars, cfg, db, walk>>

\* fmon add: the path is what the argument resolves to.
BeginAdd(p) ==
  /\ "add" \in Commands
  /\ pc = "idle"
  /\ Tick
  /\ At(p).kind \in {"dir", "file"}
  /\ \A q \in cfg.sources \cup Watched(db) : ~Overlaps(p, q)
  /\ pc' = "plan"
  /\ tx' = InsertSources(db, [s \in {p} |-> At(p).kind])
  /\ run' = [cmd |-> "add", full |-> FALSE, target |-> p,
             plan |-> {p}, scope |-> {p}, fresh |-> {p}, cfg |-> cfg]
  /\ Observe
  /\ UNCHANGED <<disk, offline, cfg, db, walk, rep>>

BeginRemove(p) ==
  /\ "rm" \in Commands
  /\ pc = "idle"
  /\ Tick
  /\ p \in cfg.sources \cup Watched(db)
  /\ pc' = "save"
  /\ tx' = DeleteSources(db, {p})
  /\ run' = [NoRun EXCEPT !.cmd = "rm", !.target = p, !.cfg = cfg]
  /\ Observe
  /\ UNCHANGED <<disk, offline, cfg, db, walk, rep>>

\* fmon init and fmon clear --all, confirmed.
BeginInit ==
  /\ "init" \in Commands
  /\ pc = "idle"
  /\ Tick
  /\ pc' = "save"
  /\ tx' = EmptyDatabase
  /\ run' = [NoRun EXCEPT !.cmd = "init", !.cfg = cfg]
  /\ Observe
  /\ UNCHANGED <<disk, offline, cfg, db, walk, rep>>

\* fmon clear --path or --history-all.
BeginClear(paths) ==
  /\ "clear" \in Commands
  /\ pc = "idle"
  /\ Tick
  /\ pc' = "commit"
  /\ tx' = ClearHistory(db, paths)
  /\ run' = [NoRun EXCEPT !.cmd = "clear", !.cfg = cfg]
  /\ Observe
  /\ UNCHANGED <<disk, offline, cfg, db, walk, rep>>

------------------------------------------------------------------------------
(* scanSource: one planned source.                                           *)

Finished(s) == [run EXCEPT !.plan = run.plan \ {s}]

\* Mutant: the status of the source is not consulted.
SourceMissingAgain(s) ==
  /\ pc = "plan"
  /\ s \in run.plan
  /\ "none" \in Outcomes(s)
  /\ tx' = SetSourceStatus(tx, s, "missing")
  /\ rep' = [rep EXCEPT !.alerts = @ \cup {s}]
  /\ run' = Finished(s)
  /\ UNCHANGED <<diskVars, cfg, db, pc, walk, gone, calm>>

\* Mutant: the rows of a missing source are dropped.
SourceMissingForgets(s) ==
  /\ pc = "plan"
  /\ s \in run.plan
  /\ "none" \in Outcomes(s)
  /\ tx' = DeleteFileStates(SetSourceStatus(tx, s, "missing"), Rows(tx, s))
  /\ rep' = [rep EXCEPT !.alerts = @ \cup {s}]
  /\ run' = Finished(s)
  /\ UNCHANGED <<diskVars, cfg, db, pc, walk, gone, calm>>

\* handleMissing: the rows stay.  The first time, the source is marked, a
\* DELETED record without hashes is written for it and an ALERT is raised.
SourceMissing(s) ==
  /\ pc = "plan"
  /\ s \in run.plan
  /\ "none" \in Outcomes(s)
  /\ IF tx.sources[s].status = "missing"
       THEN UNCHANGED <<tx, rep>>
       ELSE /\ tx' = InsertHistory(SetSourceStatus(tx, s, "missing"),
                       [p \in {s} |-> <<[event |-> "DELETED", old |-> Nil, new |-> Nil]>>])
            /\ rep' = [rep EXCEPT !.alerts = @ \cup {s}]
  /\ run' = Finished(s)
  /\ UNCHANGED <<diskVars, cfg, db, pc, walk, gone, calm>>

SourceUnreadable(s) ==
  /\ pc = "plan"
  /\ s \in run.plan
  /\ "error" \in Outcomes(s)
  /\ rep' = [rep EXCEPT !.errors = TRUE]
  /\ run' = Finished(s)
  /\ UNCHANGED <<diskVars, cfg, db, tx, pc, walk, gone, calm>>

\* Mutant: a missing source stays missing.
NeverReturned(s) == tx

\* The source is on disk: a source marked missing is back.
Returned(s) == IF tx.sources[s].status = "missing"
                 THEN SetSourceStatus(tx, s, "active") ELSE tx

Welcomed(s) == IF tx.sources[s].status = "missing"
                 THEN [rep EXCEPT !.notices = @ \cup {s}] ELSE rep

\* Mutant: the type of the root is looked at before the source is marked active.
SourceReplacedFirst(s) ==
  /\ pc = "plan"
  /\ s \in run.plan
  /\ At(s).kind # "none"
  /\ tx.sources[s].type # TypeFor(At(s).kind) \/ At(s).kind = "other"
  /\ rep' = [rep EXCEPT !.errors = TRUE]
  /\ run' = Finished(s)
  /\ UNCHANGED <<diskVars, cfg, db, tx, pc, walk, gone, calm>>

\* The root changed type: the source is skipped and its state kept.
SourceReplaced(s) ==
  /\ pc = "plan"
  /\ s \in run.plan
  /\ At(s).kind # "none"
  /\ tx.sources[s].type # TypeFor(At(s).kind) \/ At(s).kind = "other"
  /\ tx' = Returned(s)
  /\ rep' = [Welcomed(s) EXCEPT !.errors = TRUE]
  /\ run' = Finished(s)
  /\ UNCHANGED <<diskVars, cfg, db, pc, walk, gone, calm>>

\* A folder: filepath.WalkDir is about to stat its root again.
OpenFolder(s) ==
  /\ pc = "plan"
  /\ s \in run.plan
  /\ At(s).kind = "dir"
  /\ tx.sources[s].type = "folder"
  /\ tx' = Returned(s)
  /\ rep' = Welcomed(s)
  /\ run' = Finished(s)
  /\ walk' = [NoWalk EXCEPT !.src = s]
  /\ pc' = "root"
  /\ UNCHANGED <<diskVars, cfg, db, gone, calm>>

------------------------------------------------------------------------------
(* checkFile, pass 1: compare size and mtime with the stored values.         *)

StatOf(p) == [path |-> p, size |-> SizeOf[disk[p].content], mtime |-> disk[p].mtime]

\* states[p] as LoadFileStates returned it.  Only rows of files already seen
\* have changed since, and every file is checked once.
Known(d, s, p) == p \in Rows(d, s)

\* Mutants: the mtime is not compared; --full is ignored.
SkipSameSize(d, s, st, full) ==
  /\ ~full
  /\ Known(d, s, st.path)
  /\ d.files[st.path].size = st.size

SkipAlways(d, s, st, full) ==
  /\ Known(d, s, st.path)
  /\ d.files[st.path].size = st.size
  /\ d.files[st.path].mtime = st.mtime

SkipUnchanged(d, s, st, full) ==
  /\ ~full
  /\ Known(d, s, st.path)
  /\ d.files[st.path].size = st.size
  /\ d.files[st.path].mtime = st.mtime

\* A watched file is checked at once, whatever the exclude patterns say.
OpenFile(s) ==
  LET d == Returned(s)
  IN /\ pc = "plan"
     /\ s \in run.plan
     /\ At(s).kind = "file"
     /\ tx.sources[s].type = "file"
     /\ tx' = d
     /\ rep' = Welcomed(s)
     /\ run' = Finished(s)
     /\ IF SkipUnchanged(d, s, StatOf(s), run.full)
          THEN UNCHANGED <<pc, walk>>
          ELSE /\ walk' = [NoWalk EXCEPT !.src = s, !.seen = {s}, !.file = StatOf(s)]
               /\ pc' = "hash"
     /\ UNCHANGED <<diskVars, cfg, db, gone, calm>>

------------------------------------------------------------------------------
(* filepath.WalkDir.  Entries may be visited in any order; the lexical,      *)
(* depth-first order of the code is one of them.                             *)

\* WalkDir's own stat of the root fails: the callback gets no entry, so the
\* root is not counted as unreadable.
RootLost ==
  /\ pc = "root"
  /\ Outcomes(walk.src) \cap {"none", "error"} # {}
  /\ rep' = [rep EXCEPT !.errors = TRUE]
  /\ pc' = "walk"
  /\ UNCHANGED <<diskVars, cfg, db, tx, run, walk, gone, calm>>

\* The root is never excluded as a directory; found as a file by now, it is
\* visited like any other entry, and anything else is ignored.
RootFound ==
  LET s == walk.src
      k == At(s).kind
  IN /\ pc = "root"
     /\ k # "none"
     /\ walk' = [walk EXCEPT !.todo =
                   IF k = "dir" \/ (k = "file" /\ ~Match(s))
                     THEN {[path |-> s, kind |-> k]} ELSE {}]
     /\ pc' = "walk"
     /\ UNCHANGED <<diskVars, cfg, db, tx, run, rep, gone, calm>>

\* The entries of a listing the callback does something about: excluded ones,
\* links and special files are dropped by their name and type alone.
Listed(entries) ==
  {[path |-> c, kind |-> At(c).kind] :
     c \in {e \in entries : At(e).kind \in {"dir", "file"} /\ ~Match(e)}}

\* os.ReadDir follows a link that has come in the place of the directory: the link
\* leads to a directory that is empty, for what is behind a link is not modelled.
ListDirectory(i) ==
  /\ pc = "walk"
  /\ i \in walk.todo
  /\ i.kind = "dir"
  /\ At(i.path).kind \in {"dir", "other"}
  /\ walk' = [walk EXCEPT !.todo = (walk.todo \ {i}) \cup Listed(Children(i.path))]
  /\ UNCHANGED <<diskVars, cfg, db, tx, pc, run, rep, gone, calm>>

\* os.ReadDir fails, perhaps after some entries: those are still visited.
ListingFails(i) ==
  /\ pc = "walk"
  /\ i \in walk.todo
  /\ i.kind = "dir"
  /\ \E entries \in SUBSET Children(i.path) :
       /\ i.path \in Flaky \/ (At(i.path).kind # "dir" /\ entries = {})
       /\ walk' = [walk EXCEPT !.todo = (walk.todo \ {i}) \cup Listed(entries),
                               !.unreadable = @ \cup {i.path}]
  /\ rep' = [rep EXCEPT !.errors = TRUE]
  /\ UNCHANGED <<diskVars, cfg, db, tx, pc, run, gone, calm>>

\* d.Info(): gone, or no regular file any more.
EntryVanished(i) ==
  /\ pc = "walk"
  /\ i \in walk.todo
  /\ i.kind = "file"
  /\ At(i.path).kind # "file"
  /\ walk' = [walk EXCEPT !.todo = @ \ {i}]
  /\ UNCHANGED <<diskVars, cfg, db, tx, pc, run, rep, gone, calm>>

\* d.Info() fails otherwise: the stored state is kept.
EntryUnreadable(i) ==
  /\ pc = "walk"
  /\ i \in walk.todo
  /\ i.kind = "file"
  /\ i.path \in Flaky
  /\ walk' = [walk EXCEPT !.todo = @ \ {i}, !.seen = @ \cup {i.path}]
  /\ rep' = [rep EXCEPT !.errors = TRUE]
  /\ UNCHANGED <<diskVars, cfg, db, tx, pc, run, gone, calm>>

\* Mutant: a file skipped by pass 1 is not marked as seen.
CheckFileUnseen(i) ==
  /\ pc = "walk"
  /\ i \in walk.todo
  /\ i.kind = "file"
  /\ At(i.path).kind = "file"
  /\ LET skip == SkipUnchanged(tx, walk.src, StatOf(i.path), run.full)
     IN /\ walk' = [walk EXCEPT !.todo = @ \ {i},
                                !.seen = IF skip THEN @ ELSE @ \cup {i.path},
                                !.file = IF skip THEN Nil ELSE StatOf(i.path)]
        /\ pc' = IF skip THEN "walk" ELSE "hash"
  /\ UNCHANGED <<diskVars, cfg, db, tx, run, rep, gone, calm>>

CheckFile(i) ==
  /\ pc = "walk"
  /\ i \in walk.todo
  /\ i.kind = "file"
  /\ At(i.path).kind = "file"
  /\ LET skip == SkipUnchanged(tx, walk.src, StatOf(i.path), run.full)
     IN /\ walk' = [walk EXCEPT !.todo = @ \ {i},
                                !.seen = @ \cup {i.path},
                                !.file = IF skip THEN Nil ELSE StatOf(i.path)]
        /\ pc' = IF skip THEN "walk" ELSE "hash"
  /\ UNCHANGED <<diskVars, cfg, db, tx, run, rep, gone, calm>>

------------------------------------------------------------------------------
(* checkFile, pass 2: hash the file whose metadata changed.                  *)

\* Mutant: a source found in fmon.toml is diffed like any other.
BaselineOnRequest(s) == tx.rebuild

\* No events: the source is new to this run, or the baseline is being rebuilt.
Baseline(s) == s \in run.fresh \/ tx.rebuild

Added(c) == [event |-> "ADDED", old |-> Nil, new |-> c]
Modified(b, c) == [event |-> "MODIFIED", old |-> b, new |-> c]
Deleted(b) == [event |-> "DELETED", old |-> b, new |-> Nil]

\* Mutant: changed metadata alone counts as a modification.
CheckEventsEager(p, sum) ==
  IF ~Known(tx, walk.src, p)
    THEN IF Baseline(walk.src) THEN <<>> ELSE <<Added(sum)>>
    ELSE <<Modified(tx.files[p].hash, sum)>>

\* The record for a file that hashes to sum.
CheckEvents(p, sum) ==
  IF ~Known(tx, walk.src, p)
    THEN IF Baseline(walk.src) THEN <<>> ELSE <<Added(sum)>>
    ELSE IF tx.files[p].hash # sum THEN <<Modified(tx.files[p].hash, sum)>> ELSE <<>>

\* Mutant: the metadata is taken after the hashing.
UpsertWithLateStat(d, s, st, sum) ==
  [d EXCEPT !.files[st.path] =
     [src |-> s, hash |-> sum, size |-> st.size, mtime |-> disk[st.path].mtime]]

\* UpsertFileState stores the size and mtime that stat saw before the hashing.
UpsertFileState(d, s, st, sum) ==
  [d EXCEPT !.files[st.path] =
     [src |-> s, hash |-> sum, size |-> st.size, mtime |-> st.mtime]]

\* What hashing can return: the content, if the file is still the one that was
\* stat'ed (its tree may be going away while it is read); a torn or a newer
\* content, if it was written, replaced or removed since.
Sums(st) ==
  IF disk[st.path].kind = "file" /\ disk[st.path].mtime = st.mtime
    THEN {disk[st.path].content} ELSE Content

\* Where checkFile returns to: the caller's loop, or the walk of the folder.
AfterFile == IF tx.sources[walk.src].type = "file"
               THEN /\ pc' = "plan"
                    /\ walk' = NoWalk
               ELSE /\ pc' = "walk"
                    /\ walk' = [walk EXCEPT !.file = Nil]

HashFile ==
  /\ pc = "hash"
  /\ \E sum \in Sums(walk.file) :
       LET p == walk.file.path
       IN tx' = UpsertFileState(InsertHistory(tx, [q \in {p} |-> CheckEvents(p, sum)]),
                                walk.src, walk.file, sum)
  /\ AfterFile
  /\ UNCHANGED <<diskVars, cfg, db, run, rep, gone, calm>>

\* Mutant: a file that cannot be hashed gets a row without a hash.
HashFailsStored ==
  /\ pc = "hash"
  /\ walk.file.path \in Flaky \/ At(walk.file.path).kind # "file"
  /\ tx' = UpsertFileState(tx, walk.src, walk.file, Nil)
  /\ rep' = [rep EXCEPT !.errors = TRUE]
  /\ AfterFile
  /\ UNCHANGED <<diskVars, cfg, db, run, gone, calm>>

\* The file cannot be opened or read: its row stays as it was.
HashFails ==
  /\ pc = "hash"
  /\ walk.file.path \in Flaky \/ At(walk.file.path).kind # "file"
  /\ rep' = [rep EXCEPT !.errors = TRUE]
  /\ AfterFile
  /\ UNCHANGED <<diskVars, cfg, db, tx, run, gone, calm>>

------------------------------------------------------------------------------
(* finishFolder: rows of the source that the walk did not see.               *)

\* Mutant: unreadable directories are not considered.
LostAnywhere(d) == {p \in Rows(d, walk.src) : p \notin walk.seen}

Lost(d) == {p \in Rows(d, walk.src) :
              p \notin walk.seen /\ ~UnderAny(p, walk.unreadable)}

\* Mutant: deletions are pruned like excluded files.
ReportedNone(lost) == {}

\* A row that the exclude list covers by now is forgotten without an event.
Reported(lost) == IF Baseline(walk.src) THEN {} ELSE {p \in lost : ~Match(p)}

FinishFolder ==
  /\ pc = "walk"
  /\ walk.todo = {}
  /\ LET lost == Lost(tx)
     IN tx' = DeleteFileStates(
                InsertHistory(tx, [p \in Reported(lost) |-> <<Deleted(tx.files[p].hash)>>]),
                lost)
  /\ walk' = NoWalk
  /\ pc' = "plan"
  /\ UNCHANGED <<diskVars, cfg, db, run, rep, gone, calm>>

------------------------------------------------------------------------------
(* Ending a run.                                                             *)

\* A finished scan clears the request to rebuild the baseline.
EndScan ==
  /\ pc = "plan"
  /\ run.cmd = "scan"
  /\ run.plan = {}
  /\ tx' = [tx EXCEPT !.rebuild = FALSE]
  /\ pc' = "commit"
  /\ UNCHANGED <<diskVars, cfg, db, run, walk, rep, gone, calm>>

EndAdd ==
  /\ pc = "plan"
  /\ run.cmd = "add"
  /\ run.plan = {}
  /\ pc' = "save"
  /\ UNCHANGED <<diskVars, cfg, db, tx, run, walk, rep, gone, calm>>

SavedSources ==
  CASE run.cmd = "add" -> run.cfg.sources \cup {run.target}
    [] run.cmd = "rm" -> run.cfg.sources \ {run.target}
    [] OTHER -> {}

\* The configuration loaded when the run started replaces the file.
SaveConfig ==
  /\ pc = "save"
  /\ cfg' = [run.cfg EXCEPT !.sources = SavedSources]
  /\ pc' = "commit"
  /\ UNCHANGED <<diskVars, db, tx, run, walk, rep, gone, calm>>

Reset ==
  /\ pc' = "idle"
  /\ run' = NoRun
  /\ walk' = NoWalk
  /\ rep' = NoReport
  /\ gone' = {}
  /\ calm' = FALSE

Commit ==
  /\ pc = "commit"
  /\ db' = tx
  /\ tx' = tx
  /\ Reset
  /\ UNCHANGED <<diskVars, cfg>>

\* Mutant: what was written so far stays.
AbortKeepsWrites ==
  /\ "crash" \in Accidents
  /\ pc # "idle"
  /\ Tick
  /\ db' = tx
  /\ tx' = tx
  /\ Reset
  /\ UNCHANGED <<disk, offline, cfg>>

\* A crash, a signal or a failing statement: the transaction is rolled back
\* and nothing is reported; a configuration already saved stays.
Abort ==
  /\ "crash" \in Accidents
  /\ pc # "idle"
  /\ Tick
  /\ tx' = db
  /\ db' = db
  /\ Reset
  /\ UNCHANGED <<disk, offline, cfg>>

------------------------------------------------------------------------------
(* The world around the runs.                                                *)

\* fmon.db disappears; the next command recreates it and, as fmon.toml lists
\* sources, asks for a new baseline.
LoseDatabase ==
  /\ "lost database" \in Accidents
  /\ pc = "idle"
  /\ Tick
  /\ db' = [EmptyDatabase EXCEPT !.rebuild = cfg.sources # {}]
  /\ tx' = db'
  /\ UNCHANGED <<disk, offline, cfg, pc, run, walk, rep, gone, calm>>

\* The user writes fmon.toml.
EditConfig(c) ==
  /\ pc = "idle" \/ "edit during a run" \in Accidents
  /\ Tick
  /\ c # cfg
  /\ cfg' = c
  /\ UNCHANGED <<disk, offline, runVars, gone, calm>>

\* Other programs change the disk at any time.
DiskStep ==
  /\ DiskNext
  /\ gone' = IF pc = "idle" THEN {} ELSE gone \cup NotFiles'
  /\ calm' = FALSE
  /\ UNCHANGED <<cfg, runVars>>

Begin ==
  \/ \E full \in ScanFull, only \in ScanOnly : BeginScan(full, only)
  \/ \E p \in Path : BeginAdd(p) \/ BeginRemove(p) \/ BeginClear(Tree(p))
  \/ BeginClear(Path)
  \/ BeginInit

SourceStep(s) ==
  \/ SourceMissing(s)
  \/ SourceUnreadable(s)
  \/ SourceReplaced(s)
  \/ OpenFolder(s)
  \/ OpenFile(s)

EntryStep(i) ==
  \/ ListDirectory(i)
  \/ ListingFails(i)
  \/ EntryVanished(i)
  \/ EntryUnreadable(i)
  \/ CheckFile(i)

RunStep ==
  \/ \E s \in run.plan : SourceStep(s)
  \/ RootLost
  \/ RootFound
  \/ \E i \in walk.todo : EntryStep(i)
  \/ HashFile
  \/ HashFails
  \/ FinishFolder
  \/ EndScan
  \/ EndAdd
  \/ SaveConfig
  \/ Commit

Next ==
  \/ Begin
  \/ RunStep
  \/ Abort
  \/ LoseDatabase
  \/ \E c \in ConfigChoices : EditConfig(c)
  \/ DiskStep

Spec == Init /\ [][Next]_vars

\* A run that has begun goes on (one process, no waiting but on the disk), and
\* a timer keeps starting scans.
Fairness ==
  /\ WF_vars(RunStep)
  /\ WF_vars(\E full \in ScanFull, only \in ScanOnly : BeginScan(full, only))

FairSpec == Spec /\ Fairness
==============================================================================
