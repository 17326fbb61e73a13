# fmon in TLA+

fmon watches files and folders for changes. It is not a daemon: every command is
a short process, usually started by a timer, that compares the disk with the
SQLite database `fmon.db`, writes what changed into a history, and reports it.
This directory holds TLA+ modules that model how it does so, the TLC
configurations that check them on a small machine, and TLAPS proofs of the
properties that matter most, for every value of the constants.

    tlc -config MCScan.cfg MCFmon        # the runs are listed below
    tlapm FmonLedger_proofs.tla          # and the other modules named *_proofs, a few minutes each

Paths such as `scanner.go:356` are relative to `src/internal/monitor/` unless they
name another directory.

## Inventory

| Component | Source | State | Operations |
|---|---|---|---|
| Scan engine | `scanner.go` | a transaction; the plan; `sourceScan` (states, seen, unreadable) | `Scan`, `filterPlanned`, `reconcile`, `scanSource`, the `WalkDir` callback, `checkFile`, `finishFolder`, `handleMissing`, `emit` |
| Commands | `commands.go` | none between runs | `Add`, `Remove`, `Init`, `Clear`, `History` |
| Paths, excludes | `paths.go`, `exclude.go` | none | `within`, `overlaps`, `SubtreeClause`, `ResolvePath`, `Excluder.Match` |
| Tables | `db/queries.go`, `models/` | `sources`, `file_states` (foreign key with cascade, global `UNIQUE(file_path)`), `history` (no foreign key), `meta` (the request to rebuild the baseline) | insert, upsert, delete, set status, clear |
| Transactions | `db/db.go` | SQLite's write lock, WAL | `Open`, `Begin` (`BEGIN IMMEDIATE`, busy timeout), commit, rollback |
| Migrations | `db/migrate.go` | `user_version` | check, lock, check again, migrate |
| Configuration | `config/config.go` | `fmon.toml` | `Load`, `AddSource`, `RemoveSource`, `ClearSources`, `Save` (write a temporary file, rename) |
| Hashing | `hasher/hasher.go` | none | `HashFile` (xxHash64) |
| Command line | `cmd/fmon/main.go` | none; checks which of the two files exist | the tripwire for a lost database, dispatch, exit codes |
| Notification | `notify.go` | none | `Render`, `Notify` to log, mail, scripts; `truncateMessage` |
| Listing, output | `list.go`, `output.go` | none | read only |
| Wiring, version | `app.go`, `version/` | none | injected dependencies |

**How they interact.** `main` opens the database, loads the configuration and
calls one command. A command takes the write lock, does everything in one
transaction and commits; `add`, `rm` and `init` save `fmon.toml` between the last
statement and the commit, so that a failing save rolls the database back. A scan
first reconciles the `sources` table with `fmon.toml`, then scans each planned
source: a stat of the root, then for a folder a walk in which every file is
stat'ed, compared with its row, and hashed only if size or mtime differ (or with
`--full`); rows the walk did not see are deleted in the end. The report is built
in memory and dispatched after the commit.

**What is hard.** Inside one run nothing goes on in parallel, but everything it reads keeps
changing: each stat, listing and read is a moment of its own, and a decision may
rest on several of them. Runs are cut short by signals, crashes and failing
statements, between the two files that hold their state. Several runs may be
under way, and a run looks at `fmon.toml` and at the files before it waits for the lock.
File systems vanish and come back, and must not be mistaken for deletions. The user rewrites `fmon.toml`
at any time. Sources may be removed, re-added inside or around each other, and
the database may be lost. Mail servers and scripts refuse, fail, or never
answer. `PROJECT.json` lists these hazards line by line.

**What makes each component correct.**

- Scan engine: every change of the baseline is explained by its one record and the
  other way round; an error is never a deletion; a clean scan leaves the baseline equal to
  the disk; an outage costs nothing but one ALERT and one NOTICE; the stat
  shortcut hides no change; nothing is overlooked for ever.
- Commands: the audit trail outlives sources; the two files agree again after any
  interruption; saving changes nothing the command was not asked to change.
- Tables: a file has one owner, which is watched and contains it.
- Transactions: the database moves by whole commands.
- Configuration, migrations, start-up: the commands of several processes act on the
  database one after the other; one schema; a missing `fmon.toml` is not an empty one; a
  lost database is noticed; in the end the two files agree.
- Notification: every committed report reaches every sink, or its
  failure is known; a mail goes to all or to nobody, and not in the clear; a message respects
  its limit; nothing hangs the run.
- Paths: what bytes a name is made of never matters.

## Modules

| Module | What it is |
|---|---|
| `FmonPaths` | containment of paths: `Within`, `Overlaps`, `UnderAny`, `Tree` (`SubtreeClause`), `Topmost` (the overlap rule of `reconcile`) |
| `FmonSpelling` | the same byte by byte: what `filepath.Clean` leaves, `within`'s comparison of prefixes, the range of `SubtreeClause` |
| `FmonDisk` | the disk as `os.Lstat`, `os.ReadDir` and `os.Open` meet it, and what other programs do to it |
| `FmonScan` | one run at a time in full detail: the database, one action per step of a scan and of the other commands, crashes, edits, the loss of the database |
| `FmonScanProps` | the properties, stated over `FmonScan` |
| `FmonLedger` | what `FmonScan` promises: a ledger of watched sources, baseline hashes and a log, without transactions, walks or a disk |
| `FmonProcesses` | several runs at a time, from the first look at the files to the exit: start-up, migration, tripwire, lock, save, commit |
| `FmonSerial` | what `FmonProcesses` promises: commands that take effect one at a time |
| `FmonNotify` | the end of a run: the report on its way to the log, the mail server and the scripts |
| `MCFmon`, `MCProcesses`, `MCNotify` | the small machines for TLC |
| `FmonScan_proofs` | theorems about `FmonScan`: types, owners, stamps |
| `FmonRecords_proofs` | on top of it, what a run may do before it commits: history, outages, records |
| `FmonWalk_proofs` | on top of that, what a walk finds: deletions were real, a quiet scan mirrors the disk |
| `FmonQuiet_proofs` | on top of that, what a scan leaves behind, and where the broken promises are kept |
| `FmonLedger_proofs` | on top of `FmonRecords_proofs`, the refinement of `FmonLedger` |
| `FmonProcesses_proofs`, `FmonNotify_proofs`, `FmonSpelling_proofs` | the theorems about the others |

`FmonScan`, `FmonProcesses` and `FmonNotify` are the three zoom levels of one program.
`FmonProcesses` has as one step (`WorkScan`, `WorkAdd`, ...) what `FmonScan` takes apart between
the lock and the save; `FmonScan` may have one process because of what `FmonProcesses`
shows: while one holds the lock, no other changes the database. What can still come from another
process, a new `fmon.toml`, is `EditConfig` there. `FmonProcesses`' step
`Notify` is the whole of `FmonNotify`.

Definitions marked *Mutant* stand before the definition they are a wrong version of;
with any of them in its place some property below fails.

### State of `FmonScan`

| Variable | In the code |
|---|---|
| `disk`, `offline` | the file system; mounts that are away |
| `cfg` | `fmon.toml`: the listed sources, and the paths its exclude patterns match |
| `db` | `fmon.db` as committed |
| `tx` | the same as the open transaction sees it |
| `pc`, `run` | where the process stands; its command, its loaded configuration, its plan (`plan`: still to scan, `scope`: all of it, `fresh`: `baseline=true`) |
| `walk` | `sourceScan` and the stack of `filepath.WalkDir` |
| `rep` | `Report`: alerts, notices, "baseline rebuilt", whether an error was noted |
| `clock` | counts outside steps; the source of modification times and of every bound |
| `gone`, `calm` | observers, for the properties only: paths that were no regular file at some moment of this run; whether nothing outside happened since it began |

### Actions of `FmonScan`

| Action | Code |
|---|---|
| `BeginScan` | `Scan` up to the loop: lock, `reconcile`, `filterPlanned` |
| `BeginAdd`, `BeginRemove`, `BeginInit`, `BeginClear` | the commands up to the indexing or the save |
| `SourceMissing`, `SourceUnreadable`, `SourceReplaced`, `OpenFolder`, `OpenFile` | the outcomes of `scanSource`'s stat of the root, with `handleMissing` and the return of a missing source |
| `RootLost`, `RootFound` | `WalkDir`'s own stat of the root |
| `ListDirectory`, `ListingFails` | `os.ReadDir` inside `WalkDir`, the skip of excluded directories, the callback's error branch |
| `EntryVanished`, `EntryUnreadable`, `CheckFile` | `d.Info()` and pass 1 of `checkFile` |
| `HashFile`, `HashFails` | pass 2 of `checkFile` |
| `FinishFolder` | `finishFolder` |
| `EndScan`, `EndAdd`, `SaveConfig`, `Commit` | the end of a run |
| `Abort` | a crash, a signal, or a failing statement, at any step |
| `LoseDatabase`, `EditConfig`, `DiskStep` | the world |

### `FmonProcesses`

`toml` and `base` are the two files (`NoFile` if missing; of the database only the schema, the watched
sources and the request for a new baseline), `lock` the holder of SQLite's write lock. `pc[p]` and
`me[p]` are a process and what it remembers: the command, what the stats have found
(`hadConfig`, `hadDatabase`), the loaded configuration (`conf`), the re-read version (`outdated`), the
open transaction (`tx`) and whether the report says "database was missing" (`rebuilt`). `last`, `told` and `blind` are
observers: the last commit, whether every loss has been reported, and whether a process has found no file to load.

| Action | Code |
|---|---|
| `TimerFires`, `UserRuns` | a process starts |
| `LookForConfig`, `LookForDatabase` | the two stats and the refusals, `cmd/fmon/main.go:238-262` |
| `LoadConfig`, `OpenDatabase` | `config.Load`, `db.Open` |
| `CheckVersion`, `BeginMigration`, `Recheck`, `CreateTables` | `Migrate`, with its second look under the lock |
| `NothingLost`, `AskForBaseline` | the tripwire, `main.go:286` |
| `Dispatch`, `DeclineInit` | the choice of the command; `Init`'s question |
| `BeginImmediate`, `BusyTimeout` | `db.Begin`, the busy timeout of any statement that needs the lock |
| `WorkScan`, `WorkAdd`, `WorkRemove`, `WorkInit`, `WorkRefused` | the commands up to the save, on sources only |
| `SaveConfig`, `Commit`, `Notify` | the end of a run |
| `StepFails`, `Crash` | an error return, a kill; the connection closes and the transaction is rolled back |
| `EditConfig`, `LoseConfig`, `LoseDatabase` | the user |

### `FmonNotify`

A report is the byte positions at which its lines end and the first word of each, by which `isChangeLine`
tells the changes from the rest once the report is a text; that is all the dispatch depends on. `Setting` is what `Validate` lets through. The mail
server and the scripts are the environment: each exchange may succeed, fail, or never end.

| Action | Code |
|---|---|
| `Start`, `AppendLog` | `Notify`: an empty report goes nowhere; the log first |
| `ReadPassword`, `Connect`, `Greet`, `StartTLS`, `Authenticate`, `MailFrom`, `RcptTo`, `Data`, `Body`, `Quit` | `sendMail`, one step per exchange |
| `Deadline` | the 30 seconds of the dialer, the 60 of the connection |
| `BeginMessage`, `KeepLine`, `CutHeader`, `LinesKept`, `AddTrailer` | `truncateMessage`, one step per round of its loop |
| `StartScript`, `StartFails`, `ScriptExits`, `KillScript`, `OutputCloses`, `WaitDelay` | `runScript` and what `exec.Cmd` does with its context and `WaitDelay` |
| `NoScriptLeft` | the exit code |
| `Interrupt` | SIGINT, SIGTERM |

### What is abstracted

- Paths are opaque; only containment is asked of them. `Below` may be any tree. `FmonSpelling`
  shows that the code's paths are one, and `MCFmon` computes its tree from spelled names.
- An exclude list is the set of paths its patterns match. `FmonScan` asks it where
  the code calls `Match`: of each directory entered, each file listed and each row lost.
- xxHash64 tells contents apart: a hash *is* the content.
- A modification time is never reused, except where `SilentWrites` lets content change
  behind size and mtime (bit rot, restored times); that is why `--full` exists.
- The history is one sequence per path. The order between paths is not modelled.
- A walk may visit entries in any order; the code's lexical order is one of them.
  This covers more behaviours than the code has, so what holds here holds there.
- The stats with which a run starts (those of `reconcile`, or of `add`'s argument) and the
  loading of `fmon.toml` are one step with the taking of the lock. Every later system
  call is its own step.
- `LoseDatabase` of `FmonScan` includes the next command's `Open`, which recreates the database and
  asks for a new baseline (`cmd/fmon/main.go:242-290`).
- What is behind a symlink is not modelled. Where a link has come in the place of a directory that was listed before,
  `os.ReadDir` follows it: the directory it leads to is empty, or cannot be read.
- While a file is hashed it may change: `Sums` lets the hash be any content if the file is
  no longer the one that was stat'ed.
- In `FmonProcesses` the rows, the history, the disk and the excludes are left out, and with them the
  commands that only touch those (`history`, `clear`). A database is not lost while a process has it open;
  `fmon.toml` may be lost at any moment, between the check for it and its loading included.
- The limits of the notification are its bytes; what a line says after its first word, headers, encodings and the
  environment of scripts are left out. `Digits` assumes fewer than 10^9 changes.
- Refused runs (in `FmonScan`), prompts, output, timestamps, row ids and counters are left out.

## Properties

| Property | What it says |
|---|---|
| *FmonScan* | |
| `TypeOK` | types; in particular no row without a hash |
| `OneOwner` | watched sources never overlap; each row's source is watched and contains it |
| `StampTellsContent` | a file whose stamp equals the stored one has the stored content |
| `HistoryExplainsRows` | at most one record per path and scan, which names exactly the old and the new hash; no change without one but for the four silent cases. The record of an outage goes with no change, unless the missing root was a file of a source that the same scan dropped |
| `DeletedWasGone` | DELETED only for what was no regular file at some moment of the scan |
| `CalmScanMirrorsDisk` | an undisturbed scan without errors leaves the rows equal to the disk |
| `AlertOncePerOutage` | ALERT and NOTICE exactly at the ends of an outage |
| `CalmScanKnowsOutages` | an undisturbed scan leaves marked as missing exactly the sources that are away; a root replaced by another type is not one of them |
| `OutageKeepsBaseline` | a missing source's rows are untouched by every run that ends with it missing |
| `HistorySurvives` | scan, add and rm only append to the history |
| `QuietDiskQuietHistory` | while the disk is as it was, no command sequence produces a record |
| `EventuallySettled` | in the end the database agrees with `fmon.toml` and the disk |
| `ImplementsLedger` | the machine implements `FmonLedger` under the mapping in `FmonScanProps` |
| *FmonProcesses* | |
| `TypeOK` | types |
| `SchemaOnce` | a process creates the tables exactly if there are none, and none gets past `Open` without them |
| `ActsSerially` | the machine implements `FmonSerial`: each commit does what its command does to what the commit before it left, and a request stands until it is served |
| `MissingConfigIsRefused` | a run that found no `fmon.toml` when it started drops no stored source, unless it is `init` |
| `EventuallyAgrees` | in the end the database has the sources of `fmon.toml` and no request is pending, unless `fmon.toml` is missing |
| *FmonNotify* | |
| `TypeOK` | types |
| `NoSinkIsForgotten` | at the exit every sink has its report or is among the failures, and the exit code tells |
| `MailIsAllOrNothing` | all recipients or none |
| `NothingInTheClear` | password, addresses and report only over an encrypted connection, unless the setting is "none" |
| `MessageFits` | no script gets more bytes than its limit |
| `MessageAccountsForChanges` | a full message shows or counts in its trailer each of the changes the script is told the number of (`FMON_TOTAL`), and counts nothing else as one; a summary counts none |
| `DispatchEnds` | the run ends, whatever servers and scripts do |

## Runs

The machine of `MCFmon` has a folder `S` with a file `Sa` and a subfolder `Sd` holding a
file `Sh`, and a file `T` outside: the smallest tree with a nested directory (for unreadable
and excluded directories and for overlapping sources), a sibling the walk must
not lose, and a source of type file. Two contents of equal size leave the mtime as the only
witness of a change, which is the hard case.

| Run | What happens in it | Distinct states |
|---|---|---|
| `MCScan` | scans; files written, replaced, removed; `Sd` removed and remade; `S` unmounted; crashes. `MaxClock` 3 | 1 120 000 |
| `MCHostile` | `--full`; failing system calls; entries that become links or change type; roots replaced; silent rot; a growing and shrinking exclude list. `MaxClock` 2 | 1 510 000 |
| `MCLedger` | all commands, also against `FmonLedger`, and with fairness; hand edits between no source, `Sd`, and `S` with `Sd` inside and `T`, `Sa` excluded throughout; crashes; loss of the database; `T` and `Sd` come and go. `MaxClock` 3 | 136 000 |
| `MCProcesses` | a timer's process and a user's; every command; crashes, failing steps, the database lost while no process has it open, `fmon.toml` lost or edited at any moment. `MaxEvents` 3 | 896 000 |
| `MCNotify` | ten reports around the size of a message, every setting of the mail, two recipients, two scripts (one full, one summary); a signal | 306 000 |
| `MCPartialScan`, `MCExcludeGrows`, `MCRootRace`, `MCRebuild`, `MCTwoRuns`, `MCTripwire`, `MCLostConfig` | one finding each, below | until refuted |

`MCProcesses` has two sources that do not overlap, and two lists a user may write. `MCNotify`'s lines end just
before, at and just after byte 120 of 200, where the room for lines ends, and just at and after the limit itself; one
report has more changes than one digit counts, one a header longer than any message, and one a cut among its alerts; each
of the three kinds of change is among those that are left out.

**Bounds.** `MaxClock` bounds the steps of the outside world and of the user; the
number of scans is not bounded, nor are the steps inside one. One outside step
inside a run shows a race, two a race with the result of an earlier one (changed before the scan
and again during it), three an outage that begins, is scanned and ends, with a change in between.
Commands spend a tick each, so three are also an add, an edit or a loss, and the command that meets what they left.
In `MCProcesses` the timer's scans are free and each command of the user and each accident is an
event: three are a command that is cut short, a loss, and the command that meets what is left. Two processes are
enough for one to wait, to be overtaken, and to find what the other has left half done; the theorems are for any number.
The next-state relation is never disabled while scans may start, so deadlock is checked everywhere but in `MCNotify`,
where the run ends and that is all.

**Fairness.** In `FmonScan`, `WF(RunStep)`: a run is one process that waits for nothing but the disk, so it goes on
until it ends or is cut short. `WF(BeginScan)`: a timer (`README.md` of fmon: cron or systemd) keeps starting
scans. In `FmonProcesses`, the same for each process and each timer: `WF(Advance(p))`, `WF(TimerFires(p))`.
A process that waits for the lock is not helped by `WF(Advance(p))` if others take it again and
again; it then has no more than its busy timeout, which is not fair, and still `EventuallyAgrees` holds, since users'
commands end. In `FmonNotify`, `WF(Local)`: what the run does without waiting, and `WF(Timers)`: its deadlines. Nothing is
assumed of the mail server or the scripts, so `DispatchEnds` rests on the timers alone.
All are weak: nothing is assumed of the disk, the user or the crashes, which the bounds make
finite, as "after the last of them" in the properties requires. A regular file that turns into a
named pipe between stat and open would block a run (`hasher.go:48`), against the first
assumption; that case is listed as a hazard and not modelled.

### What the runs show to be wrong

Seven promises of the documentation or of comments do not hold; `PROJECT.json` quotes them.

1. `MCPartialScan` - `fmon scan --path T` stores a hand-added source `S` without its
   baseline, since `filterPlanned` drops it after `reconcile` inserted it
   (`scanner.go:116`). The next scan reports all of `S` as ADDED.
2. `MCExcludeGrows` - a directory that becomes excluded by its name is skipped by the walk,
   but `finishFolder` asks the patterns of the files below it, which do not match, and
   reports them DELETED (`scanner.go:485`).
3. `MCRootRace` - a root that vanishes between `scanSource`'s stat and `WalkDir`'s
   stat loses its whole baseline, file by file (`scanner.go:365`).
4. `MCRebuild` - `add` after the loss of the database stores rows; the scan that
   rebuilds the baseline reports their changes (`scanner.go:457`).
5. `MCTwoRuns` - `fmon.toml` is loaded before the lock is taken, so a scan that waits for
   `fmon add` goes on with the list of before the add and drops the new source again; two `add` lose
   one source from `fmon.toml` (`cmd/fmon/main.go:265`).
6. `MCTripwire` - the run that recreates a lost database may die, or find the database busy,
   before it stores the request for a new baseline; nobody ever reports the loss
   (`cmd/fmon/main.go:286`).
7. `MCLostConfig` - `run` refuses to work without `fmon.toml`, but `config.Load` opens the file again
   after the check, and reads a missing one as an empty list. If it goes in between, a scan drops every source
   with its baseline; an `add` then saves a list of its own source only, an `rm` an empty one
   (`cmd/fmon/main.go:265`).

`DeletedWasGone` and `OutageKeepsBaseline` hold in spite of 3: what the walk deletes really was
away at that moment, and the source is not yet marked missing. `DeletedWasGone` does so only where a root with files below it can be
read: if that second stat of the root fails for another reason (an I/O error, a permission), the callback does not count the root as unreadable
either, and the rows of files that exist go the same way. The folder with files of the passing runs is not in `Flaky`, and the theorem says `RootsReadable`.
`CalmScanMirrorsDisk` and `ImplementsLedger` hold in spite of 1: the ledger allows a new
source without rows. `ActsSerially` and `EventuallyAgrees` hold in spite of 5: on the database the commands are serial,
each with the list it has loaded, and the next scan repairs what two runs did to each other - though
not a line lost from `fmon.toml`, which is then what everything agrees with. `MissingConfigIsRefused` holds in spite of 7:
the refusal itself works, for it goes by the check.

## Proofs

The theorems hold for every value of the constants: path trees, contents, configurations,
numbers of processes and of steps, reports, limits, recipients and scripts.

| Theorem | Statement |
|---|---|
| `FmonScan_proofs!TypeCorrect` | `Spec => []TypeOK` |
| `OneOwnerAlways` | `Spec => []OneOwner` |
| `StampAlwaysTellsContent` | `~SilentWrites` implies `Spec => []StampTellsContent` |
| `FmonRecords_proofs!HistoryOnlyGrows` | `Spec => []HistorySurvives` |
| `OutagesAreAnnounced` | `Spec => []AlertOncePerOutage` |
| `OutagesKeepTheBaseline` | `Spec => OutageKeepsBaseline` |
| `RecordsExplainRows` | `Spec => []HistoryExplainsRows` |
| `FmonWalk_proofs!DeletionsWereReal` | `F`, `L` and `ExcludesAreClosed` imply `Spec /\ []RootsReadable => []DeletedWasGone` |
| `FullScansMirrorTheDisk` | `F`, `L` imply `Spec => [](run.full \/ ~SilentWrites => CalmScanMirrorsDisk)` |
| `CalmScansMirrorTheDisk` | `F`, `L`, and `~SilentWrites` or `ScanFull \subseteq {TRUE}` imply `Spec => []CalmScanMirrorsDisk` |
| `FmonQuiet_proofs!QuietDisksLeaveNoRecord` | `F`, `L`, `Unhampered` imply `Spec /\ []Still => []QuietDiskQuietHistory` |
| `UnchangedDisksLeaveNoRecord` | `F`, `L`, `Unhampered`, `Irreversible` imply `Spec => []QuietDiskQuietHistory` |
| `HandAddedSourcesAreSilent` | `F`, `L`, `Unhampered`, `Irreversible` imply `Spec => []HandAddedSourceIsSilent` |
| `CompleteScansSettle` | `F`, `L` imply `Spec => [][CompleteScan /\ Commit => Settled']_vars` |
| `ClosedExcludesAreSilent` | `ExcludesAreClosed` implies `Spec => []ExcludedFilesAreForgotten` |
| `ScansKnowOutages` | `Spec => []CalmScanKnowsOutages` |
| `OutagesDeleteNoFile` | `F`, `L`, `OneExcludeList`, `Flaky = {}`, `~SilentWrites` imply `Spec /\ []WholeOutages => []OutageDeletesNoFile` |
| `RebuildingIsSilent` | `"add" \notin Commands` implies `Spec => []BaselineReportsNothing` |
| `FmonLedger_proofs!FmonKeepsTheLedger` | `Spec => ImplementsLedger`, the refinement of `FmonLedger` |
| `FmonProcesses_proofs!ProcessTypes` | `Spec => []TypeOK` |
| `TablesAreCreatedOnce` | `Spec => []SchemaOnce` |
| `RunsWithoutConfigKeepSources` | `Spec => MissingConfigIsRefused` |
| `MissingConfigKeepsSources` | `Spec /\ []StaysWhileReading => MissingConfigDropsNothing` |
| `CommandsAreSerial` | `Spec => ActsSerially`, the refinement of `FmonSerial` |
| `SeparateRunsDoNotUndoEachOther` | no "edit during a run" implies `Spec /\ []RunsApart => RunsDoNotUndoEachOther` |
| `CarefulLossIsReported` | `Careful` implies `Spec /\ []RunsApart => LossIsReported` |
| `FmonNotify_proofs!NotifyTypes` | `Spec => []TypeOK` |
| `SinksAreServed`, `MailIsAtomic`, `MailIsSecret`, `MessagesFit`, `MessagesAccount` | `Spec => []P` for `NoSinkIsForgotten`, `MailIsAllOrNothing`, `NothingInTheClear`, `MessageFits`, `MessageAccountsForChanges` |
| `FmonSpelling_proofs!SpelledPathsFormATree` | spelled paths satisfy `PathsFormATree` |
| `RangeIsSubtree` | `SubtreeClause` selects a path and what lies within it |

`F` is `FilesAreInDirectories` (of the first disk), `L` is `ListingsReachAll`.

**Assumptions**: `PathsFormATree` (containment is a strict order, ancestors form a chain),
`DiskConstants`, `ScanConstants`, `ProcessConstants` and `NotifyConstants` (types of the constants; mtimes of the first disk are 0; limits of at
least 200, as `Validate` demands), and `NilIsNoRow`, `NilIsNoStat`, `NoFileIsNoContent` (the placeholders are none of
the values). TLC evaluates them in the runs. `SpelledPathsFormATree` shows that the first is true
of cleaned paths compared by `within`.

### Scans

`OneOwner` speaks of `tx` only and is not inductive: `Abort` sets `tx` back to
`db`, so `db` must satisfy it too; an upsert keeps the owner only if the walk
is inside a watched source, so the position of the run (`RunInside`) is needed: the plan is watched, the
walk's source is watched, what is left to visit lies in its tree. `TypeOK` needs `RunInside` as well,
since `SetSourceStatus` updates a row that must exist. Hence

    IInv == Typed /\ Owned(db) /\ Owned(tx)      Typed == TypeOK /\ RunInside

Each statement on the database has a lemma that says which tables it changes and
how; each action has one that derives its part of `IInv'`; `StepIInv` puts them together.
The heart of it is `BeginScanEffect`: after `reconcile` the watched sources are a subset
of `Topmost` of the configuration, which is overlap-free by `TopmostApart`, and the cascade of
`DeleteSources` has removed the rows of all others. An upsert may take over a row only
from the same source, because two watched trees that share a path overlap.

`StampTellsContent` needs more: rows must not come from the future, and the file being hashed must have been stat'ed
in the past, so that a later write gets a different mtime:

    SInv == Stamped(db) /\ Stamped(tx) /\ Past

`HashFile` is the step that matters: if the file still has the mtime of its stat the hash is its
content; if not, whatever was hashed is stored under a stamp no file on disk can have again. The
hypothesis `~SilentWrites` is needed: `MCHostile` has behaviours without it in which the stored stamp
hides a change from everything but `--full`.

The results about outages and the history compare the open transaction with the committed database:

    OInv == Resting /\ Appended /\ Announced /\ Entered /\ Spared

`Appended`: every history of `tx` starts with that of `db`. `Announced`: alerts and notices are the difference between the
missing sources of the two so far, and a source still planned has the status it had. `Spared`: the rows of a watched source
that is still planned, or missing, are the committed ones. `Entered` connects them: a source that is being walked has been taken from the plan and is not
missing, so what the walk writes spoils `Spared` for no source. At the commit the plan is empty and `Spared` is
`OutageKeepsBaseline`. All of it needs `IInv`: a row a walk writes could otherwise belong to another source.

`HistoryExplainsRows` compares them path by path, and needs to know that no path gets two records in one run, although the
walk visits entries in any order:

    RInv == Sourced /\ Ahead /\ Around /\ Visits /\ Explained

`Explained` is the property itself, of every state of the run instead of the last one. A step that stores a row, deletes one or
records an outage keeps it only if the path has no record of this run yet (`Untouched`). `Ahead`: the trees of the sources
still planned are untouched. `Around`: what the walk has not seen is untouched, and so is the file being hashed. `Visits`: the
walk comes to no path twice, since the trees of the entries still to visit are apart from each other and from
what it has seen; that rests on `PathsFormATree`. `Sourced` ties the new sources to the transaction.
The proof is what brought out the case of the missing root that was a file of a dropped source: `S` is replaced by `Sa` in
`fmon.toml`, and `Sa` vanishes between the stats of `reconcile` and `scanSource`. The cascade has then taken the row of `Sa`,
and its one record is that of the outage. The property and `FmonLedger` allow for it.

`DeletedWasGone` is about the other half of a walk, what it did *not* see. Around a folder that is being walked,

    DInv == Planted /\ Excluding /\ Watchful /\ Covering /\ Missed

`Covering` accounts for every path of the folder's tree: the walk has seen it, or it was no file at some moment of this run, or it is
excluded, or below a directory that could not be read, or in the tree of an entry still to visit. What is left when nothing is to be
visited, and is none of the others, was gone, and only that is reported (`finishFolder`). `Planted` (there is nothing below what is no directory)
makes a path count as gone when something else is found in place of a directory above it; `Watchful` says that
the observer misses nothing. What an entry was when it was *listed* is part of it, since it may be something else when it is visited.
The theorem has four hypotheses. `FilesAreInDirectories` (of the first disk) and `ListingsReachAll` (each path below a
directory is an entry of it or below one) are true of any file system with finite paths; `MCFmon` assumes them of its own, so TLC evaluates
them. `ExcludesAreClosed` (who excludes a directory excludes what is below it) and `RootsReadable` (the stat of a folder's
root fails only because the root is away) are not: findings 2 and 3 are what happens without them.

`CalmScanMirrorsDisk` is about both halves of a walk, while nothing moves:

    MInv == Scoped /\ Filed /\ Walked /\ Scanned /\ Noted

`Walked` says it of the source being walked: every visible file of its tree has been seen, and then its row is what is
there, or lies in the tree of an entry still to visit, which has the kind it was listed with and nothing excluded above it. When
nothing is left to visit, the rows the walk has not seen are exactly the ones that `finishFolder` deletes. `Scanned` keeps it of the
sources that are done, `Noted` adds that a root which does not fit its source has been reported as an error, and `Filed` that a
source that is a file has one row at most. `Scoped` says that at the commit no source of the scan is left. `Planted`, of `DInv`, is
used again: where files lie only in directories, no visible file is missed by skipping what is no directory. The shortcut of `checkFile`
is right because of `StampTellsContent`; where contents may change behind their stamps, `FullScansMirrorTheDisk` says what is left, and
`MCHostile`, which has both, checks it of `--full`. An error may have been noted of another source, a root that was replaced; where no entry is
in `Flaky` the scan goes on being right about the rest, and `Steady` allows for it because the next invariant needs it.

`QuietDiskQuietHistory` speaks of the whole past. While the disk has never changed (`Still`),

    QInv == Alike /\ run.fresh \subseteq run.scope /\ (pc # "idle" => calm)
            /\ Whole(db, {}) /\ Whole(tx, run.fresh) /\ Honest(db) /\ Honest(tx) /\ Blank(db) /\ Blank(tx)

`Honest`: every row tells what is there, so the walk finds nothing to modify or delete. `Whole`: every watched source is there with
all its files as rows, unless this run is the one that brings it in, so the walk finds nothing to add but where the
baseline is silent. The second needs `Walked` and `Scanned`. `Unhampered` names what must be ruled out: files that cannot be read, silent writes, scans of
some sources only (finding 1), and exclude lists that differ (a pattern that is taken back shows old files as new). Edits of the list,
crashes and losses of the database remain. `[]Still` is a hypothesis on the behaviour; `UnchangedDisksLeaveNoRecord` replaces it by `Irreversible`, one on the
constants: there is no mount, and only paths can change that held a regular file at first, or a directory with one below. A new file has a new mtime, and with
a directory goes what is in it, so such a disk is never again the first one (`DiskStepMoves`). All these hypotheses are true of `MCLedger`, which checks the property.

`CompleteScansSettle` is what makes `EventuallySettled` true, without the fairness: one scan of all sources that noted no error and that nothing
disturbed is enough, from any state. It adds to `MInv`

    CInv == FromTheList /\ Answered

A scan watches no source that its list has not and every one it could find there, and has marked as missing exactly what is away. `Answered` asks for
no clean scan: an error noted of something else leaves it true of the sources whose roots can be stat'ed, and that is `CalmScanKnowsOutages`.

Four of the findings get a bound here, a condition under which the promise is kept (the other three do in *Processes*). `HandAddedSourcesAreSilent` (finding 1):
it is the restricted scan that breaks it, since `Unhampered` without that conjunct holds in `MCPartialScan`. `ClosedExcludesAreSilent` (finding 2): exclude lists that match what lies below the directories they
match; `Pruned` says of every path that its row went with a record only if it was not excluded. `OutagesDeleteNoFile` (finding 3):

    NInv == Alike /\ Lasting(db) /\ Lasting(tx) /\ Deletionless(db) /\ Deletionless(tx)

Roots may go away with their trees at any time but during a run (`WholeOutages`, a hypothesis on the behaviour). Every row is then of a file
that was there at first and is not excluded (`Lasting`), so it is there or away with its root, and a walk, which is entered only
if the root is there, sees it (`RowsAreSeen`, by `Walked`). The hypotheses are what else takes a row: a root that cannot be stat'ed, a list that
grows, a mount below the root of a source. `~SilentWrites` is there for `Steady` only. What remains is the race: the root vanishes between two stats of one scan. `RebuildingIsSilent` (finding 4): `add` is the only command that stores rows while a new
baseline is awaited; without it such a database is empty (`Bare`), and a scan has nothing to compare with (`Mute`).

For the refinement, each commit is shown to be one command of the ledger. Four facts about commands are added:

    LInv == Excludes /\ Adding /\ Stated /\ Ending

`Adding`: an `add` touches nothing outside the tree of its source. `Stated`: the other commands are one statement each, on the
database as it was committed. `Ending`: a scan that commits has cleared the request for a new baseline, an `add` has kept it.
`ComparedStep` is the common part of scan and `add`: `OneOwner` of `db` and `tx` gives the conjuncts about sources and
rows, `Spared` the baseline of missing ones, `Explained` the records. `KeptPlaces` shows that what is silent lies in
no kept source unless the baseline is being rebuilt or the path is excluded. Every other step leaves `db` alone.

### Processes

    IInv == TypeOK /\ Exclusive /\ Consistent /\ AllSound

`Exclusive`: a process holds the lock exactly while it is at a place in `Holding`. `Consistent`: the stored sources never
overlap, and a base without tables is empty. `AllSound` says of each process what its position promises: the
database exists once it is open and has its tables once `Migrate` has ended, the re-read version is that of
the file, the transaction at "save" and "commit" is what the command makes of the database *as it is now*, and a scan or `rm` under way found `fmon.toml` when it looked.
The transaction is the heart of both results: it is a snapshot, and it is good only because `lock` excludes every other
commit until it is published. For `CommandsAreSerial` each action is then shown to be a step of `FmonSerial` or a stutter; only
`AskForBaseline`, `CreateTables`, `OpenDatabase`, `LoseDatabase` and `Commit` touch what it maps to.
`RunsWithoutConfigKeepSources` follows from the last clause: what commits without having found `fmon.toml` is an `add` or `init`, and an
`add` only adds to what the database holds *now*, whatever others have saved and committed meanwhile.

Findings 5, 6 and 7 get their bounds here. For `MissingConfigKeepsSources` (finding 7) it is `StaysWhileReading`: `fmon.toml` does not vanish between the
look for it and its loading. Then a run that read an empty list for want of a file is one that found none (`Sighted`), and
the previous theorem is about it. The other two need `RunsApart`, that no run begins while another goes on, which nothing in
the code enforces: the lock is taken too late for it. For `SeparateRunsDoNotUndoEachOther` it is
almost all that is needed: the list a run has loaded is then still that of the file when it saves or commits (`UpToDate`), unless somebody
edits the file meanwhile. `CarefulLossIsReported` needs more:

    LInv == Awaited /\ \A p \in Process : Noticed(pc[p], me[p], base, told)

`Awaited`: as long as a loss has not been reported, the database is missing, or its request for a baseline is set, or a process that has
noticed is on its way to set it. `Noticed`: what a process remembers of the two files and of the request is true. `Careful` excludes what
takes a run off that way, and TLC refutes the theorem without any of its parts: a crash between the opening of the new
file and the tripwire; a lost `fmon.toml`, or one that lists nothing (written so, or emptied by `rm`), with which the tripwire has nothing to
protect; a loss between a run's look at the file and its opening. Without `RunsApart` a second process opens the recreated file
in between and finds nothing amiss. Commands that fail, that find the database busy or that the user declines are covered.

### Notification

    IInv == TypeOK /\ Counted /\ Secret /\ Fitting /\ Served /\ Accounted

`Counted`: past "rcpt" all recipients are accepted, and what mail there is has gone to all. `Secret`: past "starttls" and past a
TLS handshake the connection is encrypted, and nothing is sent before. `Fitting`: what is kept is at most 80 bytes
below the limit, and one more for a cut header, which leaves room for the longest trailer. `Served`: the sinks whose turn has passed
have their report or have failed. `Accounted`: a text has no more lines than its report and, once it has its trailer, leaves out no change
that it does not count. What is left out is told by its first words, one line after the other, so `Counting` is about all lines of a report:
those of the changes begin with one of the three words (`Events`), and none of the others does (`Heads`).

### Spelling

A prefix that ends in a separator and its successor in the byte order bound exactly the strings that start with it
(`RangeIsSubtree`): the first byte that differs decides, and no byte lies between `/` and `0`. Two
prefixes of one string are comparable, and a cleaned path that starts with another and a separator cannot end
in it; that makes the tree.

### Only model-checked

`EventuallySettled`, `EventuallyAgrees` and `DispatchEnds` are liveness under fairness, which rests on ENABLED and is beyond TLAPS. All
invariants and action properties that the passing runs check are theorems as well; where a theorem has hypotheses, they are true of the runs that check the property.
The seven promises that are broken have their bounds as theorems: what must not happen for them to be kept.

## Not modelled

- **Glob patterns** (`exclude.go`): `filepath.Match` is a library; an exclude list is what it matches.
- **TOML** (`config.go`): parsing and writing the text, and the defaults that feed no decision modelled here.
- **Symlinks and case**: `ResolvePath` resolves symlinks and Windows folds case; arguments are taken as resolved. What lies behind
  a link that replaces a directory during a walk is left out.
- **SQLite**: taken to be atomic, durable and to have one writer. Row ids and timestamps.
- **Listing, output, history's filters**: they read one state and format it.
- **Arguments, help, wiring, version**: no state.
- **Two processes inside a scan**: the steps of `FmonScan` and those of a second process interleave only through the
  lock and `fmon.toml`; the product is not checked as one machine, see *Modules*.
