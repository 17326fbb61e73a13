----------------------------- MODULE FmonProcesses -----------------------------
(***************************************************************************)
(* Several fmon processes on one machine, each from its first look at the  *)
(* disk to its exit: which files exist, fmon.toml, the schema, the         *)
(* tripwire for a lost database, the write lock, the save and the commit.  *)
(* What a command does between the lock and the save is one step here; it  *)
(* is taken apart in FmonScan, which in turn has one process only.         *)
(***************************************************************************)
EXTENDS FmonPaths, Naturals

CONSTANTS
  Process,
  Timers,          \* the processes that run scans over and over
  Nobody,
  NoFile,
  ConfigChoices,   \* the lists of sources a user may write
  Commands,        \* what the other processes run
  Accidents,       \* what may go wrong
  MaxEvents        \* bound on the commands of users and on what goes wrong

ASSUME ProcessConstants ==
  /\ Timers \subseteq Process
  /\ Nobody \notin Process
  /\ ConfigChoices \subseteq SUBSET Path
  /\ Commands \subseteq {"scan", "add", "rm", "init", "list"}
  /\ Accidents \subseteq {"crash", "failed step", "lost database", "lost config",
                          "edit during a run", "loss during a run"}
  /\ MaxEvents \in Nat

VARIABLES
  toml,     \* fmon.toml: the listed sources, or NoFile
  base,     \* fmon.db as committed, or NoFile
  lock,     \* the process that holds SQLite's write lock
  pc,
  me,       \* what each process remembers
  events,   \* counts users' commands and accidents
  last,     \* observer: the command that was committed last
  told      \* observer: has every loss of the database been reported?

files == <<toml, base>>
procs == <<lock, pc, me>>
observers == <<last, told>>
vars == <<files, procs, events, observers>>

Database == [schema : BOOLEAN,        \* have the migrations run?
             watched : SUBSET Path,
             request : BOOLEAN]       \* MetaNeedsBaseline

ASSUME NoFileIsNoContent ==
  /\ \A sources \in SUBSET Path : sources # NoFile
  /\ \A d \in Database : d # NoFile

NewFile == [schema |-> FALSE, watched |-> {}, request |-> FALSE]
EmptyDatabase == [schema |-> TRUE, watched |-> {}, request |-> FALSE]

Memory == [cmd : {"none", "scan", "add", "rm", "init", "list"},
           target : SUBSET Path,    \* the path of add and rm
           hadConfig : BOOLEAN,
           hadDatabase : BOOLEAN,
           conf : SUBSET Path,      \* the sources of the loaded configuration
           blind : BOOLEAN,         \* observer: there was no fmon.toml to load
           outdated : BOOLEAN,      \* the version re-read under the lock
           tx : Database,           \* what is about to be committed
           rebuilt : BOOLEAN]       \* the report says "database was missing"

Forgotten == [cmd |-> "none", target |-> {}, hadConfig |-> FALSE, hadDatabase |-> FALSE,
              conf |-> {}, blind |-> FALSE, outdated |-> FALSE, tx |-> EmptyDatabase,
              rebuilt |-> FALSE]

\* From here to its exit a process is in Open or has the database open.
Opened == {"version", "migrate", "recheck", "create", "tripwire", "dispatch", "begin",
           "work", "save", "commit", "notify"}
Places == {"idle", "stat config", "stat database", "load", "open"} \cup Opened
Holding == {"recheck", "create", "work", "save", "commit"}

Completed == {[cmd |-> c, what |-> s] : c \in {"none", "scan", "add", "rm", "init"},
                                        s \in SUBSET Path}
NoCommand == [cmd |-> "none", what |-> {}]

TypeOK ==
  /\ toml = NoFile \/ toml \in SUBSET Path
  /\ base = NoFile \/ base \in Database
  /\ lock \in Process \cup {Nobody}
  /\ pc \in [Process -> Places]
  /\ me \in [Process -> Memory]
  /\ events \in Nat
  /\ last \in Completed
  /\ told \in BOOLEAN

Watching == IF base = NoFile THEN {} ELSE base.watched
Requested == base # NoFile /\ base.request

\* A fresh machine, or one on which fmon has been set up.
Init ==
  /\ \/ toml = NoFile /\ base = NoFile
     \/ \E c \in ConfigChoices :
          /\ toml = c
          /\ base = [EmptyDatabase EXCEPT !.watched = Topmost(c)]
  /\ lock = Nobody
  /\ pc = [p \in Process |-> "idle"]
  /\ me = [p \in Process |-> Forgotten]
  /\ events = 0
  /\ last = NoCommand
  /\ told = TRUE

Event == events < MaxEvents /\ events' = events + 1

Goto(p, place) == pc' = [pc EXCEPT ![p] = place]

Remember(p, m) == me' = [me EXCEPT ![p] = m]

Exit(p) == Goto(p, "idle") /\ Remember(p, Forgotten)

\* Mutant: the lock of a dead process stays.
Keep(p) == UNCHANGED lock

\* The connection closes; an open transaction is rolled back.
Release(p) == lock' = IF lock = p THEN Nobody ELSE lock

------------------------------------------------------------------------------
(* Start-up.                                                                 *)

Launch(p, cmd, target) ==
  /\ pc[p] = "idle"
  /\ Goto(p, "stat config")
  /\ Remember(p, [Forgotten EXCEPT !.cmd = cmd, !.target = target])
  /\ UNCHANGED <<files, lock, observers>>

TimerFires(p) ==
  /\ p \in Timers
  /\ Launch(p, "scan", {})
  /\ UNCHANGED events

UserRuns(p, cmd, target) ==
  /\ p \notin Timers
  /\ cmd \in Commands
  /\ Event
  /\ Launch(p, cmd, target)

LookForConfig(p) ==
  /\ pc[p] = "stat config"
  /\ Goto(p, "stat database")
  /\ Remember(p, [me[p] EXCEPT !.hadConfig = toml # NoFile])
  /\ UNCHANGED <<files, lock, events, observers>>

\* Mutant: a database without a configuration does not matter.
RefusedOnlyFresh(cmd, hadConfig, hadDatabase) ==
  ~hadConfig /\ ~hadDatabase /\ cmd \notin {"init", "add"}

\* Nothing is created where fmon was never set up, and a missing fmon.toml is
\* not taken for an empty one.
Refused(cmd, hadConfig, hadDatabase) ==
  /\ ~hadConfig
  /\ IF hadDatabase THEN cmd \in {"scan", "add", "rm"} ELSE cmd \notin {"init", "add"}

LookForDatabase(p) ==
  /\ pc[p] = "stat database"
  /\ IF Refused(me[p].cmd, me[p].hadConfig, base # NoFile)
       THEN Exit(p)
       ELSE /\ Goto(p, "load")
            /\ Remember(p, [me[p] EXCEPT !.hadDatabase = base # NoFile])
  /\ UNCHANGED <<files, lock, events, observers>>

\* A missing file yields the defaults, which list no source, even if it was
\* there a moment ago.
LoadConfig(p) ==
  /\ pc[p] = "load"
  /\ Goto(p, "open")
  /\ Remember(p, [me[p] EXCEPT !.conf = IF toml = NoFile THEN {} ELSE toml,
                               !.blind = toml = NoFile])
  /\ UNCHANGED <<files, lock, events, observers>>

OpenDatabase(p) ==
  /\ pc[p] = "open"
  /\ Goto(p, "version")
  /\ base' = IF base = NoFile THEN NewFile ELSE base
  /\ UNCHANGED <<toml, lock, me, events, observers>>

------------------------------------------------------------------------------
(* Migrate.                                                                  *)

CheckVersion(p) ==
  /\ pc[p] = "version"
  /\ Goto(p, IF base.schema THEN "tripwire" ELSE "migrate")
  /\ UNCHANGED <<files, lock, me, events, observers>>

BeginMigration(p) ==
  /\ pc[p] = "migrate"
  /\ lock = Nobody
  /\ lock' = p
  /\ Goto(p, "recheck")
  /\ UNCHANGED <<files, me, events, observers>>

\* Mutant: the version read before the lock is trusted.
RecheckTrusting(p) ==
  /\ pc[p] = "recheck"
  /\ Goto(p, "create")
  /\ Remember(p, [me[p] EXCEPT !.outdated = TRUE])
  /\ UNCHANGED <<files, lock, events, observers>>

\* Another process may have migrated meanwhile.
Recheck(p) ==
  /\ pc[p] = "recheck"
  /\ Goto(p, "create")
  /\ Remember(p, [me[p] EXCEPT !.outdated = ~base.schema])
  /\ UNCHANGED <<files, lock, events, observers>>

\* CREATE TABLE and the new version are committed together.
CreateTables(p) ==
  /\ pc[p] = "create"
  /\ base' = IF me[p].outdated THEN EmptyDatabase ELSE base
  /\ lock' = Nobody
  /\ Goto(p, "tripwire")
  /\ UNCHANGED <<toml, me, events, observers>>

------------------------------------------------------------------------------
(* The tripwire and the dispatch.                                            *)

\* The database file had disappeared while the configuration lists sources.
Lost(m) == m.hadConfig /\ ~m.hadDatabase /\ m.conf # {}

NothingLost(p) ==
  /\ pc[p] = "tripwire"
  /\ ~Lost(me[p])
  /\ Goto(p, "dispatch")
  /\ UNCHANGED <<files, lock, me, events, observers>>

\* SetMeta writes outside of a transaction, which takes the lock for a moment.
AskForBaseline(p) ==
  /\ pc[p] = "tripwire"
  /\ Lost(me[p])
  /\ lock = Nobody
  /\ base' = [base EXCEPT !.request = TRUE]
  /\ Goto(p, "dispatch")
  /\ UNCHANGED <<toml, lock, me, events, observers>>

\* list prints and exits.
Dispatch(p) ==
  /\ pc[p] = "dispatch"
  /\ IF me[p].cmd = "list" THEN Exit(p) ELSE Goto(p, "begin") /\ UNCHANGED me
  /\ UNCHANGED <<files, lock, events, observers>>

\* init asks first when there is a source or a history to lose; there is no
\* history in this module, so it may always ask.
DeclineInit(p) ==
  /\ pc[p] = "dispatch"
  /\ me[p].cmd = "init"
  /\ Exit(p)
  /\ UNCHANGED <<files, lock, events, observers>>

------------------------------------------------------------------------------
(* The command itself.                                                       *)

\* Mutant: BEGIN instead of BEGIN IMMEDIATE.
BeginDeferred(p) ==
  /\ pc[p] = "begin"
  /\ lock' = p
  /\ Goto(p, "work")
  /\ UNCHANGED <<files, me, events, observers>>

BeginImmediate(p) ==
  /\ pc[p] = "begin"
  /\ lock = Nobody
  /\ lock' = p
  /\ Goto(p, "work")
  /\ UNCHANGED <<files, me, events, observers>>

\* SQLITE_BUSY: the lock was held for longer than the busy timeout.
BusyTimeout(p) ==
  /\ pc[p] \in {"migrate", "begin"} \/ (pc[p] = "tripwire" /\ Lost(me[p]))
  /\ lock # Nobody
  /\ Exit(p)
  /\ UNCHANGED <<files, lock, events, observers>>

\* Mutant: a scan drops the meta table with the request.
ScannedWithoutMeta(conf, d) == [schema |-> TRUE, watched |-> Topmost(conf)]

\* What the commands make of the database d.
Scanned(conf, d) ==
  [schema |-> d.schema, watched |-> Topmost(conf), request |-> FALSE]

WithSources(target, d) == [d EXCEPT !.watched = @ \cup target]

WithoutSources(target, d) == [d EXCEPT !.watched = @ \ target]

WorkScan(p) ==
  /\ pc[p] = "work"
  /\ me[p].cmd = "scan"
  /\ Remember(p, [me[p] EXCEPT !.tx = Scanned(me[p].conf, base), !.rebuilt = base.request])
  /\ Goto(p, "commit")
  /\ UNCHANGED <<files, lock, events, observers>>

WorkAdd(p) ==
  /\ pc[p] = "work"
  /\ me[p].cmd = "add"
  /\ \A s \in me[p].target, t \in me[p].conf \cup base.watched : ~Overlaps(s, t)
  /\ Remember(p, [me[p] EXCEPT !.tx = WithSources(me[p].target, base),
                               !.conf = @ \cup me[p].target])
  /\ Goto(p, "save")
  /\ UNCHANGED <<files, lock, events, observers>>

WorkRemove(p) ==
  /\ pc[p] = "work"
  /\ me[p].cmd = "rm"
  /\ me[p].target \subseteq me[p].conf \cup base.watched
  /\ Remember(p, [me[p] EXCEPT !.tx = WithoutSources(me[p].target, base),
                               !.conf = @ \ me[p].target])
  /\ Goto(p, "save")
  /\ UNCHANGED <<files, lock, events, observers>>

WorkInit(p) ==
  /\ pc[p] = "work"
  /\ me[p].cmd = "init"
  /\ Remember(p, [me[p] EXCEPT !.tx = EmptyDatabase, !.conf = {}])
  /\ Goto(p, "save")
  /\ UNCHANGED <<files, lock, events, observers>>

\* add of a path that overlaps a source, rm of one that is no source.
WorkRefused(p) ==
  /\ pc[p] = "work"
  /\ \/ me[p].cmd = "add" /\ \E s \in me[p].target, t \in me[p].conf \cup base.watched :
                               Overlaps(s, t)
     \/ me[p].cmd = "rm" /\ ~(me[p].target \subseteq me[p].conf \cup base.watched)
  /\ Exit(p)
  /\ Release(p)
  /\ UNCHANGED <<files, events, observers>>

\* writeFileAtomic: the temporary file replaces fmon.toml in one step.
SaveConfig(p) ==
  /\ pc[p] = "save"
  /\ toml' = me[p].conf
  /\ Goto(p, "commit")
  /\ UNCHANGED <<base, lock, me, events, observers>>

Commit(p) ==
  /\ pc[p] = "commit"
  /\ base' = me[p].tx
  /\ lock' = Nobody
  /\ last' = [cmd |-> me[p].cmd,
              what |-> IF me[p].cmd = "scan" THEN me[p].conf ELSE me[p].target]
  /\ told' = (told \/ me[p].rebuilt \/ me[p].cmd = "init")
  /\ IF me[p].cmd = "scan" THEN Goto(p, "notify") /\ UNCHANGED me ELSE Exit(p)
  /\ UNCHANGED <<toml, events>>

\* PrintScan and Notify, see FmonNotify.
Notify(p) ==
  /\ pc[p] = "notify"
  /\ Exit(p)
  /\ UNCHANGED <<files, lock, events, observers>>

\* The argument of add does not exist, or fmon.toml cannot be written.
StepFails(p) ==
  /\ "failed step" \in Accidents
  /\ pc[p] = "save" \/ (pc[p] = "begin" /\ me[p].cmd = "add")
  /\ Event
  /\ Exit(p)
  /\ Release(p)
  /\ UNCHANGED <<files, observers>>

\* A crash, a kill, or any other fatal error.
Crash(p) ==
  /\ "crash" \in Accidents
  /\ pc[p] # "idle"
  /\ Event
  /\ Exit(p)
  /\ Release(p)
  /\ UNCHANGED <<files, observers>>

------------------------------------------------------------------------------
(* The user's hands on the two files.                                        *)

EditConfig(c) ==
  /\ "edit during a run" \in Accidents \/ \A p \in Process : pc[p] = "idle"
  /\ Event
  /\ toml' = c
  /\ UNCHANGED <<base, procs, observers>>

LoseConfig ==
  /\ "lost config" \in Accidents
  /\ "loss during a run" \in Accidents \/ \A p \in Process : pc[p] = "idle"
  /\ Event
  /\ toml' = NoFile
  /\ UNCHANGED <<base, procs, observers>>

\* Not while a process has it open: that one would keep writing to the old file.
LoseDatabase ==
  /\ "lost database" \in Accidents
  /\ \A p \in Process : pc[p] \notin Opened
  /\ "loss during a run" \in Accidents \/ \A p \in Process : pc[p] = "idle"
  /\ base # NoFile
  /\ Event
  /\ base' = NoFile
  /\ told' = (told /\ (toml = NoFile \/ toml = {}))
  /\ UNCHANGED <<toml, procs, last>>

------------------------------------------------------------------------------

StartUp(p) ==
  \/ LookForConfig(p)
  \/ LookForDatabase(p)
  \/ LoadConfig(p)
  \/ OpenDatabase(p)
  \/ CheckVersion(p)
  \/ BeginMigration(p)
  \/ Recheck(p)
  \/ CreateTables(p)
  \/ NothingLost(p)
  \/ AskForBaseline(p)
  \/ Dispatch(p)

Perform(p) ==
  \/ BeginImmediate(p)
  \/ WorkScan(p)
  \/ WorkAdd(p)
  \/ WorkRemove(p)
  \/ WorkInit(p)
  \/ WorkRefused(p)
  \/ SaveConfig(p)
  \/ Commit(p)
  \/ Notify(p)

Advance(p) == StartUp(p) \/ Perform(p)

Setback(p) == DeclineInit(p) \/ BusyTimeout(p) \/ StepFails(p) \/ Crash(p)

Begin(p) ==
  \/ TimerFires(p)
  \/ \E cmd \in {"scan", "init", "list"} : UserRuns(p, cmd, {})
  \/ \E cmd \in {"add", "rm"}, s \in Path : UserRuns(p, cmd, {s})

Outside ==
  \/ \E c \in ConfigChoices : EditConfig(c)
  \/ LoseConfig
  \/ LoseDatabase

Next ==
  \/ \E p \in Process : Begin(p) \/ Advance(p) \/ Setback(p)
  \/ Outside

Spec == Init /\ [][Next]_vars

\* Every process goes on when it can, and the timers keep firing.
Fairness ==
  /\ \A p \in Process : WF_vars(Advance(p))
  /\ \A p \in Timers : WF_vars(TimerFires(p))

FairSpec == Spec /\ Fairness

------------------------------------------------------------------------------
(* Properties.                                                               *)

\* Tables are created once, before anybody uses them: no process runs CREATE
\* TABLE on a schema that another has just made, and none reaches its command
\* without one.
SchemaOnce ==
  \A p \in Process :
    /\ pc[p] = "create" => (me[p].outdated <=> ~base.schema)
    /\ pc[p] \in {"tripwire", "dispatch", "begin", "work", "save", "commit"}
         => base # NoFile /\ base.schema

Serial == INSTANCE FmonSerial WITH watched <- Watching, request <- Requested

\* BEGIN IMMEDIATE: on the database the commands of all processes act one at a
\* time and as a whole.  None undoes another's commit, and a request for a new
\* baseline stands until a scan has served it.
ActsSerially == Serial!SerialSpec

\* main.go: whoever finds no fmon.toml does not forget the stored sources.  A run
\* that began without it drops none, short of init, whatever files appear, or
\* other runs save, until it commits.
MissingConfigIsRefused ==
  [][\A p \in Process :
       (/\ pc[p] = "commit" /\ pc'[p] # "commit"
        /\ ~me[p].hadConfig
        /\ me[p].cmd # "init")
       => Watching \subseteq Watching']_vars

\* The database has the sources fmon.toml lists, and no rebuild is pending.
Agrees ==
  /\ base # NoFile
  /\ base.watched = Topmost(toml)
  /\ ~base.request

\* After the last command of a user and the last accident, the scans of a timer
\* bring the database into line with fmon.toml, unless that is missing.  So no
\* run waits for ever, and none leaves a lock or a half-made schema behind.
EventuallyAgrees == <>[](toml = NoFile \/ Agrees)

\* README: two runs never interleave.  So a command that replaces fmon.toml
\* changes nothing in it but its own source, and a scan drops no source that
\* fmon.toml lists.
RunsDoNotUndoEachOther ==
  [][/\ \A p \in Process :
          (pc[p] = "save" /\ pc'[p] = "commit" /\ me[p].cmd \in {"add", "rm"} /\ toml # NoFile)
            => toml' \ me[p].target = toml \ me[p].target
     /\ (last' # last /\ last'.cmd = "scan" /\ toml # NoFile)
          => \A s \in Watching \ Watching' : s \notin Topmost(toml)]_vars

\* README: without fmon.toml scan, add and rm refuse to run, for it is the source
\* of truth.  So no command takes a missing file for an empty list and drops a
\* source it was not asked to drop.
MissingConfigDropsNothing ==
  [][\A p \in Process :
       (/\ pc[p] = "commit" /\ pc'[p] # "commit"
        /\ me[p].blind
        /\ me[p].cmd # "init")
       => Watching \subseteq Watching' \cup me[p].target]_vars

\* README: the loss of fmon.db while fmon.toml lists sources is reported.  So the
\* first scan that completes after it says so.
LossIsReported ==
  [][\A p \in Process :
       (pc[p] = "commit" /\ pc'[p] = "notify" /\ ~told) => me[p].rebuilt]_vars
================================================================================
