------------------------ MODULE FmonProcesses_proofs ------------------------
(***************************************************************************)
(* Proofs about FmonProcesses, for any number of processes: types, one     *)
(* schema, sources that a run without a configuration does not drop, and   *)
(* that the commands act one at a time (FmonSerial); and what is kept      *)
(* beyond that by runs that do not overlap, and by an fmon.toml that stays *)
(* where it is while it is read.                                           *)
(***************************************************************************)
EXTENDS FmonProcesses, TLAPS

\* A process here may rely on the tables.
Ready == {"tripwire", "dispatch", "begin", "work", "save", "commit", "notify"}

\* The command line of a running process.
Requestable(m) ==
  /\ m.cmd \in {"scan", "add", "rm", "init", "list"}
  /\ IF m.cmd \in {"add", "rm"} THEN \E s \in Path : m.target = {s} ELSE m.target = {}

\* The transaction of m is the effect of its command on the database d.
Transacted(m, d) ==
  \/ m.cmd = "scan" /\ m.tx = Scanned(m.conf, d)
  \/ /\ m.cmd = "add"
     /\ m.tx = WithSources(m.target, d)
     /\ \A s \in m.target, t \in d.watched : ~Overlaps(s, t)
  \/ m.cmd = "rm" /\ m.tx = WithoutSources(m.target, d)
  \/ m.cmd = "init" /\ m.tx = EmptyDatabase

\* What a process with memory m knows where it is, and of the database d.
Sound(place, m, d) ==
  /\ place \in Opened => d # NoFile
  /\ place \in Ready => d.schema
  /\ place = "create" => (m.outdated <=> ~d.schema)
  /\ place # "idle" => Requestable(m)
  /\ place \in {"begin", "work", "save", "commit"} => m.cmd # "list"
  /\ place \in {"save", "commit"} => Transacted(m, d)
  /\ (/\ place \notin {"idle", "stat config", "stat database"}
      /\ m.cmd \in {"scan", "rm"})
     => m.hadConfig

\* The lock is held from BEGIN IMMEDIATE to the end of the transaction.
Exclusive == \A p \in Process : lock = p <=> pc[p] \in Holding

\* The database: disjoint sources, and nothing in it before the migration.
Consistent ==
  base # NoFile =>
    /\ Apart(base.watched)
    /\ ~base.schema => base = NewFile

AllSound == \A p \in Process : Sound(pc[p], me[p], base)

IInv == TypeOK /\ Exclusive /\ Consistent /\ AllSound

------------------------------------------------------------------------------
(* Types.                                                                    *)

\* What the commands make of a database, field by field.
LEMMA DatabaseValues ==
  ASSUME NEW d \in Database, NEW C \in SUBSET Path
  PROVE  /\ Scanned(C, d) =
              [schema |-> d.schema, watched |-> Topmost(C), request |-> FALSE]
         /\ WithSources(C, d) =
              [schema |-> d.schema, watched |-> d.watched \cup C, request |-> d.request]
         /\ WithoutSources(C, d) =
              [schema |-> d.schema, watched |-> d.watched \ C, request |-> d.request]
         /\ [d EXCEPT !.request = TRUE] =
              [schema |-> d.schema, watched |-> d.watched, request |-> TRUE]
         /\ d.schema \in BOOLEAN /\ d.watched \in SUBSET Path /\ d.request \in BOOLEAN
<1>1. Scanned(C, d) = [schema |-> d.schema, watched |-> Topmost(C), request |-> FALSE]
  BY DEF Scanned, Database
<1>2. WithSources(C, d) =
        [schema |-> d.schema, watched |-> d.watched \cup C, request |-> d.request]
  BY DEF WithSources, Database
<1>3. WithoutSources(C, d) =
        [schema |-> d.schema, watched |-> d.watched \ C, request |-> d.request]
  BY DEF WithoutSources, Database
<1>4. \A t : [d EXCEPT !.request = t] =
              [schema |-> d.schema, watched |-> d.watched, request |-> t]
  BY DEF Database
<1>5. d.schema \in BOOLEAN /\ d.watched \in SUBSET Path /\ d.request \in BOOLEAN
  BY DEF Database
<1> QED BY <1>1, <1>2, <1>3, <1>4, <1>5

LEMMA DatabaseTypes ==
  /\ NewFile \in Database
  /\ EmptyDatabase \in Database
  /\ \A d \in Database, C \in SUBSET Path :
       /\ Scanned(C, d) \in Database
       /\ WithSources(C, d) \in Database
       /\ WithoutSources(C, d) \in Database
       /\ [d EXCEPT !.request = TRUE] \in Database
<1>1. NewFile \in Database /\ EmptyDatabase \in Database
  BY DEF NewFile, EmptyDatabase, Database
<1>2. \A C \in SUBSET Path : Topmost(C) \in SUBSET Path
  BY DEF Topmost
<1>3. ASSUME NEW d \in Database, NEW C \in SUBSET Path
      PROVE  /\ Scanned(C, d) \in Database
             /\ WithSources(C, d) \in Database
             /\ WithoutSources(C, d) \in Database
             /\ [d EXCEPT !.request = TRUE] \in Database
  <2>1. \A r, w, q : r \in BOOLEAN /\ w \in SUBSET Path /\ q \in BOOLEAN
          => [schema |-> r, watched |-> w, request |-> q] \in Database
    BY DEF Database
  <2>2. d.schema \in BOOLEAN /\ d.watched \in SUBSET Path /\ d.request \in BOOLEAN
    BY DEF Database
  <2>3. [schema |-> d.schema, watched |-> Topmost(C), request |-> FALSE] \in Database
    BY <1>2, <2>1, <2>2
  <2>4. [schema |-> d.schema, watched |-> d.watched \cup C, request |-> d.request] \in Database
    BY <2>1, <2>2
  <2>5. [schema |-> d.schema, watched |-> d.watched \ C, request |-> d.request] \in Database
    BY <2>1, <2>2
  <2>6. \A r \in BOOLEAN : [d EXCEPT !.request = r] \in Database
    BY DEF Database
  <2>7. [d EXCEPT !.request = TRUE] \in Database
    BY <2>6
  <2>8. Scanned(C, d) \in Database
    BY <2>3, DatabaseValues
  <2>9. WithSources(C, d) \in Database /\ WithoutSources(C, d) \in Database
    BY <2>4, <2>5, DatabaseValues
  <2> QED BY <2>7, <2>8, <2>9
<1> QED BY <1>1, <1>3

LEMMA InitTyped == Init => TypeOK
<1>1. \A C \in SUBSET Path : Topmost(C) \in SUBSET Path
  BY DEF Topmost
<1>2. \A C \in SUBSET Path : [EmptyDatabase EXCEPT !.watched = Topmost(C)] \in Database
  BY <1>1 DEF EmptyDatabase, Database
<1>3. Forgotten \in Memory
  BY DatabaseTypes DEF Forgotten, Memory
<1>4. "idle" \in Places
  BY DEF Places
<1>5. NoCommand \in Completed
  BY DEF NoCommand, Completed
<1>6. ASSUME Init
      PROVE  (toml = NoFile \/ toml \in SUBSET Path) /\ (base = NoFile \/ base \in Database)
  BY <1>2, <1>6, ProcessConstants DEF Init
<1> QED BY <1>3, <1>4, <1>5, <1>6 DEF Init, TypeOK

\* What a process learns keeps its memory well-typed.
LEMMA MemoryTypes ==
  ASSUME NEW m \in Memory
  PROVE  /\ \A r \in BOOLEAN : [m EXCEPT !.hadConfig = r] \in Memory
         /\ \A r \in BOOLEAN : [m EXCEPT !.hadDatabase = r] \in Memory
         /\ \A r \in BOOLEAN : [m EXCEPT !.outdated = r] \in Memory
         /\ \A C \in SUBSET Path, r \in BOOLEAN : [m EXCEPT !.conf = C, !.blind = r] \in Memory
         /\ \A d \in Database, r \in BOOLEAN : [m EXCEPT !.tx = d, !.rebuilt = r] \in Memory
         /\ \A d \in Database, C \in SUBSET Path : [m EXCEPT !.tx = d, !.conf = C] \in Memory
<1>1. \A r \in BOOLEAN : [m EXCEPT !.hadConfig = r] \in Memory
  BY DEF Memory
<1>2. \A r \in BOOLEAN : [m EXCEPT !.hadDatabase = r] \in Memory
  BY DEF Memory
<1>3. \A r \in BOOLEAN : [m EXCEPT !.outdated = r] \in Memory
  BY DEF Memory
<1>4. \A C \in SUBSET Path, r \in BOOLEAN : [m EXCEPT !.conf = C, !.blind = r] \in Memory
  BY DEF Memory
<1>5. \A d \in Database, r \in BOOLEAN : [m EXCEPT !.tx = d, !.rebuilt = r] \in Memory
  <2> HIDE DEF Database
  <2> QED BY DEF Memory
<1>6. \A d \in Database, C \in SUBSET Path : [m EXCEPT !.tx = d, !.conf = C] \in Memory
  BY DEF Memory
<1> QED BY <1>1, <1>2, <1>3, <1>4, <1>5, <1>6

LEMMA LaunchTypes ==
  /\ Forgotten \in Memory
  /\ \A c \in {"scan", "add", "rm", "init", "list"}, T \in SUBSET Path :
       [Forgotten EXCEPT !.cmd = c, !.target = T] \in Memory
<1>1. Forgotten \in Memory
  BY DatabaseTypes DEF Forgotten, Memory
<1>2. \A m \in Memory :
        \A c \in {"scan", "add", "rm", "init", "list"}, T \in SUBSET Path :
          [m EXCEPT !.cmd = c, !.target = T] \in Memory
  BY DEF Memory
<1> QED BY <1>1, <1>2

------------------------------------------------------------------------------
(* Every step keeps the types.                                               *)

\* A step of p that moves it and changes what it remembers.
LEMMA MoveTyped ==
  ASSUME TypeOK, NEW p \in Process, NEW place \in Places, NEW m \in Memory,
         Goto(p, place), Remember(p, m)
  PROVE  pc' \in [Process -> Places] /\ me' \in [Process -> Memory]
BY DEF TypeOK, Goto, Remember

LEMMA ExitTyped ==
  ASSUME TypeOK, NEW p \in Process, Exit(p)
  PROVE  pc' \in [Process -> Places] /\ me' \in [Process -> Memory]
BY LaunchTypes, MoveTyped DEF Exit, Places

LEMMA EventTyped ==
  ASSUME TypeOK, Event
  PROVE  events' \in Nat
BY DEF TypeOK, Event

LEMMA LaunchTyped ==
  ASSUME TypeOK, NEW p \in Process, Begin(p)
  PROVE  TypeOK'
<1>1. events' \in Nat
  BY EventTyped DEF TypeOK, Begin, TimerFires, UserRuns
<1>2. PICK cmd \in {"scan", "add", "rm", "init", "list"}, T \in SUBSET Path :
        Launch(p, cmd, T)
  BY DEF Begin, TimerFires, UserRuns
<1>3. pc' \in [Process -> Places] /\ me' \in [Process -> Memory]
  BY <1>2, LaunchTypes, MoveTyped DEF Launch, Places
<1> QED BY <1>1, <1>2, <1>3 DEF Launch, TypeOK, files, observers

LEMMA StartUpTyped ==
  ASSUME TypeOK, AllSound, NEW p \in Process, StartUp(p)
  PROVE  TypeOK'
<1>1. pc[p] \in Places /\ me[p] \in Memory
  BY DEF TypeOK
<1>2. CASE LookForConfig(p)
  <2>1. [me[p] EXCEPT !.hadConfig = toml # NoFile] \in Memory
    BY <1>1, MemoryTypes
  <2>2. pc' \in [Process -> Places] /\ me' \in [Process -> Memory]
    BY <1>2, <2>1, MoveTyped DEF LookForConfig, Places
  <2> QED BY <1>2, <2>2 DEF LookForConfig, TypeOK, files, observers
<1>3. CASE LookForDatabase(p)
  <2>1. [me[p] EXCEPT !.hadDatabase = base # NoFile] \in Memory
    BY <1>1, MemoryTypes
  <2>2. pc' \in [Process -> Places] /\ me' \in [Process -> Memory]
    BY <1>3, <2>1, MoveTyped, ExitTyped DEF LookForDatabase, Places
  <2> QED BY <1>3, <2>2 DEF LookForDatabase, TypeOK, files, observers
<1>4. CASE LoadConfig(p)
  <2>1. (IF toml = NoFile THEN {} ELSE toml) \in SUBSET Path
    BY DEF TypeOK
  <2>2. [me[p] EXCEPT !.conf = IF toml = NoFile THEN {} ELSE toml,
                      !.blind = toml = NoFile] \in Memory
    BY <1>1, <2>1, MemoryTypes
  <2>3. pc' \in [Process -> Places] /\ me' \in [Process -> Memory]
    BY <1>4, <2>2, MoveTyped DEF LoadConfig, Places
  <2> QED BY <1>4, <2>3 DEF LoadConfig, TypeOK, files, observers
<1>5. CASE OpenDatabase(p)
  <2>1. base' = NoFile \/ base' \in Database
    BY <1>5, DatabaseTypes DEF OpenDatabase, TypeOK
  <2>2. pc' \in [Process -> Places]
    BY <1>5 DEF OpenDatabase, TypeOK, Goto, Places, Opened
  <2> QED BY <1>5, <2>1, <2>2 DEF OpenDatabase, TypeOK, observers
<1>6. CASE CheckVersion(p) \/ NothingLost(p) \/ BeginMigration(p)
  <2>1. pc' \in [Process -> Places]
    BY <1>6 DEF CheckVersion, NothingLost, BeginMigration, TypeOK, Goto, Places, Opened
  <2> QED BY <1>6, <2>1
          DEF CheckVersion, NothingLost, BeginMigration, TypeOK, files, observers
<1>7. CASE Recheck(p)
  <2>1. base \in Database
    BY <1>7 DEF AllSound, Sound, Recheck, Opened, TypeOK
  <2>2. (~base.schema) \in BOOLEAN
    OBVIOUS
  <2>3. [me[p] EXCEPT !.outdated = ~base.schema] \in Memory
    BY <1>1, <2>2, MemoryTypes
  <2>4. pc' \in [Process -> Places] /\ me' \in [Process -> Memory]
    BY <1>7, <2>3, MoveTyped DEF Recheck, Places, Opened
  <2> QED BY <1>7, <2>4 DEF Recheck, TypeOK, files, observers
<1>8. CASE CreateTables(p) \/ AskForBaseline(p)
  <2>1. base \in Database
    BY <1>8 DEF AllSound, Sound, CreateTables, AskForBaseline, Opened, TypeOK
  <2>2. [base EXCEPT !.request = TRUE] \in Database
    BY <2>1, DatabaseTypes
  <2>3. base' \in Database
    BY <1>8, <2>1, <2>2, DatabaseTypes DEF CreateTables, AskForBaseline
  <2>4. pc' \in [Process -> Places]
    BY <1>8 DEF CreateTables, AskForBaseline, TypeOK, Goto, Places, Opened
  <2> QED BY <1>8, <2>3, <2>4 DEF CreateTables, AskForBaseline, TypeOK, observers
<1>9. CASE Dispatch(p)
  <2>1. pc' \in [Process -> Places] /\ me' \in [Process -> Memory]
    BY <1>9, ExitTyped DEF Dispatch, TypeOK, Goto, Places, Opened
  <2> QED BY <1>9, <2>1 DEF Dispatch, TypeOK, files, observers
<1> QED BY <1>2, <1>3, <1>4, <1>5, <1>6, <1>7, <1>8, <1>9 DEF StartUp

LEMMA PerformTyped ==
  ASSUME TypeOK, AllSound, NEW p \in Process, Perform(p)
  PROVE  TypeOK'
<1>1. pc[p] \in Places /\ me[p] \in Memory
  BY DEF TypeOK
<1>2. me[p].conf \in SUBSET Path /\ me[p].target \in SUBSET Path /\ me[p].tx \in Database
  BY <1>1 DEF Memory
<1>3. CASE BeginImmediate(p)
  <2>1. pc' \in [Process -> Places]
    BY <1>3 DEF BeginImmediate, TypeOK, Goto, Places, Opened
  <2> QED BY <1>3, <2>1 DEF BeginImmediate, TypeOK, files, observers
<1>4. ASSUME pc[p] = "work" PROVE base \in Database
  BY <1>4 DEF AllSound, Sound, Opened, TypeOK
<1>5. CASE WorkScan(p)
  <2>1. Scanned(me[p].conf, base) \in Database
    BY <1>2, <1>4, <1>5, DatabaseTypes DEF WorkScan
  <2>2. base.request \in BOOLEAN
    BY <1>4, <1>5 DEF WorkScan, Database
  <2>3. [me[p] EXCEPT !.tx = Scanned(me[p].conf, base), !.rebuilt = base.request] \in Memory
    BY <1>1, <2>1, <2>2, MemoryTypes
  <2>4. pc' \in [Process -> Places] /\ me' \in [Process -> Memory]
    BY <1>5, <2>3, MoveTyped DEF WorkScan, Places, Opened
  <2> QED BY <1>5, <2>4 DEF WorkScan, TypeOK, files, observers
<1>6. CASE WorkAdd(p)
  <2>1. WithSources(me[p].target, base) \in Database
    BY <1>2, <1>4, <1>6, DatabaseTypes DEF WorkAdd
  <2>2. [me[p] EXCEPT !.tx = WithSources(me[p].target, base),
                      !.conf = @ \cup me[p].target] \in Memory
    BY <1>1, <1>2, <2>1, MemoryTypes
  <2>3. pc' \in [Process -> Places] /\ me' \in [Process -> Memory]
    BY <1>6, <2>2, MoveTyped DEF WorkAdd, Places, Opened
  <2> QED BY <1>6, <2>3 DEF WorkAdd, TypeOK, files, observers
<1>7. CASE WorkRemove(p)
  <2>1. WithoutSources(me[p].target, base) \in Database
    BY <1>2, <1>4, <1>7, DatabaseTypes DEF WorkRemove
  <2>2. [me[p] EXCEPT !.tx = WithoutSources(me[p].target, base),
                      !.conf = @ \ me[p].target] \in Memory
    BY <1>1, <1>2, <2>1, MemoryTypes
  <2>3. pc' \in [Process -> Places] /\ me' \in [Process -> Memory]
    BY <1>7, <2>2, MoveTyped DEF WorkRemove, Places, Opened
  <2> QED BY <1>7, <2>3 DEF WorkRemove, TypeOK, files, observers
<1>8. CASE WorkInit(p)
  <2>1. [me[p] EXCEPT !.tx = EmptyDatabase, !.conf = {}] \in Memory
    BY <1>1, DatabaseTypes, MemoryTypes
  <2>2. pc' \in [Process -> Places] /\ me' \in [Process -> Memory]
    BY <1>8, <2>1, MoveTyped DEF WorkInit, Places, Opened
  <2> QED BY <1>8, <2>2 DEF WorkInit, TypeOK, files, observers
<1>9. CASE WorkRefused(p) \/ Notify(p)
  <2>1. pc' \in [Process -> Places] /\ me' \in [Process -> Memory]
    BY <1>9, ExitTyped DEF WorkRefused, Notify
  <2> QED BY <1>9, <2>1 DEF WorkRefused, Notify, Release, TypeOK, files, observers
<1>10. CASE SaveConfig(p)
  <2>1. pc' \in [Process -> Places]
    BY <1>10 DEF SaveConfig, TypeOK, Goto, Places, Opened
  <2> QED BY <1>2, <1>10, <2>1 DEF SaveConfig, TypeOK, observers
<1>11. CASE Commit(p)
  <2>1. pc' \in [Process -> Places] /\ me' \in [Process -> Memory]
    BY <1>11, ExitTyped DEF Commit, TypeOK, Goto, Places, Opened
  <2>2. me[p].cmd \in {"none", "scan", "add", "rm", "init"}
    BY <1>11 DEF AllSound, Sound, Requestable, Commit
  <2>3. \A c \in {"none", "scan", "add", "rm", "init"}, C \in SUBSET Path :
          [cmd |-> c, what |-> C] \in Completed
    BY DEF Completed
  <2>4. (IF me[p].cmd = "scan" THEN me[p].conf ELSE me[p].target) \in SUBSET Path
    BY <1>2
  <2>5. last' \in Completed
    BY <1>11, <2>2, <2>3, <2>4 DEF Commit
  <2>6. told' \in BOOLEAN
    BY <1>11 DEF Commit
  <2> QED BY <1>2, <1>11, <2>1, <2>5, <2>6 DEF Commit, TypeOK
<1> QED BY <1>3, <1>5, <1>6, <1>7, <1>8, <1>9, <1>10, <1>11 DEF Perform

LEMMA SetbackTyped ==
  ASSUME TypeOK, NEW p \in Process, Setback(p)
  PROVE  TypeOK'
<1>1. Exit(p)
  BY DEF Setback, DeclineInit, BusyTimeout, StepFails, Crash
<1>2. pc' \in [Process -> Places] /\ me' \in [Process -> Memory]
  BY <1>1, ExitTyped
<1>3. lock' \in Process \cup {Nobody} /\ events' \in Nat
  BY EventTyped DEF Setback, DeclineInit, BusyTimeout, StepFails, Crash, Release, TypeOK
<1>4. UNCHANGED <<files, observers>>
  BY DEF Setback, DeclineInit, BusyTimeout, StepFails, Crash
<1> QED BY <1>2, <1>3, <1>4 DEF TypeOK, files, observers

LEMMA OutsideTyped ==
  ASSUME TypeOK, Outside
  PROVE  TypeOK'
<1>1. CASE \E c \in ConfigChoices : EditConfig(c)
  BY <1>1, ProcessConstants, EventTyped DEF EditConfig, TypeOK, procs, observers
<1>2. CASE LoseConfig
  BY <1>2, EventTyped DEF LoseConfig, TypeOK, procs, observers
<1>3. CASE LoseDatabase
  <2>1. told' \in BOOLEAN
    BY <1>3 DEF LoseDatabase
  <2> QED BY <1>3, <2>1, EventTyped DEF LoseDatabase, TypeOK, procs
<1> QED BY <1>1, <1>2, <1>3 DEF Outside

LEMMA StepTyped ==
  ASSUME TypeOK, AllSound, [Next]_vars
  PROVE  TypeOK'
<1>1. CASE UNCHANGED vars
  BY <1>1 DEF vars, files, procs, observers, TypeOK
<1> QED BY <1>1, LaunchTyped, StartUpTyped, PerformTyped, SetbackTyped, OutsideTyped
        DEF Next, Advance

------------------------------------------------------------------------------
(* The write lock.                                                           *)

\* Who holds the lock is where only the holder can be.
LEMMA StepExclusive ==
  ASSUME TypeOK, Exclusive, [Next]_vars
  PROVE  Exclusive'
<1>1. CASE UNCHANGED vars
  BY <1>1 DEF vars, procs, Exclusive
<1>2. CASE Outside
  BY <1>2 DEF Outside, EditConfig, LoseConfig, LoseDatabase, procs, Exclusive
<1>3. ASSUME NEW p \in Process, Begin(p) \/ Advance(p) \/ Setback(p)
      PROVE  Exclusive'
  <2>1. p # Nobody /\ pc[p] \in Places
    BY ProcessConstants DEF TypeOK
  <2>2. PICK place : pc' = [pc EXCEPT ![p] = place]
    BY <1>3
       DEF Begin, TimerFires, UserRuns, Launch, Advance, StartUp, LookForConfig,
           LookForDatabase, LoadConfig, OpenDatabase, CheckVersion, BeginMigration, Recheck,
           CreateTables, NothingLost, AskForBaseline, Dispatch, Perform, BeginImmediate,
           WorkScan, WorkAdd, WorkRemove, WorkInit, WorkRefused, SaveConfig, Commit, Notify,
           Setback, DeclineInit, BusyTimeout, StepFails, Crash, Goto, Exit
  <2>3. pc'[p] = place /\ \A q \in Process : q # p => pc'[q] = pc[q]
    BY <2>2 DEF TypeOK
  <2>4. \/ lock' = lock /\ (pc[p] \in Holding <=> place \in Holding)
        \/ lock = Nobody /\ lock' = p /\ place \in Holding
        \/ pc[p] \in Holding /\ lock' = Nobody /\ place \notin Holding
    <3>1. CASE Begin(p)
      BY <2>3, <3>1 DEF Begin, TimerFires, UserRuns, Launch, Goto, Holding, TypeOK
    <3>2. CASE StartUp(p)
      BY <2>3, <3>2
         DEF StartUp, LookForConfig, LookForDatabase, LoadConfig, OpenDatabase, CheckVersion,
             BeginMigration, Recheck, CreateTables, NothingLost, AskForBaseline, Dispatch,
             Goto, Exit, Holding, TypeOK
    <3>3. CASE Perform(p)
      BY <2>1, <2>3, <3>3
         DEF Perform, BeginImmediate, WorkScan, WorkAdd, WorkRemove, WorkInit, WorkRefused,
             SaveConfig, Commit, Notify, Goto, Exit, Release, Holding, TypeOK, Exclusive
    <3>4. CASE Setback(p)
      BY <2>1, <2>3, <3>4
         DEF Setback, DeclineInit, BusyTimeout, StepFails, Crash, Goto, Exit, Release,
             Holding, TypeOK, Exclusive
    <3> QED BY <1>3, <3>1, <3>2, <3>3, <3>4 DEF Advance
  <2> QED BY <2>1, <2>3, <2>4, ProcessConstants DEF Exclusive
<1> QED BY <1>1, <1>2, <1>3 DEF Next

------------------------------------------------------------------------------
(* What a step of one process does to the others.                            *)

\* The transaction of a command leaves the schema alone.
LEMMA TransactedSchema ==
  ASSUME NEW m \in Memory, NEW d \in Database, d.schema, Transacted(m, d)
  PROVE  m.tx.schema
<1>1. m.conf \in SUBSET Path /\ m.target \in SUBSET Path
  BY DEF Memory
<1>2. EmptyDatabase.schema
  BY DEF EmptyDatabase
<1>3. Scanned(m.conf, d).schema = d.schema
  BY DEF Scanned
<1>4. WithSources(m.target, d).schema = d.schema
  BY DEF WithSources, Database
<1>5. WithoutSources(m.target, d).schema = d.schema
  BY DEF WithoutSources, Database
<1> QED BY <1>2, <1>3, <1>4, <1>5 DEF Transacted

\* A step of p moves nobody else, loses neither the database nor its schema, and
\* changes it only while nobody else holds the lock.
LEMMA StepFrame ==
  ASSUME IInv, NEW p \in Process, Begin(p) \/ Advance(p) \/ Setback(p)
  PROVE  /\ \A q \in Process : q # p => pc'[q] = pc[q] /\ me'[q] = me[q]
         /\ base # NoFile => base' # NoFile
         /\ base # NoFile /\ base.schema => base'.schema
         /\ base' = base \/ base = NoFile \/ \A q \in Process : q # p => pc[q] \notin Holding
<1>1. TypeOK /\ Exclusive /\ Sound(pc[p], me[p], base)
  BY DEF IInv, AllSound
<1>2. \A q \in Process : q # p => pc'[q] = pc[q] /\ me'[q] = me[q]
  BY <1>1
     DEF Begin, TimerFires, UserRuns, Launch, Advance, StartUp, LookForConfig,
         LookForDatabase, LoadConfig, OpenDatabase, CheckVersion, BeginMigration, Recheck,
         CreateTables, NothingLost, AskForBaseline, Dispatch, Perform, BeginImmediate,
         WorkScan, WorkAdd, WorkRemove, WorkInit, WorkRefused, SaveConfig, Commit, Notify,
         Setback, DeclineInit, BusyTimeout, StepFails, Crash, Goto, Exit, Remember, TypeOK
<1>3. CASE OpenDatabase(p)
  <2>1. NewFile # NoFile
    BY DatabaseTypes, NoFileIsNoContent
  <2> QED BY <1>2, <1>3, <2>1 DEF OpenDatabase
<1>4. CASE CreateTables(p)
  <2>1. EmptyDatabase # NoFile /\ EmptyDatabase.schema
    BY DatabaseTypes, NoFileIsNoContent DEF EmptyDatabase
  <2>2. pc[p] \in Holding
    BY <1>4 DEF CreateTables, Holding
  <2>3. \A q \in Process : q # p => pc[q] \notin Holding
    BY <1>1, <2>2 DEF Exclusive
  <2> QED BY <1>2, <1>4, <2>1, <2>3 DEF CreateTables
<1>5. CASE AskForBaseline(p)
  <2>1. base \in Database
    BY <1>1, <1>5 DEF Sound, AskForBaseline, Opened, TypeOK
  <2>2. base' \in Database /\ (base.schema => base'.schema)
    BY <1>5, <2>1, DatabaseTypes DEF AskForBaseline, Database
  <2>3. \A q \in Process : pc[q] \notin Holding
    BY <1>1, <1>5, ProcessConstants DEF AskForBaseline, Exclusive
  <2> QED BY <1>2, <1>5, <2>2, <2>3, NoFileIsNoContent DEF AskForBaseline
<1>6. CASE Commit(p)
  <2>1. base \in Database /\ base.schema /\ Transacted(me[p], base)
    BY <1>1, <1>6 DEF Sound, Commit, Opened, Ready, TypeOK
  <2>2. me[p] \in Memory /\ me[p].tx \in Database
    BY <1>1 DEF TypeOK, Memory
  <2>3. me[p].tx.schema
    BY <2>1, <2>2, TransactedSchema
  <2>4. \A q \in Process : q # p => pc[q] \notin Holding
    BY <1>1, <1>6 DEF Exclusive, Commit, Holding
  <2> QED BY <1>2, <1>6, <2>2, <2>3, <2>4, NoFileIsNoContent DEF Commit
<1>7. CASE base' = base
  BY <1>2, <1>7
<1>8. \/ OpenDatabase(p) \/ CreateTables(p) \/ AskForBaseline(p) \/ Commit(p)
      \/ base' = base
  BY DEF files, SaveConfig, Begin, TimerFires, UserRuns, Launch, Advance, StartUp, LookForConfig,
         LookForDatabase, LoadConfig, CheckVersion, BeginMigration, Recheck,
         NothingLost, Dispatch, Perform, BeginImmediate,
         WorkScan, WorkAdd, WorkRemove, WorkInit, WorkRefused, Notify,
         Setback, DeclineInit, BusyTimeout, StepFails, Crash
<1> QED BY <1>3, <1>4, <1>5, <1>6, <1>7, <1>8

\* So what the others know stays true.
LEMMA OthersStaySound ==
  ASSUME IInv, NEW p \in Process, Begin(p) \/ Advance(p) \/ Setback(p),
         NEW q \in Process, q # p
  PROVE  Sound(pc'[q], me'[q], base')
<1>1. Sound(pc[q], me[q], base)
  BY DEF IInv, AllSound
<1>2. pc'[q] = pc[q] /\ me'[q] = me[q]
  BY StepFrame
<1>3. Sound(pc[q], me[q], base')
  <2>1. CASE base' = base
    BY <1>1, <2>1, StepFrame DEF Sound
  <2>2. CASE base = NoFile
    <3>1. pc[q] \notin Opened
      BY <1>1, <2>2 DEF Sound
    <3> QED BY <1>1, <3>1, StepFrame DEF Sound, Opened, Ready
  <2>3. CASE base # NoFile /\ pc[q] \notin Holding
    BY <1>1, <2>3, StepFrame DEF Sound, Holding
  <2> QED BY <2>1, <2>2, <2>3, StepFrame
<1> QED BY <1>2, <1>3

------------------------------------------------------------------------------
(* What a step tells the process that takes it.                              *)

\* A process that has ended knows nothing.
LEMMA IdleIsSound == \A m, d : Sound("idle", m, d)
BY DEF Sound, Opened, Ready

LEMMA ExitIsSound ==
  ASSUME TypeOK, NEW p \in Process, Exit(p)
  PROVE  Sound(pc'[p], me'[p], base')
<1>1. pc'[p] = "idle"
  BY DEF Exit, Goto, TypeOK
<1> QED BY <1>1, IdleIsSound

LEMMA LaunchIsSound ==
  ASSUME TypeOK, NEW p \in Process, Begin(p)
  PROVE  Sound(pc'[p], me'[p], base')
<1>1. PICK cmd, T :
        /\ Launch(p, cmd, T)
        /\ \/ cmd \in {"scan", "init", "list"} /\ T = {}
           \/ cmd \in {"add", "rm"} /\ \E s \in Path : T = {s}
  BY DEF Begin, TimerFires, UserRuns
<1>2. pc'[p] = "stat config" /\ me'[p] = [Forgotten EXCEPT !.cmd = cmd, !.target = T]
  BY <1>1 DEF Launch, Goto, Remember, TypeOK
<1>3. me'[p].cmd = cmd /\ me'[p].target = T
  BY <1>2 DEF Forgotten
<1>4. Requestable(me'[p])
  BY <1>1, <1>3 DEF Requestable
<1> QED BY <1>2, <1>4 DEF Sound, Opened, Ready

LEMMA StartUpIsSound ==
  ASSUME IInv, NEW p \in Process, StartUp(p)
  PROVE  Sound(pc'[p], me'[p], base')
<1> DEFINE m == me[p]
<1>1. TypeOK /\ Sound(pc[p], m, base) /\ m \in Memory
  BY DEF IInv, AllSound, TypeOK
<1>2. CASE LookForConfig(p)
  <2>1. pc'[p] = "stat database" /\ me'[p] = [m EXCEPT !.hadConfig = toml # NoFile]
    BY <1>1, <1>2 DEF LookForConfig, Goto, Remember, TypeOK
  <2>2. me'[p].cmd = m.cmd /\ me'[p].target = m.target
    BY <1>1, <2>1 DEF Memory
  <2> QED BY <1>1, <1>2, <2>1, <2>2
          DEF LookForConfig, files, Sound, Requestable, Opened, Ready
<1>3. CASE LookForDatabase(p)
  <2>1. CASE Exit(p)
    BY <1>1, <2>1, ExitIsSound
  <2>2. CASE ~Exit(p)
    <3>1. /\ pc'[p] = "load" /\ me'[p] = [m EXCEPT !.hadDatabase = base # NoFile]
          /\ ~Refused(m.cmd, m.hadConfig, base # NoFile)
      BY <1>1, <1>3, <2>2 DEF LookForDatabase, Goto, Remember, TypeOK
    <3>2. me'[p].cmd = m.cmd /\ me'[p].target = m.target /\ me'[p].hadConfig = m.hadConfig
      BY <1>1, <3>1 DEF Memory
    <3>3. m.cmd \in {"scan", "rm"} => m.hadConfig
      BY <3>1 DEF Refused
    <3>4. Requestable(me'[p])
      BY <1>1, <1>3, <3>2 DEF Sound, LookForDatabase, Requestable
    <3> QED BY <1>3, <3>1, <3>2, <3>3, <3>4
            DEF LookForDatabase, files, Sound, Opened, Ready
  <2> QED BY <2>1, <2>2
<1>4. CASE LoadConfig(p)
  <2>1. pc[p] = "load" /\ pc'[p] = "open" /\ \E C, r : me'[p] = [m EXCEPT !.conf = C, !.blind = r]
    BY <1>1, <1>4 DEF LoadConfig, Goto, Remember, TypeOK
  <2>2. me'[p].cmd = m.cmd /\ me'[p].target = m.target /\ me'[p].hadConfig = m.hadConfig
    BY <1>1, <2>1 DEF Memory
  <2> QED BY <1>1, <1>4, <2>1, <2>2 DEF LoadConfig, files, Sound, Requestable, Opened, Ready
<1>5. CASE OpenDatabase(p)
  <2>1. pc[p] = "open" /\ pc'[p] = "version" /\ me' = me /\ toml' = toml
    BY <1>1, <1>5 DEF OpenDatabase, Goto, TypeOK
  <2>2. base' # NoFile
    BY <1>5, DatabaseTypes, NoFileIsNoContent DEF OpenDatabase
  <2> QED BY <1>1, <2>1, <2>2 DEF Sound, Opened, Ready
<1>6. CASE CheckVersion(p)
  <2>1. /\ pc[p] = "version" /\ pc'[p] = IF base.schema THEN "tripwire" ELSE "migrate"
        /\ UNCHANGED <<me, base, toml>>
    BY <1>1, <1>6 DEF CheckVersion, Goto, files, TypeOK
  <2> QED BY <1>1, <2>1 DEF Sound, Opened, Ready
<1>7. CASE BeginMigration(p)
  <2>1. pc[p] = "migrate" /\ pc'[p] = "recheck" /\ UNCHANGED <<me, base, toml>>
    BY <1>1, <1>7 DEF BeginMigration, Goto, files, TypeOK
  <2> QED BY <1>1, <2>1 DEF Sound, Opened, Ready
<1>8. CASE Recheck(p)
  <2>1. /\ pc[p] = "recheck" /\ pc'[p] = "create" /\ UNCHANGED <<base, toml>>
        /\ me'[p] = [m EXCEPT !.outdated = ~base.schema]
    BY <1>1, <1>8 DEF Recheck, Goto, Remember, files, TypeOK
  <2>2. me'[p].cmd = m.cmd /\ me'[p].target = m.target /\ me'[p].hadConfig = m.hadConfig
    BY <1>1, <2>1 DEF Memory
  <2>3. me'[p].outdated <=> ~base.schema
    BY <1>1, <2>1 DEF Memory
  <2> QED BY <1>1, <2>1, <2>2, <2>3 DEF Sound, Requestable, Opened, Ready
<1>9. CASE CreateTables(p)
  <2>1. pc[p] = "create" /\ pc'[p] = "tripwire" /\ UNCHANGED <<me, toml>>
    BY <1>1, <1>9 DEF CreateTables, Goto, TypeOK
  <2>2. base' # NoFile
    BY <1>1, <1>9, DatabaseTypes, NoFileIsNoContent DEF CreateTables, Sound, Opened
  <2>3. base'.schema
    BY <1>1, <1>9 DEF CreateTables, Sound, EmptyDatabase
  <2> QED BY <1>1, <2>1, <2>2, <2>3 DEF Sound, Opened, Ready
<1>10. CASE NothingLost(p)
  <2>1. pc[p] = "tripwire" /\ pc'[p] = "dispatch" /\ UNCHANGED <<me, base, toml>>
    BY <1>1, <1>10 DEF NothingLost, Goto, files, TypeOK
  <2> QED BY <1>1, <2>1 DEF Sound, Opened, Ready
<1>11. CASE AskForBaseline(p)
  <2>1. pc[p] = "tripwire" /\ pc'[p] = "dispatch" /\ UNCHANGED <<me, toml>>
    BY <1>1, <1>11 DEF AskForBaseline, Goto, TypeOK
  <2>2. base # NoFile /\ base.schema
    BY <1>1, <2>1 DEF Sound, Opened, Ready
  <2>3. base' # NoFile /\ base'.schema
    BY <1>11, <2>2, StepFrame DEF Advance
  <2> QED BY <1>1, <2>1, <2>3 DEF Sound, Opened, Ready
<1>12. CASE Dispatch(p)
  <2>1. CASE Exit(p)
    BY <1>1, <2>1, ExitIsSound
  <2>2. CASE ~Exit(p)
    <3>1. /\ pc[p] = "dispatch" /\ pc'[p] = "begin" /\ UNCHANGED <<me, base, toml>>
          /\ m.cmd # "list"
      BY <1>1, <1>12, <2>2 DEF Dispatch, Goto, files, TypeOK
    <3> QED BY <1>1, <3>1 DEF Sound, Opened, Ready
  <2> QED BY <2>1, <2>2
<1> QED BY <1>2, <1>3, <1>4, <1>5, <1>6, <1>7, <1>8, <1>9, <1>10, <1>11, <1>12 DEF StartUp

LEMMA PerformIsSound ==
  ASSUME IInv, NEW p \in Process, Perform(p)
  PROVE  Sound(pc'[p], me'[p], base')
<1> DEFINE m == me[p]
<1>1. TypeOK /\ Sound(pc[p], m, base) /\ m \in Memory
  BY DEF IInv, AllSound, TypeOK
<1>2. CASE BeginImmediate(p)
  <2>1. pc[p] = "begin" /\ pc'[p] = "work" /\ UNCHANGED <<me, base, toml>>
    BY <1>1, <1>2 DEF BeginImmediate, Goto, files, TypeOK
  <2> QED BY <1>1, <2>1 DEF Sound, Opened, Ready
<1>3. CASE WorkScan(p)
  <2>1. /\ pc[p] = "work" /\ pc'[p] = "commit" /\ UNCHANGED <<base, toml>>
        /\ m.cmd = "scan"
        /\ me'[p] = [m EXCEPT !.tx = Scanned(m.conf, base), !.rebuilt = base.request]
    BY <1>1, <1>3 DEF WorkScan, Goto, Remember, files, TypeOK
  <2> HIDE DEF m
  <2>2. \A d, r : LET n == [m EXCEPT !.tx = d, !.rebuilt = r]
                  IN /\ n.cmd = m.cmd /\ n.target = m.target /\ n.hadConfig = m.hadConfig
                     /\ n.conf = m.conf /\ n.tx = d
    BY <1>1 DEF Memory
  <2>3. Transacted(me'[p], base)
    BY <2>1, <2>2 DEF Transacted
  <2> QED BY <1>1, <2>1, <2>2, <2>3 DEF Sound, Requestable, Opened, Ready
<1>4. CASE WorkAdd(p)
  <2>1. /\ pc[p] = "work" /\ pc'[p] = "save" /\ UNCHANGED <<base, toml>>
        /\ m.cmd = "add"
        /\ me'[p] = [m EXCEPT !.tx = WithSources(m.target, base), !.conf = @ \cup m.target]
        /\ \A s \in m.target, t \in base.watched : ~Overlaps(s, t)
    BY <1>1, <1>4 DEF WorkAdd, Goto, Remember, files, TypeOK
  <2>2. /\ me'[p].cmd = m.cmd /\ me'[p].target = m.target
        /\ me'[p].hadConfig = m.hadConfig /\ me'[p].tx = WithSources(m.target, base)
    BY <1>1, <2>1 DEF Memory
  <2>3. Transacted(me'[p], base)
    BY <2>1, <2>2 DEF Transacted
  <2> QED BY <1>1, <2>1, <2>2, <2>3 DEF Sound, Requestable, Opened, Ready
<1>5. CASE WorkRemove(p)
  <2>1. /\ pc[p] = "work" /\ pc'[p] = "save" /\ UNCHANGED <<base, toml>>
        /\ m.cmd = "rm"
        /\ me'[p] = [m EXCEPT !.tx = WithoutSources(m.target, base), !.conf = @ \ m.target]
    BY <1>1, <1>5 DEF WorkRemove, Goto, Remember, files, TypeOK
  <2>2. /\ me'[p].cmd = m.cmd /\ me'[p].target = m.target
        /\ me'[p].hadConfig = m.hadConfig /\ me'[p].tx = WithoutSources(m.target, base)
    BY <1>1, <2>1 DEF Memory
  <2>3. Transacted(me'[p], base)
    BY <2>1, <2>2 DEF Transacted
  <2> QED BY <1>1, <2>1, <2>2, <2>3 DEF Sound, Requestable, Opened, Ready
<1>6. CASE WorkInit(p)
  <2>1. /\ pc[p] = "work" /\ pc'[p] = "save" /\ UNCHANGED <<base, toml>>
        /\ m.cmd = "init"
        /\ me'[p] = [m EXCEPT !.tx = EmptyDatabase, !.conf = {}]
    BY <1>1, <1>6 DEF WorkInit, Goto, Remember, files, TypeOK
  <2>2. /\ me'[p].cmd = m.cmd /\ me'[p].target = m.target
        /\ me'[p].hadConfig = m.hadConfig /\ me'[p].tx = EmptyDatabase
    BY <1>1, <2>1 DEF Memory
  <2>3. Transacted(me'[p], base)
    BY <2>1, <2>2 DEF Transacted
  <2> QED BY <1>1, <2>1, <2>2, <2>3 DEF Sound, Requestable, Opened, Ready
<1>7. CASE WorkRefused(p) \/ Notify(p)
  BY <1>1, <1>7, ExitIsSound DEF WorkRefused, Notify
<1>8. CASE SaveConfig(p)
  <2>1. pc[p] = "save" /\ pc'[p] = "commit" /\ UNCHANGED <<me, base>>
    BY <1>1, <1>8 DEF SaveConfig, Goto, TypeOK
  <2> QED BY <1>1, <2>1 DEF Sound, Opened, Ready
<1>9. CASE Commit(p)
  <2>1. CASE Exit(p)
    BY <1>1, <2>1, ExitIsSound
  <2>2. CASE ~Exit(p)
    <3>1. /\ pc[p] = "commit" /\ pc'[p] = "notify" /\ UNCHANGED <<me, toml>>
          /\ m.cmd = "scan"
      BY <1>1, <1>9, <2>2 DEF Commit, Goto, TypeOK
    <3>2. base # NoFile /\ base.schema
      BY <1>1, <3>1 DEF Sound, Opened, Ready
    <3>3. base' # NoFile /\ base'.schema
      BY <1>9, <3>2, StepFrame DEF Advance, Perform
    <3> QED BY <1>1, <3>1, <3>3 DEF Sound, Opened, Ready
  <2> QED BY <2>1, <2>2
<1> QED BY <1>2, <1>3, <1>4, <1>5, <1>6, <1>7, <1>8, <1>9 DEF Perform

LEMMA StepSound ==
  ASSUME IInv, [Next]_vars
  PROVE  AllSound'
<1>1. TypeOK /\ AllSound
  BY DEF IInv
<1>2. CASE UNCHANGED vars
  BY <1>1, <1>2 DEF vars, files, procs, AllSound
<1>3. CASE Outside
  <2>1. CASE (\E c \in ConfigChoices : EditConfig(c)) \/ LoseConfig
    BY <1>1, <2>1 DEF EditConfig, LoseConfig, procs, AllSound
  <2>2. CASE LoseDatabase
    BY <1>1, <2>2 DEF LoseDatabase, procs, AllSound, Sound, Opened, Ready
  <2> QED BY <1>3, <2>1, <2>2 DEF Outside
<1>4. ASSUME NEW p \in Process, Begin(p) \/ Advance(p) \/ Setback(p)
      PROVE  AllSound'
  <2>1. CASE Setback(p)
    <3>1. Exit(p)
      BY <2>1 DEF Setback, DeclineInit, BusyTimeout, StepFails, Crash
    <3> QED BY <1>1, <1>4, <3>1, ExitIsSound, OthersStaySound DEF AllSound
  <2> QED BY <1>1, <1>4, <2>1, LaunchIsSound, StartUpIsSound, PerformIsSound,
             OthersStaySound DEF AllSound, Advance
<1> QED BY <1>2, <1>3, <1>4 DEF Next

------------------------------------------------------------------------------
(* What becomes of the database.                                             *)

\* The sources a scan keeps do not overlap.
LEMMA TopmostApart == \A C : Apart(Topmost(C))
BY DEF Apart, Topmost, Overlaps

\* What a commit makes of the database.
LEMMA CommitEffect ==
  ASSUME IInv, NEW p \in Process, Commit(p)
  PROVE  LET m == me[p]
         IN /\ base \in Database /\ m.conf \in SUBSET Path /\ Requestable(m)
            /\ base' = m.tx /\ base' \in Database /\ base' # NoFile /\ base'.schema
            /\ last'.cmd = m.cmd
            /\ \/ /\ m.cmd = "scan" /\ last' = [cmd |-> "scan", what |-> m.conf]
                  /\ base'.watched = Topmost(m.conf) /\ ~base'.request
                  /\ m.hadConfig
               \/ /\ m.cmd = "add" /\ last' = [cmd |-> "add", what |-> m.target]
                  /\ base'.watched = base.watched \cup m.target
                  /\ base'.request = base.request
                  /\ \A s \in m.target, t \in base.watched : ~Overlaps(s, t)
               \/ /\ m.cmd = "rm" /\ last' = [cmd |-> "rm", what |-> m.target]
                  /\ base'.watched = base.watched \ m.target
                  /\ base'.request = base.request
                  /\ m.hadConfig
               \/ /\ m.cmd = "init" /\ last' = [cmd |-> "init", what |-> {}]
                  /\ base'.watched = {} /\ ~base'.request
<1> DEFINE m == me[p]
<1>1. TypeOK /\ Sound(pc[p], m, base) /\ m \in Memory /\ pc[p] = "commit"
  BY DEF IInv, AllSound, TypeOK, Commit
<1>2. /\ base \in Database /\ base.schema /\ Requestable(m) /\ Transacted(m, base)
      /\ m.cmd \in {"scan", "rm"} => m.hadConfig
  BY <1>1 DEF Sound, Opened, Ready, TypeOK
<1>3. /\ base' = m.tx
      /\ last' = [cmd |-> m.cmd, what |-> IF m.cmd = "scan" THEN m.conf ELSE m.target]
  BY DEF Commit
<1>4. m.conf \in SUBSET Path /\ m.target \in SUBSET Path /\ m.tx \in Database
  BY <1>1 DEF Memory
<1>5. m.tx.schema
  BY <1>1, <1>2, TransactedSchema
<1>6. m.tx # NoFile
  BY <1>4, NoFileIsNoContent
<1> HIDE DEF m
<1>7. CASE m.cmd = "scan" /\ m.tx = Scanned(m.conf, base)
  <2>1. m.tx.watched = Topmost(m.conf) /\ ~m.tx.request
    BY <1>7 DEF Scanned
  <2> QED BY <1>2, <1>3, <1>4, <1>5, <1>6, <1>7, <2>1 DEF m
<1>8. CASE /\ m.cmd = "add" /\ m.tx = WithSources(m.target, base)
           /\ \A s \in m.target, t \in base.watched : ~Overlaps(s, t)
  <2>1. m.tx.watched = base.watched \cup m.target /\ m.tx.request = base.request
    BY <1>2, <1>8 DEF WithSources, Database
  <2> QED BY <1>2, <1>3, <1>4, <1>5, <1>6, <1>8, <2>1 DEF m
<1>9. CASE m.cmd = "rm" /\ m.tx = WithoutSources(m.target, base)
  <2>1. m.tx.watched = base.watched \ m.target /\ m.tx.request = base.request
    BY <1>2, <1>9 DEF WithoutSources, Database
  <2> QED BY <1>2, <1>3, <1>4, <1>5, <1>6, <1>9, <2>1 DEF m
<1>10. CASE m.cmd = "init" /\ m.tx = EmptyDatabase
  <2>1. m.tx.watched = {} /\ ~m.tx.request
    BY <1>10 DEF EmptyDatabase
  <2>2. m.target = {}
    BY <1>2, <1>10 DEF Requestable
  <2> QED BY <1>2, <1>3, <1>4, <1>5, <1>6, <1>10, <2>1, <2>2 DEF m
<1> QED BY <1>2, <1>7, <1>8, <1>9, <1>10 DEF Transacted

\* Every other step leaves the contents of the database alone, asks for a new
\* baseline, or is the loss of the file.
LEMMA OtherSteps ==
  ASSUME IInv, [Next]_vars, \A p \in Process : ~Commit(p)
  PROVE  /\ last' = last
         /\ \/ Watching' = Watching /\ Requested' = Requested
            \/ Watching' = Watching /\ Requested' = TRUE
            \/ base' = NoFile
         /\ Consistent'
<1>1. TypeOK /\ Exclusive /\ Consistent /\ AllSound
  BY DEF IInv
<1>2. CASE base' = base /\ last' = last
  BY <1>1, <1>2 DEF Watching, Requested, Consistent
<1>3. CASE Outside
  <2>1. last' = last /\ (base' = base \/ base' = NoFile)
    BY <1>3 DEF Outside, EditConfig, LoseConfig, LoseDatabase, observers
  <2> QED BY <1>2, <2>1 DEF Consistent
<1>4. ASSUME NEW p \in Process, Begin(p) \/ Advance(p) \/ Setback(p)
      PROVE  /\ last' = last
             /\ \/ Watching' = Watching /\ Requested' = Requested
                \/ Watching' = Watching /\ Requested' = TRUE
                \/ base' = NoFile
             /\ Consistent'
  <2>1. Sound(pc[p], me[p], base)
    BY <1>1 DEF AllSound
  <2>2. CASE OpenDatabase(p)
    <3>1. CASE base = NoFile
      <4>1. base' = NewFile /\ last' = last
        BY <2>2, <3>1 DEF OpenDatabase, observers
      <4>2. NewFile # NoFile /\ NewFile.watched = {} /\ ~NewFile.request
        BY DatabaseTypes, NoFileIsNoContent DEF NewFile
      <4> QED BY <3>1, <4>1, <4>2 DEF Watching, Requested, Consistent, Apart
    <3>2. CASE base # NoFile
      BY <1>2, <2>2, <3>2 DEF OpenDatabase, observers
    <3> QED BY <3>1, <3>2
  <2>3. CASE CreateTables(p)
    <3>1. base # NoFile /\ (me[p].outdated <=> ~base.schema) /\ last' = last
      BY <2>1, <2>3 DEF Sound, Opened, CreateTables, observers
    <3>2. CASE me[p].outdated
      <4>1. base = NewFile /\ base' = EmptyDatabase
        BY <1>1, <2>3, <3>1, <3>2 DEF CreateTables, Consistent
      <4>2. /\ NewFile.watched = {} /\ ~NewFile.request
            /\ EmptyDatabase.watched = {} /\ ~EmptyDatabase.request /\ EmptyDatabase.schema
        BY DEF NewFile, EmptyDatabase
      <4> QED BY <3>1, <4>1, <4>2 DEF Watching, Requested, Consistent, Apart
    <3>3. CASE ~me[p].outdated
      BY <1>2, <2>3, <3>1, <3>3 DEF CreateTables
    <3> QED BY <3>2, <3>3
  <2>4. CASE AskForBaseline(p)
    <3>1. base \in Database /\ base # NoFile /\ base.schema
      BY <1>1, <2>1, <2>4 DEF Sound, Opened, Ready, AskForBaseline, TypeOK
    <3>2. base' = [base EXCEPT !.request = TRUE] /\ last' = last
      BY <2>4 DEF AskForBaseline, observers
    <3>3. base'.watched = base.watched /\ base'.request /\ base' # NoFile /\ base'.schema
      BY <1>4, <3>1, <3>2, StepFrame DEF Database
    <3> QED BY <1>1, <3>1, <3>2, <3>3 DEF Watching, Requested, Consistent
  <2>5. OpenDatabase(p) \/ CreateTables(p) \/ AskForBaseline(p) \/ (base' = base /\ last' = last)
    BY <1>4
       DEF Begin, TimerFires, UserRuns, Launch, Advance, StartUp, LookForConfig,
           LookForDatabase, LoadConfig, CheckVersion, BeginMigration, Recheck,
           NothingLost, Dispatch, Perform, BeginImmediate, SaveConfig,
           WorkScan, WorkAdd, WorkRemove, WorkInit, WorkRefused, Notify,
           Setback, DeclineInit, BusyTimeout, StepFails, Crash, files, observers
  <2> QED BY <1>2, <2>2, <2>3, <2>4, <2>5
<1>5. CASE UNCHANGED vars
  BY <1>2, <1>5 DEF vars, files, observers
<1> QED BY <1>3, <1>4, <1>5 DEF Next

LEMMA StepConsistent ==
  ASSUME IInv, [Next]_vars
  PROVE  Consistent'
<1>1. ASSUME NEW p \in Process, Commit(p)
      PROVE  Apart(base'.watched) /\ base'.schema
  <2>1. Apart(base.watched)
    BY <1>1, CommitEffect, NoFileIsNoContent DEF IInv, Consistent
  <2>2. me[p].cmd = "add" => \E s \in Path : me[p].target = {s}
    BY <1>1, CommitEffect DEF Requestable
  <2>3. Apart({})
    BY DEF Apart
  <2>4. base'.schema
    BY <1>1, CommitEffect
  <2>5. \/ base'.watched = Topmost(me[p].conf)
        \/ /\ me[p].cmd = "add" /\ base'.watched = base.watched \cup me[p].target
           /\ \A s \in me[p].target, t \in base.watched : ~Overlaps(s, t)
        \/ base'.watched = base.watched \ me[p].target
        \/ base'.watched = {}
    BY <1>1, CommitEffect
  <2>6. CASE /\ me[p].cmd = "add" /\ base'.watched = base.watched \cup me[p].target
             /\ \A s \in me[p].target, t \in base.watched : ~Overlaps(s, t)
    BY <2>1, <2>2, <2>4, <2>6 DEF Apart, Overlaps
  <2>7. CASE base'.watched = base.watched \ me[p].target
    BY <2>1, <2>4, <2>7 DEF Apart
  <2> QED BY <2>3, <2>4, <2>5, <2>6, <2>7, TopmostApart
<1> QED BY <1>1, OtherSteps DEF Consistent

------------------------------------------------------------------------------
(* The theorems.                                                             *)

LEMMA InitInvariant == Init => IInv
<1> SUFFICES ASSUME Init PROVE IInv
  OBVIOUS
<1>1. TypeOK
  BY InitTyped
<1>2. Exclusive
  BY ProcessConstants DEF Init, Exclusive, Holding
<1>3. Consistent
  <2>1. \A C : /\ [EmptyDatabase EXCEPT !.watched = Topmost(C)].watched = Topmost(C)
               /\ [EmptyDatabase EXCEPT !.watched = Topmost(C)].schema
    BY DEF EmptyDatabase
  <2> QED BY <2>1, TopmostApart DEF Init, Consistent
<1>4. AllSound
  BY IdleIsSound DEF Init, AllSound
<1> QED BY <1>1, <1>2, <1>3, <1>4 DEF IInv

LEMMA StepInvariant == IInv /\ [Next]_vars => IInv'
BY StepTyped, StepExclusive, StepConsistent, StepSound DEF IInv

LEMMA Invariant == Spec => []IInv
BY InitInvariant, StepInvariant, PTL DEF Spec

\* Every variable keeps its type, however many processes run.
THEOREM ProcessTypes == Spec => []TypeOK
<1>1. IInv => TypeOK
  BY DEF IInv
<1> QED BY <1>1, Invariant, PTL

\* The tables are created once, before anybody uses them: the version checked
\* again under the lock is that of the file for as long as it is relied on.
THEOREM TablesAreCreatedOnce == Spec => []SchemaOnce
<1>1. IInv => SchemaOnce
  BY DEF IInv, AllSound, Sound, SchemaOnce, Opened, Ready
<1> QED BY <1>1, Invariant, PTL

\* A process ends its transaction with Commit, or with a setback that leaves the
\* database as it was.
LEMMA LeavesCommit ==
  ASSUME IInv, Next, NEW p \in Process, pc[p] = "commit", pc'[p] # "commit"
  PROVE  Commit(p) \/ base' = base
<1>1. PICK q \in Process : Begin(q) \/ Advance(q) \/ Setback(q)
  BY DEF Next, Outside, EditConfig, LoseConfig, LoseDatabase, procs
<1>2. q = p
  BY <1>1, StepFrame
<1> QED BY <1>1, <1>2 DEF Begin, TimerFires, UserRuns, Launch, Advance, StartUp, LookForConfig,
       LookForDatabase, LoadConfig, OpenDatabase, CheckVersion, BeginMigration, Recheck,
       CreateTables, NothingLost, AskForBaseline, Dispatch, Perform, BeginImmediate, WorkScan,
       WorkAdd, WorkRemove, WorkInit, WorkRefused, SaveConfig, Notify, Setback, DeclineInit,
       BusyTimeout, StepFails, Crash, files

\* main.go:255: a run that finds no fmon.toml when it starts is refused, or is an
\* add or an init: it drops no stored source, short of init.
THEOREM RunsWithoutConfigKeepSources == Spec => MissingConfigIsRefused
<1> DEFINE Kept == \A p \in Process :
             (/\ pc[p] = "commit" /\ pc'[p] # "commit"
              /\ ~me[p].hadConfig
              /\ me[p].cmd # "init")
             => Watching \subseteq Watching'
<1>1. IInv /\ [Next]_vars => [Kept]_vars
  <2> SUFFICES ASSUME IInv, Next, NEW p \in Process, pc[p] = "commit", pc'[p] # "commit",
                      ~me[p].hadConfig, me[p].cmd # "init"
               PROVE  Watching \subseteq Watching'
    OBVIOUS
  <2>1. Commit(p) \/ base' = base
    BY LeavesCommit
  <2>2. ASSUME Commit(p)
        PROVE  base' # NoFile /\ base # NoFile /\ base.watched \subseteq base'.watched
    BY <2>2, CommitEffect, NoFileIsNoContent
  <2> QED BY <2>1, <2>2 DEF Watching
<1> QED BY <1>1, Invariant, PTL DEF Spec, MissingConfigIsRefused

\* fmon.toml does not vanish between the look for it and its being read.
StaysWhileReading ==
  \A p \in Process :
    (pc[p] \in {"stat database", "load"} /\ me[p].hadConfig) => toml # NoFile

\* Whoever has found fmon.toml has read it.
Sighted ==
  \A p \in Process : me[p].blind => pc[p] # "stat config" /\ ~me[p].hadConfig

LEMMA StepSighted ==
  ASSUME IInv, StaysWhileReading, Sighted, [Next]_vars
  PROVE  Sighted'
<1>1. TypeOK
  BY DEF IInv
<1>2. CASE UNCHANGED <<pc, me>>
  BY <1>2 DEF Sighted
<1>3. ASSUME NEW p \in Process, Begin(p) \/ Advance(p) \/ Setback(p) PROVE Sighted'
  <2> DEFINE m == me[p]
             n == me'[p]
  <2>1. \A q \in Process : q # p => pc'[q] = pc[q] /\ me'[q] = me[q]
    BY <1>3, StepFrame
  <2>2. m \in Memory /\ (m.blind => pc[p] # "stat config" /\ ~m.hadConfig)
    BY <1>1 DEF TypeOK, Sighted
  <2>3. CASE ~n.blind
    BY <2>1, <2>3 DEF Sighted
  <2>4. CASE LoadConfig(p)
    <3>1. /\ n.blind <=> toml = NoFile
          /\ n.hadConfig = m.hadConfig /\ pc[p] = "load" /\ pc'[p] = "open"
      BY <1>1, <2>2, <2>4 DEF LoadConfig, Goto, Remember, TypeOK, Memory
    <3>2. n.blind => ~n.hadConfig
      BY <3>1 DEF StaysWhileReading
    <3> QED BY <2>1, <3>1, <3>2 DEF Sighted
  <2>5. CASE n.blind = m.blind /\ n.hadConfig = m.hadConfig /\ pc'[p] # "stat config"
    BY <2>1, <2>2, <2>5 DEF Sighted
  <2>6. CASE LookForConfig(p)
    BY <1>1, <2>2, <2>3, <2>6 DEF LookForConfig, Remember, TypeOK, Memory
  <2>7. CASE Exit(p) \/ Begin(p)
    <3>1. ~n.blind
      <4>1. n = Forgotten \/ \E c, T : n = [Forgotten EXCEPT !.cmd = c, !.target = T]
        BY <1>1, <2>7 DEF Exit, Begin, TimerFires, UserRuns, Launch, Remember, TypeOK
      <4>2. \A c, T : ~[Forgotten EXCEPT !.cmd = c, !.target = T].blind
        BY DEF Forgotten
      <4>3. ~Forgotten.blind
        BY DEF Forgotten
      <4> HIDE DEF n
      <4> QED BY <4>1, <4>2, <4>3
    <3> QED BY <2>3, <3>1
  <2>8. CASE LookForDatabase(p) \/ Recheck(p)
    <3>1. CASE ~Exit(p)
      <4>1. \/ n = [m EXCEPT !.hadDatabase = base # NoFile] /\ pc'[p] = "load"
            \/ n = [m EXCEPT !.outdated = ~base.schema] /\ pc'[p] = "create"
        BY <1>1, <2>8, <3>1 DEF LookForDatabase, Recheck, Goto, Remember, TypeOK
      <4> HIDE DEF m, n
      <4> QED BY <2>2, <2>5, <4>1 DEF Memory
    <3> QED BY <2>7, <3>1
  <2>9. CASE WorkScan(p) \/ WorkAdd(p) \/ WorkRemove(p) \/ WorkInit(p)
    <3>1. /\ pc'[p] \in {"save", "commit"}
          /\ \/ \E d, r : n = [m EXCEPT !.tx = d, !.rebuilt = r]
             \/ \E d, C : n = [m EXCEPT !.tx = d, !.conf = C]
      <4>1. CASE WorkScan(p)
        BY <1>1, <4>1 DEF WorkScan, Goto, Remember, TypeOK
      <4>2. CASE WorkAdd(p)
        BY <1>1, <4>2 DEF WorkAdd, Goto, Remember, TypeOK
      <4>3. CASE WorkRemove(p)
        BY <1>1, <4>3 DEF WorkRemove, Goto, Remember, TypeOK
      <4>4. CASE WorkInit(p)
        BY <1>1, <4>4 DEF WorkInit, Goto, Remember, TypeOK
      <4> QED BY <2>9, <4>1, <4>2, <4>3, <4>4
    <3> HIDE DEF m, n
    <3>2. n.blind = m.blind /\ n.hadConfig = m.hadConfig
      BY <2>2, <3>1 DEF Memory
    <3> QED BY <2>5, <3>1, <3>2
  <2>10. CASE n = m /\ pc'[p] # "stat config"
    BY <2>5, <2>10
  <2>11. \/ Exit(p) \/ Begin(p) \/ LookForConfig(p) \/ LookForDatabase(p) \/ LoadConfig(p)
         \/ Recheck(p) \/ WorkScan(p) \/ WorkAdd(p) \/ WorkRemove(p) \/ WorkInit(p)
         \/ n = m /\ pc'[p] # "stat config"
    BY <1>1, <1>3 DEF Advance, StartUp, OpenDatabase, CheckVersion, BeginMigration, CreateTables,
       NothingLost, AskForBaseline, Dispatch, Perform, BeginImmediate, WorkRefused, SaveConfig,
       Commit, Notify, Setback, DeclineInit, BusyTimeout, StepFails, Crash, Goto, TypeOK
  <2> QED BY <2>4, <2>6, <2>7, <2>8, <2>9, <2>10, <2>11
<1> QED BY <1>2, <1>3 DEF Next, Outside, EditConfig, LoseConfig, LoseDatabase, procs, vars

\* main.go:265, README: while fmon.toml does not vanish under a run that has just
\* found it, no command takes a missing file for an empty list: none drops a
\* stored source it was not asked to drop.
THEOREM MissingConfigKeepsSources ==
  Spec /\ []StaysWhileReading => MissingConfigDropsNothing
<1> DEFINE Kept == \A p \in Process :
             (/\ pc[p] = "commit" /\ pc'[p] # "commit"
              /\ me[p].blind
              /\ me[p].cmd # "init")
             => Watching \subseteq Watching' \cup me[p].target
<1>1. Init => Sighted
  BY DEF Init, Sighted, Forgotten
<1>2. IInv /\ StaysWhileReading /\ Sighted /\ [Next]_vars => Sighted'
  BY StepSighted
<1>3. IInv /\ Sighted /\ [Next]_vars => [Kept]_vars
  <2> SUFFICES ASSUME IInv, Sighted, Next, NEW p \in Process, pc[p] = "commit",
                      pc'[p] # "commit", me[p].blind, me[p].cmd # "init"
               PROVE  Watching \subseteq Watching'
    OBVIOUS
  <2>1. ~me[p].hadConfig
    BY DEF Sighted
  <2>2. Commit(p) \/ base' = base
    BY LeavesCommit
  <2>3. ASSUME Commit(p)
        PROVE  base' # NoFile /\ base # NoFile /\ base.watched \subseteq base'.watched
    BY <2>1, <2>3, CommitEffect, NoFileIsNoContent
  <2> QED BY <2>2, <2>3 DEF Watching
<1> QED BY <1>1, <1>2, <1>3, Invariant, PTL DEF Spec, MissingConfigDropsNothing

\* The commands of all processes act on the database one at a time and as a
\* whole: the processes implement FmonSerial.
THEOREM CommandsAreSerial == Spec => ActsSerially
<1>1. Init => Serial!SerialInit
  <2> SUFFICES ASSUME Init PROVE Serial!SerialInit
    OBVIOUS
  <2>1. Consistent
    BY InitInvariant DEF IInv
  <2>2. Apart(Watching)
    BY <2>1 DEF Consistent, Watching, Apart
  <2>3. ~Requested
    <3>1. \A C : ~[EmptyDatabase EXCEPT !.watched = Topmost(C)].request
      BY DEF EmptyDatabase
    <3> QED BY <3>1 DEF Init, Requested
  <2>4. Serial!Apart(Watching)
    BY <2>2 DEF Apart, Overlaps, Within, Serial!Apart, Serial!Overlaps, Serial!Within
  <2> QED BY <2>3, <2>4 DEF Init, Serial!SerialInit
<1>2. IInv /\ [Next]_vars => [Serial!SerialNext]_(Serial!serialVars)
  <2> SUFFICES ASSUME IInv, [Next]_vars
               PROVE  Serial!SerialNext \/ UNCHANGED <<Watching, Requested, last>>
    BY DEF Serial!serialVars
  <2>1. ASSUME NEW p \in Process, Commit(p)
        PROVE  Serial!SerialNext
    <3> DEFINE m == me[p]
    <3>1. /\ base # NoFile /\ base' # NoFile
          /\ base.request \in BOOLEAN /\ base'.request \in BOOLEAN
      BY <2>1, CommitEffect, NoFileIsNoContent DEF Database
    <3>2. /\ Watching = base.watched /\ Watching' = base'.watched
          /\ Requested <=> base.request
          /\ Requested' <=> base'.request
          /\ base'.request = base.request => Requested' = Requested
      BY <3>1 DEF Watching, Requested
    <3>3. CASE /\ last' = [cmd |-> "scan", what |-> m.conf]
               /\ base'.watched = Topmost(m.conf) /\ ~base'.request
      <4>1. m.conf \in SUBSET Path
        BY <2>1, CommitEffect
      <4>2. Serial!Reconcile(m.conf)
        BY <3>2, <3>3 DEF Serial!Reconcile, Serial!Topmost, Serial!Within, Topmost, Within
      <4> QED BY <4>1, <4>2 DEF Serial!SerialNext
    <3>4. CASE /\ m.cmd = "add" /\ last' = [cmd |-> "add", what |-> m.target]
               /\ base'.watched = base.watched \cup m.target
               /\ base'.request = base.request
               /\ \A s \in m.target, t \in base.watched : ~Overlaps(s, t)
      <4>1. PICK s \in Path : m.target = {s}
        BY <2>1, <3>4, CommitEffect DEF Requestable
      <4>2. Serial!Enlist(s)
        BY <3>2, <3>4, <4>1
           DEF Serial!Enlist, Serial!Overlaps, Serial!Within, Overlaps, Within
      <4> QED BY <4>2 DEF Serial!SerialNext
    <3>5. CASE /\ m.cmd = "rm" /\ last' = [cmd |-> "rm", what |-> m.target]
               /\ base'.watched = base.watched \ m.target
               /\ base'.request = base.request
      <4>1. PICK s \in Path : m.target = {s}
        BY <2>1, <3>5, CommitEffect DEF Requestable
      <4>2. Serial!Strike(s)
        BY <3>2, <3>5, <4>1 DEF Serial!Strike
      <4> QED BY <4>2 DEF Serial!SerialNext
    <3>6. CASE /\ last' = [cmd |-> "init", what |-> {}]
               /\ base'.watched = {} /\ ~base'.request
      BY <3>2, <3>6 DEF Serial!Wipe, Serial!SerialNext
    <3> QED BY <2>1, <3>3, <3>4, <3>5, <3>6, CommitEffect
  <2>2. CASE \A p \in Process : ~Commit(p)
    <3>1. CASE base' = NoFile
      <4>1. last' = last /\ Watching' = {} /\ Requested' = FALSE
        BY <2>2, <3>1, OtherSteps DEF Watching, Requested
      <4> QED BY <4>1 DEF Serial!Wipe, Serial!SerialNext
    <3>2. CASE Watching' = Watching /\ Requested' = TRUE
      BY <2>2, <3>2, OtherSteps DEF Serial!Ask, Serial!SerialNext
    <3>3. CASE Watching' = Watching /\ Requested' = Requested
      BY <2>2, <3>3, OtherSteps
    <3> QED BY <2>2, <3>1, <3>2, <3>3, OtherSteps
  <2> QED BY <2>1, <2>2
<1> QED BY <1>1, <1>2, Invariant, PTL DEF Spec, ActsSerially, Serial!SerialSpec

------------------------------------------------------------------------------
(* Runs that do not overlap.                                                 *)

\* No run begins while another goes on.
RunsApart == \A p, q \in Process : pc[p] # "idle" /\ pc[q] # "idle" => p = q

\* What LoadConfig reads from fmon.toml.
Listing(c) == IF c = NoFile THEN {} ELSE c

Loaded == {"open", "version", "migrate", "recheck", "create", "tripwire", "dispatch", "begin",
           "work"}

\* The list of a process is that of fmon.toml, if there still is one, but for its
\* own source.
Current(place, m, c) ==
  /\ (place \in Loaded /\ c # NoFile) => m.conf = c
  /\ (place \in {"save", "commit"} /\ c # NoFile) =>
       /\ m.cmd = "scan" => m.conf = c
       /\ m.cmd \in {"add", "rm"} => m.conf \ m.target = c \ m.target

UpToDate == \A p \in Process : Current(pc[p], me[p], toml)

\* While a process takes a step the others are idle.
LEMMA OthersAreIdle ==
  ASSUME IInv, RunsApart, RunsApart', NEW p \in Process, Begin(p) \/ Advance(p) \/ Setback(p),
         NEW q \in Process, q # p
  PROVE  pc[q] = "idle" /\ pc'[q] = "idle"
<1>1. pc'[q] = pc[q] /\ pc \in [Process -> Places]
  BY StepFrame DEF IInv, TypeOK
<1>2. CASE Begin(p)
  <2>1. pc'[p] = "stat config"
    BY <1>1, <1>2 DEF Begin, TimerFires, UserRuns, Launch, Goto
  <2> QED BY <1>1, <2>1 DEF RunsApart
<1>3. CASE Advance(p) \/ Setback(p)
  <2>1. pc[p] # "idle"
    BY <1>3 DEF Advance, StartUp, LookForConfig, LookForDatabase, LoadConfig, OpenDatabase,
       CheckVersion, BeginMigration, Recheck, CreateTables, NothingLost, AskForBaseline, Dispatch,
       Perform, BeginImmediate, WorkScan, WorkAdd, WorkRemove, WorkInit, WorkRefused, SaveConfig,
       Commit, Notify, Setback, DeclineInit, BusyTimeout, StepFails, Crash
  <2> QED BY <1>1, <2>1 DEF RunsApart
<1> QED BY <1>2, <1>3

\* A process that goes on keeps to the list it has loaded.
LEMMA AdvanceIsCurrent ==
  ASSUME IInv, NEW p \in Process, Current(pc[p], me[p], toml), Advance(p)
  PROVE  Current(pc'[p], me'[p], toml')
<1> DEFINE m == me[p]
           n == me'[p]
<1>1. m \in Memory /\ TypeOK
  BY DEF IInv, TypeOK
<1>2. CASE LookForConfig(p) \/ LookForDatabase(p)
  BY <1>1, <1>2 DEF LookForConfig, LookForDatabase, Exit, Goto, TypeOK, Current, Loaded
<1>3. CASE LoadConfig(p)
  BY <1>1, <1>3 DEF LoadConfig, Goto, Remember, TypeOK, Memory, Current, Loaded, Listing, files
<1>4. CASE \/ OpenDatabase(p) \/ CheckVersion(p) \/ BeginMigration(p) \/ CreateTables(p)
           \/ NothingLost(p) \/ AskForBaseline(p) \/ Dispatch(p) \/ BeginImmediate(p)
  <2>1. pc'[p] \in Loaded => pc[p] \in Loaded
    BY <1>1, <1>4 DEF OpenDatabase, CheckVersion, BeginMigration, CreateTables, NothingLost,
       AskForBaseline, Dispatch, BeginImmediate, Exit, Goto, Loaded, TypeOK
  <2>2. pc'[p] \notin {"save", "commit"}
    BY <1>1, <1>4 DEF OpenDatabase, CheckVersion, BeginMigration, CreateTables, NothingLost,
       AskForBaseline, Dispatch, BeginImmediate, Exit, Goto, TypeOK
  <2>3. pc'[p] \in Loaded => n = m /\ toml' = toml
    BY <1>1, <1>4 DEF OpenDatabase, CheckVersion, BeginMigration, CreateTables, NothingLost,
       AskForBaseline, Dispatch, BeginImmediate, Exit, Goto, Loaded, TypeOK, files
  <2> QED BY <2>1, <2>2, <2>3 DEF Current
<1>5. CASE Recheck(p)
  <2>1. n.conf = m.conf /\ pc'[p] = "create" /\ pc[p] = "recheck" /\ toml' = toml
    BY <1>1, <1>5 DEF Recheck, Goto, Remember, TypeOK, Memory, files
  <2> QED BY <2>1 DEF Current, Loaded
<1>6. CASE WorkScan(p)
  <2>1. /\ n.conf = m.conf /\ n.cmd = "scan" /\ toml' = toml
        /\ pc'[p] = "commit" /\ pc[p] = "work"
    BY <1>1, <1>6 DEF WorkScan, Goto, Remember, TypeOK, Memory, files
  <2> QED BY <2>1 DEF Current, Loaded
<1>7. CASE WorkAdd(p)
  <2>1. /\ n.conf = m.conf \cup m.target /\ n.target = m.target /\ n.cmd = "add" /\ toml' = toml
        /\ pc'[p] = "save" /\ pc[p] = "work"
    BY <1>1, <1>7 DEF WorkAdd, Goto, Remember, TypeOK, Memory, files
  <2> QED BY <2>1 DEF Current, Loaded
<1>8. CASE WorkRemove(p)
  <2>1. /\ n.conf = m.conf \ m.target /\ n.target = m.target /\ n.cmd = "rm" /\ toml' = toml
        /\ pc'[p] = "save" /\ pc[p] = "work"
    BY <1>1, <1>8 DEF WorkRemove, Goto, Remember, TypeOK, Memory, files
  <2> QED BY <2>1 DEF Current, Loaded
<1>9. CASE WorkInit(p)
  <2>1. n.cmd = "init" /\ pc'[p] = "save"
    BY <1>1, <1>9 DEF WorkInit, Goto, Remember, TypeOK, Memory
  <2> QED BY <2>1 DEF Current, Loaded
<1>10. CASE SaveConfig(p)
  <2>1. n = m /\ toml' = m.conf /\ pc'[p] = "commit" /\ m.conf # NoFile
    BY <1>1, <1>10, NoFileIsNoContent DEF SaveConfig, Goto, TypeOK, Memory
  <2> QED BY <2>1 DEF Current, Loaded, Listing
<1>11. CASE WorkRefused(p) \/ Commit(p) \/ Notify(p)
  BY <1>1, <1>11 DEF WorkRefused, Commit, Notify, Exit, Goto, TypeOK, Current, Loaded
<1> QED BY <1>2, <1>3, <1>4, <1>5, <1>6, <1>7, <1>8, <1>9, <1>10, <1>11
        DEF Advance, StartUp, Perform

LEMMA StepUpToDate ==
  ASSUME "edit during a run" \notin Accidents,
         IInv, RunsApart, RunsApart', UpToDate, [Next]_vars
  PROVE  UpToDate'
<1>1. \A m, c : Current("idle", m, c) /\ Current("stat config", m, c)
  BY DEF Current, Loaded
<1>2. ASSUME NEW p \in Process, Begin(p) \/ Advance(p) \/ Setback(p) PROVE UpToDate'
  <2>1. Current(pc'[p], me'[p], toml')
    <3>1. CASE Advance(p)
      BY <3>1, AdvanceIsCurrent DEF UpToDate
    <3>2. CASE Begin(p) \/ Setback(p)
      <4>1. pc'[p] \in {"idle", "stat config"}
        BY <3>2 DEF IInv, TypeOK, Begin, TimerFires, UserRuns, Launch, Setback, DeclineInit,
           BusyTimeout, StepFails, Crash, Exit, Goto
      <4> QED BY <1>1, <4>1
    <3> QED BY <1>2, <3>1, <3>2
  <2>2. \A q \in Process : q # p => pc'[q] = "idle"
    BY <1>2, OthersAreIdle
  <2> QED BY <1>1, <2>1, <2>2 DEF UpToDate
<1>3. CASE (\E c \in ConfigChoices : EditConfig(c)) \/ LoseConfig
  <2>1. toml' = NoFile \/ \A q \in Process : pc'[q] = "idle"
    BY <1>3 DEF EditConfig, LoseConfig, procs
  <2> QED BY <1>1, <2>1 DEF UpToDate, Current
<1>4. CASE LoseDatabase \/ UNCHANGED vars
  BY <1>4 DEF LoseDatabase, procs, files, vars, UpToDate
<1> QED BY <1>2, <1>3, <1>4 DEF Next, Outside

\* main.go:265, README: where no run begins and nobody edits fmon.toml while
\* another run goes on, no command changes more of fmon.toml than its own source,
\* and no scan drops a source that fmon.toml lists.
THEOREM SeparateRunsDoNotUndoEachOther ==
  ASSUME "edit during a run" \notin Accidents
  PROVE  Spec /\ []RunsApart => RunsDoNotUndoEachOther
<1> DEFINE Kept ==
      /\ \A p \in Process :
           (pc[p] = "save" /\ pc'[p] = "commit" /\ me[p].cmd \in {"add", "rm"} /\ toml # NoFile)
             => toml' \ me[p].target = toml \ me[p].target
      /\ (last' # last /\ last'.cmd = "scan" /\ toml # NoFile)
           => \A s \in Watching \ Watching' : s \notin Topmost(toml)
<1>1. Init => UpToDate
  BY DEF Init, UpToDate, Current, Loaded
<1>2. IInv /\ RunsApart /\ RunsApart' /\ UpToDate /\ [Next]_vars => UpToDate'
  BY StepUpToDate
<1>3. IInv /\ UpToDate /\ [Next]_vars => [Kept]_vars
  <2> SUFFICES ASSUME IInv, UpToDate, Next PROVE Kept
    OBVIOUS
  <2>1. ASSUME NEW p \in Process, pc[p] = "save", pc'[p] = "commit",
               me[p].cmd \in {"add", "rm"}, toml # NoFile
        PROVE  toml' \ me[p].target = toml \ me[p].target
    <3>1. SaveConfig(p)
      <4>1. PICK q \in Process : Begin(q) \/ Advance(q) \/ Setback(q)
        BY <2>1 DEF Next, Outside, EditConfig, LoseConfig, LoseDatabase, procs
      <4>2. q = p
        BY <2>1, <4>1, StepFrame
      <4> QED BY <2>1, <4>1, <4>2 DEF IInv, TypeOK, Begin, TimerFires, UserRuns, Launch, Advance,
              StartUp, LookForConfig, LookForDatabase, LoadConfig, OpenDatabase, CheckVersion,
              BeginMigration, Recheck, CreateTables, NothingLost, AskForBaseline, Dispatch, Perform,
              BeginImmediate, WorkScan, WorkAdd, WorkRemove, WorkInit, WorkRefused, Commit, Notify,
              Setback, DeclineInit, BusyTimeout, StepFails, Crash, Exit, Goto
    <3>2. me[p].conf \ me[p].target = toml \ me[p].target
      BY <2>1 DEF UpToDate, Current, Listing
    <3> QED BY <3>1, <3>2 DEF SaveConfig
  <2>2. ASSUME last' # last, last'.cmd = "scan", toml # NoFile
        PROVE  \A s \in Watching \ Watching' : s \notin Topmost(toml)
    <3>1. PICK p \in Process : Commit(p)
      BY <2>2, OtherSteps
    <3>2. me[p].cmd = "scan" /\ pc[p] = "commit"
      BY <2>2, <3>1, CommitEffect DEF Commit
    <3>3. me[p].conf = toml
      BY <2>2, <3>2 DEF UpToDate, Current, Listing
    <3>4. base' # NoFile /\ base'.watched = Topmost(me[p].conf)
      BY <3>1, <3>2, CommitEffect
    <3> QED BY <3>3, <3>4 DEF Watching
  <2> QED BY <2>1, <2>2
<1> QED BY <1>1, <1>2, <1>3, Invariant, PTL DEF Spec, RunsDoNotUndoEachOther

------------------------------------------------------------------------------
(* The loss of the database.                                                 *)

\* What must not happen: a process that is killed, a list that is lost or
\* emptied, a database that is lost between two looks at it.
Careful ==
  /\ Accidents \cap {"crash", "lost config", "loss during a run"} = {}
  /\ "rm" \notin Commands
  /\ {} \notin ConfigChoices

\* Between the open and the tripwire.
Noting == {"version", "migrate", "recheck", "create", "tripwire"}

\* What a process has noticed of the database d; t tells whether every loss of it
\* has been reported.
Noticed(place, m, d, t) ==
  /\ m.cmd # "rm"
  /\ place \in {"load", "open"} => (m.hadDatabase <=> d # NoFile)
  /\ place = "save" => m.cmd \in {"add", "init"} /\ (m.cmd = "add" => m.conf # {})
  /\ place = "commit" /\ m.cmd = "scan" => m.rebuilt = d.request
  /\ ~t =>
       /\ place \in {"stat database", "load", "open"} => m.hadConfig
       /\ place = "open" => m.conf # {}

\* The loss is still to be noticed, or is being noticed, or is requested, or init
\* is about to make it void.
Awaited ==
  \/ told
  \/ \E p \in Process : pc[p] = "commit" /\ me[p].cmd = "init"
  \/ /\ toml # NoFile /\ toml # {}
     /\ \/ base = NoFile
        \/ base # NoFile /\ base.request
        \/ \E p \in Process : pc[p] \in Noting /\ Lost(me[p])

LInv == Awaited /\ \A p \in Process : Noticed(pc[p], me[p], base, told)

\* Nobody else holds the lock of a process that runs alone.
LEMMA LockIsFree ==
  ASSUME IInv, NEW p \in Process, \A q \in Process : q # p => pc[q] = "idle",
         pc[p] \notin Holding
  PROVE  lock = Nobody
<1>1. lock \in Process \cup {Nobody} /\ Exclusive
  BY DEF IInv, TypeOK
<1>2. \A q \in Process : pc[q] \notin Holding
  BY DEF Holding
<1> QED BY <1>1, <1>2 DEF Exclusive

\* A process that goes on notices what it should.
LEMMA AdvanceNotices ==
  ASSUME Careful, IInv, LInv, NEW p \in Process, \A q \in Process : q # p => pc[q] = "idle",
         Advance(p)
  PROVE  Noticed(pc'[p], me'[p], base', told')
<1> DEFINE m == me[p]
           n == me'[p]
<1>1. m \in Memory /\ TypeOK /\ Noticed(pc[p], m, base, told) /\ Sound(pc[p], m, base)
  BY DEF IInv, AllSound, TypeOK, LInv
<1>2. Exit(p) => pc'[p] = "idle" /\ n.cmd = "none"
  BY <1>1 DEF Exit, Goto, Remember, Forgotten, TypeOK
<1>3. CASE LookForConfig(p)
  <2>1. /\ n.cmd = m.cmd /\ n.hadConfig = (toml # NoFile) /\ pc'[p] = "stat database"
        /\ told' = told /\ pc[p] = "stat config"
    BY <1>1, <1>3 DEF LookForConfig, Goto, Remember, TypeOK, Memory, observers
  <2>2. ~told => toml # NoFile
    BY <2>1 DEF LInv, Awaited
  <2> QED BY <1>1, <2>1, <2>2 DEF Noticed
<1>4. CASE LookForDatabase(p)
  <2>1. CASE Exit(p)
    BY <1>2, <2>1 DEF Noticed
  <2>2. CASE ~Exit(p)
    <3>1. /\ n.cmd = m.cmd /\ n.hadConfig = m.hadConfig /\ n.hadDatabase = (base # NoFile)
          /\ pc'[p] = "load" /\ pc[p] = "stat database" /\ base' = base /\ told' = told
      <4>1. /\ Goto(p, "load") /\ Remember(p, [m EXCEPT !.hadDatabase = base # NoFile])
            /\ pc[p] = "stat database" /\ base' = base /\ told' = told
        BY <1>4, <2>2 DEF LookForDatabase, files, observers
      <4>2. n = [m EXCEPT !.hadDatabase = base # NoFile] /\ pc'[p] = "load"
        BY <1>1, <4>1 DEF Goto, Remember, TypeOK
      <4> HIDE DEF m, n
      <4> QED BY <1>1, <4>1, <4>2 DEF Memory
    <3> QED BY <1>1, <3>1 DEF Noticed
  <2> QED BY <2>1, <2>2
<1>5. CASE LoadConfig(p)
  <2>1. /\ n.cmd = m.cmd /\ n.hadConfig = m.hadConfig /\ n.hadDatabase = m.hadDatabase
        /\ n.conf = Listing(toml)
        /\ pc'[p] = "open" /\ pc[p] = "load" /\ base' = base /\ told' = told
    BY <1>1, <1>5 DEF LoadConfig, Goto, Remember, TypeOK, Memory, files, observers, Listing
  <2>2. ~told => toml # NoFile /\ toml # {}
    BY <2>1 DEF LInv, Awaited
  <2> QED BY <1>1, <2>1, <2>2 DEF Noticed, Listing
<1>6. CASE \/ OpenDatabase(p) \/ CheckVersion(p) \/ BeginMigration(p) \/ CreateTables(p)
           \/ NothingLost(p) \/ AskForBaseline(p) \/ Dispatch(p) \/ BeginImmediate(p)
  <2>1. n.cmd # "rm"
    <3>1. me' = me \/ Exit(p)
      BY <1>6 DEF OpenDatabase, CheckVersion, BeginMigration, CreateTables, NothingLost,
         AskForBaseline, Dispatch, BeginImmediate
    <3> QED BY <1>1, <1>2, <3>1 DEF Noticed
  <2>2. pc'[p] \notin {"stat database", "load", "open", "save", "commit"}
    BY <1>1, <1>6 DEF OpenDatabase, CheckVersion, BeginMigration, CreateTables, NothingLost,
       AskForBaseline, Dispatch, BeginImmediate, Exit, Goto, TypeOK
  <2> QED BY <2>1, <2>2 DEF Noticed
<1>7. CASE Recheck(p)
  <2>1. n.cmd = m.cmd /\ pc'[p] = "create"
    BY <1>1, <1>7 DEF Recheck, Goto, Remember, TypeOK, Memory
  <2> QED BY <1>1, <2>1 DEF Noticed
<1>8. CASE WorkScan(p)
  <2>1. n.cmd = m.cmd /\ n.rebuilt = base.request /\ pc'[p] = "commit" /\ base' = base
    BY <1>1, <1>8 DEF WorkScan, Goto, Remember, TypeOK, Memory, files
  <2> QED BY <1>1, <2>1 DEF Noticed
<1>9. CASE WorkAdd(p)
  <2>1. n.cmd = "add" /\ n.conf = m.conf \cup m.target /\ pc'[p] = "save" /\ pc[p] = "work"
        /\ m.cmd = "add"
    BY <1>1, <1>9 DEF WorkAdd, Goto, Remember, TypeOK, Memory
  <2>2. m.target # {}
    BY <1>1, <2>1 DEF Sound, Requestable
  <2> QED BY <1>1, <2>1, <2>2 DEF Noticed
<1>10. CASE WorkRemove(p)
  BY <1>1, <1>10 DEF WorkRemove, Noticed
<1>11. CASE WorkInit(p)
  <2>1. n.cmd = "init" /\ pc'[p] = "save"
    BY <1>1, <1>11 DEF WorkInit, Goto, Remember, TypeOK, Memory
  <2> QED BY <2>1 DEF Noticed
<1>12. CASE SaveConfig(p)
  <2>1. n = m /\ pc'[p] = "commit" /\ pc[p] = "save"
    BY <1>1, <1>12 DEF SaveConfig, Goto, TypeOK
  <2> QED BY <1>1, <2>1 DEF Noticed
<1>13. CASE WorkRefused(p) \/ Commit(p) \/ Notify(p)
  <2>1. Exit(p) \/ (Goto(p, "notify") /\ me' = me)
    BY <1>13 DEF WorkRefused, Commit, Notify
  <2>2. pc'[p] \in {"idle", "notify"} /\ n.cmd # "rm"
    BY <1>1, <1>2, <2>1 DEF Goto, TypeOK, Noticed
  <2> QED BY <2>2 DEF Noticed
<1> QED BY <1>3, <1>4, <1>5, <1>6, <1>7, <1>8, <1>9, <1>10, <1>11, <1>12, <1>13
        DEF Advance, StartUp, Perform

\* It forgets no loss.
LEMMA AdvanceAwaits ==
  ASSUME Careful, IInv, LInv, NEW p \in Process, \A q \in Process : q # p => pc[q] = "idle",
         Advance(p)
  PROVE  Awaited'
<1> DEFINE m == me[p]
<1>1. /\ m \in Memory /\ TypeOK /\ Noticed(pc[p], m, base, told) /\ Sound(pc[p], m, base)
      /\ Consistent
  BY DEF IInv, AllSound, TypeOK, LInv
<1>2. CASE Commit(p)
  <2>1. told' = (told \/ m.rebuilt \/ m.cmd = "init") /\ pc[p] = "commit" /\ toml' = toml
    BY <1>2 DEF Commit
  <2>2. CASE told \/ m.cmd = "init"
    BY <2>1, <2>2 DEF Awaited
  <2>3. CASE ~told /\ m.cmd # "init"
    <3>1. toml # NoFile /\ toml # {} /\ base.request
      BY <1>1, <2>1, <2>3 DEF LInv, Awaited, Noting, Sound, Opened
    <3>2. CASE m.cmd = "scan"
      BY <1>1, <2>1, <3>1, <3>2 DEF Noticed, Awaited
    <3>3. CASE m.cmd = "add"
      BY <1>2, <2>1, <3>1, <3>3, CommitEffect DEF Awaited
    <3> QED BY <1>1, <1>2, <2>3, <3>2, <3>3, CommitEffect DEF Noticed
  <2> QED BY <2>2, <2>3
<1>3. CASE ~Commit(p)
  <2>1. told' = told
    BY <1>3 DEF Advance, StartUp, LookForConfig, LookForDatabase, LoadConfig, OpenDatabase,
       CheckVersion, BeginMigration, Recheck, CreateTables, NothingLost, AskForBaseline, Dispatch,
       Perform, BeginImmediate, WorkScan, WorkAdd, WorkRemove, WorkInit, WorkRefused, SaveConfig,
       Notify, observers
  <2>2. pc[p] # "commit"
    BY <1>3 DEF Advance, StartUp, LookForConfig, LookForDatabase, LoadConfig, OpenDatabase,
       CheckVersion, BeginMigration, Recheck, CreateTables, NothingLost, AskForBaseline, Dispatch,
       Perform, BeginImmediate, WorkScan, WorkAdd, WorkRemove, WorkInit, WorkRefused, SaveConfig,
       Notify
  <2> SUFFICES ASSUME ~told PROVE Awaited'
    BY <2>1 DEF Awaited
  <2>3. /\ toml # NoFile /\ toml # {}
        /\ \/ base = NoFile
           \/ base # NoFile /\ base.request
           \/ pc[p] \in Noting /\ Lost(m)
    BY <2>2 DEF LInv, Awaited, Noting
  <2>4. CASE SaveConfig(p)
    <3>1. toml' = m.conf /\ base' = base /\ pc[p] = "save" /\ pc'[p] = "commit" /\ me' = me
      BY <1>1, <2>4 DEF SaveConfig, Goto, TypeOK
    <3>2. base # NoFile /\ base.request /\ m.conf # NoFile
      BY <1>1, <2>3, <3>1, NoFileIsNoContent DEF Sound, Opened, Noting, Memory
    <3>3. CASE m.cmd = "init"
      BY <3>1, <3>3 DEF Awaited
    <3>4. CASE m.cmd = "add"
      BY <1>1, <3>1, <3>2, <3>4 DEF Awaited, Noticed
    <3> QED BY <1>1, <3>1, <3>3, <3>4 DEF Noticed
  <2>5. CASE OpenDatabase(p)
    <3>1. /\ me' = me /\ toml' = toml /\ pc[p] = "open" /\ pc'[p] = "version"
          /\ base' = IF base = NoFile THEN NewFile ELSE base
      BY <1>1, <2>5 DEF OpenDatabase, Goto, TypeOK
    <3>2. CASE base = NoFile
      <4>1. Lost(m)
        BY <1>1, <3>1, <3>2 DEF Noticed, Lost
      <4> QED BY <2>3, <3>1, <4>1 DEF Awaited, Noting
    <3>3. CASE base # NoFile
      BY <2>3, <3>1, <3>3 DEF Awaited, Noting
    <3> QED BY <3>2, <3>3
  <2>6. CASE AskForBaseline(p)
    <3>1. base \in Database /\ base' = [base EXCEPT !.request = TRUE] /\ toml' = toml
      BY <1>1, <2>6 DEF AskForBaseline, Sound, Opened, TypeOK
    <3>2. base' \in Database /\ base'.request
      BY <3>1, DatabaseTypes DEF Database
    <3> QED BY <2>3, <3>1, <3>2, NoFileIsNoContent DEF Awaited
  <2>7. CASE NothingLost(p)
    BY <1>1, <2>3, <2>7 DEF NothingLost, Sound, Opened, files, Awaited, Noting
  <2>8. CASE CreateTables(p)
    <3>1. /\ me' = me /\ toml' = toml /\ pc[p] = "create" /\ pc'[p] = "tripwire"
          /\ base' = IF m.outdated THEN EmptyDatabase ELSE base
      BY <1>1, <2>8 DEF CreateTables, Goto, TypeOK
    <3>2. CASE base # NoFile /\ base.request
      <4>1. base.schema
        BY <1>1, <3>2 DEF Consistent, NewFile
      <4> QED BY <1>1, <2>3, <3>1, <3>2, <4>1 DEF Sound, Awaited
    <3>3. CASE Lost(m)
      BY <2>3, <3>1, <3>3 DEF Awaited, Noting
    <3> QED BY <1>1, <2>3, <3>1, <3>2, <3>3 DEF Sound, Opened
  <2>9. CASE CheckVersion(p) \/ BeginMigration(p) \/ Recheck(p)
    <3>1. /\ toml' = toml /\ base' = base /\ pc[p] \in Noting /\ pc'[p] \in Noting
      BY <1>1, <2>9 DEF CheckVersion, BeginMigration, Recheck, Goto, TypeOK, files, Noting
    <3>2. Lost(m) => Lost(me'[p])
      BY <1>1, <2>9 DEF CheckVersion, BeginMigration, Recheck, Remember, TypeOK, Memory, Lost
    <3> QED BY <2>3, <3>1, <3>2 DEF Awaited
  <2>10. CASE \/ LookForConfig(p) \/ LookForDatabase(p) \/ LoadConfig(p) \/ Dispatch(p)
              \/ BeginImmediate(p) \/ WorkScan(p) \/ WorkAdd(p) \/ WorkRemove(p) \/ WorkInit(p)
              \/ WorkRefused(p) \/ Notify(p)
    <3>1. toml' = toml /\ base' = base /\ pc[p] \notin Noting
      BY <2>10 DEF LookForConfig, LookForDatabase, LoadConfig, Dispatch, BeginImmediate, WorkScan,
         WorkAdd, WorkRemove, WorkInit, WorkRefused, Notify, files, Noting
    <3> QED BY <2>3, <3>1 DEF Awaited
  <2> QED BY <1>3, <2>4, <2>5, <2>6, <2>7, <2>8, <2>9, <2>10 DEF Advance, StartUp, Perform
<1> QED BY <1>2, <1>3

\* Nor does what happens between the runs.
LEMMA StepLInv ==
  ASSUME Careful, IInv, RunsApart, RunsApart', LInv, [Next]_vars
  PROVE  LInv'
<1>1. \A m, d, t : m.cmd # "rm" => Noticed("idle", m, d, t)
  BY DEF Noticed
<1>2. TypeOK /\ \A p \in Process : me[p].cmd # "rm"
  BY DEF IInv, LInv, Noticed
<1>3. ASSUME NEW p \in Process, Advance(p) PROVE LInv'
  <2>1. \A q \in Process : q # p => pc[q] = "idle" /\ pc'[q] = "idle" /\ me'[q] = me[q]
    BY <1>3, OthersAreIdle, StepFrame
  <2>2. Noticed(pc'[p], me'[p], base', told') /\ Awaited'
    BY <1>3, <2>1, AdvanceNotices, AdvanceAwaits
  <2> QED BY <1>1, <1>2, <2>1, <2>2 DEF LInv
<1>4. ASSUME NEW p \in Process, Begin(p) PROVE LInv'
  <2>1. \A q \in Process : q # p => pc[q] = "idle" /\ pc'[q] = "idle" /\ me'[q] = me[q]
    BY <1>4, OthersAreIdle, StepFrame
  <2>2. PICK cmd, T : cmd \in {"scan", "init", "list", "add"} /\ Launch(p, cmd, T)
    <3>1. CASE TimerFires(p)
      BY <3>1 DEF TimerFires
    <3>2. ASSUME NEW cmd \in {"scan", "init", "list", "add", "rm"}, NEW T, UserRuns(p, cmd, T)
          PROVE  Launch(p, cmd, T) /\ cmd # "rm"
      BY <3>2 DEF UserRuns, Careful
    <3>3. CASE \E cmd \in {"scan", "init", "list", "add", "rm"} : \E T : UserRuns(p, cmd, T)
      <4>1. PICK cmd, T : cmd \in {"scan", "init", "list", "add", "rm"} /\ UserRuns(p, cmd, T)
        BY <3>3
      <4> QED BY <3>2, <4>1
    <3> QED BY <1>4, <3>1, <3>3 DEF Begin
  <2>3. /\ pc[p] = "idle" /\ pc'[p] = "stat config" /\ me'[p].cmd = cmd
        /\ UNCHANGED <<toml, base, told>>
    BY <1>2, <2>2 DEF Launch, Goto, Remember, Forgotten, TypeOK, files, observers
  <2>4. Awaited'
    BY <2>1, <2>3 DEF LInv, Awaited, Noting
  <2>5. Noticed(pc'[p], me'[p], base', told')
    BY <2>2, <2>3 DEF Noticed
  <2>6. \A q \in Process : q # p => Noticed(pc'[q], me'[q], base', told')
    BY <1>1, <1>2, <2>1
  <2> QED BY <2>4, <2>5, <2>6 DEF LInv
<1>5. ASSUME NEW p \in Process, Setback(p) PROVE LInv'
  <2>1. \A q \in Process : q # p => pc[q] = "idle" /\ pc'[q] = "idle" /\ me'[q] = me[q]
    BY <1>5, OthersAreIdle, StepFrame
  <2>2. Exit(p) /\ UNCHANGED <<toml, base, told>>
    BY <1>5 DEF Setback, DeclineInit, BusyTimeout, StepFails, Crash, files, observers
  <2>3. pc'[p] = "idle" /\ me'[p].cmd # "rm"
    BY <1>2, <2>2 DEF Exit, Goto, Remember, Forgotten, TypeOK
  <2>4. pc[p] \notin Noting \cup {"commit"}
    <3>1. CASE BusyTimeout(p)
      <4>1. lock # Nobody
        BY <3>1 DEF BusyTimeout
      <4>2. pc[p] \in Holding
        BY <2>1, <4>1, LockIsFree
      <4> QED BY <3>1, <4>2 DEF BusyTimeout, Holding
    <3>2. CASE DeclineInit(p) \/ StepFails(p)
      BY <3>2 DEF DeclineInit, StepFails, Noting
    <3> QED BY <1>5, <3>1, <3>2 DEF Setback, Crash, Careful
  <2>5. Awaited'
    BY <2>1, <2>2, <2>4 DEF LInv, Awaited, Noting
  <2> QED BY <1>1, <1>2, <2>1, <2>3, <2>5 DEF LInv
<1>6. ASSUME NEW c \in ConfigChoices, EditConfig(c) PROVE LInv'
  <2>1. toml' = c /\ UNCHANGED <<base, pc, me, told>> /\ c # NoFile /\ c # {}
    BY <1>6, ProcessConstants, NoFileIsNoContent DEF EditConfig, Careful, procs, observers
  <2> QED BY <2>1 DEF LInv, Awaited, Noticed
<1>7. CASE LoseDatabase
  <2>1. /\ \A p \in Process : pc[p] = "idle"
        /\ UNCHANGED <<toml, pc, me>> /\ base' = NoFile
        /\ told' = (told /\ (toml = NoFile \/ toml = {}))
    BY <1>7 DEF LoseDatabase, Careful, procs
  <2>2. ~told => toml # NoFile /\ toml # {}
    BY <2>1 DEF LInv, Awaited
  <2> QED BY <1>1, <1>2, <2>1, <2>2 DEF LInv, Awaited
<1>8. CASE UNCHANGED vars
  BY <1>8 DEF vars, files, procs, observers, LInv, Awaited
<1>9. ~LoseConfig
  BY DEF LoseConfig, Careful
<1> QED BY <1>3, <1>4, <1>5, <1>6, <1>7, <1>8, <1>9 DEF Next, Outside

\* main.go:286, README: where the runs do not overlap and what Careful excludes
\* does not happen, the first scan that completes after a loss of fmon.db says so,
\* however many other commands, edits and failures there were before it.
THEOREM CarefulLossIsReported ==
  ASSUME Careful
  PROVE  Spec /\ []RunsApart => LossIsReported
<1> DEFINE Reported == \A p \in Process :
             (pc[p] = "commit" /\ pc'[p] = "notify" /\ ~told) => me[p].rebuilt
<1>1. Init => LInv
  BY DEF Init, LInv, Awaited, Noticed, Forgotten
<1>2. IInv /\ RunsApart /\ RunsApart' /\ LInv /\ [Next]_vars => LInv'
  BY StepLInv
<1>3. IInv /\ RunsApart /\ LInv /\ [Next]_vars => [Reported]_vars
  <2> SUFFICES ASSUME IInv, RunsApart, LInv, Next, NEW p \in Process,
                      pc[p] = "commit", pc'[p] = "notify", ~told
               PROVE  me[p].rebuilt
    OBVIOUS
  <2>1. PICK q \in Process : Begin(q) \/ Advance(q) \/ Setback(q)
    BY DEF Next, Outside, EditConfig, LoseConfig, LoseDatabase, procs
  <2>2. q = p
    BY <2>1, StepFrame
  <2>3. Commit(p) /\ me[p].cmd = "scan"
    BY <2>1, <2>2 DEF IInv, TypeOK, Begin, TimerFires, UserRuns, Launch, Advance,
       StartUp, LookForConfig, LookForDatabase, LoadConfig, OpenDatabase, CheckVersion,
       BeginMigration, Recheck, CreateTables, NothingLost, AskForBaseline, Dispatch, Perform,
       BeginImmediate, WorkScan, WorkAdd, WorkRemove, WorkInit, WorkRefused, SaveConfig, Commit,
       Notify, Setback, DeclineInit, BusyTimeout, StepFails, Crash, Exit, Goto
  <2>4. \A r \in Process : pc[r] # "idle" => r = p
    BY DEF RunsApart
  <2>5. base # NoFile
    BY DEF IInv, AllSound, Sound, Opened
  <2>6. base.request
    BY <2>3, <2>4, <2>5 DEF LInv, Awaited, Noting
  <2> QED BY <2>3, <2>6 DEF LInv, Noticed
<1> QED BY <1>1, <1>2, <1>3, Invariant, PTL DEF Spec, LossIsReported
================================================================================
