---------------------------- MODULE FmonScan_proofs ----------------------------
(***************************************************************************)
(* Proofs about FmonScan for every value of its constants: type            *)
(* correctness, one owner for every stored row, and the soundness of the   *)
(* stat shortcut.  All three follow from one inductive invariant, IInv.    *)
(***************************************************************************)
EXTENDS FmonScanProps, SequenceTheorems, TLAPS

\* Where the run stands: what it has planned is watched, and the walk stays
\* inside its source.
RunInside ==
  /\ run.plan \subseteq Watched(tx)
  /\ pc = "idle" => run.plan = {}
  /\ run.cmd \in {"add", "rm"} => run.target \in Path
  /\ pc \in {"root", "walk", "hash"} =>
       /\ walk.src \in Watched(tx)
       /\ \A i \in walk.todo : i.path \in Tree(walk.src)
  /\ pc = "hash" => walk.file \in Stat /\ walk.file.path \in Tree(walk.src)

\* OneOwner of a database d.
Owned(d) ==
  /\ \A s, t \in Watched(d) : s # t => ~Overlaps(s, t)
  /\ \A p \in Path :
       d.files[p] # Nil => /\ d.files[p].src \in Watched(d)
                           /\ p \in Tree(d.files[p].src)

\* A stored row is never from the future, and if its stamp is that of the file
\* on disk then so is its hash.
Stamped(d) ==
  \A p \in Path :
    d.files[p] # Nil =>
      /\ d.files[p].mtime <= clock
      /\ (disk[p].kind = "file" /\ disk[p].mtime = d.files[p].mtime)
           => disk[p].content = d.files[p].hash

\* No file on disk is from the future, nor is the one being hashed.
Past ==
  /\ \A p \in Path : disk[p].mtime <= clock
  /\ walk.file # Nil => walk.file.mtime <= clock

Typed == TypeOK /\ RunInside

\* The inductive invariant: it holds of the committed database and of the one
\* the run works on.
IInv == Typed /\ Owned(db) /\ Owned(tx)

\* Its extension when no content changes behind size and mtime.
SInv == Stamped(db) /\ Stamped(tx) /\ Past

------------------------------------------------------------------------------
(* What the statements on the database do to its tables.                     *)

\* A database is put together from its tables.
LEMMA DatabaseFields ==
  ASSUME NEW d \in Database
  PROVE  /\ d = [sources |-> d.sources, files |-> d.files,
                 history |-> d.history, rebuild |-> d.rebuild]
         /\ d.sources \in [Path -> Source \cup {Nil}]
         /\ d.files \in [Path -> FileState \cup {Nil}]
         /\ d.history \in [Path -> Seq(Event)]
         /\ d.rebuild \in BOOLEAN
BY DEF Database

\* Replacing a table replaces that field of the record.
LEMMA ReplaceTable ==
  ASSUME NEW d \in Database, NEW t
  PROVE  /\ [d EXCEPT !.sources = t] =
              [sources |-> t, files |-> d.files, history |-> d.history, rebuild |-> d.rebuild]
         /\ [d EXCEPT !.files = t] =
              [sources |-> d.sources, files |-> t, history |-> d.history, rebuild |-> d.rebuild]
         /\ [d EXCEPT !.history = t] =
              [sources |-> d.sources, files |-> d.files, history |-> t, rebuild |-> d.rebuild]
         /\ [d EXCEPT !.rebuild = t] =
              [sources |-> d.sources, files |-> d.files, history |-> d.history, rebuild |-> t]
<1> USE DEF Database
<1>1. [d EXCEPT !.sources = t] =
        [sources |-> t, files |-> d.files, history |-> d.history, rebuild |-> d.rebuild]
  OBVIOUS
<1>2. [d EXCEPT !.files = t] =
        [sources |-> d.sources, files |-> t, history |-> d.history, rebuild |-> d.rebuild]
  OBVIOUS
<1>3. [d EXCEPT !.history = t] =
        [sources |-> d.sources, files |-> d.files, history |-> t, rebuild |-> d.rebuild]
  OBVIOUS
<1>4. [d EXCEPT !.rebuild = t] =
        [sources |-> d.sources, files |-> d.files, history |-> d.history, rebuild |-> t]
  OBVIOUS
<1> QED BY <1>1, <1>2, <1>3, <1>4

\* The empty database watches nothing and stores nothing.
LEMMA EmptyIsDatabase ==
  /\ EmptyDatabase \in Database
  /\ Watched(EmptyDatabase) = {}
  /\ \A p \in Path : EmptyDatabase.files[p] = Nil
BY DEF EmptyDatabase, Database, Watched

\* InsertSources watches the paths given to it and touches nothing else.
LEMMA InsertSourcesEffect ==
  ASSUME NEW d \in Database, NEW kinds, DOMAIN kinds \subseteq Path
  PROVE  /\ InsertSources(d, kinds) \in Database
         /\ InsertSources(d, kinds).files = d.files
         /\ Watched(InsertSources(d, kinds)) = Watched(d) \cup DOMAIN kinds
<1> DEFINE e == InsertSources(d, kinds)
           row(s) == [type |-> TypeFor(kinds[s]), status |-> "active"]
<1>1. \A s : row(s) \in Source /\ row(s) # Nil
  BY NilIsNoRow DEF Source, TypeFor
<1>2. e = [sources |-> [s \in Path |-> IF s \in DOMAIN kinds THEN row(s) ELSE d.sources[s]],
          files |-> d.files, history |-> d.history, rebuild |-> d.rebuild]
  BY ReplaceTable DEF InsertSources
<1> HIDE DEF row, e
<1>3. e.sources \in [Path -> Source \cup {Nil}]
  BY <1>1, <1>2, DatabaseFields
<1>4. e \in Database
  BY <1>2, <1>3, DatabaseFields DEF Database
<1>5. Watched(e) = Watched(d) \cup DOMAIN kinds
  BY <1>1, <1>2 DEF Watched
<1>6. e.files = d.files
  BY <1>2
<1> QED BY <1>4, <1>5, <1>6 DEF e

\* SetSourceStatus changes the status of a watched source.
LEMMA SetSourceStatusEffect ==
  ASSUME NEW d \in Database, NEW s \in Watched(d), NEW status \in {"active", "missing"}
  PROVE  /\ SetSourceStatus(d, s, status) \in Database
         /\ SetSourceStatus(d, s, status).files = d.files
         /\ Watched(SetSourceStatus(d, s, status)) = Watched(d)
<1> DEFINE e == SetSourceStatus(d, s, status)
           row == [d.sources[s] EXCEPT !.status = status]
<1>1. e = [sources |-> [d.sources EXCEPT ![s] = row],
          files |-> d.files, history |-> d.history, rebuild |-> d.rebuild]
  <2>1. e = [d EXCEPT !.sources = [d.sources EXCEPT ![s] = row]]
    BY DEF SetSourceStatus
  <2> HIDE DEF row
  <2> QED BY <2>1, ReplaceTable
<1>2. row \in Source /\ row # Nil
  BY DatabaseFields, NilIsNoRow DEF Watched, Source
<1> HIDE DEF row, e
<1>3. e \in Database
  BY <1>1, <1>2, DatabaseFields DEF Database
<1>4. Watched(e) = Watched(d)
  BY <1>1, <1>2, DatabaseFields DEF Watched
<1> QED BY <1>1, <1>3, <1>4 DEF e

\* DeleteFileStates only takes rows away.
LEMMA DeleteFileStatesEffect ==
  ASSUME NEW d \in Database, NEW paths
  PROVE  /\ DeleteFileStates(d, paths) \in Database
         /\ Watched(DeleteFileStates(d, paths)) = Watched(d)
         /\ \A p \in Path : DeleteFileStates(d, paths).files[p] # Nil =>
              DeleteFileStates(d, paths).files[p] = d.files[p]
<1> DEFINE e == DeleteFileStates(d, paths)
<1>1. e = [sources |-> d.sources,
          files |-> [p \in Path |-> IF p \in paths THEN Nil ELSE d.files[p]],
          history |-> d.history, rebuild |-> d.rebuild]
  BY ReplaceTable DEF DeleteFileStates
<1> HIDE DEF e
<1> QED BY <1>1, DatabaseFields DEF e, Database, Watched

\* DeleteSources stops watching the given paths and cascades to their rows.
LEMMA DeleteSourcesEffect ==
  ASSUME NEW d \in Database, NEW dropped
  PROVE  /\ DeleteSources(d, dropped) \in Database
         /\ Watched(DeleteSources(d, dropped)) = Watched(d) \ dropped
         /\ \A p \in Path :
              DeleteSources(d, dropped).files[p] # Nil =>
                /\ DeleteSources(d, dropped).files[p] = d.files[p]
                /\ d.files[p].src \notin dropped
<1> DEFINE t == [s \in Path |-> IF s \in dropped THEN Nil ELSE d.sources[s]]
           d1 == [d EXCEPT !.sources = t]
           lost == UNION {Rows(d, s) : s \in dropped}
           e == DeleteSources(d, dropped)
<1>1. d1 = [sources |-> t, files |-> d.files, history |-> d.history, rebuild |-> d.rebuild]
  BY ReplaceTable
<1>2. t \in [Path -> Source \cup {Nil}]
  BY DatabaseFields
<1>3. d1 \in Database /\ d1.files = d.files
  BY <1>1, <1>2, DatabaseFields DEF Database
<1>4. Watched(d1) = Watched(d) \ dropped
  BY <1>1 DEF Watched
<1>5. e = DeleteFileStates(d1, lost)
  BY DEF DeleteSources
<1>6. e.files = [p \in Path |-> IF p \in lost THEN Nil ELSE d.files[p]]
  <2>1. DeleteFileStates(d1, lost).files = [p \in Path |-> IF p \in lost THEN Nil ELSE d1.files[p]]
    BY <1>3, ReplaceTable DEF DeleteFileStates
  <2> QED BY <2>1, <1>3, <1>5
<1>7. \A p \in Path : e.files[p] # Nil => e.files[p] = d.files[p] /\ d.files[p].src \notin dropped
  BY <1>6 DEF Rows
<1>8. e \in Database /\ Watched(e) = Watched(d1)
  BY <1>3, <1>5, DeleteFileStatesEffect
<1> QED BY <1>4, <1>7, <1>8

\* InsertHistory touches nothing but the history.
LEMMA InsertHistoryEffect ==
  ASSUME NEW d \in Database, NEW events,
         \A p \in DOMAIN events : events[p] \in Seq(Event)
  PROVE  /\ InsertHistory(d, events) \in Database
         /\ InsertHistory(d, events).files = d.files
         /\ InsertHistory(d, events).sources = d.sources
         /\ Watched(InsertHistory(d, events)) = Watched(d)
<1> DEFINE e == InsertHistory(d, events)
<1>1. e = [sources |-> d.sources, files |-> d.files,
          history |-> [p \in Path |-> IF p \in DOMAIN events THEN d.history[p] \o events[p]
                                      ELSE d.history[p]],
          rebuild |-> d.rebuild]
  BY ReplaceTable DEF InsertHistory
<1> HIDE DEF e
<1>2. \A p \in Path : p \in DOMAIN events => d.history[p] \o events[p] \in Seq(Event)
  BY DatabaseFields, ConcatProperties
<1>3. e.history \in [Path -> Seq(Event)]
  BY <1>1, <1>2, DatabaseFields
<1> QED BY <1>1, <1>3, DatabaseFields DEF e, Database, Watched

\* ClearHistory touches nothing but the history.
LEMMA ClearHistoryEffect ==
  ASSUME NEW d \in Database, NEW paths
  PROVE  /\ ClearHistory(d, paths) \in Database
         /\ ClearHistory(d, paths).files = d.files
         /\ Watched(ClearHistory(d, paths)) = Watched(d)
<1> DEFINE e == ClearHistory(d, paths)
<1>1. e = [sources |-> d.sources, files |-> d.files,
          history |-> [q \in Path |-> IF q \in paths THEN <<>> ELSE d.history[q]],
          rebuild |-> d.rebuild]
  BY ReplaceTable DEF ClearHistory
<1> HIDE DEF e
<1>2. e.history \in [Path -> Seq(Event)]
  BY <1>1, DatabaseFields
<1> QED BY <1>1, <1>2, DatabaseFields DEF e, Database, Watched

\* UpsertFileState stores the one row.
LEMMA UpsertFileStateEffect ==
  ASSUME NEW d \in Database, NEW s \in Path, NEW st \in Stat, NEW sum \in Content
  PROVE  /\ UpsertFileState(d, s, st, sum) \in Database
         /\ Watched(UpsertFileState(d, s, st, sum)) = Watched(d)
         /\ UpsertFileState(d, s, st, sum).files =
              [d.files EXCEPT ![st.path] =
                 [src |-> s, hash |-> sum, size |-> st.size, mtime |-> st.mtime]]
<1> DEFINE e == UpsertFileState(d, s, st, sum)
           row == [src |-> s, hash |-> sum, size |-> st.size, mtime |-> st.mtime]
<1>1. e = [sources |-> d.sources, files |-> [d.files EXCEPT ![st.path] = row],
          history |-> d.history, rebuild |-> d.rebuild]
  BY ReplaceTable DEF UpsertFileState
<1>2. row \in FileState /\ st.path \in Path
  BY DEF FileState, Stat
<1> HIDE DEF e
<1>3. e.files \in [Path -> FileState \cup {Nil}]
  BY <1>1, <1>2, DatabaseFields
<1> QED BY <1>1, <1>3, DatabaseFields DEF e, Database, Watched

------------------------------------------------------------------------------
(* The disk.                                                                 *)

\* What a system call meets is an entry, and a file met is the file on disk.
LEMMA AtEntry ==
  ASSUME DiskTypeOK, NEW p \in Path
  PROVE  /\ At(p) \in Entry
         /\ At(p).kind \in Kinds
         /\ At(p).kind # "none" => At(p) = disk[p]
         /\ At(p).kind = "file" => disk[p].kind = "file"
<1>1. Absent \in Entry /\ Absent.kind = "none"
  BY DEF Absent, NonFile, Entry, Kinds
<1>2. At(p) = Absent \/ At(p) = disk[p]
  BY DEF At
<1>3. \A e \in Entry : e.kind \in Kinds
  BY DEF Entry, NonFile, Kinds
<1> QED BY <1>1, <1>2, <1>3 DEF DiskTypeOK

\* A file on disk has a content, a size and a modification time.
LEMMA FileEntry ==
  ASSUME DiskTypeOK, NEW p \in Path, disk[p].kind = "file"
  PROVE  /\ disk[p].content \in Content
         /\ disk[p].mtime \in Nat
         /\ StatOf(p) \in Stat
         /\ StatOf(p).path = p
<1>1. disk[p] \in Entry
  BY DEF DiskTypeOK
<1>2. disk[p] \in [kind : {"file"}, content : Content, mtime : Nat]
  BY <1>1 DEF Entry, NonFile, Kinds
<1>3. SizeOf[disk[p].content] \in Nat
  BY <1>2, DiskConstants
<1> QED BY <1>2, <1>3 DEF StatOf, Stat

\* The outside world leaves a disk behind, takes one tick, and writes no file
\* of the future.
LEMMA DiskStepEffect ==
  ASSUME DiskTypeOK, DiskNext
  PROVE  /\ DiskTypeOK'
         /\ clock' = clock + 1
         /\ \A p \in Path : \/ disk'[p] = disk[p]
                            \/ disk'[p].kind # "file"
                            \/ disk'[p].mtime = clock + 1
                            \/ SilentWrites
         /\ (\A p \in Path : disk[p].mtime <= clock)
              => \A p \in Path : disk'[p].mtime <= clock'
<1> DEFINE Effect ==
      /\ disk' \in [Path -> Entry]
      /\ offline' \subseteq Mounts
      /\ clock' = clock + 1
      /\ \A p \in Path : \/ disk'[p] = disk[p]
                         \/ disk'[p].kind # "file"
                         \/ disk'[p].mtime = clock + 1
                         \/ SilentWrites
      /\ (\A p \in Path : disk[p].mtime <= clock)
           => \A p \in Path : disk'[p].mtime <= clock + 1
<1> USE DEF DiskTypeOK, Tick
<1>1. ASSUME NEW p \in Path, NEW e \in Entry, Place(p, e),
             e.kind = "file" => e.mtime = clock + 1, e.mtime <= clock + 1
      PROVE  Effect
  <2>1. Absent \in Entry /\ Absent.kind = "none" /\ Absent.mtime = 0
    BY DEF Absent, NonFile, Entry, Kinds
  <2>2. \A q \in Path : disk'[q] \in {e, Absent, disk[q]}
    BY <1>1 DEF Place
  <2>3. disk' \in [Path -> Entry]
    BY <1>1, <2>1 DEF Place
  <2>4. offline' = offline /\ clock' = clock + 1
    BY <1>1 DEF Place
  <2>5. \A q \in Path : \/ disk'[q] = disk[q]
                        \/ disk'[q].kind # "file"
                        \/ disk'[q].mtime = clock + 1
    BY <1>1, <2>1, <2>2
  <2>6. ASSUME \A q \in Path : disk[q].mtime <= clock, NEW q \in Path
        PROVE  disk'[q].mtime <= clock + 1
    <3>1. disk[q].mtime \in Nat
      BY DEF Entry, NonFile
    <3> QED BY <1>1, <2>1, <2>2, <2>6, <3>1
  <2> QED BY <2>3, <2>4, <2>5, <2>6
<1>2. ASSUME NEW p \in Path, Change(p)
      PROVE  Effect
  <2>1. CASE \E c \in Content : Place(p, RegularFile(c, clock + 1))
    <3>1. PICK c \in Content : Place(p, RegularFile(c, clock + 1))
      BY <2>1
    <3>2. /\ RegularFile(c, clock + 1) \in Entry
          /\ RegularFile(c, clock + 1).mtime = clock + 1
      BY DEF RegularFile, Entry
    <3> HIDE DEF Effect
    <3> QED BY <1>1, <3>1, <3>2
  <2>2. CASE \E k \in Kinds \ {"file"} : Place(p, NonFile(k))
    <3>1. PICK k \in Kinds \ {"file"} : Place(p, NonFile(k))
      BY <2>2
    <3>2. /\ NonFile(k) \in Entry
          /\ NonFile(k).mtime = 0
          /\ NonFile(k).kind # "file"
      BY DEF NonFile, Entry
    <3> HIDE DEF Effect
    <3> QED BY <1>1, <3>1, <3>2
  <2> QED BY <1>2, <2>1, <2>2 DEF Change
<1>3. ASSUME NEW p \in Path, NEW c \in Content, Corrupt(p, c)
      PROVE  Effect
  <2>1. disk[p].kind = "file" /\ SilentWrites
    BY <1>3, AtEntry DEF Corrupt
  <2>2. disk[p] \in [kind : {"file"}, content : Content, mtime : Nat]
    BY <2>1 DEF Entry, NonFile, Kinds
  <2>3. /\ disk' = [disk EXCEPT ![p] = [disk[p] EXCEPT !.content = c]]
        /\ [disk[p] EXCEPT !.content = c] \in [kind : {"file"}, content : Content, mtime : Nat]
        /\ [disk[p] EXCEPT !.content = c].mtime = disk[p].mtime
    BY <1>3, <2>2 DEF Corrupt
  <2>4. disk' \in [Path -> Entry]
    BY <2>3 DEF Entry
  <2>5. \A q \in Path : disk'[q].mtime = disk[q].mtime
    BY <2>3
  <2>6. \A q \in Path : disk[q].mtime \in Nat
    BY DEF Entry, NonFile
  <2> QED BY <1>3, <2>1, <2>4, <2>5, <2>6 DEF Corrupt
<1>4. ASSUME NEW m \in Mounts, Unmount(m) \/ Mount(m)
      PROVE  Effect
  <2>1. \A q \in Path : disk[q].mtime \in Nat
    BY DEF Entry, NonFile
  <2> QED BY <1>4, <2>1 DEF Unmount, Mount
<1> HIDE DEF Effect
<1>5. Effect
  BY <1>2, <1>3, <1>4 DEF DiskNext
<1> QED BY <1>5 DEF Effect

------------------------------------------------------------------------------
(* The steps of a scan keep the types, and keep the run inside what it       *)
(* watches.                                                                  *)

\* The values of the variables an action of a run may change, all at once.
RunTyped ==
  /\ tx \in Database
  /\ pc \in {"idle", "plan", "root", "walk", "hash", "save", "commit"}
  /\ run \in Run
  /\ walk \in Walk
  /\ rep \in Report

\* A step of a run that leaves the disk, the configuration and the committed
\* database alone keeps the types if its own variables keep theirs.
LEMMA RunStepTyped ==
  ASSUME TypeOK, RunTyped', UNCHANGED <<diskVars, cfg, db, gone, calm>>
  PROVE  TypeOK'
BY DEF TypeOK, RunTyped, diskVars, DiskTypeOK

\* Taking a source off the plan changes the plan alone.
LEMMA FinishedRun ==
  ASSUME run \in Run, NEW s
  PROVE  /\ Finished(s) \in Run
         /\ Finished(s).plan = run.plan \ {s}
         /\ Finished(s).cmd = run.cmd
         /\ Finished(s).target = run.target
         /\ Finished(s).fresh = run.fresh
         /\ Finished(s).cfg = run.cfg
BY DEF Finished, Run

\* Marking a source as back touches neither the sources watched nor the rows.
LEMMA ReturnedEffect ==
  ASSUME tx \in Database, NEW s \in Watched(tx)
  PROVE  /\ Returned(s) \in Database
         /\ Returned(s).files = tx.files
         /\ Watched(Returned(s)) = Watched(tx)
BY SetSourceStatusEffect DEF Returned

\* The notice of a return is a path.
LEMMA WelcomedReport ==
  ASSUME rep \in Report, NEW s \in Path
  PROVE  /\ Welcomed(s) \in Report
         /\ [Welcomed(s) EXCEPT !.errors = TRUE] \in Report
BY DEF Welcomed, Report

\* An event is one of the three records.
LEMMA EventRecords ==
  ASSUME NEW c \in Content, NEW b \in Content
  PROVE  /\ <<Added(c)>> \in Seq(Event)
         /\ <<Modified(b, c)>> \in Seq(Event)
         /\ <<Deleted(b)>> \in Seq(Event)
         /\ <<MissingRecord>> \in Seq(Event)
<1>1. Added(c) \in Event /\ Modified(b, c) \in Event /\ Deleted(b) \in Event
      /\ MissingRecord \in Event
  BY DEF Added, Modified, Deleted, MissingRecord, Event
<1> QED BY <1>1

\* handleMissing leaves the watched sources and every row as they are.
LEMMA SourceMissingEffect ==
  ASSUME Typed, NEW s \in run.plan, SourceMissing(s)
  PROVE  /\ Typed'
         /\ tx'.files = tx.files
         /\ Watched(tx') = Watched(tx)
         /\ UNCHANGED <<diskVars, db, walk, cfg>>
<1>1. s \in Watched(tx) /\ s \in Path /\ tx \in Database /\ run \in Run /\ rep \in Report
  BY DEF Typed, TypeOK, RunInside, Watched
<1> DEFINE record == [p \in {s} |-> <<[event |-> "DELETED", old |-> Nil, new |-> Nil]>>]
           d == SetSourceStatus(tx, s, "missing")
<1>2. \A p \in DOMAIN record : record[p] \in Seq(Event)
  BY DEF Event
<1>3. /\ d \in Database
      /\ d.files = tx.files
      /\ Watched(d) = Watched(tx)
  BY <1>1, SetSourceStatusEffect
<1>4. /\ InsertHistory(d, record) \in Database
      /\ InsertHistory(d, record).files = d.files
      /\ Watched(InsertHistory(d, record)) = Watched(d)
  <2> HIDE DEF d, record
  <2> QED BY <1>2, <1>3, InsertHistoryEffect
<1>5. tx' = tx \/ tx' = InsertHistory(d, record)
  BY DEF SourceMissing
<1> HIDE DEF d, record
<1>6. /\ tx' \in Database
      /\ tx'.files = tx.files
      /\ Watched(tx') = Watched(tx)
  BY <1>1, <1>3, <1>4, <1>5
<1>7. rep' \in Report
  BY <1>1 DEF SourceMissing, Report
<1>8. run' \in Run /\ run'.plan \subseteq run.plan /\ run'.cmd = run.cmd
      /\ run'.target = run.target
  BY <1>1, FinishedRun DEF SourceMissing
<1>9. TypeOK'
  BY <1>6, <1>7, <1>8, RunStepTyped DEF Typed, TypeOK, RunTyped, SourceMissing
<1>10. RunInside'
  BY <1>6, <1>8 DEF Typed, RunInside, SourceMissing
<1> QED BY <1>6, <1>9, <1>10 DEF Typed, SourceMissing

\* A source that cannot be looked at, or changed type, is skipped: its rows
\* stay.
LEMMA SourceSkippedEffect ==
  ASSUME Typed, NEW s \in run.plan, SourceUnreadable(s) \/ SourceReplaced(s)
  PROVE  /\ Typed'
         /\ tx'.files = tx.files
         /\ Watched(tx') = Watched(tx)
         /\ UNCHANGED <<diskVars, db, walk, cfg>>
<1>1. s \in Watched(tx) /\ s \in Path /\ tx \in Database /\ run \in Run /\ rep \in Report
  BY DEF Typed, TypeOK, RunInside, Watched
<1>2. tx' = tx \/ tx' = Returned(s)
  BY DEF SourceUnreadable, SourceReplaced
<1>3. /\ tx' \in Database
      /\ tx'.files = tx.files
      /\ Watched(tx') = Watched(tx)
  BY <1>1, <1>2, ReturnedEffect
<1>4. rep' \in Report
  <2>1. CASE SourceUnreadable(s)
    BY <2>1, <1>1 DEF SourceUnreadable, Report
  <2>2. CASE SourceReplaced(s)
    BY <2>2, <1>1, WelcomedReport DEF SourceReplaced
  <2> QED BY <2>1, <2>2
<1>5. run' \in Run /\ run'.plan \subseteq run.plan /\ run'.cmd = run.cmd
      /\ run'.target = run.target
  BY <1>1, FinishedRun DEF SourceUnreadable, SourceReplaced
<1>6. UNCHANGED <<diskVars, cfg, db, pc, walk, gone, calm>>
  BY DEF SourceUnreadable, SourceReplaced
<1>7. pc = "plan"
  BY DEF SourceUnreadable, SourceReplaced
<1>8. TypeOK'
  BY <1>3, <1>4, <1>5, <1>6, RunStepTyped DEF Typed, TypeOK, RunTyped
<1>9. RunInside'
  BY <1>3, <1>5, <1>6, <1>7 DEF Typed, RunInside
<1> QED BY <1>3, <1>6, <1>8, <1>9 DEF Typed

\* Opening a folder keeps the rows and starts an empty walk of it.
LEMMA OpenFolderEffect ==
  ASSUME Typed, NEW s \in run.plan, OpenFolder(s)
  PROVE  /\ Typed'
         /\ tx'.files = tx.files
         /\ Watched(tx') = Watched(tx)
         /\ walk'.file = Nil
         /\ UNCHANGED <<diskVars, db, cfg>>
<1>1. s \in Watched(tx) /\ s \in Path /\ tx \in Database /\ run \in Run /\ rep \in Report
  BY DEF Typed, TypeOK, RunInside, Watched
<1>2. /\ tx' \in Database
      /\ tx'.files = tx.files
      /\ Watched(tx') = Watched(tx)
  BY <1>1, ReturnedEffect DEF OpenFolder
<1>3. rep' \in Report
  BY <1>1, WelcomedReport DEF OpenFolder
<1>4. run' \in Run /\ run'.plan \subseteq run.plan /\ run'.cmd = run.cmd
      /\ run'.target = run.target
  BY <1>1, FinishedRun DEF OpenFolder
<1>5. walk' \in Walk /\ walk'.src = s /\ walk'.todo = {} /\ walk'.file = Nil
  BY <1>1 DEF OpenFolder, NoWalk, Walk
<1>6. pc' = "root" /\ UNCHANGED <<diskVars, cfg, db, gone, calm>>
  BY DEF OpenFolder
<1>7. TypeOK'
  BY <1>2, <1>3, <1>4, <1>5, <1>6, RunStepTyped DEF Typed, RunTyped
<1>8. RunInside'
  BY <1>1, <1>2, <1>4, <1>5, <1>6 DEF Typed, RunInside
<1> QED BY <1>2, <1>5, <1>6, <1>7, <1>8 DEF Typed

\* Looking at a watched file keeps the rows; what is remembered for the hashing
\* is the stat just taken.
LEMMA OpenFileEffect ==
  ASSUME Typed, NEW s \in run.plan, OpenFile(s)
  PROVE  /\ Typed'
         /\ tx'.files = tx.files
         /\ Watched(tx') = Watched(tx)
         /\ walk' = walk \/ (disk[s].kind = "file" /\ walk'.file = StatOf(s))
         /\ UNCHANGED <<diskVars, db, cfg>>
<1>1. /\ s \in Watched(tx) /\ s \in Path /\ tx \in Database /\ run \in Run
      /\ rep \in Report /\ DiskTypeOK
  BY DEF Typed, TypeOK, RunInside, Watched
<1>2. /\ tx' \in Database
      /\ tx'.files = tx.files
      /\ Watched(tx') = Watched(tx)
  BY <1>1, ReturnedEffect DEF OpenFile
<1>3. rep' \in Report
  BY <1>1, WelcomedReport DEF OpenFile
<1>4. run' \in Run /\ run'.plan \subseteq run.plan /\ run'.cmd = run.cmd
      /\ run'.target = run.target
  BY <1>1, FinishedRun DEF OpenFile
<1>5. disk[s].kind = "file" /\ StatOf(s) \in Stat /\ StatOf(s).path = s
  BY <1>1, AtEntry, FileEntry DEF OpenFile
<1>6. pc = "plan" /\ UNCHANGED <<diskVars, cfg, db, gone, calm>>
  BY DEF OpenFile
<1>7. CASE UNCHANGED <<pc, walk>>
  <2>1. TypeOK'
    BY <1>2, <1>3, <1>4, <1>6, <1>7, RunStepTyped DEF Typed, TypeOK, RunTyped
  <2>2. RunInside'
    BY <1>2, <1>4, <1>6, <1>7 DEF Typed, RunInside
  <2> QED BY <1>2, <1>6, <1>7, <2>1, <2>2 DEF Typed
<1>8. CASE /\ walk' = [NoWalk EXCEPT !.src = s, !.seen = {s}, !.file = StatOf(s)]
           /\ pc' = "hash"
  <2>1. walk' = [src |-> s, todo |-> {}, seen |-> {s}, unreadable |-> {}, file |-> StatOf(s)]
    BY <1>8 DEF NoWalk
  <2>2. walk' \in Walk
    BY <1>1, <1>5, <2>1 DEF Walk
  <2>3. TypeOK'
    BY <1>2, <1>3, <1>4, <1>6, <1>8, <2>2, RunStepTyped DEF Typed, RunTyped
  <2>4. walk'.src = s /\ walk'.todo = {} /\ walk'.file = StatOf(s) /\ s \in Tree(s)
    BY <2>1 DEF Tree
  <2>5. RunInside'
    BY <1>1, <1>2, <1>4, <1>5, <1>8, <2>4 DEF Typed, RunInside
  <2> QED BY <1>2, <1>5, <1>6, <2>3, <2>4, <2>5 DEF Typed
<1> QED BY <1>7, <1>8 DEF OpenFile

\* Every step on a planned source keeps the watched sources and the rows.
LEMMA SourceStepEffect ==
  ASSUME Typed, NEW s \in run.plan, SourceStep(s)
  PROVE  /\ Typed'
         /\ tx'.files = tx.files
         /\ Watched(tx') = Watched(tx)
         /\ \/ walk'.file = Nil
            \/ walk'.file = walk.file
            \/ \E p \in Path : disk[p].kind = "file" /\ walk'.file = StatOf(p)
         /\ UNCHANGED <<diskVars, db, cfg>>
<1>1. s \in Path
  BY DEF Typed, RunInside, Watched
<1> QED
  BY <1>1, SourceMissingEffect, SourceSkippedEffect, OpenFolderEffect, OpenFileEffect
     DEF SourceStep

------------------------------------------------------------------------------
(* The walk of a folder.                                                     *)

\* What a listing leaves to visit are items inside the directory listed.
LEMMA ListedItems ==
  ASSUME DiskTypeOK, NEW p \in Path, NEW entries \in SUBSET Children(p)
  PROVE  /\ Listed(entries) \subseteq Item
         /\ \A i \in Listed(entries) : i.path \in Below[p]
<1>1. Children(p) \subseteq Below[p] /\ Below[p] \subseteq Path
  BY PathsFormATree DEF Children
<1> QED BY <1>1 DEF Listed, Item

\* The tree of a path holds the trees of its members.
LEMMA TreeInTree ==
  ASSUME NEW s \in Path, NEW p \in Tree(s)
  PROVE  p \in Path /\ Below[p] \subseteq Tree(s)
BY PathsFormATree DEF Tree

\* A step of the walk that only moves walk and rep, and keeps the items to
\* visit inside the source, keeps the types.
LEMMA WalkStepTyped ==
  ASSUME Typed, walk' \in Walk, rep' \in Report, walk'.src = walk.src,
         \A i \in walk'.todo : i.path \in Tree(walk.src),
         pc' = "walk" \/ (pc' = "hash" /\ walk'.file \in Stat
                                       /\ walk'.file.path \in Tree(walk.src)),
         pc \in {"root", "walk"},
         UNCHANGED <<diskVars, cfg, db, tx, run, gone, calm>>
  PROVE  Typed'
<1>1. TypeOK'
  BY RunStepTyped DEF Typed, TypeOK, RunTyped
<1>2. RunInside'
  BY DEF Typed, RunInside, Watched
<1> QED BY <1>1, <1>2 DEF Typed

\* WalkDir's stat of the root.
LEMMA RootStepEffect ==
  ASSUME Typed, RootLost \/ RootFound
  PROVE  Typed' /\ walk'.file = walk.file /\ UNCHANGED <<diskVars, db, tx, cfg>>
<1>1. /\ walk \in Walk /\ rep \in Report /\ DiskTypeOK
      /\ pc = "root" /\ walk.src \in Path
      /\ \A i \in walk.todo : i.path \in Tree(walk.src)
  BY DEF Typed, TypeOK, RunInside, Watched, RootLost, RootFound
<1>2. CASE RootLost
  <2>1. rep' \in Report
    BY <1>1, <1>2 DEF RootLost, Report
  <2> QED BY <1>1, <1>2, <2>1, WalkStepTyped DEF RootLost
<1>3. CASE RootFound
  <2> DEFINE found == IF \/ At(walk.src).kind = "dir"
                         \/ (At(walk.src).kind = "file" /\ ~Match(walk.src))
                        THEN {[path |-> walk.src, kind |-> At(walk.src).kind]} ELSE {}
  <2>1. found \in SUBSET Item /\ \A i \in found : i.path = walk.src
    BY <1>1 DEF Item
  <2>2. walk' = [walk EXCEPT !.todo = found]
    BY <1>3 DEF RootFound
  <2> HIDE DEF found
  <2>3. walk' \in Walk /\ walk'.src = walk.src /\ walk'.file = walk.file /\ walk'.todo = found
    BY <1>1, <2>1, <2>2 DEF Walk
  <2>4. \A i \in walk'.todo : i.path \in Tree(walk.src)
    BY <2>1, <2>3 DEF Tree
  <2> QED BY <1>1, <1>3, <2>3, <2>4, WalkStepTyped DEF RootFound
<1> QED BY <1>2, <1>3

\* Every step on a listed entry keeps the database; what is remembered for the
\* hashing is the stat just taken.
LEMMA EntryStepEffect ==
  ASSUME Typed, NEW i \in walk.todo, EntryStep(i)
  PROVE  /\ Typed'
         /\ \/ walk'.file = Nil
            \/ walk'.file = walk.file
            \/ \E p \in Path : disk[p].kind = "file" /\ walk'.file = StatOf(p)
         /\ UNCHANGED <<diskVars, db, tx, cfg>>
<1> DEFINE s == walk.src
<1>1. pc = "walk" /\ UNCHANGED <<diskVars, cfg, db, tx, run, gone, calm>>
  BY DEF EntryStep, ListDirectory, ListingFails, EntryVanished, EntryUnreadable, CheckFile
<1>2. /\ walk \in Walk /\ rep \in Report /\ DiskTypeOK
      /\ s \in Path
      /\ \A j \in walk.todo : j.path \in Tree(s)
  BY <1>1 DEF Typed, TypeOK, RunInside, Watched
<1>3. i \in Item /\ i.path \in Path /\ i.path \in Tree(s) /\ Below[i.path] \subseteq Tree(s)
  BY <1>2, TreeInTree DEF Walk, Item
<1>4. rep' \in Report
  BY <1>2 DEF EntryStep, ListDirectory, ListingFails, EntryVanished, EntryUnreadable,
              CheckFile, Report
<1>5. ASSUME NEW todo, NEW seen, NEW unreadable, NEW file \in Stat \cup {Nil},
             todo \subseteq Item, seen \subseteq Path, unreadable \subseteq Path,
             \A j \in todo : j.path \in Tree(s),
             walk' = [src |-> s, todo |-> todo, seen |-> seen,
                      unreadable |-> unreadable, file |-> file],
             pc' = "walk" \/ (pc' = "hash" /\ file \in Stat /\ file.path \in Tree(s))
      PROVE  Typed' /\ walk'.file = file
  <2>1. /\ walk' \in Walk /\ walk'.src = s /\ walk'.todo = todo /\ walk'.file = file
    BY <1>2, <1>5 DEF Walk
  <2> QED BY <1>1, <1>4, <1>5, <2>1, WalkStepTyped
<1>6. /\ walk.todo \subseteq Item /\ walk.seen \subseteq Path
      /\ walk.unreadable \subseteq Path /\ walk.file \in Stat \cup {Nil}
      /\ walk = [src |-> s, todo |-> walk.todo, seen |-> walk.seen,
                 unreadable |-> walk.unreadable, file |-> walk.file]
  BY <1>2 DEF Walk
<1> HIDE DEF s
<1>7. CASE ListDirectory(i)
  <2> DEFINE todo == (walk.todo \ {i}) \cup Listed(Children(i.path))
  <2>1. todo \subseteq Item /\ \A j \in todo : j.path \in Tree(s)
    BY <1>2, <1>3, <1>6, ListedItems
  <2>2. pc' = "walk" /\ walk' = [src |-> s, todo |-> todo, seen |-> walk.seen,
                                 unreadable |-> walk.unreadable, file |-> walk.file]
    BY <1>1, <1>6, <1>7 DEF ListDirectory
  <2> HIDE DEF todo
  <2> QED BY <1>1, <1>5, <1>6, <2>1, <2>2
<1>8. CASE ListingFails(i)
  <2>1. PICK entries \in SUBSET Children(i.path) :
          walk' = [walk EXCEPT !.todo = (walk.todo \ {i}) \cup Listed(entries),
                               !.unreadable = @ \cup {i.path}]
    BY <1>8 DEF ListingFails
  <2> DEFINE todo == (walk.todo \ {i}) \cup Listed(entries)
             unreadable == walk.unreadable \cup {i.path}
  <2>2. /\ todo \subseteq Item /\ \A j \in todo : j.path \in Tree(s)
        /\ unreadable \subseteq Path
    BY <1>2, <1>3, <1>6, ListedItems
  <2>3. walk' = [walk EXCEPT !.todo = todo, !.unreadable = unreadable]
    BY <2>1
  <2> HIDE DEF todo, unreadable
  <2>4. walk' = [src |-> s, todo |-> todo, seen |-> walk.seen,
                 unreadable |-> unreadable, file |-> walk.file]
    BY <1>2, <2>3 DEF Walk, s
  <2>5. pc' = "walk"
    BY <1>1, <1>8 DEF ListingFails
  <2> QED BY <1>1, <1>5, <1>6, <2>2, <2>4, <2>5
<1>9. CASE EntryVanished(i)
  <2>1. pc' = "walk" /\ walk' = [src |-> s, todo |-> walk.todo \ {i}, seen |-> walk.seen,
                                 unreadable |-> walk.unreadable, file |-> walk.file]
    BY <1>1, <1>6, <1>9 DEF EntryVanished
  <2> QED BY <1>1, <1>2, <1>5, <1>6, <2>1
<1> DEFINE todo == walk.todo \ {i}
           seen == walk.seen \cup {i.path}
<1>10. /\ todo \subseteq Item /\ \A j \in todo : j.path \in Tree(s)
       /\ seen \subseteq Path
  BY <1>2, <1>3, <1>6
<1>11. CASE EntryUnreadable(i)
  <2>1. walk' = [walk EXCEPT !.todo = todo, !.seen = seen]
    BY <1>11 DEF EntryUnreadable
  <2> HIDE DEF todo, seen
  <2>2. walk' = [src |-> s, todo |-> todo, seen |-> seen,
                 unreadable |-> walk.unreadable, file |-> walk.file]
    BY <1>2, <2>1 DEF Walk, s
  <2>3. pc' = "walk"
    BY <1>1, <1>11 DEF EntryUnreadable
  <2> QED BY <1>1, <1>5, <1>6, <1>10, <2>2, <2>3
<1>12. CASE CheckFile(i)
  <2> DEFINE skip == SkipUnchanged(tx, walk.src, StatOf(i.path), run.full)
             file == IF skip THEN Nil ELSE StatOf(i.path)
  <2>1. disk[i.path].kind = "file" /\ StatOf(i.path) \in Stat /\ StatOf(i.path).path = i.path
    BY <1>2, <1>3, <1>12, AtEntry, FileEntry DEF CheckFile
  <2>2. /\ walk' = [walk EXCEPT !.todo = todo, !.seen = seen, !.file = file]
        /\ pc' = IF skip THEN "walk" ELSE "hash"
    BY <1>12 DEF CheckFile
  <2>3. /\ file \in Stat \cup {Nil}
        /\ file = Nil \/ file = StatOf(i.path)
        /\ pc' = "walk" \/ (pc' = "hash" /\ file \in Stat /\ file.path \in Tree(s))
    BY <1>3, <2>1, <2>2
  <2> HIDE DEF skip, file, todo, seen
  <2>4. walk' = [src |-> s, todo |-> todo, seen |-> seen,
                 unreadable |-> walk.unreadable, file |-> file]
    BY <1>2, <2>2 DEF Walk, s
  <2>5. Typed' /\ walk'.file = file
    BY <1>2, <1>5, <1>6, <1>10, <2>3, <2>4
  <2> QED BY <1>1, <1>3, <2>1, <2>3, <2>5
<1> QED BY <1>7, <1>8, <1>9, <1>11, <1>12 DEF EntryStep

------------------------------------------------------------------------------
(* Hashing a file, and the end of a walk.                                    *)

\* Going back to the plan or to the walk after a file.
LEMMA AfterFileTyped ==
  ASSUME Typed, pc = "hash", AfterFile, tx' \in Database, Watched(tx') = Watched(tx),
         rep' \in Report, UNCHANGED <<diskVars, cfg, db, run, gone, calm>>
  PROVE  Typed' /\ walk'.file = Nil
<1>1. /\ walk \in Walk /\ walk.src \in Watched(tx)
      /\ \A i \in walk.todo : i.path \in Tree(walk.src)
  BY DEF Typed, TypeOK, RunInside
<1>2. CASE pc' = "plan" /\ walk' = NoWalk
  <2>1. walk' \in Walk /\ walk'.file = Nil
    BY <1>2 DEF NoWalk, Walk
  <2>2. TypeOK'
    BY <1>2, <2>1, RunStepTyped DEF Typed, TypeOK, RunTyped
  <2>3. RunInside'
    BY <1>2 DEF Typed, RunInside
  <2> QED BY <2>1, <2>2, <2>3 DEF Typed
<1>3. CASE pc' = "walk" /\ walk' = [walk EXCEPT !.file = Nil]
  <2>1. walk' \in Walk /\ walk'.file = Nil /\ walk'.src = walk.src /\ walk'.todo = walk.todo
    BY <1>1, <1>3 DEF Walk
  <2>2. TypeOK'
    BY <1>3, <2>1, RunStepTyped DEF Typed, TypeOK, RunTyped
  <2>3. RunInside'
    BY <1>1, <1>3, <2>1 DEF Typed, RunInside
  <2> QED BY <2>1, <2>2, <2>3 DEF Typed
<1> QED BY <1>2, <1>3 DEF AfterFile

\* Hashing stores one row: of the source being scanned, for a file inside it,
\* under the stat taken before, with a hash the file can have.
LEMMA HashFileEffect ==
  ASSUME Typed, HashFile
  PROVE  /\ Typed'
         /\ Watched(tx') = Watched(tx)
         /\ walk.file \in Stat
         /\ walk.src \in Watched(tx) /\ walk.file.path \in Tree(walk.src)
         /\ \E sum \in Sums(walk.file) :
              tx'.files = [tx.files EXCEPT ![walk.file.path] =
                 [src |-> walk.src, hash |-> sum,
                  size |-> walk.file.size, mtime |-> walk.file.mtime]]
         /\ walk'.file = Nil
         /\ UNCHANGED <<diskVars, db, cfg>>
<1> DEFINE p == walk.file.path
<1>1. /\ pc = "hash" /\ DiskTypeOK /\ tx \in Database /\ rep \in Report
      /\ walk.file \in Stat /\ walk.src \in Watched(tx) /\ p \in Tree(walk.src)
      /\ walk.src \in Path /\ p \in Path
  BY DEF Typed, TypeOK, RunInside, HashFile, Watched, Stat
<1>2. PICK sum \in Sums(walk.file) :
        tx' = UpsertFileState(InsertHistory(tx, [q \in {p} |-> CheckEvents(p, sum)]),
                              walk.src, walk.file, sum)
  BY DEF HashFile
<1>3. sum \in Content
  BY <1>1, FileEntry DEF Sums
<1> DEFINE events == [q \in {p} |-> CheckEvents(p, sum)]
           d == InsertHistory(tx, events)
<1>4. CheckEvents(p, sum) \in Seq(Event)
  <2>1. <<>> \in Seq(Event) /\ <<Added(sum)>> \in Seq(Event)
    BY <1>3, EventRecords
  <2>2. ASSUME Known(tx, walk.src, p)
        PROVE  <<Modified(tx.files[p].hash, sum)>> \in Seq(Event)
    <3>1. tx.files[p].hash \in Content
      BY <1>1, <2>2, DatabaseFields DEF Known, Rows, FileState
    <3> QED BY <1>3, <3>1, EventRecords
  <2> QED BY <2>1, <2>2 DEF CheckEvents
<1>5. \A q \in DOMAIN events : events[q] \in Seq(Event)
  BY <1>4
<1> HIDE DEF events, p
<1>6. d \in Database /\ d.files = tx.files /\ Watched(d) = Watched(tx)
  BY <1>1, <1>5, InsertHistoryEffect
<1>7. tx' = UpsertFileState(d, walk.src, walk.file, sum)
  BY <1>2 DEF events, p
<1> HIDE DEF d
<1>8. /\ tx' \in Database
      /\ Watched(tx') = Watched(tx)
      /\ tx'.files = [tx.files EXCEPT ![p] =
           [src |-> walk.src, hash |-> sum,
            size |-> walk.file.size, mtime |-> walk.file.mtime]]
  BY <1>1, <1>3, <1>6, <1>7, UpsertFileStateEffect DEF p
<1>9. Typed' /\ walk'.file = Nil
  BY <1>1, <1>8, AfterFileTyped DEF HashFile
<1> QED BY <1>1, <1>8, <1>9 DEF HashFile, p

\* A file that cannot be hashed keeps its row.
LEMMA HashFailsEffect ==
  ASSUME Typed, HashFails
  PROVE  Typed' /\ walk'.file = Nil /\ UNCHANGED <<diskVars, db, tx, cfg>>
<1>1. tx \in Database /\ rep \in Report
  BY DEF Typed, TypeOK
<1>2. rep' \in Report
  BY <1>1 DEF HashFails, Report
<1> QED BY <1>1, <1>2, AfterFileTyped DEF HashFails

\* The end of a walk only takes rows away.
LEMMA FinishFolderEffect ==
  ASSUME Typed, FinishFolder
  PROVE  /\ Typed'
         /\ Watched(tx') = Watched(tx)
         /\ \A p \in Path : tx'.files[p] # Nil => tx'.files[p] = tx.files[p]
         /\ walk'.file = Nil
         /\ UNCHANGED <<diskVars, db, cfg>>
<1> DEFINE lost == Lost(tx)
           events == [p \in Reported(lost) |-> <<Deleted(tx.files[p].hash)>>]
           d == InsertHistory(tx, events)
<1>1. tx \in Database
  BY DEF Typed, TypeOK
<1>2. \A p \in DOMAIN events : events[p] \in Seq(Event)
  <2> SUFFICES ASSUME NEW p \in Reported(lost)
               PROVE  <<Deleted(tx.files[p].hash)>> \in Seq(Event)
    OBVIOUS
  <2>1. p \in Path /\ tx.files[p] # Nil
    BY DEF Reported, Lost, Rows
  <2>2. tx.files[p].hash \in Content
    BY <1>1, <2>1, DatabaseFields DEF FileState
  <2> QED BY <2>2, EventRecords
<1> HIDE DEF events
<1>3. d \in Database /\ d.files = tx.files /\ Watched(d) = Watched(tx)
  BY <1>1, <1>2, InsertHistoryEffect
<1>4. tx' = DeleteFileStates(d, lost)
  BY DEF FinishFolder, events
<1> HIDE DEF d, lost
<1>5. /\ tx' \in Database
      /\ Watched(tx') = Watched(tx)
      /\ \A p \in Path : tx'.files[p] # Nil => tx'.files[p] = tx.files[p]
  BY <1>3, <1>4, DeleteFileStatesEffect
<1>6. walk' \in Walk /\ walk'.file = Nil
  BY DEF FinishFolder, NoWalk, Walk
<1>7. TypeOK'
  BY <1>5, <1>6, RunStepTyped DEF Typed, TypeOK, RunTyped, FinishFolder
<1>8. RunInside'
  BY <1>5 DEF Typed, RunInside, FinishFolder
<1> QED BY <1>5, <1>6, <1>7, <1>8 DEF Typed, FinishFolder

------------------------------------------------------------------------------
(* The ends of a run, and the world around it.                               *)

\* Ending the scan, or the baseline of fmon add, keeps every row.
LEMMA EndPlanEffect ==
  ASSUME Typed, EndScan \/ EndAdd
  PROVE  /\ Typed'
         /\ tx'.files = tx.files
         /\ Watched(tx') = Watched(tx)
         /\ UNCHANGED <<diskVars, db, walk, cfg>>
<1>1. tx \in Database
  BY DEF Typed, TypeOK
<1>2. tx' = tx \/ tx' = [tx EXCEPT !.rebuild = FALSE]
  BY DEF EndScan, EndAdd
<1>3. /\ tx' \in Database
      /\ tx'.files = tx.files
      /\ Watched(tx') = Watched(tx)
  BY <1>1, <1>2, ReplaceTable, DatabaseFields DEF Database, Watched
<1>4. UNCHANGED <<diskVars, cfg, db, run, walk, rep, gone, calm>> /\ pc' \in {"save", "commit"}
  BY DEF EndScan, EndAdd
<1>5. TypeOK'
  BY <1>3, <1>4, RunStepTyped DEF Typed, TypeOK, RunTyped
<1>6. RunInside'
  BY <1>3, <1>4 DEF Typed, RunInside
<1> QED BY <1>3, <1>4, <1>5, <1>6 DEF Typed

\* Saving writes a configuration and touches nothing else.
LEMMA SaveConfigEffect ==
  ASSUME Typed, SaveConfig
  PROVE  Typed' /\ UNCHANGED <<diskVars, db, tx, walk>>
<1>1. run \in Run /\ run.cfg \in Config
  BY DEF Typed, TypeOK, Run
<1>2. SavedSources \in SUBSET Path
  BY <1>1 DEF SavedSources, Typed, RunInside, Config
<1>3. cfg' \in Config
  BY <1>1, <1>2 DEF SaveConfig, Config
<1>4. TypeOK'
  BY <1>3 DEF Typed, TypeOK, SaveConfig, diskVars, DiskTypeOK
<1>5. RunInside'
  BY DEF Typed, RunInside, SaveConfig
<1> QED BY <1>4, <1>5 DEF Typed, SaveConfig

\* A machine without a run.
LEMMA IdleTyped ==
  ASSUME Reset, DiskTypeOK', cfg' \in Config, db' \in Database, tx' \in Database
  PROVE  Typed' /\ walk'.file = Nil
<1>1. /\ NoRun \in Run /\ NoRun.plan = {} /\ NoRun.cmd = "none"
  BY DEF NoRun, Run, Config
<1>2. NoWalk \in Walk /\ NoWalk.file = Nil
  BY DEF NoWalk, Walk
<1>3. NoReport \in Report
  BY DEF NoReport, Report
<1>4. TypeOK'
  BY <1>1, <1>2, <1>3 DEF Reset, TypeOK
<1>5. RunInside'
  BY <1>1 DEF Reset, RunInside
<1> QED BY <1>2, <1>4, <1>5 DEF Typed, Reset

\* A commit publishes the transaction.
LEMMA CommitEffect ==
  ASSUME Typed, Commit
  PROVE  Typed' /\ db' = tx /\ tx' = tx /\ walk'.file = Nil /\ UNCHANGED diskVars
BY IdleTyped DEF Commit, Typed, TypeOK, diskVars, DiskTypeOK

\* An abort drops it.
LEMMA AbortEffect ==
  ASSUME Typed, Abort
  PROVE  /\ Typed' /\ db' = db /\ tx' = db /\ walk'.file = Nil
         /\ disk' = disk /\ clock' = clock + 1
BY IdleTyped DEF Abort, Typed, TypeOK, DiskTypeOK, Tick

\* A database that was lost is empty.
LEMMA LoseDatabaseEffect ==
  ASSUME Typed, LoseDatabase
  PROVE  /\ Typed' /\ tx' = db'
         /\ Watched(db') = {} /\ \A p \in Path : db'.files[p] = Nil
         /\ disk' = disk /\ clock' = clock + 1 /\ walk' = walk
<1>1. db' = [EmptyDatabase EXCEPT !.rebuild = cfg.sources # {}] /\ tx' = db'
  BY DEF LoseDatabase
<1>2. /\ db' \in Database /\ Watched(db') = {}
      /\ \A p \in Path : db'.files[p] = Nil
  <2> DEFINE b == cfg.sources # {}
  <2>1. b \in BOOLEAN /\ db' = [EmptyDatabase EXCEPT !.rebuild = b]
    BY <1>1
  <2> HIDE DEF b
  <2> QED BY <2>1, EmptyIsDatabase, ReplaceTable, DatabaseFields DEF Database, Watched
<1>3. TypeOK'
  <2>1. UNCHANGED <<disk, offline, cfg, pc, run, walk, rep, gone, calm>> /\ clock' = clock + 1
    BY DEF LoseDatabase, Tick
  <2> QED BY <1>1, <1>2, <2>1 DEF Typed, TypeOK, DiskTypeOK
<1>4. RunInside'
  BY <1>2 DEF LoseDatabase, Typed, RunInside
<1> QED BY <1>1, <1>2, <1>3, <1>4 DEF LoseDatabase, Typed, Tick

\* Writing fmon.toml, and a change of the disk, leave the run alone.
LEMMA OutsideEffect ==
  ASSUME Typed, (\E c \in ConfigChoices : EditConfig(c)) \/ DiskStep
  PROVE  /\ Typed'
         /\ UNCHANGED <<db, tx, walk>>
         /\ (disk' = disk /\ clock' = clock + 1) \/ DiskNext
<1>1. cfg' \in Config /\ DiskTypeOK' /\ gone' \subseteq Path /\ calm' \in BOOLEAN
      /\ UNCHANGED runVars
  <2>1. ASSUME NEW c \in ConfigChoices, EditConfig(c)
        PROVE  cfg' \in Config /\ DiskTypeOK' /\ gone' \subseteq Path /\ calm' \in BOOLEAN
               /\ UNCHANGED runVars
    <3>1. cfg' = c /\ clock' = clock + 1 /\ UNCHANGED <<disk, offline, runVars, gone, calm>>
      BY <2>1 DEF EditConfig, Tick
    <3>2. c \in Config
      BY ScanConstants
    <3> QED BY <3>1, <3>2 DEF Typed, TypeOK, DiskTypeOK
  <2>2. CASE DiskStep
    BY <2>2, DiskStepEffect DEF DiskStep, Typed, TypeOK, NotFiles, runVars
  <2> QED BY <2>1, <2>2
<1>2. Typed'
  BY <1>1 DEF Typed, TypeOK, RunInside, Watched, runVars
<1>3. (disk' = disk /\ clock' = clock + 1) \/ DiskNext
  BY DEF EditConfig, DiskStep, Tick
<1> QED BY <1>1, <1>2, <1>3 DEF runVars

------------------------------------------------------------------------------
(* Starting a run.                                                           *)

\* Every row of e is the row of d.
RowsFrom(e, d) == \A p \in Path : e.files[p] # Nil => e.files[p] = d.files[p]

\* A run that starts without touching the disk, on a database of its own, with
\* a plan that it watches.
LEMMA BeginTyped ==
  ASSUME Typed, pc = "idle", tx' \in Database, run' \in Run, rep' \in Report,
         pc' \in {"plan", "save", "commit"}, run'.plan \subseteq Watched(tx'),
         run'.cmd \in {"add", "rm"} => run'.target \in Path,
         clock' = clock \/ clock' = clock + 1, Observe,
         UNCHANGED <<disk, offline, cfg, db, walk>>
  PROVE  Typed'
<1>1. gone' \subseteq Path /\ calm' \in BOOLEAN
  BY DEF Observe, NotFiles
<1>2. TypeOK'
  BY <1>1 DEF Typed, TypeOK, DiskTypeOK
<1>3. RunInside'
  BY DEF Typed, RunInside
<1> QED BY <1>2, <1>3 DEF Typed

\* Accepted paths never overlap.
LEMMA TopmostApart ==
  ASSUME NEW C \in SUBSET Path
  PROVE  Topmost(C) \subseteq C /\ \A s, t \in Topmost(C) : s # t => ~Overlaps(s, t)
BY DEF Topmost, Overlaps

\* Reconciling leaves the accepted sources that are known or were found, and
\* the rows of those that were known.
LEMMA BeginScanEffect ==
  ASSUME Typed, Owned(db), NEW full \in ScanFull, NEW only \in ScanOnly, BeginScan(full, only)
  PROVE  /\ Typed'
         /\ Owned(tx')
         /\ RowsFrom(tx', db)
         /\ UNCHANGED <<diskVars, db, cfg, walk>>
<1> DEFINE accepted == Topmost(cfg.sources)
           known == Watched(db)
<1>1. db \in Database /\ cfg \in Config /\ pc = "idle" /\ cfg.sources \subseteq Path
  BY DEF Typed, TypeOK, BeginScan, Config
<1>2. accepted \subseteq Path /\ \A s, t \in accepted : s # t => ~Overlaps(s, t)
  BY <1>1, TopmostApart
<1>3. PICK kinds \in [accepted \ known -> Kinds \cup {"error"}] :
        LET new == Found(kinds)
            planned == (accepted \cap known) \cup new
        IN /\ "scan" \in Commands
           /\ only \subseteq planned
           /\ pc' = "plan"
           /\ tx' = InsertSources(DeleteSources(db, known \ accepted),
                                  [s \in new |-> kinds[s]])
           /\ run' = [cmd |-> "scan", full |-> full, target |-> Nil,
                      plan |-> IF only = {} THEN planned ELSE only,
                      scope |-> IF only = {} THEN planned ELSE only,
                      fresh |-> new, cfg |-> cfg]
           /\ rep' = [NoReport EXCEPT
                        !.rebuilt = db.rebuild,
                        !.errors = \E s \in DOMAIN kinds : kinds[s] \in {"other", "error"}]
           /\ Observe
           /\ UNCHANGED <<diskVars, cfg, db, walk>>
  BY DEF BeginScan
<1> DEFINE new == Found(kinds)
           planned == (accepted \cap known) \cup new
           d == DeleteSources(db, known \ accepted)
           found == [s \in new |-> kinds[s]]
<1>4. new \subseteq accepted
  BY DEF Found
<1> HIDE DEF accepted, known, new
<1>5. /\ d \in Database
      /\ Watched(d) = known \cap accepted
      /\ \A p \in Path : d.files[p] # Nil => d.files[p] = db.files[p]
                                             /\ db.files[p].src \notin known \ accepted
  <2>1. Watched(d) = Watched(db) \ (known \ accepted)
    BY <1>1, DeleteSourcesEffect
  <2> QED BY <1>1, <2>1, DeleteSourcesEffect DEF known
<1> HIDE DEF d
<1>6. DOMAIN found = new /\ new \subseteq Path
  BY <1>2, <1>4
<1> HIDE DEF found
<1>7. tx' = InsertSources(d, found)
  BY <1>3 DEF d, found, new, accepted, known
<1>8. /\ tx' \in Database
      /\ tx'.files = d.files
      /\ Watched(tx') = planned
  BY <1>5, <1>6, <1>7, InsertSourcesEffect
<1>9. planned \subseteq accepted
  BY <1>4
<1>10. RowsFrom(tx', db)
  BY <1>5, <1>8 DEF RowsFrom
<1>11. ASSUME NEW p \in Path, tx'.files[p] # Nil
       PROVE  tx'.files[p].src \in Watched(tx') /\ p \in Tree(tx'.files[p].src)
  <2>1. tx'.files[p] = db.files[p] /\ db.files[p].src \notin known \ accepted
    BY <1>5, <1>8, <1>11
  <2>2. db.files[p].src \in known /\ p \in Tree(db.files[p].src)
    BY <1>11, <2>1 DEF Owned, known
  <2> QED BY <1>8, <2>1, <2>2
<1>12. Owned(tx')
  BY <1>2, <1>8, <1>9, <1>11 DEF Owned
<1>13. /\ run'.plan \subseteq planned
       /\ run'.cmd = "scan"
       /\ pc' = "plan" /\ Observe /\ UNCHANGED <<diskVars, cfg, db, walk>>
  BY <1>3 DEF new, accepted, known
<1>14. run' \in Run
  <2> DEFINE scope == IF only = {} THEN planned ELSE only
  <2>1. /\ run' = [cmd |-> "scan", full |-> full, target |-> Nil, plan |-> scope,
                   scope |-> scope, fresh |-> new, cfg |-> cfg]
        /\ scope \subseteq Path /\ "scan" \in Commands
    BY <1>2, <1>3, <1>6, <1>9 DEF new, accepted, known
  <2>2. full \in BOOLEAN
    BY ScanConstants
  <2> HIDE DEF scope
  <2> QED BY <1>1, <1>6, <2>1, <2>2 DEF Run
<1>15. rep' \in Report
  <2> DEFINE errors == \E s \in DOMAIN kinds : kinds[s] \in {"other", "error"}
             rebuilt == db.rebuild
  <2>1. rep' = [NoReport EXCEPT !.rebuilt = rebuilt, !.errors = errors]
    BY <1>3
  <2>2. errors \in BOOLEAN /\ rebuilt \in BOOLEAN
    BY <1>1, DatabaseFields
  <2> HIDE DEF errors, rebuilt
  <2> QED BY <2>1, <2>2 DEF NoReport, Report
<1>16. Typed'
  BY <1>1, <1>8, <1>13, <1>14, <1>15, BeginTyped DEF diskVars
<1> QED BY <1>10, <1>12, <1>13, <1>16

\* A run that only saves or commits.
LEMMA PlainRun ==
  ASSUME Typed, NEW cmd \in Commands, NEW target \in Path \cup {Nil}
  PROVE  /\ [NoRun EXCEPT !.cmd = cmd, !.cfg = cfg] \in Run
         /\ [NoRun EXCEPT !.cmd = cmd, !.cfg = cfg].plan = {}
         /\ [NoRun EXCEPT !.cmd = cmd, !.cfg = cfg].cmd = cmd
         /\ [NoRun EXCEPT !.cmd = cmd, !.target = target, !.cfg = cfg] \in Run
         /\ [NoRun EXCEPT !.cmd = cmd, !.target = target, !.cfg = cfg].plan = {}
         /\ [NoRun EXCEPT !.cmd = cmd, !.target = target, !.cfg = cfg].target = target
<1>1. cfg \in Config
  BY DEF Typed, TypeOK
<1> QED BY <1>1 DEF NoRun, Run, Config

\* A database with fewer rows of the same or fewer sources is owned, if the
\* owners of its rows are still there.
LEMMA OwnedKept ==
  ASSUME NEW d, NEW e, Owned(d), RowsFrom(e, d), Watched(e) \subseteq Watched(d),
         \A p \in Path : e.files[p] # Nil => d.files[p].src \in Watched(e)
  PROVE  Owned(e)
BY DEF Owned, RowsFrom

\* fmon add watches one more source, which overlaps no other.
LEMMA BeginAddEffect ==
  ASSUME Typed, Owned(db), NEW p \in Path, BeginAdd(p)
  PROVE  /\ Typed'
         /\ Owned(tx')
         /\ RowsFrom(tx', db)
         /\ disk' = disk /\ clock' = clock + 1 /\ db' = db /\ walk' = walk
<1> DEFINE found == [s \in {p} |-> At(p).kind]
<1>1. db \in Database /\ cfg \in Config /\ rep \in Report
  BY DEF Typed, TypeOK
<1>2. DOMAIN found = {p}
  OBVIOUS
<1>3. /\ pc = "idle" /\ pc' = "plan" /\ tx' = InsertSources(db, found)
      /\ run' = [cmd |-> "add", full |-> FALSE, target |-> p,
                 plan |-> {p}, scope |-> {p}, fresh |-> {p}, cfg |-> cfg]
      /\ "add" \in Commands
      /\ \A q \in Watched(db) : ~Overlaps(p, q)
      /\ clock' = clock + 1 /\ Observe
      /\ UNCHANGED <<disk, offline, cfg, db, walk, rep>>
  BY DEF BeginAdd, Tick
<1> HIDE DEF found
<1>4. /\ tx' \in Database
      /\ tx'.files = db.files
      /\ Watched(tx') = Watched(db) \cup {p}
  BY <1>1, <1>2, <1>3, InsertSourcesEffect
<1>5. run' \in Run /\ run'.plan = {p} /\ run'.target = p
  BY <1>1, <1>3 DEF Run
<1>6. Typed'
  BY <1>1, <1>3, <1>4, <1>5, BeginTyped
<1>7. \A q \in Watched(db) : ~Overlaps(q, p)
  BY <1>3 DEF Overlaps
<1>8. Owned(tx')
  BY <1>3, <1>4, <1>7 DEF Owned
<1> QED BY <1>3, <1>4, <1>6, <1>8 DEF RowsFrom

\* fmon rm drops one source with its rows.
LEMMA BeginRemoveEffect ==
  ASSUME Typed, Owned(db), NEW p \in Path, BeginRemove(p)
  PROVE  /\ Typed'
         /\ Owned(tx')
         /\ RowsFrom(tx', db)
         /\ disk' = disk /\ clock' = clock + 1 /\ db' = db /\ walk' = walk
<1>1. db \in Database /\ rep \in Report
  BY DEF Typed, TypeOK
<1>2. /\ pc = "idle" /\ pc' = "save" /\ tx' = DeleteSources(db, {p})
      /\ run' = [NoRun EXCEPT !.cmd = "rm", !.target = p, !.cfg = cfg]
      /\ "rm" \in Commands
      /\ clock' = clock + 1 /\ Observe
      /\ UNCHANGED <<disk, offline, cfg, db, walk, rep>>
  BY DEF BeginRemove, Tick
<1>3. /\ tx' \in Database
      /\ Watched(tx') = Watched(db) \ {p}
      /\ \A q \in Path : tx'.files[q] # Nil => tx'.files[q] = db.files[q]
                                               /\ db.files[q].src \notin {p}
  BY <1>1, <1>2, DeleteSourcesEffect
<1>4. run' \in Run /\ run'.plan = {} /\ run'.target = p
  BY <1>2, PlainRun
<1>5. Typed'
  BY <1>1, <1>2, <1>3, <1>4, BeginTyped
<1>6. RowsFrom(tx', db)
  BY <1>3 DEF RowsFrom
<1>7. \A q \in Path : tx'.files[q] # Nil => db.files[q].src \in Watched(tx')
  BY <1>3 DEF Owned
<1>8. Owned(tx')
  BY <1>3, <1>6, <1>7, OwnedKept
<1> QED BY <1>2, <1>5, <1>6, <1>8

\* fmon init starts from the empty database, fmon clear from an older history.
LEMMA BeginOthersEffect ==
  ASSUME Typed, Owned(db), BeginInit \/ (\E paths \in SUBSET Path : BeginClear(paths))
  PROVE  /\ Typed'
         /\ Owned(tx')
         /\ RowsFrom(tx', db)
         /\ disk' = disk /\ clock' = clock + 1 /\ db' = db /\ walk' = walk
<1>1. db \in Database /\ rep \in Report
  BY DEF Typed, TypeOK
<1>2. CASE BeginInit
  <2>1. /\ pc = "idle" /\ pc' = "save" /\ tx' = EmptyDatabase
        /\ run' = [NoRun EXCEPT !.cmd = "init", !.cfg = cfg]
        /\ "init" \in Commands
        /\ clock' = clock + 1 /\ Observe
        /\ UNCHANGED <<disk, offline, cfg, db, walk, rep>>
    BY <1>2 DEF BeginInit, Tick
  <2>2. run' \in Run /\ run'.plan = {} /\ run'.cmd = "init"
    BY <2>1, PlainRun
  <2>3. Typed'
    BY <1>1, <2>1, <2>2, EmptyIsDatabase, BeginTyped
  <2>4. RowsFrom(tx', db) /\ Owned(tx')
    BY <2>1, EmptyIsDatabase DEF RowsFrom, Owned
  <2> QED BY <2>1, <2>3, <2>4
<1>3. ASSUME NEW paths \in SUBSET Path, BeginClear(paths)
      PROVE  /\ Typed'
             /\ Owned(tx')
             /\ RowsFrom(tx', db)
             /\ disk' = disk /\ clock' = clock + 1 /\ db' = db /\ walk' = walk
  <2>1. /\ pc = "idle" /\ pc' = "commit" /\ tx' = ClearHistory(db, paths)
        /\ run' = [NoRun EXCEPT !.cmd = "clear", !.cfg = cfg]
        /\ "clear" \in Commands
        /\ clock' = clock + 1 /\ Observe
        /\ UNCHANGED <<disk, offline, cfg, db, walk, rep>>
    BY <1>3 DEF BeginClear, Tick
  <2>2. run' \in Run /\ run'.plan = {} /\ run'.cmd = "clear"
    BY <2>1, PlainRun
  <2>3. /\ tx' \in Database
        /\ tx'.files = db.files
        /\ Watched(tx') = Watched(db)
    BY <1>1, <2>1, ClearHistoryEffect
  <2>4. Typed'
    BY <1>1, <2>1, <2>2, <2>3, BeginTyped
  <2>5. RowsFrom(tx', db) /\ Owned(tx')
    BY <2>3 DEF RowsFrom, Owned
  <2> QED BY <2>1, <2>4, <2>5
<1> QED BY <1>2, <1>3

\* Whatever run begins, it begins with an owned database made of committed rows.
LEMMA BeginEffect ==
  ASSUME Typed, Owned(db), Begin
  PROVE  /\ Typed'
         /\ Owned(tx')
         /\ RowsFrom(tx', db)
         /\ disk' = disk /\ (clock' = clock \/ clock' = clock + 1)
         /\ db' = db /\ walk' = walk
<1>1. \A p \in Path : Tree(p) \in SUBSET Path
  BY TreeInTree, PathsFormATree DEF Tree
<1> QED
  BY <1>1, BeginScanEffect, BeginAddEffect, BeginRemoveEffect, BeginOthersEffect
     DEF Begin, diskVars

------------------------------------------------------------------------------
(* The inductive invariant.                                                  *)

\* The row that hashing the file at hand stores, with sum as its hash.
StoresRow(sum) ==
  tx'.files = [tx.files EXCEPT ![walk.file.path] =
    [src |-> walk.src, hash |-> sum, size |-> walk.file.size, mtime |-> walk.file.mtime]]

\* Before its commit a run keeps the sources it watches; it loses rows or
\* stores the row of the file it has hashed.
LEMMA RunStepEffect ==
  ASSUME Typed, RunStep
  PROVE  /\ Typed'
         /\ disk' = disk /\ clock' = clock
         /\ \/ db' = tx /\ tx' = tx
            \/ db' = db /\ Watched(tx') = Watched(tx) /\ RowsFrom(tx', tx)
            \/ /\ db' = db /\ Watched(tx') = Watched(tx)
               /\ walk.file \in Stat
               /\ walk.src \in Watched(tx) /\ walk.file.path \in Tree(walk.src)
               /\ \E sum \in Sums(walk.file) : StoresRow(sum)
         /\ \/ walk'.file = Nil
            \/ walk'.file = walk.file
            \/ \E p \in Path : disk[p].kind = "file" /\ walk'.file = StatOf(p)
<1> USE DEF RowsFrom, diskVars
<1>1. CASE \E s \in run.plan : SourceStep(s)
  BY <1>1, SourceStepEffect
<1>2. CASE RootLost \/ RootFound
  BY <1>2, RootStepEffect
<1>3. CASE \E i \in walk.todo : EntryStep(i)
  BY <1>3, EntryStepEffect
<1>4. CASE HashFile
  BY <1>4, HashFileEffect DEF StoresRow
<1>5. CASE HashFails
  BY <1>5, HashFailsEffect
<1>6. CASE FinishFolder
  BY <1>6, FinishFolderEffect
<1>7. CASE EndScan \/ EndAdd
  BY <1>7, EndPlanEffect
<1>8. CASE SaveConfig
  BY <1>8, SaveConfigEffect
<1>9. CASE Commit
  BY <1>9, CommitEffect
<1> QED BY <1>1, <1>2, <1>3, <1>4, <1>5, <1>6, <1>7, <1>8, <1>9 DEF RunStep

\* The invariant holds before the first run.
LEMMA InitIInv ==
  Init => IInv
<1> SUFFICES ASSUME Init PROVE IInv
  OBVIOUS
<1>1. EmptyDatabase \in Database /\ Owned(EmptyDatabase)
  BY EmptyIsDatabase DEF Owned
<1>2. /\ NoRun \in Run /\ NoRun.plan = {} /\ NoRun.cmd = "none"
      /\ NoWalk \in Walk /\ NoReport \in Report
  BY DEF NoRun, Run, Config, NoWalk, Walk, NoReport, Report
<1>3. cfg \in Config /\ DiskTypeOK
  BY ScanConstants, DiskConstants DEF Init, DiskTypeOK
<1>4. TypeOK
  BY <1>1, <1>2, <1>3 DEF Init, TypeOK
<1>5. RunInside
  BY <1>2 DEF Init, RunInside
<1> QED BY <1>1, <1>4, <1>5 DEF IInv, Typed, Init

\* Every step keeps the invariant.
LEMMA StepIInv ==
  IInv /\ [Next]_vars => IInv'
<1> SUFFICES ASSUME IInv, [Next]_vars PROVE IInv'
  OBVIOUS
<1> USE DEF IInv
<1>1. CASE Begin
  BY <1>1, BeginEffect
<1>2. CASE RunStep
  <2>1. CASE db' = tx /\ tx' = tx
    BY <1>2, <2>1, RunStepEffect
  <2>2. CASE db' = db /\ Watched(tx') = Watched(tx) /\ RowsFrom(tx', tx)
    <3>1. Owned(tx')
      BY <2>2 DEF Owned, RowsFrom
    <3> QED BY <1>2, <2>2, <3>1, RunStepEffect
  <2>3. CASE /\ db' = db /\ Watched(tx') = Watched(tx)
             /\ walk.file \in Stat
             /\ walk.src \in Watched(tx) /\ walk.file.path \in Tree(walk.src)
             /\ \E sum \in Sums(walk.file) : StoresRow(sum)
    <3>1. tx.files \in [Path -> FileState \cup {Nil}] /\ walk.file.path \in Path
      BY <2>3, DatabaseFields DEF Typed, TypeOK, Stat
    <3>2. \A p \in Path : \/ tx'.files[p] = tx.files[p]
                          \/ p = walk.file.path /\ tx'.files[p].src = walk.src
      BY <2>3, <3>1 DEF StoresRow
    <3>3. Owned(tx')
      BY <2>3, <3>2 DEF Owned
    <3> QED BY <1>2, <2>3, <3>3, RunStepEffect
  <2> QED BY <1>2, <2>1, <2>2, <2>3, RunStepEffect
<1>3. CASE Abort
  BY <1>3, AbortEffect
<1>4. CASE LoseDatabase
  BY <1>4, LoseDatabaseEffect DEF Owned
<1>5. CASE (\E c \in ConfigChoices : EditConfig(c)) \/ DiskStep
  BY <1>5, OutsideEffect
<1>6. CASE UNCHANGED vars
  <2>1. TypeOK'
    BY <1>6 DEF Typed, TypeOK, DiskTypeOK, vars, diskVars, runVars
  <2>2. RunInside'
    BY <1>6 DEF Typed, RunInside, vars, runVars
  <2> QED BY <1>6, <2>1, <2>2 DEF Typed, vars, runVars
<1> QED BY <1>1, <1>2, <1>3, <1>4, <1>5, <1>6 DEF Next

\* The invariant holds for ever.
LEMMA Invariance ==
  Spec => []IInv
BY InitIInv, StepIInv, PTL DEF Spec

\* Every variable keeps its type, whatever the disk, the user and the accidents
\* do between two steps of a run.
THEOREM TypeCorrect ==
  Spec => []TypeOK
<1>1. IInv => TypeOK
  BY DEF IInv, Typed
<1> QED BY <1>1, Invariance, PTL

\* Watched sources never overlap, and every stored row belongs to one watched
\* source that contains its file: during a run and after every commit or abort.
THEOREM OneOwnerAlways ==
  Spec => []OneOwner
<1>1. IInv => OneOwner
  BY DEF IInv, Owned, OneOwner
<1> QED BY <1>1, Invariance, PTL

------------------------------------------------------------------------------
(* The stat shortcut.                                                        *)

\* Rows have modification times.
LEMMA RowTimes ==
  ASSUME NEW d \in Database, NEW p \in Path, d.files[p] # Nil
  PROVE  d.files[p].mtime \in Nat
BY DatabaseFields DEF FileState

\* Fewer rows, on the same disk and not earlier, are stamped as well.
LEMMA StampedKept ==
  ASSUME NEW d \in Database, NEW e, RowsFrom(e, d), Stamped(d), clock \in Nat
  PROVE  /\ Stamped(e)
         /\ disk' = disk /\ (clock' = clock \/ clock' = clock + 1) =>
              \A p \in Path : e.files[p] # Nil =>
                /\ e.files[p].mtime <= clock'
                /\ (disk'[p].kind = "file" /\ disk'[p].mtime = e.files[p].mtime)
                     => disk'[p].content = e.files[p].hash
BY RowTimes DEF Stamped, RowsFrom

\* Without silent writes, a change of the disk leaves stored stamps sound: the
\* file written is younger than every row.
LEMMA DiskStepStamped ==
  ASSUME DiskTypeOK, DiskNext, ~SilentWrites, NEW d \in Database, Stamped(d)
  PROVE  \A p \in Path : d.files[p] # Nil =>
           /\ d.files[p].mtime <= clock'
           /\ (disk'[p].kind = "file" /\ disk'[p].mtime = d.files[p].mtime)
                => disk'[p].content = d.files[p].hash
<1> SUFFICES ASSUME NEW p \in Path, d.files[p] # Nil
             PROVE  /\ d.files[p].mtime <= clock'
                    /\ (disk'[p].kind = "file" /\ disk'[p].mtime = d.files[p].mtime)
                         => disk'[p].content = d.files[p].hash
  OBVIOUS
<1>1. d.files[p].mtime \in Nat /\ clock \in Nat
  BY RowTimes DEF DiskTypeOK
<1>2. /\ clock' = clock + 1
      /\ disk'[p] = disk[p] \/ disk'[p].kind # "file" \/ disk'[p].mtime = clock + 1
  BY DiskStepEffect
<1> QED BY <1>1, <1>2 DEF Stamped

\* The row that hashing stores is stamped soundly: the stat was taken first, so
\* if the file still has that stamp, the content read is the content on disk.
LEMMA HashStamped ==
  ASSUME Typed, walk.file \in Stat, NEW sum \in Sums(walk.file), StoresRow(sum),
         Stamped(tx), Past
  PROVE  Stamped(tx')
<1>1. tx.files \in [Path -> FileState \cup {Nil}] /\ walk.file.path \in Path
  BY DatabaseFields DEF Typed, TypeOK, Stat
<1> DEFINE p == walk.file.path
           row == [src |-> walk.src, hash |-> sum,
                   size |-> walk.file.size, mtime |-> walk.file.mtime]
<1>2. tx'.files[p] = row /\ \A q \in Path : q # p => tx'.files[q] = tx.files[q]
  BY <1>1 DEF StoresRow
<1>3. row.mtime = walk.file.mtime /\ row.hash = sum
  OBVIOUS
<1>4. walk.file.mtime <= clock
  BY NilIsNoStat DEF Past
<1>5. (disk[p].kind = "file" /\ disk[p].mtime = walk.file.mtime) => disk[p].content = sum
  BY DEF Sums
<1> HIDE DEF p, row
<1> QED BY <1>2, <1>3, <1>4, <1>5 DEF Stamped

\* Every step keeps the extended invariant.
LEMMA StepSInv ==
  ASSUME ~SilentWrites
  PROVE  IInv /\ SInv /\ [Next]_vars => SInv'
<1> SUFFICES ASSUME IInv, SInv, [Next]_vars PROVE SInv'
  OBVIOUS
<1>1. Typed /\ Owned(db) /\ db \in Database /\ tx \in Database /\ clock \in Nat
      /\ DiskTypeOK /\ walk \in Walk
  BY DEF IInv, Typed, TypeOK, DiskTypeOK
<1>2. \A p \in Path : disk[p].mtime \in Nat
  BY <1>1 DEF DiskTypeOK, Entry, NonFile
<1>3. walk.file # Nil => walk.file.mtime \in Nat
  BY <1>1 DEF Walk, Stat
<1>4. RowsFrom(db, db) /\ RowsFrom(tx, tx)
  BY DEF RowsFrom
<1>5. ASSUME disk' = disk, clock' = clock \/ clock' = clock + 1,
             RowsFrom(db', db) \/ RowsFrom(db', tx),
             RowsFrom(tx', db) \/ RowsFrom(tx', tx),
             \/ walk'.file = Nil
             \/ walk'.file = walk.file
             \/ \E p \in Path : disk[p].kind = "file" /\ walk'.file = StatOf(p)
      PROVE  SInv'
  <2>1. Stamped(db)'
    <3>1. CASE RowsFrom(db', db)
      BY <1>1, <1>5, <3>1, StampedKept DEF SInv, Stamped
    <3>2. CASE RowsFrom(db', tx)
      BY <1>1, <1>5, <3>2, StampedKept DEF SInv, Stamped
    <3> QED BY <1>5, <3>1, <3>2
  <2>2. Stamped(tx)'
    <3>1. CASE RowsFrom(tx', db)
      BY <1>1, <1>5, <3>1, StampedKept DEF SInv, Stamped
    <3>2. CASE RowsFrom(tx', tx)
      BY <1>1, <1>5, <3>2, StampedKept DEF SInv, Stamped
    <3> QED BY <1>5, <3>1, <3>2
  <2>3. \A p \in Path : StatOf(p).mtime = disk[p].mtime
    BY DEF StatOf
  <2>4. Past'
    BY <1>1, <1>2, <1>3, <1>5, <2>3 DEF SInv, Past
  <2> QED BY <2>1, <2>2, <2>4 DEF SInv
<1>6. CASE Begin
  BY <1>1, <1>4, <1>5, <1>6, BeginEffect
<1>7. CASE RunStep
  <2>1. CASE (db' = tx /\ tx' = tx) \/ (db' = db /\ RowsFrom(tx', tx))
    BY <1>1, <1>4, <1>5, <1>7, <2>1, RunStepEffect
  <2>2. CASE /\ db' = db /\ walk.file \in Stat
             /\ \E sum \in Sums(walk.file) : StoresRow(sum)
    <3>1. Stamped(tx')
      BY <1>1, <2>2, HashStamped DEF SInv
    <3>2. disk' = disk /\ clock' = clock
      BY <1>1, <1>7, RunStepEffect
    <3>3. Stamped(db)' /\ Stamped(tx)'
      BY <2>2, <3>1, <3>2 DEF SInv, Stamped
    <3>4. \A p \in Path : StatOf(p).mtime = disk[p].mtime
      BY DEF StatOf
    <3>5. Past'
      BY <1>1, <1>7, <3>2, <3>4, RunStepEffect DEF SInv, Past
    <3> QED BY <3>3, <3>5 DEF SInv
  <2> QED BY <1>1, <1>7, <2>1, <2>2, RunStepEffect
<1>8. CASE Abort
  BY <1>1, <1>4, <1>5, <1>8, AbortEffect
<1>9. CASE LoseDatabase
  BY <1>1, <1>5, <1>9, LoseDatabaseEffect DEF RowsFrom
<1>10. CASE (\E c \in ConfigChoices : EditConfig(c)) \/ DiskStep
  <2>1. UNCHANGED <<db, tx, walk>> /\ ((disk' = disk /\ clock' = clock + 1) \/ DiskNext)
    BY <1>1, <1>10, OutsideEffect
  <2>2. CASE disk' = disk /\ clock' = clock + 1
    BY <1>4, <1>5, <2>1, <2>2
  <2>3. CASE DiskNext
    <3>1. Stamped(db)' /\ Stamped(tx)'
      BY <1>1, <2>1, <2>3, DiskStepStamped DEF SInv, Stamped
    <3>2. clock' = clock + 1 /\ \A p \in Path : disk'[p].mtime <= clock'
      BY <1>1, <2>3, DiskStepEffect DEF SInv, Past
    <3>3. Past'
      BY <1>1, <1>3, <2>1, <3>2 DEF SInv, Past
    <3> QED BY <3>1, <3>3 DEF SInv
  <2> QED BY <2>1, <2>2, <2>3
<1>11. CASE UNCHANGED vars
  BY <1>4, <1>5, <1>11 DEF vars, diskVars, runVars
<1> QED BY <1>6, <1>7, <1>8, <1>9, <1>10, <1>11 DEF Next

\* A row is stored under the size and mtime the file had before it was hashed,
\* so as long as nobody changes a content behind size and mtime, a file whose
\* stamp equals the stored one has the stored content: the shortcut of
\* checkFile skips no change, however often files are rewritten during a scan.
THEOREM StampAlwaysTellsContent ==
  ASSUME ~SilentWrites
  PROVE  Spec => []StampTellsContent
<1>1. Init => SInv
  <2> SUFFICES ASSUME Init PROVE SInv
    OBVIOUS
  <2>1. Stamped(EmptyDatabase)
    BY EmptyIsDatabase DEF Stamped
  <2>2. \A p \in Path : disk[p].mtime = 0
    BY ScanConstants DEF Init
  <2>3. clock = 0 /\ walk.file = Nil
    BY DEF Init, NoWalk
  <2> QED BY <2>1, <2>2, <2>3 DEF Init, SInv, Past
<1>2. IInv /\ SInv /\ [Next]_vars => SInv'
  BY StepSInv
<1>3. SInv => StampTellsContent
  BY DEF SInv, Stamped, StampTellsContent
<1> QED BY <1>1, <1>2, <1>3, Invariance, PTL DEF Spec
==============================================================================
