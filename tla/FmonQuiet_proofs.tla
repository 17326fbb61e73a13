-------------------------- MODULE FmonQuiet_proofs ---------------------------
(***************************************************************************)
(* What a scan leaves behind.  Where the disk has never changed there is no *)
(* record of a file; a complete scan that is left alone marks every source *)
(* as it is; and the promises that the code does not always keep are kept  *)
(* under the conditions that are stated here.                              *)
(***************************************************************************)
EXTENDS FmonWalk_proofs

\* A command works with the configuration it has loaded.
LEMMA BeginConfig ==
  ASSUME Begin
  PROVE  cfg' = cfg /\ run'.cfg = cfg /\ calm' /\ pc = "idle" /\ pc' # "idle" /\ db' = db
         /\ UNCHANGED <<disk, offline>>
<1> DEFINE Begun == cfg' = cfg /\ run'.cfg = cfg /\ calm' /\ pc = "idle" /\ pc' # "idle"
                    /\ db' = db /\ UNCHANGED <<disk, offline>>
<1>1. ASSUME NEW full \in ScanFull, NEW only \in ScanOnly, BeginScan(full, only) PROVE Begun
  BY <1>1 DEF BeginScan, Observe, diskVars
<1>2. ASSUME NEW p, BeginAdd(p) PROVE Begun
  BY <1>2 DEF BeginAdd, Observe
<1>3. ASSUME NEW p, BeginRemove(p) PROVE Begun
  BY <1>3 DEF BeginRemove, NoRun, Observe
<1>4. ASSUME NEW paths, BeginClear(paths) PROVE Begun
  BY <1>4 DEF BeginClear, NoRun, Observe
<1>5. ASSUME BeginInit PROVE Begun
  BY <1>5 DEF BeginInit, NoRun, Observe
<1> QED BY <1>1, <1>2, <1>3, <1>4, <1>5 DEF Begin

------------------------------------------------------------------------------
(* A disk that has never changed.                                            *)

\* No change so far.
Still == disk = FirstDisk /\ offline = {}

\* The exclude list is the one every configuration has.
Alike == \A c \in ConfigChoices :
           cfg.exclude = c.exclude /\ (pc # "idle" => run.cfg.exclude = c.exclude)

\* Every row tells what is there.
Honest(d) == \A p \in Path : d.files[p] # Nil =>
               At(p).kind = "file" /\ d.files[p].hash = disk[p].content

\* Every source is there, and stored completely unless it is new.
Whole(d, new) ==
  \A s \in Watched(d) : Fits(d, s) /\ (s \notin new => Rows(d, s) = Visible(s, cfg.exclude))

\* The history is empty.
Blank(d) == \A p \in Path : d.history[p] = <<>>

\* While nothing has changed, all that is stored is true and nothing is recorded.
QInv ==
  /\ Alike
  /\ run.fresh \subseteq run.scope
  /\ pc # "idle" => calm
  /\ Whole(db, {}) /\ Whole(tx, run.fresh)
  /\ Honest(db) /\ Honest(tx)
  /\ Blank(db) /\ Blank(tx)

\* Whatever the user writes, the exclude list is the same.
OneExcludeList == \A b, c \in ConfigChoices : b.exclude = c.exclude

\* What such a machine is not subject to: errors, contents that change behind
\* their stamps, scans of some sources only, exclude lists that differ.
Unhampered == Flaky = {} /\ ~SilentWrites /\ ScanOnly \subseteq {{}} /\ OneExcludeList

\* The disk can only change visibly.
LEMMA StillStep ==
  ASSUME IInv, Still, Still', DiskStep
  PROVE  FALSE
<1>1. clock \in Nat /\ DiskTypeOK
  BY DEF IInv, Typed, TypeOK, DiskTypeOK
<1>2. \A p : At(p) = disk[p]
  BY DEF At, Still
<1>3. disk' = disk /\ offline' = offline /\ \A p \in Path : disk[p].mtime = 0
  BY ScanConstants DEF Still
<1>4. ASSUME NEW p \in Path, NEW c \in Content, Place(p, RegularFile(c, clock + 1)) PROVE FALSE
  <2>1. disk'[p] = RegularFile(c, clock + 1)
    BY <1>4 DEF Place
  <2> QED BY <1>1, <1>3, <2>1 DEF RegularFile
<1>5. ASSUME NEW p \in Path, NEW k \in Kinds \ {"file"}, Place(p, NonFile(k)) PROVE FALSE
  <2>1. disk'[p] = NonFile(k) /\ NonFile(k).kind = k /\ k # disk[p].kind
    BY <1>2, <1>5 DEF Place, NonFile
  <2> QED BY <1>3, <2>1
<1>6. ASSUME NEW p \in Path, NEW c \in Content, Corrupt(p, c) PROVE FALSE
  <2>1. disk[p].kind = "file" /\ c # disk[p].content /\ disk' = [disk EXCEPT ![p].content = c]
    BY <1>2, <1>6 DEF Corrupt
  <2>2. disk[p] \in [kind : {"file"}, content : Content, mtime : Nat]
    BY <1>1, <2>1 DEF DiskTypeOK, Entry, NonFile, Kinds
  <2>3. disk'[p] = [disk[p] EXCEPT !.content = c]
    BY <1>1, <2>1 DEF DiskTypeOK
  <2>4. disk'[p].content = c
    BY <2>2, <2>3
  <2> QED BY <1>3, <2>1, <2>4
<1>7. ASSUME NEW m \in Mounts, Unmount(m) \/ Mount(m) PROVE FALSE
  BY <1>3, <1>7 DEF Unmount, Mount, Still
<1> QED BY <1>4, <1>5, <1>6, <1>7 DEF DiskStep, DiskNext, Change

\* A run on such a machine meets no error and no surprise.
LEMMA QuietSteady ==
  ASSUME Unhampered, IInv, QInv, pc # "idle"
  PROVE  /\ Steady
         /\ \A s : Shown(s) = Visible(s, cfg.exclude)
<1>1. Steady
  BY DEF QInv, Unhampered, Steady
<1>2. PICK c : c \in ConfigChoices
  BY ScanConstants
<1>3. run.cfg.exclude = cfg.exclude
  BY <1>2 DEF QInv, Alike
<1> QED BY <1>1, <1>3 DEF Shown

\* The exclude list stays.
LEMMA AlikeStep ==
  ASSUME OneExcludeList, IInv, Alike, [Next]_vars
  PROVE  Alike' /\ cfg'.exclude = cfg.exclude
<1>1. ASSUME NEW c \in ConfigChoices
      PROVE  /\ cfg.exclude = c.exclude /\ (pc # "idle" => run.cfg.exclude = c.exclude)
             /\ \A b \in ConfigChoices : b.exclude = c.exclude
  BY DEF Alike, OneExcludeList
<1>2. PICK c : c \in ConfigChoices
  BY ScanConstants
<1>3. CASE Begin
  <2>1. cfg' = cfg /\ run'.cfg = cfg
    BY <1>3, BeginConfig
  <2> QED BY <1>1, <2>1 DEF Alike
<1>4. CASE SaveConfig
  <2>1. run.cfg \in Config /\ pc = "save" /\ run' = run
    BY <1>4 DEF IInv, Typed, TypeOK, Run, SaveConfig
  <2>2. cfg'.exclude = run.cfg.exclude
    BY <1>4, <2>1 DEF SaveConfig, Config
  <2> QED BY <1>1, <1>2, <2>1, <2>2 DEF Alike
<1>5. CASE Commit \/ Abort \/ LoseDatabase
  <2>1. cfg' = cfg /\ pc' = "idle"
    BY <1>5 DEF Commit, Abort, LoseDatabase, Reset
  <2> QED BY <1>1, <2>1 DEF Alike
<1>6. CASE RunStep /\ ~SaveConfig /\ ~Commit
  <2>1. cfg' = cfg
    BY <1>6 DEF RunStep, SourceStep, SourceMissing, SourceUnreadable, SourceReplaced,
         OpenFolder, OpenFile, RootLost, RootFound, EntryStep, ListDirectory, ListingFails,
         EntryVanished, EntryUnreadable, CheckFile, HashFile, HashFails, FinishFolder,
         EndScan, EndAdd
  <2>2. run'.cfg = run.cfg /\ pc # "idle"
    BY <1>6, RunStepMoves DEF IInv, Onward
  <2> QED BY <1>1, <2>1, <2>2 DEF Alike
<1>7. ASSUME NEW b \in ConfigChoices, EditConfig(b) PROVE Alike' /\ cfg'.exclude = cfg.exclude
  <2>1. cfg' = b /\ UNCHANGED runVars
    BY <1>7 DEF EditConfig
  <2> QED BY <1>1, <2>1 DEF Alike, runVars
<1>8. CASE DiskStep \/ UNCHANGED vars
  BY <1>1, <1>8 DEF Alike, DiskStep, vars, runVars
<1> QED BY <1>3, <1>4, <1>5, <1>6, <1>7, <1>8 DEF Next

\* A source that is inserted is taken for what was found there.
LEMMA InsertedType ==
  ASSUME NEW d \in Database, NEW kinds, DOMAIN kinds \subseteq Path, NEW s \in DOMAIN kinds
  PROVE  InsertSources(d, kinds).sources[s].type = TypeFor(kinds[s])
<1> DEFINE u == [t \in Path |-> IF t \in DOMAIN kinds
                                 THEN [type |-> TypeFor(kinds[t]), status |-> "active"]
                                 ELSE d.sources[t]]
<1>1. InsertSources(d, kinds) =
        [sources |-> u, files |-> d.files, history |-> d.history, rebuild |-> d.rebuild]
  BY ReplaceTable DEF InsertSources
<1>2. u[s] = [type |-> TypeFor(kinds[s]), status |-> "active"]
  OBVIOUS
<1> HIDE DEF u
<1> QED BY <1>1, <1>2

\* The sources a scan finds in fmon.toml are new, and are what they are.
LEMMA ReconcileFits ==
  ASSUME IInv, NEW full \in ScanFull, NEW only \in ScanOnly, BeginScan(full, only)
  PROVE  /\ \A s \in run'.fresh : Fits(tx', s)
         /\ only = {} => run'.fresh \subseteq run'.scope
<1> DEFINE accepted == Topmost(cfg.sources)
           known == Watched(db)
<1>1. db \in Database /\ accepted \subseteq Path /\ DiskTypeOK
  BY TopmostApart DEF IInv, Typed, TypeOK, Config, Topmost
<1>2. PICK kinds \in [accepted \ known -> Kinds \cup {"error"}] :
        LET new == Found(kinds)
            planned == (accepted \cap known) \cup new
        IN /\ \A s \in DOMAIN kinds : kinds[s] \in Outcomes(s)
           /\ tx' = InsertSources(DeleteSources(db, known \ accepted),
                                  [s \in new |-> kinds[s]])
           /\ run' = [cmd |-> "scan", full |-> full, target |-> Nil,
                      plan |-> IF only = {} THEN planned ELSE only,
                      scope |-> IF only = {} THEN planned ELSE only,
                      fresh |-> new, cfg |-> cfg]
  BY DEF BeginScan
<1> DEFINE new == Found(kinds)
           found == [s \in new |-> kinds[s]]
           d == DeleteSources(db, known \ accepted)
<1>3. run'.fresh = new /\ (only = {} => new \subseteq run'.scope)
  BY <1>2
<1>4. \A s \in new : s \in Path /\ kinds[s] \in {"dir", "file"} /\ kinds[s] = At(s).kind
  BY <1>1, <1>2 DEF Found, Outcomes
<1>5. tx' = InsertSources(d, found) /\ DOMAIN found = new /\ \A s \in new : found[s] = kinds[s]
  BY <1>2
<1>6. d \in Database
  BY <1>1, DeleteSourcesEffect
<1> HIDE DEF new, found, d
<1>7. \A s \in new : tx'.sources[s].type = TypeFor(kinds[s])
  <2>1. DOMAIN found \subseteq Path
    BY <1>4, <1>5
  <2> QED BY <1>5, <1>6, <2>1, InsertedType
<1>8. \A s \in new : Fits(tx', s)
  BY <1>4, <1>7 DEF Fits
<1> QED BY <1>3, <1>8

\* Every command starts from what was committed.
LEMMA BeginQuiet ==
  ASSUME Unhampered, IInv, QInv, Begin
  PROVE  /\ run'.fresh \subseteq run'.scope
         /\ Whole(tx', run'.fresh) /\ Honest(tx') /\ Blank(tx')
<1>1. /\ db \in Database /\ Watched(db) \subseteq Path /\ Owned(db)
      /\ Whole(db, {}) /\ Honest(db) /\ Blank(db)
  BY DEF IInv, Typed, TypeOK, Watched, QInv
<1>2. ASSUME RowsFrom(tx', db) PROVE Honest(tx')
  BY <1>1, <1>2 DEF RowsFrom, Honest
<1>3. Honest(tx')
  BY <1>2, BeginEffect DEF IInv
<1>4. ASSUME NEW full \in ScanFull, NEW only \in ScanOnly, BeginScan(full, only)
      PROVE  run'.fresh \subseteq run'.scope /\ Whole(tx', run'.fresh) /\ Blank(tx')
  <2> DEFINE accepted == Topmost(cfg.sources)
  <2>1. /\ tx'.history = db.history
        /\ Watched(tx') = (accepted \cap Watched(db)) \cup run'.fresh
        /\ \A s \in accepted \cap Watched(db) : tx'.sources[s] = db.sources[s]
        /\ \A p \in Path :
             tx'.files[p] = IF db.files[p] # Nil /\ db.files[p].src \notin accepted
                            THEN Nil ELSE db.files[p]
    BY <1>4, ReconcileTables
  <2>2. only = {}
    BY <1>4 DEF Unhampered
  <2>3. run'.fresh \subseteq run'.scope /\ \A s \in run'.fresh : Fits(tx', s)
    BY <1>4, <2>2, ReconcileFits
  <2> HIDE DEF accepted
  <2>4. \A s \in accepted : Rows(tx', s) = Rows(db, s)
    BY <2>1 DEF Rows
  <2>5. \A s \in accepted \cap Watched(db) : Fits(tx', s) /\ Rows(tx', s) = Visible(s, cfg.exclude)
    BY <1>1, <2>1, <2>4 DEF Whole, Fits
  <2> QED BY <1>1, <2>1, <2>3, <2>5 DEF Whole, Blank
<1>5. ASSUME NEW p \in Path, BeginAdd(p)
      PROVE  run'.fresh \subseteq run'.scope /\ Whole(tx', run'.fresh) /\ Blank(tx')
  <2> DEFINE found == [s \in {p} |-> At(p).kind]
  <2>1. /\ tx'.history = db.history /\ tx'.files = db.files
        /\ Watched(tx') = Watched(db) \cup {p} /\ run'.fresh = {p} /\ run'.scope = {p}
        /\ \A s \in Path \ {p} : tx'.sources[s] = db.sources[s]
    BY <1>5, AddTables DEF BeginAdd
  <2>2. tx' = InsertSources(db, found) /\ DOMAIN found = {p} /\ found[p] = At(p).kind
        /\ At(p).kind \in {"dir", "file"}
    BY <1>5 DEF BeginAdd
  <2> HIDE DEF found
  <2>3. Fits(tx', p)
    BY <1>1, <2>2, InsertedType DEF Fits
  <2>4. \A s \in Watched(db) \ {p} : Fits(tx', s) /\ Rows(tx', s) = Visible(s, cfg.exclude)
    BY <1>1, <2>1 DEF Whole, Fits, Rows
  <2> QED BY <1>1, <2>1, <2>3, <2>4 DEF Whole, Blank
<1>6. ASSUME NEW p \in Path, BeginRemove(p)
      PROVE  run'.fresh \subseteq run'.scope /\ Whole(tx', run'.fresh) /\ Blank(tx')
  <2>1. tx' = DeleteSources(db, {p}) /\ run'.fresh = {}
    BY <1>6 DEF BeginRemove, NoRun
  <2>2. Watched(tx') = Watched(db) \ {p}
    BY <1>1, <2>1, DeleteSourcesEffect
  <2>3. LET e == DeleteSources(db, {p})
        IN /\ e.history = db.history
           /\ \A s \in Path \ {p} : e.sources[s] = db.sources[s]
           /\ \A q \in Path : e.files[q] = IF db.files[q] # Nil /\ db.files[q].src \in {p}
                                            THEN Nil ELSE db.files[q]
    BY <1>1, DropStatement
  <2>4. /\ tx'.history = db.history
        /\ \A s \in Path \ {p} : tx'.sources[s] = db.sources[s]
        /\ \A q \in Path : tx'.files[q] = IF db.files[q] # Nil /\ db.files[q].src = p
                                          THEN Nil ELSE db.files[q]
    BY <2>1, <2>3
  <2>5. \A s \in Watched(tx') : Fits(tx', s) /\ Rows(tx', s) = Visible(s, cfg.exclude)
    <3> SUFFICES ASSUME NEW s \in Watched(tx')
                 PROVE  Fits(tx', s) /\ Rows(tx', s) = Visible(s, cfg.exclude)
      OBVIOUS
    <3>1. s \in Path /\ s # p /\ s \in Watched(db)
      BY <1>1, <2>2
    <3>2. tx'.sources[s] = db.sources[s] /\ Rows(tx', s) = Rows(db, s)
      BY <2>4, <3>1 DEF Rows
    <3> QED BY <1>1, <3>1, <3>2 DEF Whole, Fits
  <2> QED BY <1>1, <2>1, <2>4, <2>5 DEF Whole, Blank
<1>7. ASSUME NEW paths, BeginClear(paths)
      PROVE  run'.fresh \subseteq run'.scope /\ Whole(tx', run'.fresh) /\ Blank(tx')
  <2>1. tx' = ClearHistory(db, paths) /\ run'.fresh = {}
    BY <1>7 DEF BeginClear, NoRun
  <2> DEFINE h == [q \in Path |-> IF q \in paths THEN <<>> ELSE db.history[q]]
  <2>2. tx' = [db EXCEPT !.history = h] /\ \A q \in Path : h[q] = <<>>
    BY <1>1, <2>1 DEF ClearHistory, Blank
  <2> HIDE DEF h
  <2>3. tx'.sources = db.sources /\ tx'.files = db.files /\ tx'.history = h
    BY <1>1, <2>2, ReplaceTable
  <2> QED BY <1>1, <2>1, <2>2, <2>3 DEF Whole, Fits, Rows, Watched, Blank
<1>8. ASSUME BeginInit
      PROVE  run'.fresh \subseteq run'.scope /\ Whole(tx', run'.fresh) /\ Blank(tx')
  BY <1>8, EmptyIsDatabase DEF BeginInit, NoRun, Whole, Blank, EmptyDatabase
<1> QED BY <1>3, <1>4, <1>5, <1>6, <1>7, <1>8 DEF Begin

\* A step of a run that finds nothing new in a source that is known.
LEMMA QuietKept ==
  ASSUME Unhampered, IInv, QInv, RunStep, ~Commit, Honest(tx'), Blank(tx'),
         \A s \in Watched(tx) \ run.fresh : Rows(tx', s) = Rows(tx, s)
  PROVE  QInv'
<1>1. /\ Typed /\ Owned(tx) /\ Onward
      /\ UNCHANGED <<diskVars, gone, calm>> /\ run'.scope = run.scope
  BY RunStepMoves, RunStepKeeps DEF IInv
<1>2. Alike' /\ cfg'.exclude = cfg.exclude
  BY AlikeStep DEF Next, Unhampered, QInv
<1>3. \A s : At(s)' = At(s) /\ Visible(s, cfg.exclude)' = Visible(s, cfg.exclude)
  BY <1>1, <1>2 DEF At, Visible, diskVars
<1>4. Honest(tx)' /\ Blank(tx)' /\ Honest(db)' /\ Blank(db)'
  BY <1>1, <1>3 DEF QInv, Honest, Blank, Onward, diskVars
<1>5. Whole(db, {})'
  BY <1>1, <1>2, <1>3 DEF QInv, Whole, Fits, Onward
<1>6. Whole(tx, run.fresh)'
  <2> SUFFICES ASSUME NEW s \in Watched(tx)
               PROVE  /\ Fits(tx, s)'
                      /\ s \notin run.fresh => Rows(tx', s) = Visible(s, cfg.exclude)'
    BY <1>1 DEF Whole, Onward, Rows
  <2>1. Fits(tx, s) /\ (s \notin run.fresh => Rows(tx, s) = Visible(s, cfg.exclude))
    BY DEF QInv, Whole
  <2> QED BY <1>1, <1>3, <2>1, ShownKept
<1> QED BY <1>1, <1>2, <1>4, <1>5, <1>6 DEF QInv, Onward

\* The source being scanned, on such a machine.
LEMMA QuietSource ==
  ASSUME Unhampered, IInv, MInv, QInv, pc \in InSource
  PROVE  /\ Steady
         /\ walk.src \in Watched(tx)
         /\ walk.src \notin run.fresh => Rows(tx, walk.src) = Shown(walk.src)
<1>1. Steady /\ \A s : Shown(s) = Visible(s, cfg.exclude)
  BY QuietSteady DEF InSource
<1>2. walk.src \in Watched(tx)
  BY DEF IInv, Typed, RunInside, InSource
<1> QED BY <1>1, <1>2 DEF QInv, Whole

\* A file is hashed to what its row says, or it belongs to a new source.
LEMMA HashQuiet ==
  ASSUME Unhampered, IInv, MInv, QInv, HashFile, ~Commit
  PROVE  QInv'
<1> DEFINE p == walk.file.path
<1>1. /\ Typed /\ Owned(tx) /\ pc = "hash" /\ pc \in InSource /\ RunStep
      /\ DiskTypeOK /\ tx \in Database
  BY DEF IInv, Typed, TypeOK, RunStep, HashFile, InSource
<1>2. /\ Steady /\ walk.src \in Watched(tx)
      /\ walk.src \notin run.fresh => Rows(tx, walk.src) = Shown(walk.src)
  BY <1>1, QuietSource
<1>3. /\ p \in Path /\ p \in walk.seen /\ At(p).kind = "file"
      /\ tx'.files[p] # Nil /\ tx'.files[p].src = walk.src
      /\ tx'.files[p].hash = disk[p].content
      /\ \A q \in Path \ {p} : tx'.files[q] = tx.files[q]
  BY <1>2, HashUpright
<1>4. p \in Shown(walk.src)
  BY <1>1, <1>2, <1>3 DEF MInv, Walked, InSource
<1>5. PICK sum \in Content :
        /\ \A q \in Path : tx'.history[q] = IF q = p THEN tx.history[q] \o CheckEvents(p, sum)
                                            ELSE tx.history[q]
        /\ tx'.files = [tx.files EXCEPT ![p] =
             [src |-> walk.src, hash |-> sum,
              size |-> walk.file.size, mtime |-> walk.file.mtime]]
  BY <1>1, HashTables
<1>6. sum = disk[p].content
  <2>1. tx.files \in [Path -> FileState \cup {Nil}]
    BY <1>1, DatabaseFields
  <2> HIDE DEF p
  <2>2. tx'.files[p].hash = sum
    BY <1>3, <1>5, <2>1
  <2> QED BY <1>3, <2>2
<1>7. CheckEvents(p, sum) = <<>>
  <2>1. CASE Known(tx, walk.src, p)
    <3>1. tx.files[p] # Nil
      BY <2>1 DEF Known, Rows
    <3>2. tx.files[p].hash = disk[p].content
      BY <1>3, <3>1 DEF QInv, Honest
    <3> QED BY <1>6, <2>1, <3>2 DEF CheckEvents
  <2>2. CASE ~Known(tx, walk.src, p)
    <3>1. walk.src \in run.fresh
      BY <1>2, <1>4, <2>2 DEF Known
    <3> QED BY <2>2, <3>1 DEF CheckEvents, Baseline
  <2> QED BY <2>1, <2>2
<1> HIDE DEF p
<1>8. Blank(tx')
  <2>1. \A q \in Path : tx.history[q] = <<>>
    BY DEF QInv, Blank
  <2>2. <<>> \o <<>> = <<>>
    OBVIOUS
  <2> QED BY <1>5, <1>7, <2>1, <2>2 DEF Blank
<1>9. Honest(tx')
  BY <1>3 DEF QInv, Honest
<1>10. \A s \in Watched(tx) \ run.fresh : Rows(tx', s) = Rows(tx, s)
  <2> SUFFICES ASSUME NEW s \in Watched(tx) \ run.fresh PROVE Rows(tx', s) = Rows(tx, s)
    OBVIOUS
  <2>1. CASE s # walk.src
    BY <1>1, <2>1, OtherRowsKept
  <2>2. CASE s = walk.src
    <3>1. p \in Rows(tx, s)
      BY <1>2, <1>4, <2>2
    <3> QED BY <1>3, <2>2, <3>1 DEF Rows
  <2> QED BY <2>1, <2>2
<1> QED BY <1>1, <1>8, <1>9, <1>10, QuietKept

\* The walk has seen every row of a source that is known.
LEMMA FinishQuiet ==
  ASSUME Unhampered, IInv, MInv, QInv, FinishFolder, ~Commit
  PROVE  QInv'
<1> DEFINE s == walk.src
           lost == Lost(tx)
<1>1. /\ Typed /\ Owned(tx) /\ pc = "walk" /\ pc \in InSource /\ RunStep /\ walk.todo = {}
  BY DEF IInv, RunStep, FinishFolder, InSource
<1>2. Steady /\ s \in Watched(tx) /\ (s \notin run.fresh => Rows(tx, s) = Shown(s))
  BY <1>1, QuietSource
<1>3. /\ \A p \in Path : tx'.history[p] =
           IF p \in Reported(lost) THEN tx.history[p] \o <<Deleted(tx.files[p].hash)>>
           ELSE tx.history[p]
      /\ \A p \in Path : tx'.files[p] = IF p \in lost THEN Nil ELSE tx.files[p]
  BY <1>1, FinishTables
<1>4. s \notin run.fresh => lost = {}
  <2>1. \A p \in Shown(s) : p \in walk.seen
    BY <1>1, <1>2 DEF MInv, Walked, InSource
  <2> QED BY <1>2, <2>1 DEF Lost
<1>5. Reported(lost) = {}
  BY <1>4 DEF Reported, Baseline
<1> HIDE DEF lost, s
<1>6. Blank(tx') /\ Honest(tx')
  BY <1>3, <1>5 DEF QInv, Blank, Honest
<1>7. \A t \in Watched(tx) \ run.fresh : Rows(tx', t) = Rows(tx, t)
  <2> SUFFICES ASSUME NEW t \in Watched(tx) \ run.fresh PROVE Rows(tx', t) = Rows(tx, t)
    OBVIOUS
  <2>1. CASE t # s
    BY <1>1, <2>1, OtherRowsKept DEF s
  <2>2. CASE t = s
    BY <1>3, <1>4, <2>2 DEF Rows
  <2> QED BY <2>1, <2>2
<1> QED BY <1>1, <1>6, <1>7, QuietKept

\* No other step of a run touches a row or a record.
LEMMA RunStepQuiet ==
  ASSUME Unhampered, IInv, MInv, QInv, RunStep, ~Commit
  PROVE  QInv'
<1>1. Typed /\ Owned(tx)
  BY DEF IInv
<1>2. CASE HashFile
  BY <1>2, HashQuiet
<1>3. CASE FinishFolder
  BY <1>3, FinishQuiet
<1>4. CASE ~HashFile /\ ~FinishFolder
  <2>1. \A s \in run.plan : ~SourceMissing(s)
    <3> SUFFICES ASSUME NEW s \in run.plan, SourceMissing(s) PROVE FALSE
      OBVIOUS
    <3>1. At(s).kind = "none"
      BY DEF SourceMissing, Outcomes
    <3>2. Fits(tx, s)
      BY <1>1, PlannedSource DEF QInv, Whole
    <3> QED BY <3>1, <3>2 DEF Fits
  <2>2. tx'.files = tx.files /\ tx'.history = tx.history
    BY <1>1, <1>4, <2>1, StandingStep, QuietStep DEF RunStep, SourceStep, Quiet, Stands
  <2>3. Honest(tx') /\ Blank(tx') /\ \A s : Rows(tx', s) = Rows(tx, s)
    BY <2>2 DEF QInv, Honest, Blank, Rows
  <2> QED BY <2>3, QuietKept
<1> QED BY <1>2, <1>3, <1>4

\* A run that commits has scanned what was new.
LEMMA CommitQuiet ==
  ASSUME Unhampered, IInv, MInv, QInv, Commit
  PROVE  Whole(tx, {})
<1>1. pc = "commit" /\ pc \notin InSource
  BY DEF Commit, InSource
<1>2. Steady /\ \A s : Shown(s) = Visible(s, cfg.exclude)
  BY <1>1, QuietSteady
<1> SUFFICES ASSUME NEW s \in Watched(tx), s \in run.fresh PROVE Rows(tx, s) = Visible(s, cfg.exclude)
  BY DEF QInv, Whole
<1>3. Fits(tx, s) /\ s \in run.scope \ run.plan
  BY <1>1 DEF QInv, Whole, MInv, Scoped
<1>4. Mirrors(tx, s, Shown(s))
  BY <1>1, <1>2, <1>3 DEF MInv, Scanned
<1> QED BY <1>2, <1>4 DEF Mirrors

\* Every step keeps the invariant while the disk stays as it is.
LEMMA StepQInv ==
  ASSUME Unhampered
  PROVE  IInv /\ OInv /\ MInv /\ QInv /\ [Next]_vars /\ ~DiskStep => QInv'
<1> SUFFICES ASSUME IInv, OInv, MInv, QInv, [Next]_vars, ~DiskStep PROVE QInv'
  OBVIOUS
<1>1. Alike' /\ cfg'.exclude = cfg.exclude
  BY AlikeStep DEF Unhampered, QInv
<1>2. ASSUME disk' = disk, offline' = offline
      PROVE  \A s : At(s)' = At(s) /\ Visible(s, cfg.exclude)' = Visible(s, cfg.exclude)
  BY <1>1, <1>2 DEF At, Visible
<1>3. ASSUME disk' = disk, offline' = offline, pc' = "idle", run' = NoRun, db' = tx',
             Whole(tx', {}), Honest(tx'), Blank(tx')
      PROVE  QInv'
  <2>1. \A s : At(s)' = At(s) /\ Visible(s, cfg.exclude)' = Visible(s, cfg.exclude)
    BY <1>2, <1>3
  <2>2. run'.fresh = {} /\ run'.scope = {}
    BY <1>3 DEF NoRun
  <2>3. Whole(tx, {})' /\ Honest(tx)' /\ Blank(tx)'
    BY <1>3, <2>1 DEF Whole, Fits, Honest, Blank
  <2>4. Whole(db, {})' /\ Honest(db)' /\ Blank(db)'
    BY <1>3, <2>3 DEF Whole, Fits, Honest, Blank, Watched, Rows
  <2> QED BY <1>1, <1>3, <2>2, <2>3, <2>4 DEF QInv
<1>4. CASE Begin
  <2>1. /\ calm' /\ pc' # "idle" /\ db' = db /\ disk' = disk /\ offline' = offline
    BY <1>4, BeginConfig
  <2>2. \A s : At(s)' = At(s) /\ Visible(s, cfg.exclude)' = Visible(s, cfg.exclude)
    BY <1>2, <2>1
  <2>3. run'.fresh \subseteq run'.scope /\ Whole(tx', run'.fresh) /\ Honest(tx') /\ Blank(tx')
    BY <1>4, BeginQuiet
  <2>4. Whole(tx, run.fresh)' /\ Honest(tx)' /\ Blank(tx)'
    <3>1. Honest(tx)' /\ Blank(tx)'
      BY <2>1, <2>2, <2>3 DEF Honest, Blank
    <3>2. Whole(tx, run.fresh)'
      <4> SUFFICES ASSUME NEW s \in Watched(tx')
                   PROVE  /\ Fits(tx, s)'
                          /\ s \notin run'.fresh => Rows(tx', s) = Visible(s, cfg.exclude)'
        BY DEF Whole, Watched, Rows
      <4>1. /\ Fits(tx', s)
            /\ s \notin run'.fresh => Rows(tx', s) = Visible(s, cfg.exclude)
        BY <2>3 DEF Whole
      <4> QED BY <2>2, <4>1 DEF Fits
    <3> QED BY <3>1, <3>2
  <2>5. Whole(db, {})' /\ Honest(db)' /\ Blank(db)'
    BY <2>1, <2>2 DEF QInv, Whole, Fits, Honest, Blank, Watched, Rows
  <2> QED BY <1>1, <2>1, <2>3, <2>4, <2>5 DEF QInv
<1>5. CASE RunStep /\ ~Commit
  BY <1>5, RunStepQuiet
<1>6. CASE Commit
  <2>1. tx' = tx /\ db' = tx /\ disk' = disk /\ offline' = offline /\ pc' = "idle" /\ run' = NoRun
    BY <1>6 DEF Commit, Reset, diskVars
  <2>2. Whole(tx, {})
    BY <1>6, CommitQuiet
  <2> QED BY <1>3, <2>1, <2>2 DEF QInv
<1>7. CASE Abort
  <2>1. tx' = db /\ db' = db /\ disk' = disk /\ offline' = offline /\ pc' = "idle" /\ run' = NoRun
    BY <1>7 DEF Abort, Reset
  <2> QED BY <1>3, <2>1 DEF QInv
<1>8. CASE LoseDatabase
  <2>1. /\ disk' = disk /\ offline' = offline /\ pc' = "idle" /\ run' = NoRun /\ db' = tx'
        /\ tx' = [EmptyDatabase EXCEPT !.rebuild = cfg.sources # {}]
    BY <1>8 DEF LoseDatabase, OInv, Resting
  <2>2. tx'.sources = EmptyDatabase.sources /\ tx'.files = EmptyDatabase.files
        /\ tx'.history = EmptyDatabase.history
    BY <2>1 DEF EmptyDatabase
  <2>3. Watched(tx') = {} /\ Honest(tx') /\ Blank(tx')
    BY <2>2 DEF EmptyDatabase, Watched, Honest, Blank
  <2> QED BY <1>3, <2>1, <2>3 DEF Whole
<1>9. CASE (\E c \in ConfigChoices : EditConfig(c)) \/ UNCHANGED vars
  <2>1. disk' = disk /\ offline' = offline /\ UNCHANGED runVars /\ calm' = calm
    BY <1>9 DEF EditConfig, vars, diskVars
  <2>2. \A s : At(s)' = At(s) /\ Visible(s, cfg.exclude)' = Visible(s, cfg.exclude)
    BY <1>2, <2>1
  <2>3. /\ Whole(db, {})' /\ Honest(db)' /\ Blank(db)'
        /\ Whole(tx, run.fresh)' /\ Honest(tx)' /\ Blank(tx)'
    BY <2>1, <2>2 DEF QInv, Whole, Fits, Honest, Blank, Watched, Rows, runVars
  <2> QED BY <1>1, <2>1, <2>3 DEF QInv, runVars
<1> QED BY <1>4, <1>5, <1>6, <1>7, <1>8, <1>9 DEF Next

\* It holds before the first run.
LEMMA InitQInv ==
  ASSUME Unhampered, Init
  PROVE  QInv
<1>1. Alike
  BY DEF Init, Alike, Unhampered, OneExcludeList
<1>2. Watched(EmptyDatabase) = {} /\ Honest(EmptyDatabase) /\ Blank(EmptyDatabase)
  BY DEF EmptyDatabase, Watched, Honest, Blank
<1>3. run.fresh = {} /\ pc = "idle" /\ db = EmptyDatabase /\ tx = EmptyDatabase
  BY DEF Init, NoRun
<1> QED BY <1>1, <1>2, <1>3 DEF QInv, Whole

\* scanner.go:424, 365 and 535: as long as nothing has happened on disk, no run
\* writes a record, whatever the user runs, edits, interrupts or loses.
THEOREM QuietDisksLeaveNoRecord ==
  ASSUME FilesAreInDirectories, ListingsReachAll, Unhampered
  PROVE  Spec /\ []Still => []QuietDiskQuietHistory
<1>1. Init => QInv
  BY InitQInv
<1>2. IInv /\ OInv /\ MInv /\ QInv /\ Still /\ Still' /\ [Next]_vars => QInv'
  BY StepQInv, StillStep
<1>3. QInv => QuietDiskQuietHistory
  BY DEF QInv, Blank, QuietDiskQuietHistory
<1> QED BY <1>1, <1>2, <1>3, Invariance, ComparisonHolds, MirrorHolds, PTL DEF Spec

------------------------------------------------------------------------------
(* A disk that cannot become what it was.  Only empty directories, entries   *)
(* that are no regular file and mounts can go away and come back the same.   *)

\* Where something can change there was a regular file at first, or a directory
\* with one below it, which goes with it; and no tree comes and goes.
Irreversible ==
  /\ Mounts = {}
  /\ \A p \in Path : Shapes[p] # {} =>
       \/ FirstDisk[p].kind = "file"
       \/ \E q \in Below[p] : FirstDisk[q].kind = "file"

\* A first file has been written since, or is gone for another entry.
Moved == \E p \in Path : FirstDisk[p].kind = "file"
                         /\ (disk[p].kind # "file" \/ disk[p].mtime > 0)

\* A disk that has moved is not the first one.
LEMMA MovedIsNew ==
  ASSUME Moved
  PROVE  disk # FirstDisk
<1>1. PICK p \in Path : FirstDisk[p].kind = "file"
                        /\ (disk[p].kind # "file" \/ disk[p].mtime > 0)
  BY DEF Moved
<1>2. FirstDisk[p].mtime = 0
  BY ScanConstants
<1> QED BY <1>1, <1>2

\* Every step of the disk moves it.
LEMMA DiskStepMoves ==
  ASSUME Irreversible, Unhampered, IInv, Planted, DiskStep
  PROVE  /\ offline' = offline
         /\ Moved'
<1>1. clock \in Nat /\ DiskTypeOK /\ ~SilentWrites
  BY DEF IInv, Typed, TypeOK, DiskTypeOK, Unhampered
<1>2. ASSUME NEW p \in Path, NEW e, Place(p, e),
             e.kind # "file" \/ e.mtime > 0
      PROVE  offline' = offline /\ Moved'
  <2>1. disk'[p] = e /\ e.kind \in Shapes[p] /\ offline' = offline
    BY <1>2 DEF Place
  <2>2. CASE FirstDisk[p].kind = "file"
    BY <1>2, <2>1, <2>2 DEF Moved
  <2>3. ASSUME NEW q \in Below[p], FirstDisk[q].kind = "file" PROVE Moved'
    <3>1. q \in Path /\ q # p /\ Within(q, p)
      BY PathsFormATree DEF Within
    <3>2. CASE e.kind # "dir"
      <4>1. disk'[q] = Absent
        BY <1>2, <3>1, <3>2 DEF Place
      <4> QED BY <2>3, <3>1, <4>1 DEF Moved, Absent, NonFile
    <3>3. CASE e.kind = "dir"
      <4>1. disk[p].kind # "dir" /\ disk'[q] = disk[q]
        BY <1>2, <3>1, <3>3 DEF Place, At
      <4>2. disk[q].kind = "none"
        BY <4>1 DEF Planted
      <4> QED BY <2>3, <3>1, <4>1, <4>2 DEF Moved
    <3> QED BY <3>2, <3>3
  <2> QED BY <2>1, <2>2, <2>3 DEF Irreversible
<1>3. ASSUME NEW p \in Path, NEW c \in Content, Place(p, RegularFile(c, clock + 1))
      PROVE  offline' = offline /\ Moved'
  <2>1. RegularFile(c, clock + 1).mtime > 0
    BY <1>1 DEF RegularFile
  <2> QED BY <1>2, <1>3, <2>1
<1>4. ASSUME NEW p \in Path, NEW k \in Kinds \ {"file"}, Place(p, NonFile(k))
      PROVE  offline' = offline /\ Moved'
  <2>1. NonFile(k).kind # "file"
    BY DEF NonFile
  <2> QED BY <1>2, <1>4, <2>1
<1> QED BY <1>1, <1>3, <1>4 DEF DiskStep, DiskNext, Change, Corrupt, Irreversible

\* So a disk is as it was only if it has never changed.
Untroubled == (Still /\ QInv) \/ Moved

LEMMA UntroubledHolds ==
  ASSUME FilesAreInDirectories, ListingsReachAll, Unhampered, Irreversible
  PROVE  Spec => []Untroubled
<1>1. Init => Untroubled
  BY InitQInv DEF Init, Still, Untroubled
<1>2. IInv /\ OInv /\ MInv /\ Planted /\ Untroubled /\ [Next]_vars => Untroubled'
  <2> SUFFICES ASSUME IInv, OInv, MInv, Planted, Untroubled, [Next]_vars PROVE Untroubled'
    OBVIOUS
  <2>1. CASE DiskStep
    BY <2>1, DiskStepMoves DEF Untroubled
  <2>2. CASE ~DiskStep
    <3>1. disk' = disk /\ offline' = offline
      <4>1. CASE Begin
        BY <4>1, BeginConfig
      <4>2. CASE RunStep
        BY <4>2, RunStepKeeps DEF IInv, Commit, diskVars
      <4>3. CASE Abort \/ LoseDatabase \/ (\E c \in ConfigChoices : EditConfig(c)) \/ UNCHANGED vars
        BY <4>3 DEF Abort, LoseDatabase, EditConfig, vars, diskVars
      <4> QED BY <2>2, <4>1, <4>2, <4>3 DEF Next
    <3>2. CASE Still /\ QInv
      BY <2>2, <3>1, <3>2, StepQInv DEF Still, Untroubled
    <3>3. CASE Moved
      BY <3>1, <3>3 DEF Moved, Untroubled
    <3> QED BY <3>2, <3>3 DEF Untroubled
  <2> QED BY <2>1, <2>2
<1> QED BY <1>1, <1>2, Invariance, ComparisonHolds, MirrorHolds, PlantedHolds, PTL DEF Spec

\* The same without a hypothesis on the behaviour: where no change of the disk
\* can be undone, no record is there while the disk is as it was.
THEOREM UnchangedDisksLeaveNoRecord ==
  ASSUME FilesAreInDirectories, ListingsReachAll, Unhampered, Irreversible
  PROVE  Spec => []QuietDiskQuietHistory
<1>1. Untroubled => QuietDiskQuietHistory
  BY MovedIsNew DEF Untroubled, QInv, Blank, QuietDiskQuietHistory
<1> QED BY <1>1, UntroubledHolds, PTL

\* scanner.go:116, README: then no file of a source that was added to fmon.toml
\* by hand is reported as ADDED either; of what Unhampered rules out, the scans
\* of some sources only are what breaks this promise.
THEOREM HandAddedSourcesAreSilent ==
  ASSUME FilesAreInDirectories, ListingsReachAll, Unhampered, Irreversible
  PROVE  Spec => []HandAddedSourceIsSilent
<1>1. Untroubled => HandAddedSourceIsSilent
  BY MovedIsNew DEF Untroubled, QInv, Blank, HandAddedSourceIsSilent
<1> QED BY <1>1, UntroubledHolds, PTL

------------------------------------------------------------------------------
(* A scan that is left alone settles everything.                             *)

\* A scan works with the sources of the list it has loaded: with no other, and
\* with all that it could find.
FromTheList ==
  pc # "idle" /\ run.cmd = "scan" =>
    /\ pc # "save"
    /\ pc = "commit" => ~tx.rebuild
    /\ Watched(tx) \subseteq Topmost(run.cfg.sources)
    /\ calm /\ ~rep.errors =>
         \A s \in Topmost(run.cfg.sources) : At(s).kind \in {"dir", "file"} => s \in Watched(tx)

\* It has marked as missing what is away, and nothing else, as far as the stats of
\* the roots could tell.
Answered ==
  calm =>
    \A s \in run.scope \ run.plan :
      s \notin Flaky \/ ~rep.errors => (s \in Missing(tx) <=> At(s).kind = "none")

\* The invariant of a scan that is left alone.
CInv == FromTheList /\ Answered

\* A scan starts from its list.
LEMMA BeginListed ==
  ASSUME IInv, Begin
  PROVE  FromTheList'
<1>1. ASSUME NEW p, BeginAdd(p) PROVE run'.cmd # "scan"
  BY <1>1 DEF BeginAdd
<1>2. ASSUME NEW p, BeginRemove(p) PROVE run'.cmd # "scan"
  BY <1>2 DEF BeginRemove, NoRun
<1>3. ASSUME NEW paths, BeginClear(paths) PROVE run'.cmd # "scan"
  BY <1>3 DEF BeginClear, NoRun
<1>4. ASSUME BeginInit PROVE run'.cmd # "scan"
  BY <1>4 DEF BeginInit, NoRun
<1>5. ASSUME NEW full \in ScanFull, NEW only \in ScanOnly, BeginScan(full, only) PROVE FromTheList'
  <2> DEFINE accepted == Topmost(cfg.sources)
             known == Watched(db)
  <2>1. /\ Watched(tx') = (accepted \cap known) \cup run'.fresh /\ run'.fresh \subseteq accepted
        /\ run'.cfg = cfg /\ pc' = "plan"
    BY <1>5, ReconcileTables
  <2>2. PICK kinds \in [accepted \ known -> Kinds \cup {"error"}] :
          LET new == Found(kinds)
              planned == (accepted \cap known) \cup new
          IN /\ \A s \in DOMAIN kinds : kinds[s] \in Outcomes(s)
             /\ run' = [cmd |-> "scan", full |-> full, target |-> Nil,
                        plan |-> IF only = {} THEN planned ELSE only,
                        scope |-> IF only = {} THEN planned ELSE only,
                        fresh |-> new, cfg |-> cfg]
             /\ rep' = [NoReport EXCEPT
                          !.rebuilt = db.rebuild,
                          !.errors = \E s \in DOMAIN kinds : kinds[s] \in {"other", "error"}]
             /\ UNCHANGED diskVars
    BY <1>5 DEF BeginScan
  <2>3. (\E s \in DOMAIN kinds : kinds[s] \in {"other", "error"}) => rep'.errors
    BY <2>2 DEF NoReport
  <2>4. \A s : At(s)' = At(s)
    BY <2>2 DEF At, diskVars
  <2>5. DOMAIN kinds = accepted \ known /\ run'.fresh = Found(kinds)
    BY <2>2
  <2> HIDE DEF accepted, known
  <2>6. ASSUME ~rep'.errors, NEW s \in accepted, At(s).kind \in {"dir", "file"}
        PROVE  s \in (accepted \cap known) \cup run'.fresh
    BY <2>2, <2>3, <2>5, <2>6 DEF Found, Outcomes
  <2> QED BY <2>1, <2>4, <2>6 DEF FromTheList, accepted, known
<1> QED BY <1>1, <1>2, <1>3, <1>4, <1>5 DEF Begin, FromTheList

\* It keeps to it, and ends with the request for a new baseline cleared.
LEMMA RunStepListed ==
  ASSUME IInv, CInv, RunStep, ~Commit
  PROVE  FromTheList'
<1> SUFFICES ASSUME run'.cmd = "scan" PROVE FromTheList'
  BY DEF FromTheList
<1>1. /\ Typed /\ Onward /\ tx \in Database /\ UNCHANGED <<diskVars, calm>>
      /\ rep.errors => rep'.errors
  BY RunStepMoves, RunStepKeeps DEF IInv, Typed, TypeOK
<1>2. /\ pc # "save" /\ (pc = "commit" => ~tx.rebuild) /\ run.cmd = "scan"
      /\ Watched(tx) \subseteq Topmost(run.cfg.sources)
      /\ calm /\ ~rep.errors =>
           \A s \in Topmost(run.cfg.sources) : At(s).kind \in {"dir", "file"} => s \in Watched(tx)
  BY <1>1 DEF CInv, FromTheList, Onward
<1>3. \A s : At(s)' = At(s)
  BY <1>1 DEF At, diskVars
<1>4. rep \in Report /\ rep' \in Report
  BY <1>1, RunStepEffect DEF IInv, Typed, TypeOK
<1>5. pc' # "save" /\ (pc' = "commit" => ~tx'.rebuild)
  <2>1. CASE EndScan
    BY <1>1, <2>1, ReplaceTable DEF EndScan
  <2>2. CASE ~EndScan
    BY <1>2, <2>2 DEF RunStep, SourceStep, SourceMissing, SourceUnreadable, SourceReplaced,
       OpenFolder, OpenFile, RootLost, RootFound, EntryStep, ListDirectory, ListingFails,
       EntryVanished, EntryUnreadable, CheckFile, HashFile, HashFails, AfterFile, FinishFolder,
       EndAdd, SaveConfig
  <2> QED BY <2>1, <2>2
<1> QED BY <1>1, <1>2, <1>3, <1>5 DEF FromTheList, Onward

\* Each source it is done with has been marked for what it is.
LEMMA RunStepAnswered ==
  ASSUME IInv, CInv, RunStep, ~Commit
  PROVE  Answered'
<1> SUFFICES ASSUME calm', NEW s \in run'.scope \ run'.plan, s \notin Flaky \/ ~rep'.errors
             PROVE  s \in Missing(tx') <=> At(s)'.kind = "none"
  BY DEF Answered, Missing, Watched
<1>1. /\ Typed /\ Owned(tx) /\ run'.scope = run.scope /\ calm /\ (s \notin Flaky \/ ~rep.errors)
      /\ UNCHANGED diskVars /\ s \in run.scope /\ run \in Run /\ rep \in Report
  BY RunStepKeeps DEF IInv, Typed, TypeOK
<1>2. Onward /\ At(s)' = At(s)
  BY <1>1, RunStepMoves DEF At, diskVars
<1>3. CASE ~\E t \in run.plan : SourceStep(t)
  <2>1. run'.plan = run.plan
    BY <1>3 DEF RunStep, RootLost, RootFound, EntryStep, ListDirectory, ListingFails,
       EntryVanished, EntryUnreadable, CheckFile, HashFile, HashFails, FinishFolder,
       EndScan, EndAdd, SaveConfig
  <2>2. tx'.sources = tx.sources
    BY <1>1, <1>3, QuietStep, HashStep, FinishStep DEF RunStep, Quiet, Stores
  <2>3. Missing(tx') = Missing(tx)
    BY <1>2, <2>2 DEF Onward, Missing
  <2> QED BY <1>1, <1>2, <2>1, <2>3 DEF CInv, Answered
<1>4. ASSUME NEW t \in run.plan, SourceStep(t)
      PROVE  s \in Missing(tx') <=> At(s).kind = "none"
  <2>1. run'.plan = run.plan \ {t}
    BY <1>1, <1>4, FinishedRun DEF SourceStep, SourceMissing, SourceUnreadable, SourceReplaced,
       OpenFolder, OpenFile
  <2>2. CASE SourceUnreadable(t)
    <3>1. rep'.errors /\ t \in Flaky
      <4>1. t \in Path
        BY <1>1, <1>4, PlannedSource DEF IInv
      <4>2. At(t).kind \in Kinds
        BY <1>1, <4>1, AtEntry DEF Typed, TypeOK
      <4> QED BY <1>1, <2>2, <4>2 DEF SourceUnreadable, Report, Outcomes, Kinds
    <3>2. tx' = tx /\ s # t
      BY <1>4, <2>2, <3>1 DEF SourceUnreadable
    <3> QED BY <1>1, <2>1, <3>2 DEF CInv, Answered
  <2>4. CASE SourceMissing(t)
    <3>1. At(t).kind = "none"
      BY <2>4 DEF SourceMissing, Outcomes
    <3>2. Missing(tx') = Missing(tx) \cup {t}
      <4>1. (Quiet /\ t \in Missing(tx)) \/ Vanishes(t)
        BY <1>1, <2>4, MissingStep
      <4>2. Quiet => Missing(tx') = Missing(tx)
        BY <1>2 DEF Quiet, Onward, Missing
      <4> QED BY <4>1, <4>2 DEF Vanishes
    <3> QED BY <1>1, <2>1, <3>1, <3>2 DEF CInv, Answered
  <2>5. CASE SourceReplaced(t) \/ OpenFolder(t) \/ OpenFile(t)
    <3>1. At(t).kind # "none"
      BY <2>5 DEF SourceReplaced, OpenFolder, OpenFile
    <3>2. Missing(tx') = Missing(tx) \ {t}
      BY <1>1, <2>5, StandingStep DEF Stands
    <3> QED BY <1>1, <2>1, <3>1, <3>2 DEF CInv, Answered
  <2> QED BY <1>4, <2>2, <2>4, <2>5 DEF SourceStep
<1> QED BY <1>2, <1>3, <1>4

\* Every step keeps both.
LEMMA StepCInv ==
  IInv /\ OInv /\ CInv /\ [Next]_vars => CInv'
<1> SUFFICES ASSUME IInv, OInv, CInv, [Next]_vars PROVE CInv'
  OBVIOUS
<1>1. CASE Begin
  <2>1. pc' # "idle" /\ run'.plan = run'.scope
    BY <1>1, BeginScope
  <2> QED BY <1>1, <2>1, BeginListed DEF CInv, Answered
<1>2. CASE RunStep /\ ~Commit
  BY <1>2, RunStepListed, RunStepAnswered DEF CInv
<1>3. CASE Commit \/ Abort \/ LoseDatabase
  <2>1. pc' = "idle" /\ run' = NoRun
    BY <1>3 DEF Commit, Abort, LoseDatabase, Reset, OInv, Resting
  <2> QED BY <2>1 DEF CInv, FromTheList, Answered, NoRun
<1>4. CASE DiskStep
  BY <1>4 DEF DiskStep, CInv, FromTheList, Answered, runVars
<1>5. CASE (\E c \in ConfigChoices : EditConfig(c)) \/ UNCHANGED vars
  <2>1. disk' = disk /\ offline' = offline /\ UNCHANGED runVars /\ calm' = calm
    BY <1>5 DEF EditConfig, vars, diskVars
  <2> QED BY <2>1 DEF CInv, FromTheList, Answered, Missing, At, runVars
<1> QED BY <1>1, <1>2, <1>3, <1>4, <1>5 DEF Next

\* Both hold for ever.
LEMMA ListedHolds ==
  Spec => []CInv
<1>1. Init => CInv
  BY DEF Init, NoRun, CInv, FromTheList, Answered
<1> QED BY <1>1, StepCInv, ComparisonHolds, PTL DEF Spec

\* scanSource, 313: every scan on a disk at rest finds out which of its sources are
\* away, those replaced by something else not among them, as far as the stats of
\* their roots do not fail.
THEOREM ScansKnowOutages == Spec => []CalmScanKnowsOutages
<1>1. Scoped /\ CInv => CalmScanKnowsOutages
  <2> SUFFICES ASSUME Scoped, CInv, ScanDone, calm, NEW s \in run.scope,
                      s \notin Flaky \/ ~rep.errors
               PROVE  (tx.sources[s].status = "missing") <=> (At(s).kind = "none")
    BY DEF CalmScanKnowsOutages
  <2>1. s \in run.scope \ run.plan /\ s \in Watched(tx)
    BY DEF ScanDone, Scoped
  <2> QED BY <2>1 DEF CInv, Answered, Missing
<1> QED BY <1>1, ScopedHolds, ListedHolds, PTL

\* A scan of every source, undisturbed and without errors, of the list that
\* still is the user's.
CompleteScan ==
  /\ ScanDone /\ calm /\ ~rep.errors
  /\ run.cfg = cfg /\ run.scope = Watched(tx)
  /\ run.full \/ ~SilentWrites

\* scanner.go:98: the commit of one such scan settles everything: the sources
\* are those of fmon.toml that are there or were, the missing ones are marked,
\* no request is pending, and the rows are the disk.  Whatever happened before
\* it, crashes, outages, edits or losses, it needs no second scan.
THEOREM CompleteScansSettle ==
  ASSUME FilesAreInDirectories, ListingsReachAll
  PROVE  Spec => [][CompleteScan /\ Commit => Settled']_vars
<1>1. IInv /\ MInv /\ CInv /\ CompleteScan /\ Commit => Settled'
  <2> SUFFICES ASSUME IInv, MInv, CInv, CompleteScan, Commit PROVE Settled'
    OBVIOUS
  <2>1. db' = tx /\ disk' = disk /\ offline' = offline /\ cfg' = cfg /\ pc = "commit"
    BY DEF Commit, diskVars
  <2>2. /\ ~tx.rebuild /\ Watched(tx) \subseteq Topmost(cfg.sources)
        /\ \A s \in Topmost(cfg.sources) : At(s).kind \in {"dir", "file"} => s \in Watched(tx)
    BY <2>1 DEF CInv, FromTheList, CompleteScan, ScanDone
  <2>3. run.plan = {} /\ CalmScanMirrorsDisk
    BY <2>1, MirrorAtTheEnd DEF MInv, Scoped, CompleteScan
  <2>4. \A s \in Watched(tx) : (tx.sources[s].status = "missing") <=> (At(s).kind = "none")
    BY <2>3 DEF CInv, Answered, CompleteScan, Missing
  <2>5. \A s \in Watched(tx) : At(s).kind # "none" =>
          /\ Rows(tx, s) = Visible(s, cfg.exclude)
          /\ \A p \in Rows(tx, s) : tx.files[p].hash = disk[p].content
    BY <2>3 DEF CalmScanMirrorsDisk, CompleteScan
  <2>6. \A s : At(s)' = At(s) /\ Visible(s, cfg.exclude)' = Visible(s, cfg.exclude)
    BY <2>1 DEF At, Visible
  <2>7. \A s : Rows(db, s)' = Rows(tx, s)
    BY <2>1 DEF Rows
  <2>8. Watched(db)' = Watched(tx)
    BY <2>1 DEF Watched
  <2> QED BY <2>1, <2>2, <2>4, <2>5, <2>6, <2>7, <2>8 DEF Settled
<1> QED BY <1>1, Invariance, MirrorHolds, ListedHolds, PTL DEF Spec

------------------------------------------------------------------------------
(* Where three promises that the code does not keep are kept.                *)

\* Whoever lists closed exclude lists works with closed ones.
LEMMA ExcludingHolds ==
  ASSUME ExcludesAreClosed
  PROVE  Spec => []Excluding
<1>1. Init => Excluding
  BY DEF Init, Excluding, ExcludesAreClosed, NoRun, Closed
<1>2. IInv /\ OInv /\ Excluding /\ [Next]_vars => Excluding'
  <2> SUFFICES ASSUME IInv, OInv, Excluding, [Next]_vars PROVE Excluding'
    OBVIOUS
  <2>1. CASE Begin
    BY <2>1, BeginConfig DEF Excluding
  <2>2. CASE RunStep /\ ~Commit
    <3>1. run'.cfg = run.cfg /\ run.cfg \in Config
      BY <2>2, RunStepMoves DEF IInv, Typed, TypeOK, Run, Onward
    <3>2. CASE SaveConfig
      BY <3>1, <3>2 DEF SaveConfig, Config, Excluding
    <3>3. CASE ~SaveConfig
      BY <2>2, <3>1, <3>3 DEF Excluding, RunStep, SourceStep, SourceMissing, SourceUnreadable,
         SourceReplaced, OpenFolder, OpenFile, RootLost, RootFound, EntryStep, ListDirectory,
         ListingFails, EntryVanished, EntryUnreadable, CheckFile, HashFile, HashFails,
         FinishFolder, EndScan, EndAdd
    <3> QED BY <3>2, <3>3
  <2>3. CASE Commit \/ Abort \/ LoseDatabase
    <3>1. cfg' = cfg /\ run' = NoRun /\ Closed(NoRun.cfg.exclude)
      BY <2>3 DEF Commit, Abort, LoseDatabase, Reset, OInv, Resting, NoRun, Closed
    <3> QED BY <3>1 DEF Excluding
  <2>4. CASE DiskStep \/ UNCHANGED vars
    BY <2>4 DEF DiskStep, vars, runVars, Excluding
  <2>5. ASSUME NEW c \in ConfigChoices, EditConfig(c) PROVE Excluding'
    BY <2>5 DEF EditConfig, runVars, Excluding, ExcludesAreClosed
  <2> QED BY <2>1, <2>2, <2>3, <2>4, <2>5 DEF Next
<1> QED BY <1>1, <1>2, ComparisonHolds, PTL DEF Spec

\* A row that went with a record was not of an excluded file; a source has no
\* other record than that of its outage.
Pruned ==
  pc # "idle" /\ run.cmd = "scan" =>
    \A p \in Path :
      tx.files[p] = Nil /\ tx.history[p] # db.history[p] => ~Match(p) \/ p \in Watched(tx)

\* The steps of a run prune silently what is excluded.
LEMMA RunStepPruned ==
  ASSUME IInv, RInv, Pruned, RunStep, ~Commit
  PROVE  Pruned'
<1>1. Typed /\ Owned(tx) /\ Onward /\ tx \in Database
  BY RunStepMoves DEF IInv, Typed, TypeOK
<1> SUFFICES ASSUME run.cmd = "scan", NEW p \in Path,
                    tx'.files[p] = Nil, tx'.history[p] # db.history[p], Match(p)
             PROVE  p \in Watched(tx)
  BY <1>1 DEF Pruned, Onward, Match
<1>2. tx.files[p] = Nil /\ tx.history[p] # db.history[p] => p \in Watched(tx)
  BY <1>1 DEF Pruned, Onward
<1>3. CASE HashFile
  <2> DEFINE q == walk.file.path
  <2>1. PICK sum \in Content :
          /\ \A r \in Path : tx'.history[r] = IF r = q THEN tx.history[r] \o CheckEvents(q, sum)
                                              ELSE tx.history[r]
          /\ tx'.files = [tx.files EXCEPT ![q] =
               [src |-> walk.src, hash |-> sum,
                size |-> walk.file.size, mtime |-> walk.file.mtime]]
    BY <1>1, <1>3, HashTables
  <2>2. walk.file \in Stat /\ q \in Path /\ walk.src \in Path
    BY <1>1, <1>3 DEF Typed, TypeOK, RunInside, Watched, HashFile, Stat
  <2>3. [src |-> walk.src, hash |-> sum,
         size |-> walk.file.size, mtime |-> walk.file.mtime] \in FileState
    BY <2>2 DEF FileState, Stat
  <2> HIDE DEF q
  <2>4. tx.files \in [Path -> FileState \cup {Nil}]
    BY <1>1, DatabaseFields
  <2>5. tx'.files[q] # Nil
    BY <2>1, <2>2, <2>3, <2>4, NilIsNoRow
  <2> QED BY <1>2, <2>1, <2>4, <2>5
<1>4. CASE FinishFolder
  <2>1. /\ \A r \in Path : tx'.history[r] =
             IF r \in Reported(Lost(tx)) THEN tx.history[r] \o <<Deleted(tx.files[r].hash)>>
             ELSE tx.history[r]
        /\ \A r \in Path : tx'.files[r] = IF r \in Lost(tx) THEN Nil ELSE tx.files[r]
    BY <1>1, <1>4, FinishTables
  <2>2. p \notin Reported(Lost(tx))
    BY DEF Reported
  <2>3. p \in Lost(tx) => tx.history[p] = db.history[p]
    BY <1>1, <1>4 DEF FinishFolder, Lost, Rows, Owned, RInv, Around, InSource, Untouched
  <2> QED BY <1>2, <2>1, <2>2, <2>3
<1>5. CASE ~HashFile /\ ~FinishFolder
  <2>1. \/ tx'.files = tx.files /\ tx'.history = tx.history
        \/ \E s \in run.plan : Vanishes(s)
    BY <1>1, <1>5, MissingStep, StandingStep, QuietStep DEF RunStep, SourceStep, Quiet, Stands
  <2>2. ASSUME NEW s \in run.plan, Vanishes(s) PROVE p \in Watched(tx)
    <3>1. s \in Watched(tx)
      BY <1>1, PlannedSource
    <3> QED BY <1>2, <2>2, <3>1 DEF Vanishes
  <2> QED BY <1>2, <2>1, <2>2
<1> QED BY <1>3, <1>4, <1>5

\* scanner.go:485, README: a scan reports no file as DELETED that is excluded by
\* now, if the patterns that match a directory match all that is below it.
THEOREM ClosedExcludesAreSilent ==
  ASSUME ExcludesAreClosed
  PROVE  Spec => []ExcludedFilesAreForgotten
<1>1. Init => Pruned
  BY DEF Init, Pruned
<1>2. IInv /\ OInv /\ RInv /\ Pruned /\ [Next]_vars => Pruned'
  <2> SUFFICES ASSUME IInv, OInv, RInv, Pruned, [Next]_vars PROVE Pruned'
    OBVIOUS
  <2>1. CASE Begin
    <3>1. ASSUME NEW p, BeginAdd(p) PROVE run'.cmd # "scan"
      BY <3>1 DEF BeginAdd
    <3>2. ASSUME NEW p, BeginRemove(p) PROVE run'.cmd # "scan"
      BY <3>2 DEF BeginRemove, NoRun
    <3>3. ASSUME NEW paths, BeginClear(paths) PROVE run'.cmd # "scan"
      BY <3>3 DEF BeginClear, NoRun
    <3>4. ASSUME BeginInit PROVE run'.cmd # "scan"
      BY <3>4 DEF BeginInit, NoRun
    <3>5. ASSUME NEW full \in ScanFull, NEW only \in ScanOnly, BeginScan(full, only)
          PROVE  tx'.history = db.history /\ db' = db
      BY <3>5, ReconcileTables
    <3> QED BY <2>1, <3>1, <3>2, <3>3, <3>4, <3>5 DEF Begin, Pruned
  <2>2. CASE RunStep /\ ~Commit
    BY <2>2, RunStepPruned
  <2>3. CASE Commit \/ Abort \/ LoseDatabase
    BY <2>3 DEF Commit, Abort, LoseDatabase, Reset, Pruned
  <2>4. CASE DiskStep \/ (\E c \in ConfigChoices : EditConfig(c)) \/ UNCHANGED vars
    BY <2>4 DEF DiskStep, EditConfig, vars, runVars, Pruned, Match, Watched
  <2> QED BY <2>1, <2>2, <2>3, <2>4 DEF Next
<1>3. IInv /\ RInv /\ Scoped /\ Excluding /\ Pruned => ExcludedFilesAreForgotten
  <2> SUFFICES ASSUME IInv, RInv, Scoped, Excluding, Pruned, ScanDone,
                      NEW s \in run.scope, NEW p \in Below[s],
                      Match(p) \/ \E q \in Below[s] : Within(p, q) /\ Match(q),
                      NEW i \in DOMAIN NewRecords(p), NewRecords(p)[i].event = "DELETED"
               PROVE  FALSE
    BY DEF ExcludedFilesAreForgotten
  <2>1. s \in Watched(tx) /\ s \in Path /\ p \in Path
    BY PathsFormATree DEF Scoped, Watched
  <2>2. Match(p)
    BY DEF Excluding, Closed, Match, Within
  <2>3. p \notin Watched(tx)
    BY <2>1, PathsFormATree DEF IInv, Owned, Overlaps, Within
  <2>4. ExplainedAt(p)
    BY <2>1 DEF RInv, Explained, Comparing, ScanDone
  <2>5. p \in Lapsed \/ (tx.files[p] = Nil /\ tx.history[p] # db.history[p])
    BY <2>1, <2>4, DeletedRecord
  <2> QED BY <2>1, <2>2, <2>3, <2>5 DEF Lapsed, Missing, Pruned, ScanDone
<1> QED BY <1>1, <1>2, <1>3, RecordsHold, ScopedHolds, ExcludingHolds, PTL DEF Spec

\* A database that waits for a new baseline has no rows.
Bare(d) == d.rebuild => \A p \in Path : d.files[p] = Nil

\* While it waits, a scan records nothing but outages.
Mute ==
  Comparing /\ db.rebuild =>
    \A p \in Path : tx.history[p] \in {db.history[p], db.history[p] \o <<MissingRecord>>}

\* The invariant of a database that is built anew.
BInv ==
  /\ Bare(db)
  /\ run.cmd # "scan" => Bare(tx)
  /\ Mute

\* reconcile finds sources; it stores no rows.
LEMMA BeginBare ==
  ASSUME "add" \notin Commands, IInv, BInv, Begin
  PROVE  BInv'
<1>1. db \in Database /\ Bare(db)
  BY DEF IInv, Typed, TypeOK, BInv
<1>2. db' = db
  BY BeginConfig
<1>3. ASSUME NEW full \in ScanFull, NEW only \in ScanOnly, BeginScan(full, only) PROVE BInv'
  <2>1. tx'.history = db.history /\ run'.cmd = "scan"
    BY <1>3, ReconcileTables
  <2> QED BY <1>1, <1>2, <2>1 DEF BInv, Bare, Mute
<1>4. ASSUME Bare(tx'), run'.cmd \in {"rm", "init", "clear"} PROVE BInv'
  BY <1>1, <1>2, <1>4 DEF BInv, Bare, Mute, Comparing
<1>5. ASSUME NEW p \in Path, BeginRemove(p) PROVE BInv'
  <2>1. tx' = DeleteSources(db, {p}) /\ run'.cmd = "rm"
    BY <1>5 DEF BeginRemove, NoRun
  <2>2. LET e == DeleteSources(db, {p})
        IN /\ e.rebuild = db.rebuild
           /\ \A q \in Path : e.files[q] = IF db.files[q] # Nil /\ db.files[q].src \in {p}
                                            THEN Nil ELSE db.files[q]
    BY <1>1, DropStatement
  <2>3. tx'.rebuild = db.rebuild /\ \A q \in Path : db.files[q] = Nil => tx'.files[q] = Nil
    BY <2>1, <2>2
  <2> QED BY <1>1, <1>4, <2>1, <2>3 DEF Bare
<1>6. ASSUME NEW paths, BeginClear(paths) PROVE BInv'
  <2>1. tx' = ClearHistory(db, paths) /\ run'.cmd = "clear"
    BY <1>6 DEF BeginClear, NoRun
  <2> DEFINE h == [q \in Path |-> IF q \in paths THEN <<>> ELSE db.history[q]]
  <2>2. tx' = [db EXCEPT !.history = h]
    BY <2>1 DEF ClearHistory
  <2> HIDE DEF h
  <2>3. tx'.files = db.files /\ tx'.rebuild = db.rebuild
    BY <1>1, <2>2, ReplaceTable
  <2> QED BY <1>1, <1>4, <2>1, <2>3 DEF Bare
<1>7. ASSUME BeginInit PROVE BInv'
  BY <1>4, <1>7, EmptyIsDatabase DEF BeginInit, NoRun, Bare
<1>8. ASSUME NEW p, BeginAdd(p) PROVE FALSE
  BY <1>8 DEF BeginAdd
<1> QED BY <1>3, <1>5, <1>6, <1>7, <1>8 DEF Begin

\* The file that is hashed has no row to differ from.
LEMMA RunStepMute ==
  ASSUME "add" \notin Commands, IInv, OInv, RInv, BInv, RunStep, ~Commit
  PROVE  Mute'
<1>1. Typed /\ Owned(tx) /\ Onward /\ tx \in Database /\ run.cmd # "add"
  BY RunStepMoves DEF IInv, Typed, TypeOK, Run
<1> SUFFICES ASSUME run.cmd = "scan", db.rebuild, NEW p \in Path
             PROVE  tx'.history[p] \in {db.history[p], db.history[p] \o <<MissingRecord>>}
  BY <1>1 DEF Mute, Comparing, Onward
<1>2. /\ tx.history[p] \in {db.history[p], db.history[p] \o <<MissingRecord>>}
      /\ \A q \in Path : db.files[q] = Nil
  BY <1>1 DEF BInv, Mute, Bare, Comparing, Onward
<1>3. pc \in InSource => tx.rebuild
  BY DEF RInv, Sourced, Scanning
<1>4. CASE HashFile
  <2> DEFINE q == walk.file.path
  <2>1. PICK sum \in Content :
          \A r \in Path : tx'.history[r] = IF r = q THEN tx.history[r] \o CheckEvents(q, sum)
                                           ELSE tx.history[r]
    BY <1>1, <1>4, HashTables
  <2>2. pc = "hash" /\ tx.rebuild
    BY <1>3, <1>4 DEF HashFile, InSource
  <2>3. q \in Path /\ q \in Tree(walk.src)
    BY <1>1, <2>2 DEF Typed, TypeOK, RunInside, Stat
  <2>4. tx.files[q] = Nil
    <3>1. Untouched(q)
      BY <2>2, <2>3 DEF RInv, Around, InSource
    <3> QED BY <1>2, <2>3, <3>1 DEF Untouched, Base
  <2>5. CheckEvents(q, sum) = <<>>
    BY <2>2, <2>4 DEF CheckEvents, Known, Rows, Baseline
  <2> HIDE DEF q
  <2>6. tx.history[p] \in Seq(Event)
    BY <1>1, DatabaseFields
  <2>7. tx.history[p] \o <<>> = tx.history[p]
    BY <2>6, ConcatEmptySeq
  <2> QED BY <1>2, <2>1, <2>5, <2>7
<1>5. CASE FinishFolder
  <2>1. Reported(Lost(tx)) = {}
    BY <1>3, <1>5 DEF FinishFolder, InSource, Reported, Baseline
  <2> QED BY <1>1, <1>2, <1>5, <2>1, FinishTables
<1>6. CASE ~HashFile /\ ~FinishFolder
  <2>1. \/ tx'.history = tx.history
        \/ \E s \in run.plan : Vanishes(s)
    BY <1>1, <1>6, MissingStep, StandingStep, QuietStep DEF RunStep, SourceStep, Quiet, Stands
  <2>2. ASSUME NEW s \in run.plan, Vanishes(s)
        PROVE  tx'.history[p] \in {db.history[p], db.history[p] \o <<MissingRecord>>}
    <3>1. Untouched(s)
      BY <1>1 DEF RInv, Ahead, Comparing, Onward, Tree
    <3> QED BY <1>2, <2>2, <3>1 DEF Vanishes, Untouched
  <2> QED BY <1>2, <2>1, <2>2
<1> QED BY <1>4, <1>5, <1>6

\* Every step keeps a waiting database bare.
LEMMA StepBInv ==
  ASSUME "add" \notin Commands
  PROVE  IInv /\ OInv /\ RInv /\ CInv /\ BInv /\ [Next]_vars => BInv'
<1> SUFFICES ASSUME IInv, OInv, RInv, CInv, BInv, [Next]_vars PROVE BInv'
  OBVIOUS
<1>1. CASE Begin
  BY <1>1, BeginBare
<1>2. CASE RunStep /\ ~Commit
  <2>1. Typed /\ Onward /\ run.cmd # "add"
    BY <1>2, RunStepMoves DEF IInv, Typed, TypeOK, Run
  <2>2. run.cmd # "scan" => tx' = tx
    <3> SUFFICES ASSUME run.cmd # "scan" PROVE tx' = tx
      OBVIOUS
    <3>1. pc \notin {"plan"} \cup InSource
      BY <2>1 DEF RInv, Sourced, Scanning
    <3> QED BY <1>2, <3>1 DEF InSource, RunStep, SourceStep, SourceMissing, SourceUnreadable,
            SourceReplaced, OpenFolder, OpenFile, RootLost, RootFound, EntryStep, ListDirectory,
            ListingFails, EntryVanished, EntryUnreadable, CheckFile, HashFile, HashFails,
            FinishFolder, EndScan, EndAdd, SaveConfig
  <2> QED BY <1>2, <2>1, <2>2, RunStepMute DEF BInv, Bare, Onward
<1>3. ASSUME pc' = "idle", Bare(db'), tx' = db' PROVE BInv'
  BY <1>3 DEF BInv, Bare, Mute, Comparing
<1>4. CASE Commit
  <2>1. Bare(tx)
    BY <1>4 DEF Commit, BInv, CInv, FromTheList, Bare
  <2> QED BY <1>3, <1>4, <2>1 DEF Commit, Reset
<1>5. CASE Abort
  BY <1>3, <1>5 DEF Abort, Reset, BInv
<1>6. CASE LoseDatabase
  <2>1. db'.files = EmptyDatabase.files
    BY <1>6 DEF LoseDatabase, EmptyDatabase
  <2> QED BY <1>3, <1>6, <2>1, EmptyIsDatabase DEF LoseDatabase, Bare
<1>7. CASE DiskStep \/ (\E c \in ConfigChoices : EditConfig(c)) \/ UNCHANGED vars
  BY <1>7 DEF DiskStep, EditConfig, vars, runVars, BInv, Bare, Mute, Comparing
<1> QED BY <1>1, <1>2, <1>4, <1>5, <1>6, <1>7 DEF Next

\* scanner.go:457: where fmon add is not used, the scan that rebuilds the baseline
\* reports no change of a file, only roots that are away.
THEOREM RebuildingIsSilent ==
  ASSUME "add" \notin Commands
  PROVE  Spec => []BaselineReportsNothing
<1>1. Init => BInv
  BY EmptyIsDatabase DEF Init, BInv, Bare, Mute, Comparing
<1>2. IInv /\ BInv => BaselineReportsNothing
  <2> SUFFICES ASSUME IInv, BInv, ScanDone, db.rebuild, NEW p \in Path,
                      NEW i \in DOMAIN NewRecords(p)
               PROVE  NewRecords(p)[i] = MissingRecord
    BY DEF BaselineReportsNothing
  <2>1. db.history[p] \in Seq(Event) /\ MissingRecord \in Event
    BY DatabaseFields DEF IInv, Typed, TypeOK, MissingRecord, Event
  <2>2. tx.history[p] \in {db.history[p], db.history[p] \o <<MissingRecord>>}
    BY DEF BInv, Mute, Comparing, ScanDone
  <2>3. NewRecords(p) \in {<<>>, <<MissingRecord>>}
    BY <2>1, <2>2, TailOfHistory DEF NewRecords
  <2> QED BY <2>3
<1> QED BY <1>1, <1>2, StepBInv, RecordsHold, ListedHolds, PTL DEF Spec
------------------------------------------------------------------------------
(* Trees that go away and come back as a whole.                              *)

\* No file has been touched, nothing comes or goes while a run goes on, and no
\* part of a source goes away without the source.
WholeOutages ==
  /\ disk = FirstDisk
  /\ pc # "idle" => calm
  /\ \A s \in Watched(tx) : Mounts \cap Below[s] = {}

\* Every row is of a file that is there, or is away with its tree, and is not excluded.
Lasting(d) ==
  \A p \in Path : d.files[p] # Nil =>
    /\ FirstDisk[p].kind = "file"
    /\ \A q \in Below[d.files[p].src] : p \in Tree(q) => q \notin cfg.exclude

\* The only deletions in h are outages of a root.
Bloodless(h) == \A i \in DOMAIN h : h[i].event = "DELETED" => h[i] = MissingRecord

Deletionless(d) == \A p \in Path : Bloodless(d.history[p])

NInv == Alike /\ Lasting(db) /\ Lasting(tx) /\ Deletionless(db) /\ Deletionless(tx)

\* A record is appended that is no deletion of a file.
LEMMA BloodlessAppend ==
  ASSUME NEW h \in Seq(Event), NEW e \in Event, Bloodless(h),
         e.event = "DELETED" => e = MissingRecord
  PROVE  Bloodless(h \o <<e>>)
<1>1. /\ Len(h) \in Nat /\ Len(h \o <<e>>) = Len(h) + 1
      /\ DOMAIN h = 1..Len(h) /\ DOMAIN (h \o <<e>>) = 1..Len(h \o <<e>>)
      /\ \A i \in 1..Len(h) : (h \o <<e>>)[i] = h[i]
      /\ (h \o <<e>>)[Len(h) + 1] = e
  OBVIOUS
<1> QED BY <1>1 DEF Bloodless

\* A run that is left alone.
LEMMA WholeSource ==
  ASSUME Flaky = {}, ~SilentWrites, IInv, MInv, WholeOutages, Alike, pc \in InSource
  PROVE  /\ Steady
         /\ run.cfg.exclude = cfg.exclude
         /\ walk.src \in Watched(tx) /\ walk.src \in Path
         /\ At(walk.src).kind \in {"dir", "file"}
<1>1. pc # "idle" /\ walk.src \in Watched(tx)
  BY DEF IInv, Typed, RunInside, InSource
<1>2. Steady
  BY <1>1 DEF WholeOutages, Steady
<1>3. PICK c : c \in ConfigChoices
  BY ScanConstants
<1> QED BY <1>1, <1>2, <1>3 DEF Alike, MInv, Walked, Fits, Watched

\* The walk finds every row of its source.
LEMMA RowsAreSeen ==
  ASSUME Flaky = {}, ~SilentWrites, IInv, MInv, WholeOutages, NInv, FinishFolder
  PROVE  Lost(tx) = {}
<1> DEFINE s == walk.src
<1>1. /\ DiskTypeOK /\ Owned(tx) /\ pc = "walk" /\ pc \in InSource /\ walk.todo = {}
  BY DEF IInv, Typed, TypeOK, FinishFolder, InSource
<1>2. /\ Steady /\ run.cfg.exclude = cfg.exclude
      /\ s \in Watched(tx) /\ s \in Path /\ At(s).kind \in {"dir", "file"}
  BY <1>1, WholeSource DEF NInv
<1>3. \A p \in Shown(s) : p \in walk.seen
  BY <1>1, <1>2 DEF MInv, Walked, InSource
<1> SUFFICES ASSUME NEW p \in Rows(tx, s) PROVE p \in walk.seen
  BY DEF Lost
<1>4. p \in Path /\ p \in Tree(s) /\ tx.files[p] # Nil /\ tx.files[p].src = s
  BY <1>1 DEF Rows, Owned
<1>5. /\ disk[p].kind = "file"
      /\ \A q \in Below[s] : p \in Tree(q) => q \notin run.cfg.exclude
  BY <1>2, <1>4 DEF NInv, Lasting, WholeOutages
<1>6. ASSUME NEW m \in offline, p \in Tree(m) PROVE FALSE
  <2>1. m \in Mounts /\ m \in Path /\ m \notin Below[s]
    BY <1>1, <1>2, <1>6, DiskConstants DEF DiskTypeOK, WholeOutages
  <2>2. s \in Tree(m)
    BY <1>2, <1>4, <1>6, <2>1, PathsFormATree DEF Tree
  <2>3. At(s) = Absent
    BY <2>2 DEF At
  <2> QED BY <1>2, <2>3 DEF Absent, NonFile
<1>7. At(p) = disk[p]
  BY <1>6 DEF At
<1> QED BY <1>3, <1>4, <1>5, <1>7 DEF Shown, Visible

\* A step of a run that stores rows of such files only, and deletes none.
LEMMA LastingKept ==
  ASSUME OneExcludeList, IInv, NInv, RunStep, ~Commit, Deletionless(tx'),
         \A p \in Path : tx'.files[p] = Nil \/ tx'.files[p] = tx.files[p]
           \/ /\ FirstDisk[p].kind = "file"
              /\ \A q \in Below[tx'.files[p].src] : p \in Tree(q) => q \notin cfg.exclude
  PROVE  NInv'
<1>1. Alike' /\ cfg'.exclude = cfg.exclude
  BY AlikeStep DEF Next, NInv
<1>2. db' = db
  BY RunStepMoves DEF IInv, Onward
<1> QED BY <1>1, <1>2 DEF NInv, Lasting, Deletionless

\* HashFile
LEMMA HashLasting ==
  ASSUME OneExcludeList, Flaky = {}, ~SilentWrites, IInv, MInv, WholeOutages, NInv, HashFile,
         ~Commit
  PROVE  NInv'
<1> DEFINE p == walk.file.path
<1>1. /\ Typed /\ Owned(tx) /\ DiskTypeOK /\ tx \in Database /\ pc = "hash" /\ pc \in InSource
      /\ RunStep
  BY DEF IInv, Typed, TypeOK, RunStep, HashFile, InSource
<1>2. Steady /\ run.cfg.exclude = cfg.exclude
  BY <1>1, WholeSource DEF NInv
<1>3. /\ p \in Path /\ p \in walk.seen /\ At(p).kind = "file"
      /\ tx'.files[p].src = walk.src
      /\ \A q \in Path \ {p} : tx'.files[q] = tx.files[q]
  BY <1>2, HashUpright
<1>4. p \in Shown(walk.src) /\ FirstDisk[p].kind = "file"
  BY <1>1, <1>2, <1>3, AtEntry DEF MInv, Walked, InSource, WholeOutages
<1>5. PICK sum \in Content :
        /\ CheckEvents(p, sum) \in Seq(Event)
        /\ \A q \in Path : tx'.history[q] = IF q = p THEN tx.history[q] \o CheckEvents(p, sum)
                                            ELSE tx.history[q]
  BY <1>1, HashTables
<1>6. Bloodless(tx.history[p] \o CheckEvents(p, sum))
  <2>1. tx.history[p] \in Seq(Event) /\ Bloodless(tx.history[p])
    BY <1>1, <1>3, DatabaseFields DEF NInv, Deletionless
  <2>2. \/ CheckEvents(p, sum) = <<>>
        \/ CheckEvents(p, sum) = <<Added(sum)>>
        \/ CheckEvents(p, sum) = <<Modified(tx.files[p].hash, sum)>>
           /\ Known(tx, walk.src, p)
    BY DEF CheckEvents
  <2>3. CASE CheckEvents(p, sum) = <<>>
    BY <2>1, <2>3
  <2>4. CASE CheckEvents(p, sum) = <<Added(sum)>>
    <3>1. Added(sum) \in Event /\ Added(sum).event # "DELETED"
      BY <1>5 DEF Added, Event
    <3> HIDE DEF p
    <3> QED BY <2>1, <2>4, <3>1, BloodlessAppend
  <2>5. CASE CheckEvents(p, sum) = <<Modified(tx.files[p].hash, sum)>> /\ Known(tx, walk.src, p)
    <3>1. tx.files[p].hash \in Content
      BY <1>1, <2>5, DatabaseFields DEF Known, Rows, FileState
    <3>2. Modified(tx.files[p].hash, sum) \in Event
          /\ Modified(tx.files[p].hash, sum).event # "DELETED"
      BY <1>5, <3>1 DEF Modified, Event
    <3> HIDE DEF p
    <3> QED BY <2>1, <2>5, <3>2, BloodlessAppend
  <2> QED BY <2>2, <2>3, <2>4, <2>5
<1>7. Deletionless(tx')
  BY <1>5, <1>6 DEF Deletionless, NInv
<1>8. \A q \in Below[walk.src] : p \in Tree(q) => q \notin cfg.exclude
  BY <1>2, <1>4 DEF Shown, Visible
<1> HIDE DEF p
<1> QED BY <1>1, <1>3, <1>4, <1>7, <1>8, LastingKept

\* The other steps of a run.
LEMMA RunStepLasting ==
  ASSUME OneExcludeList, Flaky = {}, ~SilentWrites, IInv, MInv, WholeOutages, NInv, RunStep,
         ~Commit
  PROVE  NInv'
<1>1. Typed /\ Owned(tx) /\ tx \in Database
  BY DEF IInv, Typed, TypeOK
<1>2. CASE HashFile
  BY <1>2, HashLasting
<1>3. CASE FinishFolder
  <2>1. Lost(tx) = {}
    BY <1>3, RowsAreSeen
  <2>2. Reported(Lost(tx)) = {}
    BY <2>1 DEF Reported
  <2>3. \A p \in Path : tx'.files[p] = tx.files[p] /\ tx'.history[p] = tx.history[p]
    BY <1>1, <1>3, <2>1, <2>2, FinishTables
  <2> QED BY <2>3, LastingKept DEF NInv, Deletionless
<1>4. CASE ~HashFile /\ ~FinishFolder
  <2>1. \/ tx'.files = tx.files /\ tx'.history = tx.history
        \/ \E s \in run.plan : Vanishes(s)
    BY <1>1, <1>4, MissingStep, StandingStep, QuietStep DEF RunStep, SourceStep, Quiet, Stands
  <2>2. tx'.files = tx.files
    BY <2>1 DEF Vanishes
  <2>3. ASSUME NEW s \in run.plan, Vanishes(s) PROVE Deletionless(tx')
    <3>1. s \in Path /\ tx.history[s] \in Seq(Event) /\ Bloodless(tx.history[s])
      BY <1>1, PlannedSource, DatabaseFields DEF NInv, Deletionless
    <3>2. MissingRecord \in Event
      BY DEF MissingRecord, Event
    <3>3. Bloodless(tx.history[s] \o <<MissingRecord>>)
      BY <3>1, <3>2, BloodlessAppend
    <3> QED BY <2>3, <3>3 DEF Vanishes, NInv, Deletionless
  <2>4. Deletionless(tx')
    BY <2>1, <2>3 DEF NInv, Deletionless
  <2> QED BY <2>2, <2>4, LastingKept
<1> QED BY <1>2, <1>3, <1>4

\* A command starts with what was committed, or less.
LEMMA BeginLasting ==
  ASSUME IInv, NInv, Begin
  PROVE  Lasting(tx') /\ Deletionless(tx')
<1>1. RowsFrom(tx', db) /\ db \in Database
  BY BeginEffect DEF IInv, Typed, TypeOK
<1>2. Lasting(tx')
  BY <1>1 DEF RowsFrom, NInv, Lasting
<1>3. ASSUME NEW full \in ScanFull, NEW only \in ScanOnly, BeginScan(full, only)
      PROVE  tx'.history = db.history
  BY <1>3, ReconcileTables
<1>4. ASSUME NEW p \in Path, BeginAdd(p) PROVE tx'.history = db.history
  BY <1>4, AddTables
<1>5. ASSUME NEW p \in Path, BeginRemove(p) PROVE tx'.history = db.history
  BY <1>1, <1>5, DropStatement DEF BeginRemove
<1>6. ASSUME NEW paths, BeginClear(paths)
      PROVE  \A p \in Path : tx'.history[p] \in {<<>>, db.history[p]}
  <2> DEFINE h == [q \in Path |-> IF q \in paths THEN <<>> ELSE db.history[q]]
  <2>1. tx' = [db EXCEPT !.history = h]
    BY <1>6 DEF BeginClear, ClearHistory
  <2>2. \A p \in Path : h[p] \in {<<>>, db.history[p]}
    OBVIOUS
  <2> HIDE DEF h
  <2> QED BY <1>1, <2>1, <2>2, ReplaceTable
<1>7. ASSUME BeginInit PROVE \A p \in Path : tx'.history[p] = <<>>
  BY <1>7 DEF BeginInit, EmptyDatabase
<1>8. \A p \in Path : tx'.history[p] \in {<<>>, db.history[p]}
  BY <1>3, <1>4, <1>5, <1>6, <1>7 DEF Begin
<1>9. Bloodless(<<>>)
  BY DEF Bloodless
<1> QED BY <1>2, <1>8, <1>9 DEF NInv, Deletionless

\* Every step keeps the invariant.
LEMMA StepNInv ==
  ASSUME OneExcludeList, Flaky = {}, ~SilentWrites
  PROVE  IInv /\ MInv /\ OInv /\ WholeOutages /\ NInv /\ [Next]_vars => NInv'
<1> SUFFICES ASSUME IInv, MInv, OInv, WholeOutages, NInv, [Next]_vars PROVE NInv'
  OBVIOUS
<1>1. Alike' /\ cfg'.exclude = cfg.exclude
  BY AlikeStep DEF NInv
<1>2. CASE Begin
  <2>1. Lasting(tx') /\ Deletionless(tx') /\ db' = db
    BY <1>2, BeginLasting, BeginConfig
  <2> QED BY <1>1, <2>1 DEF NInv, Lasting, Deletionless
<1>3. CASE RunStep /\ ~Commit
  BY <1>3, RunStepLasting
<1>4. CASE Commit
  BY <1>1, <1>4 DEF Commit, NInv, Lasting, Deletionless
<1>5. CASE Abort
  BY <1>1, <1>5 DEF Abort, NInv, Lasting, Deletionless
<1>6. CASE LoseDatabase
  <2>1. db' = [EmptyDatabase EXCEPT !.rebuild = cfg.sources # {}] /\ tx' = db'
    BY <1>6 DEF LoseDatabase
  <2>2. \A p \in Path : db'.files[p] = Nil /\ db'.history[p] = <<>>
    BY <2>1 DEF EmptyDatabase
  <2> QED BY <1>1, <2>1, <2>2 DEF NInv, Lasting, Deletionless, Bloodless
<1>7. CASE (\E c \in ConfigChoices : EditConfig(c)) \/ DiskStep \/ UNCHANGED vars
  <2>1. db' = db /\ tx' = tx
    BY <1>7 DEF EditConfig, DiskStep, vars, runVars
  <2> QED BY <1>1, <2>1 DEF NInv, Lasting, Deletionless
<1> QED BY <1>2, <1>3, <1>4, <1>5, <1>6, <1>7 DEF Next

\* scanner.go:313 and 379, README: where roots go away and come back with all that
\* is below them, but not under the eyes of a scan, no file is ever reported as
\* DELETED, whatever the user runs, restricts, interrupts or loses.
THEOREM OutagesDeleteNoFile ==
  ASSUME FilesAreInDirectories, ListingsReachAll, OneExcludeList, Flaky = {}, ~SilentWrites
  PROVE  Spec /\ []WholeOutages => []OutageDeletesNoFile
<1>1. Init => NInv
  <2> SUFFICES ASSUME Init PROVE NInv
    OBVIOUS
  <2>1. Alike
    BY DEF Init, Alike, OneExcludeList
  <2>2. \A p \in Path : EmptyDatabase.files[p] = Nil /\ EmptyDatabase.history[p] = <<>>
    BY DEF EmptyDatabase
  <2> QED BY <2>1, <2>2 DEF Init, NInv, Lasting, Deletionless, Bloodless
<1>2. IInv /\ MInv /\ OInv /\ WholeOutages /\ NInv /\ [Next]_vars => NInv'
  BY StepNInv
<1>3. NInv => OutageDeletesNoFile
  BY DEF NInv, Deletionless, Bloodless, OutageDeletesNoFile
<1> QED BY <1>1, <1>2, <1>3, Invariance, ComparisonHolds, MirrorHolds, PTL DEF Spec
==============================================================================
