--------------------------- MODULE FmonLedger_proofs ---------------------------
(***************************************************************************)
(* The proof that fmon implements the ledger of FmonLedger: every commit   *)
(* is one command of the ledger, and no other step changes it.             *)
(***************************************************************************)
EXTENDS FmonRecords_proofs

\* What some configuration excludes.
Excluded == UNION {c.exclude : c \in ConfigChoices}

Excludes == cfg.exclude \subseteq Excluded /\ run.cfg.exclude \subseteq Excluded

\* add has to do with nothing but the tree of its source.
Adding ==
  Comparing /\ run.cmd = "add" =>
    /\ run.fresh = {run.target} /\ run.plan \subseteq run.fresh
    /\ pc \in InSource => walk.src = run.target
    /\ \A p \in Path \ Tree(run.target) :
         tx.files[p] = db.files[p] /\ tx.history[p] = db.history[p]
    /\ Missing(tx) \ {run.target} = Missing(db)
    /\ Watched(db) \subseteq Watched(tx)

\* The other commands are one statement each.
Stated ==
  pc # "idle" =>
    /\ run.cmd = "rm" => run.target \in Path /\ tx = DeleteSources(db, {run.target})
    /\ run.cmd = "init" => tx = EmptyDatabase
    /\ run.cmd = "clear" =>
         \E paths \in {Tree(p) : p \in Path} \cup {Path} : tx = ClearHistory(db, paths)

\* Which commands come to an end where, and with which flag.
Ending ==
  /\ pc = "save" => run.cmd \in {"add", "rm", "init"}
  /\ pc = "commit" => run.cmd \in {"scan", "add", "rm", "init", "clear"}
  /\ pc = "commit" /\ run.cmd = "scan" => ~tx.rebuild
  /\ pc \in {"save", "commit"} /\ run.cmd = "add" => tx.rebuild = db.rebuild

LInv == Excludes /\ Adding /\ Stated /\ Ending

------------------------------------------------------------------------------
(* The invariant.                                                            *)

\* A run scans, or saves the configuration, or ends its plan.
LEMMA RunStepPlaces ==
  ASSUME RunStep, ~Commit
  PROVE  \/ Scanning /\ Scanning'
         \/ Scanning /\ (EndScan \/ EndAdd)
         \/ SaveConfig
<1>1. CASE \E s \in run.plan : SourceStep(s)
  BY <1>1 DEF SourceStep, SourceMissing, SourceUnreadable, SourceReplaced, OpenFolder, OpenFile,
              Scanning, InSource
<1>2. CASE RootLost \/ RootFound \/ HashFile \/ HashFails \/ FinishFolder
  BY <1>2 DEF RootLost, RootFound, HashFile, HashFails, AfterFile, FinishFolder, Scanning, InSource
<1>3. CASE \E i \in walk.todo : EntryStep(i)
  BY <1>3 DEF EntryStep, ListDirectory, ListingFails, EntryVanished, EntryUnreadable, CheckFile,
              Scanning, InSource
<1>4. CASE EndScan \/ EndAdd
  BY <1>4 DEF EndScan, EndAdd, Scanning
<1> QED BY <1>1, <1>2, <1>3, <1>4 DEF RunStep

\* Only SaveConfig writes fmon.toml.
LEMMA RunStepKeepsConfig ==
  ASSUME RunStep, ~SaveConfig
  PROVE  cfg' = cfg
<1>1. CASE \E s \in run.plan : SourceStep(s)
  BY <1>1 DEF SourceStep, SourceMissing, SourceUnreadable, SourceReplaced, OpenFolder, OpenFile
<1>2. CASE RootLost \/ RootFound \/ HashFile \/ HashFails \/ FinishFolder
  BY <1>2 DEF RootLost, RootFound, HashFile, HashFails, FinishFolder
<1>3. CASE \E i \in walk.todo : EntryStep(i)
  BY <1>3 DEF EntryStep, ListDirectory, ListingFails, EntryVanished, EntryUnreadable, CheckFile
<1>4. CASE EndScan \/ EndAdd \/ Commit
  BY <1>4 DEF EndScan, EndAdd, Commit
<1> QED BY <1>1, <1>2, <1>3, <1>4 DEF RunStep

\* A step of a run that does not commit.
LEMMA RunStepLInv ==
  ASSUME IInv, RInv, LInv, RunStep, ~Commit
  PROVE  LInv'
<1>1. Typed /\ Owned(tx) /\ cfg \in Config /\ run \in Run /\ run.cfg \in Config
  BY DEF IInv, Typed, TypeOK, Run
<1>2. Onward
  BY <1>1, RunStepMoves
<1>3. Scanning => run.cmd \in {"scan", "add"} /\ tx.rebuild = db.rebuild
  BY DEF RInv, Sourced
<1>4. Excludes'
  <2>1. CASE SaveConfig
    <3>1. cfg'.exclude = run.cfg.exclude
      BY <1>1, <2>1 DEF SaveConfig, Config
    <3> QED BY <1>2, <3>1 DEF LInv, Excludes, Onward
  <2>2. CASE ~SaveConfig
    <3>1. cfg' = cfg
      BY <2>2, RunStepKeepsConfig
    <3> QED BY <1>2, <3>1 DEF LInv, Excludes, Onward
  <2> QED BY <2>1, <2>2
<1>5. Adding'
  <2> SUFFICES ASSUME Comparing, run.cmd = "add" PROVE Adding'
    BY <1>2 DEF Adding, Comparing, Onward
  <2>1. /\ run.fresh = {run.target} /\ run.plan \subseteq {run.target}
        /\ Watched(db') \subseteq Watched(tx')
        /\ pc \in InSource => walk.src = run.target
        /\ \A p \in Path \ Tree(run.target) :
             tx.files[p] = db.files[p] /\ tx.history[p] = db.history[p]
        /\ Missing(tx) \ {run.target} = Missing(db)
    BY <1>2 DEF LInv, Adding, Onward
  <2>2. Missing(db') = Missing(db)
    BY <1>2 DEF Onward
  <2>3. CASE Quiet
    <3>1. Missing(tx') = Missing(tx)
      BY <1>2, <2>3 DEF Quiet, Onward, Missing
    <3> QED BY <1>2, <2>1, <2>2, <2>3, <3>1 DEF Adding, Quiet, Onward
  <2>4. ASSUME NEW s \in run.plan, Vanishes(s) \/ Stands(s) PROVE Adding'
    <3>1. s = run.target /\ run.target \in Tree(run.target)
      BY <2>1, <2>4 DEF Tree
    <3>2. pc' \in InSource => walk'.src = run.target
      BY <2>4, <3>1 DEF Vanishes, Stands
    <3>3. \A p \in Path \ Tree(run.target) :
            tx'.files[p] = tx.files[p] /\ tx'.history[p] = tx.history[p]
      BY <2>4, <3>1 DEF Vanishes, Stands
    <3>4. Missing(tx') \ {run.target} = Missing(tx) \ {run.target}
      BY <2>4, <3>1 DEF Vanishes, Stands
    <3> QED BY <1>2, <2>1, <2>2, <3>2, <3>3, <3>4 DEF Adding, Onward
  <2>5. CASE Stores
    <3>1. Missing(tx') = Missing(tx)
      BY <1>2, <2>5 DEF Stores, Onward, Missing
    <3> QED BY <1>2, <2>1, <2>2, <2>5, <3>1 DEF Adding, Stores, Onward
  <2> QED BY <1>1, <2>3, <2>4, <2>5, RunStepMoves
<1>6. Stated'
  <2>1. CASE Scanning
    BY <1>2, <1>3, <2>1 DEF Stated, Onward
  <2>2. CASE SaveConfig
    BY <1>2, <2>2 DEF LInv, Stated, SaveConfig, Onward
  <2> QED BY <2>1, <2>2, RunStepPlaces
<1>7. Ending'
  <2>1. CASE Scanning'
    BY <2>1 DEF Ending, Scanning, InSource
  <2>2. CASE Scanning /\ EndScan
    <3>1. ~tx'.rebuild /\ pc' = "commit" /\ run'.cmd = "scan"
      BY <1>1, <2>2, ReplaceTable DEF EndScan, Typed, TypeOK
    <3> QED BY <3>1 DEF Ending
  <2>3. CASE Scanning /\ EndAdd
    BY <1>3, <2>3 DEF Ending, EndAdd
  <2>4. CASE SaveConfig
    BY <1>2, <2>4 DEF LInv, Ending, SaveConfig
  <2> QED BY <2>1, <2>2, <2>3, <2>4, RunStepPlaces
<1> QED BY <1>4, <1>5, <1>6, <1>7 DEF LInv

\* A run begins.
LEMMA BeginLInv ==
  ASSUME IInv, LInv, Begin
  PROVE  LInv'
<1>1. db \in Database /\ cfg.exclude \subseteq Excluded /\ {} \subseteq Excluded
  BY DEF IInv, Typed, TypeOK, LInv, Excludes
<1>2. CASE \E full \in ScanFull, only \in ScanOnly : BeginScan(full, only)
  <2>1. run'.cmd = "scan" /\ run'.cfg = cfg /\ pc' = "plan" /\ cfg' = cfg
    BY <1>2 DEF BeginScan
  <2> QED BY <1>1, <2>1 DEF LInv, Excludes, Adding, Stated, Ending
<1>3. ASSUME NEW p \in Path, BeginAdd(p) PROVE LInv'
  <2>1. /\ tx'.history = db.history /\ tx'.files = db.files
        /\ p \notin Watched(db) /\ Watched(tx') = Watched(db) \cup {p}
        /\ \A s \in Path \ {p} : tx'.sources[s] = db.sources[s]
        /\ run'.cmd = "add" /\ run'.target = p /\ run'.plan = {p} /\ run'.fresh = {p}
        /\ run'.cfg = cfg /\ pc' = "plan" /\ db' = db
    BY <1>3, AddTables
  <2>2. Missing(tx') \ {p} = Missing(db)
    BY <2>1 DEF Missing, Watched
  <2>3. cfg' = cfg
    BY <1>3 DEF BeginAdd
  <2> QED BY <1>1, <2>1, <2>2, <2>3 DEF LInv, Excludes, Adding, Stated, Ending, InSource
<1>4. ASSUME NEW p \in Path, BeginRemove(p) PROVE LInv'
  <2>1. /\ run'.cmd = "rm" /\ run'.target = p /\ run'.cfg = cfg /\ pc' = "save"
        /\ tx' = DeleteSources(db, {p}) /\ db' = db /\ cfg' = cfg
    BY <1>4 DEF BeginRemove, NoRun
  <2> QED BY <1>1, <2>1 DEF LInv, Excludes, Adding, Stated, Ending, Comparing
<1>5. ASSUME NEW paths \in {Tree(p) : p \in Path} \cup {Path}, BeginClear(paths) PROVE LInv'
  <2>1. /\ run'.cmd = "clear" /\ run'.cfg = cfg /\ pc' = "commit"
        /\ tx' = ClearHistory(db, paths) /\ db' = db /\ cfg' = cfg
    BY <1>5 DEF BeginClear, NoRun
  <2>2. \E q \in {Tree(p) : p \in Path} \cup {Path} : tx' = ClearHistory(db', q)
    BY <2>1
  <2> QED BY <1>1, <2>1, <2>2 DEF LInv, Excludes, Adding, Stated, Ending, Comparing
<1>6. CASE BeginInit
  <2>1. /\ run'.cmd = "init" /\ run'.cfg = cfg /\ pc' = "save"
        /\ tx' = EmptyDatabase /\ cfg' = cfg
    BY <1>6 DEF BeginInit, NoRun
  <2> QED BY <1>1, <2>1 DEF LInv, Excludes, Adding, Stated, Ending, Comparing
<1> QED BY <1>2, <1>3, <1>4, <1>5, <1>6 DEF Begin

\* Every step keeps the invariant.
LEMMA StepLInv ==
  IInv /\ OInv /\ RInv /\ LInv /\ [Next]_vars => LInv'
<1> SUFFICES ASSUME IInv, OInv, RInv, LInv, [Next]_vars PROVE LInv'
  OBVIOUS
<1>1. ASSUME pc' = "idle", run' = NoRun, cfg' = cfg PROVE LInv'
  BY <1>1 DEF LInv, Excludes, Adding, Stated, Ending, Comparing, NoRun
<1>2. CASE Commit \/ Abort
  BY <1>1, <1>2 DEF Commit, Abort, Reset
<1>3. CASE LoseDatabase
  BY <1>1, <1>3 DEF LoseDatabase, OInv, Resting
<1>4. ASSUME UNCHANGED runVars, cfg' = cfg \/ cfg' \in ConfigChoices PROVE LInv'
  <2>1. Excludes'
    BY <1>4 DEF LInv, Excludes, Excluded, runVars
  <2>2. Adding' /\ Stated' /\ Ending'
    BY <1>4 DEF LInv, Adding, Stated, Ending, Comparing, Missing, runVars
  <2> QED BY <2>1, <2>2 DEF LInv
<1>5. CASE (\E c \in ConfigChoices : EditConfig(c)) \/ DiskStep \/ UNCHANGED vars
  BY <1>4, <1>5 DEF EditConfig, DiskStep, vars
<1> QED BY <1>2, <1>3, <1>5, BeginLInv, RunStepLInv DEF Next

\* All the invariants together.
LEMMA AllHold ==
  Spec => [](IInv /\ OInv /\ RInv /\ LInv)
<1>1. Init => LInv
  BY DEF Init, LInv, Excludes, Excluded, Adding, Stated, Ending, Comparing, NoRun
<1> QED BY <1>1, StepLInv, RecordsHold, PTL DEF Spec
------------------------------------------------------------------------------
(* Each commit is one command of the ledger.                                 *)

\* The new sources, the dropped ones and the kept ones do not share paths.
LEMMA KeptPlaces ==
  ASSUME IInv, RInv, Comparing, NEW p \in Path,
         p \in UNION {Tree(s) : s \in Watched(db) \cap Watched(tx)}
  PROVE  ~Dropped(p) /\ \A s \in run.fresh : p \notin Tree(s)
<1> PICK k \in Watched(db) \cap Watched(tx) : p \in Tree(k)
  OBVIOUS
<1>1. Owned(db) /\ Owned(tx)
  BY DEF IInv
<1>2. ~Dropped(p)
  <2> SUFFICES ASSUME Dropped(p) PROVE FALSE
    OBVIOUS
  <2>1. /\ db.files[p].src \in Watched(db) /\ p \in Tree(db.files[p].src)
        /\ db.files[p].src # k
    BY <1>1 DEF Dropped, Owned
  <2> QED BY <1>1, <2>1, TreesApart
<1>3. ASSUME NEW s \in run.fresh PROVE p \notin Tree(s)
  <2>1. s \in Watched(tx) /\ s # k
    BY DEF RInv, Sourced
  <2> QED BY <1>1, <2>1, TreesApart
<1> QED BY <1>2, <1>3

\* The row of a path in the tree of a watched source is a row of that source.
LEMMA RowInTree ==
  ASSUME NEW d, Owned(d), NEW s \in Watched(d), NEW p \in Path, p \in Tree(s),
         d.files[p] # Nil
  PROVE  p \in Rows(d, s)
<1>1. d.files[p].src \in Watched(d) /\ p \in Tree(d.files[p].src)
  BY DEF Owned
<1>2. d.files[p].src = s
  BY <1>1, TreesApart
<1> QED BY <1>2 DEF Rows

\* The hashes of a database.
LEMMA HashType ==
  ASSUME NEW d \in Database, NEW p \in Path
  PROVE  HashOf(d, p) \in Content \cup {Nil}
BY DatabaseFields DEF HashOf, FileState

\* A scan or an add that commits has compared the baseline with the disk.
LEMMA ComparedStep ==
  ASSUME IInv, OInv, RInv, LInv, Commit, Comparing, NEW quiet,
         \A p \in Path : Silent(p) =>
           \/ quiet
           \/ p \notin UNION {Tree(s) : s \in Watched(db) \cap Watched(tx)}
           \/ p \in Excluded /\ HashOf(tx, p) = Nil
           \/ HashOf(db, p) = HashOf(tx, p) /\ p \notin Lapsed
  PROVE  Ledger!Compare(Watched(db) \cap Watched(tx), Watched(tx) \ Watched(db), quiet)
<1> DEFINE keep == Watched(db) \cap Watched(tx)
<1>1. /\ db \in Database /\ tx \in Database /\ Owned(db) /\ Owned(tx)
      /\ db' = tx /\ Watched(db) \subseteq Path /\ Watched(tx) \subseteq Path
  BY DEF IInv, Typed, TypeOK, Commit, Watched
<1>2. Watched(tx) = keep \cup (Watched(tx) \ Watched(db))
  OBVIOUS
<1>3. \A s, t \in Watched(tx) : s # t => ~Overlaps(s, t)
  BY <1>1 DEF Owned
<1>4. Missing(tx) \subseteq Watched(tx)
  BY DEF Missing
<1>5. [p \in Path |-> HashOf(tx, p)] \in [Path -> Content \cup {Nil}]
  BY <1>1, HashType
<1>6. ASSUME NEW p \in Path, p \notin UNION {Tree(s) : s \in Watched(tx)}
      PROVE  HashOf(tx, p) = Nil
  BY <1>1, <1>6 DEF Owned, HashOf
<1>7. ASSUME NEW p \in Path, p \in UNION {Tree(s) : s \in keep \cap Missing(tx)}
      PROVE  HashOf(tx, p) = HashOf(db, p)
  <2> PICK s \in keep \cap Missing(tx) : p \in Tree(s)
    BY <1>7
  <2>1. Unchanged(s)
    BY DEF OInv, Spared, Comparing
  <2>2. tx.files[p] = db.files[p]
    BY <1>1, <2>1, RowInTree DEF Unchanged
  <2> QED BY <2>2 DEF HashOf
<1>8. ASSUME NEW p \in Path
      PROVE  LET old == HashOf(db, p)
                 new == HashOf(tx, p)
             IN \/ /\ tx.history[p] = db.history[p] \o <<MissingRecord>>
                   /\ p \in Missing(tx) \ Missing(db)
                   /\ new = old \/ (new = Nil /\ p \notin UNION {Tree(s) : s \in keep})
                \/ /\ tx.history[p] = db.history[p] \o <<Changed(old, new)>>
                   /\ new # old
                \/ /\ tx.history[p] = db.history[p] \o <<>>
                   /\ \/ quiet
                      \/ p \notin UNION {Tree(s) : s \in keep}
                      \/ p \in Excluded /\ new = Nil
                      \/ new = old /\ p \notin Missing(tx) \ Missing(db)
  <2>1. db.history[p] \o <<>> = db.history[p]
    BY <1>1, DatabaseFields, ConcatEmptySeq
  <2>2. ExplainedAt(p)
    BY DEF RInv, Explained
  <2>3. CASE Unrecorded(p)
    BY <2>1, <2>3 DEF Unrecorded, Lapsed
  <2>4. CASE Outage(p)
    BY <2>4, KeptPlaces DEF Outage, Lapsed
  <2>5. CASE Recorded(p)
    BY <2>5 DEF Recorded
  <2> QED BY <2>2, <2>3, <2>4, <2>5 DEF ExplainedAt
<1>10. Watched(db)' = Watched(tx)
  BY <1>1
<1>11. {s \in Watched(db) : db.sources[s].status = "missing"}' = Missing(tx)
  BY <1>1 DEF Missing
<1>12. [p \in Path |-> HashOf(db, p)]' = [p \in Path |-> HashOf(tx, p)]
  BY <1>1
<1>13. \A A : Ledger!Covered(A) = UNION {Tree(s) : s \in A}
  BY DEF Ledger!Covered, Ledger!Tree, Tree
<1>14. \A s, t \in Watched(tx) : s # t => ~Ledger!Overlaps(s, t)
  BY <1>3 DEF Ledger!Overlaps, Overlaps, Ledger!Within, Within
<1>15. \A p \in Path \ Ledger!Covered(Watched(db)') : [q \in Path |-> HashOf(tx, q)][p] = Nil
  BY <1>6, <1>10, <1>13
<1>16. \A s \in keep \cap Missing(tx) : Tree(s) \subseteq Path
  BY <1>1, PathsFormATree DEF Tree
<1>17. \A p \in Ledger!Covered(keep \cap Missing(tx)) :
         [q \in Path |-> HashOf(tx, q)][p] = [q \in Path |-> HashOf(db, q)][p]
  BY <1>7, <1>13, <1>16
<1> HIDE DEF keep
<1>18. keep = Watched(db) \cap Watched(tx)
  BY DEF keep
<1> DEFINE hashes == [q \in Path |-> HashOf(db, q)]
<1>19. \A p \in Path : hashes'[p] = HashOf(tx, p) /\ hashes[p] = HashOf(db, p)
  BY <1>12
<1>20. ASSUME NEW p \in Path
       PROVE  \E r \in Ledger!Records(p, hashes'[p],
                         \/ quiet
                         \/ p \notin Ledger!Covered(keep)
                         \/ p \in Excluded /\ hashes'[p] = Nil) :
                (db.history)'[p] = db.history[p] \o r
  <2>1. PICK r : /\ tx.history[p] = db.history[p] \o r
                 /\ LET old == HashOf(db, p)
                        new == HashOf(tx, p)
                    IN \/ /\ r = <<MissingRecord>>
                          /\ p \in Missing(tx) \ Missing(db)
                          /\ new = old \/ (new = Nil /\ p \notin UNION {Tree(s) : s \in keep})
                       \/ r = <<Changed(old, new)>> /\ new # old
                       \/ /\ r = <<>>
                          /\ \/ quiet
                             \/ p \notin UNION {Tree(s) : s \in keep}
                             \/ p \in Excluded /\ new = Nil
                             \/ new = old /\ p \notin Missing(tx) \ Missing(db)
    BY <1>8
  <2>2. (db.history)'[p] = tx.history[p]
    BY <1>1
  <2>3. MissingRecord = Ledger!Outage
    BY DEF MissingRecord, Ledger!Outage
  <2>4. Changed(hashes[p], hashes'[p]) = Ledger!Change(hashes[p], hashes'[p])
    BY DEF Changed, Ledger!Change
  <2>5. {s \in Watched(db) : db.sources[s].status = "missing"} = Missing(db)
    BY DEF Missing
  <2> HIDE DEF hashes
  <2>6. r \in Ledger!Records(p, hashes'[p],
                \/ quiet
                \/ p \notin Ledger!Covered(keep)
                \/ p \in Excluded /\ hashes'[p] = Nil)
    <3>1. \/ /\ r = <<Ledger!Outage>>
             /\ p \in Missing(tx) \ Missing(db)
             /\ hashes'[p] = hashes[p] \/ (hashes'[p] = Nil /\ p \notin Ledger!Covered(keep))
          \/ r = <<Ledger!Change(hashes[p], hashes'[p])>> /\ hashes'[p] # hashes[p]
          \/ /\ r = <<>>
             /\ \/ quiet
                \/ p \notin Ledger!Covered(keep)
                \/ p \in Excluded /\ hashes'[p] = Nil
                \/ hashes'[p] = hashes[p] /\ p \notin Missing(tx) \ Missing(db)
      BY <1>13, <1>19, <2>1, <2>3, <2>4
    <3> QED BY <1>10, <1>11, <1>18, <2>5, <3>1 DEF Ledger!Records, hashes
  <2> QED BY <2>1, <2>2, <2>6
<1>21. Watched(db)' = keep \cup (Watched(tx) \ Watched(db))
  BY <1>2, <1>10, <1>18
<1>22. Missing(db)' \in SUBSET Watched(db)'
  BY <1>1, <1>4
<1>23. hashes' \in [Path -> Content \cup {Nil}]
  BY <1>5, <1>12
<1>24. \A p \in Path \ Ledger!Covered(Watched(db)') : hashes'[p] = Nil
  BY <1>12, <1>15
<1>25. \A p \in Ledger!Covered(keep \cap Missing(db)') : hashes'[p] = hashes[p]
  <2>1. Missing(db)' = Missing(tx)
    BY <1>1
  <2> QED BY <1>12, <1>17, <2>1
<1>26. \A s, t \in Watched(db)' : s # t => ~Ledger!Overlaps(s, t)
  BY <1>10, <1>14
<1> QED
  BY <1>20, <1>21, <1>22, <1>23, <1>24, <1>25, <1>26, <1>18
  DEF Ledger!Compare, Ledger!Records, Excluded, Missing

\* The committed scan.
LEMMA ScanCommits ==
  ASSUME IInv, OInv, RInv, LInv, Commit, run.cmd = "scan"
  PROVE  Ledger!Snapshot
<1>1. Comparing /\ ~db'.rebuild
  BY DEF Commit, Comparing, LInv, Ending
<1>2. ASSUME NEW p \in Path, Silent(p)
      PROVE  \/ db.rebuild
             \/ p \notin UNION {Tree(s) : s \in Watched(db) \cap Watched(tx)}
             \/ p \in Excluded /\ HashOf(tx, p) = Nil
             \/ HashOf(db, p) = HashOf(tx, p) /\ p \notin Lapsed
  <2>1. CASE \/ \E s \in run.fresh : p \in Tree(s)
             \/ Dropped(p)
    BY <1>1, <2>1, KeptPlaces
  <2>2. CASE tx.files[p] = Nil /\ Match(p)
    BY <2>2 DEF HashOf, Match, LInv, Excludes
  <2> QED BY <1>2, <2>1, <2>2 DEF Silent
<1>3. /\ Watched(db) \cap Watched(tx) \in SUBSET Watched(db)
      /\ Watched(tx) \ Watched(db) \in SUBSET (Path \ Watched(db))
  BY DEF Watched
<1>4. (~db.rebuild)' = TRUE
  BY <1>1
<1>5. CASE db.rebuild
  <2>1. Ledger!Compare(Watched(db) \cap Watched(tx), Watched(tx) \ Watched(db), TRUE)
    BY <1>1, ComparedStep
  <2> QED BY <1>3, <1>4, <1>5, <2>1 DEF Ledger!Snapshot, Ledger!Compare, Ledger!Records
<1>6. CASE ~db.rebuild
  <2>1. Ledger!Compare(Watched(db) \cap Watched(tx), Watched(tx) \ Watched(db), FALSE)
    BY <1>1, <1>2, <1>6, ComparedStep
  <2> QED BY <1>3, <1>4, <1>6, <2>1 DEF Ledger!Snapshot, Ledger!Compare, Ledger!Records
<1> QED BY <1>5, <1>6

\* The committed add.
LEMMA AddCommits ==
  ASSUME IInv, OInv, RInv, LInv, Commit, run.cmd = "add"
  PROVE  Ledger!Enrol
<1> DEFINE s == run.target
<1>1. /\ Comparing /\ db' = tx /\ tx.rebuild = db.rebuild
      /\ db \in Database /\ tx \in Database
  BY DEF Commit, Comparing, LInv, Ending, IInv, Typed, TypeOK
<1>2. /\ run.fresh = {s}
      /\ \A p \in Path \ Tree(s) :
           tx.files[p] = db.files[p] /\ tx.history[p] = db.history[p]
      /\ Missing(tx) \ {s} = Missing(db)
      /\ Watched(db) \subseteq Watched(tx)
  BY <1>1 DEF LInv, Adding
<1>3. s \in Path \ Watched(db) /\ Watched(tx) \ Watched(db) = {s}
      /\ Watched(db) \cap Watched(tx) = Watched(db)
  BY <1>1, <1>2 DEF RInv, Sourced, Watched
<1>4. ASSUME NEW p \in Path, Silent(p)
      PROVE  \/ FALSE
             \/ p \notin UNION {Tree(t) : t \in Watched(db) \cap Watched(tx)}
             \/ p \in Excluded /\ HashOf(tx, p) = Nil
             \/ HashOf(db, p) = HashOf(tx, p) /\ p \notin Lapsed
  <2>1. CASE p \in Tree(s)
    BY <1>1, <1>2, <2>1, KeptPlaces
  <2>2. CASE p \notin Tree(s)
    <3>1. HashOf(db, p) = HashOf(tx, p)
      BY <1>2, <2>2 DEF HashOf
    <3>2. p # s
      BY <2>2 DEF Tree
    <3> QED BY <1>2, <3>1, <3>2 DEF Lapsed
  <2> QED BY <2>1, <2>2
<1>5. Ledger!Compare(Watched(db) \cap Watched(tx), Watched(tx) \ Watched(db), FALSE)
  BY <1>1, <1>4, ComparedStep
<1>6. Ledger!Compare(Watched(db), {s}, FALSE)
  BY <1>3, <1>5
<1>7. ASSUME NEW p \in Path \ Ledger!Tree(s)
      PROVE  /\ [q \in Path |-> HashOf(db, q)]'[p] = [q \in Path |-> HashOf(db, q)][p]
             /\ (db.history)'[p] = db.history[p]
  <2>1. HashOf(tx, p) = HashOf(db, p) /\ tx.history[p] = db.history[p]
    BY <1>2 DEF HashOf, Tree, Ledger!Tree
  <2> QED BY <1>1, <2>1
<1>8. Missing(db)' \ {s} = Missing(db)
  BY <1>1, <1>2
<1>9. (~db.rebuild)' = ~db.rebuild
  BY <1>1
<1> QED BY <1>3, <1>6, <1>7, <1>8, <1>9 DEF Ledger!Enrol, Missing

\* The committed rm.
LEMMA RemoveCommits ==
  ASSUME IInv, LInv, Commit, run.cmd = "rm"
  PROVE  Ledger!Drop
<1> DEFINE s == run.target
           hashes == [q \in Path |-> HashOf(db, q)]
<1>1. /\ s \in Path /\ tx = DeleteSources(db, {s}) /\ db' = tx
      /\ db \in Database /\ Owned(db)
  BY DEF Commit, LInv, Stated, IInv, Typed, TypeOK
<1>2. /\ tx.history = db.history
      /\ tx.rebuild = db.rebuild
      /\ \A t \in Path \ {s} : tx.sources[t] = db.sources[t]
      /\ \A p \in Path : tx.files[p] = IF db.files[p] # Nil /\ db.files[p].src \in {s}
                                        THEN Nil ELSE db.files[p]
  BY <1>1, DropStatement
<1>3. Watched(tx) = Watched(db) \ {s}
  BY <1>1, DeleteSourcesEffect
<1>4. Missing(tx) = Missing(db) \ {s}
  BY <1>2, <1>3 DEF Missing, Watched
<1>5. ASSUME NEW p \in Path
      PROVE  HashOf(tx, p) = IF p \in UNION {Tree(t) : t \in Watched(tx)}
                               THEN HashOf(db, p) ELSE Nil
  <2>1. CASE db.files[p] = Nil
    BY <1>2, <2>1 DEF HashOf
  <2>2. CASE db.files[p] # Nil
    <3>1. db.files[p].src \in Watched(db) /\ p \in Tree(db.files[p].src)
      BY <1>1, <2>2 DEF Owned
    <3>2. CASE db.files[p].src = s
      <4>1. ASSUME NEW t \in Watched(tx), p \in Tree(t) PROVE FALSE
        BY <1>1, <1>3, <3>1, <3>2, <4>1, TreesApart
      <4> QED BY <1>2, <2>2, <3>2, <4>1 DEF HashOf
    <3>3. CASE db.files[p].src # s
      BY <1>2, <1>3, <2>2, <3>1, <3>3 DEF HashOf
    <3> QED BY <3>2, <3>3
  <2> QED BY <2>1, <2>2
<1>6. Watched(db)' = Watched(db) \ {s}
  BY <1>1, <1>3
<1>7. Missing(db)' = Missing(db) \ {s}
  BY <1>1, <1>4
<1>8. hashes' = [p \in Path |-> IF p \in Ledger!Covered(Watched(db)') THEN hashes[p] ELSE Nil]
  <2>1. Ledger!Covered(Watched(db)') = UNION {Tree(t) : t \in Watched(tx)}
    BY <1>1 DEF Ledger!Covered, Ledger!Tree, Tree
  <2>2. hashes' = [p \in Path |-> HashOf(tx, p)]
    BY <1>1
  <2> QED BY <1>5, <2>1, <2>2
<1>9. (db.history)' = db.history /\ (~db.rebuild)' = ~db.rebuild
  BY <1>1, <1>2
<1> QED BY <1>1, <1>6, <1>7, <1>8, <1>9 DEF Ledger!Drop, Missing

\* The committed clear.
LEMMA ClearCommits ==
  ASSUME IInv, LInv, Commit, run.cmd = "clear"
  PROVE  Ledger!Forget
<1>1. db \in Database /\ db' = tx
  BY DEF Commit, IInv, Typed, TypeOK
<1>2. PICK paths \in {Tree(p) : p \in Path} \cup {Path} : tx = ClearHistory(db, paths)
  BY DEF Commit, LInv, Stated
<1> DEFINE h == [q \in Path |-> IF q \in paths THEN <<>> ELSE db.history[q]]
<1>3. tx = [sources |-> db.sources, files |-> db.files, history |-> h, rebuild |-> db.rebuild]
  BY <1>1, <1>2, ReplaceTable DEF ClearHistory
<1> HIDE DEF h
<1>4. /\ db'.sources = db.sources /\ db'.files = db.files
      /\ db'.history = h /\ db'.rebuild = db.rebuild
  BY <1>1, <1>3
<1>5. /\ Watched(db)' = Watched(db)
      /\ Missing(db)' = Missing(db)
      /\ [p \in Path |-> HashOf(db, p)]' = [p \in Path |-> HashOf(db, p)]
      /\ (~db.rebuild)' = ~db.rebuild
      /\ (db.history)' = h
  BY <1>4 DEF Watched, Missing, HashOf
<1>6. paths \in {Ledger!Tree(p) : p \in Path} \cup {Path}
  BY DEF Tree, Ledger!Tree
<1> QED BY <1>5, <1>6 DEF Ledger!Forget, Missing, h

\* The committed init.
LEMMA InitCommits ==
  ASSUME IInv, LInv, db' = EmptyDatabase \/ LoseDatabase
  PROVE  Ledger!Wipe
<1>1. /\ db'.sources = [p \in Path |-> Nil]
      /\ db'.files = [p \in Path |-> Nil]
      /\ db'.history = [p \in Path |-> <<>>]
  <2> DEFINE b == cfg.sources # {}
  <2>1. [EmptyDatabase EXCEPT !.rebuild = b] =
          [sources |-> EmptyDatabase.sources, files |-> EmptyDatabase.files,
           history |-> EmptyDatabase.history, rebuild |-> b]
    <3> HIDE DEF b
    <3> QED BY EmptyIsDatabase, ReplaceTable
  <2>2. db' = EmptyDatabase \/ db' = [EmptyDatabase EXCEPT !.rebuild = b]
    BY DEF LoseDatabase
  <2> HIDE DEF b
  <2> QED BY <2>1, <2>2 DEF EmptyDatabase
<1>2. /\ Watched(db)' = {}
      /\ Missing(db)' = {}
      /\ [p \in Path |-> HashOf(db, p)]' = [p \in Path |-> Nil]
      /\ (db.history)' = [p \in Path |-> <<>>]
      /\ (~db.rebuild)' \in BOOLEAN
  BY <1>1 DEF Watched, Missing, HashOf
<1> QED BY <1>2 DEF Ledger!Wipe, Ledger!Nothing, Ledger!NoLog, Missing

\* A step that leaves the database alone leaves the ledger alone.
LEMMA LedgerStutters ==
  ASSUME db' = db
  PROVE  UNCHANGED Ledger!ledgerVars
<1>1. /\ Watched(db)' = Watched(db)
      /\ Missing(db)' = Missing(db)
      /\ [p \in Path |-> HashOf(db, p)]' = [p \in Path |-> HashOf(db, p)]
      /\ (db.history)' = db.history
      /\ (~db.rebuild)' = ~db.rebuild
  OBVIOUS
<1> QED BY <1>1 DEF Ledger!ledgerVars, Missing

\* main.go, scanner.go, queries.go together: whatever the disk does during a
\* run, and wherever a run is cut short, the committed database moves by whole
\* commands, and while the baseline is trusted every change of a stored hash
\* comes with the one record that names the old and the new hash.
THEOREM FmonKeepsTheLedger ==
  Spec => ImplementsLedger
<1>1. Init => Ledger!LedgerInit
  <2> SUFFICES ASSUME Init PROVE Ledger!LedgerInit
    OBVIOUS
  <2>1. /\ db.sources = [p \in Path |-> Nil]
        /\ db.files = [p \in Path |-> Nil]
        /\ db.history = [p \in Path |-> <<>>]
        /\ ~db.rebuild
    BY DEF Init, EmptyDatabase
  <2>2. /\ Watched(db) = {}
        /\ Missing(db) = {}
        /\ [p \in Path |-> HashOf(db, p)] = [p \in Path |-> Nil]
        /\ (~db.rebuild) = TRUE
    BY <2>1 DEF Watched, Missing, HashOf
  <2> QED BY <2>1, <2>2 DEF Ledger!LedgerInit, Ledger!Nothing, Ledger!NoLog, Missing
<1>2. IInv /\ OInv /\ RInv /\ LInv /\ [Next]_vars => [Ledger!LedgerNext]_(Ledger!ledgerVars)
  <2> SUFFICES ASSUME IInv, OInv, RInv, LInv, [Next]_vars
               PROVE  Ledger!LedgerNext \/ UNCHANGED Ledger!ledgerVars
    OBVIOUS
  <2>1. CASE Commit
    <3>1. run.cmd \in {"scan", "add", "rm", "init", "clear"}
      BY <2>1 DEF Commit, LInv, Ending
    <3>2. run.cmd = "init" => db' = EmptyDatabase
      BY <2>1 DEF Commit, LInv, Stated
    <3> QED BY <2>1, <3>1, <3>2, ScanCommits, AddCommits, RemoveCommits, ClearCommits,
               InitCommits DEF Ledger!LedgerNext
  <2>2. CASE LoseDatabase
    BY <2>2, InitCommits DEF Ledger!LedgerNext
  <2>3. CASE RunStep /\ ~Commit
    <3>1. Typed /\ Owned(tx)
      BY DEF IInv
    <3>2. db' = db
      BY <2>3, <3>1, RunStepMoves DEF Onward
    <3> QED BY <3>2, LedgerStutters
  <2>4. CASE Begin
    <3>1. db' = db
      BY <2>4 DEF Begin, BeginScan, BeginAdd, BeginRemove, BeginClear, BeginInit
    <3> QED BY <3>1, LedgerStutters
  <2>5. CASE Abort \/ (\E c \in ConfigChoices : EditConfig(c)) \/ DiskStep \/ UNCHANGED vars
    <3>1. db' = db
      BY <2>5 DEF Abort, EditConfig, DiskStep, vars, runVars
    <3> QED BY <3>1, LedgerStutters
  <2> QED BY <2>1, <2>2, <2>3, <2>4, <2>5 DEF Next
<1> QED BY <1>1, <1>2, AllHold, PTL DEF Spec, ImplementsLedger, Ledger!LedgerSpec
==============================================================================
