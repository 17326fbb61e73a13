------------------------- MODULE FmonRecords_proofs --------------------------
(***************************************************************************)
(* What a run may do before it commits.  The first half compares the open  *)
(* transaction with the committed database source by source: the audit     *)
(* trail only grows, an outage is announced once at each end, and the      *)
(* baseline of a missing source is kept.  The second half compares them    *)
(* path by path: what has changed is what the new records say.  The walk   *)
(* may visit entries in any order, so this needs to know which paths it    *)
(* can still come to.                                                      *)
(***************************************************************************)
EXTENDS FmonScan_proofs

\* The sources of d that are marked as missing.
Missing(d) == {s \in Watched(d) : d.sources[s].status = "missing"}

\* The control points of the walk of one source.
InSource == {"root", "walk", "hash"}

\* Between the runs there is no run.
Resting == pc = "idle" => run = NoRun

\* The sequence t begins with the sequence h.
Continues(t, h) == Len(h) <= Len(t) /\ \A i \in 1..Len(h) : t[i] = h[i]

\* A run takes no committed record away.
Appended ==
  run.cmd \in {"scan", "add", "rm"} =>
    \A p \in Path : Continues(tx.history[p], db.history[p])

\* The report says which sources have changed their status so far.
Announced ==
  run.cmd = "scan" =>
    /\ rep.alerts = Missing(tx) \ Missing(db)
    /\ rep.notices = (Missing(db) \cap Watched(tx)) \ Missing(tx)
    /\ \A s \in run.plan : s \in Missing(tx) <=> s \in Missing(db)

\* The source being scanned is there, and no longer planned.
Entered == pc \in InSource => walk.src \notin run.plan \cup Missing(tx)

\* The rows of s are the committed ones.
Unchanged(s) == \A p \in Rows(db, s) \cup Rows(tx, s) : tx.files[p] = db.files[p]

\* Nobody has touched the rows of a source that is missing or still to be scanned.
Spared ==
  pc # "idle" =>
    \A s \in Watched(db) \cap Watched(tx) :
      s \in run.plan \cup Missing(tx) => Unchanged(s)

\* The invariant of the first half of this module.
OInv == Resting /\ Appended /\ Announced /\ Entered /\ Spared

------------------------------------------------------------------------------
(* The statements on the database, table by table.                           *)

\* DeleteFileStates takes the named rows.
LEMMA RowsStatement ==
  ASSUME NEW d \in Database, NEW paths
  PROVE  LET e == DeleteFileStates(d, paths)
         IN /\ e.sources = d.sources
            /\ e.history = d.history
            /\ e.rebuild = d.rebuild
            /\ \A p \in Path : e.files[p] = IF p \in paths THEN Nil ELSE d.files[p]
<1> DEFINE f == [p \in Path |-> IF p \in paths THEN Nil ELSE d.files[p]]
<1>1. DeleteFileStates(d, paths) =
        [sources |-> d.sources, files |-> f, history |-> d.history, rebuild |-> d.rebuild]
  BY ReplaceTable DEF DeleteFileStates
<1> QED BY <1>1

\* DeleteSources takes the rows of the sources it drops.
LEMMA DropStatement ==
  ASSUME NEW d \in Database, NEW dropped
  PROVE  LET e == DeleteSources(d, dropped)
         IN /\ e.history = d.history
            /\ e.rebuild = d.rebuild
            /\ \A s \in Path \ dropped : e.sources[s] = d.sources[s]
            /\ \A p \in Path : e.files[p] = IF d.files[p] # Nil /\ d.files[p].src \in dropped
                                             THEN Nil ELSE d.files[p]
<1> DEFINE t == [s \in Path |-> IF s \in dropped THEN Nil ELSE d.sources[s]]
           lost == UNION {Rows(d, s) : s \in dropped}
           d1 == [d EXCEPT !.sources = t]
           e == DeleteSources(d, dropped)
<1>1. d1 = [sources |-> t, files |-> d.files, history |-> d.history, rebuild |-> d.rebuild]
  BY ReplaceTable
<1>2. d1 \in Database
  BY <1>1, DatabaseFields DEF Database
<1>3. \A p \in Path : p \in lost <=> d.files[p] # Nil /\ d.files[p].src \in dropped
  BY DEF Rows
<1>4. e = DeleteFileStates(d1, lost)
  BY DEF DeleteSources
<1> HIDE DEF d1, lost
<1>5. /\ e.history = d.history
      /\ e.rebuild = d.rebuild
      /\ e.sources = t
      /\ \A p \in Path : e.files[p] = IF p \in lost THEN Nil ELSE d.files[p]
  <2> HIDE DEF e
  <2>1. d1.history = d.history /\ d1.rebuild = d.rebuild /\ d1.sources = t /\ d1.files = d.files
    BY <1>1
  <2> HIDE DEF t
  <2> QED BY <1>2, <1>4, <2>1, RowsStatement
<1> HIDE DEF e
<1>6. \A s \in Path \ dropped : e.sources[s] = d.sources[s]
  BY <1>5
<1>7. \A p \in Path : e.files[p] = IF d.files[p] # Nil /\ d.files[p].src \in dropped
                                    THEN Nil ELSE d.files[p]
  BY <1>3, <1>5
<1> QED BY <1>5, <1>6, <1>7 DEF e

\* InsertSources makes the sources it names active.
LEMMA EnlistStatement ==
  ASSUME NEW d \in Database, NEW kinds, DOMAIN kinds \subseteq Path
  PROVE  LET e == InsertSources(d, kinds)
         IN /\ e.history = d.history
            /\ e.rebuild = d.rebuild
            /\ e.files = d.files
            /\ \A s \in Path : /\ s \in DOMAIN kinds => e.sources[s].status = "active"
                               /\ s \notin DOMAIN kinds => e.sources[s] = d.sources[s]
<1> DEFINE u == [s \in Path |-> IF s \in DOMAIN kinds
                                 THEN [type |-> TypeFor(kinds[s]), status |-> "active"]
                                 ELSE d.sources[s]]
<1>1. InsertSources(d, kinds) =
        [sources |-> u, files |-> d.files, history |-> d.history, rebuild |-> d.rebuild]
  BY ReplaceTable DEF InsertSources
<1> QED BY <1>1

\* SetSourceStatus changes one status.
LEMMA StatusStatement ==
  ASSUME NEW d \in Database, NEW s \in Watched(d), NEW status \in {"active", "missing"}
  PROVE  LET e == SetSourceStatus(d, s, status)
         IN /\ e.history = d.history
            /\ e.files = d.files
            /\ e.rebuild = d.rebuild
            /\ e.sources[s].status = status
            /\ e.sources[s].type = d.sources[s].type
            /\ \A t \in Path \ {s} : e.sources[t] = d.sources[t]
<1> DEFINE row == [d.sources[s] EXCEPT !.status = status]
           u == [d.sources EXCEPT ![s] = row]
<1>1. SetSourceStatus(d, s, status) = [d EXCEPT !.sources = u]
  BY DEF SetSourceStatus
<1>2. row.status = status /\ row.type = d.sources[s].type
  BY DatabaseFields DEF Watched, Source
<1> HIDE DEF row
<1>3. u[s] = row /\ \A t \in Path \ {s} : u[t] = d.sources[t]
  BY DatabaseFields DEF Watched
<1> HIDE DEF u
<1>4. SetSourceStatus(d, s, status) =
        [sources |-> u, files |-> d.files, history |-> d.history, rebuild |-> d.rebuild]
  BY <1>1, ReplaceTable
<1> QED BY <1>2, <1>3, <1>4

\* InsertHistory appends.
LEMMA HistoryStatement ==
  ASSUME NEW d \in Database, NEW events
  PROVE  LET e == InsertHistory(d, events)
         IN /\ e.sources = d.sources
            /\ e.files = d.files
            /\ e.rebuild = d.rebuild
            /\ \A p \in Path : e.history[p] = IF p \in DOMAIN events
                                               THEN d.history[p] \o events[p]
                                               ELSE d.history[p]
<1> DEFINE h == [p \in Path |-> IF p \in DOMAIN events THEN d.history[p] \o events[p]
                                ELSE d.history[p]]
<1>1. InsertHistory(d, events) =
        [sources |-> d.sources, files |-> d.files, history |-> h, rebuild |-> d.rebuild]
  BY ReplaceTable DEF InsertHistory
<1> QED BY <1>1

\* UpsertFileState stores a row and touches no other table.
LEMMA UpsertStatement ==
  ASSUME NEW d \in Database, NEW s, NEW st, NEW sum
  PROVE  LET e == UpsertFileState(d, s, st, sum)
         IN /\ e.sources = d.sources
            /\ e.history = d.history
            /\ e.rebuild = d.rebuild
<1> DEFINE f == [d.files EXCEPT ![st.path] =
                   [src |-> s, hash |-> sum, size |-> st.size, mtime |-> st.mtime]]
<1>1. UpsertFileState(d, s, st, sum) = [d EXCEPT !.files = f]
  BY DEF UpsertFileState
<1> HIDE DEF f
<1> QED BY <1>1, ReplaceTable

------------------------------------------------------------------------------
(* The steps of a run, as far as outages are concerned.                      *)

\* Nothing happens to the sources, the rows, the history or what is announced.
Quiet ==
  /\ tx'.sources = tx.sources /\ tx'.files = tx.files /\ tx'.history = tx.history
  /\ rep'.alerts = rep.alerts /\ rep'.notices = rep.notices
  /\ pc' \in InSource => pc \in InSource /\ walk'.src = walk.src

\* s turns out to be missing.
Vanishes(s) ==
  /\ s \notin Missing(tx)
  /\ Missing(tx') = Missing(tx) \cup {s}
  /\ tx'.files = tx.files
  /\ \A p \in Path : tx'.history[p] = IF p = s THEN tx.history[p] \o <<MissingRecord>>
                                       ELSE tx.history[p]
  /\ rep'.alerts = rep.alerts \cup {s} /\ rep'.notices = rep.notices
  /\ run'.plan = run.plan \ {s}
  /\ pc' \notin InSource

\* s turns out to be there.
Stands(s) ==
  /\ Missing(tx') = Missing(tx) \ {s}
  /\ tx'.files = tx.files /\ tx'.history = tx.history
  /\ rep'.alerts = rep.alerts
  /\ rep'.notices = rep.notices \cup (Missing(tx) \cap {s})
  /\ run'.plan = run.plan \ {s}
  /\ pc' \in InSource => walk'.src = s

\* Rows of the source being scanned are stored or taken away.
Stores ==
  /\ pc \in InSource
  /\ tx'.sources = tx.sources
  /\ \A p \in Path :
       \/ tx'.files[p] = tx.files[p] /\ tx'.history[p] = tx.history[p]
       \/ /\ p \in Tree(walk.src)
          /\ tx.files[p] = Nil \/ tx.files[p].src = walk.src
          /\ tx'.files[p] = Nil \/ tx'.files[p].src = walk.src
  /\ \A p \in Path : Continues(tx'.history[p], tx.history[p])
  /\ rep'.alerts = rep.alerts /\ rep'.notices = rep.notices
  /\ pc' \in InSource => walk'.src = walk.src

\* What every step before the commit has in common.
Onward ==
  /\ db' = db
  /\ Watched(tx') = Watched(tx)
  /\ tx'.rebuild = tx.rebuild \/ EndScan
  /\ run'.cmd = run.cmd /\ run'.plan \subseteq run.plan
  /\ run'.target = run.target /\ run'.fresh = run.fresh /\ run'.cfg = run.cfg
  /\ pc # "idle" /\ pc' # "idle"

\* A longer sequence continues a shorter one.
LEMMA ContinuesAppend ==
  ASSUME NEW h \in Seq(Event), NEW more \in Seq(Event)
  PROVE  Continues(h \o more, h) /\ Continues(h, h)
<1>1. Len(h) \in Nat /\ Len(more) \in Nat /\ Len(h \o more) = Len(h) + Len(more)
  BY ConcatProperties, LenProperties
<1>2. \A i \in 1..Len(h) : (h \o more)[i] = h[i]
  BY ConcatProperties
<1> QED BY <1>1, <1>2 DEF Continues

\* Going on is transitive.
LEMMA ContinuesTransitive ==
  ASSUME NEW h \in Seq(Event), NEW t \in Seq(Event), NEW u \in Seq(Event),
         Continues(u, t), Continues(t, h)
  PROVE  Continues(u, h)
<1>1. Len(h) \in Nat /\ Len(t) \in Nat /\ Len(u) \in Nat
  BY LenProperties
<1> QED BY <1>1 DEF Continues

\* A source on the plan is missing or it is not.
LEMMA PlannedSource ==
  ASSUME Typed, NEW s \in run.plan
  PROVE  /\ s \in Watched(tx) /\ s \in Path /\ tx \in Database
         /\ tx.sources[s].status = "missing" <=> s \in Missing(tx)
BY DEF Typed, TypeOK, RunInside, Watched, Missing

\* SourceMissing
LEMMA MissingStep ==
  ASSUME Typed, NEW s \in run.plan, SourceMissing(s)
  PROVE  Onward /\ ((Quiet /\ s \in Missing(tx)) \/ Vanishes(s))
<1>1. s \in Watched(tx) /\ s \in Path /\ tx \in Database
      /\ (tx.sources[s].status = "missing" <=> s \in Missing(tx))
  BY PlannedSource
<1>2. run \in Run /\ rep \in Report
  BY DEF Typed, TypeOK
<1>3. /\ run'.plan = run.plan \ {s} /\ run'.cmd = run.cmd
      /\ run'.target = run.target /\ run'.fresh = run.fresh /\ run'.cfg = run.cfg
      /\ pc = "plan" /\ pc' = "plan" /\ db' = db
  BY <1>2, FinishedRun DEF SourceMissing
<1>4. Watched(tx') = Watched(tx) /\ tx'.files = tx.files
  BY SourceMissingEffect
<1>5. CASE s \in Missing(tx)
  <2>1. tx' = tx /\ rep' = rep
    BY <1>1, <1>5 DEF SourceMissing
  <2> QED BY <1>3, <1>4, <1>5, <2>1 DEF Onward, Quiet, InSource
<1>6. CASE s \notin Missing(tx)
  <2> DEFINE events == [p \in {s} |-> <<[event |-> "DELETED", old |-> Nil, new |-> Nil]>>]
             d == SetSourceStatus(tx, s, "missing")
  <2>1. tx' = InsertHistory(d, events) /\ rep' = [rep EXCEPT !.alerts = @ \cup {s}]
    BY <1>1, <1>6 DEF SourceMissing
  <2>2. DOMAIN events = {s} /\ events[s] = <<MissingRecord>>
    BY DEF MissingRecord
  <2>3. d \in Database
    BY <1>1, SetSourceStatusEffect
  <2>4. /\ d.history = tx.history /\ d.rebuild = tx.rebuild
        /\ d.sources[s].status = "missing"
        /\ \A t \in Path \ {s} : d.sources[t] = tx.sources[t]
    BY <1>1, StatusStatement
  <2> HIDE DEF d, events
  <2>5. /\ tx'.sources = d.sources /\ tx'.rebuild = d.rebuild
        /\ \A p \in Path : tx'.history[p] = IF p = s THEN d.history[p] \o <<MissingRecord>>
                                            ELSE d.history[p]
    BY <2>1, <2>2, <2>3, HistoryStatement
  <2>6. Missing(tx') = Missing(tx) \cup {s}
    BY <1>1, <1>4, <2>4, <2>5 DEF Missing, Watched
  <2>8. rep'.alerts = rep.alerts \cup {s} /\ rep'.notices = rep.notices
    BY <1>2, <2>1 DEF Report
  <2> QED BY <1>3, <1>4, <1>6, <2>4, <2>5, <2>6, <2>8 DEF Onward, Vanishes, InSource
<1> QED BY <1>5, <1>6

\* Returned and Welcomed
LEMMA ReturnStep ==
  ASSUME Typed, NEW s \in run.plan
  PROVE  /\ Returned(s).files = tx.files /\ Returned(s).history = tx.history
         /\ Returned(s).rebuild = tx.rebuild
         /\ Missing(Returned(s)) = Missing(tx) \ {s}
         /\ \A t \in Path \ {s} : Returned(s).sources[t] = tx.sources[t]
         /\ Returned(s).sources[s].type = tx.sources[s].type
         /\ Welcomed(s).alerts = rep.alerts
         /\ Welcomed(s).notices = rep.notices \cup (Missing(tx) \cap {s})
<1>1. s \in Watched(tx) /\ s \in Path /\ tx \in Database
      /\ (tx.sources[s].status = "missing" <=> s \in Missing(tx))
  BY PlannedSource
<1>2. rep \in Report
  BY DEF Typed, TypeOK
<1>3. Watched(Returned(s)) = Watched(tx)
  BY <1>1, ReturnedEffect
<1>4. CASE s \in Missing(tx)
  <2>1. Returned(s) = SetSourceStatus(tx, s, "active")
        /\ Welcomed(s) = [rep EXCEPT !.notices = @ \cup {s}]
    BY <1>1, <1>4 DEF Returned, Welcomed
  <2>2. /\ Returned(s).files = tx.files /\ Returned(s).history = tx.history
        /\ Returned(s).rebuild = tx.rebuild
        /\ Returned(s).sources[s].status = "active"
        /\ Returned(s).sources[s].type = tx.sources[s].type
        /\ \A t \in Path \ {s} : Returned(s).sources[t] = tx.sources[t]
    BY <1>1, <2>1, StatusStatement
  <2>3. Missing(Returned(s)) = Missing(tx) \ {s}
    BY <1>1, <1>3, <2>2 DEF Missing, Watched
  <2>4. Welcomed(s).alerts = rep.alerts /\ Welcomed(s).notices = rep.notices \cup {s}
    BY <1>2, <2>1 DEF Report
  <2> QED BY <1>4, <2>2, <2>3, <2>4
<1>5. CASE s \notin Missing(tx)
  BY <1>1, <1>5 DEF Returned, Welcomed
<1> QED BY <1>4, <1>5

\* SourceReplaced, OpenFolder and OpenFile
LEMMA StandingStep ==
  ASSUME Typed, NEW s \in run.plan, SourceReplaced(s) \/ OpenFolder(s) \/ OpenFile(s)
  PROVE  Onward /\ Stands(s)
<1>1. run \in Run /\ rep \in Report /\ tx \in Database /\ s \in Watched(tx) /\ s \in Path
  BY PlannedSource DEF Typed, TypeOK
<1>2. /\ tx' = Returned(s) /\ run' = Finished(s) /\ pc = "plan" /\ db' = db
      /\ rep' = Welcomed(s) \/ rep' = [Welcomed(s) EXCEPT !.errors = TRUE]
  BY DEF SourceReplaced, OpenFolder, OpenFile
<1>3. /\ run'.plan = run.plan \ {s} /\ run'.cmd = run.cmd
      /\ run'.target = run.target /\ run'.fresh = run.fresh /\ run'.cfg = run.cfg
  BY <1>1, <1>2, FinishedRun
<1>4. Watched(tx') = Watched(tx)
  BY <1>1, <1>2, ReturnedEffect
<1>5. rep'.alerts = Welcomed(s).alerts /\ rep'.notices = Welcomed(s).notices
  <2>1. Welcomed(s) \in Report
    BY <1>1, WelcomedReport
  <2> QED BY <1>2, <2>1 DEF Report
<1>6. pc' = "plan" \/ (pc' \in {"root", "hash"} /\ walk'.src = s)
  BY <1>2 DEF SourceReplaced, OpenFolder, OpenFile, NoWalk
<1>7. Stands(s)
  BY <1>2, <1>3, <1>5, <1>6, ReturnStep DEF Stands, InSource
<1>8. tx'.rebuild = tx.rebuild
  BY <1>2, ReturnStep
<1> QED BY <1>2, <1>3, <1>4, <1>6, <1>7, <1>8 DEF Onward

\* The steps that only look, and those that end the plan.
LEMMA QuietStep ==
  ASSUME Typed,
         \/ \E s \in run.plan : SourceUnreadable(s)
         \/ RootLost \/ RootFound \/ HashFails \/ EndScan \/ EndAdd \/ SaveConfig
         \/ \E i \in walk.todo : EntryStep(i)
  PROVE  Onward /\ Quiet
<1>1. run \in Run /\ rep \in Report /\ tx \in Database /\ walk \in Walk
  BY DEF Typed, TypeOK
<1>2. CASE \E s \in run.plan : SourceUnreadable(s)
  <2>1. PICK s \in run.plan : SourceUnreadable(s)
    BY <1>2
  <2>2. /\ run'.plan = run.plan \ {s} /\ run'.cmd = run.cmd
        /\ run'.target = run.target /\ run'.fresh = run.fresh /\ run'.cfg = run.cfg
    BY <1>1, <2>1, FinishedRun DEF SourceUnreadable
  <2> QED BY <1>1, <2>1, <2>2 DEF SourceUnreadable, Onward, Quiet, InSource, Report
<1>3. CASE RootLost \/ RootFound
  BY <1>1, <1>3 DEF RootLost, RootFound, Onward, Quiet, InSource, Report, Walk
<1>4. CASE HashFails
  BY <1>1, <1>4 DEF HashFails, AfterFile, Onward, Quiet, InSource, Report, Walk
<1>5. CASE EndScan \/ EndAdd
  <2>1. tx' = tx \/ tx' = [tx EXCEPT !.rebuild = FALSE]
    BY <1>5 DEF EndScan, EndAdd
  <2>2. tx'.sources = tx.sources /\ tx'.files = tx.files /\ tx'.history = tx.history
    BY <1>1, <2>1, ReplaceTable
  <2> QED BY <1>5, <2>2 DEF EndScan, EndAdd, Onward, Quiet, InSource, Watched
<1>6. CASE SaveConfig
  BY <1>6 DEF SaveConfig, Onward, Quiet, InSource
<1>7. CASE \E i \in walk.todo : EntryStep(i)
  BY <1>1, <1>7 DEF EntryStep, ListDirectory, ListingFails, EntryVanished, EntryUnreadable,
       CheckFile, Onward, Quiet, InSource, Report, Walk
<1> QED BY <1>2, <1>3, <1>4, <1>5, <1>6, <1>7

\* What HashFile does to the tables.
LEMMA HashTables ==
  ASSUME Typed, Owned(tx), HashFile
  PROVE  \E sum \in Content :
           LET p == walk.file.path
           IN /\ CheckEvents(p, sum) \in Seq(Event)
              /\ tx'.sources = tx.sources /\ tx'.rebuild = tx.rebuild
              /\ \A q \in Path : tx'.history[q] = IF q = p THEN tx.history[q] \o CheckEvents(p, sum)
                                                  ELSE tx.history[q]
              /\ tx'.files = [tx.files EXCEPT ![p] =
                   [src |-> walk.src, hash |-> sum,
                    size |-> walk.file.size, mtime |-> walk.file.mtime]]
              /\ tx.files[p] = Nil \/ tx.files[p].src = walk.src
<1> DEFINE p == walk.file.path
<1>1. /\ pc = "hash" /\ run \in Run /\ walk \in Walk /\ tx \in Database
      /\ walk.file \in Stat /\ walk.src \in Watched(tx) /\ p \in Tree(walk.src)
      /\ walk.src \in Path /\ p \in Path /\ DiskTypeOK
  BY DEF Typed, TypeOK, RunInside, HashFile, Watched, Stat
<1>2. PICK sum \in Sums(walk.file) :
        tx' = UpsertFileState(InsertHistory(tx, [q \in {p} |-> CheckEvents(p, sum)]),
                              walk.src, walk.file, sum)
  BY DEF HashFile
<1> DEFINE events == [q \in {p} |-> CheckEvents(p, sum)]
           d == InsertHistory(tx, events)
<1>3. sum \in Content
  BY <1>1, FileEntry DEF Sums
<1>4. CheckEvents(p, sum) \in Seq(Event)
  <2>1. <<>> \in Seq(Event) /\ <<Added(sum)>> \in Seq(Event)
    BY <1>3, EventRecords
  <2>2. ASSUME Known(tx, walk.src, p)
        PROVE  <<Modified(tx.files[p].hash, sum)>> \in Seq(Event)
    <3>1. tx.files[p].hash \in Content
      BY <1>1, <2>2, DatabaseFields DEF Known, Rows, FileState
    <3> QED BY <1>3, <3>1, EventRecords
  <2> QED BY <2>1, <2>2 DEF CheckEvents
<1>5. DOMAIN events = {p} /\ events[p] = CheckEvents(p, sum)
  OBVIOUS
<1> HIDE DEF events
<1>6. /\ d \in Database
      /\ d.sources = tx.sources /\ d.files = tx.files /\ d.rebuild = tx.rebuild
      /\ \A q \in Path : d.history[q] = IF q = p THEN tx.history[q] \o CheckEvents(p, sum)
                                        ELSE tx.history[q]
  BY <1>1, <1>4, <1>5, InsertHistoryEffect, HistoryStatement
<1>7. tx' = UpsertFileState(d, walk.src, walk.file, sum)
  BY <1>2 DEF events
<1> HIDE DEF d, p
<1>8. /\ tx'.sources = tx.sources /\ tx'.history = d.history /\ tx'.rebuild = tx.rebuild
      /\ tx'.files = [tx.files EXCEPT ![p] =
           [src |-> walk.src, hash |-> sum,
            size |-> walk.file.size, mtime |-> walk.file.mtime]]
  BY <1>1, <1>3, <1>6, <1>7, UpsertFileStateEffect, UpsertStatement DEF p
<1>9. tx.files[p] = Nil \/ tx.files[p].src = walk.src
  <2> SUFFICES ASSUME tx.files[p] # Nil, tx.files[p].src # walk.src PROVE FALSE
    OBVIOUS
  <2>1. tx.files[p].src \in Watched(tx) /\ p \in Tree(tx.files[p].src)
    BY <1>1 DEF Owned
  <2>2. ~Overlaps(tx.files[p].src, walk.src)
    BY <1>1, <2>1 DEF Owned
  <2> QED BY <1>1, <2>1, <2>2, PathsFormATree DEF Overlaps, Within, Tree, Watched
<1> QED BY <1>3, <1>4, <1>6, <1>8, <1>9 DEF p

\* HashFile: one row of the source being scanned, and at most one record.
LEMMA HashStep ==
  ASSUME Typed, Owned(tx), HashFile
  PROVE  Onward /\ Stores
<1> DEFINE p == walk.file.path
<1>1. /\ pc = "hash" /\ walk \in Walk /\ tx \in Database /\ p \in Path /\ p \in Tree(walk.src)
  BY DEF Typed, TypeOK, RunInside, HashFile, Stat
<1>2. PICK sum \in Content :
        /\ CheckEvents(p, sum) \in Seq(Event)
        /\ tx'.sources = tx.sources /\ tx'.rebuild = tx.rebuild
        /\ \A q \in Path : tx'.history[q] = IF q = p THEN tx.history[q] \o CheckEvents(p, sum)
                                            ELSE tx.history[q]
        /\ tx'.files = [tx.files EXCEPT ![p] =
             [src |-> walk.src, hash |-> sum,
              size |-> walk.file.size, mtime |-> walk.file.mtime]]
        /\ tx.files[p] = Nil \/ tx.files[p].src = walk.src
  BY HashTables
<1> HIDE DEF p
<1>3. \A q \in Path : \/ tx'.files[q] = tx.files[q] /\ tx'.history[q] = tx.history[q]
                      \/ /\ q \in Tree(walk.src)
                         /\ tx.files[q] = Nil \/ tx.files[q].src = walk.src
                         /\ tx'.files[q] = Nil \/ tx'.files[q].src = walk.src
  BY <1>1, <1>2, DatabaseFields
<1>4. \A q \in Path : Continues(tx'.history[q], tx.history[q])
  <2> SUFFICES ASSUME NEW q \in Path PROVE Continues(tx'.history[q], tx.history[q])
    OBVIOUS
  <2>1. tx.history[q] \in Seq(Event)
    BY <1>1, DatabaseFields
  <2> QED BY <1>2, <2>1, ContinuesAppend
<1>5. /\ db' = db /\ run' = run /\ rep' = rep
      /\ pc' = "plan" \/ (pc' = "walk" /\ walk'.src = walk.src)
  BY <1>1 DEF HashFile, AfterFile, Walk
<1> QED BY <1>1, <1>2, <1>3, <1>4, <1>5 DEF Onward, Stores, InSource, Watched

\* What FinishFolder does to the tables.
LEMMA FinishTables ==
  ASSUME Typed, FinishFolder
  PROVE  LET lost == Lost(tx)
         IN /\ \A p \in lost : p \in Path /\ tx.files[p].src = walk.src /\ tx.files[p].hash \in Content
            /\ tx'.sources = tx.sources /\ tx'.rebuild = tx.rebuild
            /\ \A p \in Path : tx'.history[p] =
                 IF p \in Reported(lost) THEN tx.history[p] \o <<Deleted(tx.files[p].hash)>>
                 ELSE tx.history[p]
            /\ \A p \in Path : tx'.files[p] = IF p \in lost THEN Nil ELSE tx.files[p]
<1> DEFINE lost == Lost(tx)
           events == [p \in Reported(lost) |-> <<Deleted(tx.files[p].hash)>>]
           d == InsertHistory(tx, events)
<1>1. tx \in Database
  BY DEF Typed, TypeOK
<1>2. \A p \in lost : p \in Path /\ tx.files[p].src = walk.src /\ tx.files[p].hash \in Content
  BY <1>1, DatabaseFields DEF FileState, Lost, Rows
<1>3. \A p \in DOMAIN events : events[p] \in Seq(Event)
  BY <1>2, EventRecords DEF Reported
<1>4. /\ DOMAIN events = Reported(lost)
      /\ \A p \in DOMAIN events : events[p] = <<Deleted(tx.files[p].hash)>>
  OBVIOUS
<1> HIDE DEF events
<1>5. /\ d \in Database
      /\ d.sources = tx.sources /\ d.files = tx.files /\ d.rebuild = tx.rebuild
      /\ \A p \in Path : d.history[p] = IF p \in DOMAIN events THEN tx.history[p] \o events[p]
                                        ELSE tx.history[p]
  BY <1>1, <1>3, InsertHistoryEffect, HistoryStatement
<1>6. tx' = DeleteFileStates(d, lost)
  BY DEF FinishFolder, events
<1> HIDE DEF d, lost
<1>7. /\ tx'.sources = tx.sources /\ tx'.history = d.history /\ tx'.rebuild = tx.rebuild
      /\ \A p \in Path : tx'.files[p] = IF p \in lost THEN Nil ELSE tx.files[p]
  BY <1>5, <1>6, RowsStatement
<1> QED BY <1>2, <1>4, <1>5, <1>7 DEF lost

\* FinishFolder: rows of the source being scanned go, with at most one record each.
LEMMA FinishStep ==
  ASSUME Typed, Owned(tx), FinishFolder
  PROVE  Onward /\ Stores
<1>1. tx \in Database
  BY DEF Typed, TypeOK
<1>2. /\ \A p \in Lost(tx) : tx.files[p].src = walk.src /\ tx.files[p].hash \in Content
      /\ tx'.sources = tx.sources /\ tx'.rebuild = tx.rebuild
      /\ \A p \in Path : tx'.history[p] =
           IF p \in Reported(Lost(tx)) THEN tx.history[p] \o <<Deleted(tx.files[p].hash)>>
           ELSE tx.history[p]
      /\ \A p \in Path : tx'.files[p] = IF p \in Lost(tx) THEN Nil ELSE tx.files[p]
  BY FinishTables
<1>3. \A p \in Path : Continues(tx'.history[p], tx.history[p])
  <2> SUFFICES ASSUME NEW p \in Path PROVE Continues(tx'.history[p], tx.history[p])
    OBVIOUS
  <2>1. tx.history[p] \in Seq(Event)
    BY <1>1, DatabaseFields
  <2>2. p \in Reported(Lost(tx)) => <<Deleted(tx.files[p].hash)>> \in Seq(Event)
    BY <1>2, EventRecords DEF Reported
  <2> QED BY <1>2, <2>1, <2>2, ContinuesAppend
<1>4. db' = db /\ run' = run /\ rep' = rep /\ pc = "walk" /\ pc' = "plan"
  BY DEF FinishFolder
<1>5. Lost(tx) \subseteq Tree(walk.src) /\ Reported(Lost(tx)) \subseteq Lost(tx)
  BY DEF Lost, Rows, Owned, Reported
<1>6. \A p \in Path : \/ tx'.files[p] = tx.files[p] /\ tx'.history[p] = tx.history[p]
                      \/ /\ p \in Tree(walk.src)
                         /\ tx.files[p] = Nil \/ tx.files[p].src = walk.src
                         /\ tx'.files[p] = Nil \/ tx'.files[p].src = walk.src
  BY <1>2, <1>5
<1> QED BY <1>2, <1>3, <1>4, <1>6 DEF Onward, Stores, InSource, Watched

\* Whatever a run does before it commits.
LEMMA RunStepMoves ==
  ASSUME Typed, Owned(tx), RunStep, ~Commit
  PROVE  /\ Onward
         /\ \/ Quiet
            \/ \E s \in run.plan : Vanishes(s) \/ Stands(s)
            \/ Stores
BY MissingStep, StandingStep, QuietStep, HashStep, FinishStep DEF RunStep, SourceStep

------------------------------------------------------------------------------
(* The invariant.                                                            *)

\* A step that leaves the database and the run alone.
LEMMA StutterOInv ==
  ASSUME OInv, UNCHANGED runVars
  PROVE  OInv'
BY DEF OInv, Resting, Appended, Announced, Entered, Spared, Unchanged, runVars

\* A step of a run that does not commit.
LEMMA RunStepOInv ==
  ASSUME IInv, OInv, RunStep, ~Commit
  PROVE  OInv'
<1>1. Typed /\ Typed' /\ Owned(tx) /\ tx \in Database /\ tx' \in Database /\ db \in Database
      /\ rep \in Report /\ run.plan \subseteq Watched(tx) /\ Watched(tx) \subseteq Path
  BY RunStepEffect DEF IInv, Typed, TypeOK, RunInside, Watched
<1>2. Onward
  BY <1>1, RunStepMoves
<1>3. Resting'
  BY <1>2 DEF Onward, Resting
<1>4. ASSUME Quiet PROVE OInv'
  <2>1. Missing(tx') = Missing(tx)
    BY <1>2, <1>4 DEF Quiet, Onward, Missing
  <2>2. Appended' /\ Announced'
    BY <1>2, <1>4, <2>1 DEF OInv, Appended, Announced, Quiet, Onward
  <2>3. Entered'
    BY <1>2, <1>4, <2>1 DEF OInv, Entered, Quiet, Onward
  <2>4. Spared'
    BY <1>2, <1>4, <2>1 DEF OInv, Spared, Unchanged, Rows, Quiet, Onward
  <2> QED BY <1>3, <2>2, <2>3, <2>4 DEF OInv
<1>5. ASSUME \A p \in Path : Continues(tx'.history[p], tx.history[p])
      PROVE  Appended'
  <2> SUFFICES ASSUME run.cmd \in {"scan", "add", "rm"}, NEW p \in Path
               PROVE  Continues(tx'.history[p], db.history[p])
    BY <1>2 DEF Appended, Onward
  <2>1. Continues(tx.history[p], db.history[p])
    BY DEF OInv, Appended
  <2>2. db.history[p] \in Seq(Event) /\ tx.history[p] \in Seq(Event) /\ tx'.history[p] \in Seq(Event)
    BY <1>1, DatabaseFields
  <2> QED BY <1>5, <2>1, <2>2, ContinuesTransitive
<1>6. ASSUME NEW s \in run.plan, Vanishes(s) PROVE OInv'
  <2>1. Appended'
    <3> SUFFICES ASSUME NEW p \in Path PROVE Continues(tx'.history[p], tx.history[p])
      BY <1>5
    <3>1. tx.history[p] \in Seq(Event)
      BY <1>1, DatabaseFields
    <3>2. MissingRecord \in Event
      BY DEF MissingRecord, Event
    <3>3. <<MissingRecord>> \in Seq(Event)
      BY <3>2
    <3>4. /\ Continues(tx.history[p] \o <<MissingRecord>>, tx.history[p])
          /\ Continues(tx.history[p], tx.history[p])
      BY <3>1, <3>3, ContinuesAppend
    <3> QED BY <1>6, <3>4 DEF Vanishes
  <2>2. Announced'
    BY <1>1, <1>2, <1>6 DEF OInv, Announced, Vanishes, Onward
  <2>3. Entered'
    BY <1>6 DEF Entered, Vanishes
  <2>4. Spared'
    BY <1>1, <1>2, <1>6 DEF OInv, Spared, Unchanged, Rows, Vanishes, Onward
  <2> QED BY <1>3, <2>1, <2>2, <2>3, <2>4 DEF OInv
<1>7. ASSUME NEW s \in run.plan, Stands(s) PROVE OInv'
  <2>1. Appended'
    BY <1>2, <1>7 DEF OInv, Appended, Stands, Onward
  <2>2. Announced'
    BY <1>1, <1>2, <1>7 DEF OInv, Announced, Stands, Onward
  <2>3. Entered'
    BY <1>7 DEF Entered, Stands
  <2>4. Spared'
    BY <1>1, <1>2, <1>7 DEF OInv, Spared, Unchanged, Rows, Stands, Onward
  <2> QED BY <1>3, <2>1, <2>2, <2>3, <2>4 DEF OInv
<1>8. ASSUME Stores PROVE OInv'
  <2>1. Appended'
    BY <1>5, <1>8 DEF Stores
  <2>2. Missing(tx') = Missing(tx)
    BY <1>2, <1>8 DEF Stores, Onward, Missing
  <2>3. Announced'
    BY <1>2, <1>8, <2>2 DEF OInv, Announced, Stores, Onward
  <2>4. Entered'
    BY <1>2, <1>8, <2>2 DEF OInv, Entered, Stores, Onward
  <2>5. ASSUME NEW s \in Watched(db) \cap Watched(tx), s \in run'.plan \cup Missing(tx),
               NEW p \in Path, \/ db.files[p] # Nil /\ db.files[p].src = s
                               \/ tx'.files[p] # Nil /\ tx'.files[p].src = s
        PROVE  tx'.files[p] = db.files[p]
    <3>1. s # walk.src
      BY <1>2, <1>8, <2>5 DEF OInv, Entered, Stores, Onward
    <3>2. Unchanged(s)
      BY <1>2, <2>5 DEF OInv, Spared, Onward
    <3>3. CASE db.files[p] # Nil /\ db.files[p].src = s
      <4>1. tx.files[p] = db.files[p]
        BY <3>2, <3>3 DEF Unchanged, Rows
      <4> QED BY <1>8, <3>1, <3>3, <4>1 DEF Stores
    <3>4. CASE tx'.files[p] # Nil /\ tx'.files[p].src = s
      <4>1. tx'.files[p] = tx.files[p]
        BY <1>8, <3>1, <3>4 DEF Stores
      <4> QED BY <3>2, <3>4, <4>1 DEF Unchanged, Rows
    <3> QED BY <2>5, <3>3, <3>4
  <2>6. Spared'
    BY <1>2, <2>2, <2>5 DEF Spared, Unchanged, Rows, Onward
  <2> QED BY <1>3, <2>1, <2>3, <2>4, <2>6 DEF OInv
<1> QED BY <1>1, <1>4, <1>6, <1>7, <1>8, RunStepMoves

\* A history continues itself.
LEMMA SameHistory ==
  ASSUME NEW d \in Database, NEW e, e.history = d.history
  PROVE  \A p \in Path : Continues(e.history[p], d.history[p])
<1>1. \A p \in Path : d.history[p] \in Seq(Event)
  BY DatabaseFields
<1> QED BY <1>1, ContinuesAppend

\* reconcile: dropped sources lose their rows, found ones are active, and
\* everything else is as it was.
LEMMA ReconcileTables ==
  ASSUME IInv, NEW full \in ScanFull, NEW only \in ScanOnly, BeginScan(full, only)
  PROVE  LET accepted == Topmost(cfg.sources)
             known == Watched(db)
         IN /\ tx'.history = db.history
            /\ tx'.rebuild = db.rebuild
            /\ run'.fresh \subseteq accepted \ known
            /\ Watched(tx') = (accepted \cap known) \cup run'.fresh
            /\ \A s \in run'.fresh : tx'.sources[s].status = "active"
            /\ \A s \in accepted \cap known : tx'.sources[s] = db.sources[s]
            /\ \A p \in Path :
                 tx'.files[p] = IF db.files[p] # Nil /\ db.files[p].src \notin accepted
                                THEN Nil ELSE db.files[p]
            /\ run'.cmd = "scan" /\ run'.cfg = cfg
            /\ run'.plan \subseteq Watched(tx')
            /\ rep'.alerts = {} /\ rep'.notices = {} /\ pc' = "plan"
            /\ db' = db
<1> DEFINE accepted == Topmost(cfg.sources)
           known == Watched(db)
<1>1. db \in Database /\ cfg \in Config /\ accepted \subseteq Path /\ known \subseteq Path
  BY TopmostApart DEF IInv, Typed, TypeOK, Config, Topmost, Watched
<1>2. PICK kinds \in [accepted \ known -> Kinds \cup {"error"}] :
        LET new == Found(kinds)
            planned == (accepted \cap known) \cup new
        IN /\ only \subseteq planned
           /\ pc' = "plan"
           /\ tx' = InsertSources(DeleteSources(db, known \ accepted),
                                  [s \in new |-> kinds[s]])
           /\ run' = [cmd |-> "scan", full |-> full, target |-> Nil,
                      plan |-> IF only = {} THEN planned ELSE only,
                      scope |-> IF only = {} THEN planned ELSE only,
                      fresh |-> new, cfg |-> cfg]
           /\ rep' = [NoReport EXCEPT
                        !.rebuilt = db.rebuild,
                        !.errors = \E s \in DOMAIN kinds : kinds[s] \in {"other", "error"}]
           /\ UNCHANGED <<diskVars, cfg, db, walk>>
  BY DEF BeginScan
<1> DEFINE new == Found(kinds)
           found == [s \in new |-> kinds[s]]
           d == DeleteSources(db, known \ accepted)
<1>3. new \subseteq accepted \ known
  BY DEF Found
<1>4. tx' = InsertSources(d, found) /\ DOMAIN found = new
  BY <1>2
<1>5. /\ run'.fresh = new /\ run'.cmd = "scan" /\ run'.cfg = cfg
      /\ run'.plan \subseteq (accepted \cap known) \cup new
      /\ rep'.alerts = {} /\ rep'.notices = {} /\ pc' = "plan" /\ db' = db
  BY <1>2 DEF NoReport
<1> HIDE DEF new, found, accepted, known
<1>6. d \in Database /\ Watched(d) = known \cap accepted
  <2>1. Watched(d) = Watched(db) \ (known \ accepted)
    BY <1>1, DeleteSourcesEffect
  <2> QED BY <1>1, <2>1, DeleteSourcesEffect DEF known
<1>7. /\ d.history = db.history /\ d.rebuild = db.rebuild
      /\ \A s \in Path \ (known \ accepted) : d.sources[s] = db.sources[s]
      /\ \A p \in Path : d.files[p] = IF db.files[p] # Nil /\ db.files[p].src \in known \ accepted
                                      THEN Nil ELSE db.files[p]
  BY <1>1, DropStatement
<1> HIDE DEF d
<1>8. DOMAIN found \subseteq Path
  BY <1>1, <1>3, <1>4
<1>9. /\ tx'.history = d.history /\ tx'.rebuild = d.rebuild /\ tx'.files = d.files
      /\ Watched(tx') = Watched(d) \cup new
      /\ \A s \in Path : /\ s \in new => tx'.sources[s].status = "active"
                         /\ s \notin new => tx'.sources[s] = d.sources[s]
  <2> DEFINE e == InsertSources(d, found)
  <2>1. /\ e.history = d.history /\ e.rebuild = d.rebuild /\ e.files = d.files
        /\ \A s \in Path : /\ s \in DOMAIN found => e.sources[s].status = "active"
                           /\ s \notin DOMAIN found => e.sources[s] = d.sources[s]
    BY <1>6, <1>8, EnlistStatement
  <2>2. Watched(e) = Watched(d) \cup DOMAIN found
    BY <1>6, <1>8, InsertSourcesEffect
  <2>3. tx' = e /\ DOMAIN found = new
    BY <1>4
  <2> HIDE DEF e
  <2> QED BY <2>1, <2>2, <2>3
<1>10. \A p \in Path : db.files[p] # Nil => db.files[p].src \in known
  BY DEF IInv, Owned, known
<1>11. /\ Watched(tx') = (accepted \cap known) \cup new
       /\ \A s \in new : tx'.sources[s].status = "active"
       /\ \A s \in accepted \cap known : tx'.sources[s] = db.sources[s]
  BY <1>1, <1>3, <1>6, <1>7, <1>9
<1>12. \A p \in Path : tx'.files[p] = IF db.files[p] # Nil /\ db.files[p].src \notin accepted
                                      THEN Nil ELSE db.files[p]
  BY <1>7, <1>9, <1>10
<1> QED BY <1>3, <1>5, <1>7, <1>9, <1>11, <1>12 DEF accepted, known

\* A scan begins.
LEMMA BeginScanOInv ==
  ASSUME IInv, NEW full \in ScanFull, NEW only \in ScanOnly, BeginScan(full, only)
  PROVE  OInv'
<1> DEFINE accepted == Topmost(cfg.sources)
           known == Watched(db)
<1>1. /\ tx'.history = db.history
      /\ run'.fresh \subseteq accepted \ known
      /\ Watched(tx') = (accepted \cap known) \cup run'.fresh
      /\ \A s \in run'.fresh : tx'.sources[s].status = "active"
      /\ \A s \in accepted \cap known : tx'.sources[s] = db.sources[s]
      /\ \A p \in Path :
           tx'.files[p] = IF db.files[p] # Nil /\ db.files[p].src \notin accepted
                          THEN Nil ELSE db.files[p]
      /\ run'.cmd = "scan" /\ run'.plan \subseteq Watched(tx')
      /\ rep'.alerts = {} /\ rep'.notices = {} /\ pc' = "plan" /\ db' = db
  BY ReconcileTables
<1>2. db \in Database
  BY DEF IInv, Typed, TypeOK
<1> HIDE DEF accepted
<1>3. Missing(tx') = Missing(db) \cap Watched(tx')
  BY <1>1 DEF Missing
<1>4. Announced'
  BY <1>1, <1>3 DEF Announced
<1>5. Appended'
  BY <1>1, <1>2, SameHistory DEF Appended
<1>6. \A s \in known \cap Watched(tx') : s \in accepted
  BY <1>1
<1>7. Spared'
  BY <1>1, <1>6 DEF Spared, Unchanged, Rows
<1>8. Resting' /\ Entered'
  BY <1>1 DEF Resting, Entered, InSource
<1> QED BY <1>4, <1>5, <1>7, <1>8 DEF OInv

\* fmon add watches one more source.
LEMMA AddTables ==
  ASSUME IInv, NEW p \in Path, BeginAdd(p)
  PROVE  /\ tx'.history = db.history /\ tx'.files = db.files /\ tx'.rebuild = db.rebuild
         /\ p \notin Watched(db) /\ Watched(tx') = Watched(db) \cup {p}
         /\ tx'.sources[p].status = "active"
         /\ \A s \in Path \ {p} : tx'.sources[s] = db.sources[s]
         /\ run'.cmd = "add" /\ run'.target = p /\ run'.plan = {p} /\ run'.fresh = {p}
         /\ run'.cfg = cfg /\ pc' = "plan" /\ db' = db
<1> DEFINE found == [s \in {p} |-> At(p).kind]
           e == InsertSources(db, found)
<1>1. db \in Database
  BY DEF IInv, Typed, TypeOK
<1>2. /\ tx' = e /\ DOMAIN found = {p}
      /\ run'.cmd = "add" /\ run'.target = p /\ run'.plan = {p} /\ run'.fresh = {p}
      /\ run'.cfg = cfg /\ pc' = "plan" /\ db' = db
      /\ \A q \in Watched(db) : ~Overlaps(p, q)
  BY DEF BeginAdd
<1> HIDE DEF found
<1>3. /\ e.history = db.history /\ e.files = db.files /\ e.rebuild = db.rebuild
      /\ \A s \in Path : /\ s \in DOMAIN found => e.sources[s].status = "active"
                         /\ s \notin DOMAIN found => e.sources[s] = db.sources[s]
  BY <1>1, <1>2, EnlistStatement
<1>4. Watched(e) = Watched(db) \cup DOMAIN found
  BY <1>1, <1>2, InsertSourcesEffect
<1> HIDE DEF e
<1>5. p \notin Watched(db)
  BY <1>2 DEF Overlaps
<1> QED BY <1>2, <1>3, <1>4, <1>5

\* Another command begins.
LEMMA BeginOtherOInv ==
  ASSUME IInv,
         \/ \E p \in Path : BeginAdd(p) \/ BeginRemove(p)
         \/ \E paths : BeginClear(paths)
         \/ BeginInit
  PROVE  OInv'
<1>1. db \in Database /\ db' = db /\ cfg \in Config
  BY DEF IInv, Typed, TypeOK, BeginAdd, BeginRemove, BeginClear, BeginInit
<1>2. ASSUME NEW p \in Path, BeginAdd(p) PROVE OInv'
  <2>1. /\ tx'.history = db.history /\ tx'.files = db.files
        /\ tx'.sources[p].status = "active"
        /\ run'.cmd = "add" /\ run'.plan = {p} /\ pc' = "plan"
        /\ p \notin Watched(db)
    BY <1>2, AddTables
  <2>2. Appended'
    BY <1>1, <2>1, SameHistory DEF Appended
  <2>3. Spared'
    BY <1>1, <2>1 DEF Spared, Unchanged, Rows
  <2> QED BY <2>1, <2>2, <2>3 DEF OInv, Resting, Announced, Entered, InSource
<1>3. ASSUME NEW p \in Path, BeginRemove(p) PROVE OInv'
  <2>1. tx' = DeleteSources(db, {p}) /\ run' = [NoRun EXCEPT !.cmd = "rm", !.target = p, !.cfg = cfg]
        /\ pc' = "save"
    BY <1>3 DEF BeginRemove
  <2>2. run'.cmd = "rm" /\ run'.plan = {}
    BY <2>1 DEF NoRun
  <2>3. /\ tx'.history = db.history
        /\ \A q \in Path : tx'.files[q] = IF db.files[q] # Nil /\ db.files[q].src \in {p}
                                          THEN Nil ELSE db.files[q]
        /\ Watched(tx') = Watched(db) \ {p}
    BY <1>1, <2>1, DropStatement, DeleteSourcesEffect
  <2>4. Appended'
    BY <1>1, <2>3, SameHistory DEF Appended
  <2>5. Spared'
    BY <1>1, <2>3 DEF Spared, Unchanged, Rows
  <2> QED BY <2>1, <2>2, <2>4, <2>5 DEF OInv, Resting, Announced, Entered, InSource
<1>4. ASSUME NEW paths, BeginClear(paths) PROVE OInv'
  <2>1. tx' = ClearHistory(db, paths) /\ run' = [NoRun EXCEPT !.cmd = "clear", !.cfg = cfg]
        /\ pc' = "commit"
    BY <1>4 DEF BeginClear
  <2>2. run'.cmd = "clear"
    BY <2>1 DEF NoRun
  <2>3. tx'.files = db.files
    BY <1>1, <2>1, ClearHistoryEffect
  <2>4. Spared'
    BY <1>1, <2>3 DEF Spared, Unchanged, Rows
  <2> QED BY <2>1, <2>2, <2>4 DEF OInv, Resting, Appended, Announced, Entered, InSource
<1>5. CASE BeginInit
  <2>1. tx' = EmptyDatabase /\ run' = [NoRun EXCEPT !.cmd = "init", !.cfg = cfg] /\ pc' = "save"
    BY <1>5 DEF BeginInit
  <2>2. run'.cmd = "init"
    BY <2>1 DEF NoRun
  <2>3. Spared'
    BY <2>1, EmptyIsDatabase DEF Spared
  <2> QED BY <2>1, <2>2, <2>3 DEF OInv, Resting, Appended, Announced, Entered, InSource
<1> QED BY <1>2, <1>3, <1>4, <1>5

\* A machine at rest.
LEMMA RestingOInv ==
  ASSUME pc' = "idle", run' = NoRun
  PROVE  OInv'
BY DEF OInv, Resting, Appended, Announced, Entered, Spared, InSource, NoRun

\* Every step keeps the comparison.
LEMMA StepOInv ==
  IInv /\ OInv /\ [Next]_vars => OInv'
<1> SUFFICES ASSUME IInv, OInv, [Next]_vars PROVE OInv'
  OBVIOUS
<1>1. CASE Begin
  BY <1>1, BeginScanOInv, BeginOtherOInv DEF Begin
<1>2. CASE RunStep /\ ~Commit
  BY <1>2, RunStepOInv
<1>3. CASE Commit \/ Abort
  BY <1>3, RestingOInv DEF Commit, Abort, Reset
<1>4. CASE LoseDatabase
  <2>1. pc' = "idle" /\ run' = NoRun
    BY <1>4 DEF LoseDatabase, OInv, Resting
  <2> QED BY <2>1, RestingOInv
<1>5. CASE (\E c \in ConfigChoices : EditConfig(c)) \/ DiskStep
  BY <1>5, StutterOInv DEF EditConfig, DiskStep
<1>6. CASE UNCHANGED vars
  BY <1>6, StutterOInv DEF vars
<1> QED BY <1>1, <1>2, <1>3, <1>4, <1>5, <1>6 DEF Next

\* The comparison holds for ever.
LEMMA ComparisonHolds ==
  Spec => [](IInv /\ OInv)
<1>1. Init => OInv
  BY DEF Init, OInv, Resting, Appended, Announced, Entered, Spared, InSource, NoRun
<1> QED BY <1>1, StepOInv, Invariance, PTL DEF Spec

------------------------------------------------------------------------------
(* The theorems.                                                             *)

\* commands.go:208, scanner.go:485: until it commits, and so by its commit, a
\* scan, an add or an rm takes no record away and changes none, whatever
\* sources it drops and whatever rows it prunes.
THEOREM HistoryOnlyGrows ==
  Spec => []HistorySurvives
<1>1. IInv /\ OInv => HistorySurvives
  <2> SUFFICES ASSUME IInv, OInv, run.cmd \in {"scan", "add", "rm"}, NEW p \in Path
               PROVE  /\ Len(db.history[p]) <= Len(tx.history[p])
                      /\ db.history[p] = SubSeq(tx.history[p], 1, Len(db.history[p]))
    BY DEF HistorySurvives
  <2> DEFINE h == db.history[p]
             t == tx.history[p]
  <2>1. h \in Seq(Event) /\ t \in Seq(Event)
    BY DatabaseFields DEF IInv, Typed, TypeOK
  <2>2. Continues(t, h)
    BY DEF OInv, Appended
  <2> HIDE DEF h, t
  <2>3. Len(h) \in Nat /\ Len(t) \in Nat /\ Len(h) <= Len(t)
    BY <2>1, <2>2, LenProperties DEF Continues
  <2>4. /\ SubSeq(t, 1, Len(h)) \in Seq(Event)
        /\ Len(SubSeq(t, 1, Len(h))) = Len(h)
        /\ \A i \in 1..Len(h) : SubSeq(t, 1, Len(h))[i] = t[i]
    BY <2>1, <2>3
  <2>5. h = SubSeq(t, 1, Len(h))
    BY <2>1, <2>2, <2>4, SeqEqual DEF Continues
  <2> QED BY <2>3, <2>5 DEF h, t
<1> QED BY <1>1, ComparisonHolds, PTL

\* scanner.go:323, 549: for any sequence of outages, interrupted runs and
\* dropped sources, the report of a scan has an ALERT for exactly the sources
\* that were there and are missing now, and a NOTICE for those that are back.
THEOREM OutagesAreAnnounced ==
  Spec => []AlertOncePerOutage
<1>1. OInv => AlertOncePerOutage
  BY DEF OInv, Announced, AlertOncePerOutage, ScanDone, Missing
<1> QED BY <1>1, ComparisonHolds, PTL

\* scanner.go:537: no run that ends with a source missing has changed a row of
\* it, nor stored one.
THEOREM OutagesKeepTheBaseline ==
  Spec => OutageKeepsBaseline
<1> DEFINE Kept == \A s \in Path :
              (/\ db.sources[s] # Nil
               /\ db'.sources[s] # Nil
               /\ db'.sources[s].status = "missing")
                 => \A p \in Rows(db, s) \cup Rows(db', s) : db'.files[p] = db.files[p]
<1>1. IInv /\ OInv /\ [Next]_vars => [Kept]_db
  <2> SUFFICES ASSUME IInv, OInv, [Next]_vars, db' # db PROVE Kept
    OBVIOUS
  <2>1. CASE Commit
    <3>1. db' = tx /\ pc = "commit"
      BY <2>1 DEF Commit
    <3> QED BY <3>1 DEF OInv, Spared, Unchanged, Missing, Watched
  <2>2. CASE LoseDatabase
    BY <2>2, LoseDatabaseEffect DEF IInv, Watched
  <2>3. db' = db \/ Commit \/ LoseDatabase
    BY BeginEffect, RunStepMoves, OutsideEffect, AbortEffect
       DEF IInv, Next, Onward, vars, runVars
  <2> QED BY <2>1, <2>2, <2>3
<1> HIDE DEF Kept
<1>2. Spec => [][Kept]_db
  BY <1>1, ComparisonHolds, PTL DEF Spec
<1> QED BY <1>2 DEF OutageKeepsBaseline, Kept

------------------------------------------------------------------------------
(* What the new records of a run say.                                        *)

\* The runs that look at the disk, and the part of a run in which they do.
Comparing == pc # "idle" /\ run.cmd \in {"scan", "add"}
Scanning == pc \in {"plan"} \cup InSource

\* The sources this run has found missing.
Lapsed == Missing(tx) \ Missing(db)

\* The row of p after reconcile.
Base(p) == IF Dropped(p) THEN Nil ELSE db.files[p]

\* The run has not touched p yet.
Untouched(p) == tx.history[p] = db.history[p] /\ tx.files[p] = Base(p)

\* The record of a hash that changed from old to new.
Changed(old, new) ==
  [event |-> IF old = Nil THEN "ADDED" ELSE IF new = Nil THEN "DELETED" ELSE "MODIFIED",
   old |-> old, new |-> new]

\* The new records of p explain its row: none, the one of an outage, or the one
\* of the change.
Unrecorded(p) ==
  /\ tx.history[p] = db.history[p]
  /\ Silent(p) \/ (HashOf(db, p) = HashOf(tx, p) /\ p \notin Lapsed)

\* The one new record is that of a root found missing; its row stays, or is dropped.
Outage(p) ==
  /\ tx.history[p] = db.history[p] \o <<MissingRecord>>
  /\ p \in Lapsed
  /\ HashOf(db, p) = HashOf(tx, p) \/ (HashOf(tx, p) = Nil /\ Dropped(p))

\* The new record of a path that was compared.
Recorded(p) ==
  /\ tx.history[p] = db.history[p] \o <<Changed(HashOf(db, p), HashOf(tx, p))>>
  /\ HashOf(db, p) # HashOf(tx, p)

ExplainedAt(p) == Unrecorded(p) \/ Outage(p) \/ Recorded(p)

\* Every path is explained at every point of a run.
Explained == Comparing => \A p \in Path : ExplainedAt(p)

\* Which run it is, and where its sources come from.
Sourced ==
  /\ Scanning => run.cmd \in {"scan", "add"} /\ tx.rebuild = db.rebuild
  /\ Comparing =>
       /\ Watched(tx) \subseteq Watched(db) \cup run.fresh
       /\ run.fresh \subseteq Watched(tx) \ Watched(db)

\* What is planned is untouched.
Ahead ==
  Comparing =>
    \A s \in run.plan :
      /\ s \in Missing(tx) <=> s \in Missing(db)
      /\ \A p \in Tree(s) : Untouched(p)

\* What the walk has not seen is untouched, and so is the file being hashed.
Around ==
  pc \in InSource =>
    \A p \in Tree(walk.src) :
      p \notin walk.seen \/ (pc = "hash" /\ p = walk.file.path) => Untouched(p)

\* The walk comes to no path twice: the trees it is still to visit are apart
\* from each other, and it has seen nothing of them.
Fresh(i) == Tree(i.path) \cap walk.seen = {}

Visits ==
  /\ pc = "root" => walk.todo = {} /\ walk.seen = {}
  /\ pc \in {"walk", "hash"} =>
       /\ \A i \in walk.todo : Fresh(i)
       /\ \A i, j \in walk.todo : i # j => Tree(i.path) \cap Tree(j.path) = {}
  /\ pc = "hash" => walk.file.path \in walk.seen

\* The invariant of the second half of this module.
RInv == Sourced /\ Ahead /\ Around /\ Visits /\ Explained

------------------------------------------------------------------------------
(* What a step of a run leaves as it was.                                    *)

\* Two watched sources share no path.
LEMMA TreesApart ==
  ASSUME NEW d, Owned(d), NEW s \in Watched(d), NEW t \in Watched(d), s # t
  PROVE  Tree(s) \cap Tree(t) = {}
<1>1. ~Overlaps(s, t) /\ s \in Path /\ t \in Path
  BY DEF Owned, Watched
<1> QED BY <1>1, PathsFormATree DEF Overlaps, Within, Tree

\* A path whose row and records stay is as untouched as it was.
LEMMA UntouchedKept ==
  ASSUME Onward, NEW p \in Path,
         tx'.files[p] = tx.files[p], tx'.history[p] = tx.history[p], Untouched(p)
  PROVE  Untouched(p)'
BY DEF Onward, Untouched, Base, Dropped

\* And as well explained, unless its own source turns missing or returns.
LEMMA ExplainedKept ==
  ASSUME Onward, NEW p \in Path,
         tx'.files[p] = tx.files[p], tx'.history[p] = tx.history[p],
         p \in Lapsed' <=> p \in Lapsed, ExplainedAt(p)
  PROVE  ExplainedAt(p)'
<1>1. HashOf(tx', p) = HashOf(tx, p) /\ HashOf(db', p) = HashOf(db, p)
  BY DEF HashOf, Onward
<1>2. (Dropped(p)' <=> Dropped(p)) /\ (Silent(p)' <=> Silent(p))
  BY DEF Dropped, Silent, Match, Onward
<1> QED BY <1>1, <1>2 DEF ExplainedAt, Unrecorded, Outage, Recorded, Onward

\* The run is still the same.
LEMMA SourcedStep ==
  ASSUME Sourced, Onward, Scanning' => Scanning /\ ~EndScan
  PROVE  Sourced'
BY DEF Sourced, Onward, Comparing

\* Nothing happens to what is still planned.
LEMMA AheadStep ==
  ASSUME Ahead, Onward, run'.plan \subseteq Path,
         \A s \in run'.plan :
           /\ s \in Missing(tx') <=> s \in Missing(tx)
           /\ \A p \in Tree(s) : tx'.files[p] = tx.files[p] /\ tx'.history[p] = tx.history[p]
  PROVE  Ahead'
<1> SUFFICES ASSUME Comparing, NEW s \in run'.plan
             PROVE  /\ s \in Missing(tx') <=> s \in Missing(db')
                    /\ \A p \in Tree(s) : Untouched(p)'
  BY DEF Ahead, Comparing, Onward
<1>1. s \in run.plan /\ Tree(s) \subseteq Path
  BY PathsFormATree DEF Onward, Tree
<1> QED BY <1>1, UntouchedKept DEF Ahead, Onward

\* What the step does not touch stays explained.
LEMMA ExplainedStep ==
  ASSUME Explained, Onward,
         \A p \in Path : \/ ExplainedAt(p)'
                         \/ /\ tx'.files[p] = tx.files[p] /\ tx'.history[p] = tx.history[p]
                            /\ p \in Lapsed' <=> p \in Lapsed
  PROVE  Explained'
BY ExplainedKept DEF Explained, Comparing, Onward

\* A step that keeps sources, rows and records, and after which no source is
\* being scanned.
LEMMA IdleStep ==
  ASSUME Sourced, Ahead, Explained, Onward, run.plan \subseteq Path,
         tx'.sources = tx.sources, tx'.files = tx.files, tx'.history = tx.history,
         pc' \notin InSource, pc' = "plan" => Scanning
  PROVE  RInv'
<1>1. Missing(tx') = Missing(tx) /\ Lapsed' = Lapsed
  BY DEF Missing, Lapsed, Watched, Onward
<1>2. Sourced'
  BY SourcedStep DEF Scanning, EndScan
<1>3. Ahead'
  BY <1>1, AheadStep DEF Onward
<1>4. Explained'
  BY <1>1, ExplainedStep
<1>5. Around' /\ Visits'
  BY DEF Around, Visits, InSource
<1> QED BY <1>2, <1>3, <1>4, <1>5 DEF RInv

------------------------------------------------------------------------------
(* The walk.                                                                 *)

\* The entries of one directory, and their trees, are apart.
LEMMA EntriesApart ==
  ASSUME NEW p \in Path, NEW entries \in SUBSET Children(p)
  PROVE  /\ \A i \in Listed(entries) : i.path \in Below[p] /\ Tree(i.path) \subseteq Tree(p)
         /\ \A i, j \in Listed(entries) : i # j => Tree(i.path) \cap Tree(j.path) = {}
<1>1. Children(p) \subseteq Below[p] /\ Below[p] \subseteq Path
  BY PathsFormATree DEF Children
<1>2. \A i \in Listed(entries) : /\ i.path \in Children(p)
                                 /\ i = [path |-> i.path, kind |-> At(i.path).kind]
  BY DEF Listed
<1>3. ASSUME NEW c \in Children(p) PROVE Tree(c) \subseteq Tree(p)
  BY <1>1, <1>3, PathsFormATree DEF Tree
<1>4. ASSUME NEW b \in Children(p), NEW c \in Children(p), b # c
      PROVE  Tree(b) \cap Tree(c) = {}
  <2>1. b \notin Below[c] /\ c \notin Below[b]
    BY <1>1, <1>4 DEF Children, Within
  <2> QED BY <1>1, <1>4, <2>1, PathsFormATree DEF Tree
<1> QED BY <1>1, <1>2, <1>3, <1>4

\* An item is visited, and replaced by items inside it or marked as seen.
LEMMA VisitStep ==
  ASSUME Visits, pc = "walk", NEW i \in walk.todo, NEW more,
         \A j \in more : Tree(j.path) \subseteq Tree(i.path),
         \A j, k \in more : j # k => Tree(j.path) \cap Tree(k.path) = {},
         walk'.todo = (walk.todo \ {i}) \cup more,
         \/ walk'.seen = walk.seen
         \/ walk'.seen = walk.seen \cup {i.path} /\ more = {}
  PROVE  /\ \A j \in walk'.todo : Fresh(j)'
         /\ \A j, k \in walk'.todo : j # k => Tree(j.path) \cap Tree(k.path) = {}
<1>1. /\ \A j \in walk.todo : Tree(j.path) \cap walk.seen = {}
      /\ \A j, k \in walk.todo : j # k => Tree(j.path) \cap Tree(k.path) = {}
  BY DEF Visits, Fresh
<1>2. \A j \in walk.todo \ {i}, k \in more : Tree(j.path) \cap Tree(k.path) = {}
  BY <1>1
<1>3. \A j, k \in walk'.todo : j # k => Tree(j.path) \cap Tree(k.path) = {}
  BY <1>1, <1>2
<1>4. i.path \in Tree(i.path)
  BY DEF Tree
<1>5. ASSUME NEW j \in walk'.todo PROVE Tree(j.path) \cap walk'.seen = {}
  <2>1. CASE walk'.seen = walk.seen
    BY <1>1, <1>5, <2>1
  <2>2. CASE walk'.seen = walk.seen \cup {i.path} /\ more = {}
    BY <1>1, <1>4, <1>5, <2>2
  <2> QED BY <2>1, <2>2
<1> QED BY <1>3, <1>5 DEF Fresh

\* A step of the walk that only looks keeps everything but where the walk is.
LEMMA LookStep ==
  ASSUME RInv, Onward, run.plan \subseteq Path,
         pc \in InSource, pc' \in {"walk", "hash"},
         UNCHANGED <<tx, run>>, walk'.src = walk.src, walk.seen \subseteq walk'.seen,
         pc' = "hash" => Untouched(walk'.file.path)
  PROVE  Sourced' /\ Ahead' /\ Around' /\ Explained'
<1>1. Missing(tx') = Missing(tx) /\ Lapsed' = Lapsed
  BY DEF Lapsed, Onward
<1>2. Sourced'
  BY SourcedStep DEF RInv, Scanning, EndScan, InSource
<1>3. Ahead'
  BY <1>1, AheadStep DEF RInv
<1>4. Explained'
  BY <1>1, ExplainedStep DEF RInv
<1>5. \A p : Untouched(p)' <=> Untouched(p)
  BY DEF Untouched, Base, Dropped, Onward
<1>6. Around'
  BY <1>5 DEF RInv, Around, InSource
<1> QED BY <1>2, <1>3, <1>4, <1>6

\* RootLost and RootFound
LEMMA RootRInv ==
  ASSUME IInv, RInv, RootLost \/ RootFound
  PROVE  RInv'
<1>1. walk \in Walk /\ Typed /\ run.plan \subseteq Path /\ pc = "root" /\ pc' = "walk"
  BY DEF IInv, Typed, TypeOK, Run, RootLost, RootFound
<1>2. Onward
  BY <1>1, QuietStep
<1>3. walk.todo = {} /\ walk.seen = {}
  BY <1>1 DEF RInv, Visits
<1>4. /\ UNCHANGED <<tx, run>> /\ walk'.src = walk.src /\ walk'.seen = {}
      /\ \A i, j \in walk'.todo : i.path = j.path /\ i.kind = j.kind /\ i = j
  BY <1>1, <1>3 DEF RootLost, RootFound, Walk
<1>5. Sourced' /\ Ahead' /\ Around' /\ Explained'
  BY <1>1, <1>2, <1>3, <1>4, LookStep DEF InSource
<1>6. Visits'
  BY <1>1, <1>4 DEF Visits, Fresh
<1> QED BY <1>5, <1>6 DEF RInv

\* ListDirectory, ListingFails, EntryVanished, EntryUnreadable and CheckFile
LEMMA EntryRInv ==
  ASSUME IInv, RInv, NEW i \in walk.todo, EntryStep(i)
  PROVE  RInv'
<1>1. /\ walk \in Walk /\ Typed /\ run.plan \subseteq Path /\ pc = "walk"
      /\ i \in Item /\ i.path \in Path /\ i.path \in Tree(walk.src) /\ i.path \in Tree(i.path)
  BY DEF IInv, Typed, TypeOK, RunInside, Run, Walk, Item, Tree, EntryStep, ListDirectory,
         ListingFails, EntryVanished, EntryUnreadable, CheckFile
<1>2. Onward
  BY <1>1, QuietStep
<1>3. UNCHANGED <<tx, run>> /\ walk'.src = walk.src /\ pc' \in {"walk", "hash"}
  BY <1>1 DEF EntryStep, ListDirectory, ListingFails, EntryVanished, EntryUnreadable,
              CheckFile, Walk
<1>4. \E more :
        /\ \A j \in more : Tree(j.path) \subseteq Tree(i.path)
        /\ \A j, k \in more : j # k => Tree(j.path) \cap Tree(k.path) = {}
        /\ walk'.todo = (walk.todo \ {i}) \cup more
        /\ \/ walk'.seen = walk.seen
           \/ walk'.seen = walk.seen \cup {i.path} /\ more = {}
  <2>1. CASE ListDirectory(i) \/ ListingFails(i)
    <3>1. PICK entries \in SUBSET Children(i.path) :
            /\ walk'.todo = (walk.todo \ {i}) \cup Listed(entries)
            /\ walk'.seen = walk.seen
      <4>1. CASE ListDirectory(i)
        BY <1>1, <4>1 DEF ListDirectory, Walk
      <4>2. CASE ListingFails(i)
        BY <1>1, <4>2 DEF ListingFails, Walk
      <4> QED BY <2>1, <4>1, <4>2
    <3>2. /\ \A j \in Listed(entries) : Tree(j.path) \subseteq Tree(i.path)
          /\ \A j, k \in Listed(entries) : j # k => Tree(j.path) \cap Tree(k.path) = {}
      BY <1>1, EntriesApart
    <3> QED BY <3>1, <3>2
  <2>2. CASE EntryVanished(i) \/ EntryUnreadable(i) \/ CheckFile(i)
    <3>1. /\ walk'.todo = (walk.todo \ {i}) \cup {}
          /\ walk'.seen = walk.seen \/ walk'.seen = walk.seen \cup {i.path}
      <4>1. CASE EntryVanished(i)
        BY <1>1, <4>1 DEF EntryVanished, Walk
      <4>2. CASE EntryUnreadable(i)
        BY <1>1, <4>2 DEF EntryUnreadable, Walk
      <4>3. CASE CheckFile(i)
        BY <1>1, <4>3 DEF CheckFile, Walk
      <4> QED BY <2>2, <4>1, <4>2, <4>3
    <3> QED BY <3>1
  <2> QED BY <2>1, <2>2 DEF EntryStep
<1>5. pc' = "hash" => walk'.file.path = i.path /\ i.path \in walk'.seen
  <2>1. CASE CheckFile(i)
    BY <1>1, <2>1 DEF CheckFile, StatOf, Walk
  <2>2. CASE ~CheckFile(i)
    BY <2>2 DEF EntryStep, ListDirectory, ListingFails, EntryVanished, EntryUnreadable
  <2> QED BY <2>1, <2>2
<1>6. i.path \notin walk.seen
  BY <1>1 DEF RInv, Visits, Fresh
<1>7. Untouched(i.path)
  BY <1>1, <1>6 DEF RInv, Around, InSource
<1>8. Sourced' /\ Ahead' /\ Around' /\ Explained'
  <2>1. pc' = "hash" => Untouched(walk'.file.path)
    BY <1>5, <1>7
  <2>2. walk.seen \subseteq walk'.seen
    BY <1>4
  <2> QED BY <1>1, <1>2, <1>3, <2>1, <2>2, LookStep DEF InSource
<1>9. /\ \A j \in walk'.todo : Fresh(j)'
      /\ \A j, k \in walk'.todo : j # k => Tree(j.path) \cap Tree(k.path) = {}
  BY <1>1, <1>4, VisitStep DEF RInv
<1>10. Visits'
  BY <1>3, <1>5, <1>9 DEF Visits
<1> QED BY <1>8, <1>10 DEF RInv

------------------------------------------------------------------------------
(* The sources of the plan, and the files that are stored or taken away.     *)

\* A planned source is untouched, and apart from all others.
LEMMA PlannedTree ==
  ASSUME IInv, RInv, Comparing, NEW s \in run.plan
  PROVE  /\ s \in Watched(tx) /\ s \in Path
         /\ \A p \in Tree(s) : p \in Path /\ Untouched(p)
         /\ s \in Tree(s)
         /\ \A t \in run.plan \ {s} : s \notin Tree(t)
<1>1. run.plan \subseteq Watched(tx) /\ s \in Path
  BY DEF IInv, Typed, RunInside, Watched
<1>2. \A t \in run.plan \ {s} : Tree(s) \cap Tree(t) = {}
  BY <1>1, TreesApart DEF IInv
<1> QED BY <1>1, <1>2, PathsFormATree DEF RInv, Ahead, Tree

\* SourceMissing
LEMMA MissingRInv ==
  ASSUME IInv, RInv, NEW s \in run.plan, SourceMissing(s)
  PROVE  RInv'
<1>1. Typed /\ run.plan \subseteq Path /\ pc = "plan" /\ pc' = "plan"
      /\ tx \in Database /\ db \in Database
  BY DEF IInv, Typed, TypeOK, Run, SourceMissing
<1>2. Onward /\ ((Quiet /\ s \in Missing(tx)) \/ Vanishes(s))
  BY <1>1, MissingStep
<1>3. Scanning /\ Comparing
  BY <1>1 DEF Scanning, RInv, Sourced, Comparing
<1>4. CASE Quiet
  BY <1>1, <1>2, <1>3, <1>4, IdleStep DEF Quiet, RInv, InSource
<1>5. CASE Vanishes(s)
  <2>1. /\ s \in Watched(tx) /\ s \in Path /\ Untouched(s)
        /\ \A t \in run.plan \ {s} : s \notin Tree(t)
        /\ s \notin Missing(tx) /\ s \notin Missing(db)
    BY <1>3, <1>5, PlannedTree DEF RInv, Ahead, Vanishes, Tree
  <2>2. Sourced'
    BY <1>1, <1>2, <1>3, SourcedStep DEF RInv, EndScan
  <2>3. Lapsed' = Lapsed \cup {s} /\ \A t \in Path \ {s} : t \in Missing(tx') <=> t \in Missing(tx)
    BY <1>2, <1>5, <2>1 DEF Lapsed, Vanishes, Onward
  <2>4. Ahead'
    <3> SUFFICES ASSUME NEW t \in run'.plan
                 PROVE  /\ t \in Missing(tx') <=> t \in Missing(tx)
                        /\ \A p \in Tree(t) : tx'.files[p] = tx.files[p]
                                              /\ tx'.history[p] = tx.history[p]
      BY <1>1, <1>2, AheadStep DEF RInv, Onward
    <3>1. t \in run.plan \ {s} /\ t \in Path /\ Tree(t) \subseteq Path
      BY <1>1, <1>5, PathsFormATree DEF Vanishes, Tree
    <3> QED BY <1>5, <2>1, <2>3, <3>1 DEF Vanishes
  <2>5. ExplainedAt(s)'
    <3>1. tx'.history[s] = db'.history[s] \o <<MissingRecord>>
      BY <1>2, <1>5, <2>1 DEF Vanishes, Untouched, Onward
    <3>2. HashOf(tx', s) = HashOf(tx, s) /\ HashOf(db', s) = HashOf(db, s)
      BY <1>2, <1>5 DEF HashOf, Vanishes, Onward
    <3>3. Dropped(s)' <=> Dropped(s)
      BY <1>2 DEF Dropped, Onward
    <3>4. HashOf(db, s) = HashOf(tx, s) \/ (HashOf(tx, s) = Nil /\ Dropped(s))
      BY <2>1 DEF Untouched, Base, HashOf
    <3> QED BY <2>3, <3>1, <3>2, <3>3, <3>4 DEF ExplainedAt, Outage
  <2>6. Explained'
    BY <1>2, <1>5, <2>3, <2>5, ExplainedStep DEF RInv, Vanishes
  <2> QED BY <1>1, <2>2, <2>4, <2>6 DEF RInv, Around, Visits, InSource
<1> QED BY <1>2, <1>4, <1>5

\* SourceReplaced, OpenFolder and OpenFile
LEMMA StandingRInv ==
  ASSUME IInv, RInv, NEW s \in run.plan, SourceReplaced(s) \/ OpenFolder(s) \/ OpenFile(s)
  PROVE  RInv'
<1>1. Typed /\ run.plan \subseteq Path /\ pc = "plan"
      /\ pc' \in {"plan", "root", "hash"}
  BY DEF IInv, Typed, TypeOK, Run, SourceReplaced, OpenFolder, OpenFile
<1>2. Onward /\ Stands(s)
  BY <1>1, StandingStep
<1>3. Scanning /\ Comparing
  BY <1>1 DEF Scanning, RInv, Sourced, Comparing
<1>4. /\ s \in Watched(tx) /\ s \in Path /\ s \in Tree(s)
      /\ \A p \in Tree(s) : p \in Path /\ Untouched(p)
      /\ s \in Missing(tx) <=> s \in Missing(db)
  BY <1>3, PlannedTree DEF RInv, Ahead
<1>5. Lapsed' = Lapsed /\ \A t \in Path \ {s} : t \in Missing(tx') <=> t \in Missing(tx)
  BY <1>2, <1>4 DEF Lapsed, Stands, Onward
<1>6. tx'.files = tx.files /\ tx'.history = tx.history /\ run'.plan = run.plan \ {s}
  BY <1>2 DEF Stands
<1>7. Sourced'
  BY <1>1, <1>2, <1>3, SourcedStep DEF RInv, EndScan
<1>8. Ahead'
  BY <1>1, <1>2, <1>5, <1>6, AheadStep DEF RInv
<1>9. Explained'
  BY <1>2, <1>5, <1>6, ExplainedStep DEF RInv
<1>10. pc' \in InSource => walk'.src = s
  BY <1>2 DEF Stands
<1>11. \A p \in Tree(s) : Untouched(p)'
  BY <1>2, <1>4, <1>6, UntouchedKept
<1>12. Around'
  BY <1>10, <1>11 DEF Around
<1>13. /\ pc' # "walk"
       /\ pc' = "root" => walk'.todo = {} /\ walk'.seen = {}
       /\ pc' = "hash" => walk'.todo = {} /\ walk'.seen = {s} /\ walk'.file.path = s
  <2>1. CASE OpenFolder(s) \/ SourceReplaced(s)
    BY <1>1, <2>1 DEF OpenFolder, SourceReplaced, NoWalk
  <2>2. CASE OpenFile(s)
    <3>1. \/ pc' = pc
          \/ pc' = "hash" /\ walk' = [NoWalk EXCEPT !.src = s, !.seen = {s}, !.file = StatOf(s)]
      BY <2>2 DEF OpenFile
    <3>2. StatOf(s).path = s
      BY DEF StatOf
    <3> QED BY <1>1, <3>1, <3>2 DEF NoWalk
  <2> QED BY <2>1, <2>2
<1>14. Visits'
  BY <1>13 DEF Visits
<1> QED BY <1>7, <1>8, <1>9, <1>12, <1>14 DEF RInv

\* HashFile: the record of the hashed file is that of its change.
LEMMA HashRInv ==
  ASSUME IInv, OInv, RInv, HashFile
  PROVE  RInv'
<1> SUFFICES ASSUME NEW p, NEW s, p = walk.file.path, s = walk.src
             PROVE  RInv'
  OBVIOUS
<1>1. /\ Typed /\ Owned(tx) /\ Owned(db) /\ pc = "hash" /\ walk \in Walk
      /\ tx \in Database /\ db \in Database /\ walk.file \in Stat
      /\ s \in Watched(tx) /\ p \in Tree(s) /\ s \in Path /\ p \in Path
      /\ run.plan \subseteq Watched(tx) /\ Watched(tx) \subseteq Path
      /\ p \in walk.seen
  BY DEF IInv, Typed, TypeOK, RunInside, HashFile, Watched, Stat, RInv, Visits
<1>2. Onward
  BY <1>1, HashStep
<1>3. Scanning /\ Comparing /\ tx.rebuild = db.rebuild
  BY <1>1 DEF Scanning, InSource, RInv, Sourced, Comparing
<1>4. PICK sum \in Content :
        /\ tx'.sources = tx.sources
        /\ \A q \in Path : tx'.history[q] = IF q = p THEN tx.history[q] \o CheckEvents(p, sum)
                                            ELSE tx.history[q]
        /\ tx'.files = [tx.files EXCEPT ![p] =
             [src |-> s, hash |-> sum,
              size |-> walk.file.size, mtime |-> walk.file.mtime]]
        /\ tx.files[p] = Nil \/ tx.files[p].src = s
  BY <1>1, HashTables
<1>5. Untouched(p)
  BY <1>1 DEF RInv, Around, InSource
<1>6. /\ pc' \in {"plan", "walk"}
      /\ pc' = "walk" => walk'.src = s /\ walk'.seen = walk.seen /\ walk'.todo = walk.todo
  BY <1>1 DEF HashFile, AfterFile, Walk
<1>7. s \notin run.plan \cup Missing(tx)
  BY <1>1 DEF OInv, Entered, InSource
<1>8. /\ \A q \in Path \ {p} : tx'.files[q] = tx.files[q] /\ tx'.history[q] = tx.history[q]
      /\ tx'.files[p] # Nil /\ tx'.files[p].hash = sum
      /\ tx'.history[p] = db.history[p] \o CheckEvents(p, sum)
  <2>1. [src |-> s, hash |-> sum, size |-> walk.file.size, mtime |-> walk.file.mtime] \in FileState
    BY <1>1 DEF FileState, Stat
  <2>2. tx.files \in [Path -> FileState \cup {Nil}]
    BY <1>1, DatabaseFields
  <2>3. tx'.files[p] # Nil /\ tx'.files[p].hash = sum
    BY <1>1, <1>4, <2>1, <2>2, NilIsNoRow
  <2>4. \A q \in Path \ {p} : tx'.files[q] = tx.files[q]
    BY <1>4, <2>2
  <2> QED BY <1>1, <1>4, <1>5, <2>3, <2>4 DEF Untouched
<1>9. Missing(tx') = Missing(tx) /\ Lapsed' = Lapsed
  BY <1>2, <1>4 DEF Missing, Lapsed, Onward, Watched
<1>10. Sourced'
  BY <1>2, <1>3, <1>6, SourcedStep DEF RInv, EndScan
<1>11. Ahead'
  <2> SUFFICES ASSUME NEW t \in run'.plan
               PROVE  \A q \in Tree(t) : tx'.files[q] = tx.files[q]
                                         /\ tx'.history[q] = tx.history[q]
    BY <1>1, <1>2, <1>9, AheadStep DEF RInv, Onward
  <2>1. t \in Watched(tx) /\ t \in Path /\ t # s
    BY <1>1, <1>2, <1>7 DEF Onward
  <2>2. p \notin Tree(t)
    BY <1>1, <2>1, TreesApart
  <2>3. Tree(t) \subseteq Path
    BY <2>1, PathsFormATree DEF Tree
  <2> QED BY <1>8, <2>2, <2>3
<1>12. Around'
  <2> SUFFICES ASSUME pc' = "walk", NEW q \in Tree(s), q \notin walk.seen
               PROVE  Untouched(q)'
    BY <1>6 DEF Around, InSource
  <2>1. q \in Path /\ q # p
    BY <1>1, PathsFormATree DEF Tree
  <2>2. Untouched(q)
    BY <1>1 DEF RInv, Around, InSource
  <2> QED BY <1>2, <1>8, <2>1, <2>2, UntouchedKept
<1>13. Visits'
  BY <1>1, <1>6 DEF RInv, Visits, Fresh
<1>14. p \notin Lapsed
  <2> SUFFICES ASSUME p \in Missing(tx) PROVE FALSE
    BY DEF Lapsed
  <2>1. p \in Watched(tx) /\ p # s /\ p \in Tree(p)
    BY <1>7 DEF Missing, Tree
  <2> QED BY <1>1, <2>1, TreesApart
<1>15. HashOf(tx', p) = sum /\ HashOf(db', p) = HashOf(db, p)
  BY <1>2, <1>8 DEF HashOf, Onward
<1>16. sum # Nil
  BY DiskConstants
<1>17. ExplainedAt(p)'
  <2>1. CASE Known(tx, s, p)
    <3>1. tx.files[p] # Nil /\ db.files[p] = tx.files[p]
      BY <1>5, <2>1 DEF Known, Rows, Untouched, Base
    <3>2. HashOf(db, p) = tx.files[p].hash
      BY <3>1 DEF HashOf
    <3>3. tx.files[p].hash # Nil
      BY <1>1, <3>1, DatabaseFields, DiskConstants DEF FileState
    <3>4. CASE tx.files[p].hash = sum
      <4>1. CheckEvents(p, sum) = <<>>
        BY <2>1, <3>4 DEF CheckEvents
      <4>2. tx'.history[p] = db'.history[p]
        <5>1. db.history[p] \in Seq(Event)
          BY <1>1, DatabaseFields
        <5> QED BY <1>2, <1>8, <4>1, <5>1 DEF Onward
      <4> QED BY <1>9, <1>14, <1>15, <3>2, <3>4, <4>2 DEF ExplainedAt, Unrecorded
    <3>5. CASE tx.files[p].hash # sum
      <4>1. CheckEvents(p, sum) = <<Changed(HashOf(db, p), sum)>>
        BY <1>16, <2>1, <3>2, <3>3, <3>5 DEF CheckEvents, Modified, Changed
      <4> QED BY <1>2, <1>8, <1>15, <3>2, <3>5, <4>1 DEF ExplainedAt, Recorded, Onward
    <3> QED BY <3>4, <3>5
  <2>2. CASE ~Known(tx, s, p)
    <3>1. tx.files[p] = Nil
      BY <1>1, <1>4, <2>2 DEF Known, Rows
    <3>2. CASE Baseline(s)
      <4>1. CheckEvents(p, sum) = <<>>
        BY <2>2, <3>2 DEF CheckEvents
      <4>2. tx'.history[p] = db'.history[p]
        <5>1. db.history[p] \in Seq(Event)
          BY <1>1, DatabaseFields
        <5> QED BY <1>2, <1>8, <4>1, <5>1 DEF Onward
      <4>3. Silent(p)'
        BY <1>1, <1>2, <1>3, <3>2 DEF Baseline, Silent, Onward
      <4> QED BY <4>2, <4>3 DEF ExplainedAt, Unrecorded
    <3>3. CASE ~Baseline(s)
      <4>1. s \in Watched(db)
        BY <1>1, <1>3, <3>3 DEF RInv, Sourced, Baseline
      <4>2. HashOf(db, p) = Nil
        <5> SUFFICES ASSUME db.files[p] # Nil PROVE FALSE
          BY DEF HashOf
        <5>1. db.files[p].src \in Watched(db) /\ p \in Tree(db.files[p].src)
          BY <1>1 DEF Owned
        <5>2. db.files[p].src = s
          BY <1>1, <4>1, <5>1, TreesApart
        <5> QED BY <1>1, <1>5, <3>1, <5>2 DEF Untouched, Base, Dropped
      <4>3. CheckEvents(p, sum) = <<Changed(HashOf(db, p), sum)>>
        BY <1>16, <2>2, <3>3, <4>2 DEF CheckEvents, Added, Changed
      <4> QED BY <1>2, <1>8, <1>15, <1>16, <4>2, <4>3 DEF ExplainedAt, Recorded, Onward
    <3> QED BY <3>2, <3>3
  <2> QED BY <2>1, <2>2
<1>18. Explained'
  BY <1>2, <1>8, <1>9, <1>17, ExplainedStep DEF RInv
<1> QED BY <1>10, <1>11, <1>12, <1>13, <1>18 DEF RInv

\* HashFails
LEMMA HashFailsRInv ==
  ASSUME IInv, RInv, HashFails
  PROVE  RInv'
<1>1. /\ Typed /\ pc = "hash" /\ walk \in Walk /\ run.plan \subseteq Path
  BY DEF IInv, Typed, TypeOK, Run, HashFails
<1>2. Onward
  BY <1>1, QuietStep
<1>3. UNCHANGED <<tx, run>>
  BY DEF HashFails
<1>4. CASE pc' = "plan"
  BY <1>1, <1>2, <1>3, <1>4, IdleStep DEF RInv, Scanning, InSource
<1>5. CASE pc' # "plan"
  <2>1. /\ pc' = "walk" /\ walk'.src = walk.src
        /\ walk'.seen = walk.seen /\ walk'.todo = walk.todo
    BY <1>1, <1>5 DEF HashFails, AfterFile, Walk
  <2>2. Sourced' /\ Ahead' /\ Around' /\ Explained'
    BY <1>1, <1>2, <1>3, <2>1, LookStep DEF InSource
  <2>3. Visits'
    BY <1>1, <2>1 DEF RInv, Visits, Fresh
  <2> QED BY <2>2, <2>3 DEF RInv
<1> QED BY <1>4, <1>5

\* FinishFolder: the record of a row that goes is that of a deletion, unless
\* its file is excluded or its source is being baselined.
LEMMA FinishRInv ==
  ASSUME IInv, OInv, RInv, FinishFolder
  PROVE  RInv'
<1>1. /\ Typed /\ Owned(tx) /\ pc = "walk" /\ pc' = "plan"
      /\ tx \in Database /\ db \in Database /\ walk.src \in Watched(tx) /\ walk.src \in Path
      /\ run.plan \subseteq Watched(tx) /\ Watched(tx) \subseteq Path
  BY DEF IInv, Typed, TypeOK, RunInside, FinishFolder, Watched
<1>2. Onward
  BY <1>1, FinishStep
<1>3. Scanning /\ Comparing /\ tx.rebuild = db.rebuild
  BY <1>1 DEF Scanning, InSource, RInv, Sourced, Comparing
<1> DEFINE lost == Lost(tx)
<1>4. /\ \A p \in lost : p \in Path /\ tx.files[p].src = walk.src /\ tx.files[p].hash \in Content
      /\ tx'.sources = tx.sources
      /\ \A p \in Path : tx'.history[p] =
           IF p \in Reported(lost) THEN tx.history[p] \o <<Deleted(tx.files[p].hash)>>
           ELSE tx.history[p]
      /\ \A p \in Path : tx'.files[p] = IF p \in lost THEN Nil ELSE tx.files[p]
  BY <1>1, FinishTables
<1>5. walk.src \notin run.plan
  BY <1>1 DEF OInv, Entered, InSource
<1>6. \A p \in lost : tx.files[p] # Nil /\ p \in Tree(walk.src) /\ p \notin walk.seen
  BY <1>1 DEF Lost, Rows, Owned
<1>7. \A p \in lost : Untouched(p)
  BY <1>1, <1>6 DEF RInv, Around, InSource
<1>8. Reported(lost) \subseteq lost
  BY DEF Reported
<1>9. \A p \in Path \ lost : tx'.files[p] = tx.files[p] /\ tx'.history[p] = tx.history[p]
  BY <1>4, <1>8
<1>10. Missing(tx') = Missing(tx) /\ Lapsed' = Lapsed
  BY <1>2, <1>4 DEF Missing, Lapsed, Onward, Watched
<1>11. Sourced'
  BY <1>1, <1>2, <1>3, SourcedStep DEF RInv, EndScan
<1>12. Ahead'
  <2> SUFFICES ASSUME NEW t \in run'.plan
               PROVE  \A q \in Tree(t) : tx'.files[q] = tx.files[q]
                                         /\ tx'.history[q] = tx.history[q]
    BY <1>1, <1>2, <1>10, AheadStep DEF RInv, Onward
  <2>1. t \in Watched(tx) /\ t \in Path /\ t # walk.src
    BY <1>1, <1>2, <1>5 DEF Onward
  <2>2. Tree(t) \cap Tree(walk.src) = {}
    BY <1>1, <2>1, TreesApart
  <2>3. Tree(t) \subseteq Path
    BY <2>1, PathsFormATree DEF Tree
  <2> QED BY <1>6, <1>9, <2>2, <2>3
<1>13. ASSUME NEW p \in lost PROVE ExplainedAt(p)'
  <2>1. /\ p \in Path /\ tx.files[p] # Nil /\ tx.files[p].hash \in Content /\ Untouched(p)
        /\ p \in Tree(walk.src) /\ tx'.files[p] = Nil
    BY <1>4, <1>6, <1>7
  <2>2. HashOf(db, p) = tx.files[p].hash /\ HashOf(db', p) = HashOf(db, p)
    BY <1>2, <2>1 DEF Untouched, Base, HashOf, Onward
  <2>3. HashOf(tx', p) = Nil /\ tx.files[p].hash # Nil
    BY <2>1, DiskConstants DEF HashOf
  <2>4. CASE p \in Reported(lost)
    <3>1. Deleted(tx.files[p].hash) = Changed(HashOf(db, p), HashOf(tx', p))
      BY <2>2, <2>3 DEF Deleted, Changed
    <3>2. tx'.history[p] = db'.history[p] \o <<Deleted(tx.files[p].hash)>>
      BY <1>2, <1>4, <2>1, <2>4 DEF Untouched, Onward
    <3> QED BY <2>2, <2>3, <3>1, <3>2 DEF ExplainedAt, Recorded
  <2>5. CASE p \notin Reported(lost)
    <3>1. tx'.history[p] = db'.history[p]
      BY <1>2, <1>4, <2>1, <2>5 DEF Untouched, Onward
    <3>2. Baseline(walk.src) \/ Match(p)
      BY <1>13, <2>5 DEF Reported
    <3>3. Silent(p)'
      BY <1>1, <1>2, <1>3, <2>1, <3>2 DEF Baseline, Match, Silent, Onward
    <3> QED BY <3>1, <3>3 DEF ExplainedAt, Unrecorded
  <2> QED BY <2>4, <2>5
<1>14. Explained'
  BY <1>2, <1>9, <1>10, <1>13, ExplainedStep DEF RInv
<1> QED BY <1>1, <1>11, <1>12, <1>14 DEF RInv, Around, Visits, InSource

\* A step of a run that does not commit.
LEMMA RunStepRInv ==
  ASSUME IInv, OInv, RInv, RunStep, ~Commit
  PROVE  RInv'
<1>1. Typed /\ run.plan \subseteq Path
  BY DEF IInv, Typed, TypeOK, Run
<1>2. CASE \E s \in run.plan : SourceUnreadable(s)
  <2>1. Onward /\ Scanning /\ pc' = "plan" /\ tx' = tx
    BY <1>1, <1>2, QuietStep DEF SourceUnreadable, Scanning
  <2> QED BY <1>1, <2>1, IdleStep DEF RInv, InSource
<1>3. CASE EndScan \/ EndAdd \/ SaveConfig
  <2>1. Onward /\ Quiet /\ pc' \in {"save", "commit"}
    BY <1>1, <1>3, QuietStep DEF EndScan, EndAdd, SaveConfig
  <2> QED BY <1>1, <2>1, IdleStep DEF RInv, Quiet, InSource
<1>4. CASE \E s \in run.plan : SourceStep(s)
  BY <1>2, <1>4, MissingRInv, StandingRInv DEF SourceStep
<1>5. CASE RootLost \/ RootFound \/ HashFile \/ HashFails \/ FinishFolder
  BY <1>5, RootRInv, HashRInv, HashFailsRInv, FinishRInv
<1>6. CASE \E i \in walk.todo : EntryStep(i)
  BY <1>6, EntryRInv
<1> QED BY <1>3, <1>4, <1>5, <1>6 DEF RunStep

------------------------------------------------------------------------------
(* The beginning and the end of a run.                                       *)

\* A run that begins has touched nothing.
LEMMA StartRInv ==
  ASSUME pc' = "plan", run'.cmd \in {"scan", "add"}, tx'.rebuild = db'.rebuild,
         run'.plan \subseteq Watched(tx'),
         Watched(tx') \subseteq Watched(db') \cup run'.fresh,
         run'.fresh \subseteq Watched(tx') \ Watched(db'),
         Missing(tx') = Missing(db') \cap Watched(tx'),
         \A p \in Path : Untouched(p)'
  PROVE  RInv'
<1>1. Sourced'
  BY DEF Sourced
<1>2. Ahead'
  BY PathsFormATree DEF Ahead, Watched, Tree
<1>3. Around' /\ Visits'
  BY DEF Around, Visits, InSource
<1>4. Lapsed' = {}
  BY DEF Lapsed
<1>5. \A p \in Path : Unrecorded(p)'
  BY <1>4 DEF Untouched, Unrecorded, Base, HashOf, Silent
<1>6. Explained'
  BY <1>5 DEF Explained, ExplainedAt
<1> QED BY <1>1, <1>2, <1>3, <1>6 DEF RInv

\* A scan begins.
LEMMA BeginScanRInv ==
  ASSUME IInv, NEW full \in ScanFull, NEW only \in ScanOnly, BeginScan(full, only)
  PROVE  RInv'
<1> DEFINE accepted == Topmost(cfg.sources)
           known == Watched(db)
<1>1. /\ tx'.history = db.history
      /\ tx'.rebuild = db.rebuild
      /\ run'.fresh \subseteq accepted \ known
      /\ Watched(tx') = (accepted \cap known) \cup run'.fresh
      /\ \A s \in run'.fresh : tx'.sources[s].status = "active"
      /\ \A s \in accepted \cap known : tx'.sources[s] = db.sources[s]
      /\ \A p \in Path :
           tx'.files[p] = IF db.files[p] # Nil /\ db.files[p].src \notin accepted
                          THEN Nil ELSE db.files[p]
      /\ run'.cmd = "scan" /\ run'.plan \subseteq Watched(tx')
      /\ pc' = "plan" /\ db' = db
  BY ReconcileTables
<1>2. \A p \in Path : db.files[p] # Nil => db.files[p].src \in known
  BY DEF IInv, Owned
<1> HIDE DEF accepted
<1>3. Missing(tx') = Missing(db) \cap Watched(tx')
  BY <1>1 DEF Missing
<1>4. \A p \in Path : Untouched(p)'
  BY <1>1, <1>2 DEF Untouched, Base, Dropped
<1> QED BY <1>1, <1>3, <1>4, StartRInv

\* Any other command begins.
LEMMA BeginOtherRInv ==
  ASSUME IInv,
         \/ \E p \in Path : BeginAdd(p) \/ BeginRemove(p)
         \/ \E paths : BeginClear(paths)
         \/ BeginInit
  PROVE  RInv'
<1>1. ASSUME NEW p \in Path, BeginAdd(p) PROVE RInv'
  <2>1. /\ tx'.history = db.history /\ tx'.files = db.files /\ tx'.rebuild = db.rebuild
        /\ p \notin Watched(db) /\ Watched(tx') = Watched(db) \cup {p}
        /\ tx'.sources[p].status = "active"
        /\ \A s \in Path \ {p} : tx'.sources[s] = db.sources[s]
        /\ run'.cmd = "add" /\ run'.plan = {p} /\ run'.fresh = {p}
        /\ pc' = "plan" /\ db' = db
    BY <1>1, AddTables
  <2>2. Missing(tx') = Missing(db) \cap Watched(tx')
    BY <2>1 DEF Missing, Watched
  <2>3. \A q \in Path : db.files[q] # Nil => db.files[q].src \in Watched(db)
    BY DEF IInv, Owned
  <2>4. \A q \in Path : Untouched(q)'
    BY <2>1, <2>3 DEF Untouched, Base, Dropped
  <2> QED BY <2>1, <2>2, <2>4, StartRInv
<1>2. ASSUME run'.cmd \notin {"scan", "add"}, pc' \in {"save", "commit"} PROVE RInv'
  BY <1>2 DEF RInv, Sourced, Ahead, Around, Visits, Explained, Comparing, Scanning, InSource
<1>3. CASE \E p \in Path : BeginRemove(p)
  BY <1>2, <1>3 DEF BeginRemove, NoRun
<1>4. CASE (\E paths : BeginClear(paths)) \/ BeginInit
  BY <1>2, <1>4 DEF BeginClear, BeginInit, NoRun
<1> QED BY <1>1, <1>3, <1>4

\* A machine at rest.
LEMMA RestingRInv ==
  ASSUME pc' = "idle"
  PROVE  RInv'
BY DEF RInv, Sourced, Ahead, Around, Visits, Explained, Comparing, Scanning, InSource

\* Every step keeps the rows explained.
LEMMA StepRInv ==
  IInv /\ OInv /\ RInv /\ [Next]_vars => RInv'
<1> SUFFICES ASSUME IInv, OInv, RInv, [Next]_vars PROVE RInv'
  OBVIOUS
<1>1. CASE Begin
  BY <1>1, BeginScanRInv, BeginOtherRInv DEF Begin
<1>2. CASE RunStep /\ ~Commit
  BY <1>2, RunStepRInv
<1>3. CASE Commit \/ Abort \/ LoseDatabase
  BY <1>3, RestingRInv DEF Commit, Abort, Reset, LoseDatabase
<1>4. ASSUME UNCHANGED runVars PROVE RInv'
  BY <1>4 DEF RInv, Sourced, Ahead, Around, Visits, Explained, Comparing, Scanning, Fresh,
     ExplainedAt, Unrecorded, Outage, Recorded, Lapsed, Untouched, Base, Dropped, Silent, Match,
     HashOf, Missing, runVars
<1>5. CASE (\E c \in ConfigChoices : EditConfig(c)) \/ DiskStep \/ UNCHANGED vars
  BY <1>4, <1>5 DEF EditConfig, DiskStep, vars
<1> QED BY <1>1, <1>2, <1>3, <1>5 DEF Next

\* The rows stay explained for ever.
LEMMA RecordsHold ==
  Spec => [](IInv /\ OInv /\ RInv)
<1>1. Init => RInv
  BY DEF Init, RInv, Sourced, Ahead, Around, Visits, Explained, Comparing, Scanning, InSource
<1> QED BY <1>1, StepRInv, ComparisonHolds, PTL DEF Spec

------------------------------------------------------------------------------
(* The theorem.                                                              *)

\* The records after the first Len(h).
LEMMA TailOfHistory ==
  ASSUME NEW h \in Seq(Event), NEW e \in Event
  PROVE  /\ SubSeq(h, Len(h) + 1, Len(h)) = <<>>
         /\ SubSeq(h \o <<e>>, Len(h) + 1, Len(h \o <<e>>)) = <<e>>
<1> DEFINE t == h \o <<e>>
<1>1. <<e>> \in Seq(Event) /\ Len(<<e>>) = 1 /\ Len(h) \in Nat
  BY LenProperties
<1>2. t \in Seq(Event) /\ Len(t) = Len(h) + 1
  BY <1>1, ConcatProperties
<1>3. SubSeq(h, Len(h) + 1, Len(h)) = <<>>
  BY <1>1, SubSeqEmpty
<1>4. SubSeq(t, Len(h) + 1, Len(t)) = SubSeq(<<e>>, 1, 1)
  <2>1. /\ Len(h) + 1 \in Len(h) + 1 .. Len(h) + Len(<<e>>)
        /\ Len(t) \in Len(h) + 1 .. Len(h) + Len(<<e>>)
    BY <1>1, <1>2
  <2>2. SubSeq(t, Len(h) + 1, Len(t)) =
          SubSeq(<<e>>, Len(h) + 1 - Len(h), Len(t) - Len(h))
    BY <1>1, <2>1, SubSeqOfConcat2
  <2> QED BY <1>1, <1>2, <2>2
<1>5. SubSeq(<<e>>, 1, 1) = <<e>>
  BY <1>1, SubSeqFull
<1> QED BY <1>3, <1>4, <1>5

\* scanner.go:429, 485: whatever happens on disk while it runs, a scan adds for a
\* path no record, or the one that names the old and the new hash of its row, or
\* the one of a source that is missing.
THEOREM RecordsExplainRows ==
  Spec => []HistoryExplainsRows
<1>1. IInv /\ RInv => HistoryExplainsRows
  <2> SUFFICES ASSUME IInv, RInv, ScanDone, NEW p \in Path
               PROVE  LET old == HashOf(db, p)
                          new == HashOf(tx, p)
                      IN \/ NewRecords(p) = <<>> /\ (old = new \/ Silent(p))
                         \/ /\ NewRecords(p) = <<MissingRecord>>
                            /\ old = new \/ (new = Nil /\ Dropped(p))
                         \/ /\ Len(NewRecords(p)) = 1
                            /\ NewRecords(p)[1].old = old
                            /\ NewRecords(p)[1].new = new
                            /\ old # new
    BY DEF HistoryExplainsRows
  <2> DEFINE h == db.history[p]
  <2>1. db \in Database /\ tx \in Database
    BY DEF IInv, Typed, TypeOK
  <2>2. h \in Seq(Event)
    BY <2>1, DatabaseFields
  <2>3. HashOf(db, p) \in Content \cup {Nil} /\ HashOf(tx, p) \in Content \cup {Nil}
    BY <2>1, DatabaseFields DEF HashOf, FileState
  <2>4. ExplainedAt(p)
    BY DEF RInv, Explained, Comparing, ScanDone
  <2> HIDE DEF h
  <2>5. CASE Unrecorded(p)
    <3>1. NewRecords(p) = SubSeq(h, Len(h) + 1, Len(h))
      BY <2>5 DEF NewRecords, Unrecorded, h
    <3>2. NewRecords(p) = <<>>
      BY <2>2, <3>1, TailOfHistory, SubSeqEmpty, LenProperties
    <3> QED BY <2>5, <3>2 DEF Unrecorded
  <2>6. ASSUME NEW e \in Event, tx.history[p] = h \o <<e>> PROVE NewRecords(p) = <<e>>
    BY <2>2, <2>6, TailOfHistory DEF NewRecords, h
  <2>7. CASE Outage(p)
    <3>1. MissingRecord \in Event
      BY DEF MissingRecord, Event
    <3>2. NewRecords(p) = <<MissingRecord>>
      BY <2>6, <2>7, <3>1 DEF Outage, h
    <3> QED BY <2>7, <3>2 DEF Outage
  <2>8. CASE Recorded(p)
    <3> DEFINE e == Changed(HashOf(db, p), HashOf(tx, p))
    <3>1. e \in Event /\ e.old = HashOf(db, p) /\ e.new = HashOf(tx, p)
      BY <2>3 DEF Changed, Event
    <3> HIDE DEF e
    <3>2. NewRecords(p) = <<e>>
      BY <2>6, <2>8, <3>1 DEF Recorded, h, e
    <3> QED BY <2>8, <3>1, <3>2 DEF Recorded
  <2> QED BY <2>4, <2>5, <2>7, <2>8 DEF ExplainedAt
<1> QED BY <1>1, RecordsHold, PTL
==============================================================================
