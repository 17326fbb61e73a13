----------------------------- MODULE FmonScanProps -----------------------------
(***************************************************************************)
(* What fmon promises about its database, its history and its reports,     *)
(* stated over FmonScan.                                                   *)
(***************************************************************************)
EXTENDS FmonScan

\* A scan whose transaction is complete and about to be committed: db is still
\* what the previous commit left.
ScanDone == pc = "commit" /\ run.cmd = "scan"

HashOf(d, p) == IF d.files[p] = Nil THEN Nil ELSE d.files[p].hash

\* The records the current run has added for p.
NewRecords(p) ==
  SubSeq(tx.history[p], Len(db.history[p]) + 1, Len(tx.history[p]))

MissingRecord == [event |-> "DELETED", old |-> Nil, new |-> Nil]

\* The files a walk of s should find, or s itself when s is a watched file.
Visible(s, exclude) ==
  {p \in Tree(s) :
     /\ At(p).kind = "file"
     /\ \A q \in Below[s] : p \in Tree(q) => q \notin exclude}

\* Watched sources never overlap, and every stored file state belongs to a
\* watched source that contains the file: what the global UNIQUE(file_path)
\* and the upsert of checkFile rely on, across add, rm, hand edits and crashes.
OneOwner ==
  /\ \A s, t \in Watched(tx) : s # t => ~Overlaps(s, t)
  /\ \A p \in Path :
       tx.files[p] # Nil => /\ tx.files[p].src \in Watched(tx)
                            /\ p \in Tree(tx.files[p].src)

\* A file whose size and mtime equal the stored ones has the stored content,
\* so the stat shortcut of checkFile skips no change, even if the file was
\* rewritten between its stat and its hashing.
StampTellsContent ==
  \A p \in Path :
    LET row == tx.files[p]
    IN (/\ row # Nil
        /\ disk[p].kind = "file"
        /\ disk[p].mtime = row.mtime
        /\ SizeOf[disk[p].content] = row.size)
       => disk[p].content = row.hash

\* The source of p's row is no longer watched, so the cascade took the row.
Dropped(p) == db.files[p] # Nil /\ db.files[p].src \notin Watched(tx)

\* May the state of p change in this scan without a record?
Silent(p) ==
  \/ db.rebuild
  \/ \E s \in run.fresh : p \in Tree(s)
  \/ Dropped(p)
  \/ tx.files[p] = Nil /\ Match(p)

\* The history explains the baseline: a scan adds at most one record for a
\* path, the record says exactly how the stored hash changed, and a stored
\* hash changes without one only for a source that is new, dropped, or being
\* rebuilt, or for a file that became excluded.  The record of a missing root
\* says nothing of a row: if the root had one, it is kept, or went with the
\* source it was a file of before it became a source itself.
HistoryExplainsRows ==
  ScanDone =>
    \A p \in Path :
      LET old == HashOf(db, p)
          new == HashOf(tx, p)
      IN \/ NewRecords(p) = <<>> /\ (old = new \/ Silent(p))
         \/ /\ NewRecords(p) = <<MissingRecord>>
            /\ old = new \/ (new = Nil /\ Dropped(p))
         \/ /\ Len(NewRecords(p)) = 1
            /\ NewRecords(p)[1].old = old
            /\ NewRecords(p)[1].new = new
            /\ old # new

\* A file is reported DELETED only if at some moment of the scan it really was
\* no regular file: an error, a slow walk or a moving disk is never mistaken
\* for a deletion.
DeletedWasGone ==
  ScanDone =>
    \A p \in Path : \A i \in DOMAIN NewRecords(p) :
      NewRecords(p)[i].event = "DELETED" => p \in gone

\* What that rests on: files are in directories, a listing leads to everything
\* below, whoever excludes a directory excludes its files, and the root of a
\* folder can always be stat'ed, if it exists.
FilesAreInDirectories ==
  \A p \in Path : \A q \in Below[p] : FirstDisk[q].kind # "none" => FirstDisk[p].kind = "dir"

ListingsReachAll ==
  \A p \in Path : \A q \in Below[p] : \E c \in Children(p) : q \in Tree(c)

Closed(paths) == \A p \in paths : Below[p] \subseteq paths

ExcludesAreClosed == \A c \in ConfigChoices : Closed(c.exclude)

RootsReadable ==
  \A s \in Watched(tx) : tx.sources[s].type = "folder" => s \notin Flaky

\* A scan that met no error, while nothing outside happened, leaves the rows of
\* every source it scanned equal to the disk, unless the root is away or was
\* replaced.
CalmScanMirrorsDisk ==
  (ScanDone /\ calm /\ ~rep.errors) =>
    \A s \in run.scope :
      (At(s).kind # "none") =>
        /\ Rows(tx, s) = Visible(s, run.cfg.exclude)
        /\ \A p \in Visible(s, run.cfg.exclude) : tx.files[p].hash = disk[p].content

\* An ALERT is raised exactly when a source turns missing and a NOTICE exactly
\* when it returns: once per outage, and for every outage.
AlertOncePerOutage ==
  ScanDone =>
    LET missing(d) == {s \in Watched(d) : d.sources[s].status = "missing"}
    IN /\ rep.alerts = missing(tx) \ missing(db)
       /\ rep.notices = (missing(db) \cap Watched(tx)) \ missing(tx)

\* A scan during which nothing outside happened leaves marked as missing exactly
\* the sources that are away, those that were replaced by something else among the
\* present, unless a stat of the root failed: an outage is neither overlooked nor
\* believed to last.
CalmScanKnowsOutages ==
  (ScanDone /\ calm) =>
    \A s \in run.scope :
      s \notin Flaky \/ ~rep.errors =>
        ((tx.sources[s].status = "missing") <=> (At(s).kind = "none"))

\* While a source is missing its baseline survives every run that does not
\* drop the source: nothing of it is deleted or rewritten.
OutageKeepsBaseline ==
  [][\A s \in Path :
       (/\ db.sources[s] # Nil
        /\ db'.sources[s] # Nil
        /\ db'.sources[s].status = "missing")
       => \A p \in Rows(db, s) \cup Rows(db', s) : db'.files[p] = db.files[p]]_db

\* Only init, clear and the loss of the database take records away: dropping a
\* source, pruning and rebuilding a baseline keep the audit trail.
HistorySurvives ==
  (pc # "idle" /\ run.cmd \in {"scan", "add", "rm"}) =>
    \A p \in Path :
      /\ Len(db.history[p]) <= Len(tx.history[p])
      /\ db.history[p] = SubSeq(tx.history[p], 1, Len(db.history[p]))

\* On a disk that has never changed no record is ever written, whatever the
\* user runs, edits, interrupts or loses: every record comes from the disk.
QuietDiskQuietHistory ==
  (disk = FirstDisk /\ offline = {}) => \A p \in Path : tx.history[p] = <<>>

------------------------------------------------------------------------------
(* What becomes of it all once the world is still.                           *)

\* The database says what fmon.toml and the disk say.
Settled ==
  /\ Watched(db) \subseteq Topmost(cfg.sources)
  /\ \A s \in Topmost(cfg.sources) : At(s).kind \in {"dir", "file"} => s \in Watched(db)
  /\ ~db.rebuild
  /\ \A s \in Watched(db) :
       /\ (db.sources[s].status = "missing") <=> (At(s).kind = "none")
       /\ (At(s).kind \in {"dir", "file"} /\ db.sources[s].type = TypeFor(At(s).kind)) =>
            /\ Rows(db, s) = Visible(s, cfg.exclude)
            /\ \A p \in Rows(db, s) : db.files[p].hash = disk[p].content

\* After the last change, edit, crash or loss, scans catch up with everything:
\* no change of the disk is overlooked for ever and no retry is needed but the
\* next scan.
EventuallySettled == <>[]Settled

\* The ledger fmon keeps, as its users see it: only commits change it.
Ledger == INSTANCE FmonLedger WITH
  Excludable <- UNION {c.exclude : c \in ConfigChoices},
  watched <- Watched(db),
  away <- {s \in Watched(db) : db.sources[s].status = "missing"},
  baseline <- [p \in Path |-> HashOf(db, p)],
  log <- db.history,
  trusted <- ~db.rebuild

\* fmon implements the ledger: whatever happens on disk during a run, and
\* wherever a run is cut short, the database moves by whole commands, and every
\* change of a trusted baseline comes with its one record.
ImplementsLedger == Ledger!LedgerSpec

------------------------------------------------------------------------------
(* Promises of the documentation that the code does not keep; each has a run *)
(* of its own that shows how.                                                *)

\* README: a source added to fmon.toml by hand is baselined silently.  So while
\* the disk is as it was, none of its files is reported as ADDED.
HandAddedSourceIsSilent ==
  disk = FirstDisk =>
    \A p \in Path : \A i \in DOMAIN tx.history[p] : tx.history[p][i].event # "ADDED"

\* README: files that become excluded, by themselves or because their directory
\* is skipped, are forgotten silently.
ExcludedFilesAreForgotten ==
  ScanDone =>
    \A s \in run.scope : \A p \in Below[s] :
      (Match(p) \/ \E q \in Below[s] : Within(p, q) /\ Match(q))
        => \A i \in DOMAIN NewRecords(p) : NewRecords(p)[i].event # "DELETED"

\* handleMissing: the stored file states of a vanished root are kept.  So while
\* no file was touched, and trees only go away and come back, the one DELETED
\* record is that of the root.
OutageDeletesNoFile ==
  disk = FirstDisk =>
    \A p \in Path : \A i \in DOMAIN tx.history[p] :
      tx.history[p][i].event = "DELETED" => tx.history[p][i] = MissingRecord

\* scanSource: in baseline mode a scan only records the current state, it
\* reports no change of a file.
BaselineReportsNothing ==
  (ScanDone /\ db.rebuild) =>
    \A p \in Path : \A i \in DOMAIN NewRecords(p) : NewRecords(p)[i] = MissingRecord
==============================================================================
