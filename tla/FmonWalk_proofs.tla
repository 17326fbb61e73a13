--------------------------- MODULE FmonWalk_proofs ---------------------------
(***************************************************************************)
(* What a walk finds.  No file is reported DELETED that was there all the  *)
(* time: what the walk has not seen must have been excluded, or unreadable, *)
(* or no file at some moment, and this holds at every point of the walk    *)
(* whatever the disk does meanwhile.  And if the disk does nothing         *)
(* meanwhile, the rows of a source that was scanned without an error are   *)
(* the files that are there, with their contents.                          *)
(***************************************************************************)
EXTENDS FmonRecords_proofs

\* Below what is no directory there is nothing.
Planted ==
  \A p \in Path : \A q \in Below[p] : disk[q].kind # "none" => disk[p].kind = "dir"

\* The exclude lists at work are closed downwards.
Excluding == Closed(cfg.exclude) /\ Closed(run.cfg.exclude)

\* Nothing that is no file escapes the observer.
Watchful == pc # "idle" => NotFiles \subseteq gone

\* The run is in a source that is stored as a folder.
InFolder == pc \in InSource /\ tx.sources[walk.src].type = "folder"

\* What an entry was when it was listed.
Met(i) ==
  /\ i.kind = "dir" => i.path \in gone
  /\ i.kind = "file" => Below[i.path] \subseteq gone

\* What the walk of a folder knows of p: that it keeps its row, that it was no file
\* at some moment, or is excluded; or p is still to come.
Accounted(p) ==
  \/ p \in walk.seen
  \/ p \in gone
  \/ Match(p)
  \/ UnderAny(p, walk.unreadable)
  \/ \E i \in walk.todo : p \in Tree(i.path)

\* At every point of a walk every path of the folder is accounted for.
Covering ==
  /\ pc \in {"root", "walk"} => InFolder
  /\ InFolder /\ pc # "root" =>
       /\ \A i \in walk.todo : Met(i)
       /\ \A p \in Tree(walk.src) : Accounted(p)

\* What is reported as gone.
Missed ==
  pc # "idle" /\ run.cmd = "scan" =>
    /\ Lapsed \subseteq gone
    /\ \A p \in Path :
         tx.files[p] = Nil /\ tx.history[p] # db.history[p] => p \in gone

\* The invariant of the first half of this module.
DInv == Planted /\ Excluding /\ Watchful /\ Covering /\ Missed

------------------------------------------------------------------------------
(* The disk.                                                                 *)

\* Nothing below a path that is no directory now is a file now.
LEMMA NoFileBelow ==
  ASSUME DiskTypeOK, Planted, NEW p \in Path, At(p).kind # "dir", NEW q \in Below[p]
  PROVE  q \in NotFiles
<1>1. q \in Path
  BY PathsFormATree
<1> SUFFICES ASSUME At(q).kind = "file" PROVE FALSE
  BY <1>1 DEF NotFiles
<1>2. At(q) = disk[q] /\ disk[q].kind = "file"
  BY <1>1, AtEntry
<1>3. disk[p].kind = "dir"
  BY <1>2 DEF Planted
<1>4. PICK m \in offline : p \in Tree(m)
  BY <1>3 DEF At
<1>5. q \in Tree(m)
  BY <1>4, PathsFormATree, DiskConstants DEF Tree, DiskTypeOK
<1>6. At(q).kind = "none"
  BY <1>4, <1>5 DEF At, Absent, NonFile
<1> QED BY <1>6

\* The outside world puts nothing below what is no directory.
LEMMA DiskStepPlanted ==
  ASSUME DiskTypeOK, Planted, DiskNext
  PROVE  Planted'
<1>1. ASSUME NEW p \in Path, NEW e, Place(p, e) PROVE Planted'
  <2>1. disk' = [q \in Path |-> IF q = p THEN e
                                ELSE IF Within(q, p) /\ e.kind # "dir" THEN Absent
                                ELSE disk[q]]
        /\ \A a \in Path : Within(p, a) => disk[a].kind = "dir"
    BY <1>1 DEF Place
  <2>2. Absent.kind = "none"
    BY DEF Absent, NonFile
  <2> SUFFICES ASSUME NEW a \in Path, NEW q \in Below[a], disk'[q].kind # "none"
               PROVE  disk'[a].kind = "dir"
    BY DEF Planted
  <2>3. q \in Path /\ q # a
    BY PathsFormATree
  <2>4. CASE q = p
    <3>1. disk[a].kind = "dir" /\ a # p /\ a \notin Below[p]
      BY <2>1, <2>4, PathsFormATree DEF Within
    <3> QED BY <2>1, <3>1 DEF Within
  <2>5. CASE q # p
    <3>1. disk'[q] = disk[q] /\ (q \notin Below[p] \/ e.kind = "dir")
      BY <2>1, <2>2, <2>3, <2>5 DEF Within
    <3>2. disk[a].kind = "dir"
      BY <3>1 DEF Planted
    <3>3. CASE a = p
      BY <2>1, <3>1, <3>3
    <3>4. CASE a # p
      <4>1. a \notin Below[p] \/ e.kind = "dir"
        BY <3>1, PathsFormATree
      <4> QED BY <2>1, <3>2, <3>4, <4>1 DEF Within
    <3> QED BY <3>3, <3>4
  <2> QED BY <2>4, <2>5
<1>2. ASSUME NEW p \in Path, NEW c \in Content, Corrupt(p, c) PROVE Planted'
  <2>1. disk[p].kind = "file"
    BY <1>2, AtEntry DEF Corrupt
  <2>2. disk[p] \in [kind : {"file"}, content : Content, mtime : Nat]
    BY <2>1 DEF DiskTypeOK, Entry, NonFile, Kinds
  <2>3. /\ disk' = [disk EXCEPT ![p] = [disk[p] EXCEPT !.content = c]]
        /\ [disk[p] EXCEPT !.content = c].kind = disk[p].kind
    BY <1>2, <2>2 DEF Corrupt
  <2>4. \A q \in Path : disk'[q].kind = disk[q].kind
    BY <2>3 DEF DiskTypeOK
  <2> QED BY <2>4, PathsFormATree DEF Planted
<1>3. CASE \E m \in Mounts : Unmount(m) \/ Mount(m)
  BY <1>3 DEF Unmount, Mount, Planted
<1> QED BY <1>1, <1>2, <1>3 DEF DiskNext, Change

------------------------------------------------------------------------------
(* The walk.                                                                 *)

\* An entry just listed, or the root just stat'ed, is met.
LEMMA MetNow ==
  ASSUME DiskTypeOK, Planted, NotFiles \subseteq gone, NEW c \in Path
  PROVE  Met([path |-> c, kind |-> At(c).kind])
BY NoFileBelow DEF Met, NotFiles

\* What the walk does at one entry accounts for the tree of that entry.
LEMMA EntryCovering ==
  ASSUME Covering, InFolder, pc = "walk", NEW i \in walk.todo,
         pc' \in {"walk", "hash"}, walk'.src = walk.src, tx' = tx, run' = run, gone' = gone,
         walk.todo \ {i} \subseteq walk'.todo, walk.seen \subseteq walk'.seen,
         walk.unreadable \subseteq walk'.unreadable,
         \A j \in walk'.todo \ walk.todo : Met(j),
         \A p \in Tree(i.path) : Accounted(p)'
  PROVE  Covering'
<1>1. \A j \in walk'.todo : Met(j)'
  BY DEF Covering, Met
<1>2. ASSUME NEW p \in Tree(walk.src) PROVE Accounted(p)'
  <2>1. Accounted(p)
    BY DEF Covering
  <2>2. CASE \E j \in walk.todo \ {i} : p \in Tree(j.path)
    BY <2>2 DEF Accounted
  <2>3. CASE p \in Tree(i.path)
    BY <2>3
  <2>4. CASE p \in walk.seen \/ p \in gone \/ Match(p) \/ UnderAny(p, walk.unreadable)
    BY <2>4 DEF Accounted, Match, UnderAny
  <2> QED BY <2>1, <2>2, <2>3, <2>4 DEF Accounted
<1> QED BY <1>1, <1>2 DEF Covering, InFolder, InSource

\* What is not to be visited of a listing is excluded or no file.
LEMMA ListedAccounts ==
  ASSUME DiskTypeOK, Planted, Excluding, NotFiles \subseteq gone,
         NEW c \in Path, NEW p \in Tree(c),
         c \notin {j.path : j \in Listed({c})}
  PROVE  p \in gone \/ Match(p)
<1>1. At(c).kind \in {"dir", "file"} => Match(c)
  <2> SUFFICES ASSUME At(c).kind \in {"dir", "file"}, ~Match(c) PROVE FALSE
    OBVIOUS
  <2>1. [path |-> c, kind |-> At(c).kind] \in Listed({c})
    BY DEF Listed
  <2> QED BY <2>1
<1>2. CASE Match(c)
  BY <1>2 DEF Match, Excluding, Closed, Tree
<1>3. CASE At(c).kind \notin {"dir", "file"}
  BY <1>3, NoFileBelow DEF Tree, NotFiles
<1> QED BY <1>1, <1>2, <1>3

\* The root is listed, and what lies below it with it.
LEMMA RootCovering ==
  ASSUME IInv, RInv, RootsReadable, DInv, RootLost \/ RootFound
  PROVE  Covering'
<1> SUFFICES ASSUME NEW s, s = walk.src PROVE Covering'
  OBVIOUS
<1>1. /\ DiskTypeOK /\ walk \in Walk /\ pc = "root" /\ s \in Watched(tx) /\ s \in Path
      /\ pc' = "walk" /\ tx' = tx /\ run' = run /\ gone' = gone
      /\ NotFiles \subseteq gone /\ tx.sources[s].type = "folder" /\ s \notin Flaky
  BY DEF IInv, Typed, TypeOK, RunInside, Watched, DInv, Watchful, Covering, InFolder,
         RootsReadable, RootLost, RootFound
<1>2. CASE RootLost
  <2>1. "none" \in Outcomes(s) /\ walk' = walk
    BY <1>1, <1>2 DEF RootLost, Outcomes
  <2>2. At(s).kind = "none"
    BY <1>1, <2>1 DEF Outcomes
  <2>3. \A p \in Tree(s) : p \in gone
    BY <1>1, <2>2, NoFileBelow DEF Tree, NotFiles, DInv
  <2>4. walk.todo = {}
    BY <1>1 DEF RInv, Visits
  <2> QED BY <1>1, <2>1, <2>3, <2>4 DEF Covering, InFolder, InSource, Accounted
<1>3. CASE RootFound
  <2> DEFINE found == IF \/ At(s).kind = "dir"
                         \/ (At(s).kind = "file" /\ ~Match(s))
                        THEN {[path |-> s, kind |-> At(s).kind]} ELSE {}
  <2>1. walk' = [walk EXCEPT !.todo = found]
    BY <1>3 DEF RootFound
  <2> HIDE DEF found
  <2>2. walk'.todo = found /\ walk'.src = s
    BY <1>1, <2>1 DEF Walk
  <2>3. \A i \in found : Met(i)
    BY <1>1, MetNow DEF found, DInv
  <2>4. ASSUME NEW p \in Tree(s)
        PROVE  p \in gone \/ Match(p) \/ \E i \in found : p \in Tree(i.path)
    <3>1. CASE found # {}
      BY <2>4, <3>1 DEF found
    <3>2. CASE found = {}
      <4>1. At(s).kind # "dir" /\ (At(s).kind = "file" => Match(s))
        BY <3>2 DEF found
      <4>2. CASE p = s
        BY <1>1, <4>1, <4>2 DEF NotFiles
      <4>3. CASE p \in Below[s]
        BY <1>1, <4>1, <4>3, NoFileBelow DEF DInv
      <4> QED BY <2>4, <4>2, <4>3 DEF Tree
    <3> QED BY <3>1, <3>2
  <2>5. \A i \in walk'.todo : Met(i)'
    BY <1>1, <2>2, <2>3 DEF Met
  <2>6. \A p \in Tree(s) : Accounted(p)'
    BY <1>1, <2>2, <2>4 DEF Accounted, Match
  <2> QED BY <1>1, <2>2, <2>5, <2>6 DEF Covering, InFolder, InSource
<1> QED BY <1>2, <1>3

\* Visiting an entry.
LEMMA VisitCovering ==
  ASSUME ListingsReachAll, IInv, DInv, NEW i \in walk.todo, EntryStep(i)
  PROVE  Covering'
<1>1. pc = "walk" /\ UNCHANGED <<diskVars, cfg, db, tx, run, gone, calm>>
  BY DEF EntryStep, ListDirectory, ListingFails, EntryVanished, EntryUnreadable, CheckFile
<1>2. /\ DiskTypeOK /\ walk \in Walk /\ InFolder /\ Met(i) /\ NotFiles \subseteq gone
      /\ i.path \in Path /\ i.kind \in {"dir", "file"} /\ Planted /\ Excluding /\ Covering
  BY <1>1 DEF IInv, Typed, TypeOK, DInv, Watchful, Covering, Walk, Item
<1>3. \A c \in Children(i.path) : c \in Path /\ c \in Below[i.path]
  BY <1>2, PathsFormATree DEF Children
<1>4. \A entries \in SUBSET Children(i.path) : \A j \in Listed(entries) : Met(j)
  BY <1>2, <1>3, MetNow DEF Listed
<1>5. CASE ListDirectory(i)
  <2>1. /\ walk'.todo = (walk.todo \ {i}) \cup Listed(Children(i.path))
        /\ walk'.src = walk.src /\ walk'.seen = walk.seen /\ walk'.unreadable = walk.unreadable
        /\ pc' = "walk" /\ i.kind = "dir"
    BY <1>1, <1>2, <1>5 DEF ListDirectory, Walk
  <2>2. ASSUME NEW p \in Tree(i.path) PROVE Accounted(p)'
    <3>1. CASE p = i.path
      BY <1>1, <1>2, <2>1, <3>1 DEF Met, Accounted
    <3>2. CASE p \in Below[i.path]
      <4>1. PICK c \in Children(i.path) : p \in Tree(c)
        BY <1>2, <3>2 DEF ListingsReachAll
      <4>2. CASE c \in {j.path : j \in Listed({c})}
        <5>1. [path |-> c, kind |-> At(c).kind] \in Listed(Children(i.path))
          BY <4>1, <4>2 DEF Listed
        <5> QED BY <2>1, <4>1, <5>1 DEF Accounted
      <4>3. CASE c \notin {j.path : j \in Listed({c})}
        <5>1. p \in gone \/ Match(p)
          BY <1>2, <1>3, <4>1, <4>3, ListedAccounts
        <5> QED BY <1>1, <5>1 DEF Accounted, Match
      <4> QED BY <4>2, <4>3
    <3> QED BY <2>2, <3>1, <3>2 DEF Tree
  <2> QED BY <1>1, <1>2, <1>4, <2>1, <2>2, EntryCovering
<1>6. CASE ListingFails(i)
  <2>1. PICK entries \in SUBSET Children(i.path) :
          walk' = [walk EXCEPT !.todo = (walk.todo \ {i}) \cup Listed(entries),
                               !.unreadable = @ \cup {i.path}]
    BY <1>6 DEF ListingFails
  <2> DEFINE todo == (walk.todo \ {i}) \cup Listed(entries)
             unreadable == walk.unreadable \cup {i.path}
  <2>2. walk' = [walk EXCEPT !.todo = todo, !.unreadable = unreadable]
    BY <2>1
  <2>3. pc' = "walk" /\ i.kind = "dir"
    BY <1>1, <1>6 DEF ListingFails
  <2> HIDE DEF todo, unreadable
  <2>4. /\ walk'.todo = todo /\ walk'.unreadable = unreadable
        /\ walk'.src = walk.src /\ walk'.seen = walk.seen
    BY <1>2, <2>2 DEF Walk
  <2>5. ASSUME NEW p \in Tree(i.path) PROVE Accounted(p)'
    <3>1. CASE p = i.path
      BY <1>1, <1>2, <2>3, <3>1 DEF Met, Accounted
    <3>2. CASE p \in Below[i.path]
      <4>1. i.path \in walk'.unreadable
        BY <2>4 DEF unreadable
      <4> QED BY <3>2, <4>1 DEF Accounted, UnderAny, Within
    <3> QED BY <2>5, <3>1, <3>2 DEF Tree
  <2> QED BY <1>1, <1>2, <1>4, <2>3, <2>4, <2>5, EntryCovering DEF todo, unreadable
<1>7. CASE EntryVanished(i) \/ EntryUnreadable(i) \/ CheckFile(i)
  <2> DEFINE skip == SkipUnchanged(tx, walk.src, StatOf(i.path), run.full)
             file == IF skip THEN Nil ELSE StatOf(i.path)
  <2> HIDE DEF skip, file
  <2>1. /\ walk'.todo = walk.todo \ {i}
        /\ walk.seen \subseteq walk'.seen /\ walk'.unreadable = walk.unreadable
        /\ walk'.src = walk.src /\ pc' \in {"walk", "hash"} /\ i.kind = "file"
        /\ i.path \in walk'.seen \/ At(i.path).kind # "file"
    <3>1. CASE EntryVanished(i)
      BY <1>1, <1>2, <3>1 DEF EntryVanished, Walk
    <3>2. CASE EntryUnreadable(i)
      BY <1>1, <1>2, <3>2 DEF EntryUnreadable, Walk
    <3>3. CASE CheckFile(i)
      <4>1. /\ walk' = [walk EXCEPT !.todo = walk.todo \ {i},
                                    !.seen = walk.seen \cup {i.path}, !.file = file]
            /\ pc' \in {"walk", "hash"} /\ i.kind = "file"
        BY <3>3 DEF CheckFile, skip, file
      <4> QED BY <1>2, <4>1 DEF Walk
    <3> QED BY <1>7, <3>1, <3>2, <3>3
  <2>2. ASSUME NEW p \in Tree(i.path) PROVE Accounted(p)'
    <3>1. CASE p = i.path
      BY <1>1, <1>2, <2>1, <3>1 DEF Accounted, NotFiles
    <3>2. CASE p \in Below[i.path]
      BY <1>1, <1>2, <2>1, <3>2 DEF Met, Accounted
    <3> QED BY <2>2, <3>1, <3>2 DEF Tree
  <2> QED BY <1>1, <1>2, <2>1, <2>2, EntryCovering
<1> QED BY <1>5, <1>6, <1>7 DEF EntryStep

\* A run that is in no folder covers nothing.
LEMMA NoCovering ==
  ASSUME pc' \notin InSource
  PROVE  Covering'
BY DEF Covering, InFolder, InSource

\* Every step of a run keeps the paths accounted for.
LEMMA RunStepCovering ==
  ASSUME ListingsReachAll, IInv, RInv, RootsReadable, DInv, RunStep, ~Commit
  PROVE  Covering'
<1>1. Typed /\ Owned(tx) /\ tx \in Database /\ walk \in Walk
  BY DEF IInv, Typed, TypeOK
<1>2. ASSUME NEW s \in run.plan, SourceStep(s) PROVE Covering'
  <2>1. CASE SourceMissing(s) \/ SourceUnreadable(s) \/ SourceReplaced(s)
    BY <2>1, NoCovering DEF SourceMissing, SourceUnreadable, SourceReplaced, InSource
  <2>2. CASE OpenFolder(s) \/ OpenFile(s)
    <3>1. tx'.sources[s].type = tx.sources[s].type
      BY <1>1, <2>2, ReturnStep DEF OpenFolder, OpenFile
    <3>2. CASE OpenFolder(s)
      <4>1. walk'.src = s /\ pc' = "root" /\ tx.sources[s].type = "folder"
        BY <3>2 DEF OpenFolder, NoWalk
      <4> QED BY <3>1, <4>1 DEF Covering, InFolder, InSource
    <3>3. CASE OpenFile(s)
      <4>1. pc' = "plan" \/ (pc' = "hash" /\ walk'.src = s)
        BY <3>3 DEF OpenFile, NoWalk
      <4>2. tx.sources[s].type = "file"
        BY <3>3 DEF OpenFile
      <4> QED BY <3>1, <4>1, <4>2 DEF Covering, InFolder, InSource
    <3> QED BY <2>2, <3>2, <3>3
  <2> QED BY <1>2, <2>1, <2>2 DEF SourceStep
<1>3. CASE RootLost \/ RootFound
  BY <1>3, RootCovering
<1>4. CASE \E i \in walk.todo : EntryStep(i)
  BY <1>4, VisitCovering
<1>5. CASE HashFile \/ HashFails
  <2>1. tx'.sources = tx.sources
    <3>1. CASE HashFile
      BY <1>1, <3>1, HashTables DEF HashFile
    <3>2. CASE HashFails
      BY <3>2 DEF HashFails
    <3> QED BY <1>5, <3>1, <3>2
  <2>2. /\ run' = run /\ gone' = gone /\ pc = "hash"
        /\ \/ pc' = "plan"
           \/ /\ pc' = "walk" /\ tx.sources[walk.src].type # "file"
              /\ walk' = [walk EXCEPT !.file = Nil]
    BY <1>5 DEF HashFile, HashFails, AfterFile
  <2>3. CASE pc' = "plan"
    BY <2>3, NoCovering DEF InSource
  <2>4. CASE pc' = "walk"
    <3>1. /\ walk'.src = walk.src /\ walk'.todo = walk.todo
          /\ walk'.seen = walk.seen /\ walk'.unreadable = walk.unreadable
      BY <1>1, <2>2, <2>4 DEF Walk
    <3>2. tx.sources[walk.src].type = "folder"
      BY <1>1, <2>2, <2>4, DatabaseFields DEF Typed, RunInside, Watched, Source
    <3>3. (\A i \in walk.todo : Met(i)) /\ \A p \in Tree(walk.src) : Accounted(p)
      BY <2>2, <3>2 DEF DInv, Covering, InFolder, InSource
    <3> QED BY <2>1, <2>2, <2>4, <3>1, <3>2, <3>3
            DEF Covering, InFolder, InSource, Met, Accounted, Match
  <2> QED BY <2>2, <2>3, <2>4
<1>6. CASE FinishFolder \/ EndScan \/ EndAdd \/ SaveConfig
  BY <1>6, NoCovering DEF FinishFolder, EndScan, EndAdd, SaveConfig, InSource
<1> QED BY <1>2, <1>3, <1>4, <1>5, <1>6 DEF RunStep

------------------------------------------------------------------------------
(* What is reported as gone.                                                 *)

\* A deletion that a step of a run reports is one of a file that was gone.
LEMMA RunStepMissed ==
  ASSUME IInv, OInv, RInv, DInv, RunStep, ~Commit
  PROVE  Missed'
<1>1. Typed /\ Owned(tx) /\ walk \in Walk
  BY DEF IInv, Typed, TypeOK
<1>2. Onward
  BY <1>1, RunStepMoves
<1>3. gone' = gone
  BY DEF RunStep, SourceStep, SourceMissing, SourceUnreadable, SourceReplaced, OpenFolder,
         OpenFile, RootLost, RootFound, EntryStep, ListDirectory, ListingFails, EntryVanished,
         EntryUnreadable, CheckFile, HashFile, HashFails, FinishFolder, EndScan, EndAdd,
         SaveConfig
<1> SUFFICES ASSUME run.cmd = "scan"
             PROVE  /\ Lapsed' \subseteq gone
                    /\ \A p \in Path :
                         tx'.files[p] = Nil /\ tx'.history[p] # db.history[p] => p \in gone
  BY <1>2, <1>3 DEF Missed, Onward
<1>4. /\ Lapsed \subseteq gone /\ NotFiles \subseteq gone
      /\ \A p \in Path : tx.files[p] = Nil /\ tx.history[p] # db.history[p] => p \in gone
  BY <1>2 DEF DInv, Missed, Watchful, Onward
<1>5. CASE \E s \in run.plan : SourceMissing(s)
  <2>1. PICK s \in run.plan : SourceMissing(s)
    BY <1>5
  <2>2. (Quiet /\ s \in Missing(tx)) \/ Vanishes(s)
    BY <1>1, <2>1, MissingStep
  <2>3. s \in gone
    <3>1. s \in Path
      BY <1>1, PlannedSource
    <3>2. At(s).kind = "none"
      BY <2>1 DEF SourceMissing, Outcomes
    <3> QED BY <1>4, <3>1, <3>2 DEF NotFiles
  <2>4. CASE Quiet
    <3>1. Missing(tx') = Missing(tx)
      BY <1>2, <2>4 DEF Quiet, Onward, Missing
    <3> QED BY <1>2, <1>4, <2>4, <3>1 DEF Quiet, Onward, Lapsed
  <2>5. CASE Vanishes(s)
    BY <1>2, <1>4, <2>3, <2>5 DEF Vanishes, Onward, Lapsed
  <2> QED BY <2>2, <2>4, <2>5
<1>6. CASE \E s \in run.plan : SourceReplaced(s) \/ OpenFolder(s) \/ OpenFile(s)
  <2>1. PICK s \in run.plan : Stands(s)
    BY <1>1, <1>6, StandingStep
  <2> QED BY <1>2, <1>4, <2>1 DEF Stands, Onward, Lapsed
<1>7. CASE HashFile
  <2> DEFINE p == walk.file.path
  <2>1. PICK sum \in Content :
          /\ tx'.sources = tx.sources
          /\ \A q \in Path : tx'.history[q] = IF q = p THEN tx.history[q] \o CheckEvents(p, sum)
                                              ELSE tx.history[q]
          /\ tx'.files = [tx.files EXCEPT ![p] =
               [src |-> walk.src, hash |-> sum,
                size |-> walk.file.size, mtime |-> walk.file.mtime]]
    BY <1>1, <1>7, HashTables
  <2>2. /\ tx.files \in [Path -> FileState \cup {Nil}] /\ p \in Path /\ walk.file \in Stat
        /\ walk.src \in Path
    <3>1. tx \in Database /\ walk.file \in Stat /\ walk.src \in Path
      BY <1>1, <1>7 DEF Typed, TypeOK, RunInside, Watched, HashFile
    <3> QED BY <3>1, DatabaseFields DEF Stat
  <2> HIDE DEF p
  <2>3. [src |-> walk.src, hash |-> sum,
         size |-> walk.file.size, mtime |-> walk.file.mtime] \in FileState
    BY <2>2 DEF FileState, Stat
  <2>4. tx'.files[p] # Nil
    BY <2>1, <2>2, <2>3, NilIsNoRow
  <2>5. \A q \in Path \ {p} : tx'.files[q] = tx.files[q] /\ tx'.history[q] = tx.history[q]
    BY <2>1, <2>2
  <2>6. Missing(tx') = Missing(tx)
    BY <1>2, <2>1 DEF Onward, Missing
  <2> QED BY <1>2, <1>4, <2>4, <2>5, <2>6 DEF Lapsed, Onward
<1>8. CASE FinishFolder
  <2> DEFINE lost == Lost(tx)
  <2>1. /\ tx'.sources = tx.sources
        /\ \A p \in Path : tx'.history[p] =
             IF p \in Reported(lost) THEN tx.history[p] \o <<Deleted(tx.files[p].hash)>>
             ELSE tx.history[p]
        /\ \A p \in Path : tx'.files[p] = IF p \in lost THEN Nil ELSE tx.files[p]
    BY <1>1, <1>8, FinishTables
  <2>2. /\ pc = "walk" /\ walk.todo = {} /\ InFolder
        /\ \A p \in Tree(walk.src) : Accounted(p)
    BY <1>8 DEF FinishFolder, DInv, Covering
  <2>3. \A p \in lost : /\ p \in Tree(walk.src) /\ p \notin walk.seen
                        /\ ~UnderAny(p, walk.unreadable)
    BY <1>1 DEF Lost, Rows, Owned
  <2>4. \A p \in lost : tx.history[p] = db.history[p]
    BY <2>2, <2>3 DEF RInv, Around, InSource, Untouched
  <2>5. \A p \in Reported(lost) : p \in lost /\ ~Match(p)
    BY DEF Reported
  <2>6. \A p \in Reported(lost) : p \in gone
    BY <2>2, <2>3, <2>5 DEF Accounted
  <2> HIDE DEF lost
  <2>7. Missing(tx') = Missing(tx)
    BY <1>2, <2>1 DEF Onward, Missing
  <2> QED BY <1>2, <1>4, <2>1, <2>4, <2>6, <2>7 DEF Lapsed, Onward
<1>9. CASE ~(\E s \in run.plan : SourceMissing(s) \/ SourceReplaced(s) \/ OpenFolder(s) \/ OpenFile(s))
           /\ ~HashFile /\ ~FinishFolder
  <2>1. Quiet
    BY <1>1, <1>9, QuietStep DEF RunStep, SourceStep
  <2>2. Missing(tx') = Missing(tx)
    BY <1>2, <2>1 DEF Quiet, Onward, Missing
  <2> QED BY <1>2, <1>4, <2>1, <2>2 DEF Quiet, Onward, Lapsed
<1> QED BY <1>5, <1>6, <1>7, <1>8, <1>9

------------------------------------------------------------------------------
(* The invariant.                                                            *)

\* A step of a run that does not commit.
LEMMA RunStepDInv ==
  ASSUME ListingsReachAll, IInv, OInv, RInv, RootsReadable, DInv, RunStep, ~Commit
  PROVE  DInv'
<1>1. Typed /\ Owned(tx) /\ run.cfg \in Config
  BY DEF IInv, Typed, TypeOK, Run
<1>2. Onward
  BY <1>1, RunStepMoves
<1>3. gone' = gone /\ UNCHANGED diskVars
  BY DEF RunStep, SourceStep, SourceMissing, SourceUnreadable, SourceReplaced, OpenFolder,
         OpenFile, RootLost, RootFound, EntryStep, ListDirectory, ListingFails, EntryVanished,
         EntryUnreadable, CheckFile, HashFile, HashFails, FinishFolder, EndScan, EndAdd,
         SaveConfig
<1>4. Planted' /\ Watchful'
  BY <1>2, <1>3 DEF DInv, Planted, Watchful, Onward, NotFiles, At, diskVars
<1>5. Excluding'
  <2>1. CASE SaveConfig
    <3>1. cfg'.exclude = run.cfg.exclude
      BY <1>1, <2>1 DEF SaveConfig, Config
    <3> QED BY <1>2, <3>1 DEF DInv, Excluding, Onward
  <2>2. CASE ~SaveConfig
    <3>1. cfg' = cfg
      BY <2>2 DEF RunStep, SourceStep, SourceMissing, SourceUnreadable, SourceReplaced,
         OpenFolder, OpenFile, RootLost, RootFound, EntryStep, ListDirectory, ListingFails,
         EntryVanished, EntryUnreadable, CheckFile, HashFile, HashFails, FinishFolder,
         EndScan, EndAdd
    <3> QED BY <1>2, <3>1 DEF DInv, Excluding, Onward
  <2> QED BY <2>1, <2>2
<1> QED BY <1>4, <1>5, RunStepCovering, RunStepMissed DEF DInv

\* A run begins: it has reported nothing.
LEMMA BeginDInv ==
  ASSUME IInv, DInv, Begin
  PROVE  DInv'
<1> DEFINE Begun == /\ UNCHANGED <<disk, offline, cfg>> /\ gone' = NotFiles
                    /\ pc' \in {"plan", "save", "commit"} /\ run'.cfg = cfg
<1>1. ASSUME NEW p, BeginAdd(p) PROVE Begun /\ run'.cmd # "scan"
  BY <1>1 DEF BeginAdd, Observe
<1>2. ASSUME NEW p, BeginRemove(p) PROVE Begun /\ run'.cmd # "scan"
  BY <1>2 DEF BeginRemove, Observe, NoRun
<1>3. ASSUME NEW paths, BeginClear(paths) PROVE Begun /\ run'.cmd # "scan"
  BY <1>3 DEF BeginClear, Observe, NoRun
<1>4. ASSUME BeginInit PROVE Begun /\ run'.cmd # "scan"
  BY <1>4 DEF BeginInit, Observe, NoRun
<1>5. ASSUME NEW full, NEW only, BeginScan(full, only) PROVE Begun
  BY <1>5 DEF BeginScan, Observe, diskVars
<1> HIDE DEF Begun
<1>6. Begun
  BY <1>1, <1>2, <1>3, <1>4, <1>5 DEF Begin
<1>7. /\ UNCHANGED <<disk, offline, cfg>> /\ gone' = NotFiles
      /\ pc' \in {"plan", "save", "commit"} /\ run'.cfg = cfg
  BY <1>6 DEF Begun
<1>8. Planted' /\ Watchful' /\ Excluding'
  BY <1>7 DEF DInv, Planted, Watchful, Excluding, NotFiles, At
<1>9. Covering'
  BY <1>7, NoCovering DEF InSource
<1>10. CASE \E full \in ScanFull, only \in ScanOnly : BeginScan(full, only)
  <2>1. /\ tx'.history = db.history /\ db' = db
        /\ \A s \in Watched(tx') : s \in Missing(tx') => s \in Missing(db)
    <3>1. PICK full \in ScanFull, only \in ScanOnly : BeginScan(full, only)
      BY <1>10
    <3> DEFINE accepted == Topmost(cfg.sources)
    <3>2. /\ tx'.history = db.history /\ db' = db
          /\ Watched(tx') = (accepted \cap Watched(db)) \cup run'.fresh
          /\ \A s \in run'.fresh : tx'.sources[s].status = "active"
          /\ \A s \in accepted \cap Watched(db) : tx'.sources[s] = db.sources[s]
      BY <3>1, ReconcileTables
    <3> HIDE DEF accepted
    <3> QED BY <3>2 DEF Missing
  <2>2. Lapsed' = {}
    BY <2>1 DEF Lapsed, Missing
  <2>3. Missed'
    BY <2>1, <2>2 DEF Missed
  <2> QED BY <1>8, <1>9, <2>3 DEF DInv
<1>11. CASE ~\E full \in ScanFull, only \in ScanOnly : BeginScan(full, only)
  <2>1. run'.cmd # "scan"
    BY <1>11, <1>1, <1>2, <1>3, <1>4 DEF Begin
  <2> QED BY <1>8, <1>9, <2>1 DEF DInv, Missed
<1> QED BY <1>10, <1>11

\* The world around the runs: what is gone stays gone.
LEMMA OutsideDInv ==
  ASSUME ExcludesAreClosed, IInv, DInv,
         DiskStep \/ (\E c \in ConfigChoices : EditConfig(c)) \/ UNCHANGED vars
  PROVE  DInv'
<1>1. CASE DiskStep
  <2>1. /\ UNCHANGED <<cfg, db, tx, pc, run, walk, rep>>
        /\ gone' = IF pc = "idle" THEN {} ELSE gone \cup NotFiles'
    BY <1>1 DEF DiskStep, runVars
  <2>2. Planted'
    BY <1>1, DiskStepPlanted DEF DiskStep, IInv, Typed, TypeOK, DInv
  <2>3. pc # "idle" => gone \subseteq gone' /\ NotFiles' \subseteq gone'
    BY <2>1
  <2>4. Watchful' /\ Excluding'
    BY <2>1, <2>3 DEF DInv, Watchful, Excluding
  <2>5. Missed'
    BY <2>1, <2>3 DEF DInv, Missed, Lapsed, Missing
  <2>6. InSource' = InSource /\ (pc \in InSource => pc # "idle")
    BY DEF InSource
  <2>7. pc \in InSource => /\ \A i \in walk.todo : Met(i) => Met(i)'
                           /\ \A p : Accounted(p) => Accounted(p)'
    BY <2>1, <2>3, <2>6 DEF Met, Accounted, Match
  <2>8. Covering'
    BY <2>1, <2>7 DEF DInv, Covering, InFolder, InSource
  <2> QED BY <2>2, <2>4, <2>5, <2>8 DEF DInv
<1>2. ASSUME UNCHANGED <<disk, offline, runVars, gone>>, Excluding' PROVE DInv'
  BY <1>2 DEF DInv, Planted, Watchful, NotFiles, At, Covering, InFolder, Met, Accounted, Match,
     Missed, Lapsed, Missing, runVars
<1>3. ASSUME NEW c \in ConfigChoices, EditConfig(c) PROVE DInv'
  <2>1. Excluding'
    BY <1>3 DEF EditConfig, runVars, DInv, Excluding, ExcludesAreClosed
  <2> QED BY <1>2, <1>3, <2>1 DEF EditConfig
<1>4. CASE UNCHANGED vars
  BY <1>2, <1>4 DEF vars, diskVars, runVars, DInv, Excluding
<1> QED BY <1>1, <1>3, <1>4

\* A machine at rest.
LEMMA RestingDInv ==
  ASSUME DInv, UNCHANGED <<disk, offline, cfg>>, pc' = "idle",
         run' = NoRun \/ run' = run
  PROVE  DInv'
<1>1. Closed(NoRun.cfg.exclude)
  BY DEF NoRun, Closed
<1> QED BY <1>1 DEF DInv, Planted, Excluding, Watchful, Covering, InFolder, InSource, Missed

\* Every step keeps the paths accounted for.
LEMMA StepDInv ==
  ASSUME ListingsReachAll, ExcludesAreClosed
  PROVE  IInv /\ OInv /\ RInv /\ RootsReadable /\ DInv /\ [Next]_vars => DInv'
<1> SUFFICES ASSUME IInv, OInv, RInv, RootsReadable, DInv, [Next]_vars PROVE DInv'
  OBVIOUS
<1>1. CASE Begin
  BY <1>1, BeginDInv
<1>2. CASE RunStep /\ ~Commit
  BY <1>2, RunStepDInv
<1>3. CASE Commit \/ Abort \/ LoseDatabase
  <2>1. UNCHANGED <<disk, offline, cfg>> /\ pc' = "idle" /\ (run' = NoRun \/ run' = run)
    BY <1>3 DEF Commit, Abort, LoseDatabase, Reset, diskVars
  <2> QED BY <2>1, RestingDInv
<1>4. CASE DiskStep \/ (\E c \in ConfigChoices : EditConfig(c)) \/ UNCHANGED vars
  BY <1>4, OutsideDInv
<1> QED BY <1>1, <1>2, <1>3, <1>4 DEF Next

------------------------------------------------------------------------------
(* The theorem.                                                              *)

\* A DELETED record that is new is that of an outage, or says that a row is gone.
LEMMA DeletedRecord ==
  ASSUME IInv, NEW p \in Path, ExplainedAt(p),
         NEW i \in DOMAIN NewRecords(p), NewRecords(p)[i].event = "DELETED"
  PROVE  p \in Lapsed \/ (tx.files[p] = Nil /\ tx.history[p] # db.history[p])
<1>1. db \in Database /\ tx \in Database /\ db.history[p] \in Seq(Event)
  BY DatabaseFields DEF IInv, Typed, TypeOK
<1>2. CASE Unrecorded(p)
  <2>1. NewRecords(p) = <<>>
    BY <1>1, <1>2, TailOfHistory, LenProperties, SubSeqEmpty DEF NewRecords, Unrecorded
  <2> QED BY <2>1
<1>3. CASE Outage(p)
  BY <1>3 DEF Outage
<1>4. CASE Recorded(p)
  <2> DEFINE h == db.history[p]
             e == Changed(HashOf(db, p), HashOf(tx, p))
  <2>1. HashOf(db, p) \in Content \cup {Nil} /\ HashOf(tx, p) \in Content \cup {Nil}
    BY <1>1, DatabaseFields DEF HashOf, FileState
  <2>2. e \in Event /\ (e.event = "DELETED" => HashOf(tx, p) = Nil)
    BY <2>1 DEF Changed, Event
  <2>3. tx.history[p] = h \o <<e>> /\ h \in Seq(Event)
    BY <1>1, <1>4 DEF Recorded
  <2> HIDE DEF e, h
  <2>4. NewRecords(p) = <<e>>
    BY <2>2, <2>3, TailOfHistory DEF NewRecords, h
  <2>5. HashOf(tx, p) = Nil
    BY <2>2, <2>4
  <2>6. tx.files[p] = Nil
    BY <1>1, <2>5, DatabaseFields, DiskConstants DEF HashOf, FileState
  <2>7. tx.history[p] # db.history[p]
    <3>1. Len(h \o <<e>>) = Len(h) + 1 /\ Len(h) \in Nat
      BY <2>2, <2>3, ConcatProperties, LenProperties
    <3> QED BY <2>3, <3>1 DEF h
  <2> QED BY <2>6, <2>7
<1> QED BY <1>2, <1>3, <1>4 DEF ExplainedAt

\* scanner.go:485: whatever happens on disk while it runs, whatever it cannot
\* read but the root of a folder, and in whatever order it visits what it finds,
\* a scan reports a file as DELETED only if the file was away at some moment of
\* that scan.
THEOREM DeletionsWereReal ==
  ASSUME FilesAreInDirectories, ListingsReachAll, ExcludesAreClosed
  PROVE  Spec /\ []RootsReadable => []DeletedWasGone
<1>1. Init => DInv
  <2>1. Init => Planted
    BY DEF Init, Planted, FilesAreInDirectories
  <2>2. Init => Excluding
    BY DEF Init, Excluding, ExcludesAreClosed, NoRun, Closed
  <2> QED BY <2>1, <2>2 DEF Init, DInv, Watchful, Covering, InFolder, InSource, Missed
<1>2. IInv /\ OInv /\ RInv /\ RootsReadable /\ DInv /\ [Next]_vars => DInv'
  BY StepDInv
<1>3. IInv /\ RInv /\ DInv => DeletedWasGone
  <2> SUFFICES ASSUME IInv, RInv, DInv, ScanDone, NEW p \in Path,
                      NEW i \in DOMAIN NewRecords(p), NewRecords(p)[i].event = "DELETED"
               PROVE  p \in gone
    BY DEF DeletedWasGone
  <2>1. pc # "idle" /\ run.cmd = "scan" /\ ExplainedAt(p)
    BY DEF ScanDone, RInv, Explained, Comparing
  <2>2. Lapsed \subseteq gone
        /\ (tx.files[p] = Nil /\ tx.history[p] # db.history[p] => p \in gone)
    BY <2>1 DEF DInv, Missed
  <2> QED BY <2>1, <2>2, DeletedRecord
<1> QED BY <1>1, <1>2, <1>3, RecordsHold, PTL DEF Spec

------------------------------------------------------------------------------
(* What a walk finds while nothing moves.                                    *)

\* The files of s that the list of this run does not exclude.
Shown(s) == Visible(s, run.cfg.exclude)

\* At s there is what d has stored.
Fits(d, s) == At(s).kind \in {"dir", "file"} /\ d.sources[s].type = TypeFor(At(s).kind)

\* The rows of s in d are these files, with their contents.
Mirrors(d, s, files) ==
  Rows(d, s) = files /\ \A p \in files : d.files[p].hash = disk[p].content

\* Nothing moves, nothing fails, and no file changes behind its stamp unseen.
Steady == calm /\ (rep.errors => Flaky = {}) /\ (run.full \/ ~SilentWrites)

\* Nothing between the root of the source and p is excluded.
Clear(p) == \A q \in Below[walk.src] : p \in Tree(q) => ~Match(q)

\* The sources still to scan are among those this scan is about, and these are watched.
Scoped ==
  /\ run.plan \subseteq run.scope /\ run.scope \subseteq Watched(tx)
  /\ pc \in {"save", "commit"} => run.plan = {}
  /\ run.cmd = "scan" => run.full \in ScanFull

\* A source that is a file has no row but its own.
FileRows(d) == \A s \in Watched(d) : d.sources[s].type = "file" => Rows(d, s) \subseteq {s}

\* The walk is of the kind of its source.
Filed ==
  /\ FileRows(db)
  /\ FileRows(tx)
  /\ pc \in {"root", "walk"} => tx.sources[walk.src].type = "folder"
  /\ pc = "hash" /\ tx.sources[walk.src].type = "file" => walk.file.path = walk.src

\* The row of p is what is there.
Upright(p) == p \in Rows(tx, walk.src) /\ tx.files[p].hash = disk[p].content

\* Of a source that is being scanned, every file has been seen, with its row as it
\* should be, or lies below an entry that is still to visit.
Walked ==
  Steady /\ pc \in InSource =>
    /\ Fits(tx, walk.src)
    /\ walk.unreadable = {}
    /\ pc # "root" =>
         /\ walk.seen \subseteq Shown(walk.src)
         /\ \A p \in Shown(walk.src) : p \in walk.seen \/ \E i \in walk.todo : p \in Tree(i.path)
         /\ \A i \in walk.todo : i.kind = At(i.path).kind /\ Clear(i.path)
         /\ \A p \in walk.seen : Upright(p) \/ (pc = "hash" /\ p = walk.file.path)
    /\ pc = "hash" => walk.file = StatOf(walk.file.path) /\ walk.file.path \in walk.seen

\* The sources already scanned mirror the disk.
Scanned ==
  Steady =>
    \A s \in run.scope \ run.plan :
      Fits(tx, s) /\ ~(pc \in InSource /\ s = walk.src) => Mirrors(tx, s, Shown(s))

\* A root that is there and does not fit its source has been reported.
Noted ==
  calm /\ ~rep.errors =>
    \A s \in run.scope \ run.plan : At(s).kind = "none" \/ Fits(tx, s)

\* The invariant of the second half of this module.
MInv == Scoped /\ Filed /\ Walked /\ Scanned /\ Noted

------------------------------------------------------------------------------
(* What a run leaves alone.                                                  *)

\* A step of a run does not touch the disk, and what went wrong stays reported.
LEMMA RunStepKeeps ==
  ASSUME Typed, RunStep, ~Commit
  PROVE  /\ UNCHANGED <<diskVars, gone, calm>>
         /\ run'.full = run.full /\ run'.scope = run.scope
         /\ rep.errors => rep'.errors
<1>1. run \in Run /\ rep \in Report
  BY DEF Typed, TypeOK
<1>2. /\ UNCHANGED <<diskVars, gone, calm>>
      /\ run' = run \/ \E s : run' = Finished(s)
  BY DEF RunStep, SourceStep, SourceMissing, SourceUnreadable, SourceReplaced, OpenFolder,
         OpenFile, RootLost, RootFound, EntryStep, ListDirectory, ListingFails, EntryVanished,
         EntryUnreadable, CheckFile, HashFile, HashFails, FinishFolder, EndScan, EndAdd,
         SaveConfig
<1>3. run'.full = run.full /\ run'.scope = run.scope
  BY <1>1, <1>2 DEF Finished, Run
<1>4. ASSUME rep.errors PROVE rep'.errors
  <2>1. ASSUME NEW s \in run.plan, SourceStep(s) PROVE rep'.errors
    <3>1. Welcomed(s) \in Report /\ Welcomed(s).errors
      <4>1. s \in Path
        BY <2>1, PlannedSource
      <4>2. Welcomed(s) = rep \/ Welcomed(s) = [rep EXCEPT !.notices = @ \cup {s}]
        BY DEF Welcomed
      <4> QED BY <1>1, <1>4, <4>1, <4>2 DEF Report
    <3>2. rep' = rep \/ rep' = [rep EXCEPT !.alerts = @ \cup {s}]
          \/ rep' = [rep EXCEPT !.errors = TRUE]
          \/ rep' = Welcomed(s) \/ rep' = [Welcomed(s) EXCEPT !.errors = TRUE]
      BY <2>1 DEF SourceStep, SourceMissing, SourceUnreadable, SourceReplaced, OpenFolder, OpenFile
    <3> QED BY <1>1, <1>4, <3>1, <3>2 DEF Report
  <2>2. CASE rep' = rep \/ rep' = [rep EXCEPT !.errors = TRUE]
    BY <1>1, <1>4, <2>2 DEF Report
  <2> QED BY <2>1, <2>2 DEF RunStep, RootLost, RootFound, EntryStep, ListDirectory,
       ListingFails, EntryVanished, EntryUnreadable, CheckFile, HashFile, HashFails,
       FinishFolder, EndScan, EndAdd, SaveConfig
<1> QED BY <1>2, <1>3, <1>4

\* Nor does it change what kind of entry a source is taken for.
LEMMA TypesKept ==
  ASSUME Typed, Owned(tx), RunStep, ~Commit
  PROVE  \A t \in Watched(tx) : tx'.sources[t].type = tx.sources[t].type
<1>1. tx \in Database /\ Watched(tx) \subseteq Path
  BY DEF Typed, TypeOK, Watched
<1>2. ASSUME NEW s \in run.plan, SourceStep(s), NEW t \in Watched(tx)
      PROVE  tx'.sources[t].type = tx.sources[t].type
  <2>1. s \in Watched(tx)
    BY <1>2, PlannedSource
  <2>2. CASE tx' = tx
    BY <2>2
  <2>3. CASE tx' = Returned(s)
    <3>1. /\ \A u \in Path \ {s} : Returned(s).sources[u] = tx.sources[u]
          /\ Returned(s).sources[s].type = tx.sources[s].type
      BY <1>2, ReturnStep
    <3> QED BY <1>1, <2>3, <3>1
  <2>4. CASE \E events : tx' = InsertHistory(SetSourceStatus(tx, s, "missing"), events)
    <3> DEFINE d == SetSourceStatus(tx, s, "missing")
    <3>1. d \in Database
      BY <1>1, <2>1, SetSourceStatusEffect
    <3>2. /\ d.sources[s].type = tx.sources[s].type
          /\ \A u \in Path \ {s} : d.sources[u] = tx.sources[u]
      BY <1>1, <2>1, StatusStatement
    <3>3. PICK events : tx' = InsertHistory(d, events)
      BY <2>4
    <3> HIDE DEF d
    <3>4. tx'.sources = d.sources
      BY <3>1, <3>3, HistoryStatement
    <3> QED BY <1>1, <3>2, <3>4
  <2> QED BY <1>2, <2>2, <2>3, <2>4 DEF SourceStep, SourceMissing, SourceUnreadable,
             SourceReplaced, OpenFolder, OpenFile
<1>3. CASE Quiet \/ Stores
  BY <1>3 DEF Quiet, Stores
<1>4. CASE HashFile \/ FinishFolder
  BY <1>1, <1>4, HashStep, FinishStep, <1>3
<1>5. CASE ~(\E s \in run.plan : SourceStep(s)) /\ ~HashFile /\ ~FinishFolder
  BY <1>3, <1>5, QuietStep DEF RunStep
<1> QED BY <1>2, <1>4, <1>5

\* Only hashing stores a row.
LEMMA RunStepRows ==
  ASSUME Typed, Owned(tx), RunStep, ~Commit, ~HashFile
  PROVE  RowsFrom(tx', tx)
<1>1. CASE FinishFolder
  BY <1>1, FinishTables DEF RowsFrom
<1>2. CASE ~FinishFolder
  <2>1. tx'.files = tx.files
    BY <1>2, MissingStep, StandingStep, QuietStep DEF RunStep, SourceStep, Quiet, Vanishes, Stands
  <2> QED BY <2>1 DEF RowsFrom
<1> QED BY <1>1, <1>2

------------------------------------------------------------------------------
(* What a watched file stores.                                               *)

\* A database with fewer rows, of sources of the same types.
LEMMA FewerFileRows ==
  ASSUME NEW d, NEW e, FileRows(d), Owned(d), RowsFrom(e, d),
         \A s \in Watched(e) \cap Watched(d) : e.sources[s].type = d.sources[s].type
  PROVE  FileRows(e)
<1> SUFFICES ASSUME NEW s \in Watched(e), e.sources[s].type = "file", NEW p \in Rows(e, s)
             PROVE  p \in {s}
  BY DEF FileRows
<1>1. p \in Path /\ e.files[p] # Nil /\ e.files[p].src = s /\ e.files[p] = d.files[p]
  BY DEF Rows, RowsFrom
<1>2. s \in Watched(d) /\ p \in Rows(d, s)
  BY <1>1 DEF Owned, Rows
<1>3. d.sources[s].type = "file"
  BY <1>2
<1> QED BY <1>2, <1>3 DEF FileRows

\* A run keeps to the scope of its plan.
LEMMA RunStepScoped ==
  ASSUME Typed, Owned(tx), Scoped, RunStep, ~Commit
  PROVE  Scoped'
<1>1. Onward /\ run'.full = run.full /\ run'.scope = run.scope
  BY RunStepMoves, RunStepKeeps
<1>2. pc' \in {"save", "commit"} => run'.plan = {}
  <2>1. CASE EndScan \/ EndAdd \/ SaveConfig
    BY <2>1 DEF EndScan, EndAdd, SaveConfig, Scoped
  <2>2. CASE ~(EndScan \/ EndAdd \/ SaveConfig)
    <3>1. pc' \notin {"save", "commit"}
      BY <2>2 DEF RunStep, SourceStep, SourceMissing, SourceUnreadable, SourceReplaced,
         OpenFolder, OpenFile, RootLost, RootFound, EntryStep, ListDirectory, ListingFails,
         EntryVanished, EntryUnreadable, CheckFile, HashFile, HashFails, AfterFile, FinishFolder
    <3> QED BY <3>1
  <2> QED BY <2>1, <2>2
<1> QED BY <1>1, <1>2 DEF Scoped, Onward

\* A file that is watched is the only one whose row the run stores for it.
LEMMA RunStepFiled ==
  ASSUME Typed, Owned(tx), Filed, RunStep, ~Commit
  PROVE  Filed'
<1>1. Onward /\ walk \in Walk /\ tx \in Database /\ tx' \in Database
  BY RunStepMoves, RunStepEffect DEF Typed, TypeOK
<1>2. \A t \in Watched(tx) : tx'.sources[t].type = tx.sources[t].type
  BY TypesKept
<1>3. FileRows(db)'
  BY <1>1 DEF Filed, FileRows, Onward
<1>4. CASE HashFile
  <2> DEFINE p == walk.file.path
  <2>1. PICK sum \in Content :
          tx'.files = [tx.files EXCEPT ![p] =
            [src |-> walk.src, hash |-> sum,
             size |-> walk.file.size, mtime |-> walk.file.mtime]]
    BY <1>4, HashTables
  <2>2. tx.files \in [Path -> FileState \cup {Nil}] /\ pc = "hash" /\ walk.src \in Watched(tx)
    BY <1>1, <1>4, DatabaseFields DEF HashFile, Typed, RunInside
  <2>3. tx.sources[walk.src].type = "file" => p = walk.src
    BY <2>2 DEF Filed
  <2> HIDE DEF p
  <2>4. \A q \in Path : \/ tx'.files[q] = tx.files[q]
                        \/ q = p /\ tx'.files[q].src = walk.src
    BY <2>1, <2>2
  <2>5. FileRows(tx')
    <3> SUFFICES ASSUME NEW s \in Watched(tx'), tx'.sources[s].type = "file",
                        NEW q \in Rows(tx', s)
                 PROVE  q \in {s}
      BY DEF FileRows
    <3>1. s \in Watched(tx) /\ tx.sources[s].type = "file"
      BY <1>1, <1>2 DEF Onward
    <3>2. CASE tx'.files[q] = tx.files[q]
      <4>1. q \in Rows(tx, s)
        BY <3>2 DEF Rows
      <4> QED BY <3>1, <4>1 DEF Filed, FileRows
    <3>3. CASE q = p /\ tx'.files[q].src = walk.src
      <4>1. s = walk.src
        BY <3>3 DEF Rows
      <4> QED BY <2>3, <3>1, <3>3, <4>1
    <3> QED BY <2>4, <3>2, <3>3 DEF Rows
  <2>6. \/ pc' = "plan"
        \/ pc' = "walk" /\ walk'.src = walk.src /\ tx.sources[walk.src].type # "file"
    BY <1>1, <1>4 DEF HashFile, AfterFile, Walk
  <2>7. tx.sources[walk.src].type \in {"folder", "file"}
    BY <1>1, <2>2, DatabaseFields DEF Watched, Source
  <2> QED BY <1>2, <1>3, <2>2, <2>5, <2>6, <2>7 DEF Filed
<1>5. CASE ~HashFile
  <2>1. RowsFrom(tx', tx)
    BY <1>1, <1>5, RunStepRows
  <2>2. FileRows(tx')
    BY <1>1, <1>2, <2>1, FewerFileRows DEF Filed, Onward
  <2>3. /\ pc' \in {"root", "walk"} => tx'.sources[walk'.src].type = "folder"
        /\ pc' = "hash" /\ tx'.sources[walk'.src].type = "file" => walk'.file.path = walk'.src
    <3>1. ASSUME NEW s \in run.plan, OpenFolder(s)
          PROVE  pc' = "root" /\ tx'.sources[walk'.src].type = "folder"
      <4>1. walk'.src = s /\ pc' = "root" /\ tx.sources[s].type = "folder"
        BY <3>1 DEF OpenFolder, NoWalk
      <4> QED BY <1>2, <4>1, PlannedSource
    <3>2. ASSUME NEW s \in run.plan, OpenFile(s)
          PROVE  pc' \in {"plan", "hash"} /\ (pc' = "hash" => walk'.file.path = walk'.src)
      <4>1. \/ pc' = "plan"
            \/ pc' = "hash" /\ walk' = [NoWalk EXCEPT !.src = s, !.seen = {s}, !.file = StatOf(s)]
        BY <3>2 DEF OpenFile
      <4>2. StatOf(s).path = s
        BY DEF StatOf
      <4> QED BY <4>1, <4>2 DEF NoWalk
    <3>3. CASE \E s \in run.plan : SourceMissing(s) \/ SourceUnreadable(s) \/ SourceReplaced(s)
      BY <3>3 DEF SourceMissing, SourceUnreadable, SourceReplaced
    <3>4. CASE RootLost \/ RootFound \/ \E i \in walk.todo : EntryStep(i)
      <4>1. walk'.src = walk.src /\ pc \in {"root", "walk"} /\ tx' = tx
        BY <1>1, <3>4 DEF RootLost, RootFound, EntryStep, ListDirectory, ListingFails,
             EntryVanished, EntryUnreadable, CheckFile, Walk
      <4> QED BY <4>1 DEF Filed
    <3>5. CASE HashFails
      <4>1. \/ pc' = "plan"
            \/ pc' = "walk" /\ walk'.src = walk.src /\ tx.sources[walk.src].type # "file"
        BY <1>1, <3>5 DEF HashFails, AfterFile, Walk
      <4>2. pc = "hash" /\ walk.src \in Watched(tx) /\ tx' = tx
        BY <3>5 DEF HashFails, Typed, RunInside
      <4>3. tx.sources[walk.src].type \in {"folder", "file"}
        BY <1>1, <4>2, DatabaseFields DEF Watched, Source
      <4> QED BY <4>1, <4>2, <4>3
    <3>6. CASE FinishFolder \/ EndScan \/ EndAdd \/ SaveConfig
      BY <3>6 DEF FinishFolder, EndScan, EndAdd, SaveConfig
    <3> QED BY <1>5, <3>1, <3>2, <3>3, <3>4, <3>5, <3>6 DEF RunStep, SourceStep
  <2> QED BY <1>3, <2>2, <2>3 DEF Filed
<1> QED BY <1>4, <1>5

------------------------------------------------------------------------------
(* The walk of a quiet scan.                                                 *)

\* Nothing has gone wrong before, if nothing has now.
LEMMA SteadyBefore ==
  ASSUME Typed, RunStep, ~Commit, Steady'
  PROVE  Steady
BY RunStepKeeps DEF Steady

\* The same files are there after a step of a run.
LEMMA ShownKept ==
  ASSUME Typed, Owned(tx), RunStep, ~Commit
  PROVE  /\ \A s : Shown(s)' = Shown(s) /\ At(s)' = At(s)
         /\ \A s \in Watched(tx) : Fits(tx, s)' <=> Fits(tx, s)
<1>1. UNCHANGED diskVars /\ run'.cfg = run.cfg
  BY RunStepKeeps, RunStepMoves DEF Onward
<1>2. \A s : Shown(s)' = Shown(s) /\ At(s)' = At(s)
  BY <1>1 DEF Shown, Visible, At, diskVars
<1>3. \A s \in Watched(tx) : tx'.sources[s].type = tx.sources[s].type
  BY TypesKept
<1>4. \A s : At(s)' = At(s)
  BY <1>2
<1>5. \A s \in Watched(tx) : Fits(tx, s)' <=> Fits(tx, s)
  BY <1>3, <1>4 DEF Fits
<1> QED BY <1>2, <1>5

\* A file that is watched shows itself.
LEMMA FileShown ==
  ASSUME DiskTypeOK, Planted, NEW s \in Path, At(s).kind = "file"
  PROVE  Shown(s) = {s}
<1>1. s \in Shown(s)
  BY PathsFormATree DEF Shown, Visible, Tree
<1>2. \A p \in Below[s] : At(p).kind # "file"
  BY NoFileBelow DEF NotFiles
<1> QED BY <1>1, <1>2 DEF Shown, Visible, Tree

\* An entry that can be reached past no excluded one is to be found if it is a
\* file, and nothing else is below it.
LEMMA ClearFile ==
  ASSUME DiskTypeOK, Planted, NEW p \in Path, p \in Tree(walk.src), Clear(p), At(p).kind = "file"
  PROVE  Shown(walk.src) \cap Tree(p) = {p}
<1>1. p \in Shown(walk.src)
  BY DEF Shown, Visible, Clear, Match
<1>2. \A q \in Below[p] : At(q).kind # "file"
  BY NoFileBelow DEF NotFiles
<1> QED BY <1>1, <1>2 DEF Shown, Visible, Tree

\* The entries of a directory that are not excluded can be reached like it.
LEMMA ClearBelow ==
  ASSUME NEW p \in Path, walk.src \in Path, p \in Tree(walk.src), Clear(p),
         NEW i \in Listed(Children(p))
  PROVE  /\ i.path \in Path /\ i.path \in Tree(walk.src) /\ i.kind = At(i.path).kind
         /\ Clear(i.path)
<1>1. PICK c \in Children(p) : ~Match(c) /\ i = [path |-> c, kind |-> At(c).kind]
  BY DEF Listed
<1>2. c \in Below[p] /\ c \in Path /\ \A q \in Below[p] : c \notin Below[q]
  BY <1>1, PathsFormATree DEF Children, Within
<1>3. ASSUME NEW q \in Below[walk.src], c \in Tree(q) PROVE ~Match(q)
  <2>1. CASE c = q
    BY <1>1, <2>1
  <2>2. CASE c \in Below[q]
    <3>1. q \in Path
      BY PathsFormATree
    <3>2. p = q \/ p \in Below[q]
      BY <1>2, <2>2, <3>1, PathsFormATree
    <3> QED BY <3>2 DEF Clear, Tree
  <2> QED BY <1>3, <2>1, <2>2 DEF Tree
<1>4. c \in Tree(walk.src)
  BY <1>2, PathsFormATree DEF Tree
<1> QED BY <1>1, <1>2, <1>3, <1>4 DEF Clear

\* What is shown of a directory is shown of one of the entries to be visited.
LEMMA ShownBelow ==
  ASSUME ListingsReachAll, DiskTypeOK, Planted, NEW p \in Path, walk.src \in Path,
         p \in Tree(walk.src), At(p).kind = "dir", NEW q \in Shown(walk.src), q \in Tree(p)
  PROVE  \E i \in Listed(Children(p)) : q \in Tree(i.path)
<1>1. At(q).kind = "file" /\ q \in Path
  BY PathsFormATree DEF Shown, Visible, Tree
<1>2. PICK c \in Children(p) : q \in Tree(c)
  BY <1>1 DEF Tree, ListingsReachAll
<1>3. c \in Below[p] /\ c \in Path
  BY <1>2, PathsFormATree DEF Children
<1>4. c \in Below[walk.src]
  BY <1>3, PathsFormATree DEF Tree
<1>5. ~Match(c)
  BY <1>2, <1>4 DEF Shown, Visible, Match
<1>6. At(c).kind \in {"dir", "file"}
  BY <1>1, <1>2, <1>3, NoFileBelow DEF Tree, NotFiles
<1>7. [path |-> c, kind |-> At(c).kind] \in Listed(Children(p))
  BY <1>2, <1>5, <1>6 DEF Listed
<1> QED BY <1>2, <1>7

\* What the shortcut of checkFile skips is as it is stored.
LEMMA SkippedUpright ==
  ASSUME ~SilentWrites => StampTellsContent, Steady, NEW d, NEW s, NEW p \in Path,
         d.files = tx.files, At(p).kind = "file", DiskTypeOK,
         SkipUnchanged(d, s, StatOf(p), run.full)
  PROVE  p \in Rows(d, s) /\ d.files[p].hash = disk[p].content
<1>1. ~SilentWrites /\ p \in Rows(d, s)
  BY DEF SkipUnchanged, Steady, Known, StatOf
<1>2. d.files[p] # Nil /\ disk[p].kind = "file"
  BY <1>1, AtEntry DEF Rows
<1>3. disk[p].mtime = d.files[p].mtime /\ SizeOf[disk[p].content] = d.files[p].size
  BY DEF SkipUnchanged, StatOf
<1> QED BY <1>1, <1>2, <1>3 DEF StampTellsContent

\* A source that is opened is what it is taken for, and nothing of it is visited.
LEMMA OpenWalked ==
  ASSUME IInv, Planted, RunStep, ~Commit,
         NEW s \in run.plan, OpenFolder(s) \/ OpenFile(s)
  PROVE  Walked'
<1> SUFFICES ASSUME pc' \in InSource PROVE Walked'
  BY DEF Walked, InSource
<1>1. /\ Typed /\ Owned(tx) /\ s \in Path /\ s \in Watched(tx) /\ DiskTypeOK
      /\ UNCHANGED diskVars
  BY PlannedSource, RunStepKeeps DEF IInv, Typed, TypeOK
<1>2. Fits(tx, s)' <=> Fits(tx, s)
  BY <1>1, ShownKept
<1>3. CASE OpenFolder(s)
  <2>1. walk'.src = s /\ walk'.unreadable = {} /\ pc' = "root" /\ Fits(tx, s)
    BY <1>3 DEF OpenFolder, NoWalk, Fits, TypeFor
  <2> QED BY <1>2, <2>1 DEF Walked, Fits
<1>4. CASE OpenFile(s)
  <2>1. /\ walk' = [NoWalk EXCEPT !.src = s, !.seen = {s}, !.file = StatOf(s)]
        /\ pc' = "hash" /\ Fits(tx, s) /\ At(s).kind = "file"
    BY <1>4 DEF OpenFile, Fits, TypeFor, InSource
  <2>2. /\ walk'.src = s /\ walk'.unreadable = {} /\ walk'.seen = {s} /\ walk'.todo = {}
        /\ walk'.file = StatOf(s) /\ StatOf(s).path = s
    BY <2>1 DEF NoWalk, StatOf
  <2>3. Shown(s)' = {s}
    BY <1>1, <2>1, FileShown, ShownKept
  <2>4. StatOf(s)' = StatOf(s)
    BY <1>1 DEF StatOf, diskVars
  <2> QED BY <1>2, <2>1, <2>2, <2>3, <2>4 DEF Walked, Fits
<1> QED BY <1>3, <1>4

\* WalkDir finds the folder that was there a moment ago.
LEMMA RootWalked ==
  ASSUME IInv, RInv, MInv, RootLost \/ RootFound, ~Commit
  PROVE  Walked'
<1> SUFFICES ASSUME Steady' PROVE Walked'
  BY DEF Walked
<1> SUFFICES ASSUME NEW s, s = walk.src PROVE Walked'
  OBVIOUS
<1>1. /\ Typed /\ Owned(tx) /\ walk \in Walk /\ rep \in Report /\ RunStep /\ pc = "root"
      /\ pc' = "walk" /\ UNCHANGED <<diskVars, tx, run>> /\ s \in Watched(tx) /\ s \in Path
  BY DEF IInv, Typed, TypeOK, RunInside, Watched, RunStep, RootLost, RootFound
<1>2. /\ Fits(tx, s) /\ walk.unreadable = {} /\ tx.sources[s].type = "folder"
      /\ walk.seen = {} /\ walk.todo = {}
  BY <1>1, SteadyBefore DEF MInv, Walked, Filed, InSource, RInv, Visits
<1>3. At(s).kind = "dir"
  BY <1>2 DEF Fits, TypeFor
<1>4. CASE RootLost
  <2>1. s \in Flaky /\ rep'.errors
    BY <1>1, <1>3, <1>4 DEF RootLost, Outcomes, Report
  <2> QED BY <2>1 DEF Steady
<1>5. CASE RootFound
  <2>1. walk' = [walk EXCEPT !.todo = {[path |-> s, kind |-> "dir"]}]
    BY <1>3, <1>5 DEF RootFound
  <2>2. /\ walk'.src = s /\ walk'.todo = {[path |-> s, kind |-> "dir"]}
        /\ walk'.seen = {} /\ walk'.unreadable = {}
    BY <1>1, <1>2, <2>1 DEF Walk
  <2>3. \A q \in Below[s] : s \notin Tree(q)
    BY <1>1, PathsFormATree DEF Tree
  <2>4. \A i \in walk'.todo : i.kind = At(i.path)'.kind /\ Clear(i.path)'
    BY <1>1, <1>3, <2>2, <2>3, ShownKept DEF Clear
  <2>5. \A p \in Shown(s)' : \E i \in walk'.todo : p \in Tree(i.path)
    BY <2>2 DEF Shown, Visible
  <2>6. Fits(tx, s)'
    BY <1>1, <1>2, ShownKept
  <2> QED BY <1>1, <2>2, <2>4, <2>5, <2>6 DEF Walked, Fits
<1> QED BY <1>4, <1>5

\* ListDirectory, ListingFails, EntryVanished, EntryUnreadable and CheckFile
LEMMA EntryWalked ==
  ASSUME ListingsReachAll, IInv, MInv, Planted, ~SilentWrites => StampTellsContent,
         NEW i \in walk.todo, EntryStep(i), ~Commit
  PROVE  Walked'
<1> SUFFICES ASSUME Steady' PROVE Walked'
  BY DEF Walked
<1> SUFFICES ASSUME NEW s, s = walk.src PROVE Walked'
  OBVIOUS
<1>1. /\ Typed /\ Owned(tx) /\ walk \in Walk /\ rep \in Report /\ RunStep /\ pc = "walk"
      /\ UNCHANGED <<diskVars, tx, run>> /\ DiskTypeOK
  BY DEF IInv, Typed, TypeOK, RunStep, EntryStep, ListDirectory, ListingFails, EntryVanished,
         EntryUnreadable, CheckFile
<1>2. /\ s \in Watched(tx) /\ s \in Path /\ i.path \in Tree(s) /\ i.path \in Path
      /\ i.kind \in {"dir", "file"}
  BY <1>1 DEF Typed, RunInside, Watched, Walk, Item
<1>3. Steady
  BY <1>1, SteadyBefore
<1>4. /\ Fits(tx, s) /\ walk.unreadable = {} /\ walk.seen \subseteq Shown(s)
      /\ \A p \in Shown(s) : p \in walk.seen \/ \E j \in walk.todo : p \in Tree(j.path)
      /\ \A j \in walk.todo : j.kind = At(j.path).kind /\ Clear(j.path)
      /\ \A p \in walk.seen : Upright(p)
  BY <1>1, <1>3 DEF MInv, Walked, InSource
<1>5. i.kind = At(i.path).kind /\ Clear(i.path)
  BY <1>4
<1>6. /\ \A t : Shown(t)' = Shown(t) /\ At(t)' = At(t)
      /\ Fits(tx, s)'
  BY <1>1, <1>2, <1>4, ShownKept
<1>7. walk'.src = s => /\ \A p : Clear(p)' <=> Clear(p)
                       /\ \A p : Upright(p)' <=> Upright(p)
  BY <1>1 DEF Clear, Match, Upright, Rows, diskVars
<1>8. CASE ListDirectory(i)
  <2>1. /\ walk'.todo = (walk.todo \ {i}) \cup Listed(Children(i.path))
        /\ walk'.src = s /\ walk'.seen = walk.seen /\ walk'.unreadable = {}
        /\ pc' = "walk" /\ At(i.path).kind = "dir"
    BY <1>1, <1>4, <1>8 DEF ListDirectory, Walk
  <2>2. \A j \in walk'.todo : j.kind = At(j.path)'.kind /\ Clear(j.path)'
    <3>1. \A j \in Listed(Children(i.path)) : j.kind = At(j.path).kind /\ Clear(j.path)
      BY <1>2, <1>5, ClearBelow
    <3> QED BY <1>4, <1>6, <1>7, <2>1, <3>1
  <2>3. ASSUME NEW p \in Shown(s), p \notin walk.seen
        PROVE  \E j \in walk'.todo : p \in Tree(j.path)
    <3>1. PICK j \in walk.todo : p \in Tree(j.path)
      BY <1>4, <2>3
    <3>2. CASE j = i
      BY <1>1, <1>2, <2>1, <2>3, <3>1, <3>2, ShownBelow
    <3> QED BY <2>1, <3>1, <3>2
  <2> QED BY <1>4, <1>6, <1>7, <2>1, <2>2, <2>3 DEF Walked
<1>9. CASE ListingFails(i)
  <2>1. i.path \in Flaky /\ rep'.errors
    BY <1>1, <1>5, <1>9 DEF ListingFails, Report
  <2> QED BY <2>1 DEF Steady
<1>10. CASE EntryVanished(i)
  BY <1>5, <1>10 DEF EntryVanished
<1>11. CASE EntryUnreadable(i)
  <2>1. i.path \in Flaky /\ rep'.errors
    BY <1>1, <1>11 DEF EntryUnreadable, Report
  <2> QED BY <2>1 DEF Steady
<1>12. CASE CheckFile(i)
  <2> DEFINE p == i.path
             skip == SkipUnchanged(tx, walk.src, StatOf(p), run.full)
             file == IF skip THEN Nil ELSE StatOf(p)
  <2>1. /\ walk' = [walk EXCEPT !.todo = walk.todo \ {i}, !.seen = walk.seen \cup {p},
                                !.file = file]
        /\ pc' = IF skip THEN "walk" ELSE "hash"
        /\ At(p).kind = "file"
    BY <1>12 DEF CheckFile
  <2>2. skip => p \in Rows(tx, s) /\ tx.files[p].hash = disk[p].content
    BY <1>1, <1>2, <1>3, <2>1, SkippedUpright
  <2>3. ~skip => file = StatOf(p) /\ file.path = p
    BY DEF StatOf
  <2>4. UNCHANGED disk /\ StatOf(p) = [path |-> p, size |-> SizeOf[disk[p].content],
                                     mtime |-> disk[p].mtime]
    BY <1>1 DEF StatOf, diskVars
  <2> HIDE DEF skip, file
  <2>5. /\ walk'.todo = walk.todo \ {i} /\ walk'.seen = walk.seen \cup {p}
        /\ walk'.file = file /\ walk'.src = s /\ walk'.unreadable = {}
    BY <1>1, <1>4, <2>1 DEF Walk
  <2>6. Shown(s) \cap Tree(p) = {p}
    BY <1>1, <1>2, <1>5, <2>1, ClearFile
  <2>7. \A q \in walk'.seen : Upright(q)' \/ (pc' = "hash" /\ q = walk'.file.path)
    <3>1. CASE skip
      <4>1. Upright(p)
        BY <2>2, <3>1 DEF Upright
      <4> QED BY <1>4, <1>7, <2>5, <4>1
    <3>2. CASE ~skip
      BY <1>4, <1>7, <2>1, <2>3, <2>5, <3>2
    <3> QED BY <3>1, <3>2
  <2>8. pc' = "hash" => (walk.file = StatOf(walk.file.path) /\ walk.file.path \in walk.seen)'
    BY <2>1, <2>3, <2>4, <2>5 DEF StatOf
  <2>9. /\ walk'.seen \subseteq Shown(s)
        /\ \A q \in Shown(s) : q \in walk'.seen \/ \E j \in walk'.todo : q \in Tree(j.path)
    BY <1>4, <2>5, <2>6
  <2>10. \A j \in walk'.todo : j.kind = At(j.path)'.kind /\ Clear(j.path)'
    BY <1>4, <1>6, <1>7, <2>5
  <2> HIDE DEF p
  <2> QED BY <1>6, <2>5, <2>7, <2>8, <2>9, <2>10 DEF Walked
<1> QED BY <1>8, <1>9, <1>10, <1>11, <1>12 DEF EntryStep

\* A file that nobody touches is hashed to its content.
LEMMA HashUpright ==
  ASSUME IInv, MInv, Steady, HashFile
  PROVE  LET p == walk.file.path
         IN /\ p \in Path /\ p \in walk.seen
            /\ At(p).kind = "file"
            /\ tx'.files[p] # Nil /\ tx'.files[p].src = walk.src
            /\ tx'.files[p].hash = disk[p].content
            /\ \A q \in Path \ {p} : tx'.files[q] = tx.files[q]
<1> DEFINE p == walk.file.path
<1>1. /\ Typed /\ DiskTypeOK /\ tx \in Database /\ pc = "hash" /\ walk.src \in Path
  BY DEF IInv, Typed, TypeOK, HashFile, RunInside, Watched
<1>2. walk.file = StatOf(p) /\ p \in walk.seen /\ p \in Shown(walk.src)
  BY <1>1 DEF MInv, Walked, InSource
<1>3. At(p).kind = "file" /\ p \in Path
  BY <1>1, <1>2, PathsFormATree DEF Shown, Visible, Tree
<1>4. disk[p].kind = "file" /\ disk[p].mtime = walk.file.mtime
  BY <1>1, <1>2, <1>3, AtEntry DEF StatOf
<1>5. Sums(walk.file) = {disk[p].content}
  BY <1>4 DEF Sums
<1>6. tx'.files = [tx.files EXCEPT ![p] =
         [src |-> walk.src, hash |-> disk[p].content,
          size |-> walk.file.size, mtime |-> walk.file.mtime]]
  BY <1>1, <1>5, HashFileEffect
<1>7. [src |-> walk.src, hash |-> disk[p].content,
       size |-> walk.file.size, mtime |-> walk.file.mtime] \in FileState
  BY <1>1, <1>2, <1>3, <1>4, FileEntry DEF FileState, Stat
<1>8. tx.files \in [Path -> FileState \cup {Nil}]
  BY <1>1, DatabaseFields
<1> HIDE DEF p
<1>9. /\ tx'.files[p] # Nil /\ tx'.files[p].src = walk.src
      /\ tx'.files[p].hash = disk[p].content
  BY <1>3, <1>6, <1>7, <1>8, NilIsNoRow
<1>10. \A q \in Path \ {p} : tx'.files[q] = tx.files[q]
  BY <1>6, <1>8
<1> QED BY <1>2, <1>3, <1>9, <1>10 DEF p

\* Nothing that is shown fails to be hashed.
LEMMA HashSucceeds ==
  ASSUME IInv, MInv, Steady', RunStep, HashFails
  PROVE  FALSE
<1>1. /\ Typed /\ DiskTypeOK /\ rep \in Report /\ pc = "hash" /\ ~Commit
  BY DEF IInv, Typed, TypeOK, HashFails, Commit
<1>2. walk.file.path \in Shown(walk.src)
  BY <1>1, SteadyBefore DEF MInv, Walked, InSource
<1>3. walk.file.path \in Flaky /\ rep'.errors
  BY <1>1, <1>2 DEF HashFails, Shown, Visible, Report
<1> QED BY <1>3 DEF Steady

\* HashFile
LEMMA HashWalked ==
  ASSUME IInv, MInv, HashFile, ~Commit
  PROVE  Walked'
<1> SUFFICES ASSUME Steady', pc' = "walk" PROVE Walked'
  BY DEF Walked, InSource, HashFile, AfterFile
<1> SUFFICES ASSUME NEW s, s = walk.src PROVE Walked'
  OBVIOUS
<1> DEFINE p == walk.file.path
<1>1. /\ Typed /\ Owned(tx) /\ walk \in Walk /\ RunStep /\ pc = "hash"
      /\ UNCHANGED diskVars /\ run' = run /\ s \in Watched(tx) /\ s \in Path
  BY DEF IInv, Typed, TypeOK, RunInside, Watched, RunStep, HashFile
<1>2. Steady
  BY <1>1, SteadyBefore
<1>3. /\ Fits(tx, s) /\ walk.unreadable = {} /\ walk.seen \subseteq Shown(s)
      /\ \A q \in Shown(s) : q \in walk.seen \/ \E j \in walk.todo : q \in Tree(j.path)
      /\ \A j \in walk.todo : j.kind = At(j.path).kind /\ Clear(j.path)
      /\ \A q \in walk.seen : Upright(q) \/ q = p
  BY <1>1, <1>2 DEF MInv, Walked, InSource
<1>4. /\ p \in Path /\ p \in walk.seen
      /\ tx'.files[p] # Nil /\ tx'.files[p].src = s
      /\ tx'.files[p].hash = disk[p].content
      /\ \A q \in Path \ {p} : tx'.files[q] = tx.files[q]
  BY <1>2, HashUpright
<1> HIDE DEF p
<1>5. walk' = [walk EXCEPT !.file = Nil]
  BY DEF HashFile, AfterFile
<1>6. /\ walk'.src = s /\ walk'.todo = walk.todo /\ walk'.seen = walk.seen
      /\ walk'.unreadable = {}
  BY <1>1, <1>3, <1>5 DEF Walk
<1>7. /\ \A t : Shown(t)' = Shown(t) /\ At(t)' = At(t)
      /\ Fits(tx, s)'
  BY <1>1, <1>3, ShownKept
<1>8. \A q \in walk.seen : Upright(q)'
  <2> SUFFICES ASSUME NEW q \in walk.seen PROVE Upright(q)'
    OBVIOUS
  <2>1. CASE q = p
    BY <1>1, <1>4, <1>6, <2>1 DEF Upright, Rows, diskVars
  <2>2. CASE q # p
    BY <1>1, <1>3, <1>4, <1>6, <2>2 DEF Upright, Rows, diskVars
  <2> QED BY <2>1, <2>2
<1>9. \A j \in walk'.todo : j.kind = At(j.path)'.kind /\ Clear(j.path)'
  BY <1>1, <1>3, <1>6, <1>7 DEF Clear, Match
<1> QED BY <1>3, <1>6, <1>7, <1>8, <1>9 DEF Walked

\* What a run sees of the source at hand is what is there, as long as nothing
\* goes wrong.
LEMMA RunStepWalked ==
  ASSUME ListingsReachAll, IInv, RInv, MInv, Planted, ~SilentWrites => StampTellsContent,
         RunStep, ~Commit
  PROVE  Walked'
<1>1. CASE \E s \in run.plan : OpenFolder(s) \/ OpenFile(s)
  BY <1>1, OpenWalked
<1>2. CASE \E s \in run.plan : SourceMissing(s) \/ SourceUnreadable(s) \/ SourceReplaced(s)
  BY <1>2 DEF SourceMissing, SourceUnreadable, SourceReplaced, Walked, InSource
<1>3. CASE RootLost \/ RootFound
  BY <1>3, RootWalked
<1>4. CASE \E i \in walk.todo : EntryStep(i)
  BY <1>4, EntryWalked
<1>5. CASE HashFile
  BY <1>5, HashWalked
<1>6. CASE HashFails
  BY <1>6, HashSucceeds DEF Walked
<1>7. CASE FinishFolder \/ EndScan \/ EndAdd \/ SaveConfig
  BY <1>7 DEF FinishFolder, EndScan, EndAdd, SaveConfig, Walked, InSource
<1> QED BY <1>1, <1>2, <1>3, <1>4, <1>5, <1>6, <1>7 DEF RunStep, SourceStep

------------------------------------------------------------------------------
(* The sources that have been scanned.                                       *)

\* A run stores and takes away the rows of no source but the one at hand.
LEMMA OtherRowsKept ==
  ASSUME Typed, Owned(tx), RunStep, ~Commit,
         NEW s, pc \in InSource => s # walk.src
  PROVE  Rows(tx', s) = Rows(tx, s) /\ \A p \in Rows(tx, s) : tx'.files[p] = tx.files[p]
<1>1. CASE tx'.files = tx.files
  BY <1>1 DEF Rows
<1>2. CASE Stores
  <2>1. \A p \in Path : \/ tx'.files[p] = tx.files[p]
                        \/ /\ tx.files[p] = Nil \/ tx.files[p].src # s
                           /\ tx'.files[p] = Nil \/ tx'.files[p].src # s
    BY <1>2 DEF Stores
  <2> QED BY <2>1 DEF Rows
<1> QED BY <1>1, <1>2, RunStepMoves DEF Quiet, Vanishes, Stands

\* A source is scanned when the run leaves it, or never enters it.
LEMMA ScannedSource ==
  ASSUME IInv, MInv, Planted, ~SilentWrites => StampTellsContent, RunStep, ~Commit, Steady',
         NEW s \in run.plan, SourceStep(s), Fits(tx, s), pc' \in InSource => s # walk'.src
  PROVE  Rows(tx', s) = Shown(s) /\ \A p \in Shown(s) : tx'.files[p].hash = disk[p].content
<1>1. /\ Typed /\ tx \in Database /\ rep \in Report /\ DiskTypeOK
      /\ s \in Watched(tx) /\ s \in Path
  BY PlannedSource DEF IInv, Typed, TypeOK
<1>2. ~SourceMissing(s)
  BY DEF SourceMissing, Outcomes, Fits
<1>3. ~SourceUnreadable(s)
  <2> SUFFICES ASSUME SourceUnreadable(s) PROVE FALSE
    OBVIOUS
  <2>1. s \in Flaky /\ rep'.errors
    BY <1>1, AtEntry DEF SourceUnreadable, Outcomes, Kinds, Report
  <2> QED BY <2>1 DEF Steady
<1>4. ~SourceReplaced(s)
  BY DEF SourceReplaced, Fits
<1>5. ~OpenFolder(s)
  BY DEF OpenFolder, NoWalk, InSource
<1>6. OpenFile(s)
  BY <1>2, <1>3, <1>4, <1>5 DEF SourceStep
<1>7. At(s).kind = "file" /\ tx.sources[s].type = "file" /\ tx' = Returned(s)
  BY <1>6 DEF OpenFile
<1>8. Returned(s).files = tx.files
  BY <1>1, ReturnStep
<1>9. SkipUnchanged(Returned(s), s, StatOf(s), run.full)
  <2> SUFFICES ASSUME ~SkipUnchanged(Returned(s), s, StatOf(s), run.full) PROVE FALSE
    OBVIOUS
  <2>1. pc' = "hash" /\ walk' = [NoWalk EXCEPT !.src = s, !.seen = {s}, !.file = StatOf(s)]
    BY <1>6 DEF OpenFile
  <2> QED BY <2>1 DEF NoWalk, InSource
<1>10. s \in Rows(tx', s) /\ tx'.files[s].hash = disk[s].content
  BY <1>1, <1>7, <1>8, <1>9, SteadyBefore, SkippedUpright
<1>11. Rows(tx', s) \subseteq {s}
  BY <1>1, <1>7, <1>8 DEF MInv, Filed, FileRows, Rows
<1>12. Shown(s) = {s}
  BY <1>1, <1>7, FileShown
<1> QED BY <1>10, <1>11, <1>12

\* FinishFolder: nothing is left to be visited, and what was not seen is lost.
LEMMA ScannedFolder ==
  ASSUME IInv, MInv, Steady, FinishFolder
  PROVE  LET s == walk.src
         IN Rows(tx', s) = Shown(s) /\ \A p \in Shown(s) : tx'.files[p].hash = disk[p].content
<1> DEFINE s == walk.src
<1>1. Typed /\ pc = "walk" /\ walk.todo = {}
  BY DEF IInv, FinishFolder
<1>2. /\ walk.unreadable = {} /\ walk.seen = Shown(s)
      /\ \A p \in walk.seen : p \in Rows(tx, s) /\ tx.files[p].hash = disk[p].content
  <2>1. /\ walk.unreadable = {} /\ walk.seen \subseteq Shown(s)
        /\ \A p \in Shown(s) : p \in walk.seen
        /\ \A p \in walk.seen : Upright(p)
    BY <1>1 DEF MInv, Walked, InSource
  <2> QED BY <2>1 DEF Upright
<1>3. \A p \in Path : tx'.files[p] = IF p \in Lost(tx) THEN Nil ELSE tx.files[p]
  BY <1>1, FinishTables
<1>4. \A p \in Path : p \in Lost(tx) <=> p \in Rows(tx, s) /\ p \notin Shown(s)
  BY <1>2 DEF Lost, UnderAny, Rows
<1> HIDE DEF s
<1>5. Rows(tx', s) = Shown(s)
  <2>1. \A p \in Path : p \in Rows(tx', s) <=> p \in Rows(tx, s) /\ p \notin Lost(tx)
    BY <1>3 DEF Rows
  <2> QED BY <1>2, <1>4, <2>1 DEF Rows
<1>6. \A p \in Shown(s) : p \in Path /\ tx'.files[p] = tx.files[p]
  BY <1>2, <1>3, <1>4 DEF Rows
<1> QED BY <1>2, <1>5, <1>6 DEF s

\* What has been scanned, while nothing went wrong, is stored as it is.
LEMMA RunStepScanned ==
  ASSUME IInv, MInv, Planted, ~SilentWrites => StampTellsContent, RunStep, ~Commit
  PROVE  Scanned'
<1> SUFFICES ASSUME Steady', NEW s \in run'.scope \ run'.plan, Fits(tx, s)',
                    ~(pc' \in InSource /\ s = walk'.src)
             PROVE  Mirrors(tx, s, Shown(s))'
  BY DEF Scanned, InSource
<1>1. /\ Typed /\ Owned(tx) /\ Onward /\ UNCHANGED diskVars /\ run'.scope = run.scope
      /\ s \in run.scope /\ s \in Watched(tx) /\ run \in Run /\ walk \in Walk
      /\ Steady
  BY RunStepMoves, RunStepKeeps, SteadyBefore DEF IInv, MInv, Scoped, Typed, TypeOK
<1>2. Fits(tx, s) /\ Shown(s)' = Shown(s)
  BY <1>1, ShownKept
<1> SUFFICES Rows(tx', s) = Shown(s) /\ \A p \in Shown(s) : tx'.files[p].hash = disk[p].content
  BY <1>1, <1>2 DEF Mirrors, Rows, diskVars
<1>3. CASE s \in run.plan
  <2>1. PICK t \in run.plan : SourceStep(t)
    <3>1. run' # run
      BY <1>3
    <3> QED BY <3>1 DEF RunStep, RootLost, RootFound, EntryStep, ListDirectory, ListingFails,
            EntryVanished, EntryUnreadable, CheckFile, HashFile, HashFails, FinishFolder,
            EndScan, EndAdd, SaveConfig
  <2>2. run' = Finished(t)
    BY <2>1 DEF SourceStep, SourceMissing, SourceUnreadable, SourceReplaced, OpenFolder, OpenFile
  <2>3. t = s
    BY <1>1, <1>3, <2>2, FinishedRun
  <2> QED BY <1>2, <2>1, <2>3, ScannedSource
<1>4. CASE s \notin run.plan /\ ~(pc \in InSource /\ s = walk.src)
  <2>1. Rows(tx, s) = Shown(s) /\ \A p \in Shown(s) : tx.files[p].hash = disk[p].content
    BY <1>1, <1>2, <1>4 DEF MInv, Scanned, Mirrors
  <2>2. Rows(tx', s) = Rows(tx, s) /\ \A p \in Rows(tx, s) : tx'.files[p] = tx.files[p]
    BY <1>1, <1>4, OtherRowsKept
  <2> QED BY <2>1, <2>2
<1>5. CASE pc \in InSource /\ s = walk.src
  <2>1. CASE FinishFolder
    BY <1>1, <1>5, <2>1, ScannedFolder
  <2>2. CASE HashFile
    <3> DEFINE p == walk.file.path
    <3>1. /\ p \in Path /\ At(p).kind = "file"
          /\ tx'.files[p] # Nil /\ tx'.files[p].src = s
          /\ tx'.files[p].hash = disk[p].content
      BY <1>1, <1>5, <2>2, HashUpright
    <3>2. pc = "hash" /\ tx.sources[s].type = "file"
      <4>1. pc = "hash" /\ (tx.sources[s].type # "file" => pc' = "walk" /\ walk'.src = s)
        BY <1>1, <1>5, <2>2 DEF HashFile, AfterFile, Walk
      <4> QED BY <4>1 DEF InSource
    <3>3. p = s
      BY <1>5, <3>2 DEF MInv, Filed
    <3>4. Rows(tx', s) \subseteq {s}
      <4>1. Filed'
        BY <1>1, RunStepFiled DEF MInv
      <4>2. s \in Watched(tx') /\ tx'.sources[s].type = "file"
        BY <1>1, <3>2, TypesKept DEF Onward
      <4> QED BY <4>1, <4>2 DEF Filed, FileRows
    <3>5. Shown(s) = {s} /\ s \in Rows(tx', s)
      BY <1>1, <3>1, <3>3, FileShown DEF Typed, TypeOK, Rows
    <3> QED BY <3>1, <3>3, <3>4, <3>5
  <2>3. CASE HashFails
    BY <2>3, HashSucceeds
  <2>4. CASE RootLost \/ RootFound \/ \E i \in walk.todo : EntryStep(i)
    <3>1. pc' \in InSource /\ walk'.src = walk.src
      BY <1>1, <2>4 DEF RootLost, RootFound, EntryStep, ListDirectory, ListingFails,
         EntryVanished, EntryUnreadable, CheckFile, InSource, Walk
    <3> QED BY <1>5, <3>1
  <2>5. CASE (\E t \in run.plan : SourceStep(t)) \/ EndScan \/ EndAdd \/ SaveConfig
    <3>1. pc \in {"plan", "save"}
      BY <2>5 DEF SourceStep, SourceMissing, SourceUnreadable, SourceReplaced, OpenFolder,
         OpenFile, EndScan, EndAdd, SaveConfig
    <3> QED BY <1>5, <3>1 DEF InSource
  <2> QED BY <2>1, <2>2, <2>3, <2>4, <2>5 DEF RunStep
<1> QED BY <1>3, <1>4, <1>5

\* A source that is there, and of another type, is an error.
LEMMA RunStepNoted ==
  ASSUME IInv, MInv, RunStep, ~Commit
  PROVE  Noted'
<1> SUFFICES ASSUME calm', ~rep'.errors, NEW s \in run'.scope \ run'.plan, At(s)'.kind # "none"
             PROVE  Fits(tx, s)'
  BY DEF Noted
<1>1. /\ Typed /\ Owned(tx) /\ run'.scope = run.scope /\ calm /\ ~rep.errors
      /\ s \in run.scope /\ s \in Watched(tx) /\ run \in Run /\ rep \in Report /\ At(s)' = At(s)
      /\ DiskTypeOK /\ s \in Path
  BY RunStepKeeps, ShownKept DEF IInv, MInv, Scoped, Typed, TypeOK, Watched
<1> SUFFICES Fits(tx, s)
  BY <1>1, ShownKept
<1>2. CASE s \notin run.plan
  BY <1>1, <1>2 DEF MInv, Noted
<1>3. CASE s \in run.plan
  <2>1. PICK t \in run.plan : SourceStep(t)
    <3>1. run' # run
      BY <1>3
    <3> QED BY <3>1 DEF RunStep, RootLost, RootFound, EntryStep, ListDirectory, ListingFails,
            EntryVanished, EntryUnreadable, CheckFile, HashFile, HashFails, FinishFolder,
            EndScan, EndAdd, SaveConfig
  <2>2. run' = Finished(t)
    BY <2>1 DEF SourceStep, SourceMissing, SourceUnreadable, SourceReplaced, OpenFolder, OpenFile
  <2>3. t = s
    BY <1>1, <1>3, <2>2, FinishedRun
  <2>4. ~SourceUnreadable(s)
    BY <1>1 DEF SourceUnreadable, Report
  <2>5. ~SourceReplaced(s)
    <3> SUFFICES ASSUME SourceReplaced(s) PROVE FALSE
      OBVIOUS
    <3>1. Welcomed(s) \in Report /\ rep' = [Welcomed(s) EXCEPT !.errors = TRUE]
      BY <1>1, WelcomedReport DEF SourceReplaced
    <3>2. rep'.errors
      BY <3>1 DEF Report
    <3> QED BY <3>2
  <2>6. CASE SourceMissing(s)
    <3>1. At(s).kind = "none"
      BY <2>6 DEF SourceMissing, Outcomes
    <3> QED BY <1>1, <3>1
  <2>7. CASE OpenFolder(s) \/ OpenFile(s)
    BY <2>7 DEF OpenFolder, OpenFile, Fits, TypeFor
  <2> QED BY <2>1, <2>3, <2>4, <2>5, <2>6, <2>7 DEF SourceStep
<1> QED BY <1>2, <1>3

------------------------------------------------------------------------------
(* The invariant of the mirror.                                              *)

\* Every command starts with sources of the types that were committed.
LEMMA BeginTypes ==
  ASSUME IInv, Begin
  PROVE  \A s \in Watched(tx') \cap Watched(db) : tx'.sources[s].type = db.sources[s].type
<1>1. db \in Database /\ Watched(db) \subseteq Path
  BY DEF IInv, Typed, TypeOK, Watched
<1>2. ASSUME NEW full \in ScanFull, NEW only \in ScanOnly, BeginScan(full, only),
             NEW s \in Watched(tx') \cap Watched(db)
      PROVE  tx'.sources[s] = db.sources[s]
  <2> DEFINE accepted == Topmost(cfg.sources)
  <2>1. /\ run'.fresh \subseteq accepted \ Watched(db)
        /\ Watched(tx') = (accepted \cap Watched(db)) \cup run'.fresh
        /\ \A t \in accepted \cap Watched(db) : tx'.sources[t] = db.sources[t]
    BY <1>2, ReconcileTables
  <2> HIDE DEF accepted
  <2> QED BY <1>2, <2>1
<1>3. ASSUME NEW p \in Path, BeginAdd(p), NEW s \in Watched(tx') \cap Watched(db)
      PROVE  tx'.sources[s] = db.sources[s]
  BY <1>1, <1>3, AddTables
<1>4. ASSUME NEW p \in Path, BeginRemove(p), NEW s \in Watched(tx') \cap Watched(db)
      PROVE  tx'.sources[s] = db.sources[s]
  <2>1. tx' = DeleteSources(db, {p})
    BY <1>4 DEF BeginRemove
  <2>2. Watched(tx') = Watched(db) \ {p}
    BY <1>1, <2>1, DeleteSourcesEffect
  <2>3. s \in Path \ {p}
    BY <1>1, <1>4, <2>2
  <2>4. \A t \in Path \ {p} : DeleteSources(db, {p}).sources[t] = db.sources[t]
    BY <1>1, DropStatement
  <2> QED BY <2>1, <2>3, <2>4
<1>5. ASSUME NEW paths, BeginClear(paths) PROVE tx'.sources = db.sources
  <2>1. tx' = ClearHistory(db, paths)
    BY <1>5 DEF BeginClear
  <2> DEFINE h == [q \in Path |-> IF q \in paths THEN <<>> ELSE db.history[q]]
  <2>2. tx' = [db EXCEPT !.history = h]
    BY <2>1 DEF ClearHistory
  <2> HIDE DEF h
  <2> QED BY <1>1, <2>2, ReplaceTable
<1>6. ASSUME BeginInit PROVE Watched(tx') = {}
  BY <1>6, EmptyIsDatabase DEF BeginInit
<1> QED BY <1>2, <1>3, <1>4, <1>5, <1>6 DEF Begin

\* Every command starts with everything it has planned still to do.
LEMMA BeginScope ==
  ASSUME IInv, Begin
  PROVE  /\ pc' \in {"plan", "save", "commit"} /\ run'.plan = run'.scope
         /\ Scoped'
<1> DEFINE Begun == /\ pc' \in {"plan", "save", "commit"}
                    /\ run'.plan = run'.scope
                    /\ pc' # "plan" => run'.plan = {}
                    /\ run'.cmd = "scan" => run'.full \in ScanFull
<1>1. ASSUME NEW full \in ScanFull, NEW only \in ScanOnly, BeginScan(full, only) PROVE Begun
  BY <1>1 DEF BeginScan
<1>2. ASSUME NEW p, BeginAdd(p) PROVE Begun
  BY <1>2 DEF BeginAdd
<1>3. ASSUME NEW p, BeginRemove(p) PROVE Begun
  BY <1>3 DEF BeginRemove, NoRun
<1>4. ASSUME NEW paths, BeginClear(paths) PROVE Begun
  BY <1>4 DEF BeginClear, NoRun
<1>5. ASSUME BeginInit PROVE Begun
  BY <1>5 DEF BeginInit, NoRun
<1> HIDE DEF Begun
<1>6. Begun
  BY <1>1, <1>2, <1>3, <1>4, <1>5 DEF Begin
<1>7. Typed'
  BY BeginEffect DEF IInv
<1> QED BY <1>6, <1>7 DEF Begun, Scoped, Typed, RunInside

\* Every command starts with nothing to mirror.
LEMMA BeginMInv ==
  ASSUME IInv, MInv, Begin
  PROVE  MInv'
<1>1. /\ Scoped' /\ pc' \in {"plan", "save", "commit"} /\ run'.plan = run'.scope
      /\ RowsFrom(tx', db) /\ db' = db
  BY BeginScope, BeginEffect DEF IInv
<1>2. FileRows(tx')
  BY <1>1, BeginTypes, FewerFileRows DEF MInv, Filed, IInv
<1>3. Filed'
  BY <1>1, <1>2 DEF MInv, Filed, FileRows
<1>4. Walked' /\ Scanned' /\ Noted'
  BY <1>1 DEF Walked, Scanned, Noted, InSource
<1> QED BY <1>1, <1>3, <1>4 DEF MInv

\* Without a run there is nothing to mirror.
LEMMA RestingMInv ==
  ASSUME pc' = "idle", run' = NoRun, FileRows(db'), FileRows(tx')
  PROVE  MInv'
<1>1. NoRun.plan = {} /\ NoRun.scope = {} /\ NoRun.cmd = "none"
  BY DEF NoRun
<1>2. Scoped'
  BY <1>1 DEF Scoped
<1>3. Filed'
  BY DEF Filed, FileRows
<1>4. Walked' /\ Scanned' /\ Noted'
  BY <1>1 DEF Walked, Scanned, Noted, InSource
<1> QED BY <1>2, <1>3, <1>4 DEF MInv

\* Every step keeps the invariant.
LEMMA StepMInv ==
  ASSUME ListingsReachAll
  PROVE  IInv /\ OInv /\ RInv /\ Planted /\ (~SilentWrites => StampTellsContent) /\ MInv
           /\ [Next]_vars => MInv'
<1> SUFFICES ASSUME IInv, OInv, RInv, Planted, ~SilentWrites => StampTellsContent, MInv,
                    [Next]_vars
             PROVE  MInv'
  OBVIOUS
<1>1. CASE Begin
  BY <1>1, BeginMInv
<1>2. CASE RunStep /\ ~Commit
  BY <1>2, RunStepScoped, RunStepFiled, RunStepWalked, RunStepScanned, RunStepNoted DEF MInv, IInv
<1>3. CASE Commit \/ Abort
  BY <1>3, RestingMInv DEF Commit, Abort, Reset, MInv, Filed
<1>4. CASE LoseDatabase
  <2>1. Watched(db') = {} /\ tx' = db' /\ pc' = "idle" /\ run' = NoRun
    BY <1>4, LoseDatabaseEffect DEF IInv, OInv, Resting, LoseDatabase
  <2> QED BY <2>1, RestingMInv DEF FileRows
<1>5. CASE DiskStep
  <2>1. UNCHANGED <<db, tx, pc, run, walk>> /\ calm' = FALSE
    BY <1>5 DEF DiskStep, runVars
  <2>2. Scoped' /\ Filed'
    BY <2>1 DEF MInv, Scoped, Filed, FileRows
  <2>3. Walked' /\ Scanned' /\ Noted'
    BY <2>1 DEF Walked, Scanned, Noted, Steady
  <2> QED BY <2>2, <2>3 DEF MInv
<1>6. ASSUME UNCHANGED <<disk, offline, runVars, calm>> PROVE MInv'
  <2>1. Scoped' /\ Filed'
    BY <1>6 DEF MInv, Scoped, Filed, FileRows, runVars
  <2>2. \A p : /\ At(p)' = At(p) /\ (Clear(p)' <=> Clear(p)) /\ Shown(p)' = Shown(p)
               /\ (Upright(p)' <=> Upright(p)) /\ StatOf(p)' = StatOf(p)
    BY <1>6 DEF At, Clear, Match, Shown, Visible, Upright, StatOf, runVars
  <2>3. Steady' <=> Steady
    BY <1>6 DEF Steady, runVars
  <2>4. Walked' /\ Scanned' /\ Noted'
    BY <1>6, <2>2, <2>3 DEF MInv, Walked, Scanned, Noted, Fits, Mirrors, runVars, StatOf,
       At, Clear, Match, Shown, Visible, Upright
  <2> QED BY <2>1, <2>4 DEF MInv
<1>7. CASE (\E c \in ConfigChoices : EditConfig(c)) \/ UNCHANGED vars
  BY <1>6, <1>7 DEF EditConfig, vars, diskVars, runVars
<1> QED BY <1>1, <1>2, <1>3, <1>4, <1>5, <1>7 DEF Next

\* The plan of a run is of watched sources, and done at its end.
LEMMA ScopedHolds ==
  Spec => []Scoped
<1>1. Init => Scoped
  BY DEF Init, NoRun, Scoped
<1>2. IInv /\ OInv /\ Scoped /\ [Next]_vars => Scoped'
  <2> SUFFICES ASSUME IInv, OInv, Scoped, [Next]_vars PROVE Scoped'
    OBVIOUS
  <2>1. CASE Begin
    BY <2>1, BeginScope
  <2>2. CASE RunStep /\ ~Commit
    BY <2>2, RunStepScoped DEF IInv
  <2>3. CASE Commit \/ Abort \/ LoseDatabase
    <3>1. run' = NoRun
      BY <2>3 DEF Commit, Abort, LoseDatabase, Reset, OInv, Resting
    <3> QED BY <3>1 DEF NoRun, Scoped
  <2>4. CASE DiskStep \/ (\E c \in ConfigChoices : EditConfig(c)) \/ UNCHANGED vars
    BY <2>4 DEF DiskStep, EditConfig, vars, runVars, Scoped, Watched
  <2> QED BY <2>1, <2>2, <2>3, <2>4 DEF Next
<1> QED BY <1>1, <1>2, ComparisonHolds, PTL DEF Spec

\* Files stay in directories.
LEMMA PlantedHolds ==
  ASSUME FilesAreInDirectories
  PROVE  Spec => []Planted
<1>1. Init => Planted
  BY DEF Init, Planted, FilesAreInDirectories
<1>2. IInv /\ Planted /\ [Next]_vars => Planted'
  <2> SUFFICES ASSUME IInv, Planted, [Next]_vars PROVE Planted'
    OBVIOUS
  <2>1. CASE DiskStep
    BY <2>1, DiskStepPlanted DEF DiskStep, IInv, Typed, TypeOK
  <2>2. CASE ~DiskStep
    <3>1. disk' = disk
      <4>1. CASE Begin
        BY <4>1, BeginEffect DEF IInv
      <4>2. CASE RunStep
        BY <4>2, RunStepEffect DEF IInv
      <4>3. CASE Abort \/ LoseDatabase \/ (\E c \in ConfigChoices : EditConfig(c)) \/ UNCHANGED vars
        BY <4>3 DEF Abort, LoseDatabase, EditConfig, vars, diskVars
      <4> QED BY <2>2, <4>1, <4>2, <4>3 DEF Next
    <3> QED BY <3>1 DEF Planted
  <2> QED BY <2>1, <2>2
<1> QED BY <1>1, <1>2, Invariance, PTL DEF Spec

\* The stamps tell the content, if they can.
LEMMA StampsHold ==
  Spec => [](~SilentWrites => StampTellsContent)
<1>1. CASE SilentWrites
  <2>1. ~SilentWrites => StampTellsContent
    BY <1>1
  <2> QED BY <2>1, PTL
<1>2. CASE ~SilentWrites
  <2>1. StampTellsContent => (~SilentWrites => StampTellsContent)
    OBVIOUS
  <2> QED BY <1>2, <2>1, StampAlwaysTellsContent, PTL
<1> QED BY <1>1, <1>2

\* The invariant holds for ever.
LEMMA MirrorHolds ==
  ASSUME FilesAreInDirectories, ListingsReachAll
  PROVE  Spec => []MInv
<1>1. Init => MInv
  <2> SUFFICES ASSUME Init PROVE MInv
    OBVIOUS
  <2>1. FileRows(EmptyDatabase)
    BY EmptyIsDatabase DEF FileRows
  <2>2. NoRun.plan = {} /\ NoRun.scope = {} /\ NoRun.cmd = "none"
    BY DEF NoRun
  <2> QED BY <2>1, <2>2 DEF Init, MInv, Scoped, Filed, Walked, Scanned, Noted, InSource
<1>2. IInv /\ OInv /\ RInv /\ Planted /\ (~SilentWrites => StampTellsContent) /\ MInv
        /\ [Next]_vars => MInv'
  BY StepMInv
<1> QED BY <1>1, <1>2, RecordsHold, PlantedHolds, StampsHold, PTL DEF Spec

\* What the invariant says of a scan that is done.
LEMMA MirrorAtTheEnd ==
  ASSUME MInv, run.full \/ ~SilentWrites
  PROVE  CalmScanMirrorsDisk
<1> SUFFICES ASSUME ScanDone, calm, ~rep.errors, NEW s \in run.scope, At(s).kind # "none"
             PROVE  /\ Rows(tx, s) = Visible(s, run.cfg.exclude)
                    /\ \A p \in Visible(s, run.cfg.exclude) : tx.files[p].hash = disk[p].content
  BY DEF CalmScanMirrorsDisk
<1>1. pc = "commit" /\ run.plan = {} /\ Steady
  BY DEF ScanDone, MInv, Scoped, Steady
<1>2. Fits(tx, s)
  BY <1>1 DEF MInv, Noted
<1>3. Mirrors(tx, s, Shown(s))
  BY <1>1, <1>2 DEF MInv, Scanned, InSource
<1> QED BY <1>3 DEF Mirrors, Shown

\* scanner.go:340: when nothing happened on disk while it ran, a scan that
\* reported no error leaves for every source it has scanned, unless its root is
\* away, exactly the rows of the files that are there and not excluded, with
\* the hashes of their contents.  If contents change behind size and mtime,
\* that is so of a scan with --full.
THEOREM FullScansMirrorTheDisk ==
  ASSUME FilesAreInDirectories, ListingsReachAll
  PROVE  Spec => [](run.full \/ ~SilentWrites => CalmScanMirrorsDisk)
<1>1. MInv => (run.full \/ ~SilentWrites => CalmScanMirrorsDisk)
  BY MirrorAtTheEnd
<1> QED BY <1>1, MirrorHolds, PTL

\* The same of every scan, where all have to be, or all are, full.
THEOREM CalmScansMirrorTheDisk ==
  ASSUME FilesAreInDirectories, ListingsReachAll,
         ~SilentWrites \/ ScanFull \subseteq {TRUE}
  PROVE  Spec => []CalmScanMirrorsDisk
<1>1. MInv => CalmScanMirrorsDisk
  <2>1. MInv /\ ScanDone => run.full \in ScanFull
    BY DEF ScanDone, MInv, Scoped
  <2>2. ~ScanDone => CalmScanMirrorsDisk
    BY DEF CalmScanMirrorsDisk
  <2> QED BY <2>1, <2>2, MirrorAtTheEnd
<1> QED BY <1>1, MirrorHolds, PTL
==============================================================================
