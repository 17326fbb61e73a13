------------------------------- MODULE FmonDisk -------------------------------
(***************************************************************************)
(* The disk fmon watches: what its os.Lstat, os.ReadDir and os.Open calls  *)
(* observe, and what other programs do to it while fmon runs.  fmon never  *)
(* writes here.  Time is a counter that each outside step advances, so a   *)
(* modification time is never reused; MaxClock bounds those steps.         *)
(***************************************************************************)
EXTENDS FmonPaths, Naturals

CONSTANTS
  Nil,            \* no value
  Content,        \* file contents; xxHash64 is taken to tell them apart
  SizeOf,         \* [Content -> Nat]
  Shapes,         \* [Path -> SUBSET kinds]: what may come to be at a path
  Mounts,         \* paths whose whole tree can go away and come back
  Flaky,          \* paths on which a system call may fail for another reason
  SilentWrites,   \* may content change while size and mtime stay the same?
  MaxClock        \* bound on the steps of the outside world and the user

Kinds == {"none", "dir", "file", "other"}

ASSUME DiskConstants ==
  /\ SizeOf \in [Content -> Nat]
  /\ Shapes \in [Path -> SUBSET Kinds]
  /\ Mounts \subseteq Path
  /\ Flaky \subseteq Path
  /\ SilentWrites \in BOOLEAN
  /\ MaxClock \in Nat
  /\ Nil \notin Content
  /\ Nil \notin Path

VARIABLES
  disk,      \* [Path -> Entry]
  offline,   \* mounts that are away
  clock      \* outside steps taken so far

diskVars == <<disk, offline, clock>>

NonFile(k) == [kind |-> k, content |-> Nil, mtime |-> 0]
RegularFile(c, t) == [kind |-> "file", content |-> c, mtime |-> t]
Absent == NonFile("none")

Entry == {NonFile(k) : k \in Kinds \ {"file"}}
           \cup [kind : {"file"}, content : Content, mtime : Nat]

\* What a system call on p meets.
At(p) == IF \E m \in offline : p \in Tree(m) THEN Absent ELSE disk[p]

\* How a stat of p can end: with the kind found, or with an error that is not
\* "does not exist".
Outcomes(p) == {At(p).kind} \cup (IF p \in Flaky THEN {"error"} ELSE {})

DiskTypeOK ==
  /\ disk \in [Path -> Entry]
  /\ offline \subseteq Mounts
  /\ clock \in Nat

Tick == clock < MaxClock /\ clock' = clock + 1

\* e comes to be at p: a file is created, written, touched or replaced, a
\* directory made, an entry removed.  A non-directory has nothing below it.
Place(p, e) ==
  /\ Tick
  /\ e.kind \in Shapes[p]
  /\ e.kind # "file" => e.kind # At(p).kind
  /\ \A m \in offline : p \notin Tree(m)
  /\ \A a \in Path : Within(p, a) => disk[a].kind = "dir"
  /\ disk' = [q \in Path |-> IF q = p THEN e
                             ELSE IF Within(q, p) /\ e.kind # "dir" THEN Absent
                             ELSE disk[q]]
  /\ UNCHANGED offline

Change(p) ==
  \/ \E c \in Content : Place(p, RegularFile(c, clock + 1))
  \/ \E k \in Kinds \ {"file"} : Place(p, NonFile(k))

\* Bit rot, or a write that puts the old modification time back.
Corrupt(p, c) ==
  /\ SilentWrites
  /\ Tick
  /\ At(p).kind = "file"
  /\ c # disk[p].content
  /\ SizeOf[c] = SizeOf[disk[p].content]
  /\ disk' = [disk EXCEPT ![p].content = c]
  /\ UNCHANGED offline

Unmount(m) ==
  /\ Tick
  /\ m \notin offline
  /\ offline' = offline \cup {m}
  /\ UNCHANGED disk

Mount(m) ==
  /\ Tick
  /\ m \in offline
  /\ offline' = offline \ {m}
  /\ UNCHANGED disk

DiskNext ==
  \/ \E p \in Path : Change(p)
  \/ \E p \in Path, c \in Content : Corrupt(p, c)
  \/ \E m \in Mounts : Unmount(m) \/ Mount(m)
==============================================================================
