---------------------------- MODULE FmonSpelling ----------------------------
(***************************************************************************)
(* How paths are spelled and compared: byte by byte.  within compares a    *)
(* prefix, SubtreeClause selects a range of the BINARY collation.  This    *)
(* module says what both compute (on systems whose separator is '/');      *)
(* FmonPaths relies on no more than the theorems of FmonSpelling_proofs.   *)
(***************************************************************************)
EXTENDS Integers, Sequences

Byte == 0..255
Sep == 47   \* '/'

\* What filepath.Clean leaves of an absolute path: a separator, and none
\* after another or at the end, except in the root.
CleanPath ==
  {p \in Seq(Byte) :
     /\ p # <<>> /\ p[1] = Sep
     /\ Len(p) > 1 => p[Len(p)] # Sep
     /\ \A i \in 2..Len(p) : p[i] = Sep => p[i - 1] # Sep}

\* TrimRight of the separators of a cleaned path.
Base(p) == IF Len(p) = 1 THEN <<>> ELSE p

Dir(p) == Append(Base(p), Sep)

StartsWith(s, prefix) ==
  Len(prefix) <= Len(s) /\ \A i \in 1..Len(prefix) : s[i] = prefix[i]

WithinDir(child, parent) == Len(child) > Len(Dir(parent)) /\ StartsWith(child, Dir(parent))

\* s < t in the BINARY collation: the first byte that differs decides, and a
\* string sorts before its extensions.
Before(s, t) ==
  \E i \in 1..Len(t) :
    /\ i <= Len(s) + 1
    /\ \A j \in 1..(i - 1) : s[j] = t[j]
    /\ i <= Len(s) => s[i] < t[i]

\* The half-open range [p + sep, p + succ(sep)), and p itself.
Selects(p, column) ==
  \/ column = p
  \/ ~Before(column, Dir(p)) /\ Before(column, Append(Base(p), Sep + 1))
==============================================================================
