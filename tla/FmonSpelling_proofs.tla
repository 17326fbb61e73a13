------------------------- MODULE FmonSpelling_proofs -------------------------
(***************************************************************************)
(* The paths of the code form a tree, and the byte range of SubtreeClause  *)
(* is the subtree: for every path, of any length.                          *)
(***************************************************************************)
EXTENDS FmonSpelling, TLAPS

Below == [p \in CleanPath |-> {q \in CleanPath : WithinDir(q, p)}]

LEMMA DirOf ==
  ASSUME NEW p \in CleanPath
  PROVE  /\ p \in Seq(Byte) /\ Len(p) \in Nat /\ Len(p) >= 1
         /\ Base(p) \in Seq(Byte) /\ Len(Base(p)) \in Nat
         /\ Base(p) = p \/ (Len(p) = 1 /\ Base(p) = <<>>)
         /\ Len(Dir(p)) = Len(Base(p)) + 1
         /\ \A i \in 1..Len(Base(p)) : Dir(p)[i] = p[i]
         /\ Dir(p)[Len(Base(p)) + 1] = Sep
         /\ Dir(p) \in Seq(Byte)
         /\ Len(p) <= Len(Dir(p))
<1>1. p \in Seq(Byte) /\ p # <<>> /\ Sep \in Byte
  BY DEF CleanPath, Sep, Byte
<1>2. Len(p) \in Nat /\ Len(p) >= 1
  BY <1>1
<1>3. CASE Len(p) = 1
  BY <1>1, <1>2, <1>3 DEF Base, Dir
<1>4. CASE Len(p) # 1
  BY <1>1, <1>2, <1>4 DEF Base, Dir
<1> QED
  BY <1>3, <1>4

\* A cleaned path of two bytes or more is its own base and does not end in a separator.
LEMMA LongPath ==
  ASSUME NEW p \in CleanPath, Len(p) # 1
  PROVE  Base(p) = p /\ p[Len(p)] # Sep
<1>1. p \in Seq(Byte) /\ p # <<>> /\ (Len(p) > 1 => p[Len(p)] # Sep)
  BY DEF CleanPath
<1>2. Len(p) > 1
  <2>1. Len(p) \in Nat /\ Len(p) # 0
    BY <1>1
  <2>2. \A n \in Nat : n # 0 /\ n # 1 => n > 1
    OBVIOUS
  <2> QED
    BY <2>1, <2>2, Zenon
<1> QED
  BY <1>1, <1>2 DEF Base

\* There is one root.
LEMMA OneRoot ==
  ASSUME NEW p \in CleanPath, NEW q \in CleanPath, Len(p) = 1, Len(q) = 1
  PROVE  p = q
  BY DEF CleanPath

------------------------------------------------------------------------------
(* Containment.                                                              *)

\* within is irreflexive.
LEMMA NotInItself == ASSUME NEW p \in CleanPath PROVE ~WithinDir(p, p)
  BY DirOf DEF WithinDir

\* within is transitive.
LEMMA Deeper ==
  ASSUME NEW p \in CleanPath, NEW q \in CleanPath, NEW r \in CleanPath,
         WithinDir(q, p), WithinDir(r, q)
  PROVE  WithinDir(r, p)
<1>1. /\ Len(q) > Len(Dir(p)) /\ Len(r) > Len(Dir(q))
      /\ \A i \in 1..Len(Dir(p)) : q[i] = Dir(p)[i]
      /\ \A i \in 1..Len(Dir(q)) : r[i] = Dir(q)[i]
  BY DEF WithinDir, StartsWith
<1>2. Len(Dir(p)) \in Nat /\ Len(Dir(p)) >= 1 /\ Len(q) \in Nat /\ Len(r) \in Nat
  BY DirOf
<1>3. Base(q) = q
  BY <1>1, <1>2, LongPath
<1>4. Len(Dir(q)) = Len(q) + 1 /\ \A i \in 1..Len(q) : Dir(q)[i] = q[i]
  BY <1>3, DirOf
<1>5. \A i \in 1..Len(Dir(p)) : r[i] = Dir(p)[i]
  BY <1>1, <1>2, <1>4
<1> QED
  BY <1>1, <1>2, <1>4, <1>5 DEF WithinDir, StartsWith

\* Of two paths that hold a third, the one with the longer spelling is in the other.
LEMMA Nested ==
  ASSUME NEW p \in CleanPath, NEW q \in CleanPath, NEW r \in CleanPath,
         WithinDir(r, p), WithinDir(r, q), Len(Dir(p)) < Len(Dir(q))
  PROVE  WithinDir(q, p)
<1>1. /\ \A i \in 1..Len(Dir(p)) : r[i] = Dir(p)[i]
      /\ \A i \in 1..Len(Dir(q)) : r[i] = Dir(q)[i]
  BY DEF WithinDir, StartsWith
<1>2. /\ Len(Base(p)) \in Nat /\ Len(Dir(p)) = Len(Base(p)) + 1
      /\ Dir(p)[Len(Base(p)) + 1] = Sep
      /\ Len(Base(q)) \in Nat /\ Len(Dir(q)) = Len(Base(q)) + 1 /\ Len(q) \in Nat
  BY DirOf
<1>3. Len(q) # 1
  <2>1. Len(Base(q)) >= 1
    BY <1>2
  <2> QED
    BY <2>1 DEF Base
<1>4. Base(q) = q /\ q[Len(q)] # Sep
  BY <1>3, LongPath
<1>5. Len(q) >= Len(Dir(p)) /\ \A i \in 1..Len(q) : Dir(q)[i] = q[i]
  BY <1>2, <1>4, DirOf
<1>6. \A i \in 1..Len(Dir(p)) : q[i] = Dir(p)[i]
  BY <1>1, <1>2, <1>4, <1>5
<1>7. Len(q) # Len(Dir(p))
  BY <1>2, <1>4, <1>6
<1> QED
  BY <1>2, <1>5, <1>6, <1>7 DEF WithinDir, StartsWith

LEMMA SameDir ==
  ASSUME NEW p \in CleanPath, NEW q \in CleanPath, NEW r \in CleanPath,
         WithinDir(r, p), WithinDir(r, q), Len(Dir(p)) = Len(Dir(q))
  PROVE  p = q
<1>1. /\ \A i \in 1..Len(Dir(p)) : r[i] = Dir(p)[i]
      /\ \A i \in 1..Len(Dir(q)) : r[i] = Dir(q)[i]
  BY DEF WithinDir, StartsWith
<1>2. /\ Len(Base(p)) \in Nat /\ Len(Base(q)) \in Nat
      /\ Len(Dir(p)) = Len(Base(p)) + 1 /\ Len(Dir(q)) = Len(Base(q)) + 1
      /\ \A i \in 1..Len(Base(p)) : Dir(p)[i] = p[i]
      /\ \A i \in 1..Len(Base(q)) : Dir(q)[i] = q[i]
      /\ p \in Seq(Byte) /\ q \in Seq(Byte)
  BY DirOf
<1>3. Len(Base(p)) = Len(Base(q))
  <2>1. /\ Len(Base(p)) \in Nat /\ Len(Base(q)) \in Nat
        /\ Len(Base(p)) + 1 = Len(Base(q)) + 1
    BY <1>2, Zenon
  <2> QED
    BY <2>1
<1>4. CASE Len(p) = 1
  <2>1. Len(Base(q)) = 0
    BY <1>3, <1>4 DEF Base
  <2>2. Len(q) = 1
    BY <2>1, LongPath, DirOf
  <2> QED
    BY <1>4, <2>2, OneRoot
<1>5. CASE Len(p) # 1 /\ Len(q) # 1
  <2>1. Base(p) = p /\ Base(q) = q
    BY <1>5, LongPath
  <2>2. Len(p) = Len(q) /\ \A i \in 1..Len(p) : p[i] = q[i]
    BY <1>1, <1>2, <1>3, <2>1
  <2> QED
    BY <1>2, <2>2
<1>6. CASE Len(p) # 1 /\ Len(q) = 1
  <2>1. Len(Base(p)) = 0
    BY <1>3, <1>6 DEF Base
  <2> QED
    BY <1>6, <2>1, LongPath, DirOf
<1> QED
  BY <1>4, <1>5, <1>6

\* within, 29: the cleaned paths form a tree.  This is PathsFormATree, which the
\* other modules assume of their paths.
THEOREM SpelledPathsFormATree ==
  /\ Below \in [CleanPath -> SUBSET CleanPath]
  /\ \A p \in CleanPath : p \notin Below[p]
  /\ \A p \in CleanPath : \A q \in Below[p] : Below[q] \subseteq Below[p]
  /\ \A p, q \in CleanPath :
       Below[p] \cap Below[q] # {} => (p = q \/ p \in Below[q] \/ q \in Below[p])
<1>1. Below \in [CleanPath -> SUBSET CleanPath]
  BY DEF Below
<1>2. \A p \in CleanPath : p \notin Below[p]
  BY NotInItself DEF Below
<1>3. \A p \in CleanPath : \A q \in Below[p] : Below[q] \subseteq Below[p]
  BY Deeper DEF Below
<1>4. ASSUME NEW p \in CleanPath, NEW q \in CleanPath, Below[p] \cap Below[q] # {}
      PROVE  p = q \/ p \in Below[q] \/ q \in Below[p]
  <2>1. PICK r \in CleanPath : WithinDir(r, p) /\ WithinDir(r, q)
    BY <1>4 DEF Below
  <2>2. Len(Dir(p)) \in Nat /\ Len(Dir(q)) \in Nat
    BY DirOf
  <2>3. CASE Len(Dir(p)) < Len(Dir(q))
    BY <2>1, <2>3, Nested DEF Below
  <2>4. CASE Len(Dir(q)) < Len(Dir(p))
    BY <2>1, <2>4, Nested DEF Below
  <2>5. CASE Len(Dir(p)) = Len(Dir(q))
    BY <2>1, <2>5, SameDir
  <2> QED
    BY <2>2, <2>3, <2>4, <2>5
<1> QED
  BY <1>1, <1>2, <1>3, <1>4

------------------------------------------------------------------------------
(* The byte range.                                                           *)

\* The strings from b + k up to b + (k + 1) are those that start with b + k.
LEMMA Range ==
  ASSUME NEW b \in Seq(Byte), NEW k \in Byte, NEW c \in Seq(Byte)
  PROVE  (~Before(c, Append(b, k)) /\ Before(c, Append(b, k + 1))) <=> StartsWith(c, Append(b, k))
<1> DEFINE lo == Append(b, k)
           hi == Append(b, k + 1)
           n == Len(b)
<1>1. /\ n \in Nat /\ Len(lo) = n + 1 /\ Len(hi) = n + 1
      /\ lo[n + 1] = k /\ hi[n + 1] = k + 1
      /\ \A j \in 1..n : lo[j] = b[j] /\ hi[j] = b[j]
  OBVIOUS
<1>2. k \in Int /\ Len(c) \in Nat /\ \A j \in 1..Len(c) : c[j] \in Int
  <2>1. Byte \subseteq Int
    BY DEF Byte
  <2>2. Len(c) \in Nat /\ \A j \in 1..Len(c) : c[j] \in Byte
    OBVIOUS
  <2> QED
    BY <2>1, <2>2
<1> HIDE DEF lo, hi, n
<1>3. ASSUME StartsWith(c, lo) PROVE ~Before(c, lo) /\ Before(c, hi)
  <2>1. n + 1 <= Len(c) /\ \A j \in 1..(n + 1) : c[j] = lo[j]
    BY <1>1, <1>3 DEF StartsWith
  <2>2. ~Before(c, lo)
    BY <1>1, <1>2, <2>1 DEF Before
  <2>3. /\ n + 1 \in 1..Len(hi) /\ n + 1 <= Len(c) + 1 /\ c[n + 1] < hi[n + 1]
        /\ \A j \in 1..((n + 1) - 1) : c[j] = hi[j]
    BY <1>1, <1>2, <2>1
  <2>4. Before(c, hi)
    <3>1. \E i \in 1..Len(hi) :
            /\ i <= Len(c) + 1
            /\ \A j \in 1..(i - 1) : c[j] = hi[j]
            /\ i <= Len(c) => c[i] < hi[i]
      <4> DEFINE m == n + 1
      <4>1. /\ m \in 1..Len(hi) /\ m <= Len(c) + 1 /\ (m <= Len(c) => c[m] < hi[m])
            /\ \A j \in 1..(m - 1) : c[j] = hi[j]
        BY <2>3
      <4> HIDE DEF m
      <4> QED
        BY <4>1, Zenon
    <3> QED
      BY <3>1, Zenon DEF Before
  <2> QED
    BY <2>2, <2>4
<1>4. ASSUME ~Before(c, lo), Before(c, hi) PROVE StartsWith(c, lo)
  <2>1. PICK i \in 1..(n + 1) :
          /\ i <= Len(c) + 1
          /\ \A j \in 1..(i - 1) : c[j] = hi[j]
          /\ i <= Len(c) => c[i] < hi[i]
    BY <1>1, <1>4 DEF Before
  <2>a. i \in Int /\ i <= n + 1 /\ 1 <= i
    BY <1>1, <2>1
  <2>2. ~(/\ i <= Len(c) + 1
          /\ \A j \in 1..(i - 1) : c[j] = lo[j]
          /\ i <= Len(c) => c[i] < lo[i])
    BY <1>1, <1>4 DEF Before
  <2>3. \A j \in 1..(i - 1) : c[j] = lo[j]
    <3> TAKE j \in 1..(i - 1)
    <3>1. j \in 1..n
      BY <1>1, <2>a
    <3>2. c[j] = hi[j]
      BY <2>1, Zenon
    <3> QED
      BY <1>1, <3>1, <3>2
  <2>4. i = n + 1
    <3>1. SUFFICES ASSUME i # n + 1 PROVE FALSE
      OBVIOUS
    <3>2. i \in 1..n /\ lo[i] = hi[i]
      BY <1>1, <2>a, <3>1
    <3>3. i <= Len(c) + 1 /\ (i <= Len(c) => c[i] < lo[i])
      BY <2>1, <3>2, Zenon
    <3> QED
      BY <2>2, <2>3, <3>3, Zenon
  <2>5. n + 1 <= Len(c) /\ ~(c[n + 1] < k) /\ c[n + 1] < k + 1
    <3>1. i = n + 1 /\ lo[i] = k /\ hi[i] = k + 1
      BY <1>1, <2>4
    <3>2. i <= Len(c) /\ ~(c[i] < lo[i])
      BY <2>1, <2>2, <2>3, Zenon
    <3>3. c[i] < hi[i]
      BY <2>1, <3>2, Zenon
    <3> QED
      BY <3>1, <3>2, <3>3
  <2>6. c[n + 1] = k
    BY <1>1, <1>2, <2>5
  <2>7. \A j \in 1..(n + 1) : c[j] = lo[j]
    BY <1>1, <2>3, <2>4, <2>6
  <2> QED
    BY <1>1, <2>5, <2>7 DEF StartsWith
<1> QED
  BY <1>3, <1>4 DEF lo, hi

\* SubtreeClause, 378: the clause selects the path and what lies within it, no more
\* and no less, whatever bytes the names hold.
THEOREM RangeIsSubtree ==
  \A p, c \in CleanPath : Selects(p, c) <=> c = p \/ c \in Below[p]
<1> SUFFICES ASSUME NEW p \in CleanPath, NEW c \in CleanPath
             PROVE  Selects(p, c) <=> c = p \/ WithinDir(c, p)
  BY DEF Below
<1>1. Selects(p, c) <=> c = p \/ StartsWith(c, Dir(p))
  <2>1. Base(p) \in Seq(Byte) /\ Sep \in Byte /\ c \in Seq(Byte)
    BY DirOf DEF Byte, Sep
  <2> QED
    BY <2>1, Range DEF Selects, Dir
<1>2. ASSUME StartsWith(c, Dir(p)), ~WithinDir(c, p) PROVE c = p
  <2>1. /\ Len(c) \in Nat /\ Len(Base(p)) \in Nat /\ Len(Dir(p)) = Len(Base(p)) + 1
        /\ Dir(p)[Len(Base(p)) + 1] = Sep
    BY DirOf
  <2>2. Len(c) = Len(Dir(p)) /\ c[Len(c)] = Sep
    BY <1>2, <2>1 DEF WithinDir, StartsWith
  <2>3. Len(c) = 1
    BY <2>2, LongPath
  <2>4. Len(p) = 1
    BY <2>1, <2>2, <2>3, LongPath, DirOf
  <2> QED
    BY <2>3, <2>4, OneRoot
<1> QED
  BY <1>1, <1>2 DEF WithinDir
==============================================================================
