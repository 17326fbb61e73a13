------------------------------ MODULE FmonPaths ------------------------------
(***************************************************************************)
(* The file system name space as fmon sees it.  A path is an opaque value; *)
(* Below[p] is the set of paths strictly inside p.  Only containment is    *)
(* ever asked of a path by the scanner (within, overlaps, underAny and the *)
(* SubtreeClause of the queries), so the spelling is left out.             *)
(***************************************************************************)

CONSTANTS
  Path,    \* every cleaned absolute path the model talks about
  Below    \* [Path -> SUBSET Path]: what lies strictly inside a path

\* Containment is a strict order, and the ancestors of a path form a chain.
ASSUME PathsFormATree ==
  /\ Below \in [Path -> SUBSET Path]
  /\ \A p \in Path : p \notin Below[p]
  /\ \A p \in Path : \A q \in Below[p] : Below[q] \subseteq Below[p]
  /\ \A p, q \in Path :
       Below[p] \cap Below[q] # {} => (p = q \/ p \in Below[q] \/ q \in Below[p])

Within(child, parent) == child \in Below[parent]

Overlaps(a, b) == a = b \/ Within(a, b) \/ Within(b, a)

Apart(sources) == \A s, t \in sources : s # t => ~Overlaps(s, t)

UnderAny(p, dirs) == \E d \in dirs : Within(p, d)

\* A path and everything below it: what SubtreeClause selects.
Tree(p) == {p} \cup Below[p]

\* The entries a directory listing of p returns.
Children(p) == {c \in Below[p] : \A q \in Below[p] : ~Within(c, q)}

\* Mutant: no overlap is refused.
AllOf(C) == C

\* The paths of C that reconcile accepts: they are sorted, a parent directory
\* sorts before its children, and a path overlapping an accepted one is skipped.
Topmost(C) == {p \in C : \A q \in C : ~Within(p, q)}
==============================================================================
