-------------------------------- MODULE MCFmon --------------------------------
(***************************************************************************)
(* A small machine for TLC: a folder S with a file Sa and a subfolder Sd   *)
(* that holds a file Sh, and a file T outside S.  Both contents have the   *)
(* same size, so only the modification time tells them apart.              *)
(***************************************************************************)
EXTENDS FmonScanProps

CONSTANTS S, Sa, Sd, Sh, T, c1, c2

MCPath == {S, Sa, Sd, Sh, T}

\* Their names, in the order of the bytes: /s, /s/d, /s/d!, /s/d/h and /s0, so
\* that a name that is no more than a prefix of another is a neighbour of it.
Spelling == INSTANCE FmonSpelling
MCName == [p \in MCPath |-> CASE p = S -> <<47, 115>>
                              [] p = Sd -> <<47, 115, 47, 100>>
                              [] p = Sa -> <<47, 115, 47, 100, 33>>
                              [] p = Sh -> <<47, 115, 47, 100, 47, 104>>
                              [] p = T -> <<47, 115, 48>>]
MCBelow == [p \in MCPath |-> {q \in MCPath : Spelling!WithinDir(MCName[q], MCName[p])}]

ASSUME NamesAreClean == \A p \in MCPath : MCName[p] \in Spelling!CleanPath
ASSUME RangeIsTree ==
  \A p, q \in MCPath : Spelling!Selects(MCName[p], MCName[q]) <=> q = p \/ q \in MCBelow[p]

MCContent == {c1, c2}
MCSizeOf == [c \in MCContent |-> 1]
MCFirstDisk == [p \in MCPath |-> CASE p \in {S, Sd} -> NonFile("dir")
                                   [] OTHER -> RegularFile(c1, 0)]

ASSUME DiskOfDirectories == FilesAreInDirectories /\ ListingsReachAll

\* What may come to be where.
MCShapes == [p \in MCPath |-> CASE p = S -> {"dir"}
                                [] p = Sd -> {"none", "dir"}
                                [] OTHER -> {"none", "file"}]
MCLinkShapes == [p \in MCPath |-> CASE p = S -> {"none", "dir", "other"}
                                    [] p = T -> {"none", "dir"}
                                    [] p = Sd -> {"dir", "file"}
                                    [] OTHER -> {"none", "other"}]
MCLedgerShapes == [p \in MCPath |-> CASE p = T -> {"none", "file"}
                                      [] p = Sd -> {"none", "dir"}
                                      [] OTHER -> {}]
MCNoShapes == [p \in MCPath |-> {}]

\* What the user may write into fmon.toml.
Listing(sources, exclude) == [sources |-> sources, exclude |-> exclude]

MCPlainConfig == {Listing({S, T}, {})}
MCOnlyT == {Listing({T}, {})}
MCExcludeConfigs == {Listing({S, T}, {}), Listing({S}, {Sd, Sh})}
MCLedgerConfigs == {Listing({S, Sd, T}, {Sa}), Listing({Sd}, {Sa}), Listing({}, {Sa})}
MCHandAdded == {Listing({T}, {}), Listing({S, T}, {})}
MCDirExcluded == {Listing({S}, {}), Listing({S}, {Sd})}

\* How scans are restricted.
MCNoFilter == {{}}
MCFilterT == {{}, {T}}
================================================================================
