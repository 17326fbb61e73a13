------------------------------ MODULE FmonLedger ------------------------------
(***************************************************************************)
(* What fmon promises, without transactions, walks or a disk: a ledger of  *)
(* watched sources, the baseline hash of every file, and a log.  A step is *)
(* one command that took effect as a whole.  While a source stays watched  *)
(* and the ledger is trusted, a baseline hash changes only together with   *)
(* one record that names the old and the new hash.                         *)
(***************************************************************************)
EXTENDS FmonPaths, Sequences

CONSTANTS
  Nil,
  Content,
  Excludable   \* paths some exclude list covers: they may be forgotten

VARIABLES
  watched,    \* the watched sources
  away,       \* those whose loss has been reported
  baseline,   \* [Path -> Content \cup {Nil}]
  log,        \* [Path -> Seq(record)]
  trusted     \* FALSE while the next scan has to rebuild the baseline

ledgerVars == <<watched, away, baseline, log, trusted>>

Covered(sources) == UNION {Tree(s) : s \in sources}

Nothing == [p \in Path |-> Nil]
NoLog == [p \in Path |-> <<>>]

Change(old, new) ==
  [event |-> IF old = Nil THEN "ADDED" ELSE IF new = Nil THEN "DELETED" ELSE "MODIFIED",
   old |-> old, new |-> new]

Outage == [event |-> "DELETED", old |-> Nil, new |-> Nil]

LedgerInit ==
  /\ watched = {}
  /\ away = {}
  /\ baseline = Nothing
  /\ log = NoLog
  /\ trusted = TRUE

\* The records p may get when its baseline becomes new: an outage is recorded
\* for the root of a source, when it begins.  The baseline the root then had as
\* a file of another source goes with that source.
Records(p, new, silent) ==
  (IF /\ p \in away' \ away
      /\ new = baseline[p] \/ (new = Nil /\ p \notin Covered(watched \cap watched'))
   THEN {<<Outage>>} ELSE {})
    \cup (IF new # baseline[p] THEN {<<Change(baseline[p], new)>>} ELSE {})
    \cup (IF silent \/ (new = baseline[p] /\ p \notin away' \ away) THEN {<<>>} ELSE {})

\* Some sources are kept, others dropped or newly watched, and the baseline is
\* compared with what is on disk.
Compare(keep, new, quiet) ==
  /\ watched' = keep \cup new
  /\ \A s, t \in watched' : s # t => ~Overlaps(s, t)
  /\ away' \in SUBSET watched'
  /\ baseline' \in [Path -> Content \cup {Nil}]
  /\ \A p \in Path \ Covered(watched') : baseline'[p] = Nil
  /\ \A p \in Covered(keep \cap away') : baseline'[p] = baseline[p]
  /\ \A p \in Path :
       \E r \in Records(p, baseline'[p],
                        \/ quiet
                        \/ p \notin Covered(keep)
                        \/ p \in Excludable /\ baseline'[p] = Nil) :
         log'[p] = log[p] \o r

\* fmon scan: reconciled with the configuration, then compared.
Snapshot ==
  \E keep \in SUBSET watched, new \in SUBSET (Path \ watched) :
    /\ Compare(keep, new, ~trusted)
    /\ trusted' = TRUE

\* fmon add.
Enrol ==
  \E s \in Path \ watched :
    /\ Compare(watched, {s}, FALSE)
    /\ \A p \in Path \ Tree(s) : baseline'[p] = baseline[p] /\ log'[p] = log[p]
    /\ away' \ {s} = away
    /\ UNCHANGED trusted

\* fmon rm.
Drop ==
  \E s \in Path :
    /\ watched' = watched \ {s}
    /\ away' = away \ {s}
    /\ baseline' = [p \in Path |-> IF p \in Covered(watched') THEN baseline[p] ELSE Nil]
    /\ UNCHANGED <<log, trusted>>

\* fmon clear --path or --history-all.
Forget ==
  \E paths \in {Tree(p) : p \in Path} \cup {Path} :
    /\ log' = [q \in Path |-> IF q \in paths THEN <<>> ELSE log[q]]
    /\ UNCHANGED <<watched, away, baseline, trusted>>

\* fmon init, or the loss of the database.
Wipe ==
  /\ watched' = {}
  /\ away' = {}
  /\ baseline' = Nothing
  /\ log' = NoLog
  /\ trusted' \in BOOLEAN

LedgerNext == Snapshot \/ Enrol \/ Drop \/ Forget \/ Wipe

LedgerSpec == LedgerInit /\ [][LedgerNext]_ledgerVars
==============================================================================
