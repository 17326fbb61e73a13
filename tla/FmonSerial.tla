------------------------------ MODULE FmonSerial ------------------------------
(***************************************************************************)
(* What the write lock promises: however many fmon processes run, their    *)
(* commands take effect on the database one at a time and as a whole, each *)
(* on what the one before it left.                                         *)
(***************************************************************************)
EXTENDS FmonPaths

CONSTANTS NoCommand

VARIABLES
  watched,   \* the watched sources
  request,   \* must the next scan rebuild the baseline?
  last       \* the command that took effect last

serialVars == <<watched, request, last>>

SerialInit ==
  /\ Apart(watched)
  /\ request = FALSE
  /\ last = NoCommand

\* fmon scan, with the configuration it has loaded.
Reconcile(conf) ==
  /\ last' = [cmd |-> "scan", what |-> conf]
  /\ watched' = Topmost(conf)
  /\ request' = FALSE

Enlist(p) ==
  /\ last' = [cmd |-> "add", what |-> {p}]
  /\ \A s \in watched : ~Overlaps(p, s)
  /\ watched' = watched \cup {p}
  /\ UNCHANGED request

Strike(p) ==
  /\ last' = [cmd |-> "rm", what |-> {p}]
  /\ watched' = watched \ {p}
  /\ UNCHANGED request

Wipe ==
  /\ last' \in {last, [cmd |-> "init", what |-> {}]}
  /\ watched' = {}
  /\ request' = FALSE

\* A process that found no database asks for a new baseline.
Ask == request' = TRUE /\ UNCHANGED <<watched, last>>

SerialNext ==
  \/ \E conf \in SUBSET Path : Reconcile(conf)
  \/ \E p \in Path : Enlist(p) \/ Strike(p)
  \/ Wipe
  \/ Ask

SerialSpec == SerialInit /\ [][SerialNext]_serialVars
================================================================================
