------------------------------- MODULE MCNotify -------------------------------
(***************************************************************************)
(* Two recipients, two scripts, and reports whose lines end just before,   *)
(* at and just after the room a message has (120 of 200 bytes).            *)
(***************************************************************************)
EXTENDS FmonNotify, SequencesExt

CONSTANTS ann, bob

MCRecipient == {ann, bob}

\* Where lines of these lengths end, a newline after each.
Ends(lengths) == [i \in DOMAIN lengths |-> i + FoldSeq(+, 0, SubSeq(lengths, 1, i))]

\* Lines of the report, each with the length of it.
Line(word, length) == [word |-> word, length |-> length]
Words(lines) == [i \in DOMAIN lines |-> lines[i].word]
Lengths(lines) == [i \in DOMAIN lines |-> lines[i].length]

Told(top, changes) ==
  [ends |-> Ends(Lengths(top \o changes)), top |-> Words(top), changes |-> Words(changes)]

Fmon(length) == Line("[fmon]", length)
Added(length) == Line("ADDED", length)
Modified(length) == Line("MODIFIED", length)
Deleted(length) == Line("DELETED", length)

MCReports ==
  {Told(<<Fmon(59)>>, <<>>),                            \* nothing to tell
   Told(<<Fmon(59), Line("WARNING:", 40)>>, <<>>),
   Told(<<Fmon(59), Line("SOURCE", 20)>>, <<Added(30)>>),    \* short
   Told(<<Fmon(59)>>, <<Modified(59), Deleted(59), Added(20)>>),  \* fills the room exactly
   Told(<<Fmon(59)>>, <<Modified(60), Added(59), Deleted(20)>>),  \* one byte too much
   Told(<<Fmon(119)>>, <<Modified(79)>>),               \* as long as the limit
   Told(<<Fmon(119)>>, <<Modified(80)>>),
   Told(<<Fmon(59), Line("ALERT:", 99), Line("SOURCE", 50)>>,  \* no change is shown
        <<Deleted(30), Deleted(30)>>),
   Told(<<Fmon(120)>>,                                  \* a header that is cut
        [i \in 1..11 |-> IF i < 4 THEN Added(30) ELSE Modified(30)]),
   Told(<<Fmon(250), Line("NOTICE:", 20)>>, <<>>)}

Handed(detail) == [limit |-> 200, detail |-> detail]

Possible == [mail : BOOLEAN, security : Securities, login : BOOLEAN, to : {<<ann, bob>>},
             scripts : {<<Handed("full"), Handed("summary")>>}]

MCSettings == {s \in Possible : s.login => s.security # "none"}
================================================================================
