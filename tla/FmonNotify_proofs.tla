-------------------------- MODULE FmonNotify_proofs --------------------------
(***************************************************************************)
(* For every report, every setting and any number of recipients and        *)
(* scripts: no sink is forgotten, the mail reaches all or nobody and never *)
(* crosses the network in the clear, and every message fits its limit and  *)
(* accounts for the changes it leaves out.                                 *)
(***************************************************************************)
EXTENDS FmonNotify, FiniteSetTheorems, TLAPS

(***************************************************************************)
(* The inductive invariant.                                                *)
(***************************************************************************)

MailPlaces == {"password", "connect"} \cup Conversation
ScriptPlaces == {"script", "lines", "trailer", "run", "running", "draining"}
MessagePlaces == ScriptPlaces \ {"script"}
Everyone == {cfg.to[i] : i \in DOMAIN cfg.to}

\* The conversation: whom the server has accepted so far, and who has mail.
Counted ==
  /\ pc \in MailPlaces => cfg.mail
  /\ pc \in {"start", "log"} \cup (MailPlaces \ {"rcpt", "data", "body", "quit"})
       => accepted = 0
  /\ pc = "rcpt" => accepted < Len(cfg.to)
  /\ pc \in {"data", "body"} => accepted = Len(cfg.to)
  /\ mailbox = {} \/ mailbox = Everyone
  /\ pc = "quit" => mailbox = Everyone

\* The connection: encrypted before anything of value is sent.
Secret ==
  /\ exposed # {} => cfg.security = "none"
  /\ pc = "greeting" => (cfg.security = "tls" => encrypted)
  /\ pc = "starttls" => cfg.security = "starttls"
  /\ pc \in {"auth", "from", "rcpt", "data", "body", "quit"}
       => cfg.security = "none" \/ encrypted

\* The message: how long it is at each stage of its making.
Fitting ==
  /\ pc \in MessagePlaces => turn \in DOMAIN cfg.scripts
  /\ pc = "lines" => text.size <= Budget(Current.limit)
  /\ pc = "trailer" => text.size <= Budget(Current.limit) + 1
  /\ pc = "run" => text.size \in 1..Current.limit
  /\ MessageFits

\* The dispatch: a sink whose turn is over has its report or has failed.
Served ==
  /\ pc \in {"start", "log"} => errs = {}
  /\ pc \notin {"start", "log", "exit"} => logged \/ <<"log", 0>> \in errs
  /\ pc \in ScriptPlaces /\ cfg.mail => Reached(<<"smtp", 0>>) \/ <<"smtp", 0>> \in errs
  /\ \A i \in 1..(turn - 1) : i \in DOMAIN served \/ Sink(i) \in errs
  /\ pc \in {"running", "draining"} => turn \in DOMAIN served
  /\ NoSinkIsForgotten

\* The account: a text has no more lines than its report, and leaves out no change
\* that it does not count.
Accounted ==
  /\ pc \in {"lines", "trailer"} => text.kept <= Len(Lines)
  /\ MessageAccountsForChanges

IInv == TypeOK /\ Counted /\ Secret /\ Fitting /\ Served /\ Accounted

------------------------------------------------------------------------------
(* The operators.                                                            *)

\* The trailer is at most 50 bytes long and at least one, whatever it counts.
LEMMA TrailerLength == \A n \in Nat : Trailer(n) \in 1..50
<1> SUFFICES ASSUME NEW n \in Nat PROVE Trailer(n) \in 1..50
  OBVIOUS
<1> DEFINE Below == {k \in 0..8 : n >= 10 ^ k}
<1>1. IsFiniteSet(0..8) /\ Cardinality(0..8) = 9
  <2>1. 0 \in Int /\ 8 \in Int
    OBVIOUS
  <2>2. IsFiniteSet(0..8) /\ Cardinality(0..8) = IF 0 > 8 THEN 0 ELSE 8 - 0 + 1
    BY <2>1, FS_Interval, Zenon
  <2> QED
    BY <2>2
<1>2. Cardinality(Below) \in 0..9
  <2> HIDE DEF Below
  <2>1. Below \subseteq 0..8
    BY DEF Below
  <2>2. IsFiniteSet(Below) /\ Cardinality(Below) <= Cardinality(0..8)
    BY <1>1, <2>1, FS_Subset
  <2>3. Cardinality(Below) \in Nat
    BY <2>2, FS_CardinalityType
  <2> QED
    BY <1>1, <2>2, <2>3
<1>3. Digits(n) \in 0..9
  BY <1>2 DEF Digits
<1> QED
  BY <1>3 DEF Trailer

\* A message and its changes have the types they should.
LEMMA LinesType ==
  ASSUME rep \in Report, cfg \in Setting, turn \in DOMAIN cfg.scripts
  PROVE  /\ Current \in Script /\ Current.limit >= 200
         /\ HeadLines \in Nat \ {0}
         /\ Lines \in Seq(Nat \ {0}) /\ Len(Lines) >= HeadLines
         /\ Len(rep.changes) \in Nat
         /\ Len(Lines) = HeadLines
                           + IF Current.detail = "full" THEN Len(rep.changes) ELSE 0
<1>1. /\ rep.ends \in Seq(Nat \ {0}) /\ HeadLines \in Nat \ {0} /\ Len(rep.changes) \in Nat
      /\ Len(rep.ends) = HeadLines + Len(rep.changes)
  BY DEF Report, HeadLines
<1>2. cfg.scripts \in Seq(Script) /\ \A i \in DOMAIN cfg.scripts : cfg.scripts[i].limit >= 200
  BY DEF Setting
<1>3. Current \in Script /\ Current.limit >= 200
  BY <1>2 DEF Current
<1>4. /\ SubSeq(rep.ends, 1, HeadLines) \in Seq(Nat \ {0})
      /\ Len(SubSeq(rep.ends, 1, HeadLines)) = HeadLines
  BY <1>1
<1> QED
  BY <1>1, <1>3, <1>4 DEF Lines

\* isChangeLine knows the lines of the changes, all of them and no others.
LEMMA ChangeLines ==
  ASSUME rep \in Report, cfg \in Setting, turn \in DOMAIN cfg.scripts
  PROVE  \A i \in 1..Len(Lines) : IsChangeLine(Word(i)) <=> i > HeadLines
<1> SUFFICES ASSUME NEW i \in 1..Len(Lines) PROVE IsChangeLine(Word(i)) <=> i > HeadLines
  OBVIOUS
<1>1. /\ rep.top \in Seq(Heads) /\ rep.changes \in Seq(Events)
  BY DEF Report
<1>2. /\ HeadLines \in Nat /\ HeadLines = Len(rep.top) /\ Len(Lines) \in Nat
      /\ Len(rep.changes) \in Nat /\ Len(Lines) <= HeadLines + Len(rep.changes)
  <2>1. /\ HeadLines \in Nat /\ Len(rep.changes) \in Nat
        /\ Len(Lines) = HeadLines
                          + IF Current.detail = "full" THEN Len(rep.changes) ELSE 0
    BY LinesType
  <2>2. Len(Lines) \in Nat /\ Len(Lines) <= HeadLines + Len(rep.changes)
    BY <2>1
  <2>3. HeadLines = Len(rep.top)
    BY DEF HeadLines
  <2> QED
    BY <2>1, <2>2, <2>3
<1>3. i \in Nat \ {0} /\ i <= Len(Lines)
  BY <1>2
<1>4. CASE i <= HeadLines
  <2>1. rep.top[i] \in Heads
    BY <1>1, <1>2, <1>3, <1>4
  <2> QED
    BY <1>2, <1>3, <1>4, <2>1 DEF IsChangeLine, Word, Heads
<1>5. CASE i > HeadLines
  <2>1. i - HeadLines \in 1..Len(rep.changes)
    <3> DEFINE h == HeadLines
               m == Len(rep.changes)
               n == Len(Lines)
    <3>1. /\ h \in Nat /\ m \in Nat /\ n \in Nat /\ n <= h + m
          /\ i \in Nat /\ i > h /\ i <= n
      BY <1>2, <1>3, <1>5, Zenon
    <3> HIDE DEF h, m, n
    <3>2. i - h \in 1..m
      BY <3>1
    <3> QED
      BY <3>2 DEF h, m
  <2>2. rep.changes[i - HeadLines] \in Events
    BY <1>1, <2>1
  <2> QED
    BY <1>2, <1>3, <1>5, <2>2 DEF IsChangeLine, Word, Events
<1> QED
  BY <1>2, <1>3, <1>4, <1>5

\* What is left out, when the first lines are kept: the changes after them.
LEMMA Counting ==
  ASSUME rep \in Report, cfg \in Setting, turn \in DOMAIN cfg.scripts, NEW kept \in Nat
  PROVE  /\ Omitted(kept) \in Nat
         /\ kept <= Len(Lines) =>
              Omitted(kept) = Len(Lines) - (IF kept > HeadLines THEN kept ELSE HeadLines)
<1> DEFINE Left == {i \in (kept + 1)..Len(Lines) : IsChangeLine(Word(i))}
           from == IF kept > HeadLines THEN kept ELSE HeadLines
<1>1. /\ HeadLines \in Nat /\ Len(Lines) \in Nat /\ Len(Lines) >= HeadLines
      /\ from \in Nat /\ from >= kept /\ from >= HeadLines
  BY LinesType
<1>2. IsFiniteSet(Left) /\ Cardinality(Left) \in Nat
  <2>1. kept + 1 \in Int /\ Len(Lines) \in Int
    BY <1>1
  <2>2. IsFiniteSet((kept + 1)..Len(Lines))
    BY <2>1, FS_Interval, Zenon
  <2>3. IsFiniteSet(Left)
    BY <2>2, FS_Subset
  <2> QED
    BY <2>3, FS_CardinalityType
<1>3. Omitted(kept) = Cardinality(Left)
  BY DEF Omitted
<1>4. ASSUME kept <= Len(Lines) PROVE Cardinality(Left) = Len(Lines) - from
  <2>1. Left = (from + 1)..Len(Lines)
    <3>1. \A i \in 1..Len(Lines) : IsChangeLine(Word(i)) <=> i > HeadLines
      BY ChangeLines
    <3>2. \A i \in (kept + 1)..Len(Lines) : i \in 1..Len(Lines)
      BY <1>1
    <3>3. \A i \in (kept + 1)..Len(Lines) : IsChangeLine(Word(i)) <=> i > HeadLines
      BY <3>1, <3>2
    <3>4. Left = {i \in (kept + 1)..Len(Lines) : i > HeadLines}
      BY <3>3
    <3> HIDE DEF Left
    <3> QED
      BY <1>1, <3>4
  <2>2. from + 1 \in Int /\ Len(Lines) \in Int
    BY <1>1
  <2> HIDE DEF Left, from
  <2>3. Cardinality((from + 1)..Len(Lines))
          = IF from + 1 > Len(Lines) THEN 0 ELSE Len(Lines) - (from + 1) + 1
    BY <2>2, FS_Interval, Zenon
  <2>4. from <= Len(Lines)
    BY <1>1, <1>4 DEF from
  <2> QED
    BY <1>1, <2>1, <2>3, <2>4
<1> QED
  BY <1>2, <1>3, <1>4

------------------------------------------------------------------------------
(* Types.                                                                    *)

Text == [kept : Nat, size : Nat, omitted : Nat]

\* The edits of truncateMessage.
LEMMA TextEdits ==
  ASSUME NEW t \in Text, NEW k \in Nat, NEW n \in Nat
  PROVE  /\ [t EXCEPT !.kept = k, !.size = n] \in Text
         /\ [t EXCEPT !.omitted = k, !.size = n] \in Text
         /\ [t EXCEPT !.kept = k, !.size = n].size = n
         /\ [t EXCEPT !.kept = k, !.size = n].kept = k
         /\ [t EXCEPT !.omitted = k, !.size = n].size = n
  BY DEF Text

LEMMA InitTypes == Init => TypeOK
<1> SUFFICES ASSUME Init PROVE TypeOK
  OBVIOUS
<1>1. rep \in Report /\ cfg \in Setting
  BY NotifyConstants DEF Init
<1>2. Len(cfg.to) \in Nat /\ Len(cfg.scripts) \in Nat
  BY <1>1 DEF Setting
<1>3. DOMAIN served = {}
  BY DEF Init
<1>4. text \in [kept : Nat, size : Nat, omitted : Nat]
  BY DEF Init, NoText
<1>5. /\ pc \in Places /\ errs \subseteq Sinks /\ interrupted \in BOOLEAN /\ code \in {0, 2}
      /\ logged \in BOOLEAN /\ encrypted \in BOOLEAN /\ accepted \in 0..Len(cfg.to)
      /\ exposed \subseteq {"password", "envelope", "message"} /\ mailbox \subseteq Recipient
      /\ status \in {"unknown", "ok", "failed"}
  <2>1. /\ pc = "start" /\ errs = {} /\ interrupted = FALSE /\ code = 0 /\ logged = FALSE
        /\ encrypted = FALSE /\ accepted = 0 /\ exposed = {} /\ mailbox = {}
        /\ status = "unknown"
    BY DEF Init
  <2>2. interrupted \in BOOLEAN /\ logged \in BOOLEAN /\ encrypted \in BOOLEAN
    BY <2>1, Zenon
  <2>3. accepted \in 0..Len(cfg.to) /\ code \in {0, 2}
    BY <1>2, <2>1
  <2>4. pc \in Places /\ status \in {"unknown", "ok", "failed"}
    BY <2>1 DEF Places
  <2> QED
    BY <2>1, <2>2, <2>3, <2>4
<1>6. turn \in 1..(Len(cfg.scripts) + 1)
  BY <1>2 DEF Init
<1> QED
  BY <1>1, <1>3, <1>4, <1>5, <1>6 DEF TypeOK

\* The parts of the state the mail works on keep their types.
LEMMA MailTypes == TypeOK /\ Counted /\ (Mail \/ Deadline) => TypeOK'
<1> SUFFICES ASSUME TypeOK, Counted, Mail \/ Deadline PROVE TypeOK'
  OBVIOUS
<1> USE DEF Places, Conversation
<1>1. cfg.to \in Seq(Recipient) /\ Len(cfg.to) \in Nat
  BY DEF TypeOK, Setting
<1>2. UNCHANGED <<rep, cfg, interrupted, code, logged, turn, text, status, served>>
  BY DEF Mail, Deadline, ReadPassword, Connect, Greet, StartTLS, Authenticate, MailFrom,
         RcptTo, Data, Body, Quit, Exchange, mailFrame, scriptVars
<1>3. pc' \in Places
  BY DEF Mail, Deadline, ReadPassword, Connect, Greet, StartTLS, Authenticate, MailFrom,
         RcptTo, Data, Body, Quit, Exchange, Proceed, MailFails, AfterTLS
<1>4. pc \in MailPlaces
  BY DEF Mail, Deadline, ReadPassword, Connect, Greet, StartTLS, Authenticate, MailFrom,
         RcptTo, Data, Body, Quit, Exchange, MailPlaces
<1>5. errs' \subseteq Sinks'
  <2>1. errs' = errs \/ MailFails
    BY DEF Mail, Deadline, ReadPassword, Connect, Greet, StartTLS, Authenticate, MailFrom,
           RcptTo, Data, Body, Quit, Exchange, Proceed
  <2>2. errs' \subseteq errs \cup {<<"smtp", 0>>}
    BY <2>1 DEF MailFails, Fail
  <2>3. <<"smtp", 0>> \in Sinks /\ errs \subseteq Sinks
    BY <1>4 DEF TypeOK, Counted, Sinks
  <2>4. Sinks' = Sinks
    BY <1>2 DEF Sinks, Sink
  <2> QED
    BY <2>2, <2>3, <2>4
<1>6. encrypted' \in BOOLEAN
  BY DEF Mail, Deadline, ReadPassword, Connect, Greet, StartTLS, Authenticate, MailFrom,
         RcptTo, Data, Body, Quit, Exchange, mailVars, TypeOK
<1>7. accepted' \in 0..Len(cfg.to)
  BY <1>1 DEF Mail, Deadline, ReadPassword, Connect, Greet, StartTLS, Authenticate, MailFrom,
         RcptTo, Data, Body, Quit, Exchange, mailVars, TypeOK, Counted
<1>8. exposed' \subseteq {"password", "envelope", "message"}
  BY DEF Mail, Deadline, ReadPassword, Connect, Greet, StartTLS, Authenticate, MailFrom,
         RcptTo, Data, Body, Quit, Exchange, mailVars, Send, TypeOK
<1>9. mailbox' \subseteq Recipient
  BY <1>1 DEF Mail, Deadline, ReadPassword, Connect, Greet, StartTLS, Authenticate, MailFrom,
         RcptTo, Data, Body, Quit, Exchange, mailVars, TypeOK
<1> QED
  BY <1>2, <1>3, <1>5, <1>6, <1>7, <1>8, <1>9 DEF TypeOK, Sinks, Sink

\* The parts of the state the dispatch and the scripts work on keep their types.
LEMMA ScriptTypes ==
  TypeOK /\ Fitting /\ (Local \/ ScriptExits \/ OutputCloses \/ KillScript \/ WaitDelay)
    => TypeOK' \/ ReadPassword
<1> SUFFICES ASSUME TypeOK, Fitting, ~ReadPassword,
                    Local \/ ScriptExits \/ OutputCloses \/ KillScript \/ WaitDelay
             PROVE  TypeOK'
  OBVIOUS
<1> USE DEF Places, Conversation, MessagePlaces, ScriptPlaces
<1>1. Len(cfg.to) \in Nat /\ Len(cfg.scripts) \in Nat /\ DOMAIN cfg.scripts = 1..Len(cfg.scripts)
  BY DEF TypeOK, Setting
<1>2. UNCHANGED <<rep, cfg, interrupted, encrypted, accepted, exposed, mailbox>>
  BY DEF Local, Start, AppendLog, NoScriptLeft, Message, BeginMessage, KeepLine, CutHeader,
         LinesKept, AddTrailer, StartScript, StartFails, ScriptExits, OutputCloses, KillScript,
         WaitDelay, scriptFrame, mailVars, scriptVars
<1>3. pc' \in Places
  BY DEF Local, Start, AppendLog, NoScriptLeft, Message, BeginMessage, KeepLine, CutHeader,
         LinesKept, AddTrailer, StartScript, StartFails, ScriptExits, OutputCloses, KillScript,
         WaitDelay, ScriptDone, Leave, TypeOK
<1>4. code' \in {0, 2} /\ logged' \in BOOLEAN
  BY DEF Local, Start, AppendLog, NoScriptLeft, Message, BeginMessage, KeepLine, CutHeader,
         LinesKept, AddTrailer, StartScript, StartFails, ScriptExits, OutputCloses, KillScript,
         WaitDelay, ScriptDone, Leave, TypeOK, scriptFrame
<1>5. errs' \subseteq Sinks'
  <2>1. Sinks' = Sinks
    BY <1>2 DEF Sinks, Sink
  <2>2. \/ UNCHANGED errs
        \/ Fail(<<"log", 0>>)
        \/ pc \in MessagePlaces /\ Fail(Sink(turn))
    BY DEF Local, Start, AppendLog, NoScriptLeft, Message, BeginMessage, KeepLine, CutHeader,
           LinesKept, AddTrailer, StartScript, StartFails, ScriptExits, OutputCloses, KillScript,
           WaitDelay, ScriptDone, scriptVars
  <2>3. <<"log", 0>> \in Sinks /\ (pc \in MessagePlaces => Sink(turn) \in Sinks)
    BY DEF Sinks, Fitting
  <2> QED
    BY <2>1, <2>2, <2>3 DEF Fail, TypeOK
<1>6. turn' \in 1..(Len(cfg.scripts) + 1)
  <2>1. UNCHANGED turn \/ (pc \in MessagePlaces /\ \E outcome : ScriptDone(outcome))
    BY DEF Local, Start, AppendLog, NoScriptLeft, Message, BeginMessage, KeepLine, CutHeader,
           LinesKept, AddTrailer, StartScript, StartFails, ScriptExits, OutputCloses, KillScript,
           WaitDelay, scriptVars
  <2> QED
    BY <1>1, <2>1 DEF TypeOK, Fitting, ScriptDone
<1>7. status' \in {"unknown", "ok", "failed"}
  BY DEF Local, Start, AppendLog, NoScriptLeft, Message, BeginMessage, KeepLine, CutHeader,
         LinesKept, AddTrailer, StartScript, StartFails, ScriptExits, OutputCloses, KillScript,
         WaitDelay, ScriptDone, scriptVars, TypeOK
<1>8. text' \in [kept : Nat, size : Nat, omitted : Nat]
  <2>1. text \in Text /\ NoText \in Text /\ text.size \in Nat /\ text.kept \in Nat
    BY DEF TypeOK, NoText, Text
  <2>2. text' = text \/ text' = NoText \/ BeginMessage \/ KeepLine \/ CutHeader \/ AddTrailer
    BY DEF Local, Start, AppendLog, NoScriptLeft, Message, LinesKept, StartScript, StartFails,
           ScriptExits, OutputCloses, KillScript, WaitDelay, ScriptDone, scriptVars
  <2>3. pc = "script" /\ turn <= Len(cfg.scripts) => turn \in DOMAIN cfg.scripts
    BY <1>1 DEF TypeOK
  <2>4. turn \in DOMAIN cfg.scripts
          => /\ Lines \in Seq(Nat \ {0}) /\ Len(Lines) >= 1
             /\ Budget(Current.limit) \in Nat /\ Budget(Current.limit) >= 120
    <3> SUFFICES ASSUME turn \in DOMAIN cfg.scripts
                 PROVE  /\ Lines \in Seq(Nat \ {0}) /\ Len(Lines) >= 1
                        /\ Budget(Current.limit) \in Nat /\ Budget(Current.limit) >= 120
      OBVIOUS
    <3>1. /\ Current.limit \in Nat /\ Current.limit >= 200 /\ Lines \in Seq(Nat \ {0})
          /\ Len(Lines) >= HeadLines
      BY LinesType DEF TypeOK, Script
    <3>2. HeadLines \in Nat \ {0}
      BY LinesType DEF TypeOK
    <3> QED
      BY <3>1, <3>2 DEF Budget
  <2>5. CASE BeginMessage
    BY <2>1, <2>3, <2>4, <2>5 DEF BeginMessage, Text
  <2>6. CASE KeepLine
    <3> DEFINE k == text.kept + 1
               n == Lines[text.kept + 1]
    <3>1. text' = [text EXCEPT !.kept = k, !.size = n]
      BY <2>6 DEF KeepLine
    <3>2. k \in Nat /\ n \in Nat
      BY <2>1, <2>4, <2>6 DEF KeepLine, LineFits, Fitting
    <3> HIDE DEF k, n
    <3> QED
      BY <2>1, <3>1, <3>2, TextEdits DEF Text
  <2>7. CASE CutHeader
    <3>1. PICK cut \in (Budget(Current.limit) - 3)..Budget(Current.limit) :
            text' = [text EXCEPT !.kept = 1, !.size = cut + 1]
      BY <2>7 DEF CutHeader
    <3> DEFINE n == cut + 1
    <3>2. n \in Nat
      BY <2>4, <2>7, <3>1 DEF CutHeader, Fitting
    <3>3. text' = [text EXCEPT !.kept = 1, !.size = n]
      BY <3>1
    <3> HIDE DEF n
    <3> QED
      BY <2>1, <3>2, <3>3, TextEdits DEF Text
  <2>8. CASE AddTrailer
    <3>1. Omitted(text.kept) \in Nat
      BY <2>1, <2>8, Counting DEF AddTrailer, Fitting, TypeOK
    <3>2. Trailer(Omitted(text.kept)) \in Nat
      BY <3>1, TrailerLength
    <3> DEFINE k == Omitted(text.kept)
               n == text.size + Trailer(Omitted(text.kept))
    <3>3. text' = [text EXCEPT !.omitted = k, !.size = n]
      BY <2>8 DEF AddTrailer
    <3>4. k \in Nat /\ n \in Nat
      BY <2>1, <3>1, <3>2
    <3> HIDE DEF k, n
    <3> QED
      BY <2>1, <3>3, <3>4, TextEdits DEF Text
  <2> QED
    BY <2>1, <2>2, <2>5, <2>6, <2>7, <2>8 DEF Text
<1>9. DOMAIN served' \subseteq DOMAIN cfg.scripts /\ \A i \in DOMAIN served' : served'[i] \in Nat
  <2>1. served' = served \/ StartScript
    BY DEF Local, Start, AppendLog, NoScriptLeft, Message, BeginMessage, KeepLine, CutHeader,
           LinesKept, AddTrailer, StartFails, ScriptExits, OutputCloses, KillScript,
           WaitDelay, scriptVars
  <2>2. CASE StartScript
    <3>1. text.size - 1 \in Nat /\ turn \in DOMAIN cfg.scripts
      BY <2>2 DEF StartScript, Fitting, TypeOK
    <3> QED
      BY <2>2, <3>1 DEF StartScript, TypeOK
  <2> QED
    BY <2>1, <2>2 DEF TypeOK
<1> QED
  BY <1>2, <1>3, <1>4, <1>5, <1>6, <1>7, <1>8, <1>9 DEF TypeOK

LEMMA StepTypes == TypeOK /\ Counted /\ Fitting /\ [Next]_vars => TypeOK'
<1> SUFFICES ASSUME TypeOK, Counted, Fitting, [Next]_vars PROVE TypeOK'
  OBVIOUS
<1>1. CASE Mail \/ Deadline
  BY <1>1, MailTypes
<1>2. CASE Local \/ ScriptExits \/ OutputCloses \/ KillScript \/ WaitDelay
  BY <1>1, <1>2, ScriptTypes DEF Mail
<1>3. CASE Interrupt
  BY <1>3 DEF Interrupt, mailVars, scriptVars, TypeOK, Sinks, Sink
<1>4. CASE UNCHANGED vars
  BY <1>4 DEF vars, mailVars, scriptVars, TypeOK, Sinks, Sink
<1> QED
  BY <1>1, <1>2, <1>3, <1>4 DEF Next, Timers

------------------------------------------------------------------------------
(* The mail.                                                                 *)

\* What the log, the scripts and a signal do: they leave the mail alone.
AwayFromMail == Start \/ AppendLog \/ NoScriptLeft \/ Message \/ StartScript \/ StartFails
                  \/ ScriptExits \/ OutputCloses \/ KillScript \/ WaitDelay

LEMMA MailAlone ==
  ASSUME AwayFromMail
  PROVE  /\ UNCHANGED <<rep, cfg, interrupted, mailVars>>
         /\ pc \in {"start", "log"} \cup ScriptPlaces
         /\ pc' \in {"log", "password", "exit"} \cup ScriptPlaces
         /\ pc' = "log" => pc = "start"
         /\ pc' = "password" => pc = "log" /\ cfg.mail
  BY DEF AwayFromMail, Start, AppendLog, NoScriptLeft, Message, BeginMessage, KeepLine, CutHeader,
         LinesKept, AddTrailer, StartScript, StartFails, ScriptExits, OutputCloses, KillScript,
         WaitDelay, ScriptDone, Leave, scriptFrame, mailVars, ScriptPlaces

LEMMA StepKeepsCounted == TypeOK /\ Counted /\ [Next]_vars => Counted'
<1> SUFFICES ASSUME TypeOK, Counted, [Next]_vars PROVE Counted'
  OBVIOUS
<1> USE DEF MailPlaces, Conversation
<1>a. /\ cfg.to \in Seq(Recipient) /\ Len(cfg.to) \in Nat /\ DOMAIN cfg.to = 1..Len(cfg.to)
      /\ cfg.mail => Len(cfg.to) > 0
  BY DEF TypeOK, Setting
<1>b. accepted \in 0..Len(cfg.to)
  BY DEF TypeOK
<1>1. CASE ReadPassword
  BY <1>1, <1>a, <1>b DEF ReadPassword, Exchange, Counted, Everyone, Proceed, MailFails, mailFrame, mailVars
<1>2. CASE Connect
  BY <1>2, <1>a, <1>b DEF Connect, Counted, Everyone, Proceed, MailFails, mailFrame, mailVars
<1>3. CASE Greet
  BY <1>3, <1>a, <1>b DEF Greet, Exchange, AfterTLS, Counted, Everyone, Proceed, MailFails, mailFrame, mailVars
<1>4. CASE StartTLS
  BY <1>4, <1>a, <1>b DEF StartTLS, AfterTLS, Counted, Everyone, Proceed, MailFails, mailFrame, mailVars
<1>5. CASE Authenticate
  BY <1>5, <1>a, <1>b DEF Authenticate, Counted, Everyone, Proceed, MailFails, mailFrame, mailVars
<1>6. CASE MailFrom
  BY <1>6, <1>a, <1>b DEF MailFrom, Counted, Everyone, Proceed, MailFails, mailFrame, mailVars
<1>7. CASE RcptTo
  BY <1>7, <1>a, <1>b DEF RcptTo, Counted, Everyone, Proceed, MailFails, mailFrame, mailVars
<1>8. CASE Data
  BY <1>8, <1>a, <1>b DEF Data, Exchange, Counted, Everyone, Proceed, MailFails, mailFrame, mailVars
<1>9. CASE Body
  BY <1>9, <1>a, <1>b DEF Body, Counted, Everyone, Proceed, MailFails, mailFrame, mailVars
<1>10. CASE Quit
  BY <1>10, <1>a, <1>b DEF Quit, Exchange, Counted, Everyone, Proceed, MailFails, mailFrame, mailVars
<1>11. CASE Deadline
  BY <1>11, <1>a, <1>b DEF Deadline, Counted, Everyone, Proceed, MailFails, mailFrame, mailVars
<1>12. CASE AwayFromMail
  BY <1>12, MailAlone DEF Counted, Everyone, mailVars, ScriptPlaces
<1>13. CASE Interrupt \/ UNCHANGED vars
  BY <1>13 DEF Interrupt, vars, mailVars, Counted, Everyone
<1> QED
  BY <1>1, <1>2, <1>3, <1>4, <1>5, <1>6, <1>7, <1>8, <1>9, <1>10, <1>11, <1>12, <1>13 DEF Next, Local, Mail, Timers, AwayFromMail

LEMMA StepKeepsSecret == TypeOK /\ Secret /\ [Next]_vars => Secret'
<1> SUFFICES ASSUME TypeOK, Secret, [Next]_vars PROVE Secret'
  OBVIOUS
<1> USE DEF MailPlaces, Conversation
<1>a. cfg.security \in {"starttls", "tls", "none"} /\ encrypted \in BOOLEAN
  BY DEF TypeOK, Setting, Securities
<1>1. CASE ReadPassword
  BY <1>1, <1>a DEF ReadPassword, Exchange, Secret, Proceed, MailFails, mailFrame, mailVars
<1>2. CASE Connect
  BY <1>2, <1>a DEF Connect, Secret, Proceed, MailFails, mailFrame, mailVars
<1>3. CASE Greet
  BY <1>3, <1>a DEF Greet, Exchange, AfterTLS, Secret, Proceed, MailFails, mailFrame, mailVars
<1>4. CASE StartTLS
  BY <1>4, <1>a DEF StartTLS, AfterTLS, Secret, Proceed, MailFails, mailFrame, mailVars
<1>5. CASE Authenticate
  BY <1>5, <1>a DEF Authenticate, Send, Secret, Proceed, MailFails, mailFrame, mailVars
<1>6. CASE MailFrom
  BY <1>6, <1>a DEF MailFrom, Send, Secret, Proceed, MailFails, mailFrame, mailVars
<1>7. CASE RcptTo
  BY <1>7, <1>a DEF RcptTo, Send, Secret, Proceed, MailFails, mailFrame, mailVars
<1>8. CASE Data
  BY <1>8, <1>a DEF Data, Exchange, Secret, Proceed, MailFails, mailFrame, mailVars
<1>9. CASE Body
  BY <1>9, <1>a DEF Body, Send, Secret, Proceed, MailFails, mailFrame, mailVars
<1>10. CASE Quit
  BY <1>10, <1>a DEF Quit, Exchange, Secret, Proceed, MailFails, mailFrame, mailVars
<1>11. CASE Deadline
  BY <1>11, <1>a DEF Deadline, Secret, Proceed, MailFails, mailFrame, mailVars
<1>12. CASE AwayFromMail
  BY <1>12, MailAlone DEF Secret, mailVars, ScriptPlaces
<1>13. CASE Interrupt \/ UNCHANGED vars
  BY <1>13 DEF Interrupt, vars, mailVars, Secret
<1> QED
  BY <1>1, <1>2, <1>3, <1>4, <1>5, <1>6, <1>7, <1>8, <1>9, <1>10, <1>11, <1>12, <1>13 DEF Next, Local, Mail, Timers, AwayFromMail

------------------------------------------------------------------------------
(* The messages.                                                             *)

\* What leaves the message and the scripts alone.
AwayFromMessage == Start \/ AppendLog \/ Mail \/ Deadline \/ NoScriptLeft \/ ScriptExits
                     \/ OutputCloses \/ KillScript \/ WaitDelay \/ StartFails

LEMMA MessageAlone ==
  ASSUME AwayFromMessage
  PROVE  /\ UNCHANGED <<rep, cfg, served>>
         /\ pc' \in {"draining"} => pc \in MessagePlaces /\ UNCHANGED turn
         /\ pc' \notin {"lines", "trailer", "run", "running"}
  BY DEF AwayFromMessage, Start, AppendLog, Mail, Deadline, ReadPassword, Connect, Greet, StartTLS,
         Authenticate, MailFrom, RcptTo, Data, Body, Quit, Exchange, Proceed, MailFails, AfterTLS,
         NoScriptLeft, ScriptExits, OutputCloses, KillScript, WaitDelay, StartFails, ScriptDone,
         Leave, mailFrame, scriptFrame, scriptVars, MessagePlaces, ScriptPlaces

LEMMA StepKeepsFitting == TypeOK /\ Fitting /\ [Next]_vars => Fitting'
<1> SUFFICES ASSUME TypeOK, Fitting, [Next]_vars PROVE Fitting'
  OBVIOUS
<1> USE DEF MessagePlaces, ScriptPlaces
<1>a. /\ DOMAIN cfg.scripts = 1..Len(cfg.scripts) /\ Len(cfg.scripts) \in Nat
      /\ turn \in 1..(Len(cfg.scripts) + 1)
      /\ text.size \in Nat /\ text.kept \in Nat
      /\ NoText.size = 0 /\ NoText.kept = 0 /\ text \in Text
  BY DEF TypeOK, Setting, NoText, Text
<1>b. turn \in DOMAIN cfg.scripts
        => /\ Lines \in Seq(Nat \ {0}) /\ Len(Lines) >= 1
           /\ Current.limit \in Nat /\ Current.limit >= 200
           /\ Budget(Current.limit) = Current.limit - 80
  <2> SUFFICES ASSUME turn \in DOMAIN cfg.scripts
               PROVE  /\ Lines \in Seq(Nat \ {0}) /\ Len(Lines) >= 1
                      /\ Current.limit \in Nat /\ Current.limit >= 200
                      /\ Budget(Current.limit) = Current.limit - 80
    OBVIOUS
  <2>1. /\ Current.limit \in Nat /\ Current.limit >= 200 /\ Lines \in Seq(Nat \ {0})
        /\ Len(Lines) >= HeadLines
    BY LinesType DEF TypeOK, Script
  <2>2. HeadLines \in Nat \ {0}
    BY LinesType DEF TypeOK
  <2> QED
    BY <2>1, <2>2 DEF Budget
<1>1. CASE AwayFromMessage
  BY <1>1, MessageAlone DEF Fitting, MessageFits
<1>2. CASE BeginMessage
  <2>1. turn \in DOMAIN cfg.scripts /\ turn' = turn /\ cfg' = cfg /\ served' = served
        /\ Lines' = Lines /\ Current' = Current /\ pc' \in {"run", "lines"}
    BY <1>2, <1>a DEF BeginMessage, scriptFrame, Lines, HeadLines, Current
  <2>2. Lines[Len(Lines)] \in Nat \ {0}
    BY <1>b, <2>1
  <2>3. pc' = "run" => text'.size = Lines[Len(Lines)] /\ text'.size <= Current.limit
    BY <1>2 DEF BeginMessage
  <2>4. pc' = "lines" => text'.size = 0
    BY <1>2, <1>a DEF BeginMessage
  <2>5. pc' = "run" => text'.size \in 1..Current.limit
    BY <1>b, <2>1, <2>2, <2>3
  <2>6. pc' = "lines" => text'.size <= Budget(Current.limit)
    BY <1>b, <2>1, <2>4
  <2> QED
    BY <2>1, <2>5, <2>6 DEF Fitting, MessageFits
<1>3. CASE KeepLine
  <2> DEFINE k == text.kept + 1
             n == Lines[text.kept + 1]
  <2>1. /\ turn \in DOMAIN cfg.scripts /\ turn' = turn /\ cfg' = cfg /\ served' = served
        /\ Lines' = Lines /\ Current' = Current /\ pc' = "lines"
        /\ n <= Budget(Current.limit) /\ text.kept < Len(Lines)
    BY <1>3 DEF KeepLine, LineFits, scriptFrame, Lines, HeadLines, Current, Fitting
  <2>a. text' = [text EXCEPT !.kept = k, !.size = n]
    BY <1>3 DEF KeepLine
  <2>b. Lines \in Seq(Nat \ {0}) /\ k \in 1..Len(Lines)
    <3>1. text.kept \in Nat /\ text.kept < Len(Lines) /\ Lines \in Seq(Nat \ {0})
      BY <1>a, <1>b, <2>1
    <3>2. Len(Lines) \in Nat
      BY <3>1
    <3> QED
      BY <3>1, <3>2
  <2>2. k \in Nat /\ n \in Nat
    <3>1. n \in Nat \ {0}
      BY <2>b
    <3> QED
      BY <2>b, <3>1
  <2> HIDE DEF k, n
  <2>3. text'.size = n
    BY <1>a, <2>a, <2>2 DEF Text
  <2> QED
    BY <2>1, <2>3 DEF Fitting, MessageFits
<1>4. CASE CutHeader
  <2>1. PICK cut \in (Budget(Current.limit) - 3)..Budget(Current.limit) :
          text' = [text EXCEPT !.kept = 1, !.size = cut + 1]
    BY <1>4 DEF CutHeader
  <2> DEFINE n == cut + 1
  <2>2. /\ turn \in DOMAIN cfg.scripts /\ turn' = turn /\ cfg' = cfg /\ served' = served
        /\ Current' = Current /\ pc' = "trailer"
        /\ text' = [text EXCEPT !.kept = 1, !.size = n]
    BY <1>4, <2>1 DEF CutHeader, scriptFrame, Current, Fitting
  <2>3. n \in Nat /\ n <= Budget(Current.limit) + 1
    BY <1>b, <2>1, <2>2
  <2> HIDE DEF n
  <2>4. text'.size = n
    BY <1>a, <2>2, <2>3 DEF Text
  <2> QED
    BY <2>2, <2>3, <2>4 DEF Fitting, MessageFits
<1>5. CASE LinesKept
  <2>1. /\ turn \in DOMAIN cfg.scripts /\ turn' = turn /\ cfg' = cfg /\ served' = served
        /\ Current' = Current /\ pc' = "trailer" /\ text' = text
        /\ text.size <= Budget(Current.limit)
    BY <1>5 DEF LinesKept, scriptFrame, scriptVars, Current, Fitting
  <2>2. text.size <= Budget(Current.limit) + 1
    BY <1>a, <1>b, <2>1
  <2> QED
    BY <2>1, <2>2 DEF Fitting, MessageFits
<1>6. CASE AddTrailer
  <2> DEFINE k == Omitted(text.kept)
             n == text.size + Trailer(Omitted(text.kept))
  <2>1. /\ turn \in DOMAIN cfg.scripts /\ turn' = turn /\ cfg' = cfg /\ served' = served
        /\ Current' = Current /\ pc' = "run"
        /\ text' = [text EXCEPT !.omitted = k, !.size = n]
        /\ text.size <= Budget(Current.limit) + 1
    BY <1>6 DEF AddTrailer, scriptFrame, Current, Fitting
  <2>2. k \in Nat
    BY <1>a, <2>1, Counting DEF TypeOK
  <2>3. Trailer(k) \in 1..50
    BY <2>2, TrailerLength
  <2>a. /\ Current.limit \in Nat /\ Current.limit >= 200
        /\ Budget(Current.limit) = Current.limit - 80
    BY <1>b, <2>1
  <2>4. n \in 1..Current.limit
    <3> DEFINE t == Trailer(Omitted(text.kept))
    <3>1. t \in 1..50 /\ n = text.size + t
      BY <2>3
    <3>2. text.size \in Nat /\ text.size <= Current.limit - 79
      BY <1>a, <2>1, <2>a
    <3> HIDE DEF t, n, k
    <3> QED
      BY <2>a, <3>1, <3>2
  <2> HIDE DEF k, n
  <2>5. text'.size = n
    BY <1>a, <2>1, <2>2, <2>4 DEF Text
  <2> QED
    BY <2>1, <2>4, <2>5 DEF Fitting, MessageFits
<1>7. CASE StartScript
  <2>1. /\ turn \in DOMAIN cfg.scripts /\ turn' = turn /\ cfg' = cfg /\ pc' = "running"
        /\ served' = [i \in DOMAIN served \cup {turn} |->
                        IF i = turn THEN text.size - 1 ELSE served[i]]
        /\ text.size \in 1..Current.limit
    BY <1>7 DEF StartScript, scriptFrame, Fitting
  <2>2. text.size - 1 <= Current.limit
    BY <1>b, <2>1
  <2>3. \A i \in DOMAIN served : served[i] <= cfg.scripts[i].limit
    BY DEF Fitting, MessageFits
  <2>4. MessageFits'
    BY <2>1, <2>2, <2>3 DEF MessageFits, Current
  <2> QED
    BY <2>1, <2>4 DEF Fitting
<1>8. CASE Interrupt \/ UNCHANGED vars
  BY <1>8 DEF Interrupt, vars, scriptVars, Fitting, MessageFits, Current, Budget
<1> QED
  BY <1>1, <1>2, <1>3, <1>4, <1>5, <1>6, <1>7, <1>8
  DEF Next, Local, Message, Mail, Timers, AwayFromMessage

LEMMA StepKeepsAccount == TypeOK /\ Fitting /\ Accounted /\ [Next]_vars => Accounted'
<1> SUFFICES ASSUME TypeOK, Fitting, Accounted, [Next]_vars PROVE Accounted'
  OBVIOUS
<1> USE DEF MessagePlaces, ScriptPlaces
<1>a. text.kept \in Nat /\ text.size \in Nat /\ text \in Text
  BY DEF TypeOK, Text
<1>b. turn \in DOMAIN cfg.scripts
        => /\ HeadLines \in Nat /\ HeadLines >= 1 /\ Len(Lines) \in Nat
           /\ Len(Lines) >= HeadLines /\ Len(rep.changes) \in Nat
           /\ Len(Lines) = HeadLines
                             + IF Current.detail = "full" THEN Len(rep.changes) ELSE 0
  BY LinesType DEF TypeOK
<1>1. CASE AwayFromMessage
  BY <1>1, MessageAlone DEF Accounted, MessageAccountsForChanges
<1>2. CASE KeepLine \/ CutHeader
  <2>1. /\ turn \in DOMAIN cfg.scripts /\ Lines' = Lines /\ pc' \in {"lines", "trailer"}
        /\ text'.kept = text.kept + 1 \/ text'.kept = 1
        /\ text'.kept = 1 \/ text.kept < Len(Lines)
    BY <1>2, <1>a DEF KeepLine, CutHeader, LineFits, scriptFrame, Fitting, Lines, Current,
                      HeadLines, Text
  <2>2. text'.kept <= Len(Lines)
    BY <1>a, <1>b, <2>1
  <2> QED
    BY <2>1, <2>2 DEF Accounted, MessageAccountsForChanges
<1>3. CASE LinesKept
  BY <1>3 DEF LinesKept, scriptFrame, scriptVars, Accounted, MessageAccountsForChanges, Lines,
              Current, HeadLines
<1>4. CASE StartScript
  BY <1>4 DEF StartScript, Accounted, MessageAccountsForChanges
<1>5. CASE AddTrailer
  <2>1. /\ turn \in DOMAIN cfg.scripts /\ text.kept <= Len(Lines)
        /\ UNCHANGED <<rep, cfg, turn>> /\ pc' = "run"
    BY <1>5 DEF AddTrailer, scriptFrame, Fitting, Accounted
  <2>2. text'.kept = text.kept /\ text'.omitted = Omitted(text.kept)
    BY <1>5, <1>a DEF AddTrailer, Text
  <2>3. Omitted(text.kept)
          = Len(Lines) - (IF text.kept > HeadLines THEN text.kept ELSE HeadLines)
    BY <1>a, <2>1, Counting DEF TypeOK
  <2>4. Shown + Omitted(text.kept)
          = IF Current.detail = "full" THEN Len(rep.changes) ELSE 0
    BY <1>a, <1>b, <2>1, <2>3 DEF Shown
  <2>5. UNCHANGED <<Shown, Current>>
    BY <2>1, <2>2 DEF Shown, HeadLines, Current
  <2> QED
    BY <2>1, <2>2, <2>4, <2>5 DEF Accounted, MessageAccountsForChanges
<1>6. CASE BeginMessage
  <2>1. /\ turn \in DOMAIN cfg.scripts /\ UNCHANGED <<rep, cfg, turn>> /\ pc' \in {"run", "lines"}
    BY <1>6 DEF BeginMessage, scriptFrame, TypeOK, Setting
  <2>2. /\ pc' = "run" => text'.kept = Len(Lines) /\ text'.omitted = 0
        /\ pc' = "lines" => text'.kept = 0
    BY <1>6 DEF BeginMessage, NoText
  <2>3. UNCHANGED <<HeadLines, Current, Lines>>
    BY <2>1 DEF HeadLines, Current, Lines
  <2>4. pc' = "run" => Shown' = Len(Lines) - HeadLines
    BY <1>b, <2>1, <2>2, <2>3 DEF Shown
  <2> QED
    BY <1>b, <2>1, <2>2, <2>3, <2>4 DEF Accounted, MessageAccountsForChanges
<1>7. CASE Interrupt \/ UNCHANGED vars
  BY <1>7 DEF Interrupt, vars, scriptVars, Accounted, MessageAccountsForChanges, Shown, Lines,
              HeadLines, Current
<1> QED
  BY <1>1, <1>2, <1>3, <1>4, <1>5, <1>6, <1>7
  DEF Next, Local, Message, Mail, Timers, AwayFromMessage

------------------------------------------------------------------------------
(* The dispatch.                                                             *)

\* Everybody there is to write to has mail.
LEMMA ReachedBySmtp == Reached(<<"smtp", 0>>) <=> cfg.to # <<>> /\ mailbox = Everyone
  BY DEF Reached, Everyone

LEMMA ReachedByLog == Reached(<<"log", 0>>) <=> logged
  BY DEF Reached

LEMMA ReachedByScript == \A i : Reached(Sink(i)) <=> i \in DOMAIN served
  BY DEF Reached, Sink

\* When the last script is done, every sink is.
LEMMA AllDone ==
  ASSUME TypeOK, Served, pc = "script", turn > Len(cfg.scripts)
  PROVE  \A s \in Sinks : Reached(s) \/ s \in errs
<1> SUFFICES ASSUME NEW s \in Sinks PROVE Reached(s) \/ s \in errs
  OBVIOUS
<1>1. CASE s = <<"log", 0>>
  BY <1>1, ReachedByLog DEF Served
<1>2. CASE s = <<"smtp", 0>> /\ cfg.mail
  BY <1>2 DEF Served, ScriptPlaces
<1>3. CASE \E i \in DOMAIN cfg.scripts : s = Sink(i)
  <2>1. PICK i \in DOMAIN cfg.scripts : s = Sink(i)
    BY <1>3
  <2>2. i \in 1..(turn - 1)
    BY <2>1 DEF TypeOK, Setting
  <2> QED
    BY <2>1, <2>2, ReachedByScript DEF Served
<1> QED
  BY <1>1, <1>2, <1>3 DEF Sinks

LEMMA StepKeepsServed ==
  TypeOK /\ Counted /\ Fitting /\ Served /\ [Next]_vars => Served'
<1> SUFFICES ASSUME TypeOK, Counted, Fitting, Served, [Next]_vars PROVE Served'
  OBVIOUS
<1> USE DEF MailPlaces, Conversation, MessagePlaces, ScriptPlaces
<1>a. /\ turn \in 1..(Len(cfg.scripts) + 1) /\ Len(cfg.scripts) \in Nat
      /\ cfg.mail => cfg.to # <<>>
  BY DEF TypeOK, Setting
<1>1. CASE Start
  <2>1. /\ UNCHANGED <<rep, cfg, errs, logged, turn, served, mailbox>>
    BY <1>1 DEF Start, mailVars, scriptVars
  <2>a. pc' = "log" \/ (Empty /\ Leave /\ pc' = "exit")
    BY <1>1 DEF Start, Leave
  <2>2. NoSinkIsForgotten'
    BY <2>1, <2>a DEF NoSinkIsForgotten, Leave, Empty, HasErrors, Tells
  <2> QED
    BY <1>1, <2>1, <2>a, <2>2 DEF Start, Served
<1>2. CASE AppendLog
  BY <1>2, <1>a DEF AppendLog, Served, NoSinkIsForgotten, Fail, mailVars, scriptVars
<1>3. CASE Mail \/ Deadline
  <2>1. /\ UNCHANGED <<rep, cfg, logged, turn, served>> /\ pc \in MailPlaces
        /\ pc' \in MailPlaces \cup {"script"} /\ errs \subseteq errs'
        /\ pc' = "script" => (pc = "quit" /\ UNCHANGED mailbox) \/ MailFails
    BY <1>3 DEF Mail, Deadline, ReadPassword, Connect, Greet, StartTLS, Authenticate, MailFrom,
           RcptTo, Data, Body, Quit, Exchange, Proceed, MailFails, Fail, AfterTLS, mailFrame,
           mailVars, scriptVars
  <2>2. pc' = "script" => Reached(<<"smtp", 0>>)' \/ <<"smtp", 0>> \in errs'
    <3>1. CASE MailFails
      BY <3>1 DEF MailFails, Fail
    <3>2. CASE pc = "quit" /\ UNCHANGED mailbox
      BY <1>a, <2>1, <3>2, ReachedBySmtp DEF Counted, Everyone, Reached
    <3> QED
      BY <2>1, <3>1, <3>2
  <2>3. NoSinkIsForgotten'
    BY <2>1 DEF NoSinkIsForgotten
  <2> QED
    BY <2>1, <2>2, <2>3 DEF Served
<1>4. CASE NoScriptLeft
  <2>1. /\ UNCHANGED <<rep, cfg, errs, logged, turn, served, mailbox>>
        /\ Leave /\ pc' = "exit"
    BY <1>4 DEF NoScriptLeft, Leave, scriptFrame, mailVars, scriptVars
  <2>2. \A s \in Sinks : Reached(s) \/ s \in errs
    BY <1>4, AllDone DEF NoScriptLeft
  <2>3. Sinks' = Sinks /\ \A s : Reached(s)' <=> Reached(s)
    BY <2>1 DEF Sinks, Sink, Reached
  <2>4. NoSinkIsForgotten'
    BY <2>1, <2>2, <2>3 DEF NoSinkIsForgotten, Leave, HasErrors, Tells
  <2> QED
    BY <2>1, <2>4 DEF Served
<1>5. CASE Message
  <2>1. /\ UNCHANGED <<rep, cfg, errs, logged, turn, served, mailbox>>
        /\ pc \in {"script", "lines", "trailer"} /\ pc' \in {"lines", "trailer", "run"}
    BY <1>5 DEF Message, BeginMessage, KeepLine, CutHeader, LinesKept, AddTrailer, scriptFrame,
           mailVars, scriptVars
  <2> QED
    BY <2>1 DEF Served, NoSinkIsForgotten, Reached
<1>6. CASE StartScript
  BY <1>6, <1>a DEF StartScript, scriptFrame, mailVars, Served, NoSinkIsForgotten, Reached
<1>7. CASE KillScript
  BY <1>7 DEF KillScript, scriptFrame, mailVars, Served, NoSinkIsForgotten, Reached
<1>8. CASE ScriptExits /\ pc' = "draining"
  BY <1>8 DEF ScriptExits, ScriptDone, scriptFrame, mailVars, Served, NoSinkIsForgotten, Reached
<1>9. CASE StartFails \/ OutputCloses \/ WaitDelay \/ (ScriptExits /\ pc' # "draining")
  <2>1. /\ UNCHANGED <<rep, cfg, logged, served, mailbox>> /\ pc' = "script"
        /\ turn' = turn + 1 /\ errs \subseteq errs' /\ pc \in MessagePlaces
        /\ pc = "run" => Sink(turn) \in errs'
        /\ pc \in {"run", "running", "draining"}
    BY <1>9 DEF StartFails, OutputCloses, WaitDelay, ScriptExits, ScriptDone, Fail, scriptFrame,
           mailVars
  <2>2. turn \in DOMAIN served \/ Sink(turn) \in errs'
    BY <2>1 DEF Served
  <2>3. \A i \in 1..(turn' - 1) : i = turn \/ i \in 1..(turn - 1)
    BY <1>a, <2>1
  <2>4. \A i \in 1..(turn' - 1) : i \in DOMAIN served' \/ Sink(i) \in errs'
    BY <2>1, <2>2, <2>3 DEF Served
  <2>5. cfg.mail => Reached(<<"smtp", 0>>)' \/ <<"smtp", 0>> \in errs'
    BY <2>1 DEF Served, Reached
  <2> QED
    BY <2>1, <2>4, <2>5 DEF Served, NoSinkIsForgotten, Sink
<1>10. CASE Interrupt \/ UNCHANGED vars
  BY <1>10 DEF Interrupt, vars, mailVars, scriptVars, Served, NoSinkIsForgotten, Reached, Sinks,
         Sink, Empty, HasErrors, Tells
<1> QED
  BY <1>1, <1>2, <1>3, <1>4, <1>5, <1>6, <1>7, <1>8, <1>9, <1>10
  DEF Next, Local, Mail, Timers

------------------------------------------------------------------------------
(* The theorems.                                                             *)

LEMMA InitInvariant == Init => IInv
<1> SUFFICES ASSUME Init PROVE IInv
  OBVIOUS
<1> USE DEF MailPlaces, Conversation, MessagePlaces, ScriptPlaces
<1>1. TypeOK
  BY InitTypes
<1>2. Counted
  BY DEF Init, Counted
<1>3. Secret
  BY DEF Init, Secret
<1>4. Fitting
  BY DEF Init, Fitting, MessageFits
<1>5. Served
  BY DEF Init, Served, NoSinkIsForgotten
<1>6. Accounted
  BY DEF Init, Accounted, MessageAccountsForChanges
<1> QED
  BY <1>1, <1>2, <1>3, <1>4, <1>5, <1>6 DEF IInv

LEMMA StepInvariant == IInv /\ [Next]_vars => IInv'
  BY StepTypes, StepKeepsCounted, StepKeepsSecret, StepKeepsFitting, StepKeepsAccount,
     StepKeepsServed DEF IInv

LEMMA Invariance == Spec => []IInv
  BY InitInvariant, StepInvariant, PTL DEF Spec

\* The dispatch keeps to the types of its state, for every report and setting.
THEOREM NotifyTypes == Spec => []TypeOK
<1>1. IInv => TypeOK
  BY DEF IInv
<1> QED
  BY <1>1, Invariance, PTL

\* Notify, 198: whatever fails, refuses or never answers, at the end every sink
\* has its report or is among the failures, and the exit code tells.
THEOREM SinksAreServed == Spec => []NoSinkIsForgotten
<1>1. IInv => NoSinkIsForgotten
  BY DEF IInv, Served
<1> QED
  BY <1>1, Invariance, PTL

\* sendMail, 325: for any list of recipients the mail goes to all or to none.
THEOREM MailIsAtomic == Spec => []MailIsAllOrNothing
<1>1. IInv => MailIsAllOrNothing
  BY DEF IInv, Counted, Everyone, MailIsAllOrNothing
<1> QED
  BY <1>1, Invariance, PTL

\* sendMail, 308: nothing of value is sent in the clear unless security is "none".
THEOREM MailIsSecret == Spec => []NothingInTheClear
<1>1. IInv => NothingInTheClear
  BY DEF IInv, Secret, NothingInTheClear
<1> QED
  BY <1>1, Invariance, PTL

\* truncateMessage: for every report and every limit Validate lets through, what
\* a script gets is no longer than its limit.
THEOREM MessagesFit == Spec => []MessageFits
<1>1. IInv => MessageFits
  BY DEF IInv, Fitting
<1> QED
  BY <1>1, Invariance, PTL

\* truncateMessage, 154, on what Render, 33, has made: for every report, limit and
\* detail the changes shown and the changes counted are those of FMON_TOTAL.
THEOREM MessagesAccount == Spec => []MessageAccountsForChanges
<1>1. IInv => MessageAccountsForChanges
  BY DEF IInv, Accounted
<1> QED
  BY <1>1, Invariance, PTL

================================================================================
