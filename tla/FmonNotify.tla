------------------------------ MODULE FmonNotify ------------------------------
(***************************************************************************)
(* What becomes of a report once its scan is committed: it is appended to  *)
(* the log, mailed, and handed to the scripts one after the other, each    *)
(* with a message cut to its limit, and the run ends with an exit code.    *)
(* The mail server and the scripts may refuse, fail, or never answer, and  *)
(* a signal may arrive at any moment.  A text is the positions, in bytes,  *)
(* at which its lines end, and the first word of each line.                *)
(***************************************************************************)
EXTENDS Integers, Sequences, FiniteSets

CONSTANTS
  Reports,      \* the reports a scan may return
  Settings,     \* the notification settings a user may have
  Recipient     \* the values that stand for mail addresses

Securities == {"starttls", "tls", "none"}
Details == {"summary", "full"}

Heads == {"[fmon]", "ALERT:", "NOTICE:", "WARNING:", "SOURCE"}
Events == {"ADDED", "MODIFIED", "DELETED"}

Report == {r \in [ends : Seq(Nat \ {0}),   \* where the lines end, the changes' included
                  top : Seq(Heads),       \* the lines a summary has
                  changes : Seq(Events)] : \* one line each, in the order of the paths
             /\ r.top # <<>> /\ r.top[1] = "[fmon]"
             /\ Len(r.ends) = Len(r.top) + Len(r.changes)
             /\ \A i \in 2..Len(r.ends) : r.ends[i - 1] < r.ends[i]}

Script == [limit : Nat, detail : Details]

\* What Validate lets through.
Setting == {s \in [mail : BOOLEAN, security : Securities, login : BOOLEAN,
                   to : Seq(Recipient), scripts : Seq(Script)] :
              /\ s.mail => s.to # <<>> /\ (s.login => s.security # "none")
              /\ \A i \in DOMAIN s.scripts : s.scripts[i].limit >= 200}

ASSUME NotifyConstants ==
  /\ Reports \subseteq Report
  /\ Settings \subseteq Setting

VARIABLES
  rep,          \* the report
  cfg,          \* the settings
  pc,
  errs,         \* the sinks that failed
  interrupted,  \* has a signal cancelled the context?
  code,         \* the exit code
  logged,       \* is the report in the log?
  encrypted,    \* is the connection to the mail server encrypted?
  accepted,     \* how many recipients the server has accepted
  exposed,      \* observer: what was sent over a connection in the clear
  mailbox,      \* observer: the recipients whose mail the server has taken
  turn,         \* the script whose turn it is
  text,         \* truncateMessage at work
  status,       \* how the script ended
  served        \* observer: [script -> length of the message it got]

mailVars == <<encrypted, accepted, exposed, mailbox>>
scriptVars == <<turn, text, status, served>>
vars == <<rep, cfg, pc, errs, interrupted, code, logged, mailVars, scriptVars>>

Conversation == {"greeting", "starttls", "auth", "from", "rcpt", "data", "body", "quit"}
Places == {"start", "log", "password", "connect"} \cup Conversation
            \cup {"script", "lines", "trailer", "run", "running", "draining", "exit"}
NoText == [kept |-> 0, size |-> 0, omitted |-> 0]

Sink(i) == <<"script", i>>
Sinks == {<<"log", 0>>} \cup (IF cfg.mail THEN {<<"smtp", 0>>} ELSE {})
           \cup {Sink(i) : i \in DOMAIN cfg.scripts}

TypeOK ==
  /\ rep \in Report
  /\ cfg \in Setting
  /\ pc \in Places
  /\ errs \subseteq Sinks
  /\ interrupted \in BOOLEAN
  /\ code \in {0, 2}
  /\ logged \in BOOLEAN
  /\ encrypted \in BOOLEAN
  /\ accepted \in 0..Len(cfg.to)
  /\ exposed \subseteq {"password", "envelope", "message"}
  /\ mailbox \subseteq Recipient
  /\ turn \in 1..(Len(cfg.scripts) + 1)
  /\ text \in [kept : Nat, size : Nat, omitted : Nat]
  /\ status \in {"unknown", "ok", "failed"}
  /\ DOMAIN served \subseteq DOMAIN cfg.scripts
  /\ \A i \in DOMAIN served : served[i] \in Nat

\* Alerts and notices have a line each, the errors have one together.
Tells(words) == \E i \in DOMAIN rep.top : rep.top[i] \in words
HasErrors == Tells({"WARNING:"})
Empty == rep.changes = <<>> /\ ~Tells({"ALERT:", "NOTICE:"})

Init ==
  /\ rep \in Reports
  /\ cfg \in Settings
  /\ pc = "start"
  /\ errs = {}
  /\ interrupted = FALSE
  /\ code = 0
  /\ logged = FALSE
  /\ encrypted = FALSE
  /\ accepted = 0
  /\ exposed = {}
  /\ mailbox = {}
  /\ turn = 1
  /\ text = NoText
  /\ status = "unknown"
  /\ served = <<>>

Fail(sink) == errs' = errs \cup {sink}

\* Exit codes: 2 when the scan or a sink had an error.
Leave ==
  /\ pc' = "exit"
  /\ code' = IF HasErrors \/ errs # {} THEN 2 ELSE 0

------------------------------------------------------------------------------
(* Notify and the log.                                                       *)

Start ==
  /\ pc = "start"
  /\ IF Empty THEN Leave ELSE pc' = "log" /\ UNCHANGED code
  /\ UNCHANGED <<rep, cfg, errs, interrupted, logged, mailVars, scriptVars>>

\* Mutant: a failing log ends the dispatch.
AppendLogAlone ==
  /\ pc = "log"
  /\ \/ logged' = TRUE /\ pc' = (IF cfg.mail THEN "password" ELSE "script") /\ UNCHANGED errs
     \/ Fail(<<"log", 0>>) /\ pc' = "exit" /\ UNCHANGED logged
  /\ UNCHANGED <<rep, cfg, interrupted, code, mailVars, scriptVars>>

AppendLog ==
  /\ pc = "log"
  /\ pc' = IF cfg.mail THEN "password" ELSE "script"
  /\ \/ logged' = TRUE /\ UNCHANGED errs
     \/ Fail(<<"log", 0>>) /\ logged' \in BOOLEAN
  /\ UNCHANGED <<rep, cfg, interrupted, code, mailVars, scriptVars>>

------------------------------------------------------------------------------
(* The mail.                                                                 *)

MailFails == Fail(<<"smtp", 0>>) /\ pc' = "script"

Proceed(place) == pc' = place /\ UNCHANGED errs

\* What the run sends is readable on the way unless the connection is encrypted.
Send(what) == exposed' = IF encrypted THEN exposed ELSE exposed \cup {what}

mailFrame == <<rep, cfg, interrupted, code, logged, scriptVars>>

\* A step that changes nothing but the place.
Exchange(place, next) ==
  /\ pc = place
  /\ Proceed(next) \/ MailFails
  /\ UNCHANGED <<mailFrame, mailVars>>

ReadPassword == Exchange("password", "connect")

\* A cancelled context, an unreachable server or a failing handshake.
Connect ==
  /\ pc = "connect"
  /\ \/ /\ ~interrupted
        /\ Proceed("greeting")
        /\ encrypted' = (cfg.security = "tls")
     \/ MailFails /\ UNCHANGED encrypted
  /\ UNCHANGED <<mailFrame, accepted, exposed, mailbox>>

AfterTLS == IF cfg.login THEN "auth" ELSE "from"

Greet == Exchange("greeting", IF cfg.security = "starttls" THEN "starttls" ELSE AfterTLS)

\* Mutant: a server that does not offer STARTTLS is spoken to in the clear.
StartTLSIfOffered ==
  /\ pc = "starttls"
  /\ \/ Proceed(AfterTLS) /\ encrypted' \in BOOLEAN
     \/ MailFails /\ UNCHANGED encrypted
  /\ UNCHANGED <<mailFrame, accepted, exposed, mailbox>>

\* A server that does not offer STARTTLS is refused.
StartTLS ==
  /\ pc = "starttls"
  /\ \/ Proceed(AfterTLS) /\ encrypted' = TRUE
     \/ MailFails /\ UNCHANGED encrypted
  /\ UNCHANGED <<mailFrame, accepted, exposed, mailbox>>

Authenticate ==
  /\ pc = "auth"
  /\ Send("password")
  /\ Proceed("from") \/ MailFails
  /\ UNCHANGED <<mailFrame, encrypted, accepted, mailbox>>

MailFrom ==
  /\ pc = "from"
  /\ Send("envelope")
  /\ Proceed("rcpt") \/ MailFails
  /\ UNCHANGED <<mailFrame, encrypted, accepted, mailbox>>

\* Mutant: a refused recipient is skipped.
RcptToWilling ==
  /\ pc = "rcpt"
  /\ Send("envelope")
  /\ \/ accepted' = accepted + 1 /\ Proceed(IF accepted' = Len(cfg.to) THEN "data" ELSE "rcpt")
     \/ accepted > 0 /\ Proceed("data") /\ UNCHANGED accepted
     \/ MailFails /\ UNCHANGED accepted
  /\ UNCHANGED <<mailFrame, encrypted, mailbox>>

\* Mutant: the count of the recipients is looked at a step late.
RcptToLate ==
  /\ pc = "rcpt"
  /\ Send("envelope")
  /\ \/ accepted' = accepted + 1 /\ Proceed(IF accepted = Len(cfg.to) THEN "data" ELSE "rcpt")
     \/ MailFails /\ UNCHANGED accepted
  /\ UNCHANGED <<mailFrame, encrypted, mailbox>>

\* One refused recipient ends the conversation.
RcptTo ==
  /\ pc = "rcpt"
  /\ Send("envelope")
  /\ \/ accepted' = accepted + 1 /\ Proceed(IF accepted' = Len(cfg.to) THEN "data" ELSE "rcpt")
     \/ MailFails /\ UNCHANGED accepted
  /\ UNCHANGED <<mailFrame, encrypted, mailbox>>

Data == Exchange("data", "body")

\* The server takes the message for those it has accepted; its answer may be lost.
Body ==
  /\ pc = "body"
  /\ Send("message")
  /\ \/ mailbox' = {cfg.to[i] : i \in 1..accepted} /\ (Proceed("quit") \/ MailFails)
     \/ MailFails /\ UNCHANGED mailbox
  /\ UNCHANGED <<mailFrame, encrypted, accepted>>

\* The message is delivered by now, and a failing QUIT still fails the sink.
Quit == Exchange("quit", "script")

\* Mutant: no deadline once the connection stands.
DeadlineOfDial ==
  /\ pc = "connect"
  /\ MailFails
  /\ UNCHANGED <<mailFrame, mailVars>>

\* 30 seconds for the connection, 60 for the whole conversation.
Deadline ==
  /\ pc \in Conversation \cup {"connect"}
  /\ MailFails
  /\ UNCHANGED <<mailFrame, mailVars>>

Mail ==
  \/ ReadPassword
  \/ Connect
  \/ Greet
  \/ StartTLS
  \/ Authenticate
  \/ MailFrom
  \/ RcptTo
  \/ Data
  \/ Body
  \/ Quit

------------------------------------------------------------------------------
(* The scripts.                                                              *)

scriptFrame == <<rep, cfg, interrupted, logged, mailVars>>

Current == cfg.scripts[turn]

\* The rendered report: where its lines end, and how they begin.
HeadLines == Len(rep.top)
Lines == IF Current.detail = "full" THEN rep.ends ELSE SubSeq(rep.ends, 1, HeadLines)
Word(i) == IF i <= HeadLines THEN rep.top[i] ELSE rep.changes[i - HeadLines]

\* Mutant: no room is left for the trailer.
BudgetToTheBrim(limit) == limit

\* Room is kept for the trailer line.
Budget(limit) == limit - 80

\* The decimal digits of n: fewer than 10^9 changes.
Digits(n) == Cardinality({k \in 0..8 : n >= 10 ^ k})

Trailer(omitted) == IF omitted > 0 THEN 41 + Digits(omitted) ELSE 24

NoScriptLeft ==
  /\ pc = "script"
  /\ turn > Len(cfg.scripts)
  /\ Leave
  /\ UNCHANGED <<scriptFrame, errs, scriptVars>>

\* truncateMessage: a short message stays as it is.
BeginMessage ==
  /\ pc = "script"
  /\ turn <= Len(cfg.scripts)
  /\ IF Lines[Len(Lines)] <= Current.limit
       THEN pc' = "run" /\ text' = [kept |-> Len(Lines), size |-> Lines[Len(Lines)], omitted |-> 0]
       ELSE pc' = "lines" /\ text' = NoText
  /\ UNCHANGED <<scriptFrame, errs, code, turn, status, served>>

LineFits ==
  /\ text.kept < Len(Lines)
  /\ Lines[text.kept + 1] <= Budget(Current.limit)

KeepLine ==
  /\ pc = "lines"
  /\ LineFits
  /\ text' = [text EXCEPT !.kept = @ + 1, !.size = Lines[text.kept + 1]]
  /\ UNCHANGED <<scriptFrame, pc, errs, code, turn, status, served>>

\* Even the header does not fit: it is cut, not inside a UTF-8 sequence.
CutHeader ==
  /\ pc = "lines"
  /\ ~LineFits
  /\ text.kept = 0
  /\ \E cut \in (Budget(Current.limit) - 3)..Budget(Current.limit) :
       text' = [text EXCEPT !.kept = 1, !.size = cut + 1]
  /\ pc' = "trailer"
  /\ UNCHANGED <<scriptFrame, errs, code, turn, status, served>>

LinesKept ==
  /\ pc = "lines"
  /\ ~LineFits
  /\ text.kept > 0
  /\ pc' = "trailer"
  /\ UNCHANGED <<scriptFrame, errs, code, scriptVars>>

\* Mutant: one of the words is not looked for.
IsAddedOrDeleted(word) == word \in {"ADDED", "DELETED"}

\* A line is known by its first word: the report is a text by now.
IsChangeLine(word) == word \in {"ADDED", "MODIFIED", "DELETED"}

Omitted(kept) == Cardinality({i \in (kept + 1)..Len(Lines) : IsChangeLine(Word(i))})

AddTrailer ==
  /\ pc = "trailer"
  /\ text' = [text EXCEPT !.omitted = Omitted(text.kept),
                          !.size = @ + Trailer(Omitted(text.kept))]
  /\ pc' = "run"
  /\ UNCHANGED <<scriptFrame, errs, code, turn, status, served>>

\* The last newline is not part of the argument.
StartScript ==
  /\ pc = "run"
  /\ ~interrupted
  /\ pc' = "running"
  /\ status' = "unknown"
  /\ served' = [i \in DOMAIN served \cup {turn} |->
                  IF i = turn THEN text.size - 1 ELSE served[i]]
  /\ UNCHANGED <<scriptFrame, errs, code, turn, text>>

ScriptDone(outcome) ==
  /\ pc' = "script"
  /\ turn' = turn + 1
  /\ text' = NoText
  /\ IF outcome = "ok" THEN UNCHANGED errs ELSE Fail(Sink(turn))

\* It does not exist, may not be executed, or a signal has come first.
StartFails ==
  /\ pc = "run"
  /\ ScriptDone("failed")
  /\ UNCHANGED <<scriptFrame, code, status, served>>

\* The script exits, and its output is closed or still held by a child of it.
ScriptExits ==
  /\ pc = "running"
  /\ \E outcome \in {"ok", "failed"} :
       \/ ScriptDone(outcome) /\ UNCHANGED status
       \/ pc' = "draining" /\ status' = outcome /\ UNCHANGED <<errs, turn, text>>
  /\ UNCHANGED <<scriptFrame, code, served>>

\* The timeout of the script, or a signal, kills it.
KillScript ==
  /\ pc = "running"
  /\ pc' = "draining"
  /\ status' = "failed"
  /\ UNCHANGED <<scriptFrame, errs, code, turn, text, served>>

OutputCloses ==
  /\ pc = "draining"
  /\ ScriptDone(status)
  /\ UNCHANGED <<scriptFrame, code, status, served>>

\* Five seconds after the end of the script its output is given up.
WaitDelay ==
  /\ pc = "draining"
  /\ ScriptDone("failed")
  /\ UNCHANGED <<scriptFrame, code, status, served>>

Message == BeginMessage \/ KeepLine \/ CutHeader \/ LinesKept \/ AddTrailer

------------------------------------------------------------------------------

\* SIGINT or SIGTERM cancels the context and nothing else.
Interrupt ==
  /\ pc # "exit"
  /\ ~interrupted
  /\ interrupted' = TRUE
  /\ UNCHANGED <<rep, cfg, pc, errs, code, logged, mailVars, scriptVars>>

\* What the run does by itself, waiting for nobody.
Local ==
  \/ Start
  \/ AppendLog
  \/ ReadPassword
  \/ NoScriptLeft
  \/ Message
  \/ StartScript
  \/ StartFails

Timers == Deadline \/ KillScript \/ WaitDelay

Next == Local \/ Mail \/ ScriptExits \/ OutputCloses \/ Timers \/ Interrupt

Spec == Init /\ [][Next]_vars

\* The run goes on when it waits for nobody, and its timers fire.  Nothing is
\* asked of the mail server or the scripts.
Fairness == WF_vars(Local) /\ WF_vars(Timers)

FairSpec == Spec /\ Fairness

------------------------------------------------------------------------------
(* Properties.                                                               *)

\* Has the report arrived?
Reached(sink) ==
  CASE sink[1] = "log" -> logged
    [] sink[1] = "smtp" -> cfg.to # <<>> /\ mailbox = {cfg.to[i] : i \in DOMAIN cfg.to}
    [] OTHER -> sink[2] \in DOMAIN served

\* A failing, refusing or silent sink, or a signal, keeps no other sink from
\* its report: when the run ends each has got it or is known to have failed, and
\* the exit code says whether one has.
NoSinkIsForgotten ==
  pc = "exit" =>
    /\ Empty \/ \A s \in Sinks : Reached(s) \/ s \in errs
    /\ code = 2 <=> HasErrors \/ errs # {}

\* The mail goes to all recipients or to none, whoever is refused and wherever
\* the conversation breaks off.
MailIsAllOrNothing ==
  mailbox = {} \/ mailbox = {cfg.to[i] : i \in DOMAIN cfg.to}

\* Short of security "none", neither the password nor an address nor the report
\* crosses the network in the clear, whatever the server offers.
NothingInTheClear == cfg.security # "none" => exposed = {}

\* What a script gets as its argument respects its limit: the header, the cut
\* and the trailer included.
MessageFits == \A i \in DOMAIN served : served[i] <= cfg.scripts[i].limit

\* The changes a message has lines of.
Shown == IF text.kept > HeadLines THEN text.kept - HeadLines ELSE 0

\* A message accounts for its report: a full one shows or counts each change the
\* script is told the number of in FMON_TOTAL, wherever the text was cut, and a
\* summary counts none, for it would have shown none.
MessageAccountsForChanges ==
  pc = "run" =>
    Shown + text.omitted = IF Current.detail = "full" THEN Len(rep.changes) ELSE 0

\* No server and no script can hang the run.
DispatchEnds == <>(pc = "exit")
================================================================================
