------------------------------- MODULE Notify -------------------------------
(***************************************************************************)
(* What happens to an event once its names are known: l2f_NOTIFY_process   *)
(* (notify/notify.c) and l2f_LOG_process (log/log.c) pass it to each of    *)
(* their backends in turn, and a backend to each of its configuration      *)
(* records.  Sinks are those records in the order in which they are        *)
(* reached.                                                                *)
(*                                                                         *)
(* Mail and scripts are handed to children, which outlive the event and    *)
(* inherit the descriptors that are open.  The IRC server is listened to   *)
(* until an alarm goes off; signal() installs alarm_handler so that the    *)
(* fgets() it interrupts starts again, and only the next line, or the end  *)
(* of the connection, takes the program back to the test of _stop.         *)
(***************************************************************************)
EXTENDS Naturals, Sequences, FiniteSets, PhoneNumber

CONSTANTS
  Events,      \* events that the box may report
  Sinks,       \* the configuration records; logs that are complete have a format
  AnyNumber,   \* caller_number or called_number that is not configured
  MaxEvents,   \* bound on the events received
  MaxFailures  \* bound on the failures that leave something open

\* The backends in the order in which they are called.
Backends == <<"dreambox", "irc", "mail", "script", "callback", "file", "mysql", "syslog">>

ASSUME SinksAssumption ==
  /\ Sinks \in Seq([kind : {Backends[k] : k \in DOMAIN Backends}, complete : BOOLEAN,
                    password : BOOLEAN, call : STRING, caller : {AnyNumber} \union Seq(Digits \union {"+", "-"}),
                    called : {AnyNumber} \union Seq(Digits \union {"+", "-"})])
  /\ Sinks # <<>>
  /\ \A i, j \in DOMAIN Sinks : i < j =>
       \E k, l \in DOMAIN Backends :
         k <= l /\ Sinks[i].kind = Backends[k] /\ Sinks[j].kind = Backends[l]
ASSUME BoundsAssumption == MaxEvents \in Nat /\ MaxFailures \in Nat

VARIABLES
  received,   \* events received so far
  event,      \* the last one
  at,         \* index of the record that is served, 0 between events
  pc,         \* where in it the program is
  said,       \* the message has been sent to the IRC server
  _stop,
  alarm,      \* an alarm is pending
  open,       \* descriptors of the daemon, each <<id, what it is>>
  children,   \* per child that runs: what it does, and the pipes it holds open
  tried,      \* history: records the last event was delivered to, or failed to be
  failed,     \* history: calls that failed and left something open, each <<id, call>>
  heard       \* history: the server was listened to after the message

vars == <<received, event, at, pc, said, _stop, alarm, open, children, tried, failed, heard>>

Ids == (1 .. MaxEvents) \X (DOMAIN Sinks)

\* Names what is opened and started for the record and event that are served.
id == <<received, at>>

sink == Sinks[at]

-----------------------------------------------------------------------------
(* The policy of the backends *)

Missed(e) == e.type = "DISCONNECT" /\ e.duration = 0 /\ e.pretype = "RING"

Rings(e) == e.type = "RING"

\* The types of event a backend takes; a script record chooses by its key call.
Takes(s, e) ==
  \/ s.kind \in {"file", "mysql", "syslog"}
  \/ s.kind \in {"dreambox", "irc", "callback"} /\ Rings(e)
  \/ s.kind = "mail" /\ Missed(e)
  \/ s.kind = "script" /\ s.call = "ring" /\ Rings(e)
  \/ s.kind = "script" /\ s.call = "missed" /\ Missed(e)

\* Logs have no filters.
Filter(s, e) ==
  \/ s.kind \in {"file", "mysql", "syslog"}
  \/ /\ s.caller # AnyNumber => Match(e.caller, s.caller)
     /\ s.called # AnyNumber => Match(e.called, s.called)

Wanted(s, e) == s.complete /\ Takes(s, e) /\ Filter(s, e)

-----------------------------------------------------------------------------
Init ==
  /\ received = 0
  /\ event \in Events
  /\ at = 0
  /\ pc = "record"
  /\ said = FALSE
  /\ _stop = FALSE
  /\ alarm = FALSE
  /\ open = {}
  /\ children = <<>>
  /\ tried = {}
  /\ failed = {}
  /\ heard = FALSE

irc == <<said, _stop, alarm, heard>>

Receive ==
  /\ at = 0 /\ received < MaxEvents
  /\ received' = received + 1
  /\ event' \in Events
  /\ at' = 1
  /\ tried' = {}
  /\ UNCHANGED <<pc, irc, open, children, failed>>

NextRecord == pc' = "record" /\ at' = IF at < Len(Sinks) THEN at + 1 ELSE 0

\* Fault: a record that fails ends its backend: the next one is of another kind.
GiveUpBackend ==
  LET others == {i \in at + 1 .. Len(Sinks) : Sinks[i].kind # sink.kind}
  IN  /\ pc' = "record"
      /\ at' = IF others = {} THEN 0 ELSE CHOOSE i \in others : \A j \in others : i <= j

\* A record that fails is left with "continue".
GiveUp == NextRecord

\* A call fails that leaves something open.
Fails(call) == Cardinality(failed) < MaxFailures /\ failed' = failed \union {<<id, call>>}

\* A record of one of the kinds is served.
Serve(kinds) ==
  /\ at # 0 /\ pc = "record"
  /\ sink.kind \in kinds /\ Wanted(sink, event)
  /\ tried' = tried \union {at}
  /\ UNCHANGED <<received, event>>

\* Later steps for the same record.
Continue(label) == at # 0 /\ pc = label /\ UNCHANGED <<received, event, tried>>

Skip ==
  /\ at # 0 /\ pc = "record" /\ ~Wanted(sink, event)
  /\ NextRecord
  /\ UNCHANGED <<received, event, irc, open, children, tried, failed>>

\* The request fails, or ends after two seconds (CURLOPT_TIMEOUT).
NotifyDreambox ==
  /\ Serve({"dreambox"})
  /\ NextRecord \/ GiveUp
  /\ UNCHANGED <<irc, open, children, failed>>

\* With a password the program logs in first.
NotifyCallback ==
  /\ Serve({"callback"})
  /\ GiveUp \/ (pc' = (IF sink.password THEN "login" ELSE "dial") /\ at' = at)
  /\ UNCHANGED <<irc, open, children, failed>>

\* The server answers a request, or the connection fails (external); there is
\* no timeout.  What it answers is not looked at.
CallbackAnswered ==
  /\ \/ Continue("login") /\ pc' = "dial" /\ at' = at
     \/ Continue("dial") /\ NextRecord
  /\ UNCHANGED <<irc, open, children, failed>>

\* fopen() fails; or the file is closed again, whether or not it was written.
LogFile ==
  /\ Serve({"file"})
  /\ GiveUp \/ NextRecord
  /\ UNCHANGED <<irc, open, children, failed>>

LogSyslog ==
  /\ Serve({"syslog"})
  /\ NextRecord
  /\ UNCHANGED <<irc, open, children, failed>>

\* mysql_init() fails, or the server is asked for a connection.
LogMysql ==
  /\ Serve({"mysql"})
  /\ GiveUp \/ (pc' = "mysql_connect" /\ at' = at)
  /\ UNCHANGED <<irc, open, children, failed>>

Database == {<<id, "connection">>}

\* The server answers mysql_real_connect(), or it fails (external); there is no
\* timeout.
MysqlConnected ==
  /\ Continue("mysql_connect")
  /\ \/ GiveUp /\ UNCHANGED open
     \/ pc' = "mysql_query" /\ at' = at /\ open' = open \union Database
  /\ UNCHANGED <<irc, children, failed>>

\* The server answers mysql_query() and mysql_commit(), and the connection is
\* closed; a query that fails leaves it open (external); there is no timeout.
MysqlAnswered ==
  /\ Continue("mysql_query")
  /\ \/ NextRecord /\ open' = open \ Database /\ UNCHANGED failed
     \/ GiveUp /\ Fails("query") /\ UNCHANGED open
  /\ UNCHANGED <<irc, children>>

-----------------------------------------------------------------------------
(* Children: mail and scripts *)

PipeEnds == {<<id, "read">>, <<id, "write">>}

\* The pipes that a child inherits from the daemon, which has them open as pipes.
Fork(doing, pipes) ==
  children' = [c \in DOMAIN children \union {id} |->
                 IF c = id THEN [doing |-> doing, holds |-> {h \in pipes : h[2] = "write"}]
                 ELSE children[c]]

NotifyScript ==
  /\ Serve({"script"})
  /\ \/ GiveUp /\ UNCHANGED children
     \/ NextRecord /\ Fork("script", open)
  /\ UNCHANGED <<irc, open, failed>>

\* pipe() fails; or fork() does, and both ends stay open; or a child is started.
NotifyMail ==
  /\ Serve({"mail"})
  /\ \/ GiveUp /\ UNCHANGED <<open, children, failed>>
     \/ /\ GiveUp
        /\ open' = open \union PipeEnds
        /\ Fails("fork")
        /\ UNCHANGED children
     \/ /\ pc' = "write" /\ at' = at
        /\ open' = open \union PipeEnds
        /\ Fork("exec", open')
        /\ UNCHANGED failed
  /\ UNCHANGED irc

\* The text is written and the pipe closed; if fdopen() fails its end stays open.
WriteMail ==
  /\ Continue("write")
  /\ NextRecord
  /\ \/ open' = open \ PipeEnds /\ UNCHANGED failed
     \/ /\ open' = open \ {<<id, "read">>}
        /\ Fails("fdopen")
  /\ UNCHANGED <<irc, children>>

daemon == <<received, event, at, pc, irc, open, tried, failed>>

\* A child ends, and child_handler reaps it.
Ends(c) == children' = [d \in DOMAIN children \ {c} |-> children[d]]

\* Fault: the child keeps its copy of the end that is written to.
ExecMailKeeping(c) ==
  /\ c \in DOMAIN children /\ children[c].doing = "exec"
  /\ \/ children' = [children EXCEPT ![c].doing = "mail"]
     \/ Ends(c)
  /\ UNCHANGED daemon

\* mail is executed, or cannot be, and the child ends.
ExecMail(c) ==
  /\ c \in DOMAIN children /\ children[c].doing = "exec"
  /\ \/ children' = [children EXCEPT ![c] = [doing |-> "mail", holds |-> @.holds \ {<<c, "write">>}]]
     \/ Ends(c)
  /\ UNCHANGED daemon

\* mail reads its text up to the end of file and sends it (external).
MailSent(c) ==
  /\ c \in DOMAIN children /\ children[c].doing = "mail"
  /\ <<c, "write">> \notin open \union UNION {children[d].holds : d \in DOMAIN children}
  /\ Ends(c)
  /\ UNCHANGED daemon

\* A script ends (external).
ScriptEnds(c) ==
  /\ c \in DOMAIN children /\ children[c].doing = "script"
  /\ Ends(c)
  /\ UNCHANGED daemon

-----------------------------------------------------------------------------
(* IRC *)

Socket == {<<id, "socket">>}

IrcSocket ==
  /\ Serve({"irc"})
  /\ \/ GiveUp /\ UNCHANGED open
     \/ pc' = "connect" /\ at' = at /\ open' = open \union Socket
  /\ UNCHANGED <<irc, children, failed>>

\* The two loops "while (!_stop && fgets())": an alarm is set, then comes the test.
Listen(afterwards) ==
  /\ pc' = "test" /\ at' = at
  /\ alarm' = TRUE
  /\ said' = afterwards

\* Fault: the socket stays open when connect() fails.
IrcConnectLeaking ==
  /\ Continue("connect")
  /\ \/ GiveUp /\ UNCHANGED <<irc, open>>
     \/ Listen(FALSE) /\ _stop' = FALSE /\ heard' = FALSE /\ UNCHANGED open
  /\ UNCHANGED <<children, failed>>

\* connect() or fdopen() fails, or the program logs in.
IrcConnect ==
  /\ Continue("connect")
  /\ \/ GiveUp /\ open' = open \ Socket /\ UNCHANGED irc
     \/ Listen(FALSE) /\ _stop' = FALSE /\ heard' = FALSE /\ UNCHANGED open
  /\ UNCHANGED <<children, failed>>

IrcTest ==
  /\ Continue("test")
  /\ pc' = IF _stop THEN "quiet" ELSE "fgets"
  /\ heard' = (heard \/ (said /\ ~_stop))
  /\ UNCHANGED <<at, said, _stop, alarm, open, children, failed>>

\* The server has sent a line, which is logged (external).
ServerLine ==
  /\ Continue("fgets")
  /\ pc' = "log"
  /\ UNCHANGED <<at, irc, open, children, failed>>

\* The server has closed the connection (external).
ServerCloses ==
  /\ Continue("fgets")
  /\ pc' = "quiet"
  /\ UNCHANGED <<at, irc, open, children, failed>>

IrcLog ==
  /\ Continue("log")
  /\ pc' = "test"
  /\ UNCHANGED <<at, irc, open, children, failed>>

\* alarm_handler logs too; if it has interrupted the logging of a line, it may
\* wait for ever for a lock that the interrupted call holds.
AlarmHandler ==
  /\ alarm
  /\ alarm' = FALSE
  /\ \/ _stop' = TRUE /\ pc' = pc
     \/ pc = "log" /\ pc' = "stuck" /\ UNCHANGED _stop
  /\ UNCHANGED <<received, event, at, said, open, children, tried, failed, heard>>

\* Fault: the alarm stays set.
IrcQuietForgotten ==
  /\ Continue("quiet")
  /\ pc' = IF said THEN "close" ELSE "say"
  /\ UNCHANGED <<at, irc, open, children, failed>>

\* alarm(0) after either loop.
IrcQuiet ==
  /\ Continue("quiet")
  /\ alarm' = FALSE
  /\ pc' = IF said THEN "close" ELSE "say"
  /\ UNCHANGED <<at, said, _stop, heard, open, children, failed>>

\* Fault: no alarm is set for the second loop.
IrcSayOnly ==
  /\ Continue("say")
  /\ pc' = "test" /\ at' = at
  /\ said' = TRUE
  /\ UNCHANGED <<_stop, alarm, heard, open, children, failed>>

\* _stop keeps its value.
IrcSay ==
  /\ Continue("say")
  /\ Listen(TRUE)
  /\ UNCHANGED <<_stop, heard, open, children, failed>>

IrcClose ==
  /\ Continue("close")
  /\ NextRecord
  /\ open' = open \ Socket
  /\ UNCHANGED <<irc, children, failed>>

-----------------------------------------------------------------------------
Step ==
  \/ Skip \/ NotifyDreambox \/ NotifyMail \/ WriteMail \/ NotifyScript \/ NotifyCallback
  \/ LogFile \/ LogMysql \/ LogSyslog
  \/ IrcSocket \/ IrcConnect \/ IrcTest \/ IrcLog \/ IrcQuiet \/ IrcSay \/ IrcClose

Child == \E c \in Ids : ExecMail(c) \/ MailSent(c) \/ ScriptEnds(c)

Next ==
  \/ Receive \/ Step \/ AlarmHandler \/ Child
  \/ ServerLine \/ ServerCloses \/ CallbackAnswered \/ MysqlConnected \/ MysqlAnswered

\* The daemon and its children run and alarms go off; neither a server
\* nor a script has to do anything.
Spec ==
  /\ Init /\ [][Next]_vars
  /\ WF_vars(Step) /\ WF_vars(AlarmHandler)
  /\ \A c \in Ids : WF_vars(ExecMail(c)) /\ WF_vars(MailSent(c))

-----------------------------------------------------------------------------
(* Properties *)

\* Whatever fails on the way, an event that has been processed was tried on
\* every record that wants it and on no other ("continue" in every backend).
EveryRecordTried ==
  at = 0 /\ received > 0 => tried = {i \in DOMAIN Sinks : Wanted(Sinks[i], event)}

\* Between events the daemon holds no descriptor but those of a fork(), fdopen()
\* or mysql_query() that failed (notify_mail.c, log_mysql.c).
DescriptorsReturned ==
  at = 0 => \A h \in open : \E call \in {"query", "fork", "fdopen"} : <<h[1], call>> \in failed

\* Outside the conversation with an IRC server no alarm is pending that would
\* interrupt something else, the sleep of the main loop or a lookup.
NoAlarmLeft == at = 0 \/ sink.kind # "irc" \/ pc \in {"record", "connect"} => ~alarm

\* Nobody else keeps the pipe of a mail open (close() in notify_mail.c), so its
\* child ends, unless the daemon could not open the pipe as a stream.
MailEnds ==
  []<>(\A c \in DOMAIN children : children[c].doing = "script" \/ <<c, "fdopen">> \in failed)

\* Events are processed to the end, unless an IRC server stays silent after
\* the alarm, the alarm interrupts the logging (notify_irc.c), or a callback
\* server or the log database does not answer (notify_callback.c,
\* log_mysql.c:110,143).  A Dreambox, mail and scripts cannot stop them.
Delivers ==
  \/ []<>(at = 0)
  \/ <>[](pc = "fgets" /\ _stop) \/ <>[](pc = "stuck")
  \/ <>[](pc \in {"login", "dial"}) \/ <>[](pc \in {"mysql_connect", "mysql_query"})

\* After the message the program sees what the IRC server has to say
\* (the comment before the second loop of notify_irc.c).
ServerHeard == at # 0 /\ pc = "close" => heard
=============================================================================
