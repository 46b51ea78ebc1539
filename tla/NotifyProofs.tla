---------------------------- MODULE NotifyProofs ----------------------------
(***************************************************************************)
(* Proofs about Notify, for any records, events and bounds: every record   *)
(* that wants an event is tried, whatever fails, and no alarm is left      *)
(* pending.  Both follow from what the control of the program is at each   *)
(* point: Control below.                                                   *)
(***************************************************************************)
EXTENDS Notify, TLAPS

\* The labels inside the conversation with an IRC server.
IrcLabels == {"connect", "test", "fgets", "log", "quiet", "say", "close", "stuck"}

\* The labels at which another server is waited for.
Waits == {"login", "dial", "mysql_connect", "mysql_query"}

\* The labels at which an alarm may be pending.
AlarmLabels == {"test", "fgets", "log", "quiet"}

\* The types of what the control depends on.
ControlType ==
  /\ received \in 0 .. MaxEvents
  /\ event \in Events
  /\ at \in 0 .. Len(Sinks)
  /\ pc \in IrcLabels \union {"record", "write"} \union Waits
  /\ alarm \in BOOLEAN
  /\ tried \subseteq DOMAIN Sinks

\* The program is inside a record only for an event that it wants, and in a
\* conversation or a mail only for a record of that kind.
Inside ==
  /\ at # 0 => received > 0
  /\ pc # "record" => at # 0
  /\ pc \in IrcLabels => sink.kind = "irc"

\* Of the records up to the one that is served, those are tried that want the event.
TriedSoFar ==
  /\ at # 0 => \A i \in DOMAIN Sinks :
       i \in tried <=> (i < at \/ (i = at /\ pc # "record")) /\ Wanted(Sinks[i], event)
  /\ at = 0 /\ received > 0 => \A i \in DOMAIN Sinks : i \in tried <=> Wanted(Sinks[i], event)

AlarmOnlyThere == alarm => pc \in AlarmLabels

Control == ControlType /\ Inside /\ TriedSoFar /\ AlarmOnlyThere

\* There is a first record.
LEMMA SomeSink == Len(Sinks) \in Nat /\ Len(Sinks) > 0 /\ DOMAIN Sinks = 1 .. Len(Sinks)
  BY SinksAssumption

LEMMA InitControl == Init => Control
<1> SUFFICES ASSUME Init
             PROVE  Control
  OBVIOUS
<1>1. 0 \in 0 .. MaxEvents /\ 0 \in 0 .. Len(Sinks)
  BY SomeSink, BoundsAssumption
<1>2. ControlType
  BY <1>1 DEF Init, ControlType, Waits
<1>3. Inside /\ TriedSoFar /\ AlarmOnlyThere
  BY DEF Init, Inside, TriedSoFar, AlarmOnlyThere, IrcLabels
<1> QED
  BY <1>2, <1>3 DEF Control

\* Going on to the next record, with the one that is left tried if it wants the event.
LEMMA NextRecordControl ==
  ASSUME Control, at # 0, NextRecord, UNCHANGED <<received, event>>, alarm' = FALSE,
         tried' \subseteq DOMAIN Sinks,
         \A i \in DOMAIN Sinks :
           i \in tried' <=> i \in tried \/ (i = at /\ Wanted(Sinks[i], event))
  PROVE  Control'
<1>1. ControlType'
  <2>1. at' \in 0 .. Len(Sinks)
    BY SomeSink DEF Control, ControlType, NextRecord
  <2> QED
    BY <2>1 DEF Control, ControlType, NextRecord
<1>3. Inside' /\ AlarmOnlyThere'
  BY DEF Control, Inside, AlarmOnlyThere, NextRecord, IrcLabels
<1>2. TriedSoFar'
  <2>1. \A i \in DOMAIN Sinks : i \in tried' <=> i <= at /\ Wanted(Sinks[i], event)
    BY SomeSink DEF Control, ControlType, TriedSoFar
  <2> QED
    BY <2>1, SomeSink DEF Control, ControlType, Inside, TriedSoFar, NextRecord
<1> QED
  BY <1>1, <1>2, <1>3 DEF Control

\* Being served, a record is left or goes on at a label of its own.
LEMMA ServeControl ==
  ASSUME NEW K, Control, Serve(K), UNCHANGED irc,
         NextRecord \/ (at' = at /\ ( \/ pc' \in {"write"} \union Waits
                                      \/ pc' = "connect" /\ sink.kind = "irc"))
  PROVE  Control'
<1>0. /\ at # 0 /\ pc = "record" /\ Wanted(sink, event)
      /\ tried' = tried \union {at} /\ UNCHANGED <<received, event>>
      /\ ~alarm /\ alarm' = alarm
      /\ at \in DOMAIN Sinks
  BY SomeSink DEF Serve, irc, Control, ControlType, AlarmOnlyThere, AlarmLabels
<1>1. CASE NextRecord
  BY <1>0, <1>1, NextRecordControl DEF irc, sink, Control, ControlType
<1>2. CASE at' = at /\ (pc' \in {"write"} \union Waits \/ (pc' = "connect" /\ sink.kind = "irc"))
  <2>1. ControlType' /\ Inside' /\ AlarmOnlyThere'
    BY <1>0, <1>2 DEF Control, ControlType, Inside, AlarmOnlyThere, IrcLabels, AlarmLabels, Waits, irc, sink
  <2>2. TriedSoFar'
    BY <1>0, <1>2, SomeSink DEF Control, ControlType, TriedSoFar, Waits, sink
  <2> QED
    BY <2>1, <2>2 DEF Control
<1> QED
  BY <1>1, <1>2

\* A server that is waited for has answered: the record is left or waits again.
LEMMA WaitControl ==
  ASSUME Control, at # 0, pc \in Waits, UNCHANGED <<received, event, tried, irc>>,
         NextRecord \/ (at' = at /\ pc' \in Waits)
  PROVE  Control'
<1>0. /\ pc # "record" /\ ~alarm /\ alarm' = alarm
      /\ tried \subseteq DOMAIN Sinks
  BY DEF irc, Control, ControlType, AlarmOnlyThere, AlarmLabels, Waits
<1>1. CASE NextRecord
  <2>1. \A i \in DOMAIN Sinks : i = at /\ Wanted(Sinks[i], event) => i \in tried
    BY <1>0, SomeSink DEF Control, ControlType, TriedSoFar
  <2>2. UNCHANGED <<received, event>> /\ alarm' = FALSE /\ tried' = tried
    BY <1>0 DEF Control, ControlType
  <2>3. \A i \in DOMAIN Sinks : i \in tried' <=> i \in tried \/ (i = at /\ Wanted(Sinks[i], event))
    BY <2>1, <2>2
  <2>4. tried' \subseteq DOMAIN Sinks
    BY <1>0, <2>2
  <2> QED
    BY <1>1, <2>2, <2>3, <2>4, NextRecordControl
<1>2. CASE at' = at /\ pc' \in Waits
  <2>1. ControlType' /\ Inside' /\ AlarmOnlyThere'
    BY <1>0, <1>2 DEF Control, ControlType, Inside, AlarmOnlyThere, IrcLabels, Waits
  <2>2. TriedSoFar'
    BY <1>0, <1>2 DEF Control, TriedSoFar, Waits
  <2> QED
    BY <2>1, <2>2 DEF Control
<1> QED
  BY <1>1, <1>2

\* Moving inside a record.
LEMMA ContinueControl ==
  ASSUME Control, pc # "record", pc' \in IrcLabels, pc \in IrcLabels,
         UNCHANGED <<received, event, at, tried>>,
         alarm' \in BOOLEAN,
         alarm' => pc' \in AlarmLabels
  PROVE  Control'
<1>1. ControlType' /\ Inside' /\ AlarmOnlyThere'
  BY DEF Control, ControlType, Inside, AlarmOnlyThere, IrcLabels, Waits, sink
<1>2. TriedSoFar'
  BY DEF Control, TriedSoFar, IrcLabels
<1> QED
  BY <1>1, <1>2 DEF Control

\* Every step preserves Control.
LEMMA NextControl == Control /\ [Next]_vars => Control'
<1> SUFFICES ASSUME Control, [Next]_vars
             PROVE  Control'
  OBVIOUS
<1>t. /\ at # 0 => at \in DOMAIN Sinks
      /\ alarm \in BOOLEAN
      /\ alarm => pc \in AlarmLabels
  BY SomeSink DEF Control, ControlType, AlarmOnlyThere
<1> USE DEF GiveUp
<1>1. CASE Receive
  <2>1. ControlType' /\ Inside' /\ AlarmOnlyThere'
    BY <1>1, SomeSink, BoundsAssumption
    DEF Receive, irc, Control, ControlType, Inside, AlarmOnlyThere, IrcLabels, AlarmLabels
  <2>2. TriedSoFar'
    BY <1>1, SomeSink DEF Receive, Control, Inside, TriedSoFar
  <2> QED
    BY <2>1, <2>2 DEF Control
<1>2. CASE Skip
  BY <1>2, <1>t, NextRecordControl DEF Skip, irc, sink, AlarmLabels, Control, ControlType
<1>3. CASE NotifyDreambox \/ LogFile \/ LogSyslog
  BY <1>3, ServeControl DEF NotifyDreambox, LogFile, LogSyslog
<1>18. CASE NotifyCallback
  BY <1>18, ServeControl DEF NotifyCallback, Waits
<1>19. CASE CallbackAnswered \/ MysqlConnected \/ MysqlAnswered
  BY <1>19, WaitControl DEF CallbackAnswered, MysqlConnected, MysqlAnswered, Continue, Waits
<1>4. CASE LogMysql
  BY <1>4, ServeControl DEF LogMysql, Waits
<1>5. CASE NotifyScript
  BY <1>5, ServeControl DEF NotifyScript
<1>6. CASE NotifyMail
  BY <1>6, ServeControl DEF NotifyMail
<1>7. CASE WriteMail
  <2>1. \A i \in DOMAIN Sinks : i = at /\ Wanted(Sinks[i], event) => i \in tried
    BY <1>7, SomeSink DEF WriteMail, Continue, Control, ControlType, TriedSoFar
  <2> QED
    BY <1>7, <2>1, <1>t, NextRecordControl DEF WriteMail, Continue, irc, AlarmLabels, Control, ControlType
<1>8. CASE IrcSocket
  <2>1. sink.kind = "irc"
    BY <1>8 DEF IrcSocket, Serve
  <2> QED
    BY <1>8, <2>1, ServeControl DEF IrcSocket
<1>9. CASE IrcConnect
  <2>1. CASE NextRecord /\ UNCHANGED irc
    <3>1. \A i \in DOMAIN Sinks : i = at /\ Wanted(Sinks[i], event) => i \in tried
      BY <1>9, SomeSink DEF IrcConnect, Continue, Control, ControlType, TriedSoFar
    <3> QED
      BY <1>9, <2>1, <3>1, <1>t, NextRecordControl
      DEF IrcConnect, Continue, irc, AlarmLabels, Control, ControlType
  <2>2. CASE Listen(FALSE) /\ _stop' = FALSE /\ heard' = FALSE
    BY <1>9, <2>2, ContinueControl DEF IrcConnect, Continue, Listen, IrcLabels, AlarmLabels
  <2> QED
    BY <1>9, <2>1, <2>2 DEF IrcConnect
<1>10. CASE IrcTest
  BY <1>10, <1>t, ContinueControl DEF IrcTest, Continue, IrcLabels, AlarmLabels
<1>11. CASE IrcLog
  BY <1>11, <1>t, ContinueControl DEF IrcLog, Continue, irc, IrcLabels, AlarmLabels
<1>12. CASE IrcQuiet
  BY <1>12, <1>t, ContinueControl DEF IrcQuiet, Continue, IrcLabels, AlarmLabels
<1>13. CASE IrcSay
  BY <1>13, <1>t, ContinueControl DEF IrcSay, Continue, Listen, IrcLabels, AlarmLabels
<1>14. CASE IrcClose
  <2>1. \A i \in DOMAIN Sinks : i = at /\ Wanted(Sinks[i], event) => i \in tried
    BY <1>14, SomeSink DEF IrcClose, Continue, Control, ControlType, TriedSoFar
  <2> QED
    BY <1>14, <2>1, <1>t, NextRecordControl DEF IrcClose, Continue, irc, AlarmLabels, Control, ControlType
<1>15. CASE AlarmHandler
  BY <1>15, <1>t, ContinueControl DEF AlarmHandler, IrcLabels, AlarmLabels
<1>16. CASE ServerLine \/ ServerCloses
  BY <1>16, <1>t, ContinueControl DEF ServerLine, ServerCloses, Continue, irc, IrcLabels, AlarmLabels
<1>17. CASE Child \/ UNCHANGED vars
  <2>1. UNCHANGED <<received, event, at, pc, irc, tried>>
    BY <1>17 DEF Child, ExecMail, MailSent, ScriptEnds, daemon, vars, irc
  <2> QED
    BY <2>1 DEF irc, Control, ControlType, Inside, TriedSoFar, AlarmOnlyThere, sink
<1> QED
  BY <1>1, <1>2, <1>3, <1>4, <1>5, <1>6, <1>7, <1>8, <1>9, <1>10, <1>11, <1>12, <1>13, <1>14,
     <1>15, <1>16, <1>17, <1>18, <1>19 DEF Next, Step

LEMMA ControlHolds == Spec => []Control
  BY InitControl, NextControl, PTL DEF Spec

-----------------------------------------------------------------------------
\* The property that "continue" in each backend is there for: whatever fails,
\* an event that has been processed was tried on every record that wants it.
THEOREM EveryRecordIsTried == Spec => []EveryRecordTried
<1>1. Control => EveryRecordTried
  BY DEF Control, ControlType, TriedSoFar, EveryRecordTried
<1> QED
  BY <1>1, ControlHolds, PTL

\* alarm(0) is reached on every path: no alarm is pending outside a conversation.
THEOREM NoAlarmIsLeft == Spec => []NoAlarmLeft
<1>1. Control => NoAlarmLeft
  BY DEF Control, Inside, AlarmOnlyThere, AlarmLabels, IrcLabels, NoAlarmLeft
<1> QED
  BY <1>1, ControlHolds, PTL

-----------------------------------------------------------------------------
(* Descriptors *)

\* A call failed that has left h open.
Explained(h) == \E call \in {"query", "fork", "fdopen"} : <<h[1], call>> \in failed

\* What the record that is served has open at the label pc.
InUse(h) ==
  \/ pc = "write" /\ h \in PipeEnds
  \/ pc = "mysql_query" /\ h \in Database
  \/ pc \in IrcLabels /\ h \in Socket

OpenForReason == \A h \in open : Explained(h) \/ InUse(h)

\* Nothing is in use where a record begins.
LEMMA NothingInUse == pc = "record" => \A h : ~InUse(h)
  BY DEF InUse, IrcLabels

\* What was explained stays so.
LEMMA StaysExplained ==
  ASSUME NEW h, Explained(h), failed \subseteq failed'
  PROVE  Explained(h)'
  BY DEF Explained

\* Every step preserves OpenForReason.
LEMMA NextOpen == Control /\ OpenForReason /\ [Next]_vars => OpenForReason'
<1> SUFFICES ASSUME Control, OpenForReason, [Next]_vars, NEW h \in open'
             PROVE  Explained(h)' \/ InUse(h)'
  BY DEF OpenForReason
<1>0. h \in open => Explained(h) \/ InUse(h)
  BY DEF OpenForReason
<1>a. ASSUME h \in open, pc = "record", failed \subseteq failed'
      PROVE  Explained(h)'
  BY <1>0, <1>a, NothingInUse, StaysExplained
<1>b. ASSUME h \in open, UNCHANGED failed, pc \in IrcLabels, pc' \in IrcLabels, UNCHANGED <<received, at>>
      PROVE  Explained(h)' \/ InUse(h)'
  BY <1>0, <1>b, StaysExplained DEF InUse, IrcLabels, Socket, id
<1>1. CASE Receive
  <2>1. pc = "record"
    BY <1>1 DEF Receive, Control, Inside
  <2> QED
    BY <1>1, <2>1, <1>a DEF Receive
<1>2. CASE Skip
  BY <1>2, <1>a DEF Skip
<1>3. CASE NotifyDreambox \/ NotifyCallback \/ LogFile \/ LogMysql \/ LogSyslog \/ NotifyScript
  BY <1>3, <1>a DEF NotifyDreambox, NotifyCallback, LogFile, LogMysql, LogSyslog, NotifyScript, Serve
<1>12. CASE CallbackAnswered
  <2>1. h \in open /\ UNCHANGED failed /\ ~InUse(h)
    BY <1>12 DEF CallbackAnswered, Continue, InUse, IrcLabels
  <2> QED
    BY <1>0, <2>1, StaysExplained
<1>4. CASE MysqlConnected
  <2>1. pc = "mysql_connect" /\ UNCHANGED <<failed, received>>
    BY <1>4 DEF MysqlConnected, Continue
  <2>2. CASE h \in open
    <3>1. ~InUse(h)
      BY <2>1 DEF InUse, IrcLabels
    <3> QED
      BY <1>0, <2>1, <2>2, <3>1, StaysExplained
  <2>3. CASE h \notin open
    <3>1. h \in Database /\ pc' = "mysql_query" /\ at' = at
      BY <1>4, <2>3 DEF MysqlConnected
    <3> QED
      BY <2>1, <3>1 DEF InUse, Database, id
  <2> QED
    BY <2>2, <2>3
<1>13. CASE MysqlAnswered
  <2>1. pc = "mysql_query" /\ failed \subseteq failed' /\ h \in open
    BY <1>13 DEF MysqlAnswered, Continue, Fails
  <2>2. CASE h \in Database
    <3>1. h[1] = id /\ <<id, "query">> \in failed'
      BY <1>13, <2>2 DEF MysqlAnswered, Fails, Database
    <3> QED
      BY <3>1 DEF Explained
  <2>3. CASE h \notin Database
    <3>1. ~InUse(h)
      BY <2>1, <2>3 DEF InUse, IrcLabels
    <3> QED
      BY <1>0, <2>1, <3>1, StaysExplained
  <2> QED
    BY <2>2, <2>3
<1>5. CASE NotifyMail
  <2>1. pc = "record" /\ failed \subseteq failed'
    BY <1>5 DEF NotifyMail, Serve, Fails
  <2>2. CASE h \notin open
    <3>1. h \in PipeEnds /\ (<<id, "fork">> \in failed' \/ (pc' = "write" /\ at' = at))
      BY <1>5, <2>2 DEF NotifyMail, Fails
    <3>2. UNCHANGED received
      BY <1>5 DEF NotifyMail, Serve
    <3> QED
      BY <3>1, <3>2 DEF Explained, InUse, PipeEnds, id
  <2> QED
    BY <2>1, <2>2, <1>a
<1>6. CASE WriteMail
  <2>1. pc = "write" /\ failed \subseteq failed' /\ h \in open
    BY <1>6 DEF WriteMail, Continue, Fails
  <2>2. CASE h \in PipeEnds
    <3>1. h[1] = id /\ <<id, "fdopen">> \in failed'
      BY <1>6, <2>2 DEF WriteMail, Fails, PipeEnds
    <3> QED
      BY <3>1 DEF Explained
  <2>3. CASE h \notin PipeEnds
    <3>1. ~InUse(h)
      BY <2>1, <2>3 DEF InUse, IrcLabels
    <3> QED
      BY <1>0, <2>1, <3>1, StaysExplained
  <2> QED
    BY <2>2, <2>3
<1>7. CASE IrcSocket
  <2>1. pc = "record" /\ UNCHANGED <<failed, received>>
    BY <1>7 DEF IrcSocket, Serve
  <2>2. CASE h \notin open
    <3>1. h \in Socket /\ pc' = "connect" /\ at' = at
      BY <1>7, <2>2 DEF IrcSocket
    <3> QED
      BY <2>1, <3>1 DEF InUse, IrcLabels, Socket, id
  <2> QED
    BY <2>1, <2>2, <1>a
<1>8. CASE IrcConnect \/ IrcClose
  <2>1. pc \in IrcLabels /\ UNCHANGED failed
    BY <1>8 DEF IrcConnect, IrcClose, Continue, IrcLabels
  <2>2. CASE open' = open \ Socket
    <3>1. h \in open /\ ~InUse(h)
      BY <2>1, <2>2 DEF InUse, IrcLabels
    <3> QED
      BY <1>0, <2>1, <3>1, StaysExplained
  <2>3. CASE IrcConnect /\ Listen(FALSE) /\ UNCHANGED open
    BY <2>1, <2>3, <1>b DEF IrcConnect, Continue, Listen, IrcLabels
  <2> QED
    BY <1>8, <2>2, <2>3 DEF IrcConnect, IrcClose
<1>9. CASE IrcTest \/ IrcLog \/ IrcQuiet \/ IrcSay \/ ServerLine \/ ServerCloses
  BY <1>9, <1>b DEF IrcTest, IrcLog, IrcQuiet, IrcSay, ServerLine, ServerCloses, Continue, Listen, IrcLabels
<1>10. CASE AlarmHandler
  <2>1. pc \in IrcLabels
    BY <1>10 DEF AlarmHandler, Control, AlarmOnlyThere, AlarmLabels, IrcLabels
  <2> QED
    BY <1>10, <2>1, <1>b DEF AlarmHandler, IrcLabels
<1>11. CASE Child \/ UNCHANGED vars
  <2>1. UNCHANGED <<received, at, pc, open, failed>>
    BY <1>11 DEF Child, ExecMail, MailSent, ScriptEnds, daemon, vars
  <2> QED
    BY <1>0, <2>1 DEF Explained, InUse, PipeEnds, Database, Socket, id
<1> QED
  BY <1>1, <1>2, <1>3, <1>4, <1>5, <1>6, <1>7, <1>8, <1>9, <1>10, <1>11, <1>12, <1>13 DEF Next, Step

\* Between events only what a failed fork(), fdopen() or mysql_query() has left
\* is open, for any number of events and failures.
THEOREM DescriptorsAreReturned == Spec => []DescriptorsReturned
<1>1. Init => OpenForReason
  BY DEF Init, OpenForReason
<1>2. Control /\ OpenForReason => DescriptorsReturned
  <2> SUFFICES ASSUME Control, OpenForReason, at = 0, NEW h \in open
               PROVE  Explained(h)
    BY DEF DescriptorsReturned, Explained
  <2>1. pc = "record"
    BY DEF Control, Inside
  <2> QED
    BY <2>1, NothingInUse DEF OpenForReason
<1> QED
  BY <1>1, <1>2, NextOpen, ControlHolds, PTL DEF Spec
=============================================================================
