-------------------------- MODULE SimulatorProofs --------------------------
(***************************************************************************)
(* Proofs about Simulator, for any numbers, times and number of unread     *)
(* lines.  The father is never in the middle of two calls, so that every   *)
(* line it writes is one that a box would write (but for the CALL line and *)
(* a negative duration), and every unread line leads from what the child   *)
(* has read to the call that is commanded.                                 *)
(***************************************************************************)
EXTENDS Simulator, FritzBoxFonProofs

InCall == {"ringing", "rung", "talking", "talked"}

FatherLabels ==
  InCall \union {"open", "accept", "loop", "prompt", "dial", "exit", "kill", "wait", "done", "stuck"}

ChildStates == {"running", "calling", "ending", "leaving", "stuck", "zombie", "reaped"}

SimTypeOK ==
  /\ father \in FatherLabels
  /\ _shutdown \in BOOLEAN
  /\ var \in [ring_time : Int, talk_time : Int]
  /\ var.talk_time >= 0 => var.talk_time \in Durations
  /\ command \in Commands
  /\ child \in ChildStates

\* An incoming call has the numbers the user gave.
Commanded ==
  father \in InCall \union {"dial"} /\ command.in =>
    command.caller \in Remotes /\ command.called \in Locals

Idle == [l \in Lines |-> NoCall]

\* Between its first line and its DISCONNECT, and at no other time, the call
\* that was commanded is on its line, and nothing else is on any line.
OneCall ==
  /\ father \notin InCall \union {"stuck"} => calls = Idle
  /\ father \in InCall =>
       /\ \A l \in Lines \ {CommandLine} : calls[l] = NoCall
       /\ calls[CommandLine].dir = (IF command.in THEN "RING" ELSE "CALL")
       /\ calls[CommandLine].caller = command.caller
       /\ calls[CommandLine].called = command.called
       /\ calls[CommandLine].answered <=> father \in {"talking", "talked"}

\* The connection is never closed by the father, and lost only by a signal to the
\* child or its end.
ChildConnected ==
  /\ conn \in {"down", "open", "lost"}
  /\ conn = "lost" => child \notin {"running", "calling"}

LineOf == [CALL |-> 1, RING |-> 2]

\* m is the line the father writes when the calls go from v to w: whole, but
\* that a CALL line has one parameter less than a box's.
Told(v, m, w) ==
  /\ m.type \in LineTypes /\ m.line \in Lines
  /\ m.n = IF m.type = "CALL" THEN 7 ELSE FullParams[m.type]
  /\ \A k \in Lines \ {m.line} : Same(v[k], w[k])
  /\ m.type \in {"CALL", "RING"} => m.line = LineOf[m.type] /\ w[m.line].dir = m.type
  /\ m.type = "RING" => w[m.line].caller = m.caller /\ w[m.line].called = m.called
  /\ m.type = "CONNECT" => Same(v[m.line], w[m.line])
  /\ m.type = "DISCONNECT" => w[m.line].dir = "NONE"
  /\ m.type \in {"CONNECT", "DISCONNECT"} => v[m.line].dir = IF m.line = 1 THEN "CALL" ELSE "RING"
  /\ m.type = "DISCONNECT" /\ ~v[m.line].answered => m.duration = 0

\* The unread lines lead from what the child has read to the present call.
Unread ==
  conn = "open" =>
    /\ shadow[Len(shadow)] = calls
    /\ \A i \in 1 .. Len(wire) : Told(shadow[i], wire[i], shadow[i + 1])

\* Each slot is about its own line, and where the child has read of an incoming
\* call it holds its numbers.
SlotOf(v, call, ring) ==
  /\ call.line \in {0, 1} /\ ring.line \in {0, 2}
  /\ v[1].dir = "CALL" => call.line = 1
  /\ v[2].dir = "RING" =>
       /\ ring.line = 2
       /\ ring.caller = Normalize(v[2].caller) /\ ring.called = Normalize(v[2].called)

SimSlots == conn = "open" => SlotOf(shadow[1], lastcall, lastring)

\* What CallsAsCommanded says of an event and its call.
AsCommanded(e, c) ==
  /\ e.pretype = c.dir
  /\ e.incoming = (c.dir = "RING")
  /\ c.dir = "RING" =>
       e.line = 2 /\ e.caller = Normalize(c.caller) /\ e.called = Normalize(c.called)
  /\ e.type = "DISCONNECT" /\ ~c.answered => (Missed(e) <=> c.dir = "RING")

Reported == FollowUp(out.event) => AsCommanded(out.event, out.call)

SimInv ==
  /\ TypeOK /\ Lengths /\ SimTypeOK /\ Commanded /\ OneCall /\ ChildConnected
  /\ Unread /\ SimSlots

-----------------------------------------------------------------------------
LEMMA CommandLineType == CommandLine \in Lines
  BY LinesOfSimulator DEF CommandLine

LEMMA NoCallNotNewest == [NoCall EXCEPT !.newest = FALSE] = NoCall
<1>1. NoCall \in Call /\ NoCall.newest = FALSE
  BY ZeroTypes DEF NoCall
<1>2. \A x \in Call : x.newest = FALSE => [x EXCEPT !.newest = FALSE] = x
  BY DEF Call
<1> QED BY <1>1, <1>2

\* The line with which the father begins a call.
LEMMA FirstLineType ==
  ASSUME SimTypeOK
  PROVE  FirstLine \in WireLine
<1>1. /\ command.in \in BOOLEAN
      /\ command.caller \in RawNumbers /\ command.called \in RawNumbers /\ SIP2 \in RawNumbers
  BY SIP2Assumption DEF SimTypeOK, Commands, RawNumbers
<1>2. FullLine("RING", 2, command.caller, command.called, 0) \in WireLine
  BY <1>1, LinesOfSimulator, FullLineType DEF LineTypes
<1>3. FullLine("CALL", 1, command.called, SIP2, 0) \in WireLine
  BY <1>1, LinesOfSimulator, FullLineType DEF LineTypes
<1>4. CallLine \in WireLine
  BY <1>3 DEF CallLine, WireLine, FullParams
<1> QED BY <1>1, <1>2, <1>4 DEF FirstLine

-----------------------------------------------------------------------------
(* The steps of father and child, as steps of the box and of the listener. *)

\* An incoming call begins as one of a box; the father writes it on its line.
LEMMA DialRing ==
  ASSUME SimInv, Dial, command.in
  PROVE  BoxRing(2)
<1>1. /\ CommandLine = 2 /\ 2 \in Lines /\ father = "dial" /\ calls = Idle
      /\ command.caller \in Remotes /\ command.called \in Locals
  BY LinesOfSimulator DEF SimInv, OneCall, Commanded, Dial, FatherGoto, InCall, CommandLine
<1> DEFINE c == [dir |-> "RING", caller |-> command.caller, called |-> command.called,
                 answered |-> FALSE, newest |-> (conn = "open"), heard |-> (conn = "open")]
<1>2. /\ calls' = [calls EXCEPT ![2] = c]
      /\ Write(FullLine("RING", 2, command.caller, command.called, 0))
  BY <1>1 DEF Dial, Send, FirstLine
<1>3. calls' = [k \in Lines |->
                  IF k = 2 THEN c ELSE [calls[k] EXCEPT !.newest = @ /\ calls[k].dir # "RING"]]
  <2>1. ASSUME NEW k \in Lines
        PROVE  [calls[k] EXCEPT !.newest = @ /\ calls[k].dir # "RING"] = NoCall
    <3>1. calls[k] = NoCall
      BY <1>1 DEF Idle
    <3>2. (NoCall.newest /\ calls[k].dir # "RING") = FALSE
      BY DEF NoCall
    <3> QED BY <3>1, <3>2, NoCallNotNewest
  <2> HIDE DEF c
  <2> QED BY <1>1, <1>2, <2>1 DEF Idle
<1>4. calls[2].dir = "NONE"
  BY <1>1 DEF Idle, NoCall
<1>5. Begin(2, "RING", command.caller, command.called)
  BY <1>2, <1>3, <1>4 DEF Begin
<1> QED BY <1>1, <1>5 DEF BoxRing

\* An answered call is connected as by a box, with the remote number.
LEMMA AnswerConnect ==
  ASSUME SimInv, Answer
  PROVE  BoxConnect(CommandLine)
<1>1. /\ father = "rung" /\ CommandLine \in Lines
      /\ calls[CommandLine].dir = (IF command.in THEN "RING" ELSE "CALL")
      /\ calls[CommandLine].caller = command.caller
      /\ calls[CommandLine].called = command.called
      /\ ~calls[CommandLine].answered
  BY CommandLineType DEF SimInv, OneCall, Answer, FatherGoto, InCall
<1>2. /\ calls' = [calls EXCEPT ![CommandLine] = [calls[CommandLine] EXCEPT !.answered = TRUE]]
      /\ Write(ConnectLine)
  BY DEF Answer, Send
<1>3. calls' = [calls EXCEPT ![CommandLine].answered = TRUE]
  BY <1>2
<1>4. ConnectLine = FullLine("CONNECT", CommandLine,
                             IF calls[CommandLine].dir = "RING" THEN calls[CommandLine].caller
                             ELSE calls[CommandLine].called, NoNumber, 0)
  BY <1>1 DEF ConnectLine
<1> QED BY <1>1, <1>2, <1>3, <1>4 DEF BoxConnect

\* A call ends as by a box: without seconds, or with those of the talk, if they
\* are not negative.
LEMMA HangUpDisconnect ==
  ASSUME SimInv, HangUp, father = "talked" => var.talk_time >= 0
  PROVE  BoxDisconnect(CommandLine)
<1>1. /\ father \in {"rung", "talked"} /\ CommandLine \in Lines
      /\ calls[CommandLine].dir # "NONE"
      /\ calls[CommandLine].answered <=> father = "talked"
      /\ father = "talked" => var.talk_time \in Durations
  BY CommandLineType DEF SimInv, OneCall, SimTypeOK, HangUp, FatherGoto, InCall
<1>2. /\ calls' = [calls EXCEPT ![CommandLine] = NoCall]
      /\ Write(FullLine("DISCONNECT", CommandLine, NoNumber, NoNumber, Duration))
  BY DEF HangUp, Send
<1>3. Duration \in IF calls[CommandLine].answered THEN Durations ELSE {0}
  BY <1>1 DEF Duration
<1> QED BY <1>1, <1>2, <1>3 DEF BoxDisconnect

\* The end of the connection, to the calls of the box, or nothing.
Vanishes == BoxVanish \/ UNCHANGED vars

LEMMA ClosedVanish ==
  /\ Closed => Vanishes
  /\ ChildSignalled => Vanishes
  BY DEF Closed, ChildSignalled, Vanishes

\* The lines that no box writes.
Odd ==
  \/ Dial /\ ~command.in
  \/ HangUp /\ father = "talked" /\ var.talk_time < 0

\* Every step but those that write such a line.
LEMMA StepLikeABox ==
  ASSUME SimInv, SimNext
  PROVE  Next \/ UNCHANGED vars \/ Odd
<1>1. CASE Dial
  BY <1>1, DialRing, LinesOfSimulator DEF Next, Box, Odd
<1>2. CASE Answer
  BY <1>2, AnswerConnect, CommandLineType DEF Next, Box
<1>3. CASE HangUp
  <2>1. var.talk_time \in Int
    BY DEF SimInv, SimTypeOK
  <2>2. Odd \/ (father = "talked" => var.talk_time >= 0)
    BY <1>3, <2>1 DEF Odd
  <2> QED BY <1>3, <2>2, HangUpDisconnect, CommandLineType DEF Next, Box
<1>4. CASE ChildConnects \/ ChildReads
  BY <1>4 DEF ChildConnects, ChildReads, Next, Listener
<1>5. CASE ChildExits \/ ChildKilled \/ Kill \/ Interrupt
  BY <1>5, ClosedVanish DEF ChildExits, ChildKilled, Kill, Interrupt, Vanishes, Next, Box
<1>6. CASE User
  BY <1>6 DEF User, InputEnds, InputOther, InputQuit, InputSet, InputCall
<1>7. CASE Open \/ Accept \/ Loop \/ Sleep \/ Probe \/ Wait
  BY <1>7 DEF Open, Accept, Loop, Sleep, Probe, Wait
<1>8. CASE child_handler \/ TerminateFather \/ CallbackReturns
  BY <1>8 DEF child_handler, TerminateFather, CallbackReturns
<1> QED BY <1>1, <1>2, <1>3, <1>4, <1>5, <1>6, <1>7, <1>8 DEF SimNext, Father, Child, Outside

-----------------------------------------------------------------------------
(* The invariant. *)

LEMMA SimTypeInit == SimInit => SimTypeOK
<1> SUFFICES ASSUME SimInit PROVE SimTypeOK
  OBVIOUS
<1>1. var \in [ring_time : Int, talk_time : Int] /\ var.talk_time \in Durations
  <2>1. 10 \in Durations
    BY DurationsOfTalks
  <2> QED BY <2>1 DEF SimInit
<1>2. command \in Commands
  BY DEF SimInit
<1> QED BY <1>1, <1>2 DEF SimInit, SimTypeOK, FatherLabels, ChildStates

LEMMA SimTypeNext ==
  ASSUME SimTypeOK, SimNext
  PROVE  SimTypeOK'
<1> USE DEF SimTypeOK, FatherLabels, InCall, ChildStates, FatherGoto
<1>1. CASE User
  <2>1. CASE InputEnds \/ InputOther \/ InputQuit
    BY <2>1 DEF InputEnds, InputOther, InputQuit
  <2>2. ASSUME NEW name \in {"ring_time", "talk_time"}, NEW time \in Times, InputSet(name, time)
        PROVE  SimTypeOK'
    <3>1. /\ father' = "loop" /\ UNCHANGED <<_shutdown, command, child>>
          /\ var' = [var EXCEPT ![name] = time]
          /\ var \in [ring_time : Int, talk_time : Int]
          /\ time \in Int /\ (time >= 0 => time \in Durations)
      BY <2>2, TimesAssumption, DurationsOfTalks DEF InputSet
    <3>2. var' \in [ring_time : Int, talk_time : Int] /\ var'.talk_time \in {var.talk_time, time}
      BY <3>1
    <3> QED BY <3>1, <3>2
  <2>3. ASSUME NEW c \in Commands, InputCall(c)
        PROVE  SimTypeOK'
    BY <2>3 DEF InputCall
  <2> QED BY <1>1, <2>1, <2>2, <2>3 DEF User, Commands, RawNumbers
<1>2. CASE Father
  BY <1>2 DEF Father, Open, Accept, Loop, Dial, Sleep, Answer, HangUp, Probe, Kill, Wait,
              ChildSignalled
<1>3. CASE Child
  BY <1>3 DEF Child, ChildConnects, ChildReads, ChildExits, simulator
<1>4. CASE child_handler \/ Outside
  BY <1>4 DEF child_handler, Outside, CallbackReturns, ChildKilled, TerminateFather, Interrupt,
              shutdown_handler, ChildSignalled, Woken, simulator
<1> QED BY <1>1, <1>2, <1>3, <1>4 DEF SimNext

\* The father goes on without a change of the call.
GoesOn ==
  /\ UNCHANGED command
  /\ father' \in InCall => father \in InCall
       /\ (father' \in {"talking", "talked"} <=> father \in {"talking", "talked"})
  /\ father \in InCall => father' \in InCall \union {"stuck"}
  /\ father = "stuck" => father' = "stuck"

LEMMA IdleUnheard ==
  ASSUME NEW l \in Lines, calls[l] = NoCall
  PROVE  Unheard[l] = NoCall
<1>1. \A x \in Call : x.newest = FALSE /\ x.heard = FALSE =>
        [x EXCEPT !.newest = FALSE, !.heard = FALSE] = x
  BY DEF Call
<1>2. NoCall \in Call /\ NoCall.newest = FALSE /\ NoCall.heard = FALSE
  BY ZeroTypes DEF NoCall
<1> QED BY <1>1, <1>2 DEF Unheard

LEMMA OneCallGoesOn ==
  ASSUME TypeOK, OneCall, Vanishes, GoesOn
  PROVE  OneCall'
<1>1. CASE UNCHANGED vars
  BY <1>1 DEF vars, GoesOn, OneCall, CommandLine, InCall
<1>2. CASE BoxVanish
  <2>1. calls' = Unheard
    BY <1>2 DEF BoxVanish
  <2>2. \A l \in Lines : /\ calls[l] = NoCall => calls'[l] = NoCall
                         /\ calls'[l].dir = calls[l].dir
                         /\ calls'[l].caller = calls[l].caller
                         /\ calls'[l].called = calls[l].called
                         /\ calls'[l].answered = calls[l].answered
    BY <2>1, IdleUnheard DEF Unheard, TypeOK, Call
  <2>3. calls = Idle => calls' = Idle
    BY <2>1, <2>2 DEF Idle, Unheard
  <2> QED BY <2>1, <2>2, <2>3, CommandLineType DEF OneCall, CommandLine, GoesOn, InCall
<1> QED BY <1>1, <1>2 DEF Vanishes

LEMMA OneCallNext ==
  ASSUME SimInv, SimNext
  PROVE  OneCall'
<1> USE DEF SimInv, FatherGoto, InCall
<1>0. SimTypeOK /\ OneCall /\ CommandLine \in Lines /\ calls \in [Lines -> Call]
  BY CommandLineType DEF TypeOK
<1>1. CASE User
  <2>1. father = "prompt" /\ father' \in {"exit", "loop", "dial"} /\ UNCHANGED calls
    BY <1>1 DEF User, InputEnds, InputOther, InputQuit, InputSet, InputCall, vars
  <2> QED BY <2>1 DEF OneCall
<1>2. CASE Open \/ Accept \/ Loop \/ Sleep \/ Probe \/ Kill \/ Wait
  <2>1. GoesOn
    BY <1>2 DEF Open, Accept, Loop, Sleep, Probe, Kill, Wait, GoesOn
  <2>2. Vanishes
    BY <1>2, ClosedVanish DEF Open, Accept, Loop, Sleep, Probe, Kill, Wait, Vanishes
  <2> QED BY <1>0, <2>1, <2>2, OneCallGoesOn
<1>3. CASE Dial
  <2> DEFINE c == [dir |-> IF command.in THEN "RING" ELSE "CALL", caller |-> command.caller,
                   called |-> command.called, answered |-> FALSE,
                   newest |-> (conn = "open"), heard |-> (conn = "open")]
  <2>1. /\ father = "dial" /\ father' = "ringing" /\ UNCHANGED command
        /\ calls' = [calls EXCEPT ![CommandLine] = c]
    BY <1>3 DEF Dial, Send
  <2>2. calls = Idle
    BY <1>0, <2>1 DEF OneCall
  <2>3. /\ c.dir = (IF command.in THEN "RING" ELSE "CALL")
        /\ c.caller = command.caller /\ c.called = command.called
        /\ ~c.answered
    OBVIOUS
  <2> HIDE DEF c
  <2> QED BY <1>0, <2>1, <2>2, <2>3 DEF OneCall, Idle, CommandLine
<1>4. CASE Answer
  <2>1. father = "rung" /\ father' = "talking" /\ UNCHANGED command
    BY <1>4 DEF Answer
  <2>2. /\ \A l \in Lines \ {CommandLine} : calls'[l] = calls[l]
        /\ calls'[CommandLine] = [calls[CommandLine] EXCEPT !.answered = TRUE]
    BY <1>0, <1>4 DEF Answer, Send
  <2>3. calls[CommandLine] \in Call
    BY <1>0
  <2>4. /\ calls'[CommandLine].dir = calls[CommandLine].dir
        /\ calls'[CommandLine].caller = calls[CommandLine].caller
        /\ calls'[CommandLine].called = calls[CommandLine].called
        /\ calls'[CommandLine].answered
    BY <2>2, <2>3 DEF Call
  <2> QED BY <1>0, <2>1, <2>2, <2>4 DEF OneCall, CommandLine
<1>5. CASE HangUp
  <2>1. /\ father \in {"rung", "talked"} /\ father' = "loop"
        /\ calls' = [calls EXCEPT ![CommandLine] = NoCall]
    BY <1>5 DEF HangUp, Send
  <2>2. calls' = Idle
    BY <1>0, <2>1 DEF OneCall, Idle
  <2> QED BY <2>1, <2>2 DEF OneCall, Idle
<1>6. CASE ChildConnects \/ ChildReads
  <2>1. UNCHANGED <<calls, father, command>>
    BY <1>6 DEF ChildConnects, ChildReads, Connect, Read, ReadRejected, ReadEvent, ReadFault,
                ReadEOF, NextLine, simulator
  <2> QED BY <1>0, <2>1 DEF OneCall, CommandLine
<1>7. CASE ChildExits \/ ChildKilled \/ CallbackReturns
  <2>1. GoesOn
    BY <1>7 DEF ChildExits, ChildKilled, CallbackReturns, simulator, GoesOn
  <2>2. Vanishes
    BY <1>7, ClosedVanish DEF ChildExits, ChildKilled, CallbackReturns, Vanishes
  <2> QED BY <1>0, <2>1, <2>2, OneCallGoesOn
<1>8. CASE child_handler \/ TerminateFather \/ Interrupt
  <2>1. /\ UNCHANGED command
        /\ father' = Woken \/ (father' = "stuck" /\ father # "stuck")
    BY <1>8 DEF child_handler, TerminateFather, Interrupt, shutdown_handler
  <2>2. GoesOn
    BY <2>1 DEF Woken, GoesOn
  <2>3. Vanishes
    BY <1>8, ClosedVanish DEF child_handler, TerminateFather, Interrupt, Vanishes
  <2> QED BY <1>0, <2>2, <2>3, OneCallGoesOn
<1> QED BY <1>1, <1>2, <1>3, <1>4, <1>5, <1>6, <1>7, <1>8 DEF SimNext, Father, Child, Outside

LEMMA CommandedNext ==
  ASSUME SimTypeOK, Commanded, SimNext
  PROVE  Commanded'
<1> USE DEF Commanded, FatherGoto, InCall
<1>1. CASE User
  BY <1>1 DEF User, InputEnds, InputOther, InputQuit, InputSet, InputCall
<1>2. CASE Father
  BY <1>2 DEF Father, Open, Accept, Loop, Dial, Sleep, Answer, HangUp, Probe, Kill, Wait
<1>3. CASE Child \/ child_handler \/ Outside
  BY <1>3 DEF Child, ChildConnects, ChildReads, ChildExits, child_handler, Outside, CallbackReturns,
              ChildKilled, TerminateFather, Interrupt, shutdown_handler, Woken, simulator
<1> QED BY <1>1, <1>2, <1>3 DEF SimNext

-----------------------------------------------------------------------------
(* What the child reads. *)

\* A line that the father writes goes to the end of the unread ones.
LEMMA UnreadWrite ==
  ASSUME TypeOK, Lengths, Unread, SimSlots, calls' \in [Lines -> Call],
         NEW m \in WireLine, Write(m), Told(calls, m, calls')
  PROVE  Unread' /\ SimSlots'
<1>1. CASE conn = "open" /\ wire' = Append(wire, m) /\ shadow' = Append(shadow, calls')
  <2>1. /\ conn' = conn /\ UNCHANGED <<lastcall, lastring>>
        /\ Len(shadow) = Len(wire) + 1 /\ shadow[Len(shadow)] = calls
        /\ wire \in Seq(WireLine) /\ shadow \in Seq([Lines -> Call]) /\ Len(wire) \in Nat
    BY <1>1 DEF Write, Lengths, Unread, TypeOK, slots
  <2>2. /\ Len(wire') = Len(wire) + 1
        /\ \A i \in 1 .. Len(wire) : wire'[i] = wire[i]
        /\ wire'[Len(wire) + 1] = m
    BY <1>1, <2>1, AppendProperties
  <2>3. /\ Len(shadow') = Len(shadow) + 1
        /\ \A i \in 1 .. Len(shadow) : shadow'[i] = shadow[i]
        /\ shadow'[Len(shadow) + 1] = calls'
    BY <1>1, <2>1, AppendProperties
  <2>4. ASSUME NEW i \in 1 .. Len(wire')
        PROVE  Told(shadow'[i], wire'[i], shadow'[i + 1])
    <3>1. CASE i \in 1 .. Len(wire)
      <4>1. wire'[i] = wire[i] /\ shadow'[i] = shadow[i] /\ shadow'[i + 1] = shadow[i + 1]
        BY <2>1, <2>2, <2>3, <3>1
      <4> QED BY <1>1, <3>1, <4>1 DEF Unread
    <3>2. CASE i = Len(wire) + 1
      <4>1. wire'[i] = m /\ shadow'[i] = calls /\ shadow'[i + 1] = calls'
        BY <2>1, <2>2, <2>3, <3>2
      <4> QED BY <4>1
    <3> QED BY <2>1, <2>2, <3>1, <3>2
  <2>5. shadow'[1] = shadow[1]
    BY <2>1, <2>3
  <2> QED BY <1>1, <2>1, <2>2, <2>3, <2>4, <2>5 DEF Unread, SimSlots
<1>2. CASE conn # "open"
  BY <1>2 DEF Write, Unread, SimSlots
<1> QED BY <1>1, <1>2 DEF Write

\* The first unread line: it is whole, and leads to what is read after it.
LEMMA FirstUnread ==
  ASSUME TypeOK, Lengths, Unread, conn = "open", NextLine
  PROVE  /\ wire[1] \in WireLine /\ Head(wire) = wire[1] /\ shadow[1] \in [Lines -> Call]
         /\ Told(shadow[1], wire[1], shadow'[1])
         /\ ~Rejected(wire[1]) /\ ~Uninitialised(wire[1])
<1>1. /\ wire \in Seq(WireLine) /\ wire # <<>> /\ shadow \in Seq([Lines -> Call])
      /\ Len(wire) \in Nat \ {0} /\ Len(shadow) = Len(wire) + 1
      /\ shadow' = Tail(shadow)
  BY EmptySeq DEF TypeOK, Lengths, NextLine
<1>2. wire[1] \in WireLine /\ Head(wire) = wire[1] /\ shadow[1] \in [Lines -> Call]
  BY <1>1, HeadTailProperties
<1>3. shadow'[1] = shadow[1 + 1]
  BY <1>1, HeadTailProperties, EmptySeq
<1>4. Told(shadow[1], wire[1], shadow'[1])
  <2>1. 1 \in 1 .. Len(wire)
    BY <1>1
  <2> QED BY <1>3, <2>1 DEF Unread
<1>5. ~Rejected(wire[1]) /\ ~Uninitialised(wire[1])
  BY <1>4 DEF Told, Rejected, Uninitialised, LineTypes, FullParams, MinParams, CallerAt, CalledAt
<1> QED BY <1>2, <1>4, <1>5

\* Reading a line moves the others on by one.
LEMMA UnreadNextLine ==
  ASSUME TypeOK, Lengths, Unread, NextLine, conn' = conn
  PROVE  Unread'
<1> SUFFICES ASSUME conn = "open" PROVE Unread'
  BY DEF Unread
<1>1. /\ wire \in Seq(WireLine) /\ wire # <<>> /\ shadow \in Seq([Lines -> Call]) /\ shadow # <<>>
      /\ Len(wire) \in Nat \ {0} /\ Len(shadow) = Len(wire) + 1
      /\ wire' = Tail(wire) /\ shadow' = Tail(shadow) /\ calls' = calls
  BY EmptySeq DEF TypeOK, Lengths, NextLine
<1>2. Len(wire') = Len(wire) - 1 /\ \A i \in 1 .. Len(wire) - 1 : wire'[i] = wire[i + 1]
  BY <1>1, HeadTailProperties
<1>3. Len(shadow') = Len(wire) /\ \A i \in 1 .. Len(wire) : shadow'[i] = shadow[i + 1]
  BY <1>1, HeadTailProperties
<1>4. shadow'[Len(shadow')] = calls'
  <2>1. Len(wire) \in 1 .. Len(wire)
    BY <1>1
  <2> QED BY <1>1, <1>3, <2>1 DEF Unread
<1>5. ASSUME NEW i \in 1 .. Len(wire')
      PROVE  Told(shadow'[i], wire'[i], shadow'[i + 1])
  <2>1. i + 1 \in 1 .. Len(wire) /\ i \in 1 .. Len(wire) /\ i \in 1 .. Len(wire) - 1
    BY <1>1, <1>2
  <2>2. wire'[i] = wire[i + 1] /\ shadow'[i] = shadow[i + 1]
    BY <1>2, <1>3, <2>1
  <2>3. shadow'[i + 1] = shadow[(i + 1) + 1]
    BY <1>3, <2>1
  <2>4. Told(shadow[i + 1], wire[i + 1], shadow[(i + 1) + 1])
    <3> DEFINE j == i + 1
    <3>1. j \in 1 .. Len(wire)
      BY <2>1
    <3> HIDE DEF j
    <3>2. Told(shadow[j], wire[j], shadow[j + 1])
      BY <3>1 DEF Unread
    <3> QED BY <3>2 DEF j
  <2> QED BY <2>2, <2>3, <2>4
<1> QED BY <1>4, <1>5 DEF Unread

\* The event of a whole line, with the numbers of a RING line.
LEMMA SimEvent ==
  ASSUME TypeOK, Lengths, Unread, conn = "open", ReadEvent
  PROVE  \E e \in Event :
           /\ Handle(e)
           /\ e.type = wire[1].type /\ e.pretype = "UNKNOWN"
           /\ e.line = wire[1].line /\ e.duration = wire[1].duration
           /\ wire[1].type = "RING" =>
                e.caller = Normalize(wire[1].caller) /\ e.called = Normalize(wire[1].called)
<1> DEFINE m == wire[1]
<1>1. m \in WireLine /\ m = Head(wire) /\ Told(shadow[1], m, shadow'[1])
  BY FirstUnread DEF ReadEvent
<1>2. PICK a \in Param(m, CallerAt[m.type], m.caller), b \in Param(m, CalledAt[m.type], m.called) :
        Handle(parse_input(m, a, b))
  BY <1>1 DEF ReadEvent
<1> HIDE DEF m
<1>3. CallerAt[m.type] \in Nat /\ CalledAt[m.type] \in Nat /\ m.type # "UNKNOWN"
  BY <1>1 DEF Told, LineTypes, CallerAt, CalledAt
<1>4. a \in Numbers /\ b \in Numbers
  BY <1>1, <1>2, <1>3, ParamType DEF WireLine
<1> DEFINE e == parse_input(m, a, b)
<1>5. /\ e \in Event /\ e.type = m.type /\ e.pretype = "UNKNOWN"
      /\ e.line = m.line /\ e.duration = m.duration /\ e.caller = a /\ e.called = b
  BY <1>1, <1>3, <1>4, ParseType
<1>6. m.type = "RING" => a = Normalize(m.caller) /\ b = Normalize(m.called)
  BY <1>1, <1>2 DEF Told, FullParams, CallerAt, CalledAt, Param
<1> HIDE DEF e
<1> QED BY <1>2, <1>5, <1>6 DEF m, e

LEMMA SlotsNext ==
  ASSUME NEW v, NEW w, NEW m, NEW call \in Event, NEW ring \in Event, NEW e \in Event,
         SlotOf(v, call, ring), Told(v, m, w), e.type = m.type, e.line = m.line,
         m.type = "RING" => e.caller = Normalize(m.caller) /\ e.called = Normalize(m.called)
  PROVE  SlotOf(w, NextSlot(call, "CALL", e), NextSlot(ring, "RING", e))
<1>1. m.type \in LineTypes /\ m.line \in {1, 2}
  BY LinesOfSimulator DEF Told
<1>2. CASE m.type = "CALL"
  BY <1>1, <1>2, LinesOfSimulator DEF Told, SlotOf, NextSlot, LineOf, Same
<1>3. CASE m.type = "RING"
  BY <1>1, <1>3, LinesOfSimulator DEF Told, SlotOf, NextSlot, LineOf, Same
<1>4. CASE m.type = "CONNECT"
  <2>1. NextSlot(call, "CALL", e) = call /\ NextSlot(ring, "RING", e) = ring
    BY <1>4 DEF NextSlot
  <2>2. Same(v[1], w[1]) /\ Same(v[2], w[2])
    BY <1>1, <1>4, LinesOfSimulator DEF Told
  <2> QED BY <2>1, <2>2 DEF SlotOf, Same
<1>5. CASE m.type = "DISCONNECT"
  <2>1. /\ NextSlot(call, "CALL", e) = IF e.line = call.line THEN ZeroEvent ELSE call
        /\ NextSlot(ring, "RING", e) = IF e.line = ring.line THEN ZeroEvent ELSE ring
    BY <1>5 DEF NextSlot
  <2>2. w[m.line].dir = "NONE" /\ \A k \in {1, 2} : k # m.line => Same(v[k], w[k])
    BY <1>5, LinesOfSimulator DEF Told
  <2>3. ZeroEvent.line = 0
    BY DEF ZeroEvent
  <2> QED BY <1>1, <2>1, <2>2, <2>3 DEF SlotOf, Same
<1> QED BY <1>1, <1>2, <1>3, <1>4, <1>5 DEF LineTypes

\* The event of a later line is reported as its call was commanded.
LEMMA ReportedRead ==
  ASSUME TypeOK, Lengths, Unread, SimSlots, conn = "open", ReadEvent, FollowUp(out'.event)
  PROVE  AsCommanded(out'.event, out'.call)
<1>1. PICK e \in Event :
        /\ Handle(e)
        /\ e.type = wire[1].type /\ e.pretype = "UNKNOWN"
        /\ e.line = wire[1].line /\ e.duration = wire[1].duration
  BY SimEvent
<1> DEFINE f == TakeOver(e, lastcall, "CALL")
           g == TakeOver(f, lastring, "RING")
           c == shadow[1][e.line]
<1>2. lastcall \in Event /\ lastring \in Event /\ SlotOf(shadow[1], lastcall, lastring)
  BY DEF TypeOK, SimSlots
<1>3. out'.event = Attributed(e) /\ out'.call = IF e.line \in Lines THEN c ELSE NoCall
  BY <1>1 DEF Handle
<1>4. FollowUp(e) /\ out'.event = g
  BY <1>3 DEF Attributed, FollowUp, TakeOver
<1>5. Told(shadow[1], wire[1], shadow'[1]) /\ shadow[1] \in [Lines -> Call]
  BY FirstUnread DEF ReadEvent
<1>6. /\ e.line \in {1, 2} /\ out'.call = c /\ c \in Call
      /\ c.dir = IF e.line = 1 THEN "CALL" ELSE "RING"
      /\ e.type = "DISCONNECT" /\ ~c.answered => e.duration = 0
  BY <1>1, <1>3, <1>4, <1>5, LinesOfSimulator DEF Told, FollowUp
<1> HIDE DEF c
<1>7. CASE e.line = 1
  <2>1. lastcall.line = 1 /\ lastring.line # 1 /\ c.dir = "CALL"
    BY <1>2, <1>6, <1>7 DEF SlotOf, c
  <2>2. f = [e EXCEPT !.incoming = FALSE, !.pretype = "CALL",
                      !.caller = lastcall.caller, !.called = lastcall.called]
    BY <1>7, <2>1 DEF TakeOver
  <2>3. f.line = 1 /\ f.pretype = "CALL" /\ f.incoming = FALSE
    BY <1>7, <2>2 DEF Event
  <2>4. g = f
    BY <2>1, <2>3 DEF TakeOver
  <2> HIDE DEF f, g
  <2> QED BY <1>4, <1>6, <2>1, <2>3, <2>4 DEF AsCommanded, Missed
<1>8. CASE e.line = 2
  <2>1. /\ lastcall.line # 2 /\ lastring.line = 2 /\ c.dir = "RING"
        /\ lastring.caller = Normalize(c.caller) /\ lastring.called = Normalize(c.called)
    BY <1>2, <1>6, <1>8 DEF SlotOf, c
  <2>2. f = e
    BY <1>8, <2>1 DEF TakeOver
  <2>3. g = [e EXCEPT !.incoming = TRUE, !.pretype = "RING",
                      !.caller = lastring.caller, !.called = lastring.called]
    BY <1>8, <2>1, <2>2 DEF TakeOver
  <2>4. /\ g.line = 2 /\ g.pretype = "RING" /\ g.incoming = TRUE /\ g.type = e.type
        /\ g.duration = e.duration
        /\ g.caller = lastring.caller /\ g.called = lastring.called
    BY <1>8, <2>3 DEF Event
  <2> HIDE DEF f, g
  <2> QED BY <1>4, <1>6, <2>1, <2>4 DEF AsCommanded, Missed
<1> QED BY <1>6, <1>7, <1>8

-----------------------------------------------------------------------------
(* What the father writes. *)

LEMMA DialTold ==
  ASSUME SimInv, Dial
  PROVE  /\ calls' \in [Lines -> Call] /\ FirstLine \in WireLine
         /\ Write(FirstLine) /\ Told(calls, FirstLine, calls')
<1> DEFINE c == [dir |-> IF command.in THEN "RING" ELSE "CALL", caller |-> command.caller,
                 called |-> command.called, answered |-> FALSE,
                 newest |-> (conn = "open"), heard |-> (conn = "open")]
<1>1. calls' = [calls EXCEPT ![CommandLine] = c] /\ Write(FirstLine)
  BY DEF Dial, Send
<1>2. SimTypeOK /\ calls \in [Lines -> Call] /\ CommandLine \in Lines /\ FirstLine \in WireLine
  BY FirstLineType, CommandLineType DEF SimInv, TypeOK
<1>3. /\ c \in Call /\ c.dir = (IF command.in THEN "RING" ELSE "CALL")
      /\ c.caller = command.caller /\ c.called = command.called
  BY <1>2 DEF Call, SimTypeOK, Commands
<1> HIDE DEF c
<1>4. /\ calls' \in [Lines -> Call] /\ calls'[CommandLine] = c
      /\ \A k \in Lines \ {CommandLine} : calls'[k] = calls[k]
  BY <1>1, <1>2, <1>3
<1>5. CASE command.in
  <2>1. FirstLine = FullLine("RING", 2, command.caller, command.called, 0) /\ CommandLine = 2
    BY <1>5 DEF FirstLine, CommandLine
  <2>2. /\ FirstLine.type = "RING" /\ FirstLine.line = 2 /\ FirstLine.n = 7
        /\ FirstLine.caller = command.caller /\ FirstLine.called = command.called
    BY <2>1 DEF FullLine, FullParams
  <2> QED BY <1>1, <1>2, <1>3, <1>4, <1>5, <2>1, <2>2 DEF Told, LineTypes, LineOf, Same, FullParams
<1>6. CASE ~command.in
  <2>1. FirstLine = CallLine /\ CommandLine = 1
    BY <1>6 DEF FirstLine, CommandLine
  <2>2. FirstLine.type = "CALL" /\ FirstLine.line = 1 /\ FirstLine.n = 7
    BY <2>1 DEF CallLine, FullLine, FullParams
  <2> QED BY <1>1, <1>2, <1>3, <1>4, <1>6, <2>1, <2>2 DEF Told, LineTypes, LineOf, Same
<1> QED BY <1>5, <1>6

\* The call that is going on, on its line.
LEMMA CallGoesOn ==
  ASSUME SimInv, father \in InCall
  PROVE  /\ calls \in [Lines -> Call] /\ CommandLine \in Lines
         /\ calls[CommandLine].dir = (IF CommandLine = 1 THEN "CALL" ELSE "RING")
         /\ calls[CommandLine].answered <=> father \in {"talking", "talked"}
  BY CommandLineType DEF SimInv, OneCall, TypeOK, CommandLine

LEMMA AnswerTold ==
  ASSUME SimInv, Answer
  PROVE  /\ calls' \in [Lines -> Call] /\ ConnectLine \in WireLine
         /\ Write(ConnectLine) /\ Told(calls, ConnectLine, calls')
<1>1. /\ father \in InCall /\ Write(ConnectLine)
      /\ calls' = [calls EXCEPT ![CommandLine] = [calls[CommandLine] EXCEPT !.answered = TRUE]]
  BY DEF Answer, Send, FatherGoto, InCall
<1>2. /\ calls \in [Lines -> Call] /\ CommandLine \in Lines
      /\ calls[CommandLine].dir = (IF CommandLine = 1 THEN "CALL" ELSE "RING")
  BY <1>1, CallGoesOn
<1>3. /\ calls' \in [Lines -> Call]
      /\ \A k \in Lines : Same(calls[k], calls'[k])
  BY <1>1, <1>2 DEF Same, Call
<1> DEFINE number == IF command.in THEN command.caller ELSE command.called
<1>4. number \in RawNumbers /\ NoNumber \in RawNumbers
  BY DEF SimInv, SimTypeOK, Commands, RawNumbers
<1>5. ConnectLine = FullLine("CONNECT", CommandLine, number, NoNumber, 0)
  BY DEF ConnectLine
<1>6. ConnectLine \in WireLine
  BY <1>2, <1>4, <1>5, FullLineType DEF LineTypes
<1>7. ConnectLine.type = "CONNECT" /\ ConnectLine.line = CommandLine /\ ConnectLine.n = 6
  BY <1>5 DEF FullLine, FullParams
<1> DEFINE m == ConnectLine
<1>8. m.type = "CONNECT" /\ m.line = CommandLine /\ m.n = 6
  BY <1>7
<1> HIDE DEF m
<1>9. Told(calls, m, calls')
  BY <1>2, <1>3, <1>8 DEF Told, LineTypes, FullParams
<1> QED BY <1>1, <1>3, <1>6, <1>9 DEF m

LEMMA HangUpTold ==
  ASSUME SimInv, HangUp
  PROVE  \E m \in WireLine :
           calls' \in [Lines -> Call] /\ Write(m) /\ Told(calls, m, calls')
<1> DEFINE m == FullLine("DISCONNECT", CommandLine, NoNumber, NoNumber, Duration)
<1>1. /\ father \in {"rung", "talked"} /\ Write(m)
      /\ calls' = [calls EXCEPT ![CommandLine] = NoCall]
  BY DEF HangUp, Send, FatherGoto
<1>2. /\ calls \in [Lines -> Call] /\ CommandLine \in Lines
      /\ calls[CommandLine].dir = (IF CommandLine = 1 THEN "CALL" ELSE "RING")
      /\ calls[CommandLine].answered <=> father = "talked"
  BY <1>1, CallGoesOn DEF InCall
<1>3. /\ calls' \in [Lines -> Call] /\ calls'[CommandLine].dir = "NONE"
      /\ \A k \in Lines \ {CommandLine} : calls'[k] = calls[k]
  <2>1. NoCall \in Call /\ NoCall.dir = "NONE"
    BY ZeroTypes DEF NoCall
  <2> QED BY <1>1, <1>2, <2>1
<1>4. Duration \in Int /\ (father # "talked" => Duration = 0)
  BY DEF Duration, SimInv, SimTypeOK
<1>5. m \in WireLine
  BY <1>2, <1>4, FullLineType DEF LineTypes, RawNumbers
<1>6. m.type = "DISCONNECT" /\ m.line = CommandLine /\ m.n = 5 /\ m.duration = Duration
  BY DEF FullLine, FullParams
<1> HIDE DEF m
<1>7. Told(calls, m, calls')
  BY <1>2, <1>3, <1>4, <1>6 DEF Told, LineTypes, FullParams, Same
<1> QED BY <1>1, <1>3, <1>5, <1>7

-----------------------------------------------------------------------------
(* All of it. *)

\* Steps of father, user and signals that neither write nor read.
LEMMA UnreadUntouched ==
  ASSUME UNCHANGED vars
  PROVE  (Unread => Unread') /\ (SimSlots => SimSlots') /\ (Reported => Reported')
  BY DEF vars, Unread, SimSlots, Reported

LEMMA Silenced == out' = Silence => Reported'
  BY DEF Reported, Silence, ZeroEvent, FollowUp

LEMMA UnreadConnect ==
  ASSUME SimInv, ChildConnects
  PROVE  Unread' /\ SimSlots' /\ Reported' /\ ChildConnected'
<1>1. /\ conn' = "open" /\ shadow' = <<calls>> /\ wire' = <<>> /\ calls' = calls
      /\ lastcall' = ZeroEvent /\ lastring' = ZeroEvent /\ out' = Silence
  BY DEF ChildConnects, Connect, SimInv, Lengths
<1>2. calls = Idle
  BY DEF ChildConnects, SimInv, OneCall, InCall
<1>3. Len(shadow') = 1 /\ shadow'[1] = calls' /\ Len(wire') = 0
  BY <1>1
<1>4. Unread'
  <2>1. \A i \in 1 .. Len(wire') : FALSE
    BY <1>3
  <2> QED BY <1>3, <2>1 DEF Unread
<1>5. SlotOf(shadow'[1], lastcall', lastring')
  BY <1>1, <1>2, <1>3, LinesOfSimulator DEF SlotOf, Idle, NoCall, ZeroEvent
<1> QED BY <1>1, <1>4, <1>5, Silenced DEF SimSlots, ChildConnected

LEMMA UnreadRead ==
  ASSUME SimInv, ChildReads
  PROVE  Unread' /\ SimSlots' /\ Reported' /\ ChildConnected'
<1>1. Read /\ child = "running"
  BY DEF ChildReads
<1>2. conn = "open" /\ TypeOK /\ Lengths /\ Unread /\ SimSlots
  BY <1>1 DEF SimInv, ChildConnected, Read, ReadRejected, ReadEvent, ReadFault, ReadEOF, NextLine
<1>3. ReadEvent
  BY <1>1, <1>2, FirstUnread DEF Read, ReadRejected, ReadFault, ReadEOF
<1>4. NextLine /\ conn' = conn
  BY <1>3 DEF ReadEvent
<1>5. PICK e \in Event :
        /\ Handle(e)
        /\ e.type = wire[1].type /\ e.line = wire[1].line
        /\ wire[1].type = "RING" =>
             e.caller = Normalize(wire[1].caller) /\ e.called = Normalize(wire[1].called)
  BY <1>2, <1>3, SimEvent
<1>6. /\ lastcall' = NextSlot(lastcall, "CALL", e) /\ lastring' = NextSlot(lastring, "RING", e)
      /\ lastcall \in Event /\ lastring \in Event
  BY <1>2, <1>5 DEF Handle, TypeOK
<1>7. Told(shadow[1], wire[1], shadow'[1]) /\ SlotOf(shadow[1], lastcall, lastring)
  BY <1>2, <1>4, FirstUnread DEF SimSlots
<1>8. SlotOf(shadow'[1], lastcall', lastring')
  BY <1>5, <1>6, <1>7, SlotsNext
<1>9. Reported'
  BY <1>2, <1>3, ReportedRead DEF Reported
<1> QED BY <1>1, <1>2, <1>4, <1>8, <1>9, UnreadNextLine DEF SimSlots, ChildConnected

LEMMA UnreadNext ==
  ASSUME SimInv, SimNext, calls' \in [Lines -> Call]
  PROVE  Unread' /\ SimSlots' /\ ChildConnected' /\ (Reported => Reported')
<1>0. TypeOK /\ Lengths /\ Unread /\ SimSlots /\ ChildConnected
  BY DEF SimInv
<1>1. CASE User \/ Open \/ Accept \/ Loop \/ Sleep \/ Probe
  <2>1. UNCHANGED vars /\ UNCHANGED child
    BY <1>1 DEF User, InputEnds, InputOther, InputQuit, InputSet, InputCall, Open, Accept, Loop,
                Sleep, Probe
  <2>2. ChildConnected'
    BY <1>0, <2>1 DEF ChildConnected, vars
  <2> QED BY <1>0, <2>1, <2>2, UnreadUntouched
<1>2. ASSUME Vanishes, conn' = "lost" => child' \notin {"running", "calling"}
      PROVE  Unread' /\ SimSlots' /\ ChildConnected' /\ (Reported => Reported')
  <2>1. CASE BoxVanish
    <3>1. conn' = "lost" /\ out' = Silence
      BY <2>1 DEF BoxVanish
    <3> QED BY <1>2, <3>1, Silenced DEF Unread, SimSlots, ChildConnected
  <2>2. CASE UNCHANGED vars
    <3>1. ChildConnected'
      BY <1>0, <1>2, <2>2 DEF ChildConnected, vars
    <3> QED BY <1>0, <2>2, <3>1, UnreadUntouched
  <2> QED BY <1>2, <2>1, <2>2 DEF Vanishes
<1>8. CASE Kill \/ Wait \/ child_handler \/ TerminateFather \/ Interrupt \/ CallbackReturns
  <2>1. Vanishes
    BY <1>8, ClosedVanish
    DEF Kill, Wait, child_handler, TerminateFather, Interrupt, CallbackReturns, Vanishes
  <2>2. CASE Kill \/ Interrupt
    <3>1. ChildSignalled
      BY <2>2 DEF Kill, Interrupt
    <3>2. child' \notin {"running", "calling"}
      BY <3>1 DEF ChildSignalled
    <3> QED BY <1>2, <2>1, <3>2
  <2>3. CASE Wait \/ child_handler \/ TerminateFather \/ CallbackReturns
    <3>1. UNCHANGED conn /\ (child' \in {"running", "calling"} => child \in {"running", "calling"})
      BY <2>3 DEF Wait, child_handler, TerminateFather, CallbackReturns, vars
    <3>2. conn' = "lost" => child' \notin {"running", "calling"}
      BY <1>0, <3>1 DEF ChildConnected
    <3> QED BY <1>2, <2>1, <3>2
  <2> QED BY <1>8, <2>2, <2>3
<1>3. ASSUME NEW m \in WireLine, Write(m), Told(calls, m, calls'), UNCHANGED child
      PROVE  Unread' /\ SimSlots' /\ ChildConnected' /\ Reported'
  <2>1. Unread' /\ SimSlots'
    BY <1>0, <1>3, UnreadWrite
  <2>2. conn' = conn /\ out' = Silence
    BY <1>3 DEF Write
  <2> QED BY <1>0, <1>3, <2>1, <2>2, Silenced DEF ChildConnected
<1>4. CASE Dial
  BY <1>3, <1>4, DialTold DEF Dial
<1>5. CASE Answer
  BY <1>3, <1>5, AnswerTold DEF Answer
<1>6. CASE HangUp
  BY <1>3, <1>6, HangUpTold DEF HangUp
<1>7. CASE ChildExits \/ ChildKilled
  BY <1>2, <1>7, ClosedVanish DEF ChildExits, ChildKilled
<1> QED BY <1>1, <1>4, <1>5, <1>6, <1>7, <1>8, UnreadConnect, UnreadRead
        DEF SimNext, Father, Child, Outside

LEMMA SimInvInit == SimInit => SimInv
<1> SUFFICES ASSUME SimInit PROVE SimInv
  OBVIOUS
<1>1. Init /\ father = "open" /\ ~command.in /\ command \in Commands
  BY DEF SimInit
<1>2. TypeOK /\ Lengths /\ SimTypeOK
  BY <1>1, TypeInit, SimTypeInit
<1>3. Commanded /\ OneCall
  BY <1>1 DEF Init, Commanded, OneCall, Idle, InCall
<1>4. ChildConnected /\ Unread /\ SimSlots
  BY <1>1 DEF Init, ChildConnected, Unread, SimSlots
<1> QED BY <1>2, <1>3, <1>4 DEF SimInv

LEMMA SimInvNext ==
  ASSUME SimInv, [SimNext]_simvars
  PROVE  SimInv' /\ (Reported => Reported')
<1>1. CASE UNCHANGED simvars
  <2>1. UNCHANGED <<vars, father, _shutdown, var, command, child>>
    BY <1>1 DEF simvars, simulator
  <2>2. TypeOK' /\ Lengths'
    BY <2>1, TypeNext DEF SimInv
  <2>3. SimTypeOK' /\ Commanded' /\ OneCall' /\ ChildConnected'
    BY <2>1 DEF SimInv, SimTypeOK, Commanded, OneCall, ChildConnected, CommandLine, vars
  <2> QED BY <2>1, <2>2, <2>3, UnreadUntouched DEF SimInv
<1>2. CASE SimNext
  <2>1. TypeOK' /\ Lengths'
    <3>1. CASE Next \/ UNCHANGED vars
      BY <3>1, TypeNext DEF SimInv
    <3>2. CASE Dial
      BY <3>2, DialTold, WriteTypes DEF SimInv
    <3>3. CASE HangUp
      BY <3>3, HangUpTold, WriteTypes DEF SimInv
    <3> QED BY <1>2, <3>1, <3>2, <3>3, StepLikeABox DEF Odd
  <2>2. SimTypeOK' /\ Commanded'
    BY <1>2, SimTypeNext, CommandedNext DEF SimInv
  <2>3. calls' \in [Lines -> Call]
    BY <2>1 DEF TypeOK
  <2> QED BY <1>2, <2>1, <2>2, <2>3, OneCallNext, UnreadNext DEF SimInv
<1> QED BY <1>1, <1>2

LEMMA SimInvariant == SimSpec => []SimInv
  BY SimInvInit, SimInvNext, PTL DEF SimSpec

\* Whatever is commanded and whatever signals arrive, the test mode writes what a
\* box writes, and its child is the listener of FritzBoxFon: every theorem about
\* the listener's steps holds for the tests, but for what a CALL line says, and
\* the negative duration after a negative talk_time.
THEOREM WritesLikeABoxHolds == SimSpec => WritesLikeABox
<1> DEFINE Exception ==
      (father = "dial" /\ ~command.in) \/ (father = "talked" /\ var.talk_time < 0)
<1>1. SimInv /\ [SimNext]_simvars => [Next \/ Exception]_vars
  <2>1. ASSUME SimInv, SimNext PROVE [Next \/ Exception]_vars
    BY <2>1, StepLikeABox DEF Odd, Dial, FatherGoto
  <2>2. ASSUME UNCHANGED simvars PROVE UNCHANGED vars
    BY <2>2 DEF simvars
  <2> QED BY <2>1, <2>2
<1>2. SimInv /\ [SimNext]_simvars =>
        [Next \/ (father = "dial" /\ ~command.in) \/ (father = "talked" /\ var.talk_time < 0)]_vars
  BY <1>1
<1> QED BY <1>2, SimInvariant, PTL DEF SimSpec, WritesLikeABox

\* A call is reported as it was commanded: with its direction, an incoming one
\* with its numbers, and as missed if and only if nobody answered it.
THEOREM CallsAsCommandedHolds == SimSpec => []CallsAsCommanded
<1>1. SimInit => Reported
  BY DEF SimInit, Init, Reported, Silence, ZeroEvent, FollowUp
<1>2. SimInv /\ Reported /\ [SimNext]_simvars => Reported'
  BY SimInvNext
<1>3. Reported => CallsAsCommanded
  BY DEF Reported, AsCommanded, CallsAsCommanded
<1> QED BY <1>1, <1>2, <1>3, SimInvariant, PTL DEF SimSpec

-----------------------------------------------------------------------------
(* No call is lost. *)

\* What EveryCallReported says of the last event.
CallOver(e) ==
  /\ e.type = "DISCONNECT" /\ e.line = CommandLine
  /\ e.pretype = (IF command.in THEN "RING" ELSE "CALL")
  /\ command.in => /\ e.caller = Normalize(command.caller)
                   /\ e.called = Normalize(command.called)
  /\ ~command.with => (Missed(e) <=> command.in)

\* m is the end of the call that was commanded, which was among the calls v.
EndOf(m, v) ==
  /\ m.type = "DISCONNECT" /\ m.line = CommandLine
  /\ v[CommandLine].caller = command.caller /\ v[CommandLine].called = command.called
  /\ v[CommandLine].answered <=> command.with

\* The end of the last call is the last line that is unread, or the event that
\* was handed on last.
Ended == IF wire = <<>> THEN CallOver(out.event) ELSE EndOf(wire[Len(wire)], shadow[Len(wire)])

\* So it is between two calls.
LastLine ==
  /\ father \in {"open", "accept"} => command.called = NoNumber
  /\ father \in {"talking", "talked"} => command.with
  /\ father \in {"loop", "prompt"} /\ command.called # NoNumber /\ conn = "open" => Ended

\* The father goes on between two calls, or is elsewhere.
LEMMA LastLineStays ==
  ASSUME LastLine, UNCHANGED <<vars, command>>,
         father' \in {"open", "accept"} => father \in {"open", "accept"},
         father' \in {"talking", "talked"} => father \in {"talking", "talked"} \/ command.with,
         father' \in {"loop", "prompt"} => father \in {"open", "accept", "loop", "prompt"}
  PROVE  LastLine'
<1>1. UNCHANGED <<conn, wire, shadow, out, command>>
  BY DEF vars
<1> QED BY <1>1 DEF LastLine, Ended, CallOver, EndOf, CommandLine

\* The father hangs up: the end of the call is the last line.
LEMMA LastLineHangUp ==
  ASSUME SimInv, LastLine, HangUp
  PROVE  LastLine'
<1>1. /\ father \in {"rung", "talked"} /\ father' = "loop" /\ UNCHANGED command
      /\ Write(FullLine("DISCONNECT", CommandLine, NoNumber, NoNumber, Duration))
      /\ father = "rung" => ~command.with
  BY DEF HangUp, Send, FatherGoto
<1> DEFINE m == FullLine("DISCONNECT", CommandLine, NoNumber, NoNumber, Duration)
<1>2. m.type = "DISCONNECT" /\ m.line = CommandLine /\ Write(m)
  BY <1>1 DEF FullLine
<1>3. m \in WireLine
  <2>1. Duration \in Int /\ NoNumber \in RawNumbers
    BY DEF Duration, SimInv, SimTypeOK, RawNumbers
  <2> QED BY <2>1, CommandLineType, FullLineType DEF LineTypes
<1> HIDE DEF m
<1>4. EndOf(m, calls)
  BY <1>1, <1>2 DEF EndOf, SimInv, OneCall, LastLine, InCall
<1>5. CommandLine' = CommandLine
  BY <1>1 DEF CommandLine
<1>6. CASE conn # "open"
  BY <1>1, <1>2, <1>6 DEF Write, LastLine
<1>7. CASE conn = "open"
  <2>1. /\ wire' = Append(wire, m) /\ shadow' = Append(shadow, calls')
        /\ Len(shadow) = Len(wire) + 1 /\ shadow[Len(shadow)] = calls
        /\ wire \in Seq(WireLine) /\ shadow \in Seq([Lines -> Call]) /\ Len(wire) \in Nat
        /\ calls' \in [Lines -> Call]
    BY <1>2, <1>7, HangUpTold DEF Write, SimInv, Lengths, Unread, TypeOK
  <2>2. Len(wire') = Len(wire) + 1 /\ wire'[Len(wire) + 1] = m
    BY <1>3, <2>1, AppendProperties
  <2>3. \A i \in 1 .. Len(shadow) : shadow'[i] = shadow[i]
    BY <2>1, AppendProperties
  <2>4. wire'[Len(wire')] = m /\ shadow'[Len(wire')] = calls
    BY <2>1, <2>2, <2>3
  <2>5. wire' # <<>>
    BY <2>1, <2>2
  <2>6. Ended'
    BY <1>1, <1>4, <1>5, <2>4, <2>5 DEF Ended, EndOf
  <2> QED BY <1>1, <2>6 DEF LastLine
<1> QED BY <1>6, <1>7

\* The child reads: the end of the call comes nearer, or is its event.
LEMMA LastLineRead ==
  ASSUME SimInv, LastLine, ChildReads
  PROVE  LastLine'
<1>1. Read /\ child = "running" /\ UNCHANGED <<father, command>>
  BY DEF ChildReads, simulator
<1>2. conn = "open" /\ TypeOK /\ Lengths /\ Unread /\ SimSlots
  BY <1>1 DEF SimInv, ChildConnected, Read, ReadRejected, ReadEvent, ReadFault, ReadEOF, NextLine
<1>3. ReadEvent /\ NextLine
  BY <1>1, <1>2, FirstUnread DEF Read, ReadRejected, ReadFault, ReadEOF, ReadEvent
<1>4. /\ wire \in Seq(WireLine) /\ wire # <<>> /\ shadow \in Seq([Lines -> Call]) /\ shadow # <<>>
      /\ Len(wire) \in Nat \ {0} /\ Len(shadow) = Len(wire) + 1
      /\ wire' = Tail(wire) /\ shadow' = Tail(shadow)
  BY <1>2, <1>3, EmptySeq DEF TypeOK, Lengths, NextLine
<1>5. Len(wire') = Len(wire) - 1 /\ \A i \in 1 .. Len(wire) - 1 : wire'[i] = wire[i + 1]
  BY <1>4, HeadTailProperties
<1>6. \A i \in 1 .. Len(wire) : shadow'[i] = shadow[i + 1]
  BY <1>4, HeadTailProperties
<1> SUFFICES ASSUME father \in {"loop", "prompt"}, command.called # NoNumber
             PROVE  Ended'
  BY <1>1 DEF LastLine
<1>7. EndOf(wire[Len(wire)], shadow[Len(wire)])
  BY <1>2, <1>4 DEF LastLine, Ended
<1>8. CommandLine' = CommandLine
  BY <1>1 DEF CommandLine
<1>9. CASE Len(wire) > 1
  <2>1. Len(wire) - 1 \in 1 .. Len(wire) - 1 /\ Len(wire) - 1 \in 1 .. Len(wire)
        /\ (Len(wire) - 1) + 1 = Len(wire)
    BY <1>4, <1>9
  <2>2. wire'[Len(wire')] = wire[Len(wire)] /\ shadow'[Len(wire')] = shadow[Len(wire)]
    BY <1>5, <1>6, <2>1
  <2>3. wire' # <<>>
    <3> DEFINE k == Len(wire)
    <3>1. Len(wire') = k - 1 /\ k \in Nat \ {0} /\ k > 1
      BY <1>4, <1>5, <1>9
    <3> HIDE DEF k
    <3>2. Len(wire') # 0
      BY <3>1
    <3> QED BY <3>2, EmptySeq
  <2> QED BY <1>1, <1>7, <1>8, <2>2, <2>3 DEF Ended, EndOf
<1>10. CASE Len(wire) = 1
  <2>1. wire' = <<>>
    BY <1>4, <1>10
  <2>2. EndOf(wire[1], shadow[1])
    BY <1>7, <1>10
  <2>3. PICK e \in Event : /\ Handle(e)
                           /\ e.type = "DISCONNECT" /\ e.line = CommandLine
    BY <1>2, <1>3, <2>2, SimEvent DEF EndOf
  <2>4. /\ out'.event = Attributed(e) /\ out'.call = shadow[1][CommandLine]
    BY <2>3, CommandLineType DEF Handle
  <2>5. out'.event.type = "DISCONNECT" /\ out'.event.line = CommandLine
    BY <2>3, <2>4 DEF Attributed, TakeOver, Event
  <2>6. AsCommanded(out'.event, out'.call)
    BY <1>2, <1>3, <2>5, ReportedRead DEF FollowUp
  <2>7. shadow[1][CommandLine].dir = IF command.in THEN "RING" ELSE "CALL"
    <3>1. Told(shadow[1], wire[1], shadow'[1])
      BY <1>2, <1>3, FirstUnread
    <3>2. shadow[1][CommandLine].dir = IF CommandLine = 1 THEN "CALL" ELSE "RING"
      BY <2>2, <3>1 DEF Told, EndOf
    <3> QED BY <3>2 DEF CommandLine
  <2>8. CallOver(out'.event)
    BY <2>2, <2>4, <2>5, <2>6, <2>7 DEF CallOver, EndOf, AsCommanded
  <2> QED BY <1>1, <1>8, <2>1, <2>8 DEF Ended, CallOver
<1>11. Len(wire) > 1 \/ Len(wire) = 1
  <2> DEFINE k == Len(wire)
  <2>1. k \in Nat \ {0}
    BY <1>4
  <2> HIDE DEF k
  <2>2. k > 1 \/ k = 1
    BY <2>1
  <2> QED BY <2>2 DEF k
<1> QED BY <1>9, <1>10, <1>11

LEMMA LastLineNext ==
  ASSUME SimInv, LastLine, [SimNext]_simvars
  PROVE  LastLine'
<1>1. CASE HangUp
  BY <1>1, LastLineHangUp
<1>2. CASE ChildReads
  BY <1>2, LastLineRead
<1>3. CASE Dial \/ Answer
  BY <1>3 DEF Dial, Answer, FatherGoto, LastLine
<1>4. CASE User
  <2>1. CASE InputEnds \/ InputOther \/ InputQuit
    BY <2>1, LastLineStays DEF InputEnds, InputOther, InputQuit, FatherGoto
  <2>2. ASSUME NEW name, NEW time, InputSet(name, time) PROVE LastLine'
    BY <2>2, LastLineStays DEF InputSet, FatherGoto
  <2>3. ASSUME NEW c, InputCall(c) PROVE LastLine'
    BY <2>3 DEF InputCall, FatherGoto, LastLine
  <2> QED BY <1>4, <2>1, <2>2, <2>3 DEF User
<1>5. CASE Open \/ Loop \/ Sleep \/ Probe \/ Wait
  BY <1>5, LastLineStays DEF Open, Loop, Sleep, Probe, Wait, FatherGoto, LastLine
<1>6. CASE Accept
  BY <1>6, LastLineStays DEF Accept, FatherGoto
<1>7. CASE ChildConnects
  BY <1>7 DEF ChildConnects, simulator, LastLine
<1>8. ASSUME Vanishes, UNCHANGED command,
             father' = father \/ father' = Woken \/ father' \in {"wait", "stuck"}
      PROVE  LastLine'
  <2>1. /\ father' \in {"open", "accept"} => father \in {"open", "accept"}
        /\ father' \in {"talking", "talked"} => father \in {"talking", "talked"}
        /\ father' \in {"loop", "prompt"} => father \in {"loop", "prompt"}
    BY <1>8 DEF Woken
  <2>2. CASE UNCHANGED vars
    BY <1>8, <2>1, <2>2, LastLineStays
  <2>3. CASE BoxVanish
    <3>1. conn' # "open"
      BY <2>3 DEF BoxVanish
    <3> QED BY <1>8, <2>1, <3>1 DEF LastLine
  <2> QED BY <1>8, <2>2, <2>3 DEF Vanishes
<1>9. CASE ChildExits \/ ChildKilled \/ CallbackReturns
  BY <1>8, <1>9, ClosedVanish DEF ChildExits, ChildKilled, CallbackReturns, simulator, Vanishes
<1>10. CASE Kill
  BY <1>8, <1>10, ClosedVanish DEF Kill, FatherGoto
<1>11. CASE child_handler \/ TerminateFather \/ Interrupt
  BY <1>8, <1>11, ClosedVanish
  DEF child_handler, TerminateFather, Interrupt, shutdown_handler, Vanishes
<1>12. CASE UNCHANGED simvars
  BY <1>12, LastLineStays DEF simvars, simulator
<1> QED BY <1>1, <1>2, <1>3, <1>4, <1>5, <1>6, <1>7, <1>9, <1>10, <1>11, <1>12
        DEF SimNext, Father, Child, Outside

\* No call is lost between the command and the callbacks of the child: when all is
\* read, the last event is the end of the last call.
THEOREM EveryCallReportedHolds == SimSpec => []EveryCallReported
<1>1. SimInit => LastLine
  BY DEF SimInit, Init, LastLine
<1>2. SimInv /\ LastLine /\ [SimNext]_simvars => LastLine'
  BY LastLineNext
<1>3. LastLine => EveryCallReported
  BY DEF LastLine, Ended, CallOver, EveryCallReported
<1> QED BY <1>1, <1>2, <1>3, SimInvariant, PTL DEF SimSpec
=============================================================================
