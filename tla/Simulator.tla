----------------------------- MODULE Simulator -----------------------------
(***************************************************************************)
(* The test mode (fritzboxfon/fritzboxfon_simulate.c, listen2fritz.c       *)
(* 294-329): the program forks; the father plays a Fritz!Box whose calls   *)
(* the user commands, the child is the listener of FritzBoxFon connected   *)
(* to it.  At the end the father terminates the child.                     *)
(*                                                                         *)
(* The father writes the lines of the box of FritzBoxFon, by its Write;    *)
(* whether they are those that a box would write is a property.  The       *)
(* father and the child run asynchronously, and signals hit either or      *)
(* both.  What a signal does inside the child is in Listen2Fritz; here its *)
(* handler closes the connection, after which the child ends as soon as no *)
(* callback holds it, or is stuck in the handler.                          *)
(***************************************************************************)
EXTENDS FritzBoxFon

CONSTANTS
  Times,     \* what the user may set ring_time and talk_time to, as atoi() reads it
  SIP2       \* the text "SIP2", as a number that can be read from a line

ASSUME TimesAssumption == Times \subseteq Int
\* 10 is what talk_time is to begin with.
ASSUME DurationsOfTalks == (Times \intersect Nat) \union {10} \subseteq Durations
\* A child that ends closes the connection without the father's doing.
ASSUME ChildVanishes == "vanish" \in Faults
ASSUME LinesOfSimulator == Lines = {1, 2}
ASSUME SIP2Assumption == SIP2 \in Remotes \ {NoNumber}

VARIABLES
  father,      \* what the father is about to do, or "stuck" in its signal handler
  _shutdown,   \* of the father
  var,         \* var_ring_time, var_talk_time
  command,     \* the call that is simulated
  child        \* "running", "calling": in a callback that may wait for a server or a script,
               \* "ending" and "leaving": the same two after a signal,
               \* "stuck" in its handler, "zombie", "reaped"

simulator == <<father, _shutdown, var, command>>
simvars == <<vars, simulator, child>>

Commands == [in : BOOLEAN, with : BOOLEAN, caller : RawNumbers, called : RawNumbers]

FatherGoto(from, to) == father = from /\ father' = to

-----------------------------------------------------------------------------
SimInit ==
  /\ Init
  /\ father = "open"
  /\ _shutdown = FALSE
  /\ var = [ring_time |-> 3, talk_time |-> 10]
  /\ command \in {c \in Commands : c.caller = NoNumber /\ c.called = NoNumber /\ ~c.in /\ ~c.with}
  /\ child = "running"

-----------------------------------------------------------------------------
(* l2f_simulate_fritzboxfon_main *)

\* socket(), bind() and listen(), or one of them fails.
Open ==
  /\ FatherGoto("open", "accept") \/ FatherGoto("open", "exit")
  /\ UNCHANGED <<vars, _shutdown, var, command, child>>

\* accept() waits for the child to connect, signals or not; it and fdopen()
\* may fail.
Accept ==
  /\ conn # "down"
  /\ FatherGoto("accept", "loop") \/ FatherGoto("accept", "exit")
  /\ UNCHANGED <<vars, _shutdown, var, command, child>>

Loop ==
  /\ FatherGoto("loop", IF _shutdown THEN "exit" ELSE "prompt")
  /\ UNCHANGED <<vars, _shutdown, var, command, child>>

\* The end of the input.
InputEnds ==
  /\ FatherGoto("prompt", "exit")
  /\ UNCHANGED <<vars, _shutdown, var, command, child>>

\* help, show, a variable that does not exist or that is not modelled (line),
\* a command that is rejected.
InputOther ==
  /\ FatherGoto("prompt", "loop")
  /\ UNCHANGED <<vars, _shutdown, var, command, child>>

InputSet(name, time) ==
  /\ FatherGoto("prompt", "loop")
  /\ var' = [var EXCEPT ![name] = time]
  /\ UNCHANGED <<vars, _shutdown, command, child>>

InputQuit ==
  /\ FatherGoto("prompt", "loop")
  /\ _shutdown' = TRUE
  /\ UNCHANGED <<vars, var, command, child>>

InputCall(c) ==
  /\ FatherGoto("prompt", "dial")
  /\ command' = c
  /\ UNCHANGED <<vars, _shutdown, var, child>>

CommandLine == IF command.in THEN 2 ELSE 1

\* Fault: the line stays in the buffer of the stream.
SendUnflushed(c, m) ==
  /\ calls' = [calls EXCEPT ![CommandLine] = c]
  /\ out' = Silence
  /\ UNCHANGED <<wire, conn, slots, shadow>>

\* l2f_simulate_fritzboxfon_send: a call goes over to state c with line m.
Send(c, m) ==
  /\ calls' = [calls EXCEPT ![CommandLine] = c]
  /\ Write(m)

\* The colon in the format of the CALL line makes one parameter of two, and
\* moves the others up.
CallLine == [FullLine("CALL", 1, command.called, SIP2, 0) EXCEPT !.n = FullParams["CALL"] - 1]

FirstLine ==
  IF command.in THEN FullLine("RING", 2, command.caller, command.called, 0) ELSE CallLine

\* The RING or CALL line.
Dial ==
  /\ FatherGoto("dial", "ringing")
  /\ Send([dir |-> IF command.in THEN "RING" ELSE "CALL", caller |-> command.caller,
           called |-> command.called, answered |-> FALSE,
           newest |-> (conn = "open"), heard |-> (conn = "open")], FirstLine)
  /\ UNCHANGED <<_shutdown, var, command, child>>

\* sleep(var_ring_time), sleep(var_talk_time).  sleep() takes a negative number as
\* an unsigned one, more than a hundred years: only a signal ends it.
Sleep ==
  /\ \/ var.ring_time >= 0 /\ FatherGoto("ringing", "rung")
     \/ var.talk_time >= 0 /\ FatherGoto("talking", "talked")
  /\ UNCHANGED <<vars, _shutdown, var, command, child>>

\* Fault: the CONNECT line has the caller's number in both directions.
ConnectLineCaller == FullLine("CONNECT", CommandLine, command.caller, NoNumber, 0)

ConnectLine ==
  FullLine("CONNECT", CommandLine, IF command.in THEN command.caller ELSE command.called, NoNumber, 0)

Answer ==
  /\ command.with
  /\ FatherGoto("rung", "talking")
  /\ Send([calls[CommandLine] EXCEPT !.answered = TRUE], ConnectLine)
  /\ UNCHANGED <<_shutdown, var, command, child>>

\* Fault: the duration is that of an answered call.
DurationOfTalk == var.talk_time

\* duration is 0 until a call is answered; %d writes a negative one as it is.
Duration == IF father = "talked" THEN var.talk_time ELSE 0

HangUp ==
  /\ (~command.with /\ FatherGoto("rung", "loop")) \/ FatherGoto("talked", "loop")
  /\ Send(NoCall, FullLine("DISCONNECT", CommandLine, NoNumber, NoNumber, Duration))
  /\ UNCHANGED <<_shutdown, var, command, child>>

-----------------------------------------------------------------------------
(* l2f_simulate_fritzboxfon_exit *)

\* kill(pid,0): a zombie still has its pid.
Probe ==
  /\ FatherGoto("exit", IF child # "reaped" THEN "kill" ELSE "done")
  /\ UNCHANGED <<vars, _shutdown, var, command, child>>

\* The connection is gone: to the calls it is as if the box had vanished.
Closed == IF conn = "open" THEN BoxVanish ELSE UNCHANGED vars

\* What a shutdown signal does to the child, if it is alive and not stuck: the
\* handler closes the connection and the child goes on to its end, where a
\* callback lets it; or the handler waits for a lock, with the connection open.
ChildSignalled ==
  \/ /\ child \in {"running", "ending", "calling", "leaving"}
     /\ \/ child' = (IF child \in {"running", "ending"} THEN "ending" ELSE "leaving") /\ Closed
        \/ child' = "stuck" /\ UNCHANGED vars
  \/ child \in {"stuck", "zombie", "reaped"} /\ UNCHANGED <<vars, child>>

\* kill(pid,SIGTERM)
Kill ==
  /\ FatherGoto("kill", "wait")
  /\ ChildSignalled
  /\ UNCHANGED <<_shutdown, var, command>>

\* sleep(1)
Wait ==
  /\ FatherGoto("wait", "exit")
  /\ UNCHANGED <<vars, _shutdown, var, command, child>>

-----------------------------------------------------------------------------
(* The child *)

\* The father listens; a child that is ending may still connect once.
ChildConnects ==
  /\ father = "accept" /\ child \in {"running", "ending"}
  /\ Connect
  /\ UNCHANGED <<simulator, child>>

\* A line is read; its event, if there is one, is handed to the callbacks.
ChildReads ==
  /\ child = "running"
  /\ Read
  /\ child' = IF out' = Silence THEN child ELSE "calling"
  /\ UNCHANGED simulator

\* The callbacks return; they need not ever (external, see Lookup and Notify).
CallbackReturns ==
  /\ \/ child = "calling" /\ child' = "running"
     \/ child = "leaving" /\ child' = "ending"
  /\ UNCHANGED <<vars, simulator>>

\* process() closes what is still open, and main() returns.
ChildExits ==
  /\ child = "ending"
  /\ child' = "zombie"
  /\ Closed
  /\ UNCHANGED simulator

\* Somebody kills the child.
ChildKilled ==
  /\ child \notin {"zombie", "reaped"} /\ father # "done"
  /\ child' = "zombie"
  /\ Closed
  /\ UNCHANGED simulator

-----------------------------------------------------------------------------
(* Signals to the father *)

\* Every handler ends a sleep().
Woken ==
  CASE father = "ringing" -> "rung"
    [] father = "talking" -> "talked"
    [] father = "wait" -> "exit"
    [] OTHER -> father

\* Fault: a child that has ended is not waited for.
child_handler_missing == child = "zombie" /\ UNCHANGED simvars

\* SIGCHLD: the child is reaped.
child_handler ==
  /\ child = "zombie"
  /\ child' = "reaped"
  /\ father' = Woken
  /\ UNCHANGED <<vars, _shutdown, var, command>>

\* Where the father logs, or makes a text of the time, its handler may wait for
\* a lock that the father itself holds.
Locks == {"open", "accept", "dial", "rung", "talked", "exit"}

shutdown_handler ==
  /\ father \notin {"stuck", "done"}
  /\ \/ _shutdown' = TRUE /\ father' = Woken
     \/ father \in Locks /\ father' = "stuck" /\ UNCHANGED _shutdown
  /\ UNCHANGED <<var, command>>

\* Somebody terminates the father only.
TerminateFather == shutdown_handler /\ UNCHANGED <<vars, child>>

\* Ctrl-C goes to both processes.
Interrupt == shutdown_handler /\ ChildSignalled

-----------------------------------------------------------------------------
User ==
  \/ InputEnds \/ InputOther \/ InputQuit
  \/ \E name \in {"ring_time", "talk_time"}, time \in Times : InputSet(name, time)
  \/ \E with \in BOOLEAN, a \in Remotes \ {SIP2}, b \in Locals :
       \/ InputCall([in |-> TRUE, with |-> with, caller |-> a, called |-> b])
       \/ a # NoNumber /\ InputCall([in |-> FALSE, with |-> with, caller |-> b, called |-> a])

Father == Open \/ Accept \/ Loop \/ Dial \/ Sleep \/ Answer \/ HangUp \/ Probe \/ Kill \/ Wait

Child == ChildConnects \/ ChildReads \/ ChildExits

Outside == CallbackReturns \/ ChildKilled \/ TerminateFather \/ Interrupt

SimNext == User \/ Father \/ Child \/ child_handler \/ Outside

\* Both processes are scheduled, and SIGCHLD is delivered; nothing is assumed
\* of the user, nor of what the callbacks wait for.
SimSpec ==
  /\ SimInit /\ [][SimNext]_simvars
  /\ WF_simvars(Father) /\ WF_simvars(Child) /\ WF_simvars(child_handler)

-----------------------------------------------------------------------------
(* Properties *)

\* "the output lines are of the form" that a box writes
\* (fritzboxfon_simulate.c:149-167), so that what was found out about the listener
\* holds for the tests too: every step of the test mode is one of a box and of
\* its listener, whatever signals arrive, but for two.  The CALL line has a colon
\* for a semicolon (line 370), and after a negative talk_time, whose sleep() a
\* signal has ended, the DISCONNECT has a negative duration (lines 364-367, 379-382).
WritesLikeABox ==
  [][Next \/ (father = "dial" /\ ~command.in) \/ (father = "talked" /\ var.talk_time < 0)]_vars

\* Whatever commands follow each other and whatever signals arrive, a call is
\* reported as it was commanded: its CONNECT and DISCONNECT with its direction,
\* which a shifted CALL line leaves alone; an incoming one with its numbers, "-"
\* as none (fritzboxfon_simulate.c:287); and as missed if it was incoming and
\* nobody answered, while an outgoing one without connection is not.
CallsAsCommanded ==
  FollowUp(out.event) /\ out.call.heard =>
    /\ out.event.pretype = out.call.dir
    /\ out.event.incoming = (out.call.dir = "RING")
    /\ out.call.dir = "RING" =>
         /\ out.event.line = 2
         /\ out.event.caller = Normalize(out.call.caller)
         /\ out.event.called = Normalize(out.call.called)
    /\ out.event.type = "DISCONNECT" /\ ~out.call.answered =>
         (Missed(out.event) <=> out.call.dir = "RING")

\* No call is lost on the way: when the father takes the next command and the
\* listener, still connected, has nothing left to read, the last event it has
\* handed to its callbacks is the end of the call that was commanded last, with
\* its direction, an incoming one with its numbers; and without connection it was
\* missed if and only if it was incoming (fritzboxfon_simulate.c:140, 347-384,
\* fritzboxfon.c:299-330).
EveryCallReported ==
  /\ father \in {"loop", "prompt"} /\ command.called # NoNumber
  /\ conn = "open" /\ wire = <<>>
  => /\ out.event.type = "DISCONNECT" /\ out.event.line = CommandLine
     /\ out.event.pretype = (IF command.in THEN "RING" ELSE "CALL")
     /\ command.in => /\ out.event.caller = Normalize(command.caller)
                      /\ out.event.called = Normalize(command.called)
     /\ ~command.with => (Missed(out.event) <=> command.in)

\* The test comes back to the user or to its end, the loop over kill() included
\* (fritzboxfon_simulate.c:100-107), whatever signals arrive in between, unless
\*  - the child that was to connect ended before it did,
\*  - the user has set a negative time,
\*  - a handler, of the father or of the child, waits for a lock,
\*  - a callback of the child never returns, because a server or a script it waits
\*    for does nothing: the child notes the signals of the father's loop only.
TestEnds ==
  \/ []<>(father \in {"prompt", "done"})
  \/ <>[](father = "accept" /\ child # "running")
  \/ <>[](father = "ringing" /\ var.ring_time < 0)
  \/ <>[](father = "talking" /\ var.talk_time < 0)
  \/ <>[](father = "stuck") \/ <>[](child = "stuck")
  \/ <>[](child \in {"calling", "leaving"})
=============================================================================
