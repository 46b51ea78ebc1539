---------------------------- MODULE Listen2Fritz ----------------------------
(***************************************************************************)
(* The daemon's control: the main loop of listen2fritz.c with its backoff, *)
(* the control of l2f_FRITZBOXFON_process (fritzboxfon.c), and the signal  *)
(* handlers that interrupt both at any point: shutdown_handler logs,       *)
(* closes the connection under the main program's feet and sets _shutdown; *)
(* child_handler reaps children and, like every handler, ends a sleep().   *)
(*                                                                         *)
(* A label is what the main program is doing; a label that starts with     *)
(* log_ means that it is inside util_logmsg.  There, and at other labels,  *)
(* it uses functions of the C library that must not be used again from a   *)
(* handler that interrupts them: syslog(), localtime() and mktime(),       *)
(* malloc() and free().  A handler runs to its end before the main program *)
(* goes on, so a handler that waits for their locks waits for ever.        *)
(***************************************************************************)
EXTENDS Naturals, Sequences

CONSTANTS
  Signals,       \* those that shutdown_handler is installed for
  MaxSignals,    \* bound on the shutdown signals sent
  MaxChildren,   \* bound on the children alive at a time
  MaxFails       \* bound on the failed attempts counted in a row

ASSUME BoundsAssumption ==
  MaxSignals \in Nat /\ MaxChildren \in Nat /\ MaxFails \in Nat
\* The delay no longer grows when the count of the failures stops.
ASSUME FailsAssumption == MaxFails >= 12

VARIABLES
  main,        \* label of the main program
  handlers,    \* the shutdown handlers running, each interrupted by the next
  _shutdown,
  _fd_fritzbox,   \* "NULL", "open", or "freed": closed and not yet NULL
  backoff,     \* seconds
  children,    \* children of the notifications, alive
  sent,        \* shutdown signals sent so far
  fails,       \* history: failed attempts since the last that succeeded
  hit,         \* history: where shutdown signals arrived
  late         \* history: sleeps and attempts begun since _shutdown

code == <<main, handlers, _shutdown, _fd_fritzbox, backoff, children>>
vars == <<code, sent, fails, hit, late>>

\* Inside util_logmsg; log_dump is that of l2f_EVENT_dump.
LogLabels ==
  {"log_connect", "log_fail", "log_wait", "log_event", "log_dump", "log_close", "log_delay"}

Labels == LogLabels \union
  {"resolve", "connect", "fdopen", "test", "fgets", "reading", "parse", "callbacks", "close",
   "fclose", "null", "failed", "succeeded", "sleep", "again", "remove", "done", "crashed"}

\* Where the main program may be inside a function that a handler must not use
\* again: util_logmsg; malloc() and free() for the stream, its buffer and the
\* answer of the resolver; mktime() in parse_input; all of them in the callbacks,
\* which log, format times and fork; util_logmsg when the pidfile stays.
Locking == LogLabels \union {"resolve", "fdopen", "reading", "parse", "callbacks", "fclose", "remove"}

Ended == main \in {"done", "crashed"}

\* Where a handler uses those functions itself.
HandlerLocking == {"log_signal", "log_close", "fclose"}

HandlerLabels == HandlerLocking \union {"test", "null", "set", "stuck"}

Lesser(a, b) == IF a < b THEN a ELSE b

MaxBackoff == 60 * 60

-----------------------------------------------------------------------------
Init ==
  /\ main = "resolve"
  /\ handlers = <<>>
  /\ _shutdown = FALSE
  /\ _fd_fritzbox = "NULL"
  /\ backoff = 1
  /\ children = 0
  /\ sent = 0
  /\ fails = 0
  /\ hit = {}
  /\ late = [sleeps |-> 0, attempts |-> 0]

-----------------------------------------------------------------------------
(* The main program: l2f_FRITZBOXFON_process and the loop around it. *)

\* The main program only runs while no handler does.
Goto(from, to) == handlers = <<>> /\ main = from /\ main' = to

history == <<fails, late>>
Unchanged == UNCHANGED <<handlers, _shutdown, backoff, sent, hit>>

\* Steps that only go on.
Proceed ==
  /\ \/ Goto("log_connect", "connect")
     \/ Goto("log_fail", "failed")
     \/ Goto("test", IF _shutdown THEN "close" ELSE "log_wait")
     \/ Goto("log_wait", "fgets")
     \/ Goto("log_event", "parse")
     \/ Goto("parse", "log_dump")
     \/ Goto("parse", "test")                  \* parse_input rejects the line
     \/ Goto("log_dump", "callbacks")
     \/ Goto("close", IF _fd_fritzbox # "NULL" THEN "log_close" ELSE "succeeded")
     \/ Goto("log_close", "fclose")
     \/ Goto("remove", "done")
  /\ Unchanged /\ UNCHANGED <<_fd_fritzbox, children, history>>

\* Fault: the loop does not look at _shutdown.
AgainForEver ==
  /\ Goto("again", "resolve")
  /\ Unchanged /\ UNCHANGED <<_fd_fritzbox, children, history>>

\* The condition of the main loop.
Again ==
  /\ Goto("again", IF _shutdown THEN "remove" ELSE "resolve")
  /\ Unchanged /\ UNCHANGED <<_fd_fritzbox, children, history>>

\* gethostbyname() and socket() succeed.
Resolve ==
  /\ Goto("resolve", "log_connect")
  /\ late' = IF _shutdown THEN [late EXCEPT !.attempts = @ + 1] ELSE late
  /\ Unchanged /\ UNCHANGED <<_fd_fritzbox, children, fails>>

\* gethostbyname(), socket(), connect() or fdopen() fails.
ConnectFails ==
  /\ \/ Goto("resolve", "log_fail")
     \/ Goto("connect", "log_fail")
     \/ Goto("fdopen", "log_fail")
  /\ fails' = Lesser(fails + 1, MaxFails)
  /\ Unchanged /\ UNCHANGED <<_fd_fritzbox, children, late>>

ConnectSucceeds ==
  /\ Goto("connect", "fdopen")
  /\ Unchanged /\ UNCHANGED <<_fd_fritzbox, children, history>>

FdOpen ==
  /\ Goto("fdopen", "test")
  /\ _fd_fritzbox' = "open"
  /\ fails' = 0
  /\ Unchanged /\ UNCHANGED <<children, late>>

\* fgets() is called: with NULL it faults.
FgetsCall ==
  /\ Goto("fgets", IF _fd_fritzbox = "NULL" THEN "crashed" ELSE "reading")
  /\ Unchanged /\ UNCHANGED <<_fd_fritzbox, children, history>>

\* A line has come (external).
FgetsLine ==
  /\ _fd_fritzbox = "open"
  /\ Goto("reading", "log_event")
  /\ Unchanged /\ UNCHANGED <<_fd_fritzbox, children, history>>

\* The box has closed the connection (external).
FgetsEOF ==
  /\ _fd_fritzbox = "open"
  /\ Goto("reading", "close")
  /\ Unchanged /\ UNCHANGED <<_fd_fritzbox, children, history>>

\* A handler has closed and freed the stream that fgets() is reading: it sees
\* the read fail, or faults on the freed stream.
FgetsFreed ==
  /\ _fd_fritzbox # "open"
  /\ Goto("reading", "close") \/ Goto("reading", "crashed")
  /\ Unchanged /\ UNCHANGED <<_fd_fritzbox, children, history>>

\* The callbacks return, having started a child for a notification or not; they
\* may also wait for ever, for a server or a script (Lookup, Notify).
Callbacks ==
  /\ Goto("callbacks", "test")
  /\ children' \in {children, children + 1}
  /\ children' <= MaxChildren
  /\ Unchanged /\ UNCHANGED <<_fd_fritzbox, history>>

\* fclose() of what _fd_fritzbox now is: NULL or a freed stream faults.
FClose ==
  /\ Goto("fclose", IF _fd_fritzbox = "open" THEN "null" ELSE "crashed")
  /\ _fd_fritzbox' = IF _fd_fritzbox = "open" THEN "freed" ELSE _fd_fritzbox
  /\ Unchanged /\ UNCHANGED <<children, history>>

\* Fault: the pointer to the closed stream stays.
SetNullForgotten ==
  /\ Goto("null", "succeeded")
  /\ Unchanged /\ UNCHANGED <<_fd_fritzbox, children, history>>

SetNull ==
  /\ Goto("null", "succeeded")
  /\ _fd_fritzbox' = "NULL"
  /\ Unchanged /\ UNCHANGED <<children, history>>

\* Fault: the delay is not limited.
BackoffUnlimited ==
  /\ \/ Goto("failed", "log_delay") /\ backoff' = backoff * 2
     \/ Goto("succeeded", "sleep") /\ backoff' = 1
  /\ late' = IF _shutdown /\ main = "succeeded" THEN [late EXCEPT !.sleeps = @ + 1] ELSE late
  /\ UNCHANGED <<handlers, _shutdown, _fd_fritzbox, children, sent, fails, hit>>

\* Fault: a connection does not reset the delay.
BackoffKept ==
  /\ \/ Goto("failed", "log_delay") /\ backoff' = Lesser(backoff * 2, MaxBackoff)
     \/ Goto("succeeded", "sleep") /\ backoff' = backoff
  /\ late' = IF _shutdown /\ main = "succeeded" THEN [late EXCEPT !.sleeps = @ + 1] ELSE late
  /\ UNCHANGED <<handlers, _shutdown, _fd_fritzbox, children, sent, fails, hit>>

\* process() has returned 0 or 1.
Backoff ==
  /\ \/ Goto("failed", "log_delay") /\ backoff' = Lesser(backoff * 2, MaxBackoff)
     \/ Goto("succeeded", "sleep") /\ backoff' = 1
  /\ late' = IF _shutdown /\ main = "succeeded" THEN [late EXCEPT !.sleeps = @ + 1] ELSE late
  /\ UNCHANGED <<handlers, _shutdown, _fd_fritzbox, children, sent, fails, hit>>

BeginSleep ==
  /\ Goto("log_delay", "sleep")
  /\ late' = IF _shutdown THEN [late EXCEPT !.sleeps = @ + 1] ELSE late
  /\ Unchanged /\ UNCHANGED <<_fd_fritzbox, children, fails>>

SleepEnds ==
  /\ Goto("sleep", "again")
  /\ Unchanged /\ UNCHANGED <<_fd_fritzbox, children, fails, late>>

-----------------------------------------------------------------------------
(* Signals *)

\* sleep() returns early when a handler has run.
Wake == main' = IF main = "sleep" THEN "again" ELSE main

\* A child ends; child_handler touches nothing the others use, whatever it
\* interrupts, and is one step.
ChildEnds ==
  /\ ~Ended
  /\ children > 0
  /\ children' = children - 1
  /\ Wake
  /\ UNCHANGED <<handlers, _shutdown, _fd_fritzbox, backoff, sent, fails, hit, late>>

\* A signal is blocked while its own handler runs, the others are not.
Deliver(s) ==
  /\ ~Ended
  /\ sent < MaxSignals
  /\ \A i \in 1 .. Len(handlers) : handlers[i].sig # s
  /\ sent' = sent + 1
  /\ hit' = hit \union {IF handlers = <<>> THEN main ELSE "handler"}
  /\ handlers' = Append(handlers, [sig |-> s, at |-> "log_signal"])
  /\ Wake
  /\ UNCHANGED <<_shutdown, _fd_fritzbox, backoff, children, fails, late>>

Top == handlers[Len(handlers)]

\* What the running handler has interrupted may hold a lock that it needs.
MayCollide ==
  /\ handlers # <<>> /\ Top.at \in HandlerLocking
  /\ \/ main \in Locking
     \/ \E i \in 1 .. Len(handlers) - 1 : handlers[i].at \in HandlerLocking \union {"stuck"}

\* A handler waits for a lock of what it has interrupted, which never goes on.
Stuck == \E i \in 1 .. Len(handlers) : handlers[i].at = "stuck"

HandlerGoto(from, to) ==
  /\ ~Ended
  /\ handlers # <<>> /\ Top.at = from
  /\ handlers' = [handlers EXCEPT ![Len(handlers)].at = to]
  /\ UNCHANGED <<backoff, children, sent, history, hit>>

\* The interrupted function is used again before it has ended: it waits for its
\* own lock, or finds its data half changed and faults.
HandlerCollides ==
  /\ MayCollide
  /\ HandlerGoto(Top.at, "stuck")
  /\ main' \in {main, "crashed"}
  /\ UNCHANGED <<_shutdown, _fd_fritzbox>>

\* Fault: the handler leaves the stream open.
HandlerProceedOpen ==
  /\ HandlerGoto("log_signal", "test") \/ HandlerGoto("test", "set")
  /\ UNCHANGED <<main, _shutdown, _fd_fritzbox>>

\* shutdown_handler and, called from it, l2f_FRITZBOXFON_close.
HandlerProceed ==
  /\ \/ HandlerGoto("log_signal", "test")
     \/ HandlerGoto("test", IF _fd_fritzbox # "NULL" THEN "log_close" ELSE "set")
     \/ HandlerGoto("log_close", "fclose")
  /\ UNCHANGED <<main, _shutdown, _fd_fritzbox>>

HandlerFClose ==
  /\ HandlerGoto("fclose", "null")
  /\ main' = IF _fd_fritzbox = "open" THEN main ELSE "crashed"
  /\ _fd_fritzbox' = IF _fd_fritzbox = "open" THEN "freed" ELSE _fd_fritzbox
  /\ UNCHANGED _shutdown

\* Fault: the pointer to the closed stream stays.
HandlerSetNullForgotten ==
  /\ HandlerGoto("null", "set")
  /\ UNCHANGED <<main, _shutdown, _fd_fritzbox>>

HandlerSetNull ==
  /\ HandlerGoto("null", "set")
  /\ _fd_fritzbox' = "NULL"
  /\ UNCHANGED <<main, _shutdown>>

HandlerReturn ==
  /\ ~Ended
  /\ handlers # <<>> /\ Top.at = "set"
  /\ _shutdown' = TRUE
  /\ handlers' = SubSeq(handlers, 1, Len(handlers) - 1)
  /\ UNCHANGED <<main, _fd_fritzbox, backoff, children, sent, history, hit>>

-----------------------------------------------------------------------------
\* What the main program does of itself, without waiting for the box or for
\* those that the callbacks talk to.
Main ==
  \/ Proceed \/ Again \/ Resolve \/ ConnectFails \/ ConnectSucceeds \/ FdOpen
  \/ FgetsCall \/ FgetsFreed \/ FClose \/ SetNull
  \/ Backoff \/ BeginSleep \/ SleepEnds

Handler ==
  HandlerProceed \/ HandlerFClose \/ HandlerSetNull \/ HandlerReturn \/ HandlerCollides

Environment ==
  \/ Callbacks \/ FgetsLine \/ FgetsEOF \/ ChildEnds
  \/ \E s \in Signals : Deliver(s)

Next == Main \/ Handler \/ Environment

\* The process is scheduled; the box, a child, and what the callbacks wait for
\* need never act.
Spec == Init /\ [][Next]_vars /\ WF_vars(Main) /\ WF_vars(Handler)

-----------------------------------------------------------------------------
(* Properties *)

TypeOK ==
  /\ main \in Labels
  /\ handlers \in Seq([sig : Signals, at : HandlerLabels])
  /\ _shutdown \in BOOLEAN
  /\ _fd_fritzbox \in {"NULL", "open", "freed"}
  /\ backoff \in 1 .. MaxBackoff
  /\ children \in 0 .. MaxChildren
  /\ sent \in 0 .. MaxSignals
  /\ fails \in 0 .. MaxFails
  /\ hit \subseteq Labels \union {"handler"}
  /\ late \in [sleeps : Nat, attempts : Nat]

\* The points at which a shutdown signal can do harm: inside the functions that
\* the handler uses too, between the test of _shutdown and the end of fgets(),
\* between fclose() and the reset of the pointer, and inside another handler.
Dangerous == Locking \union {"fgets", "null", "handler"}

\* Shutdown signals that arrive anywhere else (at the tests of _shutdown and of
\* the stream, in connect() and in sleep()), however many and in whatever state
\* of the connection, neither crash the daemon nor block it
\* (listen2fritz.c:51-57, fritzboxfon.c:150-157).
HarmlessElsewhere == hit \cap Dangerous = {} => main # "crashed" /\ ~Stuck

\* No attempt to connect, and no sleep, is begun while a stream of an earlier
\* connection is open: a descriptor would leak with every reconnect.
NothingLeaks ==
  main \in {"resolve", "log_connect", "connect", "fdopen", "failed", "succeeded", "sleep",
            "again", "remove", "done"} => _fd_fritzbox = "NULL"

\* A shutdown that has been noted is delayed by one attempt to connect and one
\* sleep at the most, even where the signal arrives after the test of
\* _shutdown or just before the sleep (listen2fritz.c:351-364).
PromptExit == late.sleeps <= 1 /\ late.attempts <= 1

PowerOfTwo[n \in Nat] == IF n = 0 THEN 1 ELSE 2 * PowerOfTwo[n - 1]

\* The delay is 2^n seconds after n attempts that failed in a row, and an hour
\* at the most; a connection, however short, makes it one second again
\* (listen2fritz.c:357-361).
BackoffLaw ==
  main \in {"log_delay", "sleep", "again", "resolve", "log_connect", "connect"} =>
    backoff = Lesser(PowerOfTwo[fails], MaxBackoff)

\* Once noted, a shutdown ends the program, even where the box never sends
\* another line, unless a further signal blocks it in its handler or a callback
\* waits for ever for a server or a script (listen2fritz.c:56,364,
\* fritzboxfon.c:248,330).
ShutdownEnds == (_shutdown ~> (Ended \/ Stuck)) \/ <>[](main = "callbacks")

=============================================================================
