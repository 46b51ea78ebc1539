------------------------- MODULE Listen2FritzProofs -------------------------
(***************************************************************************)
(* Proofs about Listen2Fritz, for any number of signals, of their kinds    *)
(* and of children: types, no stream that leaks, a shutdown that is not    *)
(* delayed twice, and signals that do no harm outside the dangerous points.*)
(***************************************************************************)
EXTENDS Listen2Fritz, Induction, TLAPS

HandlerType == [sig : Signals, at : HandlerLabels]

LEMMA TypeInit == Init => TypeOK
<1> SUFFICES ASSUME Init
             PROVE  TypeOK
  OBVIOUS
<1>1. <<>> \in Seq([sig : Signals, at : HandlerLabels])
  OBVIOUS
<1>2. 0 \in 0 .. MaxChildren /\ 0 \in 0 .. MaxSignals /\ 0 \in 0 .. MaxFails /\ 1 \in 1 .. MaxBackoff
  BY BoundsAssumption DEF MaxBackoff
<1> QED
  BY <1>1, <1>2 DEF Init, TypeOK, Labels

\* What TypeOK says of the main program's variables.
MainType ==
  /\ main \in Labels
  /\ _fd_fritzbox \in {"NULL", "open", "freed"}
  /\ backoff \in 1 .. MaxBackoff
  /\ children \in 0 .. MaxChildren
  /\ fails \in 0 .. MaxFails
  /\ late \in [sleeps : Nat, attempts : Nat]

\* And of those that signals change.
SignalType ==
  /\ handlers \in Seq(HandlerType)
  /\ _shutdown \in BOOLEAN
  /\ sent \in 0 .. MaxSignals
  /\ hit \subseteq Labels \union {"handler"}

LEMMA TypeParts == TypeOK <=> MainType /\ SignalType
  BY DEF TypeOK, MainType, SignalType, HandlerType

LEMMA TypeMain == ASSUME TypeOK, Main PROVE TypeOK'
<1>1. MainType /\ SignalType
  BY TypeParts
<1>2. SignalType'
  <2>1. UNCHANGED <<handlers, _shutdown, sent, hit>>
    BY DEF Main, Proceed, Again, Resolve, ConnectFails, ConnectSucceeds, FdOpen, FgetsCall, FgetsFreed,
           FClose, SetNull, Backoff, BeginSleep, SleepEnds, Unchanged, Goto
  <2> QED
    BY <1>1, <2>1 DEF SignalType
<1>3. main' \in Labels /\ _fd_fritzbox' \in {"NULL", "open", "freed"}
  BY <1>1 DEF MainType, Main, Proceed, Again, Resolve, ConnectFails, ConnectSucceeds, FdOpen, FgetsCall,
              FgetsFreed, FClose, SetNull, Backoff, BeginSleep, SleepEnds, Unchanged, Goto,
              history, Labels, LogLabels
<1>4. late' \in [sleeps : Nat, attempts : Nat]
  BY <1>1 DEF MainType, Main, Proceed, Again, Resolve, ConnectFails, ConnectSucceeds, FdOpen, FgetsCall,
              FgetsFreed, FClose, SetNull, Backoff, BeginSleep, SleepEnds, Unchanged, history
<1>5. backoff' \in 1 .. MaxBackoff
  <2>1. backoff' \in {backoff, 1, Lesser(backoff * 2, MaxBackoff)}
    BY DEF Main, Proceed, Again, Resolve, ConnectFails, ConnectSucceeds, FdOpen, FgetsCall,
           FgetsFreed, FClose, SetNull, Backoff, BeginSleep, SleepEnds, Unchanged
  <2>2. MaxBackoff = 3600
    BY DEF MaxBackoff
  <2>3. backoff \in 1 .. 3600
    BY <1>1, <2>2 DEF MainType
  <2> QED
    BY <2>1, <2>2, <2>3 DEF Lesser
<1>6. children' \in 0 .. MaxChildren /\ fails' \in 0 .. MaxFails
  BY <1>1, BoundsAssumption
  DEF MainType, Main, Proceed, Again, Resolve, ConnectFails, ConnectSucceeds, FdOpen, FgetsCall,
      FgetsFreed, FClose, SetNull, Backoff, BeginSleep, SleepEnds, Unchanged, history, Lesser
<1> QED
  BY <1>2, <1>3, <1>4, <1>5, <1>6 DEF TypeOK, MainType, SignalType, HandlerType

LEMMA TypeHandler == ASSUME TypeOK, Handler PROVE TypeOK'
<1>1. MainType /\ SignalType
  BY TypeParts
<1>2. /\ main' \in {main, "crashed"} /\ _fd_fritzbox' \in {_fd_fritzbox, "NULL", "freed"}
      /\ UNCHANGED <<backoff, children, fails, late, sent, hit>>
      /\ _shutdown' \in {_shutdown, TRUE}
      /\ handlers # <<>>
  BY DEF Handler, HandlerProceed, HandlerFClose, HandlerSetNull, HandlerReturn, HandlerCollides, HandlerGoto, history
<1>3. MainType'
  BY <1>1, <1>2 DEF MainType, Labels
<1>4. /\ Len(handlers) \in Nat \ {0} /\ handlers \in Seq(HandlerType)
  BY <1>1, <1>2 DEF SignalType
<1>5. \/ \E to \in HandlerLabels : handlers' = [handlers EXCEPT ![Len(handlers)].at = to]
      \/ handlers' = SubSeq(handlers, 1, Len(handlers) - 1)
  BY DEF Handler, HandlerProceed, HandlerFClose, HandlerSetNull, HandlerReturn, HandlerCollides, HandlerGoto,
         HandlerLabels, HandlerLocking, MayCollide
<1>6. handlers' \in Seq(HandlerType)
  <2>1. ASSUME NEW to \in HandlerLabels, handlers' = [handlers EXCEPT ![Len(handlers)].at = to]
        PROVE  handlers' \in Seq(HandlerType)
    <3>1. handlers[Len(handlers)] \in HandlerType
      BY <1>4
    <3>2. [handlers[Len(handlers)] EXCEPT !.at = to] \in HandlerType
      BY <3>1 DEF HandlerType
    <3> QED
      BY <1>4, <2>1, <3>2
  <2>2. CASE handlers' = SubSeq(handlers, 1, Len(handlers) - 1)
    BY <1>4, <2>2
  <2> QED
    BY <1>5, <2>1, <2>2
<1>7. SignalType'
  <2>1. _shutdown' \in BOOLEAN
    BY <1>1, <1>2 DEF SignalType
  <2> QED
    BY <1>1, <1>2, <1>6, <2>1 DEF SignalType
<1> QED
  BY <1>3, <1>7 DEF TypeOK, MainType, SignalType, HandlerType

LEMMA TypeEnvironment == ASSUME TypeOK, Environment PROVE TypeOK'
<1>1. MainType /\ SignalType
  BY TypeParts
<1>5. CASE Callbacks
  <2>1. main' \in Labels
    BY <1>5 DEF Callbacks, Goto, Labels
  <2>2. children' \in 0 .. MaxChildren
    BY <1>1, <1>5, BoundsAssumption DEF Callbacks, MainType
  <2> QED
    BY <1>1, <1>5, <2>1, <2>2
    DEF Callbacks, Unchanged, history, TypeOK, MainType, SignalType, HandlerType
<1>2. CASE FgetsLine \/ FgetsEOF
  <2>1. main' \in Labels
    BY <1>2 DEF FgetsLine, FgetsEOF, Goto, Labels, LogLabels
  <2> QED
    BY <1>1, <1>2, <2>1
    DEF FgetsLine, FgetsEOF, Unchanged, history, TypeOK, MainType, SignalType, HandlerType
<1>3. CASE ChildEnds
  <2>1. children' \in 0 .. MaxChildren
    <3>1. children \in 0 .. MaxChildren /\ children > 0 /\ children' = children - 1
      BY <1>1, <1>3 DEF ChildEnds, MainType
    <3> QED
      BY <3>1, BoundsAssumption
  <2>2. main' \in Labels
    BY <1>1, <1>3 DEF ChildEnds, Wake, MainType, Labels
  <2> QED
    BY <1>1, <1>3, <2>1, <2>2 DEF ChildEnds, TypeOK, MainType, SignalType, HandlerType
<1>4. ASSUME NEW s \in Signals, Deliver(s)
      PROVE  TypeOK'
  <2>1. main' \in Labels
    BY <1>1, <1>4 DEF Deliver, Wake, MainType, Labels
  <2>2. hit' \subseteq Labels \union {"handler"}
    BY <1>1, <1>4 DEF Deliver, MainType, SignalType
  <2>3. sent' \in 0 .. MaxSignals
    BY <1>1, <1>4, BoundsAssumption DEF Deliver, SignalType
  <2>4. handlers' \in Seq(HandlerType)
    <3>1. [sig |-> s, at |-> "log_signal"] \in HandlerType
      BY DEF HandlerType, HandlerLabels, HandlerLocking
    <3>2. handlers \in Seq(HandlerType)
      BY <1>1 DEF SignalType
    <3>3. handlers' = Append(handlers, [sig |-> s, at |-> "log_signal"])
      BY <1>4 DEF Deliver
    <3> QED
      BY <3>1, <3>2, <3>3
  <2>5. UNCHANGED <<_shutdown, _fd_fritzbox, backoff, children, fails, late>>
    BY <1>4 DEF Deliver
  <2> QED
    BY <1>1, <2>1, <2>2, <2>3, <2>4, <2>5 DEF TypeOK, MainType, SignalType, HandlerType
<1> QED
  BY <1>2, <1>3, <1>4, <1>5 DEF Environment

LEMMA TypeStep == TypeOK /\ [Next]_vars => TypeOK'
  BY TypeMain, TypeHandler, TypeEnvironment DEF Next, vars, code, TypeOK

\* The labels, the stream, the handlers and the delay keep their types.
THEOREM TypeCorrect == Spec => []TypeOK
  BY TypeInit, TypeStep, PTL DEF Spec

-----------------------------------------------------------------------------
(* No stream leaks *)

\* The labels between the end of one connection and the success of the next.
Unconnected ==
  {"resolve", "log_connect", "connect", "fdopen", "log_fail", "failed", "log_delay",
   "succeeded", "sleep", "again", "remove", "done"}

NoStream == main \in Unconnected => _fd_fritzbox = "NULL"

\* Every handler may close the stream, but none opens one.
LEMMA NoStreamStep == NoStream /\ [Next]_vars => NoStream'
<1> SUFFICES ASSUME NoStream, [Next]_vars
             PROVE  NoStream'
  OBVIOUS
<1>1. CASE Main
  BY <1>1 DEF NoStream, Unconnected, Main, Proceed, Again, Resolve, ConnectFails, ConnectSucceeds, FdOpen,
              FgetsCall, FgetsFreed, FClose, SetNull, Backoff, BeginSleep, SleepEnds, Goto
<1>2. CASE Handler
  BY <1>2 DEF NoStream, Unconnected, Handler, HandlerProceed, HandlerFClose, HandlerSetNull, HandlerReturn,
              HandlerCollides
<1>3. CASE Environment
  BY <1>3 DEF NoStream, Unconnected, Environment, Callbacks, FgetsLine, FgetsEOF, ChildEnds, Deliver, Wake, Goto
<1>4. CASE UNCHANGED vars
  BY <1>4 DEF NoStream, vars, code
<1> QED
  BY <1>1, <1>2, <1>3, <1>4 DEF Next

\* l2f_FRITZBOXFON_process leaves no stream open behind it on any path, whatever
\* handlers have closed in between.
THEOREM NothingLeaksEver == Spec => []NothingLeaks
<1>1. Init => NoStream
  BY DEF Init, NoStream
<1>2. NoStream => NothingLeaks
  BY DEF NoStream, NothingLeaks, Unconnected
<1> QED
  BY <1>1, <1>2, NoStreamStep, PTL DEF Spec

-----------------------------------------------------------------------------
(* A shutdown is not delayed twice *)

\* After a shutdown is noted, an attempt has been begun only if the program has
\* left "resolve", and a sleep only if it has reached "sleep".
Delayed ==
  /\ late \in [sleeps : Nat, attempts : Nat]
  /\ late.sleeps <= 1 /\ late.attempts <= 1
  /\ ~_shutdown => late.sleeps = 0 /\ late.attempts = 0
  /\ main = "resolve" => late.attempts = 0
  /\ main \notin {"sleep", "again", "remove", "done", "crashed"} => late.sleeps = 0

LEMMA DelayedStep == TypeOK /\ Delayed /\ [Next]_vars => Delayed'
<1> SUFFICES ASSUME TypeOK, Delayed, [Next]_vars
             PROVE  Delayed'
  OBVIOUS
<1>0. _shutdown \in BOOLEAN
  BY DEF TypeOK
<1>1. CASE Main
  <2>1. CASE Resolve
    BY <1>0, <2>1 DEF Delayed, Resolve, Goto, Unchanged
  <2>2. CASE Backoff
    BY <1>0, <2>2 DEF Delayed, Backoff, Goto
  <2>3. CASE BeginSleep
    BY <1>0, <2>3 DEF Delayed, BeginSleep, Goto, Unchanged
  <2>4. CASE Again
    BY <1>0, <2>4 DEF Delayed, Again, Goto, Unchanged, history
  <2>5. CASE Proceed \/ ConnectFails \/ ConnectSucceeds \/ FdOpen \/ FgetsCall \/ FgetsFreed
             \/ FClose \/ SetNull \/ SleepEnds
    <3>1. UNCHANGED <<late, _shutdown>> /\ main' # "resolve"
          /\ (main' \in {"sleep", "again", "remove", "done", "crashed"}
              \/ main \notin {"sleep", "again", "remove", "done", "crashed"})
      BY <2>5 DEF Proceed, ConnectFails, ConnectSucceeds, FdOpen, FgetsCall, FgetsFreed,
                  FClose, SetNull, SleepEnds, Goto, Unchanged, history
    <3> QED
      BY <3>1 DEF Delayed
  <2> QED
    BY <1>1, <2>1, <2>2, <2>3, <2>4, <2>5 DEF Main
<1>2. CASE Handler
  <2>1. UNCHANGED late /\ (main' = main \/ main' = "crashed") /\ (~_shutdown' => ~_shutdown)
    BY <1>2 DEF Handler, HandlerProceed, HandlerFClose, HandlerSetNull, HandlerReturn, HandlerCollides, HandlerGoto, history
  <2> QED
    BY <1>0, <2>1 DEF Delayed
<1>3. CASE Environment
  <2>1. /\ UNCHANGED <<late, _shutdown>>
        /\ main' = main \/ main' \in {"log_event", "close", "test"} \/ main' = "again"
        /\ main' \in {"log_event", "close", "test"} => main \in {"reading", "callbacks", "log_event", "close", "test"}
        /\ main' = "again" => main \in {"sleep", "again"}
    BY <1>3 DEF Environment, Callbacks, FgetsLine, FgetsEOF, ChildEnds, Deliver, Wake, Goto, Unchanged, history
  <2> QED
    BY <2>1 DEF Delayed
<1>4. CASE UNCHANGED vars
  BY <1>4 DEF Delayed, vars, code
<1> QED
  BY <1>1, <1>2, <1>3, <1>4 DEF Next

\* Wherever the signal arrives, one attempt and one sleep are the most that the
\* loops of main and l2f_FRITZBOXFON_process begin once it is noted.
THEOREM ShutdownIsPrompt == Spec => []PromptExit
<1>1. Init => Delayed
  BY DEF Init, Delayed
<1>2. Delayed => PromptExit
  BY DEF Delayed, PromptExit
<1> QED
  BY <1>1, <1>2, DelayedStep, TypeCorrect, PTL DEF Spec

-----------------------------------------------------------------------------
(* Signals outside the dangerous points *)

\* What a handler may find, and leave, at each of its labels.
HandlerSees(at, stream) ==
  /\ at \in {"log_signal", "test"} => stream # "freed"
  /\ at \in {"log_close", "fclose"} => stream = "open"
  /\ at = "set" => stream = "NULL"
  /\ at # "stuck"

\* Where the program uses the stream or goes on to do so.
Streaming ==
  {"log_wait", "fgets", "reading", "log_event", "parse", "log_dump", "callbacks", "log_close", "fclose"}

\* One handler at a time, which has not interrupted the program where it uses
\* the stream; the program uses a stream that is open, and has seen the
\* shutdown wherever a handler may have closed it.
Harmless ==
  /\ main # "crashed"
  /\ Len(handlers) <= 1
  /\ handlers # <<>> => main \notin Dangerous /\ HandlerSees(handlers[1].at, _fd_fritzbox)
  /\ handlers = <<>> =>
       /\ main # "null" => _fd_fritzbox # "freed"
       /\ main = "test" => _fd_fritzbox = "open" \/ _shutdown
  /\ main \in Streaming => _fd_fritzbox = "open"

Safe == hit \cap Dangerous = {} => Harmless

LEMMA HandlersFacts ==
  ASSUME TypeOK
  PROVE  /\ handlers \in Seq(HandlerType)
         /\ Len(handlers) \in Nat
         /\ handlers = <<>> <=> Len(handlers) = 0
  BY DEF TypeOK, HandlerType

LEMMA HarmlessMain == ASSUME TypeOK, Harmless, Main PROVE Harmless'
<1>1. handlers = <<>> /\ UNCHANGED <<handlers, _shutdown>>
  BY DEF Main, Proceed, Again, Resolve, ConnectFails, ConnectSucceeds, FdOpen, FgetsCall, FgetsFreed,
         FClose, SetNull, Backoff, BeginSleep, SleepEnds, Unchanged, Goto
<1>2. /\ main # "null" => _fd_fritzbox # "freed"
      /\ main = "test" => _fd_fritzbox = "open" \/ _shutdown
      /\ main \in Streaming => _fd_fritzbox = "open"
      /\ _fd_fritzbox \in {"NULL", "open", "freed"}
  BY <1>1 DEF Harmless, TypeOK
<1>3. /\ main' # "crashed"
      /\ main' # "null" => _fd_fritzbox' # "freed"
      /\ main' = "test" => _fd_fritzbox' = "open" \/ _shutdown
      /\ main' \in Streaming => _fd_fritzbox' = "open"
  BY <1>2 DEF Streaming, Main, Proceed, Again, Resolve, ConnectFails, ConnectSucceeds, FdOpen, FgetsCall,
              FgetsFreed, FClose, SetNull, Backoff, BeginSleep, SleepEnds, Goto, Unchanged
<1> QED
  BY <1>1, <1>3 DEF Harmless

LEMMA HarmlessHandler == ASSUME TypeOK, Harmless, Handler PROVE Harmless'
<1>1. handlers # <<>> /\ Len(handlers) = 1 /\ handlers \in Seq(HandlerType)
  <2>1. handlers # <<>>
    BY DEF Handler, HandlerProceed, HandlerFClose, HandlerSetNull, HandlerReturn, HandlerCollides, HandlerGoto
  <2>2. Len(handlers) <= 1
    BY DEF Harmless
  <2>3. Len(handlers) \in Nat /\ Len(handlers) # 0 /\ handlers \in Seq(HandlerType)
    BY <2>1, HandlersFacts
  <2>4. Len(handlers) = 1
    BY <2>2, <2>3
  <2> QED
    BY <2>1, <2>3, <2>4
<1>2. main \notin Dangerous /\ main # "crashed" /\ HandlerSees(handlers[1].at, _fd_fritzbox) /\ Top = handlers[1]
  BY <1>1 DEF Harmless, Top
<1>3. CASE HandlerReturn
  <2>1. handlers' = <<>> /\ _shutdown' = TRUE /\ UNCHANGED <<main, _fd_fritzbox>> /\ handlers[1].at = "set"
    BY <1>1, <1>2, <1>3 DEF HandlerReturn
  <2> QED
    BY <1>2, <2>1 DEF Harmless, HandlerSees, Dangerous, Locking, LogLabels, Streaming
<1>4. ASSUME NEW from, NEW to, HandlerGoto(from, to)
      PROVE  handlers[1].at = from /\ handlers' # <<>> /\ Len(handlers') = 1 /\ handlers'[1].at = to
  <2>1. handlers' = [handlers EXCEPT ![1].at = to] /\ handlers[1].at = from
    BY <1>1, <1>2, <1>4 DEF HandlerGoto
  <2>2. handlers[1] \in HandlerType
    BY <1>1
  <2>3. handlers'[1].at = to /\ DOMAIN handlers' = DOMAIN handlers
    BY <1>1, <2>1, <2>2 DEF HandlerType
  <2>4. Len(handlers') = 1
    BY <1>1, <2>1
  <2> QED
    BY <1>1, <2>1, <2>3, <2>4
<1>5. CASE HandlerProceed \/ HandlerFClose \/ HandlerSetNull
  <2>1. handlers' # <<>> /\ Len(handlers') = 1 /\ UNCHANGED main
    <3>1. handlers' # <<>> /\ Len(handlers') = 1
      BY <1>4, <1>5 DEF HandlerProceed, HandlerFClose, HandlerSetNull
    <3>2. CASE HandlerFClose
      BY <1>2, <1>4, <3>2 DEF HandlerFClose, HandlerSees
    <3> QED
      BY <1>5, <3>1, <3>2 DEF HandlerProceed, HandlerSetNull
  <2>2. HandlerSees(handlers'[1].at, _fd_fritzbox')
    <3>0. HandlerSees(handlers[1].at, _fd_fritzbox) /\ _fd_fritzbox \in {"NULL", "open", "freed"}
      BY <1>2 DEF TypeOK
    <3>1. CASE HandlerProceed
      <4>1. CASE handlers[1].at = "log_signal" /\ handlers'[1].at = "test" /\ UNCHANGED _fd_fritzbox
        BY <3>0, <4>1 DEF HandlerSees
      <4>2. CASE /\ handlers[1].at = "test" /\ UNCHANGED _fd_fritzbox
                 /\ handlers'[1].at = IF _fd_fritzbox # "NULL" THEN "log_close" ELSE "set"
        BY <3>0, <4>2 DEF HandlerSees
      <4>3. CASE handlers[1].at = "log_close" /\ handlers'[1].at = "fclose" /\ UNCHANGED _fd_fritzbox
        BY <3>0, <4>3 DEF HandlerSees
      <4> QED
        BY <1>4, <3>1, <4>1, <4>2, <4>3 DEF HandlerProceed
    <3>2. CASE HandlerFClose \/ HandlerSetNull
      <4>1. \/ handlers'[1].at = "null"
            \/ handlers'[1].at = "set" /\ _fd_fritzbox' = "NULL"
        BY <1>4, <3>2 DEF HandlerFClose, HandlerSetNull
      <4> QED
        BY <4>1 DEF HandlerSees
    <3> QED
      BY <1>5, <3>1, <3>2
  <2> QED
    BY <1>2, <2>1, <2>2 DEF Harmless, Dangerous, Locking, LogLabels, Streaming
<1>6. ~MayCollide
  BY <1>1, <1>2 DEF MayCollide, Dangerous
<1> QED
  BY <1>3, <1>5, <1>6 DEF Handler, HandlerCollides

LEMMA SafeEnvironment == ASSUME TypeOK, Safe, Environment PROVE Safe'
<1>1. CASE FgetsLine \/ FgetsEOF
  <2>1. handlers = <<>> /\ _fd_fritzbox = "open" /\ main' \in {"log_event", "close"}
        /\ UNCHANGED <<handlers, _shutdown, hit, _fd_fritzbox>>
    BY <1>1 DEF FgetsLine, FgetsEOF, Goto, Unchanged
  <2> QED
    BY <2>1 DEF Safe, Harmless
<1>4. CASE Callbacks
  <2>1. handlers = <<>> /\ main = "callbacks" /\ main' = "test"
        /\ UNCHANGED <<handlers, _shutdown, hit, _fd_fritzbox>>
    BY <1>4 DEF Callbacks, Goto, Unchanged
  <2> QED
    BY <2>1 DEF Safe, Harmless, Streaming
<1>2. CASE ChildEnds
  <2>1. (main' = main \/ (main = "sleep" /\ main' = "again"))
        /\ UNCHANGED <<handlers, _shutdown, hit, _fd_fritzbox>>
    BY <1>2 DEF ChildEnds, Wake
  <2> QED
    BY <2>1 DEF Safe, Harmless, Dangerous, Locking, LogLabels, Streaming
<1>3. ASSUME NEW s \in Signals, Deliver(s), hit' \cap Dangerous = {}
      PROVE  Harmless'
  <2>1. Harmless
    BY <1>3 DEF Deliver, Safe
  <2>2. handlers = <<>> /\ main \notin Dangerous
    BY <1>3 DEF Deliver, Dangerous
  <2>3. handlers' = <<[sig |-> s, at |-> "log_signal"]>>
    BY <1>3, <2>2 DEF Deliver
  <2>4. handlers' # <<>> /\ Len(handlers') = 1 /\ handlers'[1].at = "log_signal"
    BY <2>3
  <2>5. (main' = main \/ (main = "sleep" /\ main' = "again")) /\ UNCHANGED _fd_fritzbox
    BY <1>3 DEF Deliver, Wake
  <2>6. _fd_fritzbox # "freed"
    BY <2>1, <2>2 DEF Harmless, Dangerous
  <2> QED
    BY <2>1, <2>2, <2>4, <2>5, <2>6 DEF Harmless, HandlerSees, Dangerous, Locking, LogLabels, Streaming
<1> QED
  BY <1>1, <1>2, <1>3, <1>4 DEF Environment, Safe

LEMMA SafeStep == TypeOK /\ Safe /\ [Next]_vars => Safe'
<1> SUFFICES ASSUME TypeOK, Safe, [Next]_vars
             PROVE  Safe'
  OBVIOUS
<1>1. CASE Main \/ Handler
  <2>1. UNCHANGED hit
    BY <1>1 DEF Handler, HandlerProceed, HandlerFClose, HandlerSetNull, HandlerReturn, HandlerCollides, HandlerGoto,
                Main, Proceed, Again, Resolve, ConnectFails, ConnectSucceeds, FdOpen, FgetsCall, FgetsFreed,
                FClose, SetNull, Backoff, BeginSleep, SleepEnds, Unchanged
  <2> QED
    BY <1>1, <2>1, HarmlessMain, HarmlessHandler DEF Safe
<1>2. CASE UNCHANGED vars
  BY <1>2 DEF Safe, Harmless, vars, code
<1> QED
  BY <1>1, <1>2, SafeEnvironment DEF Next

\* However many shutdown signals arrive, and whatever they find: outside the
\* dangerous points they neither crash nor block the daemon.
THEOREM SignalsAreHarmlessElsewhere == Spec => []HarmlessElsewhere
<1>1. Init => Safe
  BY DEF Init, Safe, Harmless, Streaming
<1>2. TypeOK /\ Safe => HarmlessElsewhere
  <2> SUFFICES ASSUME TypeOK, Harmless
               PROVE  main # "crashed" /\ ~Stuck
    BY DEF Safe, HarmlessElsewhere
  <2>1. ASSUME NEW i \in 1 .. Len(handlers)
        PROVE  handlers[i].at # "stuck"
    <3>1. i = 1 /\ handlers # <<>>
      BY HandlersFacts DEF Harmless
    <3> QED
      BY <3>1 DEF Harmless, HandlerSees
  <2> QED
    BY <2>1 DEF Harmless, Stuck
<1> QED
  BY <1>1, <1>2, SafeStep, TypeCorrect, PTL DEF Spec

-----------------------------------------------------------------------------
(* The delay between attempts *)

\* The equation of PowerOfTwo.
LEMMA PowerOfTwoEquation ==
  /\ PowerOfTwo \in [Nat -> Nat]
  /\ PowerOfTwo[0] = 1
  /\ \A n \in Nat : PowerOfTwo[n + 1] = 2 * PowerOfTwo[n]
<1> DEFINE step == [p \in Nat \X Nat |-> 2 * p[2]]
<1>1. step \in [Nat \X Nat -> Nat] /\ \A i, k \in Nat : step[<<i, k>>] = 2 * k
  OBVIOUS
<1> HIDE DEF step
<1>2. PICK f : f \in [Nat -> Nat] /\ StepsOnNat(f, 1, step)
  BY <1>1, RecursionOnNat
<1>3. ASSUME NEW n \in Nat PROVE f[n] = IF n = 0 THEN 1 ELSE 2 * f[n - 1]
  <2>1. CASE n = 0
    BY <1>2, <2>1 DEF StepsOnNat
  <2>2. CASE n # 0
    <3>1. n - 1 \in Nat /\ (n - 1) + 1 = n /\ f[n - 1] \in Nat
      BY <1>2, <2>2
    <3>2. f[(n - 1) + 1] = step[<<(n - 1) + 1, f[n - 1]>>]
      BY <1>2, <3>1 DEF StepsOnNat
    <3> QED BY <1>1, <2>2, <3>1, <3>2
  <2> QED BY <2>1, <2>2
<1>4. f = [n \in Nat |-> IF n = 0 THEN 1 ELSE 2 * f[n - 1]]
  BY <1>2, <1>3
<1>5. PowerOfTwo = [n \in Nat |-> IF n = 0 THEN 1 ELSE 2 * PowerOfTwo[n - 1]]
  BY <1>4 DEF PowerOfTwo
<1>6. PowerOfTwo[0] = 1
  BY <1>5
<1>7. ASSUME NEW n \in Nat PROVE PowerOfTwo[n + 1] = 2 * PowerOfTwo[n]
  <2>1. n + 1 \in Nat /\ n + 1 # 0 /\ (n + 1) - 1 = n
    OBVIOUS
  <2> QED BY <1>5, <2>1
<1>8. \A n \in Nat : n \in {m \in Nat : PowerOfTwo[m] \in Nat}
  <2> DEFINE T == {m \in Nat : PowerOfTwo[m] \in Nat}
  <2>1. 0 \in T /\ \A n \in Nat : n \in T => n + 1 \in T
    BY <1>6, <1>7
  <2> HIDE DEF T
  <2>2. \A n \in Nat : n \in T
    BY <2>1, AllNumbers
  <2> QED BY <2>2 DEF T
<1> QED BY <1>5, <1>6, <1>7, <1>8

\* After twelve failures the delay would be more than an hour.
LEMMA PowerOfTwoLarge == \A n \in Nat : n >= 12 => PowerOfTwo[n] >= 4096
<1> DEFINE T == {n \in Nat : PowerOfTwo[n + 12] >= 4096}
<1>1. 0 \in T
  <2>1. PowerOfTwo[4] = 16
    BY PowerOfTwoEquation
  <2>2. PowerOfTwo[8] = 256
    BY <2>1, PowerOfTwoEquation
  <2>3. PowerOfTwo[12] = 4096
    BY <2>2, PowerOfTwoEquation
  <2> QED BY <2>3
<1>2. ASSUME NEW n \in Nat, n \in T PROVE n + 1 \in T
  <2>1. n + 12 \in Nat /\ (n + 1) + 12 = (n + 12) + 1
    OBVIOUS
  <2>2. PowerOfTwo[n + 12] \in Nat /\ PowerOfTwo[(n + 12) + 1] = 2 * PowerOfTwo[n + 12]
    BY <2>1, PowerOfTwoEquation
  <2>3. PowerOfTwo[n + 12] >= 4096
    BY <1>2
  <2> QED BY <2>1, <2>2, <2>3
<1> HIDE DEF T
<1>3. \A n \in Nat : n \in T
  BY <1>1, <1>2, AllNumbers
<1>4. ASSUME NEW n \in Nat, n >= 12 PROVE PowerOfTwo[n] >= 4096
  <2>1. n - 12 \in Nat /\ (n - 12) + 12 = n
    BY <1>4
  <2> QED BY <1>3, <2>1 DEF T
<1> QED BY <1>4

\* The delay that n failures in a row call for.
Delay(n) == Lesser(PowerOfTwo[n], MaxBackoff)

\* One more failure doubles the delay, also where the count has stopped.
LEMMA DelayDoubles ==
  ASSUME NEW n \in 0 .. MaxFails
  PROVE  /\ Delay(n) \in Nat
         /\ Lesser(Delay(n) * 2, MaxBackoff) = Delay(Lesser(n + 1, MaxFails))
<1>1. n \in Nat /\ PowerOfTwo[n] \in Nat /\ MaxFails \in Nat /\ n <= MaxFails /\ MaxBackoff = 3600
  BY BoundsAssumption, PowerOfTwoEquation DEF MaxBackoff
<1>2. CASE n < MaxFails
  <2>1. Lesser(n + 1, MaxFails) \in {n + 1}
    BY <1>1, <1>2 DEF Lesser
  <2>2. PowerOfTwo[n + 1] = 2 * PowerOfTwo[n]
    BY <1>1, PowerOfTwoEquation
  <2> QED BY <1>1, <2>1, <2>2 DEF Delay, Lesser
<1>3. CASE n = MaxFails
  <2>1. Lesser(n + 1, MaxFails) = n
    BY <1>1, <1>3 DEF Lesser
  <2>2. PowerOfTwo[n] >= 4096
    BY <1>1, <1>3, FailsAssumption, PowerOfTwoLarge
  <2> QED BY <1>1, <2>1, <2>2 DEF Delay, Lesser
<1> QED BY <1>1, <1>2, <1>3

\* Between two attempts the delay is that of the failures so far; when one more
\* has been counted it is still to be doubled; a connection has reset the count.
Waiting == {"log_delay", "sleep", "again", "resolve", "log_connect", "connect", "fdopen"}
Failed == {"log_fail", "failed"}
Connected == {"test", "log_wait", "fgets", "reading", "log_event", "parse", "log_dump", "callbacks",
              "close", "log_close", "fclose", "null", "succeeded"}

Delays ==
  /\ main \in Waiting => backoff = Delay(fails)
  /\ main \in Failed => Lesser(backoff * 2, MaxBackoff) = Delay(fails)
  /\ main \in Connected => fails = 0

LEMMA DelaysInit == Init => Delays
  BY PowerOfTwoEquation DEF Init, Delays, Waiting, Failed, Connected, Delay, Lesser, MaxBackoff

LEMMA DelaysMain == ASSUME TypeOK, Delays, Main PROVE Delays'
<1>0. fails \in 0 .. MaxFails
  BY DEF TypeOK
<1>1. CASE ConnectFails
  <2>1. main \in Waiting /\ main' \in Failed /\ main' \notin Waiting \union Connected
    BY <1>1 DEF ConnectFails, Goto, Waiting, Failed, Connected
  <2>2. backoff' = backoff /\ fails' = Lesser(fails + 1, MaxFails)
    BY <1>1 DEF ConnectFails, Unchanged
  <2>3. backoff = Delay(fails)
    BY <2>1 DEF Delays
  <2>4. Lesser(backoff * 2, MaxBackoff) = Delay(fails')
    BY <1>0, <2>2, <2>3, DelayDoubles
  <2> QED BY <2>1, <2>2, <2>4 DEF Delays, Delay
<1>2. CASE Backoff
  <2>1. CASE main = "failed"
    <3>1. main' = "log_delay" /\ backoff' = Lesser(backoff * 2, MaxBackoff) /\ fails' = fails
      BY <1>2, <2>1 DEF Backoff, Goto
    <3>2. backoff' = Delay(fails)
      BY <2>1, <3>1 DEF Delays, Failed
    <3> QED BY <3>1, <3>2 DEF Delays, Delay, Waiting, Failed, Connected
  <2>2. CASE main = "succeeded"
    <3>1. main' = "sleep" /\ backoff' = 1 /\ fails' = 0
      BY <1>2, <2>2 DEF Backoff, Goto, Delays, Connected
    <3>2. Delay(0) = 1
      BY PowerOfTwoEquation DEF Delay, Lesser, MaxBackoff
    <3> QED BY <3>1, <3>2 DEF Delays, Delay, Waiting, Failed, Connected
  <2> QED BY <1>2, <2>1, <2>2 DEF Backoff, Goto
<1>3. CASE FdOpen
  <2>1. main' = "test" /\ fails' = 0
    BY <1>3 DEF FdOpen, Goto
  <2> QED BY <2>1 DEF Delays, Waiting, Failed, Connected
<1>4. CASE Proceed \/ Again \/ Resolve \/ ConnectSucceeds \/ FgetsCall \/ FgetsFreed
           \/ FClose \/ SetNull \/ BeginSleep \/ SleepEnds
  <2>1. UNCHANGED <<backoff, fails>>
    BY <1>4 DEF Proceed, Again, Resolve, ConnectSucceeds, FgetsCall, FgetsFreed, FClose,
                SetNull, BeginSleep, SleepEnds, Unchanged, history
  <2>2. /\ main' \in Waiting => main \in Waiting
        /\ main' \in Failed => main \in Failed
        /\ main' \in Connected => main \in Connected
    BY <1>4 DEF Proceed, Again, Resolve, ConnectSucceeds, FgetsCall, FgetsFreed, FClose,
                SetNull, BeginSleep, SleepEnds, Goto, Waiting, Failed, Connected
  <2> QED BY <2>1, <2>2 DEF Delays, Delay
<1> QED BY <1>1, <1>2, <1>3, <1>4 DEF Main

LEMMA DelaysStep == TypeOK /\ Delays /\ [Next]_vars => Delays'
<1> SUFFICES ASSUME TypeOK, Delays, [Next]_vars
             PROVE  Delays'
  OBVIOUS
<1>1. CASE Handler \/ Environment \/ UNCHANGED vars
  <2>1. UNCHANGED <<backoff, fails>>
    BY <1>1 DEF Handler, HandlerProceed, HandlerFClose, HandlerSetNull, HandlerReturn, HandlerCollides, HandlerGoto,
                Environment, Callbacks, FgetsLine, FgetsEOF, ChildEnds, Deliver, Unchanged, history, vars, code
  <2>2. /\ main' \in Waiting => main \in Waiting
        /\ main' \in Failed => main \in Failed
        /\ main' \in Connected => main \in Connected
    BY <1>1 DEF Handler, HandlerProceed, HandlerFClose, HandlerSetNull, HandlerReturn, HandlerCollides, HandlerGoto,
                Environment, Callbacks, FgetsLine, FgetsEOF, ChildEnds, Deliver, Wake, Goto, vars, code,
                Waiting, Failed, Connected
  <2> QED BY <2>1, <2>2 DEF Delays, Delay
<1> QED BY <1>1, DelaysMain DEF Next

\* The loop of main waits 2^n seconds, or an hour, after n failures in a row, and
\* one second after a connection, however long the daemon runs.
THEOREM BackoffLawHolds == Spec => []BackoffLaw
<1>1. Delays => BackoffLaw
  BY DEF Delays, BackoffLaw, Waiting, Delay
<1> QED
  BY <1>1, DelaysInit, DelaysStep, TypeCorrect, PTL DEF Spec
=============================================================================
