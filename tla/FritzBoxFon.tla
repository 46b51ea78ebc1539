---------------------------- MODULE FritzBoxFon ----------------------------
(***************************************************************************)
(* The listener of fritzboxfon/fritzboxfon.c: l2f_FRITZBOXFON_process      *)
(* reads the call monitor lines of a Fritz!Box, parse_input turns a line   *)
(* into an event, and the two slots lastcall and lastring attribute a      *)
(* later CONNECT or DISCONNECT to the call it belongs to.  The event goes  *)
(* to the callbacks (lookup, notify, log).                                 *)
(*                                                                         *)
(* The Fritz!Box and the TCP connection are external: the box runs one     *)
(* call per line, writes a line of text at each step of a call, and may    *)
(* close the connection or disappear without closing it.                   *)
(*                                                                         *)
(* shadow is a history variable, for the properties only: shadow[1] is the *)
(* state of the calls as far as the listener has read, shadow[i + 1] the   *)
(* state after the i-th unread line.                                       *)
(***************************************************************************)
EXTENDS Integers, Sequences, PhoneNumber

CONSTANTS
  Lines,       \* line numbers the box uses for its calls
  Remotes,     \* numbers of remote parties, as the box writes them
  Locals,      \* numbers of the house, as the box writes them
  Durations,   \* seconds the box reports for an answered call
  Faults,      \* subset of {"cut", "vanish"}: what the connection may do
  MaxWire      \* bound on the lines written and not yet read

ASSUME LinesAssumption == Lines \subseteq Nat
ASSUME NumbersAssumption == Remotes \union Locals # {}
ASSUME DurationsAssumption == Durations \subseteq Nat
ASSUME MaxWireAssumption == MaxWire \in Nat

VARIABLES
  calls,      \* the box: the call on each line
  wire,       \* lines written to the connection and not yet read
  conn,       \* "down", "open", "closed" by the box, "lost", or "dead" (crashed)
  lastcall,   \* process(): the last CALL event, or ZeroEvent
  lastring,   \* process(): the last RING event, or ZeroEvent
  out,        \* what the last step gave to the callbacks: an event, and its call
  shadow      \* history, see above

vars == <<calls, wire, conn, lastcall, lastring, out, shadow>>
slots == <<lastcall, lastring>>

-----------------------------------------------------------------------------
RawNumbers == Remotes \union Locals \union {NoNumber}
Numbers == {Normalize(n) : n \in RawNumbers} \union {NoNumber}

LineTypes == {"CALL", "RING", "CONNECT", "DISCONNECT"}
EventTypes == LineTypes \union {"UNKNOWN"}

\* L2F_EVENT_T, without the time and the names a lookup fills in.
Event == [type : EventTypes, incoming : BOOLEAN, pretype : EventTypes,
          line : Nat, duration : Int, caller : Numbers, called : Numbers]

ZeroEvent == [type |-> "UNKNOWN", incoming |-> FALSE, pretype |-> "UNKNOWN",
              line |-> 0, duration |-> 0, caller |-> NoNumber, called |-> NoNumber]

\* heard: its CALL or RING line was written to the present connection.
\* newest: and no call of its direction started after it.
Call == [dir : {"NONE", "CALL", "RING"}, caller : RawNumbers, called : RawNumbers,
         answered : BOOLEAN, newest : BOOLEAN, heard : BOOLEAN]

NoCall == [dir |-> "NONE", caller |-> NoNumber, called |-> NoNumber,
           answered |-> FALSE, newest |-> FALSE, heard |-> FALSE]

\* No event is given to the callbacks.
Silence == [event |-> ZeroEvent, call |-> NoCall]

\* A line as util_splitinput sees it: n parameters arrived, and the fields
\* that did not arrive, or arrived empty, are empty.
WireLine == [type : EventTypes, n : 0..8, line : Nat, caller : RawNumbers,
             called : RawNumbers, duration : Int]

FullParams == [CALL |-> 8, RING |-> 7, CONNECT |-> 6, DISCONNECT |-> 5]

FullLine(type, line, caller, called, duration) ==
  [type |-> type, n |-> FullParams[type], line |-> line,
   caller |-> caller, called |-> called, duration |-> duration]

\* Which parameter is which: params[1] is the type, params[2] the line,
\* params[3] the duration, and the numbers depend on the type (0: none).
CallerAt == [UNKNOWN |-> 0, CALL |-> 4, RING |-> 3, CONNECT |-> 4, DISCONNECT |-> 0]
CalledAt == [UNKNOWN |-> 0, CALL |-> 5, RING |-> 4, CONNECT |-> 0, DISCONNECT |-> 0]

\* What may be left of a line when the connection ends inside it.  The last
\* of the n parameters is whole or empty: a field is never cut in two.
Cuts(m) ==
  {LET arrived(i) == i < n - 1 \/ (i = n - 1 /\ whole)
   IN  [type |-> IF arrived(1) THEN m.type ELSE "UNKNOWN",
        n |-> n,
        line |-> IF arrived(2) THEN m.line ELSE 0,
        caller |-> IF arrived(CallerAt[m.type]) THEN m.caller ELSE NoNumber,
        called |-> IF arrived(CalledAt[m.type]) THEN m.called ELSE NoNumber,
        duration |-> IF arrived(3) THEN m.duration ELSE 0]
     : n \in 1 .. m.n - 1, whole \in BOOLEAN}

-----------------------------------------------------------------------------
(* parse_input *)

MinParams == [UNKNOWN |-> 2, CALL |-> 3, RING |-> 5, CONNECT |-> 4, DISCONNECT |-> 4]

Rejected(m) == m.n < MinParams[m.type]

\* CALL and CONNECT pass the test on numparams with parameters missing that
\* are read all the same: params[] is uninitialised there.
Uninitialised(m) == CallerAt[m.type] >= m.n \/ CalledAt[m.type] >= m.n

\* Fault: a number is not normalized.
ParamRaw(m, i, raw) ==
  CASE i = 0 -> {NoNumber}
    [] 0 < i /\ i < m.n -> {raw}
    [] OTHER -> Numbers

\* The number at params[i]; an uninitialised one is any, if the process
\* survives reading it.
Param(m, i, raw) ==
  CASE i = 0 -> {NoNumber}
    [] 0 < i /\ i < m.n -> {Normalize(raw)}
    [] OTHER -> Numbers

\* Fault: the duration is not taken over.
parse_input_no_duration(m, caller, called) ==
  IF m.type = "UNKNOWN" THEN ZeroEvent
  ELSE [ZeroEvent EXCEPT !.type = m.type, !.incoming = (m.type = "RING"),
                         !.line = m.line, !.caller = caller, !.called = called]

\* The event of a line, with the two numbers read for it.
parse_input(m, caller, called) ==
  IF m.type = "UNKNOWN" THEN ZeroEvent
  ELSE [ZeroEvent EXCEPT !.type = m.type, !.incoming = (m.type = "RING"),
                         !.line = m.line, !.duration = m.duration,
                         !.caller = caller, !.called = called]

-----------------------------------------------------------------------------
(* The switch of process() *)

\* Fault: the line is not compared.
TakeOverAnyLine(e, slot, type) ==
  IF slot = ZeroEvent THEN e
  ELSE [e EXCEPT !.incoming = (type = "RING"), !.pretype = type,
                 !.caller = slot.caller, !.called = slot.called]

\* A CONNECT or DISCONNECT takes over direction and numbers of a slot.
TakeOver(e, slot, type) ==
  IF e.line # slot.line THEN e
  ELSE [e EXCEPT !.incoming = (type = "RING"), !.pretype = type,
                 !.caller = slot.caller, !.called = slot.called]

\* Fault: only a CONNECT is attributed.
AttributedConnects(e) ==
  IF e.type = "CONNECT"
  THEN TakeOver(TakeOver(e, lastcall, "CALL"), lastring, "RING")
  ELSE e

\* lastcall is looked at first, lastring second and therefore wins.
Attributed(e) ==
  IF e.type \in {"CONNECT", "DISCONNECT"}
  THEN TakeOver(TakeOver(e, lastcall, "CALL"), lastring, "RING")
  ELSE e

\* Fault: the end of a call does not zero its slot.
NextSlotKept(slot, type, e) == IF e.type = type THEN e ELSE slot

\* Fault: the end of any call zeroes the slot.
NextSlotZeroed(slot, type, e) ==
  CASE e.type = type -> e
    [] e.type = "DISCONNECT" -> ZeroEvent
    [] OTHER -> slot

\* The slot of a type after the event: stored, zeroed, or left alone.
NextSlot(slot, type, e) ==
  CASE e.type = type -> e
    [] e.type = "DISCONNECT" /\ e.line = slot.line -> ZeroEvent
    [] OTHER -> slot

-----------------------------------------------------------------------------
Init ==
  /\ calls = [l \in Lines |-> NoCall]
  /\ wire = <<>>
  /\ conn = "down"
  /\ lastcall = ZeroEvent
  /\ lastring = ZeroEvent
  /\ out = Silence
  /\ shadow = <<>>

-----------------------------------------------------------------------------
(* The Fritz!Box (external) *)

Write(m) ==
  /\ \/ /\ conn = "open" /\ Len(wire) < MaxWire
        /\ wire' = Append(wire, m)
        /\ shadow' = Append(shadow, calls')
     \/ conn # "open" /\ UNCHANGED <<wire, shadow>>
  /\ out' = Silence
  /\ UNCHANGED <<conn, slots>>

Begin(l, dir, caller, called) ==
  /\ calls[l].dir = "NONE"
  /\ calls' = [k \in Lines |->
                 IF k = l
                 THEN [dir |-> dir, caller |-> caller, called |-> called,
                       answered |-> FALSE, newest |-> (conn = "open"), heard |-> (conn = "open")]
                 ELSE [calls[k] EXCEPT !.newest = @ /\ calls[k].dir # dir]]
  /\ Write(FullLine(dir, l, caller, called, 0))

BoxCall(l) == \E a \in Locals, b \in Remotes \ {NoNumber} : Begin(l, "CALL", a, b)

BoxRing(l) == \E a \in Remotes, b \in Locals : Begin(l, "RING", a, b)

\* The number in a CONNECT line is the remote one, whatever the direction.
BoxConnect(l) ==
  /\ calls[l].dir # "NONE" /\ ~calls[l].answered
  /\ calls' = [calls EXCEPT ![l].answered = TRUE]
  /\ Write(FullLine("CONNECT", l,
                    IF calls[l].dir = "RING" THEN calls[l].caller ELSE calls[l].called,
                    NoNumber, 0))

BoxDisconnect(l) ==
  /\ calls[l].dir # "NONE"
  /\ calls' = [calls EXCEPT ![l] = NoCall]
  /\ \E d \in IF calls[l].answered THEN Durations ELSE {0} :
       Write(FullLine("DISCONNECT", l, NoNumber, NoNumber, d))

Unheard == [l \in Lines |-> [calls[l] EXCEPT !.newest = FALSE, !.heard = FALSE]]

\* The box closes the connection; lines on their way may get lost, the first
\* of them in part.
BoxClose ==
  /\ conn = "open"
  /\ conn' = "closed"
  /\ calls' = Unheard
  /\ \E n \in 0 .. Len(wire) :
       /\ shadow' = SubSeq(shadow, 1, n + 1)
       /\ \/ wire' = SubSeq(wire, 1, n)
          \/ /\ n < Len(wire) /\ "cut" \in Faults
             /\ \E m \in Cuts(wire[n + 1]) : wire' = Append(SubSeq(wire, 1, n), m)
  /\ out' = Silence
  /\ UNCHANGED slots

\* The box is switched off or the network breaks: no close ever arrives.
BoxVanish ==
  /\ conn = "open" /\ "vanish" \in Faults
  /\ conn' = "lost"
  /\ calls' = Unheard
  /\ out' = Silence
  /\ UNCHANGED <<wire, slots, shadow>>

-----------------------------------------------------------------------------
(* l2f_FRITZBOXFON_process *)

\* Fault: the slots keep what they held.
ConnectWithoutMemset ==
  /\ conn = "down"
  /\ conn' = "open"
  /\ shadow' = <<calls>>
  /\ out' = Silence
  /\ UNCHANGED <<calls, wire, slots>>

\* connect(), fdopen() and the memset of the two slots.
Connect ==
  /\ conn = "down"
  /\ conn' = "open"
  /\ lastcall' = ZeroEvent
  /\ lastring' = ZeroEvent
  /\ shadow' = <<calls>>
  /\ out' = Silence
  /\ UNCHANGED <<calls, wire>>

\* fgets() returns a line: it leaves the wire.  Nothing of the box's state is
\* known after a cut line, which is the last one.
NextLine ==
  /\ conn \in {"open", "closed", "lost"}
  /\ wire # <<>>
  /\ wire' = Tail(wire)
  /\ shadow' = IF Len(shadow) > 1 THEN Tail(shadow) ELSE shadow
  /\ UNCHANGED calls

ReadRejected ==
  /\ NextLine
  /\ Rejected(Head(wire))
  /\ out' = Silence
  /\ UNCHANGED <<conn, slots>>

\* The switch and the callbacks.
Handle(e) ==
  /\ lastcall' = NextSlot(lastcall, "CALL", e)
  /\ lastring' = NextSlot(lastring, "RING", e)
  /\ out' = [event |-> Attributed(e),
             call |-> IF e.line \in Lines THEN shadow[1][e.line] ELSE NoCall]

ReadEvent ==
  /\ NextLine
  /\ ~Rejected(Head(wire))
  /\ \E caller \in Param(Head(wire), CallerAt[Head(wire).type], Head(wire).caller),
        called \in Param(Head(wire), CalledAt[Head(wire).type], Head(wire).called) :
       Handle(parse_input(Head(wire), caller, called))
  /\ UNCHANGED conn

\* Reading an uninitialised params[] entry kills the process.
ReadFault ==
  /\ NextLine
  /\ ~Rejected(Head(wire)) /\ Uninitialised(Head(wire))
  /\ conn' = "dead"
  /\ out' = Silence
  /\ UNCHANGED slots

\* Fault: the end of the stream is taken for an empty line.
ReadEOFIgnored ==
  /\ conn = "closed" /\ wire = <<>>
  /\ out' = Silence
  /\ UNCHANGED <<calls, conn, wire, slots, shadow>>

\* fgets() returns NULL: the stream is closed, process() returns 1 and the
\* main loop calls it again.
ReadEOF ==
  /\ conn = "closed" /\ wire = <<>>
  /\ conn' = "down"
  /\ shadow' = <<>>
  /\ out' = Silence
  /\ UNCHANGED <<calls, wire, slots>>

-----------------------------------------------------------------------------
Box == \/ \E l \in Lines : BoxCall(l) \/ BoxRing(l) \/ BoxConnect(l) \/ BoxDisconnect(l)
       \/ BoxClose
       \/ BoxVanish

Read == ReadRejected \/ ReadEvent \/ ReadFault \/ ReadEOF

Listener == Connect \/ Read

Next == Box \/ Listener

\* The listener is one process that runs whenever it has something to do;
\* nothing is assumed of the box.
Spec == Init /\ [][Next]_vars /\ WF_vars(Connect) /\ WF_vars(Read)

-----------------------------------------------------------------------------
(* Properties *)

TypeOK ==
  /\ calls \in [Lines -> Call]
  /\ wire \in Seq(WireLine)
  /\ conn \in {"down", "open", "closed", "lost", "dead"}
  /\ lastcall \in Event
  /\ lastring \in Event
  /\ out \in [event : Event, call : Call]
  /\ shadow \in Seq([Lines -> Call])

\* No line has been read in part: cut lines come last.
Informed == conn \in {"open", "lost"} \/ (conn = "closed" /\ wire # <<>>)

\* A slot that holds a call holds one that is on that line, in that direction
\* and with those numbers, in the state v of the calls.
Truthful(slot, dir, v) ==
  slot # ZeroEvent =>
    /\ slot.type = dir
    /\ slot.line \in Lines
    /\ v[slot.line].dir = dir
    /\ slot.caller = Normalize(v[slot.line].caller)
    /\ slot.called = Normalize(v[slot.line].called)

\* The two slots never hold a call that has ended or belongs to another
\* connection (fritzboxfon.c:246-247, 309, 316): they would be taken for the
\* next call of that line.
SlotsTruthful ==
  Informed => Truthful(lastcall, "CALL", shadow[1]) /\ Truthful(lastring, "RING", shadow[1])

\* The event is a later step of a call.
FollowUp(e) == e.type \in {"CONNECT", "DISCONNECT"}

\* A CONNECT or DISCONNECT that the slots attribute to a call carries the
\* direction and the numbers of the call that really was on its line, whatever
\* calls overlap and wherever the connection was lost and made again.  It
\* needs a box that has no line 0 (see EveryDisconnectAttributed).
Attribution ==
  FollowUp(out.event) /\ out.event.pretype # "UNKNOWN" =>
    /\ out.event.pretype = out.call.dir
    /\ out.event.incoming = (out.call.dir = "RING")
    /\ out.event.caller = Normalize(out.call.caller)
    /\ out.event.called = Normalize(out.call.called)

\* The slots hold one call per direction: the last one whose first line was
\* read.  The CONNECT and DISCONNECT of that call are always attributed.
NewestAttributed ==
  FollowUp(out.event) /\ out.call.newest =>
    out.event.pretype = out.call.dir

\* The policy by which mail and script notification tell a missed call
\* (notify_mail.c:92, notify_script.c:100).
Missed(e) == e.type = "DISCONNECT" /\ e.duration = 0 /\ e.pretype = "RING"

\* The end of an unanswered incoming call is reported as a missed call.
MissedReported ==
  /\ out.event.type = "DISCONNECT"
  /\ out.call.dir = "RING" /\ out.call.newest /\ ~out.call.answered
  => Missed(out.event)

\* Nothing else is reported as a missed call ("filter only disconnected rings
\* without connection", notify_mail.c:90).  It needs a box that never reports
\* an answered call with 0 seconds, and no line read in part.
MissedIsUnanswered ==
  Missed(out.event) => out.call.dir = "RING" /\ ~out.call.answered

\* "in case of a DISCONNECT, this holds the previous type (CALL or RING)"
\* (listen2fritz.h:42), for every call whose beginning was read.
EveryDisconnectAttributed ==
  out.event.type = "DISCONNECT" /\ out.call.heard => out.event.pretype = out.call.dir

\* "start the listener in a loop to ensure a reconnect after a disconnect"
\* (listen2fritz.c:348-349): when the connection has ended, the listener reads
\* what is left and connects again, unless a crash has ended it.
Reconnects == conn \in {"closed", "lost"} ~> conn \in {"open", "dead"}

-----------------------------------------------------------------------------
(* The inductive invariant *)

Same(c, d) == c.dir = d.dir /\ c.caller = d.caller /\ c.called = d.called

\* m is the whole line the box writes when its calls go from v to w.
Follows(v, m, w) ==
  /\ m.type \in LineTypes /\ m.n = FullParams[m.type] /\ m.line \in Lines
  /\ \A k \in Lines \ {m.line} :
       Same(v[k], w[k]) /\ w[k].newest = (v[k].newest /\ v[k].dir # m.type)
  /\ m.type \in {"CALL", "RING"} =>
       /\ v[m.line].dir = "NONE" /\ w[m.line].dir = m.type /\ w[m.line].newest
       /\ w[m.line].caller = m.caller /\ w[m.line].called = m.called
  /\ m.type = "CONNECT" =>
       Same(v[m.line], w[m.line]) /\ w[m.line].newest = v[m.line].newest
  /\ m.type = "DISCONNECT" =>
       /\ ~w[m.line].newest
       /\ v[m.line].answered => m.duration \in Durations

\* What a line tells even if it is cut, where it is accepted at all.
Tells(v, m) ==
  FollowUp(m) /\ ~Rejected(m) =>
    /\ m.line \in Lines
    /\ m.type = "DISCONNECT" /\ ~v[m.line].answered => m.duration = 0

\* The unread lines lead from what the listener has read to the calls of the
\* box, but for a last line that is cut.
Chain ==
  /\ conn \in {"open", "lost", "closed"} =>
       /\ Len(shadow) > 0
       /\ Len(shadow) \in {Len(wire), Len(wire) + 1}
       /\ Len(shadow) = Len(wire) => conn = "closed" /\ "cut" \in Faults
       /\ \A i \in 1 .. Len(wire) :
            /\ Tells(shadow[i], wire[i])
            /\ i < Len(shadow) => Follows(shadow[i], wire[i], shadow[i + 1])
  /\ conn = "open" => shadow[Len(shadow)] = calls
  /\ conn # "open" => \A l \in Lines : ~calls[l].newest
  /\ conn = "down" => wire = <<>>

Holds(slot, dir, l) == slot.type = dir /\ slot.line = l

\* The newest call of each direction is in its slot.
SlotsComplete ==
  Informed => \A l \in Lines : shadow[1][l].newest =>
    \/ shadow[1][l].dir = "CALL" /\ Holds(lastcall, "CALL", l)
    \/ shadow[1][l].dir = "RING" /\ Holds(lastring, "RING", l)
=============================================================================
