------------------------- MODULE FritzBoxFonProofs -------------------------
(***************************************************************************)
(* Proofs about FritzBoxFon, for any lines, numbers, prefixes, durations   *)
(* and faults, and any number of unread lines.                             *)
(***************************************************************************)
EXTENDS FritzBoxFon, SequenceTheorems, TLAPS

(* Type correctness. *)

LEMMA ZeroTypes == ZeroEvent \in Event /\ NoCall \in Call /\ Silence \in [event : Event, call : Call]
  BY DEF ZeroEvent, Event, EventTypes, Numbers, NoCall, Call, RawNumbers, Silence

LEMMA FullLineType ==
  ASSUME NEW type \in LineTypes, NEW l \in Lines, NEW a \in RawNumbers,
         NEW b \in RawNumbers, NEW d \in Int
  PROVE  FullLine(type, l, a, b, d) \in WireLine
<1>1. FullParams[type] \in 0 .. 8
  BY DEF LineTypes, FullParams
<1> QED BY <1>1, LinesAssumption DEF FullLine, WireLine, EventTypes

\* What is left of a line is a line.
LEMMA CutType ==
  ASSUME NEW m \in WireLine, NEW c \in Cuts(m)
  PROVE  /\ c \in WireLine /\ c.n < m.n
         /\ c.type \in {m.type, "UNKNOWN"}
         /\ c.n > 3 => c.line = m.line
         /\ c.duration \in {0, m.duration}
<1>1. PICK n \in 1 .. m.n - 1, whole \in BOOLEAN :
        LET arrived(i) == i < n - 1 \/ (i = n - 1 /\ whole)
        IN  c = [type |-> IF arrived(1) THEN m.type ELSE "UNKNOWN",
                 n |-> n,
                 line |-> IF arrived(2) THEN m.line ELSE 0,
                 caller |-> IF arrived(CallerAt[m.type]) THEN m.caller ELSE NoNumber,
                 called |-> IF arrived(CalledAt[m.type]) THEN m.called ELSE NoNumber,
                 duration |-> IF arrived(3) THEN m.duration ELSE 0]
  BY DEF Cuts
<1> QED BY <1>1 DEF WireLine, EventTypes, RawNumbers

LEMMA ParamType ==
  ASSUME NEW m \in WireLine, NEW i \in Nat, NEW raw \in RawNumbers
  PROVE  Param(m, i, raw) \subseteq Numbers
  BY DEF Param, Numbers, WireLine

LEMMA ParseType ==
  ASSUME NEW m \in WireLine, NEW a \in Numbers, NEW b \in Numbers
  PROVE  LET e == parse_input(m, a, b)
         IN  /\ e \in Event /\ e.type = m.type /\ e.pretype = "UNKNOWN"
             /\ m.type # "UNKNOWN" =>
                  e.line = m.line /\ e.duration = m.duration /\ e.caller = a /\ e.called = b
  BY ZeroTypes DEF parse_input, WireLine, ZeroEvent, Event

LEMMA AttributedType ==
  ASSUME NEW e \in Event, lastcall \in Event, lastring \in Event
  PROVE  Attributed(e) \in Event
<1>1. TakeOver(e, lastcall, "CALL") \in Event
  BY DEF TakeOver, Event, EventTypes, LineTypes
<1>2. \A x \in Event : TakeOver(x, lastring, "RING") \in Event
  BY DEF TakeOver, Event, EventTypes, LineTypes
<1> QED BY <1>1, <1>2 DEF Attributed

\* shadow has one entry more than wire while no line is cut, and never none.
Lengths ==
  /\ conn \in {"open", "lost"} => Len(shadow) = Len(wire) + 1
  /\ conn = "closed" => Len(shadow) > 0
  /\ conn = "down" => wire = <<>>

LEMMA TypeInit == Init => TypeOK /\ Lengths
  BY ZeroTypes DEF Init, TypeOK, Lengths

LEMMA WriteTypes ==
  ASSUME TypeOK, Lengths, calls' \in [Lines -> Call], NEW m \in WireLine, Write(m)
  PROVE  TypeOK' /\ Lengths'
<1>1. CASE conn = "open" /\ wire' = Append(wire, m) /\ shadow' = Append(shadow, calls')
  BY <1>1, ZeroTypes, AppendProperties DEF TypeOK, Lengths, Write, slots
<1>2. CASE UNCHANGED <<wire, shadow>>
  BY <1>2, ZeroTypes DEF TypeOK, Lengths, Write, slots
<1> QED BY <1>1, <1>2 DEF Write

LEMMA BeginTypes ==
  ASSUME TypeOK, Lengths, NEW l \in Lines, NEW dir \in {"CALL", "RING"},
         NEW a \in RawNumbers, NEW b \in RawNumbers, Begin(l, dir, a, b)
  PROVE  TypeOK' /\ Lengths'
<1>1. calls' \in [Lines -> Call]
  BY DEF Begin, TypeOK, Call
<1>2. FullLine(dir, l, a, b, 0) \in WireLine
  BY FullLineType DEF LineTypes
<1> QED BY <1>1, <1>2, WriteTypes DEF Begin

LEMMA BoxTypes ==
  ASSUME TypeOK, Lengths, Box
  PROVE  TypeOK' /\ Lengths'
<1> USE DEF TypeOK
<1>1. ASSUME NEW l \in Lines, BoxCall(l) \/ BoxRing(l) PROVE TypeOK' /\ Lengths'
  BY <1>1, BeginTypes DEF BoxCall, BoxRing, RawNumbers
<1>2. ASSUME NEW l \in Lines, BoxConnect(l) PROVE TypeOK' /\ Lengths'
  <2> DEFINE number == IF calls[l].dir = "RING" THEN calls[l].caller ELSE calls[l].called
  <2>1. calls' \in [Lines -> Call]
    BY <1>2 DEF BoxConnect, Call
  <2>2. FullLine("CONNECT", l, number, NoNumber, 0) \in WireLine
    <3>1. number \in RawNumbers /\ NoNumber \in RawNumbers
      BY DEF Call, RawNumbers
    <3> QED BY <3>1, FullLineType DEF LineTypes
  <2> QED BY <1>2, <2>1, <2>2, WriteTypes DEF BoxConnect
<1>3. ASSUME NEW l \in Lines, BoxDisconnect(l) PROVE TypeOK' /\ Lengths'
  <2>1. PICK d \in Nat : Write(FullLine("DISCONNECT", l, NoNumber, NoNumber, d))
    BY <1>3, DurationsAssumption DEF BoxDisconnect
  <2>2. calls' \in [Lines -> Call]
    BY <1>3, ZeroTypes DEF BoxDisconnect
  <2>3. FullLine("DISCONNECT", l, NoNumber, NoNumber, d) \in WireLine
    <3>1. d \in Int /\ NoNumber \in RawNumbers
      BY DEF RawNumbers
    <3> QED BY <3>1, FullLineType DEF LineTypes
  <2> QED BY <2>1, <2>2, <2>3, WriteTypes
<1>4. Unheard \in [Lines -> Call]
  BY DEF Unheard, Call
<1>5. CASE BoxClose
  <2>1. PICK n \in 0 .. Len(wire) :
          /\ shadow' = SubSeq(shadow, 1, n + 1)
          /\ \/ wire' = SubSeq(wire, 1, n)
             \/ /\ n < Len(wire) /\ "cut" \in Faults
                /\ \E m \in Cuts(wire[n + 1]) : wire' = Append(SubSeq(wire, 1, n), m)
    BY <1>5 DEF BoxClose
  <2>2. Len(shadow) = Len(wire) + 1
    BY <1>5 DEF BoxClose, Lengths
  <2>3. shadow' \in Seq([Lines -> Call]) /\ Len(shadow') > 0
    <3>1. \A i \in 1 .. n + 1 : shadow[i] \in [Lines -> Call]
      BY <2>2
    <3>2. /\ SubSeq(shadow, 1, n + 1) \in Seq([Lines -> Call])
          /\ Len(SubSeq(shadow, 1, n + 1)) = n + 1
      BY <3>1, SubSeqProperties
    <3> QED BY <2>1, <3>2
  <2>4. SubSeq(wire, 1, n) \in Seq(WireLine)
    <3>1. \A i \in 1 .. n : wire[i] \in WireLine
      OBVIOUS
    <3> QED BY <3>1, SubSeqProperties
  <2>5. wire' \in Seq(WireLine)
    <3>1. CASE wire' = SubSeq(wire, 1, n)
      BY <2>4, <3>1
    <3>2. ASSUME n < Len(wire), NEW m \in Cuts(wire[n + 1]),
                 wire' = Append(SubSeq(wire, 1, n), m)
          PROVE  wire' \in Seq(WireLine)
      <4>1. m \in WireLine
        BY <3>2, CutType
      <4> QED BY <2>4, <3>2, <4>1, AppendProperties
    <3> QED BY <2>1, <3>1, <3>2
  <2> QED BY <1>4, <1>5, <2>3, <2>5, ZeroTypes DEF BoxClose, Lengths, slots
<1>6. CASE BoxVanish
  BY <1>4, <1>6, ZeroTypes DEF BoxVanish, Lengths, slots
<1> QED BY <1>1, <1>2, <1>3, <1>5, <1>6 DEF Box

LEMMA NextLineTypes ==
  ASSUME TypeOK, Lengths, NextLine
  PROVE  /\ Head(wire) \in WireLine /\ Head(wire) = wire[1]
         /\ shadow # <<>>
         /\ wire' \in Seq(WireLine)
         /\ shadow' \in Seq([Lines -> Call])
         /\ Len(wire') = Len(wire) - 1
         /\ Len(shadow') = IF Len(shadow) > 1 THEN Len(shadow) - 1 ELSE Len(shadow)
         /\ conn' = conn => Lengths'
<1> USE DEF TypeOK, Lengths, NextLine
<1>1. /\ wire \in Seq(WireLine) /\ wire # <<>>
      /\ shadow \in Seq([Lines -> Call]) /\ shadow # <<>>
  BY EmptySeq
<1>2. /\ Head(wire) \in WireLine /\ Head(wire) = wire[1]
      /\ wire' \in Seq(WireLine) /\ Len(wire') = Len(wire) - 1
  BY <1>1, HeadTailProperties
<1>3. /\ Tail(shadow) \in Seq([Lines -> Call])
      /\ Len(Tail(shadow)) = Len(shadow) - 1
  BY <1>1, HeadTailProperties
<1>4. /\ shadow' \in Seq([Lines -> Call])
      /\ Len(shadow') = IF Len(shadow) > 1 THEN Len(shadow) - 1 ELSE Len(shadow)
  BY <1>3
<1>5. Len(shadow) > 0 /\ Len(shadow') > 0
  BY <1>1, <1>4, EmptySeq
<1>6. conn' = conn => Lengths'
  BY <1>2, <1>4, <1>5
<1> QED BY <1>1, <1>2, <1>4, <1>6

\* The event of the line read.
LEMMA EventRead ==
  ASSUME TypeOK, Lengths, ReadEvent
  PROVE  \E a, b \in Numbers : Handle(parse_input(wire[1], a, b))
<1>1. wire[1] \in WireLine /\ wire[1] = Head(wire)
  BY NextLineTypes DEF ReadEvent
<1>2. CallerAt[wire[1].type] \in Nat /\ CalledAt[wire[1].type] \in Nat
  BY <1>1 DEF WireLine, EventTypes, LineTypes, CallerAt, CalledAt
<1> QED BY <1>1, <1>2, ParamType DEF ReadEvent, WireLine

LEMMA SlotType ==
  ASSUME NEW slot \in Event, NEW e \in Event, NEW type
  PROVE  NextSlot(slot, type, e) \in Event
  BY ZeroTypes DEF NextSlot

LEMMA ListenerTypes ==
  ASSUME TypeOK, Lengths, Listener
  PROVE  TypeOK' /\ Lengths'
<1>1. CASE Connect
  BY <1>1, ZeroTypes DEF Connect, TypeOK, Lengths
<1>2. CASE ReadRejected
  BY <1>2, NextLineTypes, ZeroTypes DEF ReadRejected, TypeOK, NextLine, slots
<1>3. CASE ReadEvent
  <2>1. PICK a, b \in Numbers : Handle(parse_input(wire[1], a, b))
    BY <1>3, EventRead
  <2> DEFINE e == parse_input(wire[1], a, b)
  <2>2. e \in Event
    BY <1>3, NextLineTypes, ParseType DEF ReadEvent
  <2>3. shadow # <<>> /\ shadow[1] \in [Lines -> Call]
    BY <1>3, NextLineTypes DEF ReadEvent, TypeOK
  <2>4. out' \in [event : Event, call : Call]
    BY <2>1, <2>2, <2>3, AttributedType, ZeroTypes DEF Handle, TypeOK
  <2>5. lastcall' \in Event /\ lastring' \in Event
    BY <2>1, <2>2, SlotType DEF Handle, TypeOK
  <2> QED BY <1>3, <2>4, <2>5, NextLineTypes DEF ReadEvent, NextLine, TypeOK
<1>4. CASE ReadFault
  BY <1>4, NextLineTypes, ZeroTypes DEF ReadFault, TypeOK, NextLine, slots, Lengths
<1>5. CASE ReadEOF
  BY <1>5, ZeroTypes DEF ReadEOF, TypeOK, slots, Lengths
<1> QED BY <1>1, <1>2, <1>3, <1>4, <1>5 DEF Listener, Read

LEMMA TypeNext == TypeOK /\ Lengths /\ [Next]_vars => TypeOK' /\ Lengths'
<1>1. ASSUME TypeOK, Lengths, UNCHANGED vars PROVE TypeOK' /\ Lengths'
  BY <1>1 DEF vars, TypeOK, Lengths
<1> QED BY <1>1, BoxTypes, ListenerTypes DEF Next

\* Events, slots, unread lines and calls keep their types.
THEOREM TypeCorrect == Spec => []TypeOK
<1> QED BY TypeInit, TypeNext, PTL DEF Spec

-----------------------------------------------------------------------------
(* The unread lines lead from what was read to the state of the box. *)

LEMMA ChainLengths == Chain => Lengths
  BY DEF Chain, Lengths

LEMMA ChainInit == Init => Chain
  BY EmptySeq DEF Init, Chain, NoCall

LEMMA ChainWrite ==
  ASSUME TypeOK, Chain, calls' \in [Lines -> Call], NEW m \in WireLine, Write(m),
         conn = "open" => Follows(calls, m, calls') /\ Tells(calls, m),
         conn # "open" => \A l \in Lines : ~calls'[l].newest
  PROVE  Chain'
<1>1. CASE conn = "open"
  <2>1. /\ wire' = Append(wire, m) /\ shadow' = Append(shadow, calls') /\ conn' = conn
        /\ Len(shadow) = Len(wire) + 1 /\ shadow[Len(shadow)] = calls
        /\ wire \in Seq(WireLine) /\ shadow \in Seq([Lines -> Call])
        /\ Len(wire) \in Nat
    BY <1>1 DEF Write, Chain, TypeOK
  <2>2. /\ Len(wire') = Len(wire) + 1
        /\ \A i \in 1 .. Len(wire) : wire'[i] = wire[i]
        /\ wire'[Len(wire) + 1] = m
    BY <2>1, AppendProperties
  <2>3. /\ Len(shadow') = Len(shadow) + 1
        /\ \A i \in 1 .. Len(shadow) : shadow'[i] = shadow[i]
        /\ shadow'[Len(shadow) + 1] = calls'
    BY <2>1, AppendProperties
  <2>4. ASSUME NEW i \in 1 .. Len(wire')
        PROVE  /\ Tells(shadow'[i], wire'[i])
               /\ i < Len(shadow') => Follows(shadow'[i], wire'[i], shadow'[i + 1])
    <3>1. CASE i \in 1 .. Len(wire)
      <4>1. wire'[i] = wire[i] /\ shadow'[i] = shadow[i] /\ shadow'[i + 1] = shadow[i + 1]
        BY <2>1, <2>2, <2>3, <3>1
      <4> QED BY <1>1, <2>1, <3>1, <4>1 DEF Chain
    <3>2. CASE i = Len(wire) + 1
      <4>1. wire'[i] = m /\ shadow'[i] = calls /\ shadow'[i + 1] = calls'
        BY <2>1, <2>2, <2>3, <3>2
      <4> QED BY <1>1, <4>1
    <3> QED BY <2>1, <2>2, <3>1, <3>2
  <2> QED BY <1>1, <2>1, <2>2, <2>3, <2>4 DEF Chain
<1>2. CASE conn # "open"
  BY <1>2 DEF Write, Chain
<1> QED BY <1>1, <1>2

LEMMA ChainBegin ==
  ASSUME TypeOK, Chain, NEW l \in Lines, NEW dir \in {"CALL", "RING"},
         NEW a \in RawNumbers, NEW b \in RawNumbers, Begin(l, dir, a, b)
  PROVE  Chain'
<1> DEFINE m == FullLine(dir, l, a, b, 0)
<1>1. calls' \in [Lines -> Call]
  BY DEF Begin, TypeOK, Call
<1>2. m \in WireLine
  BY FullLineType DEF LineTypes
<1>3. m.type = dir /\ m.line = l /\ m.caller = a /\ m.called = b /\ m.n = FullParams[dir]
  BY DEF FullLine
<1>4. /\ calls[l].dir = "NONE" /\ calls'[l].dir = dir
      /\ calls'[l].caller = a /\ calls'[l].called = b
      /\ calls'[l].newest = (conn = "open")
  BY DEF Begin
<1>5. \A k \in Lines \ {l} :
        /\ Same(calls[k], calls'[k])
        /\ calls'[k].newest = (calls[k].newest /\ calls[k].dir # dir)
  BY DEF Begin, TypeOK, Call, Same
<1> HIDE DEF m
<1>6. Tells(calls, m)
  BY <1>3 DEF Tells, FollowUp
<1>7. conn = "open" => Follows(calls, m, calls')
  BY <1>3, <1>4, <1>5 DEF Follows, LineTypes
<1>8. conn # "open" => \A k \in Lines : ~calls'[k].newest
  BY <1>4, <1>5 DEF Chain
<1>9. Write(m)
  BY DEF Begin, m
<1> QED BY <1>1, <1>2, <1>6, <1>7, <1>8, <1>9, ChainWrite

LEMMA ChainConnect ==
  ASSUME TypeOK, Chain, NEW l \in Lines, BoxConnect(l)
  PROVE  Chain'
<1> DEFINE number == IF calls[l].dir = "RING" THEN calls[l].caller ELSE calls[l].called
           m == FullLine("CONNECT", l, number, NoNumber, 0)
<1>1. calls' \in [Lines -> Call]
  BY DEF BoxConnect, TypeOK, Call
<1>2. m \in WireLine
  <2>1. number \in RawNumbers /\ NoNumber \in RawNumbers /\ 0 \in Int
    BY DEF TypeOK, Call, RawNumbers
  <2> QED BY <2>1, FullLineType DEF LineTypes
<1>3. m.type = "CONNECT" /\ m.line = l /\ m.n = FullParams["CONNECT"]
  BY DEF FullLine
<1>4. \A k \in Lines : Same(calls[k], calls'[k]) /\ calls'[k].newest = calls[k].newest
  BY DEF BoxConnect, TypeOK, Call, Same
<1>5. Write(m)
  BY DEF BoxConnect
<1> HIDE DEF m
<1>6. Tells(calls, m)
  BY <1>3 DEF Tells, FollowUp
<1>7. Follows(calls, m, calls')
  BY <1>3, <1>4 DEF Follows, LineTypes, TypeOK, Call
<1>8. conn # "open" => \A k \in Lines : ~calls'[k].newest
  BY <1>4 DEF Chain
<1> QED BY <1>1, <1>2, <1>5, <1>6, <1>7, <1>8, ChainWrite

LEMMA ChainDisconnect ==
  ASSUME TypeOK, Chain, NEW l \in Lines, BoxDisconnect(l)
  PROVE  Chain'
<1>1. PICK d \in IF calls[l].answered THEN Durations ELSE {0} :
        Write(FullLine("DISCONNECT", l, NoNumber, NoNumber, d))
  BY DEF BoxDisconnect
<1> DEFINE m == FullLine("DISCONNECT", l, NoNumber, NoNumber, d)
<1>2. calls' \in [Lines -> Call]
  BY ZeroTypes DEF BoxDisconnect, TypeOK
<1>3. m \in WireLine
  BY DurationsAssumption, FullLineType DEF LineTypes, RawNumbers
<1>4. m.type = "DISCONNECT" /\ m.line = l /\ m.n = FullParams["DISCONNECT"] /\ m.duration = d
  BY DEF FullLine
<1>5. /\ ~calls'[l].newest
      /\ \A k \in Lines \ {l} : calls'[k] = calls[k]
  BY DEF BoxDisconnect, TypeOK, NoCall
<1>6. Write(m)
  BY <1>1
<1> HIDE DEF m
<1>7. Tells(calls, m)
  BY <1>4 DEF Tells, FollowUp
<1>8. Follows(calls, m, calls')
  BY <1>4, <1>5 DEF Follows, LineTypes, TypeOK, Call, Same
<1>9. conn # "open" => \A k \in Lines : ~calls'[k].newest
  BY <1>5 DEF Chain
<1> QED BY <1>2, <1>3, <1>6, <1>7, <1>8, <1>9, ChainWrite

\* A cut line tells no more than the whole one.
LEMMA CutTells ==
  ASSUME NEW m \in WireLine, NEW c \in Cuts(m), NEW v, NEW w,
         Tells(v, m), Follows(v, m, w)
  PROVE  Tells(v, c)
<1>1. /\ c.n < m.n /\ c.type \in {m.type, "UNKNOWN"}
      /\ c.n > 3 => c.line = m.line
      /\ c.duration \in {0, m.duration} /\ c.n \in Nat
  BY CutType DEF WireLine
<1>2. SUFFICES ASSUME FollowUp(c), ~Rejected(c)
               PROVE  /\ c.line \in Lines
                      /\ c.type = "DISCONNECT" /\ ~v[c.line].answered => c.duration = 0
  BY DEF Tells
<1>3. c.type = m.type /\ FollowUp(m)
  BY <1>1, <1>2 DEF FollowUp
<1>4. c.n > 3
  BY <1>1, <1>2 DEF FollowUp, Rejected, MinParams
<1>5. ~Rejected(m)
  BY <1>3 DEF Follows, FollowUp, Rejected, MinParams, FullParams
<1> QED BY <1>1, <1>3, <1>4, <1>5 DEF Tells

LEMMA ChainClose ==
  ASSUME TypeOK, Chain, BoxClose
  PROVE  Chain'
<1>1. /\ conn = "open" /\ conn' = "closed" /\ calls' = Unheard
      /\ Len(shadow) = Len(wire) + 1 /\ Len(wire) \in Nat
      /\ wire \in Seq(WireLine) /\ shadow \in Seq([Lines -> Call])
  BY DEF BoxClose, Chain, TypeOK
<1>2. PICK n \in 0 .. Len(wire) :
        /\ shadow' = SubSeq(shadow, 1, n + 1)
        /\ \/ wire' = SubSeq(wire, 1, n)
           \/ /\ n < Len(wire) /\ "cut" \in Faults
              /\ \E m \in Cuts(wire[n + 1]) : wire' = Append(SubSeq(wire, 1, n), m)
  BY DEF BoxClose
<1>3. /\ Len(shadow') = n + 1
      /\ \A i \in 1 .. n + 1 : shadow'[i] = shadow[i]
  <2>1. \A i \in 1 .. n + 1 : shadow[i] \in [Lines -> Call]
    BY <1>1
  <2>2. /\ Len(SubSeq(shadow, 1, n + 1)) = n + 1
        /\ \A i \in 1 .. n + 1 : SubSeq(shadow, 1, n + 1)[i] = shadow[i]
    BY <2>1, SubSeqProperties
  <2> QED BY <1>2, <2>2
<1>4. /\ SubSeq(wire, 1, n) \in Seq(WireLine)
      /\ Len(SubSeq(wire, 1, n)) = n
      /\ \A i \in 1 .. n : SubSeq(wire, 1, n)[i] = wire[i]
  <2>1. \A i \in 1 .. n : wire[i] \in WireLine
    BY <1>1
  <2>2. 1 \in Int /\ n \in Int /\ (IF 1 <= n THEN n - 1 + 1 ELSE 0) = n /\ n - 1 + 1 = n
    OBVIOUS
  <2>3. /\ SubSeq(wire, 1, n) \in Seq(WireLine)
        /\ Len(SubSeq(wire, 1, n)) = IF 1 <= n THEN n - 1 + 1 ELSE 0
        /\ \A i \in 1 .. n - 1 + 1 : SubSeq(wire, 1, n)[i] = wire[1 + i - 1]
    BY <2>1, <2>2, SubSeqProperties
  <2> QED BY <2>2, <2>3
<1>5. \A l \in Lines : ~calls'[l].newest
  BY <1>1 DEF Unheard, TypeOK, Call
<1>6. \A i \in 1 .. n :
        /\ Tells(shadow[i], wire[i])
        /\ Follows(shadow[i], wire[i], shadow[i + 1])
  BY <1>1 DEF Chain
<1>7. CASE wire' = SubSeq(wire, 1, n)
  <2>1. ASSUME NEW i \in 1 .. n
        PROVE  /\ Tells(shadow'[i], wire'[i])
               /\ Follows(shadow'[i], wire'[i], shadow'[i + 1])
    <3>1. i \in 1 .. n + 1 /\ i + 1 \in 1 .. n + 1
      OBVIOUS
    <3>2. shadow'[i] = shadow[i] /\ shadow'[i + 1] = shadow[i + 1]
      BY <1>3, <3>1
    <3>3. wire'[i] = wire[i]
      BY <1>4, <1>7
    <3>4. Tells(shadow[i], wire[i]) /\ Follows(shadow[i], wire[i], shadow[i + 1])
      BY <1>6
    <3> QED BY <3>2, <3>3, <3>4
  <2> QED BY <1>1, <1>3, <1>4, <1>5, <1>7, <2>1 DEF Chain
<1>8. ASSUME n < Len(wire), "cut" \in Faults, NEW m \in Cuts(wire[n + 1]),
             wire' = Append(SubSeq(wire, 1, n), m)
      PROVE  Chain'
  <2>1. m \in WireLine
    BY <1>1, <1>8, CutType
  <2>2. /\ Len(wire') = n + 1
        /\ \A i \in 1 .. n : wire'[i] = wire[i]
        /\ wire'[n + 1] = m
    BY <1>4, <1>8, <2>1, AppendProperties
  <2>3. Tells(shadow[n + 1], m)
    <3>1. Tells(shadow[n + 1], wire[n + 1]) /\ Follows(shadow[n + 1], wire[n + 1], shadow[n + 2])
      BY <1>1, <1>8 DEF Chain
    <3>2. wire[n + 1] \in WireLine
      BY <1>1, <1>8
    <3> QED BY <3>1, <3>2, CutTells
  <2>4. \A i \in 1 .. n + 1 :
          /\ Tells(shadow'[i], wire'[i])
          /\ i < n + 1 => Follows(shadow'[i], wire'[i], shadow'[i + 1])
    <3>1. ASSUME NEW i \in 1 .. n PROVE Tells(shadow'[i], wire'[i])
                                        /\ Follows(shadow'[i], wire'[i], shadow'[i + 1])
      <4>1. i \in 1 .. n + 1 /\ i + 1 \in 1 .. n + 1
        OBVIOUS
      <4>2. shadow'[i] = shadow[i] /\ shadow'[i + 1] = shadow[i + 1]
        BY <1>3, <4>1
      <4>3. wire'[i] = wire[i]
        BY <2>2
      <4>4. Tells(shadow[i], wire[i]) /\ Follows(shadow[i], wire[i], shadow[i + 1])
        BY <1>6
      <4> QED BY <4>2, <4>3, <4>4
    <3>2. Tells(shadow'[n + 1], wire'[n + 1])
      BY <1>3, <2>2, <2>3
    <3> QED BY <3>1, <3>2
  <2> QED BY <1>1, <1>3, <1>5, <1>8, <2>2, <2>4 DEF Chain
<1> QED BY <1>2, <1>7, <1>8

LEMMA ChainVanish ==
  ASSUME TypeOK, Chain, BoxVanish
  PROVE  Chain'
<1>1. \A l \in Lines : ~Unheard[l].newest
  BY DEF Unheard, TypeOK, Call
<1> QED BY <1>1 DEF BoxVanish, Chain

LEMMA ChainBox ==
  ASSUME TypeOK, Chain, Box
  PROVE  Chain'
<1>1. ASSUME NEW l \in Lines, BoxCall(l) \/ BoxRing(l) PROVE Chain'
  BY <1>1, ChainBegin DEF BoxCall, BoxRing, RawNumbers
<1> QED BY <1>1, ChainConnect, ChainDisconnect, ChainClose, ChainVanish DEF Box

\* A whole line has all its parameters: only the end of a closed connection
\* leaves one unread.
LEMMA ChainFault ==
  ASSUME TypeOK, Chain, ReadFault
  PROVE  conn = "closed"
<1>1. /\ conn \in {"open", "closed", "lost"} /\ wire # <<>> /\ wire \in Seq(WireLine)
      /\ Uninitialised(Head(wire)) /\ Len(wire) \in Nat \ {0} /\ Len(shadow) \in Nat
      /\ Head(wire) = wire[1]
  BY EmptySeq DEF ReadFault, NextLine, TypeOK
<1>2. ASSUME conn # "closed" PROVE FALSE
  <2>1. 1 \in 1 .. Len(wire) /\ 1 < Len(shadow)
    BY <1>1, <1>2 DEF Chain
  <2>2. Follows(shadow[1], wire[1], shadow[1 + 1])
    BY <1>1, <2>1 DEF Chain
  <2> QED
    BY <1>1, <2>2 DEF Follows, Uninitialised, LineTypes, FullParams, CallerAt, CalledAt
<1> QED BY <1>2

\* Reading a line moves all of it on by one.
LEMMA ChainNextLine ==
  ASSUME TypeOK, Chain, NextLine, conn' = conn
  PROVE  Chain'
<1>1. /\ conn \in {"open", "lost", "closed"} /\ calls' = calls
      /\ wire \in Seq(WireLine) /\ wire # <<>> /\ shadow \in Seq([Lines -> Call])
      /\ Len(wire) \in Nat \ {0} /\ Len(shadow) \in Nat \ {0}
      /\ Len(shadow) = Len(wire) \/ Len(shadow) = Len(wire) + 1
      /\ Len(shadow) = Len(wire) => conn = "closed" /\ "cut" \in Faults
      /\ wire' = Tail(wire)
  BY EmptySeq DEF NextLine, TypeOK, Chain
<1>2. Len(wire') = Len(wire) - 1 /\ \A i \in 1 .. Len(wire) - 1 : wire'[i] = wire[i + 1]
  BY <1>1, HeadTailProperties
<1>3. \A i \in 1 .. Len(wire) :
        /\ Tells(shadow[i], wire[i])
        /\ i < Len(shadow) => Follows(shadow[i], wire[i], shadow[i + 1])
  BY <1>1 DEF Chain
<1>4. /\ conn = "open" => shadow[Len(shadow)] = calls
      /\ conn # "open" => \A l \in Lines : ~calls[l].newest
  BY DEF Chain
<1>5. /\ Len(wire) \in Nat \ {0}
      /\ Len(shadow) \in Nat \ {0}
      /\ Len(shadow) = Len(wire) \/ Len(shadow) = Len(wire) + 1
      /\ Len(shadow) = Len(wire) => conn = "closed" /\ "cut" \in Faults
  BY <1>1
<1>6. CASE Len(shadow) > 1
  <2>1. /\ Len(shadow') = Len(shadow) - 1
        /\ \A i \in 1 .. Len(shadow) - 1 : shadow'[i] = shadow[i + 1]
    BY <1>1, <1>6, HeadTailProperties, EmptySeq DEF NextLine
  <2>2. ASSUME NEW i \in 1 .. Len(wire) - 1
        PROVE  /\ Tells(shadow'[i], wire'[i])
               /\ i < Len(shadow) - 1 => Follows(shadow'[i], wire'[i], shadow'[i + 1])
    <3>1. /\ i + 1 \in 1 .. Len(wire)
          /\ i \in 1 .. Len(shadow) - 1
          /\ i < Len(shadow) - 1 => i + 1 < Len(shadow) /\ i + 1 \in 1 .. Len(shadow) - 1
      BY <1>5
    <3>2. wire'[i] = wire[i + 1] /\ shadow'[i] = shadow[i + 1]
      BY <1>2, <2>1, <3>1
    <3>3. i < Len(shadow) - 1 => shadow'[i + 1] = shadow[(i + 1) + 1]
      BY <2>1, <3>1
    <3>4. /\ Tells(shadow[i + 1], wire[i + 1])
          /\ i + 1 < Len(shadow) => Follows(shadow[i + 1], wire[i + 1], shadow[(i + 1) + 1])
      <4> DEFINE j == i + 1
      <4>1. j \in 1 .. Len(wire)
        BY <3>1
      <4> HIDE DEF j
      <4>2. Tells(shadow[j], wire[j]) /\ (j < Len(shadow) => Follows(shadow[j], wire[j], shadow[j + 1]))
        BY <1>3, <4>1
      <4> QED BY <4>2 DEF j
    <3> QED BY <3>1, <3>2, <3>3, <3>4
  <2>3. conn = "open" => shadow'[Len(shadow) - 1] = calls
    <3>1. Len(shadow) - 1 \in 1 .. Len(shadow) - 1 /\ (Len(shadow) - 1) + 1 = Len(shadow)
      BY <1>5, <1>6
    <3>2. shadow'[Len(shadow) - 1] = shadow[(Len(shadow) - 1) + 1]
      BY <2>1, <3>1
    <3> QED BY <1>4, <3>1, <3>2
  <2>4. Len(shadow) - 1 > 0 /\ Len(shadow) - 1 \in {Len(wire) - 1, Len(wire) - 1 + 1}
        /\ (Len(shadow) - 1 = Len(wire) - 1 => conn = "closed" /\ "cut" \in Faults)
    BY <1>5, <1>6
  <2> QED BY <1>1, <1>2, <1>4, <2>1, <2>2, <2>3, <2>4 DEF Chain
<1>7. CASE Len(shadow) = 1
  <2>1. shadow' = shadow /\ Len(wire) = 1 /\ conn = "closed" /\ "cut" \in Faults
    BY <1>1, <1>7 DEF NextLine
  <2>2. Len(wire') = 0 /\ Len(shadow') = 1
    BY <1>2, <1>7, <2>1
  <2>3. \A i \in 1 .. Len(wire') : FALSE
    BY <2>2
  <2>4. Len(shadow') > 0 /\ Len(shadow') \in {Len(wire'), Len(wire') + 1}
        /\ Len(shadow') # Len(wire')
    BY <2>2
  <2>5. conn' = "closed" /\ (\A l \in Lines : ~calls'[l].newest)
    BY <1>1, <1>4, <2>1
  <2> QED BY <2>3, <2>4, <2>5 DEF Chain
<1>8. Len(shadow) > 1 \/ Len(shadow) = 1
  BY <1>5
<1> QED BY <1>6, <1>7, <1>8

LEMMA ChainListener ==
  ASSUME TypeOK, Chain, Listener
  PROVE  Chain'
<1>1. CASE Connect
  <2>1. /\ shadow' = <<calls>> /\ Len(shadow') = 1 /\ shadow'[1] = calls
        /\ wire' = <<>> /\ Len(wire') = 0 /\ conn' = "open" /\ calls' = calls
    BY <1>1 DEF Connect, Chain
  <2>2. \A i \in 1 .. Len(wire') : FALSE
    BY <2>1
  <2> QED BY <2>1, <2>2 DEF Chain
<1>2. CASE ReadRejected \/ ReadEvent
  <2>1. NextLine /\ conn' = conn
    BY <1>2 DEF ReadRejected, ReadEvent
  <2> QED BY <2>1, ChainNextLine
<1>3. CASE ReadFault
  <2>1. conn' = "dead" /\ calls' = calls
    BY <1>3 DEF ReadFault, NextLine
  <2>2. conn # "open"
    \* only a cut line leaves a parameter unread
    BY <1>3, ChainFault
  <2> QED BY <2>1, <2>2 DEF Chain
<1>4. CASE ReadEOF
  BY <1>4 DEF ReadEOF, Chain
<1> QED BY <1>1, <1>2, <1>3, <1>4 DEF Listener, Read

LEMMA ChainNext ==
  ASSUME TypeOK, Chain, [Next]_vars
  PROVE  Chain'
<1>1. CASE UNCHANGED vars
  BY <1>1 DEF vars, Chain
<1> QED BY <1>1, ChainBox, ChainListener DEF Next

-----------------------------------------------------------------------------
(***************************************************************************)
(* What the events say about the calls of the box, for any lines but       *)
(* line 0.                                                                 *)
(***************************************************************************)

(* The two slots over one whole line. *)

\* The event e is what parse_input makes of the whole line m.
EventOf(e, m) ==
  /\ e.type = m.type /\ e.line = m.line
  /\ m.type \in {"CALL", "RING"} =>
       e.caller = Normalize(m.caller) /\ e.called = Normalize(m.called)

LEMMA TruthfulStays ==
  ASSUME NEW dir \in {"CALL", "RING"}, NEW v, NEW w, NEW m, NEW slot, NEW e,
         Truthful(slot, dir, v), Follows(v, m, w), EventOf(e, m)
  PROVE  Truthful(NextSlot(slot, dir, e), dir, w)
<1>1. CASE e.type = dir
  BY <1>1 DEF Truthful, NextSlot, Follows, EventOf
<1>2. CASE e.type # dir /\ NextSlot(slot, dir, e) = ZeroEvent
  BY <1>2 DEF Truthful
<1>3. CASE e.type # dir /\ NextSlot(slot, dir, e) # ZeroEvent
  <2>1. NextSlot(slot, dir, e) = slot
    BY <1>3 DEF NextSlot
  <2>2. /\ slot # ZeroEvent /\ slot.type = dir /\ slot.line \in Lines
        /\ v[slot.line].dir = dir
        /\ slot.caller = Normalize(v[slot.line].caller)
        /\ slot.called = Normalize(v[slot.line].called)
    BY <1>3, <2>1 DEF Truthful
  <2>3. ~(m.type = "DISCONNECT" /\ slot.line = m.line)
    BY <1>3, <2>2 DEF NextSlot, EventOf
  <2>4. Same(v[slot.line], w[slot.line])
    BY <2>2, <2>3 DEF Follows, LineTypes
  <2> QED BY <2>1, <2>2, <2>4 DEF Truthful, Same
<1> QED BY <1>1, <1>2, <1>3

\* The newest call of each direction of v is in its slot.
Complete(call, ring, v) ==
  \A l \in Lines : v[l].newest =>
    \/ v[l].dir = "CALL" /\ Holds(call, "CALL", l)
    \/ v[l].dir = "RING" /\ Holds(ring, "RING", l)

LEMMA CompleteStays ==
  ASSUME NEW v, NEW w, NEW m, NEW call, NEW ring, NEW e,
         Complete(call, ring, v), Follows(v, m, w), EventOf(e, m)
  PROVE  Complete(NextSlot(call, "CALL", e), NextSlot(ring, "RING", e), w)
<1> SUFFICES ASSUME NEW l \in Lines, w[l].newest
             PROVE  \/ w[l].dir = "CALL" /\ Holds(NextSlot(call, "CALL", e), "CALL", l)
                    \/ w[l].dir = "RING" /\ Holds(NextSlot(ring, "RING", e), "RING", l)
  BY DEF Complete
<1>1. CASE l # m.line
  <2>1. Same(v[l], w[l]) /\ v[l].newest /\ v[l].dir # m.type
    BY <1>1 DEF Follows
  <2>2. \/ v[l].dir = "CALL" /\ Holds(call, "CALL", l)
        \/ v[l].dir = "RING" /\ Holds(ring, "RING", l)
    BY <2>1 DEF Complete
  <2> QED BY <1>1, <2>1, <2>2 DEF Same, Holds, NextSlot, EventOf
<1>2. CASE l = m.line /\ m.type \in {"CALL", "RING"}
  BY <1>2 DEF Follows, EventOf, NextSlot, Holds
<1>3. CASE l = m.line /\ m.type = "CONNECT"
  BY <1>3 DEF Follows, EventOf, NextSlot, Holds, Same, Complete
<1>4. CASE l = m.line /\ m.type = "DISCONNECT"
  BY <1>4 DEF Follows
<1> QED BY <1>1, <1>2, <1>3, <1>4 DEF Follows, LineTypes

-----------------------------------------------------------------------------
(* Reading a line. *)

\* A line is read from an informed state, and from whole lines to another one.
LEMMA LineRead ==
  ASSUME TypeOK, Chain, NextLine
  PROVE  /\ Informed /\ wire[1] \in WireLine /\ Head(wire) = wire[1]
         /\ shadow[1] \in [Lines -> Call]
         /\ Tells(shadow[1], wire[1])
         /\ ("cut" \notin Faults \/ (Informed' /\ conn' = conn)) =>
              Len(shadow) > 1 /\ Follows(shadow[1], wire[1], shadow'[1])
<1>1. /\ wire # <<>> /\ wire \in Seq(WireLine) /\ shadow \in Seq([Lines -> Call])
      /\ conn \in {"open", "closed", "lost"}
      /\ Len(wire) \in Nat \ {0} /\ Len(shadow) \in Nat \ {0}
      /\ Len(shadow) = Len(wire) \/ Len(shadow) = Len(wire) + 1
      /\ Len(shadow) = Len(wire) => conn = "closed" /\ "cut" \in Faults
      /\ wire' = Tail(wire)
      /\ shadow' = IF Len(shadow) > 1 THEN Tail(shadow) ELSE shadow
  BY EmptySeq DEF NextLine, TypeOK, Chain
<1>2. /\ wire[1] \in WireLine /\ Head(wire) = wire[1] /\ Len(wire') = Len(wire) - 1
      /\ wire' \in Seq(WireLine)
  BY <1>1, HeadTailProperties
<1>3. shadow[1] \in [Lines -> Call]
  BY <1>1
<1>4. /\ Tells(shadow[1], wire[1])
      /\ 1 < Len(shadow) => Follows(shadow[1], wire[1], shadow[1 + 1])
  <2>1. 1 \in 1 .. Len(wire)
    BY <1>1
  <2> QED BY <1>1, <2>1 DEF Chain
<1>5. ASSUME "cut" \notin Faults \/ (Informed' /\ conn' = conn) PROVE Len(shadow) > 1
  <2>1. CASE "cut" \notin Faults
    BY <1>1, <2>1
  <2>2. CASE Informed' /\ conn' = conn
    <3>1. conn = "closed" => Len(wire') > 0
      BY <1>2, <2>2, EmptySeq DEF Informed
    <3> QED BY <1>1, <1>2, <3>1
  <2> QED BY <1>5, <2>1, <2>2
<1>6. Len(shadow) > 1 => shadow'[1] = shadow[1 + 1]
  <2>1. ASSUME Len(shadow) > 1 PROVE shadow'[1] = shadow[1 + 1]
    <3>1. shadow # <<>> /\ 1 \in 1 .. Len(shadow) - 1
      BY <1>1, <2>1, EmptySeq
    <3> QED BY <1>1, <2>1, <3>1, HeadTailProperties
  <2> QED BY <2>1
<1>7. Informed
  BY <1>1 DEF Informed
<1> QED BY <1>1, <1>2, <1>3, <1>4, <1>5, <1>6, <1>7

\* The event of the line read, and the numbers of a whole CALL or RING line.
LEMMA EventLine ==
  ASSUME TypeOK, Chain, ReadEvent
  PROVE  \E e \in Event :
           /\ Handle(e)
           /\ e.type = wire[1].type /\ e.pretype = "UNKNOWN"
           /\ e.type # "UNKNOWN" => e.line = wire[1].line /\ e.duration = wire[1].duration
           /\ \A v, w : Follows(v, wire[1], w) => EventOf(e, wire[1])
<1> DEFINE m == wire[1]
<1>1. m \in WireLine /\ m = Head(wire) /\ ~Rejected(m)
  BY LineRead DEF ReadEvent
<1>2. PICK a \in Param(m, CallerAt[m.type], m.caller), b \in Param(m, CalledAt[m.type], m.called) :
        Handle(parse_input(m, a, b))
  BY <1>1 DEF ReadEvent
<1> HIDE DEF m
<1>3. CallerAt[m.type] \in Nat /\ CalledAt[m.type] \in Nat
  BY <1>1 DEF WireLine, EventTypes, LineTypes, CallerAt, CalledAt
<1>4. a \in Numbers /\ b \in Numbers
  BY <1>1, <1>2, <1>3, ParamType DEF WireLine
<1> DEFINE e == parse_input(m, a, b)
<1>5. /\ e \in Event /\ e.type = m.type /\ e.pretype = "UNKNOWN"
      /\ m.type # "UNKNOWN" =>
           e.line = m.line /\ e.duration = m.duration /\ e.caller = a /\ e.called = b
  BY <1>1, <1>4, ParseType
<1>6. ASSUME NEW v, NEW w, Follows(v, m, w) PROVE EventOf(e, m)
  <2>1. m.type \in LineTypes /\ m.n = FullParams[m.type]
    BY <1>6 DEF Follows
  <2>2. ASSUME m.type \in {"CALL", "RING"} PROVE a = Normalize(m.caller) /\ b = Normalize(m.called)
    BY <1>2, <2>1, <2>2 DEF FullParams, CallerAt, CalledAt, Param
  <2> QED BY <1>5, <2>1, <2>2 DEF EventOf, LineTypes
<1> HIDE DEF e
<1> QED BY <1>2, <1>5, <1>6 DEF m, e

-----------------------------------------------------------------------------
(* SlotsTruthful and SlotsComplete. *)

SlotsRight == SlotsTruthful /\ SlotsComplete

LEMMA SlotsInit == Init => SlotsRight
  BY DEF Init, SlotsRight, SlotsTruthful, SlotsComplete, Informed

\* Steps that leave the slots and what has been read alone.
LEMMA SlotsUntouched ==
  ASSUME SlotsRight, Informed' => Informed, UNCHANGED slots,
         Informed => shadow'[1] = shadow[1]
  PROVE  SlotsRight'
  BY DEF SlotsRight, SlotsTruthful, SlotsComplete, slots, Truthful, Holds

LEMMA SlotsWrite ==
  ASSUME TypeOK, Chain, SlotsRight, calls' \in [Lines -> Call], NEW m \in WireLine, Write(m)
  PROVE  SlotsRight'
<1>1. CASE conn = "open" /\ shadow' = Append(shadow, calls')
  <2>1. shadow \in Seq([Lines -> Call]) /\ 1 \in 1 .. Len(shadow)
    BY <1>1 DEF TypeOK, Chain
  <2>2. shadow'[1] = shadow[1]
    BY <1>1, <2>1, AppendProperties
  <2> QED BY <1>1, <2>2, SlotsUntouched DEF Write, Informed
<1>2. CASE UNCHANGED <<wire, shadow>>
  BY <1>2, SlotsUntouched DEF Write, Informed
<1> QED BY <1>1, <1>2 DEF Write

LEMMA SlotsBox ==
  ASSUME TypeOK, Chain, SlotsRight, Box, TypeOK'
  PROVE  SlotsRight'
<1>0. calls' \in [Lines -> Call]
  BY DEF TypeOK
<1>1. ASSUME NEW l \in Lines, BoxCall(l) \/ BoxRing(l) \/ BoxConnect(l) \/ BoxDisconnect(l)
      PROVE  SlotsRight'
  <2>1. ASSUME NEW dir \in {"CALL", "RING"}, NEW a \in RawNumbers, NEW b \in RawNumbers,
               Begin(l, dir, a, b)
        PROVE  SlotsRight'
    <3>1. FullLine(dir, l, a, b, 0) \in WireLine
      BY FullLineType DEF LineTypes
    <3> QED BY <1>0, <2>1, <3>1, SlotsWrite DEF Begin
  <2>2. CASE BoxCall(l) \/ BoxRing(l)
    BY <2>1, <2>2 DEF BoxCall, BoxRing, RawNumbers
  <2>3. CASE BoxConnect(l)
    <3> DEFINE number == IF calls[l].dir = "RING" THEN calls[l].caller ELSE calls[l].called
    <3>1. number \in RawNumbers /\ NoNumber \in RawNumbers
      BY DEF TypeOK, Call, RawNumbers
    <3>2. FullLine("CONNECT", l, number, NoNumber, 0) \in WireLine
      BY <3>1, FullLineType DEF LineTypes
    <3> QED BY <1>0, <2>3, <3>2, SlotsWrite DEF BoxConnect
  <2>4. CASE BoxDisconnect(l)
    <3>1. PICK d \in Nat : Write(FullLine("DISCONNECT", l, NoNumber, NoNumber, d))
      BY <2>4, DurationsAssumption DEF BoxDisconnect
    <3>2. FullLine("DISCONNECT", l, NoNumber, NoNumber, d) \in WireLine
      BY FullLineType DEF LineTypes, RawNumbers
    <3> QED BY <1>0, <3>1, <3>2, SlotsWrite
  <2> QED BY <1>1, <2>2, <2>3, <2>4
<1>2. CASE BoxClose
  <2>1. PICK n \in 0 .. Len(wire) : shadow' = SubSeq(shadow, 1, n + 1)
    BY <1>2 DEF BoxClose
  <2>2. Len(shadow) = Len(wire) + 1 /\ shadow \in Seq([Lines -> Call]) /\ Len(wire) \in Nat
    BY <1>2 DEF BoxClose, Chain, TypeOK
  <2>3. \A i \in 1 .. n + 1 : shadow[i] \in [Lines -> Call]
    BY <2>2
  <2>4. \A i \in 1 .. n + 1 : shadow'[i] = shadow[i]
    BY <2>1, <2>3, SubSeqProperties
  <2>5. shadow'[1] = shadow[1]
    BY <2>4
  <2> QED BY <1>2, <2>5, SlotsUntouched DEF BoxClose, Informed
<1>3. CASE BoxVanish
  BY <1>3, SlotsUntouched DEF BoxVanish, Informed
<1> QED BY <1>1, <1>2, <1>3 DEF Box

LEMMA SlotsListener ==
  ASSUME TypeOK, Chain, SlotsRight, Listener
  PROVE  SlotsRight'
<1>1. CASE Connect
  <2>1. shadow'[1] = calls /\ lastcall' = ZeroEvent /\ lastring' = ZeroEvent
    BY <1>1 DEF Connect
  <2>2. \A l \in Lines : ~calls[l].newest
    BY <1>1 DEF Connect, Chain
  <2> QED BY <2>1, <2>2 DEF SlotsRight, SlotsTruthful, SlotsComplete, Truthful
\* A whole line is never rejected.
<1>2. CASE ReadRejected
  <2>1. NextLine /\ conn' = conn /\ Rejected(wire[1])
    BY <1>2, LineRead DEF ReadRejected
  <2>2. ~Informed'
    BY <2>1, LineRead DEF Follows, Rejected, LineTypes, FullParams, MinParams
  <2> QED BY <2>2 DEF SlotsRight, SlotsTruthful, SlotsComplete
<1>3. CASE ReadEvent
  <2>1. SUFFICES ASSUME Informed' PROVE SlotsRight'
    BY DEF SlotsRight, SlotsTruthful, SlotsComplete
  <2>2. NextLine /\ conn' = conn
    BY <1>3 DEF ReadEvent
  <2>3. Informed /\ Follows(shadow[1], wire[1], shadow'[1])
    BY <2>1, <2>2, LineRead
  <2>4. PICK e \in Event : Handle(e) /\ EventOf(e, wire[1])
    BY <1>3, <2>3, EventLine
  <2>5. /\ Truthful(lastcall, "CALL", shadow[1]) /\ Truthful(lastring, "RING", shadow[1])
        /\ Complete(lastcall, lastring, shadow[1])
    BY <2>3 DEF SlotsRight, SlotsTruthful, SlotsComplete, Complete
  <2>6. lastcall' = NextSlot(lastcall, "CALL", e) /\ lastring' = NextSlot(lastring, "RING", e)
    BY <2>4 DEF Handle
  <2>7. /\ Truthful(lastcall', "CALL", shadow'[1]) /\ Truthful(lastring', "RING", shadow'[1])
        /\ Complete(lastcall', lastring', shadow'[1])
    BY <2>3, <2>4, <2>5, <2>6, TruthfulStays, CompleteStays
  <2> QED BY <2>7 DEF SlotsRight, SlotsTruthful, SlotsComplete, Complete
<1>4. CASE ReadFault \/ ReadEOF
  BY <1>4 DEF ReadFault, ReadEOF, SlotsRight, SlotsTruthful, SlotsComplete, Informed
<1> QED BY <1>1, <1>2, <1>3, <1>4 DEF Listener, Read

\* Everything but what the properties say of out.
IInv == TypeOK /\ Lengths /\ Chain /\ SlotsRight

LEMMA IInvInit == Init => IInv
  BY TypeInit, ChainInit, SlotsInit DEF IInv

LEMMA IInvNext == IInv /\ [Next]_vars => IInv'
<1>1. ASSUME IInv, [Next]_vars PROVE TypeOK' /\ Lengths' /\ Chain'
  BY <1>1, TypeNext, ChainNext DEF IInv
<1>2. ASSUME IInv, [Next]_vars PROVE SlotsRight'
  <2>1. CASE UNCHANGED vars
    BY <1>2, <2>1 DEF IInv, vars, SlotsRight, SlotsTruthful, SlotsComplete, Informed, Truthful, Holds
  <2> QED BY <1>1, <1>2, <2>1, SlotsBox, SlotsListener DEF IInv, Next
<1> QED BY <1>1, <1>2 DEF IInv

\* The two slots never hold a call that has ended, is on another line, or
\* belongs to another connection, whatever the connection does.
THEOREM SlotsNeverStale == Spec => []SlotsTruthful
<1>1. IInv => SlotsTruthful
  BY DEF IInv, SlotsRight
<1> QED BY <1>1, IInvInit, IInvNext, PTL DEF Spec

\* As long as the listener knows of it, the newest call of a direction is in its
\* slot, whatever other lines and the connection do.
THEOREM NewestInSlot == Spec => []SlotsComplete
<1>1. IInv => SlotsComplete
  BY DEF IInv, SlotsRight
<1> QED BY <1>1, IInvInit, IInvNext, PTL DEF Spec

-----------------------------------------------------------------------------
(* The events. *)

\* What TakeOver makes of a slot and an event of its line.
LEMMA TakenOver ==
  ASSUME NEW e \in Event, NEW slot \in Event, NEW dir \in {"CALL", "RING"}, NEW v,
         0 \notin Lines, e.line \in Lines, Truthful(slot, dir, v), e.line = slot.line
  PROVE  LET t == TakeOver(e, slot, dir)
             c == v[e.line]
         IN  /\ c.dir = dir
             /\ t.pretype = c.dir /\ t.incoming = (c.dir = "RING")
             /\ t.caller = Normalize(c.caller) /\ t.called = Normalize(c.called)
<1>1. slot # ZeroEvent
  BY DEF ZeroEvent
<1>2. /\ v[e.line].dir = dir
      /\ slot.caller = Normalize(v[e.line].caller)
      /\ slot.called = Normalize(v[e.line].called)
  BY <1>1 DEF Truthful
<1> QED BY <1>2 DEF TakeOver, Event

LEMMA TakeOverKeeps ==
  ASSUME NEW e \in Event, NEW slot \in Event, NEW dir \in {"CALL", "RING"}
  PROVE  LET t == TakeOver(e, slot, dir)
         IN  /\ t \in Event /\ t.type = e.type /\ t.line = e.line /\ t.duration = e.duration
             /\ e.line # slot.line => t = e
  BY DEF TakeOver, Event, EventTypes, LineTypes

\* Everything the properties say of the event of one line.
Right(event, call) ==
  /\ event.pretype # "UNKNOWN" =>
       /\ event.pretype = call.dir
       /\ event.incoming = (call.dir = "RING")
       /\ event.caller = Normalize(call.caller)
       /\ event.called = Normalize(call.called)
  /\ call.newest => event.pretype = call.dir
  /\ event.type = "DISCONNECT" /\ ~call.answered => event.duration = 0
  /\ event.type = "DISCONNECT" /\ call.answered /\ "cut" \notin Faults =>
       event.duration \in Durations

LEMMA EventRight ==
  ASSUME IInv, ReadEvent, FollowUp(out'.event), 0 \notin Lines
  PROVE  Right(out'.event, out'.call)
<1> USE DEF IInv
<1>1. PICK e \in Event :
        /\ Handle(e)
        /\ e.type = wire[1].type /\ e.pretype = "UNKNOWN"
        /\ e.type # "UNKNOWN" => e.line = wire[1].line /\ e.duration = wire[1].duration
  BY EventLine
<1>2. NextLine /\ ~Rejected(wire[1])
  BY LineRead DEF ReadEvent
<1>3. /\ Informed /\ shadow[1] \in [Lines -> Call] /\ Tells(shadow[1], wire[1])
      /\ "cut" \notin Faults => Follows(shadow[1], wire[1], shadow'[1])
  BY <1>2, LineRead
<1>4. lastcall \in Event /\ lastring \in Event
  BY DEF TypeOK
<1> DEFINE f == TakeOver(e, lastcall, "CALL")
           g == TakeOver(f, lastring, "RING")
<1>5. f \in Event /\ f.type = e.type /\ f.line = e.line /\ f.duration = e.duration
      /\ (e.line # lastcall.line => f = e)
  BY <1>4, TakeOverKeeps
<1>6. g \in Event /\ g.type = f.type /\ g.line = f.line /\ g.duration = f.duration
      /\ (f.line # lastring.line => g = f)
  BY <1>4, <1>5, TakeOverKeeps
<1>7. /\ FollowUp(e) /\ out'.event = g
      /\ out'.call = IF e.line \in Lines THEN shadow[1][e.line] ELSE NoCall
  BY <1>1 DEF Handle, Attributed, FollowUp
<1>8. /\ e.type = wire[1].type /\ e.line = wire[1].line /\ e.duration = wire[1].duration
      /\ FollowUp(wire[1]) /\ e.line \in Lines
  BY <1>1, <1>2, <1>3, <1>7 DEF FollowUp, Tells
<1> DEFINE c == shadow[1][e.line]
<1>9. out'.call = c /\ c \in Call
  BY <1>3, <1>7, <1>8
<1>10. /\ Truthful(lastcall, "CALL", shadow[1]) /\ Truthful(lastring, "RING", shadow[1])
       /\ Complete(lastcall, lastring, shadow[1])
  BY <1>3 DEF SlotsRight, SlotsTruthful, SlotsComplete, Complete
<1>11. e.line = lastcall.line =>
         /\ c.dir = "CALL" /\ f.pretype = c.dir /\ f.incoming = (c.dir = "RING")
         /\ f.caller = Normalize(c.caller) /\ f.called = Normalize(c.called)
  BY <1>4, <1>8, <1>10, TakenOver
<1>12. e.line = lastring.line =>
         /\ c.dir = "RING" /\ g.pretype = c.dir /\ g.incoming = (c.dir = "RING")
         /\ g.caller = Normalize(c.caller) /\ g.called = Normalize(c.called)
  BY <1>4, <1>5, <1>8, <1>10, TakenOver
<1>13. c.newest => \/ c.dir = "CALL" /\ e.line = lastcall.line
                   \/ c.dir = "RING" /\ e.line = lastring.line
  BY <1>8, <1>10 DEF Complete, Holds
<1>14. g.type = "DISCONNECT" =>
         /\ ~c.answered => g.duration = 0
         /\ c.answered /\ "cut" \notin Faults => g.duration \in Durations
  BY <1>2, <1>3, <1>5, <1>6, <1>8 DEF Tells, Follows
<1> HIDE DEF f, g, c
<1>15. g.pretype # "UNKNOWN" =>
         /\ g.pretype = c.dir /\ g.incoming = (c.dir = "RING")
         /\ g.caller = Normalize(c.caller) /\ g.called = Normalize(c.called)
  BY <1>1, <1>5, <1>6, <1>11, <1>12
<1>16. c.newest => g.pretype = c.dir
  BY <1>5, <1>6, <1>11, <1>12, <1>13
<1> QED BY <1>7, <1>9, <1>14, <1>15, <1>16 DEF Right, g, f

\* Every other step gives nothing to the callbacks.
LEMMA Silent ==
  ASSUME Next, ~ReadEvent
  PROVE  out' = Silence
  BY DEF Next, Box, Listener, Read, BoxCall, BoxRing, Begin, BoxConnect, BoxDisconnect,
         Write, BoxClose, BoxVanish, Connect, ReadRejected, ReadFault, ReadEOF

\* The four properties of the callbacks' events, in one.
EventsRight == FollowUp(out.event) => Right(out.event, out.call)

LEMMA EventsInvariant ==
  ASSUME 0 \notin Lines
  PROVE  Spec => []EventsRight
<1>1. Init => EventsRight
  BY DEF Init, EventsRight, Silence, ZeroEvent, FollowUp
<1>2. IInv /\ EventsRight /\ [Next]_vars => EventsRight'
  <2>1. ASSUME IInv, ReadEvent PROVE EventsRight'
    BY <2>1, EventRight DEF EventsRight
  <2>2. ASSUME Next, ~ReadEvent PROVE EventsRight'
    BY <2>2, Silent DEF EventsRight, Silence, ZeroEvent, FollowUp
  <2>3. ASSUME EventsRight, UNCHANGED vars PROVE EventsRight'
    BY <2>3 DEF vars, EventsRight, Right, FollowUp
  <2> QED BY <2>1, <2>2, <2>3
<1> QED BY <1>1, <1>2, IInvInit, IInvNext, PTL DEF Spec

\* An event that is attributed to a call carries the direction and the numbers
\* of the call that really was on its line, for every box without a line 0.
THEOREM AttributionHolds ==
  ASSUME 0 \notin Lines
  PROVE  Spec => []Attribution
<1>1. EventsRight => Attribution
  BY DEF EventsRight, Right, Attribution
<1> QED BY <1>1, EventsInvariant, PTL

\* The last steps of the newest call of a direction are always attributed.
THEOREM NewestAttributedHolds ==
  ASSUME 0 \notin Lines
  PROVE  Spec => []NewestAttributed
<1>1. EventsRight => NewestAttributed
  BY DEF EventsRight, Right, NewestAttributed
<1> QED BY <1>1, EventsInvariant, PTL

\* The end of the newest incoming call is reported as missed if it is.
THEOREM MissedReportedHolds ==
  ASSUME 0 \notin Lines
  PROVE  Spec => []MissedReported
<1>1. EventsRight => MissedReported
  BY DEF EventsRight, Right, MissedReported, Missed, FollowUp
<1> QED BY <1>1, EventsInvariant, PTL

\* Nothing else is reported as missed, if no line is cut and the box counts at
\* least a second for an answered call.
THEOREM MissedIsUnansweredHolds ==
  ASSUME 0 \notin Lines, 0 \notin Durations, "cut" \notin Faults
  PROVE  Spec => []MissedIsUnanswered
<1>1. EventsRight => MissedIsUnanswered
  BY DEF EventsRight, Right, MissedIsUnanswered, Missed, FollowUp
<1> QED BY <1>1, EventsInvariant, PTL
=============================================================================
