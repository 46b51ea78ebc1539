---------------------------- MODULE EventFormat ----------------------------
(***************************************************************************)
(* l2f_EVENT_format (event/event.c): the text of a notification or of a    *)
(* log line is made of a configured format and an event.  The format is    *)
(* read one character at a time into one static buffer of BufSize          *)
(* characters; every caller copies or prints the text before it asks for   *)
(* another one.  A format is given by the memory it lies in: it ends with  *)
(* the first NUL, and what lies behind that is read too, if the format     *)
(* ends with a "%" or "\".                                                 *)
(*                                                                         *)
(* Names of types, and the date and time that the C library writes, count  *)
(* as one character.                                                       *)
(***************************************************************************)
EXTENDS Text

CONSTANTS
  BufSize,        \* BUFSIZ
  NoNumberText    \* the configured nonumber, or what printf makes of NULL

ASSUME BufSizeAssumption == BufSize \in Nat \ {0, 1}

\* The end of a string.
NUL == "NUL"

ASSUME NoNumberAssumption == NoNumberText \in Seq(STRING \ {NUL})

\* l2f_EVENT_type2string
type2string == [UNKNOWN |-> "L2F_EVENT_TYPE_UNKNOWN", CALL |-> "L2F_EVENT_TYPE_CALL",
                RING |-> "L2F_EVENT_TYPE_RING", CONNECT |-> "L2F_EVENT_TYPE_CONNECT",
                DISCONNECT |-> "L2F_EVENT_TYPE_DISCONNECT"]

TypeNumber == [UNKNOWN |-> 0, CALL |-> 1, RING |-> 2, CONNECT |-> 3, DISCONNECT |-> 4]

TwoDigits(n) == IF n < 10 THEN <<"0">> \o Decimal[n] ELSE Decimal[n]

NumberText(number) == IF number = <<>> THEN NoNumberText ELSE number

\* The text of directive %d for the event e.
Directive(d, e) ==
  CASE d = "t" -> Decimal[TypeNumber[e.type]]
    [] d = "T" -> <<type2string[e.type]>>
    [] d = "p" -> Decimal[TypeNumber[e.pretype]]
    [] d = "P" -> <<type2string[e.pretype]>>
    [] d = "i" -> IF e.incoming THEN <<"1">> ELSE <<"0">>
    [] d = "I" -> IF e.incoming THEN <<"I", "N">> ELSE <<"O", "U", "T">>
    [] d = "l" -> Decimal[e.line]
    [] d = "d" -> Decimal[e.duration]
    [] d = "D" -> Decimal[e.duration \div 60] \o <<":">> \o TwoDigits(e.duration % 60)
    [] d = "c" -> NumberText(e.caller_number)
    [] d = "C" -> e.caller_name
    [] d = "a" -> NumberText(e.called_number)
    [] d = "A" -> e.called_name
    [] d = "H" -> TwoDigits(e.hour)
    [] d = "M" -> TwoDigits(e.min)
    [] d = "S" -> TwoDigits(e.sec)
    [] d = "w" -> <<e.time>>
    [] d = "W" -> <<e.datetime>>

Directives == {"t", "T", "p", "P", "i", "I", "l", "d", "D", "c", "C", "a", "A",
               "H", "M", "S", "w", "W"}

\* What a character stands for after a backslash.
Escape == [a |-> "\\a", n |-> "\n", r |-> "\r", t |-> "\t"]

-----------------------------------------------------------------------------
(* The loop.  text is what has been written to the buffer, t the place for *)
(* the next character, introducer the "%" or "\" before the present one.   *)
(* snprintf() may leave t behind the text, and behind the buffer.          *)

Start == [text |-> <<>>, t |-> 0, introducer |-> "", stopped |-> FALSE]

\* *t++ = c
PutChars(st, chars) ==
  [st EXCEPT !.text = @ \o chars, !.t = @ + Len(chars), !.introducer = ""]

\* Fault: t is moved by what was written.
SnprintfWritten(st, chars) ==
  LET len == BufSize - 1 - st.t
      written == SubSeq(chars, 1, IF Len(chars) < len THEN Len(chars) ELSE len - 1)
  IN  [st EXCEPT !.text = @ \o written, !.t = @ + Len(written), !.introducer = ""]

\* t += snprintf(t,len,...) writes less than len characters, and returns how
\* many there were to write.
Snprintf(st, chars) ==
  LET len == BufSize - 1 - st.t
  IN  [st EXCEPT !.text = @ \o SubSeq(chars, 1, IF Len(chars) < len THEN Len(chars) ELSE len - 1),
                 !.t = @ + Len(chars), !.introducer = ""]

Percent(st, c, e) ==
  CASE c \in Directives -> Snprintf(st, Directive(c, e))
    [] c = "%" -> PutChars(st, <<"%">>)
    [] OTHER -> PutChars(st, <<"%", c>>)

Backslash(st, c) ==
  CASE c = "\\" -> PutChars(st, <<"\\">>)
    [] c \in DOMAIN Escape -> PutChars(st, <<Escape[c]>>)
    [] OTHER -> PutChars(st, <<"\\", c>>)

\* One character of the memory.  The end of the format, and the space that is
\* left, are looked at before a plain character and before an introducer; a NUL
\* behind an introducer is one more character to put, and is passed over.
Step(st, c, e) ==
  CASE st.introducer = "%" -> Percent(st, c, e)
    [] st.introducer = "\\" -> Backslash(st, c)
    [] st.introducer = "" /\ (st.stopped \/ c = NUL \/ st.t >= BufSize - 1) ->
         [st EXCEPT !.stopped = TRUE]
    [] st.introducer = "" /\ ~st.stopped /\ c # NUL /\ st.t < BufSize - 1 ->
         IF c \in {"%", "\\"} THEN [st EXCEPT !.introducer = c] ELSE PutChars(st, <<c>>)

\* The state of the loop after each character.
States(chars, e) ==
  LET state[i \in 0 .. Len(chars)] == IF i = 0 THEN Start ELSE Step(state[i - 1], chars[i], e)
  IN  state

\* The characters before the first NUL.
EndsAt(chars, n) == (\A i \in 1 .. n : chars[i] # NUL) /\ (n = Len(chars) \/ chars[n + 1] = NUL)

CString(chars) == SubSeq(chars, 1, CHOOSE n \in 0 .. Len(chars) : EndsAt(chars, n))

\* The end of the loop.  Behind the given memory there is, sooner or later, a NUL
\* that ends the loop: two of them, as the first may be introduced.
End(memory, e) == States(memory \o <<NUL, NUL>>, e)[Len(memory) + 2]

\* The text of the event e, as its readers see it.
Format(memory, e) == CString(End(memory, e).text)

\* *t = '\0': the place in the buffer, or behind it, where the loop ends the text.
Terminated(memory, e) == End(memory, e).t

-----------------------------------------------------------------------------
(* What the text should be: what l2f_EVENT_format is said to write         *)
(* (event.c:58-84), with "%D duration of the call in MM:SS".               *)

Documented(d, e) ==
  IF d = "D" THEN TwoDigits(e.duration \div 60) \o <<":">> \o TwoDigits(e.duration % 60)
  ELSE Directive(d, e)

\* Where the introducers are: a "%" or "\" that is not introduced itself.
Introduces(format) ==
  LET intro[i \in 0 .. Len(format)] ==
        IF i = 0 THEN FALSE ELSE format[i] \in {"%", "\\"} /\ ~intro[i - 1]
  IN  intro

\* What the position i of a format adds to a text of any length.
Piece(format, i, e) ==
  CASE Introduces(format)[i] -> IF i = Len(format) THEN <<format[i]>> ELSE <<>>
    [] Introduces(format)[i - 1] ->
         IF format[i - 1] = "%"
         THEN CASE format[i] \in Directives -> Documented(format[i], e)
                [] format[i] = "%" -> <<"%">>
                [] OTHER -> <<"%", format[i]>>
         ELSE CASE format[i] = "\\" -> <<"\\">>
                [] format[i] \in DOMAIN Escape -> <<Escape[format[i]]>>
                [] OTHER -> <<"\\", format[i]>>
    [] OTHER -> <<format[i]>>

\* What the first i characters add.
Meanings(format, e) ==
  LET meaning[i \in 0 .. Len(format)] == IF i = 0 THEN <<>> ELSE meaning[i - 1] \o Piece(format, i, e)
  IN  meaning

Meaning(format, e) == Meanings(format, e)[Len(format)]

\* The code and its comment agree on the directives of the format: line 170 writes
\* the minutes of %D without a leading zero.
Agreed(format, e) ==
  \A i \in 1 .. Len(format) - 1 :
    Introduces(format)[i] /\ format[i] = "%" /\ format[i + 1] \in Directives =>
      Directive(format[i + 1], e) = Documented(format[i + 1], e)

\* A format and an event give the text that the comment of l2f_EVENT_format
\* describes, where that is what the code does for each directive.  A text that
\* leaves less than two characters of the buffer free may lose its end, but nothing
\* in between.  The NUL is written behind the text, and into the buffer, for a
\* format that does not end with an introducer and a text that leaves one character
\* free: for others event.c:288 may write anywhere behind the buffer.
FormattedAsMeant(memory, e) ==
  LET format == CString(memory)
      text == Format(memory, e)
      meaning == Meaning(format, e)
  IN  Agreed(format, e) =>
        /\ IsPrefix(text, meaning)
        /\ Len(meaning) <= BufSize - 2 => text = meaning
        /\ Len(meaning) <= BufSize - 1 /\ ~Introduces(format)[Len(format)] =>
             Terminated(memory, e) = Len(meaning)
=============================================================================
