------------------------------ MODULE MCInputs ------------------------------
(***************************************************************************)
(* The texts the program is given: configuration files line by line, and   *)
(* numbers, lines of parameters and formats one character at a time, each  *)
(* up to a bound and one at a time.  The prefixes are those of the sample  *)
(* configuration, prefix_city shortened.                                   *)
(***************************************************************************)
EXTENDS Configuration, EventFormat, PhoneNumber

CONSTANTS
  Characters,         \* of numbers: digits, "+", and one that is neither
  FormatCharacters,   \* of formats, and NUL
  MaxLength,          \* bound on the length of a number
  MaxFormat           \* bound on the length of a format

VARIABLES
  number,   \* a number, or a line of parameters with "-" between them
  memory    \* a format, its NUL and what lies behind it

inputs == <<vars, number, memory>>

MCPrefixCity == <<"0", "6", "1">>
MCPrefixState == <<"+", "4", "9">>
MCNoNumber == <<"?">>
MCFormatCharacters == {"%", "\\", "D", "a", "t", "x", NUL}

MCBuilt == Kinds \ {"notify:irc"}
MCAtoi == [v \in Values |-> "0"]

\* A missed call whose caller withholds the number, and a call of 665 seconds.
MCEvents ==
  {[type |-> "DISCONNECT", pretype |-> "RING", incoming |-> TRUE, line |-> 1, duration |-> 0,
    caller_number |-> <<>>, caller_name |-> <<>>,
    called_number |-> <<"+", "4", "9">>, called_name |-> <<"m", "e">>,
    hour |-> 7, min |-> 5, sec |-> 10, time |-> "time", datetime |-> "datetime"],
   [type |-> "DISCONNECT", pretype |-> "CALL", incoming |-> FALSE, line |-> 2, duration |-> 665,
    caller_number |-> <<"+", "4", "9">>, caller_name |-> <<"m", "e">>,
    called_number |-> <<"+", "1">>, called_name |-> <<>>,
    hour |-> 17, min |-> 0, sec |-> 0, time |-> "time", datetime |-> "datetime"]}

MCInit == Init /\ number = <<>> /\ memory = <<>>

ReadFile == Next /\ number = <<>> /\ memory = <<>> /\ UNCHANGED <<number, memory>>

NoFile == status = "reading" /\ lines = 0

Dial(c) ==
  /\ NoFile /\ memory = <<>> /\ Len(number) < MaxLength
  /\ number' = Append(number, c)
  /\ UNCHANGED <<vars, memory>>

Write(c) ==
  /\ NoFile /\ number = <<>> /\ Len(memory) < MaxFormat
  /\ memory' = Append(memory, c)
  /\ UNCHANGED <<vars, number>>

MCNext ==
  \/ ReadFile
  \/ \E c \in Characters : Dial(c)
  \/ \E c \in FormatCharacters : Write(c)

MCSpec == MCInit /\ [][MCNext]_inputs

-----------------------------------------------------------------------------
\* What is left of a number without the zeros of a national or an
\* international prefix.
Significant ==
  LET d == Kept(number)
      zero(i) == i <= Len(d) /\ d[i] = "0"
  IN  CASE zero(1) /\ zero(2) -> SubSeq(d, 3, Len(d))
        [] zero(1) /\ ~zero(2) -> Tail(d)
        [] OTHER -> d

\* The numbers of an event are normalized, and are normalized again when they
\* are looked up or compared with the configuration (lookup_mysql.c:84, 161,
\* notify_mail.c:113): that must not change them any more.
Idempotent == Normalize(Normalize(number)) = Normalize(number)

\* The four ways to write the number of a subscriber of the own city - as it
\* is, with the city prefix, with the state prefix, with 00 and the country -
\* all match (listen2fritz.conf:67-71).
OneSubscriber ==
  number # <<>> /\ number[1] \in Digits \ {"0"} =>
    LET city == PrefixCity \o number
        state == PrefixState \o Tail(city)
        abroad == <<"0", "0">> \o Tail(state)
    IN  Match(number, city) /\ Match(city, state) /\ Match(state, abroad)

\* No digit but the zeros of a prefix is dropped: "if a number doesn't start
\* with +, we will replace a leading 0 by this prefix"
\* (listen2fritz.conf:69-71).
NoDigitLost == IsSuffix(Significant, Normalize(number))

\* Texts put together, each behind a separator.
Joined(sep, texts) ==
  LET joined[k \in 0 .. Len(texts)] ==
        IF k = 0 THEN <<>> ELSE joined[k - 1] \o (<<sep>> \o texts[k])
  IN  joined

\* Every parameter of a line is at its place, the empty ones too, on which the
\* numbers of params[] in parse_input rely: put together again, they are the
\* line, unless the first is empty (util.c:132-138).
ParametersInPlace ==
  LET params == Split("-", number)
  IN  IF params = <<>> THEN number = <<>> \/ number[1] = "-"
      ELSE Joined("-", params)[Len(params)] = <<"-">> \o number

\* Every text is formatted as its format says, whatever precedes a directive.
FormatsMeant == \A e \in MCEvents : FormattedAsMeant(memory, e)
=============================================================================
