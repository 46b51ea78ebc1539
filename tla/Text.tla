-------------------------------- MODULE Text --------------------------------
(***************************************************************************)
(* The text conversions of util/util.c as operators on sequences of        *)
(* one-character strings.                                                  *)
(***************************************************************************)
EXTENDS Integers, Sequences, SequencesExt

Blanks == {" ", "\t", "\n"}

\* util_strdark: white space at both ends is dropped.  In a text of nothing
\* else the code also reads the character before the text; it is taken not to
\* be white.
Strdark(text) ==
  LET black == {i \in DOMAIN text : text[i] \notin Blanks}
  IN  IF black = {} THEN <<>> ELSE SubSeq(text, Min(black), Max(black))

\* Fault: consecutive separators count as one.
ParametersCollapsing(sep, text) ==
  LET params[i \in 0 .. Len(text)] ==
        IF i = 0 THEN << <<>> >>
        ELSE IF text[i] # sep
             THEN [params[i - 1] EXCEPT ![Len(params[i - 1])] = Append(@, text[i])]
        ELSE IF Last(params[i - 1]) = <<>> THEN params[i - 1] ELSE Append(params[i - 1], <<>>)
  IN  params

\* The parameters in the first i characters: a separator ends one and begins the
\* next, any other character is added to the last.
Parameters(sep, text) ==
  LET params[i \in 0 .. Len(text)] ==
        IF i = 0 THEN << <<>> >>
        ELSE IF text[i] = sep THEN Append(params[i - 1], <<>>)
        ELSE [params[i - 1] EXCEPT ![Len(params[i - 1])] = Append(@, text[i])]
  IN  params

\* util_splitinput: nothing is returned where the first parameter is empty.
Split(sep, text) ==
  LET params == Parameters(sep, text)[Len(text)]
  IN  IF params[1] = <<>> THEN <<>> ELSE params

DigitChars == <<"0", "1", "2", "3", "4", "5", "6", "7", "8", "9">>

\* util_ltoa, and %d of printf, for what is not negative.
Decimal[n \in Nat] ==
  IF n < 10 THEN <<DigitChars[n + 1]>>
  ELSE Append(Decimal[n \div 10], DigitChars[(n % 10) + 1])
=============================================================================
