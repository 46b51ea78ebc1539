---------------------------- MODULE PhoneNumber ----------------------------
(***************************************************************************)
(* l2f_PHONENUMBER_normalize and l2f_PHONENUMBER_match                     *)
(* (phonenumber/phonenumber.c) as operators on numbers.  A number is a     *)
(* sequence of one-character strings; everything that is neither a digit   *)
(* nor "+" (blanks, dashes, brackets) is any other character.              *)
(*                                                                         *)
(* The ten rotating result buffers are not modelled here: the operators    *)
(* stand for the text a caller reads before it makes a tenth further call. *)
(*                                                                         *)
(* Here and in the other modules, an operator whose comment begins with    *)
(* "Fault:" is a wrong variant of the definition after it, put in its      *)
(* place to see that a property notices.                                   *)
(***************************************************************************)
EXTENDS Naturals, Sequences, Subsequences

CONSTANTS
  PrefixCity,   \* configured prefix_city, <<>> when unset or empty
  PrefixState   \* configured prefix_state, <<>> when unset or empty

Digits == {"0", "1", "2", "3", "4", "5", "6", "7", "8", "9"}

ASSUME PrefixAssumption ==
  /\ PrefixCity \in Seq(Digits)
  /\ PrefixState \in Seq(Digits \union {"+"})

\* The number of a caller that withholds it, and of a zeroed event.
NoNumber == <<>>

\* Only digits are kept, and a "+" where it is the first character.
Kept(number) ==
  Subsequence(number, {i \in DOMAIN number : number[i] \in Digits \/ (i = 1 /\ number[i] = "+")})

\* Fault: the first digit is not looked at.
WithCityAlways(digits) == PrefixCity \o digits

\* The city prefix goes in front of what does not start with "0".
WithCity(digits) ==
  IF digits[1] # "0" THEN PrefixCity \o digits ELSE digits

\* Fault: one character too many is skipped after 00.
WithStateSkipping(digits) ==
  IF Len(digits) > 1 /\ digits[2] = "0"
  THEN <<"+">> \o SubSeq(digits, 4, Len(digits))
  ELSE IF PrefixState # <<>> THEN PrefixState \o Tail(digits) ELSE digits

\* Fault: the 00 of an international number is dropped, not replaced.
WithStateDropping(digits) ==
  IF Len(digits) > 1 /\ digits[2] = "0"
  THEN SubSeq(digits, 3, Len(digits))
  ELSE IF PrefixState # <<>> THEN PrefixState \o Tail(digits) ELSE digits

\* The second character alone decides between an international number (two
\* characters replaced by "+") and a national one (one replaced by the state
\* prefix); the first is never looked at.
WithState(digits) ==
  IF Len(digits) > 1 /\ digits[2] = "0"
  THEN <<"+">> \o SubSeq(digits, 3, Len(digits))
  ELSE IF PrefixState # <<>> THEN PrefixState \o Tail(digits) ELSE digits

Normalize(number) ==
  LET digits == Kept(number)
  IN  IF digits = <<>> \/ digits[1] = "+" THEN digits
      ELSE WithState(WithCity(digits))

Match(numberA, numberB) == Normalize(numberA) = Normalize(numberB)
=============================================================================
