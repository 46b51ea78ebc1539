---------------------------- MODULE Subsequences ----------------------------
(***************************************************************************)
(* The loop that copies some of the characters of a text to another one:   *)
(* chosen[i] is what has been copied after the first i of them.            *)
(***************************************************************************)
EXTENDS Naturals, Sequences

Chosen(s, positions) ==
  LET chosen[i \in 0 .. Len(s)] ==
        IF i = 0 THEN <<>>
        ELSE IF i \in positions THEN Append(chosen[i - 1], s[i]) ELSE chosen[i - 1]
  IN  chosen

\* The elements of s at the positions of a set, in their order.
Subsequence(s, positions) == Chosen(s, positions)[Len(s)]
=============================================================================
