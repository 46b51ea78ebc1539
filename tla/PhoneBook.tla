----------------------------- MODULE PhoneBook -----------------------------
(***************************************************************************)
(* What l2f_LOOKUP_process promises of the names in an event: caller and   *)
(* called, where they have a number, each get a name that one of the       *)
(* sources has for that very number, or none.                              *)
(***************************************************************************)
CONSTANTS
  Requested,   \* the numbers of events
  NoNumber,    \* the number of a party that has none
  NoName,      \* the name of a party that has none
  Answers(_)   \* the names the sources have for a number

VARIABLES
  event,   \* the number of each party
  names,   \* the name of each party
  open     \* the parties that are yet to be looked up

Parties == {"caller", "called"}

Nobody == [p \in Parties |-> NoName]

Numbered(e) == {p \in Parties : e[p] # NoNumber}

Init ==
  /\ event = [p \in Parties |-> NoNumber]
  /\ names = Nobody
  /\ open = {}

Ask ==
  /\ open = {}
  /\ event' \in [Parties -> Requested \union {NoNumber}]
  /\ names' = Nobody
  /\ open' = Numbered(event')

Answer(p) ==
  /\ p \in open
  /\ open' = open \ {p}
  /\ \E n \in Answers(event[p]) \union {NoName} : names' = [names EXCEPT ![p] = n]
  /\ UNCHANGED event

Next == Ask \/ \E p \in Parties : Answer(p)

Spec == Init /\ [][Next]_<<event, names, open>>
=============================================================================
