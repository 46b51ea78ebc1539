------------------------------ MODULE MCNotify ------------------------------
(***************************************************************************)
(* Notify with a Dreambox, an IRC server, three records of mail of which   *)
(* one is filtered out, a script for missed calls, two callback servers of *)
(* which one is not complete, and the three logs.  Events are a ring and a *)
(* missed call.                                                            *)
(***************************************************************************)
EXTENDS Notify

MCPrefix == <<>>
Friend == <<"0", "1">>
Me == <<"7">>

Ev(type, pretype) ==
  [type |-> type, pretype |-> pretype, duration |-> 0, caller |-> Friend, called |-> Me]
MCEvents == {Ev("RING", "UNKNOWN"), Ev("DISCONNECT", "RING")}

Record(kind, call, caller) ==
  [kind |-> kind, complete |-> TRUE, password |-> TRUE, call |-> call, caller |-> caller, called |-> AnyNumber]
R(kind) == Record(kind, "ring", AnyNumber)

MCSinks ==
  << R("dreambox"), R("irc"), Record("mail", "", Me), R("mail"), R("mail"),
     Record("script", "missed", <<"0", "-", "1">>),
     R("callback"), [R("callback") EXCEPT !.complete = FALSE], R("file"), R("mysql"), R("syslog") >>
=============================================================================
