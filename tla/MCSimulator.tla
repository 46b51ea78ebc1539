---------------------------- MODULE MCSimulator ----------------------------
(***************************************************************************)
(* Simulator with the numbers of MCFritzBoxFon: one remote party of the    *)
(* own city, one that withholds the number by "-".                         *)
(***************************************************************************)
EXTENDS Simulator

MCPrefixCity == <<"0", "6", "1">>
MCPrefixState == <<"+", "4", "9">>
MCSIP2 == <<"S", "I", "P", "2">>
MCRemotes == {<<"0", "6", "1", "5">>, <<"-">>, MCSIP2}
MCLocals == {<<"9">>}
MCTimes == {0, -5}
=============================================================================
