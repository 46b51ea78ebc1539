--------------------------- MODULE MCFritzBoxFon ---------------------------
(***************************************************************************)
(* FritzBoxFon with the numbers of the sample configuration, shortened:    *)
(* prefix_city 061, prefix_state +49.                                      *)
(***************************************************************************)
EXTENDS FritzBoxFon

MCPrefixCity == <<"0", "6", "1">>
MCPrefixState == <<"+", "4", "9">>

\* One subscriber of the own city.
MCRemotes == {<<"0", "6", "1", "5">>}
\* A caller who withholds the number.
MCRemotesWithheld == {<<"0", "3", "0">>, NoNumber}
MCLocals == {<<"9">>}
=============================================================================
