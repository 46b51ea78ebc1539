------------------------------ MODULE MCLookup ------------------------------
(***************************************************************************)
(* Lookup with two directories, two tables and two scripts.  Events have   *)
(* three numbers: two that end with the same digits, of which no source    *)
(* has the second, and a short one.  Entries write numbers with and        *)
(* without prefix, in second attributes and second values; the first table *)
(* holds five numbers of others that contain the digits of the first one   *)
(* in their order, so that normnumber is overwritten.                      *)
(***************************************************************************)
EXTENDS Lookup

MCPrefixCity == <<"0", "6", "1">>
MCPrefixState == <<"+", "4", "9">>

Number(s) == MCPrefixState \o s
First == Number(<<"6", "1", "5", "0", "7", "7">>)
Short == Number(<<"6", "1", "1", "1", "0">>)
Second == Number(<<"3", "0", "5", "0", "7", "7">>)
MCRequested == {First, Second, Short}

Local == <<"5", "0", "-", "7", "7">>
Abroad == <<"0", "0">> \o Tail(First)
Other(d) == <<"0", "3", "0", "5", "0", "7", "7", d>>

MCDirectories ==
  << {[name |-> "Joe", phones |-> << <<Other("9"), Local>> >>]},
     {[name |-> "Ann", phones |-> << <<Other("8")>>, <<Abroad>> >>]} >>

MCTables ==
  << {[name |-> "Joe", number |-> Other(d)] : d \in {"1", "2", "3", "4", "5"}}
       \union {[name |-> "Eve", number |-> <<"1", "1", "0">>]},
     {[name |-> "Carl", number |-> Local]} >>

MCScripts ==
  << [n \in MCRequested |-> NoName], [n \in MCRequested |-> IF n = Second THEN NoName ELSE "Dora"] >>
=============================================================================
