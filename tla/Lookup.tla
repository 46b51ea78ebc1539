------------------------------- MODULE Lookup -------------------------------
(***************************************************************************)
(* The lookup of names: l2f_LOOKUP_process and lookup() of lookup/lookup.c *)
(* with the three sources lookup_ldap.c, lookup_mysql.c, lookup_script.c.  *)
(* A number is looked up in every record of a source, source by source,    *)
(* until a name is found; that name is then stored in the MySQL tables, so *)
(* that it is found there when the other sources fail.                     *)
(*                                                                         *)
(* The servers and scripts are external: they answer or fail at each       *)
(* request, and return their entries in any order.                         *)
(*                                                                         *)
(* normnumber points to one of the ten rotating buffers of                 *)
(* l2f_PHONENUMBER_normalize.  Each l2f_PHONENUMBER_match takes two, so    *)
(* the tenth later call, the second one of the fifth match, overwrites it. *)
(* Which of the two numbers that call normalizes depends on the order in   *)
(* which the compiler evaluates the arguments of strcmp(): GCC takes the   *)
(* second one first, and so leaves normnumber what it was.                 *)
(***************************************************************************)
EXTENDS Naturals, Sequences, FiniteSets, PhoneNumber

CONSTANTS
  Requested,    \* the numbers of events
  Names,        \* the names of parties
  NoName,
  Directories,  \* LDAP: per record a set of entries, a name and per attribute its values
  Tables,       \* MySQL: per record the set of rows to begin with
  Scripts,      \* per record the name printed for each number
  RightFirst    \* the compiler evaluates the second argument first

ASSUME RequestedAssumption ==
  Requested \subseteq Seq(STRING) /\ NoNumber \notin Requested /\ \A q \in Requested : Normalize(q) = q
ASSUME NamesAssumption == NoName \notin Names
ASSUME SourcesAssumption ==
  /\ Directories \in Seq(SUBSET [name : Names, phones : Seq(Seq(Seq(STRING)) \ {<<>>})])
  /\ Tables \in Seq(SUBSET [name : Names, number : Seq(STRING)])
  /\ Scripts \in Seq([Requested -> Names \union {NoName}])
ASSUME RightFirstAssumption == RightFirst \in BOOLEAN

VARIABLES
  at,          \* "idle", the source that is asked, or "update"
  record,      \* index of the configuration record
  event,       \* the numbers of the two parties
  names,       \* the names of the two parties
  party,       \* whose number is looked up
  normnumber,  \* what the buffer now holds
  matches,     \* calls of l2f_PHONENUMBER_match since normnumber was set
  name,        \* the name found, or NoName
  tables,      \* the MySQL tables
  failed,      \* history: the sources and records that failed in this lookup
  stored       \* history: per table the numbers that were stored in it

vars == <<at, record, event, names, party, normnumber, matches, name, tables, failed, stored>>

Parties == {"caller", "called"}
Sources == {"ldap", "mysql", "script"}
number == event[party]

-----------------------------------------------------------------------------
(* Filters *)

FILTER_MAX_DIGITS == 4

\* Fault: the first digits are taken.
PatternOfFirst(n) == SubSeq(n, 1, FILTER_MAX_DIGITS)

\* The characters that a number has to contain in this order.
Pattern(n) ==
  SubSeq(n, IF Len(n) > FILTER_MAX_DIGITS THEN Len(n) - FILTER_MAX_DIGITS + 1 ELSE 1, Len(n))

\* LIKE '%A%B%C%D%', and (attribute=*A*B*C*D*) of LDAP.  Seen counts the
\* characters of the pattern that have been seen after the first i of n.
Seen(n, pattern) ==
  LET seen[i \in 0 .. Len(n)] ==
        IF i = 0 THEN 0
        ELSE LET k == seen[i - 1]
             IN  IF k < Len(pattern) /\ n[i] = pattern[k + 1] THEN k + 1 ELSE k
  IN  seen

Like(n, pattern) == Seen(n, pattern)[Len(n)] = Len(pattern)

\* What the servers return.  An attribute has one or several values.
Entries(d) ==
  {e \in d : \E a \in DOMAIN e.phones : \E v \in DOMAIN e.phones[a] :
               Like(e.phones[a][v], Pattern(normnumber))}

Rows(t) == {r \in t : Like(r.number, Pattern(normnumber))}

\* Only the first value of an attribute is compared.
EntryMatches(e, n) == \E a \in DOMAIN e.phones : Match(n, e.phones[a][1])

RowMatches(r, n) == Match(n, r.number)

-----------------------------------------------------------------------------
Init ==
  /\ at = "idle"
  /\ record = 1
  /\ event = [p \in Parties |-> NoNumber]
  /\ names = [p \in Parties |-> NoName]
  /\ party = "caller"
  /\ normnumber = NoNumber
  /\ matches = 0
  /\ name = NoName
  /\ tables = Tables
  /\ failed = {}
  /\ stored = [i \in DOMAIN Tables |-> {}]

\* A source is called with the number n: it normalizes it and clears its name.
\* So does l2f_LOOKUP_MYSQL_update ("update"); "idle" is the return to the caller.
Call(source, n) ==
  /\ at' = source
  /\ record' = 1
  /\ normnumber' = Normalize(n)
  /\ matches' = 0
  /\ name' = NoName

\* lookup() of a party of the event e.
Begin(p, e) ==
  /\ party' = p
  /\ failed' = {}
  /\ Call("ldap", e[p])

\* l2f_LOOKUP_process is called with an event.
Process(e) ==
  /\ at = "idle"
  /\ event' = e
  /\ names' = [p \in Parties |-> NoName]
  /\ CASE e["caller"] # NoNumber -> Begin("caller", e)
       [] e["caller"] = NoNumber /\ e["called"] # NoNumber -> Begin("called", e)
       [] OTHER -> UNCHANGED <<at, record, party, normnumber, matches, name, failed>>
  /\ UNCHANGED <<tables, stored>>

\* A source has found nothing.
After == [ldap |-> "mysql", mysql |-> "script", script |-> "update"]

Leave ==
  /\ Call(After[at], number)
  /\ UNCHANGED names

\* Fault: the name found last stays in the buffer of the source.
FoundLater(n) ==
  /\ at' = "update" /\ record' = 1
  /\ name' = n
  /\ normnumber' = Normalize(number) /\ matches' = 0
  /\ names' = [p \in Parties |-> IF p = party \/ names[p] # NoName THEN n ELSE NoName]

\* A source has found a name: it is copied to the event.
Found(n) ==
  /\ at' = "update" /\ record' = 1
  /\ normnumber' = Normalize(number) /\ matches' = 0
  /\ name' = n
  /\ names' = [names EXCEPT ![party] = n]

\* Fault: the fifth match overwrites normnumber with what it is matched with.
VainOverwriting(k, ns) ==
  /\ record' = record + 1
  /\ matches' = matches + k
  /\ IF matches' \div 5 > matches \div 5
     THEN \E n \in ns : normnumber' = Normalize(n)
     ELSE UNCHANGED normnumber
  /\ UNCHANGED <<at, name, names>>

\* k matches in vain against the numbers ns; then the next record is asked.
Vain(k, ns) ==
  /\ record' = record + 1
  /\ matches' = matches + k
  /\ IF matches' \div 5 > matches \div 5 /\ ~RightFirst
     THEN \E n \in ns : normnumber' = Normalize(n)
     ELSE UNCHANGED normnumber
  /\ UNCHANGED <<at, name, names>>

Fails == failed' = failed \union {<<at, record>>}

Constant == UNCHANGED <<event, party, tables, stored>>

\* The list of records has come to its end.
Exhausted ==
  /\ \/ at = "ldap" /\ record > Len(Directories)
     \/ at = "mysql" /\ record > Len(Tables)
     \/ at = "script" /\ record > Len(Scripts)
  /\ Leave
  /\ Constant /\ UNCHANGED failed

-----------------------------------------------------------------------------
(* l2f_LOOKUP_LDAP_process *)

\* A record that is incomplete, a bind or a search that returns a negative result:
\* the remaining records are not asked.
LdapFails ==
  /\ at = "ldap" /\ record <= Len(Directories)
  /\ Leave
  /\ Fails /\ Constant

LdapFinds ==
  /\ at = "ldap" /\ record <= Len(Directories)
  /\ \E e \in Entries(Directories[record]) : EntryMatches(e, number) /\ Found(e.name)
  /\ Constant /\ UNCHANGED failed

\* None of the entries es, which the server has returned, matches.
LdapInVain(es) ==
  LET firsts == UNION {{<<e, a>> : a \in DOMAIN e.phones} : e \in es}
  IN  /\ \A e \in es : ~EntryMatches(e, number)
      /\ Vain(Cardinality(firsts), {f[1].phones[f[2]][1] : f \in firsts})

LdapFindsNothing ==
  /\ at = "ldap" /\ record <= Len(Directories)
  /\ LdapInVain(Entries(Directories[record]))
  /\ Constant /\ UNCHANGED failed

\* A bind or a search that returns a positive result, as for a wrong base or a
\* limit that is exceeded: it is not seen as a failure.  What came of the entries
\* is gone through, and the next record is asked.
LdapFailsUnseen ==
  /\ at = "ldap" /\ record <= Len(Directories)
  /\ \E es \in SUBSET Entries(Directories[record]) : LdapInVain(es)
  /\ Fails /\ Constant

-----------------------------------------------------------------------------
(* l2f_LOOKUP_MYSQL_process *)

\* A record that is incomplete, a server that cannot be reached, a query that
\* fails: the next record is asked.
MysqlFails ==
  /\ at = "mysql" /\ record <= Len(Tables)
  /\ Vain(0, {})
  /\ Fails /\ Constant

MysqlFinds ==
  /\ at = "mysql" /\ record <= Len(Tables)
  /\ \E r \in Rows(tables[record]) : RowMatches(r, number) /\ Found(r.name)
  /\ Constant /\ UNCHANGED failed

MysqlFindsNothing ==
  /\ at = "mysql" /\ record <= Len(Tables)
  /\ LET rs == Rows(tables[record])
     IN  /\ \A r \in rs : ~RowMatches(r, number)
         /\ Vain(Cardinality(rs), {r.number : r \in rs})
  /\ Constant /\ UNCHANGED failed

-----------------------------------------------------------------------------
(* l2f_LOOKUP_SCRIPT_process *)

ScriptFails ==
  /\ at = "script" /\ record <= Len(Scripts)
  /\ Vain(0, {})
  /\ Fails /\ Constant

ScriptAnswers ==
  /\ at = "script" /\ record <= Len(Scripts)
  /\ LET n == Scripts[record][normnumber]
     IN  IF n # NoName THEN Found(n) ELSE Vain(0, {})
  /\ Constant /\ UNCHANGED failed

-----------------------------------------------------------------------------
(* l2f_LOOKUP_MYSQL_update *)

\* Fault: the number is stored without its +.
InsertIgnoreDigits(t, n, s) == t \union {[name |-> s, number |-> Tail(n)]}

\* INSERT IGNORE: the number is the primary key.
InsertIgnore(t, n, s) ==
  IF \E r \in t : r.number = n THEN t ELSE t \union {[name |-> s, number |-> n]}

UpdateRecord ==
  /\ at = "update" /\ name # NoName /\ record <= Len(Tables)
  /\ record' = record + 1
  /\ \/ /\ tables' = [tables EXCEPT ![record] = InsertIgnore(@, number, name)]
        /\ stored' = [stored EXCEPT ![record] = @ \union {number}]
     \/ UNCHANGED <<tables, stored>>
  /\ UNCHANGED <<at, event, names, party, normnumber, matches, name, failed>>

\* Fault: the called party follows whoever was looked up.
UpdateEndsAlways ==
  /\ at = "update" /\ (name = NoName \/ record > Len(Tables))
  /\ IF event["called"] # NoNumber
     THEN Begin("called", event)
     ELSE Call("idle", NoNumber) /\ failed' = {} /\ UNCHANGED party
  /\ UNCHANGED <<event, names, tables, stored>>

\* lookup() returns: the called party follows the caller.
UpdateEnds ==
  /\ at = "update" /\ (name = NoName \/ record > Len(Tables))
  /\ IF party = "caller" /\ event["called"] # NoNumber
     THEN Begin("called", event)
     ELSE Call("idle", NoNumber) /\ failed' = {} /\ UNCHANGED party
  /\ UNCHANGED <<event, names, tables, stored>>

-----------------------------------------------------------------------------
Next ==
  \/ \E e \in [Parties -> Requested \union {NoNumber}] : Process(e)
  \/ LdapFails \/ LdapFailsUnseen \/ LdapFinds \/ LdapFindsNothing
  \/ MysqlFails \/ MysqlFinds \/ MysqlFindsNothing
  \/ ScriptFails \/ ScriptAnswers
  \/ Exhausted
  \/ UpdateRecord \/ UpdateEnds

\* The daemon goes on where it waits for nobody.  No server and no script has to
\* answer, nor to fail: none of these requests has a timeout.
Spec == Init /\ [][Next]_vars /\ WF_vars(Exhausted \/ UpdateEnds)

-----------------------------------------------------------------------------
(* Properties *)

\* The names that the sources had for a number from the beginning.
Answers(n) ==
  {e.name : e \in {x \in UNION {Directories[i] : i \in DOMAIN Directories} : EntryMatches(x, n)}}
  \union {r.name : r \in {x \in UNION {Tables[i] : i \in DOMAIN Tables} : RowMatches(x, n)}}
  \union ({Scripts[i][n] : i \in DOMAIN Scripts} \ {NoName})

\* The parties whose name is not yet in the event.
Open ==
  {p \in Parties : /\ event[p] # NoNumber
                   /\ \/ p = party /\ at \in Sources
                      \/ p = "called" /\ party = "caller" /\ at # "idle"}

\* Through tables, buffers and any failure, each party is given a name that a
\* source had for its number, or none (lookup.c:58-68, 84-94).
PB == INSTANCE PhoneBook WITH open <- Open
NamesAreTrue == PB!Spec

\* The filter passes a number only if its text holds the last characters of
\* its normal form: not a short one, whose prefix is left out.
Written(n) == Pattern(Normalize(n)) = Pattern(Kept(n))

\* Where no name is found, every source that answered has none.  Two limits
\* of the code are conditions here: an LDAP record that fails may hide the later
\* ones (lookup_ldap.c:114, 134, 168), and the filter hides short numbers
\* (lookup_mysql.c:133-135).
NothingMissed ==
  at = "update" /\ name = NoName =>
    /\ \A i \in DOMAIN Directories : (\A j \in 1 .. i : <<"ldap", j>> \notin failed) =>
         \A e \in Directories[i] : \A a \in DOMAIN e.phones :
           Written(e.phones[a][1]) => ~Match(number, e.phones[a][1])
    /\ \A i \in DOMAIN Tables : <<"mysql", i>> \notin failed =>
         \A r \in tables[i] : Written(r.number) => ~RowMatches(r, number)
    /\ \A i \in DOMAIN Scripts : <<"script", i>> \notin failed =>
         Scripts[i][number] = NoName

\* A number that was ever stored in a table is found whenever that table
\* answers, whatever other source fails.
Remembered ==
  at = "update" /\ name = NoName =>
    \A i \in DOMAIN Tables : number \in stored[i] => <<"mysql", i>> \in failed

\* Where a request may wait for ever: that of one record of a source, or of the
\* update of one table.
Requests == {<<s, i>> : s \in Sources \union {"update"},
                        i \in 1 .. Len(Directories) + Len(Tables) + Len(Scripts)}

\* Whatever fails, and whatever was found and stored before, a lookup returns to
\* the listener, unless one server or script never answers one request
\* (lookup_ldap.c:131, lookup_mysql.c:124, lookup_script.c:125): the loops over
\* sources, records and parties do not go on among themselves.
LookupReturns ==
  \/ []<>(at = "idle")
  \/ \E q \in Requests : <>[](at = q[1] /\ record = q[2])
=============================================================================
