---------------------------- MODULE LookupProofs ----------------------------
(***************************************************************************)
(* Lookup implements PhoneBook, for any sources, numbers and failures,     *)
(* where the compiler evaluates the second argument first.  A name found   *)
(* in a table may have been put there by an earlier lookup: that it was    *)
(* found for this very number is what Stored says.                         *)
(***************************************************************************)
EXTENDS Lookup, Induction, TLAPS

\* Where the program is, for whom it looks, and with what.
Asking ==
  /\ at \in Sources \union {"idle", "update"}
  /\ record \in Nat \ {0}
  /\ party \in Parties
  /\ event \in [Parties -> Requested \union {NoNumber}]
  /\ names = [p \in Parties |-> names[p]]
  /\ at # "idle" => number # NoNumber
  /\ at \in Sources => normnumber = number

\* What a table holds was there from the beginning, or is a name that a source
\* had for the number with which it is stored.
Stored ==
  /\ tables = [i \in DOMAIN Tables |-> tables[i]]
  /\ \A i \in DOMAIN Tables : \A r \in tables[i] :
       r \in Tables[i] \/ (r.number \in Requested /\ r.name \in Answers(r.number))

NameFound == at = "update" /\ name # NoName => name \in Answers(number)

NoNameYet == \A p \in Open : names[p] = NoName

Inv == Asking /\ Stored /\ NameFound /\ NoNameYet

-----------------------------------------------------------------------------
(* The sources *)

LEMMA RequestedNumbers ==
  /\ NoNumber \notin Requested
  /\ \A q \in Requested : Normalize(q) = q
  /\ \A q, r \in Requested : Match(q, r) => q = r
  BY RequestedAssumption DEF Match

LEMMA Records ==
  /\ Len(Directories) \in Nat /\ DOMAIN Directories = 1 .. Len(Directories)
  /\ Len(Tables) \in Nat /\ DOMAIN Tables = 1 .. Len(Tables)
  /\ Len(Scripts) \in Nat /\ DOMAIN Scripts = 1 .. Len(Scripts)
  BY SourcesAssumption

LEMMA LdapAnswers ==
  ASSUME NEW n, NEW i \in DOMAIN Directories, NEW e \in Directories[i], EntryMatches(e, n)
  PROVE  e.name \in Answers(n)
  BY DEF Answers

LEMMA MysqlAnswers ==
  ASSUME NEW n, NEW i \in DOMAIN Tables, NEW r \in Tables[i], RowMatches(r, n)
  PROVE  r.name \in Answers(n)
  BY DEF Answers

LEMMA ScriptHasAnswer ==
  ASSUME NEW n, NEW i \in DOMAIN Scripts, Scripts[i][n] # NoName
  PROVE  Scripts[i][n] \in Answers(n)
  BY DEF Answers

\* A row that matches, old or stored since, has a name for the number.
LEMMA RowAnswers ==
  ASSUME Stored, NEW n \in Requested, NEW i \in DOMAIN Tables, NEW r \in tables[i], RowMatches(r, n)
  PROVE  r.name \in Answers(n)
<1>1. CASE r \in Tables[i]
  BY <1>1, MysqlAnswers
<1>2. CASE r.number \in Requested /\ r.name \in Answers(r.number)
  <2>1. r.number = n
    BY <1>2, RequestedNumbers DEF RowMatches
  <2> QED
    BY <1>2, <2>1
<1> QED
  BY <1>1, <1>2 DEF Stored

-----------------------------------------------------------------------------
(* The ways to go on: what each does to the invariant and to PhoneBook *)

LEMMA OpenParties == Open \subseteq Parties
  BY DEF Open

\* A name is found.
LEMMA FoundStep ==
  ASSUME Inv, at \in Sources, NEW n \in Answers(number), Found(n), Constant
  PROVE  Inv' /\ PB!Answer(party)
<1>1. Asking /\ Stored /\ NoNameYet
  BY DEF Inv
<1>2. /\ at' = "update" /\ record' = 1 /\ name' = n
      /\ names' = [names EXCEPT ![party] = n]
      /\ UNCHANGED <<event, party, tables, stored>>
  BY DEF Found, Constant
<1>3. number' = number
  BY <1>2 DEF number
<1>4. Asking'
  BY <1>1, <1>2, <1>3 DEF Asking, Sources
<1>5. Stored' /\ NameFound'
  BY <1>1, <1>2, <1>3 DEF Stored, NameFound, Answers, number
<1>6. party \in Open /\ Open' = Open \ {party}
  BY <1>1, <1>2, <1>3 DEF Open, Asking, Parties, Sources, number
<1>7. NoNameYet'
  BY <1>1, <1>2, <1>6 DEF NoNameYet, Asking, Open
<1>8. PB!Answer(party)
  BY <1>2, <1>6 DEF PB!Answer, number
<1> QED
  BY <1>4, <1>5, <1>7, <1>8 DEF Inv

\* The next source is asked; after the last the party is left without a name.
LEMMA LeaveStep ==
  ASSUME Inv, at \in Sources, Leave, Constant
  PROVE  Inv' /\ (PB!Answer(party) \/ UNCHANGED <<event, names, Open>>)
<1>1. Asking /\ Stored /\ NoNameYet
  BY DEF Inv
<1>2. /\ at' = After[at] /\ record' = 1 /\ name' = NoName /\ normnumber' = Normalize(number)
      /\ UNCHANGED <<event, names, party, tables, stored>>
  BY DEF Leave, Call, Constant
<1>3. number' = number /\ number \in Requested
  BY <1>1, <1>2 DEF number, Asking, Sources
<1>4. at' \in {"mysql", "script", "update"} /\ (at' = "update" <=> at = "script")
  BY <1>2 DEF After, Sources
<1>5. Asking'
  BY <1>1, <1>2, <1>3, <1>4, RequestedNumbers DEF Asking, Sources, number
<1>6. Stored' /\ NameFound'
  BY <1>1, <1>2 DEF Stored, NameFound, Answers
<1>7. Open' = IF at = "script" THEN Open \ {party} ELSE Open
  BY <1>1, <1>2, <1>4 DEF Open, Asking, Parties, Sources
<1>8. NoNameYet'
  BY <1>1, <1>2, <1>7 DEF NoNameYet
<1>9. party \in Open
  <2>1. number # NoNumber
    BY <1>1 DEF Asking, Sources
  <2> QED
    BY <1>1, <2>1 DEF Open, Asking, number
<1>10. CASE at = "script"
  <2>1. names[party] = NoName
    BY <1>1, <1>9 DEF NoNameYet
  <2>2. names' = [names EXCEPT ![party] = NoName]
    BY <1>1, <1>2, <2>1 DEF Asking
  <2>3. PB!Answer(party)
    BY <1>2, <1>7, <1>9, <1>10, <2>2 DEF PB!Answer
  <2> QED
    BY <1>5, <1>6, <1>8, <2>3 DEF Inv
<1>11. CASE at # "script"
  BY <1>2, <1>5, <1>6, <1>7, <1>8, <1>11 DEF Inv
<1> QED
  BY <1>10, <1>11

\* The next record of a source is asked.
LEMMA VainStep ==
  ASSUME Inv, at \in Sources, RightFirst, NEW k, NEW ns, Vain(k, ns), Constant
  PROVE  Inv' /\ UNCHANGED <<event, names, Open>>
<1>1. Asking /\ Stored /\ NoNameYet
  BY DEF Inv
<1>2. record' = record + 1 /\ UNCHANGED <<at, name, names, normnumber, event, party, tables, stored>>
  BY DEF Vain, Constant
<1>3. UNCHANGED <<number, Open>>
  BY <1>2 DEF number, Open
<1>4. Asking'
  BY <1>1, <1>2, <1>3 DEF Asking, Sources
<1>5. Stored' /\ NameFound' /\ NoNameYet'
  BY <1>1, <1>2, <1>3 DEF Stored, NameFound, NoNameYet, Answers, Sources
<1> QED
  BY <1>2, <1>3, <1>4, <1>5 DEF Inv

\* A party of an event is looked up.
LEMMA BeginAsking ==
  ASSUME NEW e \in [Parties -> Requested \union {NoNumber}], NEW p \in Parties, e[p] # NoNumber,
         Begin(p, e), event' = e, names' = [q \in Parties |-> names'[q]]
  PROVE  Asking' /\ at' = "ldap" /\ party' = p
<1>1. at' = "ldap" /\ record' = 1 /\ party' = p /\ normnumber' = Normalize(e[p])
  BY DEF Begin, Call
<1>2. Normalize(e[p]) = e[p]
  BY RequestedNumbers
<1> QED
  BY <1>1, <1>2 DEF Asking, Sources, number

-----------------------------------------------------------------------------
(* The steps *)

LEMMA ProcessStep ==
  ASSUME Inv, NEW e \in [Parties -> Requested \union {NoNumber}], Process(e)
  PROVE  Inv' /\ PB!Ask
<1>1. /\ at = "idle" /\ event' = e /\ names' = [p \in Parties |-> NoName]
      /\ UNCHANGED <<tables, stored>> /\ Asking /\ Stored
  BY DEF Process, Inv
<1>2. \/ e["caller"] # NoNumber /\ Begin("caller", e)
      \/ e["caller"] = NoNumber /\ e["called"] # NoNumber /\ Begin("called", e)
      \/ e["caller"] = NoNumber /\ e["called"] = NoNumber
         /\ UNCHANGED <<at, record, party, normnumber>>
  BY DEF Process
<1>3. Asking' /\ Open' = {p \in Parties : e[p] # NoNumber} /\ at' \in {"idle", "ldap"}
  <2>1. CASE e["caller"] # NoNumber /\ Begin("caller", e)
    BY <1>1, <2>1, BeginAsking DEF Open, Sources, Parties
  <2>2. CASE e["caller"] = NoNumber /\ e["called"] # NoNumber /\ Begin("called", e)
    BY <1>1, <2>2, BeginAsking DEF Open, Sources, Parties
  <2>3. CASE e["caller"] = NoNumber /\ e["called"] = NoNumber /\ UNCHANGED <<at, record, party, normnumber>>
    BY <1>1, <2>3 DEF Asking, Open, Sources, Parties
  <2> QED
    BY <1>2, <2>1, <2>2, <2>3
<1>4. Stored' /\ NameFound' /\ NoNameYet'
  BY <1>1, <1>3 DEF Stored, NameFound, NoNameYet, Answers, Open
<1>5. Open = {}
  BY <1>1 DEF Open, Sources
<1> QED
  BY <1>1, <1>3, <1>4, <1>5 DEF Inv, PB!Ask, PB!Nobody, PB!Numbered, PB!Parties, Parties

LEMMA UpdateRecordStep ==
  ASSUME Inv, UpdateRecord
  PROVE  Inv' /\ UNCHANGED <<event, names, Open>>
<1>1. Asking /\ Stored /\ NameFound /\ NoNameYet
  BY DEF Inv
<1>2. /\ at = "update" /\ name # NoName /\ record <= Len(Tables) /\ record' = record + 1
      /\ UNCHANGED <<at, event, names, party, normnumber, name>>
      /\ tables' = [tables EXCEPT ![record] = InsertIgnore(@, number, name)] \/ UNCHANGED tables
  BY DEF UpdateRecord
<1>3. UNCHANGED <<number, Open>> /\ number \in Requested /\ name \in Answers(number)
  BY <1>1, <1>2 DEF number, Open, Asking, NameFound
<1>4. Asking'
  BY <1>1, <1>2, <1>3 DEF Asking
<1>5. Stored'
  <2>1. CASE UNCHANGED tables
    BY <1>1, <2>1 DEF Stored, Answers
  <2>2. CASE tables' = [tables EXCEPT ![record] = InsertIgnore(@, number, name)]
    <3>1. record \in DOMAIN Tables
      BY <1>1, <1>2, Records DEF Asking
    <3>2. /\ tables' = [i \in DOMAIN Tables |-> tables'[i]]
          /\ \A i \in DOMAIN Tables : i # record => tables'[i] = tables[i]
          /\ tables'[record] = InsertIgnore(tables[record], number, name)
      BY <1>1, <2>2, <3>1 DEF Stored
    <3>3. \A r \in tables'[record] : r \in tables[record] \/ r = [name |-> name, number |-> number]
      BY <3>2 DEF InsertIgnore
    <3>4. ASSUME NEW i \in DOMAIN Tables, NEW r \in tables'[i]
          PROVE  r \in Tables[i] \/ (r.number \in Requested /\ r.name \in Answers(r.number))
      BY <1>1, <1>3, <3>2, <3>3 DEF Stored
    <3> QED
      BY <3>2, <3>4 DEF Stored, Answers
  <2> QED
    BY <1>2, <2>1, <2>2
<1>6. NameFound' /\ NoNameYet'
  BY <1>1, <1>2, <1>3 DEF NameFound, NoNameYet, Answers
<1> QED
  BY <1>2, <1>3, <1>4, <1>5, <1>6 DEF Inv

LEMMA UpdateEndsStep ==
  ASSUME Inv, UpdateEnds
  PROVE  Inv' /\ UNCHANGED <<event, names, Open>>
<1>1. Asking /\ Stored /\ NoNameYet
  BY DEF Inv
<1>2. at = "update" /\ UNCHANGED <<event, names, tables, stored>>
  BY DEF UpdateEnds
<1>3. Asking' /\ UNCHANGED Open /\ at' # "update"
  <2>1. CASE party = "caller" /\ event["called"] # NoNumber /\ Begin("called", event)
    <3>1. Asking' /\ at' = "ldap" /\ party' = "called"
      BY <1>1, <1>2, <2>1, BeginAsking DEF Asking, Parties
    <3> QED
      BY <1>2, <2>1, <3>1 DEF Open, Sources, Parties
  <2>2. CASE ~(party = "caller" /\ event["called"] # NoNumber) /\ Call("idle", NoNumber) /\ UNCHANGED party
    <3>1. at' = "idle" /\ record' = 1
      BY <2>2 DEF Call
    <3> QED
      BY <1>1, <1>2, <2>2, <3>1 DEF Asking, Open, Sources, Parties
  <2> QED
    BY <2>1, <2>2 DEF UpdateEnds
<1>4. Stored' /\ NameFound' /\ NoNameYet'
  BY <1>1, <1>2, <1>3 DEF Stored, NameFound, NoNameYet, Answers
<1> QED
  BY <1>2, <1>3, <1>4 DEF Inv

LEMMA LdapStep ==
  ASSUME Inv, RightFirst, LdapFails \/ LdapFailsUnseen \/ LdapFinds \/ LdapFindsNothing
  PROVE  Inv' /\ (PB!Answer(party) \/ UNCHANGED <<event, names, Open>>)
<1>1. at \in Sources /\ record \in DOMAIN Directories /\ Constant
  BY Records DEF Inv, Asking, LdapFails, LdapFailsUnseen, LdapFinds, LdapFindsNothing, Sources
<1>2. CASE LdapFails
  BY <1>1, <1>2, LeaveStep DEF LdapFails
<1>3. CASE LdapFinds
  <2>1. PICK e \in Entries(Directories[record]) : EntryMatches(e, number) /\ Found(e.name)
    BY <1>3 DEF LdapFinds
  <2>2. e.name \in Answers(number)
    BY <1>1, <2>1, LdapAnswers DEF Entries
  <2> QED
    BY <1>1, <2>1, <2>2, FoundStep
<1>4. CASE LdapFindsNothing \/ LdapFailsUnseen
  BY <1>1, <1>4, VainStep DEF LdapFindsNothing, LdapFailsUnseen, LdapInVain
<1> QED
  BY <1>2, <1>3, <1>4

LEMMA MysqlStep ==
  ASSUME Inv, RightFirst, MysqlFails \/ MysqlFinds \/ MysqlFindsNothing
  PROVE  Inv' /\ (PB!Answer(party) \/ UNCHANGED <<event, names, Open>>)
<1>1. at \in Sources /\ record \in DOMAIN Tables /\ Constant
  BY Records DEF Inv, Asking, MysqlFails, MysqlFinds, MysqlFindsNothing, Sources
<1>2. CASE MysqlFails
  BY <1>1, <1>2, VainStep DEF MysqlFails
<1>3. CASE MysqlFinds
  <2>1. PICK r \in Rows(tables[record]) : RowMatches(r, number) /\ Found(r.name)
    BY <1>3 DEF MysqlFinds
  <2>2. number \in Requested /\ Stored
    BY <1>1 DEF Inv, Asking, Sources, number
  <2>3. r.name \in Answers(number)
    BY <1>1, <2>1, <2>2, RowAnswers DEF Rows
  <2> QED
    BY <1>1, <2>1, <2>3, FoundStep
<1>4. CASE MysqlFindsNothing
  BY <1>1, <1>4, VainStep DEF MysqlFindsNothing
<1> QED
  BY <1>2, <1>3, <1>4

LEMMA ScriptStep ==
  ASSUME Inv, RightFirst, ScriptFails \/ ScriptAnswers
  PROVE  Inv' /\ (PB!Answer(party) \/ UNCHANGED <<event, names, Open>>)
<1>1. at \in Sources /\ record \in DOMAIN Scripts /\ Constant
  BY Records DEF Inv, Asking, ScriptFails, ScriptAnswers, Sources
<1>2. CASE ScriptFails
  BY <1>1, <1>2, VainStep DEF ScriptFails
<1>3. CASE ScriptAnswers
  <2>1. normnumber = number
    BY <1>1 DEF Inv, Asking
  <2>2. CASE Scripts[record][number] # NoName /\ Found(Scripts[record][number])
    <3>1. Scripts[record][number] \in Answers(number)
      BY <1>1, <2>2, ScriptHasAnswer
    <3> QED
      BY <1>1, <2>2, <3>1, FoundStep
  <2>3. CASE Vain(0, {})
    BY <1>1, <2>3, VainStep
  <2> QED
    BY <1>3, <2>1, <2>2, <2>3 DEF ScriptAnswers
<1> QED
  BY <1>2, <1>3

LEMMA NextStep ==
  ASSUME RightFirst
  PROVE  Inv /\ [Next]_vars => Inv' /\ [PB!Next]_<<event, names, Open>>
<1> SUFFICES ASSUME Inv, [Next]_vars
             PROVE  Inv' /\ [PB!Next]_<<event, names, Open>>
  OBVIOUS
<1>0. PB!Answer(party) => PB!Next
  BY DEF PB!Next, PB!Parties, Inv, Asking, Parties
<1>1. ASSUME NEW e \in [Parties -> Requested \union {NoNumber}], Process(e)
      PROVE  Inv' /\ PB!Next
  BY <1>1, ProcessStep DEF PB!Next
<1>2. CASE Exhausted
  <2>1. at \in Sources /\ Leave /\ Constant
    BY <1>2 DEF Exhausted, Sources
  <2> QED
    BY <1>0, <2>1, LeaveStep
<1>3. CASE LdapFails \/ LdapFailsUnseen \/ LdapFinds \/ LdapFindsNothing
  BY <1>0, <1>3, LdapStep
<1>4. CASE MysqlFails \/ MysqlFinds \/ MysqlFindsNothing
  BY <1>0, <1>4, MysqlStep
<1>5. CASE ScriptFails \/ ScriptAnswers
  BY <1>0, <1>5, ScriptStep
<1>6. CASE UpdateRecord
  BY <1>6, UpdateRecordStep
<1>7. CASE UpdateEnds
  BY <1>7, UpdateEndsStep
<1>8. CASE UNCHANGED vars
  <2>1. UNCHANGED <<at, record, event, names, party, normnumber, name, tables, stored>>
    BY <1>8 DEF vars
  <2> QED
    BY <2>1 DEF Inv, Asking, Stored, NameFound, NoNameYet, Answers, Open, number
<1> QED
  BY <1>1, <1>2, <1>3, <1>4, <1>5, <1>6, <1>7, <1>8 DEF Next

LEMMA InitStep == Init => Inv /\ PB!Init
<1> SUFFICES ASSUME Init
             PROVE  Inv /\ PB!Init
  OBVIOUS
<1>1. Asking
  BY DEF Init, Asking, Sources, Parties
<1>2. Stored
  BY SourcesAssumption DEF Init, Stored
<1>3. Open = {}
  BY DEF Init, Open, Sources
<1>4. NameFound /\ NoNameYet
  BY <1>3 DEF Init, NameFound, NoNameYet
<1> QED
  BY <1>1, <1>2, <1>3, <1>4 DEF Inv, Init, PB!Init, PB!Nobody, PB!Parties, Parties

\* lookup.c with its sources, its buffers and its table implements PhoneBook: each
\* party gets a name that a source has for its own number, or none, whatever
\* fails, if the compiler evaluates the second argument of strcmp() first.
THEOREM ImplementsPhoneBook ==
  ASSUME RightFirst
  PROVE  Spec => NamesAreTrue
  BY InitStep, NextStep, PTL DEF Spec, NamesAreTrue, PB!Spec

-----------------------------------------------------------------------------
(* What the filter passes *)

\* The equation of Seen.
LEMMA SeenEquation ==
  ASSUME NEW n \in Seq(STRING), NEW p \in Seq(STRING)
  PROVE  /\ \A i \in 0 .. Len(n) : Seen(n, p)[i] \in 0 .. Len(p)
         /\ \A i \in 0 .. Len(n) - 1 :
              Seen(n, p)[i + 1] =
                IF Seen(n, p)[i] < Len(p) /\ n[i + 1] = p[Seen(n, p)[i] + 1]
                THEN Seen(n, p)[i] + 1 ELSE Seen(n, p)[i]
<1> DEFINE l == Len(n)
           m == Len(p)
           S == 0 .. m
           step == [q \in Nat \X S |-> IF q[2] < m /\ n[q[1]] = p[q[2] + 1] THEN q[2] + 1 ELSE q[2]]
<1>1. l \in Nat /\ m \in Nat /\ 0 \in S
  OBVIOUS
<1>2. step \in [Nat \X S -> S]
  OBVIOUS
<1>3. \A i \in Nat, k \in S : step[<<i, k>>] = IF k < m /\ n[i] = p[k + 1] THEN k + 1 ELSE k
  OBVIOUS
<1> HIDE DEF l, m, S, step
<1>4. PICK g : g \in [0 .. l -> S] /\ Steps(g, l, 0, step)
  BY <1>1, <1>2, StepsExist
<1>5. ASSUME NEW i \in 0 .. l
      PROVE  g[i] = IF i = 0 THEN 0
                    ELSE IF g[i - 1] < m /\ n[i] = p[g[i - 1] + 1] THEN g[i - 1] + 1 ELSE g[i - 1]
  <2>1. CASE i = 0
    BY <1>4, <2>1 DEF Steps
  <2>2. CASE i # 0
    <3>1. i \in Nat /\ i - 1 \in 0 .. l - 1 /\ i - 1 \in 0 .. l /\ (i - 1) + 1 = i
      BY <1>1, <2>2
    <3>2. g[i] = step[<<i, g[i - 1]>>] /\ g[i - 1] \in S
      BY <1>4, <3>1 DEF Steps
    <3>3. step[<<i, g[i - 1]>>] = IF g[i - 1] < m /\ n[i] = p[g[i - 1] + 1] THEN g[i - 1] + 1 ELSE g[i - 1]
      BY <1>3, <3>1, <3>2
    <3> QED BY <2>2, <3>2, <3>3
  <2> QED BY <2>1, <2>2
<1> DEFINE f == Seen(n, p)
<1>6. f = [i \in 0 .. l |-> IF i = 0 THEN 0
                           ELSE IF f[i - 1] < m /\ n[i] = p[f[i - 1] + 1] THEN f[i - 1] + 1 ELSE f[i - 1]]
  <2>1. g = [i \in 0 .. l |-> IF i = 0 THEN 0
                             ELSE IF g[i - 1] < m /\ n[i] = p[g[i - 1] + 1] THEN g[i - 1] + 1 ELSE g[i - 1]]
    BY <1>4, <1>5
  <2> QED BY <2>1 DEF Seen, l, m
<1> HIDE DEF f
<1>7. f[0] = 0
  BY <1>1, <1>6
<1>8. ASSUME NEW i \in 0 .. l - 1
      PROVE  f[i + 1] = IF f[i] < m /\ n[i + 1] = p[f[i] + 1] THEN f[i] + 1 ELSE f[i]
  <2>1. i + 1 \in 0 .. l /\ i + 1 # 0 /\ (i + 1) - 1 = i
    BY <1>1
  <2> QED BY <1>6, <2>1
<1> DEFINE T == {i \in 0 .. l : f[i] \in 0 .. m}
<1>9. 0 \in T
  <2>1. 0 \in 0 .. l /\ f[0] \in 0 .. m
    BY <1>1, <1>7
  <2> QED BY <2>1
<1>10. ASSUME NEW i \in 0 .. l - 1, i \in T PROVE i + 1 \in T
  <2>1. i + 1 \in 0 .. l /\ f[i] \in 0 .. m
    BY <1>1, <1>10
  <2>2. f[i + 1] = f[i] \/ (f[i] < m /\ f[i + 1] = f[i] + 1)
    BY <1>8
  <2>3. m \in Nat /\ f[i] \in Nat /\ f[i] <= m
    BY <1>1, <2>1
  <2>4. f[i + 1] \in 0 .. m
    BY <2>2, <2>3
  <2> QED BY <2>1, <2>4
<1> HIDE DEF T
<1>11. \A i \in 0 .. l : i \in T
  BY <1>1, <1>9, <1>10, AllUpTo
<1>12. \A i \in 0 .. l : f[i] \in 0 .. m
  BY <1>11 DEF T
<1> QED BY <1>8, <1>12 DEF f, l, m

LEMMA PatternFacts ==
  ASSUME NEW n \in Seq(STRING)
  PROVE  LET a == IF Len(n) > FILTER_MAX_DIGITS THEN Len(n) - FILTER_MAX_DIGITS ELSE 0
         IN  /\ Pattern(n) \in Seq(STRING)
             /\ a \in Nat /\ Len(Pattern(n)) = Len(n) - a
             /\ \A k \in 1 .. Len(Pattern(n)) : Pattern(n)[k] = n[a + k]
<1> DEFINE a == IF Len(n) > FILTER_MAX_DIGITS THEN Len(n) - FILTER_MAX_DIGITS ELSE 0
<1>1. Len(n) \in Nat /\ a \in Nat /\ a <= Len(n)
  BY DEF FILTER_MAX_DIGITS
<1>2. Pattern(n) = SubSeq(n, a + 1, Len(n))
  BY DEF Pattern, FILTER_MAX_DIGITS
<1> HIDE DEF a
<1>3. SubSeq(n, a + 1, Len(n)) \in Seq(STRING) /\ Len(SubSeq(n, a + 1, Len(n))) = Len(n) - a
  BY <1>1
<1>4. \A k \in 1 .. Len(n) - a : SubSeq(n, a + 1, Len(n))[k] = n[a + k]
  BY <1>1
<1> QED BY <1>1, <1>2, <1>3, <1>4 DEF a

\* A text passes the filter that is made of the end of any subsequence of it.
LEMMA LikeSubsequence ==
  ASSUME NEW s \in Seq(STRING), NEW K
  PROVE  Like(s, Pattern(Subsequence(s, K)))
<1> DEFINE l == Len(s)
           c == Chosen(s, K)
           d == Subsequence(s, K)
           p == Pattern(d)
           f == Seen(s, p)
           a == IF Len(d) > FILTER_MAX_DIGITS THEN Len(d) - FILTER_MAX_DIGITS ELSE 0
<1>1. l \in Nat
  OBVIOUS
<1>2. /\ c \in [0 .. l -> Seq(STRING)] /\ c[0] = <<>> /\ d = c[l]
      /\ \A i \in 0 .. l - 1 : c[i + 1] = IF i + 1 \in K THEN Append(c[i], s[i + 1]) ELSE c[i]
  BY ChosenEquation DEF Subsequence
<1>3. \A i \in 0 .. l : Len(c[i]) <= Len(d) /\ \A j \in 1 .. Len(c[i]) : d[j] = c[i][j]
  BY ChosenStays
<1>4. d \in Seq(STRING) /\ Len(d) \in Nat
  BY SubsequenceElements
<1> HIDE DEF c, d
<1>5. p \in Seq(STRING) /\ a \in Nat /\ Len(p) = Len(d) - a /\ \A k \in 1 .. Len(p) : p[k] = d[a + k]
  BY <1>4, PatternFacts
<1> HIDE DEF p, a
<1>6. /\ \A i \in 0 .. l : f[i] \in 0 .. Len(p)
      /\ \A i \in 0 .. l - 1 : f[i + 1] = IF f[i] < Len(p) /\ s[i + 1] = p[f[i] + 1] THEN f[i] + 1 ELSE f[i]
  BY <1>5, SeenEquation
<1> HIDE DEF f, l
<1> DEFINE T == {i \in 0 .. l : Len(c[i]) - a <= f[i]}
<1>7. 0 \in T
  <2>1. 0 \in 0 .. l /\ Len(c[0]) = 0 /\ f[0] \in 0 .. Len(p)
    BY <1>1, <1>2, <1>6
  <2>2. Len(c[0]) - a <= f[0]
    BY <1>4, <1>5, <2>1
  <2> QED BY <2>1, <2>2
<1>8. ASSUME NEW i \in 0 .. l - 1, i \in T PROVE i + 1 \in T
  <2>1. i + 1 \in 0 .. l /\ i \in 0 .. l
    BY <1>1
  <2>2. Len(c[i]) - a <= f[i] /\ f[i] \in 0 .. Len(p) /\ f[i + 1] \in 0 .. Len(p)
    BY <1>6, <1>8, <2>1
  <2>3. c[i] \in Seq(STRING) /\ c[i + 1] \in Seq(STRING)
    BY <1>2, <2>1
  <2> DEFINE m == Len(p)
             v == Len(d)
             x == Len(c[i])
             y == f[i]
             z == f[i + 1]
  <2>4. x \in Nat /\ m \in Nat /\ y \in 0 .. m /\ z \in 0 .. m /\ x - a <= y /\ a \in Nat /\ v \in Nat /\ m = v - a
    <3>1. x \in Nat
      BY <2>3
    <3>2. m \in Nat
      BY <1>5
    <3> QED BY <1>4, <1>5, <2>2, <3>1, <3>2
  <2>5. z = IF y < m /\ s[i + 1] = p[y + 1] THEN y + 1 ELSE y
    BY <1>6
  <2>6. CASE i + 1 \notin K
    <3>1. Len(c[i + 1]) = x
      BY <1>2, <2>6
    <3> HIDE DEF m, v, x, y, z
    <3>2. x - a <= z
      BY <2>4, <2>5
    <3> QED BY <2>1, <3>1, <3>2 DEF z
  <2>7. CASE i + 1 \in K
    <3>0. c[i + 1] = Append(c[i], s[i + 1])
      BY <1>2, <2>7
    <3>1. Len(c[i + 1]) = x + 1 /\ c[i + 1][x + 1] = s[i + 1]
      BY <2>3, <3>0
    <3>2. x + 1 <= v /\ d[x + 1] = s[i + 1]
      <4>1. x + 1 \in 1 .. Len(c[i + 1])
        BY <2>4, <3>1
      <4> QED BY <1>3, <2>1, <3>1, <4>1
    <3>3. \A k \in 1 .. m : p[k] = d[a + k]
      BY <1>5
    <3> HIDE DEF m, v, x, y, z
    <3>4. CASE x - a = y
      <4>1. y < m /\ y + 1 \in 1 .. m /\ a + (y + 1) = x + 1
        BY <2>4, <3>2, <3>4
      <4>2. p[y + 1] = s[i + 1]
        BY <3>2, <3>3, <4>1
      <4>3. z = y + 1
        BY <2>5, <4>1, <4>2
      <4>4. (x + 1) - a <= z
        BY <2>4, <3>4, <4>3
      <4> QED BY <2>1, <3>1, <4>4 DEF z
    <3>5. CASE x - a # y
      <4>1. (x + 1) - a <= z
        BY <2>4, <2>5, <3>5
      <4> QED BY <2>1, <3>1, <4>1 DEF z
    <3> QED BY <3>4, <3>5
  <2> QED BY <2>6, <2>7
<1> HIDE DEF T
<1>9. \A i \in 0 .. l : i \in T
  BY <1>1, <1>7, <1>8, AllUpTo
<1>10. l \in T /\ l \in 0 .. l
  BY <1>1, <1>9
<1>11. Len(c[l]) - a <= f[l] /\ f[l] \in 0 .. Len(p)
  BY <1>6, <1>10 DEF T
<1>12. f[l] = Len(p)
  BY <1>2, <1>4, <1>5, <1>11
<1> QED BY <1>12 DEF Like, p, f, l, d

\* So does a text whose own end the filter asks for.
LEMMA LikeOwn ==
  ASSUME NEW s \in Seq(STRING)
  PROVE  Like(s, Pattern(s))
<1>1. Subsequence(s, DOMAIN s) = s
  BY SubsequenceWhole
<1> QED BY <1>1, LikeSubsequence

\* A number that is written with its last characters passes the filter of
\* every number that it matches.
LEMMA WrittenPasses ==
  ASSUME NEW q, Normalize(q) = q, NEW s \in Seq(STRING), Written(s), Match(q, s)
  PROVE  Like(s, Pattern(q))
<1>1. Pattern(q) = Pattern(Kept(s))
  BY DEF Match, Written
<1>2. Like(s, Pattern(Kept(s)))
  BY LikeSubsequence DEF Kept
<1> QED BY <1>1, <1>2

-----------------------------------------------------------------------------
(* Nothing is missed *)

\* The sources and the update that come after a source.
Later == [ldap |-> {"mysql", "script", "update"}, mysql |-> {"script", "update"}, script |-> {"update"}]

\* Record i of the source s has been passed, and no name was found since.
Asked(s, i) ==
  \/ at = s /\ i < record
  \/ at \in Later[s] /\ (at = "update" => name = NoName)

\* No number that the filter passes is the one that is looked up.
NoEntry(i) ==
  \A e \in Directories[i] : \A a \in DOMAIN e.phones :
    Like(e.phones[a][1], Pattern(number)) => ~Match(number, e.phones[a][1])

NoRow(i) == \A r \in tables[i] : Like(r.number, Pattern(number)) => ~RowMatches(r, number)

NothingIn(s, i) ==
  /\ s = "ldap" /\ i \in DOMAIN Directories 
       /\ (\A j \in 1 .. i : <<"ldap", j>> \notin failed) => NoEntry(i)
  /\ s = "mysql" /\ i \in DOMAIN Tables /\ <<"mysql", i>> \notin failed => NoRow(i)
  /\ s = "script" /\ i \in DOMAIN Scripts /\ <<"script", i>> \notin failed =>
       Scripts[i][number] = NoName

\* What has been asked in vain has nothing, or has failed.
Thorough == \A s \in Sources : \A i \in Nat : Asked(s, i) => NothingIn(s, i)

\* What was stored in a table is there.
StoredThere ==
  /\ stored = [i \in DOMAIN Tables |-> stored[i]]
  /\ \A i \in DOMAIN Tables : \A q \in stored[i] : \E r \in tables[i] : r.number = q

MissInv == Inv /\ Thorough /\ StoredThere

LEMMA AnswersAreNames == \A n : NoName \notin Answers(n)
<1> SUFFICES ASSUME NEW n PROVE NoName \notin Answers(n)
  OBVIOUS
<1>1. \A i \in DOMAIN Directories : \A e \in Directories[i] : e.name \in Names
  BY SourcesAssumption
<1>2. \A i \in DOMAIN Tables : \A r \in Tables[i] : r.name \in Names
  BY SourcesAssumption
<1> QED BY <1>1, <1>2, NamesAssumption DEF Answers

\* Further failures of other requests change nothing.
LEMMA NothingInStays ==
  ASSUME NEW s, NEW i, NothingIn(s, i), failed \subseteq failed', UNCHANGED <<event, party, tables>>
  PROVE  NothingIn(s, i)'
<1>1. number' = number
  BY DEF number
<1>2. UNCHANGED tables
  OBVIOUS
<1> QED BY <1>1, <1>2 DEF NothingIn, NoEntry, NoRow

\* A name is found.
LEMMA FoundThorough ==
  ASSUME NEW n, n # NoName, Found(n)
  PROVE  Thorough'
<1>1. at' = "update" /\ name' # NoName
  BY DEF Found
<1> QED BY <1>1 DEF Thorough, Asked, Sources

\* Record by record: the present one has nothing.
LEMMA VainThorough ==
  ASSUME Asking, Thorough, at \in Sources, NEW k, NEW ns, Vain(k, ns), Constant,
         failed \subseteq failed', NothingIn(at, record)
            \/ <<at, record>> \in failed'
  PROVE  Thorough'
<1>1. record' = record + 1 /\ record \in Nat /\ UNCHANGED <<at, name, event, party, tables>>
  BY DEF Vain, Constant, Asking
<1> SUFFICES ASSUME NEW s \in Sources, NEW i \in Nat, Asked(s, i)' PROVE NothingIn(s, i)'
  BY DEF Thorough
<1>2. Asked(s, i) \/ (at = s /\ i = record)
  BY <1>1 DEF Asked
<1>3. CASE NothingIn(s, i)
  BY <1>1, <1>3, NothingInStays
<1>4. CASE ~NothingIn(s, i) /\ at = s /\ i = record
  <2>1. <<s, i>> \in failed'
    BY <1>4
  <2>2. i \in DOMAIN Directories => i \in 1 .. i
    BY Records
  <2> QED BY <2>1, <2>2 DEF NothingIn
<1> QED BY <1>2, <1>3, <1>4 DEF Thorough

\* Source by source: the present one has nothing.
LEMMA LeaveThorough ==
  ASSUME Thorough, at \in Sources, Leave, Constant, failed \subseteq failed',
         \A i \in Nat : NothingIn(at, i) \/ (at = "ldap" /\ \E j \in 1 .. i : <<"ldap", j>> \in failed')
  PROVE  Thorough'
<1>1. at' = After[at] /\ record' = 1 /\ UNCHANGED <<event, party, tables>>
  BY DEF Leave, Call, Constant
<1> SUFFICES ASSUME NEW s \in Sources, NEW i \in Nat, Asked(s, i)' PROVE NothingIn(s, i)'
  BY DEF Thorough
<1>2. CASE i = 0
  <2>1. ~(0 \in DOMAIN Directories) /\ ~(0 \in DOMAIN Tables) /\ ~(0 \in DOMAIN Scripts)
    BY Records
  <2> QED BY <1>2, <2>1 DEF NothingIn
<1>3. CASE i # 0
  <2>1. at' \in Later[s]
    BY <1>1, <1>3 DEF Asked
  <2>2. at = s \/ (at \in Later[s] /\ at # "update")
    BY <1>1, <2>1 DEF Later, After, Sources
  <2>3. CASE NothingIn(s, i)
    BY <1>1, <2>3, NothingInStays
  <2>4. CASE ~NothingIn(s, i)
    <3>1. at = s
      BY <2>2, <2>4 DEF Thorough, Asked
    <3>2. s = "ldap" /\ \E j \in 1 .. i : <<"ldap", j>> \in failed'
      BY <2>4, <3>1
    <3> QED BY <3>2 DEF NothingIn
  <2> QED BY <2>3, <2>4
<1> QED BY <1>2, <1>3

\* A lookup begins, or the lookups of an event are over.
LEMMA BeginThorough ==
  ASSUME (at' = "ldap" /\ record' = 1) \/ at' = "idle"
  PROVE  Thorough'
<1> SUFFICES ASSUME NEW s \in Sources, NEW i \in Nat, Asked(s, i)' PROVE NothingIn(s, i)'
  BY DEF Thorough
<1>1. at' \notin Later[s]
  BY DEF Later, Sources
<1>2. at' = s /\ i < record'
  BY <1>1 DEF Asked
<1>3. i = 0
  BY <1>2 DEF Sources
<1>4. ~(0 \in DOMAIN Directories) /\ ~(0 \in DOMAIN Tables) /\ ~(0 \in DOMAIN Scripts)
  BY Records
<1> QED BY <1>3, <1>4 DEF NothingIn

LEMMA LdapThorough ==
  ASSUME Inv, Thorough, LdapFails \/ LdapFailsUnseen \/ LdapFinds \/ LdapFindsNothing
  PROVE  Thorough'
<1>1. at = "ldap" /\ at \in Sources /\ record \in DOMAIN Directories /\ Constant /\ Asking
  BY Records DEF Inv, Asking, LdapFails, LdapFailsUnseen, LdapFinds, LdapFindsNothing, Sources
<1>2. CASE LdapFails
  <2>1. Leave /\ failed \subseteq failed' /\ <<"ldap", record>> \in failed'
    BY <1>1, <1>2 DEF LdapFails, Fails
  <2>2. ASSUME NEW i \in Nat
        PROVE  NothingIn(at, i) \/ \E j \in 1 .. i : <<"ldap", j>> \in failed'
    <3>1. CASE i < record
      BY <1>1, <3>1 DEF Thorough, Asked
    <3>2. CASE ~(i < record)
      <4>1. record \in 1 .. i
        BY <1>1, <3>2, Records
      <4> QED BY <2>1, <4>1
    <3> QED BY <3>1, <3>2
  <2> QED BY <1>1, <2>1, <2>2, LeaveThorough
<1>3. CASE LdapFinds
  <2>1. PICK e \in Entries(Directories[record]) : EntryMatches(e, number) /\ Found(e.name)
    BY <1>3 DEF LdapFinds
  <2>2. e.name # NoName
    BY <1>1, <2>1, LdapAnswers, AnswersAreNames DEF Entries
  <2> QED BY <2>1, <2>2, FoundThorough
<1>4. CASE LdapFindsNothing
  <2>1. /\ \A e \in Entries(Directories[record]) : ~EntryMatches(e, number)
        /\ normnumber = number /\ failed' = failed
    BY <1>1, <1>4 DEF LdapFindsNothing, LdapInVain, Asking
  <2>2. NoEntry(record)
    <3> SUFFICES ASSUME NEW e \in Directories[record], NEW a \in DOMAIN e.phones,
                        Like(e.phones[a][1], Pattern(number)), Match(number, e.phones[a][1])
                 PROVE  FALSE
      BY DEF NoEntry
    <3>1. Directories[record] \in SUBSET [name : Names, phones : Seq(Seq(Seq(STRING)) \ {<<>>})]
      BY <1>1, SourcesAssumption
    <3>2. e.phones \in Seq(Seq(Seq(STRING)) \ {<<>>})
      BY <3>1
    <3>3. e.phones[a] \in Seq(Seq(STRING)) /\ e.phones[a] # <<>>
      BY <3>2
    <3>4. 1 \in DOMAIN e.phones[a]
      BY <3>3
    <3>5. e \in Entries(Directories[record])
      BY <2>1, <3>4 DEF Entries
    <3> QED BY <2>1, <3>5 DEF EntryMatches
  <2>3. NothingIn(at, record)
    BY <1>1, <2>2 DEF NothingIn
  <2>4. \E k, ns : Vain(k, ns)
    BY <1>4 DEF LdapFindsNothing, LdapInVain
  <2> QED BY <1>1, <2>1, <2>3, <2>4, VainThorough
<1>5. CASE LdapFailsUnseen
  <2>1. /\ failed \subseteq failed' /\ <<at, record>> \in failed'
        /\ \E k, ns : Vain(k, ns)
    BY <1>5 DEF LdapFailsUnseen, LdapInVain, Fails
  <2> QED BY <1>1, <2>1, VainThorough
<1> QED BY <1>2, <1>3, <1>4, <1>5

LEMMA MysqlThorough ==
  ASSUME Inv, Thorough, MysqlFails \/ MysqlFinds \/ MysqlFindsNothing
  PROVE  Thorough'
<1>1. at = "mysql" /\ at \in Sources /\ record \in DOMAIN Tables /\ Constant /\ Asking /\ Stored
  BY Records DEF Inv, Asking, MysqlFails, MysqlFinds, MysqlFindsNothing, Sources
<1>2. CASE MysqlFails
  <2>1. Vain(0, {}) /\ failed \subseteq failed' /\ <<"mysql", record>> \in failed'
    BY <1>1, <1>2 DEF MysqlFails, Fails
  <2> QED BY <1>1, <2>1, VainThorough
<1>3. CASE MysqlFinds
  <2>1. PICK r \in Rows(tables[record]) : RowMatches(r, number) /\ Found(r.name)
    BY <1>3 DEF MysqlFinds
  <2>2. number \in Requested
    BY <1>1 DEF Asking, number
  <2>3. r.name # NoName
    BY <1>1, <2>1, <2>2, RowAnswers, AnswersAreNames DEF Rows
  <2> QED BY <2>1, <2>3, FoundThorough
<1>4. CASE MysqlFindsNothing
  <2>1. /\ \A r \in Rows(tables[record]) : ~RowMatches(r, number)
        /\ normnumber = number /\ failed' = failed
    BY <1>1, <1>4 DEF MysqlFindsNothing, Asking
  <2>2. NothingIn(at, record)
    BY <1>1, <2>1 DEF NothingIn, NoRow, Rows
  <2>3. \E k, ns : Vain(k, ns)
    BY <1>4 DEF MysqlFindsNothing
  <2> QED BY <1>1, <2>1, <2>2, <2>3, VainThorough
<1> QED BY <1>2, <1>3, <1>4

LEMMA ScriptThorough ==
  ASSUME Inv, Thorough, ScriptFails \/ ScriptAnswers
  PROVE  Thorough'
<1>1. at = "script" /\ at \in Sources /\ record \in DOMAIN Scripts /\ Constant /\ Asking /\ normnumber = number
  BY Records DEF Inv, Asking, ScriptFails, ScriptAnswers, Sources
<1>2. CASE ScriptFails
  <2>1. Vain(0, {}) /\ failed \subseteq failed' /\ <<"script", record>> \in failed'
    BY <1>1, <1>2 DEF ScriptFails, Fails
  <2> QED BY <1>1, <2>1, VainThorough
<1>3. CASE ScriptAnswers /\ Scripts[record][number] # NoName
  <2>1. Found(Scripts[record][number])
    BY <1>1, <1>3 DEF ScriptAnswers
  <2> QED BY <1>3, <2>1, FoundThorough
<1>4. CASE ScriptAnswers /\ Scripts[record][number] = NoName
  <2>1. Vain(0, {}) /\ failed' = failed
    BY <1>1, <1>4 DEF ScriptAnswers
  <2>2. NothingIn(at, record)
    BY <1>1, <1>4 DEF NothingIn
  <2> QED BY <1>1, <2>1, <2>2, VainThorough
<1> QED BY <1>2, <1>3, <1>4

LEMMA ExhaustedThorough ==
  ASSUME Inv, Thorough, Exhausted
  PROVE  Thorough'
<1>1. at \in Sources /\ Leave /\ Constant /\ failed' = failed /\ record \in Nat
  BY DEF Exhausted, Sources, Inv, Asking
<1>2. ASSUME NEW i \in Nat PROVE NothingIn(at, i)
  <2>1. CASE i < record
    BY <1>1, <2>1 DEF Thorough, Asked
  <2>2. CASE ~(i < record)
    <3>1. /\ at = "ldap" => i \notin DOMAIN Directories
          /\ at = "mysql" => i \notin DOMAIN Tables
          /\ at = "script" => i \notin DOMAIN Scripts
      BY <1>1, <2>2, Records DEF Exhausted
    <3> QED BY <3>1 DEF NothingIn
  <2> QED BY <2>1, <2>2
<1> QED BY <1>1, <1>2, LeaveThorough

LEMMA ThoroughStep == Inv /\ Thorough /\ [Next]_vars => Thorough'
<1> SUFFICES ASSUME Inv, Thorough, [Next]_vars PROVE Thorough'
  OBVIOUS
<1>1. ASSUME NEW e \in [Parties -> Requested \union {NoNumber}], Process(e) PROVE Thorough'
  <2>1. (at' = "ldap" /\ record' = 1) \/ at' = "idle"
    BY <1>1 DEF Process, Begin, Call
  <2> QED BY <2>1, BeginThorough
<1>2. CASE LdapFails \/ LdapFailsUnseen \/ LdapFinds \/ LdapFindsNothing
  BY <1>2, LdapThorough
<1>3. CASE MysqlFails \/ MysqlFinds \/ MysqlFindsNothing
  BY <1>3, MysqlThorough
<1>4. CASE ScriptFails \/ ScriptAnswers
  BY <1>4, ScriptThorough
<1>5. CASE Exhausted
  BY <1>5, ExhaustedThorough
<1>6. CASE UpdateRecord
  <2>1. at' = "update" /\ name' # NoName
    BY <1>6 DEF UpdateRecord
  <2> QED BY <2>1 DEF Thorough, Asked, Sources
<1>7. CASE UpdateEnds
  <2>1. (at' = "ldap" /\ record' = 1) \/ at' = "idle"
    BY <1>7 DEF UpdateEnds, Begin, Call
  <2> QED BY <2>1, BeginThorough
<1>8. CASE UNCHANGED vars
  <2>1. UNCHANGED <<at, record, event, party, name, tables, failed>>
    BY <1>8 DEF vars
  <2> QED BY <2>1 DEF Thorough, Asked, NothingIn, NoEntry, NoRow, number
<1> QED BY <1>1, <1>2, <1>3, <1>4, <1>5, <1>6, <1>7, <1>8 DEF Next

\* INSERT IGNORE keeps the rows, and puts one with the number in the table.
LEMMA StoredThereStep == Inv /\ StoredThere /\ [Next]_vars => StoredThere'
<1> SUFFICES ASSUME Inv, StoredThere, [Next]_vars PROVE StoredThere'
  OBVIOUS
<1>1. CASE UNCHANGED <<tables, stored>>
  BY <1>1 DEF StoredThere
<1>2. CASE UpdateRecord /\ ~UNCHANGED <<tables, stored>>
  <2>1. record \in DOMAIN Tables
    BY <1>2, Records DEF UpdateRecord, Inv, Asking
  <2>2. /\ tables' = [tables EXCEPT ![record] = InsertIgnore(tables[record], number, name)]
        /\ stored' = [stored EXCEPT ![record] = stored[record] \union {number}]
    BY <1>2 DEF UpdateRecord
  <2>3. tables = [i \in DOMAIN Tables |-> tables[i]] /\ stored = [i \in DOMAIN Tables |-> stored[i]]
    BY DEF Inv, Stored, StoredThere
  <2>4. /\ tables'[record] = InsertIgnore(tables[record], number, name)
        /\ stored'[record] = stored[record] \union {number}
        /\ \A i \in DOMAIN Tables : i # record => tables'[i] = tables[i] /\ stored'[i] = stored[i]
        /\ stored' = [i \in DOMAIN Tables |-> stored'[i]]
    BY <2>1, <2>2, <2>3
  <2>5. /\ tables[record] \subseteq tables'[record]
        /\ \E r \in tables'[record] : r.number = number
    <3>1. CASE \E r \in tables[record] : r.number = number
      BY <2>4, <3>1 DEF InsertIgnore
    <3>2. CASE ~ \E r \in tables[record] : r.number = number
      <4> DEFINE row == [name |-> name, number |-> number]
      <4>1. tables'[record] = tables[record] \union {row}
        BY <2>4, <3>2 DEF InsertIgnore
      <4>2. row.number = number
        OBVIOUS
      <4> HIDE DEF row
      <4>3. row \in tables'[record]
        BY <4>1
      <4> QED BY <4>1, <4>2, <4>3
    <3> QED BY <3>1, <3>2
  <2>6. ASSUME NEW i \in DOMAIN Tables, NEW q \in stored'[i] PROVE \E r \in tables'[i] : r.number = q
    <3>1. CASE i = record /\ q = number
      BY <2>5, <3>1
    <3>2. CASE i = record /\ q # number
      <4>1. \E r \in tables[i] : r.number = q
        BY <2>4, <2>6, <3>2 DEF StoredThere
      <4> QED BY <2>5, <3>2, <4>1
    <3>3. CASE i # record
      BY <2>4, <3>3 DEF StoredThere
    <3> QED BY <3>1, <3>2, <3>3
  <2> QED BY <2>4, <2>6 DEF StoredThere
<1>3. UpdateRecord \/ UNCHANGED <<tables, stored>>
  BY DEF Next, Process, LdapFails, LdapFailsUnseen, LdapFinds, LdapFindsNothing, MysqlFails, MysqlFinds, MysqlFindsNothing,
         ScriptFails, ScriptAnswers, Exhausted, UpdateEnds, Constant, vars
<1> QED BY <1>1, <1>2, <1>3

LEMMA MissInit == Init => Thorough /\ StoredThere
<1> SUFFICES ASSUME Init PROVE Thorough /\ StoredThere
  OBVIOUS
<1>1. Thorough
  BY DEF Init, Thorough, Asked, Later, Sources
<1>2. StoredThere
  BY DEF Init, StoredThere
<1> QED BY <1>1, <1>2

LEMMA MissInvHolds ==
  ASSUME RightFirst
  PROVE  Spec => []MissInv
<1>1. Init => MissInv
  BY InitStep, MissInit DEF MissInv
<1>2. MissInv /\ [Next]_vars => MissInv'
  BY NextStep, ThoroughStep, StoredThereStep DEF MissInv
<1> QED BY <1>1, <1>2, PTL DEF Spec

LEMMA AtTheEnd ==
  ASSUME MissInv, at = "update", name = NoName
  PROVE  /\ number \in Requested
         /\ \A s \in Sources : \A i \in Nat : NothingIn(s, i)
<1>1. number \in Requested
  BY DEF MissInv, Inv, Asking, number
<1>2. \A s \in Sources : \A i \in Nat : Asked(s, i)
  BY DEF Asked, Later, Sources
<1> QED BY <1>1, <1>2 DEF MissInv, Thorough

\* lookup(): whatever fails, a name that a source has for the number is missed only
\* because that source failed, or because the filter hides the way the number is
\* written there.
THEOREM NothingMissedHolds ==
  ASSUME RightFirst
  PROVE  Spec => []NothingMissed
<1>1. MissInv => NothingMissed
  <2> SUFFICES ASSUME MissInv, at = "update", name = NoName
               PROVE  NothingMissed
    BY DEF NothingMissed
  <2>1. number \in Requested /\ \A s \in Sources : \A i \in Nat : NothingIn(s, i)
    BY AtTheEnd
  <2>2. Normalize(number) = number
    BY <2>1, RequestedNumbers
  <2>3. \A s \in Seq(STRING) : Written(s) /\ Match(number, s) => Like(s, Pattern(number))
    BY <2>2, WrittenPasses
  <2>4. ASSUME NEW i \in DOMAIN Directories, \A j \in 1 .. i : <<"ldap", j>> \notin failed,
               NEW e \in Directories[i], NEW a \in DOMAIN e.phones,
               Written(e.phones[a][1]), Match(number, e.phones[a][1])
        PROVE  FALSE
    <3>1. Directories[i] \in SUBSET [name : Names, phones : Seq(Seq(Seq(STRING)) \ {<<>>})]
      BY SourcesAssumption
    <3>2. e.phones \in Seq(Seq(Seq(STRING)) \ {<<>>})
      BY <3>1
    <3>3. e.phones[a] \in Seq(Seq(STRING)) /\ e.phones[a] # <<>>
      BY <3>2
    <3>4. e.phones[a][1] \in Seq(STRING)
      BY <3>3
    <3>5. NoEntry(i)
      BY <2>1, <2>4, Records DEF NothingIn, Sources
    <3> QED BY <2>3, <2>4, <3>4, <3>5 DEF NoEntry
  <2>5. ASSUME NEW i \in DOMAIN Tables, <<"mysql", i>> \notin failed, NEW r \in tables[i],
               Written(r.number), RowMatches(r, number)
        PROVE  FALSE
    <3>1. r.number \in Seq(STRING)
      <4>1. CASE r \in Tables[i]
        BY <4>1, SourcesAssumption
      <4>2. CASE r.number \in Requested
        BY <4>2, RequestedAssumption
      <4> QED BY <4>1, <4>2 DEF MissInv, Inv, Stored
    <3>2. NoRow(i)
      BY <2>1, <2>5, Records DEF NothingIn, Sources
    <3> QED BY <2>3, <2>5, <3>1, <3>2 DEF NoRow, RowMatches
  <2>6. \A i \in DOMAIN Scripts : <<"script", i>> \notin failed => Scripts[i][number] = NoName
    BY <2>1, Records DEF NothingIn, Sources
  <2> QED BY <2>4, <2>5, <2>6 DEF NothingMissed
<1> QED BY <1>1, MissInvHolds, PTL

\* l2f_LOOKUP_MYSQL_update: the number it has stored in a table passes the filter of
\* a later lookup and matches there, unless the table fails.
THEOREM RememberedHolds ==
  ASSUME RightFirst
  PROVE  Spec => []Remembered
<1>1. MissInv => Remembered
  <2> SUFFICES ASSUME MissInv, at = "update", name = NoName, NEW i \in DOMAIN Tables,
                      number \in stored[i], <<"mysql", i>> \notin failed
               PROVE  FALSE
    BY DEF Remembered
  <2>1. number \in Requested /\ NoRow(i)
    BY AtTheEnd, Records DEF NothingIn, Sources
  <2>2. PICK r \in tables[i] : r.number = number
    BY DEF MissInv, StoredThere
  <2>3. Like(r.number, Pattern(number))
    BY <2>1, <2>2, RequestedAssumption, LikeOwn
  <2>4. RowMatches(r, number)
    BY <2>2 DEF RowMatches, Match
  <2> QED BY <2>1, <2>3, <2>4 DEF NoRow
<1> QED BY <1>1, MissInvHolds, PTL
=============================================================================
