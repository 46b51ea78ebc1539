---------------------------- MODULE InputsProofs ----------------------------
(***************************************************************************)
(* Proofs about the texts the program is given, of any length.             *)
(*                                                                         *)
(* Configuration: for any sections, keys and values, and any choice of the *)
(* kinds that are compiled in, a list has one record per section, the last *)
(* first, and what the sections say is in its place.                       *)
(*                                                                         *)
(* Numbers, lines of parameters and formats: for any characters, what      *)
(* their conversions promise.  These are recursive functions; what they    *)
(* are is found from their equations, and the induction is that of the     *)
(* module Induction.                                                       *)
(***************************************************************************)
EXTENDS MCInputs, Induction, SequenceTheorems, TLAPS

\* Ordered is LastSectionFirst of one list; UpTo: its records are of sections read.
Ordered(list) == \A m, n \in DOMAIN list : m < n => list[m].idx > list[n].idx

UpTo(list, i) == \A n \in DOMAIN list : list[n].idx <= i

\* The present section is the last that is given.
Present == idx >= 0 => section = given[Len(given)].name

Lists ==
  /\ \A s \in Kinds : UpTo(records[s], idx)
  /\ LastSectionFirst

Inv == TypeOK /\ Present /\ Lists /\ AsWritten

-----------------------------------------------------------------------------
(* The macros of configuration.h *)

LEMMA StoredType ==
  ASSUME NEW key, NEW value \in Values
  PROVE  Stored(key, value) \in Values /\ Stored(key, value) # Unset
  BY AtoiAssumption DEF Stored

LEMMA BlankType == Blank \in [Keys -> Values \union {Unset}]
  BY DEF Blank

\* The list that FindOrCreate returns has the old records and one of section i,
\* and is ordered if i is not below what the list had.
LEMMA FindOrCreateList ==
  ASSUME NEW list \in Seq(Record), NEW i \in Nat, Ordered(list), UpTo(list, i)
  PROVE  LET new == FindOrCreate(list, i)
         IN  /\ new \in Seq(Record)
             /\ Ordered(new) /\ UpTo(new, i)
             /\ Has(new, i)
             /\ \A j : Has(list, j) => Has(new, j)
             /\ \A n \in DOMAIN new :
                  \/ \E m \in DOMAIN list : new[n] = list[m]
                  \/ ~Has(list, i) /\ new[n].idx = i /\ new[n].values = Blank
<1> DEFINE new == FindOrCreate(list, i)
<1>1. CASE Has(list, i)
  <2>1. new = list
    BY <1>1 DEF FindOrCreate
  <2> QED
    BY <1>1, <2>1
<1>2. CASE ~Has(list, i)
  <2> DEFINE first == [idx |-> i, values |-> Blank]
  <2>1. new = <<first>> \o list /\ first \in Record
    BY <1>2, BlankType DEF FindOrCreate, Record
  <2>2. /\ new \in Seq(Record) /\ Len(new) = Len(list) + 1
        /\ new[1] = first
        /\ \A n \in 1 .. Len(list) : new[n + 1] = list[n]
    BY <2>1
  <2>3. \A n \in DOMAIN new : n = 1 \/ (n - 1 \in DOMAIN list /\ new[n] = list[n - 1])
    BY <2>2
  <2>4. \A n \in DOMAIN list : n + 1 \in DOMAIN new /\ new[n + 1] = list[n]
    BY <2>2
  <2>5. \A n \in DOMAIN list : list[n].idx < i
    <3> SUFFICES ASSUME NEW n \in DOMAIN list
                 PROVE  list[n].idx < i
      OBVIOUS
    <3>0. list[n] \in Record
      OBVIOUS
    <3>1. list[n].idx \in Nat
      BY <3>0 DEF Record
    <3>2. list[n].idx <= i /\ list[n].idx # i
      BY <1>2 DEF UpTo, Has
    <3> QED
      BY <3>1, <3>2
  <2>6. Ordered(new)
    <3> SUFFICES ASSUME NEW m \in DOMAIN new, NEW n \in DOMAIN new, m < n
                 PROVE  new[m].idx > new[n].idx
      BY DEF Ordered
    <3>1. n - 1 \in DOMAIN list /\ new[n] = list[n - 1]
      BY <2>2, <2>3
    <3>2. CASE m = 1
      BY <2>2, <2>5, <3>1, <3>2 DEF Record
    <3>3. CASE m # 1
      <4>1. m - 1 \in DOMAIN list /\ new[m] = list[m - 1] /\ m - 1 < n - 1
        BY <2>2, <2>3, <3>3
      <4> QED
        BY <3>1, <4>1 DEF Ordered
    <3> QED
      BY <3>2, <3>3
  <2>7. UpTo(new, i)
    <3> SUFFICES ASSUME NEW n \in DOMAIN new
                 PROVE  new[n].idx <= i
      BY DEF UpTo
    <3>1. CASE n = 1
      BY <2>2, <3>1
    <3>2. CASE n # 1
      BY <2>3, <3>2 DEF UpTo
    <3> QED
      BY <3>1, <3>2
  <2>8. Has(new, i)
    <3>1. 1 \in DOMAIN new /\ new[1].idx = i
      BY <2>2
    <3> QED
      BY <3>1 DEF Has
  <2>9. \A j : Has(list, j) => Has(new, j)
    BY <2>4 DEF Has
  <2>10. ASSUME NEW n \in DOMAIN new
         PROVE  \/ \E m \in DOMAIN list : new[n] = list[m]
                \/ ~Has(list, i) /\ new[n].idx = i /\ new[n].values = Blank
    BY <1>2, <2>2, <2>3
  <2> HIDE DEF new
  <2> QED
    BY <2>2, <2>6, <2>7, <2>8, <2>9, <2>10 DEF new
<1> QED
  BY <1>1, <1>2

\* SetKeyValue changes the values of the records of section i, and no others.
LEMMA SetKeyValueList ==
  ASSUME NEW list \in Seq(Record), NEW i \in Nat, NEW key \in Keys, NEW value \in Values
  PROVE  LET new == SetKeyValue(list, i, key, value)
         IN  /\ new \in Seq(Record)
             /\ DOMAIN new = DOMAIN list
             /\ \A n \in DOMAIN list :
                  /\ new[n].idx = list[n].idx
                  /\ new[n].values =
                       IF list[n].idx = i
                       THEN [list[n].values EXCEPT ![key] = Stored(key, value)]
                       ELSE list[n].values
<1> DEFINE new == SetKeyValue(list, i, key, value)
           entry(n) == IF list[n].idx = i THEN [list[n] EXCEPT !.values[key] = Stored(key, value)]
                       ELSE list[n]
<1>1. new = [n \in 1 .. Len(list) |-> entry(n)]
  BY DEF SetKeyValue
<1>2. \A n \in 1 .. Len(list) :
        /\ list[n] \in Record
        /\ entry(n).idx = list[n].idx
        /\ entry(n).values = IF list[n].idx = i
                             THEN [list[n].values EXCEPT ![key] = Stored(key, value)]
                             ELSE list[n].values
  <2> SUFFICES ASSUME NEW n \in 1 .. Len(list)
               PROVE  /\ list[n] \in Record
                      /\ entry(n).idx = list[n].idx
                      /\ entry(n).values = IF list[n].idx = i
                                           THEN [list[n].values EXCEPT ![key] = Stored(key, value)]
                                           ELSE list[n].values
    OBVIOUS
  <2>1. list[n] \in Record
    OBVIOUS
  <2>2. list[n] = [idx |-> list[n].idx, values |-> list[n].values]
    BY <2>1 DEF Record
  <2> DEFINE old == list[n]
  <2>3. [old EXCEPT !.values[key] = Stored(key, value)] =
          [idx |-> old.idx, values |-> [old.values EXCEPT ![key] = Stored(key, value)]]
    BY <2>2
  <2> QED
    BY <2>1, <2>3
<1>3. \A n \in 1 .. Len(list) : entry(n) \in Record
  <2> SUFFICES ASSUME NEW n \in 1 .. Len(list)
               PROVE  entry(n) \in Record
    OBVIOUS
  <2>1. Stored(key, value) \in Values
    BY StoredType
  <2> QED
    BY <1>2, <2>1 DEF Record
<1>4. new \in Seq(Record)
  <2> HIDE DEF entry, new
  <2> QED
    BY <1>1, <1>3
<1> HIDE DEF entry
<1> QED
  BY <1>1, <1>2, <1>4

-----------------------------------------------------------------------------
(* Steps that leave the records alone, and one that does not *)

SectionType == [name : Sections, values : [Keys -> Values \union {Unset}]]

\* What a key and value does to the list of its section.
LEMMA RecordStep ==
  ASSUME NEW key \in Keys, NEW value \in Values, idx \in Nat,
         ConfigureRecord(key, value),
         records \in [Kinds -> Seq(Record)],
         Ordered(records[section]), UpTo(records[section], idx)
  PROVE  /\ section \in Kinds
         /\ records' \in [Kinds -> Seq(Record)]
         /\ \A s \in Kinds \ {section} : records'[s] = records[s]
         /\ Ordered(records'[section]) /\ UpTo(records'[section], idx)
         /\ status' # "failed" =>
              /\ key \in KeysOf(section)
              /\ Has(records'[section], idx)
              /\ \A j : Has(records[section], j) => Has(records'[section], j)
              /\ \A n \in DOMAIN records'[section] :
                   \/ \E m \in DOMAIN records[section] :
                        /\ records'[section][n].idx = records[section][m].idx
                        /\ records'[section][n].values =
                             IF records[section][m].idx = idx
                             THEN [records[section][m].values EXCEPT ![key] = Stored(key, value)]
                             ELSE records[section][m].values
                   \/ /\ ~Has(records[section], idx) /\ records'[section][n].idx = idx
                      /\ records'[section][n].values = [Blank EXCEPT ![key] = Stored(key, value)]
<1> DEFINE old == records[section]
           list == FindOrCreate(old, idx)
           set == SetKeyValue(list, idx, key, value)
<1>1. section \in Kinds /\ old \in Seq(Record)
  BY DEF ConfigureRecord
<1>2. /\ list \in Seq(Record)
      /\ Ordered(list) /\ UpTo(list, idx)
      /\ Has(list, idx)
      /\ \A j : Has(old, j) => Has(list, j)
      /\ \A n \in DOMAIN list :
           \/ \E m \in DOMAIN old : list[n] = old[m]
           \/ ~Has(old, idx) /\ list[n].idx = idx /\ list[n].values = Blank
  BY <1>1, FindOrCreateList
<1>3. /\ set \in Seq(Record)
      /\ DOMAIN set = DOMAIN list
      /\ \A n \in DOMAIN list :
           /\ set[n].idx = list[n].idx
           /\ set[n].values = IF list[n].idx = idx THEN [list[n].values EXCEPT ![key] = Stored(key, value)]
                              ELSE list[n].values
  BY <1>2, SetKeyValueList
<1>4. Ordered(set) /\ UpTo(set, idx) /\ \A j : Has(list, j) => Has(set, j)
  BY <1>2, <1>3 DEF Ordered, UpTo, Has
<1>5. \/ /\ key \in KeysOf(section)
         /\ records' = [records EXCEPT ![section] = set]
      \/ /\ records' = [records EXCEPT ![section] = list]
         /\ status' = "failed"
  BY DEF ConfigureRecord
<1> HIDE DEF set, list
<1>6. CASE key \in KeysOf(section) /\ records' = [records EXCEPT ![section] = set]
  <2>1. /\ records' \in [Kinds -> Seq(Record)]
        /\ \A s \in Kinds \ {section} : records'[s] = records[s]
        /\ records'[section] = set
    BY <1>1, <1>3, <1>6
  <2>2. \A n \in DOMAIN set :
          \/ \E m \in DOMAIN old :
               /\ set[n].idx = old[m].idx
               /\ set[n].values = IF old[m].idx = idx THEN [old[m].values EXCEPT ![key] = Stored(key, value)]
                                  ELSE old[m].values
          \/ /\ ~Has(old, idx) /\ set[n].idx = idx
             /\ set[n].values = [Blank EXCEPT ![key] = Stored(key, value)]
    <3> SUFFICES ASSUME NEW n \in DOMAIN set
                 PROVE  \/ \E m \in DOMAIN old :
                             /\ set[n].idx = old[m].idx
                             /\ set[n].values = IF old[m].idx = idx
                                                THEN [old[m].values EXCEPT ![key] = Stored(key, value)]
                                                ELSE old[m].values
                        \/ /\ ~Has(old, idx) /\ set[n].idx = idx
                           /\ set[n].values = [Blank EXCEPT ![key] = Stored(key, value)]
      OBVIOUS
    <3>1. /\ set[n].idx = list[n].idx
          /\ set[n].values = IF list[n].idx = idx THEN [list[n].values EXCEPT ![key] = Stored(key, value)]
                             ELSE list[n].values
      BY <1>3
    <3>2. CASE \E m \in DOMAIN old : list[n] = old[m]
      BY <3>1, <3>2
    <3>3. CASE ~Has(old, idx) /\ list[n].idx = idx /\ list[n].values = Blank
      BY <3>1, <3>3
    <3> QED
      BY <1>2, <1>3, <3>2, <3>3
  <2> QED
    BY <1>1, <1>2, <1>4, <1>6, <2>1, <2>2
<1>7. CASE records' = [records EXCEPT ![section] = list] /\ status' = "failed"
  BY <1>1, <1>2, <1>7
<1> QED
  BY <1>5, <1>6, <1>7

\* What a key and value does apart from the records and settings.
LEMMA KeyValueStep ==
  ASSUME TypeOK, NEW key \in Keys, NEW value \in Values, KeyValue(key, value)
  PROVE  /\ idx \in Nat /\ Len(given) = idx + 1
         /\ UNCHANGED <<idx, section>>
         /\ status # "failed"
         /\ given' \in Seq(SectionType) /\ Len(given') = Len(given)
         /\ \A n \in DOMAIN given : n # Len(given) => given'[n] = given[n]
         /\ given'[Len(given)].name = given[Len(given)].name
         /\ given'[Len(given)].values =
              [given[Len(given)].values EXCEPT ![key] = Stored(key, value)]
         /\ given[Len(given)].values \in [Keys -> Values \union {Unset}]
<1>1. given \in Seq(SectionType) /\ idx \in Int /\ idx = Len(given) - 1
  BY DEF TypeOK, SectionType
<1>2. /\ idx >= 0 /\ status = "reading" /\ UNCHANGED <<idx, section>>
      /\ given' = [given EXCEPT ![Len(given)].values[key] = Stored(key, value)]
  BY DEF KeyValue, NextLine
<1>3. idx \in Nat /\ Len(given) = idx + 1 /\ Len(given) \in DOMAIN given
  BY <1>1, <1>2
<1> DEFINE last == given[Len(given)]
<1>4. last \in SectionType
  BY <1>1, <1>3
<1>5. last = [name |-> last.name, values |-> last.values]
      /\ last.name \in Sections /\ last.values \in [Keys -> Values \union {Unset}]
  BY <1>4 DEF SectionType
<1>6. [last EXCEPT !.values[key] = Stored(key, value)] =
        [name |-> last.name, values |-> [last.values EXCEPT ![key] = Stored(key, value)]]
  BY <1>5
<1>7. [last EXCEPT !.values[key] = Stored(key, value)] \in SectionType
  BY <1>5, <1>6, StoredType DEF SectionType
<1>8. given' = [given EXCEPT ![Len(given)] = [last EXCEPT !.values[key] = Stored(key, value)]]
  BY <1>2
<1> QED
  BY <1>1, <1>2, <1>3, <1>5, <1>6, <1>7, <1>8

-----------------------------------------------------------------------------
(* The types and the order of the lists *)

LEMMA TypeStep == TypeOK /\ Lists /\ [Next]_vars => TypeOK' /\ Lists'
<1> SUFFICES ASSUME TypeOK, Lists, [Next]_vars
             PROVE  TypeOK' /\ Lists'
  OBVIOUS
<1>0. /\ lines \in 0 .. MaxLines /\ idx \in Int /\ idx = Len(given) - 1
      /\ given \in Seq(SectionType)
      /\ records \in [Kinds -> Seq(Record)]
      /\ settings \in [Singles -> [Keys -> Values \union {Unset}]]
      /\ section \in Sections \union {""}
      /\ status \in {"reading", "read", "failed"}
  BY DEF TypeOK, SectionType
<1>1. NextLine => lines' \in 0 .. MaxLines
  <2>1. lines \in 0 .. MaxLines
    BY <1>0
  <2> QED
    BY <2>1, MaxLinesAssumption DEF NextLine
<1>2. CASE UNCHANGED <<idx, section, settings, records, given>> /\ lines' \in 0 .. MaxLines
           /\ status' \in {"reading", "read", "failed"}
  BY <1>2 DEF TypeOK, Lists, LastSectionFirst, UpTo
<1>3. ASSUME NEW s \in Sections, OpenSection(s)
      PROVE  TypeOK' /\ Lists'
  <2>1. [name |-> s, values |-> Blank] \in SectionType
    BY BlankType DEF SectionType
  <2>2. given' \in Seq(SectionType) /\ Len(given') = Len(given) + 1 /\ idx' = idx + 1
    <3>1. given \in Seq(SectionType)
      BY <1>0
    <3>2. given' = Append(given, [name |-> s, values |-> Blank]) /\ idx' = idx + 1
      BY <1>3 DEF OpenSection
    <3> QED
      BY <2>1, <3>1, <3>2
  <2>3. TypeOK'
    <3>1. idx' \in Int /\ idx' = Len(given') - 1
      <4>1. given \in Seq(SectionType)
        BY <1>0
      <4>2. Len(given) \in Nat
        BY <4>1
      <4>3. idx \in Int /\ idx = Len(given) - 1
        BY <1>0
      <4> QED
        BY <2>2, <4>2, <4>3
    <3>2. UNCHANGED <<status, settings, records>> /\ section' = s /\ lines' \in 0 .. MaxLines
      BY <1>1, <1>3 DEF OpenSection
    <3> QED
      BY <1>0, <2>2, <3>1, <3>2 DEF TypeOK, SectionType
  <2>4. \A t \in Kinds : \A n \in DOMAIN records[t] : records[t][n].idx \in Nat
    <3> SUFFICES ASSUME NEW t \in Kinds, NEW n \in DOMAIN records[t]
                 PROVE  records[t][n].idx \in Nat
      OBVIOUS
    <3>0. records[t] \in Seq(Record)
      BY <1>0
    <3>1. records[t][n] \in Record
      BY <3>0
    <3> QED
      BY <3>1 DEF Record
  <2>5. Lists'
    <3>1. UNCHANGED records /\ idx' = idx + 1 /\ idx \in Int
      BY <1>0, <1>3 DEF OpenSection
    <3>2. ASSUME NEW t \in Kinds, NEW n \in DOMAIN records[t]
          PROVE  records[t][n].idx <= idx + 1
      <4>1. records[t][n].idx <= idx /\ records[t][n].idx \in Nat
        BY <2>4 DEF Lists, UpTo
      <4> QED
        BY <3>1, <4>1
    <3> QED
      BY <3>1, <3>2 DEF Lists, LastSectionFirst, UpTo
  <2> QED
    BY <2>3, <2>5
<1>4. ASSUME NEW key \in Keys, NEW value \in Values, KeyValue(key, value)
      PROVE  TypeOK' /\ Lists'
  <2>1. /\ idx \in Nat /\ UNCHANGED <<idx, section>>
        /\ given' \in Seq(SectionType) /\ Len(given') = Len(given)
    BY <1>4, KeyValueStep
  <2>2. lines' \in 0 .. MaxLines
    BY <1>1, <1>4 DEF KeyValue
  <2>3. CASE ConfigureRecord(key, value)
    <3>1. section \in Kinds
      BY <2>3 DEF ConfigureRecord
    <3>2. Ordered(records[section]) /\ UpTo(records[section], idx)
      BY <3>1 DEF Lists, LastSectionFirst, Ordered
    <3>3. /\ records' \in [Kinds -> Seq(Record)]
          /\ \A s \in Kinds \ {section} : records'[s] = records[s]
          /\ Ordered(records'[section]) /\ UpTo(records'[section], idx)
      BY <1>0, <2>1, <2>3, <3>2, RecordStep
    <3>4. status' \in {"reading", "read", "failed"} /\ UNCHANGED settings
      BY <1>0, <2>3 DEF ConfigureRecord
    <3>5. TypeOK'
      BY <1>0, <2>1, <2>2, <3>3, <3>4 DEF TypeOK, SectionType
    <3>6. Lists'
      <4>1. ASSUME NEW s \in Kinds
            PROVE  Ordered(records'[s]) /\ UpTo(records'[s], idx)
        BY <3>3 DEF Lists, LastSectionFirst, Ordered
      <4> QED
        BY <2>1, <4>1 DEF Lists, LastSectionFirst, Ordered
    <3> QED
      BY <3>5, <3>6
  <2>4. CASE ~ConfigureRecord(key, value)
    <3>1. UNCHANGED records /\ status' \in {"reading", "read", "failed"}
      BY <1>0, <1>4, <2>4 DEF KeyValue, ConfigureSingle, ConfigureUnbuilt, ConfigureOther
    <3>2. settings' \in [Singles -> [Keys -> Values \union {Unset}]]
      <4>1. Stored(key, value) \in Values
        BY StoredType
      <4>2. UNCHANGED settings \/
            (section \in Singles /\ settings' = [settings EXCEPT ![section][key] = Stored(key, value)])
        BY <1>4, <2>4 DEF KeyValue, ConfigureSingle, ConfigureUnbuilt, ConfigureOther
      <4>3. settings \in [Singles -> [Keys -> Values \union {Unset}]]
        BY <1>0
      <4>4. CASE section \in Singles /\ settings' = [settings EXCEPT ![section][key] = Stored(key, value)]
        <5>1. settings[section] \in [Keys -> Values \union {Unset}]
          BY <4>3, <4>4
        <5>2. [settings[section] EXCEPT ![key] = Stored(key, value)] \in [Keys -> Values \union {Unset}]
          BY <4>1, <5>1
        <5> QED
          BY <4>3, <4>4, <5>2
      <4> QED
        BY <4>2, <4>3, <4>4
    <3>3. TypeOK'
      BY <1>0, <2>1, <2>2, <3>1, <3>2 DEF TypeOK, SectionType
    <3>4. Lists'
      BY <2>1, <3>1 DEF Lists, LastSectionFirst, UpTo
    <3> QED
      BY <3>3, <3>4
  <2> QED
    BY <2>3, <2>4
<1> QED
  BY <1>0, <1>1, <1>2, <1>3, <1>4 DEF Next, CannotOpen, SkipLine, BadLine, EndOfFile, vars

-----------------------------------------------------------------------------
(* What the sections say is in its place *)

\* Says and RecordsAsWritten, of any sections g and records r.
Said(g, i, s) == i \in DOMAIN g /\ g[i].name = s /\ g[i].values # Blank

Written(g, r) ==
  \A s \in Built \intersect Kinds :
    /\ \A n \in DOMAIN r[s] :
         /\ Said(g, r[s][n].idx + 1, s)
         /\ r[s][n].values = g[r[s][n].idx + 1].values
    /\ \A i \in DOMAIN g : Said(g, i, s) => Has(r[s], i - 1)

LEMMA WrittenIs == RecordsAsWritten <=> Written(given, records)
  BY DEF RecordsAsWritten, Written, Says, Said

\* A key and value in the list of a kind that is compiled in.
LEMMA RecordKept ==
  ASSUME TypeOK, Lists, Present, Written(given, records),
         NEW key \in Keys, NEW value \in Values, KeyValue(key, value),
         ConfigureRecord(key, value), status' # "failed"
  PROVE  Written(given', records')
<1> DEFINE last == Len(given)
<1>1. /\ idx \in Nat /\ last = idx + 1
      /\ given' \in Seq(SectionType) /\ Len(given') = last
      /\ \A n \in DOMAIN given : n # last => given'[n] = given[n]
      /\ given'[last].name = given[last].name
      /\ given'[last].values = [given[last].values EXCEPT ![key] = Stored(key, value)]
      /\ given[last].values \in [Keys -> Values \union {Unset}]
  BY KeyValueStep
<1>2. given \in Seq(SectionType) /\ DOMAIN given = DOMAIN given' /\ last \in DOMAIN given
  <2>1. given \in Seq(SectionType)
    BY DEF TypeOK, SectionType
  <2> QED
    BY <1>1, <2>1
<1>3. section = given[last].name /\ section \in Kinds /\ section \in Built
  BY <1>1 DEF Present, ConfigureRecord
<1>4. given'[last].values # Blank
  <2>1. given'[last].values[key] = Stored(key, value)
    BY <1>1
  <2> QED
    BY <2>1, StoredType DEF Blank
<1>5. \A i, s : Said(given', i, s) <=> IF i = last THEN s = section ELSE Said(given, i, s)
  BY <1>1, <1>2, <1>3, <1>4 DEF Said
<1>6. /\ \A s \in Kinds \ {section} : records'[s] = records[s]
      /\ Has(records'[section], idx)
      /\ \A j : Has(records[section], j) => Has(records'[section], j)
      /\ \A n \in DOMAIN records'[section] :
           \/ \E m \in DOMAIN records[section] :
                /\ records'[section][n].idx = records[section][m].idx
                /\ records'[section][n].values =
                     IF records[section][m].idx = idx
                     THEN [records[section][m].values EXCEPT ![key] = Stored(key, value)]
                     ELSE records[section][m].values
           \/ /\ ~Has(records[section], idx) /\ records'[section][n].idx = idx
              /\ records'[section][n].values = [Blank EXCEPT ![key] = Stored(key, value)]
  <2>1. records \in [Kinds -> Seq(Record)]
    BY DEF TypeOK
  <2>2. Ordered(records[section]) /\ UpTo(records[section], idx)
    BY <1>3 DEF Lists, LastSectionFirst, Ordered
  <2> QED
    BY <1>1, <2>1, <2>2, RecordStep
<1>7. \A s \in Kinds : \A n \in DOMAIN records[s] : records[s][n].idx \in Nat
  <2> SUFFICES ASSUME NEW s \in Kinds, NEW n \in DOMAIN records[s]
               PROVE  records[s][n].idx \in Nat
    OBVIOUS
  <2>1. records[s] \in Seq(Record)
    BY DEF TypeOK
  <2>2. records[s][n] \in Record
    BY <2>1
  <2> QED
    BY <2>2 DEF Record
<1>8. ASSUME NEW s \in Built \intersect Kinds, NEW n \in DOMAIN records'[s]
      PROVE  /\ Said(given', records'[s][n].idx + 1, s)
             /\ records'[s][n].values = given'[records'[s][n].idx + 1].values
  <2>1. CASE s # section
    <3>1. records'[s] = records[s] /\ n \in DOMAIN records[s]
      BY <1>6, <2>1
    <3>2. /\ Said(given, records[s][n].idx + 1, s)
          /\ records[s][n].values = given[records[s][n].idx + 1].values
      BY <3>1 DEF Written
    <3>3. records[s][n].idx + 1 # last
      BY <1>3, <2>1, <3>2 DEF Said
    <3>4. given'[records[s][n].idx + 1] = given[records[s][n].idx + 1]
      BY <1>1, <3>2, <3>3 DEF Said
    <3> QED
      BY <1>5, <3>1, <3>2, <3>3, <3>4
  <2>2. CASE s = section
    <3>1. ASSUME NEW m \in DOMAIN records[section],
                 records'[section][n].idx = records[section][m].idx,
                 records'[section][n].values =
                   IF records[section][m].idx = idx
                   THEN [records[section][m].values EXCEPT ![key] = Stored(key, value)]
                   ELSE records[section][m].values
          PROVE  /\ Said(given', records'[section][n].idx + 1, section)
                 /\ records'[section][n].values = given'[records'[section][n].idx + 1].values
      <4> DEFINE i == records[section][m].idx
      <4>1. Said(given, i + 1, section) /\ records[section][m].values = given[i + 1].values
        BY <1>3 DEF Written
      <4>2. CASE i = idx
        BY <1>1, <1>5, <3>1, <4>1, <4>2
      <4>3. CASE i # idx
        <5>1. i + 1 # last
          BY <1>1, <1>3, <1>7, <4>3
        <5>2. given'[i + 1] = given[i + 1]
          BY <1>1, <4>1, <5>1 DEF Said
        <5> QED
          BY <1>5, <3>1, <4>1, <4>3, <5>1, <5>2
      <4> QED
        BY <4>2, <4>3
    <3>2. CASE /\ ~Has(records[section], idx) /\ records'[section][n].idx = idx
               /\ records'[section][n].values = [Blank EXCEPT ![key] = Stored(key, value)]
      <4>1. ~Said(given, last, section)
        <5>1. last - 1 = idx
          BY <1>1
        <5> QED
          BY <1>2, <1>3, <3>2, <5>1 DEF Written
      <4>2. given[last].values = Blank
        BY <1>2, <1>3, <4>1 DEF Said
      <4> QED
        BY <1>1, <1>5, <2>2, <3>2, <4>2
    <3> QED
      BY <1>6, <2>2, <3>1, <3>2
  <2> QED
    BY <2>1, <2>2
<1>9. ASSUME NEW s \in Built \intersect Kinds, NEW i \in DOMAIN given', Said(given', i, s)
      PROVE  Has(records'[s], i - 1)
  <2>1. CASE i = last
    BY <1>1, <1>5, <1>6, <1>9, <2>1
  <2>2. CASE i # last
    <3>1. Said(given, i, s) /\ i \in DOMAIN given
      BY <1>2, <1>5, <1>9, <2>2
    <3>2. Has(records[s], i - 1)
      BY <3>1 DEF Written
    <3> QED
      BY <1>6, <3>2
  <2> QED
    BY <2>1, <2>2
<1>10. ASSUME NEW s \in Built \intersect Kinds
       PROVE  /\ \A n \in DOMAIN records'[s] :
                   /\ Said(given', records'[s][n].idx + 1, s)
                   /\ records'[s][n].values = given'[records'[s][n].idx + 1].values
              /\ \A i \in DOMAIN given' : Said(given', i, s) => Has(records'[s], i - 1)
  BY <1>8, <1>9
<1> QED
  BY <1>10 DEF Written

\* A setting, and a key and value of a section that is not looked at.
LEMMA SettingsKept ==
  ASSUME TypeOK, Present, SettingsAsWritten,
         NEW key \in Keys, NEW value \in Values, KeyValue(key, value), status' # "failed"
  PROVE  SettingsAsWritten'
<1> DEFINE last == Len(given)
<1>1. /\ idx \in Nat /\ last = idx + 1
      /\ given' \in Seq(SectionType) /\ Len(given') = last
      /\ \A n \in DOMAIN given : n # last => given'[n] = given[n]
      /\ given'[last].name = given[last].name
      /\ given'[last].values = [given[last].values EXCEPT ![key] = Stored(key, value)]
      /\ given[last].values \in [Keys -> Values \union {Unset}]
  BY KeyValueStep
<1>2. given \in Seq(SectionType) /\ DOMAIN given = 1 .. last /\ DOMAIN given' = 1 .. last
  <2>1. given \in Seq(SectionType)
    BY DEF TypeOK, SectionType
  <2> QED
    BY <1>1, <2>1
<1>3. section = given[last].name /\ settings \in [Singles -> [Keys -> Values \union {Unset}]]
  <2>1. section = given[last].name
    BY <1>1 DEF Present
  <2>2. settings \in [Singles -> [Keys -> Values \union {Unset}]]
    BY DEF TypeOK
  <2> QED
    BY <2>1, <2>2
<1>4. \A s \in Singles, k \in Keys : settings'[s][k] =
        IF s = section /\ k = key THEN Stored(key, value) ELSE settings[s][k]
  <2>1. CASE ConfigureSingle(key, value)
    <3>1. section \in Singles /\ settings' = [settings EXCEPT ![section][key] = Stored(key, value)]
      BY <2>1 DEF ConfigureSingle
    <3> QED
      BY <1>3, <3>1
  <2>2. CASE ~ConfigureSingle(key, value)
    BY <2>2 DEF KeyValue, ConfigureRecord, ConfigureUnbuilt, ConfigureOther, Singles, Kinds,
                LookupKinds, NotifyKinds, LogKinds
  <2> QED
    BY <2>1, <2>2
<1>5. Stored(key, value) # Unset
  BY StoredType
<1> SUFFICES ASSUME NEW s \in Singles, NEW k \in Keys
             PROVE  LET giving == {i \in DOMAIN given' : given'[i].name = s /\ given'[i].values[k] # Unset}
                    IN  /\ settings'[s][k] # Unset => giving # {}
                        /\ \A i \in giving : (\A j \in giving : j <= i) =>
                             settings'[s][k] = given'[i].values[k]
  BY DEF SettingsAsWritten
<1> DEFINE gave == {i \in DOMAIN given : given[i].name = s /\ given[i].values[k] # Unset}
           giving == {i \in DOMAIN given' : given'[i].name = s /\ given'[i].values[k] # Unset}
<1>6. /\ settings[s][k] # Unset => gave # {}
      /\ \A i \in gave : (\A j \in gave : j <= i) => settings[s][k] = given[i].values[k]
  BY DEF SettingsAsWritten
<1>7. CASE s = section /\ k = key
  <2>1. last \in giving /\ \A i \in giving : i <= last
    BY <1>1, <1>2, <1>3, <1>5, <1>7
  <2>2. ASSUME NEW i \in giving, \A j \in giving : j <= i
        PROVE  settings'[s][k] = given'[i].values[k]
    <3>1. i = last
      BY <1>1, <1>2, <2>1, <2>2
    <3> QED
      BY <1>1, <1>4, <1>7, <3>1
  <2> QED
    BY <2>1, <2>2
<1>8. CASE ~(s = section /\ k = key)
  <2>1. \A i \in DOMAIN given : given[i].name = s =>
          given'[i].name = s /\ given'[i].values[k] = given[i].values[k]
    BY <1>1, <1>3, <1>8
  <2>2. \A i \in DOMAIN given : given'[i].name = given[i].name
    BY <1>1
  <2>3. giving = gave
    BY <1>2, <2>1, <2>2
  <2> QED
    BY <1>4, <1>6, <1>8, <2>1, <2>3
<1> QED
  BY <1>7, <1>8

\* A key and value of any other section leaves the records as they were written.
LEMMA OthersKept ==
  ASSUME TypeOK, Present, Written(given, records),
         NEW key \in Keys, NEW value \in Values, KeyValue(key, value),
         section \notin Built \intersect Kinds, UNCHANGED records
  PROVE  Written(given', records')
<1> DEFINE last == Len(given)
<1>1. /\ idx \in Nat /\ last = idx + 1
      /\ given' \in Seq(SectionType) /\ Len(given') = last
      /\ \A n \in DOMAIN given : n # last => given'[n] = given[n]
      /\ given'[last].name = given[last].name
  BY KeyValueStep
<1>2. DOMAIN given = 1 .. last /\ DOMAIN given' = 1 .. last
  <2>1. given \in Seq(SectionType)
    BY DEF TypeOK, SectionType
  <2> QED
    BY <1>1, <2>1
<1>3. section = given[last].name
  BY <1>1 DEF Present
<1>4. \A i, s : s \in Built \intersect Kinds =>
        /\ Said(given', i, s) <=> Said(given, i, s)
        /\ Said(given, i, s) => given'[i] = given[i]
  BY <1>1, <1>2, <1>3 DEF Said
<1> QED
  BY <1>2, <1>4 DEF Written

\* A section that is opened says nothing yet.
LEMMA OpenKept ==
  ASSUME TypeOK, AsWritten, NEW s \in Sections, OpenSection(s)
  PROVE  Written(given', records') /\ SettingsAsWritten'
<1>1. /\ UNCHANGED <<settings, records>>
      /\ given' = Append(given, [name |-> s, values |-> Blank])
      /\ Written(given, records) /\ SettingsAsWritten
  BY WrittenIs DEF OpenSection, NextLine, AsWritten
<1>2. given \in Seq(SectionType)
  BY DEF TypeOK, SectionType
<1>3. /\ Len(given) \in Nat
      /\ DOMAIN given = 1 .. Len(given) /\ DOMAIN given' = 1 .. Len(given) + 1
      /\ \A i \in DOMAIN given : given'[i] = given[i]
      /\ given'[Len(given) + 1] = [name |-> s, values |-> Blank]
  BY <1>1, <1>2
<1>4. Written(given', records')
  <2>1. \A i, t : Said(given', i, t) <=> Said(given, i, t)
    BY <1>3 DEF Said
  <2>2. \A i, t : Said(given, i, t) => given'[i] = given[i]
    BY <1>3 DEF Said
  <2> QED
    BY <1>1, <1>3, <2>1, <2>2 DEF Written, Said
<1>5. SettingsAsWritten'
  <2> SUFFICES ASSUME NEW t \in Singles, NEW k \in Keys
               PROVE  LET giving == {i \in DOMAIN given' : given'[i].name = t /\ given'[i].values[k] # Unset}
                      IN  /\ settings'[t][k] # Unset => giving # {}
                          /\ \A i \in giving : (\A j \in giving : j <= i) =>
                               settings'[t][k] = given'[i].values[k]
    BY DEF SettingsAsWritten
  <2> DEFINE gave == {i \in DOMAIN given : given[i].name = t /\ given[i].values[k] # Unset}
             giving == {i \in DOMAIN given' : given'[i].name = t /\ given'[i].values[k] # Unset}
  <2>1. Blank[k] = Unset
    BY DEF Blank
  <2>2. \A i : i \in giving <=> i \in gave
    BY <1>3, <2>1
  <2>3. giving = gave
    BY <2>2
  <2>4. /\ settings[t][k] # Unset => gave # {}
        /\ \A i \in gave : (\A j \in gave : j <= i) => settings[t][k] = given[i].values[k]
    BY <1>1 DEF SettingsAsWritten
  <2> QED
    BY <1>1, <1>3, <2>3, <2>4
<1> QED
  BY <1>4, <1>5

-----------------------------------------------------------------------------
\* Every step preserves the invariant.
LEMMA InvStep == Inv /\ [Next]_vars => Inv'
<1> SUFFICES ASSUME Inv, [Next]_vars
             PROVE  Inv'
  OBVIOUS
<1>1. TypeOK /\ Present /\ Lists /\ AsWritten
  BY DEF Inv
<1>2. TypeOK' /\ Lists'
  BY <1>1, TypeStep
<1>3. CASE /\ UNCHANGED <<idx, section, settings, records, given>>
           /\ status' = "failed" \/ status # "failed" \/ UNCHANGED status
  <2>1. Present'
    BY <1>1, <1>3 DEF Present
  <2>2. AsWritten'
    BY <1>1, <1>3 DEF AsWritten, RecordsAsWritten, SettingsAsWritten, Says, Has
  <2> QED
    BY <1>2, <2>1, <2>2 DEF Inv
<1>4. ASSUME NEW s \in Sections, OpenSection(s)
      PROVE  Inv'
  <2>1. Present'
    <3>1. given \in Seq(SectionType)
      BY <1>1 DEF TypeOK, SectionType
    <3>2. given' = Append(given, [name |-> s, values |-> Blank]) /\ section' = s
      BY <1>4 DEF OpenSection
    <3> QED
      BY <3>1, <3>2 DEF Present
  <2>2. AsWritten'
    BY <1>1, <1>4, OpenKept DEF AsWritten, RecordsAsWritten, Written, Says, Said
  <2> QED
    BY <1>2, <2>1, <2>2 DEF Inv
<1>5. ASSUME NEW key \in Keys, NEW value \in Values, KeyValue(key, value)
      PROVE  Inv'
  <2>1. Present'
    BY <1>1, <1>5, KeyValueStep DEF Present
  <2>2. ASSUME status' # "failed"
        PROVE  RecordsAsWritten' /\ SettingsAsWritten'
    <3>1. Written(given, records) /\ SettingsAsWritten
      <4>1. status # "failed"
        BY <1>1, <1>5, KeyValueStep
      <4> QED
        BY <1>1, <4>1, WrittenIs DEF AsWritten
    <3>2. SettingsAsWritten'
      BY <1>1, <1>5, <2>2, <3>1, SettingsKept
    <3>3. ASSUME ~ConfigureRecord(key, value)
          PROVE  Written(given', records')
      <4>1. section \notin Built \intersect Kinds /\ UNCHANGED records
        BY <1>5, <3>3 DEF KeyValue, ConfigureSingle, ConfigureUnbuilt, ConfigureOther, Singles, Kinds,
                          LookupKinds, NotifyKinds, LogKinds
      <4> QED
        BY <1>1, <1>5, <3>1, <4>1, OthersKept
    <3>4. Written(given', records')
      BY <1>1, <1>5, <2>2, <3>1, <3>3, RecordKept
    <3> QED
      BY <3>2, <3>4 DEF RecordsAsWritten, Written, Says, Said
  <2> QED
    BY <1>2, <2>1, <2>2 DEF Inv, AsWritten
<1> QED
  BY <1>3, <1>4, <1>5 DEF Next, CannotOpen, SkipLine, BadLine, EndOfFile, NextLine, vars

LEMMA EmptyList ==
  ASSUME NEW S
  PROVE  <<>> \in Seq(S) /\ Len(<<>>) = 0 /\ DOMAIN <<>> = {}
  OBVIOUS

LEMMA InvInit == Init => Inv
<1> SUFFICES ASSUME Init
             PROVE  Inv
  OBVIOUS
<1>0. /\ idx = -1 /\ section = "" /\ lines = 0 /\ status = "reading"
      /\ \A s \in Kinds : records[s] = <<>> /\ DOMAIN records[s] = {}
      /\ given = <<>> /\ DOMAIN given = {}
  BY EmptyList DEF Init
<1>i. idx = -1
  BY DEF Init
<1>1. TypeOK
  <2>1. records \in [Kinds -> Seq(Record)]
    <3>1. <<>> \in Seq(Record)
      BY EmptyList
    <3> QED
      BY <3>1 DEF Init
  <2>2. settings \in [Singles -> [Keys -> Values \union {Unset}]]
    BY BlankType DEF Init
  <2>3. given \in Seq(SectionType) /\ Len(given) = 0
    BY <1>0, EmptyList
  <2>4. 0 \in 0 .. MaxLines
    BY MaxLinesAssumption
  <2>5. idx \in Int /\ idx = Len(given) - 1
    BY <1>i, <2>3
  <2>6. section = "" /\ lines = 0 /\ status = "reading"
    BY DEF Init
  <2> QED
    BY <2>1, <2>2, <2>3, <2>4, <2>5, <2>6 DEF TypeOK, SectionType
<1>2. Present /\ Lists
  <2>1. Present
    BY <1>i DEF Present
  <2>2. \A s \in Kinds : UpTo(records[s], idx)
    BY <1>0 DEF UpTo
  <2>3. LastSectionFirst
    BY <1>0 DEF LastSectionFirst
  <2> QED
    BY <2>1, <2>2, <2>3 DEF Lists
<1>3. RecordsAsWritten
  BY <1>0 DEF RecordsAsWritten
<1>4. SettingsAsWritten
  <2>1. \A s \in Singles, k \in Keys : settings[s][k] = Unset
    BY DEF Init, Blank
  <2> QED
    BY <1>0, <2>1 DEF SettingsAsWritten
<1> QED
  BY <1>1, <1>2, <1>3, <1>4 DEF Inv, AsWritten

LEMMA InvHolds == Spec => []Inv
  BY InvInit, InvStep, PTL DEF Spec

\* The reader and the lists keep their types, and it is the number of sections
\* that numbers the records.
THEOREM TypeCorrect == Spec => []TypeOK
  BY InvHolds, PTL DEF Inv

\* configuration.h puts a record in front of its list: of any number of sections
\* the last is the first that is asked, and none has two records.
THEOREM LastSectionIsFirst == Spec => []LastSectionFirst
<1>1. Inv => LastSectionFirst
  BY DEF Inv, Lists
<1> QED
  BY <1>1, InvHolds, PTL

\* configuration_read puts what the sections say in its place and nothing else,
\* for any file, and any choice of the components that are compiled in.
THEOREM SaysWhatIsWritten == Spec => []AsWritten
<1>1. Inv => AsWritten
  BY DEF Inv
<1> QED
  BY <1>1, InvHolds, PTL

-----------------------------------------------------------------------------
(* Numbers *)

Characters1 == Digits \union {"+"}

\* A "+" is nowhere but in front.
Plain(d) == d \in Seq(Characters1) /\ \A i \in 2 .. Len(d) : d[i] \in Digits

LEMMA PlusIsNoDigit == "+" \notin Digits
  BY DEF Digits

LEMMA KeptIsPlain ==
  ASSUME NEW S, NEW n \in Seq(S)
  PROVE  Plain(Kept(n))
<1> DEFINE K == {i \in DOMAIN n : n[i] \in Digits \/ (i = 1 /\ n[i] = "+")}
           d == Subsequence(n, K)
<1>2. Kept(n) = d
  BY DEF Kept
<1>3. \A k \in 1 .. Len(n) : k \in K => n[k] \in Characters1 /\ (2 <= k => n[k] \in Digits)
  BY DEF Characters1
<1> HIDE DEF K
<1>1. d \in Seq(S) /\ \A j \in 1 .. Len(d) : \E k \in 1 .. Len(n) : k \in K /\ j <= k /\ d[j] = n[k]
  BY SubsequenceElements
<1> HIDE DEF d
<1>4. Len(d) \in Nat /\ d = [j \in 1 .. Len(d) |-> d[j]]
  BY <1>1
<1>5. ASSUME NEW j \in 1 .. Len(d) PROVE d[j] \in Characters1 /\ (2 <= j => d[j] \in Digits)
  <2>1. PICK k \in 1 .. Len(n) : k \in K /\ j <= k /\ d[j] = n[k]
    BY <1>1
  <2>2. Len(n) \in Nat
    OBVIOUS
  <2>3. 2 <= j => 2 <= k
    BY <1>4, <2>1, <2>2
  <2> QED BY <1>3, <2>1, <2>3
<1>6. d \in Seq(Characters1)
  BY <1>4, <1>5
<1>7. \A i \in 2 .. Len(d) : d[i] \in Digits
  <2>1. \A i \in 2 .. Len(d) : i \in 1 .. Len(d) /\ 2 <= i
    BY <1>4
  <2> QED BY <1>5, <2>1
<1> QED BY <1>2, <1>6, <1>7 DEF Plain

LEMMA PlainIsKept ==
  ASSUME NEW d, Plain(d)
  PROVE  Kept(d) = d
<1>1. d \in Seq(Characters1) /\ \A i \in 2 .. Len(d) : d[i] \in Digits
  BY DEF Plain
<1>2. \A i \in 1 .. Len(d) : d[i] \in Digits \/ (i = 1 /\ d[i] = "+")
  <2> SUFFICES ASSUME NEW i \in 1 .. Len(d) PROVE d[i] \in Digits \/ (i = 1 /\ d[i] = "+")
    OBVIOUS
  <2>1. d[i] \in Characters1
    BY <1>1
  <2>2. i = 1 \/ i \in 2 .. Len(d)
    BY <1>1
  <2> QED BY <1>1, <2>1, <2>2 DEF Characters1
<1>3. \A i \in 1 .. Len(d) : i \in {j \in DOMAIN d : d[j] \in Digits \/ (j = 1 /\ d[j] = "+")}
  BY <1>1, <1>2
<1> QED BY <1>1, <1>3, SubsequenceWhole DEF Kept

\* Digits alone are plain, also behind a "+".
LEMMA DigitsArePlain ==
  ASSUME NEW d \in Seq(Digits)
  PROVE  Plain(d) /\ Plain(<<"+">> \o d)
<1>1. d \in Seq(Characters1)
  BY SeqMonotonic DEF Characters1
<1>2. <<"+">> \in Seq(Characters1) /\ Len(<<"+">>) = 1 /\ <<"+">>[1] = "+"
  BY DEF Characters1
<1>3. /\ <<"+">> \o d \in Seq(Characters1) /\ Len(<<"+">> \o d) = 1 + Len(d)
      /\ \A i \in 2 .. 1 + Len(d) : (<<"+">> \o d)[i] = d[i - 1]
  BY <1>1, <1>2
<1>4. \A i \in 2 .. 1 + Len(d) : i - 1 \in 1 .. Len(d)
  OBVIOUS
<1>5. \A i \in 1 .. Len(d) : d[i] \in Digits
  OBVIOUS
<1>6. \A i \in 2 .. Len(d) : i \in 1 .. Len(d)
  OBVIOUS
<1> QED BY <1>1, <1>3, <1>4, <1>5, <1>6 DEF Plain

\* What is left of plain characters behind the first are digits.
LEMMA PlainTail ==
  ASSUME NEW d, Plain(d), d # <<>>
  PROVE  /\ Tail(d) \in Seq(Digits) /\ Len(d) \in Nat \ {0} /\ d[1] \in Characters1
         /\ d = <<d[1]>> \o Tail(d)
         /\ d[1] # "+" => d \in Seq(Digits)
<1>1. d \in Seq(Characters1) /\ \A i \in 2 .. Len(d) : d[i] \in Digits
  BY DEF Plain
<1>2. Len(d) \in Nat \ {0} /\ d[1] \in Characters1
  BY <1>1
<1> DEFINE t == Tail(d)
<1>3. t \in Seq(Characters1) /\ Len(t) = Len(d) - 1 /\ \A i \in 1 .. Len(t) : t[i] = d[i + 1]
  BY <1>1, HeadTailProperties
<1> HIDE DEF t
<1>4. \A i \in 1 .. Len(t) : t[i] \in Digits
  <2>1. \A i \in 1 .. Len(t) : i + 1 \in 2 .. Len(d)
    BY <1>2, <1>3
  <2> QED BY <1>1, <1>3, <2>1
<1>5. t \in Seq(Digits)
  <2>1. Len(t) \in Nat /\ t = [i \in 1 .. Len(t) |-> t[i]]
    BY <1>3
  <2> QED BY <1>4, <2>1
<1>6. d = <<d[1]>> \o t
  <2>1. <<d[1]>> \in Seq(Characters1) /\ Len(<<d[1]>>) = 1 /\ <<d[1]>>[1] = d[1]
    BY <1>2
  <2>2. <<d[1]>> \o t \in Seq(Characters1) /\ Len(<<d[1]>> \o t) = Len(d)
    BY <1>2, <1>3, <2>1
  <2>3. ASSUME NEW i \in 1 .. Len(d) PROVE (<<d[1]>> \o t)[i] = d[i]
    <3>1. CASE i = 1
      BY <1>3, <2>1, <3>1
    <3>2. CASE i # 1
      <4>1. i - 1 \in 1 .. Len(t) /\ (i - 1) + 1 = i
        BY <1>2, <1>3, <3>2
      <4>2. (<<d[1]>> \o t)[i] = t[i - 1]
        BY <1>3, <2>1, <3>2, <4>1
      <4> QED BY <1>3, <4>1, <4>2
    <3> QED BY <3>1, <3>2
  <2> QED BY <1>1, <2>2, <2>3, SeqEqual
<1>7. ASSUME d[1] # "+" PROVE d \in Seq(Digits)
  <2>1. d[1] \in Digits
    BY <1>2, <1>7 DEF Characters1
  <2>2. \A i \in 1 .. Len(d) : i = 1 \/ i \in 2 .. Len(d)
    BY <1>2
  <2>3. \A i \in 1 .. Len(d) : d[i] \in Digits
    BY <1>1, <2>1, <2>2
  <2>4. Len(d) \in Nat /\ d = [i \in 1 .. Len(d) |-> d[i]]
    BY <1>1
  <2> QED BY <2>3, <2>4
<1> QED BY <1>2, <1>5, <1>6, <1>7 DEF t

\* As the sample configuration has them: prefix_state is empty or begins with
\* "+" and goes on with digits; prefix_city is empty or begins with 0.
StateWithPlus == PrefixState # <<>> => PrefixState[1] = "+" /\ Plain(PrefixState)
CityWithZero == PrefixCity # <<>> => PrefixCity[1] = "0"

\* A normal form that begins with "+" stays.
LEMMA PlusStays ==
  ASSUME NEW r, Plain(r), r # <<>> => r[1] = "+"
  PROVE  Normalize(r) = r
<1>1. Kept(r) = r
  BY PlainIsKept
<1> QED BY <1>1 DEF Normalize

LEMMA PrefixTypes == PrefixCity \in Seq(Digits) /\ PrefixState \in Seq(Characters1)
  BY PrefixAssumption DEF Characters1

LEMMA WithCityType ==
  ASSUME NEW d \in Seq(Digits), d # <<>>
  PROVE  /\ WithCity(d) \in Seq(Digits) /\ WithCity(d) # <<>>
         /\ WithCity(d)[1] \in Digits
<1>1. PrefixCity \o d \in Seq(Digits) /\ Len(PrefixCity \o d) = Len(PrefixCity) + Len(d) /\ Len(d) # 0
  BY PrefixTypes
<1>2. PrefixCity \o d # <<>>
  BY <1>1, PrefixTypes
<1>3. WithCity(d) \in Seq(Digits) /\ WithCity(d) # <<>>
  BY <1>1, <1>2 DEF WithCity
<1> QED BY <1>3

\* What is put in front of the rest.
LEMMA WithStateForm ==
  ASSUME StateWithPlus, NEW c \in Seq(Digits), c # <<>>
  PROVE  \/ /\ Plain(WithState(c)) /\ WithState(c) # <<>> /\ WithState(c)[1] = "+"
         \/ /\ WithState(c) = c /\ PrefixState = <<>>
            /\ ~(Len(c) > 1 /\ c[2] = "0")
<1>1. CASE Len(c) > 1 /\ c[2] = "0"
  <2> DEFINE t == SubSeq(c, 3, Len(c))
  <2>1. t \in Seq(Digits)
    BY <1>1
  <2> HIDE DEF t
  <2>2. Plain(<<"+">> \o t)
    BY <2>1, DigitsArePlain
  <2>3. (<<"+">> \o t)[1] = "+" /\ <<"+">> \o t # <<>>
    <3>1. t \in Seq(Characters1) /\ <<"+">> \in Seq(Characters1) /\ Len(<<"+">>) = 1
      BY <2>1, SeqMonotonic DEF Characters1
    <3> QED BY <3>1
  <2>4. WithState(c) = <<"+">> \o t
    BY <1>1 DEF WithState, t
  <2> QED BY <2>2, <2>3, <2>4
<1>2. CASE ~(Len(c) > 1 /\ c[2] = "0") /\ PrefixState # <<>>
  <2>1. WithState(c) = PrefixState \o Tail(c)
    BY <1>2 DEF WithState
  <2> DEFINE t == Tail(c)
             u == Tail(PrefixState)
  <2>2. t \in Seq(Digits)
    BY HeadTailProperties
  <2>3. u \in Seq(Digits) /\ PrefixState = <<"+">> \o u
    BY <1>2, PlainTail DEF StateWithPlus
  <2> HIDE DEF t, u
  <2>4. u \o t \in Seq(Digits)
    BY <2>2, <2>3
  <2>5. <<"+">> \in Seq(Characters1) /\ u \in Seq(Characters1) /\ t \in Seq(Characters1) /\ u \o t \in Seq(Characters1)
    BY <2>2, <2>3, <2>4, SeqMonotonic DEF Characters1
  <2>6. (<<"+">> \o u) \o t = <<"+">> \o (u \o t)
    BY <2>5, ConcatAssociative
  <2>7. Plain(<<"+">> \o (u \o t))
    BY <2>4, DigitsArePlain
  <2>8. (<<"+">> \o (u \o t))[1] = "+" /\ <<"+">> \o (u \o t) # <<>>
    <3>1. Len(<<"+">>) = 1 /\ <<"+">>[1] = "+"
      OBVIOUS
    <3> DEFINE w == u \o t
    <3>2. w \in Seq(Characters1)
      BY <2>5
    <3> HIDE DEF w
    <3>3. (<<"+">> \o w)[1] = "+" /\ <<"+">> \o w # <<>>
      BY <2>5, <3>1, <3>2
    <3> QED BY <3>3 DEF w
  <2>9. WithState(c) = <<"+">> \o (u \o t)
    BY <2>1, <2>3, <2>6 DEF t
  <2> QED BY <2>7, <2>8, <2>9
<1>3. CASE ~(Len(c) > 1 /\ c[2] = "0") /\ PrefixState = <<>>
  BY <1>3 DEF WithState
<1> QED BY <1>1, <1>2, <1>3

\* A number that is normalized twice is normalized.
LEMMA NormalizedTwice ==
  ASSUME StateWithPlus, PrefixState = <<>> => CityWithZero, NEW S, NEW n \in Seq(S)
  PROVE  Normalize(Normalize(n)) = Normalize(n)
<1> DEFINE d == Kept(n)
           c == WithCity(d)
<1>1. Plain(d)
  BY KeptIsPlain
<1> HIDE DEF d
<1>2. CASE d = <<>> \/ d[1] = "+"
  <2>1. Normalize(n) = d
    BY <1>2 DEF Normalize, d
  <2> QED BY <1>1, <1>2, <2>1, PlusStays
<1>3. CASE d # <<>> /\ d[1] # "+"
  <2>1. d \in Seq(Digits)
    BY <1>1, <1>3, PlainTail
  <2>2. c \in Seq(Digits) /\ c # <<>> /\ c[1] \in Digits
    BY <1>3, <2>1, WithCityType
  <2>3. Normalize(n) = WithState(c)
    BY <1>3 DEF Normalize, d
  <2>4. CASE Plain(WithState(c)) /\ WithState(c) # <<>> /\ WithState(c)[1] = "+"
    BY <2>3, <2>4, PlusStays
  <2>5. CASE WithState(c) = c /\ PrefixState = <<>> /\ ~(Len(c) > 1 /\ c[2] = "0")
    <3>1. c[1] # "0" => PrefixCity = <<>>
      <4> SUFFICES ASSUME PrefixCity # <<>>, c[1] # "0" PROVE FALSE
        OBVIOUS
      <4>1. PrefixCity[1] = "0"
        BY <2>5 DEF CityWithZero
      <4>2. (PrefixCity \o d)[1] = "0"
        BY <2>1, <4>1, PrefixTypes
      <4> QED BY <4>2 DEF WithCity
    <3>2. <<>> \o c = c
      BY <2>2, ConcatEmptySeq
    <3> HIDE DEF c
    <3>3. WithCity(c) = c
      BY <3>1, <3>2 DEF WithCity
    <3>4. Kept(c) = c
      BY <2>2, DigitsArePlain, PlainIsKept
    <3>5. c[1] # "+"
      BY <2>2, PlusIsNoDigit
    <3>6. Normalize(c) = c
      BY <2>2, <2>5, <3>3, <3>4, <3>5 DEF Normalize
    <3> QED BY <2>3, <2>5, <3>6
  <2> HIDE DEF c
  <2> QED BY <2>2, <2>4, <2>5, WithStateForm
<1> QED BY <1>2, <1>3

\* The number is a text all the time.
LEMMA NumberIsText == MCSpec => [](number \in Seq(Characters))
<1>1. MCInit => number \in Seq(Characters)
  BY EmptySeq DEF MCInit
<1>2. number \in Seq(Characters) /\ [MCNext]_inputs => (number \in Seq(Characters))'
  BY DEF MCNext, ReadFile, Dial, Write, inputs
<1> QED BY <1>1, <1>2, PTL DEF MCSpec

\* l2f_PHONENUMBER_normalize: a number of an event, which is normalized, is not
\* changed where it is normalized again, for numbers of any length and any
\* characters, if prefix_state begins with "+"; if it is empty, prefix_city has to
\* begin with 0.
THEOREM IdempotentHolds ==
  ASSUME StateWithPlus, PrefixState = <<>> => CityWithZero
  PROVE  MCSpec => []Idempotent
<1>1. number \in Seq(Characters) => Idempotent
  BY NormalizedTwice DEF Idempotent
<1> QED BY <1>1, NumberIsText, PTL

\* What follows something is a suffix.
LEMMA SuffixOfConcat ==
  ASSUME NEW S, NEW p \in Seq(S), NEW t \in Seq(S)
  PROVE  IsSuffix(t, p \o t)
<1> DEFINE l == Len(t)
           k == Len(p)
           w == p \o t
           rt == Reverse(t)
           rw == Reverse(w)
<1>1. l \in Nat /\ k \in Nat
  OBVIOUS
<1>2. w \in Seq(S) /\ Len(w) = k + l /\ \A i \in 1 .. l : w[k + i] = t[i]
  BY ConcatProperties
<1>3. rt \in Seq(S) /\ Len(rt) = l /\ \A i \in 1 .. l : rt[i] = t[(l - i) + 1]
  BY <1>1 DEF Reverse
<1> HIDE DEF w
<1>4. rw \in Seq(S) /\ Len(rw) = k + l /\ \A i \in 1 .. k + l : rw[i] = w[((k + l) - i) + 1]
  BY <1>1, <1>2 DEF Reverse
<1> HIDE DEF l, k, rt, rw
<1>5. ASSUME NEW i \in 1 .. l PROVE rt[i] = rw[i]
  <2>1. i \in 1 .. k + l /\ (l - i) + 1 \in 1 .. l /\ ((k + l) - i) + 1 = k + ((l - i) + 1)
    BY <1>1
  <2> QED BY <1>2, <1>3, <1>4, <2>1
<1>6. SubSeq(rt, 1, l) = SubSeq(rw, 1, l)
  <2>1. SubSeq(rt, 1, l) \in Seq(S) /\ Len(SubSeq(rt, 1, l)) = l /\ \A i \in 1 .. l : SubSeq(rt, 1, l)[i] = rt[i]
    BY <1>1, <1>3
  <2>2. SubSeq(rw, 1, l) \in Seq(S) /\ Len(SubSeq(rw, 1, l)) = l /\ \A i \in 1 .. l : SubSeq(rw, 1, l)[i] = rw[i]
    BY <1>1, <1>4
  <2> QED BY <1>5, <2>1, <2>2, SeqEqual
<1>7. l <= k + l
  BY <1>1
<1> QED BY <1>3, <1>4, <1>6, <1>7 DEF IsSuffix, IsPrefix, rt, rw, w

\* The normal form of a number: something before its significant characters.
LEMMA SignificantStays ==
  ASSUME PrefixCity # <<>>, number \in Seq(Characters)
  PROVE  \E p \in Seq(Characters1) : Significant \in Seq(Characters1) /\ Normalize(number) = p \o Significant
<1> DEFINE d == Kept(number)
           second == Len(d) > 1 /\ d[2] = "0"
<1>1. Plain(d)
  BY KeptIsPlain
<1>2. d \in Seq(Characters1) /\ Len(d) \in Nat
  BY <1>1 DEF Plain
<1>3. Significant =
        IF d # <<>> /\ d[1] = "0"
        THEN IF second THEN SubSeq(d, 3, Len(d)) ELSE Tail(d)
        ELSE d
  <2>1. 1 <= Len(d) <=> d # <<>>
    BY <1>2
  <2>2. 2 <= Len(d) <=> Len(d) > 1
    BY <1>2
  <2> HIDE DEF d
  <2>3. CASE d # <<>> /\ d[1] = "0" /\ second
    BY <2>1, <2>2, <2>3 DEF Significant, d
  <2>4. CASE d # <<>> /\ d[1] = "0" /\ ~second
    BY <2>1, <2>2, <2>4 DEF Significant, d
  <2>5. CASE ~(d # <<>> /\ d[1] = "0")
    BY <2>1, <2>2, <2>5 DEF Significant, d
  <2> QED BY <2>3, <2>4, <2>5
<1>4. \A x \in Seq(Characters1) : <<>> \o x = x /\ <<>> \in Seq(Characters1)
  BY ConcatEmptySeq
<1>5. <<"+">> \in Seq(Characters1)
  BY DEF Characters1
<1>6. Normalize(number) = IF d = <<>> \/ d[1] = "+" THEN d ELSE WithState(WithCity(d))
  BY DEF Normalize
<1> HIDE DEF d
<1>7. CASE d = <<>> \/ d[1] = "+"
  <2>1. Significant = d /\ Normalize(number) = d
    BY <1>3, <1>6, <1>7
  <2> QED BY <1>2, <1>4, <2>1
<1>8. CASE d # <<>> /\ d[1] = "0"
  <2>0. d[1] # "+" /\ WithCity(d) = d
    BY <1>8 DEF WithCity
  <2>1. Normalize(number) = WithState(d)
    BY <1>6, <1>8, <2>0
  <2>2. CASE second
    <3>1. SubSeq(d, 3, Len(d)) \in Seq(Characters1)
      BY <1>2
    <3>2. Significant = SubSeq(d, 3, Len(d)) /\ Normalize(number) = <<"+">> \o SubSeq(d, 3, Len(d))
      BY <1>3, <1>8, <2>1, <2>2 DEF WithState
    <3> QED BY <1>5, <3>1, <3>2
  <2>3. CASE ~second
    <3>1. Tail(d) \in Seq(Characters1) /\ d = <<d[1]>> \o Tail(d) /\ d[1] \in Characters1
      BY <1>1, <1>8, PlainTail DEF Characters1, Plain
    <3>2. <<d[1]>> \in Seq(Characters1)
      BY <3>1
    <3>3. Significant = Tail(d) /\ Normalize(number) = IF PrefixState # <<>> THEN PrefixState \o Tail(d) ELSE d
      BY <1>3, <1>8, <2>1, <2>3 DEF WithState
    <3> QED BY <3>1, <3>2, <3>3, PrefixTypes
  <2> QED BY <2>2, <2>3
<1>9. CASE d # <<>> /\ d[1] # "0" /\ d[1] # "+"
  <2> DEFINE c == PrefixCity \o d
             t == Tail(PrefixCity)
  <2>1. Significant = d /\ WithCity(d) = c /\ Normalize(number) = WithState(c)
    BY <1>3, <1>6, <1>9 DEF WithCity
  <2>2. PrefixCity \in Seq(Characters1) /\ Len(PrefixCity) \in Nat \ {0}
    BY PrefixTypes, SeqMonotonic DEF Characters1
  <2>3. t \in Seq(Characters1) /\ Len(t) = Len(PrefixCity) - 1
    BY <2>2
  <2>4. c \in Seq(Characters1) /\ Len(c) = Len(PrefixCity) + Len(d)
    BY <1>2, <2>2
  <2>5. Tail(c) = t \o d
    BY <1>2, <2>2, <2>3, <2>4
  <2>6. CASE Len(c) > 1 /\ c[2] = "0"
    <3>1. Len(PrefixCity) >= 2
      <4>1. CASE Len(PrefixCity) = 1
        <5>1. Len(d) >= 1
          BY <1>2, <1>9
        <5>2. c[2] = IF 2 <= Len(PrefixCity) THEN PrefixCity[2] ELSE d[2 - Len(PrefixCity)]
          <6>1. 2 \in 1 .. Len(PrefixCity) + Len(d)
            BY <1>2, <4>1, <5>1
          <6> QED BY <1>2, <2>2, <6>1, ConcatProperties
        <5>3. c[2] = d[1]
          BY <4>1, <5>2
        <5> QED BY <1>9, <2>6, <5>3
      <4>2. CASE Len(PrefixCity) # 1
        <5>1. \A k \in Nat \ {0} : k # 1 => k >= 2
          OBVIOUS
        <5> QED BY <2>2, <4>2, <5>1
      <4> QED BY <4>1, <4>2
    <3> DEFINE u == SubSeq(PrefixCity, 3, Len(PrefixCity))
    <3>2. u \in Seq(Characters1) /\ Len(u) = Len(PrefixCity) - 2
      <4>1. \A i \in 3 .. Len(PrefixCity) : PrefixCity[i] \in Characters1
        BY <2>2
      <4>2. u \in Seq(Characters1) /\ Len(u) = IF 3 <= Len(PrefixCity) THEN Len(PrefixCity) - 3 + 1 ELSE 0
        BY <2>2, <4>1, SubSeqProperties
      <4>3. \A k \in Nat : k >= 2 => (IF 3 <= k THEN k - 3 + 1 ELSE 0) = k - 2
        OBVIOUS
      <4> QED BY <2>2, <3>1, <4>2, <4>3
    <3>3. SubSeq(c, 3, Len(c)) = u \o d
      BY <1>2, <2>2, <2>4, <3>1, <3>2
    <3>4. Normalize(number) = <<"+">> \o (u \o d)
      BY <2>1, <2>6, <3>3 DEF WithState
    <3> HIDE DEF u
    <3>5. Normalize(number) = (<<"+">> \o u) \o d /\ <<"+">> \o u \in Seq(Characters1)
      BY <1>2, <1>5, <3>2, <3>4, ConcatAssociative
    <3> QED BY <1>2, <2>1, <3>5
  <2>7. CASE ~(Len(c) > 1 /\ c[2] = "0") /\ PrefixState # <<>>
    <3>1. Normalize(number) = PrefixState \o (t \o d)
      BY <2>1, <2>5, <2>7 DEF WithState
    <3> HIDE DEF t
    <3>2. PrefixState \o t \in Seq(Characters1)
      BY <2>3, PrefixTypes
    <3>3. (PrefixState \o t) \o d = PrefixState \o (t \o d)
      BY <1>2, <2>3, PrefixTypes, ConcatAssociative
    <3> QED BY <1>2, <2>1, <3>1, <3>2, <3>3
  <2>8. CASE ~(Len(c) > 1 /\ c[2] = "0") /\ PrefixState = <<>>
    <3>1. Normalize(number) = c
      BY <2>1, <2>8 DEF WithState
    <3> QED BY <1>2, <2>1, <2>2, <3>1
  <2> QED BY <2>6, <2>7, <2>8
<1> QED BY <1>7, <1>8, <1>9

\* l2f_PHONENUMBER_normalize drops no digit but the zeros of a prefix, from numbers
\* of any length, if a prefix_city is configured; without one it would drop the
\* first digit of a number whose second is 0.
THEOREM NoDigitLostHolds ==
  ASSUME PrefixCity # <<>>
  PROVE  MCSpec => []NoDigitLost
<1>1. number \in Seq(Characters) => NoDigitLost
  BY SignificantStays, SuffixOfConcat DEF NoDigitLost
<1> QED BY <1>1, NumberIsText, PTL

\* Behind plain characters the characters are kept that are kept without them,
\* unless the first of them is a "+".
LEMMA KeptBehind ==
  ASSUME NEW S, NEW p \in Seq(S), Plain(p), p # <<>>, NEW t \in Seq(S), t # <<>> => t[1] # "+"
  PROVE  Kept(p \o t) = p \o Kept(t)
<1> DEFINE w == p \o t
           K == {i \in DOMAIN w : w[i] \in Digits \/ (i = 1 /\ w[i] = "+")}
           L == {i \in DOMAIN t : t[i] \in Digits \/ (i = 1 /\ t[i] = "+")}
<1>1. /\ w \in Seq(S) /\ Len(w) = Len(p) + Len(t)
      /\ \A i \in 1 .. Len(p) : w[i] = p[i]
      /\ \A i \in 1 .. Len(t) : w[Len(p) + i] = t[i]
  BY ConcatProperties
<1>2. Len(p) \in Nat \ {0} /\ Len(t) \in Nat
  OBVIOUS
<1> HIDE DEF w
<1>3. ASSUME NEW i \in 1 .. Len(t) PROVE Len(p) + i \in K <=> i \in L
  <2>1. Len(p) + i \in 1 .. Len(p) + Len(t) /\ Len(p) + i # 1
    BY <1>2
  <2>2. w[Len(p) + i] = t[i] /\ Len(p) + i \in DOMAIN w /\ i \in DOMAIN t
    BY <1>1, <2>1
  <2>3. ~(i = 1 /\ t[i] = "+")
    BY <1>2
  <2> QED BY <2>1, <2>2, <2>3
<1>4. ASSUME NEW i \in 1 .. Len(p) PROVE i \in K
  <2>1. p \in Seq(Characters1) /\ \A k \in 2 .. Len(p) : p[k] \in Digits
    BY DEF Plain
  <2>2. i \in DOMAIN w /\ w[i] = p[i] /\ p[i] \in Characters1
    BY <1>1, <1>2, <2>1
  <2>3. i = 1 \/ i \in 2 .. Len(p)
    BY <1>2
  <2> QED BY <2>1, <2>2, <2>3 DEF Characters1
<1>5. Kept(w) = Subsequence(w, K) /\ Kept(t) = Subsequence(t, L)
  BY DEF Kept
<1> HIDE DEF K, L
<1>6. Subsequence(p \o t, K) = Subsequence(p, K) \o Subsequence(t, L)
  BY <1>3, SubsequenceConcat
<1>7. Subsequence(p, K) = p
  BY <1>4, SubsequenceWhole
<1> QED BY <1>5, <1>6, <1>7 DEF w

\* A digit in front is kept in front.
LEMMA FirstIsKept ==
  ASSUME NEW S, NEW n \in Seq(S), n # <<>>, n[1] \in Digits
  PROVE  Kept(n) # <<>> /\ Kept(n)[1] = n[1]
<1> DEFINE K == {i \in DOMAIN n : n[i] \in Digits \/ (i = 1 /\ n[i] = "+")}
           f == Chosen(n, K)
           d == Subsequence(n, K)
<1>1. Len(n) \in Nat \ {0} /\ 1 \in DOMAIN n /\ 1 \in K /\ n[1] \in S
  OBVIOUS
<1>2. Kept(n) = d
  BY DEF Kept
<1> HIDE DEF K
<1>3. /\ f \in [0 .. Len(n) -> Seq(S)] /\ f[0] = <<>>
      /\ \A i \in 0 .. Len(n) - 1 : f[i + 1] = IF i + 1 \in K THEN Append(f[i], n[i + 1]) ELSE f[i]
  BY ChosenEquation
<1>4. /\ Len(f[1]) <= Len(d)
      /\ \A j \in 1 .. Len(f[1]) : d[j] = f[1][j]
  <2>1. 1 \in 0 .. Len(n)
    BY <1>1
  <2> QED BY <2>1, ChosenStays
<1> HIDE DEF f, d
<1>5. f[1] = <<n[1]>>
  <2>1. 0 \in 0 .. Len(n) - 1 /\ 0 + 1 = 1
    BY <1>1
  <2>2. f[1] = Append(<<>>, n[1])
    BY <1>1, <1>3, <2>1
  <2> QED BY <2>2
<1>6. 1 <= Len(d) /\ d[1] = n[1]
  BY <1>4, <1>5
<1> QED BY <1>2, <1>6

\* As the sample configuration has them: prefix_city is one 0 and what follows,
\* prefix_state a "+" and digits.
SamplePrefixes ==
  /\ PrefixCity # <<>> /\ PrefixCity[1] = "0"
  /\ Len(PrefixCity) > 1 => PrefixCity[2] # "0"
  /\ PrefixState # <<>> /\ StateWithPlus

\* What begins with something is something.
LEMMA Begins ==
  ASSUME NEW S, NEW p \in Seq(S), p # <<>>, NEW t \in Seq(S)
  PROVE  p \o t \in Seq(S) /\ p \o t # <<>> /\ (p \o t)[1] = p[1]
<1>1. Len(p) \in Nat \ {0} /\ Len(t) \in Nat
  OBVIOUS
<1>2. p \o t \in Seq(S) /\ Len(p \o t) = Len(p) + Len(t) /\ \A i \in 1 .. Len(p) : (p \o t)[i] = p[i]
  BY ConcatProperties
<1>3. Len(p \o t) # 0 /\ (p \o t)[1] = p[1]
  BY <1>1, <1>2
<1> QED BY <1>2, <1>3

\* A number that is written without any prefix.
WithoutPrefix(n) == n # <<>> /\ n[1] \in Digits \ {"0"}

\* The ways to write a number of the own city have one normal form.
LEMMA OneNormalForm ==
  ASSUME SamplePrefixes, NEW n \in Seq(Characters), WithoutPrefix(n)
  PROVE  LET city == PrefixCity \o n
             state == PrefixState \o Tail(city)
             abroad == <<"0", "0">> \o Tail(state)
         IN  /\ Normalize(n) = Normalize(city)
             /\ Normalize(city) = Normalize(state)
             /\ Normalize(state) = Normalize(abroad)
<1> DEFINE S == Characters \union Characters1
           d == Kept(n)
           tc == Tail(PrefixCity)
           ts == Tail(PrefixState)
           r == ts \o tc
           plus == <<"+">>
           zeros == <<"0", "0">>
           zero == <<"0">>
           city == PrefixCity \o n
           state == PrefixState \o Tail(city)
           abroad == zeros \o Tail(state)
           C == PrefixCity \o d
           form == (plus \o r) \o d
<1>0. n[1] # "+" /\ n[1] # "0"
  BY DEF Digits, WithoutPrefix
<1>1. n \in Seq(S)
  BY SeqMonotonic
<1>2. Plain(d) /\ d # <<>> /\ d[1] = n[1]
  BY KeptIsPlain, FirstIsKept DEF WithoutPrefix
<1> HIDE DEF d
<1>3. d \in Seq(Digits)
  BY <1>0, <1>2, PlainTail
<1>4. PrefixCity \in Seq(Digits) /\ Plain(PrefixCity) /\ PrefixCity # <<>>
  BY PrefixTypes, DigitsArePlain DEF SamplePrefixes
<1>5. /\ tc \in Seq(Digits) /\ Len(PrefixCity) \in Nat \ {0} /\ PrefixCity = zero \o tc
      /\ Len(tc) = Len(PrefixCity) - 1 /\ \A i \in 1 .. Len(tc) : tc[i] = PrefixCity[i + 1]
  <2>1. tc \in Seq(Digits) /\ Len(PrefixCity) \in Nat \ {0} /\ PrefixCity = zero \o tc
    BY <1>4, PlainTail DEF SamplePrefixes
  <2> QED BY <1>4, <2>1, HeadTailProperties
<1>6. ts \in Seq(Digits) /\ PrefixState = plus \o ts
  BY PlainTail DEF SamplePrefixes, StateWithPlus
<1> HIDE DEF tc, ts
<1>7. r \in Seq(Digits)
  BY <1>5, <1>6
<1>8. Digits \subseteq S /\ "+" \in S /\ "0" \in S
  BY DEF Characters1, Digits
<1> HIDE DEF S, r
<1>d. d \in Seq(S)
  BY <1>3, <1>8, SeqMonotonic
<1>tc. tc \in Seq(S)
  BY <1>5, <1>8, SeqMonotonic
<1>ts. ts \in Seq(S)
  BY <1>6, <1>8, SeqMonotonic
<1>r. r \in Seq(S)
  BY <1>7, <1>8, SeqMonotonic
<1>pc. PrefixCity \in Seq(S)
  BY <1>4, <1>8, SeqMonotonic
<1>plus. plus \in Seq(S)
  BY <1>8
<1>zeros. zeros \in Seq(S)
  BY <1>8
<1>zero. zero \in Seq(S)
  BY <1>8
<1>9. \A x \in Seq(S) : Tail(zero \o x) = x /\ Tail(plus \o x) = x
  BY <1>8
<1> HIDE DEF plus, zeros, zero
\* the texts
<1>11. city \in Seq(S) /\ Tail(city) = tc \o n
  <2>1. tc \o n \in Seq(S)
    BY <1>1, <1>tc
  <2>2. city = zero \o (tc \o n)
    BY <1>1, <1>5, <1>tc, <1>zero, ConcatAssociative
  <2>3. PrefixCity \o n \in Seq(S)
    BY <1>1, <1>pc
  <2> QED BY <1>9, <2>1, <2>2, <2>3
<1>12. state = (plus \o r) \o n /\ Tail(state) = r \o n
  <2>1. state = (plus \o ts) \o (tc \o n)
    BY <1>6, <1>11
  <2>2. (plus \o ts) \o (tc \o n) = plus \o (ts \o (tc \o n))
    <3> DEFINE w == tc \o n
    <3>1. w \in Seq(S)
      BY <1>1, <1>tc
    <3> HIDE DEF w
    <3>2. (plus \o ts) \o w = plus \o (ts \o w)
      BY <1>ts, <1>plus, <3>1, ConcatAssociative
    <3> QED BY <3>2 DEF w
  <2>3. ts \o (tc \o n) = r \o n
    BY <1>1, <1>tc, <1>ts, ConcatAssociative DEF r
  <2>4. plus \o (r \o n) = (plus \o r) \o n /\ r \o n \in Seq(S)
    BY <1>1, <1>r, <1>plus, ConcatAssociative
  <2> HIDE DEF state
  <2> QED BY <1>9, <2>1, <2>2, <2>3, <2>4
<1>13. abroad = (zeros \o r) \o n
  <2>1. zeros \o (r \o n) = (zeros \o r) \o n
    BY <1>1, <1>r, <1>zeros, ConcatAssociative
  <2> HIDE DEF state
  <2> QED BY <1>12, <2>1
<1> HIDE DEF state, abroad
\* what is kept of them
<1>14. Kept(city) = C
  BY <1>0, <1>1, <1>4, <1>pc, KeptBehind DEF d
<1>15. Kept(state) = form
  <2>1. Plain(plus \o r)
    BY <1>7, DigitsArePlain DEF plus
  <2>2. plus \o r \in Seq(S) /\ plus \o r # <<>>
    <3>1. plus # <<>>
      BY DEF plus
    <3> QED BY <1>r, <1>plus, <3>1, Begins
  <2> DEFINE p == plus \o r
  <2> HIDE DEF p
  <2>3. Kept(p \o n) = p \o d
    BY <1>0, <1>1, <2>1, <2>2, KeptBehind DEF p, d
  <2> QED BY <1>12, <2>3 DEF p
<1>16. zeros \o r \in Seq(Digits) /\ Len(zeros) = 2 /\ zeros[1] = "0" /\ zeros[2] = "0"
       /\ zeros \in Seq(Digits)
  <2>1. zeros \in Seq(Digits) /\ Len(zeros) = 2 /\ zeros[1] = "0" /\ zeros[2] = "0"
    BY DEF zeros, Digits
  <2> QED BY <1>7, <2>1
<1>17. Kept(abroad) = (zeros \o r) \o d
  <2>1. Plain(zeros \o r)
    BY <1>16, DigitsArePlain
  <2>2. zeros \o r \in Seq(S) /\ zeros \o r # <<>>
    <3>1. zeros # <<>>
      BY DEF zeros
    <3> QED BY <1>r, <1>zeros, <3>1, Begins
  <2> DEFINE p == zeros \o r
  <2> HIDE DEF p
  <2>3. Kept(p \o n) = p \o d
    BY <1>0, <1>1, <2>1, <2>2, KeptBehind DEF p, d
  <2> QED BY <1>13, <2>3 DEF p
\* their normal forms
<1>18. /\ C \in Seq(Digits) /\ Len(C) = Len(PrefixCity) + Len(d) /\ C # <<>>
       /\ C[1] = "0" /\ C[2] # "0" /\ Tail(C) = tc \o d
  <2>1. /\ C \in Seq(Digits) /\ Len(C) = Len(PrefixCity) + Len(d)
        /\ \A i \in 1 .. Len(PrefixCity) : C[i] = PrefixCity[i]
        /\ \A i \in 1 .. Len(d) : C[Len(PrefixCity) + i] = d[i]
    BY <1>3, <1>4, ConcatProperties
  <2>2. Len(d) \in Nat \ {0}
    BY <1>2, <1>3
  <2>3. Tail(C) = tc \o d
    <3>1. tc \o d \in Seq(S)
      BY <1>d, <1>tc
    <3>2. C = zero \o (tc \o d)
      BY <1>5, <1>d, <1>tc, <1>zero, ConcatAssociative
    <3> HIDE DEF C
    <3> QED BY <1>9, <3>1, <3>2
  <2> HIDE DEF C
  <2>4. C[1] = "0"
    <3>1. 1 \in 1 .. Len(PrefixCity)
      BY <1>5
    <3> QED BY <2>1, <3>1 DEF SamplePrefixes
  <2>5. C[2] # "0"
    <3>1. CASE Len(PrefixCity) > 1
      <4>1. 2 \in 1 .. Len(PrefixCity)
        BY <1>5, <3>1
      <4> QED BY <2>1, <3>1, <4>1 DEF SamplePrefixes
    <3>2. CASE ~(Len(PrefixCity) > 1)
      <4>1. Len(PrefixCity) = 1 /\ 1 \in 1 .. Len(d)
        BY <1>5, <2>2, <3>2
      <4>2. C[1 + 1] = d[1]
        BY <2>1, <4>1
      <4> QED BY <1>0, <1>2, <4>2
    <3> QED BY <3>1, <3>2
  <2>6. Len(C) # 0
    BY <1>5, <2>1, <2>2
  <2> QED BY <2>1, <2>3, <2>4, <2>5, <2>6
<1>19. WithState(C) = form
  <2>1. WithState(C) = PrefixState \o Tail(C)
    BY <1>18 DEF WithState, SamplePrefixes
  <2>2. (plus \o ts) \o (tc \o d) = plus \o (ts \o (tc \o d))
    <3> DEFINE w == tc \o d
    <3>1. w \in Seq(S)
      BY <1>d, <1>tc
    <3> HIDE DEF w
    <3>2. (plus \o ts) \o w = plus \o (ts \o w)
      BY <1>ts, <1>plus, <3>1, ConcatAssociative
    <3> QED BY <3>2 DEF w
  <2>3. ts \o (tc \o d) = r \o d
    BY <1>d, <1>tc, <1>ts, ConcatAssociative DEF r
  <2>4. plus \o (r \o d) = form
    <3> HIDE DEF C, city
    <3> QED BY <1>d, <1>r, <1>plus, ConcatAssociative, SMTT(30)
  <2> HIDE DEF C, form
  <2> QED BY <1>6, <1>18, <2>1, <2>2, <2>3, <2>4
<1>20. Normalize(n) = form
  <2>1. WithCity(d) = C /\ d[1] # "+"
    BY <1>0, <1>2 DEF WithCity
  <2> HIDE DEF C, form
  <2> QED BY <1>2, <1>19, <2>1 DEF Normalize, d
<1>21. Normalize(city) = form
  <2> HIDE DEF C, form, city
  <2>1. WithCity(C) = C /\ C[1] # "+"
    BY <1>18 DEF WithCity
  <2> QED BY <1>14, <1>18, <1>19, <2>1 DEF Normalize
<1>22. Normalize(state) = form
  <2>1. plus \o (r \o d) = form /\ r \o d \in Seq(S)
    BY <1>d, <1>r, <1>plus, ConcatAssociative
  <2>2. (plus \o (r \o d))[1] = "+"
    <3>1. plus # <<>> /\ plus[1] = "+"
      BY DEF plus
    <3> DEFINE x == r \o d
    <3> HIDE DEF x
    <3>2. x \in Seq(S)
      BY <2>1 DEF x
    <3>3. (plus \o x)[1] = "+"
      BY <1>plus, <3>1, <3>2, Begins
    <3> QED BY <3>3 DEF x
  <2> HIDE DEF form
  <2> QED BY <1>15, <2>1, <2>2 DEF Normalize
<1>23. Normalize(abroad) = form
  <2> DEFINE x == r \o d
             A == zeros \o x
  <2>1. x \in Seq(Digits) /\ x \in Seq(S)
    BY <1>3, <1>7, <1>d, <1>r
  <2>2. (zeros \o r) \o d = A /\ plus \o x = form
    <3>1. (zeros \o r) \o d = zeros \o (r \o d)
      BY <1>d, <1>r, <1>zeros, ConcatAssociative
    <3>2. (plus \o r) \o d = plus \o (r \o d)
      BY <1>d, <1>r, <1>plus, ConcatAssociative
    <3> QED BY <3>1, <3>2
  <2> HIDE DEF x
  <2>3. /\ A \in Seq(Digits) /\ Len(A) = 2 + Len(x) /\ A[1] = "0" /\ A[2] = "0"
        /\ \A i \in 1 .. Len(x) : A[2 + i] = x[i]
    <3>1. /\ A \in Seq(Digits) /\ Len(A) = Len(zeros) + Len(x)
          /\ \A i \in 1 .. Len(zeros) : A[i] = zeros[i]
          /\ \A i \in 1 .. Len(x) : A[Len(zeros) + i] = x[i]
      <4>1. zeros \in Seq(Digits)
        BY <1>16
      <4>2. x \in Seq(Digits)
        BY <2>1
      <4> QED BY <4>1, <4>2, ConcatProperties
    <3> HIDE DEF A
    <3> QED BY <1>16, <3>1
  <2> HIDE DEF A
  <2>4. Len(x) \in Nat
    BY <2>1
  <2>5. SubSeq(A, 3, Len(A)) = x
    <3>1. \A i \in 3 .. Len(A) : A[i] \in Digits
      BY <2>3, <2>4
    <3>2. /\ SubSeq(A, 3, Len(A)) \in Seq(Digits)
          /\ Len(SubSeq(A, 3, Len(A))) = Len(x)
          /\ \A i \in 1 .. Len(x) : SubSeq(A, 3, Len(A))[i] = x[i]
      <4>1. /\ SubSeq(A, 3, Len(A)) \in Seq(Digits)
            /\ Len(SubSeq(A, 3, Len(A))) = IF 3 <= Len(A) THEN Len(A) - 3 + 1 ELSE 0
            /\ \A i \in 1 .. Len(A) - 3 + 1 : SubSeq(A, 3, Len(A))[i] = A[3 + i - 1]
        BY <2>3, <2>4, <3>1, SubSeqProperties
      <4>2. Len(A) - 3 + 1 = Len(x) /\ (3 <= Len(A) \/ Len(x) = 0)
        BY <2>3, <2>4
      <4>3. \A i \in 1 .. Len(x) : 3 + i - 1 = 2 + i
        BY <2>4
      <4> QED BY <2>3, <2>4, <4>1, <4>2, <4>3
    <3> QED BY <2>1, <3>2, SeqEqual
  <2>6. A # <<>> /\ A[1] # "+" /\ Len(A) > 1
    <3>1. Len(A) > 1
      BY <2>3, <2>4
    <3> QED BY <2>3, <3>1
  <2>7. WithCity(A) = A
    BY <2>3 DEF WithCity
  <2>8. WithState(A) = plus \o x
    BY <2>3, <2>5, <2>6 DEF WithState, plus
  <2>9. Kept(abroad) = A
    BY <1>17, <2>2
  <2> HIDE DEF form
  <2> QED BY <2>2, <2>6, <2>7, <2>8, <2>9 DEF Normalize
<1> HIDE DEF form, city
<1> QED BY <1>20, <1>21, <1>22, <1>23 DEF state, abroad, zeros, city

\* l2f_PHONENUMBER_match takes the four ways to write a number of the own city
\* for one, for numbers of any length, if the prefixes are of the form that the
\* sample configuration gives them.
THEOREM OneSubscriberHolds ==
  ASSUME SamplePrefixes
  PROVE  MCSpec => []OneSubscriber
<1>1. number \in Seq(Characters) => OneSubscriber
  BY OneNormalForm DEF OneSubscriber, Match, WithoutPrefix
<1> QED BY <1>1, NumberIsText, PTL

-----------------------------------------------------------------------------
(* Lines of parameters *)

\* One parameter or more.
Some(C) == Seq(Seq(C)) \ {<<>>}

LEMMA SomeType ==
  ASSUME NEW C, NEW params \in Some(C)
  PROVE  params \in Seq(Seq(C)) /\ Len(params) \in Nat \ {0} /\ params[Len(params)] \in Seq(C)
<1>1. params \in Seq(Seq(C)) /\ params # <<>>
  BY DEF Some
<1>2. Len(params) \in Nat \ {0}
  BY <1>1
<1>3. Len(params) \in 1 .. Len(params)
  BY <1>2
<1> QED BY <1>1, <1>2, <1>3

\* A separator: what was there stays, and an empty parameter follows.
LEMMA SeparatorAdds ==
  ASSUME NEW C, NEW params \in Some(C)
  PROVE  /\ Append(params, <<>>) \in Some(C)
         /\ Len(Append(params, <<>>)) = Len(params) + 1
         /\ \A k \in 1 .. Len(params) : Append(params, <<>>)[k] = params[k]
         /\ Append(params, <<>>)[Len(params) + 1] = <<>>
<1>1. params \in Seq(Seq(C)) /\ Len(params) \in Nat \ {0}
  BY SomeType
<1> DEFINE T == Seq(C)
<1>2. <<>> \in T
  BY EmptySeq
<1> HIDE DEF T
<1>3. /\ Append(params, <<>>) \in Seq(T) /\ Len(Append(params, <<>>)) = Len(params) + 1
      /\ \A k \in 1 .. Len(params) : Append(params, <<>>)[k] = params[k]
      /\ Append(params, <<>>)[Len(params) + 1] = <<>>
  BY <1>1, <1>2, AppendProperties DEF T
<1>4. Append(params, <<>>) # <<>>
  BY <1>1, <1>3
<1> QED BY <1>3, <1>4 DEF Some, T

LastWith(params, c) == [params EXCEPT ![Len(params)] = Append(@, c)]

\* Any other character is added to the last one.
LEMMA CharacterAdds ==
  ASSUME NEW C, NEW params \in Some(C), NEW c \in C
  PROVE  /\ LastWith(params, c) \in Some(C)
         /\ Len(LastWith(params, c)) = Len(params)
         /\ \A k \in 1 .. Len(params) - 1 : LastWith(params, c)[k] = params[k]
         /\ LastWith(params, c)[Len(params)] = Append(params[Len(params)], c)
<1> DEFINE T == Seq(C)
           m == Len(params)
           last == Append(params[m], c)
           new == [params EXCEPT ![m] = last]
<1>1. params \in Seq(T) /\ m \in Nat \ {0} /\ params[m] \in T
  BY SomeType
<1>2. last \in T
  BY <1>1
<1>3. LastWith(params, c) = new
  BY DEF LastWith
<1> HIDE DEF T, last
<1>4. new \in Seq(T) /\ Len(new) = m
  BY <1>1, <1>2
<1>5. \A k \in 1 .. m - 1 : new[k] = params[k]
  BY <1>1
<1>6. new[m] = last
  BY <1>1
<1> HIDE DEF new
<1>7. new # <<>>
  BY <1>1, <1>4
<1> QED BY <1>1, <1>3, <1>4, <1>5, <1>6, <1>7 DEF Some, T, last

\* The equation of Parameters.
LEMMA ParametersEquation ==
  ASSUME NEW C, NEW text \in Seq(C), NEW sep
  PROVE  /\ Parameters(sep, text) \in [0 .. Len(text) -> Some(C)]
         /\ Parameters(sep, text)[0] = << <<>> >>
         /\ \A i \in 0 .. Len(text) - 1 :
              Parameters(sep, text)[i + 1] =
                IF text[i + 1] = sep THEN Append(Parameters(sep, text)[i], <<>>)
                ELSE LastWith(Parameters(sep, text)[i], text[i + 1])
<1> DEFINE n == Len(text)
           S == Some(C)
           first == << <<>> >>
           value(i, p) == IF text[i] = sep THEN Append(p, <<>>) ELSE LastWith(p, text[i])
           step == [x \in Nat \X S |-> IF x[1] \in 1 .. n THEN value(x[1], x[2]) ELSE x[2]]
<1>1. n \in Nat /\ \A i \in 1 .. n : text[i] \in C
  OBVIOUS
<1>2. \A i \in 1 .. n, p \in S : value(i, p) \in S
  BY <1>1, SeparatorAdds, CharacterAdds
<1>3. first \in S
  <2>1. <<>> \in Seq(C)
    BY EmptySeq
  <2>2. first \in Seq(Seq(C)) /\ first # <<>>
    BY <2>1
  <2> QED BY <2>2 DEF Some
<1> HIDE DEF S, first, value
<1>4. step \in [Nat \X S -> S]
  BY <1>2
<1>5. \A i \in 1 .. n, p \in S : step[<<i, p>>] = value(i, p)
  BY <1>1
<1> HIDE DEF n, step
<1>6. PICK g : g \in [0 .. n -> S] /\ Loop(g, n, first, step)
  BY <1>1, <1>3, <1>4, LoopExists
<1> DEFINE f == Parameters(sep, text)
<1>7. f = [i \in 0 .. n |-> IF i = 0 THEN first ELSE value(i, f[i - 1])]
  <2>1. \A i \in 0 .. n : i # 0 => i \in 1 .. n /\ i - 1 \in 0 .. n
    BY <1>1
  <2>2. g = [i \in 0 .. n |-> IF i = 0 THEN first ELSE value(i, g[i - 1])]
    BY <1>5, <1>6, <2>1 DEF Loop
  <2> QED BY <2>2 DEF Parameters, n, first, value, LastWith
<1> HIDE DEF f
<1>8. f[0] = first
  BY <1>1, <1>7
<1>9. ASSUME NEW i \in 0 .. n - 1 PROVE f[i + 1] = value(i + 1, f[i]) /\ i + 1 \in 1 .. n
  <2>1. i + 1 \in 0 .. n /\ i + 1 # 0 /\ (i + 1) - 1 = i /\ i + 1 \in 1 .. n
    BY <1>1
  <2> QED BY <1>7, <2>1
<1>10. \A i \in 0 .. n : f[i] \in S
  BY <1>1, <1>2, <1>3, <1>8, <1>9, LoopStays
<1>11. f \in [0 .. n -> S]
  BY <1>7, <1>10
<1> QED BY <1>8, <1>9, <1>11 DEF f, n, S, first, value

\* The equation of Joined.
LEMMA JoinedEquation ==
  ASSUME NEW C, NEW texts \in Seq(Seq(C)), NEW sep \in C
  PROVE  /\ Joined(sep, texts) \in [0 .. Len(texts) -> Seq(C)]
         /\ Joined(sep, texts)[0] = <<>>
         /\ \A k \in 0 .. Len(texts) - 1 :
              Joined(sep, texts)[k + 1] = Joined(sep, texts)[k] \o (<<sep>> \o texts[k + 1])
<1> DEFINE n == Len(texts)
           S == Seq(C)
           value(k, t) == t \o (<<sep>> \o texts[k])
           step == [x \in Nat \X S |-> IF x[1] \in 1 .. n THEN value(x[1], x[2]) ELSE x[2]]
<1>1. n \in Nat /\ \A k \in 1 .. n : texts[k] \in S
  OBVIOUS
<1>2. \A k \in 1 .. n, t \in S : value(k, t) \in S
  <2>1. \A k \in 1 .. n : <<sep>> \o texts[k] \in S
    BY <1>1
  <2> QED BY <2>1
<1>3. <<>> \in S
  BY EmptySeq
<1> HIDE DEF S, value
<1>4. step \in [Nat \X S -> S]
  BY <1>2
<1>5. \A k \in 1 .. n, t \in S : step[<<k, t>>] = value(k, t)
  BY <1>1
<1> HIDE DEF n, step
<1>6. PICK g : g \in [0 .. n -> S] /\ Loop(g, n, <<>>, step)
  BY <1>1, <1>3, <1>4, LoopExists
<1> DEFINE f == Joined(sep, texts)
<1>7. f = [k \in 0 .. n |-> IF k = 0 THEN <<>> ELSE value(k, f[k - 1])]
  <2>1. \A k \in 0 .. n : k # 0 => k \in 1 .. n /\ k - 1 \in 0 .. n
    BY <1>1
  <2>2. g = [k \in 0 .. n |-> IF k = 0 THEN <<>> ELSE value(k, g[k - 1])]
    BY <1>5, <1>6, <2>1 DEF Loop
  <2> QED BY <2>2 DEF Joined, n, value
<1> HIDE DEF f
<1>8. f[0] = <<>>
  BY <1>1, <1>7
<1>9. ASSUME NEW k \in 0 .. n - 1 PROVE f[k + 1] = value(k + 1, f[k]) /\ k + 1 \in 1 .. n
  <2>1. k + 1 \in 0 .. n /\ k + 1 # 0 /\ (k + 1) - 1 = k /\ k + 1 \in 1 .. n
    BY <1>1
  <2> QED BY <1>7, <2>1
<1>10. \A k \in 0 .. n : f[k] \in S
  BY <1>1, <1>2, <1>3, <1>8, <1>9, LoopStays
<1>11. f \in [0 .. n -> S]
  BY <1>7, <1>10
<1> QED BY <1>8, <1>9, <1>11 DEF f, n, S, value

\* Joining stops to depend on a list where it stops to read it.
LEMMA JoinedAgree ==
  ASSUME NEW C, NEW sep \in C, NEW texts \in Seq(Seq(C)), NEW others \in Seq(Seq(C)),
         NEW m \in Nat, m <= Len(texts), m <= Len(others),
         \A k \in 1 .. m : texts[k] = others[k]
  PROVE  Joined(sep, texts)[m] = Joined(sep, others)[m]
<1> DEFINE f == Joined(sep, texts)
           g == Joined(sep, others)
           T == {k \in Nat : f[k] = g[k]}
<1>1. f[0] = <<>> /\ \A k \in 0 .. Len(texts) - 1 : f[k + 1] = f[k] \o (<<sep>> \o texts[k + 1])
  BY JoinedEquation
<1>2. g[0] = <<>> /\ \A k \in 0 .. Len(others) - 1 : g[k + 1] = g[k] \o (<<sep>> \o others[k + 1])
  BY JoinedEquation
<1>3. Len(texts) \in Nat /\ Len(others) \in Nat
  OBVIOUS
<1> HIDE DEF f, g
<1>4. 0 \in T
  BY <1>1, <1>2
<1>5. ASSUME NEW k \in 0 .. m - 1, k \in T PROVE k + 1 \in T
  <2>1. k \in 0 .. Len(texts) - 1 /\ k \in 0 .. Len(others) - 1 /\ k + 1 \in 1 .. m /\ k + 1 \in Nat
    BY <1>3
  <2>2. f[k + 1] = f[k] \o (<<sep>> \o texts[k + 1])
    BY <1>1, <2>1
  <2>3. g[k + 1] = g[k] \o (<<sep>> \o others[k + 1])
    BY <1>2, <2>1
  <2>4. f[k] = g[k] /\ texts[k + 1] = others[k + 1]
    BY <1>5, <2>1
  <2> QED BY <2>1, <2>2, <2>3, <2>4
<1> HIDE DEF T
<1>6. \A k \in 0 .. m : k \in T
  BY <1>4, <1>5, AllUpTo
<1>7. m \in T
  BY <1>6
<1> QED BY <1>7 DEF T, f, g

\* A text up to the next character.
LEMMA UpToNext ==
  ASSUME NEW C, NEW text \in Seq(C), NEW i \in 0 .. Len(text) - 1
  PROVE  /\ SubSeq(text, 1, i) \in Seq(C)
         /\ text[i + 1] \in C
         /\ SubSeq(text, 1, i + 1) = SubSeq(text, 1, i) \o <<text[i + 1]>>
<1>1. Len(text) \in Nat /\ i \in Nat /\ i + 1 \in 1 .. Len(text) /\ i <= Len(text)
  OBVIOUS
<1>2. text[i + 1] \in C
  BY <1>1
<1> DEFINE u == SubSeq(text, 1, i)
           w == SubSeq(text, 1, i + 1)
           x == text[i + 1]
<1>3. u \in Seq(C) /\ Len(u) = i /\ \A j \in 1 .. i : u[j] = text[j]
  BY <1>1
<1>4. w \in Seq(C) /\ Len(w) = i + 1 /\ \A j \in 1 .. i + 1 : w[j] = text[j]
  BY <1>1
<1> HIDE DEF u, w
<1>5. w[i + 1] = x
  BY <1>1, <1>4
<1> HIDE DEF x
<1>6. u \o <<x>> \in Seq(C) /\ Len(u \o <<x>>) = i + 1
      /\ (\A j \in 1 .. i : (u \o <<x>>)[j] = u[j]) /\ (u \o <<x>>)[i + 1] = x
  BY <1>1, <1>2, <1>3 DEF x
<1>7. ASSUME NEW j \in 1 .. i + 1 PROVE (u \o <<x>>)[j] = w[j]
  <2>1. CASE j = i + 1
    BY <1>5, <1>6, <2>1
  <2>2. CASE j # i + 1
    <3>1. j \in 1 .. i
      BY <1>1, <2>2
    <3> QED BY <1>3, <1>4, <1>6, <3>1
  <2> QED BY <2>1, <2>2
<1>8. u \o <<x>> = w
  <2> DEFINE v == u \o <<x>>
  <2>1. v \in Seq(C) /\ Len(v) = i + 1 /\ \A j \in 1 .. i + 1 : v[j] = w[j]
    BY <1>6, <1>7
  <2> HIDE DEF v
  <2>2. v = w
    BY <1>4, <2>1, SeqEqual
  <2> QED BY <2>2 DEF v
<1> QED BY <1>2, <1>3, <1>8 DEF u, w, x

\* The last one is joined last.
LEMMA JoinedLast ==
  ASSUME NEW C, NEW sep \in C, NEW params \in Some(C)
  PROVE  /\ Joined(sep, params)[Len(params) - 1] \in Seq(C)
         /\ Joined(sep, params)[Len(params)] \in Seq(C)
         /\ Joined(sep, params)[Len(params)] =
              Joined(sep, params)[Len(params) - 1] \o (<<sep>> \o params[Len(params)])
<1> DEFINE m == Len(params)
           j == Joined(sep, params)
<1>1. m \in Nat \ {0} /\ params \in Seq(Seq(C)) /\ params[m] \in Seq(C)
  BY SomeType
<1>2. /\ j \in [0 .. Len(params) -> Seq(C)]
      /\ \A k \in 0 .. Len(params) - 1 : j[k + 1] = j[k] \o (<<sep>> \o params[k + 1])
  BY <1>1, JoinedEquation
<1> HIDE DEF m, j
<1>3. m - 1 \in 0 .. m - 1 /\ m - 1 \in 0 .. m /\ m \in 0 .. m /\ (m - 1) + 1 = m
  BY <1>1
<1>4. j[m - 1] \in Seq(C) /\ j[m] \in Seq(C) /\ j[m] = j[m - 1] \o (<<sep>> \o params[m])
  BY <1>2, <1>3 DEF m
<1> QED BY <1>4 DEF m, j

\* What a separator, and another character, make of the list p.
NewLast(p, q) ==
  Len(q) = Len(p) + 1 /\ (\A k \in 1 .. Len(p) : q[k] = p[k]) /\ q[Len(p) + 1] = <<>>

LongerLast(p, q, c) ==
  /\ Len(q) = Len(p) /\ \A k \in 1 .. Len(p) - 1 : q[k] = p[k]
  /\ q[Len(p)] = Append(p[Len(p)], c)

\* A separator adds itself.
LEMMA JoinedSeparator ==
  ASSUME NEW C, NEW sep \in C, NEW p \in Some(C), NEW q \in Some(C), NewLast(p, q)
  PROVE  Joined(sep, q)[Len(q)] = Joined(sep, p)[Len(p)] \o <<sep>>
<1> DEFINE m == Len(p)
<1>1. m \in Nat \ {0} /\ p \in Seq(Seq(C))
  BY SomeType
<1>2. Len(q) = m + 1 /\ (\A k \in 1 .. m : q[k] = p[k]) /\ q[m + 1] = <<>>
  BY DEF NewLast
<1>3. q \in Seq(Seq(C))
  BY <1>2, SomeType
<1>4. m \in Nat /\ m <= Len(q) /\ m <= Len(p) /\ (m + 1) - 1 = m
  BY <1>1, <1>2
<1>5. \A k \in 1 .. m : q[k] = p[k]
  BY <1>2
<1> HIDE DEF m
<1>6. Joined(sep, q)[m] = Joined(sep, p)[m]
  BY <1>1, <1>3, <1>4, <1>5, JoinedAgree
<1>7. Joined(sep, q)[m + 1] = Joined(sep, q)[m] \o (<<sep>> \o <<>>)
  <2>1. Joined(sep, q)[Len(q)] = Joined(sep, q)[Len(q) - 1] \o (<<sep>> \o q[Len(q)])
    BY <1>2, JoinedLast
  <2> QED BY <1>2, <1>4, <2>1
<1>8. <<sep>> \o <<>> = <<sep>>
  OBVIOUS
<1> QED BY <1>2, <1>6, <1>7, <1>8 DEF m

\* A character adds itself.
LEMMA JoinedCharacter ==
  ASSUME NEW C, NEW sep \in C, NEW p \in Some(C), NEW c \in C, NEW q \in Some(C),
         LongerLast(p, q, c)
  PROVE  Joined(sep, q)[Len(q)] = Joined(sep, p)[Len(p)] \o <<c>>
<1> DEFINE m == Len(p)
           l == p[m]
           j == Joined(sep, p)[m - 1]
<1>1. m \in Nat \ {0} /\ p \in Seq(Seq(C)) /\ l \in Seq(C)
  BY SomeType
<1>2. Len(q) = m /\ (\A k \in 1 .. m - 1 : q[k] = p[k]) /\ q[m] = Append(l, c)
  BY DEF LongerLast
<1>3. q \in Seq(Seq(C))
  BY <1>2, SomeType
<1>4. m - 1 \in Nat /\ m - 1 <= Len(q) /\ m - 1 <= Len(p)
  BY <1>1, <1>2
<1>5. \A k \in 1 .. m - 1 : q[k] = p[k]
  BY <1>2
<1>p. j \in Seq(C) /\ Joined(sep, p)[m] = j \o (<<sep>> \o l)
  BY JoinedLast
<1>6. Joined(sep, q)[m - 1] = j
  <2> DEFINE k == m - 1
  <2>1. k \in Nat /\ k <= Len(q) /\ k <= Len(p)
    BY <1>4
  <2>2. \A i \in 1 .. k : q[i] = p[i]
    BY <1>5
  <2> HIDE DEF k
  <2>3. Joined(sep, q)[k] = Joined(sep, p)[k]
    BY <1>1, <1>3, <2>1, <2>2, JoinedAgree
  <2> QED BY <2>3 DEF k
<1> HIDE DEF m, l, j
<1>7. Joined(sep, q)[m] = j \o (<<sep>> \o Append(l, c))
  <2>1. Joined(sep, q)[Len(q)] = Joined(sep, q)[Len(q) - 1] \o (<<sep>> \o q[Len(q)])
    BY <1>2, JoinedLast
  <2> QED BY <1>2, <1>6, <2>1
<1>8. Append(l, c) = l \o <<c>>
  BY <1>1, AppendIsConcat
<1>9. j \o (<<sep>> \o (l \o <<c>>)) = (j \o (<<sep>> \o l)) \o <<c>>
  <2> DEFINE y == <<sep>> \o l
             k == <<c>>
  <2>1. y \in Seq(C)
    BY <1>1
  <2>4. k \in Seq(C)
    OBVIOUS
  <2>5. j \in Seq(C)
    BY <1>p
  <2>2. (<<sep>> \o l) \o <<c>> = <<sep>> \o (l \o <<c>>)
    BY <1>1, ConcatAssociative
  <2> HIDE DEF y, k
  <2>3. (j \o y) \o k = j \o (y \o k)
    BY <2>1, <2>4, <2>5, ConcatAssociative
  <2> QED BY <2>2, <2>3 DEF y, k
<1> QED BY <1>2, <1>p, <1>7, <1>8, <1>9 DEF m

\* Put together, the parameters of the first characters are these characters.
LEMMA JoinedParameters ==
  ASSUME NEW C, NEW text \in Seq(C), NEW sep \in C
  PROVE  \A i \in 0 .. Len(text) :
           LET params == Parameters(sep, text)[i]
           IN  Joined(sep, params)[Len(params)] = <<sep>> \o SubSeq(text, 1, i)
<1> DEFINE n == Len(text)
           f == Parameters(sep, text)
           J(params) == Joined(sep, params)[Len(params)]
           T == {i \in Nat : J(f[i]) = <<sep>> \o SubSeq(text, 1, i)}
<1>1. n \in Nat /\ <<sep>> \in Seq(C)
  OBVIOUS
<1>2. /\ f \in [0 .. n -> Some(C)] /\ f[0] = << <<>> >>
      /\ \A i \in 0 .. n - 1 :
           f[i + 1] = IF text[i + 1] = sep THEN Append(f[i], <<>>) ELSE LastWith(f[i], text[i + 1])
  BY ParametersEquation
<1> HIDE DEF f
<1>4. 0 \in T
  <2> DEFINE p == f[0]
  <2>0. 0 \in 0 .. n
    BY <1>1
  <2>1. p \in Some(C) /\ p = << <<>> >>
    BY <1>2, <2>0
  <2>2. Len(p) = 1 /\ p[1] = <<>>
    BY <2>1
  <2>3. p \in Seq(Seq(C))
    BY <2>1, SomeType
  <2> HIDE DEF p
  <2>4. Joined(sep, p)[Len(p)] = Joined(sep, p)[0] \o (<<sep>> \o <<>>)
    <3>1. Joined(sep, p)[Len(p)] = Joined(sep, p)[Len(p) - 1] \o (<<sep>> \o p[Len(p)])
      BY <2>1, JoinedLast
    <3>2. Len(p) - 1 = 0
      BY <2>2
    <3> QED BY <2>2, <3>1, <3>2
  <2>5. Joined(sep, p)[0] = <<>>
    BY <2>3, JoinedEquation
  <2>6. <<>> \o (<<sep>> \o <<>>) = <<sep>> \o <<>>
    OBVIOUS
  <2>7. SubSeq(text, 1, 0) = <<>>
    OBVIOUS
  <2> QED BY <2>4, <2>5, <2>6, <2>7 DEF p
<1>5. ASSUME NEW i \in 0 .. n - 1, i \in T PROVE i + 1 \in T
  <2> DEFINE p == f[i]
             q == f[i + 1]
             c == text[i + 1]
             u == SubSeq(text, 1, i)
             w == SubSeq(text, 1, i + 1)
  <2>0. i \in 0 .. n /\ i + 1 \in 0 .. n /\ i + 1 \in Nat
    BY <1>1
  <2>1. p \in Some(C) /\ q = IF c = sep THEN Append(p, <<>>) ELSE LastWith(p, c)
    BY <1>2, <2>0
  <2>2. c \in C /\ u \in Seq(C) /\ w = u \o <<c>>
    BY UpToNext
  <2>3. J(p) = <<sep>> \o u
    BY <1>5
  <2> HIDE DEF p, q, c, u, w
  <2>4. J(q) = J(p) \o <<c>>
    <3>1. CASE c = sep
      <4>1. q \in Some(C) /\ NewLast(p, q)
        BY <2>1, <3>1, SeparatorAdds DEF NewLast
      <4>2. Joined(sep, q)[Len(q)] = Joined(sep, p)[Len(p)] \o <<sep>>
        <5>1. p \in Some(C)
          BY <2>1
        <5> QED BY <4>1, <5>1, JoinedSeparator
      <4> QED BY <3>1, <4>2
    <3>2. CASE c # sep
      <4>1. q \in Some(C) /\ LongerLast(p, q, c)
        BY <2>1, <2>2, <3>2, CharacterAdds DEF LongerLast
      <4>2. Joined(sep, q)[Len(q)] = Joined(sep, p)[Len(p)] \o <<c>>
        <5>1. p \in Some(C)
          BY <2>1
        <5>2. c \in C
          BY <2>2
        <5> QED BY <4>1, <5>1, <5>2, JoinedCharacter
      <4> QED BY <4>2
    <3> QED BY <3>1, <3>2
  <2> HIDE DEF J
  <2>5. (<<sep>> \o u) \o <<c>> = <<sep>> \o (u \o <<c>>)
    <3>1. <<c>> \in Seq(C)
      BY <2>2
    <3> QED BY <1>1, <2>2, <3>1, ConcatAssociative
  <2>6. J(q) = <<sep>> \o w
    BY <2>2, <2>3, <2>4, <2>5
  <2> QED BY <2>0, <2>6 DEF q, w
<1> HIDE DEF T
<1>6. \A i \in 0 .. n : i \in T
  BY <1>1, <1>4, <1>5, AllUpTo
<1> QED BY <1>6 DEF T, f, n

\* The first parameter is empty only where the first character is a separator.
LEMMA FirstParameter ==
  ASSUME NEW C, NEW text \in Seq(C), NEW sep, text # <<>>, text[1] # sep
  PROVE  Parameters(sep, text)[Len(text)][1] # <<>>
<1> DEFINE n == Len(text)
           f == Parameters(sep, text)
           T == {i \in Nat : i = 0 \/ f[i][1] # <<>>}
<1>1. n \in Nat \ {0} /\ \A i \in 1 .. n : text[i] \in C
  OBVIOUS
<1>2. /\ f \in [0 .. n -> Some(C)] /\ f[0] = << <<>> >>
      /\ \A i \in 0 .. n - 1 :
           f[i + 1] = IF text[i + 1] = sep THEN Append(f[i], <<>>) ELSE LastWith(f[i], text[i + 1])
  BY ParametersEquation
<1> HIDE DEF f, n
<1>3. 0 \in T
  OBVIOUS
<1>4. ASSUME NEW i \in 0 .. n - 1, i \in T PROVE i + 1 \in T
  <2> DEFINE p == f[i]
             q == f[i + 1]
             c == text[i + 1]
             m == Len(p)
  <2>0. i \in 0 .. n /\ i + 1 \in 1 .. n /\ i + 1 \in Nat
    BY <1>1
  <2>1. p \in Some(C) /\ q = (IF c = sep THEN Append(p, <<>>) ELSE LastWith(p, c)) /\ c \in C
    BY <1>1, <1>2, <2>0
  <2>2. i = 0 => m = 1 /\ c # sep
    <3> SUFFICES ASSUME i = 0 PROVE m = 1 /\ c # sep
      OBVIOUS
    <3>1. c = text[1] /\ p = << <<>> >>
      BY <1>2
    <3> QED BY <3>1
  <2>3. i # 0 => p[1] # <<>>
    BY <1>4
  <2> HIDE DEF p, q, c, m
  <2>4. m \in Nat \ {0} /\ p[m] \in Seq(C)
    BY <2>1, SomeType DEF m
  <2>5. CASE c = sep
    <3>1. q[1] = p[1]
      <4>1. \A k \in 1 .. m : q[k] = p[k]
        BY <2>1, <2>5, SeparatorAdds DEF m
      <4>2. 1 \in 1 .. m
        BY <2>4
      <4> QED BY <4>1, <4>2
    <3>2. q[1] # <<>>
      BY <2>2, <2>3, <2>5, <3>1
    <3> QED BY <2>0, <3>2 DEF q
  <2>6. CASE c # sep
    <3>1. (\A k \in 1 .. m - 1 : q[k] = p[k]) /\ q[m] = Append(p[m], c)
      BY <2>1, <2>6, CharacterAdds DEF m
    <3>2. Append(p[m], c) # <<>>
      <4> DEFINE l == p[m]
      <4>1. l \in Seq(C)
        BY <2>4
      <4>2. c \in C
        BY <2>1
      <4> HIDE DEF l
      <4>3. Append(l, c) # <<>>
        BY <4>1, <4>2
      <4> QED BY <4>3 DEF l
    <3>3. CASE m = 1
      <4>1. q[1] # <<>>
        BY <3>1, <3>2, <3>3
      <4> QED BY <2>0, <4>1 DEF q
    <3>4. CASE m # 1
      <4>1. 1 \in 1 .. m - 1 /\ i # 0
        BY <2>2, <2>4, <3>4
      <4>2. q[1] # <<>>
        BY <2>3, <3>1, <4>1
      <4> QED BY <2>0, <4>2 DEF q
    <3> QED BY <3>3, <3>4
  <2> QED BY <2>5, <2>6
<1> HIDE DEF T
<1>5. \A i \in 0 .. n : i \in T
  BY <1>1, <1>3, <1>4, AllUpTo
<1>6. n \in T /\ n # 0
  BY <1>1, <1>5
<1> QED BY <1>6 DEF T, f, n

\* util_splitinput loses and moves nothing, in lines of any length and of any
\* characters, if the first parameter is not empty.
THEOREM ParametersInPlaceHolds == MCSpec => []ParametersInPlace
<1>1. ASSUME number \in Seq(Characters) PROVE ParametersInPlace
  <2> DEFINE C == Characters \union {"-"}
             last == Parameters("-", number)[Len(number)]
             joined == Joined("-", last)[Len(last)]
  <2>1. number \in Seq(C)
    BY <1>1, SeqMonotonic
  <2>2. "-" \in C
    OBVIOUS
  <2> HIDE DEF C
  <2>3. Len(number) \in 0 .. Len(number) /\ SubSeq(number, 1, Len(number)) = number
    BY <2>1
  <2>4. joined = <<"-">> \o number
    BY <2>1, <2>2, <2>3, JoinedParameters
  <2>5. last # <<>>
    <3>1. last \in Some(C)
      BY <2>1, <2>3, ParametersEquation
    <3> QED BY <3>1 DEF Some
  <2>6. last[1] = <<>> => number = <<>> \/ number[1] = "-"
    BY <2>1, FirstParameter
  <2>7. Split("-", number) = IF last[1] = <<>> THEN <<>> ELSE last
    BY DEF Split
  <2> HIDE DEF last
  <2>8. CASE last[1] = <<>>
    BY <2>6, <2>7, <2>8 DEF ParametersInPlace
  <2>9. CASE last[1] # <<>>
    <3>1. Split("-", number) = last
      BY <2>7, <2>9
    <3> QED BY <2>4, <2>5, <3>1 DEF ParametersInPlace
  <2> QED BY <2>8, <2>9
<1> QED BY <1>1, NumberIsText, PTL

-----------------------------------------------------------------------------
(* Formats: the texts of the directives *)

\* The equation of Decimal.
LEMMA DecimalEquation ==
  /\ Decimal \in [Nat -> Seq(Digits)]
  /\ \A n \in Nat : Decimal[n] = IF n < 10 THEN <<DigitChars[n + 1]>>
                                 ELSE Append(Decimal[n \div 10], DigitChars[(n % 10) + 1])
<1> DEFINE D == Seq(Digits)
           S == [Nat -> D]
           value(g, n) == IF n < 10 THEN <<DigitChars[n + 1]>>
                          ELSE Append(g[n \div 10], DigitChars[(n % 10) + 1])
           first == [n \in Nat |-> <<>>]
           step == [x \in Nat \X S |-> [n \in Nat |-> value(x[2], n)]]
<1>1. \A n \in Nat : n \div 10 \in Nat /\ (n % 10) + 1 \in 1 .. 10 /\ (n >= 10 => n \div 10 < n)
  OBVIOUS
<1>2. ASSUME NEW i \in 1 .. 10 PROVE DigitChars[i] \in Digits
  BY DEF DigitChars, Digits
<1>3. ASSUME NEW g, NEW n \in Nat, n >= 10 => g[n \div 10] \in D PROVE value(g, n) \in D
  <2>1. CASE n < 10
    <3>1. n + 1 \in 1 .. 10
      BY <2>1
    <3>2. DigitChars[n + 1] \in Digits
      BY <1>2, <3>1
    <3> QED BY <2>1, <3>2
  <2>2. CASE ~(n < 10)
    <3>1. g[n \div 10] \in D /\ DigitChars[(n % 10) + 1] \in Digits
      BY <1>1, <1>2, <1>3, <2>2
    <3>2. Append(g[n \div 10], DigitChars[(n % 10) + 1]) \in D
      BY <3>1, AppendProperties
    <3> QED BY <2>2, <3>2
  <2> QED BY <2>1, <2>2
<1>4. first \in S
  <2>1. <<>> \in D
    BY EmptySeq
  <2> HIDE DEF D
  <2> QED BY <2>1
<1> HIDE DEF D, first
<1>5. step \in [Nat \X S -> S]
  <2> SUFFICES ASSUME NEW g \in S, NEW n \in Nat PROVE value(g, n) \in D
    <3> HIDE DEF value
    <3> QED OBVIOUS
  <2>1. n >= 10 => g[n \div 10] \in D
    BY <1>1
  <2> HIDE DEF value
  <2> QED BY <1>3, <2>1
<1>6. \A k \in Nat, g \in S : step[<<k, g>>] = [n \in Nat |-> value(g, n)]
  <2> HIDE DEF value
  <2> QED OBVIOUS
<1> HIDE DEF step
<1>7. PICK h : h \in [Nat -> S] /\ StepsOnNat(h, first, step)
  BY <1>4, <1>5, RecursionOnNat
<1>8. ASSUME NEW k \in Nat, NEW n \in Nat PROVE h[k] \in S /\ h[k + 1][n] = value(h[k], n)
  <2> HIDE DEF value, S
  <2>1. h[k] \in S /\ k + 1 \in Nat
    BY <1>7
  <2>2. h[k + 1] = step[<<k + 1, h[k]>>]
    BY <1>7 DEF StepsOnNat
  <2>3. h[k + 1] = [m \in Nat |-> value(h[k], m)]
    BY <1>6, <2>1, <2>2
  <2> QED BY <2>1, <2>3
<1> HIDE DEF S
<1> DEFINE T == {k \in Nat : \A n \in Nat : n <= k => h[k + 1][n] = h[(k + 1) + 1][n]}
<1>9. 0 \in T
  <2>1. ASSUME NEW n \in Nat, n <= 0 PROVE h[0 + 1][n] = h[(0 + 1) + 1][n]
    <3>1. n < 10 /\ 0 + 1 \in Nat
      BY <2>1
    <3>2. h[0 + 1][n] = value(h[0], n) /\ h[(0 + 1) + 1][n] = value(h[0 + 1], n)
      <4> HIDE DEF value
      <4> QED BY <1>8, <3>1
    <3> QED BY <3>1, <3>2
  <2> QED BY <2>1
<1>10. ASSUME NEW k \in Nat, k \in T PROVE k + 1 \in T
  <2>1. ASSUME NEW n \in Nat, n <= k + 1 PROVE h[(k + 1) + 1][n] = h[((k + 1) + 1) + 1][n]
    <3>1. k + 1 \in Nat /\ (k + 1) + 1 \in Nat
      OBVIOUS
    <3>2. h[(k + 1) + 1][n] = value(h[k + 1], n) /\ h[((k + 1) + 1) + 1][n] = value(h[(k + 1) + 1], n)
      BY <1>8, <3>1
    <3>3. CASE n < 10
      BY <3>2, <3>3
    <3>4. CASE ~(n < 10)
      <4>1. n \div 10 \in Nat /\ n \div 10 <= k
        BY <1>1, <2>1, <3>4
      <4>2. h[k + 1][n \div 10] = h[(k + 1) + 1][n \div 10]
        BY <1>10, <4>1
      <4> QED BY <3>2, <3>4, <4>2
    <3> QED BY <3>3, <3>4
  <2> QED BY <2>1
<1>11. \A k \in Nat : k \in T
  <2> HIDE DEF T
  <2> QED BY <1>9, <1>10, AllNumbers
<1>12. ASSUME NEW n \in Nat, NEW k \in Nat, n <= k PROVE h[k + 1][n] = h[n + 1][n]
  <2> DEFINE U == {j \in Nat : h[(n + j) + 1][n] = h[n + 1][n]}
  <2>1. 0 \in U
    <3>1. n + 0 = n
      OBVIOUS
    <3> QED BY <3>1
  <2>2. ASSUME NEW j \in Nat, j \in U PROVE j + 1 \in U
    <3>1. n + j \in Nat /\ n <= n + j /\ n + (j + 1) = (n + j) + 1 /\ j + 1 \in Nat
      OBVIOUS
    <3>2. n + j \in T
      BY <1>11, <3>1
    <3>3. h[(n + j) + 1][n] = h[((n + j) + 1) + 1][n]
      BY <3>1, <3>2
    <3> QED BY <2>2, <3>1, <3>3
  <2> HIDE DEF U
  <2>3. \A j \in Nat : j \in U
    BY <2>1, <2>2, AllNumbers
  <2>4. k - n \in Nat /\ n + (k - n) = k
    BY <1>12
  <2>5. k - n \in U
    BY <2>3, <2>4
  <2> QED BY <2>4, <2>5 DEF U
<1> DEFINE f == [n \in Nat |-> h[n + 1][n]]
<1>13. f \in [Nat -> D]
  <2> SUFFICES ASSUME NEW n \in Nat PROVE h[n + 1][n] \in D
    OBVIOUS
  <2>1. n + 1 \in Nat
    OBVIOUS
  <2> QED BY <1>8, <2>1 DEF S
<1>14. ASSUME NEW n \in Nat PROVE f[n] = value(f, n)
  <2>1. f[n] = value(h[n], n)
    BY <1>8
  <2>2. CASE n < 10
    BY <2>1, <2>2
  <2>3. CASE ~(n < 10)
    <3>1. n \div 10 \in Nat /\ n - 1 \in Nat /\ n \div 10 <= n - 1 /\ (n - 1) + 1 = n
      BY <1>1, <2>3
    <3>2. h[(n - 1) + 1][n \div 10] = h[(n \div 10) + 1][n \div 10]
      BY <1>12, <3>1
    <3>3. f[n \div 10] = h[n][n \div 10]
      BY <3>1, <3>2
    <3> QED BY <2>1, <2>3, <3>3
  <2> QED BY <2>2, <2>3
<1>15. f = [n \in Nat |-> value(f, n)]
  <2> HIDE DEF value
  <2> QED BY <1>14
<1> HIDE DEF f
<1>16. Decimal = [n \in Nat |-> value(Decimal, n)]
  BY <1>15 DEF Decimal
<1>17. \A n \in Nat : Decimal[n] = value(Decimal, n)
  <2> HIDE DEF value
  <2> QED BY <1>16
<1>18. ASSUME NEW n \in Nat PROVE Decimal[n] \in D
  <2> DEFINE Bad == {m \in Nat : Decimal[m] \notin D}
  <2> SUFFICES ASSUME Bad # {} PROVE FALSE
    OBVIOUS
  <2>1. PICK m \in Bad : \A k \in Bad : ~(k < m)
    BY LeastNumber
  <2>2. m \in Nat /\ (m >= 10 => m \div 10 \in Nat /\ m \div 10 < m)
    BY <1>1
  <2>3. m >= 10 => Decimal[m \div 10] \in D
    BY <2>1, <2>2
  <2> HIDE DEF value
  <2>4. value(Decimal, m) \in D
    BY <1>3, <2>2, <2>3
  <2> QED BY <1>17, <2>1, <2>4
<1>19. Decimal \in [Nat -> D]
  <2> HIDE DEF value
  <2> QED BY <1>16, <1>18
<1> QED BY <1>17, <1>19 DEF D

-----------------------------------------------------------------------------
\* What l2f_EVENT_format writes itself.
Signs ==
  Digits \union {":", "I", "N", "O", "U", "T", "%", "\\"}
         \union {type2string[type] : type \in DOMAIN type2string}
         \union {Escape[c] : c \in DOMAIN Escape}

\* Events with texts of the characters L.
Event(L) ==
  [type : DOMAIN type2string, pretype : DOMAIN type2string, incoming : BOOLEAN,
   line : Nat, duration : Nat, caller_number : Seq(L), caller_name : Seq(L),
   called_number : Seq(L), called_name : Seq(L),
   hour : Nat, min : Nat, sec : Nat, time : L, datetime : L]

LEMMA DirectiveType ==
  ASSUME NEW L, Signs \subseteq L, NoNumberText \in Seq(L), NEW e \in Event(L), NEW d \in Directives
  PROVE  Directive(d, e) \in Seq(L)
<1> DEFINE T == Seq(L)
<1>1. \A n \in Nat : Decimal[n] \in T
  <2> SUFFICES ASSUME NEW n \in Nat PROVE Decimal[n] \in T
    OBVIOUS
  <2>1. Digits \subseteq L
    BY DEF Signs
  <2>2. Decimal[n] \in Seq(Digits)
    BY DecimalEquation
  <2> QED BY <2>1, <2>2, SeqMonotonic
<1>2. \A n \in Nat : TwoDigits(n) \in T
  <2> SUFFICES ASSUME NEW n \in Nat PROVE TwoDigits(n) \in T
    OBVIOUS
  <2>1. "0" \in L
    BY DEF Signs, Digits
  <2>2. <<"0">> \in T /\ Decimal[n] \in T
    BY <1>1, <2>1
  <2>3. <<"0">> \o Decimal[n] \in T
    BY <2>2, ConcatProperties
  <2> QED BY <2>2, <2>3 DEF TwoDigits
<1>3. <<e.time>> \in T /\ <<e.datetime>> \in T
  BY DEF Event
<1>4. /\ type2string[e.type] \in L /\ type2string[e.pretype] \in L
      /\ TypeNumber[e.type] \in Nat /\ TypeNumber[e.pretype] \in Nat
  BY DEF Event, Signs, type2string, TypeNumber
<1>5. <<type2string[e.type]>> \in T /\ <<type2string[e.pretype]>> \in T
  BY <1>4
<1>6. <<"0">> \in T /\ <<"1">> \in T
  <2>1. "0" \in L /\ "1" \in L
    BY DEF Signs, Digits
  <2> QED BY <2>1
<1>7. <<"I", "N">> \in T /\ <<"O", "U", "T">> \in T
  <2>1. "I" \in L /\ "N" \in L /\ "O" \in L /\ "U" \in L /\ "T" \in L
    BY DEF Signs
  <2> QED BY <2>1
<1>8. NumberText(e.caller_number) \in T /\ NumberText(e.called_number) \in T
  BY DEF Event, NumberText
<1>9. e.caller_name \in T /\ e.called_name \in T
  BY DEF Event
<1>10. Decimal[e.duration \div 60] \o <<":">> \o TwoDigits(e.duration % 60) \in T
  <2>1. e.duration \div 60 \in Nat /\ e.duration % 60 \in Nat
    BY DEF Event
  <2>2. Decimal[e.duration \div 60] \in T /\ TwoDigits(e.duration % 60) \in T
    BY <1>1, <1>2, <2>1
  <2>3. <<":">> \in T
    <3>1. ":" \in L
      BY DEF Signs
    <3> QED BY <3>1
  <2>4. Decimal[e.duration \div 60] \o <<":">> \in T
    BY <2>2, <2>3, ConcatProperties
  <2> QED BY <2>2, <2>4, ConcatProperties
<1>11. TwoDigits(e.hour) \in T /\ TwoDigits(e.min) \in T /\ TwoDigits(e.sec) \in T
  BY <1>2 DEF Event
<1>12. /\ Decimal[TypeNumber[e.type]] \in T /\ Decimal[TypeNumber[e.pretype]] \in T
       /\ Decimal[e.line] \in T /\ Decimal[e.duration] \in T
  <2>1. e.line \in Nat /\ e.duration \in Nat
    BY DEF Event
  <2> QED BY <1>1, <1>4, <2>1
<1> HIDE DEF T
<1>13. Directive(d, e) \in T
  BY <1>3, <1>5, <1>6, <1>7, <1>8, <1>9, <1>10, <1>11, <1>12 DEF Directive, Directives
<1> QED BY <1>13 DEF T

-----------------------------------------------------------------------------
(* The loop of l2f_EVENT_format *)

\* No introducer.
Nothing == ""

\* What the loop has, as long as it looks at the space before an introducer.
LoopState(L) ==
  {st \in [text : Seq(L), t : Nat, introducer : {"", "%", "\\"}, stopped : BOOLEAN] :
     st.introducer # Nothing => st.t <= BufSize - 2}

\* text is m, or what there is space for.
Part(L, text, m) ==
  /\ \E w \in Seq(L) : m = text \o w
  /\ Len(m) <= BufSize - 2 => text = m

\* m is what the characters read so far mean, intro that the last of them is an
\* introducer.
Meets(L, st, m, intro) ==
  /\ st \in LoopState(L) /\ m \in Seq(L) /\ Part(L, st.text, m)
  /\ st.stopped => st.t >= BufSize - 1 /\ st.t <= Len(m) /\ st.introducer = Nothing
  /\ ~st.stopped => st.t = Len(m) /\ (intro <=> st.introducer # Nothing)

\* Where the place is within the buffer, nothing has been lost.
LEMMA MeetsWhole ==
  ASSUME NEW L, NEW st, NEW m, NEW intro, Meets(L, st, m, intro), ~st.stopped, st.t <= BufSize - 2
  PROVE  st \in LoopState(L) /\ m \in Seq(L) /\ st.text = m /\ st.t = Len(m)
  BY DEF Meets, Part

Moved(st, text, t) == [st EXCEPT !.text = text, !.t = t, !.introducer = ""]

LEMMA MovedState ==
  ASSUME NEW L, NEW st \in LoopState(L), NEW text \in Seq(L), NEW t \in Nat
  PROVE  /\ Moved(st, text, t) \in LoopState(L) /\ Moved(st, text, t).text = text
         /\ Moved(st, text, t).t = t /\ Moved(st, text, t).introducer = Nothing
         /\ Moved(st, text, t).stopped = st.stopped
<1> DEFINE T == Seq(L)
<1>1. text \in T
  OBVIOUS
<1> HIDE DEF T
<1> QED BY <1>1 DEF LoopState, T, Moved, Nothing

\* It may be a part of what the characters mean, if that leaves no space.
LEMMA MovedMeets ==
  ASSUME NEW L, NEW st \in LoopState(L), ~st.stopped,
         NEW text \in Seq(L), NEW m \in Seq(L), Part(L, text, m)
  PROVE  Meets(L, Moved(st, text, Len(m)), m, FALSE) /\ ~Moved(st, text, Len(m)).stopped
<1> DEFINE t == Len(m)
           new == Moved(st, text, t)
<1>1. t \in Nat
  OBVIOUS
<1> HIDE DEF t
<1>2. /\ new \in LoopState(L) /\ new.text = text /\ new.t = t /\ new.introducer = Nothing
      /\ new.stopped = st.stopped
  BY <1>1, MovedState
<1> HIDE DEF new
<1>3. new.t = Len(m)
  BY <1>2 DEF t
<1>4. Meets(L, new, m, FALSE)
  BY <1>2, <1>3 DEF Meets
<1> QED BY <1>2, <1>4 DEF new, t

\* What is put into the buffer where there is space for it is what is read.
LEMMA PutMeets ==
  ASSUME NEW L, NEW st, NEW m, NEW intro, Meets(L, st, m, intro), ~st.stopped, st.t <= BufSize - 2,
         NEW chars \in Seq(L)
  PROVE  Meets(L, PutChars(st, chars), m \o chars, FALSE) /\ ~PutChars(st, chars).stopped
<1> DEFINE all == m \o chars
<1>1. m \in Seq(L) /\ st \in LoopState(L)
  BY MeetsWhole
<1>2. st.text = m /\ st.t = Len(m)
  BY MeetsWhole
<1>3. all \in Seq(L) /\ Len(all) = Len(m) + Len(chars)
  BY <1>1, ConcatProperties
<1>4. all \o <<>> = all
  BY <1>3, ConcatEmptySeq
<1>5. <<>> \in Seq(L)
  BY EmptySeq
<1>6. PutChars(st, chars) = Moved(st, all, Len(all))
  BY <1>1, <1>2, <1>3 DEF PutChars, Moved
<1> HIDE DEF all
<1>7. Part(L, all, all)
  BY <1>4, <1>5 DEF Part
<1>8. Meets(L, Moved(st, all, Len(all)), all, FALSE) /\ ~Moved(st, all, Len(all)).stopped
  BY <1>1, <1>3, <1>7, MovedMeets
<1> QED BY <1>6, <1>8 DEF all

\* snprintf writes all of it, or no less than the rest of the buffer.
LEMMA SnprintfMeets ==
  ASSUME NEW L, NEW st, NEW m, NEW intro, Meets(L, st, m, intro), ~st.stopped, st.t <= BufSize - 2,
         NEW chars \in Seq(L)
  PROVE  Meets(L, Snprintf(st, chars), m \o chars, FALSE) /\ ~Snprintf(st, chars).stopped
<1> DEFINE len == BufSize - 1 - st.t
           k == IF Len(chars) < len THEN Len(chars) ELSE len - 1
           written == SubSeq(chars, 1, k)
           rest == SubSeq(chars, k + 1, Len(chars))
<1>1. m \in Seq(L) /\ st \in LoopState(L)
  BY MeetsWhole
<1>2. st.text = m /\ st.t = Len(m)
  BY MeetsWhole
<1>3. m \in Seq(L) /\ st.text = m /\ st.t = Len(m) /\ Len(m) \in Nat /\ Len(chars) \in Nat
  BY <1>1, <1>2
<1>4. Snprintf(st, chars) = Moved(st, m \o written, Len(m) + Len(chars))
  BY <1>2 DEF Snprintf, Moved, Nothing
<1>5. len \in Nat /\ len >= 1 /\ k \in Nat /\ k <= Len(chars)
  BY <1>3, BufSizeAssumption
<1>6. k = Len(chars) \/ Len(m) + Len(chars) >= BufSize - 1
  BY <1>3, BufSizeAssumption
<1> HIDE DEF len, k
<1>7. \A i \in 1 .. Len(chars) : chars[i] \in L
  OBVIOUS
<1>8. /\ written \in Seq(L) /\ Len(written) = k
      /\ \A i \in 1 .. k : written[i] = chars[i]
  BY <1>3, <1>5, <1>7, SubSeqProperties
<1>9. /\ rest \in Seq(L) /\ Len(rest) = Len(chars) - k
      /\ \A i \in 1 .. Len(chars) - k : rest[i] = chars[k + i]
  BY <1>3, <1>5, <1>7, SubSeqProperties
<1> HIDE DEF written, rest
<1>10. written \o rest = chars
  <2>1. /\ written \o rest \in Seq(L) /\ Len(written \o rest) = Len(chars)
        /\ \A i \in 1 .. Len(chars) : (written \o rest)[i] = IF i <= k THEN written[i] ELSE rest[i - k]
    BY <1>3, <1>5, <1>8, <1>9, ConcatProperties
  <2>2. ASSUME NEW i \in 1 .. Len(chars) PROVE (written \o rest)[i] = chars[i]
    <3>1. CASE i <= k
      BY <1>8, <2>1, <3>1
    <3>2. CASE ~(i <= k)
      <4>1. i - k \in 1 .. Len(chars) - k /\ k + (i - k) = i
        BY <1>3, <1>5, <3>2
      <4> QED BY <1>9, <2>1, <3>2, <4>1
    <3> QED BY <3>1, <3>2
  <2> QED BY <2>1, <2>2, SeqEqual
<1> DEFINE all == m \o chars
           text == m \o written
<1>11. all \in Seq(L) /\ Len(all) = Len(m) + Len(chars)
  BY <1>3, ConcatProperties
<1>12. text \in Seq(L)
  BY <1>3, <1>8, ConcatProperties
<1>13. all = text \o rest
  <2>1. (m \o written) \o rest = m \o (written \o rest)
    <3>1. m \in Seq(L) /\ written \in Seq(L)
      BY <1>3, <1>8
    <3>2. rest \in Seq(L)
      BY <1>9
    <3> QED BY <3>1, <3>2, ConcatAssociative
  <2> QED BY <1>10, <2>1
<1>14. Len(all) <= BufSize - 2 => text = all
  <2> SUFFICES ASSUME Len(all) <= BufSize - 2 PROVE written = chars
    OBVIOUS
  <2>1. k = Len(chars)
    BY <1>3, <1>5, <1>6, <1>11, BufSizeAssumption
  <2> QED BY <1>8, <2>1, SeqEqual
<1>15. Snprintf(st, chars) = Moved(st, text, Len(all))
  BY <1>4, <1>11
<1>16. rest \in Seq(L)
  BY <1>9
<1> HIDE DEF all, text
<1>17. all \in Seq(L)
  BY <1>11
<1>18. Part(L, text, all)
  BY <1>13, <1>14, <1>16 DEF Part
<1>19. Meets(L, Moved(st, text, Len(all)), all, FALSE) /\ ~Moved(st, text, Len(all)).stopped
  BY <1>1, <1>12, <1>17, <1>18, MovedMeets
<1> QED BY <1>15, <1>19 DEF all

\* What a character stands for behind an introducer.
Meant(d, c, e) ==
  IF d = "%"
  THEN CASE c \in Directives -> Directive(c, e)
         [] c = "%" -> <<"%">>
         [] OTHER -> <<"%", c>>
  ELSE CASE c = "\\" -> <<"\\">>
         [] c \in DOMAIN Escape -> <<Escape[c]>>
         [] OTHER -> <<"\\", c>>

Introducer(c) == c \in {"%", "\\"}

LEMMA MeantTypes ==
  ASSUME NEW L, Signs \subseteq L, NoNumberText \in Seq(L), NEW e \in Event(L), NEW c \in L
  PROVE  /\ c \in Directives => Directive(c, e) \in Seq(L)
         /\ c \in DOMAIN Escape => <<Escape[c]>> \in Seq(L)
         /\ <<"%">> \in Seq(L) /\ <<"\\">> \in Seq(L) /\ <<c>> \in Seq(L)
         /\ <<"%", c>> \in Seq(L) /\ <<"\\", c>> \in Seq(L)
         /\ \A d : Meant(d, c, e) \in Seq(L)
<1>1. "%" \in L /\ "\\" \in L
  BY DEF Signs
<1>2. c \in DOMAIN Escape => <<Escape[c]>> \in Seq(L)
  <2>1. c \in DOMAIN Escape => Escape[c] \in L
    BY DEF Signs
  <2> QED BY <2>1
<1>3. c \in Directives => Directive(c, e) \in Seq(L)
  BY DirectiveType
<1>4. <<"%">> \in Seq(L) /\ <<"\\">> \in Seq(L) /\ <<c>> \in Seq(L)
  BY <1>1
<1>5. <<"%", c>> \in Seq(L) /\ <<"\\", c>> \in Seq(L)
  BY <1>1
<1>6. ASSUME NEW d PROVE Meant(d, c, e) \in Seq(L)
  <2> DEFINE T == Seq(L)
             one == <<"%">>
             two == <<"%", c>>
             back == <<"\\">>
             three == <<"\\", c>>
             escape == <<Escape[c]>>
  <2>1. one \in T /\ two \in T /\ back \in T /\ three \in T
    BY <1>4, <1>5
  <2>2. (c \in DOMAIN Escape => escape \in T) /\ (c \in Directives => Directive(c, e) \in T)
    BY <1>2, <1>3
  <2>3. Meant(d, c, e) = IF d = "%"
                        THEN CASE c \in Directives -> Directive(c, e) [] c = "%" -> one [] OTHER -> two
                        ELSE CASE c = "\\" -> back [] c \in DOMAIN Escape -> escape [] OTHER -> three
    BY DEF Meant
  <2> HIDE DEF T, one, two, back, three, escape
  <2>4. Meant(d, c, e) \in T
    BY <2>1, <2>2, <2>3
  <2> QED BY <2>4 DEF T
<1> QED BY <1>2, <1>3, <1>4, <1>5, <1>6

\* What comes behind the end of the buffer does not matter.
LEMMA StoppedMeets ==
  ASSUME NEW L, NEW st, NEW m, NEW intro, NEW next, Meets(L, st, m, intro), st.stopped,
         NEW chars \in Seq(L)
  PROVE  Meets(L, st, m, next) /\ Meets(L, st, m \o chars, next)
<1> DEFINE all == m \o chars
<1>1. m \in Seq(L) /\ st.t >= BufSize - 1 /\ st.t <= Len(m)
  BY DEF Meets
<1>2. PICK w \in Seq(L) : m = st.text \o w
  BY DEF Meets, Part
<1>3. all \in Seq(L) /\ Len(all) = Len(m) + Len(chars)
  BY <1>1, ConcatProperties
<1>5. st.text \in Seq(L) /\ st.t \in Nat
  BY DEF Meets, LoopState
<1>4. st.t <= Len(all) /\ Len(all) >= BufSize - 1
  BY <1>1, <1>3, <1>5, BufSizeAssumption
<1>6. w \o chars \in Seq(L)
  BY <1>2, ConcatProperties
<1>7. (st.text \o w) \o chars = st.text \o (w \o chars)
  <2> DEFINE t == st.text
  <2>1. t \in Seq(L) /\ w \in Seq(L)
    BY <1>5
  <2> HIDE DEF t
  <2>2. (t \o w) \o chars = t \o (w \o chars)
    BY <2>1, ConcatAssociative
  <2> QED BY <2>2 DEF t
<1>8. all = st.text \o (w \o chars)
  BY <1>2, <1>7
<1>9. all \in Seq(L)
  BY <1>3
<1> HIDE DEF all
<1>10. ~(Len(all) <= BufSize - 2)
  <2>1. Len(all) \in Nat
    BY <1>9
  <2> QED BY <1>4, <2>1, BufSizeAssumption
<1>11. Part(L, st.text, all)
  BY <1>6, <1>8, <1>10 DEF Part
<1>12. Meets(L, st, all, next)
  BY <1>1, <1>4, <1>9, <1>11 DEF Meets
<1>13. Meets(L, st, m, next)
  BY DEF Meets
<1> QED BY <1>12, <1>13 DEF all

\* d is the introducer of the next character, if that is introduced.
Behind(d, st, intro) ==
  /\ intro => Introducer(d)
  /\ intro /\ ~st.stopped => st.introducer = d

\* What the character c, behind d, makes of the loop and of what is meant.
StepSays(L, st, m, intro, d, c, e) ==
  /\ intro => Meets(L, Step(st, c, e), m \o Meant(d, c, e), FALSE)
  /\ ~intro /\ Introducer(c) => Meets(L, Step(st, c, e), m, TRUE) /\ Behind(c, Step(st, c, e), TRUE)
  /\ ~intro /\ ~Introducer(c) => Meets(L, Step(st, c, e), m \o <<c>>, FALSE)

LEMMA StepMeets ==
  ASSUME NEW L, NUL \notin L, Signs \subseteq L, NoNumberText \in Seq(L), NEW e \in Event(L), NEW c \in L, NEW d,
         NEW st, NEW m, NEW intro \in BOOLEAN, Meets(L, st, m, intro), Behind(d, st, intro)
  PROVE  StepSays(L, st, m, intro, d, c, e)
<1> DEFINE to == Step(st, c, e)
           introduced == m \o Meant(d, c, e)
           plain == m \o <<c>>
<1>1. SUFFICES /\ intro => Meets(L, to, introduced, FALSE)
               /\ ~intro /\ Introducer(c) => Meets(L, to, m, TRUE) /\ (~to.stopped => to.introducer = c)
               /\ ~intro /\ ~Introducer(c) => Meets(L, to, plain, FALSE)
  <2> HIDE DEF to, introduced, plain
  <2>1. ~intro /\ Introducer(c) => Behind(c, to, TRUE)
    BY <1>1 DEF Behind
  <2>2. /\ intro => Meets(L, to, introduced, FALSE)
        /\ ~intro /\ Introducer(c) => Meets(L, to, m, TRUE) /\ Behind(c, to, TRUE)
        /\ ~intro /\ ~Introducer(c) => Meets(L, to, plain, FALSE)
    BY <1>1, <2>1
  <2> QED BY <2>2 DEF StepSays, to, introduced, plain
<1>2. st \in LoopState(L) /\ c # NUL
  BY DEF Meets
<1>3. CASE st.stopped
  <2>1. st.introducer = ""
    BY <1>3 DEF Meets, Nothing
  <2>2. Step(st, c, e) = [st EXCEPT !.stopped = TRUE]
    BY <1>3, <2>1 DEF Step
  <2>3. Step(st, c, e) = st
    BY <1>2, <1>3, <2>2 DEF LoopState
  <2>4. Meant(d, c, e) \in Seq(L)
    BY MeantTypes
  <2>5. <<c>> \in Seq(L)
    OBVIOUS
  <2>6. Meets(L, st, m \o Meant(d, c, e), FALSE)
    BY <1>3, <2>4, StoppedMeets
  <2>7. Meets(L, st, m, TRUE)
    BY <1>3, <2>4, StoppedMeets
  <2>8. Meets(L, st, m \o <<c>>, FALSE)
    BY <1>3, <2>5, StoppedMeets
  <2> QED BY <1>3, <2>3, <2>6, <2>7, <2>8
<1>4. CASE ~st.stopped /\ intro /\ d = "%"
  <2>1. st.introducer = "%" /\ st.t <= BufSize - 2
    BY <1>2, <1>4 DEF Behind, LoopState, Nothing
  <2>2. Step(st, c, e) = Percent(st, c, e)
    BY <2>1 DEF Step
  <2>3. CASE c \in Directives
    <3>1. c # "%"
      BY <2>3 DEF Directives
    <3>2. Step(st, c, e) = Snprintf(st, Directive(c, e)) /\ Meant(d, c, e) = Directive(c, e)
      BY <1>4, <2>2, <2>3, <3>1 DEF Percent, Meant
    <3>3. Directive(c, e) \in Seq(L)
      BY <2>3, MeantTypes
    <3>4. Meets(L, Snprintf(st, Directive(c, e)), m \o Directive(c, e), FALSE)
      BY <1>4, <2>1, <3>3, SnprintfMeets
    <3> QED BY <1>4, <3>2, <3>4
  <2>4. CASE c = "%"
    <3>1. c \notin Directives
      BY <2>4 DEF Directives
    <3>2. Step(st, c, e) = PutChars(st, <<"%">>) /\ Meant(d, c, e) = <<"%">>
      BY <1>4, <2>2, <2>4, <3>1 DEF Percent, Meant
    <3>3. <<"%">> \in Seq(L)
      BY MeantTypes
    <3>4. Meets(L, PutChars(st, <<"%">>), m \o <<"%">>, FALSE)
      BY <1>4, <2>1, <3>3, PutMeets
    <3> QED BY <1>4, <3>2, <3>4
  <2>5. CASE c \notin Directives /\ c # "%"
    <3>1. Step(st, c, e) = PutChars(st, <<"%", c>>) /\ Meant(d, c, e) = <<"%", c>>
      BY <1>4, <2>2, <2>5 DEF Percent, Meant
    <3>2. <<"%", c>> \in Seq(L)
      BY MeantTypes
    <3>3. Meets(L, PutChars(st, <<"%", c>>), m \o <<"%", c>>, FALSE)
      BY <1>4, <2>1, <3>2, PutMeets
    <3> QED BY <1>4, <3>1, <3>3
  <2> QED BY <2>3, <2>4, <2>5
<1>5. CASE ~st.stopped /\ intro /\ d = "\\"
  <2>1. st.introducer = "\\" /\ st.t <= BufSize - 2
    BY <1>2, <1>5 DEF Behind, LoopState, Nothing
  <2>2. Step(st, c, e) = Backslash(st, c)
    BY <2>1 DEF Step
  <2> DEFINE said == Meant(d, c, e)
  <2>3. Backslash(st, c) = PutChars(st, said)
    BY <1>5 DEF Backslash, Meant
  <2>4. said \in Seq(L)
    BY MeantTypes
  <2> HIDE DEF said
  <2>5. Meets(L, PutChars(st, said), m \o said, FALSE)
    BY <1>5, <2>1, <2>4, PutMeets
  <2> QED BY <1>5, <2>2, <2>3, <2>5 DEF said
<1>6. CASE ~st.stopped /\ ~intro /\ st.t >= BufSize - 1
  <2> DEFINE new == [st EXCEPT !.stopped = TRUE]
  <2>1. st.introducer = "" /\ st.t = Len(m)
    BY <1>6 DEF Meets, Nothing
  <2>2. Step(st, c, e) = new
    <3>1. st.t \in Nat
      BY <1>2 DEF LoopState
    <3>2. ~(st.t < BufSize - 1)
      BY <1>6, <3>1, BufSizeAssumption
    <3> QED BY <1>6, <2>1, <3>2 DEF Step
  <2>3. /\ new \in LoopState(L) /\ new.stopped /\ new.text = st.text /\ new.introducer = Nothing
        /\ new.t = st.t
    BY <1>2, <2>1 DEF LoopState, Nothing
  <2> HIDE DEF new
  <2>4. Meets(L, new, m, intro)
    <3>1. st.t \in Nat
      BY <1>2 DEF LoopState
    <3>3. st.t >= BufSize - 1 /\ st.t <= st.t
      BY <1>6, <3>1
    <3>2. new.t >= BufSize - 1 /\ new.t <= Len(m)
      BY <2>1, <2>3, <3>3
    <3> QED BY <2>1, <2>3, <3>2 DEF Meets
  <2>5. <<c>> \in Seq(L)
    OBVIOUS
  <2>6. Meets(L, new, m, TRUE) /\ Meets(L, new, m \o <<c>>, FALSE)
    BY <2>3, <2>4, <2>5, StoppedMeets
  <2> QED BY <1>6, <2>2, <2>3, <2>6
<1>7. CASE ~st.stopped /\ ~intro /\ ~(st.t >= BufSize - 1)
  <2>1. st.introducer = "" /\ st.t < BufSize - 1 /\ st.t <= BufSize - 2
    <3>1. st.t \in Nat
      BY <1>2 DEF LoopState
    <3>2. st.t < BufSize - 1 /\ st.t <= BufSize - 2
      BY <1>7, <3>1, BufSizeAssumption
    <3> QED BY <1>7, <3>2 DEF Meets, Nothing
  <2>2. Step(st, c, e) = IF Introducer(c) THEN [st EXCEPT !.introducer = c] ELSE PutChars(st, <<c>>)
    BY <1>2, <1>7, <2>1 DEF Step, Introducer
  <2>3. CASE Introducer(c)
    <3> DEFINE new == [st EXCEPT !.introducer = c]
    <3>1. /\ new \in LoopState(L) /\ new.stopped = st.stopped /\ new.text = st.text /\ new.t = st.t
          /\ new.introducer = c /\ c # Nothing
      BY <1>2, <2>1, <2>3 DEF LoopState, Introducer, Nothing
    <3> HIDE DEF new
    <3>2. Meets(L, new, m, TRUE)
      BY <1>7, <3>1 DEF Meets
    <3> QED BY <1>7, <2>2, <2>3, <3>1, <3>2 DEF new
  <2>4. CASE ~Introducer(c)
    <3>1. <<c>> \in Seq(L)
      OBVIOUS
    <3>2. Meets(L, PutChars(st, <<c>>), m \o <<c>>, FALSE)
      BY <1>7, <2>1, <3>1, PutMeets
    <3> QED BY <1>7, <2>2, <2>4, <3>2
  <2> QED BY <2>3, <2>4
<1>8. intro => d = "%" \/ d = "\\"
  BY DEF Behind, Introducer
<1> QED BY <1>3, <1>4, <1>5, <1>6, <1>7, <1>8


\* The equation of Introduces.
LEMMA IntroducesEquation ==
  ASSUME NEW L, NEW text \in Seq(L)
  PROVE  /\ Introduces(text) \in [0 .. Len(text) -> BOOLEAN]
         /\ Introduces(text)[0] = FALSE
         /\ \A i \in 0 .. Len(text) - 1 :
              Introduces(text)[i + 1] = (Introducer(text[i + 1]) /\ ~Introduces(text)[i])
<1> DEFINE n == Len(text)
           S == BOOLEAN
           first == FALSE
           value(i, b) == Introducer(text[i]) /\ ~b
           step == [x \in Nat \X S |-> IF x[1] \in 1 .. n THEN value(x[1], x[2]) ELSE x[2]]
<1>1. n \in Nat
  OBVIOUS
<1>2. \A i \in 1 .. n, b \in S : value(i, b) \in S
  OBVIOUS
<1>3. first \in S
  OBVIOUS
<1> HIDE DEF S, first, value
<1>4. step \in [Nat \X S -> S]
  BY <1>2
<1>5. \A i \in 1 .. n, b \in S : step[<<i, b>>] = value(i, b)
  BY <1>1
<1> HIDE DEF n, step
<1>6. PICK g : g \in [0 .. n -> S] /\ Loop(g, n, first, step)
  BY <1>1, <1>3, <1>4, LoopExists
<1> DEFINE f == Introduces(text)
<1>7. f = [i \in 0 .. n |-> IF i = 0 THEN first ELSE value(i, f[i - 1])]
  <2>1. \A i \in 0 .. n : i # 0 => i \in 1 .. n /\ i - 1 \in 0 .. n
    BY <1>1
  <2>2. g = [i \in 0 .. n |-> IF i = 0 THEN first ELSE value(i, g[i - 1])]
    BY <1>5, <1>6, <2>1 DEF Loop
  <2> QED BY <2>2 DEF Introduces, n, first, value, Introducer
<1> HIDE DEF f
<1>8. f[0] = first
  BY <1>1, <1>7
<1>9. ASSUME NEW i \in 0 .. n - 1 PROVE f[i + 1] = value(i + 1, f[i]) /\ i + 1 \in 1 .. n
  <2>1. i + 1 \in 0 .. n /\ i + 1 # 0 /\ (i + 1) - 1 = i /\ i + 1 \in 1 .. n
    BY <1>1
  <2> QED BY <1>7, <2>1
<1>10. \A i \in 0 .. n : f[i] \in S
  BY <1>1, <1>2, <1>3, <1>8, <1>9, LoopStays
<1>11. f \in [0 .. n -> S]
  BY <1>7, <1>10
<1> QED BY <1>8, <1>9, <1>11 DEF f, n, S, first, value

\* The equation of Meanings.
LEMMA MeaningsEquation ==
  ASSUME NEW L, NEW text \in Seq(L), NEW e, \A i \in 1 .. Len(text) : Piece(text, i, e) \in Seq(L)
  PROVE  /\ Meanings(text, e) \in [0 .. Len(text) -> Seq(L)]
         /\ Meanings(text, e)[0] = <<>>
         /\ \A i \in 0 .. Len(text) - 1 :
              Meanings(text, e)[i + 1] = Meanings(text, e)[i] \o Piece(text, i + 1, e)
<1> DEFINE n == Len(text)
           S == Seq(L)
           value(i, t) == t \o Piece(text, i, e)
           step == [x \in Nat \X S |-> IF x[1] \in 1 .. n THEN value(x[1], x[2]) ELSE x[2]]
<1>1. n \in Nat
  OBVIOUS
<1>2. ASSUME NEW i \in 1 .. n, NEW t \in S PROVE value(i, t) \in S
  BY ConcatProperties
<1>3. <<>> \in S
  BY EmptySeq
<1> HIDE DEF S, value
<1>4. step \in [Nat \X S -> S]
  BY <1>2
<1>5. \A i \in 1 .. n, t \in S : step[<<i, t>>] = value(i, t)
  BY <1>1
<1> HIDE DEF n, step
<1>6. PICK g : g \in [0 .. n -> S] /\ Loop(g, n, <<>>, step)
  BY <1>1, <1>3, <1>4, LoopExists
<1> DEFINE f == Meanings(text, e)
<1>7. f = [i \in 0 .. n |-> IF i = 0 THEN <<>> ELSE value(i, f[i - 1])]
  <2>1. \A i \in 0 .. n : i # 0 => i \in 1 .. n /\ i - 1 \in 0 .. n
    BY <1>1
  <2>2. g = [i \in 0 .. n |-> IF i = 0 THEN <<>> ELSE value(i, g[i - 1])]
    BY <1>5, <1>6, <2>1 DEF Loop
  <2> QED BY <2>2 DEF Meanings, n, value
<1> HIDE DEF f
<1>8. f[0] = <<>>
  BY <1>1, <1>7
<1>9. ASSUME NEW i \in 0 .. n - 1 PROVE f[i + 1] = value(i + 1, f[i]) /\ i + 1 \in 1 .. n
  <2>1. i + 1 \in 0 .. n /\ i + 1 # 0 /\ (i + 1) - 1 = i /\ i + 1 \in 1 .. n
    BY <1>1
  <2> QED BY <1>7, <2>1
<1>10. \A i \in 0 .. n : f[i] \in S
  BY <1>1, <1>2, <1>3, <1>8, <1>9, LoopStays
<1>11. f \in [0 .. n -> S]
  BY <1>7, <1>10
<1> QED BY <1>8, <1>9, <1>11 DEF f, n, S, value

\* States of the loop whose text begins with x.
Beyond(M, x) == {st \in LoopState(M) : \E w \in Seq(M) : st.text = x \o w}

LEMMA BeyondBeyond ==
  ASSUME NEW M, NEW x \in Seq(M), NEW st \in Beyond(M, x), NEW to \in Beyond(M, st.text)
  PROVE  to \in Beyond(M, x)
<1>1. PICK w \in Seq(M) : st.text = x \o w
  BY DEF Beyond
<1>2. PICK v \in Seq(M) : to.text = st.text \o v
  BY DEF Beyond
<1>3. to \in LoopState(M)
  BY DEF Beyond
<1>4. (x \o w) \o v = x \o (w \o v)
  BY ConcatAssociative
<1>5. w \o v \in Seq(M)
  BY ConcatProperties
<1>6. to.text = x \o (w \o v)
  BY <1>1, <1>2, <1>4
<1> QED BY <1>3, <1>5, <1>6 DEF Beyond

LEMMA MovedGrows ==
  ASSUME NEW M, NEW st \in LoopState(M), NEW w \in Seq(M), NEW t \in Nat
  PROVE  Moved(st, st.text \o w, t) \in Beyond(M, st.text)
<1> DEFINE all == st.text \o w
<1>1. all \in Seq(M)
  <2>1. st.text \in Seq(M)
    BY DEF LoopState
  <2> QED BY <2>1, ConcatProperties
<1> HIDE DEF all
<1>2. Moved(st, all, t) \in LoopState(M)
  BY <1>1, MovedState
<1>3. Moved(st, all, t).text = all
  BY <1>1, MovedState
<1>4. \E v \in Seq(M) : all = st.text \o v
  BY DEF all
<1> QED BY <1>2, <1>3, <1>4 DEF all, Beyond

\* A step only adds to the text, the steps behind the end of the format too.
LEMMA StepGrows ==
  ASSUME NEW M, Signs \subseteq M, NoNumberText \in Seq(M), NEW e \in Event(M), NEW c \in M,
         NEW st \in LoopState(M)
  PROVE  Step(st, c, e) \in Beyond(M, st.text)
<1>1. st.text \in Seq(M) /\ st.t \in Nat /\ (st.introducer # Nothing => st.t <= BufSize - 2)
  BY DEF LoopState
<1>2. ASSUME NEW w \in Seq(M), NEW t \in Nat
      PROVE  Moved(st, st.text \o w, t) \in Beyond(M, st.text)
  BY MovedGrows
<1>3. ASSUME NEW chars \in Seq(M)
      PROVE  PutChars(st, chars) \in Beyond(M, st.text)
  <2>1. PutChars(st, chars) = Moved(st, st.text \o chars, st.t + Len(chars))
    BY DEF PutChars, Moved
  <2>2. st.t + Len(chars) \in Nat
    BY <1>1
  <2> QED BY <1>2, <2>1, <2>2
<1>4. ASSUME NEW chars \in Seq(M), st.t <= BufSize - 2
      PROVE  Snprintf(st, chars) \in Beyond(M, st.text)
  <2> DEFINE len == BufSize - 1 - st.t
             k == IF Len(chars) < len THEN Len(chars) ELSE len - 1
             written == SubSeq(chars, 1, k)
  <2>1. Snprintf(st, chars) = Moved(st, st.text \o written, st.t + Len(chars))
    BY DEF Snprintf, Moved
  <2>2. Len(chars) \in Nat /\ st.t + Len(chars) \in Nat
    BY <1>1
  <2>3. k \in Nat /\ k <= Len(chars)
    BY <1>1, <1>4, <2>2, BufSizeAssumption
  <2> HIDE DEF k
  <2>4. written \in Seq(M)
    <3>1. \A i \in 1 .. Len(chars) : chars[i] \in M
      OBVIOUS
    <3> QED BY <2>2, <2>3, <3>1, SubSeqProperties
  <2> HIDE DEF written
  <2> QED BY <1>2, <2>1, <2>2, <2>4
<1>5. CASE st.introducer = "%"
  <2>1. Step(st, c, e) = Percent(st, c, e)
    BY <1>5 DEF Step
  <2>2. CASE c \in Directives
    <3>1. Step(st, c, e) = Snprintf(st, Directive(c, e))
      BY <2>1, <2>2 DEF Percent, Directives
    <3>2. Directive(c, e) \in Seq(M) /\ st.t <= BufSize - 2
      BY <1>1, <1>5, <2>2, MeantTypes DEF Nothing
    <3> QED BY <1>4, <3>1, <3>2
  <2>3. CASE c \notin Directives
    <3>1. Step(st, c, e) = PutChars(st, <<"%">>) \/ Step(st, c, e) = PutChars(st, <<"%", c>>)
      BY <2>1, <2>3 DEF Percent
    <3>2. <<"%">> \in Seq(M) /\ <<"%", c>> \in Seq(M)
      BY MeantTypes
    <3> QED BY <1>3, <3>1, <3>2
  <2> QED BY <2>2, <2>3
<1>6. CASE st.introducer = "\\"
  <2> DEFINE said == Meant("\\", c, e)
  <2>1. Step(st, c, e) = PutChars(st, said)
    BY <1>6 DEF Step, Backslash, Meant
  <2>2. said \in Seq(M)
    BY MeantTypes
  <2> HIDE DEF said
  <2> QED BY <1>3, <2>1, <2>2
<1>7. CASE st.introducer = ""
  <2>1. st.text \o <<>> = st.text /\ <<>> \in Seq(M)
    BY <1>1, EmptySeq, ConcatEmptySeq
  <2>2. CASE st.stopped \/ c = NUL \/ st.t >= BufSize - 1
    <3> DEFINE new == [st EXCEPT !.stopped = TRUE]
    <3>3. ~(st.t < BufSize - 1) \/ st.stopped \/ c = NUL
      BY <1>1, <2>2, BufSizeAssumption
    <3>1. Step(st, c, e) = new
      BY <1>7, <2>2, <3>3 DEF Step
    <3>2. new \in LoopState(M) /\ new.text = st.text
      BY <1>7 DEF LoopState, Nothing
    <3> QED BY <2>1, <3>1, <3>2 DEF Beyond
  <2>3. CASE ~(st.stopped \/ c = NUL \/ st.t >= BufSize - 1)
    <3>1. st.t < BufSize - 1 /\ st.t <= BufSize - 2
      BY <1>1, <2>3, BufSizeAssumption
    <3>2. Step(st, c, e) = IF Introducer(c) THEN [st EXCEPT !.introducer = c] ELSE PutChars(st, <<c>>)
      BY <1>7, <2>3, <3>1 DEF Step, Introducer
    <3>3. CASE Introducer(c)
      <4> DEFINE new == [st EXCEPT !.introducer = c]
      <4>1. new \in LoopState(M) /\ new.text = st.text
        BY <3>1, <3>3 DEF LoopState, Introducer
      <4> QED BY <2>1, <3>2, <3>3, <4>1 DEF Beyond
    <3>4. CASE ~Introducer(c)
      <4>1. <<c>> \in Seq(M)
        OBVIOUS
      <4> QED BY <1>3, <3>2, <3>4, <4>1
    <3> QED BY <3>3, <3>4
  <2> QED BY <2>2, <2>3
<1> QED BY <1>5, <1>6, <1>7 DEF LoopState

LEMMA StartMeets ==
  ASSUME NEW L
  PROVE  Meets(L, Start, <<>>, FALSE) /\ Start \in LoopState(L)
<1> DEFINE T == Seq(L)
           nil == <<>>
<1>1. nil \in T /\ nil \o nil = nil /\ Len(nil) = 0
  BY EmptySeq, ConcatEmptySeq
<1>2. Start \in LoopState(L)
  <2> HIDE DEF T
  <2> QED BY <1>1 DEF Start, LoopState, Nothing, T
<1>3. Start.text = nil /\ Start.t = 0 /\ Start.introducer = Nothing /\ ~Start.stopped
  BY DEF Start, Nothing
<1> HIDE DEF nil
<1>4. Part(L, Start.text, nil)
  BY <1>1, <1>3 DEF Part
<1>5. Meets(L, Start, nil, FALSE)
  BY <1>1, <1>2, <1>3, <1>4 DEF Meets
<1> QED BY <1>1, <1>2, <1>5 DEF nil

\* The equation of States.
LEMMA StatesEquation ==
  ASSUME NEW M, Signs \subseteq M, NoNumberText \in Seq(M), NEW e \in Event(M), NEW text \in Seq(M)
  PROVE  /\ States(text, e) \in [0 .. Len(text) -> LoopState(M)]
         /\ States(text, e)[0] = Start
         /\ \A i \in 0 .. Len(text) - 1 :
              States(text, e)[i + 1] = Step(States(text, e)[i], text[i + 1], e)
<1> DEFINE n == Len(text)
           S == LoopState(M)
           first == Start
           value(i, st) == Step(st, text[i], e)
           step == [x \in Nat \X S |-> IF x[1] \in 1 .. n THEN value(x[1], x[2]) ELSE x[2]]
<1>1. n \in Nat
  OBVIOUS
<1>2. ASSUME NEW i \in 1 .. n, NEW st \in S PROVE value(i, st) \in S
  <2>1. text[i] \in M
    OBVIOUS
  <2> QED BY <2>1, StepGrows DEF Beyond
<1>3. first \in S
  BY StartMeets
<1> HIDE DEF S, value, first
<1>4. step \in [Nat \X S -> S]
  BY <1>2
<1>5. \A i \in 1 .. n, st \in S : step[<<i, st>>] = value(i, st)
  BY <1>1
<1> HIDE DEF n, step
<1>6. PICK g : g \in [0 .. n -> S] /\ Loop(g, n, first, step)
  BY <1>1, <1>3, <1>4, LoopExists
<1> DEFINE f == States(text, e)
<1>7. f = [i \in 0 .. n |-> IF i = 0 THEN first ELSE value(i, f[i - 1])]
  <2>1. \A i \in 0 .. n : i # 0 => i \in 1 .. n /\ i - 1 \in 0 .. n
    BY <1>1
  <2>2. g = [i \in 0 .. n |-> IF i = 0 THEN first ELSE value(i, g[i - 1])]
    BY <1>5, <1>6, <2>1 DEF Loop
  <2> QED BY <2>2 DEF States, n, first, value
<1> HIDE DEF f
<1>8. f[0] = first
  BY <1>1, <1>7
<1>9. ASSUME NEW i \in 0 .. n - 1 PROVE f[i + 1] = value(i + 1, f[i]) /\ i + 1 \in 1 .. n
  <2>1. i + 1 \in 0 .. n /\ i + 1 # 0 /\ (i + 1) - 1 = i /\ i + 1 \in 1 .. n
    BY <1>1
  <2> QED BY <1>7, <2>1
<1>10. \A i \in 0 .. n : f[i] \in S
  BY <1>1, <1>2, <1>3, <1>8, <1>9, LoopStays
<1>11. f \in [0 .. n -> S]
  BY <1>7, <1>10
<1> QED BY <1>8, <1>9, <1>11 DEF f, n, S, first, value

\* What a position adds, by what the positions before it are.
LEMMA PieceIs ==
  ASSUME NEW L, NEW text \in Seq(L), NEW e, Agreed(text, e), NEW i \in 0 .. Len(text) - 1
  PROVE  LET intro == Introduces(text)
             c == text[i + 1]
             piece == Piece(text, i + 1, e)
         IN  /\ intro[i + 1] => piece = IF i + 1 = Len(text) THEN <<c>> ELSE <<>>
             /\ ~intro[i + 1] /\ intro[i] => piece = Meant(text[i], c, e)
             /\ ~intro[i + 1] /\ ~intro[i] => piece = <<c>>
<1> DEFINE here == Introduces(text)[i + 1]
           before == Introduces(text)[i]
           c == text[i + 1]
           last == IF i + 1 = Len(text) THEN <<c>> ELSE <<>>
           plain == <<c>>
<1>1. i \in 0 .. Len(text) /\ i + 1 \in 0 .. Len(text) /\ (i + 1) - 1 = i
  OBVIOUS
<1>2. here \in BOOLEAN /\ before \in BOOLEAN /\ (here => ~before)
  BY <1>1, IntroducesEquation
<1> DEFINE said == IF text[i] = "%"
                   THEN CASE c \in Directives -> Documented(c, e) [] c = "%" -> <<"%">> [] OTHER -> <<"%", c>>
                   ELSE CASE c = "\\" -> <<"\\">>
                          [] c \in DOMAIN Escape -> <<Escape[c]>>
                          [] OTHER -> <<"\\", c>>
<1>5. Piece(text, i + 1, e) = CASE here -> last [] before -> said [] OTHER -> plain
  BY <1>1 DEF Piece
<1>6. before => said = Meant(text[i], c, e)
  <2> SUFFICES ASSUME before PROVE said = Meant(text[i], c, e)
    OBVIOUS
  <2>1. i # 0
    BY IntroducesEquation
  <2>2. i \in 1 .. Len(text) - 1
    BY <2>1
  <2>3. text[i] = "%" /\ c \in Directives => Documented(c, e) = Directive(c, e)
    BY <2>2 DEF Agreed
  <2> QED BY <2>3 DEF Meant
<1> HIDE DEF said
<1>3. before => Piece(text, i + 1, e) = CASE here -> last [] before -> Meant(text[i], c, e) [] OTHER -> plain
  BY <1>5, <1>6
<1>7. ~before => Piece(text, i + 1, e) = IF here THEN last ELSE plain
  BY <1>2, <1>5
<1> HIDE DEF here, before, c, last, plain
<1>4. /\ here => Piece(text, i + 1, e) = last
      /\ ~here /\ before => Piece(text, i + 1, e) = Meant(text[i], c, e)
      /\ ~here /\ ~before => Piece(text, i + 1, e) = plain
  BY <1>2, <1>3, <1>7
<1> QED BY <1>4 DEF here, before, c, last, plain

LEMMA PieceType ==
  ASSUME NEW L, Signs \subseteq L, NoNumberText \in Seq(L), NEW e \in Event(L), NEW text \in Seq(L),
         Agreed(text, e)
  PROVE  \A i \in 1 .. Len(text) : Piece(text, i, e) \in Seq(L)
<1> SUFFICES ASSUME NEW k \in 0 .. Len(text) - 1 PROVE Piece(text, k + 1, e) \in Seq(L)
  <2> SUFFICES ASSUME NEW i \in 1 .. Len(text) PROVE Piece(text, i, e) \in Seq(L)
    OBVIOUS
  <2>1. i - 1 \in 0 .. Len(text) - 1 /\ (i - 1) + 1 = i
    OBVIOUS
  <2> QED BY <2>1
<1> DEFINE c == text[k + 1]
           T == Seq(L)
           plain == <<c>>
           nil == <<>>
           said == Meant(text[k], c, e)
<1>1. c \in L
  OBVIOUS
<1>2. plain \in T /\ nil \in T
  BY <1>1, EmptySeq
<1>3. said \in T
  BY <1>1, MeantTypes
<1>4. Piece(text, k + 1, e) = plain \/ Piece(text, k + 1, e) = nil \/ Piece(text, k + 1, e) = said
  BY PieceIs
<1> HIDE DEF T, plain, nil, said
<1>5. Piece(text, k + 1, e) \in T
  BY <1>2, <1>3, <1>4
<1> QED BY <1>5 DEF T

\* After each character the loop has what the characters mean, but for an
\* introducer at the end.
Bare(text, e, i) == IF Introduces(text)[i] THEN Meanings(text, e)[i - 1] ELSE Meanings(text, e)[i]

After(L, h, text, e, i) ==
  /\ Meets(L, h[i], Bare(text, e, i), Introduces(text)[i])
  /\ Behind(text[i], h[i], Introduces(text)[i])

\* The states of the loop while it reads the format text.
Starts(h, text, e) ==
  h[0] = Start /\ \A i \in 0 .. Len(text) - 1 : h[i + 1] = Step(h[i], text[i + 1], e)

\* The equations of a format.
Equations(L, h, text, e) ==
  /\ \A i \in 0 .. Len(text) : /\ Meanings(text, e)[i] \in Seq(L)
                               /\ Introduces(text)[i] \in BOOLEAN
  /\ Meanings(text, e)[0] = <<>> /\ h[0] = Start /\ Introduces(text)[0] = FALSE
  /\ \A i \in 0 .. Len(text) - 1 :
       /\ Meanings(text, e)[i + 1] = Meanings(text, e)[i] \o Piece(text, i + 1, e)
       /\ Introduces(text)[i + 1] = (Introducer(text[i + 1]) /\ ~Introduces(text)[i])
       /\ h[i + 1] = Step(h[i], text[i + 1], e)

LEMMA EquationsHold ==
  ASSUME NEW L, Signs \subseteq L, NoNumberText \in Seq(L), NEW e \in Event(L), NEW text \in Seq(L),
         Agreed(text, e), NEW h, Starts(h, text, e)
  PROVE  Equations(L, h, text, e)
<1>1. \A i \in 1 .. Len(text) : Piece(text, i, e) \in Seq(L)
  BY PieceType
<1>2. /\ Meanings(text, e) \in [0 .. Len(text) -> Seq(L)] /\ Meanings(text, e)[0] = <<>>
      /\ \A i \in 0 .. Len(text) - 1 :
           Meanings(text, e)[i + 1] = Meanings(text, e)[i] \o Piece(text, i + 1, e)
  BY <1>1, MeaningsEquation
<1>3. /\ Introduces(text) \in [0 .. Len(text) -> BOOLEAN] /\ Introduces(text)[0] = FALSE
      /\ \A i \in 0 .. Len(text) - 1 :
           Introduces(text)[i + 1] = (Introducer(text[i + 1]) /\ ~Introduces(text)[i])
  BY IntroducesEquation
<1>4. /\ h[0] = Start
      /\ \A i \in 0 .. Len(text) - 1 : h[i + 1] = Step(h[i], text[i + 1], e)
  BY DEF Starts
<1> QED BY <1>2, <1>3, <1>4 DEF Equations

\* What is meant before a character that is not the last.
LEMMA BareInside ==
  ASSUME NEW L, NEW e, NEW text \in Seq(L), Agreed(text, e), NEW h, Equations(L, h, text, e), NEW i \in 0 .. Len(text) - 1
  PROVE  Bare(text, e, i) = Meanings(text, e)[i]
<1>1. CASE Introduces(text)[i]
  <2>1. i # 0
    BY <1>1 DEF Equations
  <2> DEFINE k == i - 1
  <2>2. k \in 0 .. Len(text) - 1 /\ k \in 0 .. Len(text) /\ k + 1 = i /\ i # Len(text)
    BY <2>1
  <2> HIDE DEF k
  <2>3. Piece(text, k + 1, e) = <<>>
    BY <1>1, <2>2, PieceIs
  <2>4. Meanings(text, e)[k] \in Seq(L)
    BY <2>2 DEF Equations
  <2>5. Meanings(text, e)[k + 1] = Meanings(text, e)[k] \o Piece(text, k + 1, e)
    BY <2>2 DEF Equations
  <2>6. Meanings(text, e)[k] \in Seq(L) /\ Meanings(text, e)[i] = Meanings(text, e)[k] \o <<>>
    BY <2>2, <2>3, <2>4, <2>5
  <2>7. Meanings(text, e)[i] = Meanings(text, e)[k]
    BY <2>6, ConcatEmptySeq
  <2> QED BY <1>1, <2>7 DEF Bare, k
<1>2. CASE ~Introduces(text)[i]
  BY <1>2 DEF Bare
<1> QED BY <1>1, <1>2

LEMMA AfterStep ==
  ASSUME NEW L, NUL \notin L, Signs \subseteq L, NoNumberText \in Seq(L), NEW e \in Event(L),
         NEW text \in Seq(L), Agreed(text, e), NEW h, Equations(L, h, text, e), NEW i \in 0 .. Len(text) - 1, After(L, h, text, e, i)
  PROVE  After(L, h, text, e, i + 1)
<1> DEFINE c == text[i + 1]
           d == text[i]
           st == h[i]
           to == h[i + 1]
           m == Meanings(text, e)[i]
           intro == Introduces(text)[i]
           next == Introduces(text)[i + 1]
<1>1. /\ i \in 0 .. Len(text) /\ i + 1 \in 0 .. Len(text) /\ (i + 1) - 1 = i /\ i + 1 \in 1 .. Len(text)
      /\ c \in L
  OBVIOUS
<1>2. Meets(L, st, m, intro) /\ Behind(d, st, intro) /\ intro \in BOOLEAN
  <2>1. Bare(text, e, i) = m
    BY BareInside
  <2>2. intro \in BOOLEAN
    BY <1>1 DEF Equations
  <2>3. Meets(L, st, Bare(text, e, i), intro) /\ Behind(d, st, intro)
    BY DEF After
  <2> HIDE DEF d, st, to, m, intro
  <2> QED BY <2>1, <2>2, <2>3
<1>3. to = Step(st, c, e)
  BY DEF Equations
<1>4. next = (Introducer(c) /\ ~intro)
  BY DEF Equations
<1>5. Meanings(text, e)[i + 1] = m \o Piece(text, i + 1, e)
  BY DEF Equations
<1>6. ~next /\ intro => Piece(text, i + 1, e) = Meant(d, c, e)
  BY PieceIs
<1>7. ~next /\ ~intro => Piece(text, i + 1, e) = <<c>>
  BY PieceIs
<1>8. Bare(text, e, i + 1) = IF next THEN m ELSE Meanings(text, e)[i + 1]
  BY <1>1 DEF Bare
<1>9. After(L, h, text, e, i + 1) <=> Meets(L, to, Bare(text, e, i + 1), next) /\ Behind(c, to, next)
  BY DEF After
<1> HIDE DEF c, d, st, to, m, intro, next
<1>10. StepSays(L, st, m, intro, d, c, e)
  BY <1>1, <1>2, StepMeets
<1>11. CASE intro
  <2>1. next = FALSE
    BY <1>4, <1>11
  <2>2. Bare(text, e, i + 1) = m \o Meant(d, c, e)
    BY <1>5, <1>6, <1>8, <1>11, <2>1
  <2>3. Meets(L, to, m \o Meant(d, c, e), FALSE)
    BY <1>3, <1>10, <1>11 DEF StepSays
  <2>4. Behind(c, to, FALSE)
    BY DEF Behind
  <2> QED BY <1>9, <2>1, <2>2, <2>3, <2>4
<1>12. CASE ~intro /\ Introducer(c)
  <2>1. next = TRUE
    BY <1>4, <1>12
  <2>2. Meets(L, to, m, TRUE) /\ Behind(c, to, TRUE)
    BY <1>3, <1>10, <1>12 DEF StepSays
  <2> QED BY <1>8, <1>9, <2>1, <2>2
<1>13. CASE ~intro /\ ~Introducer(c)
  <2>1. next = FALSE
    BY <1>4, <1>13
  <2>2. Bare(text, e, i + 1) = m \o <<c>>
    BY <1>5, <1>7, <1>8, <1>13, <2>1
  <2>3. Meets(L, to, m \o <<c>>, FALSE)
    BY <1>3, <1>10, <1>13 DEF StepSays
  <2>4. Behind(c, to, FALSE)
    BY DEF Behind
  <2> QED BY <1>9, <2>1, <2>2, <2>3, <2>4
<1> QED BY <1>2, <1>11, <1>12, <1>13

LEMMA AfterAll ==
  ASSUME NEW L, NUL \notin L, Signs \subseteq L, NoNumberText \in Seq(L), NEW e \in Event(L),
         NEW text \in Seq(L), Agreed(text, e), NEW h, Starts(h, text, e)
  PROVE  After(L, h, text, e, Len(text))
<1> DEFINE n == Len(text)
           T == {i \in 0 .. n : After(L, h, text, e, i)}
<1>1. n \in Nat /\ 0 \in 0 .. n /\ n \in 0 .. n
  OBVIOUS
<1>2. Equations(L, h, text, e)
  BY EquationsHold
<1>3. 0 \in T
  <2>1. /\ Introduces(text)[0] = FALSE /\ h[0] = Start /\ Meanings(text, e)[0] = <<>>
    BY <1>2 DEF Equations
  <2>2. Bare(text, e, 0) = <<>>
    BY <2>1 DEF Bare
  <2>3. Meets(L, Start, <<>>, FALSE)
    BY StartMeets
  <2>4. Behind(text[0], Start, FALSE)
    BY DEF Behind
  <2>5. After(L, h, text, e, 0)
    BY <2>1, <2>2, <2>3, <2>4 DEF After
  <2> QED BY <1>1, <2>5
<1>4. ASSUME NEW i \in 0 .. n - 1, i \in T PROVE i + 1 \in T
  <2>1. i + 1 \in 0 .. n
    BY <1>1
  <2>2. After(L, h, text, e, i + 1)
    BY <1>2, <1>4, AfterStep
  <2> QED BY <2>1, <2>2
<1> HIDE DEF T
<1>5. \A i \in 0 .. n : i \in T
  BY <1>1, <1>3, <1>4, AllUpTo
<1> QED BY <1>1, <1>5 DEF T

\* A part of a text is a prefix of it.
LEMMA PartIsPrefix ==
  ASSUME NEW L, NEW text \in Seq(L), NEW w \in Seq(L)
  PROVE  IsPrefix(text, text \o w)
<1> DEFINE all == text \o w
           k == Len(text)
<1>1. all \in Seq(L) /\ Len(all) = k + Len(w) /\ \A i \in 1 .. k : all[i] = text[i]
  BY ConcatProperties
<1>2. k \in Nat /\ Len(w) \in Nat
  OBVIOUS
<1> HIDE DEF all, k
<1>3. k <= Len(all)
  BY <1>1, <1>2
<1>4. SubSeq(text, 1, k) \in Seq(L) /\ Len(SubSeq(text, 1, k)) = k /\ \A i \in 1 .. k : SubSeq(text, 1, k)[i] = text[i]
  BY <1>2 DEF k
<1>5. SubSeq(all, 1, k) \in Seq(L) /\ Len(SubSeq(all, 1, k)) = k /\ \A i \in 1 .. k : SubSeq(all, 1, k)[i] = all[i]
  BY <1>1, <1>2, <1>3
<1>6. SubSeq(text, 1, k) = SubSeq(all, 1, k)
  BY <1>1, <1>4, <1>5, SeqEqual
<1> QED BY <1>3, <1>6 DEF IsPrefix, all, k

-----------------------------------------------------------------------------
(* What is read in the buffer *)

\* The characters before the first NUL are those before it.
LEMMA CStringOf ==
  ASSUME NEW L, NUL \notin L, NEW chars, NEW n \in 0 .. Len(chars), chars \in Seq(L \union {NUL}), EndsAt(chars, n)
  PROVE  CString(chars) = SubSeq(chars, 1, n)
<1> DEFINE k == CHOOSE x \in 0 .. Len(chars) : EndsAt(chars, x)
<1>1. k \in 0 .. Len(chars) /\ EndsAt(chars, k)
  <2>1. \E x \in 0 .. Len(chars) : EndsAt(chars, x)
    OBVIOUS
  <2> QED BY <2>1
<1>2. CString(chars) = SubSeq(chars, 1, k)
  BY DEF CString
<1> HIDE DEF k
<1>3. k = n
  <2>1. CASE k < n
    <3>1. k + 1 \in 1 .. n /\ k # Len(chars)
      BY <1>1, <2>1
    <3> QED BY <1>1, <3>1 DEF EndsAt
  <2>2. CASE n < k
    <3>1. n + 1 \in 1 .. k /\ n # Len(chars)
      BY <1>1, <2>2
    <3> QED BY <1>1, <3>1 DEF EndsAt
  <2> QED BY <1>1, <2>1, <2>2
<1> QED BY <1>2, <1>3

\* A text with a NUL behind it, or with nothing behind it.
LEMMA CStringAlone ==
  ASSUME NEW L, NUL \notin L, NEW x \in Seq(L)
  PROVE  CString(x) = x
<1> DEFINE n == Len(x)
<1>1. n \in 0 .. n /\ x \in Seq(L \union {NUL})
  BY SeqMonotonic
<1>2. EndsAt(x, n)
  BY DEF EndsAt
<1>3. CString(x) = SubSeq(x, 1, n)
  BY <1>1, <1>2, CStringOf
<1>4. SubSeq(x, 1, n) \in Seq(L) /\ Len(SubSeq(x, 1, n)) = n /\ \A i \in 1 .. n : SubSeq(x, 1, n)[i] = x[i]
  OBVIOUS
<1>5. SubSeq(x, 1, n) = x
  BY <1>4, SeqEqual
<1> QED BY <1>3, <1>5

LEMMA CStringBefore ==
  ASSUME NEW L, NUL \notin L, NEW x \in Seq(L), NEW w \in Seq(L \union {NUL})
  PROVE  CString((x \o <<NUL>>) \o w) = x
<1> DEFINE M == L \union {NUL}
           n == Len(x)
           nul == <<NUL>>
           xn == x \o nul
           all == xn \o w
<1>1. n \in Nat /\ Len(w) \in Nat /\ x \in Seq(M) /\ nul \in Seq(M) /\ Len(nul) = 1 /\ nul[1] = NUL
  BY SeqMonotonic
<1>0. w \in Seq(M) /\ L \subseteq M
  OBVIOUS
<1> HIDE DEF nul, M, n
<1>13. x \in Seq(M) /\ Len(x) = n
  BY <1>1 DEF n
<1>14. /\ xn \in Seq(M) /\ Len(xn) = Len(x) + Len(nul)
       /\ \A i \in 1 .. Len(x) + Len(nul) : xn[i] = IF i <= Len(x) THEN x[i] ELSE nul[i - Len(x)]
  BY <1>1, ConcatProperties
<1> HIDE DEF xn
<1>2. /\ xn \in Seq(M) /\ Len(xn) = n + 1
      /\ \A i \in 1 .. n + 1 : xn[i] = IF i <= n THEN x[i] ELSE nul[i - n]
  BY <1>1, <1>13, <1>14
<1>15. /\ all \in Seq(M) /\ Len(all) = Len(xn) + Len(w)
       /\ \A i \in 1 .. Len(xn) + Len(w) : all[i] = IF i <= Len(xn) THEN xn[i] ELSE w[i - Len(xn)]
  BY <1>0, <1>2, ConcatProperties
<1> HIDE DEF all
<1>3. /\ all \in Seq(M) /\ Len(all) = (n + 1) + Len(w)
      /\ \A i \in 1 .. (n + 1) + Len(w) : all[i] = IF i <= n + 1 THEN xn[i] ELSE w[i - (n + 1)]
  BY <1>2, <1>15
<1>4. \A i \in 1 .. n : all[i] = x[i] /\ x[i] \in L
  BY <1>1, <1>2, <1>3, <1>13
<1>5. all[n + 1] = NUL
  <2>1. n + 1 \in 1 .. n + 1 /\ n + 1 \in 1 .. (n + 1) + Len(w) /\ ~(n + 1 <= n) /\ (n + 1) - n = 1
    BY <1>1
  <2> QED BY <1>1, <1>2, <1>3, <2>1
<1>6. n \in 0 .. Len(all) /\ EndsAt(all, n)
  BY <1>1, <1>3, <1>4, <1>5 DEF EndsAt
<1>7. CString(all) = SubSeq(all, 1, n)
  BY <1>3, <1>6, CStringOf DEF M
<1>8. SubSeq(all, 1, n) \in Seq(M) /\ Len(SubSeq(all, 1, n)) = n /\ \A i \in 1 .. n : SubSeq(all, 1, n)[i] = all[i]
  BY <1>3, <1>6
<1>9. SubSeq(all, 1, n) = x
  BY <1>1, <1>4, <1>8, <1>13, SeqEqual
<1> QED BY <1>7, <1>9 DEF all, xn, nul

LEMMA TwoCharacters ==
  ASSUME NEW a, NEW b
  PROVE  <<a>> \o <<b>> = <<a, b>>
<1> DEFINE M == {a, b}
           one == <<a>>
<1>1. one \in Seq(M) /\ b \in M
  OBVIOUS
<1> DEFINE both == <<a, b>>
<1>4. both \in Seq(M) /\ Len(both) = 2 /\ both[1] = a /\ both[2] = b
  OBVIOUS
<1>5. Len(one) = 1 /\ one[1] = a
  OBVIOUS
<1> HIDE DEF M, one, both
<1> DEFINE added == Append(one, b)
<1>7. /\ added \in Seq(M) /\ Len(added) = Len(one) + 1
      /\ \A i \in 1 .. Len(one) : added[i] = one[i]
      /\ added[Len(one) + 1] = b
  BY <1>1, AppendProperties
<1> HIDE DEF added
<1>8. 1 \in 1 .. Len(one) /\ Len(one) + 1 = 2
  BY <1>5
<1>9. added \in Seq(M) /\ Len(added) = 2 /\ added[1] = a /\ added[2] = b
  BY <1>5, <1>7, <1>8
<1>6. /\ Append(one, b) \in Seq(M) /\ Len(Append(one, b)) = 2
      /\ Append(one, b)[1] = a /\ Append(one, b)[2] = b
  BY <1>9 DEF added
<1>2. Append(one, b) = both
  BY <1>4, <1>6, SeqEqual
<1>3. Append(one, b) = one \o <<b>>
  BY <1>1, AppendIsConcat
<1> QED BY <1>2, <1>3 DEF one, both

\* The format in a memory: a text without NUL, and a NUL behind it.
LEMMA FormatInMemory ==
  ASSUME NEW L, NUL \notin L, NEW mem \in Seq(L \union {NUL})
  PROVE  LET format == CString(mem)
             all == mem \o <<NUL, NUL>>
         IN  /\ format \in Seq(L) /\ Len(format) <= Len(mem)
             /\ all \in Seq(L \union {NUL}) /\ Len(all) = Len(mem) + 2
             /\ \A i \in 1 .. Len(format) : all[i] = format[i]
             /\ all[Len(format) + 1] = NUL
<1> DEFINE M == L \union {NUL}
           Ends == {k \in 0 .. Len(mem) : k = Len(mem) \/ mem[k + 1] = NUL}
           nuls == <<NUL, NUL>>
           all == mem \o nuls
<1>1. PICK n \in Ends : \A y \in Ends : ~(y < n)
  <2>1. Ends \subseteq Nat /\ Len(mem) \in Ends
    OBVIOUS
  <2>2. Ends # {}
    BY <2>1
  <2> HIDE DEF Ends
  <2> QED BY <2>1, <2>2, LeastNumber
<1>2. n \in 0 .. Len(mem) /\ Len(mem) \in Nat /\ (n = Len(mem) \/ mem[n + 1] = NUL)
  OBVIOUS
<1>3. ASSUME NEW i \in 1 .. n PROVE mem[i] # NUL /\ mem[i] \in L
  <2>1. i - 1 \in 0 .. Len(mem) /\ i - 1 < n /\ (i - 1) + 1 = i /\ i \in 1 .. Len(mem)
    BY <1>2
  <2>2. i - 1 \notin Ends
    BY <1>1, <2>1
  <2>3. mem[i] # NUL
    BY <2>1, <2>2
  <2>4. mem[i] \in M
    BY <2>1
  <2> QED BY <2>3, <2>4
<1>4. EndsAt(mem, n)
  BY <1>2, <1>3 DEF EndsAt
<1>5. CString(mem) = SubSeq(mem, 1, n)
  BY <1>2, <1>4, CStringOf
<1>6. /\ SubSeq(mem, 1, n) \in Seq(M) /\ Len(SubSeq(mem, 1, n)) = n
      /\ \A i \in 1 .. n : SubSeq(mem, 1, n)[i] = mem[i]
  BY <1>2
<1> DEFINE format == CString(mem)
<1>7. format \in Seq(M) /\ Len(format) = n /\ \A i \in 1 .. n : format[i] = mem[i]
  BY <1>5, <1>6
<1> HIDE DEF format
<1>8. format \in Seq(L)
  <2>1. \A i \in 1 .. Len(format) : format[i] \in L
    BY <1>3, <1>7
  <2> QED BY <1>7, <2>1, ElementOfSeq, SeqDef
<1>9. nuls \in Seq(M) /\ Len(nuls) = 2 /\ nuls[1] = NUL
  OBVIOUS
<1> HIDE DEF nuls, M, Ends
<1>13. mem \in Seq(M) /\ Len(mem) \in Nat
  BY DEF M
<1>14. /\ all \in Seq(M) /\ Len(all) = Len(mem) + Len(nuls)
       /\ \A i \in 1 .. Len(mem) + Len(nuls) : all[i] = IF i <= Len(mem) THEN mem[i] ELSE nuls[i - Len(mem)]
  BY <1>9, <1>13, ConcatProperties
<1> HIDE DEF all
<1>10. /\ all \in Seq(M) /\ Len(all) = Len(mem) + 2
       /\ \A i \in 1 .. Len(mem) + 2 : all[i] = IF i <= Len(mem) THEN mem[i] ELSE nuls[i - Len(mem)]
  BY <1>9, <1>14
<1>11. \A i \in 1 .. Len(format) : all[i] = format[i]
  BY <1>2, <1>7, <1>10
<1>12. all[n + 1] = NUL
  <2>1. CASE n = Len(mem)
    <3>1. n + 1 \in 1 .. Len(mem) + 2 /\ ~(n + 1 <= Len(mem)) /\ (n + 1) - Len(mem) = 1
      BY <1>2, <2>1
    <3> QED BY <1>9, <1>10, <3>1
  <2>2. CASE n # Len(mem)
    <3>1. n + 1 \in 1 .. Len(mem) + 2 /\ n + 1 <= Len(mem)
      BY <1>2, <2>2
    <3> QED BY <1>2, <1>10, <2>2, <3>1
  <2> QED BY <2>1, <2>2
<1> QED BY <1>2, <1>7, <1>8, <1>10, <1>11, <1>12 DEF format, all, nuls, M

\* What the steps from k to m keep.
LEMMA KeptUpTo ==
  ASSUME NEW k \in Nat, NEW m \in Nat, k <= m, NEW f, NEW U, f[k] \in U,
         \A i \in k .. m - 1 : f[i] \in U => f[i + 1] \in U
  PROVE  f[m] \in U
<1> DEFINE T == {j \in Nat : k + j <= m => f[k + j] \in U}
<1>1. 0 \in T
  <2>1. k + 0 = k
    OBVIOUS
  <2> QED BY <2>1
<1>2. ASSUME NEW j \in Nat, j \in T PROVE j + 1 \in T
  <2>1. k + (j + 1) = (k + j) + 1 /\ j + 1 \in Nat
    OBVIOUS
  <2>2. k + (j + 1) <= m => k + j \in k .. m - 1 /\ k + j <= m
    OBVIOUS
  <2> QED BY <1>2, <2>1, <2>2
<1> HIDE DEF T
<1>3. \A j \in Nat : j \in T
  BY <1>1, <1>2, AllNumbers
<1>4. m - k \in Nat /\ k + (m - k) = m
  OBVIOUS
<1>5. m - k \in T
  BY <1>3, <1>4
<1> QED BY <1>4, <1>5 DEF T

\* Without an introducer, the NUL ends the loop.
LEMMA EndsHere ==
  ASSUME NEW M, NEW all \in Seq(M), NEW h, NEW e, NEW n \in 0 .. Len(all) - 1,
         all[n + 1] = NUL, h[n] \in LoopState(M), h[n].introducer = Nothing,
         Starts(h, all, e)
  PROVE  h[Len(all)].text = h[n].text /\ h[Len(all)].t = h[n].t
<1> DEFINE st == h[n]
           halted == [st EXCEPT !.stopped = TRUE]
           m == Len(all)
<1>1. n \in Nat /\ m \in Nat /\ n + 1 <= m /\ n + 1 \in Nat
  OBVIOUS
<1>2. halted.stopped /\ halted.introducer = "" /\ halted.text = st.text /\ halted.t = st.t
  BY DEF LoopState, Nothing
<1>0. \A i \in 0 .. Len(all) - 1 : h[i + 1] = Step(h[i], all[i + 1], e)
  BY DEF Starts
<1>3. h[n + 1] = Step(st, NUL, e) /\ st.introducer = ""
  BY <1>0 DEF Nothing
<1>4. h[n + 1] = halted
  BY <1>3 DEF Step
<1>5. ASSUME NEW c PROVE Step(halted, c, e) = halted
  <2>1. Step(halted, c, e) = [halted EXCEPT !.stopped = TRUE]
    <3> HIDE DEF halted
    <3> QED BY <1>2 DEF Step
  <2> QED BY <2>1 DEF LoopState
<1> DEFINE U == {halted}
<1> HIDE DEF halted, st
<1>6. \A i \in n + 1 .. m - 1 : h[i] \in U => h[i + 1] \in U
  BY <1>0, <1>1, <1>5
<1>7. h[n + 1] \in U
  BY <1>4
<1> HIDE DEF U, m
<1>8. h[m] \in U
  BY <1>1, <1>6, <1>7, KeptUpTo
<1>9. h[m] = halted
  BY <1>8 DEF U
<1> QED BY <1>2, <1>9 DEF m, st

\* With an introducer, the NUL is put behind it, and what follows comes behind
\* the NUL.
LEMMA RunsOn ==
  ASSUME NEW M, Signs \subseteq M, NUL \in M, NoNumberText \in Seq(M), NEW e \in Event(M),
         NEW all \in Seq(M), NEW h, NEW n \in 0 .. Len(all) - 1,
         all[n + 1] = NUL, h[n] \in LoopState(M), h[n].introducer # Nothing,
         Starts(h, all, e)
  PROVE  h[Len(all)] \in Beyond(M, h[n].text \o <<h[n].introducer, NUL>>)
<1> DEFINE st == h[n]
           m == Len(all)
           new == st.text \o <<st.introducer, NUL>>
           U == Beyond(M, new)
<1>1. n \in Nat /\ m \in Nat /\ n + 1 <= m /\ n + 1 \in Nat
  OBVIOUS
<1>2. st.introducer = "%" \/ st.introducer = "\\"
  BY DEF LoopState, Nothing
<1>0. \A i \in 0 .. Len(all) - 1 : h[i + 1] = Step(h[i], all[i + 1], e)
  BY DEF Starts
<1>3. h[n + 1] = Step(st, NUL, e) /\ st.text \in Seq(M)
  BY <1>0 DEF LoopState
<1>4. Step(st, NUL, e) = PutChars(st, <<st.introducer, NUL>>)
  <2>1. NUL \notin Directives /\ NUL # "%" /\ NUL # "\\" /\ NUL \notin DOMAIN Escape
    BY DEF NUL, Directives, Escape
  <2>2. CASE st.introducer = "%"
    BY <2>1, <2>2 DEF Step, Percent
  <2>3. CASE st.introducer = "\\"
    BY <2>1, <2>3 DEF Step, Backslash
  <2> QED BY <1>2, <2>2, <2>3
<1>5. h[n + 1] \in LoopState(M)
  BY <1>3, StepGrows DEF Beyond
<1>6. h[n + 1].text = new
  BY <1>3, <1>4 DEF PutChars, LoopState
<1>7. new \in Seq(M)
  <2>1. <<st.introducer, NUL>> \in Seq(M)
    <3>1. st.introducer \in M
      BY <1>2 DEF Signs
    <3> QED BY <3>1
  <2> QED BY <1>3, <2>1, ConcatProperties
<1> HIDE DEF st, new
<1>8. new \o <<>> = new /\ <<>> \in Seq(M)
  BY <1>7, EmptySeq, ConcatEmptySeq
<1>9. h[n + 1] \in U
  BY <1>5, <1>6, <1>8 DEF Beyond
<1>10. ASSUME NEW i \in n + 1 .. m - 1, h[i] \in U PROVE h[i + 1] \in U
  <2>1. i \in 0 .. Len(all) - 1 /\ i + 1 \in 1 .. Len(all)
    BY <1>1
  <2>2. h[i + 1] = Step(h[i], all[i + 1], e) /\ all[i + 1] \in M
    BY <1>0, <2>1
  <2>3. h[i] \in Beyond(M, new) /\ h[i] \in LoopState(M)
    BY <1>10 DEF Beyond
  <2> HIDE DEF U, m
  <2>4. h[i + 1] \in Beyond(M, h[i].text)
    BY <2>2, <2>3, StepGrows
  <2>5. h[i + 1] \in Beyond(M, new)
    BY <1>7, <2>3, <2>4, BeyondBeyond
  <2> QED BY <2>5 DEF U
<1> HIDE DEF U, m
<1>11. h[m] \in U
  BY <1>1, <1>9, <1>10, KeptUpTo
<1> QED BY <1>11 DEF U, m, st, new

LEMMA EventMonotonic ==
  ASSUME NEW L, NEW M, L \subseteq M
  PROVE  Event(L) \subseteq Event(M)
<1>1. Seq(L) \subseteq Seq(M)
  BY SeqMonotonic
<1> DEFINE S == Seq(L)
           T == Seq(M)
<1>2. S \subseteq T
  BY <1>1
<1> HIDE DEF S, T
<1>3. [type : DOMAIN type2string, pretype : DOMAIN type2string, incoming : BOOLEAN,
       line : Nat, duration : Nat, caller_number : S, caller_name : S,
       called_number : S, called_name : S,
       hour : Nat, min : Nat, sec : Nat, time : L, datetime : L] \subseteq
      [type : DOMAIN type2string, pretype : DOMAIN type2string, incoming : BOOLEAN,
       line : Nat, duration : Nat, caller_number : T, caller_name : T,
       called_number : T, called_name : T,
       hour : Nat, min : Nat, sec : Nat, time : M, datetime : M]
  BY <1>2
<1> QED BY <1>3 DEF Event, S, T

\* l2f_EVENT_format writes what the format says for every event, whatever its texts
\* and numbers are, whatever lies behind the format in memory, for formats of any
\* length and buffers of any size.
THEOREM TextAsMeant ==
  ASSUME NEW L, NUL \notin L, Signs \subseteq L, NoNumberText \in Seq(L), NEW e \in Event(L),
         NEW mem \in Seq(L \union {NUL})
  PROVE  FormattedAsMeant(mem, e)
<1> DEFINE M == L \union {NUL}
           text == CString(mem)
           all == mem \o <<NUL, NUL>>
           h == States(all, e)
           n == Len(text)
           end == h[n]
           last == h[Len(all)]
           m == Bare(text, e, n)
           intro == Introduces(text)[n]
           meaning == Meaning(text, e)
           c == text[n]
           formatted == Format(mem, e)
<1>1. /\ text \in Seq(L) /\ n \in Nat /\ n <= Len(mem)
      /\ all \in Seq(M) /\ Len(all) = Len(mem) + 2
      /\ \A i \in 1 .. n : all[i] = text[i]
      /\ all[n + 1] = NUL
  BY FormatInMemory
<1>2. /\ formatted = CString(last.text)
      /\ Terminated(mem, e) = last.t
  BY <1>1 DEF Format, Terminated, End
<1>3. /\ Signs \subseteq M /\ NUL \in M /\ L \subseteq M /\ NoNumberText \in Seq(M) /\ e \in Event(M)
  BY SeqMonotonic, EventMonotonic
<1> HIDE DEF all, text, h
<1>4. /\ h[0] = Start
      /\ \A i \in 0 .. Len(all) - 1 : h[i + 1] = Step(h[i], all[i + 1], e) /\ h[i] \in LoopState(M)
  <2> HIDE DEF M
  <2> HIDE DEF n, end, last, m, intro, meaning, c, formatted
  <2>1. /\ States(all, e) \in [0 .. Len(all) -> LoopState(M)] /\ States(all, e)[0] = Start
        /\ \A i \in 0 .. Len(all) - 1 : States(all, e)[i + 1] = Step(States(all, e)[i], all[i + 1], e)
    <3>1. all \in Seq(M)
      BY <1>1
    <3> QED BY <1>3, <3>1, StatesEquation
  <2>2. /\ h \in [0 .. Len(all) -> LoopState(M)] /\ h[0] = Start
        /\ \A i \in 0 .. Len(all) - 1 : h[i + 1] = Step(h[i], all[i + 1], e)
    BY <2>1 DEF h
  <2>3. Len(all) \in Nat
    BY <1>1
  <2> SUFFICES ASSUME NEW i \in 0 .. Len(all) - 1
               PROVE  h[i + 1] = Step(h[i], all[i + 1], e) /\ h[i] \in LoopState(M)
    BY <2>2
  <2>4. i \in 0 .. Len(all)
    BY <2>3
  <2>5. h[i] \in LoopState(M)
    BY <2>2, <2>4
  <2> QED BY <2>2, <2>5
<1>5. Starts(h, text, e)
  <2>1. \A i \in 0 .. n - 1 : i \in 0 .. Len(all) - 1 /\ all[i + 1] = text[i + 1]
    BY <1>1
  <2> QED BY <1>4, <2>1 DEF Starts
<1>6. n \in 0 .. Len(all) - 1 /\ end \in LoopState(M)
  <2>1. n \in 0 .. Len(all) - 1
    BY <1>1
  <2> QED BY <1>4, <2>1
<1> SUFFICES ASSUME Agreed(text, e)
             PROVE  /\ IsPrefix(formatted, meaning)
                    /\ Len(meaning) <= BufSize - 2 => formatted = meaning
                    /\ Len(meaning) <= BufSize - 1 /\ ~intro => Terminated(mem, e) = Len(meaning)
  BY DEF FormattedAsMeant, text
<1>7. Equations(L, h, text, e)
  BY <1>1, <1>5, EquationsHold
<1>8. Meets(L, end, m, intro) /\ Behind(c, end, intro)
  <2>1. After(L, h, text, e, n)
    BY <1>1, <1>5, AfterAll
  <2> QED BY <2>1 DEF After
<1>9. intro \in BOOLEAN
  <2>1. n \in 0 .. n
    BY <1>1
  <2> QED BY <1>7, <2>1 DEF Equations
<1>10. ~intro => meaning = m
  BY DEF Meaning, Bare
<1>11. intro => meaning = m \o <<c>> /\ c \in L
  <2> SUFFICES ASSUME intro PROVE meaning = m \o <<c>> /\ c \in L
    OBVIOUS
  <2>1. n # 0
    BY <1>7 DEF Equations
  <2> DEFINE k == n - 1
  <2>2. k \in 0 .. Len(text) - 1 /\ k + 1 = n
    BY <1>1, <2>1
  <2> HIDE DEF k
  <2>3. Piece(text, k + 1, e) = <<c>>
    <3> HIDE DEF M, end, last, m, meaning, formatted
    <3>1. Introduces(text)[k + 1] /\ k + 1 = Len(text) /\ c = text[k + 1]
      BY <2>2
    <3> HIDE DEF c, intro, n
    <3> QED BY <1>1, <2>2, <3>1, PieceIs
  <2>4. Meanings(text, e)[k + 1] = Meanings(text, e)[k] \o Piece(text, k + 1, e)
    BY <1>7, <2>2 DEF Equations
  <2>5. m = Meanings(text, e)[k]
    BY DEF Bare, k
  <2>6. c \in L
    BY <1>1, <2>1
  <2> QED BY <2>2, <2>3, <2>4, <2>5, <2>6 DEF Meaning
<1>23. Starts(h, all, e)
  BY <1>4 DEF Starts
<1>24. all[n + 1] = NUL /\ n \in 0 .. Len(all) - 1 /\ h[n] \in LoopState(M) /\ all \in Seq(M)
  BY <1>1, <1>6
<1> HIDE DEF M, n
<1>12. end.introducer = Nothing => last.text = end.text /\ last.t = end.t
  <2> SUFFICES ASSUME h[n].introducer = Nothing
               PROVE  h[Len(all)].text = h[n].text /\ h[Len(all)].t = h[n].t
    OBVIOUS
  <2> HIDE DEF end, last, m, intro, meaning, c, formatted
  <2> QED BY <1>23, <1>24, EndsHere
<1>13. end.introducer # Nothing => last \in Beyond(M, end.text \o <<end.introducer, NUL>>)
  <2> SUFFICES ASSUME h[n].introducer # Nothing
               PROVE  h[Len(all)] \in Beyond(M, h[n].text \o <<h[n].introducer, NUL>>)
    OBVIOUS
  <2> HIDE DEF end, last, m, intro, meaning, c, formatted
  <2> QED BY <1>3, <1>23, <1>24, RunsOn
<1> HIDE DEF n, end, last, m, intro, meaning, c, formatted
<1>14. end \in LoopState(L) /\ m \in Seq(L) /\ Part(L, end.text, m)
  BY <1>8 DEF Meets
<1>15. PICK w \in Seq(L) : m = end.text \o w
  BY <1>14 DEF Part
<1> DEFINE start == end.text
<1>16. start \in Seq(L)
  BY <1>14 DEF LoopState
<1> HIDE DEF start
<1>17. m = start \o w
  BY <1>15 DEF start
<1>18. IsPrefix(start, m)
  BY <1>16, <1>17, PartIsPrefix
<1>19. end.introducer = Nothing => formatted = start /\ Terminated(mem, e) = end.t
  <2>1. CString(start) = start
    BY <1>16, CStringAlone
  <2> QED BY <1>2, <1>12, <2>1 DEF start
<1>20. CASE ~intro
  <2>1. end.introducer = Nothing
    BY <1>8, <1>9, <1>20 DEF Meets
  <2>2. formatted = start /\ meaning = m /\ Terminated(mem, e) = end.t
    BY <1>10, <1>19, <1>20, <2>1
  <2>3. Len(m) <= BufSize - 2 => start = m
    BY <1>14 DEF Part, start
  <2>4. Len(m) <= BufSize - 1 => end.t = Len(m)
    <3>1. CASE end.stopped
      <4>1. end.t >= BufSize - 1 /\ end.t <= Len(m)
        BY <1>8, <3>1 DEF Meets
      <4>2. end.t \in Nat
        BY <1>14 DEF LoopState
      <4>3. Len(m) \in Nat
        BY <1>14
      <4> DEFINE k == Len(m)
                 t == end.t
      <4>4. t \in Nat /\ k \in Nat /\ t >= BufSize - 1 /\ t <= k
        BY <4>1, <4>2, <4>3
      <4> HIDE DEF k, t
      <4>5. k <= BufSize - 1 => t = k
        BY <4>4, BufSizeAssumption
      <4> QED BY <4>5 DEF k, t
    <3>2. CASE ~end.stopped
      BY <1>8, <3>2 DEF Meets
    <3> QED BY <3>1, <3>2
  <2> QED BY <1>18, <2>2, <2>3, <2>4
<1>21. CASE intro /\ end.stopped
  <2>1. end.introducer = Nothing
    BY <1>8, <1>21 DEF Meets
  <2>2. <<c>> \in Seq(L) /\ meaning = m \o <<c>>
    BY <1>11, <1>21
  <2>3. Meets(L, end, m \o <<c>>, FALSE)
    BY <1>8, <1>21, <2>2, StoppedMeets
  <2>4. Part(L, end.text, meaning)
    BY <2>2, <2>3 DEF Meets
  <2>5. PICK v \in Seq(L) : meaning = start \o v
    BY <2>4 DEF Part, start
  <2>6. IsPrefix(start, meaning)
    BY <1>16, <2>5, PartIsPrefix
  <2>7. formatted = start
    BY <1>19, <2>1
  <2>8. Len(meaning) <= BufSize - 2 => start = meaning
    BY <2>4 DEF Part, start
  <2> QED BY <1>21, <2>6, <2>7, <2>8
<1>22. CASE intro /\ ~end.stopped
  <2>1. end.introducer = c /\ Introducer(c)
    BY <1>8, <1>22 DEF Behind
  <2>2. end.introducer # Nothing
    BY <2>1 DEF Introducer, Nothing
  <2>3. end.t <= BufSize - 2
    BY <1>14, <2>2 DEF LoopState
  <2>4. start = m
    BY <1>8, <1>22, <2>3, MeetsWhole DEF start
  <2>5. c \in L /\ meaning = m \o <<c>>
    BY <1>11, <1>22
  <2>6. meaning \in Seq(L)
    <3>1. <<c>> \in Seq(L)
      BY <2>5
    <3> QED BY <1>14, <2>5, <3>1, ConcatProperties
  <2>7. PICK v \in Seq(M) : last.text = (m \o <<c, NUL>>) \o v
    <3>1. last \in Beyond(M, m \o <<c, NUL>>)
      BY <1>13, <2>1, <2>2, <2>4 DEF start
    <3> QED BY <3>1 DEF Beyond
  <2>8. m \o <<c, NUL>> = meaning \o <<NUL>>
    <3>1. m \in Seq(M) /\ <<c>> \in Seq(M) /\ <<NUL>> \in Seq(M)
      BY <1>3, <1>14, <2>5, SeqMonotonic
    <3>2. (m \o <<c>>) \o <<NUL>> = m \o (<<c>> \o <<NUL>>)
      <4> DEFINE one == <<c>>
                 nul == <<NUL>>
      <4>1. one \in Seq(M) /\ nul \in Seq(M)
        BY <3>1
      <4> HIDE DEF one, nul, M
      <4>2. (m \o one) \o nul = m \o (one \o nul)
        BY <3>1, <4>1, ConcatAssociative
      <4> QED BY <4>2 DEF one, nul
    <3>3. <<c>> \o <<NUL>> = <<c, NUL>>
      BY TwoCharacters
    <3> QED BY <2>5, <3>2, <3>3
  <2>9. CString((meaning \o <<NUL>>) \o v) = meaning
    BY <2>6, CStringBefore DEF M
  <2>10. formatted = meaning
    BY <1>2, <2>7, <2>8, <2>9
  <2>11. IsPrefix(meaning, meaning)
    <3>1. <<>> \in Seq(L) /\ meaning \o <<>> = meaning
      BY <2>6, EmptySeq, ConcatEmptySeq
    <3>2. IsPrefix(meaning, meaning \o <<>>)
      BY <2>6, <3>1, PartIsPrefix
    <3> QED BY <3>1, <3>2
  <2> QED BY <1>22, <2>10, <2>11
<1> QED BY <1>9, <1>20, <1>21, <1>22

\* The memory holds characters all the time.
LEMMA MemoryIsText == MCSpec => [](memory \in Seq(FormatCharacters))
<1>1. MCInit => memory \in Seq(FormatCharacters)
  BY EmptySeq DEF MCInit
<1>2. memory \in Seq(FormatCharacters) /\ [MCNext]_inputs => (memory \in Seq(FormatCharacters))'
  BY DEF MCNext, ReadFile, Dial, Write, inputs
<1> QED BY <1>1, <1>2, PTL DEF MCSpec

\* Characters of the two events of MCEvents.
EventSigns == {"1", "4", "9", "+", "m", "e", "time", "datetime"}

LEMMA EventsAreEvents ==
  ASSUME NEW L, EventSigns \subseteq L, NEW e \in MCEvents
  PROVE  e \in Event(L)
<1> DEFINE T == Seq(L)
           nil == <<>>
           number1 == <<"+", "4", "9">>
           number2 == <<"+", "1">>
           name == <<"m", "e">>
           types == DOMAIN type2string
<1>1. /\ "1" \in L /\ "4" \in L /\ "9" \in L /\ "+" \in L /\ "m" \in L /\ "e" \in L
      /\ "time" \in L /\ "datetime" \in L
  BY DEF EventSigns
<1>2. nil \in T
  BY EmptySeq
<1>3. number1 \in T
  BY <1>1
<1>4. number2 \in T
  BY <1>1
<1>5. name \in T
  BY <1>1
<1>6. "DISCONNECT" \in types /\ "RING" \in types /\ "CALL" \in types
  BY DEF type2string
<1> DEFINE missed == [type |-> "DISCONNECT", pretype |-> "RING", incoming |-> TRUE, line |-> 1,
                      duration |-> 0, caller_number |-> nil, caller_name |-> nil,
                      called_number |-> number1, called_name |-> name, hour |-> 7, min |-> 5,
                      sec |-> 10, time |-> "time", datetime |-> "datetime"]
           call == [type |-> "DISCONNECT", pretype |-> "CALL", incoming |-> FALSE, line |-> 2,
                    duration |-> 665, caller_number |-> number1, caller_name |-> name,
                    called_number |-> number2, called_name |-> nil, hour |-> 17, min |-> 0,
                    sec |-> 0, time |-> "time", datetime |-> "datetime"]
           events == [type : types, pretype : types, incoming : BOOLEAN, line : Nat, duration : Nat,
                      caller_number : T, caller_name : T, called_number : T, called_name : T,
                      hour : Nat, min : Nat, sec : Nat, time : L, datetime : L]
<1>7. e = missed \/ e = call
  BY DEF MCEvents
<1>8. events = Event(L)
  BY DEF Event
<1> HIDE DEF T, types, nil, number1, number2, name
<1>9. missed \in events
  BY <1>1, <1>2, <1>3, <1>5, <1>6
<1>10. call \in events
  BY <1>1, <1>2, <1>3, <1>4, <1>5, <1>6
<1> HIDE DEF missed, call, events
<1> QED BY <1>7, <1>8, <1>9, <1>10

\* l2f_EVENT_format writes what the format says, for formats of any length and of
\* any characters, whatever lies behind them, buffers of any size and any text for a
\* missing number.
THEOREM FormatsMeantHolds == MCSpec => []FormatsMeant
<1>1. ASSUME memory \in Seq(FormatCharacters) PROVE FormatsMeant
  <2> DEFINE L == (FormatCharacters \union STRING \union Signs \union EventSigns) \ {NUL}
             M == L \union {NUL}
  <2>1. FormatCharacters \subseteq M /\ STRING \ {NUL} \subseteq L
    OBVIOUS
  <2>2. NUL \notin Signs /\ NUL \notin EventSigns
    BY DEF Signs, EventSigns, NUL, Digits, type2string, Escape
  <2>3. NUL \notin L /\ Signs \subseteq L /\ EventSigns \subseteq L
    BY <2>2
  <2> HIDE DEF L
  <2>4. memory \in Seq(M) /\ NoNumberText \in Seq(L)
    BY <1>1, <2>1, NoNumberAssumption, SeqMonotonic
  <2> QED BY <2>3, <2>4, EventsAreEvents, TextAsMeant DEF FormatsMeant
<1> QED BY <1>1, MemoryIsText, PTL
=============================================================================
