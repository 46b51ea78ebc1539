--------------------------- MODULE Configuration ---------------------------
(***************************************************************************)
(* configuration_read (configuration.c): the configuration file is read    *)
(* line by line, and each key and value goes to the component of its       *)
(* section.  fritzboxfon and phonenumber have one record, in which later   *)
(* sections overwrite earlier ones; the sources of a lookup and the        *)
(* targets of notifications and logs have a list with a record for each    *)
(* section, made by CFG_FIND_OR_CREATE (configuration.h).                  *)
(*                                                                         *)
(* The text of a line is abstracted to what the reader tells apart.  given *)
(* is a history variable, for the properties only: what the file says,     *)
(* section by section.                                                     *)
(***************************************************************************)
EXTENDS Integers, Sequences

CONSTANTS
  Sections,   \* names of sections in files
  Keys,       \* keys in files
  Values,     \* values in files
  Atoi,       \* a value, as the integer that atoi() makes of it
  Unset,      \* what memset() and static storage leave in a record
  Built,      \* the kinds of records whose support is compiled in (HAVE_L2F_...)
  MaxLines    \* bound on the length of a file

ASSUME AtoiAssumption == Atoi \in [Values -> Values] /\ Unset \notin Values
ASSUME MaxLinesAssumption == MaxLines \in Nat

VARIABLES
  status,     \* "reading", "read", or "failed"
  idx,        \* number of the present section, from 0
  section,    \* its name
  settings,   \* the records of fritzboxfon and phonenumber
  records,    \* the lists of records: _cfg_lookup_ldap and the others
  lines,      \* lines read
  given       \* history, see above

vars == <<status, idx, section, settings, records, lines, given>>

-----------------------------------------------------------------------------
(* The sections and keys of the components *)

FritzBoxFonKeys == {"host", "port"}
PhoneNumberKeys == {"prefix_city", "prefix_state", "nonumber"}

LookupLdapKeys == {"host", "port", "basedn"}
LookupMysqlKeys == {"host", "username", "password", "database", "table"}
LookupScriptKeys == {"script"}

NumberFilterKeys == {"caller_number", "called_number"}
NotifyDreamboxKeys == {"url", "text"} \union NumberFilterKeys
NotifyIrcKeys == {"host", "port", "nick", "realname", "buddies", "text"} \union NumberFilterKeys
NotifyMailKeys == {"fromaddr", "toaddr", "subject", "text"} \union NumberFilterKeys
NotifyScriptKeys == {"script", "parameters", "call"} \union NumberFilterKeys
NotifyCallbackKeys == {"host", "password", "dial_prefix", "dial_port"} \union NumberFilterKeys

LogFileKeys == {"file", "format"}
LogMysqlKeys == {"host", "username", "password", "database", "table"}
LogSyslogKeys == {"ident", "format"}

LookupKinds == {"lookup:ldap", "lookup:mysql", "lookup:script"}
NotifyKinds == {"notify:dreambox", "notify:irc", "notify:mail", "notify:script", "notify:callback"}
LogKinds == {"log:file", "log:mysql", "log:syslog"}

Singles == {"fritzboxfon", "phonenumber"}
Kinds == LookupKinds \union NotifyKinds \union LogKinds

KeysOf(s) ==
  CASE s = "fritzboxfon" -> FritzBoxFonKeys
    [] s = "phonenumber" -> PhoneNumberKeys
    [] s = "lookup:ldap" -> LookupLdapKeys
    [] s = "lookup:mysql" -> LookupMysqlKeys
    [] s = "lookup:script" -> LookupScriptKeys
    [] s = "notify:dreambox" -> NotifyDreamboxKeys
    [] s = "notify:irc" -> NotifyIrcKeys
    [] s = "notify:mail" -> NotifyMailKeys
    [] s = "notify:script" -> NotifyScriptKeys
    [] s = "notify:callback" -> NotifyCallbackKeys
    [] s = "log:file" -> LogFileKeys
    [] s = "log:mysql" -> LogMysqlKeys
    [] s = "log:syslog" -> LogSyslogKeys
    [] OTHER -> {}

-----------------------------------------------------------------------------
(* configuration.h *)

Blank == [k \in Keys |-> Unset]

\* The only integers are the ports; dial_port is a string.
Stored(key, value) == IF key = "port" THEN Atoi[value] ELSE value

Has(list, i) == \E n \in DOMAIN list : list[n].idx = i

\* Fault: a record is appended to its list.
FindOrAppend(list, i) ==
  IF Has(list, i) THEN list ELSE list \o <<[idx |-> i, values |-> Blank]>>

\* A new record is put in front of its list.
FindOrCreate(list, i) ==
  IF Has(list, i) THEN list ELSE <<[idx |-> i, values |-> Blank]>> \o list

\* Fault: the value goes to every record.
SetEverywhere(list, i, key, value) ==
  [n \in DOMAIN list |-> [list[n] EXCEPT !.values[key] = Stored(key, value)]]

\* The value of a key in the record of section i.
SetKeyValue(list, i, key, value) ==
  [n \in DOMAIN list |->
     IF list[n].idx = i THEN [list[n] EXCEPT !.values[key] = Stored(key, value)] ELSE list[n]]

-----------------------------------------------------------------------------
(* configuration_read *)

Init ==
  /\ status = "reading"
  /\ idx = -1
  /\ section = ""
  /\ settings = [s \in Singles |-> Blank]
  /\ records = [s \in Kinds |-> <<>>]
  /\ lines = 0
  /\ given = <<>>

\* fopen() fails.
CannotOpen ==
  /\ status = "reading" /\ lines = 0
  /\ status' = "failed"
  /\ UNCHANGED <<idx, section, settings, records, lines, given>>

\* fgets() returns a line.
NextLine == status = "reading" /\ lines < MaxLines /\ lines' = lines + 1

\* An empty line, or a comment.
SkipLine ==
  /\ NextLine
  /\ UNCHANGED <<status, idx, section, settings, records, given>>

\* Fault: the number of the section stays.
OpenSectionUncounted(s) ==
  /\ NextLine
  /\ section' = s
  /\ idx' = 0
  /\ given' = Append(given, [name |-> s, values |-> Blank])
  /\ UNCHANGED <<status, settings, records>>

OpenSection(s) ==
  /\ NextLine
  /\ section' = s
  /\ idx' = idx + 1
  /\ given' = Append(given, [name |-> s, values |-> Blank])
  /\ UNCHANGED <<status, settings, records>>

\* A section without "]", a line without "=", or a line before any section.
BadLine ==
  /\ NextLine
  /\ status' = "failed"
  /\ UNCHANGED <<idx, section, settings, records, given>>

\* l2f_FRITZBOXFON_configure, l2f_PHONENUMBER_configure: one record.
ConfigureSingle(key, value) ==
  /\ section \in Singles
  /\ IF key \in KeysOf(section)
     THEN settings' = [settings EXCEPT ![section][key] = Stored(key, value)] /\ UNCHANGED status
     ELSE status' = "failed" /\ UNCHANGED settings
  /\ UNCHANGED records

\* The configure function of a kind makes the record, then looks at the key.
ConfigureRecord(key, value) ==
  /\ section \in Kinds \intersect Built
  /\ LET list == FindOrCreate(records[section], idx)
     IN  IF key \in KeysOf(section)
         THEN /\ records' = [records EXCEPT ![section] = SetKeyValue(list, idx, key, value)]
              /\ UNCHANGED status
         ELSE /\ records' = [records EXCEPT ![section] = list]
              /\ status' = "failed"
  /\ UNCHANGED settings

\* Without support, a warning; the configure function of notify:irc then
\* returns no value (notify_irc.c:54-57), and the caller takes any.
ConfigureUnbuilt ==
  /\ section \in Kinds \ Built
  /\ status' \in IF section = "notify:irc" THEN {"reading", "failed"} ELSE {"reading"}
  /\ UNCHANGED <<settings, records>>

\* l2f_EVENT_configure takes every key; nobody takes an unknown section.
ConfigureOther ==
  /\ section \notin Singles \union Kinds
  /\ status' = IF section = "event" THEN status ELSE "failed"
  /\ UNCHANGED <<settings, records>>

KeyValue(key, value) ==
  /\ NextLine /\ idx >= 0
  /\ ConfigureSingle(key, value) \/ ConfigureRecord(key, value)
       \/ ConfigureUnbuilt \/ ConfigureOther
  /\ given' = [given EXCEPT ![Len(given)].values[key] = Stored(key, value)]
  /\ UNCHANGED <<idx, section>>

EndOfFile ==
  /\ status = "reading"
  /\ status' = "read"
  /\ UNCHANGED <<idx, section, settings, records, lines, given>>

Next ==
  \/ CannotOpen
  \/ SkipLine
  \/ \E s \in Sections : OpenSection(s)
  \/ BadLine
  \/ \E key \in Keys, value \in Values : KeyValue(key, value)
  \/ EndOfFile

Spec == Init /\ [][Next]_vars

-----------------------------------------------------------------------------
(* Properties *)

Record == [idx : Nat, values : [Keys -> Values \union {Unset}]]

TypeOK ==
  /\ status \in {"reading", "read", "failed"}
  /\ idx \in Int /\ idx = Len(given) - 1
  /\ section \in Sections \union {""}
  /\ settings \in [Singles -> [Keys -> Values \union {Unset}]]
  /\ records \in [Kinds -> Seq(Record)]
  /\ lines \in 0 .. MaxLines
  /\ given \in Seq([name : Sections, values : [Keys -> Values \union {Unset}]])

\* A list has one record per section, those of later sections first: the last
\* source of a kind is asked first (configuration.h:48-53).
LastSectionFirst ==
  \A s \in Kinds : \A m, n \in DOMAIN records[s] :
    m < n => records[s][m].idx > records[s][n].idx

\* The section i as it was written is of kind s and says something.
Says(i, s) == i \in DOMAIN given /\ given[i].name = s /\ given[i].values # Blank

\* What a section says is found in one record of its kind, whatever sections of
\* this and other kinds come before and after; and a record holds nothing else
\* ("multiple section may be defined", listen2fritz.conf:19-20).
RecordsAsWritten ==
  \A s \in Built \intersect Kinds :
    /\ \A n \in DOMAIN records[s] :
         /\ Says(records[s][n].idx + 1, s)
         /\ records[s][n].values = given[records[s][n].idx + 1].values
    /\ \A i \in DOMAIN given : Says(i, s) => Has(records[s], i - 1)

\* A setting has the last value that a section of this name gave to it.
SettingsAsWritten ==
  \A s \in Singles, k \in Keys :
    LET giving == {i \in DOMAIN given : given[i].name = s /\ given[i].values[k] # Unset}
    IN  /\ settings[s][k] # Unset => giving # {}
        /\ \A i \in giving : (\A j \in giving : j <= i) =>
             settings[s][k] = given[i].values[k]

\* As long as a file is not rejected, the program holds what the sections say,
\* each in its place, and nothing else (configuration.c:61-127).
AsWritten == status # "failed" => RecordsAsWritten /\ SettingsAsWritten

=============================================================================
