------------------------------ MODULE PidFile ------------------------------
(***************************************************************************)
(* The pidfile of util/pidfile.c, by which a daemon makes sure that it is  *)
(* the only one: pidfile_check (pidfile_read, kill(pid,0), pidfile_remove, *)
(* pidfile_write) when it starts, pidfile_remove when it ends              *)
(* (listen2fritz.c:342-345, 369-370).  Each system call is one step, so    *)
(* that daemons that start, end and crash interleave between them.         *)
(*                                                                         *)
(* All processes run as the same user: kill() fails only where there is no *)
(* such process, and unlink() only where there is no such file.            *)
(***************************************************************************)
EXTENDS Naturals, FiniteSets

CONSTANTS
  Pids,          \* process ids
  MaxStarting,   \* how many daemons may be in pidfile_check at a time
  Faults         \* subset of {"crash", "writefail", "foreign"}

ASSUME PidsAssumption == IsFiniteSet(Pids) /\ Pids \subseteq Nat \ {0}
ASSUME MaxStartingAssumption == MaxStarting \in Nat
ASSUME FaultsAssumption == Faults \subseteq {"crash", "writefail", "foreign"}

VARIABLES
  pc,     \* what the process of a pid is about to do; "none": no such process
  file,   \* the pidfile
  old,    \* pidfile_check: the pid read from the pidfile
  faulty  \* history, for the properties only: one of Faults has happened

vars == <<pc, file, old, faulty>>

\* content 0 stands for an empty file: atol("") is 0.  owner is the process
\* whose open() created the file, and whose descriptor refers to it.
File == [present : BOOLEAN, owner : Pids \union {0}, content : Pids \union {0}]

NoFile == [present |-> FALSE, owner |-> 0, content |-> 0]

InCheck == {"read", "kill", "unlink", "create", "write"}
InService == {"run", "remove"}

Starting == {p \in Pids : pc[p] \in InCheck}

\* Processes of this program, and pids that any process has.
Ours == InCheck \union InService
Exists(p) == pc[p] # "none"

Goto(p, from, to) == pc[p] = from /\ pc' = [pc EXCEPT ![p] = to]

-----------------------------------------------------------------------------
Init ==
  /\ pc = [p \in Pids |-> "none"]
  /\ file = NoFile
  /\ old = [p \in Pids |-> 0]
  /\ faulty = FALSE

Start(p) ==
  /\ Cardinality(Starting) < MaxStarting
  /\ Goto(p, "none", "read")
  /\ UNCHANGED <<file, old, faulty>>

\* pidfile_read: 0 for a missing and for an empty file.
Read(p) ==
  /\ old' = [old EXCEPT ![p] = file.content]
  /\ Goto(p, "read", IF file.content # 0 THEN "kill" ELSE "create")
  /\ UNCHANGED <<file, faulty>>

\* Fault: the result of kill() is not looked at.
KillIgnored(p) ==
  /\ Goto(p, "kill", "unlink")
  /\ UNCHANGED <<file, old, faulty>>

Kill(p) ==
  /\ Goto(p, "kill", IF Exists(old[p]) THEN "refused" ELSE "unlink")
  /\ UNCHANGED <<file, old, faulty>>

\* pidfile_remove, whose result is ignored.
Unlink(p) ==
  /\ Goto(p, "unlink", "create")
  /\ file' = NoFile
  /\ UNCHANGED <<old, faulty>>

\* open(O_CREAT|O_EXCL)
Create(p) ==
  /\ Goto(p, "create", IF file.present THEN "refused" ELSE "write")
  /\ file' = IF file.present THEN file
             ELSE [present |-> TRUE, owner |-> p, content |-> 0]
  /\ UNCHANGED <<old, faulty>>

\* Fault: the pid is that of the parent daemonize() has left.
WriteParent(p) ==
  /\ Goto(p, "write", "run")
  /\ file' = IF file.owner = p THEN [file EXCEPT !.content = p + Cardinality(Pids)] ELSE file
  /\ UNCHANGED <<old, faulty>>

\* The write goes to the file this process created, whether or not it still
\* is the pidfile.
Write(p) ==
  /\ Goto(p, "write", "run")
  /\ file' = IF file.owner = p THEN [file EXCEPT !.content = p] ELSE file
  /\ UNCHANGED <<old, faulty>>

\* write() fails: the empty file stays behind.
WriteFails(p) ==
  /\ "writefail" \in Faults
  /\ Goto(p, "write", "refused")
  /\ faulty' = TRUE
  /\ UNCHANGED <<file, old>>

\* Fault: a daemon that refuses to start removes the pidfile.
ExitRemoving(p) ==
  /\ Goto(p, "refused", "none")
  /\ file' = NoFile
  /\ UNCHANGED <<old, faulty>>

\* exit(-1)
ExitRefused(p) ==
  /\ Goto(p, "refused", "none")
  /\ UNCHANGED <<file, old, faulty>>

\* The main loop is left.
Shutdown(p) ==
  /\ Goto(p, "run", "remove")
  /\ UNCHANGED <<file, old, faulty>>

\* Fault: the pidfile is left behind.
RemoveForgotten(p) ==
  /\ Goto(p, "remove", "none")
  /\ UNCHANGED <<file, old, faulty>>

\* pidfile_remove does not look whose pidfile it is.
Remove(p) ==
  /\ Goto(p, "remove", "none")
  /\ file' = NoFile
  /\ UNCHANGED <<old, faulty>>

\* SIGKILL, or a fault: the pidfile stays behind.
Crash(p) ==
  /\ "crash" \in Faults
  /\ pc[p] \in Ours
  /\ Goto(p, pc[p], "none")
  /\ faulty' = TRUE
  /\ UNCHANGED <<file, old>>

\* Another program gets a free pid, and ends.
Foreign(p) ==
  /\ "foreign" \in Faults
  /\ Goto(p, "none", "foreign") \/ Goto(p, "foreign", "none")
  /\ faulty' = TRUE
  /\ UNCHANGED <<file, old>>

Step(p) ==
  \/ Start(p) \/ Read(p) \/ Kill(p) \/ Unlink(p) \/ Create(p)
  \/ Write(p) \/ WriteFails(p) \/ ExitRefused(p)
  \/ Shutdown(p) \/ Remove(p) \/ Crash(p) \/ Foreign(p)

Next == \E p \in Pids : Step(p)

Spec == Init /\ [][Next]_vars

-----------------------------------------------------------------------------
(* Properties *)

PCs == InCheck \union InService \union {"none", "refused", "foreign"}

TypeOK ==
  /\ pc \in [Pids -> PCs]
  /\ file \in File
  /\ old \in [Pids -> Pids \union {0}]
  /\ faulty \in BOOLEAN

\* Two daemons never listen at the same time: "write a new exclusive pidfile"
\* (pidfile.c:76).  It needs that only one daemon starts at a time.
MutualExclusion ==
  \A p, q \in Pids : pc[p] \in InService /\ pc[q] \in InService => p = q

\* A daemon in service can be found by its pidfile, through every start that
\* was refused and every crash: no other process removes or overwrites it
\* (pidfile.c:65-69, 144).
ServedByFile ==
  \A p \in Pids : pc[p] \in InService => file.present /\ file.content = p

\* As long as nothing crashed or failed and no pid was taken over, a daemon
\* refuses to start only where another one is starting or running ("if the old pid doesn't exists, we will remove the pidfile",
\* pidfile.c:65-66).
RefusalJustified ==
  [][\A p \in Pids :
       ~faulty' /\ pc[p] # "refused" /\ pc'[p] = "refused" =>
         \E q \in Pids \ {p} : pc[q] \in Ours]_vars

\* What makes the two invariants inductive when daemons start one by one: the
\* daemon in pidfile_check looks at the pidfile of the daemon in service, and
\* passes kill() only when there is none.
SerialStart ==
  /\ \A p, q \in Starting : p = q
  /\ \A p \in Pids : pc[p] \in InService =>
       file = [present |-> TRUE, owner |-> p, content |-> p]
  /\ \A p, q \in Pids : pc[p] \in InService /\ pc[q] \in InCheck =>
       pc[q] = "read" \/ (pc[q] = "kill" /\ old[q] = p)
  /\ \A p \in Pids : pc[p] = "write" =>
       file = [present |-> TRUE, owner |-> p, content |-> 0]

\* As long as nothing crashed or failed and no pid was taken over, the pidfile
\* is that of a daemon that is there, and a pid read from it that is still in
\* use is that of a daemon in service.
NothingStale ==
  ~faulty =>
    /\ \A p \in Pids : pc[p] # "foreign"
    /\ file.present => file.owner \in Pids /\ pc[file.owner] \in InService \union {"write"}
    /\ file.content # 0 => file.present /\ pc[file.content] \in InService
    /\ \A p \in Pids : pc[p] = "kill" =>
         old[p] \in Pids /\ pc[old[p]] \in InService \union {"none"}
=============================================================================
