--------------------------- MODULE PidFileProofs ---------------------------
(***************************************************************************)
(* Proofs about PidFile, for any set of pids and any faults.               *)
(***************************************************************************)
EXTENDS PidFile, FiniteSetTheorems, TLAPS

(* Type correctness. *)

\* The initial state and every step of the pidfile protocol keep pc, file,
\* old and faulty within their types.
THEOREM TypeCorrect == Spec => []TypeOK
<1>1. Init => TypeOK
  <2> SUFFICES ASSUME Init PROVE TypeOK
    OBVIOUS
  <2>1. pc \in [Pids -> PCs] /\ old \in [Pids -> Pids \union {0}]
    BY DEF Init, PCs
  <2>2. file \in File
    BY DEF Init, NoFile, File
  <2>3. faulty \in BOOLEAN
    BY DEF Init
  <2> QED BY <2>1, <2>2, <2>3 DEF TypeOK
<1>2. TypeOK /\ [Next]_vars => TypeOK'
  <2> SUFFICES ASSUME TypeOK, [Next]_vars PROVE TypeOK'
    OBVIOUS
  <2>1. CASE UNCHANGED vars
    BY <2>1 DEF TypeOK, vars
  <2>2. ASSUME NEW p \in Pids, Step(p) PROVE TypeOK'
    <3> USE DEF TypeOK, PCs, InCheck, InService, Goto
    <3>1. CASE Start(p) BY <3>1 DEF Start
    <3>2. CASE Read(p) BY <3>2 DEF Read, File
    <3>3. CASE Kill(p) BY <3>3 DEF Kill
    <3>4. CASE Unlink(p) BY <3>4 DEF Unlink, NoFile, File
    <3>5. CASE Create(p) BY <3>5 DEF Create, File
    <3>6. CASE Write(p) BY <3>6 DEF Write, File
    <3>7. CASE WriteFails(p) BY <3>7 DEF WriteFails
    <3>8. CASE ExitRefused(p) BY <3>8 DEF ExitRefused
    <3>9. CASE Shutdown(p) BY <3>9 DEF Shutdown
    <3>10. CASE Remove(p) BY <3>10 DEF Remove, NoFile, File
    <3>11. CASE Crash(p) BY <3>11 DEF Crash
    <3>12. CASE Foreign(p) BY <3>12 DEF Foreign
    <3> QED BY <2>2, <3>1, <3>2, <3>3, <3>4, <3>5, <3>6, <3>7, <3>8, <3>9,
               <3>10, <3>11, <3>12 DEF Step
  <2> QED BY <2>1, <2>2 DEF Next
<1> QED BY <1>1, <1>2, PTL DEF Spec

-----------------------------------------------------------------------------
(* Daemons that start one by one. *)

\* A daemon begins pidfile_check only when no other is in it.
LEMMA StartAlone ==
  ASSUME MaxStarting = 1, Cardinality(Starting) < MaxStarting
  PROVE  Starting = {}
<1>1. IsFiniteSet(Starting)
  BY PidsAssumption, FS_Subset DEF Starting
<1> QED BY <1>1, FS_CardinalityType, FS_EmptySet

LEMMA SerialStartInit == Init => SerialStart
  BY DEF Init, SerialStart, Starting, InCheck, InService

\* Every step keeps the daemon in pidfile_check on the track of the daemon in
\* service.
LEMMA SerialStartNext ==
  ASSUME MaxStarting = 1, TypeOK, SerialStart, [Next]_vars
  PROVE  SerialStart'
<1> USE DEF SerialStart, Starting, InCheck, InService
<1>1. CASE UNCHANGED vars
  BY <1>1 DEF vars
<1>2. ASSUME NEW p \in Pids, Step(p) PROVE SerialStart'
  <2> USE DEF TypeOK, Goto
  <2>1. CASE Start(p)
    <3>1. Starting = {} BY <2>1, StartAlone DEF Start
    <3> QED BY <2>1, <3>1 DEF Start
  <2>2. CASE Read(p) BY <2>2, PidsAssumption DEF Read, File
  <2>3. CASE Kill(p) BY <2>3 DEF Kill, Exists
  <2>4. CASE Unlink(p) BY <2>4 DEF Unlink
  <2>5. CASE Create(p)
    <3>1. pc[p] = "create" /\ (\A q \in Pids : pc[q] \notin InService)
      BY <2>5 DEF Create
    <3>2. pc' = [pc EXCEPT ![p] = IF file.present THEN "refused" ELSE "write"]
      BY <2>5 DEF Create
    <3>3. \A q \in Pids : pc'[q] \notin InService
      BY <3>1, <3>2
    <3>4. ~file.present => file' = [present |-> TRUE, owner |-> p, content |-> 0]
      BY <2>5 DEF Create
    <3>5. \A q \in Pids \ {p} : pc[q] \notin InCheck
      BY <3>1
    <3>6. \A q \in Pids : pc'[q] = "write" => q = p /\ ~file.present
      BY <3>2, <3>5
    <3>7. \A q \in Pids : pc'[q] \in InCheck => q = p
      BY <3>2, <3>5
    <3> QED BY <3>3, <3>4, <3>6, <3>7
  <2>6. CASE Write(p)
    <3>1. pc[p] = "write" /\ (\A q \in Pids : pc[q] \notin InService)
      BY <2>6 DEF Write
    <3>2. file = [present |-> TRUE, owner |-> p, content |-> 0]
      BY <3>1
    <3>3. file' = [present |-> TRUE, owner |-> p, content |-> p]
      BY <2>6, <3>2 DEF Write
    <3>4. pc' = [pc EXCEPT ![p] = "run"]
      BY <2>6 DEF Write
    <3>5. \A q \in Pids : pc'[q] \notin InCheck
      BY <3>1, <3>4
    <3>6. \A q \in Pids : pc'[q] \in InService => q = p
      BY <3>1, <3>4
    <3> QED BY <3>3, <3>5, <3>6
  <2>7. CASE WriteFails(p) BY <2>7 DEF WriteFails
  <2>8. CASE ExitRefused(p) BY <2>8 DEF ExitRefused
  <2>9. CASE Shutdown(p) BY <2>9 DEF Shutdown
  <2>10. CASE Remove(p) BY <2>10, PidsAssumption DEF Remove
  <2>11. CASE Crash(p) BY <2>11 DEF Crash
  <2>12. CASE Foreign(p) BY <2>12 DEF Foreign
  <2> QED BY <1>2, <2>1, <2>2, <2>3, <2>4, <2>5, <2>6, <2>7, <2>8, <2>9,
             <2>10, <2>11, <2>12 DEF Step
<1> QED BY <1>1, <1>2 DEF Next

\* The strengthened invariant holds of all behaviours with serial starts.
THEOREM SerialStartInvariant ==
  ASSUME MaxStarting = 1 PROVE Spec => []SerialStart
<1>1. TypeOK /\ SerialStart /\ [Next]_vars => SerialStart'
  BY SerialStartNext
<1> QED BY <1>1, SerialStartInit, TypeCorrect, PTL DEF Spec

\* Only one daemon is in service at a time (pidfile.c:60-79), whatever
\* crashes, fails, or is given the pid of an old daemon.
THEOREM OneDaemon ==
  ASSUME MaxStarting = 1 PROVE Spec => []MutualExclusion
<1>1. SerialStart => MutualExclusion
  BY DEF SerialStart, MutualExclusion
<1> QED BY <1>1, SerialStartInvariant, PTL

\* The pidfile is that of the daemon in service.
THEOREM DaemonHasPidFile ==
  ASSUME MaxStarting = 1 PROVE Spec => []ServedByFile
<1>1. SerialStart => ServedByFile
  BY DEF SerialStart, ServedByFile
<1> QED BY <1>1, SerialStartInvariant, PTL

-----------------------------------------------------------------------------
(* Serial starts, as long as no fault happened. *)

LEMMA NothingStaleNext ==
  ASSUME MaxStarting = 1, TypeOK, SerialStart, NothingStale, [Next]_vars
  PROVE  NothingStale'
<1> USE DEF NothingStale, InService
<1>1. CASE UNCHANGED vars
  BY <1>1 DEF vars
<1>2. ASSUME NEW p \in Pids, Step(p) PROVE NothingStale'
  <2> USE PidsAssumption DEF TypeOK, Goto
  <2>1. CASE Start(p)
    <3>1. Starting = {} BY <2>1, StartAlone DEF Start
    <3> QED BY <2>1, <3>1 DEF Start, Starting, InCheck
  <2>2. CASE Read(p) BY <2>2 DEF Read, File
  <2>3. CASE Kill(p) BY <2>3 DEF Kill
  <2>4. CASE Unlink(p) BY <2>4 DEF Unlink, NoFile
  <2>5. CASE Create(p) BY <2>5 DEF Create
  <2>6. CASE Write(p)
    <3>1. file = [present |-> TRUE, owner |-> p, content |-> 0]
      BY <2>6 DEF Write, SerialStart
    <3> QED BY <2>6, <3>1 DEF Write
  <2>7. CASE WriteFails(p) BY <2>7 DEF WriteFails
  <2>8. CASE ExitRefused(p) BY <2>8 DEF ExitRefused
  <2>9. CASE Shutdown(p) BY <2>9 DEF Shutdown
  <2>10. CASE Remove(p) BY <2>10 DEF Remove, NoFile
  <2>11. CASE Crash(p) BY <2>11 DEF Crash
  <2>12. CASE Foreign(p) BY <2>12 DEF Foreign
  <2> QED BY <1>2, <2>1, <2>2, <2>3, <2>4, <2>5, <2>6, <2>7, <2>8, <2>9,
             <2>10, <2>11, <2>12 DEF Step
<1> QED BY <1>1, <1>2 DEF Next

\* A step that refuses a daemon has another daemon to show for it.
LEMMA RefusalStep ==
  ASSUME TypeOK, NothingStale, [Next]_vars, ~faulty',
         NEW p \in Pids, pc[p] # "refused", pc'[p] = "refused"
  PROVE  \E q \in Pids \ {p} : pc[q] \in Ours
<1> USE DEF TypeOK, Goto
<1>1. PICK s \in Pids : Step(s)
  BY DEF Next, vars
<1>2. CASE Kill(s)
  <2>1. s = p /\ pc[p] = "kill" /\ pc[old[p]] # "none"
    BY <1>2 DEF Kill, Exists
  <2>2. ~faulty
    BY <1>2 DEF Kill
  <2>3. old[p] \in Pids /\ pc[old[p]] \in InService
    BY <2>1, <2>2 DEF NothingStale
  <2>4. old[p] # p
    BY <2>1, <2>3 DEF InService
  <2> QED BY <2>3, <2>4 DEF Ours
<1>3. CASE Create(s)
  <2>1. s = p /\ pc[p] = "create" /\ file.present
    BY <1>3 DEF Create
  <2>2. ~faulty
    BY <1>3 DEF Create
  <2>3. file.owner \in Pids /\ pc[file.owner] \in InService \union {"write"}
    BY <2>1, <2>2 DEF NothingStale
  <2>4. file.owner # p
    BY <2>1, <2>3 DEF InService
  <2> QED BY <2>3, <2>4 DEF Ours, InCheck
<1>4. CASE Start(s) \/ Read(s) \/ Unlink(s) \/ Write(s)
  BY <1>4 DEF Start, Read, Unlink, Write
<1>5. CASE WriteFails(s) \/ ExitRefused(s) \/ Shutdown(s)
  BY <1>5 DEF WriteFails, ExitRefused, Shutdown
<1>6. CASE Remove(s) \/ Crash(s) \/ Foreign(s)
  BY <1>6 DEF Remove, Crash, Foreign
<1> QED BY <1>1, <1>2, <1>3, <1>4, <1>5, <1>6 DEF Step

\* As long as no fault happened the pidfile names a daemon that is there, and
\* what was read from it is not taken for another process (pidfile.c:64-69).
THEOREM NothingIsStale ==
  ASSUME MaxStarting = 1 PROVE Spec => []NothingStale
<1>1. Init => NothingStale
  BY DEF Init, NothingStale, NoFile
<1>2. TypeOK /\ SerialStart /\ NothingStale /\ [Next]_vars => NothingStale'
  BY NothingStaleNext
<1> QED BY <1>1, <1>2, SerialStartInvariant, TypeCorrect, PTL DEF Spec

\* As long as no fault happened a daemon is refused only by another one
\* (pidfile.c:64-78).
THEOREM RefusalsAreJustified ==
  ASSUME MaxStarting = 1 PROVE Spec => RefusalJustified
<1>1. TypeOK /\ NothingStale /\ [Next]_vars =>
        [\A p \in Pids :
           ~faulty' /\ pc[p] # "refused" /\ pc'[p] = "refused" =>
             \E q \in Pids \ {p} : pc[q] \in Ours]_vars
  BY RefusalStep
<1> QED BY <1>1, NothingIsStale, TypeCorrect, PTL DEF Spec, RefusalJustified
=============================================================================
