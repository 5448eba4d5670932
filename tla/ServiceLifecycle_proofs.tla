---------------------- MODULE ServiceLifecycle_proofs ----------------------
(***************************************************************************)
(* Proofs about ServiceLifecycle, wherever the process may be killed,         *)
(* whichever calls may fail and whatever GUIDs are drawn.                    *)
(***************************************************************************)
EXTENDS ServiceLifecycle, TLAPS

(* The control points and the groups of variables are expanded throughout, and  *)
(* so are the actions: each is a short conjunction of assignments.           *)
USE DEF Goto, Guarded, Waiting, Points, NoCode, RequiredError, Commands,
        service, control, blame, disk, registration
USE DEF StartProcess, EndProcess, Crash, ExitService, Throw, CallFails, GuardFails,
        ParseFails, Begin, WriteConfig, CreateService, DeleteService, RegistrationRefused,
        ReadInstanceFile, ReadInstanceFileFails, CreateDirectory, Truncate, WriteGuid,
        MarkRoot, MarkRootRefused, LoadArchives, Announce,
        StartVirtualizing, StartVirtualizingRefused, Lock, Test, Sleep,
        SpuriousWakeup, StopVirtualizing, Exit, Stop

-----------------------------------------------------------------------------
(* Types: every action assigns its variables values of their types.          *)

LEMMA ProcessTypesKept == ASSUME ProcessTypes, [Next]_vars PROVE ProcessTypes'
  BY DEF ProcessTypes, Next, ServiceMain, vars

LEMMA ControlFlagsKept == ASSUME ControlFlags, [Next]_vars PROVE ControlFlags'
  BY DEF ControlFlags, Next, ServiceMain, vars

LEMMA RegistrationFlagsKept ==
  ASSUME RegistrationFlags, [Next]_vars PROVE RegistrationFlags'
  BY DEF RegistrationFlags, Next, ServiceMain, vars

LEMMA HeldByRunKept ==
  ASSUME ProcessTypes, ControlFlags, HeldByRun, [Next]_vars PROVE HeldByRun'
  BY DEF ProcessTypes, ControlFlags, HeldByRun, Next, ServiceMain, vars

(* ServiceMain keeps its types, holds m_runMutex exactly at the test of m_run   *)
(* and until it waits, and virtualizes exactly from PrjStartVirtualizing to      *)
(* PrjStopVirtualizing, however the process ends.                            *)
THEOREM TypeCorrect == Spec => []TypeOK
<1>1. Init => TypeOK
  BY DEF Init, TypeOK, ProcessTypes, ControlFlags, RegistrationFlags, HeldByRun
<1>2. TypeOK /\ [Next]_vars => TypeOK'
  BY ProcessTypesKept, ControlFlagsKept, RegistrationFlagsKept, HeldByRunKept DEF TypeOK
<1> QED
  BY <1>1, <1>2, PTL DEF Spec

-----------------------------------------------------------------------------
(* What the process does at its end depends on what it was started for, and   *)
(* has no exit code before.                                                  *)
Registering == {"writeConfig", "createService", "deleteService"}
Purpose ==
  /\ pc \notin {"down", "begin"} => (pc \in Registering <=> command # "run")
  /\ pc # "down" => exitCode = NoCode

LEMMA PurposeKept == ASSUME Purpose, ProcessTypes, [Next]_vars PROVE Purpose'
  BY DEF Purpose, Registering, ProcessTypes, Next, ServiceMain, vars

(* The options of a service are saved before the service control manager       *)
(* learns of it, and never removed: no failure of CreateService and no crash     *)
(* in between leaves a service without them.                                  *)
THEOREM RegisteredServiceHasConfig == Spec => []RegisteredHasConfig
<1> DEFINE IInv == RegisteredHasConfig /\ (pc = "createService" => configFile)
<1>1. Init => IInv
  BY DEF Init, RegisteredHasConfig
<1>2. IInv /\ [Next]_vars => IInv'
  <2> SUFFICES ASSUME IInv, [Next]_vars PROVE IInv'
    OBVIOUS
  <2> USE DEF RegisteredHasConfig
  <2>1. CASE WriteConfig
    BY <2>1
  <2>2. CASE CreateService
    BY <2>2
  <2>3. CASE DeleteService
    BY <2>3
  <2>4. CASE StartProcess \/ Crash \/ GuardFails \/ Stop \/ CallFails \/ ParseFails \/ Begin
                \/ RegistrationRefused
    BY <2>4
  <2>5. CASE UNCHANGED registration /\ pc' # "createService"
    BY <2>5
  <2> QED
    BY <2>1, <2>2, <2>3, <2>4, <2>5 DEF Next, ServiceMain, vars
<1> QED
  BY <1>1, <1>2, PTL DEF Spec

-----------------------------------------------------------------------------
(* m_run is only ever cleared by a stop, and ServiceMain leaves the wait only   *)
(* then.                                                                     *)
StopInv ==
  /\ Purpose
  /\ pc # "down" => (stopRequested <=> ~m_run)
  /\ pc \in {"stopVirtualizing", "exit"} => ~m_run

LEMMA StopInvKept ==
  ASSUME StopInv, TypeOK, [Next]_vars PROVE StopInv'
<1>1. Purpose'
  BY PurposeKept DEF StopInv, TypeOK
<1> USE DEF StopInv, TypeOK, ProcessTypes, ControlFlags
<1>2. (pc # "down" => (stopRequested <=> ~m_run))'
  BY DEF Next, ServiceMain, vars
<1>3. (pc \in {"stopVirtualizing", "exit"} => ~m_run)'
  BY DEF Next, ServiceMain, vars
<1> QED
  BY <1>1, <1>2, <1>3

(* ServiceMain reports success from run only after a stop, and when it has      *)
(* stopped virtualizing: neither a spurious wakeup nor a stop that comes        *)
(* before the wait makes it return early or leaves the mount behind.          *)
THEOREM SuccessOnlyAfterStop == Spec => SuccessMeansStopped
<1>1. Init => StopInv
  BY DEF Init, StopInv, Purpose
<1>2. StopInv /\ TypeOK /\ [Next]_vars => StopInv'
  BY StopInvKept
<1>3. StopInv /\ TypeOK /\ [Next]_vars =>
        [command = "run" /\ exitCode # 0 /\ exitCode' = 0 =>
           stopRequested /\ ~m_run /\ ~virtualizing]_vars
  <2> SUFFICES ASSUME StopInv, TypeOK, [Next]_vars,
                      command = "run", exitCode # 0, exitCode' = 0
               PROVE  stopRequested /\ ~m_run /\ ~virtualizing
    OBVIOUS
  <2>1. CASE Exit
    BY <2>1 DEF StopInv, TypeOK, HeldByRun
  <2>2. CASE CreateService \/ DeleteService
    BY <2>2 DEF StopInv, Purpose, Registering
  <2>3. CASE exitCode' = exitCode \/ exitCode' \in {1, NoCode, RequiredError}
    BY <2>3
  <2> QED
    BY <2>1, <2>2, <2>3 DEF Next, ServiceMain, vars
<1> QED
  BY <1>1, <1>2, <1>3, TypeCorrect, PTL DEF Spec, SuccessMeansStopped

-----------------------------------------------------------------------------
(* The instance file and the mark of the root directory, point by point.     *)
InStep ==
  /\ pc \in Deciding => ~rootMarked
  /\ pc \notin Deciding => (Readable <=> rootMarked)
  /\ pc \in Deciding \ {"mark"} => ~Readable
  /\ pc \in {"load", "announce", "startVirtualizing"} => Readable

InstanceInv == spoiled \/ InStep

LEMMA InstanceInvKept ==
  ASSUME InstanceInv, ProcessTypes, [Next]_vars PROVE InstanceInv'
<1> USE DEF InstanceInv, InStep, Deciding, Readable
<1>1. CASE ReadInstanceFile \/ ReadInstanceFileFails
  BY <1>1
<1>2. CASE Truncate
  BY <1>2
<1>3. CASE WriteGuid
  BY <1>3
<1>4. CASE MarkRoot
  BY <1>4
<1>5. CASE CallFails \/ MarkRootRefused \/ RegistrationRefused \/ StartVirtualizingRefused
  BY <1>5
<1>6. CASE Crash \/ GuardFails
  BY <1>6
<1>7. CASE StartProcess \/ Stop
  BY <1>7
<1>8. CASE UNCHANGED disk /\ UNCHANGED spoiled /\ pc \notin Deciding /\ pc' \notin Deciding
  /\ (pc' \in {"load", "announce", "startVirtualizing"} => pc \in {"load", "announce"})
  BY <1>8
<1>9. CASE CreateDirectory
  BY <1>9
<1>10. CASE UNCHANGED vars
  BY <1>10 DEF vars
<1> QED
  BY <1>1, <1>2, <1>3, <1>4, <1>5, <1>6, <1>7, <1>8, <1>9, <1>10 DEF Next, ServiceMain

(* The instance file can be read exactly when the root directory is marked,    *)
(* whenever initialize is not deciding: FileGuard undoes the file if marking    *)
(* fails, and every other crash or failure leaves the two in step, but for the   *)
(* three steps that spoil them.                                              *)
THEOREM InstanceFileInStep == Spec => []InstanceFileMatchesRoot
<1>1. Init => InstanceInv
  BY DEF Init, InstanceInv, InStep, Deciding, Readable
<1>2. InstanceInv /\ TypeOK /\ [Next]_vars => InstanceInv'
  BY InstanceInvKept DEF TypeOK
<1>3. InstanceInv => InstanceFileMatchesRoot
  BY DEF InstanceInv, InStep, InstanceFileMatchesRoot
<1> QED
  BY <1>1, <1>2, <1>3, TypeCorrect, PTL DEF Spec

(* A process that was started to run and ended with code 1 had a call fail.   *)
ExcusedInv == Purpose /\ FailuresAreExcused

(* No start fails because of the state that earlier processes left: whenever   *)
(* ServiceMain ends with an error, a call failed in its own environment, or one  *)
(* of the three steps that spoil file and mark was taken.                     *)
THEOREM NoFailureWithoutExcuse == Spec => []FailuresAreExcused
<1>1. Init => InstanceInv /\ ExcusedInv
  BY DEF Init, InstanceInv, InStep, Deciding, Readable, ExcusedInv,
         Purpose, FailuresAreExcused, Failed
<1>2. InstanceInv /\ TypeOK /\ [Next]_vars => InstanceInv'
  BY InstanceInvKept DEF TypeOK
<1>3. InstanceInv /\ ExcusedInv /\ TypeOK /\ [Next]_vars => ExcusedInv'
  <2> SUFFICES ASSUME InstanceInv, ExcusedInv, TypeOK, [Next]_vars PROVE ExcusedInv'
    OBVIOUS
  <2>1. Purpose'
    BY PurposeKept DEF ExcusedInv, TypeOK
  <2>2. FailuresAreExcused'
    <3> USE DEF ExcusedInv, FailuresAreExcused, Failed, Purpose, Registering
    <3>1. CASE CallFails
      BY <3>1
    <3>2. CASE RegistrationRefused
      BY <3>2
    <3>3. CASE MarkRootRefused \/ StartVirtualizingRefused
      BY <3>3 DEF InstanceInv, InStep, Deciding
    <3>4. CASE ParseFails \/ Exit \/ CreateService \/ DeleteService
      BY <3>4
    <3>5. CASE Crash \/ GuardFails
      <4>1. exitCode' = NoCode
        BY <3>5, PointsAssumption
      <4> QED
        BY <4>1
    <3>6. CASE StartProcess \/ pc' # "down"
      BY <3>6
    <3>7. CASE UNCHANGED vars
      BY <3>7 DEF vars
    <3> QED
      BY <3>1, <3>2, <3>3, <3>4, <3>5, <3>6, <3>7 DEF Next, ServiceMain
  <2> QED
    BY <2>1, <2>2 DEF ExcusedInv
<1>4. ExcusedInv => FailuresAreExcused
  BY DEF ExcusedInv
<1> QED
  BY <1>1, <1>2, <1>3, <1>4, TypeCorrect, PTL DEF Spec
=============================================================================
