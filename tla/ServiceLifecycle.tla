-------------------------- MODULE ServiceLifecycle --------------------------
(***************************************************************************)
(* One instance of the ESOProjectedFilesystem service: ServiceMain and what   *)
(* it calls (ProjectedFilesystem::initialize, run), the service control       *)
(* handler (ProjectedFilesystem::stop), and what survives the process: the    *)
(* file virtualizationInstanceId and the placeholder mark of the root         *)
(* directory.  The process may be started, fail, be stopped, crash and be     *)
(* started again.                                                            *)
(*                                                                         *)
(* External: the service control manager passes to ServiceMain the arguments   *)
(* of the start request and none of the registered command line; it accepts    *)
(* every status report; it delivers SERVICE_CONTROL_STOP only while the        *)
(* service reports SERVICE_RUNNING, to a thread other than ServiceMain's.      *)
(* PrjMarkDirectoryAsPlaceholder refuses a directory that is marked already,   *)
(* PrjStartVirtualizing one that is not; any other call may fail or not.       *)
(***************************************************************************)
EXTENDS Integers

CONSTANTS
  CrashPoints,   \* the points of ServiceMain at which the process may be killed
  FailurePoints, \* the points at which a call may fail for reasons of its own
  GuidKinds      \* the kinds of GUID that CoCreateGuid returns

(* The GUID is written in binary mode and read back in text mode: "binary"    *)
(* is a GUID with a byte 0x1A or the bytes 0x0D 0x0A in it, of which text mode  *)
(* delivers less than was written; "plain" is any other.                      *)
ASSUME GuidAssumption == GuidKinds \subseteq {"plain", "binary"} /\ GuidKinds # {}

(* Where ServiceMain is.  The points of initialize at which FileGuard is       *)
(* alive are Guarded, those of the wait in run are Running.                    *)
Guarded == {"truncate", "writeGuid", "mark"}
Waiting == {"lock", "test", "sleep", "waiting"}
Points == {"down", "begin", "readInstance", "createDirectory", "load", "announce",
           "startVirtualizing", "stopVirtualizing", "exit", "writeConfig",
           "createService", "deleteService"} \cup Guarded \cup Waiting

FalliblePoints == {"readInstance", "createDirectory", "load", "startVirtualizing",
                   "writeConfig", "createService", "deleteService"} \cup Guarded

ASSUME PointsAssumption ==
  CrashPoints \subseteq Points \ {"down"} /\ FailurePoints \subseteq FalliblePoints

VARIABLES pc,             \* where ServiceMain is
          command,        \* "run", the flag "register" or "unregister", or "incomplete"
          inService,      \* ~NotInService: started by the service control manager
          status,         \* ServiceStatus.dwCurrentState as last reported
          exitCode,       \* Code given to ExitService, or NoCode
          m_run,          \* ProjectedFilesystem::m_run
          mutex,          \* whether run holds m_runMutex (stop holds it for one step)
          stopRequested,  \* SERVICE_CONTROL_STOP was delivered to this process
          excused,        \* an external call failed in this process
          spoiled,        \* file and mark were left out of step (history)
          virtualizing,   \* PrjStartVirtualizing succeeded, not stopped yet
          instanceFile,   \* "absent", "empty" or the kind of the GUID it holds
          rootMarked,     \* the root directory is marked as placeholder
          configFile,     \* the .ini that a registered service is started with exists
          registered      \* the service control manager knows the service

disk == <<instanceFile, rootMarked>>
registration == <<configFile, registered>>
control == <<m_run, mutex, stopRequested>>
service == <<command, inService, status, exitCode>>
blame == <<excused, spoiled>>
vars == <<pc, service, control, blame, virtualizing, disk, registration>>

(* The options of a command line; "incomplete" ones lack the root directory.  *)
Commands == {"run", "register", "unregister", "incomplete"}

NoCode == -1
RequiredError == 106   \* CLI::ExitCodes

ProcessTypes ==
  /\ pc \in Points
  /\ command \in Commands
  /\ status \in {"SERVICE_STOPPED", "SERVICE_START_PENDING", "SERVICE_RUNNING"}
  /\ exitCode \in {NoCode, 0, 1, RequiredError}
  /\ instanceFile \in {"absent", "empty"} \cup GuidKinds

ControlFlags ==
  /\ m_run \in BOOLEAN /\ mutex \in BOOLEAN /\ stopRequested \in BOOLEAN
  /\ excused \in BOOLEAN /\ spoiled \in BOOLEAN /\ virtualizing \in BOOLEAN

RegistrationFlags ==
  /\ inService \in BOOLEAN /\ rootMarked \in BOOLEAN
  /\ configFile \in BOOLEAN /\ registered \in BOOLEAN

(* run holds m_runMutex from the lock to the wait, and virtualizes from one     *)
(* end of run to the other.                                                  *)
HeldByRun ==
  /\ pc # "down" => (mutex <=> pc \in {"test", "sleep"})
  /\ virtualizing <=> pc \in Waiting \cup {"stopVirtualizing"}

(* Types, and where run holds its lock and its virtualization.              *)
TypeOK == ProcessTypes /\ ControlFlags /\ RegistrationFlags /\ HeldByRun

Init ==
  /\ pc = "down" /\ command = "run" /\ inService = FALSE
  /\ status = "SERVICE_STOPPED" /\ exitCode = NoCode
  /\ m_run = TRUE /\ mutex = FALSE /\ stopRequested = FALSE
  /\ excused = FALSE /\ spoiled = FALSE /\ virtualizing = FALSE
  /\ instanceFile = "absent" /\ rootMarked = FALSE
  /\ configFile = FALSE /\ registered = FALSE

Goto(from, to) == pc = from /\ pc' = to

-----------------------------------------------------------------------------
(* The process: a new one has the globals as their constructors leave them;   *)
(* ExitService, a kill and a crash end it, and ProjFS then stops virtualizing. *)

(* Someone runs the program from a console, or has the service control        *)
(* manager start the service that was registered, with any options.          *)
StartProcess ==
  /\ Goto("down", "begin")
  /\ command' \in Commands
  /\ \/ inService' = FALSE
     \/ registered /\ inService' = TRUE
  /\ m_run' = TRUE /\ mutex' = FALSE /\ stopRequested' = FALSE
  /\ excused' = FALSE /\ exitCode' = NoCode
  /\ UNCHANGED <<status, spoiled, virtualizing, disk, registration>>

(* Mutant of Readable: a short read is not noticed.                         *)
Present == instanceFile # "absent"

(* A full read of the GUID succeeds only if text mode delivers every byte.    *)
Readable == instanceFile = "plain"

EndProcess ==
  /\ pc' = "down"
  /\ status' = "SERVICE_STOPPED"
  /\ virtualizing' = FALSE
  /\ UNCHANGED <<command, inService, control>>

(* A GUID that can be read back but was not used to mark the root directory    *)
(* is left behind by a crash just before the mark; GuardFails leaves it, too.  *)
Crash ==
  /\ pc \in CrashPoints
  /\ EndProcess
  /\ spoiled' = (spoiled \/ (pc = "mark" /\ Readable))
  /\ UNCHANGED <<exitCode, excused, disk, registration>>

ExitService(code) ==
  /\ EndProcess
  /\ exitCode' = code

(* Mutant of Throw: without FileGuard.                                     *)
ThrowUnguarded ==
  /\ ExitService(1)
  /\ UNCHANGED <<disk, registration>>

(* An exception reaches the handler at the end of ServiceMain; FileGuard's    *)
(* destructor removes the instance file on the way if it is alive and can.    *)
Throw ==
  /\ ExitService(1)
  /\ instanceFile' = IF pc \in Guarded THEN "absent" ELSE instanceFile
  /\ UNCHANGED <<rootMarked, registration>>

(* A call fails for reasons of its environment and throws.                  *)
CallFails ==
  /\ pc \in FailurePoints \ {"readInstance"}
  /\ Throw
  /\ excused' = TRUE
  /\ UNCHANGED spoiled

(* FileGuard cannot remove the instance file: an exception that leaves a       *)
(* destructor ends the process at once, and the file stays as it is.          *)
GuardFails ==
  /\ pc \in Guarded \cap FailurePoints
  /\ EndProcess
  /\ excused' = TRUE
  /\ spoiled' = (spoiled \/ (pc = "mark" /\ Readable))
  /\ UNCHANGED <<exitCode, disk, registration>>

-----------------------------------------------------------------------------
(* The options are parsed before anything is reported: ExitProcess.          *)
ParseFails ==
  /\ pc = "begin" /\ command = "incomplete"
  /\ EndProcess
  /\ exitCode' = RequiredError
  /\ UNCHANGED <<blame, disk, registration>>

(* ServiceMain up to initialize, and the two flags that only change what is   *)
(* registered.                                                               *)
Begin ==
  /\ \/ command = "run" /\ Goto("begin", "readInstance")
     \/ command = "register" /\ Goto("begin", "writeConfig")
     \/ command = "unregister" /\ Goto("begin", "deleteService")
  /\ status' = IF inService THEN "SERVICE_START_PENDING" ELSE status
  /\ UNCHANGED <<command, inService, exitCode, control, blame, virtualizing, disk,
                 registration>>

WriteConfig ==
  /\ Goto("writeConfig", "createService")
  /\ configFile' = TRUE
  /\ UNCHANGED <<service, control, blame, virtualizing, disk, registered>>

CreateService ==
  /\ pc = "createService" /\ ~registered
  /\ registered' = TRUE
  /\ ExitService(0)
  /\ UNCHANGED <<blame, disk, configFile>>

DeleteService ==
  /\ pc = "deleteService" /\ registered
  /\ registered' = FALSE
  /\ ExitService(0)
  /\ UNCHANGED <<blame, disk, configFile>>

(* A service that exists cannot be created, nor one that does not be deleted. *)
RegistrationRefused ==
  /\ \/ pc = "createService" /\ registered
     \/ pc = "deleteService" /\ ~registered
  /\ Throw
  /\ UNCHANGED blame

ReadInstanceFile ==
  /\ \/ Readable /\ Goto("readInstance", "load")
     \/ ~Readable /\ Goto("readInstance", "createDirectory")
  /\ UNCHANGED <<service, control, blame, virtualizing, disk, registration>>

(* A file that cannot be opened or read is taken for one that is not there.   *)
ReadInstanceFileFails ==
  /\ "readInstance" \in FailurePoints
  /\ Goto("readInstance", "createDirectory")
  /\ excused' = TRUE
  /\ spoiled' = (spoiled \/ rootMarked)
  /\ UNCHANGED <<service, control, virtualizing, disk, registration>>

CreateDirectory ==
  /\ Goto("createDirectory", "truncate")
  /\ UNCHANGED <<service, control, blame, virtualizing, disk, registration>>

Truncate ==
  /\ Goto("truncate", "writeGuid")
  /\ instanceFile' = "empty"
  /\ UNCHANGED <<service, control, blame, virtualizing, rootMarked, registration>>

WriteGuid ==
  /\ Goto("writeGuid", "mark")
  /\ instanceFile' \in GuidKinds
  /\ UNCHANGED <<service, control, blame, virtualizing, rootMarked, registration>>

(* The mark is spoiled if the GUID it was made with cannot be read back.      *)
MarkRoot ==
  /\ Goto("mark", "load")
  /\ ~rootMarked
  /\ rootMarked' = TRUE
  /\ spoiled' = (spoiled \/ ~Readable)
  /\ UNCHANGED <<service, control, excused, virtualizing, instanceFile,
                 registration>>

MarkRootRefused ==
  /\ pc = "mark" /\ rootMarked
  /\ Throw
  /\ UNCHANGED blame

(* addManifest, loadFileTable, enumerateFiles and the inode tree.            *)
LoadArchives ==
  /\ Goto("load", "announce")
  /\ UNCHANGED <<service, control, blame, virtualizing, disk, registration>>

Announce ==
  /\ Goto("announce", "startVirtualizing")
  /\ status' = IF inService THEN "SERVICE_RUNNING" ELSE status
  /\ UNCHANGED <<command, inService, exitCode, control, blame, virtualizing, disk,
                 registration>>

-----------------------------------------------------------------------------
(* run                                                                     *)
StartVirtualizing ==
  /\ Goto("startVirtualizing", "lock")
  /\ rootMarked
  /\ virtualizing' = TRUE
  /\ UNCHANGED <<service, control, blame, disk, registration>>

StartVirtualizingRefused ==
  /\ pc = "startVirtualizing" /\ ~rootMarked
  /\ Throw
  /\ UNCHANGED blame

Lock ==
  /\ Goto("lock", "test")
  /\ ~mutex
  /\ mutex' = TRUE
  /\ UNCHANGED <<service, m_run, stopRequested, blame, virtualizing, disk, registration>>

(* Mutant of Test: the lock is still held after the loop.                   *)
TestKeepsLock ==
  /\ IF m_run THEN Goto("test", "sleep") ELSE Goto("test", "stopVirtualizing")
  /\ UNCHANGED <<service, control, blame, virtualizing, disk, registration>>

(* while (m_run): leaving the loop releases the lock.                        *)
Test ==
  /\ IF m_run THEN Goto("test", "sleep") ELSE Goto("test", "stopVirtualizing")
  /\ mutex' = m_run
  /\ UNCHANGED <<service, m_run, stopRequested, blame, virtualizing, disk, registration>>

(* m_runCondvar.wait: release the lock and wait, in one step.               *)
Sleep ==
  /\ Goto("sleep", "waiting")
  /\ mutex' = FALSE
  /\ UNCHANGED <<service, m_run, stopRequested, blame, virtualizing, disk, registration>>

(* Mutant of SpuriousWakeup: if (m_run) in place of while (m_run).           *)
WakeupEndsWait ==
  /\ Goto("waiting", "stopVirtualizing")
  /\ UNCHANGED <<service, control, blame, virtualizing, disk, registration>>

(* A condition variable may wake its waiter for no reason.                   *)
SpuriousWakeup ==
  /\ Goto("waiting", "lock")
  /\ UNCHANGED <<service, control, blame, virtualizing, disk, registration>>

StopVirtualizing ==
  /\ Goto("stopVirtualizing", "exit")
  /\ virtualizing' = FALSE
  /\ UNCHANGED <<service, control, blame, disk, registration>>

Exit ==
  /\ pc = "exit"
  /\ ExitService(0)
  /\ UNCHANGED <<blame, disk, registration>>

-----------------------------------------------------------------------------
(* Mutant of Stop: without taking m_runMutex.                               *)
StopWithoutLock ==
  /\ status = "SERVICE_RUNNING" /\ pc # "down"
  /\ m_run' = FALSE
  /\ stopRequested' = TRUE
  /\ pc' = IF pc = "waiting" THEN "lock" ELSE pc
  /\ UNCHANGED <<service, mutex, blame, virtualizing, disk, registration>>

(* ServiceControlHandler(SERVICE_CONTROL_STOP) and ProjectedFilesystem::stop: *)
(* under m_runMutex, clear m_run and notify_all.                             *)
Stop ==
  /\ status = "SERVICE_RUNNING" /\ pc # "down"
  /\ ~mutex
  /\ m_run' = FALSE
  /\ stopRequested' = TRUE
  /\ pc' = IF pc = "waiting" THEN "lock" ELSE pc
  /\ UNCHANGED <<service, mutex, blame, virtualizing, disk, registration>>

ServiceMain ==
  \/ ParseFails \/ Begin \/ WriteConfig \/ CreateService \/ DeleteService \/ RegistrationRefused
  \/ ReadInstanceFile
  \/ CreateDirectory \/ Truncate \/ WriteGuid \/ MarkRoot \/ MarkRootRefused
  \/ LoadArchives \/ Announce
  \/ StartVirtualizing \/ StartVirtualizingRefused
  \/ Lock \/ Test \/ Sleep
  \/ StopVirtualizing \/ Exit

Next ==
  \/ StartProcess \/ Crash \/ Stop
  \/ ServiceMain \/ CallFails \/ GuardFails \/ ReadInstanceFileFails \/ SpuriousWakeup

Spec == Init /\ [][Next]_vars

(* ServiceMain keeps running: every call it makes returns.  Nothing obliges   *)
(* anyone to start, stop or kill the process, or a wait to end by itself.     *)
FairSpec == Spec /\ WF_vars(ServiceMain)

-----------------------------------------------------------------------------
(* Properties                                                              *)

(* Between two uses of the root directory, the instance file holds a GUID     *)
(* that can be read back exactly when the directory is marked: initialize     *)
(* decides by the file whether to mark.  FileGuard and the order of the steps  *)
(* see to that, whatever fails or crashes, but for the three steps that spoil  *)
(* it: an end of the process just before the mark that leaves the file (a crash *)
(* or a failed removal), a mark with a GUID that text mode cuts short, and a    *)
(* read that fails by itself.                                                *)
Deciding == {"createDirectory"} \cup Guarded
InstanceFileMatchesRoot ==
  \/ spoiled
  \/ IF pc \in Deciding THEN ~rootMarked ELSE Readable <=> rootMarked

Failed == pc = "down" /\ command = "run" /\ exitCode = 1

(* A start that fails does so because a call failed in its environment, never *)
(* because of what earlier starts, stops, failures or crashes left behind,     *)
(* unless one of them spoiled it.                                            *)
FailuresAreExcused == Failed => excused \/ spoiled

(* The service ends with success only when it was told to stop, and only      *)
(* after it has stopped virtualizing.                                        *)
SuccessMeansStopped ==
  [][command = "run" /\ exitCode # 0 /\ exitCode' = 0 =>
       stopRequested /\ ~m_run /\ ~virtualizing]_vars

(* A service that the service control manager can start finds its options.    *)
RegisteredHasConfig == registered => configFile

(* A stop request ends the process, wherever ServiceMain is when it arrives.  *)
StopIsHonoured == stopRequested /\ pc # "down" ~> pc = "down"
=============================================================================
