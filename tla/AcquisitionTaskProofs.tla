----------------------- MODULE AcquisitionTaskProofs ------------------------
(***************************************************************************)
(* What holds of AcquisitionTask for every MaxIndex.  The inductive        *)
(* invariant is TypeOK with LockInv, HandlerInv, NoLostStart,              *)
(* FlagCoversRun, StatusInv, FileInv and ShutterInv; each conjunct is      *)
(* proved to be kept by a step in a lemma of its own, from the conjuncts   *)
(* it needs.                                                               *)
(***************************************************************************)
EXTENDS AcquisitionTask, TLAPS

\* The lock is held by the thread that is between its taking and releasing.
LockInv ==
    /\ lock = "task" <=> pc = "top"
    /\ lock = "port" <=> portPc # "idle"

\* While a stop is in progress Acquire is 0, and the stop is remembered;
\* oldAcquire has a value only then.  Acquire is 0 during a configuration.
HandlerInv ==
    /\ portPc \in Stopping => adAcquire = 0 /\ interrupted
    /\ portPc \notin Stopping => oldAcquire = 0
    /\ portPc = "config" => adAcquire = 0

\* From the return of acquire() to the next wake-up.
Settled == {"fetchStatus", "setStatus", "fetchReceiver", "setReceiver",
            "finish", "top", "begin", "wait"}

\* The status on its way from the detector to ADStatus.
StatusInv ==
    /\ pc = "failed" => status = "error"
    /\ pc \in {"running", "fetchStatus", "setStatus", "fetchReceiver", "setReceiver", "start"}
        => status = "ok"
    /\ pc \in Settled /\ status = "ok" => detector # "RUNNING"
    /\ pc = "setStatus" /\ status = "ok" /\ ~interrupted => detStatus = detector
    /\ pc \in Settled \ {"fetchStatus", "setStatus"} /\ status = "ok" /\ ~interrupted
        => adStatus = detector

\* The index on its way from the file's creation to NDFileNumber.
FileInv ==
    acquire = 1 /\ ~interrupted /\ WritesFile =>
        /\ pc = "running" => savedIndex = acqIndex
        /\ pc \in {"fetchStatus", "setStatus", "fetchReceiver"} =>
                savedIndex \in Index /\ acqIndex = Succ(savedIndex)
        /\ pc = "setReceiver" =>
                savedIndex \in Index /\ rxIndex = Succ(savedIndex)
        /\ pc = "finish" /\ status = "ok" =>
                savedIndex \in Index /\ fileNumber = Succ(savedIndex)

\* The shutter at the top of the loop.
ShutterInv ==
    /\ pc = "begin" => shutter = 0
    /\ pc = "top" => shutter = 0 \/ imageMode = Continuous

IInv ==
    /\ TypeOK
    /\ LockInv
    /\ HandlerInv
    /\ NoLostStart
    /\ FlagCoversRun
    /\ StatusInv
    /\ FileInv
    /\ ShutterInv

-----------------------------------------------------------------------------
\* The name's index is that of the file before the next one, round the end too.
LEMMA LastOfSucc == ASSUME NEW i \in Index PROVE LastName(Succ(i)) = i
BY MaxIndexAssumption DEF Index, LastName, Succ

LEMMA IndexType ==
    /\ 0 \in Index
    /\ \A i \in Index : Succ(i) \in Index /\ LastName(i) \in Index
BY MaxIndexAssumption DEF Index, LastName, Succ

LEMMA InitIInv == Init => IInv
BY IndexType DEF Init, IInv, TypeOK, LockInv, HandlerInv, NoLostStart, FlagCoversRun,
    StatusInv, FileInv, ShutterInv, Settled, Acquiring, Stopping, TaskPcs, PortPcs,
    RunStatuses, ImageModes, Single
-----------------------------------------------------------------------------
\* Every step keeps the types.
LEMMA StepTypeOK == TypeOK /\ [Next]_vars => TypeOK'
<1> SUFFICES ASSUME TypeOK, [Next]_vars PROVE TypeOK'
  OBVIOUS
<1> USE DEF TypeOK, TaskPcs, PortPcs, Acquiring, Stopping, RunStatuses,
            locals, runParams, fileParams, portVars, deviceVars, histVars,
            notTask, notPort
<1>1. CASE TaskBegins
  BY <1>1 DEF TaskBegins
<1>2. CASE Rest
  BY <1>2 DEF Rest
<1>3. CASE Wake
  <2>1. startEvent' \in BOOLEAN
    BY <1>3, Zenon DEF Wake
  <2> QED
    BY <1>3, <2>1 DEF Wake
<1>4. CASE LaunchAgain
  <2>1. interrupted' \in BOOLEAN
    BY <1>4, Zenon DEF LaunchAgain, Launch
  <2> QED
    BY <1>4, <2>1 DEF LaunchAgain, Launch
<1>5. CASE LaunchWoken
  <2>1. interrupted' \in BOOLEAN
    BY <1>5, Zenon DEF LaunchWoken, Launch
  <2> QED
    BY <1>5, <2>1 DEF LaunchWoken, Launch
<1>6. CASE StartDetector
  BY <1>6 DEF StartDetector
<1>7. CASE AcquireReturns
  BY <1>7, IndexType DEF AcquireReturns
<1>8. CASE TaskFails
  BY <1>8 DEF TaskFails
<1>9. CASE FetchStatus
  BY <1>9 DEF FetchStatus
<1>10. CASE SetStatus
  BY <1>10 DEF SetStatus
<1>11. CASE FetchReceiver
  BY <1>11 DEF FetchReceiver
<1>12. CASE SetReceiver
  BY <1>12, IndexType DEF SetReceiver
<1>13. CASE Finish
  BY <1>13, IndexType DEF Finish
<1>14. CASE AcquireThrows
  BY <1>14 DEF AcquireThrows
<1>15. CASE FetchThrows
  BY <1>15 DEF FetchThrows
<1>16. CASE WriteAcquireOn
  BY <1>16 DEF WriteAcquireOn
<1>17. CASE WriteAcquireOff
  BY <1>17 DEF WriteAcquireOff
<1>18. CASE ConfigBegins
  BY <1>18 DEF ConfigBegins
<1>19. CASE WriteImageMode
  BY <1>19 DEF WriteImageMode
<1>20. CASE WriteFileNumber
  BY <1>20 DEF WriteFileNumber
<1>21. CASE WriteAutoSave
  BY <1>21 DEF WriteAutoSave
<1>22. CASE StopDetector
  BY <1>22 DEF StopDetector
<1>23. CASE StopReceiver
  BY <1>23 DEF StopReceiver
<1>24. CASE StopGetStatus
  BY <1>24 DEF StopGetStatus
<1>25. CASE StopSetStatus
  BY <1>25 DEF StopSetStatus, PortReturns
<1>26. CASE ConfigEnds
  BY <1>26 DEF ConfigEnds, PortReturns
<1>27. CASE StopThrows
  BY <1>27 DEF StopThrows, PortReturns
<1>28. CASE DetectorFinishes
  BY <1>28 DEF DetectorFinishes
<1>29. CASE UNCHANGED vars
  BY <1>29 DEF vars
<1> QED
  BY <1>1, <1>2, <1>3, <1>4, <1>5, <1>6, <1>7, <1>8, <1>9, <1>10, <1>11, <1>12, <1>13,
     <1>14, <1>15, <1>16, <1>17, <1>18, <1>19, <1>20, <1>21, <1>22, <1>23, <1>24, <1>25,
     <1>26, <1>27, <1>28, <1>29
  DEF Next, TaskStep, TaskThrows, HandlerBegins, HandlerStep
\* No step takes a lock that is held, or leaves it held behind.
LEMMA StepLockInv == LockInv /\ [Next]_vars => LockInv'
<1> SUFFICES ASSUME LockInv, [Next]_vars PROVE LockInv'
  OBVIOUS
<1> USE DEF LockInv, Stopping, locals, runParams, fileParams,
            portVars, deviceVars, histVars, notTask, notPort
<1>1. CASE TaskStep
  BY <1>1 DEF TaskStep, TaskBegins, Rest, Wake, LaunchAgain, LaunchWoken, Launch, StartDetector,
          AcquireReturns, TaskFails, FetchStatus, SetStatus, FetchReceiver,
          SetReceiver, Finish
<1>2. CASE TaskThrows
  BY <1>2 DEF TaskThrows, AcquireThrows, FetchThrows
<1>3. CASE HandlerBegins
  BY <1>3 DEF HandlerBegins, WriteAcquireOn, WriteAcquireOff, ConfigBegins, WriteImageMode,
          WriteFileNumber, WriteAutoSave, PortAccepts, PortTakesLock
<1>4. CASE HandlerStep
  BY <1>4 DEF HandlerStep, StopDetector, StopReceiver, StopGetStatus, StopSetStatus,
          ConfigEnds, PortReturns
<1>5. CASE StopThrows
  BY <1>5 DEF StopThrows, PortReturns
<1>6. CASE DetectorFinishes \/ UNCHANGED vars
  BY <1>6 DEF DetectorFinishes, vars
<1> QED
  BY <1>1, <1>2, <1>3, <1>4, <1>5, <1>6 DEF Next

\* Acquire changes under the lock only, so not during somebody else's handler.
LEMMA StepHandlerInv == TypeOK /\ LockInv /\ HandlerInv /\ [Next]_vars => HandlerInv'
<1> SUFFICES ASSUME TypeOK /\ LockInv /\ HandlerInv, [Next]_vars PROVE HandlerInv'
  OBVIOUS
<1> USE DEF TypeOK, LockInv, HandlerInv, Stopping, locals, runParams, fileParams,
            portVars, deviceVars, histVars, notTask, notPort
<1>1. CASE TaskStep
  BY <1>1 DEF TaskStep, TaskBegins, Rest, Wake, LaunchAgain, LaunchWoken, Launch, StartDetector,
          AcquireReturns, TaskFails, FetchStatus, SetStatus, FetchReceiver,
          SetReceiver, Finish
<1>2. CASE TaskThrows
  BY <1>2 DEF TaskThrows, AcquireThrows, FetchThrows
<1>3. CASE HandlerBegins
  BY <1>3 DEF HandlerBegins, WriteAcquireOn, WriteAcquireOff, ConfigBegins, WriteImageMode,
          WriteFileNumber, WriteAutoSave, PortAccepts, PortTakesLock
<1>4. CASE HandlerStep
  BY <1>4 DEF HandlerStep, StopDetector, StopReceiver, StopGetStatus, StopSetStatus,
          ConfigEnds, PortReturns
<1>5. CASE StopThrows
  BY <1>5 DEF StopThrows, PortReturns
<1>6. CASE DetectorFinishes \/ UNCHANGED vars
  BY <1>6 DEF DetectorFinishes, vars
<1> QED
  BY <1>1, <1>2, <1>3, <1>4, <1>5, <1>6 DEF Next

\* A task that comes to rest has read Acquire = 0 under the lock, with no stop in
\* progress; whoever sets Acquire afterwards leaves the event too.
LEMMA StepNoLostStart == LockInv /\ HandlerInv /\ NoLostStart /\ [Next]_vars => NoLostStart'
<1> SUFFICES ASSUME LockInv /\ HandlerInv /\ NoLostStart, [Next]_vars PROVE NoLostStart'
  OBVIOUS
<1> USE DEF LockInv, HandlerInv, NoLostStart, Stopping, locals, runParams, fileParams,
            portVars, deviceVars, histVars, notTask, notPort
<1>1. CASE TaskStep
  BY <1>1 DEF TaskStep, TaskBegins, Rest, Wake, LaunchAgain, LaunchWoken, Launch, StartDetector,
          AcquireReturns, TaskFails, FetchStatus, SetStatus, FetchReceiver,
          SetReceiver, Finish
<1>2. CASE TaskThrows
  BY <1>2 DEF TaskThrows, AcquireThrows, FetchThrows
<1>3. CASE HandlerBegins
  BY <1>3 DEF HandlerBegins, WriteAcquireOn, WriteAcquireOff, ConfigBegins, WriteImageMode,
          WriteFileNumber, WriteAutoSave, PortAccepts, PortTakesLock
<1>4. CASE HandlerStep
  BY <1>4 DEF HandlerStep, StopDetector, StopReceiver, StopGetStatus, StopSetStatus,
          ConfigEnds, PortReturns
<1>5. CASE StopThrows
  BY <1>5 DEF StopThrows, PortReturns
<1>6. CASE DetectorFinishes \/ UNCHANGED vars
  BY <1>6 DEF DetectorFinishes, vars
<1> QED
  BY <1>1, <1>2, <1>3, <1>4, <1>5, <1>6 DEF Next

\* A launch takes the flag as it is under the lock; it falls again by an end of
\* the run or by a stop.
LEMMA StepFlagCoversRun == LockInv /\ HandlerInv /\ FlagCoversRun /\ [Next]_vars => FlagCoversRun'
<1> SUFFICES ASSUME LockInv /\ HandlerInv /\ FlagCoversRun, [Next]_vars PROVE FlagCoversRun'
  OBVIOUS
<1> USE DEF LockInv, HandlerInv, FlagCoversRun, Acquiring, Stopping, locals, runParams, fileParams,
            portVars, deviceVars, histVars, notTask, notPort
<1>1. CASE TaskStep
  BY <1>1 DEF TaskStep, TaskBegins, Rest, Wake, LaunchAgain, LaunchWoken, Launch, StartDetector,
          AcquireReturns, TaskFails, FetchStatus, SetStatus, FetchReceiver,
          SetReceiver, Finish
<1>2. CASE TaskThrows
  BY <1>2 DEF TaskThrows, AcquireThrows, FetchThrows
<1>3. CASE HandlerBegins
  BY <1>3 DEF HandlerBegins, WriteAcquireOn, WriteAcquireOff, ConfigBegins, WriteImageMode,
          WriteFileNumber, WriteAutoSave, PortAccepts, PortTakesLock
<1>4. CASE HandlerStep
  BY <1>4 DEF HandlerStep, StopDetector, StopReceiver, StopGetStatus, StopSetStatus,
          ConfigEnds, PortReturns
<1>5. CASE StopThrows
  BY <1>5 DEF StopThrows, PortReturns
<1>6. CASE DetectorFinishes \/ UNCHANGED vars
  BY <1>6 DEF DetectorFinishes, vars
<1> QED
  BY <1>1, <1>2, <1>3, <1>4, <1>5, <1>6 DEF Next

\* ADStatus is on its way while the detector no longer runs.
LEMMA StepStatusInv == LockInv /\ HandlerInv /\ StatusInv /\ [Next]_vars => StatusInv'
<1> SUFFICES ASSUME LockInv /\ HandlerInv /\ StatusInv, [Next]_vars PROVE StatusInv'
  OBVIOUS
<1> USE DEF LockInv, HandlerInv, StatusInv, Settled, Stopping, locals, runParams, fileParams,
            portVars, deviceVars, histVars, notTask, notPort
<1>1. CASE TaskStep
  BY <1>1 DEF TaskStep, TaskBegins, Rest, Wake, LaunchAgain, LaunchWoken, Launch, StartDetector,
          AcquireReturns, TaskFails, FetchStatus, SetStatus, FetchReceiver,
          SetReceiver, Finish
<1>2. CASE TaskThrows
  BY <1>2 DEF TaskThrows, AcquireThrows, FetchThrows
<1>3. CASE HandlerBegins
  BY <1>3 DEF HandlerBegins, WriteAcquireOn, WriteAcquireOff, ConfigBegins, WriteImageMode,
          WriteFileNumber, WriteAutoSave, PortAccepts, PortTakesLock
<1>4. CASE HandlerStep
  BY <1>4 DEF HandlerStep, StopDetector, StopReceiver, StopGetStatus, StopSetStatus,
          ConfigEnds, PortReturns
<1>5. CASE StopThrows
  BY <1>5 DEF StopThrows, PortReturns
<1>6. CASE DetectorFinishes \/ UNCHANGED vars
  BY <1>6 DEF DetectorFinishes, vars
<1> QED
  BY <1>1, <1>2, <1>3, <1>4, <1>5, <1>6 DEF Next

\* The gate holds the index and the file writing still while the flag is up.
LEMMA StepFileInv == TypeOK /\ FlagCoversRun /\ FileInv /\ [Next]_vars => FileInv'
<1> SUFFICES ASSUME TypeOK /\ FlagCoversRun /\ FileInv, [Next]_vars PROVE FileInv'
  OBVIOUS
<1> USE DEF TypeOK, FlagCoversRun, FileInv, WritesFile, Acquiring, locals, runParams, fileParams,
            portVars, deviceVars, histVars, notTask, notPort
<1>1. CASE TaskStep
  BY <1>1 DEF TaskStep, TaskBegins, Rest, Wake, LaunchAgain, LaunchWoken, Launch, StartDetector,
          AcquireReturns, TaskFails, FetchStatus, SetStatus, FetchReceiver,
          SetReceiver, Finish
<1>2. CASE TaskThrows
  BY <1>2 DEF TaskThrows, AcquireThrows, FetchThrows
<1>3. CASE HandlerBegins
  BY <1>3 DEF HandlerBegins, WriteAcquireOn, WriteAcquireOff, ConfigBegins, WriteImageMode,
          WriteFileNumber, WriteAutoSave, PortAccepts, PortTakesLock
<1>4. CASE HandlerStep
  BY <1>4 DEF HandlerStep, StopDetector, StopReceiver, StopGetStatus, StopSetStatus,
          ConfigEnds, PortReturns
<1>5. CASE StopThrows
  BY <1>5 DEF StopThrows, PortReturns
<1>6. CASE DetectorFinishes \/ UNCHANGED vars
  BY <1>6 DEF DetectorFinishes, vars
<1> QED
  BY <1>1, <1>2, <1>3, <1>4, <1>5, <1>6 DEF Next
\* Only Continuous mode leaves an acquisition with the shutter open.
LEMMA StepShutterInv == TypeOK /\ LockInv /\ ShutterInv /\ [Next]_vars => ShutterInv'
<1> SUFFICES ASSUME TypeOK /\ LockInv /\ ShutterInv, [Next]_vars PROVE ShutterInv'
  OBVIOUS
<1> USE DEF TypeOK, LockInv, ShutterInv, ImageModes, locals, runParams, fileParams,
            portVars, deviceVars, histVars, notTask, notPort
<1>1. CASE TaskStep
  BY <1>1 DEF TaskStep, TaskBegins, Rest, Wake, LaunchAgain, LaunchWoken, Launch, StartDetector,
          AcquireReturns, TaskFails, FetchStatus, SetStatus, FetchReceiver,
          SetReceiver, Finish
<1>2. CASE TaskThrows
  BY <1>2 DEF TaskThrows, AcquireThrows, FetchThrows
<1>3. CASE HandlerBegins
  BY <1>3 DEF HandlerBegins, WriteAcquireOn, WriteAcquireOff, ConfigBegins, WriteImageMode,
          WriteFileNumber, WriteAutoSave, PortAccepts, PortTakesLock
<1>4. CASE HandlerStep
  BY <1>4 DEF HandlerStep, StopDetector, StopReceiver, StopGetStatus, StopSetStatus,
          ConfigEnds, PortReturns
<1>5. CASE StopThrows
  BY <1>5 DEF StopThrows, PortReturns
<1>6. CASE DetectorFinishes \/ UNCHANGED vars
  BY <1>6 DEF DetectorFinishes, vars
<1> QED
  BY <1>1, <1>2, <1>3, <1>4, <1>5, <1>6 DEF Next
-----------------------------------------------------------------------------
LEMMA StepIInv == IInv /\ [Next]_vars => IInv'
BY StepTypeOK, StepLockInv, StepHandlerInv, StepNoLostStart, StepFlagCoversRun,
   StepStatusInv, StepFileInv, StepShutterInv DEF IInv

THEOREM Invariance == Spec => []IInv
<1>1. Init => IInv
  BY InitIInv
<1>2. IInv /\ [Next]_vars => IInv'
  BY StepIInv
<1> QED
  BY <1>1, <1>2, PTL DEF Spec

\* The types are kept for every number of indices.
THEOREM Types == Spec => []TypeOK
<1>1. IInv => TypeOK
  BY DEF IInv
<1> QED
  BY <1>1, Invariance, PTL

\* No accepted start can be slept through: neither the wake-up, nor a stop that
\* fails half-way, nor a start between the task's reading and its waiting
\* leaves Acquire set and the task waiting for an event that will not come.
THEOREM StartIsNeverLost == Spec => []NoLostStart
<1>1. IInv => NoLostStart
  BY DEF IInv
<1> QED
  BY <1>1, Invariance, PTL

\* Acquire stays set as long as the acquisition it asked for.
THEOREM FlagCovers == Spec => []FlagCoversRun
<1>1. IInv => FlagCoversRun
  BY DEF IInv
<1> QED
  BY <1>1, Invariance, PTL

\* No configuration call overlaps an acquisition that Acquire asked for.
THEOREM Exclusive == Spec => []ExclusiveWhileAsked
<1>1. IInv => ExclusiveWhileAsked
  BY DEF IInv, FlagCoversRun, HandlerInv, ExclusiveWhileAsked
<1> QED
  BY <1>1, Invariance, PTL

\* At rest ADStatus is the detector's status.
THEOREM RestingStatus == Spec => []RestingStatusIsTrue
<1>1. IInv => RestingStatusIsTrue
  BY DEF IInv, StatusInv, Settled, RestingStatusIsTrue
<1> QED
  BY <1>1, Invariance, PTL
-----------------------------------------------------------------------------
\* Only Continuous mode ends at rest with the shutter open.
THEOREM ShutterCloses == Spec => ShutterClosesAtRest
<1> DEFINE Closes == pc # "wait" /\ pc' = "wait" => shutter' = 0 \/ imageMode = Continuous
<1>1. ASSUME IInv, Next, pc # "wait", pc' = "wait"
      PROVE  shutter' = 0 \/ imageMode = Continuous
  <2>1. pc = "top" /\ shutter' = shutter
    BY <1>1 DEF Next, TaskStep, TaskBegins, Rest, Wake, LaunchAgain, LaunchWoken, Launch,
       StartDetector, AcquireReturns, TaskFails, FetchStatus, SetStatus, FetchReceiver,
       SetReceiver, Finish, TaskThrows, AcquireThrows, FetchThrows, HandlerBegins,
       WriteAcquireOn, WriteAcquireOff, ConfigBegins, WriteImageMode, WriteFileNumber,
       WriteAutoSave, HandlerStep, StopDetector, StopReceiver, StopGetStatus,
       StopSetStatus, ConfigEnds, PortReturns, StopThrows, DetectorFinishes, locals,
       runParams, notPort
  <2> QED
    BY <1>1, <2>1 DEF IInv, ShutterInv
<1>2. IInv /\ [Next]_vars => [Closes]_vars
  BY <1>1
<1> QED
  BY <1>2, Invariance, PTL DEF Spec, ShutterClosesAtRest

\* For every number of indices, and wherever the index wraps, NDFullFileName
\* names the file of an undisturbed acquisition.
THEOREM NameOfSavedFile == Spec => NameIsOfSavedFile
<1> DEFINE Ends == pc = "finish" /\ pc' = "top" /\ acquire = 1 /\ ~interrupted
                      /\ status = "ok" /\ WritesFile
<1>1. ASSUME IInv, Next, Ends
      PROVE  fullFileName' = savedIndex
  <2>1. fullFileName' = LastName(fileNumber)
    BY <1>1 DEF Next, TaskStep, TaskBegins, Rest, Wake, LaunchAgain, LaunchWoken, Launch,
       StartDetector, AcquireReturns, TaskFails, FetchStatus, SetStatus, FetchReceiver,
       SetReceiver, Finish, TaskThrows, AcquireThrows, FetchThrows, HandlerBegins,
       WriteAcquireOn, WriteAcquireOff, ConfigBegins, WriteImageMode, WriteFileNumber,
       WriteAutoSave, HandlerStep, StopDetector, StopReceiver, StopGetStatus,
       StopSetStatus, ConfigEnds, PortReturns, StopThrows, DetectorFinishes, notPort
  <2>2. savedIndex \in Index /\ fileNumber = Succ(savedIndex)
    BY <1>1 DEF IInv, FileInv
  <2> QED
    BY <2>1, <2>2, LastOfSucc
<1>2. IInv /\ [Next]_vars => [Ends => fullFileName' = savedIndex]_vars
  BY <1>1
<1> QED
  BY <1>2, Invariance, PTL DEF Spec, NameIsOfSavedFile
-----------------------------------------------------------------------------
(***************************************************************************)
(* The task implements AcquireService, as far as safety goes: the initial  *)
(* states map to initial states and every step to a step or a stutter.     *)
(***************************************************************************)
LEMMA InitRefines == Init => Service!Init
BY DEF Init, Service!Init, Stopping, Acquiring

LEMMA StepRefines == IInv /\ [Next]_vars => [Service!Next]_Service!vars
<1> SUFFICES ASSUME IInv, [Next]_vars PROVE [Service!Next]_Service!vars
  OBVIOUS
<1> USE DEF IInv, TypeOK, LockInv, HandlerInv, Stopping, Acquiring, Service!vars,
            locals, runParams, fileParams, portVars, deviceVars, histVars, notTask, notPort
\* A launch is a Begin: it takes up a pending start only if it follows a wake-up.
<1>1. CASE LaunchAgain \/ LaunchWoken
  <2>1. Service!Begin
    BY <1>1 DEF LaunchAgain, LaunchWoken, Launch, Service!Begin
  <2> QED
    BY <2>1 DEF Service!Next
\* Both ends of the task's loop are an End.
<1>2. CASE TaskFails \/ Finish
  <2>1. Service!End
    BY <1>2 DEF TaskFails, Finish, Service!End
  <2> QED
    BY <2>1 DEF Service!Next
<1>3. CASE WriteAcquireOn
  <2>1. Service!Start
    BY <1>3 DEF WriteAcquireOn, PortTakesLock, Service!Start
  <2> QED
    BY <2>1 DEF Service!Next
\* A stop takes effect where its handler returns normally.
<1>4. CASE StopSetStatus
  <2>1. Service!Stop
    BY <1>4 DEF StopSetStatus, PortReturns, Service!Stop
  <2> QED
    BY <2>1 DEF Service!Next
<1>5. CASE WriteAcquireOff \/ StopDetector \/ StopReceiver \/ StopGetStatus \/ StopThrows
  BY <1>5 DEF WriteAcquireOff, PortTakesLock, StopDetector, StopReceiver, StopGetStatus,
     StopThrows, PortReturns
<1>6. CASE ConfigBegins \/ ConfigEnds \/ WriteImageMode \/ WriteFileNumber \/ WriteAutoSave
  BY <1>6 DEF ConfigBegins, ConfigEnds, WriteImageMode, WriteFileNumber, WriteAutoSave,
     PortAccepts, PortTakesLock, PortReturns
\* Emptying the event leaves the start pending in the woken task.
<1>7. CASE TaskBegins \/ Rest \/ Wake
  BY <1>7 DEF TaskBegins, Rest, Wake
<1>8. CASE StartDetector \/ AcquireReturns \/ FetchStatus \/ SetStatus \/ FetchReceiver
            \/ SetReceiver \/ TaskThrows
  BY <1>8 DEF StartDetector, AcquireReturns, FetchStatus, SetStatus, FetchReceiver,
     SetReceiver, TaskThrows, AcquireThrows, FetchThrows
<1>9. CASE DetectorFinishes \/ UNCHANGED vars
  BY <1>9 DEF DetectorFinishes, vars
<1> QED
  BY <1>1, <1>2, <1>3, <1>4, <1>5, <1>6, <1>7, <1>8, <1>9
  DEF Next, TaskStep, TaskThrows, HandlerBegins, HandlerStep

\* No acquisition without a request, and no request dropped but by a stop:
\* the threads, the event and the lock keep the promise of AcquireService.
THEOREM ImplementsServiceSafely == Spec => Service!Init /\ [][Service!Next]_Service!vars
<1>1. Init => Service!Init
  BY InitRefines
<1>2. IInv /\ [Next]_vars => [Service!Next]_Service!vars
  BY StepRefines
<1> QED
  BY <1>1, <1>2, Invariance, PTL DEF Spec

-----------------------------------------------------------------------------
\* While an acquisition that was asked for is under way and nobody has stopped
\* it, the guard of WriteAcquireOff holds: no configuration keeps the driver's
\* lock waiting for the detector, and neither does the task.
StopCanBegin ==
    pc \in Acquiring /\ acquire = 1 /\ ~interrupted => PortTakesLock

\* A client that started an acquisition can stop it at each of its steps: the
\* Acquire = 0 handler is never kept out by the run that it is to end.
THEOREM StopIsNeverLockedOut == Spec => []StopCanBegin
<1>1. IInv /\ ExclusiveWhileAsked => StopCanBegin
  BY DEF IInv, TypeOK, LockInv, HandlerInv, PortPcs, Stopping, Acquiring,
     ExclusiveWhileAsked, StopCanBegin, PortTakesLock
<1> QED
  BY Invariance, Exclusive, <1>1, PTL
=============================================================================
