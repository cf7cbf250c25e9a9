--------------------------- MODULE AcquisitionTask --------------------------
(***************************************************************************)
(* The acquisition of slsDetectorDriver: the acquisition task, the port    *)
(* thread that writes parameters, and the detector behind the client       *)
(* library.  The task waits for the start event, calls the blocking        *)
(* Detector::acquire() without the driver lock, fetches the final status   *)
(* and the acquisition index without it too, and closes the acquisition    *)
(* under it.  The port thread runs one handler at a time, holding the      *)
(* driver lock from its first step to its last.                            *)
(*                                                                         *)
(* Grain: the task makes one step per library call and per group of        *)
(* parameter writes while it does not hold the lock, and one step for what *)
(* it does under the lock up to the top of its loop.  The Acquire = 0      *)
(* handler makes one step per library call; any other handler is one step, *)
(* or, where it needs the detector's control server, a begin and an end.   *)
(*                                                                         *)
(* Data: one module (address 0).  The acquisition index counts modulo      *)
(* MaxIndex + 1, because the code only copies it, adds one to it or        *)
(* subtracts one.  SDRecvStatus and SDRecvMissed are written beside        *)
(* ADStatus and NDFileNumber but read by no code, and are left out.        *)
(***************************************************************************)
EXTENDS Integers

CONSTANT MaxIndex       \* the largest acquisition index

ASSUME MaxIndexAssumption == MaxIndex \in Nat

VARIABLES
    lock,           \* holder of the driver's mutex: "none", "task", "port"
    startEvent,     \* startEventId, a binary event
    \* the acquisition task
    pc,             \* where the task is
    acquire,        \* its locals acquire, status, detStatus and the
    status,         \* fileNumber of line 280
    detStatus,
    rxIndex,
    \* the parameter library
    adAcquire, adStatus, shutter, imageMode, fileNumber, fullFileName,
    \* the handler that the port thread is running
    portPc, oldAcquire, portStatus,
    \* the detector and its receivers
    hasReceiver,    \* fixed when the driver starts
    detector,       \* run status
    fileWrite,
    acqIndex,       \* index of the next file
    \* history
    savedIndex,     \* index of the last file that a run created
    interrupted     \* an Acquire = 0 arrived since the task last launched

locals     == <<acquire, status, detStatus, rxIndex>>
runParams  == <<adAcquire, adStatus, shutter>>
fileParams == <<imageMode, fileNumber, fullFileName>>
portVars   == <<portPc, oldAcquire, portStatus>>
deviceVars == <<hasReceiver, detector, fileWrite, acqIndex>>
histVars   == <<savedIndex, interrupted>>
vars == <<lock, startEvent, pc, locals, runParams, fileParams, portVars,
          deviceVars, histVars>>

\* What a step of the task, and what a step of a handler, leaves alone.
notTask == <<startEvent, portVars, deviceVars, histVars>>
notPort == <<startEvent, pc, locals, histVars>>

-----------------------------------------------------------------------------
Index == 0 .. MaxIndex
None  == -1                         \* no file name yet
Succ(i) == IF i = MaxIndex THEN 0 ELSE i + 1

\* Mutant: the name takes the index after the next one.
MutLastName(i) == i + 1

\* The index in the name of the last file, composed from the next one.
LastName(i) == IF i = 0 THEN MaxIndex ELSE i - 1

Single     == "Single"
Multiple   == "Multiple"
Continuous == "Continuous"
ImageModes == {Single, Multiple, Continuous}

RunStatuses == {"IDLE", "RUNNING", "STOPPED"}

\* Program counters of the task: between a launch and its end, and all.
\* The lock is held at "top" only.
Acquiring == {"start", "running", "failed", "fetchStatus", "setStatus",
              "fetchReceiver", "setReceiver", "finish"}
TaskPcs   == {"begin", "top", "wait", "relock"} \cup Acquiring

\* Steps of the Acquire = 0 handler.
Stopping == {"stopDetector", "stopReceiver", "getStatus", "setStatus"}
PortPcs  == {"idle", "config"} \cup Stopping

TypeOK ==
    /\ lock \in {"none", "task", "port"}
    /\ startEvent \in BOOLEAN
    /\ pc \in TaskPcs
    /\ acquire \in {0, 1}
    /\ status \in {"ok", "error"}
    /\ detStatus \in RunStatuses
    /\ rxIndex \in Index
    /\ adAcquire \in {0, 1}
    /\ adStatus \in RunStatuses \cup {"ERROR"}
    /\ shutter \in {0, 1}
    /\ imageMode \in ImageModes
    /\ fileNumber \in Index
    /\ fullFileName \in Index \cup {None}
    /\ portPc \in PortPcs
    /\ oldAcquire \in {0, 1}
    /\ portStatus \in RunStatuses
    /\ hasReceiver \in BOOLEAN
    /\ detector \in RunStatuses
    /\ fileWrite \in BOOLEAN
    /\ acqIndex \in Index
    /\ savedIndex \in Index \cup {None}
    /\ interrupted \in BOOLEAN

\* The constructor has run: both threads exist, the task has not yet taken
\* the lock for the first time.  ADImageMode is Single, the other values are
\* read from the detector.
Init ==
    /\ lock = "none" /\ startEvent = FALSE
    /\ pc = "begin" /\ acquire = 0 /\ status = "ok"
    /\ detStatus = "IDLE" /\ rxIndex = 0
    /\ adAcquire = 0 /\ adStatus = "IDLE" /\ shutter = 0
    /\ imageMode = Single /\ fileNumber = 0 /\ fullFileName = None
    /\ portPc = "idle" /\ oldAcquire = 0 /\ portStatus = "IDLE"
    /\ hasReceiver \in BOOLEAN
    /\ detector = "IDLE"
    /\ fileWrite \in BOOLEAN
    /\ acqIndex \in Index
    /\ savedIndex = None /\ interrupted = FALSE

-----------------------------------------------------------------------------
(***************************************************************************)
(* The acquisition task                                                    *)
(***************************************************************************)

\* The thread takes the lock for the first time.
TaskBegins ==
    /\ pc = "begin"
    /\ lock = "none"
    /\ lock' = "task"
    /\ pc' = "top"
    /\ UNCHANGED <<notTask, locals, runParams, fileParams>>

\* Top of the loop, Acquire is 0: release the lock and wait for the event.
Rest ==
    /\ pc = "top"
    /\ adAcquire = 0
    /\ acquire' = 0
    /\ lock' = "none"
    /\ pc' = "wait"
    /\ UNCHANGED <<notTask, status, detStatus, rxIndex, runParams, fileParams>>

\* Mutant: a wait with a timeout whose result nobody tests.
MutWake ==
    /\ pc = "wait"
    /\ startEvent' = FALSE
    /\ pc' = "relock"
    /\ UNCHANGED <<lock, locals, runParams, fileParams, portVars, deviceVars,
                   histVars>>

\* epicsEventWait returns and empties the event.
Wake ==
    /\ pc = "wait"
    /\ startEvent
    /\ startEvent' = FALSE
    /\ pc' = "relock"
    /\ UNCHANGED <<lock, locals, runParams, fileParams, portVars, deviceVars,
                   histVars>>

\* With the lock held: announce the acquisition, release the lock and enter
\* Detector::acquire().
Launch ==
    /\ shutter' = 1
    /\ adStatus' = "RUNNING"
    /\ lock' = "none"
    /\ status' = "ok"
    /\ pc' = "start"
    /\ interrupted' = FALSE
    /\ UNCHANGED <<startEvent, detStatus, rxIndex, adAcquire, fileParams,
                   portVars, deviceVars, savedIndex>>

\* Mutant: Continuous mode goes on whatever the flag says.
MutLaunchAgain ==
    /\ pc = "top"
    /\ adAcquire = 1 \/ imageMode = Continuous
    /\ acquire' = adAcquire
    /\ Launch

\* Top of the loop, Acquire is still set (Continuous mode, or set before the
\* thread first ran).
LaunchAgain ==
    /\ pc = "top"
    /\ adAcquire = 1
    /\ acquire' = adAcquire
    /\ Launch

\* Mutant: the wake-up is taken to mean that Acquire is set.
MutLaunchWoken ==
    /\ pc = "relock"
    /\ lock = "none"
    /\ acquire' = 1
    /\ Launch

\* After the wake-up: Acquire is read again but not tested again.
LaunchWoken ==
    /\ pc = "relock"
    /\ lock = "none"
    /\ acquire' = adAcquire
    /\ Launch

-----------------------------------------------------------------------------
(***************************************************************************)
(* Detector::acquire(), called without the lock.  The receiver creates the *)
(* data file before the detector starts, and the index moves on after the  *)
(* run; both only when file writing is enabled.                            *)
(***************************************************************************)
WritesFile == hasReceiver /\ fileWrite

StartDetector ==
    /\ pc = "start"
    /\ detector # "RUNNING"
    /\ detector' = "RUNNING"
    /\ savedIndex' = IF WritesFile THEN acqIndex ELSE savedIndex
    /\ pc' = "running"
    /\ UNCHANGED <<lock, startEvent, locals, runParams, fileParams, portVars,
                   hasReceiver, fileWrite, acqIndex, interrupted>>

\* The detector reaches the end of its run by itself.  Nothing makes it: it
\* may wait for triggers.
DetectorFinishes ==
    /\ detector = "RUNNING"
    /\ detector' = "IDLE"
    /\ UNCHANGED <<lock, notPort, runParams, fileParams, portVars,
                   hasReceiver, fileWrite, acqIndex>>

AcquireReturns ==
    /\ pc = "running"
    /\ detector # "RUNNING"
    /\ acqIndex' = IF WritesFile THEN Succ(acqIndex) ELSE acqIndex
    /\ pc' = "fetchStatus"
    /\ UNCHANGED <<lock, startEvent, locals, runParams, fileParams, portVars,
                   hasReceiver, detector, fileWrite, histVars>>

\* An exception, at any time: the detector may be left running.
AcquireThrows ==
    /\ pc \in {"start", "running"}
    /\ status' = "error"
    /\ pc' = "failed"
    /\ UNCHANGED <<lock, notTask, acquire, detStatus, rxIndex, runParams,
                   fileParams>>

-----------------------------------------------------------------------------
(***************************************************************************)
(* The end of an acquisition                                               *)
(***************************************************************************)

\* Mutant: the task ends with the error.
MutTaskFails ==
    /\ pc = "failed"
    /\ lock = "none"
    /\ shutter' = 0
    /\ adStatus' = "ERROR"
    /\ adAcquire' = 0
    /\ UNCHANGED <<lock, notTask, pc, locals, fileParams>>

\* Mutant: the error path leaves the shutter as it is.
MutTaskFailsOpen ==
    /\ pc = "failed"
    /\ lock = "none"
    /\ adStatus' = "ERROR"
    /\ adAcquire' = 0
    /\ lock' = "task"
    /\ pc' = "top"
    /\ UNCHANGED <<notTask, locals, shutter, fileParams>>

\* After an exception of acquire(): the acquisition is over for the client.
TaskFails ==
    /\ pc = "failed"
    /\ lock = "none"
    /\ shutter' = 0
    /\ adStatus' = "ERROR"
    /\ adAcquire' = 0
    /\ lock' = "task"
    /\ pc' = "top"
    /\ UNCHANGED <<notTask, locals, fileParams>>

\* getDetectorStatus() returns; the lock is not held.
FetchStatus ==
    /\ pc = "fetchStatus"
    /\ detStatus' = detector
    /\ pc' = "setStatus"
    /\ UNCHANGED <<lock, notTask, acquire, status, rxIndex, runParams,
                   fileParams>>

\* Mutant: the status is published only beside the receiver's.
MutSetStatus ==
    /\ pc = "setStatus"
    /\ adStatus' = IF hasReceiver THEN detStatus ELSE adStatus
    /\ detStatus' = "IDLE"
    /\ pc' = IF hasReceiver THEN "fetchReceiver" ELSE "finish"
    /\ UNCHANGED <<lock, notTask, acquire, status, rxIndex, adAcquire,
                   shutter, fileParams>>

\* ADStatus is written without the lock, from what was fetched.  (detStatus
\* goes out of scope: it takes its initial value again.)
SetStatus ==
    /\ pc = "setStatus"
    /\ adStatus' = detStatus
    /\ detStatus' = "IDLE"
    /\ pc' = IF hasReceiver THEN "fetchReceiver" ELSE "finish"
    /\ UNCHANGED <<lock, notTask, acquire, status, rxIndex, adAcquire,
                   shutter, fileParams>>

\* Mutant: the index is that of the parameter, not of the receiver.
MutFetchReceiver ==
    /\ pc = "fetchReceiver"
    /\ rxIndex' = Succ(fileNumber)
    /\ pc' = "setReceiver"
    /\ UNCHANGED <<lock, notTask, acquire, status, detStatus, runParams, fileParams>>

\* getReceiverStatus() and getAcquisitionIndex() return.
FetchReceiver ==
    /\ pc = "fetchReceiver"
    /\ rxIndex' = acqIndex
    /\ pc' = "setReceiver"
    /\ UNCHANGED <<lock, notTask, acquire, status, detStatus, runParams,
                   fileParams>>

\* NDFileNumber is written without the lock; counting the missed packets
\* afterwards may still throw.
SetReceiver ==
    /\ pc = "setReceiver"
    /\ fileNumber' = rxIndex
    /\ rxIndex' = 0
    /\ status' \in {"ok", "error"}
    /\ pc' = "finish"
    /\ UNCHANGED <<lock, notTask, acquire, detStatus, runParams, imageMode,
                   fullFileName>>

\* A fetch throws: what was not yet written stays as it was.
FetchThrows ==
    /\ pc \in {"fetchStatus", "fetchReceiver"}
    /\ status' = "error"
    /\ pc' = "finish"
    /\ UNCHANGED <<lock, notTask, acquire, detStatus, rxIndex, runParams,
                   fileParams>>

\* Under the lock: compose the name of the last file from NDFileNumber, and
\* end the acquisition unless the mode is Continuous.
Finish ==
    /\ pc = "finish"
    /\ lock = "none"
    /\ fullFileName' = LastName(fileNumber)
    /\ IF imageMode \in {Single, Multiple}
       THEN shutter' = 0 /\ adAcquire' = 0
       ELSE UNCHANGED <<adAcquire, shutter>>
    /\ lock' = "task"
    /\ pc' = "top"
    /\ UNCHANGED <<notTask, locals, adStatus, imageMode, fileNumber>>

-----------------------------------------------------------------------------
(***************************************************************************)
(* The port thread.  asyn takes the lock, calls one handler, and releases  *)
(* the lock when the handler returns.                                      *)
(***************************************************************************)
PortTakesLock ==
    /\ portPc = "idle"
    /\ lock = "none"

\* Mutant: no wake-up while the status says that the detector runs.
MutWriteAcquireOn ==
    /\ PortTakesLock
    /\ adAcquire' = 1
    /\ startEvent' = (startEvent \/ adStatus # "RUNNING")
    /\ UNCHANGED <<lock, pc, locals, adStatus, shutter, fileParams, portVars,
                   deviceVars, histVars>>

\* Acquire = 1, accepted in any state.
WriteAcquireOn ==
    /\ PortTakesLock
    /\ adAcquire' = 1
    /\ startEvent' = TRUE
    /\ UNCHANGED <<lock, pc, locals, adStatus, shutter, fileParams, portVars,
                   deviceVars, histVars>>

\* Acquire = 0, accepted in any state: the flag is cleared first, then the
\* library is called with the lock held.
WriteAcquireOff ==
    /\ PortTakesLock
    /\ lock' = "port"
    /\ oldAcquire' = adAcquire
    /\ adAcquire' = 0
    /\ portPc' = "stopDetector"
    /\ interrupted' = TRUE
    /\ UNCHANGED <<startEvent, pc, locals, adStatus, shutter, fileParams,
                   portStatus, deviceVars, savedIndex>>

\* stopDetector() has an effect on a running detector only.
StopDetector ==
    /\ portPc = "stopDetector"
    /\ detector' \in IF detector = "RUNNING" THEN {"IDLE", "STOPPED"}
                                             ELSE {detector}
    /\ portPc' = "stopReceiver"
    /\ UNCHANGED <<lock, notPort, runParams, fileParams, oldAcquire,
                   portStatus, hasReceiver, fileWrite, acqIndex>>

\* Mutant: the handler waits for the task to be at rest.
MutStopReceiver ==
    /\ portPc = "stopReceiver"
    /\ pc = "wait"
    /\ portPc' = "getStatus"
    /\ UNCHANGED <<lock, notPort, runParams, fileParams, oldAcquire,
                   portStatus, deviceVars>>

\* stopReceiver(), where there is one, and clearAcquiringFlag().  (The flag is
\* tested by acquire() on entry only, and acquire() has one caller.)
StopReceiver ==
    /\ portPc = "stopReceiver"
    /\ portPc' = "getStatus"
    /\ UNCHANGED <<lock, notPort, runParams, fileParams, oldAcquire,
                   portStatus, deviceVars>>

\* getDetectorStatus() returns.
StopGetStatus ==
    /\ portPc = "getStatus"
    /\ portStatus' = detector
    /\ portPc' = "setStatus"
    /\ UNCHANGED <<lock, notPort, runParams, fileParams, oldAcquire,
                   deviceVars>>

\* The handler's locals go out of scope and asyn releases the lock.
PortReturns ==
    /\ portPc' = "idle"
    /\ oldAcquire' = 0
    /\ portStatus' = "IDLE"
    /\ lock' = "none"

StopSetStatus ==
    /\ portPc = "setStatus"
    /\ adStatus' = portStatus
    /\ PortReturns
    /\ UNCHANGED <<notPort, adAcquire, shutter, fileParams, deviceVars>>

\* Any call of the handler may throw: Acquire takes its old value again.  (At
\* "setStatus" it is getReceiverStatus() that throws, ADStatus being written.)
StopThrows ==
    /\ portPc \in Stopping
    /\ portPc = "setStatus" => hasReceiver
    /\ adStatus' = IF portPc = "setStatus" THEN portStatus ELSE adStatus
    /\ adAcquire' = oldAcquire
    /\ PortReturns
    /\ UNCHANGED <<notPort, shutter, fileParams, deviceVars>>

-----------------------------------------------------------------------------
\* Mutant: no gate.
MutPortAccepts == PortTakesLock

\* Every other handler is refused while Acquire is 1.
PortAccepts ==
    /\ PortTakesLock
    /\ adAcquire # 1

\* A parameter of the detector: the call needs its control server, which
\* accepts no command while an acquisition runs.
ConfigBegins ==
    /\ PortAccepts
    /\ lock' = "port"
    /\ portPc' = "config"
    /\ UNCHANGED <<notPort, runParams, fileParams, oldAcquire, portStatus,
                   deviceVars>>

ConfigEnds ==
    /\ portPc = "config"
    /\ detector # "RUNNING"
    /\ PortReturns
    /\ UNCHANGED <<notPort, runParams, fileParams, deviceVars>>

\* ADImageMode is left to the base class.
WriteImageMode ==
    /\ PortAccepts
    /\ imageMode' \in ImageModes
    /\ UNCHANGED <<lock, notPort, runParams, fileNumber, fullFileName, portVars,
                   deviceVars>>

\* NDFileNumber: set and read back; if the reading fails the parameter takes
\* its old value again.
WriteFileNumber ==
    /\ PortAccepts
    /\ acqIndex' \in Index
    /\ fileNumber' \in {acqIndex', fileNumber}
    /\ UNCHANGED <<lock, notPort, runParams, imageMode, fullFileName,
                   portVars, hasReceiver, detector, fileWrite>>

\* NDAutoSave.
WriteAutoSave ==
    /\ PortAccepts
    /\ fileWrite' \in BOOLEAN
    /\ UNCHANGED <<lock, notPort, runParams, fileParams, portVars,
                   hasReceiver, detector, acqIndex>>

-----------------------------------------------------------------------------
\* The steps of the task that follow from its code once acquire() returns.
TaskStep ==
    \/ TaskBegins \/ Rest \/ Wake \/ LaunchAgain \/ LaunchWoken
    \/ StartDetector \/ AcquireReturns \/ TaskFails
    \/ FetchStatus \/ SetStatus \/ FetchReceiver \/ SetReceiver \/ Finish

TaskThrows == AcquireThrows \/ FetchThrows

\* The steps of a handler that has begun.
HandlerStep == StopDetector \/ StopReceiver \/ StopGetStatus \/ StopSetStatus \/ ConfigEnds

\* The handlers that a client's write begins.
HandlerBegins ==
    \/ WriteAcquireOn \/ WriteAcquireOff \/ ConfigBegins
    \/ WriteImageMode \/ WriteFileNumber \/ WriteAutoSave

Next ==
    \/ TaskStep \/ TaskThrows
    \/ HandlerBegins \/ HandlerStep \/ StopThrows
    \/ DetectorFinishes

\* Both threads run.  The task's turn at the lock comes although the port
\* thread takes it again and again: between two handlers that thread goes
\* back to its queue.  Nobody is bound to write, a call need not throw, and a
\* detector that waits for triggers need not finish.
Fairness == SF_vars(TaskStep) /\ WF_vars(HandlerStep)

Spec == Init /\ [][Next]_vars /\ Fairness

\* With a detector whose runs end by themselves (internal timing).
TimedSpec == Spec /\ WF_vars(DetectorFinishes)

-----------------------------------------------------------------------------
(***************************************************************************)
(* Safety                                                                  *)
(***************************************************************************)

\* No start is lost: whenever the task waits while Acquire is set, or will be
\* set again should the stop in progress fail, the event is there to wake it.
NoLostStart ==
    pc = "wait" =>
        /\ adAcquire = 1 => startEvent
        /\ oldAcquire = 1 => startEvent

\* An acquisition launched with Acquire set keeps Acquire set, until a client
\* clears it or the acquisition has ended: a client that waits for Acquire to
\* go back to 0 waits for the whole acquisition.
FlagCoversRun ==
    pc \in Acquiring /\ acquire = 1 /\ ~interrupted => adAcquire = 1

\* While such an acquisition is under way no handler is talking to the
\* detector ("Reject any call to the detector if it is running").
ExclusiveWhileAsked ==
    pc \in Acquiring /\ acquire = 1 /\ ~interrupted => portPc # "config"

\* The task rests with the status that the detector has, if it could fetch it
\* and no Acquire = 0 came in between.
RestingStatusIsTrue ==
    pc = "wait" /\ status = "ok" /\ ~interrupted => adStatus = detector

\* The task comes to rest with the shutter closed, except in Continuous mode.
ShutterClosesAtRest ==
    [][pc # "wait" /\ pc' = "wait" => shutter' = 0 \/ imageMode = Continuous]_vars

\* NDFullFileName names the file that the acquisition saved, if it was
\* launched with Acquire set, ran undisturbed, saved one, and the index could
\* be fetched: nobody moved the index between the file's creation and now.
NameIsOfSavedFile ==
    [][pc = "finish" /\ pc' = "top" /\ acquire = 1 /\ ~interrupted
            /\ status = "ok" /\ WritesFile
        => fullFileName' = savedIndex]_vars

-----------------------------------------------------------------------------
(***************************************************************************)
(* Liveness, for TimedSpec                                                 *)
(***************************************************************************)

\* Every signalled start is followed by a launch, whatever else happens.
StartServed == startEvent ~> pc = "start"

\* Once Acquire is 0 the task comes to rest, unless Acquire is set again.
ComesToRest == adAcquire = 0 ~> (pc = "wait" \/ adAcquire = 1)

\* Every handler returns, so the lock is always released again.
HandlerReturns == portPc # "idle" ~> portPc = "idle"

-----------------------------------------------------------------------------
(***************************************************************************)
(* The task implements AcquireService: a start not yet taken up is an      *)
(* event, or a woken task; a stop takes effect when its handler returns.   *)
(***************************************************************************)
Service == INSTANCE AcquireService WITH
    flag    <- IF portPc \in Stopping THEN oldAcquire ELSE adAcquire,
    pending <- startEvent \/ pc = "relock",
    phase   <- IF pc \in Acquiring THEN "acquiring" ELSE "rest"

ImplementsService == Service!Spec

-----------------------------------------------------------------------------
(***************************************************************************)
(* What the repository says and the code does not do                       *)
(***************************************************************************)

\* slsDetectorDriver.cpp:606, "Reject any call to the detector if it is
\* running": no handler has such a call under way while the detector runs for
\* the task, whether or not Acquire says so.
NoCallWhileRunning ==
    ~(portPc = "config" /\ pc = "running" /\ detector = "RUNNING")

\* README.rst:125, "Avoid calling getDetectorStatus from two threads
\* simultaneously."
OneStatusCallAtATime == ~(pc = "fetchStatus" /\ portPc = "getStatus")

\* slsDetectorDriver.cpp:297, "Compose last saved file name": once a file has
\* been saved, an undisturbed acquisition leaves its name, or the name of the
\* file it saved itself, in NDFullFileName.
NameIsOfLastSavedFile ==
    [][pc = "finish" /\ pc' = "top" /\ acquire = 1 /\ ~interrupted
            /\ status = "ok" /\ hasReceiver /\ savedIndex # None
        => fullFileName' = savedIndex]_vars
=============================================================================
