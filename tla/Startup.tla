------------------------------- MODULE Startup ------------------------------
(***************************************************************************)
(* The life of slsDetectorDriver: slsDetectorConfig runs the constructor,  *)
(* which has several early returns; the port is registered by then, so     *)
(* clients may write to it afterwards whichever way the constructor ended. *)
(* At exit the detector is deleted while the threads go on.                *)
(*                                                                         *)
(* Nothing is written to the port before the constructor is left: the IOC  *)
(* is not yet initialised.  The two threads are reduced to what they take  *)
(* from the start-up: an acquisition or a trigger under way, and its end;  *)
(* the handlers to whether they call the detector.  AcquisitionTask,       *)
(* SoftwareTrigger and ModuleParams begin where this module is "done" with *)
(* both threads.  The detector is "oversized" if it has more modules than  *)
(* the port has addresses.  After an early return hasReceiver and          *)
(* tempDacIndex have no defined value; they choose between calls of the    *)
(* detector, which are one here.                                           *)
(***************************************************************************)
EXTENDS Naturals

CONSTANT MarksDisconnected  \* built against ADCore 3.10 or later

ASSUME MarksAssumption == MarksDisconnected \in BOOLEAN

VARIABLES
    stage,          \* what the constructor does next, and how it ended
    connected,      \* asyn accepts writes to the port
    created,        \* the driver's own parameters exist
    detector,       \* what pDetector points to
    known,          \* the type and the size have been read
    read,           \* how much of the parameters has been read
    adStatus,       \* ADStatus
    threads,        \* that were created
    exitHandler,    \* c_shutdown is registered
    acquire, trigger, acquisitionMode,    \* ADAcquire, SDTriggerSoftware and
                                    \* ADImageMode
    events,         \* that have been signalled
    busy,           \* threads that are in a call of the detector
    reached         \* history: who has called a detector that is not set up

setUp  == <<created, known, read, threads, exitHandler>>
client == <<acquire, trigger, acquisitionMode>>
outside == <<client, events, busy, reached>>
vars == <<stage, connected, detector, adStatus, setUp, client, events, busy,
          reached>>

-----------------------------------------------------------------------------
Threads == {"acquisitionTask", "triggerSoftwareTask"}
Stages  == {"events", "config", "size", "identity", "params", "install",
            "done",         \* the end of the constructor is reached
            "noEvents", "noConfig", "tooMany",      \* it has returned early
            "thrown",       \* an exception has left it
            "exiting", "crashed"}
Returned == {"done", "noEvents", "noConfig", "tooMany"}
AcquisitionModes == {"Single", "Multiple", "Continuous"}
Statuses == {"IDLE", "RUNNING", "ERROR"}    \* that a detector may have
NotSetUp == {"unconfigured", "oversized"}

TypeOK ==
    /\ stage \in Stages
    /\ connected \in BOOLEAN /\ created \in BOOLEAN
    /\ detector \in {"NULL", "configured", "deleted"} \cup NotSetUp
    /\ known \in BOOLEAN
    /\ read \in {"nothing", "some", "all"}
    /\ adStatus \in Statuses \cup {"DISCONNECTED"}
    /\ threads \subseteq Threads /\ busy \subseteq Threads
    /\ events \subseteq Threads
    /\ exitHandler \in BOOLEAN
    /\ acquire \in {0, 1} /\ trigger \in {0, 1}
    /\ acquisitionMode \in AcquisitionModes
    /\ reached \subseteq (Threads \cup {"handler"}) \X NotSetUp

\* ADDriver's constructor has registered the port.
Init ==
    /\ stage = "events" /\ connected = TRUE /\ created = FALSE
    /\ detector = "NULL" /\ known = FALSE /\ read = "nothing"
    /\ adStatus = "IDLE"
    /\ threads = {} /\ exitHandler = FALSE
    /\ acquire = 0 /\ trigger = 0 /\ acquisitionMode \in AcquisitionModes
    /\ events = {} /\ busy = {} /\ reached = {}

-----------------------------------------------------------------------------
(***************************************************************************)
(* The constructor                                                         *)
(***************************************************************************)
CreateEvents ==
    /\ stage = "events"
    /\ \/ stage' = "config" /\ created' = TRUE
       \/ stage' = "noEvents" /\ UNCHANGED created
    /\ UNCHANGED <<connected, detector, known, read, adStatus, threads,
                   exitHandler, outside>>

\* Calls outside of a try block throw out of the constructor, and the port is
\* destroyed.
Throws ==
    /\ stage \in {"config", "identity", "install"}
    /\ stage' = "thrown"
    /\ connected' = FALSE
    /\ UNCHANGED <<detector, adStatus, setUp, outside>>

\* The client library connects and loads the configuration file.
LoadConfig ==
    /\ stage = "config"
    /\ stage' = "size" /\ detector' \in {"configured", "oversized"}
    /\ UNCHANGED <<connected, adStatus, setUp, outside>>

\* Mutant: the failure is shown, but the port stays connected.
MutLoadConfigThrows ==
    /\ stage = "config"
    /\ stage' = "noConfig"
    /\ detector' = "unconfigured"
    /\ adStatus' = IF MarksDisconnected THEN "DISCONNECTED" ELSE adStatus
    /\ UNCHANGED <<connected, setUp, outside>>

LoadConfigThrows ==
    /\ stage = "config"
    /\ stage' = "noConfig"
    /\ detector' = "unconfigured"
    /\ IF MarksDisconnected
       THEN connected' = FALSE /\ adStatus' = "DISCONNECTED"
       ELSE UNCHANGED <<connected, adStatus>>
    /\ UNCHANGED <<setUp, outside>>

\* No more modules than the port has addresses.
CheckSize ==
    /\ stage = "size"
    /\ stage' = IF detector = "oversized" THEN "tooMany" ELSE "identity"
    /\ UNCHANGED <<connected, detector, adStatus, setUp, outside>>

\* Type, receiver and size; the serial numbers only if they can be had.
ReadIdentity ==
    /\ stage = "identity"
    /\ stage' = "params" /\ known' = TRUE
    /\ acquisitionMode' = "Single"
    /\ UNCHANGED <<connected, detector, adStatus, created, read, threads,
                   exitHandler, acquire, trigger, events, busy, reached>>

\* A call that throws ends the reading, but not the constructor.  The status
\* comes half way.
ReadParameters ==
    /\ stage = "params"
    /\ stage' = "install"
    /\ read' \in {"some", "all"}
    /\ adStatus' \in Statuses
    /\ UNCHANGED <<connected, detector, created, known, threads, exitHandler,
                   outside>>

\* The callback and the exit handler are registered and the threads created;
\* a thread that is not created is only remembered in a local variable.
Install ==
    /\ stage = "install"
    /\ stage' = "done"
    /\ exitHandler' = TRUE
    /\ threads' \in SUBSET Threads
    /\ UNCHANGED <<connected, detector, adStatus, created, known, read,
                   outside>>

-----------------------------------------------------------------------------
(***************************************************************************)
(* Clients and threads                                                     *)
(***************************************************************************)
Up == stage \in Returned \cup {"exiting"}

\* asyn refuses requests to a port that is not connected.
Writable == Up /\ connected

\* A call of the detector, which is remembered if it is not set up.
Calls(who) ==
    /\ detector \notin {"NULL", "deleted"}
    /\ reached' = reached \cup ({who} \X ({detector} \cap NotSetUp))

\* A start needs no call of the detector, and only the first of the events.
WriteStart ==
    /\ Writable
    /\ acquire' = 1
    /\ events' = events \cup {"acquisitionTask"}
    /\ UNCHANGED <<stage, connected, detector, adStatus, setUp, trigger,
                   acquisitionMode, busy, reached>>

\* The status is read back; if a call throws, Acquire is restored.
WriteStop ==
    /\ Writable /\ Calls("handler")
    /\ acquire' \in {0, acquire}
    /\ adStatus' \in Statuses \cup {adStatus}
    /\ UNCHANGED <<stage, connected, detector, setUp, trigger, acquisitionMode,
                   events, busy>>

\* Mutant: triggers are counted.
MutWriteTrigger ==
    /\ Writable /\ created
    /\ trigger' = trigger + 1
    /\ events' = events \cup {"triggerSoftwareTask"}
    /\ UNCHANGED <<stage, connected, detector, adStatus, setUp, acquire,
                   acquisitionMode, busy, reached>>

\* The event is signalled whatever the value.
WriteTrigger ==
    /\ Writable /\ created
    /\ trigger' \in {0, 1}
    /\ events' = events \cup {"triggerSoftwareTask"}
    /\ UNCHANGED <<stage, connected, detector, adStatus, setUp, acquire,
                   acquisitionMode, busy, reached>>

\* The base class has the image mode, behind the gate.
WriteAcquisitionMode ==
    /\ Writable /\ acquire = 0
    /\ acquisitionMode' \in AcquisitionModes
    /\ UNCHANGED <<stage, connected, detector, adStatus, setUp, acquire,
                   trigger, events, busy, reached>>

\* The handlers that set or read what only the detector and the parameter
\* library have: those that read pass no gate.
CallFromHandler ==
    /\ Writable /\ Calls("handler")
    /\ UNCHANGED <<stage, connected, detector, adStatus, setUp, client, events,
                   busy>>

\* Without an event or a detector, or with the detector deleted, the handler or
\* the thread that uses it is undefined.
UseNothing ==
    /\ \/ Writable /\ detector \in {"NULL", "deleted"}
       \/ detector = "deleted" /\ threads \cap (events \cup busy) # {}
    /\ stage' = "crashed"
    /\ UNCHANGED <<connected, detector, adStatus, setUp, outside>>

Wakes(t) ==
    /\ Up /\ t \in threads \cap events /\ t \notin busy
    /\ Calls(t)
    /\ events' = events \ {t}
    /\ busy' = busy \cup {t}
    /\ adStatus' = IF t = "acquisitionTask" THEN "RUNNING" ELSE adStatus
    /\ UNCHANGED <<stage, connected, detector, setUp, client>>

In(t) == Up /\ t \in busy /\ detector # "deleted"

\* acquire() throws: Acquire is cleared in every mode.
RunThrows ==
    /\ In("acquisitionTask")
    /\ busy' = busy \ {"acquisitionTask"}
    /\ acquire' = 0
    /\ adStatus' = "ERROR"
    /\ UNCHANGED <<stage, connected, detector, setUp, trigger, acquisitionMode,
                   events, reached>>

\* Mutant: the end of a single acquisition does not clear Acquire either.
MutRunReturns ==
    /\ In("acquisitionTask")
    /\ busy' = busy \ {"acquisitionTask"}
    /\ adStatus' \in Statuses \cup {adStatus}
    /\ UNCHANGED <<stage, connected, detector, setUp, client, events, reached>>

\* In Continuous mode the task does not clear Acquire, and begins again as long
\* as it is 1.  The final status is read before, if it can be had.
RunReturns ==
    /\ In("acquisitionTask")
    /\ IF acquisitionMode = "Continuous" /\ acquire = 1
       THEN adStatus' = "RUNNING" /\ UNCHANGED <<acquire, busy>>
       ELSE /\ busy' = busy \ {"acquisitionTask"}
            /\ acquire' = 0
            /\ adStatus' \in Statuses \cup {adStatus}
    /\ UNCHANGED <<stage, connected, detector, setUp, trigger, acquisitionMode,
                   events, reached>>

\* The trigger is sent, or fails to be.
TriggerEnds ==
    /\ In("triggerSoftwareTask")
    /\ busy' = busy \ {"triggerSoftwareTask"}
    /\ trigger' = 0
    /\ UNCHANGED <<stage, connected, detector, adStatus, setUp, acquire,
                   acquisitionMode, events, reached>>

\* epicsExit: the exit handler deletes the detector without the driver lock.
Exit ==
    /\ stage \in Returned
    /\ stage' = "exiting"
    /\ detector' = IF exitHandler THEN "deleted" ELSE detector
    /\ UNCHANGED <<connected, adStatus, setUp, outside>>

Next ==
    \/ CreateEvents \/ Throws \/ LoadConfig \/ LoadConfigThrows \/ CheckSize
    \/ ReadIdentity \/ ReadParameters \/ Install
    \/ WriteStart \/ WriteStop \/ WriteTrigger \/ WriteAcquisitionMode
    \/ CallFromHandler \/ UseNothing
    \/ \E t \in Threads : Wakes(t)
    \/ RunThrows \/ RunReturns \/ TriggerEnds
    \/ Exit

\* Threads that exist are scheduled, and the detector's calls return or throw;
\* no call is bound to throw, and a continuous acquisition may go on for ever.
Fairness ==
    /\ \A t \in Threads : WF_vars(Wakes(t))
    /\ WF_vars(RunReturns) /\ WF_vars(TriggerEnds)

Spec == Init /\ [][Next]_vars /\ Fairness

-----------------------------------------------------------------------------
Ended == stage \in {"exiting", "crashed"}

\* The threads call only a detector whose configuration was loaded and whose
\* modules fit the port: no start or trigger written after an early return, nor
\* one left in an event, gets that far (acquisitionTask, triggerSoftwareTask).
ThreadsCallSetUp ==
    /\ \A t \in Threads, d \in NotSetUp : <<t, d>> \notin reached
    /\ busy # {} => /\ detector = "configured" \/ Ended
                    /\ known /\ read # "nothing" /\ exitHandler

\* Built against ADCore 3.10 or later, a driver that could not load its
\* configuration shows itself disconnected for ever, takes no start that it
\* could not serve, and leaves the detector alone: neither a stop nor any other
\* handler calls it.
FailedConfigIsLeftAlone ==
    MarksDisconnected =>
        /\ <<"handler", "unconfigured">> \notin reached
        /\ stage = "noConfig" =>
                adStatus = "DISCONNECTED" /\ acquire = 0 /\ trigger = 0

\* What an early return of the constructor leaves behind is as far from use as
\* the code takes care of.  It does not say that no client reaches a detector
\* that is not set up: handlers do call one that is too large for the port, and
\* before ADCore 3.10 one that could not be configured, too.
EarlyReturnIsContained == ThreadsCallSetUp /\ FailedConfigIsLeftAlone

\* A start that is accepted is taken up by the task if there is one, and in
\* Single and Multiple mode Acquire is cleared; a trigger is served and its
\* parameter cleared: however much of the parameters could be read, in spite of
\* stops and calls that throw.
ServedIfThread ==
    /\ acquire = 1 /\ "acquisitionTask" \in threads
            ~> acquire = 0 \/ "acquisitionTask" \in busy \/ Ended
    /\ acquire = 1 /\ acquisitionMode # "Continuous"
            /\ "acquisitionTask" \in threads
            ~> acquire = 0 \/ Ended
    /\ trigger = 1 /\ "triggerSoftwareTask" \in threads ~> trigger = 0 \/ Ended
=============================================================================
