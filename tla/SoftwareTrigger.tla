--------------------------- MODULE SoftwareTrigger --------------------------
(***************************************************************************)
(* Software triggers of slsDetectorDriver: clients write                   *)
(* SDTriggerSoftware, the port thread's handler sets the parameter and     *)
(* signals an event, and the trigger task sends a trigger to the detector  *)
(* without the driver lock and clears the parameter under it.  The record  *)
(* is a busy record: a client that has written 1 waits for the value to go *)
(* back to 0.                                                              *)
(*                                                                         *)
(* The handler is not refused while Acquire is 1: triggers are meant for a *)
(* running acquisition.  Here the acquisition is what a trigger sees of    *)
(* it, the number of triggers that the run still waits for.                *)
(***************************************************************************)
EXTENDS Integers

CONSTANTS
    Clients,
    Values,         \* what they write: any integer is accepted, 0 as well
    Cycles,         \* triggers that a run waits for
    MaxDebt         \* bound: debt is counted up to this number

ASSUME ValuesAssumption == Values \subseteq {0, 1}
ASSUME CyclesAssumption == Cycles \in Nat \ {0}
ASSUME MaxDebtAssumption == MaxDebt \in Nat \ {0, 1}

VARIABLES
    pc,             \* the trigger task
    event,          \* triggerSoftwareEventId, a binary event
    flag,           \* the parameter SDTriggerSoftware
    portPc, writer, \* the handler the port thread is in, and for whom; it
                    \* holds the driver lock unless portPc is "idle"
    left,           \* triggers that the run still waits for, 0 if none
    waiting,        \* clients that wait for the value 0
    asked,          \* clients with a trigger not yet taken up by the task
    debt            \* history: triggers signalled less sendings ended

taskVars   == <<pc, event>>
portVars   == <<portPc, writer>>
clientVars == <<waiting, asked>>
vars == <<taskVars, flag, portVars, left, clientVars, debt>>

TypeOK ==
    /\ pc \in {"wait", "sending", "clear"}
    /\ event \in BOOLEAN
    /\ flag \in {0, 1}
    /\ portPc \in {"idle", "set", "signalled", "other"}
    /\ writer \in Clients
    /\ left \in 0 .. Cycles
    /\ waiting \subseteq Clients
    /\ asked \subseteq Clients
    /\ debt \in 0 .. MaxDebt

Init ==
    /\ pc = "wait" /\ event = FALSE /\ flag = 0
    /\ portPc = "idle" /\ writer \in Clients
    /\ left = 0
    /\ waiting = {} /\ asked = {}
    /\ debt = 0

-----------------------------------------------------------------------------
(***************************************************************************)
(* The port thread: one handler at a time, with the lock held              *)
(***************************************************************************)

\* Mutant: refused, like other parameters, while a run is under way.
MutWriteBegins(c, v) ==
    /\ portPc = "idle"
    /\ left = 0
    /\ c \notin waiting
    /\ flag' = v
    /\ writer' = c
    /\ waiting' = IF v = 0 THEN {} ELSE waiting \cup {c}
    /\ portPc' = "set"
    /\ UNCHANGED <<taskVars, left, asked, debt>>

\* A client that is not waiting writes v: the parameter is set first.  Those
\* who wait are told of a 0.
WriteBegins(c, v) ==
    /\ portPc = "idle"
    /\ c \notin waiting
    /\ flag' = v
    /\ writer' = c
    /\ waiting' = IF v = 0 THEN {} ELSE waiting \cup {c}
    /\ portPc' = "set"
    /\ UNCHANGED <<taskVars, left, asked, debt>>

\* Mutant: the event is signalled only to a task that waits for it.
MutWriteSignals ==
    /\ portPc = "set"
    /\ event' = (event \/ pc = "wait")
    /\ asked' = asked \cup {writer}
    /\ debt' = IF debt < MaxDebt THEN debt + 1 ELSE debt
    /\ portPc' = "signalled"
    /\ UNCHANGED <<pc, flag, writer, left, waiting>>

WriteSignals ==
    /\ portPc = "set"
    /\ event' = TRUE
    /\ asked' = asked \cup {writer}
    /\ debt' = IF debt < MaxDebt THEN debt + 1 ELSE debt
    /\ portPc' = "signalled"
    /\ UNCHANGED <<pc, flag, writer, left, waiting>>

\* Another handler, or the image callback, takes the lock; it may be the one
\* that stops the run.
OtherBegins ==
    /\ portPc = "idle"
    /\ portPc' = "other"
    /\ left' \in {left, 0}
    /\ UNCHANGED <<taskVars, flag, writer, clientVars, debt>>

HandlerEnds ==
    /\ portPc \in {"signalled", "other"}
    /\ portPc' = "idle"
    /\ UNCHANGED <<taskVars, flag, writer, left, clientVars, debt>>

-----------------------------------------------------------------------------
(***************************************************************************)
(* The trigger task                                                        *)
(***************************************************************************)

\* Mutant: the parameter is cleared when the event is taken.
MutWake ==
    /\ pc = "wait"
    /\ event
    /\ event' = FALSE
    /\ asked' = {}
    /\ pc' = "sending"
    /\ flag' = 0
    /\ waiting' = {}
    /\ UNCHANGED <<portVars, left, debt>>

\* epicsEventWait returns: one sending for all who asked since the last one.
Wake ==
    /\ pc = "wait"
    /\ event
    /\ event' = FALSE
    /\ asked' = {}
    /\ pc' = "sending"
    /\ UNCHANGED <<flag, portVars, left, waiting, debt>>

\* Mutant: the run is not looked at.
MutSendReturns ==
    /\ pc = "sending"
    /\ left' = left - 1
    /\ debt' = debt - 1
    /\ pc' = "clear"
    /\ UNCHANGED <<event, flag, portVars, clientVars>>

\* sendSoftwareTrigger(true) returns when the frames of the trigger are out.
SendReturns ==
    /\ pc = "sending"
    /\ left > 0
    /\ left' = left - 1
    /\ debt' = debt - 1
    /\ pc' = "clear"
    /\ UNCHANGED <<event, flag, portVars, clientVars>>

\* Mutant: the exception is caught around the clearing too.
MutSendThrows ==
    /\ pc = "sending"
    /\ debt' = debt - 1
    /\ pc' = "wait"
    /\ UNCHANGED <<event, flag, portVars, left, clientVars>>

\* It throws: no run waits for a trigger, or the call fails.
SendThrows ==
    /\ pc = "sending"
    /\ debt' = debt - 1
    /\ pc' = "clear"
    /\ UNCHANGED <<event, flag, portVars, left, clientVars>>

\* Mutant: the event is reset with the parameter.
MutClearEvent ==
    /\ pc = "clear"
    /\ portPc = "idle"
    /\ flag' = 0
    /\ waiting' = {}
    /\ event' = FALSE
    /\ pc' = "wait"
    /\ UNCHANGED <<portVars, left, asked, debt>>

\* Under the lock: the parameter is cleared and all who wait are told.
Clear ==
    /\ pc = "clear"
    /\ portPc = "idle"
    /\ flag' = 0
    /\ waiting' = {}
    /\ pc' = "wait"
    /\ UNCHANGED <<event, portVars, left, asked, debt>>

\* The acquisition task starts a run that waits for software triggers.
RunBegins ==
    /\ left = 0
    /\ left' = Cycles
    /\ UNCHANGED <<taskVars, flag, portVars, clientVars, debt>>

-----------------------------------------------------------------------------
SendEnds == SendReturns \/ SendThrows
HandlerStep == WriteSignals \/ HandlerEnds

Next ==
    \/ \E c \in Clients, v \in Values : WriteBegins(c, v)
    \/ OtherBegins \/ HandlerStep
    \/ Wake \/ SendEnds \/ Clear
    \/ RunBegins

\* The threads run and get their turn at the lock, handlers return, and a
\* sending ends: frames go out or the call fails.
Fairness ==
    /\ WF_vars(HandlerStep) /\ WF_vars(Wake) /\ WF_vars(SendEnds)
    /\ SF_vars(Clear)

Spec == Init /\ [][Next]_vars /\ Fairness

\* With clients that trigger again whenever they may (asyn queues their writes
\* behind those of others, so each gets its turn) and a detector that
\* does not refuse every trigger that a run waits for.
TriggeredSpec ==
    /\ Spec
    /\ \A c \in Clients : SF_vars(\E v \in Values : WriteBegins(c, v))
    /\ SF_vars(SendReturns)

-----------------------------------------------------------------------------
\* The event stands for the triggers not yet taken up: none is forgotten while
\* another is being sent, and none is sent that nobody asked for.
EventStandsForAsked == event <=> asked # {}

\* Whenever the task waits and no handler is in progress, a parameter that is
\* set has a wake-up on its way: no client waits for a 0 that never comes.
FlagHasCause ==
    pc = "wait" /\ portPc = "idle" /\ flag = 1 => event

\* One client that writes 1 and waits for 0 before it writes again.
OneClient == (\A a, b \in Clients : a = b) /\ 0 \notin Values

\* For such a client every trigger is one sending, ended before the client is
\* told: the flag's 0 means "sent".  (With two clients, or one that does not
\* wait, the binary event merges triggers and the end of one sending reports
\* the next one done.)
SentOnce ==
    OneClient =>
        /\ debt = (IF event THEN 1 ELSE 0) + (IF pc = "sending" THEN 1 ELSE 0)
        /\ waiting = {} => debt = 0

\* Every trigger is followed by the beginning of a sending.
TriggerServed == \A c \in Clients : c \in asked ~> c \notin asked

\* The parameter goes back to 0, whatever other triggers arrive.
BusyEnds == flag = 1 ~> flag = 0

\* For TriggeredSpec.  A run that waits for triggers gets them: its clients are
\* not refused while Acquire is 1, and are told of each one's end.
RunIsTriggered == left > 0 ~> left = 0
=============================================================================
