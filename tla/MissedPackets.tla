---------------------------- MODULE MissedPackets ---------------------------
(***************************************************************************)
(* SDRecvMissed of slsDetectorDriver, the number of packets that the       *)
(* receivers missed in a run.  The acquisition task sets it to 0 when it   *)
(* launches a run; after the run it fetches the counts of all ports of all *)
(* modules without the driver lock, adds them up in an int, and closes the *)
(* run under the lock.  Clients see a parameter when some thread posts the *)
(* changed parameters, which any thread does under the lock.               *)
(*                                                                         *)
(* The counts are 64 bits wide and negative for packets in excess; an int  *)
(* has 32.  How the task is started and stopped is in AcquisitionTask;     *)
(* here Acquire and the mode are written, and a run starts and ends, at    *)
(* any time.                                                               *)
(***************************************************************************)
EXTENDS Integers, Sequences

CONSTANTS
    NumModules, Ports,  \* numbers of modules, and of ports of each
    Counts,             \* of missing packets that a port may have
    IntLimit            \* the least number beyond an int, 2^31

ASSUME PortsAssumption == NumModules \in Nat /\ Ports \in Nat
ASSUME CountsAssumption == Counts \subseteq Int
ASSUME IntLimitAssumption == IntLimit \in Nat \ {0}

VARIABLES
    hasReceiver,    \* fixed when the driver starts
    adAcquire,        \* ADAcquire
    imageMode,
    phase,          \* of the acquisition task; the lock is held at "top" only
    missing,        \* the receivers' counts of the last run
    shown,          \* SDRecvMissed
    postedCount,    \* the value of it that clients have seen last
    total           \* history: all the packets missed in the last run, as
                    \* fetched, or 0 as long as they are not

driver == <<hasReceiver, adAcquire, imageMode>>
missedVars == <<driver, phase, missing, shown, postedCount, total>>

-----------------------------------------------------------------------------
ImageModes == {"single", "multiple", "continuous"}
Phases == {"idle", "top", "running", "fetching", "fetched", "unknown"}
Ints == -IntLimit .. IntLimit - 1

\* How many values an int has.
IntRange == 2 * IntLimit

MissedTypeOK ==
    /\ hasReceiver \in BOOLEAN
    /\ adAcquire \in {0, 1} /\ imageMode \in ImageModes
    /\ phase \in Phases
    /\ missing \in [1 .. NumModules -> [1 .. Ports -> Counts]]
    /\ shown \in Ints /\ postedCount \in Ints
    /\ total \in Int

MissedInit ==
    /\ hasReceiver \in BOOLEAN
    /\ adAcquire = 0 /\ imageMode = "single" /\ phase = "idle"
    /\ missing \in [1 .. NumModules -> [1 .. Ports -> Counts]]
    /\ shown = 0 /\ postedCount = 0 /\ total = 0

-----------------------------------------------------------------------------
\* What sls::sum has added up after each element, in 64 bits as the elements.
Sums(container) ==
    LET sum[n \in 0 .. Len(container)] ==
            IF n = 0 THEN 0 ELSE sum[n - 1] + container[n]
    IN  sum

Total(container) == Sums(container)[Len(container)]

\* What an int keeps of n.
Wrap(n) == ((n + IntLimit) % IntRange) - IntLimit

\* The sum is stored back into the int after each module.
MissedAfter(counts) ==
    LET missed[m \in 0 .. Len(counts)] ==
            IF m = 0 THEN 0 ELSE Wrap(missed[m - 1] + Total(counts[m]))
    IN  missed

Missed(counts) == MissedAfter(counts)[Len(counts)]

-----------------------------------------------------------------------------
\* SDRecvMissed is reset and posted before the detector is started.
Launch ==
    /\ phase \in {"idle", "top"}
    /\ phase' = "running"
    /\ shown' = 0 /\ postedCount' = 0
    /\ total' = 0
    /\ UNCHANGED <<driver, missing>>

AcquireEnds ==
    /\ phase = "running"
    /\ phase' = "fetching"
    /\ missing' \in [1 .. NumModules -> [1 .. Ports -> Counts]]
    /\ UNCHANGED <<driver, shown, postedCount, total>>

\* The error is posted, and with it whatever else has changed.
AcquireThrows ==
    /\ phase = "running"
    /\ phase' = "idle"
    /\ adAcquire' = 0
    /\ postedCount' = shown
    /\ UNCHANGED <<hasReceiver, imageMode, missing, shown, total>>

Fetch ==
    /\ phase = "fetching"
    /\ phase' = "fetched"
    /\ shown' = IF hasReceiver THEN Missed(missing) ELSE shown
    /\ total' = IF hasReceiver
                THEN Total([m \in 1 .. NumModules |-> Total(missing[m])])
                ELSE total
    /\ UNCHANGED <<driver, missing, postedCount>>

\* One of the calls throws; the count comes last.
FetchThrows ==
    /\ phase = "fetching"
    /\ phase' = "unknown"
    /\ UNCHANGED <<driver, missing, shown, postedCount, total>>

\* Mutant: the modes of more than one frame go on.
MutIsLast(mode) == mode = "single"

IsLast(mode) == mode \in {"single", "multiple"}

\* Acquire is 0 and everything is posted.
Finish ==
    /\ phase \in {"fetched", "unknown"} /\ IsLast(imageMode)
    /\ phase' = "idle"
    /\ adAcquire' = 0
    /\ postedCount' = shown
    /\ UNCHANGED <<hasReceiver, imageMode, missing, shown, total>>

\* In continuous mode the loop begins again with the lock held, or waits if
\* Acquire has been written 0 meanwhile; nothing is posted.
GoOn ==
    /\ phase \in {"fetched", "unknown"} /\ ~IsLast(imageMode)
    /\ phase' = IF adAcquire = 1 THEN "top" ELSE "idle"
    /\ UNCHANGED <<driver, missing, shown, postedCount, total>>

\* The image callback, the trigger task or a handler posts what has changed.
OthersPost ==
    /\ phase # "top"
    /\ postedCount' = shown
    /\ UNCHANGED <<driver, phase, missing, shown, total>>

\* A handler that starts or stops a run posts Acquire and whatever has changed.
WriteAcquire(v) ==
    /\ phase # "top"
    /\ adAcquire' = v
    /\ postedCount' = shown
    /\ UNCHANGED <<hasReceiver, imageMode, phase, missing, shown, total>>

\* The mode is accepted once Acquire is 0, even if the run has not yet ended.
WriteImageMode(mode) ==
    /\ phase # "top" /\ adAcquire = 0
    /\ imageMode' = mode
    /\ postedCount' = shown
    /\ UNCHANGED <<hasReceiver, adAcquire, phase, missing, shown, total>>

MissedNext ==
    \/ Launch \/ AcquireEnds \/ AcquireThrows \/ Fetch \/ FetchThrows
    \/ Finish \/ GoOn \/ OthersPost
    \/ \E v \in {0, 1} : WriteAcquire(v)
    \/ \E mode \in ImageModes : WriteImageMode(mode)

MissedSpec == MissedInit /\ [][MissedNext]_missedVars

-----------------------------------------------------------------------------
\* SDRecvMissed is the number of packets missed in the last run, and 0 until it
\* is known and after a run that failed, never the number of an earlier run.
\* The number is right whenever it fits an int, even if the sum of some of the
\* modules does not; otherwise it is off by a multiple of 2^32.
ShownIsTotal ==
    /\ total \in Ints => shown = total
    /\ (shown - total) % IntRange = 0

\* Between runs clients have seen the last run's number, unless the images are
\* taken continuously.
PostedWhenLast ==
    phase = "idle" /\ imageMode # "continuous" => postedCount = shown

\* What clients can know of the packets missed: the number is that of the last
\* run, or none yet, and once the task rests they have been told.
LossesAreTold == ShownIsTotal /\ PostedWhenLast
=============================================================================
