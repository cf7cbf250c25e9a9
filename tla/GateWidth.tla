------------------------------ MODULE GateWidth -----------------------------
(***************************************************************************)
(* Exposure time and gate widths of a MYTHEN3 in slsDetectorDriver.  Each  *)
(* module has gates with a width of their own; ADAcquireTime sets all of   *)
(* them, SDGate?Width one.  Both are read back into ADAcquireTime, -1 when *)
(* the gates differ; only the first is read back into the widths too.      *)
(*                                                                         *)
(* Clients give seconds as a floating point number, the library counts     *)
(* nanoseconds.  Seconds are integers here, in half nanoseconds: cutting   *)
(* off the fraction loses up to one of them, and the number nearest to     *)
(* some counts of nanoseconds lies just below them.                        *)
(*                                                                         *)
(* The driver lock is held throughout, so a handler is one step; Acquire   *)
(* is 0.                                                                   *)
(***************************************************************************)
EXTENDS Integers, ModuleAddresses

CONSTANTS
    Gates,          \* of a module
    Times,          \* that clients write, in half nanoseconds
    Below,          \* nanoseconds whose nearest floating point second is less
    NoTime          \* a parameter never set

ASSUME GatesAssumption == Gates # {}
ASSUME TimesAssumption == Times \subseteq Nat /\ Below \subseteq Nat \ {0}
ASSUME NoTimeAssumption == NoTime \notin Int

secToNsec(seconds) == seconds \div 2

nsecToSec(ns) == IF ns \in Below THEN 2 * ns - 1 ELSE 2 * ns

VARIABLES
    width,          \* of each module's gates, in ns
    acquireTime,    \* ADAcquireTime at each address
    gateWidth,      \* SDGate?Width at each address
    unread,         \* history: acquireTime may differ from the modules
    behind          \* history: the gates whose parameter was not set to what
                    \* the module has

gateVars == <<width, acquireTime, gateWidth, unread, behind>>

Widths  == {secToNsec(t) : t \in Times}
Seconds == Times \cup {nsecToSec(ns) : ns \in Widths}
AllGates == Modules \X Gates

GateTypeOK ==
    /\ width \in [Modules -> [Gates -> Widths]]
    /\ acquireTime \in [Modules -> Seconds \cup {-1, NoTime}]
    /\ gateWidth \in [Modules -> [Gates -> Seconds \cup {NoTime}]]
    /\ unread \in BOOLEAN
    /\ behind \subseteq AllGates

\* The constructor reads no times.
GateInit ==
    /\ width \in [Modules -> [Gates -> Widths]]
    /\ acquireTime = [m \in Modules |-> NoTime]
    /\ gateWidth = [m \in Modules |-> [g \in Gates |-> NoTime]]
    /\ unread = TRUE
    /\ behind = AllGates

-----------------------------------------------------------------------------
\* The widths after the modules in took have set the gates in gs to ns.
SetGates(took, gs, ns) ==
    [m \in Modules |-> [g \in Gates |->
        IF m \in took /\ g \in gs THEN ns ELSE width[m][g]]]

\* ADAcquireTime for a module with these widths.
CommonTime(widths) ==
    IF \A g, h \in Gates : widths[g] = widths[h]
    THEN nsecToSec(widths[CHOOSE g \in Gates : TRUE])
    ELSE -1

ReadAcquireTime(widths) == [m \in Modules |-> CommonTime(widths[m])]

\* Mutant: only the modules written are read back.
MutReadGates(a, widths) ==
    [m \in Modules |-> [g \in Gates |->
        IF m \in Positions(a) THEN nsecToSec(widths[m][g])
                              ELSE gateWidth[m][g]]]

ReadGates(a, widths) ==
    [m \in Modules |-> [g \in Gates |-> nsecToSec(widths[m][g])]]

-----------------------------------------------------------------------------
\* ADAcquireTime: all gates of the modules are set, all modules read back.
WriteAcquireTime(a, t) ==
    LET widths == SetGates(Positions(a), Gates, secToNsec(t))
    IN  /\ width' = widths
        /\ acquireTime' = ReadAcquireTime(widths)
        /\ gateWidth' = ReadGates(a, widths)
        /\ unread' = FALSE
        /\ behind' = {}

\* It throws with some of the modules set; the refused time stays.
AcquireTimeFails(a, t) ==
    /\ \E took \in SUBSET Positions(a) :
            width' = SetGates(took, Gates, secToNsec(t))
    /\ acquireTime' = [acquireTime EXCEPT ![a] = t]
    /\ unread' = TRUE
    /\ behind' = behind \cup (Positions(a) \X Gates)
    /\ UNCHANGED gateWidth

\* SDGate?Width: one gate of the modules is set; the exposure times of all
\* modules are read back, the widths keep what was asked for.
WriteGateWidth(a, g, t) ==
    LET widths == SetGates(Positions(a), {g}, secToNsec(t))
    IN  /\ width' = widths
        /\ acquireTime' = ReadAcquireTime(widths)
        /\ gateWidth' = [gateWidth EXCEPT ![a][g] = t]
        /\ unread' = FALSE
        /\ behind' = (behind \cup (Positions(a) \X {g})) \ {<<a, g>>}

GateWidthFails(a, g, t) ==
    /\ \E took \in SUBSET Positions(a) :
            width' = SetGates(took, {g}, secToNsec(t))
    /\ gateWidth' = [gateWidth EXCEPT ![a][g] = t]
    /\ unread' = TRUE
    /\ behind' = behind \cup (Positions(a) \X {g})
    /\ UNCHANGED acquireTime

\* A command that SDCommand or SDLoadSetup hand to the library.
LoadWidths ==
    /\ \E m \in Modules, g \in Gates, ns \in Widths :
        /\ width' = SetGates({m}, {g}, ns)
        /\ behind' = behind \cup {<<m, g>>}
    /\ unread' = TRUE
    /\ UNCHANGED <<acquireTime, gateWidth>>

GateNext ==
    \/ \E a \in Modules, t \in Times :
        \/ WriteAcquireTime(a, t) \/ AcquireTimeFails(a, t)
        \/ \E g \in Gates : WriteGateWidth(a, g, t) \/ GateWidthFails(a, g, t)
    \/ LoadWidths

GateSpec == GateInit /\ [][GateNext]_gateVars

-----------------------------------------------------------------------------
\* ADAcquireTime tells of every module whether its gates agree and what they
\* agree on, after any successful write of a time to any module, although
\* gates change one by one (slsDetectorDriver.cpp:846).
AcquireTimeTellsGates ==
    ~unread =>
        \A m \in Modules :
            IF acquireTime[m] = -1
            THEN \E g, h \in Gates : width[m][g] # width[m][h]
            ELSE \A g \in Gates : acquireTime[m] = nsecToSec(width[m][g])

\* A number of seconds stands for ns if it was written for it or read from it.
StandsFor(seconds, ns) ==
    seconds # NoTime /\ (seconds = nsecToSec(ns) \/ secToNsec(seconds) = ns)

\* The width shown of a gate is the module's, except for gates set through
\* address 0 or by a command, or refused, since the last write of
\* ADAcquireTime; a write of the gate at its own address makes up for it.
GatesTrueUnlessBehind ==
    \A m \in Modules, g \in Gates :
        <<m, g>> \notin behind => StandsFor(gateWidth[m][g], width[m][g])

\* However writes of exposure times and of single gates, to one module or to
\* all, follow each other, what is shown of both is true but for what failed or
\* was left behind.
TimesAreTrue == AcquireTimeTellsGates /\ GatesTrueUnlessBehind
=============================================================================
