--------------------------- MODULE ModuleAddresses --------------------------
(***************************************************************************)
(* Modules and asyn addresses as slsDetectorDriver's handlers see them.    *)
(***************************************************************************)
EXTENDS Integers

CONSTANTS
    N,              \* modules of the detector
    NumAddr,        \* asyn addresses, numModules of the constructor
    Undefined       \* a parameter never set

ASSUME ModulesAssumption == N \in Nat \ {0}
ASSUME SizesAssumption == NumAddr \in Nat /\ N <= NumAddr
ASSUME UndefinedAssumption == Undefined \notin Int

Modules   == 0 .. N - 1
Addresses == 0 .. NumAddr - 1

\* The modules a handler's positions stand for: address m is module m, and 0
\* is all of them.
Positions(a) == IF a = 0 THEN Modules ELSE {a}

\* What a handler's variable may have after getting the parameter value: if
\* that was never set, the variable is as before, which is not initialised.
Got(value, garbage) == IF value = Undefined THEN garbage ELSE {value}
=============================================================================
