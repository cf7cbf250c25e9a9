---------------------------- MODULE ParameterView ---------------------------
(***************************************************************************)
(* What the parameters of one setting promise about the modules' registers *)
(* whatever fails: they show the registers as they were, all at one        *)
(* moment.  They may be out of date; they are never a mixture of moments,  *)
(* nor a value that was only asked for.                                    *)
(***************************************************************************)
CONSTANTS Modules, Values

VARIABLES
    register,       \* what each module holds
    view            \* what is shown of it

Registers == [Modules -> Values]

Init == register \in Registers /\ view = register

\* The registers change unseen.
Drift == register' \in Registers /\ UNCHANGED view

\* All of them are read.
Refresh == register' \in Registers /\ view' = register'

Spec == Init /\ [][Drift \/ Refresh]_<<register, view>>
=============================================================================
