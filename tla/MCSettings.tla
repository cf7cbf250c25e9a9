----------------------------- MODULE MCSettings -----------------------------
(***************************************************************************)
(* The handlers that write settings, for TLC: modules that share no       *)
(* variable, at most the detector's modules and addresses.  Handlers run   *)
(* one at a time under the driver lock, so a behaviour of the system, seen *)
(* from one module, is that module's with stuttering.  A behaviour here is *)
(* one module's, the family's, and the others rest in a fixed state:       *)
(* letting them take turns would multiply the states and reach no other    *)
(* values.  For the same reason Receiving's streams and modes, which no    *)
(* action has both of, are two families.                                   *)
(*                                                                         *)
(* Two modules of the detector and three addresses: module 0, which stands *)
(* for all, another one, and an address without a module.                  *)
(***************************************************************************)
EXTENDS ModuleParams, Threshold, GateWidth, Receiving, TLC

VARIABLE family         \* the module whose behaviour this is

Families == {"params", "threshold", "gates", "streams", "modes"}

\* These are only compared, so permuting them changes nothing.
Symmetry == Permutations(Counters) \cup Permutations(Settings)

-----------------------------------------------------------------------------
Fixed(S) == CHOOSE x \in S : TRUE

\* What a module leaves open at the start is left open for the family only.
MCInit ==
    /\ family \in Families
    /\ Init
    /\ family # "params" =>
        /\ style = "int" /\ main = 0 /\ ~known
        /\ \A m \in Modules : device[m] = Fixed(Values)
    /\ ThresholdInit
    /\ family # "threshold" =>
        /\ detectorType = "other"
        /\ \A m \in Modules :
            /\ held[m].setting = Fixed(Settings)
            /\ \A c \in Counters : held[m].counter[c] = Fixed(Thresholds)
            /\ seen[m].setting = held[m].setting
    /\ GateInit
    /\ family # "gates" =>
        \A m \in Modules, g \in Gates : width[m][g] = Fixed(Widths)
    /\ ReceivingInit
    /\ family # "streams" => useReceiver

MCNext ==
    \/ /\ family = "params" /\ Next
       /\ UNCHANGED <<family, thresholdVars, gateVars, receivingVars>>
    \/ /\ family = "threshold" /\ ThresholdNext
       /\ UNCHANGED <<family, vars, gateVars, receivingVars>>
    \/ /\ family = "gates" /\ GateNext
       /\ UNCHANGED <<family, vars, thresholdVars, receivingVars>>
    \/ /\ \/ family = "streams" /\ StreamNext
          \/ family = "modes" /\ ModeNext
       /\ UNCHANGED <<family, vars, thresholdVars, gateVars>>

MCSpec ==
    MCInit /\ [][MCNext]_<<family, vars, thresholdVars, gateVars,
                          receivingVars>>

-----------------------------------------------------------------------------
\* Every variable has its type, in the four modules.
TypesOK == TypeOK /\ ThresholdTypeOK /\ GateTypeOK /\ ReceivingTypeOK
=============================================================================
