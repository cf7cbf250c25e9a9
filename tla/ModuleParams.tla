---------------------------- MODULE ModuleParams ----------------------------
(***************************************************************************)
(* One setting of a detector with several modules, as slsDetectorDriver's  *)
(* write handlers keep it: the register in each module, the parameter at   *)
(* each asyn address, and the value that clients were last told.  A        *)
(* handler sets the parameter, calls the library (which may fail with some *)
(* modules already changed), reads all modules back and posts.             *)
(*                                                                         *)
(* The handlers treat their settings in one of these styles:               *)
(*    "int"      writeInt32, writeUInt32Digital: an exception puts the old *)
(*               value back                                                *)
(*    "all"      the same for SDNumCycles, SDNumFrames and SDBitDepth,     *)
(*               which go to all modules whatever the address              *)
(*    "voltage"  the same for SDHighVoltage, read from the main module     *)
(*    "float"    writeFloat64: an exception leaves the refused value       *)
(*    "octet"    writeOctet: as "float", and the value is first put at     *)
(*               address 0 whatever the address                            *)
(*    "kept"     SDGate?Delay and the JSON modes: not read back; an        *)
(*               exception leaves the new value of a delay, not of a mode  *)
(* The driver lock is held throughout, so a handler is one step.  Acquire  *)
(* is 0: AcquisitionTask has the gate.                                     *)
(***************************************************************************)
EXTENDS Naturals, ModuleAddresses

CONSTANT Values

ASSUME ValuesAssumption == Undefined \notin Values /\ Values # {}

VARIABLES
    style, main,    \* how the setting is treated; the module with the voltage
    device,         \* the register of each module
    param,          \* the parameter at each address
    posted,         \* the value last told to clients at each address
    known,          \* history: the registers have been read at some time
    disturbed       \* history: they may have changed since they were last
                    \* read

vars == <<style, main, device, param, posted, known, disturbed>>

Restoring == style \in {"int", "all", "voltage"}

-----------------------------------------------------------------------------
Styles == {"int", "all", "voltage", "float", "octet", "kept"}

TypeOK ==
    /\ style \in Styles
    /\ main \in Modules
    /\ device \in [Modules -> Values]
    /\ param \in [Addresses -> Values \cup {Undefined}]
    /\ known => \A m \in Modules : param[m] \in Values
    /\ posted \in [Addresses -> Values \cup {Undefined}]
    /\ known \in BOOLEAN /\ disturbed \in BOOLEAN

\* Mutant: without a voltage of its own a module shows none.
MutShown(registers) ==
    IF style = "voltage"
    THEN [m \in Modules |-> IF m = main THEN registers[main] ELSE Undefined]
    ELSE registers

\* What reading back yields: the main module's voltage stands for all.
Shown(registers) ==
    IF style = "voltage" THEN [m \in Modules |-> registers[main]]
                         ELSE registers

\* The constructor may have read the modules: their voltage, settings, counter
\* mask and paths.  All else is undefined until it is written.
Init ==
    /\ style \in Styles
    /\ main \in Modules
    /\ device \in [Modules -> Values]
    /\ known \in BOOLEAN
    /\ known => style \in {"int", "voltage", "octet"}
    /\ param = [a \in Addresses |-> IF known /\ a \in Modules
                                   THEN Shown(device)[a] ELSE Undefined]
    /\ posted = param
    /\ disturbed = ~known

-----------------------------------------------------------------------------
\* Address 0 stands for all modules, any other for its own; the library
\* refuses a position it does not have.
Targets(a) == IF a = 0 \/ style = "all" THEN Modules ELSE {a} \cap Modules

\* The address whose parameter a write at address a sets first.
SetAt(a) == IF style = "octet" THEN 0 ELSE a

\* The registers after the modules in took have taken the value v.
Taken(took, v) == [m \in Modules |-> IF m \in took THEN v ELSE device[m]]

\* Mutant: only the modules written are read back.
MutReadBack(a, v, registers) ==
    [b \in Addresses |->
        IF b \in Targets(a) /\ style # "kept" THEN Shown(registers)[b]
        ELSE IF b = SetAt(a) THEN v ELSE param[b]]

\* The parameters after a write of v at a: those of all modules are read back,
\* if any are.
ReadBack(a, v, registers) ==
    [b \in Addresses |->
        IF b \in Modules /\ style # "kept" THEN Shown(registers)[b]
        ELSE IF b = SetAt(a) THEN v ELSE param[b]]

\* Mutant: an exception leaves the refused value everywhere.
MutLeft(a, v) ==
    {[param EXCEPT ![SetAt(a)] = v]}

\* The parameters that an exception leaves after a write of v at a.
Left(a, v) ==
    LET refused  == {[param EXCEPT ![SetAt(a)] = v]}
        restored == {[param EXCEPT ![a] = old] : old \in Got(param[a], Values)}
    IN  IF style = "kept" THEN refused \cup restored
        ELSE IF Restoring THEN restored ELSE refused

\* The parameters are set and callParamCallbacks is called: for all addresses
\* after a write at 0, else for its own.
SetAndPost(a, values) ==
    /\ param' = values
    /\ posted' = [b \in Addresses |-> IF a \in {0, b} THEN values[b]
                                                      ELSE posted[b]]

-----------------------------------------------------------------------------
\* The modules take the value, or one near it, and are read back.
WriteSucceeds(a, v) ==
    /\ Targets(a) # {}
    /\ \E w \in Values :
        /\ device' = Taken(Targets(a), w)
        /\ SetAndPost(a, ReadBack(a, v, Taken(Targets(a), w)))
    /\ known' = (style # "kept")
    /\ disturbed' = (style = "kept")
    /\ UNCHANGED <<style, main>>

\* A call throws: when it sets, with any of the modules changed or none, or
\* when it reads, with all of them changed.
WriteFails(a, v) ==
    /\ \E took \in SUBSET Targets(a), w \in Values : device' = Taken(took, w)
    /\ \E values \in Left(a, v) : SetAndPost(a, values)
    /\ disturbed' = (disturbed \/ ~Restoring \/ device' # device)
    /\ UNCHANGED <<style, main, known>>

\* SDLoadSetup and SDCommand: loadParameters changes any register, even if it
\* fails part way, and nothing is read back.
LoadParameters(a) ==
    /\ device' \in [Modules -> Values]
    /\ disturbed' = (disturbed \/ device' # device)
    /\ SetAndPost(a, param)
    /\ UNCHANGED <<style, main, known>>

\* A handler of another parameter ends, or a task posts address 0.
OtherPosts(a) ==
    /\ \/ SetAndPost(a, param)
       \/ a = 0 /\ param' = param /\ posted' = [posted EXCEPT ![0] = param[0]]
    /\ UNCHANGED <<style, main, device, known, disturbed>>

Next ==
    \E a \in Addresses :
        \/ \E v \in Values : WriteSucceeds(a, v) \/ WriteFails(a, v)
        \/ LoadParameters(a)
        \/ OtherPosts(a)

Spec == Init /\ [][Next]_vars

-----------------------------------------------------------------------------
\* Every module's parameter is what its register holds unless a call failed
\* or parameters were loaded since the last successful write: such a write,
\* even for one module, makes up for all of that (SetDetectorParam in the
\* write handlers runs over all modules).
AgreeUnlessDisturbed ==
    ~disturbed => \A m \in Modules : param[m] = Shown(device)[m]

\* For the styles that restore, the modules' parameters are, once they have
\* been read, always the registers of one moment, whichever calls fail and
\* however far they came.
View == INSTANCE ParameterView WITH
            register <- Shown(device),
            view <- IF Restoring /\ known THEN [m \in Modules |-> param[m]]
                                          ELSE Shown(device)
ImplementsView == View!Spec
=============================================================================
