----------------------------- MODULE Threshold ------------------------------
(***************************************************************************)
(* Threshold energies, settings and trim bits in slsDetectorDriver.  One   *)
(* branch of writeInt32 serves SDSetting, SDThreshold, the counters'       *)
(* thresholds, SDEnergy and SDTrimbits: for EIGER and MYTHEN3 a write of   *)
(* any of them makes one call that sets all of them, the others taken from *)
(* the parameters of address 0, and reads thresholds and settings of all   *)
(* modules back.  Other detectors only have settings.                      *)
(*                                                                         *)
(* An EIGER has one threshold per module, here the same in all counters.   *)
(* The driver lock is held throughout, so a handler is one step; Acquire   *)
(* is 0.  The beam energy and the trim bits are passed on and not read     *)
(* again; parameters that a type of detector has no use for are not kept.  *)
(* A parameter is Undefined until it is set, and if an exception puts back *)
(* the old value of one that never was.                                    *)
(***************************************************************************)
EXTENDS Integers, ModuleAddresses

CONSTANTS
    Counters,       \* of a module
    Thresholds,     \* in eV, that a counter may have
    Energies,       \* of the beam, that clients write
    Settings

ASSUME ThresholdsAssumption == Thresholds \subseteq Nat
ASSUME EnergiesAssumption ==
    Energies \subseteq Nat /\ \A e \in Energies : e \div 2 \in Thresholds
ASSUME CountersAssumption ==
    /\ Counters # {}
    /\ Counters \cap {"setting", "threshold", "energy", "trimbits"} = {}
ASSUME SettingsAssumption == -1 \notin Settings /\ Undefined \notin Settings

VARIABLES
    detectorType,   \* "EIGER", "MYTHEN3" or another
    held,           \* each module's thresholds and setting
    seen,           \* SDThreshold, SDCounter?Threshold and SDSetting at each
                    \* address
    touched         \* history: not all has been read since the modules may
                    \* have changed or a parameter have been set aside

thresholdVars == <<detectorType, held, seen, touched>>

-----------------------------------------------------------------------------
Registers == [counter : [Counters -> Thresholds], setting : Settings]

Parameters ==
    [threshold : Thresholds \cup {-1, Undefined},
     counter   : [Counters -> Thresholds \cup {-1, Undefined}],
     setting   : Settings \cup {-1, Undefined}]

ThresholdTypeOK ==
    /\ detectorType \in {"EIGER", "MYTHEN3", "other"}
    /\ held \in [Modules -> Registers]
    /\ seen \in [Modules -> Parameters]
    /\ touched \in BOOLEAN

\* SDThreshold after reading back: -1 if the counters differ.
Common(counter) ==
    IF \A c, d \in Counters : counter[c] = counter[d]
    THEN counter[CHOOSE c \in Counters : TRUE] ELSE -1

\* What reading back puts into the parameters p of a module.
ShowThresholds(p, registers) ==
    [p EXCEPT !.threshold = Common(registers.counter),
              !.counter = IF detectorType = "MYTHEN3" THEN registers.counter
                                                      ELSE @]

ShowSetting(p, registers) == [p EXCEPT !.setting = registers.setting]

\* The parameters that one detector's type has, and that they are true.
True(p, registers) ==
    /\ p.setting = registers.setting
    /\ detectorType # "other" => p.threshold = Common(registers.counter)
    /\ detectorType = "MYTHEN3" => p.counter = registers.counter

\* What stands for the thresholds of a detector that has none.
NoThresholds == [c \in Counters |-> CHOOSE t \in Thresholds : TRUE]

\* A module's parameters before any is read; -1 stands for those not kept.
NotRead ==
    [threshold |-> IF detectorType = "other" THEN -1 ELSE Undefined,
     counter   |-> [c \in Counters |->
                        IF detectorType = "MYTHEN3" THEN Undefined ELSE -1],
     setting   |-> Undefined]

\* The constructor reads the modules, the settings and the thresholds each
\* unless a call throws.
ThresholdInit ==
    /\ detectorType \in {"EIGER", "MYTHEN3", "other"}
    /\ held \in [Modules -> Registers]
    /\ detectorType = "EIGER" =>
            \A m \in Modules : Common(held[m].counter) # -1
    /\ detectorType = "other" =>
            \A m \in Modules : held[m].counter = NoThresholds
    /\ \E thresholds, settings \in BOOLEAN :
        LET shown(m) == IF thresholds /\ detectorType # "other"
                        THEN ShowThresholds(NotRead, held[m]) ELSE NotRead
        IN  seen = [m \in Modules |-> IF settings
                        THEN ShowSetting(shown(m), held[m]) ELSE shown(m)]
    /\ touched = ~(\A m \in Modules : True(seen[m], held[m]))

-----------------------------------------------------------------------------
(***************************************************************************)
(* A write of v to the parameter f at address a                            *)
(***************************************************************************)
Functions == {"setting", "threshold", "energy", "trimbits"} \cup Counters

Inputs(f) ==
    CASE f = "setting" -> Settings \cup {-1}
      [] f = "threshold" -> Thresholds \cup {-1}
      [] f = "energy" -> Energies
      [] f = "trimbits" -> {1}
      [] OTHER -> Thresholds \cup {-1}

\* p with its parameter f set to v.
With(p, f, v) ==
    CASE f = "setting" -> [p EXCEPT !.setting = v]
      [] f = "threshold" /\ detectorType # "other" ->
            [p EXCEPT !.threshold = v]
      [] f \in Counters /\ detectorType = "MYTHEN3" ->
            [p EXCEPT !.counter[f] = v]
      [] OTHER -> p

\* p with its parameter f as it is in old.
Restored(p, f, old) ==
    CASE f = "setting" -> [p EXCEPT !.setting = old.setting]
      [] f = "threshold" -> [p EXCEPT !.threshold = old.threshold]
      [] f \in Counters -> [p EXCEPT !.counter[f] = old.counter[f]]
      [] OTHER -> p

\* The parameters once the written one is set.
Written(f, a, v) == [seen EXCEPT ![a] = With(@, f, v)]

\* What the handler's variables for thresholds may have after getting the
\* parameters p.
Locals(p) ==
    [threshold : Got(p.threshold, Inputs("threshold")),
     counter   : {counter \in [Counters -> Thresholds \cup {-1}] :
                    \A c \in Counters :
                        counter[c] \in Got(p.counter[c], Inputs(c))}]

Half(v) == v \div 2

\* The thresholds in the call.
Asked(f, v, local) ==
    LET threshold == IF f = "energy" THEN Half(v) ELSE local.threshold
    IN  IF \/ detectorType = "EIGER"
           \/ f \in {"energy", "threshold"} /\ threshold # -1
        THEN [c \in Counters |-> threshold]
        ELSE local.counter

\* The modules' settings after a call with the parameter setting: what becomes
\* of one that they do not know, or that was never set, is left open.
SettingsAfter(setting) ==
    {settings \in [Modules -> Settings] :
        setting \in Settings => \A m \in Modules : settings[m] = setting}

\* The modules after those in took have executed the call; a threshold of -1
\* "will pick up values from detector" (Detector.h:171).
SetThresholds(took, counter, settings) ==
    [m \in Modules |->
        IF m \notin took THEN held[m]
        ELSE [counter |-> [c \in Counters |->
                IF counter[c] = -1 THEN held[m].counter[c] ELSE counter[c]],
              setting |-> settings[m]]]

\* What the modules may have when those in took have executed the call of a
\* write of v to f at address a.  Whatever the address, the call is made of the
\* parameters of address 0; these may be anything, as none is checked.
Outcomes(took, f, a, v) ==
    LET main == Written(f, a, v)[0]
    IN  {SetThresholds(took, counter, settings) :
            counter \in {Asked(f, v, local) : local \in Locals(main)},
            settings \in SettingsAfter(main.setting)}

\* Mutant: only the modules written are read back.
MutShowAll(a, p, registers) ==
    [m \in Modules |->
        IF m \in Positions(a) THEN ShowThresholds(p[m], registers[m])
                              ELSE p[m]]

ShowAll(a, p, registers) ==
    [m \in Modules |-> ShowThresholds(p[m], registers[m])]

-----------------------------------------------------------------------------
\* EIGER and MYTHEN3.  The call is made and all modules are read back.
ThresholdSet(f, a, v) ==
    /\ detectorType # "other"
    /\ held' \in Outcomes(Positions(a), f, a, v)
    /\ LET shown == ShowAll(a, Written(f, a, v), held')
       IN  seen' = [m \in Modules |-> ShowSetting(shown[m], held'[m])]
    /\ touched' = FALSE
    /\ UNCHANGED detectorType

\* It throws with some of the modules set, or thresholds cannot be read.
ThresholdFails(f, a, v) ==
    /\ detectorType # "other"
    /\ held' \in UNION {Outcomes(took, f, a, v) : took \in SUBSET Positions(a)}
    /\ touched' = (touched \/ held' # held)
    /\ UNCHANGED <<detectorType, seen>>

\* The thresholds are read, the settings cannot be: only the written parameter
\* gets its old value back.
SettingUnread(f, a, v) ==
    /\ detectorType # "other"
    /\ held' \in Outcomes(Positions(a), f, a, v)
    /\ seen' = [ShowAll(a, Written(f, a, v), held')
                    EXCEPT ![a] = Restored(@, f, seen[a])]
    /\ touched' = TRUE
    /\ UNCHANGED detectorType

\* Other detectors: the setting is set and read back.
SettingSet(a, v) ==
    LET registers == [m \in Modules |->
            IF m \in Positions(a) THEN [held[m] EXCEPT !.setting = v]
                                ELSE held[m]]
    IN  /\ detectorType = "other"
        /\ v # -1
        /\ held' = registers
        /\ seen' = [m \in Modules |-> ShowSetting(seen[m], registers[m])]
        /\ touched' = FALSE
        /\ UNCHANGED detectorType

SettingFails(a, v) ==
    /\ detectorType = "other"
    /\ v # -1
    /\ \E took \in SUBSET Positions(a) :
        held' = [m \in Modules |->
            IF m \in took THEN [held[m] EXCEPT !.setting = v] ELSE held[m]]
    /\ touched' = (touched \/ held' # held)
    /\ UNCHANGED <<detectorType, seen>>

\* All else only sets the parameter.
ParameterOnly(f, a, v) ==
    /\ detectorType = "other"
    /\ f = "setting" => v = -1
    /\ seen' = Written(f, a, v)
    /\ touched' = (touched \/ f = "setting")
    /\ UNCHANGED <<detectorType, held>>

\* One of the commands that SDCommand and SDLoadSetup hand to the library: a
\* register changes and nothing is read back.
LoadThresholds ==
    /\ \E m \in Modules :
        \/ \E s \in Settings : held' = [held EXCEPT ![m].setting = s]
        \/ \E t \in Thresholds :
            /\ detectorType # "other"
            /\ held' = [held EXCEPT ![m].counter = [c \in Counters |-> t]]
        \/ \E t \in Thresholds, c \in Counters :
            /\ detectorType = "MYTHEN3"
            /\ held' = [held EXCEPT ![m].counter[c] = t]
    /\ touched' = TRUE
    /\ UNCHANGED <<detectorType, seen>>

Write(f, a, v) ==
    \/ ThresholdSet(f, a, v) \/ ThresholdFails(f, a, v)
    \/ SettingUnread(f, a, v)
    \/ f = "setting" /\ (SettingSet(a, v) \/ SettingFails(a, v))
    \/ ParameterOnly(f, a, v)

ThresholdNext ==
    \/ \E f \in Functions, a \in Modules : \E v \in Inputs(f) : Write(f, a, v)
    \/ LoadThresholds

ThresholdSpec == ThresholdInit /\ [][ThresholdNext]_thresholdVars

-----------------------------------------------------------------------------
\* What clients see of thresholds and settings is what the modules have, in
\* every module, unless a call failed or parameters were loaded since: a
\* write of one parameter changes all of them, and all are read back.
TrueUnlessDisturbed ==
    ~touched => \A m \in Modules : True(seen[m], held[m])

\* "Threshold energy will change to be half of the beam energy" (README.rst:63)
\* in the modules written, whatever SDThreshold and the counters show.
EnergyHalvesThreshold ==
    [][\A a \in Modules, e \in Energies :
        ThresholdSet("energy", a, e) =>
            \A m \in Positions(a) :
                seen'[m].threshold = e \div 2]_thresholdVars

\* A write of one counter's threshold changes the modules of its address only;
\* but it sets all their thresholds and their setting, and to the values of
\* address 0, however the modules differ: each of these is as before or as
\* address 0 shows it, and that of the written counter, too, if the address is
\* not 0.  Values that address 0 does not have are excepted.
OthersComeFromMain ==
    [][\A c \in Counters, a \in Modules : \A v \in Inputs(c) :
        Write(c, a, v) => \A m \in Modules :
            /\ m \notin Positions(a) => held'[m] = held[m]
            /\ seen[0].setting \in Settings =>
                held'[m].setting \in {held[m].setting, seen[0].setting}
            /\ detectorType = "MYTHEN3" =>
                \A d \in Counters :
                    (d # c \/ a # 0) /\ seen[0].counter[d] # Undefined =>
                        held'[m].counter[d] \in {held[m].counter[d],
                                                seen[0].counter[d]}
      ]_thresholdVars
=============================================================================
