---------------------------- MODULE SettingsProofs --------------------------
(***************************************************************************)
(* The promises of the handlers that write settings, for any numbers of    *)
(* modules, addresses, counters, gates and values: first those of each of  *)
(* the four modules under its own specification, then those of the four    *)
(* composed.                                                               *)
(***************************************************************************)
EXTENDS MCSettings, TLAPS

LEMMA ZeroIsModule == 0 \in Modules
BY ModulesAssumption DEF Modules

-----------------------------------------------------------------------------
(***************************************************************************)
(* ModuleParams.  Types and agreement are one inductive invariant: a write *)
(* can only leave the old value behind once there is one.  What is not     *)
(* read back never becomes known.                                          *)
(***************************************************************************)
KeptInv == style = "kept" => ~known /\ disturbed

KnownInv == ~disturbed => known

ParamsIInv == TypeOK /\ AgreeUnlessDisturbed /\ KeptInv /\ KnownInv

\* Every module has an address, and address 0 is that of a module.
LEMMA ModulesAreAddresses == Modules \subseteq Addresses /\ 0 \in Modules
BY SizesAssumption, ModulesAssumption DEF Modules, Addresses

\* Reading back yields values, whatever the style.
LEMMA ShownType ==
    ASSUME main \in Modules, NEW registers \in [Modules -> Values]
    PROVE  Shown(registers) \in [Modules -> Values]
BY DEF Shown

\* What some modules have taken over is again one value for each module.
LEMMA TakenType ==
    ASSUME TypeOK, NEW took, NEW v \in Values
    PROVE  Taken(took, v) \in [Modules -> Values]
BY DEF TypeOK, Taken

\* After reading back, the parameters are values and the modules' ones are
\* what the registers show.
LEMMA ReadBackType ==
    ASSUME TypeOK, NEW a \in Addresses, NEW v \in Values,
           NEW registers \in [Modules -> Values]
    PROVE  /\ ReadBack(a, v, registers) \in [Addresses -> Values \cup {Undefined}]
           /\ style # "kept" =>
                \A m \in Modules :
                    /\ ReadBack(a, v, registers)[m] = Shown(registers)[m]
                    /\ ReadBack(a, v, registers)[m] \in Values
BY ShownType, ModulesAreAddresses DEF TypeOK, ReadBack

\* A call that throws leaves values too, and for a style that restores it
\* leaves the modules' parameters as they were.
LEMMA LeftType ==
    ASSUME TypeOK, NEW a \in Addresses, NEW v \in Values,
           NEW values \in Left(a, v)
    PROVE  /\ values \in [Addresses -> Values \cup {Undefined}]
           /\ known => \A m \in Modules : values[m] \in Values
           /\ known /\ Restoring => \A m \in Modules : values[m] = param[m]
<1>1. SetAt(a) \in Addresses
    BY ModulesAreAddresses DEF SetAt
<1> DEFINE restored == {[param EXCEPT ![a] = old] : old \in Got(param[a], Values)}
<1>2. ASSUME values \in restored
      PROVE  /\ values \in [Addresses -> Values \cup {Undefined}]
             /\ known => \A m \in Modules : values[m] \in Values
             /\ known => \A m \in Modules : values[m] = param[m]
    <2>1. PICK old \in Got(param[a], Values) : values = [param EXCEPT ![a] = old]
        BY <1>2
    <2>2. CASE param[a] = Undefined
        <3>1. old \in Values /\ (known => a \notin Modules)
            BY <2>1, <2>2, ValuesAssumption DEF TypeOK, Got
        <3> QED
            BY <2>1, <3>1, ModulesAreAddresses DEF TypeOK
    <2>3. CASE param[a] # Undefined
        <3>1. values = param
            BY <2>1, <2>3 DEF Got, TypeOK
        <3> QED
            BY <3>1, ModulesAreAddresses DEF TypeOK
    <2> QED
        BY <2>2, <2>3
<1>3. ASSUME values = [param EXCEPT ![SetAt(a)] = v]
      PROVE  /\ values \in [Addresses -> Values \cup {Undefined}]
             /\ known => \A m \in Modules : values[m] \in Values
    BY <1>1, <1>3, ModulesAreAddresses DEF TypeOK
<1>4. /\ values \in restored \/ values = [param EXCEPT ![SetAt(a)] = v]
      /\ Restoring => values \in restored
    BY DEF Left, Restoring
<1> HIDE DEF restored
<1> QED
    BY <1>2, <1>3, <1>4

\* Setting and posting keeps the types of both.
LEMMA PostType ==
    ASSUME TypeOK, NEW a \in Addresses,
           NEW values \in [Addresses -> Values \cup {Undefined}],
           SetAndPost(a, values)
    PROVE  /\ param' = values
           /\ posted' \in [Addresses -> Values \cup {Undefined}]
BY DEF TypeOK, SetAndPost

\* The invariant at the start, and under each of the six ways of handling.
LEMMA ParamsInitInv == Init => ParamsIInv
<1> SUFFICES ASSUME Init PROVE ParamsIInv
    OBVIOUS
<1>1. Shown(device) \in [Modules -> Values]
    BY ShownType DEF Init
<1>2. TypeOK
    BY <1>1, ModulesAreAddresses, Zenon DEF Init, TypeOK
<1> QED
    BY <1>1, <1>2, ModulesAreAddresses
       DEF Init, ParamsIInv, KeptInv, KnownInv, AgreeUnlessDisturbed

LEMMA ParamsInvStep == ParamsIInv /\ [Next]_vars => ParamsIInv'
<1> SUFFICES ASSUME ParamsIInv, [Next]_vars PROVE ParamsIInv'
    OBVIOUS
<1>t. TypeOK
    BY DEF ParamsIInv
<1>1. ASSUME NEW a \in Addresses, NEW v \in Values, WriteSucceeds(a, v)
      PROVE  ParamsIInv'
    <2>1. PICK w \in Values :
            /\ device' = Taken(Targets(a), w)
            /\ SetAndPost(a, ReadBack(a, v, Taken(Targets(a), w)))
        BY <1>1 DEF WriteSucceeds
    <2>2. device' \in [Modules -> Values]
        BY <1>t, <2>1, TakenType
    <2>3. /\ param' = ReadBack(a, v, device')
          /\ posted' \in [Addresses -> Values \cup {Undefined}]
        BY <1>t, <2>1, <2>2, ReadBackType, PostType
    <2>4. /\ UNCHANGED <<style, main>>
          /\ known' = (style # "kept") /\ disturbed' = (style = "kept")
        BY <1>1 DEF WriteSucceeds
    <2>5. Shown(device)' = Shown(device')
        BY <2>4 DEF Shown
    <2>6. /\ param' \in [Addresses -> Values \cup {Undefined}]
          /\ style # "kept" =>
                \A m \in Modules : /\ param'[m] = Shown(device')[m]
                                   /\ param'[m] \in Values
        BY <1>t, <2>2, <2>3, ReadBackType
    <2>7. TypeOK'
        BY <1>t, <2>2, <2>3, <2>4, <2>6 DEF TypeOK
    <2> QED
        BY <2>4, <2>5, <2>6, <2>7 DEF ParamsIInv, KeptInv, KnownInv, AgreeUnlessDisturbed
<1>2. ASSUME NEW a \in Addresses, NEW v \in Values, WriteFails(a, v)
      PROVE  ParamsIInv'
    <2>1. PICK values \in Left(a, v) : SetAndPost(a, values)
        BY <1>2 DEF WriteFails
    <2>2. device' \in [Modules -> Values]
        BY <1>t, <1>2, TakenType DEF WriteFails
    <2>3. /\ param' = values
          /\ posted' \in [Addresses -> Values \cup {Undefined}]
        BY <1>t, <2>1, LeftType, PostType
    <2>4. /\ UNCHANGED <<style, main, known>>
          /\ disturbed' = (disturbed \/ ~Restoring \/ device' # device)
        BY <1>2 DEF WriteFails
    <2>5. TypeOK'
        BY <1>t, <2>2, <2>3, <2>4, LeftType DEF TypeOK
    <2>6. AgreeUnlessDisturbed'
        <3> SUFFICES ASSUME ~disturbed', NEW m \in Modules
                     PROVE  param'[m] = Shown(device)'[m]
            BY DEF AgreeUnlessDisturbed
        <3>1. ~disturbed /\ Restoring /\ device' = device
            BY <2>4
        <3>2. Shown(device)' = Shown(device)
            BY <2>4, <3>1 DEF Shown
        <3>3. known
            BY <3>1 DEF ParamsIInv, KnownInv
        <3> QED
            BY <1>t, <2>3, <3>1, <3>2, <3>3, LeftType
               DEF ParamsIInv, AgreeUnlessDisturbed
    <2> QED
        BY <2>4, <2>5, <2>6 DEF ParamsIInv, KeptInv, KnownInv
<1>3. ASSUME NEW a \in Addresses, LoadParameters(a) PROVE ParamsIInv'
    <2>1. /\ device' \in [Modules -> Values]
          /\ disturbed' = (disturbed \/ device' # device)
          /\ SetAndPost(a, param)
          /\ UNCHANGED <<style, main, known>>
        BY <1>3 DEF LoadParameters
    <2>2. /\ param' = param
          /\ posted' \in [Addresses -> Values \cup {Undefined}]
        BY <1>t, <2>1, PostType DEF TypeOK
    <2>3. ~disturbed' => ~disturbed /\ Shown(device)' = Shown(device)
        BY <2>1 DEF Shown
    <2> QED
        BY <1>t, <2>1, <2>2, <2>3
           DEF ParamsIInv, KeptInv, KnownInv, TypeOK, AgreeUnlessDisturbed
<1>4. ASSUME NEW a \in Addresses, OtherPosts(a) PROVE ParamsIInv'
    <2>1. /\ param' = param
          /\ posted' \in [Addresses -> Values \cup {Undefined}]
          /\ UNCHANGED <<style, main, device, known, disturbed>>
        BY <1>t, <1>4, PostType, ModulesAreAddresses DEF OtherPosts, TypeOK
    <2>2. Shown(device)' = Shown(device)
        BY <2>1 DEF Shown
    <2> QED
        BY <1>t, <2>1, <2>2
           DEF ParamsIInv, KeptInv, KnownInv, TypeOK, AgreeUnlessDisturbed
<1>5. CASE UNCHANGED vars
    BY <1>5 DEF vars, ParamsIInv, KeptInv, KnownInv, TypeOK, AgreeUnlessDisturbed, Shown
<1> QED
    BY <1>1, <1>2, <1>3, <1>4, <1>5 DEF Next

\* ParamsIInv holds throughout.
THEOREM ParamsInvariance == Spec => []ParamsIInv
BY ParamsInitInv, ParamsInvStep, PTL DEF Spec

\* The parameters of modules are always values: undefined ones and what an
\* exception makes of them stay at the addresses beyond the detector.
THEOREM ParamsTypes == Spec => []TypeOK
<1>1. ParamsIInv => TypeOK
    BY DEF ParamsIInv
<1> QED
    BY <1>1, ParamsInvariance, PTL

\* For any number of modules, a successful write heals whatever failed writes
\* and loaded parameters left behind.
THEOREM Agreement == Spec => []AgreeUnlessDisturbed
<1>1. ParamsIInv => AgreeUnlessDisturbed
    BY DEF ParamsIInv
<1> QED
    BY <1>1, ParamsInvariance, PTL

-----------------------------------------------------------------------------
\* What clients are shown at first is what the view begins with.
LEMMA ViewInit == Init => View!Init
<1> SUFFICES ASSUME Init PROVE View!Init
    OBVIOUS
<1>1. Shown(device) \in [Modules -> Values]
    BY ShownType DEF Init
<1>2. known => [m \in Modules |-> param[m]] = Shown(device)
    BY <1>1, ModulesAreAddresses DEF Init
<1> QED
    BY <1>1, <1>2 DEF View!Init, View!Registers

\* Every step shows the registers it leaves, or shows what was shown.
LEMMA ViewStep ==
    ASSUME ParamsIInv, ParamsIInv', [Next]_vars
    PROVE  View!Drift \/ View!Refresh
<1> DEFINE shown == [m \in Modules |-> param[m]]
<1>t. TypeOK /\ TypeOK'
    BY DEF ParamsIInv
<1>1. Shown(device)' \in [Modules -> Values]
    BY <1>t, ShownType DEF TypeOK, Shown
<1>2. /\ style' = style /\ main' = main
      /\ known => known'
    <2>1. known => style # "kept"
        BY DEF ParamsIInv, KeptInv
    <2>2. ASSUME NEW a \in Addresses, NEW v \in Values, WriteSucceeds(a, v)
          PROVE  style' = style /\ main' = main /\ (known => known')
        BY <2>1, <2>2 DEF WriteSucceeds
    <2>3. ASSUME NEW a \in Addresses, NEW v \in Values, WriteFails(a, v)
          PROVE  style' = style /\ main' = main /\ (known => known')
        BY <2>3 DEF WriteFails
    <2>4. ASSUME NEW a \in Addresses, LoadParameters(a) \/ OtherPosts(a)
          PROVE  style' = style /\ main' = main /\ (known => known')
        BY <2>4 DEF LoadParameters, OtherPosts
    <2>5. CASE UNCHANGED vars
        BY <2>5 DEF vars
    <2> QED
        BY <2>2, <2>3, <2>4, <2>5 DEF Next
<1>3. CASE ~(Restoring /\ known')
    <2>1. ~(Restoring /\ known) /\ ~(Restoring' /\ known')
        BY <1>2, <1>3 DEF Restoring
    <2> QED
        BY <1>1, <2>1 DEF View!Refresh, View!Registers
<1>4. CASE Restoring /\ known'
    <2>0. Restoring'
        BY <1>2, <1>4 DEF Restoring
    <2>1. SUFFICES \/ known /\ shown' = shown
                   \/ shown' = Shown(device)'
        BY <1>1, <1>4, <2>0, <2>1
           DEF View!Drift, View!Refresh, View!Registers
    <2>2. ASSUME NEW a \in Addresses, NEW v \in Values, WriteSucceeds(a, v)
          PROVE  shown' = Shown(device)'
        <3>1. PICK w \in Values :
                /\ device' = Taken(Targets(a), w)
                /\ SetAndPost(a, ReadBack(a, v, Taken(Targets(a), w)))
            BY <2>2 DEF WriteSucceeds
        <3>2. param' = ReadBack(a, v, device') /\ device' \in [Modules -> Values]
            BY <1>t, <3>1, TakenType DEF SetAndPost
        <3>3. \A m \in Modules : param'[m] = Shown(device')[m]
            BY <1>t, <1>4, <3>2, ReadBackType DEF Restoring
        <3>4. Shown(device)' = Shown(device')
            BY <1>2 DEF Shown
        <3> QED
            BY <1>1, <3>3, <3>4
    <2>3. ASSUME NEW a \in Addresses, NEW v \in Values, WriteFails(a, v)
          PROVE  known /\ shown' = shown
        <3>1. PICK values \in Left(a, v) : SetAndPost(a, values)
            BY <2>3 DEF WriteFails
        <3>2. known
            BY <1>4, <2>3 DEF WriteFails
        <3>3. \A m \in Modules : values[m] = param[m]
            BY <1>t, <1>4, <3>1, <3>2, LeftType
        <3> QED
            BY <3>1, <3>2, <3>3 DEF SetAndPost
    <2>4. ASSUME NEW a \in Addresses, LoadParameters(a) \/ OtherPosts(a)
          PROVE  known /\ shown' = shown
        BY <1>4, <2>4 DEF LoadParameters, OtherPosts, SetAndPost
    <2>5. CASE UNCHANGED vars
        BY <1>4, <2>5 DEF vars
    <2> QED
        BY <2>2, <2>3, <2>4, <2>5 DEF Next
<1> QED
    BY <1>3, <1>4

\* For any number of modules the parameters of a restoring style show the
\* registers of one moment, and only those.
THEOREM ViewIsImplemented == Spec => ImplementsView
<1>1. ParamsIInv /\ ParamsIInv' /\ [Next]_vars => View!Drift \/ View!Refresh
    BY ViewStep
<1> QED
    BY <1>1, ViewInit, ParamsInvariance, PTL DEF Spec, ImplementsView, View!Spec

-----------------------------------------------------------------------------
(***************************************************************************)
(* Threshold.  Types and truth are one inductive invariant; where a call's *)
(* values come from follows from its types at every step.                  *)
(***************************************************************************)
ThresholdIInv == ThresholdTypeOK /\ TrueUnlessDisturbed

\* The types of what the operators give.
LEMMA CommonThresholdType ==
    ASSUME NEW counter \in [Counters -> Thresholds]
    PROVE  Common(counter) \in Thresholds \cup {-1}
<1>1. \E c \in Counters : TRUE
    BY CountersAssumption
<1>2. (CHOOSE c \in Counters : TRUE) \in Counters
    BY <1>1
<1> QED
    BY <1>2 DEF Common

LEMMA ShowType ==
    ASSUME NEW p \in Parameters, NEW registers \in Registers
    PROVE  /\ ShowThresholds(p, registers) \in Parameters
           /\ ShowSetting(p, registers) \in Parameters
<1>1. Common(registers.counter) \in Thresholds \cup {-1}
    BY CommonThresholdType DEF Registers
<1> QED
    BY <1>1 DEF ShowThresholds, ShowSetting, Parameters, Registers

\* Reading both back makes a module's parameters true.
LEMMA ShowIsTrue ==
    ASSUME NEW p \in Parameters, NEW registers \in Registers,
           detectorType # "other"
    PROVE  True(ShowSetting(ShowThresholds(p, registers), registers), registers)
BY DEF True, ShowSetting, ShowThresholds, Parameters

\* The parameter names are not counters.
LEMMA Names ==
    /\ "setting" \notin Counters /\ "threshold" \notin Counters
    /\ "energy" \notin Counters /\ "trimbits" \notin Counters
BY CountersAssumption

LEMMA FieldType ==
    ASSUME NEW p \in Parameters
    PROVE  /\ \A s \in Settings \cup {-1} : [p EXCEPT !.setting = s] \in Parameters
           /\ \A t \in Thresholds \cup {-1} :
                [p EXCEPT !.threshold = t] \in Parameters
BY DEF Parameters

\* The parameters with the value written among them.
LEMMA WithType ==
    ASSUME NEW p \in Parameters, NEW f \in Functions, NEW v \in Inputs(f)
    PROVE  With(p, f, v) \in Parameters
<1>1. CASE f = "setting"
    <2>1. v \in Settings \cup {-1}
        BY <1>1 DEF Inputs
    <2>2. With(p, f, v) = [p EXCEPT !.setting = v]
        BY <1>1, Names DEF With
    <2> QED
        BY <2>1, <2>2, FieldType
<1>2. CASE f = "threshold"
    <2>1. v \in Thresholds \cup {-1}
        BY <1>2 DEF Inputs
    <2>2. With(p, f, v) \in {p, [p EXCEPT !.threshold = v]}
        BY <1>2, Names DEF With
    <2> QED
        BY <2>1, <2>2, FieldType
<1>3. CASE f \in Counters
    <2>1. v \in Thresholds \cup {-1}
        BY <1>3, Names DEF Inputs
    <2>2. With(p, f, v) \in {p, [p EXCEPT !.counter[f] = v]}
        BY <1>3, Names DEF With
    <2>3. [p EXCEPT !.counter[f] = v] \in Parameters
        BY <2>1 DEF Parameters
    <2> QED
        BY <2>2, <2>3
<1>4. CASE f \in {"energy", "trimbits"}
    BY <1>4, Names DEF With
<1> QED
    BY <1>1, <1>2, <1>3, <1>4 DEF Functions

\* What a parameter is put back to, and what a write leaves, have its type.
LEMMA RestoredParameterType ==
    ASSUME NEW p \in Parameters, NEW old \in Parameters, NEW f \in Functions
    PROVE  Restored(p, f, old) \in Parameters
<1>1. CASE f = "setting"
    BY <1>1 DEF Restored, Parameters
<1>2. CASE f = "threshold"
    BY <1>2 DEF Restored, Parameters
<1>3. CASE f \in Counters
    <2>1. Restored(p, f, old) = [p EXCEPT !.counter[f] = old.counter[f]]
        BY <1>3, Names DEF Restored
    <2> QED
        BY <1>3, <2>1 DEF Parameters
<1>4. CASE f \in {"energy", "trimbits"}
    BY <1>4, Names DEF Restored
<1> QED
    BY <1>1, <1>2, <1>3, <1>4 DEF Functions

LEMMA WrittenType ==
    ASSUME ThresholdTypeOK, NEW f \in Functions, NEW a \in Modules, NEW v \in Inputs(f)
    PROVE  Written(f, a, v) \in [Modules -> Parameters]
BY WithType DEF ThresholdTypeOK, Written

\* What the handler's variables may have: the parameter's value, if it has one.
LEMMA LocalsType ==
    ASSUME NEW p \in Parameters, NEW local \in Locals(p)
    PROVE  /\ local.threshold \in Thresholds \cup {-1}
           /\ local.counter \in [Counters -> Thresholds \cup {-1}]
           /\ \A c \in Counters :
                p.counter[c] # Undefined => local.counter[c] = p.counter[c]
<1>1. local.threshold \in Got(p.threshold, Thresholds \cup {-1})
    BY DEF Locals, Inputs
<1>2. /\ local.counter \in [Counters -> Thresholds \cup {-1}]
      /\ \A c \in Counters : local.counter[c] \in Got(p.counter[c], Inputs(c))
    BY DEF Locals
<1>3. local.threshold \in Thresholds \cup {-1}
    BY <1>1 DEF Got, Parameters
<1> QED
    BY <1>2, <1>3 DEF Got

\* A call carries thresholds, or -1 for what it leaves as it is.
LEMMA AskedType ==
    ASSUME NEW p \in Parameters, NEW local \in Locals(p),
           NEW f \in Functions, NEW v \in Inputs(f)
    PROVE  Asked(f, v, local) \in [Counters -> Thresholds \cup {-1}]
<1>1. f = "energy" => Half(v) \in Thresholds
    BY EnergiesAssumption DEF Inputs, Half
<1> QED
    BY <1>1, LocalsType DEF Asked

LEMMA SetThresholdsType ==
    ASSUME ThresholdTypeOK, NEW took,
           NEW counter \in [Counters -> Thresholds \cup {-1}],
           NEW settings \in [Modules -> Settings]
    PROVE  SetThresholds(took, counter, settings) \in [Modules -> Registers]
<1>1. ASSUME NEW m \in Modules
      PROVE  SetThresholds(took, counter, settings)[m] \in Registers
    <2>1. held[m] \in Registers
        BY DEF ThresholdTypeOK
    <2> QED
        BY <2>1 DEF SetThresholds, Registers
<1> QED
    BY <1>1 DEF SetThresholds

\* What a call leaves in the modules is well typed, whatever was undefined.
LEMMA CallType ==
    ASSUME ThresholdTypeOK, NEW f \in Functions, NEW a \in Modules, NEW v \in Inputs(f),
           NEW took, NEW registers \in Outcomes(took, f, a, v)
    PROVE  registers \in [Modules -> Registers]
<1> DEFINE first == Written(f, a, v)[0]
<1>1. first \in Parameters
    BY WrittenType, ZeroIsModule
<1>2. PICK local \in Locals(first), settings \in SettingsAfter(first.setting) :
        registers = SetThresholds(took, Asked(f, v, local), settings)
    BY DEF Outcomes
<1>3. settings \in [Modules -> Settings]
    BY <1>2 DEF SettingsAfter
<1> HIDE DEF first
<1> QED
    BY <1>1, <1>2, <1>3, AskedType, SetThresholdsType

\* The invariant at the start, and under each handler in turn.
LEMMA ThresholdInitInv == ThresholdInit => ThresholdIInv
<1> SUFFICES ASSUME ThresholdInit PROVE ThresholdIInv
    OBVIOUS
<1>0. NotRead \in Parameters
    BY DEF NotRead, Parameters
<1> DEFINE shown(thresholds, m) ==
        IF thresholds /\ detectorType # "other"
        THEN ShowThresholds(NotRead, held[m]) ELSE NotRead
<1>1. PICK thresholds \in BOOLEAN, settings \in BOOLEAN :
        seen = [m \in Modules |-> IF settings
                    THEN ShowSetting(shown(thresholds, m), held[m])
                    ELSE shown(thresholds, m)]
    BY DEF ThresholdInit
<1>2. ASSUME NEW m \in Modules PROVE seen[m] \in Parameters
    <2>1. held[m] \in Registers
        BY DEF ThresholdInit
    <2>2. shown(thresholds, m) \in Parameters
        BY <1>0, <2>1, ShowType
    <2>3. ShowSetting(shown(thresholds, m), held[m]) \in Parameters
        BY <2>1, <2>2, ShowType
    <2> QED
        BY <1>1, <2>2, <2>3
<1>3. seen \in [Modules -> Parameters]
    BY <1>1, <1>2
<1> QED
    BY <1>3 DEF ThresholdInit, ThresholdIInv, ThresholdTypeOK, TrueUnlessDisturbed

-----------------------------------------------------------------------------
LEMMA ThresholdSetInv ==
    ASSUME ThresholdIInv, NEW f \in Functions, NEW a \in Modules, NEW v \in Inputs(f),
           ThresholdSet(f, a, v)
    PROVE  ThresholdIInv'
<1> DEFINE written == Written(f, a, v)
           shown == ShowAll(a, written, held')
<1>t. ThresholdTypeOK
    BY DEF ThresholdIInv
<1>1. /\ detectorType # "other" /\ detectorType' = detectorType
      /\ seen' = [m \in Modules |-> ShowSetting(shown[m], held'[m])]
      /\ touched' = FALSE
    BY DEF ThresholdSet
<1>2. held' \in [Modules -> Registers]
    BY <1>t, CallType DEF ThresholdSet
<1>3. written \in [Modules -> Parameters]
    BY <1>t, WrittenType
<1> HIDE DEF written
<1>4. ASSUME NEW m \in Modules
      PROVE  seen'[m] \in Parameters /\ True(seen'[m], held'[m])
    <2>1. seen'[m] = ShowSetting(ShowThresholds(written[m], held'[m]), held'[m])
        BY <1>1 DEF ShowAll
    <2> QED
        BY <1>1, <1>2, <1>3, <2>1, ShowType, ShowIsTrue
<1>5. seen' \in [Modules -> Parameters]
    BY <1>1, <1>4
<1>6. \A m \in Modules : True(seen[m], held[m])'
    BY <1>1, <1>4 DEF True
<1> QED
    BY <1>t, <1>1, <1>2, <1>5, <1>6 DEF ThresholdIInv, ThresholdTypeOK, TrueUnlessDisturbed

LEMMA ThresholdFailsInv ==
    ASSUME ThresholdIInv, NEW f \in Functions, NEW a \in Modules, NEW v \in Inputs(f),
           ThresholdFails(f, a, v)
    PROVE  ThresholdIInv'
<1>t. ThresholdTypeOK
    BY DEF ThresholdIInv
<1>1. /\ UNCHANGED <<detectorType, seen>>
      /\ touched' = (touched \/ held' # held)
    BY DEF ThresholdFails
<1>2. held' \in [Modules -> Registers]
    <2>1. PICK took \in SUBSET Positions(a) : held' \in Outcomes(took, f, a, v)
        BY DEF ThresholdFails
    <2> QED
        BY <1>t, <2>1, CallType
<1> QED
    BY <1>t, <1>1, <1>2 DEF ThresholdIInv, ThresholdTypeOK, TrueUnlessDisturbed, True

\* New thresholds and an old setting: a failure has happened, so nothing need
\* be true.
LEMMA SettingUnreadInv ==
    ASSUME ThresholdIInv, NEW f \in Functions, NEW a \in Modules, NEW v \in Inputs(f),
           SettingUnread(f, a, v)
    PROVE  ThresholdIInv'
<1> DEFINE written == Written(f, a, v)
           shown == ShowAll(a, written, held')
<1>t. ThresholdTypeOK
    BY DEF ThresholdIInv
<1>1. /\ detectorType' = detectorType /\ touched' = TRUE
      /\ seen' = [shown EXCEPT ![a] = Restored(@, f, seen[a])]
    BY DEF SettingUnread
<1>2. held' \in [Modules -> Registers]
    BY <1>t, CallType DEF SettingUnread
<1>3. written \in [Modules -> Parameters]
    BY <1>t, WrittenType
<1> HIDE DEF written
<1>4. shown \in [Modules -> Parameters]
    BY <1>2, <1>3, ShowType DEF ShowAll
<1>5. seen' \in [Modules -> Parameters]
    BY <1>t, <1>1, <1>4, RestoredParameterType DEF ThresholdTypeOK
<1> QED
    BY <1>t, <1>1, <1>2, <1>5 DEF ThresholdIInv, ThresholdTypeOK, TrueUnlessDisturbed

\* The detectors that only have settings.
LEMMA SettingInv ==
    ASSUME ThresholdIInv, NEW a \in Modules, NEW v \in Inputs("setting"),
           SettingSet(a, v) \/ SettingFails(a, v)
    PROVE  ThresholdIInv'
<1>t. ThresholdTypeOK
    BY DEF ThresholdIInv
<1>1. v \in Settings
    BY DEF Inputs, SettingSet, SettingFails
<1>2. CASE SettingSet(a, v)
    <2> DEFINE registers == [m \in Modules |->
            IF m \in Positions(a) THEN [held[m] EXCEPT !.setting = v]
                                ELSE held[m]]
    <2>1. /\ detectorType = "other" /\ detectorType' = detectorType /\ touched' = FALSE
          /\ held' = registers
          /\ seen' = [m \in Modules |-> ShowSetting(seen[m], registers[m])]
        BY <1>2 DEF SettingSet
    <2>2. registers \in [Modules -> Registers]
        BY <1>t, <1>1 DEF ThresholdTypeOK, Registers
    <2> HIDE DEF registers
    <2>3. seen' \in [Modules -> Parameters]
        BY <1>t, <2>1, <2>2, ShowType DEF ThresholdTypeOK
    <2>4. \A m \in Modules : True(seen[m], held[m])'
        BY <1>t, <2>1, <2>2 DEF ThresholdTypeOK, True, ShowSetting, Parameters
    <2> QED
        BY <1>t, <2>1, <2>2, <2>3, <2>4 DEF ThresholdIInv, ThresholdTypeOK, TrueUnlessDisturbed
<1>3. CASE SettingFails(a, v)
    <2>1. held' \in [Modules -> Registers]
        BY <1>t, <1>1, <1>3 DEF SettingFails, ThresholdTypeOK, Registers
    <2> QED
        BY <1>t, <1>3, <2>1
           DEF SettingFails, ThresholdIInv, ThresholdTypeOK, TrueUnlessDisturbed, True
<1> QED
    BY <1>2, <1>3

LEMMA ParameterOnlyInv ==
    ASSUME ThresholdIInv, NEW f \in Functions, NEW a \in Modules, NEW v \in Inputs(f),
           ParameterOnly(f, a, v)
    PROVE  ThresholdIInv'
<1>t. ThresholdTypeOK
    BY DEF ThresholdIInv
<1>1. seen' \in [Modules -> Parameters]
    BY <1>t, WrittenType DEF ParameterOnly
<1>2. f # "setting" =>
        \A m \in Modules : seen'[m].setting = seen[m].setting
    BY <1>t DEF ParameterOnly, Written, With, ThresholdTypeOK, Parameters
<1> QED
    BY <1>t, <1>1, <1>2
       DEF ParameterOnly, ThresholdIInv, ThresholdTypeOK, TrueUnlessDisturbed, True

\* A command changes the registers unseen, and is remembered.
LEMMA LoadInv == ASSUME ThresholdIInv, LoadThresholds PROVE ThresholdIInv'
<1>t. ThresholdTypeOK
    BY DEF ThresholdIInv
<1>1. held' \in [Modules -> Registers]
    <2>1. PICK m \in Modules :
            \E registers \in Registers : held' = [held EXCEPT ![m] = registers]
        <3>1. PICK m \in Modules :
                \/ \E s \in Settings :
                    held' = [held EXCEPT ![m] = [held[m] EXCEPT !.setting = s]]
                \/ \E t \in Thresholds : held' =
                    [held EXCEPT ![m] = [held[m] EXCEPT !.counter =
                        [c \in Counters |-> t]]]
                \/ \E t \in Thresholds, c \in Counters : held' =
                    [held EXCEPT ![m] = [held[m] EXCEPT !.counter[c] = t]]
            BY <1>t DEF LoadThresholds, ThresholdTypeOK
        <3>2. held[m] \in Registers
            BY <1>t, <3>1 DEF ThresholdTypeOK
        <3>3. /\ \A s \in Settings :
                    [held[m] EXCEPT !.setting = s] \in Registers
              /\ \A t \in Thresholds :
                    [held[m] EXCEPT !.counter = [c \in Counters |-> t]]
                        \in Registers
              /\ \A t \in Thresholds, c \in Counters :
                    [held[m] EXCEPT !.counter[c] = t] \in Registers
            BY <3>2 DEF Registers
        <3> QED
            BY <3>1, <3>3
    <2> QED
        BY <1>t, <2>1 DEF ThresholdTypeOK
<1> QED
    BY <1>t, <1>1 DEF LoadThresholds, ThresholdIInv, ThresholdTypeOK, TrueUnlessDisturbed

LEMMA ThresholdInvStep == ThresholdIInv /\ [ThresholdNext]_thresholdVars => ThresholdIInv'
<1> SUFFICES ASSUME ThresholdIInv, [ThresholdNext]_thresholdVars PROVE ThresholdIInv'
    OBVIOUS
<1>1. ASSUME NEW f \in Functions, NEW a \in Modules, NEW v \in Inputs(f),
             Write(f, a, v)
      PROVE  ThresholdIInv'
    BY <1>1, ThresholdSetInv, ThresholdFailsInv, SettingUnreadInv, SettingInv,
       ParameterOnlyInv DEF Write
<1>2. CASE UNCHANGED thresholdVars
    BY <1>2 DEF thresholdVars, ThresholdIInv, ThresholdTypeOK, TrueUnlessDisturbed, True
<1> QED
    BY <1>1, <1>2, LoadInv DEF ThresholdNext

\* The invariant holds throughout: types, and the truth of what is shown.
THEOREM ThresholdInvariance == ThresholdSpec => []ThresholdIInv
BY ThresholdInitInv, ThresholdInvStep, PTL DEF ThresholdSpec

\* Every reachable state is well typed, so thresholds and settings are ones
\* that the detector has, however calls fail.
THEOREM ThresholdTypes == ThresholdSpec => []ThresholdTypeOK
<1>1. ThresholdIInv => ThresholdTypeOK
    BY DEF ThresholdIInv
<1> QED
    BY <1>1, ThresholdInvariance, PTL

\* For any number of modules and counters: after a successful write all
\* thresholds and settings shown are those of the modules.
THEOREM Truth == ThresholdSpec => []TrueUnlessDisturbed
<1>1. ThresholdIInv => TrueUnlessDisturbed
    BY DEF ThresholdIInv
<1> QED
    BY <1>1, ThresholdInvariance, PTL

-----------------------------------------------------------------------------
\* Of the parameters of address 0 a write of a counter's threshold changes that
\* one only, and only at address 0.
LEMMA WrittenKeeps ==
    ASSUME ThresholdTypeOK, NEW c \in Counters, NEW a \in Modules, NEW v
    PROVE  /\ Written(c, a, v)[0].setting = seen[0].setting
           /\ \A d \in Counters :
                d # c \/ a # 0 =>
                    Written(c, a, v)[0].counter[d] = seen[0].counter[d]
<1>1. seen[0] \in Parameters
    BY ZeroIsModule DEF ThresholdTypeOK
<1>2. Written(c, a, v)[0] \in {seen[0], [seen[0] EXCEPT !.counter[c] = v]}
    BY ZeroIsModule, Names DEF ThresholdTypeOK, Written, With
<1>3. a # 0 => Written(c, a, v)[0] = seen[0]
    BY ZeroIsModule DEF ThresholdTypeOK, Written
<1> QED
    BY <1>1, <1>2, <1>3 DEF Parameters

\* So the call has the values of address 0, however the modules differ.
LEMMA CallComesFromMain ==
    ASSUME ThresholdTypeOK, NEW c \in Counters, NEW a \in Modules, NEW v \in Inputs(c),
           NEW took \in SUBSET Positions(a),
           NEW registers \in Outcomes(took, c, a, v), NEW m \in Modules
    PROVE  /\ m \notin Positions(a) => registers[m] = held[m]
           /\ seen[0].setting \in Settings =>
                registers[m].setting \in {held[m].setting, seen[0].setting}
           /\ detectorType = "MYTHEN3" =>
                \A d \in Counters :
                    (d # c \/ a # 0) /\ seen[0].counter[d] # Undefined =>
                        registers[m].counter[d] \in {held[m].counter[d],
                                                    seen[0].counter[d]}
<1> DEFINE first == Written(c, a, v)[0]
<1>1. PICK local \in Locals(first), settings \in SettingsAfter(first.setting) :
        registers = SetThresholds(took, Asked(c, v, local), settings)
    BY DEF Outcomes
<1>2. first \in Parameters
    BY WrittenType, ZeroIsModule DEF Functions
<1>3. /\ first.setting = seen[0].setting
      /\ \A d \in Counters :
            d # c \/ a # 0 => first.counter[d] = seen[0].counter[d]
    BY WrittenKeeps
<1> HIDE DEF first
<1>4. seen[0].setting \in Settings => settings[m] = seen[0].setting
    BY <1>1, <1>3 DEF SettingsAfter
<1>5. detectorType = "MYTHEN3" => Asked(c, v, local) = local.counter
    BY Names DEF Asked
<1>6. ASSUME NEW d \in Counters, d # c \/ a # 0, seen[0].counter[d] # Undefined
      PROVE  local.counter[d] = seen[0].counter[d]
    BY <1>1, <1>2, <1>3, <1>6, LocalsType
<1>7. CASE m \notin took
    BY <1>1, <1>7 DEF SetThresholds
<1>8. CASE m \in took
    <2>1. /\ registers[m].setting = settings[m]
          /\ \A d \in Counters :
                registers[m].counter[d] =
                    IF Asked(c, v, local)[d] = -1 THEN held[m].counter[d]
                    ELSE Asked(c, v, local)[d]
        BY <1>1, <1>8 DEF SetThresholds
    <2> QED
        BY <1>4, <1>5, <1>6, <1>8, <2>1
<1> QED
    BY <1>7, <1>8

\* For any number of modules and counters, and however the modules differ: a
\* write of one counter's threshold changes the modules of its address only,
\* whether it succeeds or fails, and all it changes there is to the values of
\* address 0.
THEOREM OthersAreOfMain == ThresholdSpec => OthersComeFromMain
<1> DEFINE Comes(c, a, m) ==
        /\ m \notin Positions(a) => held'[m] = held[m]
        /\ seen[0].setting \in Settings =>
            held'[m].setting \in {held[m].setting, seen[0].setting}
        /\ detectorType = "MYTHEN3" =>
            \A d \in Counters :
                (d # c \/ a # 0) /\ seen[0].counter[d] # Undefined =>
                    held'[m].counter[d] \in {held[m].counter[d],
                                            seen[0].counter[d]}
<1>1. ASSUME ThresholdIInv, NEW c \in Counters, NEW a \in Modules,
             NEW v \in Inputs(c), Write(c, a, v), NEW m \in Modules
      PROVE  Comes(c, a, m)
    <2>t. ThresholdTypeOK
        BY <1>1 DEF ThresholdIInv
    <2>1. ASSUME NEW took \in SUBSET Positions(a),
                 held' \in Outcomes(took, c, a, v)
          PROVE  Comes(c, a, m)
        BY <2>t, <1>1, <2>1, CallComesFromMain
    <2>2. CASE ThresholdSet(c, a, v) \/ SettingUnread(c, a, v)
        BY <2>1, <2>2 DEF ThresholdSet, SettingUnread
    <2>3. CASE ThresholdFails(c, a, v)
        <3>1. PICK took \in SUBSET Positions(a) : held' \in Outcomes(took, c, a, v)
            BY <2>3 DEF ThresholdFails
        <3> QED
            BY <2>1, <3>1
    <2>4. CASE ParameterOnly(c, a, v)
        BY <2>4 DEF ParameterOnly
    <2> QED
        BY <1>1, <2>2, <2>3, <2>4, Names DEF Write
<1>2. ThresholdIInv /\ [ThresholdNext]_thresholdVars =>
        [\A c \in Counters, a \in Modules : \A v \in Inputs(c) :
            Write(c, a, v) => \A m \in Modules : Comes(c, a, m)]_thresholdVars
    BY <1>1
<1> QED
    BY <1>2, ThresholdInvariance, PTL DEF ThresholdSpec, OthersComeFromMain

-----------------------------------------------------------------------------
\* For any energies, SDThreshold shows half of the beam energy just written in
\* all the modules written, after reading back.
THEOREM EnergyIsHalved == ThresholdSpec => EnergyHalvesThreshold
<1>1. ASSUME ThresholdIInv, NEW a \in Modules, NEW e \in Energies,
             ThresholdSet("energy", a, e), NEW m \in Positions(a)
      PROVE  seen'[m].threshold = e \div 2
    <2> DEFINE half == [c \in Counters |-> e \div 2]
               written == Written("energy", a, e)
               shown == ShowAll(a, written, held')
    <2>0. m \in Modules /\ "energy" \in Functions /\ e \in Inputs("energy")
        BY <1>1, ZeroIsModule DEF Positions, Functions, Inputs
    <2>1. seen' = [k \in Modules |-> ShowSetting(shown[k], held'[k])]
        BY <1>1 DEF ThresholdSet
    <2>2. PICK local \in Locals(written[0]),
               settings \in SettingsAfter(written[0].setting) :
            held' = SetThresholds(Positions(a), Asked("energy", e, local), settings)
        BY <1>1 DEF ThresholdSet, Outcomes
    <2>3. Asked("energy", e, local) = half
        BY EnergiesAssumption DEF Asked, Half
    <2>4. held'[m].counter = half
        BY <1>1, <2>0, <2>2, <2>3, EnergiesAssumption DEF SetThresholds
    <2>7. written \in [Modules -> Parameters]
        BY <1>1, <2>0, WrittenType DEF ThresholdIInv
    <2> HIDE DEF written
    <2>5. seen'[m] = ShowSetting(ShowThresholds(written[m], held'[m]), held'[m])
        BY <2>0, <2>1 DEF ShowAll
    <2>6. Common(half) = e \div 2
        <3>1. (CHOOSE c \in Counters : TRUE) \in Counters
            BY CountersAssumption
        <3> QED
            BY <3>1 DEF Common
    <2> QED
        BY <2>0, <2>4, <2>5, <2>6, <2>7 DEF ShowSetting, ShowThresholds, Parameters
<1>2. ThresholdIInv /\ [ThresholdNext]_thresholdVars =>
        [\A a \in Modules, e \in Energies :
            ThresholdSet("energy", a, e) =>
                \A m \in Positions(a) : seen'[m].threshold = e \div 2]_thresholdVars
    BY <1>1
<1> QED
    BY <1>2, ThresholdInvariance, PTL DEF ThresholdSpec, EnergyHalvesThreshold

-----------------------------------------------------------------------------
(***************************************************************************)
(* GateWidth, whichever counts of nanoseconds are read as less.            *)
(***************************************************************************)
GateIInv == GateTypeOK /\ AcquireTimeTellsGates /\ GatesTrueUnlessBehind

WidthsOf == [Modules -> [Gates -> Widths]]

\* The types of what the operators give.
LEMMA WidthTypes ==
    /\ Widths \subseteq Nat
    /\ \A t \in Times : secToNsec(t) \in Widths
    /\ \A ns \in Widths : nsecToSec(ns) \in Seconds /\ nsecToSec(ns) \in Nat
<1>1. \A t \in Times : secToNsec(t) \in Nat
    BY TimesAssumption DEF secToNsec
<1>2. Widths \subseteq Nat
    BY <1>1 DEF Widths
<1>3. \A ns \in Nat : nsecToSec(ns) \in Nat
    BY TimesAssumption DEF nsecToSec
<1> QED
    BY <1>2, <1>3 DEF Widths, Seconds

LEMMA TargetsType ==
    ASSUME NEW a \in Modules PROVE Positions(a) \subseteq Modules /\ a \in Positions(a)
BY DEF Positions

LEMMA SetGatesType ==
    ASSUME GateTypeOK, NEW took, NEW gs, NEW ns \in Widths
    PROVE  SetGates(took, gs, ns) \in WidthsOf
BY DEF GateTypeOK, SetGates, WidthsOf

LEMMA CommonTimeType ==
    ASSUME NEW widths \in [Gates -> Widths]
    PROVE  /\ CommonTime(widths) \in Seconds \cup {-1}
           /\ IF CommonTime(widths) = -1
              THEN \E g, h \in Gates : widths[g] # widths[h]
              ELSE \A g \in Gates : CommonTime(widths) = nsecToSec(widths[g])
<1>1. (CHOOSE g \in Gates : TRUE) \in Gates
    BY GatesAssumption
<1>2. nsecToSec(widths[CHOOSE g \in Gates : TRUE]) \in Seconds \cap Nat
    BY <1>1, WidthTypes
<1> QED
    BY <1>1, <1>2 DEF CommonTime

\* Reading the exposure times back tells of all modules' gates.
LEMMA ReadTells ==
    ASSUME NEW widths \in WidthsOf, width' = widths,
           acquireTime' = ReadAcquireTime(widths)
    PROVE  /\ acquireTime' \in [Modules -> Seconds \cup {-1, NoTime}]
           /\ AcquireTimeTellsGates'
<1>1. ASSUME NEW m \in Modules
      PROVE  /\ acquireTime'[m] = CommonTime(widths[m])
             /\ widths[m] \in [Gates -> Widths]
    BY DEF ReadAcquireTime, WidthsOf
<1>2. acquireTime' \in [Modules -> Seconds \cup {-1, NoTime}]
    BY <1>1, CommonTimeType DEF ReadAcquireTime
<1>3. ASSUME NEW m \in Modules
      PROVE  IF acquireTime'[m] = -1
             THEN \E g, h \in Gates : width'[m][g] # width'[m][h]
             ELSE \A g \in Gates : acquireTime'[m] = nsecToSec(width'[m][g])
    BY <1>1, <1>3, CommonTimeType
<1> QED
    BY <1>2, <1>3 DEF AcquireTimeTellsGates

LEMMA GateInitInv == GateInit => GateIInv
BY DEF GateInit, GateIInv, GateTypeOK, AcquireTimeTellsGates, GatesTrueUnlessBehind, AllGates

\* The invariant under each handler in turn.
LEMMA AcquireTimeStep ==
    ASSUME GateIInv, NEW a \in Modules, NEW t \in Times, WriteAcquireTime(a, t)
    PROVE  GateIInv'
<1> DEFINE widths == SetGates(Positions(a), Gates, secToNsec(t))
<1>t. GateTypeOK
    BY DEF GateIInv
<1>1. widths \in WidthsOf
    BY <1>t, SetGatesType, WidthTypes
<1>2. /\ width' = widths
      /\ acquireTime' = ReadAcquireTime(widths)
      /\ gateWidth' = ReadGates(a, widths)
      /\ unread' = FALSE /\ behind' = {}
    BY DEF WriteAcquireTime
<1> HIDE DEF widths
<1>3. /\ acquireTime' \in [Modules -> Seconds \cup {-1, NoTime}]
      /\ AcquireTimeTellsGates'
    BY <1>1, <1>2, ReadTells
<1>4. \A m \in Modules, g \in Gates : gateWidth'[m][g] = nsecToSec(width'[m][g])
    BY <1>2 DEF ReadGates
<1>5. gateWidth' \in [Modules -> [Gates -> Seconds \cup {NoTime}]]
    BY <1>1, <1>2, WidthTypes DEF ReadGates, WidthsOf
<1>7. ASSUME NEW m \in Modules, NEW g \in Gates
      PROVE  gateWidth'[m][g] # NoTime
    <2>1. width'[m][g] \in Widths
        BY <1>1, <1>2 DEF WidthsOf
    <2>2. nsecToSec(width'[m][g]) \in Nat
        BY <2>1, WidthTypes
    <2>3. gateWidth'[m][g] \in Nat
        BY <1>4, <2>2
    <2> QED
        BY <2>3, NoTimeAssumption
<1>6. GatesTrueUnlessBehind'
    BY <1>4, <1>7 DEF GatesTrueUnlessBehind, StandsFor
<1> QED
    BY <1>1, <1>2, <1>3, <1>5, <1>6 DEF GateIInv, GateTypeOK, WidthsOf

\* What no call has touched stays as it was.
LEMMA OthersStay ==
    ASSUME GateIInv, NEW a \in Modules, NEW took \in SUBSET Positions(a),
           NEW gs \in SUBSET Gates, NEW ns,
           width' = SetGates(took, gs, ns),
           behind \cup (Positions(a) \X gs) \subseteq behind',
           \A m \in Modules, g \in Gates :
                gateWidth'[m][g] = gateWidth[m][g] \/ <<m, g>> \in behind'
    PROVE  GatesTrueUnlessBehind'
<1> SUFFICES ASSUME NEW m \in Modules, NEW g \in Gates, <<m, g>> \notin behind'
             PROVE  StandsFor(gateWidth'[m][g], width'[m][g])
    BY DEF GatesTrueUnlessBehind, StandsFor
<1>1. <<m, g>> \notin behind /\ ~(m \in Positions(a) /\ g \in gs)
    OBVIOUS
<1>2. width'[m][g] = width[m][g] /\ gateWidth'[m][g] = gateWidth[m][g]
    BY <1>1 DEF SetGates
<1> QED
    BY <1>1, <1>2 DEF GateIInv, GatesTrueUnlessBehind

LEMMA AcquireTimeFailsStep ==
    ASSUME GateIInv, NEW a \in Modules, NEW t \in Times, AcquireTimeFails(a, t)
    PROVE  GateIInv'
<1>t. GateTypeOK
    BY DEF GateIInv
<1>1. PICK took \in SUBSET Positions(a) : width' = SetGates(took, Gates, secToNsec(t))
    BY DEF AcquireTimeFails
<1>2. width' \in WidthsOf
    BY <1>t, <1>1, SetGatesType, WidthTypes
<1>3. /\ acquireTime' = [acquireTime EXCEPT ![a] = t]
      /\ unread' = TRUE
      /\ behind' = behind \cup (Positions(a) \X Gates)
      /\ UNCHANGED gateWidth
    BY DEF AcquireTimeFails
<1>4. GateTypeOK'
    BY <1>t, <1>2, <1>3, TargetsType DEF GateTypeOK, WidthsOf, Seconds, AllGates
<1>5. GatesTrueUnlessBehind'
    BY <1>1, <1>3, OthersStay
<1> QED
    BY <1>3, <1>4, <1>5 DEF GateIInv, AcquireTimeTellsGates

LEMMA GateWidthStep ==
    ASSUME GateIInv, NEW a \in Modules, NEW g \in Gates, NEW t \in Times,
           WriteGateWidth(a, g, t)
    PROVE  GateIInv'
<1> DEFINE widths == SetGates(Positions(a), {g}, secToNsec(t))
<1>t. GateTypeOK
    BY DEF GateIInv
<1>1. widths \in WidthsOf
    BY <1>t, SetGatesType, WidthTypes
<1>2. /\ width' = widths
      /\ acquireTime' = ReadAcquireTime(widths)
      /\ gateWidth' = [gateWidth EXCEPT ![a][g] = t]
      /\ unread' = FALSE
      /\ behind' = (behind \cup (Positions(a) \X {g})) \ {<<a, g>>}
    BY DEF WriteGateWidth
<1>3. /\ acquireTime' \in [Modules -> Seconds \cup {-1, NoTime}]
      /\ AcquireTimeTellsGates'
    <2> HIDE DEF widths
    <2> QED
        BY <1>1, <1>2, ReadTells
<1>4. gateWidth' \in [Modules -> [Gates -> Seconds \cup {NoTime}]]
    BY <1>t, <1>2 DEF GateTypeOK, Seconds
<1>5. behind' \subseteq AllGates
    BY <1>t, <1>2, TargetsType DEF GateTypeOK, AllGates
<1>6. GatesTrueUnlessBehind'
    <2> SUFFICES ASSUME NEW m \in Modules, NEW h \in Gates, <<m, h>> \notin behind'
                 PROVE  StandsFor(gateWidth'[m][h], width'[m][h])
        BY DEF GatesTrueUnlessBehind, StandsFor
    <2>1. CASE m = a /\ h = g
        <3>1. gateWidth'[m][h] = t
            BY <1>t, <1>2, <2>1 DEF GateTypeOK
        <3>2. width'[m][h] = secToNsec(t)
            BY <1>2, <2>1, TargetsType DEF SetGates
        <3>3. t # NoTime
            BY TimesAssumption, NoTimeAssumption
        <3> QED
            BY <3>1, <3>2, <3>3 DEF StandsFor
    <2>2. CASE ~(m = a /\ h = g)
        <3>1. <<m, h>> \notin behind /\ ~(m \in Positions(a) /\ h = g)
            BY <1>2, <2>2
        <3>2. width'[m][h] = width[m][h]
            BY <1>2, <3>1 DEF SetGates
        <3>3. gateWidth'[m][h] = gateWidth[m][h]
            BY <1>t, <1>2, <2>2 DEF GateTypeOK
        <3> QED
            BY <3>1, <3>2, <3>3 DEF GateIInv, GatesTrueUnlessBehind
    <2> QED
        BY <2>1, <2>2
<1> QED
    BY <1>1, <1>2, <1>3, <1>4, <1>5, <1>6 DEF GateIInv, GateTypeOK, WidthsOf

LEMMA GateWidthFailsStep ==
    ASSUME GateIInv, NEW a \in Modules, NEW g \in Gates, NEW t \in Times,
           GateWidthFails(a, g, t)
    PROVE  GateIInv'
<1>t. GateTypeOK
    BY DEF GateIInv
<1>1. PICK took \in SUBSET Positions(a) : width' = SetGates(took, {g}, secToNsec(t))
    BY DEF GateWidthFails
<1>2. width' \in WidthsOf
    BY <1>t, <1>1, SetGatesType, WidthTypes
<1>3. /\ gateWidth' = [gateWidth EXCEPT ![a][g] = t]
      /\ unread' = TRUE
      /\ behind' = behind \cup (Positions(a) \X {g})
      /\ UNCHANGED acquireTime
    BY DEF GateWidthFails
<1>4. GateTypeOK'
    BY <1>t, <1>2, <1>3, TargetsType DEF GateTypeOK, WidthsOf, Seconds, AllGates
<1>5. \A m \in Modules, h \in Gates :
        gateWidth'[m][h] = gateWidth[m][h] \/ <<m, h>> \in behind'
    BY <1>t, <1>3, TargetsType DEF GateTypeOK
<1>6. GatesTrueUnlessBehind'
    BY <1>1, <1>3, <1>5, OthersStay
<1> QED
    BY <1>3, <1>4, <1>6 DEF GateIInv, AcquireTimeTellsGates

LEMMA LoadStep == ASSUME GateIInv, LoadWidths PROVE GateIInv'
<1>t. GateTypeOK
    BY DEF GateIInv
<1>1. PICK m \in Modules, g \in Gates, ns \in Widths :
        /\ width' = SetGates({m}, {g}, ns)
        /\ behind' = behind \cup {<<m, g>>}
    BY DEF LoadWidths
<1>2. unread' = TRUE /\ UNCHANGED <<acquireTime, gateWidth>>
    BY DEF LoadWidths
<1>3. width' \in WidthsOf
    BY <1>t, <1>1, SetGatesType
<1>4. GatesTrueUnlessBehind'
    <2> SUFFICES ASSUME NEW k \in Modules, NEW h \in Gates, <<k, h>> \notin behind'
                 PROVE  StandsFor(gateWidth'[k][h], width'[k][h])
        BY DEF GatesTrueUnlessBehind, StandsFor
    <2>1. width'[k][h] = width[k][h]
        BY <1>1 DEF SetGates
    <2> QED
        BY <1>1, <1>2, <2>1 DEF GateIInv, GatesTrueUnlessBehind
<1>5. behind' \subseteq AllGates
    BY <1>t, <1>1 DEF GateTypeOK, AllGates
<1>6. GateTypeOK'
    BY <1>t, <1>2, <1>3, <1>5 DEF GateTypeOK, WidthsOf
<1> QED
    BY <1>2, <1>4, <1>6 DEF GateIInv, AcquireTimeTellsGates

LEMMA GateInvStep == GateIInv /\ [GateNext]_gateVars => GateIInv'
<1> SUFFICES ASSUME GateIInv, [GateNext]_gateVars PROVE GateIInv'
    OBVIOUS
<1>1. CASE GateNext
    BY <1>1, AcquireTimeStep, AcquireTimeFailsStep, GateWidthStep,
       GateWidthFailsStep, LoadStep DEF GateNext
<1>2. CASE UNCHANGED gateVars
    BY <1>2 DEF gateVars, GateIInv, GateTypeOK, AcquireTimeTellsGates, GatesTrueUnlessBehind
<1> QED
    BY <1>1, <1>2

\* The invariant holds throughout: types, and the truth of times and widths.
THEOREM GateInvariance == GateSpec => []GateIInv
BY GateInitInv, GateInvStep, PTL DEF GateSpec

\* Times and widths are ones that were written or that the gates have.
THEOREM GateTypes == GateSpec => []GateTypeOK
<1>1. GateIInv => GateTypeOK
    BY DEF GateIInv
<1> QED
    BY <1>1, GateInvariance, PTL

\* For any number of modules and gates, a successful write of any time leaves
\* ADAcquireTime telling of every module whether its gates agree, and on what.
THEOREM AcquireTimeTells == GateSpec => []AcquireTimeTellsGates
<1>1. GateIInv => AcquireTimeTellsGates
    BY DEF GateIInv
<1> QED
    BY <1>1, GateInvariance, PTL

\* For any number of modules and gates, a width shown is the module's unless it
\* was set through address 0, by a command or by a call that failed.
THEOREM GatesTrue == GateSpec => []GatesTrueUnlessBehind
<1>1. GateIInv => GatesTrueUnlessBehind
    BY DEF GateIInv
<1> QED
    BY <1>1, GateInvariance, PTL

\* What clients see of exposure times and widths is true in every module unless
\* a failure, a command or a write that leaves it behind has come since.
THEOREM TimesTrue == GateSpec => []TimesAreTrue
<1>1. AcquireTimeTellsGates /\ GatesTrueUnlessBehind => TimesAreTrue
    BY DEF TimesAreTrue
<1> QED
    BY <1>1, AcquireTimeTells, GatesTrue, PTL

-----------------------------------------------------------------------------
(***************************************************************************)
(* Receiving.  That a client can tell by SDUseDataCallback whether images  *)
(* come is not inductive: what is kept is that the address written last    *)
(* shows it.                                                               *)
(***************************************************************************)
\* The parameter that was written last shows whether the callback is
\* registered, and it is at some address, unless that write has failed.
LastUseIsShown ==
    "use" \notin failed =>
        \E a \in Addresses : use[a] = IF registered THEN 1 ELSE 0

ReceivingIInv ==
    ReceivingTypeOK /\ LastUseIsShown /\ StreamIsShown /\ ModeIsOneOfTwo

\* An exception leaves a parameter within its type.
LEMMA RestoredType ==
    ASSUME NEW S, NEW before \in [Addresses -> S \cup {Undefined}],
           NEW a \in Addresses, NEW after \in RestoredAt(before, a, S)
    PROVE  after \in [Addresses -> S \cup {Undefined}]
<1>1. PICK old \in Got(before[a], S) : after = [before EXCEPT ![a] = old]
    BY DEF RestoredAt
<1>2. old \in S \cup {Undefined}
    BY <1>1 DEF Got
<1> QED
    BY <1>1, <1>2

\* Registering leaves streams of modules, and none without receivers.
LEMMA RegisterType ==
    ASSUME streaming \subseteq Modules, NEW callback \in BOOLEAN,
           NEW s \in Register(callback)
    PROVE  s \subseteq Modules /\ (~useReceiver => s = {})
BY DEF Register

\* The invariant at the start.
LEMMA ReceivingInitInv == ReceivingInit => ReceivingIInv
<1> SUFFICES ASSUME ReceivingInit PROVE ReceivingIInv
    OBVIOUS
<1>1. ReceivingTypeOK
    BY DEF ReceivingInit, ReceivingTypeOK
<1> QED
    BY <1>1, ZeroIsModule, ModulesAreAddresses, UndefinedAssumption
       DEF ReceivingInit, ReceivingIInv, LastUseIsShown, StreamIsShown, ModeIsOneOfTwo

\* The invariant under each write of the switches, and its failure.
LEMMA ReceivingInvStep ==
    ReceivingIInv /\ [ReceivingNext]_receivingVars => ReceivingIInv'
<1> SUFFICES ASSUME ReceivingIInv, [ReceivingNext]_receivingVars
             PROVE  ReceivingIInv'
    OBVIOUS
<1>t. ReceivingTypeOK
    BY DEF ReceivingIInv
<1>1. ASSUME NEW a \in Addresses, NEW v \in {0, 1}, WriteUse(a, v)
      PROVE  ReceivingIInv'
    <2>1. ReceivingTypeOK'
        BY <1>t, <1>1, RegisterType DEF WriteUse, ReceivingTypeOK
    <2>2. use'[a] = IF registered' THEN 1 ELSE 0
        BY <1>t, <1>1 DEF WriteUse, ReceivingTypeOK
    <2>3. StreamIsShown' /\ ModeIsOneOfTwo'
        BY <1>1 DEF WriteUse, StreamIsShown, ReceivingIInv, ModeIsOneOfTwo
    <2> QED
        BY <2>1, <2>2, <2>3 DEF ReceivingIInv, LastUseIsShown
<1>2. ASSUME NEW a \in Addresses, NEW v \in {0, 1}, WriteUseFails(a, v)
      PROVE  ReceivingIInv'
    <2>1. use' \in [Addresses -> {0, 1, Undefined}]
        <3>1. use \in [Addresses -> {0, 1} \cup {Undefined}]
            BY <1>t DEF ReceivingTypeOK
        <3>2. use' \in RestoredAt(use, a, {0, 1})
            BY <1>2 DEF WriteUseFails
        <3>3. use' \in [Addresses -> {0, 1} \cup {Undefined}]
            BY <3>1, <3>2, RestoredType
        <3> QED
            BY <3>3
    <2>2. ReceivingTypeOK'
        BY <1>t, <1>2, <2>1, RegisterType DEF WriteUseFails, ReceivingTypeOK
    <2>3. LastUseIsShown' /\ StreamIsShown' /\ ModeIsOneOfTwo'
        BY <1>2 DEF WriteUseFails, LastUseIsShown, StreamIsShown,
                    ReceivingIInv, ModeIsOneOfTwo
    <2> QED
        BY <2>2, <2>3 DEF ReceivingIInv
<1>3. ASSUME NEW a \in Addresses, NEW v \in {0, 1}, WriteStream(a, v)
      PROVE  ReceivingIInv'
    <2>0. UNCHANGED <<useReceiver, registered, mode, use, json, failed>>
        BY <1>3 DEF WriteStream
    <2>1. CASE useReceiver
        <3>1. /\ streaming' \subseteq Modules
              /\ stream' = ShownStreams(streaming') /\ outdated' = FALSE
            BY <1>t, <1>3, <2>1
               DEF WriteStream, Positions, ReceivingTypeOK
        <3>2. /\ stream' \in [Addresses -> {0, 1, Undefined}]
              /\ \A m \in Modules : stream'[m] = 1 <=> m \in streaming'
            BY <1>t, <3>1, ModulesAreAddresses
               DEF ShownStreams, AsInt, ReceivingTypeOK
        <3> QED
            BY <1>t, <2>0, <2>1, <3>1, <3>2
               DEF ReceivingIInv, ReceivingTypeOK, LastUseIsShown, StreamIsShown,
                   ModeIsOneOfTwo
    <2>2. CASE ~useReceiver
        <3>1. /\ stream' = [stream EXCEPT ![a] = v]
              /\ UNCHANGED <<streaming, outdated>>
            BY <1>3, <2>2 DEF WriteStream
        <3> QED
            BY <1>t, <2>0, <2>2, <3>1
               DEF ReceivingIInv, ReceivingTypeOK, LastUseIsShown, StreamIsShown,
                   ModeIsOneOfTwo
    <2> QED
        BY <1>t, <2>1, <2>2 DEF ReceivingTypeOK
<1>4. ASSUME NEW a \in Addresses, NEW v \in {0, 1}, WriteStreamFails(a, v)
      PROVE  ReceivingIInv'
    <2>1. stream' \in [Addresses -> {0, 1, Undefined}]
        BY <1>t, <1>4, RestoredType DEF WriteStreamFails, ReceivingTypeOK
    <2>2. streaming' \subseteq Modules
        BY <1>t, <1>4 DEF WriteStreamFails, Positions, ReceivingTypeOK
    <2>3. ReceivingTypeOK'
        BY <1>t, <1>4, <2>1, <2>2 DEF WriteStreamFails, ReceivingTypeOK
    <2> QED
        BY <1>4, <2>3
           DEF WriteStreamFails, ReceivingIInv, LastUseIsShown, StreamIsShown,
               ModeIsOneOfTwo
<1>5. ASSUME NEW a \in Addresses, NEW v \in Modes, WriteMode(a, v)
      PROVE  ReceivingIInv'
    <2>1. ReceivingTypeOK'
        BY <1>t, <1>5 DEF WriteMode, ReceivingTypeOK
    <2>2. ModeIsOneOfTwo'
        <3> SUFFICES ASSUME "mode" \notin failed', NEW m \in Modules
                     PROVE  mode'[m] \in {json'[m], json'[0]}
            BY DEF ModeIsOneOfTwo
        <3>1. json' = [json EXCEPT ![a] = v]
            BY <1>5 DEF WriteMode
        <3>2. mode'[m] = IF m \in Positions(a) THEN v ELSE mode[m]
            BY <1>5 DEF WriteMode
        <3>3. CASE a = 0
            BY <1>t, <3>1, <3>2, <3>3, ZeroIsModule DEF Positions, ReceivingTypeOK
        <3>4. CASE a # 0
            <4>1. mode[m] \in {json[m], json[0]}
                BY <1>5, <3>4 DEF WriteMode, ReceivingIInv, ModeIsOneOfTwo
            <4> QED
                BY <1>t, <3>1, <3>2, <3>4, <4>1, ZeroIsModule
                   DEF Positions, ReceivingTypeOK
        <3> QED
            BY <3>3, <3>4
    <2> QED
        BY <1>5, <2>1, <2>2
           DEF WriteMode, ReceivingIInv, LastUseIsShown, StreamIsShown
<1>6. ASSUME NEW a \in Addresses, NEW v \in Modes, WriteModeFails(a, v)
      PROVE  ReceivingIInv'
    <2>1. json' \in [Addresses -> Modes \cup {Undefined}]
        BY <1>t, <1>6, RestoredType DEF WriteModeFails, ReceivingTypeOK
    <2>2. ReceivingTypeOK'
        BY <1>t, <1>6, <2>1 DEF WriteModeFails, ReceivingTypeOK
    <2> QED
        BY <1>6, <2>2
           DEF WriteModeFails, ReceivingIInv, LastUseIsShown, StreamIsShown,
               ModeIsOneOfTwo
<1>7. CASE UNCHANGED receivingVars
    BY <1>7 DEF receivingVars, receivers, receivingParams, ReceivingIInv,
                ReceivingTypeOK, LastUseIsShown, StreamIsShown, ModeIsOneOfTwo
<1> QED
    BY <1>1, <1>2, <1>3, <1>4, <1>5, <1>6, <1>7
       DEF ReceivingNext, StreamNext, ModeNext

\* What the clients see follows from the inductive invariant.
LEMMA ReceivingInvShows == ReceivingIInv => ReceivingIsShown
<1> SUFFICES ASSUME ReceivingIInv PROVE ReceivingIsShown
    OBVIOUS
<1>1. AgreementTellsUse
    BY DEF ReceivingIInv, ReceivingTypeOK, LastUseIsShown, AgreementTellsUse
<1>2. ImagesComeOfShown
    <2> SUFFICES ASSUME NEW v \in {0, 1}, \A a \in Addresses : use[a] = v,
                        "use" \notin failed, useReceiver, ~outdated
                 PROVE  Image = IF v = 1 THEN {m \in Modules : stream[m] = 1}
                                         ELSE {}
        BY DEF ImagesComeOfShown
    <2>1. registered = (v = 1)
        BY <1>1 DEF AgreementTellsUse
    <2>2. streaming = {m \in Modules : stream[m] = 1}
        BY DEF ReceivingIInv, ReceivingTypeOK, StreamIsShown
    <2> QED
        BY <2>1, <2>2 DEF Image
<1> QED
    BY <1>1, <1>2 DEF ReceivingIInv, ReceivingIsShown

\* Every reachable state is well typed; without receivers nothing streams.
THEOREM ReceivingTypes == ReceivingSpec => []ReceivingTypeOK
<1>1. ReceivingIInv => ReceivingTypeOK
    BY DEF ReceivingIInv
<1> QED
    BY <1>1, ReceivingInitInv, ReceivingInvStep, PTL DEF ReceivingSpec

\* For any number of modules and modes, clients can tell whether images come,
\* of which modules and with which modes, but for what failed.
THEOREM ReceivingShown == ReceivingSpec => []ReceivingIsShown
BY ReceivingInitInv, ReceivingInvStep, ReceivingInvShows, PTL DEF ReceivingSpec

-----------------------------------------------------------------------------
(***************************************************************************)
(* The four modules composed                                               *)
(***************************************************************************)
\* A step of one module's handlers is a stutter of the others', so that each
\* module's specification holds of the composed one.
THEOREM Composition ==
    MCSpec => Spec /\ ThresholdSpec /\ GateSpec /\ ReceivingSpec
<1>1. MCInit => Init /\ ThresholdInit /\ GateInit /\ ReceivingInit
    BY DEF MCInit
<1>2. [MCNext]_<<family, vars, thresholdVars, gateVars, receivingVars>> =>
        /\ [Next]_vars /\ [ThresholdNext]_thresholdVars
        /\ [GateNext]_gateVars /\ [ReceivingNext]_receivingVars
    BY DEF MCNext, ReceivingNext
<1> QED
    BY <1>1, <1>2, PTL
       DEF MCSpec, Spec, ThresholdSpec, GateSpec, ReceivingSpec

\* Every variable of the four modules keeps its type, whichever handlers follow
\* each other.
THEOREM SettingsTypes == MCSpec => []TypesOK
<1>1. TypeOK /\ ThresholdTypeOK /\ GateTypeOK /\ ReceivingTypeOK <=> TypesOK
    BY DEF TypesOK
<1> QED
    BY <1>1, Composition, ParamsTypes, ThresholdTypes, GateTypes, ReceivingTypes,
       PTL
\* Whichever handlers follow each other, what clients are shown of a setting, of
\* thresholds, of exposure times and of images is true under the conditions that
\* each property names.
THEOREM SettingsHold ==
    MCSpec => [](/\ AgreeUnlessDisturbed /\ TrueUnlessDisturbed
                 /\ TimesAreTrue /\ ReceivingIsShown)
BY Composition, Agreement, Truth, TimesTrue, ReceivingShown, PTL
=============================================================================
