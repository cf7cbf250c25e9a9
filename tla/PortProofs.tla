----------------------------- MODULE PortProofs -----------------------------
(***************************************************************************)
(* The port as its clients meet it: how it comes up and goes (Startup), how *)
(* enumerations and readings are answered (Readings), and which parameter a *)
(* request leads to (Dispatch).                                            *)
(***************************************************************************)
EXTENDS Startup, Readings, Dispatch, SequenceTheorems, TLAPS

-----------------------------------------------------------------------------
(***************************************************************************)
(* Start-up and shutdown, against any version of ADCore.  The inductive    *)
(* invariant says what each stage of the constructor leaves behind, and that *)
(* threads exist only where all stages were gone through.                  *)
(***************************************************************************)
\* Stages before the threads, and ends that have none.
Threadless == {"events", "config", "size", "identity", "params", "install",
               "noEvents", "noConfig", "tooMany", "thrown"}
Constructing == {"events", "config", "size", "identity", "params", "install"}

Passed ==
    /\ stage = "size" => detector \in {"configured", "oversized"}
    /\ stage \in {"identity", "params", "install", "done"} =>
            detector = "configured"
    /\ stage \in {"params", "install", "done"} => known
    /\ stage \in {"install", "done"} => read # "nothing"
    /\ stage = "done" => exitHandler
    /\ stage \in Threadless => threads = {} /\ ~exitHandler

Quiet == stage \in Constructing => acquire = 0 /\ trigger = 0

ThreadsAreLast ==
    /\ busy \subseteq threads
    /\ threads # {} => /\ stage \in {"done", "exiting", "crashed"}
                       /\ detector \in {"configured", "deleted"}
                       /\ known /\ read # "nothing" /\ exitHandler

Disconnected ==
    stage = "noConfig" /\ MarksDisconnected =>
        ~connected /\ adStatus = "DISCONNECTED" /\ acquire = 0 /\ trigger = 0

\* Who has called a detector that is not set up: no thread, and no handler one
\* without its configuration, as the port is then closed for good.
CallsSetUp ==
    /\ \A t \in Threads, d \in NotSetUp : <<t, d>> \notin reached
    /\ MarksDisconnected =>
            /\ detector = "unconfigured" => ~connected
            /\ <<"handler", "unconfigured">> \notin reached

StartupIInv ==
    TypeOK /\ Passed /\ Quiet /\ ThreadsAreLast /\ Disconnected /\ CallsSetUp

-----------------------------------------------------------------------------
\* The invariant at the start.
LEMMA StartupInitInv == Init => StartupIInv
BY DEF Init, StartupIInv, TypeOK, Stages, Threads, Passed, Threadless, Quiet,
       ThreadsAreLast, Disconnected, CallsSetUp, Statuses, NotSetUp

\* A call is remembered as one of its caller and of the detector as it is.
LEMMA CallsType ==
    ASSUME TypeOK, NEW who \in Threads \cup {"handler"}, Calls(who)
    PROVE  /\ reached' \subseteq (Threads \cup {"handler"}) \X NotSetUp
           /\ \A w, d : <<w, d>> \in reached' =>
                <<w, d>> \in reached \/ (w = who /\ d = detector)
<1>1. reached' = reached \cup ({who} \X ({detector} \cap NotSetUp))
    BY DEF Calls
<1>2. reached' \subseteq (Threads \cup {"handler"}) \X NotSetUp
    BY <1>1 DEF TypeOK
<1> QED
    BY <1>1, <1>2

\* Every step keeps the types.
LEMMA StartupTypeStep == StartupIInv /\ [Next]_vars => TypeOK'
<1> SUFFICES ASSUME StartupIInv, [Next]_vars PROVE TypeOK' OBVIOUS
<1> USE DEF StartupIInv, TypeOK, Stages, Statuses, NotSetUp, setUp, client, outside
<1>1. CASE CreateEvents
    <2>1. created' \in BOOLEAN
        BY <1>1 DEF CreateEvents
    <2> QED
        BY <1>1, <2>1 DEF CreateEvents
<1>2. CASE Throws BY <1>2 DEF Throws
<1>3. CASE LoadConfig BY <1>3 DEF LoadConfig
<1>4. CASE LoadConfigThrows BY <1>4 DEF LoadConfigThrows
<1>5. CASE CheckSize BY <1>5 DEF CheckSize
<1>6. CASE ReadIdentity BY <1>6 DEF ReadIdentity, AcquisitionModes
<1>7. CASE ReadParameters BY <1>7 DEF ReadParameters
<1>8. CASE Install BY <1>8 DEF Install
<1>9. CASE WriteStart BY <1>9 DEF WriteStart, Threads
<1>10. CASE WriteStop BY <1>10, CallsType DEF WriteStop
<1>11. CASE WriteTrigger BY <1>11 DEF WriteTrigger, Threads
<1>12. CASE WriteAcquisitionMode BY <1>12 DEF WriteAcquisitionMode
<1>13. CASE CallFromHandler BY <1>13, CallsType DEF CallFromHandler
<1>14. CASE UseNothing BY <1>14 DEF UseNothing
<1>15. ASSUME NEW t \in Threads, Wakes(t) PROVE TypeOK'
    BY <1>15, CallsType DEF Wakes
<1>16. CASE RunThrows BY <1>16 DEF RunThrows
<1>17. CASE RunReturns BY <1>17 DEF RunReturns
<1>18. CASE TriggerEnds BY <1>18 DEF TriggerEnds
<1>19. CASE Exit BY <1>19 DEF Exit
<1>20. CASE UNCHANGED vars BY <1>20 DEF vars
<1> QED BY <1>1, <1>2, <1>3, <1>4, <1>5, <1>6, <1>7, <1>8, <1>9, <1>10, <1>11,
           <1>12, <1>13, <1>14, <1>15, <1>16, <1>17, <1>18, <1>19, <1>20 DEF Next

\* Every step of the constructor leaves behind what the next stages rely on.
LEMMA StartupStageStep ==
    StartupIInv /\ [Next]_vars => Passed' /\ Quiet' /\ ThreadsAreLast' /\ Disconnected'
<1> SUFFICES ASSUME StartupIInv, [Next]_vars
             PROVE  Passed' /\ Quiet' /\ ThreadsAreLast' /\ Disconnected'
    OBVIOUS
<1> USE DEF StartupIInv, Passed, Quiet, ThreadsAreLast, Disconnected, Threadless,
            Constructing, setUp, client, outside
<1>1. CASE CreateEvents BY <1>1 DEF CreateEvents
<1>2. CASE Throws BY <1>2 DEF Throws
<1>3. CASE LoadConfig BY <1>3 DEF LoadConfig
<1>4. CASE LoadConfigThrows BY <1>4 DEF LoadConfigThrows
<1>5. CASE CheckSize BY <1>5 DEF CheckSize, TypeOK
<1>6. CASE ReadIdentity BY <1>6 DEF ReadIdentity
<1>7. CASE ReadParameters BY <1>7 DEF ReadParameters
<1>8. CASE Install BY <1>8 DEF Install
<1>9. CASE WriteStart BY <1>9 DEF WriteStart, Writable, Up, Returned
<1>10. CASE WriteStop BY <1>10 DEF WriteStop, Writable, Up, Returned
<1>11. CASE WriteTrigger BY <1>11 DEF WriteTrigger, Writable, Up, Returned
<1>12. CASE WriteAcquisitionMode
    BY <1>12 DEF WriteAcquisitionMode, Writable, Up, Returned
<1>13. CASE CallFromHandler BY <1>13 DEF CallFromHandler
<1>14. CASE UseNothing BY <1>14 DEF UseNothing
<1>15. ASSUME NEW t \in Threads, Wakes(t)
       PROVE  Passed' /\ Quiet' /\ ThreadsAreLast' /\ Disconnected'
    BY <1>15 DEF Wakes, Up, Returned
<1>16. CASE RunThrows BY <1>16 DEF RunThrows, In, Up, Returned
<1>17. CASE RunReturns BY <1>17 DEF RunReturns, In, Up, Returned
<1>18. CASE TriggerEnds BY <1>18 DEF TriggerEnds, In, Up, Returned
<1>19. CASE Exit BY <1>19 DEF Exit, Returned
<1>20. CASE UNCHANGED vars BY <1>20 DEF vars
<1> QED BY <1>1, <1>2, <1>3, <1>4, <1>5, <1>6, <1>7, <1>8, <1>9, <1>10, <1>11,
           <1>12, <1>13, <1>14, <1>15, <1>16, <1>17, <1>18, <1>19, <1>20 DEF Next

\* No step calls a detector that is out of bounds for the caller.
LEMMA StartupCallStep == StartupIInv /\ [Next]_vars => CallsSetUp'
<1> SUFFICES ASSUME StartupIInv, [Next]_vars PROVE CallsSetUp' OBVIOUS
<1>t. TypeOK /\ CallsSetUp
    BY DEF StartupIInv
<1>h. "handler" \notin Threads
    BY DEF Threads
<1>1. CASE CallFromHandler \/ WriteStop
    <2>1. Calls("handler") /\ connected /\ UNCHANGED <<detector, connected>>
        BY <1>1 DEF CallFromHandler, WriteStop, Writable
    <2>2. \A w, d : <<w, d>> \in reached' =>
            <<w, d>> \in reached \/ (w = "handler" /\ d = detector)
        BY <1>t, <2>1, CallsType
    <2> QED
        BY <1>t, <1>h, <2>1, <2>2 DEF CallsSetUp
<1>2. ASSUME NEW t \in Threads, Wakes(t) PROVE CallsSetUp'
    <2>1. Calls(t) /\ t \in threads /\ UNCHANGED <<detector, connected>>
        BY <1>2 DEF Wakes
    <2>2. detector \notin NotSetUp
        BY <2>1 DEF StartupIInv, ThreadsAreLast, NotSetUp
    <2>3. \A w, d : <<w, d>> \in reached' =>
            <<w, d>> \in reached \/ (w = t /\ d = detector)
        BY <1>t, <2>1, CallsType
    <2> QED
        BY <1>t, <1>h, <2>1, <2>2, <2>3 DEF CallsSetUp, NotSetUp
<1>3. CASE LoadConfigThrows
    BY <1>t, <1>3 DEF LoadConfigThrows, CallsSetUp, outside
<1>4. CASE UNCHANGED reached /\ ~LoadConfigThrows
    <2>1. /\ detector' = "unconfigured" => detector = "unconfigured"
          /\ connected' => connected
        BY <1>4 DEF Next, CreateEvents, Throws, LoadConfig, CheckSize,
           ReadIdentity, ReadParameters, Install, WriteStart, WriteStop,
           WriteTrigger, WriteAcquisitionMode, CallFromHandler, UseNothing,
           Wakes, RunThrows, RunReturns, TriggerEnds, Exit, vars, outside, setUp
    <2> QED
        BY <1>t, <1>4, <2>1 DEF CallsSetUp
<1>5. UNCHANGED reached \/ CallFromHandler \/ WriteStop
        \/ \E t \in Threads : Wakes(t)
    BY DEF Next, CreateEvents, Throws, LoadConfig, LoadConfigThrows, CheckSize,
       ReadIdentity, ReadParameters, Install, WriteStart, WriteTrigger,
       WriteAcquisitionMode, UseNothing, RunThrows, RunReturns, TriggerEnds,
       Exit, vars, outside
<1> QED
    BY <1>1, <1>2, <1>3, <1>4, <1>5

\* The inductive invariant holds in every reachable state.
THEOREM StartupInvariance == Spec => []StartupIInv
<1>1. StartupIInv /\ [Next]_vars => StartupIInv' BY StartupTypeStep, StartupStageStep,
    StartupCallStep DEF StartupIInv
<1> QED BY StartupInitInv, <1>1, PTL DEF Spec

\* Every variable is of its type.
THEOREM StartupTypes == Spec => []TypeOK
<1>1. StartupIInv => TypeOK BY DEF StartupIInv
<1> QED BY <1>1, StartupInvariance, PTL

\* The two threads call no detector that was not configured or is too large for
\* the port, whichever way the constructor was left and whatever was written.
THEOREM ThreadsCall == Spec => []ThreadsCallSetUp
<1>1. StartupIInv => ThreadsCallSetUp
    BY DEF StartupIInv, ThreadsCallSetUp, CallsSetUp, Passed, ThreadsAreLast, Ended
<1> QED BY <1>1, StartupInvariance, PTL

\* With ADCore 3.10 or later a failed configuration shows for ever, no start is
\* accepted after it, and no handler calls the detector.
THEOREM FailureShows == Spec => []FailedConfigIsLeftAlone
<1>1. StartupIInv => FailedConfigIsLeftAlone
    BY DEF StartupIInv, FailedConfigIsLeftAlone, Disconnected, CallsSetUp
<1> QED BY <1>1, StartupInvariance, PTL

\* Both: what the constructor's early returns take care of.
THEOREM EarlyReturnContained == Spec => []EarlyReturnIsContained
<1>1. ThreadsCallSetUp /\ FailedConfigIsLeftAlone => EarlyReturnIsContained
    BY DEF EarlyReturnIsContained
<1> QED BY <1>1, ThreadsCall, FailureShows, PTL

-----------------------------------------------------------------------------
(***************************************************************************)
(* Enumerations and readings.                                              *)
(***************************************************************************)
OfferedIsFunction ==
    offered \in [Enums -> SUBSET ((UNION {Lists[f] : f \in Enums}) \cup {-1})]

\* Once the setting has been read, the parameter of a detector that is sent it
\* with others is one that the detector has answered with.
ParamIsTold == detectorType # "other" /\ told # {} => param \in told

ReadingsIInv ==
    /\ ReadingsTypeOK /\ OfferedIsFunction
    /\ ParamIsTold /\ OnlyToldSettingsAreCarried

\* A detector has one of its settings, whatever it takes.
LEMMA MayHaveType ==
    ASSUME NEW v PROVE MayHave(v) \subseteq Lists["SDSetting"]
BY DEF MayHave

\* What is read of a parameter that has been told is what was told.
LEMMA GotTold ==
    ASSUME ReadingsIInv, told # {}, detectorType # "other", NEW garbage
    PROVE  Got(param, garbage) = {param} /\ param \in told
<1>1. param \in told /\ told \subseteq Lists["SDSetting"]
    BY DEF ReadingsIInv, ParamIsTold, ReadingsTypeOK
<1>2. Undefined \notin Lists["SDSetting"]
    BY ListsAssumption, EnumsAssumption DEF Enums
<1> QED
    BY <1>1, <1>2 DEF Got

\* At the start the setting is told or undefined.
LEMMA ReadingsInitInv == ReadingsInit => ReadingsIInv
<1> SUFFICES ASSUME ReadingsInit PROVE ReadingsIInv
    OBVIOUS
<1>1. told = {} \/ (told = {param} /\ param = setting)
    BY DEF ReadingsInit
<1>2. ReadingsTypeOK /\ OfferedIsFunction
    BY <1>1 DEF ReadingsInit, ReadingsTypeOK, OfferedIsFunction
<1> QED
    BY <1>1, <1>2
       DEF ReadingsInit, ReadingsIInv, ParamIsTold, OnlyToldSettingsAreCarried

\* A temperature is read at an address, of a module or of none.
LEMMA TemperatureInv ==
    ASSUME ReadingsIInv, NEW a \in Addresses,
           ReadTemperature(a) \/ ReadTemperatureBeyond(a)
    PROVE  ReadingsIInv'
<1> USE DEF fixed, chosen, ReadingsIInv, ReadingsTypeOK, OfferedIsFunction,
            ParamIsTold, OnlyToldSettingsAreCarried
<1>1. CASE ReadTemperature(a)
    BY <1>1 DEF ReadTemperature
<1>2. CASE ReadTemperatureBeyond(a)
    BY <1>2 DEF ReadTemperatureBeyond
<1> QED
    BY <1>1, <1>2

LEMMA EnumInv ==
    ASSUME ReadingsIInv, NEW f \in Enums, ReadEnum(f) \/ ReadEnumThrows(f)
    PROVE  ReadingsIInv'
<1> USE DEF fixed, chosen, ReadingsIInv, ReadingsTypeOK,
            ParamIsTold, OnlyToldSettingsAreCarried
<1>1. ASSUME NEW choices \in SUBSET (Lists[f] \cup {-1}),
             offered' = [offered EXCEPT ![f] = choices]
      PROVE  /\ OfferedIsFunction'
             /\ \A g \in Enums : offered'[g] \subseteq Lists[g] \cup {-1}
    BY <1>1 DEF OfferedIsFunction
<1>2. CASE ReadEnum(f)
    <2>1. offered' = [offered EXCEPT ![f] = Lists[f]]
        BY <1>2 DEF ReadEnum
    <2> QED
        BY <1>1, <1>2, <2>1 DEF ReadEnum
<1>3. CASE ReadEnumThrows(f) /\ f = "SDSetting"
    <2>1. offered' = [offered EXCEPT ![f] = {-1}]
        BY <1>3 DEF ReadEnumThrows
    <2> QED
        BY <1>1, <1>3, <2>1 DEF ReadEnumThrows
<1>4. CASE ReadEnumThrows(f) /\ f # "SDSetting"
    BY <1>4 DEF ReadEnumThrows, OfferedIsFunction, Enums
<1> QED
    BY <1>2, <1>3, <1>4

\* A choice that is taken is told; one that is refused is taken back.
LEMMA ChoiceInv ==
    ASSUME ReadingsIInv, NEW v \in Lists["SDSetting"] \cup {-1},
           WriteSetting(v) \/ WriteSettingThrows(v)
    PROVE  ReadingsIInv'
<1> USE DEF fixed, ReadingsIInv, ReadingsTypeOK, OfferedIsFunction,
            ParamIsTold, OnlyToldSettingsAreCarried
<1>1. CASE WriteSetting(v) /\ Sent(v)
    <2>1. PICK s \in MayHave(v) :
            setting' = s /\ param' = s /\ told' = told \cup {s}
        BY <1>1 DEF WriteSetting, TakesAndTells
    <2> QED
        BY <1>1, <2>1, MayHaveType DEF WriteSetting
<1>2. CASE WriteSetting(v) /\ ~Sent(v)
    BY <1>2 DEF WriteSetting, Sent
<1>3. CASE WriteSettingThrows(v)
    <2>1. setting' \in Lists["SDSetting"]
        BY <1>3, MayHaveType DEF WriteSettingThrows
    <2>2. param' \in Lists["SDSetting"] \cup {-1, Undefined}
        BY <1>3 DEF WriteSettingThrows, Got
    <2>3. told # {} /\ detectorType # "other" => param' = param
        BY <1>3, GotTold DEF WriteSettingThrows
    <2> QED
        BY <1>3, <2>1, <2>2, <2>3 DEF WriteSettingThrows
<1> QED
    BY <1>1, <1>2, <1>3

\* What goes along with another parameter has been told.
LEMMA AlongInv ==
    ASSUME ReadingsIInv, NEW v \in Lists["SDSetting"] \cup {-1},
           WriteAlong(v) \/ WriteAlongThrows(v)
    PROVE  ReadingsIInv'
<1> USE DEF fixed, ReadingsIInv, ReadingsTypeOK, OfferedIsFunction,
            ParamIsTold, OnlyToldSettingsAreCarried
<1>1. Carries(v)
    BY DEF WriteAlong, WriteAlongThrows
<1>2. carried' \subseteq told
    <2>1. told # {} => v \in told
        BY <1>1, GotTold DEF Carries
    <2> QED
        BY <1>1, <2>1 DEF Carries
<1>3. CASE WriteAlong(v)
    <2>1. PICK s \in MayHave(v) :
            setting' = s /\ param' = s /\ told' = told \cup {s}
        BY <1>3 DEF WriteAlong, TakesAndTells
    <2> QED
        BY <1>1, <1>2, <2>1, MayHaveType DEF Carries
<1>4. CASE WriteAlongThrows(v)
    BY <1>1, <1>2, <1>4, MayHaveType DEF Carries, WriteAlongThrows
<1> QED
    BY <1>3, <1>4

\* The invariant under every step.
LEMMA ReadingsInvStep ==
    ReadingsIInv /\ [ReadingsNext]_readingsVars => ReadingsIInv'
<1>1. ReadingsIInv /\ UNCHANGED readingsVars => ReadingsIInv'
    BY DEF readingsVars, fixed, chosen, ReadingsIInv, ReadingsTypeOK,
           OfferedIsFunction, ParamIsTold, OnlyToldSettingsAreCarried
<1> QED
    BY <1>1, TemperatureInv, EnumInv, ChoiceInv, AlongInv
       DEF ReadingsNext, ReadNoTemperature

\* Every reachable state is well typed, for any modules, temperatures and lists.
THEOREM ReadingsTypes == ReadingsSpec => []ReadingsTypeOK
<1>1. ReadingsIInv => ReadingsTypeOK
    BY DEF ReadingsIInv
<1> QED
    BY <1>1, ReadingsInitInv, ReadingsInvStep, PTL DEF ReadingsSpec

\* For any detector, whichever lists and calls fail: neither a placeholder nor a
\* refused choice goes along with a parameter that is written later.
THEOREM SettingsCarried == ReadingsSpec => []OnlyToldSettingsAreCarried
<1>1. ReadingsIInv => OnlyToldSettingsAreCarried
    BY DEF ReadingsIInv
<1> QED
    BY <1>1, ReadingsInitInv, ReadingsInvStep, PTL DEF ReadingsSpec

-----------------------------------------------------------------------------
(***************************************************************************)
(* Requests and parameters, against any base class whose parameters have   *)
(* other names than the driver's and are more than the driver has.         *)
(***************************************************************************)
\* The driver's parameters have different names, each of them a name of the
\* members that are declared, in the class and in the database.
LEMMA CreatedLength == Len(Created) = 33 /\ NUM_SD_PARAMS = 33
BY DEF Created, Declared, NUM_SD_PARAMS

\* The driver's parameters: none is created twice, all have names, all are
\* declared.
LEMMA CreatedInjective == \A i, j \in 1 .. 33 : Created[i] = Created[j] => i = j
BY DEF Created

LEMMA CreatedNamed == \A i \in 1 .. 33 : Created[i] \in DOMAIN Names
BY DEF Created, Names

LEMMA NamedCreated == \A p \in DOMAIN Names : \E i \in 1 .. 33 : Created[i] = p
BY DEF Created, Names

LEMMA NamesInjective == \A p, q \in DOMAIN Names : Names[p] = Names[q] => p = q
BY DEF Names

LEMMA CreatedDeclared == \A i \in 1 .. 33 : Created[i] \in Range(Declared)
<1>1. \A i \in 1 .. 33 : \E j \in 1 .. 33 : Created[i] = Declared[j]
    BY DEF Created, Declared
<1>2. DOMAIN Declared = 1 .. 33
    BY DEF Declared
<1> QED
    BY <1>1, <1>2 DEF Range

-----------------------------------------------------------------------------
Parameters == Range(Base) \cup {Created[i] : i \in 1 .. 33}

BaseHas(b) == b = Len(Base)

\* The parameters of the base classes, b of them, come first, then n of the
\* driver's.
Library(b, n) ==
    /\ library \in [1 .. b + n -> Parameters]
    /\ \A i \in 1 .. b : library[i] = Base[i]
    /\ \A i \in b + 1 .. b + n : library[i] = Created[i - b]

\* The base class's parameters: there are enough, and none is the driver's.
LEMMA BaseType == Base \in Seq(Parameters)
BY BaseAssumption, SeqOfRange, SeqMonotonic DEF Parameters

LEMMA BaseSize == Len(Base) \in Nat /\ Len(Base) >= 33
BY BaseAssumption, CreatedLength, LenProperties

LEMMA BaseNames ==
    ASSUME NEW b \in Nat, BaseHas(b)
    PROVE  /\ b >= 33
           /\ \A i, j \in 1 .. b : Base[i] = Base[j] => i = j
           /\ \A i \in 1 .. b : Base[i] \in Range(Base)
           /\ \A i \in 1 .. b, j \in 1 .. 33 : Base[i] # Created[j]
<1>1. DOMAIN Base = 1 .. b
    BY BaseType, LenProperties DEF BaseHas
<1>2. b >= 33
    BY BaseSize DEF BaseHas
<1>3. IsInjective(Base) /\ Range(Base) \cap Range(Declared) = {}
    BY BaseAssumption
<1>4. /\ \A i, j \in 1 .. b : Base[i] = Base[j] => i = j
      /\ \A i \in 1 .. b : Base[i] \in Range(Base)
    BY <1>1, <1>3 DEF Range, IsInjective
<1>5. \A i \in 1 .. b, j \in 1 .. 33 : Base[i] # Created[j]
    BY <1>3, <1>4, CreatedDeclared
<1> QED
    BY <1>2, <1>4, <1>5

\* What the type invariant says of the library, without sequences.
LEMMA LibraryIs ==
    ASSUME NEW b \in Nat, BaseHas(b), NEW n \in 0 .. 33
    PROVE  library = Base \o SubSeq(Created, 1, n) <=> Library(b, n)
<1> DEFINE own == SubSeq(Created, 1, n)
           all == Base \o own
<1>1. /\ own \in Seq(Parameters) /\ Len(own) = n
      /\ \A i \in 1 .. n : own[i] = Created[i]
    <2>1. \A i \in 1 .. n : Created[i] \in Parameters
        BY DEF Parameters
    <2>2. /\ own \in Seq(Parameters)
          /\ Len(own) = IF 1 <= n THEN n - 1 + 1 ELSE 0
          /\ \A i \in 1 .. n - 1 + 1 : own[i] = Created[1 + i - 1]
        BY <2>1, SubSeqProperties
    <2>3. n - 1 + 1 = n /\ \A i \in 1 .. n : 1 + i - 1 = i
        OBVIOUS
    <2> HIDE DEF own
    <2>4. Len(own) = n
        BY <2>2, <2>3
    <2>5. ASSUME NEW i \in 1 .. n PROVE own[i] = Created[i]
        <3>1. i \in 1 .. n - 1 + 1 /\ 1 + i - 1 = i
            BY <2>3
        <3> QED
            BY <2>2, <3>1
    <2> QED
        BY <2>2, <2>4, <2>5
<1> HIDE DEF own
<1>2. /\ all \in Seq(Parameters) /\ Len(all) = b + n
      /\ \A i \in 1 .. b + n :
            all[i] = IF i <= b THEN Base[i] ELSE own[i - b]
    BY <1>1, BaseType, ConcatProperties DEF BaseHas
<1> HIDE DEF all
<1>3. /\ \A i \in 1 .. b : all[i] = Base[i]
      /\ \A i \in b + 1 .. b + n : all[i] = Created[i - b]
    <2>1. \A i \in 1 .. b : i \in 1 .. b + n /\ i <= b
        OBVIOUS
    <2>2. \A i \in b + 1 .. b + n :
            i \in 1 .. b + n /\ ~(i <= b) /\ i - b \in 1 .. n
        OBVIOUS
    <2> QED
        BY <1>1, <1>2, <2>1, <2>2
<1>4. all \in [1 .. b + n -> Parameters]
    BY <1>2, LenProperties
<1>5. ASSUME Library(b, n) PROVE library = all
    <2>1. library \in [1 .. b + n -> Parameters]
        BY <1>5 DEF Library
    <2>2. ASSUME NEW i \in 1 .. b + n PROVE library[i] = all[i]
        <3>1. i \in 1 .. b \/ i \in b + 1 .. b + n
            BY DEF BaseHas
        <3> QED
            BY <1>3, <1>5, <3>1 DEF Library
    <2> QED
        BY <1>4, <2>1, <2>2
<1> QED
    BY <1>3, <1>4, <1>5 DEF Library, all, own

\* Every index is that of a parameter of the base classes or of the driver.
LEMMA BaseOrOwn ==
    ASSUME NEW b \in Nat, BaseHas(b), NEW n \in 0 .. 33, Library(b, n),
           NEW i \in 1 .. b + n
    PROVE  \/ /\ i \in 1 .. b /\ library[i] = Base[i]
              /\ library[i] \in Range(Base)
           \/ /\ i \in b + 1 .. b + n
              /\ i - b \in 1 .. n /\ i - b \in 1 .. 33
              /\ library[i] = Created[i - b]
<1>1. \/ i \in 1 .. b
      \/ i \in b + 1 .. b + n /\ i - b \in 1 .. n /\ i - b \in 1 .. 33
    OBVIOUS
<1>2. /\ i \in 1 .. b => library[i] = Base[i]
      /\ i \in b + 1 .. b + n => library[i] = Created[i - b]
    BY DEF Library
<1> QED
    BY <1>1, <1>2, BaseNames

\* No parameter is in the library twice.
LEMMA LibraryInjective ==
    ASSUME NEW b \in Nat, BaseHas(b), NEW n \in 0 .. 33, Library(b, n)
    PROVE  \A i, j \in DOMAIN library : library[i] = library[j] => i = j
<1> SUFFICES ASSUME NEW i \in 1 .. b + n, NEW j \in 1 .. b + n,
                    library[i] = library[j]
             PROVE  i = j
    BY DEF Library
<1>1. \/ i \in 1 .. b /\ library[i] = Base[i]
      \/ i - b \in 1 .. 33 /\ library[i] = Created[i - b]
    BY BaseOrOwn
<1>2. \/ j \in 1 .. b /\ library[j] = Base[j]
      \/ j - b \in 1 .. 33 /\ library[j] = Created[j - b]
    BY BaseOrOwn
<1>3. CASE i \in 1 .. b /\ library[i] = Base[i]
    BY <1>2, <1>3, BaseNames
<1>4. CASE i - b \in 1 .. 33 /\ library[i] = Created[i - b]
    <2>1. j - b \in 1 .. 33 /\ library[j] = Created[j - b]
        BY <1>2, <1>4, BaseNames
    <2>2. i - b = j - b
        BY <1>4, <2>1, CreatedInjective
    <2> QED
        BY <2>2
<1> QED
    BY <1>1, <1>3, <1>4

\* How far the constructor has come can be told from the library.
LEMMA LibraryLength ==
    ASSUME NEW b \in Nat, BaseHas(b), NEW n \in 0 .. 33, Library(b, n)
    PROVE  Len(library) = b + n /\ (Complete <=> n = 33)
<1>1. Len(library) = b + n
    <2>0. b + n \in Nat
        OBVIOUS
    <2>1. library \in [1 .. b + n -> Parameters]
        BY DEF Library
    <2>2. library \in Seq(Parameters) /\ DOMAIN library = 1 .. b + n
        BY <2>0, <2>1, SeqDef
    <2>3. Len(library) \in Nat /\ DOMAIN library = 1 .. Len(library)
        BY <2>2, LenProperties
    <2> QED
        BY <2>0, <2>2, <2>3
<1> QED
    BY <1>1, CreatedLength DEF Complete, BaseHas

\* The place of a created parameter.
LEMMA PlaceOf ==
    ASSUME NEW b \in Nat, Library(b, 33), NEW i \in 1 .. 33
    PROVE  b + i \in DOMAIN library /\ library[b + i] = Created[i]
BY DEF Library

\* The index of each of the driver's parameters.
LEMMA IndexIs ==
    ASSUME NEW b \in Nat, BaseHas(b), Library(b, 33), NEW i \in 1 .. 33
    PROVE  index(Created[i]) = b + i - 1
<1> DEFINE place == CHOOSE j \in DOMAIN library : library[j] = Created[i]
<1>1. b + i \in DOMAIN library /\ library[b + i] = Created[i]
    BY PlaceOf
<1>2. \A j \in DOMAIN library : library[j] = Created[i] => j = b + i
    BY <1>1, LibraryInjective
<1>3. place = b + i
    BY <1>1, <1>2
<1>4. index(Created[i]) = place - 1
    BY DEF index
<1> HIDE DEF place
<1> QED
    BY <1>3, <1>4

\* The indices that the handlers calculate with, once all are created.
LEMMA Indices ==
    ASSUME NEW b \in Nat, BaseHas(b), Library(b, 33)
    PROVE  /\ FIRST_SD_PARAM = b
           /\ index("SDGate1Delay") = b + 20
           /\ index("SDGate3Delay") = b + 22
           /\ index("SDGate1Width") = b + 23
           /\ index("SDGate3Width") = b + 25
<1>1. /\ Created[1] = "SDDetectorType" /\ Created[21] = "SDGate1Delay"
      /\ Created[23] = "SDGate3Delay" /\ Created[24] = "SDGate1Width"
      /\ Created[26] = "SDGate3Width"
    BY DEF Created
<1>2. /\ index(Created[1]) = b + 1 - 1
      /\ index(Created[21]) = b + 21 - 1
      /\ index(Created[23]) = b + 23 - 1
      /\ index(Created[24]) = b + 24 - 1
      /\ index(Created[26]) = b + 26 - 1
    BY IndexIs
<1> QED
    BY <1>1, <1>2 DEF FIRST_SD_PARAM

\* What a write with an index reaches: a parameter of the base classes or one
\* of the driver's.
LEMMA ParameterAt ==
    ASSUME NEW b \in Nat, BaseHas(b), Library(b, 33),
           NEW f \in 0 .. b + 33 - 1
    PROVE  /\ f < b => library[f + 1] \in Range(Base)
           /\ f >= b => /\ f - b + 1 \in 1 .. 33
                        /\ library[f + 1] = Created[f - b + 1]
<1>1. /\ f + 1 \in 1 .. b + 33
      /\ f < b => f + 1 \in 1 .. b
      /\ f >= b => /\ f - b + 1 \in 1 .. 33
                   /\ f + 1 - b = f - b + 1
                   /\ f + 1 \notin 1 .. b
    OBVIOUS
<1>2. ASSUME NEW j \in 1 .. b + 33
      PROVE  /\ j \in 1 .. b => library[j] \in Range(Base)
             /\ j \notin 1 .. b => library[j] = Created[j - b]
    BY BaseOrOwn
<1> QED
    BY <1>1, <1>2

-----------------------------------------------------------------------------
\* What the last call has led to, by kind: only writes of Float64 get to gates,
\* and a record gets the parameter that it is called after.
CallIsRight ==
    call # None =>
        /\ call.callee = "setGateDelay" <=>
                call.interface = "Float64" /\ call.param \in Range(Delays)
        /\ call.callee = "setExptime" <=>
                call.interface = "Float64" /\ call.param \in Range(Widths)
        /\ call.callee = "setGateDelay" => call.param = Delays[call.gate]
        /\ call.callee = "setExptime" => call.param = Widths[call.gate]
        /\ call.callee = "base" => call.param \in Range(Base)
        /\ call.interface = "drvUser" => call.param = Records[call.name]

LibraryIsPrefix == \E b \in Nat, n \in 0 .. 33 : BaseHas(b) /\ Library(b, n)

DispatchIInv ==
    LibraryIsPrefix /\ (call # None => Complete) /\ CallIsRight

\* The three delays and the three widths stand one after the other.
LEMMA GateNames ==
    /\ Range(Delays) = {"SDGate1Delay", "SDGate2Delay", "SDGate3Delay"}
    /\ Range(Widths) = {"SDGate1Width", "SDGate2Width", "SDGate3Width"}
    /\ \A j \in 1 .. 3 : Delays[j] = Created[20 + j] /\ Widths[j] = Created[23 + j]
    /\ \A i \in 1 .. 33 : /\ Created[i] \in Range(Delays) <=> i \in 21 .. 23
                          /\ Created[i] \in Range(Widths) <=> i \in 24 .. 26
    /\ Range(Delays) \subseteq Range(Declared)
    /\ Range(Widths) \subseteq Range(Declared)
<1>1. DOMAIN Delays = 1 .. 3 /\ DOMAIN Widths = 1 .. 3
    BY DEF Delays, Widths
<1>2. /\ Range(Delays) = {"SDGate1Delay", "SDGate2Delay", "SDGate3Delay"}
      /\ Range(Widths) = {"SDGate1Width", "SDGate2Width", "SDGate3Width"}
    BY <1>1 DEF Range, Delays, Widths
<1>3. \A j \in 1 .. 3 : Delays[j] = Created[20 + j] /\ Widths[j] = Created[23 + j]
    BY DEF Delays, Widths, Created
<1>4. \A i \in 1 .. 33 : /\ Created[i] \in Range(Delays) <=> i \in 21 .. 23
                         /\ Created[i] \in Range(Widths) <=> i \in 24 .. 26
    BY <1>2 DEF Created
<1>5. /\ Range(Delays) \subseteq Range(Declared)
      /\ Range(Widths) \subseteq Range(Declared)
    BY <1>4, <1>3, <1>1, CreatedDeclared DEF Range
<1> QED
    BY <1>2, <1>3, <1>4, <1>5

\* The invariant at the start, and under creation.
LEMMA DispatchInitInv == DispatchInit => DispatchIInv
<1> SUFFICES ASSUME DispatchInit PROVE DispatchIInv
    OBVIOUS
<1>1. PICK b \in Nat : BaseHas(b)
    BY BaseSize DEF BaseHas
<1>2. Base \o SubSeq(Created, 1, 0) = Base
    BY BaseType, SubSeqEmpty, ConcatEmptySeq
<1>3. Library(b, 0)
    <2>1. library = Base \o SubSeq(Created, 1, 0)
        BY <1>2 DEF DispatchInit
    <2> QED
        BY <1>1, <2>1, LibraryIs
<1> QED
    BY <1>1, <1>3 DEF DispatchInit, DispatchIInv, LibraryIsPrefix, CallIsRight

LEMMA CreateInv == ASSUME DispatchIInv, createParam PROVE DispatchIInv'
<1>1. PICK b \in Nat, n \in 0 .. 33 : BaseHas(b) /\ Library(b, n)
    BY DEF DispatchIInv, LibraryIsPrefix
<1>2. Len(library) = b + n
    BY <1>1, LibraryLength
<1>3. n < 33 /\ n + 1 \in 0 .. 33
    <2>1. b + n < b + 33
        BY <1>1, <1>2, CreatedLength DEF createParam, BaseHas
    <2> QED
        BY <2>1
<1>4. library' = Append(library, Created[n + 1])
    <2>1. b + n - b + 1 = n + 1
        OBVIOUS
    <2> QED
        BY <1>1, <1>2, <2>1 DEF createParam, BaseHas
<1>5. Library(b, n + 1)'
    <2>1. library \in [1 .. b + n -> Parameters]
        BY <1>1 DEF Library
    <2>2. library \in Seq(Parameters)
        BY <2>1, SeqDef
    <2>3. Created[n + 1] \in Parameters
        BY <1>3 DEF Parameters
    <2>4. /\ library' \in Seq(Parameters) /\ Len(library') = b + n + 1
          /\ \A i \in 1 .. b + n : library'[i] = library[i]
          /\ library'[b + n + 1] = Created[n + 1]
        BY <1>2, <1>4, <2>2, <2>3, AppendProperties
    <2>5. library' \in [1 .. b + (n + 1) -> Parameters]
        <3>1. library' \in [1 .. b + n + 1 -> Parameters]
            BY <2>4, LenProperties
        <3> QED
            BY <3>1
    <2>6. /\ \A i \in 1 .. b + n : library'[i] = library[i]
          /\ library'[b + n + 1] = Created[n + 1]
        BY <2>4
    <2>7. \A i \in 1 .. b : library'[i] = Base[i]
        BY <1>1, <2>6 DEF Library
    <2>8. ASSUME NEW i \in b + 1 .. b + (n + 1)
          PROVE  library'[i] = Created[i - b]
        <3>1. CASE i \in b + 1 .. b + n
            <4>1. library[i] = Created[i - b]
                BY <1>1, <3>1 DEF Library
            <4> QED
                BY <2>6, <3>1, <4>1
        <3>2. CASE i = b + n + 1
            <4>1. i - b = n + 1
                BY <3>2
            <4> QED
                BY <2>6, <3>2, <4>1
        <3> QED
            BY <3>1, <3>2
    <2> QED
        BY <2>5, <2>7, <2>8 DEF Library
<1>6. call = None /\ call' = None
    <2>0. n # 33
        BY <1>3
    <2>1. ~Complete
        BY <1>1, <2>0, LibraryLength
    <2>2. call' = call
        BY DEF createParam
    <2> QED
        BY <2>1, <2>2 DEF DispatchIInv
<1> QED
    BY <1>1, <1>3, <1>5, <1>6 DEF DispatchIInv, LibraryIsPrefix, CallIsRight, BaseHas

\* A call that leads somewhere leaves the library as it is.
LEMMA LeadsInv ==
    ASSUME DispatchIInv, UNCHANGED library, Complete,
           CallIsRight'
    PROVE  DispatchIInv'
BY DEF DispatchIInv, LibraryIsPrefix, Library, Complete

\* The comparisons of writeInt32 and its like find the parameter itself, or the
\* base class's.
LEMMA WriteSingleInv ==
    ASSUME DispatchIInv, NEW f \in 0 .. Len(library) - 1,
           NEW interface \in Interfaces, WriteSingle(interface, f)
    PROVE  DispatchIInv'
<1>0. /\ Complete /\ UNCHANGED library /\ interface # "Float64"
      /\ call' = [interface |-> interface, param |-> library[f + 1],
                  callee |-> IF library[f + 1] \in Handled(interface) THEN "detector"
                             ELSE IF /\ interface = "Int32"
                                     /\ library[f + 1] \in Unchangeable
                             THEN "nothing"
                             ELSE IF f < FIRST_SD_PARAM THEN "base"
                             ELSE "nothing",
                  gate |-> 0]
    BY DEF WriteSingle, Leads
<1>1. PICK b \in Nat : BaseHas(b) /\ Library(b, 33) /\ Len(library) = b + 33
    BY <1>0, LibraryLength DEF DispatchIInv, LibraryIsPrefix
<1>2. f \in 0 .. b + 33 - 1
    BY <1>1
<1>3. f < FIRST_SD_PARAM => library[f + 1] \in Range(Base)
    BY <1>1, <1>2, ParameterAt, Indices
<1>4. interface # "drvUser"
    BY DEF Interfaces
<1>5. CallIsRight'
    BY <1>0, <1>3, <1>4 DEF CallIsRight
<1> QED
    BY <1>0, <1>5, LeadsInv

\* The index ranges of writeFloat64 are those of the gates, in their order.
LEMMA WriteFloat64Inv ==
    ASSUME DispatchIInv, NEW f \in 0 .. Len(library) - 1, Complete, WriteFloat64(f)
    PROVE  DispatchIInv'
<1> DEFINE callee == call'.callee
           gate   == call'.gate
<1>1. PICK b \in Nat : BaseHas(b) /\ Library(b, 33) /\ Len(library) = b + 33
    BY LibraryLength DEF DispatchIInv, LibraryIsPrefix
<1>2. f \in 0 .. b + 33 - 1
    BY <1>1
<1>3. /\ index("SDGate1Delay") = b + 20 /\ index("SDGate3Delay") = b + 22
      /\ index("SDGate1Width") = b + 23 /\ index("SDGate3Width") = b + 25
    BY <1>1, Indices
<1>4. /\ UNCHANGED library
      /\ call'.interface = "Float64" /\ call'.param = library[f + 1]
      /\ IF library[f + 1] \in Times THEN callee = "detector"
         ELSE IF b + 20 <= f /\ f <= b + 22
         THEN callee = "setGateDelay" /\ gate = f - (b + 20) + 1
         ELSE IF b + 23 <= f /\ f <= b + 25
         THEN callee = "setExptime" /\ gate = f - (b + 23) + 1
         ELSE callee = IF f < NUM_SD_PARAMS THEN "base" ELSE "nothing"
    BY <1>3 DEF WriteFloat64, Leads
<1>5. /\ f < b => library[f + 1] \in Range(Base)
      /\ f >= b => /\ f - b + 1 \in 1 .. 33
                   /\ library[f + 1] = Created[f - b + 1]
    BY <1>1, <1>2, ParameterAt
<1>6. /\ library[f + 1] \in Range(Delays) <=> b + 20 <= f /\ f <= b + 22
      /\ library[f + 1] \in Range(Widths) <=> b + 23 <= f /\ f <= b + 25
    <2>1. CASE f < b
        <3>1. library[f + 1] \notin Range(Declared)
            BY <1>5, <2>1, BaseAssumption
        <3>2. ~(b + 20 <= f) /\ ~(b + 23 <= f)
            BY <1>2, <2>1
        <3> QED
            BY <3>1, <3>2, GateNames
    <2>2. CASE f >= b
        <3>1. /\ f - b + 1 \in 21 .. 23 <=> b + 20 <= f /\ f <= b + 22
              /\ f - b + 1 \in 24 .. 26 <=> b + 23 <= f /\ f <= b + 25
            BY <1>2
        <3> QED
            BY <1>5, <2>2, <3>1, GateNames
    <2> QED
        BY <1>2, <2>1, <2>2
<1>7. /\ b + 20 <= f /\ f <= b + 22 =>
            library[f + 1] = Delays[f - (b + 20) + 1]
      /\ b + 23 <= f /\ f <= b + 25 =>
            library[f + 1] = Widths[f - (b + 23) + 1]
    <2>1. CASE b + 20 <= f /\ f <= b + 22
        <3>1. PICK j \in 1 .. 3 : j = f - (b + 20) + 1
            BY <1>2, <2>1
        <3>2. f - b + 1 = 20 + j /\ f >= b /\ ~(b + 23 <= f)
            BY <1>2, <2>1, <3>1
        <3> QED
            BY <1>5, <3>1, <3>2, GateNames
    <2>2. CASE b + 23 <= f /\ f <= b + 25
        <3>1. PICK j \in 1 .. 3 : j = f - (b + 23) + 1
            BY <1>2, <2>2
        <3>2. f - b + 1 = 23 + j /\ f >= b /\ ~(f <= b + 22)
            BY <1>2, <2>2, <3>1
        <3> QED
            BY <1>5, <3>1, <3>2, GateNames
    <2> QED
        BY <2>1, <2>2
<1>8. library[f + 1] \in Times =>
        library[f + 1] \notin Range(Delays) /\ library[f + 1] \notin Range(Widths)
    BY GateNames DEF Times
<1>9. f < NUM_SD_PARAMS => f < b
    BY <1>1, <1>2, BaseNames, CreatedLength
<1>10. CallIsRight'
    <2>1. callee = "base" => library[f + 1] \in Range(Base)
        BY <1>4, <1>5, <1>9
    <2>2. /\ callee = "setGateDelay" <=> library[f + 1] \in Range(Delays)
          /\ callee = "setExptime" <=> library[f + 1] \in Range(Widths)
        BY <1>2, <1>4, <1>6, <1>8
    <2>3. /\ callee = "setGateDelay" => library[f + 1] = Delays[gate]
          /\ callee = "setExptime" => library[f + 1] = Widths[gate]
        BY <1>4, <1>6, <1>7, <2>2
    <2> QED
        BY <1>4, <2>1, <2>2, <2>3 DEF CallIsRight
<1> QED
    BY <1>4, <1>10, LeadsInv

\* The parameters that have the name are the one that the record means.
LEMMA FindParamInv ==
    ASSUME DispatchIInv, NEW name \in DOMAIN Records, FindParam(name)
    PROVE  DispatchIInv'
<1> DEFINE found == {i \in DOMAIN library : library[i] \in DOMAIN Names
                                               /\ Names[library[i]] = name}
           p == Records[name]
<1>0. /\ Complete /\ UNCHANGED library
      /\ call' = [interface |-> "drvUser", name |-> name,
                  callee |-> "nothing", gate |-> 0,
                  param |-> IF found = {} THEN NotFound ELSE library[Min(found)]]
    BY DEF FindParam
<1>1. PICK b \in Nat : BaseHas(b) /\ Library(b, 33)
    BY <1>0, LibraryLength DEF DispatchIInv, LibraryIsPrefix
<1>2. p \in DOMAIN Names /\ Names[p] = name
    BY RecordsAssumption
<1>3. PICK k \in 1 .. 33 : Created[k] = p
    BY <1>2, NamedCreated
<1>4. b + k \in DOMAIN library /\ library[b + k] = p
    BY <1>1, <1>3, PlaceOf
<1>5. found = {b + k}
    <2>1. b + k \in found
        BY <1>2, <1>4
    <2>2. \A i \in found : library[i] = p
        BY <1>2, NamesInjective
    <2> QED
        BY <1>1, <1>4, <2>1, <2>2, LibraryInjective
<1>6. Min(found) = b + k
    BY <1>5 DEF Min
<1>7. CallIsRight'
    BY <1>0, <1>4, <1>5, <1>6 DEF CallIsRight
<1> QED
    BY <1>0, <1>7, LeadsInv

\* The invariant under every request.
LEMMA DispatchInvStep ==
    DispatchIInv /\ [DispatchNext]_dispatchVars => DispatchIInv'
<1>1. DispatchIInv /\ UNCHANGED dispatchVars => DispatchIInv'
    BY DEF dispatchVars, DispatchIInv, LibraryIsPrefix, Library, CallIsRight,
           Complete
<1> QED
    BY <1>1, CreateInv, WriteSingleInv, WriteFloat64Inv, FindParamInv
       DEF DispatchNext

\* What the requests have done is what was asked.
LEMMA DispatchInvShows ==
    DispatchIInv => DispatchTypeOK /\ WritesFindTheirParameter
<1> SUFFICES ASSUME DispatchIInv
             PROVE  DispatchTypeOK /\ WritesFindTheirParameter
    OBVIOUS
<1>1. PICK b \in Nat, n \in 0 .. 33 : BaseHas(b) /\ Library(b, n)
    BY DEF DispatchIInv, LibraryIsPrefix
<1>2. DispatchTypeOK
    <2>1. library = Base \o SubSeq(Created, 1, n)
        BY <1>1, LibraryIs
    <2>2. IsInjective(library)
        BY <1>1, LibraryInjective DEF IsInjective
    <2>3. call = None \/ Len(library) = Len(Base) + NUM_SD_PARAMS
        BY CreatedLength DEF DispatchIInv, Complete
    <2>4. n \in 0 .. Len(Created)
        BY CreatedLength
    <2> QED
        BY <2>1, <2>2, <2>3, <2>4 DEF DispatchTypeOK
<1>3. Complete => \A j \in 0 .. 2 :
                    library[index("SDGate1Width") + j + 1] = Widths[j + 1]
    <2> SUFFICES ASSUME Complete, NEW j \in 0 .. 2
                 PROVE  library[index("SDGate1Width") + j + 1] = Widths[j + 1]
        OBVIOUS
    <2>1. n = 33
        BY <1>1, LibraryLength
    <2>2. index("SDGate1Width") = b + 23
        BY <1>1, <2>1, Indices
    <2>3. PICK i \in 24 .. 26 : i = 23 + (j + 1)
        OBVIOUS
    <2>4. library[b + i] = Created[i]
        BY <1>1, <2>1, <2>3 DEF Library
    <2>5. b + 23 + j + 1 = b + i
        BY <2>3
    <2>6. Created[i] = Widths[j + 1]
        BY <2>3, GateNames
    <2> QED
        BY <2>2, <2>4, <2>5, <2>6
<1>4. GateIsNamed /\ BaseGetsItsOwn /\ RecordFindsItsOwn
    BY <1>3 DEF DispatchIInv, CallIsRight, GateIsNamed, BaseGetsItsOwn,
                RecordFindsItsOwn
<1> QED
    BY <1>2, <1>4 DEF WritesFindTheirParameter

\* Every reachable state is well typed: no parameter is created twice.
THEOREM DispatchTypes == DispatchSpec => []DispatchTypeOK
<1>1. DispatchIInv => DispatchTypeOK
    BY DispatchInvShows
<1> QED
    BY <1>1, DispatchInitInv, DispatchInvStep, PTL DEF DispatchSpec

\* However many parameters the base classes have, if they have as many as the
\* driver, a write reaches what it names.
THEOREM WritesFind == DispatchSpec => []WritesFindTheirParameter
<1>1. DispatchIInv => WritesFindTheirParameter
    BY DispatchInvShows
<1> QED
    BY <1>1, DispatchInitInv, DispatchInvStep, PTL DEF DispatchSpec
=============================================================================
