------------------------------ MODULE Dispatch ------------------------------
(***************************************************************************)
(* How the write handlers of slsDetectorDriver tell parameters apart: by   *)
(* the index that createParam gives them, in the order of their creation,  *)
(* those of the base classes first.  The handlers compare it with the      *)
(* driver's own indices, take it for the number of a gate, or take it to   *)
(* be a parameter of the base class, by FIRST_SD_PARAM or by               *)
(* NUM_SD_PARAMS, which is counted from the declarations of the members.   *)
(*                                                                         *)
(* Clients choose handler and parameter freely: asyn does not compare the  *)
(* interface of a write with the type of the parameter.  What the calls do *)
(* is in the modules of the handlers.  Records find their parameter by its *)
(* name (drvInfo) when the IOC initialises.                                *)
(***************************************************************************)
EXTENDS Naturals, Sequences, SequencesExt

CONSTANTS
    Base,       \* the parameters of the base classes, as they are created
    Records     \* the names that records give, and the parameter each means

VARIABLES
    library,        \* the parameters created so far, in order
    call            \* what the last write has led to

dispatchVars == <<library, call>>

-----------------------------------------------------------------------------
\* The members of the class, FIRST_SD_PARAM to LAST_SD_PARAM.
Declared == <<
    "SDDetectorType", "SDSetting", "SDDelayTime", "SDThreshold", "SDTrimbits",
    "SDEnergy", "SDUseDataCallback", "SDBitDepth", "SDNumGates", "SDNumCycles",
    "SDNumFrames", "SDTimingMode", "SDTriggerSoftware", "SDRecvMode",
    "SDRecvStream", "SDRecvStatus", "SDRecvMissed", "SDHighVoltage",
    "SDCommand", "SDCounterMask", "SDGate1Delay", "SDGate2Delay", "SDGate3Delay",
    "SDGate1Width", "SDGate2Width", "SDGate3Width", "SDCounter1Threshold",
    "SDCounter2Threshold", "SDCounter3Threshold", "SDJsonDetectorMode",
    "SDJsonFrameMode", "SDSetupFile", "SDLoadSetup">>

NUM_SD_PARAMS == Len(Declared)

\* Mutant: a gate's delay and width are created together.
MutCreated == <<
    "SDDetectorType", "SDSetting", "SDDelayTime",
    "SDGate1Delay", "SDGate1Width", "SDGate2Delay", "SDGate2Width",
    "SDGate3Delay", "SDGate3Width", "SDCommand", "SDCounterMask">>

\* The calls of createParam in the constructor.
Created == <<
    "SDDetectorType", "SDSetting", "SDDelayTime", "SDThreshold", "SDEnergy",
    "SDTrimbits", "SDUseDataCallback", "SDBitDepth", "SDNumGates",
    "SDNumCycles", "SDNumFrames", "SDTimingMode", "SDTriggerSoftware", "SDRecvMode",
    "SDRecvStream", "SDRecvStatus", "SDRecvMissed", "SDHighVoltage",
    "SDCommand", "SDCounterMask", "SDGate1Delay", "SDGate2Delay", "SDGate3Delay",
    "SDGate1Width", "SDGate2Width", "SDGate3Width", "SDCounter1Threshold",
    "SDCounter2Threshold", "SDCounter3Threshold", "SDJsonDetectorMode",
    "SDJsonFrameMode", "SDSetupFile", "SDLoadSetup">>

\* The name that each parameter is created with.
Names == [
    SDDetectorType |-> "SD_DETECTOR_TYPE", SDSetting |-> "SD_SETTING",
    SDDelayTime |-> "SD_DELAY_TIME", SDThreshold |-> "SD_THRESHOLD",
    SDEnergy |-> "SD_ENERGY", SDTrimbits |-> "SD_TRIMBITS",
    SDUseDataCallback |-> "SD_USE_DATA_CALLBACK",
    SDBitDepth |-> "SD_BIT_DEPTH",
    SDNumGates |-> "SD_NUM_GATES", SDNumCycles |-> "SD_NUM_CYCLES",
    SDNumFrames |-> "SD_NUM_FRAMES", SDTimingMode |-> "SD_TMODE",
    SDTriggerSoftware |-> "SD_TRIGGER_SOFTWARE", SDRecvMode |-> "SD_RECV_MODE",
    SDRecvStream |-> "SD_RECV_STREAM", SDRecvStatus |-> "SD_RECV_STATUS",
    SDRecvMissed |-> "SD_RECV_MISSED", SDHighVoltage |-> "SD_HIGH_VOLTAGE",
    SDCommand |-> "SD_COMMAND", SDCounterMask |-> "SD_COUNTER_MASK",
    SDGate1Delay |-> "SD_GATE1_DELAY", SDGate2Delay |-> "SD_GATE2_DELAY",
    SDGate3Delay |-> "SD_GATE3_DELAY", SDGate1Width |-> "SD_GATE1_WIDTH",
    SDGate2Width |-> "SD_GATE2_WIDTH", SDGate3Width |-> "SD_GATE3_WIDTH",
    SDCounter1Threshold |-> "SD_CNT1_THRESHOLD",
    SDCounter2Threshold |-> "SD_CNT2_THRESHOLD",
    SDCounter3Threshold |-> "SD_CNT3_THRESHOLD",
    SDJsonDetectorMode |-> "SD_JSON_DETECTORMODE",
    SDJsonFrameMode |-> "SD_JSON_FRAMEMODE",
    SDSetupFile |-> "SD_SETUP_FILE", SDLoadSetup |-> "SD_LOAD_SETUP"]

\* The base classes' parameters are more than the driver's, which the handlers
\* rely on, and have other names; the library gives no name twice.
ASSUME BaseAssumption ==
    /\ Base \in Seq(STRING) /\ IsInjective(Base)
    /\ Range(Base) \cap Range(Declared) = {}
    /\ Len(Base) >= NUM_SD_PARAMS

\* The records are called after the parameters whose names they give.
ASSUME RecordsAssumption ==
    \A name \in DOMAIN Records :
        Records[name] \in DOMAIN Names /\ Names[Records[name]] = name

Interfaces == {"Int32", "UInt32Digital", "Float64", "Octet"}
None == [interface |-> "none"]      \* no write yet
NotFound == "not found"

DispatchTypeOK ==
    /\ \E n \in 0 .. Len(Created) : library = Base \o SubSeq(Created, 1, n)
    /\ IsInjective(library)
    /\ call = None \/ Len(library) = Len(Base) + NUM_SD_PARAMS

DispatchInit == library = Base /\ call = None

\* Indices count from 0.
index(p) == (CHOOSE i \in DOMAIN library : library[i] = p) - 1
FIRST_SD_PARAM == index("SDDetectorType")

createParam ==
    /\ Len(library) < Len(Base) + Len(Created)
    /\ library' = Append(library, Created[Len(library) - Len(Base) + 1])
    /\ UNCHANGED call

-----------------------------------------------------------------------------
Complete == Len(library) = Len(Base) + Len(Created)

Leads(interface, function, callee, gate) ==
    /\ Complete
    /\ call' = [interface |-> interface, param |-> library[function + 1],
                callee |-> callee, gate |-> gate]
    /\ UNCHANGED library

\* drvUserCreate: the first parameter of the name, if there is one.
FindParam(name) ==
    LET found == {i \in DOMAIN library : library[i] \in DOMAIN Names
                                            /\ Names[library[i]] = name}
    IN  /\ Complete
        /\ call' = [interface |-> "drvUser", name |-> name,
                    callee |-> "nothing", gate |-> 0,
                    param |-> IF found = {} THEN NotFound
                              ELSE library[Min(found)]]
        /\ UNCHANGED library

\* Of these the handler only puts the old value back.
Unchangeable == {"ADMinX", "ADMinY", "ADSizeX", "ADSizeY", "ADBinX", "ADBinY"}

Int32Handled ==
    {"NDFileNumber", "ADAcquire", "NDAutoSave"}
        \cup {"SDSetting", "SDThreshold", "SDEnergy", "SDTrimbits",
              "SDCounter1Threshold", "SDCounter2Threshold",
              "SDCounter3Threshold"}
        \cup {"SDUseDataCallback", "SDBitDepth", "SDNumGates", "SDNumCycles",
              "SDNumFrames", "SDTimingMode", "SDTriggerSoftware",
              "SDLoadSetup", "SDRecvMode", "SDRecvStream", "SDHighVoltage",
              "SDJsonDetectorMode", "SDJsonFrameMode"}

\* The handlers that compare with single parameters.
Handled(interface) ==
    CASE interface = "Int32" -> Int32Handled
      [] interface = "UInt32Digital" -> {"SDCounterMask"}
      [] interface = "Octet" -> {"NDFilePath", "NDFileName", "SDCommand"}

WriteSingle(interface, function) ==
    /\ interface # "Float64"
    /\ Leads(interface, function,
             IF library[function + 1] \in Handled(interface) THEN "detector"
             ELSE IF /\ interface = "Int32"
                     /\ library[function + 1] \in Unchangeable THEN "nothing"
             ELSE IF function < FIRST_SD_PARAM THEN "base" ELSE "nothing", 0)

Times == {"ADAcquireTime", "ADAcquirePeriod", "SDDelayTime"}

\* Gates are told by the range of their indices, the base class by the number
\* of the driver's parameters.
WriteFloat64(function) ==
    LET in(p, q) == index(p) <= function /\ function <= index(q)
    IN  IF library[function + 1] \in Times
        THEN Leads("Float64", function, "detector", 0)
        ELSE IF in("SDGate1Delay", "SDGate3Delay")
        THEN Leads("Float64", function, "setGateDelay",
                   function - index("SDGate1Delay") + 1)
        ELSE IF in("SDGate1Width", "SDGate3Width")
        THEN Leads("Float64", function, "setExptime",
                   function - index("SDGate1Width") + 1)
        ELSE Leads("Float64", function,
                   IF function < NUM_SD_PARAMS THEN "base" ELSE "nothing", 0)

DispatchNext ==
    \/ createParam
    \/ \E function \in 0 .. Len(library) - 1 :
        \/ \E interface \in Interfaces : WriteSingle(interface, function)
        \/ Complete /\ WriteFloat64(function)
    \/ \E name \in DOMAIN Records : FindParam(name)

DispatchSpec == DispatchInit /\ [][DispatchNext]_dispatchVars

-----------------------------------------------------------------------------
Delays == <<"SDGate1Delay", "SDGate2Delay", "SDGate3Delay">>
Widths == <<"SDGate1Width", "SDGate2Width", "SDGate3Width">>

\* A write reaches the gate that its parameter is named for and no other
\* parameter reaches a gate, although gates are told by indices only; and the
\* width read back for gate j goes to its parameter (writeFloat64).
GateIsNamed ==
    Complete =>
        /\ call # None =>
            /\ call.callee = "setGateDelay" <=>
                    call.interface = "Float64" /\ call.param \in Range(Delays)
            /\ call.callee = "setExptime" <=>
                    call.interface = "Float64" /\ call.param \in Range(Widths)
            /\ call.callee = "setGateDelay" => call.param = Delays[call.gate]
            /\ call.callee = "setExptime" => call.param = Widths[call.gate]
        /\ \A j \in 0 .. 2 :
                library[index("SDGate1Width") + j + 1] = Widths[j + 1]

\* The base class is never handed a parameter of the driver, whatever the
\* interface; it must have no fewer parameters than the driver for that.
BaseGetsItsOwn ==
    call # None /\ call.callee = "base" => call.param \in Range(Base)

\* A record is connected to the parameter that it means: the names of the
\* records' files and those of the driver agree, and no name is given twice.
RecordFindsItsOwn ==
    call # None /\ call.interface = "drvUser" =>
        call.param = Records[call.name]

\* A write reaches nothing but what it names, if it reaches anything: the
\* handlers' arithmetic with indices, the order in which the parameters are
\* created, and their names go together.  Writes that are dropped are allowed:
\* writeFloat64 drops those of the base classes' parameters beyond the first
\* NUM_SD_PARAMS.
WritesFindTheirParameter == GateIsNamed /\ BaseGetsItsOwn /\ RecordFindsItsOwn
=============================================================================
