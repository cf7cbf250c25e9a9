---------------------------- MODULE MCComponents ----------------------------
(***************************************************************************)
(* The other parts of the system, for TLC: those that share no variable    *)
(* with the acquisition or with each other.  As in MCSettings a behaviour  *)
(* is that of one module, the family, and the others rest in a fixed       *)
(* state, so that each property is seen in all the states of its module    *)
(* and in no product of them.                                              *)
(***************************************************************************)
EXTENDS FrameGeometry, MissedPackets, Readings, Startup, Dispatch,
        DetectorModule, Containers, Regions, Durations, TLC

VARIABLE family         \* the module whose behaviour this is

Families == {"frames", "missed", "readings", "startup",
             "dispatch", "module", "containers", "regions", "durations"}

-----------------------------------------------------------------------------
\* Values of the constants.
MCCounts == {-3, 0, 3}
MCValues == -1 .. 3
MCTolerances == 0 .. 3
MCLists == [f \in {"SDSetting", "SDTimingMode", "SDBitDepth"} |-> {0, 1}]

\* Durations of up to two seconds, around the limits of the units, with few
\* and with many digits, of both signs.
Around(S, r) == UNION {(n - r) .. (n + r) : n \in S}
SomeLengths == {0, 17, 600}
    \cup Around({1000, 1003, 15500, 1000000, 12345650, 99000000, 100000000,
                 123456500, 1000000000, 1234565000}, 2)
    \cup Around({1000000, 99000000}, 12) \cup Around({98999950}, 3)
    \cup {1000499, 1000501, 12345649, 123456499, 999999499, 999999500}
MCInputs == SomeLengths \cup {-n : n \in SomeLengths}

\* Of the parameters of ADCore's base classes as many as matter: more than the
\* driver has, those that the handlers name, and others.
MCBase == <<
    "ADManufacturer", "ADModel", "ADSerialNumber", "ADSDKVersion",
    "ADFirmwareVersion", "NDArraySizeX", "NDArraySizeY", "NDArraySizeZ",
    "NDArraySize", "NDNDimensions", "NDDataType", "NDColorMode", "NDUniqueId",
    "NDTimeStamp", "NDEpicsTSSec", "NDEpicsTSNsec", "NDBayerPattern",
    "NDFilePath", "NDFilePathExists", "NDFileName", "NDFileNumber",
    "NDFileTemplate", "NDAutoIncrement", "NDFullFileName", "NDFileFormat",
    "NDAutoSave", "NDWriteFile", "NDReadFile", "NDFileWriteMode",
    "NDFileNumCapture", "NDFileNumCaptured", "NDFileCapture", "NDArrayData",
    "NDArrayCallbacks", "NDArrayCounter", "ADGain", "ADBinX", "ADBinY",
    "ADMinX", "ADMinY", "ADSizeX", "ADSizeY", "ADMaxSizeX",
    "ADImageMode", "ADNumImages", "ADAcquireTime", "ADAcquirePeriod",
    "ADShutterOpenDelay", "ADTemperature", "ADTemperatureActual", "ADAcquire",
    "ADStatus", "ADStatusMessage">>

\* The names in slsDetector.template, and what their records are called after.
TemplateRecords == [
    SD_DETECTOR_TYPE |-> "SDDetectorType", SD_SETTING |-> "SDSetting",
    SD_DELAY_TIME |-> "SDDelayTime", SD_THRESHOLD |-> "SDThreshold",
    SD_ENERGY |-> "SDEnergy", SD_TRIMBITS |-> "SDTrimbits",
    SD_USE_DATA_CALLBACK |-> "SDUseDataCallback",
    SD_BIT_DEPTH |-> "SDBitDepth", SD_NUM_GATES |-> "SDNumGates",
    SD_NUM_CYCLES |-> "SDNumCycles", SD_NUM_FRAMES |-> "SDNumFrames",
    SD_TMODE |-> "SDTimingMode", SD_TRIGGER_SOFTWARE |-> "SDTriggerSoftware",
    SD_RECV_MODE |-> "SDRecvMode", SD_RECV_STREAM |-> "SDRecvStream",
    SD_RECV_STATUS |-> "SDRecvStatus", SD_RECV_MISSED |-> "SDRecvMissed",
    SD_HIGH_VOLTAGE |-> "SDHighVoltage", SD_COMMAND |-> "SDCommand",
    SD_COUNTER_MASK |-> "SDCounterMask", SD_GATE1_DELAY |-> "SDGate1Delay",
    SD_GATE2_DELAY |-> "SDGate2Delay", SD_GATE3_DELAY |-> "SDGate3Delay",
    SD_GATE1_WIDTH |-> "SDGate1Width", SD_GATE2_WIDTH |-> "SDGate2Width",
    SD_GATE3_WIDTH |-> "SDGate3Width",
    SD_CNT1_THRESHOLD |-> "SDCounter1Threshold",
    SD_CNT2_THRESHOLD |-> "SDCounter2Threshold",
    SD_CNT3_THRESHOLD |-> "SDCounter3Threshold",
    SD_JSON_DETECTORMODE |-> "SDJsonDetectorMode",
    SD_JSON_FRAMEMODE |-> "SDJsonFrameMode", SD_SETUP_FILE |-> "SDSetupFile",
    SD_LOAD_SETUP |-> "SDLoadSetup"]

-----------------------------------------------------------------------------
Fixed(S) == CHOOSE x \in S : TRUE

\* What a module leaves open at the start is left open for the family only.
MCInit ==
    /\ family \in Families
    /\ FrameInit
    /\ family # "frames" =>
        type = "other" /\ mask = {} /\ bits = Fixed(BitDepths)
    /\ MissedInit
    /\ family # "missed" =>
        /\ hasReceiver
        /\ \A m \in 1 .. NumModules, p \in 1 .. Ports : missing[m][p] = 0
    /\ ReadingsInit
    /\ family # "readings" =>
        /\ detectorType = "other" /\ tempDacIndex = 0
        /\ setting = Fixed(Lists["SDSetting"]) /\ param = setting
    /\ Init
    /\ family # "startup" => acquisitionMode = "Single"
    /\ DispatchInit
    /\ ModuleInit
    /\ ContainersInit
    /\ RegionsInit
    /\ DurationsInit
    /\ family # "durations" => given = 0

MCNext ==
    \/ /\ family = "frames" /\ FrameNext
       /\ UNCHANGED <<family, missedVars, readingsVars, vars,
                      dispatchVars, moduleVars, containersVars, regionsVars,
                      durationsVars>>
    \/ /\ family = "missed" /\ MissedNext
       /\ UNCHANGED <<family, frameVars, readingsVars, vars,
                      dispatchVars, moduleVars, containersVars, regionsVars,
                      durationsVars>>
    \/ /\ family = "readings" /\ ReadingsNext
       /\ UNCHANGED <<family, frameVars, missedVars, vars,
                      dispatchVars, moduleVars, containersVars, regionsVars,
                      durationsVars>>
    \/ /\ family = "startup" /\ Next
       /\ UNCHANGED <<family, frameVars, missedVars, readingsVars,
                      dispatchVars, moduleVars, containersVars, regionsVars,
                      durationsVars>>
    \/ /\ family = "dispatch" /\ DispatchNext
       /\ UNCHANGED <<family, frameVars, missedVars, readingsVars,
                      vars, moduleVars, containersVars, regionsVars,
                      durationsVars>>
    \/ /\ family = "module" /\ ModuleNext
       /\ UNCHANGED <<family, frameVars, missedVars, readingsVars,
                      vars, dispatchVars, containersVars, regionsVars,
                      durationsVars>>
    \/ /\ family = "containers" /\ ContainersNext
       /\ UNCHANGED <<family, frameVars, missedVars, readingsVars,
                      vars, dispatchVars, moduleVars, regionsVars,
                      durationsVars>>
    \/ /\ family = "regions" /\ RegionsNext
       /\ UNCHANGED <<family, frameVars, missedVars, readingsVars,
                      vars, dispatchVars, moduleVars, containersVars,
                      durationsVars>>
    \/ /\ family = "durations" /\ DurationsNext
       /\ UNCHANGED <<family, frameVars, missedVars, readingsVars,
                      vars, dispatchVars, moduleVars, containersVars,
                      regionsVars>>

allVars == <<family, frameVars, missedVars, readingsVars, vars, dispatchVars,
             moduleVars, containersVars, regionsVars, durationsVars>>

\* Only the life of the driver has a fairness.
MCSpec == MCInit /\ [][MCNext]_allVars /\ Fairness

-----------------------------------------------------------------------------
\* Every variable of the family has its type; the others' keep their first
\* values, in which the family's are in some behaviour, too.
TypesOK ==
    CASE family = "frames"     -> FrameTypeOK
      [] family = "missed"     -> MissedTypeOK
      [] family = "readings"   -> ReadingsTypeOK
      [] family = "startup"    -> TypeOK
      [] family = "dispatch"   -> DispatchTypeOK
      [] family = "module"     -> ModuleTypeOK
      [] family = "containers" -> ContainersTypeOK
      [] family = "regions"    -> RegionsTypeOK
      [] family = "durations"  -> DurationsTypeOK

\* The functions that handlers and scripts rely on do what their names say:
\* results squashed over the modules, regions of interest, durations as text.
HelpersAgree ==
    /\ family = "containers" => ContainersAgree
    /\ family = "regions" => RegionsArePixels
    /\ family = "durations" => TextKeepsDurations
=============================================================================
