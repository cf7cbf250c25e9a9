--------------------------- MODULE ComponentsProofs --------------------------
(***************************************************************************)
(* The other parts composed: what is proved of each module's specification *)
(* holds of the specification that the run checks.                         *)
(***************************************************************************)
EXTENDS MCComponents, FrameGeometryProofs, PortProofs, LibraryProofs, TLAPS

\* A step of one family is a stutter of every other module, so that the
\* composed specification implements each module's own.
THEOREM ComponentsCompose ==
    MCSpec => /\ FrameSpec /\ MissedSpec /\ ReadingsSpec /\ Spec
              /\ DispatchSpec /\ ModuleSpec /\ ContainersSpec
              /\ RegionsSpec /\ DurationsSpec
<1>1. MCInit => /\ FrameInit /\ MissedInit /\ ReadingsInit /\ Init
                /\ DispatchInit /\ ModuleInit /\ ContainersInit
                /\ RegionsInit /\ DurationsInit
    BY DEF MCInit
<1>2. [MCNext]_allVars =>
        /\ [FrameNext]_frameVars /\ [MissedNext]_missedVars
        /\ [ReadingsNext]_readingsVars /\ [Next]_vars
        /\ [DispatchNext]_dispatchVars /\ [ModuleNext]_moduleVars
        /\ [ContainersNext]_containersVars /\ [RegionsNext]_regionsVars
        /\ [DurationsNext]_durationsVars
    BY DEF MCNext, allVars
<1> QED
    BY <1>1, <1>2, PTL
       DEF MCSpec, FrameSpec, MissedSpec, ReadingsSpec, Spec, DispatchSpec,
           ModuleSpec, ContainersSpec, RegionsSpec, DurationsSpec

\* A behaviour is that of one family throughout.
LEMMA OneFamily == MCSpec => [](family \in Families)
<1>1. MCInit => family \in Families
    BY DEF MCInit
<1>2. family \in Families /\ [MCNext]_allVars => (family \in Families)'
    BY DEF MCNext, allVars
<1> QED
    BY <1>1, <1>2, PTL DEF MCSpec

\* Every variable of every one of the nine modules keeps its type, TypesOK, for
\* all values of their constants.
THEOREM ComponentsTypes == MCSpec => []TypesOK
<1>1. /\ family \in Families
      /\ FrameTypeOK /\ MissedTypeOK /\ ReadingsTypeOK /\ TypeOK
      /\ DispatchTypeOK /\ ModuleTypeOK /\ ContainersTypeOK
      /\ RegionsTypeOK /\ DurationsTypeOK
      => TypesOK
    BY DEF TypesOK, Families
<1> QED
    BY <1>1, OneFamily, ComponentsCompose, FrameTypes, MissedTypes,
       ReadingsTypes, StartupTypes, DispatchTypes, ModuleTypesHold,
       ContainersTypes, RegionsTypes, DurationsTypes, PTL

\* Squashed results, regions of interest and durations as text do what their
\* names say, HelpersAgree.
THEOREM HelpersAlwaysAgree == MCSpec => []HelpersAgree
<1>1. ContainersAgree /\ RegionsArePixels /\ TextKeepsDurations => HelpersAgree
    BY DEF HelpersAgree
<1> QED
    BY <1>1, ComponentsCompose, ContainersAgreeAlways, RegionsPixels,
       DurationsKept, PTL

\* Images fit their frames, losses are told, a thread that finds the start-up
\* ended early returns through its handler, only settings a client was told of
\* are sent along, writes find their parameters and arrays are owned, in
\* whichever module a behaviour takes place.
THEOREM ComponentsHold ==
    MCSpec => [](/\ ImagesFitFrames /\ LossesAreTold /\ EarlyReturnIsContained
                 /\ OnlyToldSettingsAreCarried /\ WritesFindTheirParameter
                 /\ ArraysAreOwned)
BY ComponentsCompose, ImagesFit, LossesTold, EarlyReturnContained,
   SettingsCarried, WritesFind, ArraysOwned, PTL
=============================================================================
