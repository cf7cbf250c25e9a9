------------------------------ MODULE Readings ------------------------------
(***************************************************************************)
(* What slsDetectorDriver answers when asyn clients read: readFloat64 asks *)
(* the detector for a temperature, readEnum for the choices that records   *)
(* offer, and the choice of a setting comes back through writeInt32.  The  *)
(* library throws when it cannot answer; an exception that leaves a        *)
(* handler ends the IOC, as nothing above it catches one.                  *)
(*                                                                         *)
(* A client that has chosen a setting does not see it refused: an EIGER or *)
(* MYTHEN3 is sent whatever SDSetting has, and again with every threshold, *)
(* beam energy or trim bit that is written later.                          *)
(*                                                                         *)
(* The driver lock is held throughout, so a handler is one step; Acquire   *)
(* is 0.  All modules have one setting here; Threshold has their own.      *)
(***************************************************************************)
EXTENDS Integers, ModuleAddresses

CONSTANTS
    Temperatures,
    Lists               \* for each parameter that has a list, its values

ASSUME ListsAssumption ==
    \A f \in DOMAIN Lists :
        Lists[f] # {} /\ -1 \notin Lists[f] /\ Undefined \notin Lists[f]
ASSUME TemperaturesAssumption == Undefined \notin Temperatures

VARIABLES
    detectorType,   \* "EIGER", "MYTHEN3" or another
    tempDacIndex,   \* -1 if the detector has no temperature
    reading,        \* what the record at each address has
    offered,        \* the choices that a record has for each parameter
    setting,        \* of the detector
    param,          \* SDSetting
    told,           \* history: the settings that the detector has answered
    carried,        \* history: those that have gone along with another
                    \* parameter since the first answer
    killer          \* the parameter whose handler has ended the IOC

fixed == <<detectorType, tempDacIndex>>
chosen == <<setting, param, told>>
readingsVars == <<fixed, reading, offered, chosen, carried, killer>>

-----------------------------------------------------------------------------
Types == {"EIGER", "MYTHEN3", "other"}
Enums == {"SDSetting", "SDTimingMode", "SDBitDepth"}
ASSUME EnumsAssumption == DOMAIN Lists = Enums

ReadingsTypeOK ==
    /\ detectorType \in Types /\ tempDacIndex \in {-1, 0}
    /\ reading \in [Addresses -> Temperatures \cup {Undefined}]
    /\ \A f \in Enums : offered[f] \subseteq Lists[f] \cup {-1}
    /\ setting \in Lists["SDSetting"]
    /\ param \in Lists["SDSetting"] \cup {-1, Undefined}
    /\ told \subseteq Lists["SDSetting"]
    /\ carried \subseteq Lists["SDSetting"] \cup {-1}
    /\ killer \in Enums \cup {"ADTemperatureActual", "none"}

\* The constructor takes the FPGA's temperature if there is one, else the first
\* of the list; it reads the setting unless a call before that throws.
ReadingsInit ==
    /\ detectorType \in Types
    /\ tempDacIndex \in {-1, 0}
    /\ reading = [a \in Addresses |-> Undefined]
    /\ offered = [f \in Enums |-> {}]
    /\ setting \in Lists["SDSetting"]
    /\ param \in {setting, Undefined}
    /\ told = {param} \ {Undefined}
    /\ carried = {}
    /\ killer = "none"

IocUp == killer = "none"

-----------------------------------------------------------------------------
\* A MYTHEN3 is not asked, for it takes seconds to answer.
Polled == tempDacIndex # -1 /\ detectorType # "MYTHEN3"

\* All modules answer, and the answer of the one at address a is taken: the
\* temperature that it has now.
ReadTemperature(a) ==
    /\ IocUp /\ Polled /\ a \in Modules
    /\ \E t \in Temperatures : reading' = [reading EXCEPT ![a] = t]
    /\ UNCHANGED <<fixed, offered, chosen, carried, killer>>

\* The answers are indexed without looking at how many there are: any value
\* may come of it, or the end of the IOC.
ReadTemperatureBeyond(a) ==
    /\ IocUp /\ Polled /\ a \notin Modules
    /\ \/ /\ \E t \in Temperatures : reading' = [reading EXCEPT ![a] = t]
          /\ UNCHANGED killer
       \/ killer' = "ADTemperatureActual" /\ UNCHANGED reading
    /\ UNCHANGED <<fixed, offered, chosen, carried>>

\* Not polled, or the call throws: no value is given, yet the status is
\* success, and the record keeps the value it has.
ReadNoTemperature == IocUp /\ UNCHANGED readingsVars

-----------------------------------------------------------------------------
ReadEnum(f) ==
    /\ IocUp
    /\ offered' = [offered EXCEPT ![f] = Lists[f]]
    /\ UNCHANGED <<fixed, reading, chosen, carried, killer>>

\* Only the list of the settings is made up for, by "N.A." with value -1.
ReadEnumThrows(f) ==
    /\ IocUp
    /\ IF f = "SDSetting"
       THEN offered' = [offered EXCEPT ![f] = {-1}] /\ UNCHANGED killer
       ELSE killer' = f /\ UNCHANGED offered
    /\ UNCHANGED <<fixed, reading, chosen, carried>>

-----------------------------------------------------------------------------
\* The detector is sent any choice, unless it is no EIGER or MYTHEN3 and the
\* choice is -1.
Sent(v) == v # -1 \/ detectorType # "other"

\* What a detector that takes the setting v then has: that of one it does not
\* know is left open.
MayHave(v) == IF v \in Lists["SDSetting"] THEN {v} ELSE Lists["SDSetting"]

\* The detector takes v, and its setting is read back.
TakesAndTells(v) ==
    \E s \in MayHave(v) : setting' = s /\ param' = s /\ told' = told \cup {s}

\* A client takes one of the choices.
WriteSetting(v) ==
    /\ IocUp /\ v \in offered["SDSetting"]
    /\ IF Sent(v) THEN TakesAndTells(v)
                  ELSE param' = v /\ UNCHANGED <<setting, told>>
    /\ UNCHANGED <<fixed, reading, offered, carried, killer>>

\* Mutant: the refused value is left in the parameter.
MutWriteSettingThrows(v) ==
    /\ IocUp /\ v \in offered["SDSetting"] /\ Sent(v)
    /\ setting' \in {setting} \cup MayHave(v)
    /\ param' = v
    /\ UNCHANGED <<fixed, reading, offered, told, carried, killer>>

\* A call throws, with the setting taken or not; the parameter gets its old
\* value back.
WriteSettingThrows(v) ==
    /\ IocUp /\ v \in offered["SDSetting"] /\ Sent(v)
    /\ setting' \in {setting} \cup MayHave(v)
    /\ param' \in Got(param, Lists["SDSetting"] \cup {-1})
    /\ UNCHANGED <<fixed, reading, offered, told, carried, killer>>

\* Another parameter of the same call is written, and v goes along with it.
Carries(v) ==
    /\ IocUp /\ detectorType # "other"
    /\ v \in Got(param, Lists["SDSetting"] \cup {-1})
    /\ carried' = IF told = {} THEN {} ELSE carried \cup {v}
    /\ UNCHANGED <<fixed, reading, offered, killer>>

WriteAlong(v) == Carries(v) /\ TakesAndTells(v)

WriteAlongThrows(v) ==
    /\ Carries(v)
    /\ setting' \in {setting} \cup MayHave(v)
    /\ UNCHANGED <<param, told>>

ReadingsNext ==
    \/ \E a \in Addresses : ReadTemperature(a) \/ ReadTemperatureBeyond(a)
    \/ ReadNoTemperature
    \/ \E f \in Enums : ReadEnum(f) \/ ReadEnumThrows(f)
    \/ \E v \in Lists["SDSetting"] \cup {-1} :
        \/ WriteSetting(v) \/ WriteSettingThrows(v)
        \/ WriteAlong(v) \/ WriteAlongThrows(v)

ReadingsSpec == ReadingsInit /\ [][ReadingsNext]_readingsVars

-----------------------------------------------------------------------------
\* Once the detector has answered with its setting, nothing but settings that
\* it has answered with goes along with other parameters: neither the
\* placeholder of an unknown list nor a choice that was refused is sent again
\* with the next threshold (writeInt32, readEnum).
OnlyToldSettingsAreCarried == carried \subseteq told
=============================================================================
