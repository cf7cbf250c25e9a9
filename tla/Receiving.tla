------------------------------ MODULE Receiving -----------------------------
(***************************************************************************)
(* The way of an image as slsDetectorDriver switches it: the receiver of   *)
(* each module streams or not (SDRecvStream), the client library calls the *)
(* driver or not (SDUseDataCallback), and the receivers add the two JSON   *)
(* modes to what they stream.  The callback is one for all modules, but    *)
(* its parameter is one for each asyn address; registering it changes the  *)
(* streams, too; and the modes are never read back.                        *)
(*                                                                         *)
(* The driver lock is held throughout, so a handler is one step; Acquire   *)
(* is 0.  What becomes of an image is in DataCallback and FrameGeometry.   *)
(***************************************************************************)
EXTENDS Integers, ModuleAddresses

CONSTANT NumModes       \* how many names a mode has, one for each value

ASSUME NumModesAssumption == NumModes \in Nat \ {0}

VARIABLES
    useReceiver,    \* the modules use receivers
    registered,     \* the library calls dataCallbackC
    streaming,      \* the modules whose receiver streams
    mode,           \* the mode that each receiver adds to its stream, if known
    use, stream, json,  \* SDUseDataCallback, SDRecvStream and the parameter
                        \* of the mode, at each address
    outdated,       \* history: the streams may have changed since they were
                    \* last read back
    failed          \* history: the last write of SDUseDataCallback has failed,
                    \* one of the mode and none to all modules has come since

receivers       == <<streaming, mode>>
receivingParams == <<use, stream, json>>
receivingVars   == <<useReceiver, registered, receivers, receivingParams,
                     outdated, failed>>

-----------------------------------------------------------------------------
Modes == 0 .. NumModes - 1

ReceivingTypeOK ==
    /\ useReceiver \in BOOLEAN /\ registered \in BOOLEAN
    /\ streaming \subseteq Modules
    /\ ~useReceiver => streaming = {}
    /\ mode \in [Modules -> Modes \cup {Undefined}]
    /\ use \in [Addresses -> {0, 1, Undefined}]
    /\ stream \in [Addresses -> {0, 1, Undefined}]
    /\ json \in [Addresses -> Modes \cup {Undefined}]
    /\ outdated \in BOOLEAN
    /\ failed \subseteq {"use", "mode"}

\* What registering or, with NULL, removing a callback does to the streams:
\* "it also enables zmq streaming from receiver and the client".  Whether
\* removing it stops them is left open.
Register(callback) ==
    IF ~useReceiver THEN {{}}
    ELSE IF callback THEN {Modules} ELSE {streaming, {}}

\* The constructor registers the callback and says so at address 0.  It reads
\* neither the streams nor the modes.
ReceivingInit ==
    /\ useReceiver \in BOOLEAN
    /\ registered = TRUE
    /\ streaming = IF useReceiver THEN Modules ELSE {}
    /\ mode = [m \in Modules |-> Undefined]
    /\ use = [a \in Addresses |-> IF a = 0 THEN 1 ELSE Undefined]
    /\ stream = [a \in Addresses |-> Undefined]
    /\ json = [a \in Addresses |-> Undefined]
    /\ outdated = TRUE /\ failed = {}

-----------------------------------------------------------------------------
\* What the handler's exception leaves of a parameter: its old value.
RestoredAt(p, a, garbage) ==
    {[p EXCEPT ![a] = old] : old \in Got(p[a], garbage)}

\* Mutant: the callback of address 0 only.
MutWriteUse(a, v) ==
    /\ use' = [use EXCEPT ![a] = v]
    /\ registered' = IF a = 0 THEN v = 1 ELSE registered
    /\ streaming' \in Register(v = 1)
    /\ outdated' = TRUE
    /\ failed' = failed \ {"use"}
    /\ UNCHANGED <<useReceiver, mode, stream, json>>

\* The callback is registered for all modules whatever the address, even that
\* of no module, and the streams are not read back.
WriteUse(a, v) ==
    /\ use' = [use EXCEPT ![a] = v]
    /\ registered' = (v = 1)
    /\ streaming' \in Register(v = 1)
    /\ outdated' = TRUE
    /\ failed' = failed \ {"use"}
    /\ UNCHANGED <<useReceiver, mode, stream, json>>

\* Registering throws, before or after it has come into effect.
WriteUseFails(a, v) ==
    /\ use' \in RestoredAt(use, a, {0, 1})
    /\ registered' \in {registered, v = 1}
    /\ streaming' \in {streaming} \cup Register(v = 1)
    /\ outdated' = TRUE
    /\ failed' = failed \cup {"use"}
    /\ UNCHANGED <<useReceiver, mode, stream, json>>

AsInt(s) == [m \in Modules |-> IF m \in s THEN 1 ELSE 0]

\* What reading the streams back leaves in the parameters.
ShownStreams(s) ==
    [a \in Addresses |-> IF a \in Modules THEN AsInt(s)[a] ELSE stream[a]]

\* Without receivers the parameter is set and that is all; with them the
\* address must be that of a module.
WriteStream(a, v) ==
    /\ IF useReceiver
       THEN /\ a \in Modules
            /\ streaming' = IF v = 1 THEN streaming \cup Positions(a)
                                     ELSE streaming \ Positions(a)
            /\ stream' = ShownStreams(streaming')
            /\ outdated' = FALSE
       ELSE /\ stream' = [stream EXCEPT ![a] = v]
            /\ UNCHANGED <<streaming, outdated>>
    /\ UNCHANGED <<useReceiver, registered, mode, use, json, failed>>

\* Some of the receivers have taken the value.
WriteStreamFails(a, v) ==
    /\ useReceiver
    /\ \E took \in SUBSET (Positions(a) \cap Modules) :
        streaming' = IF v = 1 THEN streaming \cup took ELSE streaming \ took
    /\ stream' \in RestoredAt(stream, a, {0, 1})
    /\ outdated' = TRUE
    /\ UNCHANGED <<useReceiver, registered, mode, use, json, failed>>

\* SDJsonDetectorMode and SDJsonFrameMode: the name at index v is sent.
WriteMode(a, v) ==
    /\ a \in Modules
    /\ json' = [json EXCEPT ![a] = v]
    /\ mode' = [m \in Modules |-> IF m \in Positions(a) THEN v ELSE mode[m]]
    /\ failed' = IF a = 0 THEN failed \ {"mode"} ELSE failed
    /\ UNCHANGED <<useReceiver, registered, streaming, use, stream,
                   outdated>>

WriteModeFails(a, v) ==
    /\ \E took \in SUBSET (Positions(a) \cap Modules) :
        mode' = [m \in Modules |-> IF m \in took THEN v ELSE mode[m]]
    /\ json' \in RestoredAt(json, a, Modes)
    /\ failed' = failed \cup {"mode"}
    /\ UNCHANGED <<useReceiver, registered, streaming, use, stream,
                   outdated>>

\* The modules whose data the callback would be given in an image now: the
\* library joins what has come of a frame and calls dataCallbackC, and the
\* driver does not look at completeImage.
Image == IF registered THEN streaming ELSE {}

StreamNext ==
    \E a \in Addresses, v \in {0, 1} :
        \/ WriteUse(a, v) \/ WriteUseFails(a, v)
        \/ WriteStream(a, v) \/ WriteStreamFails(a, v)

ModeNext ==
    \E a \in Addresses, v \in Modes : WriteMode(a, v) \/ WriteModeFails(a, v)

ReceivingNext == StreamNext \/ ModeNext

ReceivingSpec == ReceivingInit /\ [][ReceivingNext]_receivingVars

-----------------------------------------------------------------------------
\* A client that has made SDUseDataCallback the same at all addresses can tell
\* by it whether images are taken, in whatever order they were written, unless
\* the last write has failed.
AgreementTellsUse ==
    \A v \in {0, 1} :
        (\A a \in Addresses : use[a] = v) /\ "use" \notin failed =>
            registered = (v = 1)

\* SDRecvStream tells which receivers stream, unless a failed write or a write
\* of SDUseDataCallback has come since.
StreamIsShown ==
    useReceiver /\ ~outdated =>
        \A m \in Modules : stream[m] = 1 <=> m \in streaming

\* Images come of the modules that SDRecvStream shows as streaming, and of none
\* while SDUseDataCallback is shown as 0, under the conditions of both.
ImagesComeOfShown ==
    \A v \in {0, 1} :
        (\A a \in Addresses : use[a] = v) /\ "use" \notin failed
                /\ useReceiver /\ ~outdated
            => Image = IF v = 1 THEN {m \in Modules : stream[m] = 1} ELSE {}

\* Although no mode is ever read back, a receiver's mode is the one that its
\* own parameter shows or that of address 0, unless a write has failed after
\* the last one to all modules.
ModeIsOneOfTwo ==
    "mode" \notin failed =>
        \A m \in Modules : mode[m] \in {json[m], json[0]}

\* What clients see of an image's way is enough to tell whether images come, of
\* which modules, and with which modes, but for what failed.
ReceivingIsShown ==
    AgreementTellsUse /\ StreamIsShown /\ ImagesComeOfShown /\ ModeIsOneOfTwo
=============================================================================
