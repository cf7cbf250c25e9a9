---------------------------- MODULE FrameGeometry ---------------------------
(***************************************************************************)
(* What slsDetectorDriver makes of a frame: the dimensions and the element *)
(* type of the image it hands to the plugins.  The client library delivers *)
(* a frame some time after the detector took it, with its size and its bit *)
(* depth; how many counters it is made of the callback takes from the      *)
(* counter mask parameter of address 0, as it is then.  Masks and bit      *)
(* depths are written between a frame's capture and its delivery: Acquire  *)
(* is 0 after a stop while frames are still under way.                     *)
(*                                                                         *)
(* The image is an operator of the oldest frame and the parameters: what   *)
(* the callback would make now.  One mask stands for those of all modules. *)
(* What happens to the image after that is in DataCallback; both sides     *)
(* hold the lock here, so each is one step.                                *)
(***************************************************************************)
EXTENDS Naturals, Sequences, FiniteSets

CONSTANTS
    MaskCounters,   \* that a mask selects
    Channels,       \* per counter, or per row
    Rows,           \* of a detector other than a MYTHEN3
    BitDepths,      \* that the detector has
    FrameAddresses, \* asyn addresses, 0 among them
    NoAddress,
    MaxFlight       \* bound: frames under way

ASSUME MaskAssumption ==
    IsFiniteSet(MaskCounters) /\ Cardinality(MaskCounters) <= 3
ASSUME FrameSizesAssumption == Channels \in Nat /\ Rows \in Nat
ASSUME BitDepthsAssumption == BitDepths \subseteq {4, 8, 12, 16, 32, 64}
ASSUME AddressesAssumption ==
    0 \in FrameAddresses /\ NoAddress \notin FrameAddresses
ASSUME MaxFlightAssumption == MaxFlight \in Nat \ {0}

Masks == SUBSET MaskCounters

VARIABLES
    type,               \* of the detector
    mask, bits,         \* the detector's counter mask and bit depth
    counterMask,        \* SDCounterMask at address 0
    dataType,           \* NDDataType at each address, as bytes per element
    lastAddress,        \* history: where SDBitDepth was last written with
                        \* success, if the depth has stayed since
    flight,             \* frames on their way, the oldest first
    lockLeft            \* the callback has returned with the driver lock

frameParams == <<counterMask, dataType, lastAddress>>
frameVars == <<type, mask, bits, frameParams, flight, lockLeft>>

-----------------------------------------------------------------------------
\* A frame: its counters and bit depth, and whether the mask parameter has been
\* written since it was taken, or was not the detector's then.
Frames == [counters : Masks, bits : BitDepths, stale : BOOLEAN]

Nx(f) == IF type = "MYTHEN3" THEN Channels * Cardinality(f.counters)
                             ELSE Channels
Ny    == IF type = "MYTHEN3" THEN 1 ELSE Rows

\* Bytes of a pixel: 12 bits take two, two pixels of 4 bits take one.
DataBytes(f) ==
    IF f.bits = 4 THEN (Nx(f) * Ny) \div 2
    ELSE Nx(f) * Ny * (IF f.bits = 12 THEN 2 ELSE f.bits \div 8)

FrameTypeOK ==
    /\ type \in {"MYTHEN3", "other"}
    /\ mask \in Masks /\ counterMask \in Masks
    /\ bits \in BitDepths
    /\ dataType \in [FrameAddresses -> {1, 2, 4, 8}]
    /\ lastAddress \in FrameAddresses \cup {NoAddress}
    /\ flight \in Seq(Frames) /\ Len(flight) <= MaxFlight
    /\ lockLeft \in BOOLEAN

\* The constructor reads the mask and assumes 16 bits.
FrameInit ==
    /\ type \in {"MYTHEN3", "other"}
    /\ mask \in Masks /\ counterMask = mask
    /\ bits \in BitDepths
    /\ dataType = [a \in FrameAddresses |-> 2]
    /\ lastAddress = NoAddress
    /\ flight = <<>>
    /\ lockLeft = FALSE

-----------------------------------------------------------------------------
(***************************************************************************)
(* The callback                                                            *)
(***************************************************************************)

Split(nx, n) == nx \div n

\* Mutant: a mask of two is taken for its counters, not for two of them.
MutDims(f) ==
    LET n == Cardinality(counterMask)
    IN  IF type = "MYTHEN3" /\ n = 3
        THEN <<n, Split(Nx(f), n)>>
        ELSE <<Nx(f), Ny>>

\* A row for each counter if the parameter selects several.
Dims(f) ==
    LET n == Cardinality(counterMask)
    IN  IF type = "MYTHEN3" /\ n \in {2, 3}
        THEN <<n, Split(Nx(f), n)>>
        ELSE <<Nx(f), Ny>>

\* dynamicRange / 8 selects the element type by its size, if there is one.
ElementSize(f) == f.bits \div 8
Supported(f) == ElementSize(f) \in {1, 2, 4, 8}

\* What pNDArrayPool->alloc is given.
ImageOf(f) ==
    [dims |-> Dims(f), element |-> ElementSize(f), bytes |-> DataBytes(f)]

\* A frame of another bit depth is dropped, and the lock not given back: the
\* callback's thread may take it again, the port thread cannot.
Callback ==
    /\ flight # <<>>
    /\ flight' = Tail(flight)
    /\ lockLeft' = (lockLeft \/ ~Supported(Head(flight)))
    /\ UNCHANGED <<type, mask, bits, frameParams>>

-----------------------------------------------------------------------------
(***************************************************************************)
(* The detector and the handlers                                           *)
(***************************************************************************)
Capture ==
    /\ Len(flight) < MaxFlight
    /\ flight' = Append(flight, [counters |-> mask, bits |-> bits,
                                 stale |-> mask # counterMask])
    /\ UNCHANGED <<type, mask, bits, frameParams, lockLeft>>

\* What is under way when the mask is written no longer goes with it.
AllStale == [i \in DOMAIN flight |-> [flight[i] EXCEPT !.stale = TRUE]]

\* SDCounterMask at address 0.
WriteMask(v) ==
    /\ type = "MYTHEN3" /\ ~lockLeft
    /\ mask' = v
    /\ counterMask' = v
    /\ flight' = AllStale
    /\ UNCHANGED <<type, bits, dataType, lastAddress, lockLeft>>

\* A call of the handler throws: the parameter is restored, the detector may
\* have the new mask.  Or a command sets the mask or the bit depth.
ChangeUnseen(v, b) ==
    /\ ~lockLeft
    /\ v = mask \/ (type = "MYTHEN3" /\ b = bits)
    /\ mask' = v
    /\ bits' = b
    /\ lastAddress' = IF b = bits THEN lastAddress ELSE NoAddress
    /\ UNCHANGED <<type, counterMask, dataType, flight, lockLeft>>

\* NDDataType after a write of the bit depth: none is set for 12 bits.
TypeFor(b, old) ==
    IF b <= 8 THEN 1 ELSE IF b \in {16, 32, 64} THEN b \div 8 ELSE old

\* SDBitDepth at any address sets all modules, and the type at its own.
WriteBitDepth(a, b) ==
    /\ ~lockLeft
    /\ bits' = b
    /\ dataType' = [dataType EXCEPT ![a] = TypeFor(b, @)]
    /\ lastAddress' = a
    /\ UNCHANGED <<type, mask, counterMask, flight, lockLeft>>

FrameNext ==
    \/ Capture \/ Callback
    \/ \E v \in Masks : WriteMask(v) \/ \E b \in BitDepths : ChangeUnseen(v, b)
    \/ \E a \in FrameAddresses, b \in BitDepths : WriteBitDepth(a, b)

FrameSpec == FrameInit /\ [][FrameNext]_frameVars

-----------------------------------------------------------------------------
\* The plugins never read beyond the bytes that the callback copied: whatever
\* mask the parameter shows by then, and whatever the bit depth, the elements
\* of the image are no more than those of the frame.
ElementsWithinBuffer ==
    flight # <<>> =>
        LET image == ImageOf(Head(flight))
        IN  image.dims[1] * image.dims[2] * image.element <= image.bytes

\* An image made of a frame under the mask it was taken with has a row for
\* each of its counters and all of the frame's bytes; with 12 bits it has only
\* half of them, since 12 / 8 is taken for one byte.
FreshImageIsWhole ==
    flight # <<>> /\ ~Head(flight).stale /\ Supported(Head(flight)) =>
        LET frame == Head(flight)
            image == ImageOf(frame)
        IN  /\ type = "MYTHEN3" /\ Cardinality(frame.counters) > 1 =>
                    image.dims[1] = Cardinality(frame.counters)
            /\ frame.bits # 12 =>
                    image.dims[1] * image.dims[2] * image.element = image.bytes

\* NDDataType, at the address where the bit depth was last written, is the type
\* of the images made of frames of that depth, as long as no command and no
\* failed write has changed the depth behind it, except for 12 bits.
TypeTellsElement ==
    flight # <<>> /\ lastAddress # NoAddress =>
        LET frame == Head(flight)
        IN  frame.bits = bits /\ Supported(frame) /\ bits # 12
            => dataType[lastAddress] = ImageOf(frame).element

\* The image that the plugins get fits the frame it is made of, its memory and
\* the type that clients are shown, although mask, bit depth and the parameters
\* for both are written while frames are on their way.
ImagesFitFrames ==
    ElementsWithinBuffer /\ FreshImageIsWhole /\ TypeTellsElement
=============================================================================
