------------------------- MODULE FrameGeometryProofs ------------------------
(***************************************************************************)
(* Theorems about FrameGeometry, for any size of the detector and of the   *)
(* frames, any addresses and any number of frames under way.               *)
(*                                                                         *)
(* The inductive invariant adds to the types that a frame that is not      *)
(* stale has the counters of the mask parameter, and that the type at the  *)
(* address of the last write is that of the detector's bit depth.          *)
(***************************************************************************)
EXTENDS FrameGeometry, FiniteSetTheorems, TLAPS

NotStale == \A i \in 1 .. Len(flight) :
                ~flight[i].stale => flight[i].counters = counterMask

TypeFollows == lastAddress # NoAddress /\ bits # 12 =>
                   dataType[lastAddress] = IF bits <= 8 THEN 1 ELSE bits \div 8

FrameIInv == FrameTypeOK /\ NotStale /\ TypeFollows

-----------------------------------------------------------------------------
LEMMA MaskSizes ==
    ASSUME NEW m \in Masks
    PROVE  Cardinality(m) \in Nat /\ Cardinality(m) <= 3
<1>1. IsFiniteSet(m) /\ Cardinality(m) <= Cardinality(MaskCounters)
    BY FS_Subset, MaskAssumption DEF Masks
<1>2. Cardinality(m) \in Nat /\ Cardinality(MaskCounters) \in Nat
    BY <1>1, FS_CardinalityType, MaskAssumption
<1> QED BY <1>1, <1>2, MaskAssumption

LEMMA Depths ==
    ASSUME NEW b \in BitDepths
    PROVE  b \in {4, 8, 12, 16, 32, 64}
BY BitDepthsAssumption

\* The type set for any depth is one of the four.
LEMMA TypeForType ==
    ASSUME NEW b \in BitDepths, NEW old \in {1, 2, 4, 8}
    PROVE  TypeFor(b, old) \in {1, 2, 4, 8}
BY Depths DEF TypeFor

LEMMA HeadIsFrame ==
    ASSUME FrameTypeOK, flight # <<>>
    PROVE  /\ Head(flight) \in Frames /\ Head(flight) = flight[1]
           /\ 1 \in 1 .. Len(flight)
BY DEF FrameTypeOK

\* Dropping the oldest frame keeps the others in place.
LEMMA TailIsShorter ==
    ASSUME FrameTypeOK, flight # <<>>
    PROVE  /\ Tail(flight) \in Seq(Frames)
           /\ Len(Tail(flight)) = Len(flight) - 1
           /\ \A i \in 1 .. Len(Tail(flight)) :
                i + 1 \in 1 .. Len(flight) /\ Tail(flight)[i] = flight[i + 1]
BY DEF FrameTypeOK

\* Marking the frames leaves as many frames, all stale.
LEMMA StaleFrames ==
    ASSUME FrameTypeOK
    PROVE  /\ AllStale \in Seq(Frames) /\ Len(AllStale) = Len(flight)
           /\ \A i \in 1 .. Len(flight) : AllStale[i].stale
<1>1. \A i \in 1 .. Len(flight) :
        /\ [flight[i] EXCEPT !.stale = TRUE] \in Frames
        /\ [flight[i] EXCEPT !.stale = TRUE].stale
    <2>1. \A i \in 1 .. Len(flight) : flight[i] \in Frames
        BY DEF FrameTypeOK
    <2> QED BY <2>1 DEF Frames
<1>2. DOMAIN flight = 1 .. Len(flight) /\ Len(flight) \in Nat
    BY DEF FrameTypeOK
<1>3. AllStale \in [1 .. Len(flight) -> Frames]
    BY <1>1, <1>2 DEF AllStale
<1>4. AllStale \in Seq(Frames) /\ Len(AllStale) = Len(flight)
    BY <1>2, <1>3
<1> QED BY <1>1, <1>2, <1>4 DEF AllStale

-----------------------------------------------------------------------------
THEOREM FrameInitInv == FrameInit => FrameIInv
<1> SUFFICES ASSUME FrameInit PROVE FrameIInv OBVIOUS
<1>1. flight \in Seq(Frames) /\ Len(flight) <= MaxFlight
    BY MaxFlightAssumption DEF FrameInit
<1>4. dataType \in [FrameAddresses -> {1, 2, 4, 8}] BY DEF FrameInit
<1>5. FrameTypeOK BY <1>1, <1>4 DEF FrameInit, FrameTypeOK
<1>2. NotStale BY DEF FrameInit, NotStale
<1>3. TypeFollows BY DEF FrameInit, TypeFollows
<1> QED BY <1>2, <1>3, <1>5 DEF FrameIInv

\* Every step preserves the inductive invariant.
THEOREM FrameInvStep == FrameIInv /\ [FrameNext]_frameVars => FrameIInv'
<1> SUFFICES ASSUME FrameIInv, [FrameNext]_frameVars PROVE FrameIInv' OBVIOUS
<1> USE DEF FrameIInv
<1>1. CASE Callback
    <2>1. /\ flight' \in Seq(Frames) /\ Len(flight') = Len(flight) - 1
          /\ Len(flight) \in Nat /\ Len(flight) <= MaxFlight
        BY <1>1, TailIsShorter DEF Callback, FrameTypeOK
    <2>4. lockLeft' \in BOOLEAN BY <1>1 DEF Callback
    <2>5. FrameTypeOK'
        BY <1>1, <2>1, <2>4, MaxFlightAssumption DEF Callback, FrameTypeOK, frameParams
    <2>2. NotStale'
        BY <1>1, TailIsShorter DEF Callback, NotStale, frameParams
    <2>3. TypeFollows' BY <1>1 DEF Callback, TypeFollows, frameParams
    <2> QED BY <2>2, <2>3, <2>5
<1>2. CASE Capture
    <2> DEFINE frame == [counters |-> mask, bits |-> bits,
                         stale |-> mask # counterMask]
    <2>1. frame \in Frames BY DEF FrameTypeOK, Frames
    <2>2. flight' = Append(flight, frame) BY <1>2 DEF Capture
    <2> HIDE DEF frame
    <2>3. /\ flight' \in Seq(Frames) /\ Len(flight') = Len(flight) + 1
          /\ \A i \in 1 .. Len(flight') :
                flight'[i] = IF i = Len(flight') THEN frame ELSE flight[i]
        BY <2>1, <2>2 DEF FrameTypeOK
    <2>4. FrameTypeOK'
        BY <1>2, <2>3, MaxFlightAssumption DEF Capture, FrameTypeOK, frameParams
    <2>5. ~frame.stale => frame.counters = counterMask BY DEF frame
    <2>6. \A i \in 1 .. Len(flight') : i # Len(flight') => i \in 1 .. Len(flight)
        BY <2>3 DEF FrameTypeOK
    <2>7. NotStale'
        BY <1>2, <2>3, <2>5, <2>6 DEF Capture, NotStale, frameParams
    <2>8. TypeFollows' BY <1>2 DEF Capture, TypeFollows, frameParams
    <2> QED BY <2>4, <2>7, <2>8
<1>3. ASSUME NEW v \in Masks, WriteMask(v) PROVE FrameIInv'
    <2>1. FrameTypeOK' BY <1>3, StaleFrames DEF WriteMask, FrameTypeOK
    <2>2. NotStale' BY <1>3, StaleFrames DEF WriteMask, NotStale
    <2>3. TypeFollows' BY <1>3 DEF WriteMask, TypeFollows
    <2> QED BY <2>1, <2>2, <2>3
<1>4. ASSUME NEW v \in Masks, NEW b \in BitDepths, ChangeUnseen(v, b)
      PROVE  FrameIInv'
    <2>1. FrameTypeOK' BY <1>4 DEF ChangeUnseen, FrameTypeOK
    <2>2. NotStale' BY <1>4 DEF ChangeUnseen, NotStale
    <2>3. TypeFollows' BY <1>4 DEF ChangeUnseen, TypeFollows
    <2> QED BY <2>1, <2>2, <2>3
<1>5. ASSUME NEW a \in FrameAddresses, NEW b \in BitDepths, WriteBitDepth(a, b)
      PROVE  FrameIInv'
    <2>1. dataType[a] \in {1, 2, 4, 8} BY DEF FrameTypeOK
    <2>2. TypeFor(b, dataType[a]) \in {1, 2, 4, 8} BY <2>1, TypeForType
    <2>3. dataType' = [dataType EXCEPT ![a] = TypeFor(b, dataType[a])]
        BY <1>5 DEF WriteBitDepth
    <2>4. dataType' \in [FrameAddresses -> {1, 2, 4, 8}]
        BY <2>2, <2>3 DEF FrameTypeOK
    <2>5. FrameTypeOK' BY <1>5, <2>4 DEF WriteBitDepth, FrameTypeOK
    <2>6. NotStale' BY <1>5 DEF WriteBitDepth, NotStale
    <2>7. dataType'[a] = TypeFor(b, dataType[a]) BY <2>3 DEF FrameTypeOK
    <2>8. b # 12 => TypeFor(b, dataType[a]) = IF b <= 8 THEN 1 ELSE b \div 8
        BY Depths DEF TypeFor
    <2>9. TypeFollows' BY <1>5, <2>7, <2>8 DEF WriteBitDepth, TypeFollows
    <2> QED BY <2>5, <2>6, <2>9
<1>6. CASE UNCHANGED frameVars
    BY <1>6 DEF frameVars, frameParams, FrameTypeOK, NotStale, TypeFollows
<1> QED BY <1>1, <1>2, <1>3, <1>4, <1>5, <1>6 DEF FrameNext

\* The inductive invariant holds in every reachable state.
THEOREM FrameInvariance == FrameSpec => []FrameIInv
BY FrameInitInv, FrameInvStep, PTL DEF FrameSpec

\* The parameters, the frames under way and the detector are of their types.
THEOREM FrameTypes == FrameSpec => []FrameTypeOK
<1>1. FrameIInv => FrameTypeOK BY DEF FrameIInv
<1> QED BY <1>1, FrameInvariance, PTL

-----------------------------------------------------------------------------
\* Rows of a whole number of channels never hold more than all the channels.
LEMMA RowsFit ==
    ASSUME NEW x \in Nat
    PROVE  /\ 2 * Split(x, 2) <= x /\ Split(x, 2) \in Nat
           /\ 3 * Split(x, 3) <= x /\ Split(x, 3) \in Nat
BY DEF Split

LEMMA FrameSize ==
    ASSUME NEW f \in Frames, FrameTypeOK
    PROVE  /\ Nx(f) \in Nat /\ Ny \in Nat
           /\ type = "MYTHEN3" => Ny = 1
<1>1. f.counters \in Masks BY DEF Frames
<1>2. Cardinality(f.counters) \in Nat BY <1>1, MaskSizes
<1>3. Channels * Cardinality(f.counters) \in Nat BY <1>2, FrameSizesAssumption
<1> QED BY <1>3, FrameSizesAssumption DEF Nx, Ny

\* However the counter mask parameter cuts a frame, the elements of its image
\* are no more than the pixels of the frame.
LEMMA ElementsFit ==
    ASSUME NEW f \in Frames, FrameTypeOK
    PROVE  /\ Dims(f)[1] * Dims(f)[2] \in Nat
           /\ Nx(f) * Ny \in Nat
           /\ Dims(f)[1] * Dims(f)[2] <= Nx(f) * Ny
<1> DEFINE n == Cardinality(counterMask)
<1>1. n \in Nat /\ n <= 3 BY MaskSizes DEF FrameTypeOK
<1>2. Nx(f) \in Nat /\ Ny \in Nat /\ (type = "MYTHEN3" => Ny = 1)
    BY FrameSize
<1>3. CASE type = "MYTHEN3" /\ n = 2
    <2>1. Dims(f)[1] = 2 /\ Dims(f)[2] = Split(Nx(f), 2) BY <1>3 DEF Dims
    <2> QED BY <1>2, <1>3, <2>1, RowsFit
<1>4. CASE type = "MYTHEN3" /\ n = 3
    <2>1. Dims(f)[1] = 3 /\ Dims(f)[2] = Split(Nx(f), 3) BY <1>4 DEF Dims
    <2> QED BY <1>2, <1>4, <2>1, RowsFit
<1>5. CASE ~(type = "MYTHEN3" /\ n \in {2, 3})
    <2>1. Dims(f)[1] = Nx(f) /\ Dims(f)[2] = Ny BY <1>5 DEF Dims
    <2>2. Nx(f) * Ny \in Nat BY <1>2
    <2> QED BY <2>1, <2>2
<1> QED BY <1>3, <1>4, <1>5

\* The plugins never read beyond the buffer, for any number of channels, of
\* rows and of counters, and any bit depth: the image has at most as many
\* elements as the frame has bytes for.
THEOREM BufferIsEnough == FrameSpec => []ElementsWithinBuffer
<1>1. FrameTypeOK => ElementsWithinBuffer
    <2> SUFFICES ASSUME FrameTypeOK, flight # <<>>
                 PROVE  LET image == ImageOf(Head(flight))
                        IN  image.dims[1] * image.dims[2] * image.element
                                <= image.bytes
        BY DEF ElementsWithinBuffer
    <2> DEFINE f == Head(flight)
               e == Dims(f)[1] * Dims(f)[2]
               p == Nx(f) * Ny
    <2>1. f \in Frames BY HeadIsFrame
    <2>2. e \in Nat /\ p \in Nat /\ e <= p BY <2>1, ElementsFit
    <2>3. f.bits \in {4, 8, 12, 16, 32, 64} BY <2>1, Depths DEF Frames
    <2>4. DataBytes(f) = IF f.bits = 4 THEN p \div 2
                         ELSE p * (IF f.bits = 12 THEN 2 ELSE f.bits \div 8)
        BY DEF DataBytes
    <2>5. ImageOf(f).dims[1] * ImageOf(f).dims[2] = e
          /\ ImageOf(f).element = f.bits \div 8 /\ ImageOf(f).bytes = DataBytes(f)
        BY DEF ImageOf, ElementSize
    <2> HIDE DEF f, e, p
    <2>6. e * (f.bits \div 8) <= DataBytes(f) BY <2>2, <2>3, <2>4
    <2> QED BY <2>5, <2>6 DEF f
<1> QED BY <1>1, FrameTypes, PTL

\* An image made of a frame under its own mask has a row for each counter and
\* every byte of the frame, whatever the number of channels.
THEOREM FreshImages == FrameSpec => []FreshImageIsWhole
<1>1. FrameIInv => FreshImageIsWhole
    <2> SUFFICES ASSUME FrameIInv, flight # <<>>, ~Head(flight).stale,
                        Supported(Head(flight))
                 PROVE  LET frame == Head(flight)
                            image == ImageOf(frame)
                        IN  /\ type = "MYTHEN3" /\ Cardinality(frame.counters) > 1 =>
                                    image.dims[1] = Cardinality(frame.counters)
                            /\ frame.bits # 12 =>
                                    image.dims[1] * image.dims[2] * image.element
                                        = image.bytes
        BY DEF FreshImageIsWhole
    <2> DEFINE f == Head(flight)
               n == Cardinality(f.counters)
               p == Nx(f) * Ny
    <2>1. f \in Frames /\ f.counters = counterMask
        BY HeadIsFrame DEF FrameIInv, NotStale
    <2>2. n \in Nat /\ n <= 3 BY <2>1, MaskSizes DEF Frames
    <2>3. f.bits \in {4, 8, 12, 16, 32, 64} BY <2>1, Depths DEF Frames
    <2>4. Nx(f) \in Nat /\ Ny \in Nat /\ p \in Nat
        BY <2>1, FrameSize, ElementsFit DEF FrameIInv
    <2>5. /\ Dims(f)[1] * Dims(f)[2] = p
          /\ type = "MYTHEN3" /\ n > 1 => Dims(f)[1] = n
        <3>1. CASE type = "MYTHEN3" /\ n \in {2, 3}
            <4>1. Dims(f) = <<n, Split(Nx(f), n)>> BY <2>1, <3>1 DEF Dims
            <4>2. Nx(f) = Channels * n /\ Ny = 1 BY <3>1 DEF Nx, Ny
            <4>3. n * Split(Channels * n, n) = Channels * n
                <5>1. CASE n = 2 BY <5>1, FrameSizesAssumption DEF Split
                <5>2. CASE n = 3 BY <5>2, FrameSizesAssumption DEF Split
                <5> QED BY <3>1, <5>1, <5>2
            <4> QED BY <2>4, <4>1, <4>2, <4>3
        <3>2. CASE ~(type = "MYTHEN3" /\ n \in {2, 3})
            <4>1. Dims(f) = <<Nx(f), Ny>> BY <2>1, <3>2 DEF Dims
            <4>2. ~(type = "MYTHEN3" /\ n > 1) BY <2>2, <3>2
            <4> QED BY <4>1, <4>2
        <3> QED BY <3>1, <3>2
    <2>6. /\ ImageOf(f).dims = Dims(f) /\ ImageOf(f).element = f.bits \div 8
          /\ ImageOf(f).bytes = DataBytes(f) /\ f.bits \div 8 # 0
        BY DEF ImageOf, ElementSize, Supported
    <2>7. f.bits # 12 => DataBytes(f) = p * (f.bits \div 8)
        BY <2>3, <2>6 DEF DataBytes
    <2> QED BY <2>5, <2>6, <2>7
<1> QED BY <1>1, FrameInvariance, PTL

\* NDDataType at the address of the last write of the bit depth tells the type
\* of the images, whatever writes to whatever addresses went before.
THEOREM TypeTells == FrameSpec => []TypeTellsElement
<1>1. FrameIInv => TypeTellsElement
    <2> SUFFICES ASSUME FrameIInv, flight # <<>>, lastAddress # NoAddress,
                        Head(flight).bits = bits, Supported(Head(flight)),
                        bits # 12
                 PROVE  dataType[lastAddress] = ImageOf(Head(flight)).element
        BY DEF TypeTellsElement
    <2>1. bits \in {4, 8, 16, 32, 64} BY Depths DEF FrameIInv, FrameTypeOK
    <2>2. ImageOf(Head(flight)).element = bits \div 8 /\ bits \div 8 # 0
        BY DEF ImageOf, ElementSize, Supported
    <2> QED BY <2>1, <2>2 DEF FrameIInv, TypeFollows
<1> QED BY <1>1, FrameInvariance, PTL

\* For any channels, rows, counters and bit depths, what the plugins are given
\* fits the frame it is made of, and is what clients are told it is.
THEOREM ImagesFit == FrameSpec => []ImagesFitFrames
<1>1. ElementsWithinBuffer /\ FreshImageIsWhole /\ TypeTellsElement
        => ImagesFitFrames
    BY DEF ImagesFitFrames
<1> QED BY <1>1, BufferIsEnough, FreshImages, TypeTells, PTL
=============================================================================
