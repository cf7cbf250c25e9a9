------------------------- MODULE DataCallbackProofs -------------------------
(***************************************************************************)
(* The safety properties of DataCallback, for any pool, any queue and any  *)
(* set of dynamic ranges.  The heart is RefsExact: from the count of the   *)
(* references follow both that no held image is written over and that the  *)
(* pool never runs out.                                                    *)
(***************************************************************************)
EXTENDS DataCallback, SequenceTheorems, FiniteSetTheorems, TLAPS

-----------------------------------------------------------------------------
(***************************************************************************)
(* Counting in a queue                                                     *)
(***************************************************************************)

\* The places of a buffer in a queue are finitely many.
LEMMA QueuedType ==
    ASSUME NEW b, NEW q \in Seq(Buffers)
    PROVE  /\ IsFiniteSet({i \in DOMAIN q : q[i] = b})
           /\ Queued(b, q) \in Nat
<1>1. DOMAIN q = 1 .. Len(q) /\ Len(q) \in Nat
    BY LenProperties
<1>2. IsFiniteSet(1 .. Len(q))
    BY <1>1, FS_Interval
<1>3. IsFiniteSet({i \in DOMAIN q : q[i] = b})
    BY <1>1, <1>2, FS_Subset
<1> QED
    BY <1>3, FS_CardinalityType DEF Queued

\* A buffer is nowhere in the empty queue.
LEMMA QueuedEmpty == \A b : Queued(b, <<>>) = 0
<1> TAKE b
<1>1. {i \in DOMAIN <<>> : <<>>[i] = b} = {}
    OBVIOUS
<1> QED
    BY <1>1, FS_EmptySet DEF Queued

\* An image that has a place in the queue is counted.
LEMMA QueuedPlace ==
    ASSUME NEW b, NEW q \in Seq(Buffers), NEW i \in DOMAIN q, q[i] = b
    PROVE  Queued(b, q) >= 1
<1>1. {k \in DOMAIN q : q[k] = b} # {}
    OBVIOUS
<1>2. Queued(b, q) \in Nat /\ IsFiniteSet({k \in DOMAIN q : q[k] = b})
    BY QueuedType
<1>3. Queued(b, q) # 0
    BY <1>1, <1>2, FS_EmptySet DEF Queued
<1> QED
    BY <1>2, <1>3

\* Appending an image adds one place for it and none for others.
LEMMA QueuedAppend ==
    ASSUME NEW b, NEW q \in Seq(Buffers), NEW x \in Buffers
    PROVE  Queued(b, Append(q, x)) = Queued(b, q) + Ind(x = b)
<1> DEFINE r == Append(q, x)
           P == {i \in DOMAIN q : q[i] = b}
           R == {i \in DOMAIN r : r[i] = b}
           n == Len(q) + 1
<1>1. DOMAIN q = 1 .. Len(q) /\ Len(q) \in Nat
    BY LenProperties
<1>2. /\ r \in Seq(Buffers) /\ Len(r) = n
      /\ \A i \in 1 .. Len(q) : r[i] = q[i]
      /\ r[n] = x
    BY AppendProperties
<1>3. DOMAIN r = 1 .. n
    BY <1>2, LenProperties
<1>4. IsFiniteSet(P) /\ Cardinality(P) \in Nat
    BY QueuedType DEF Queued
<1>5. n \notin P
    BY <1>1
<1>6. CASE x = b
  <2>1. R = P \cup {n}
      BY <1>1, <1>2, <1>3, <1>6
  <2>2. Cardinality(R) = Cardinality(P) + 1
      BY <2>1, <1>4, <1>5, FS_AddElement
  <2>3. Ind(x = b) = 1
      BY <1>6 DEF Ind
  <2> QED
      BY <2>2, <2>3 DEF Queued
<1>7. CASE x # b
  <2>1. R = P
      BY <1>1, <1>2, <1>3, <1>7
  <2>2. Ind(x = b) = 0
      BY <1>7 DEF Ind
  <2>3. Cardinality(R) = Cardinality(P) + 0
    <3>1. Cardinality(R) = Cardinality(P)
        BY <2>1
    <3> HIDE DEF P, R
    <3> QED
        BY <3>1, <1>4
  <2> QED
      BY <2>2, <2>3 DEF Queued
<1> QED
    BY <1>6, <1>7

\* Taking the first image off takes one place from it and none from others.
LEMMA QueuedTail ==
    ASSUME NEW b, NEW q \in Seq(Buffers), q # <<>>
    PROVE  Queued(b, q) = Queued(b, Tail(q)) + Ind(Head(q) = b)
<1> DEFINE t == Tail(q)
           P == {i \in DOMAIN q : q[i] = b}
           T == {i \in DOMAIN t : t[i] = b}
           S == {i \in P : i # 1}
           f == [i \in T |-> i + 1]
<1>1. DOMAIN q = 1 .. Len(q) /\ Len(q) \in Nat \ {0} /\ Head(q) = q[1]
    BY LenProperties, EmptySeq
<1>2. /\ t \in Seq(Buffers) /\ Len(t) = Len(q) - 1
      /\ \A i \in 1 .. Len(t) : t[i] = q[i + 1]
    BY HeadTailProperties
<1>3. DOMAIN t = 1 .. Len(q) - 1
    BY <1>2, LenProperties
<1>4. IsFiniteSet(T) /\ Cardinality(T) \in Nat
    BY <1>2, QueuedType, FS_CardinalityType
<1>5. f \in Bijection(T, S)
  <2>1. \A i \in T : i + 1 \in S
      BY <1>1, <1>2, <1>3
  <2>2. \A j \in S : j - 1 \in T /\ (j - 1) + 1 = j
      BY <1>1, <1>2, <1>3
  <2>3. \A i, j \in T : i + 1 = j + 1 => i = j
      BY <1>1, <1>3
  <2>4. f \in Injection(T, S)
      BY <2>1, <2>3 DEF Injection, IsInjective
  <2>5. f \in Surjection(T, S)
      BY <2>1, <2>2 DEF Surjection
  <2> QED
      BY <2>4, <2>5 DEF Bijection
<1>6. IsFiniteSet(S) /\ Cardinality(S) = Cardinality(T)
    BY <1>4, <1>5, FS_Bijection DEF ExistsBijection
<1>7. CASE Head(q) = b
  <2>1. P = S \cup {1} /\ 1 \notin S
      BY <1>1, <1>7
  <2>2. Cardinality(P) = Cardinality(T) + 1
      BY <2>1, <1>6, FS_AddElement
  <2>3. Ind(Head(q) = b) = 1
      BY <1>7 DEF Ind
  <2> QED
      BY <2>2, <2>3 DEF Queued
<1>8. CASE Head(q) # b
  <2>1. P = S
      BY <1>1, <1>8
  <2>2. Ind(Head(q) = b) = 0
      BY <1>8 DEF Ind
  <2>3. Cardinality(P) = Cardinality(T) + 0
    <3>1. Cardinality(P) = Cardinality(T)
        BY <2>1, <1>6
    <3> HIDE DEF P, T
    <3> QED
        BY <3>1, <1>4
  <2> QED
      BY <2>2, <2>3 DEF Queued
<1> QED
    BY <1>7, <1>8

\* A queue of at most QueueSize images holds at most as many buffers.
LEMMA QueueBound ==
    ASSUME NEW q \in Seq(Buffers), Len(q) <= QueueSize
    PROVE  LET held == {b \in Buffers : \E i \in DOMAIN q : q[i] = b}
           IN  IsFiniteSet(held) /\ Cardinality(held) \in 0 .. QueueSize
<1> DEFINE held == {b \in Buffers : \E i \in DOMAIN q : q[i] = b}
<1>1. DOMAIN q = 1 .. Len(q) /\ Len(q) \in Nat /\ q \in [1 .. Len(q) -> Buffers]
    BY LenProperties
<1>2. IsFiniteSet(1 .. Len(q)) /\ Cardinality(1 .. Len(q)) = Len(q)
    BY <1>1, FS_Interval
<1>3. q \in Surjection(1 .. Len(q), held)
    BY <1>1 DEF Surjection
<1>4. IsFiniteSet(held) /\ Cardinality(held) <= Len(q)
    BY <1>2, <1>3, FS_Surjection
<1> QED
    BY <1>1, <1>4, FS_CardinalityType, BuffersAssumption

-----------------------------------------------------------------------------
(***************************************************************************)
(* The inductive invariant                                                 *)
(***************************************************************************)
AllSupported == \A range \in Ranges : Supported(range)

\* The owner of the driver's mutex is where it may hold it; the callback's
\* thread may also hold it elsewhere, after an unsupported image.
LockInv ==
    /\ depth = 0 <=> owner = "none"
    /\ pc \in {"alloc", "release", "save"} => owner = "callback"
    /\ owner = "plugin" <=> pluginPc = "call"
    /\ owner = "port" <=> portPc = "handler"
    /\ owner \in {"plugin", "port"} => depth = 1

\* With supported images only, it does not.
BalanceInv ==
    AllSupported =>
        /\ owner = "callback" => pc \in {"alloc", "release", "save"}
        /\ depth <= 1

\* Who has an image in hand.
HolderInv ==
    /\ image = NoBuffer <=> pc \in {"idle", "alloc"}
    /\ inHand = NoBuffer <=> pluginPc = "wait"

\* The image that has begun is counted when its buffer is allocated.
CounterInv ==
    expected = IF pc = "alloc" THEN NextNumber(counter) ELSE counter

IInv ==
    /\ TypeOK /\ LockInv /\ BalanceInv /\ HolderInv /\ RefsExact /\ CounterInv

\* What anybody holds has a reference.
LEMMA HeldIsCounted ==
    ASSUME TypeOK, RefsExact, NEW b \in Buffers,
           \/ b = image \/ b = latest \/ b = inHand
           \/ \E i \in DOMAIN queue : queue[i] = b
    PROVE  refs[b] >= 1
<1> DEFINE q == Queued(b, queue)
<1>1. queue \in Seq(Buffers)
    BY DEF TypeOK
<1>2. q \in Nat
    BY <1>1, QueuedType
<1>3. refs[b] = Ind(image = b) + Ind(latest = b) + Ind(inHand = b) + q
    BY DEF RefsExact
<1>4. (\E i \in DOMAIN queue : queue[i] = b) => q >= 1
    BY <1>1, QueuedPlace
<1> HIDE DEF q
<1> QED
    BY <1>2, <1>3, <1>4 DEF Ind

LEMMA InitInv == Init => IInv
<1> SUFFICES ASSUME Init PROVE IInv
    OBVIOUS
<1> USE DEF Init
<1>1. queue \in Seq(Buffers) /\ Len(queue) <= QueueSize
    BY EmptySeq, BuffersAssumption
<1>2. TypeOK
    BY <1>1, BoundsAssumption DEF TypeOK, Buffer0
<1>3. RefsExact
    BY QueuedEmpty, BuffersAssumption DEF RefsExact, Ind
<1> QED
    BY <1>2, <1>3 DEF IInv, LockInv, BalanceInv, HolderInv, CounterInv

\* The steps preserve the types: the queue stays bounded, and a reference is
\* given back only by one that is counted.
LEMMA TypeStep == IInv /\ [Next]_vars => TypeOK'
<1> SUFFICES ASSUME IInv, [Next]_vars PROVE TypeOK'
    OBVIOUS
<1> USE BuffersAssumption, BoundsAssumption
    DEF IInv, TypeOK, Buffer0, lockVars, params, pool, pluginVars
<1>1. ASSUME NEW range \in Ranges, FrameBegins(range) PROVE TypeOK'
    BY <1>1 DEF FrameBegins, Lock, NextNumber
<1>2. CASE Allocate
    BY <1>2 DEF Allocate, NextNumber
<1>3. CASE ReleaseLock
    BY <1>3 DEF ReleaseLock, Unlock, LockInv
<1>4. CASE CallPlugin
  <2>1. image \in Buffers
      BY <1>4 DEF CallPlugin, HolderInv
  <2>2. queue' \in Seq(Buffers) /\ Len(queue') <= QueueSize
    <3>1. /\ Append(queue, image) \in Seq(Buffers)
          /\ Len(Append(queue, image)) = Len(queue) + 1
        BY <2>1, AppendProperties
    <3>2. Len(queue) \in Nat
        BY LenProperties
    <3>3. \/ Len(queue) < QueueSize /\ queue' = Append(queue, image)
          \/ queue' = queue
        BY <1>4 DEF CallPlugin
    <3>4. CASE Len(queue) < QueueSize /\ queue' = Append(queue, image)
      <4>1. Len(queue) + 1 <= QueueSize
          BY <3>2, <3>4
      <4> QED
          BY <3>1, <3>4, <4>1
    <3> QED
        BY <3>3, <3>4
  <2>3. refs' \in [Buffers -> Nat]
    <3>1. \A b \in Buffers : refs[b] + 1 \in Nat
        OBVIOUS
    <3>2. refs' = [refs EXCEPT ![image] = @ + 1] \/ refs' = refs
        BY <1>4 DEF CallPlugin
    <3> QED
        BY <2>1, <3>1, <3>2
  <2> QED
      BY <1>4, <2>2, <2>3 DEF CallPlugin
<1>5. CASE Relock
    BY <1>5 DEF Relock, Lock
<1>6. CASE Save
  <2>1. refs' \in [Buffers -> Nat]
    <3>1. \A b \in Buffers : b = latest => refs[b] >= 1
        BY HeldIsCounted
    <3> QED
        BY <1>6, <3>1 DEF Save
  <2> QED
      BY <1>6, <2>1 DEF Save, Unlock, LockInv
<1>7. CASE PluginTakes
  <2>1. Head(queue) \in Buffers /\ Tail(queue) \in Seq(Buffers)
        /\ Len(Tail(queue)) <= QueueSize
      BY <1>7, HeadTailProperties, LenProperties DEF PluginTakes
  <2> QED
      BY <1>7, <2>1 DEF PluginTakes
<1>8. CASE PluginLocks
    BY <1>8 DEF PluginLocks
<1>9. CASE PluginCalls
    BY <1>9 DEF PluginCalls, Lock
<1>10. CASE CallReturns
    BY <1>10 DEF CallReturns, Unlock, LockInv
<1>11. CASE PluginEnds
  <2>1. inHand \in Buffers /\ refs[inHand] >= 1
      BY <1>11, HeldIsCounted DEF PluginEnds, HolderInv
  <2> QED
      BY <1>11, <2>1 DEF PluginEnds
<1>12. ASSUME NEW n \in 0 .. MaxCounter, WriteCounter(n) PROVE TypeOK'
    BY <1>12 DEF WriteCounter
<1>13. ASSUME NEW v \in {0, 1}, WriteCallbacks(v) PROVE TypeOK'
    BY <1>13 DEF WriteCallbacks
<1>14. CASE HandlerBegins
    BY <1>14 DEF HandlerBegins, Lock
<1>15. CASE HandlerEnds
    BY <1>15 DEF HandlerEnds, Unlock, LockInv
<1>16. CASE UNCHANGED vars
    BY <1>16 DEF vars
<1> QED
    BY <1>1, <1>2, <1>3, <1>4, <1>5, <1>6, <1>7, <1>8, <1>9, <1>10, <1>11,
       <1>12, <1>13, <1>14, <1>15, <1>16
       DEF Next, CallbackStep, PluginStep, PortBegins

\* Each step takes or gives back the mutex where the program counters say so.
LEMMA LockStep == IInv /\ [Next]_vars => LockInv' /\ BalanceInv'
<1> DEFINE Locks == LockInv /\ BalanceInv
<1> SUFFICES ASSUME IInv, [Next]_vars PROVE Locks'
    OBVIOUS
<1> USE DEF IInv, TypeOK, LockInv, BalanceInv, AllSupported, lockVars,
            pluginVars, Lock, MayLock, Unlock
<1>1. ASSUME NEW range \in Ranges, FrameBegins(range) PROVE Locks'
    BY <1>1 DEF FrameBegins
<1>2. CASE Allocate
    BY <1>2 DEF Allocate
<1>3. CASE ReleaseLock
    BY <1>3 DEF ReleaseLock
<1>4. CASE CallPlugin
    BY <1>4 DEF CallPlugin
<1>5. CASE Relock
    BY <1>5 DEF Relock
<1>6. CASE Save
    BY <1>6 DEF Save
<1>7. CASE PluginTakes
    BY <1>7 DEF PluginTakes
<1>8. CASE PluginLocks
    BY <1>8 DEF PluginLocks
<1>9. CASE PluginCalls
    BY <1>9 DEF PluginCalls
<1>10. CASE CallReturns
    BY <1>10 DEF CallReturns
<1>11. CASE PluginEnds
    BY <1>11 DEF PluginEnds
<1>12. ASSUME NEW n \in 0 .. MaxCounter, WriteCounter(n) PROVE Locks'
    BY <1>12 DEF WriteCounter
<1>13. ASSUME NEW v \in {0, 1}, WriteCallbacks(v) PROVE Locks'
    BY <1>13 DEF WriteCallbacks
<1>14. CASE HandlerBegins
    BY <1>14 DEF HandlerBegins
<1>15. CASE HandlerEnds
    BY <1>15 DEF HandlerEnds
<1>16. CASE UNCHANGED vars
    BY <1>16 DEF vars
<1> QED
    BY <1>1, <1>2, <1>3, <1>4, <1>5, <1>6, <1>7, <1>8, <1>9, <1>10, <1>11,
       <1>12, <1>13, <1>14, <1>15, <1>16
       DEF Next, CallbackStep, PluginStep, PortBegins

\* An image is in the callback from its allocation to its saving, and in the
\* plugin's hands from the queue to the end of its processing.
LEMMA HolderStep == IInv /\ [Next]_vars => HolderInv'
<1> SUFFICES ASSUME IInv, [Next]_vars PROVE HolderInv'
    OBVIOUS
<1> USE BuffersAssumption DEF IInv, TypeOK, HolderInv, pluginVars
<1>1. ASSUME NEW range \in Ranges, FrameBegins(range) PROVE HolderInv'
    BY <1>1 DEF FrameBegins
<1>2. CASE Allocate
    BY <1>2 DEF Allocate
<1>3. CASE ReleaseLock \/ CallPlugin \/ Relock
    BY <1>3 DEF ReleaseLock, CallPlugin, Relock
<1>4. CASE Save
    BY <1>4 DEF Save
<1>5. CASE PluginTakes
  <2>1. Head(queue) # NoBuffer
      BY <1>5, HeadTailProperties DEF PluginTakes
  <2> QED
      BY <1>5, <2>1 DEF PluginTakes
<1>6. CASE PluginLocks \/ PluginCalls \/ CallReturns
    BY <1>6 DEF PluginLocks, PluginCalls, CallReturns
<1>7. CASE PluginEnds
    BY <1>7 DEF PluginEnds
<1>8. CASE UNCHANGED <<pc, image, pluginPc, inHand>>
    BY <1>8
<1> QED
    BY <1>1, <1>2, <1>3, <1>4, <1>5, <1>6, <1>7, <1>8
       DEF Next, CallbackStep, PluginStep, PortBegins, WriteCounter,
           WriteCallbacks, HandlerBegins, HandlerEnds, vars

\* Each step that moves an image from one holder to another moves, adds or
\* gives back just that holder's reference.
LEMMA RefsStep == IInv /\ [Next]_vars => RefsExact'
<1> SUFFICES ASSUME IInv, [Next]_vars, NEW b \in Buffers
             PROVE  refs'[b] = Ind(image' = b) + Ind(latest' = b)
                                 + Ind(inHand' = b) + Queued(b, queue')
    BY DEF RefsExact
<1> DEFINE Exact == refs[b] = Ind(image = b) + Ind(latest = b)
                                 + Ind(inHand = b) + Queued(b, queue)
<1>0. /\ Exact /\ Queued(b, queue) \in Nat /\ b # NoBuffer
      /\ refs \in [Buffers -> Nat] /\ queue \in Seq(Buffers)
    BY QueuedType, BuffersAssumption DEF IInv, TypeOK, RefsExact
<1> USE DEF IInv, Ind
<1>1. CASE Allocate
  <2>1. PICK x \in Buffers :
            refs[x] = 0 /\ refs' = [refs EXCEPT ![x] = 1] /\ image' = x
      BY <1>1 DEF Allocate
  <2>2. image = NoBuffer /\ UNCHANGED <<latest, inHand, queue>>
      BY <1>1 DEF Allocate, HolderInv, pluginVars
  <2> QED
      BY <1>0, <2>1, <2>2
<1>2. CASE CallPlugin
  <2>1. image \in Buffers /\ UNCHANGED <<image, latest, inHand>>
      BY <1>2 DEF CallPlugin, HolderInv, TypeOK, Buffer0
  <2>2. CASE Len(queue) < QueueSize
    <3>1. queue' = Append(queue, image) /\ refs' = [refs EXCEPT ![image] = @ + 1]
        BY <1>2, <2>2 DEF CallPlugin
    <3>2. Queued(b, queue') = Queued(b, queue) + Ind(image = b)
        BY <1>0, <2>1, <3>1, QueuedAppend
    <3> QED
        BY <1>0, <2>1, <3>1, <3>2
  <2>3. CASE ~(Len(queue) < QueueSize)
      BY <1>0, <1>2, <2>1, <2>3 DEF CallPlugin
  <2> QED
      BY <2>2, <2>3
<1>3. CASE Save
    BY <1>0, <1>3 DEF Save, HolderInv, pluginVars
<1>4. CASE PluginTakes
  <2>1. /\ inHand = NoBuffer /\ inHand' = Head(queue) /\ queue' = Tail(queue)
        /\ queue # <<>> /\ UNCHANGED <<refs, image, latest>>
      BY <1>4 DEF PluginTakes, HolderInv, pool
  <2>2. Queued(b, queue) = Queued(b, queue') + Ind(inHand' = b)
      BY <1>0, <2>1, QueuedTail
  <2>3. queue' \in Seq(Buffers)
      BY <1>0, <2>1, HeadTailProperties
  <2>4. Queued(b, queue') \in Nat
      BY <2>3, QueuedType
  <2> QED
      BY <1>0, <2>1, <2>2, <2>4
<1>5. CASE PluginEnds
    BY <1>0, <1>5 DEF PluginEnds, HolderInv, TypeOK, Buffer0
<1>6. CASE UNCHANGED <<refs, image, latest, inHand, queue>>
    BY <1>0, <1>6
<1> QED
    BY <1>1, <1>2, <1>3, <1>4, <1>5, <1>6
       DEF Next, CallbackStep, PluginStep, PortBegins, FrameBegins, ReleaseLock,
           Relock, PluginLocks, PluginCalls, CallReturns, WriteCounter,
           WriteCallbacks, HandlerBegins, HandlerEnds, vars, pool, pluginVars

\* No client writes the counter between an image's beginning and its counting.
LEMMA CounterStep == IInv /\ [Next]_vars => CounterInv'
<1> SUFFICES ASSUME IInv, [Next]_vars PROVE CounterInv'
    OBVIOUS
<1> USE DEF IInv, CounterInv, NextNumber
<1>1. ASSUME NEW range \in Ranges, FrameBegins(range) PROVE CounterInv'
    BY <1>1 DEF FrameBegins
<1>2. CASE Allocate
    BY <1>2 DEF Allocate
<1>3. CASE ReleaseLock \/ CallPlugin \/ Relock \/ Save
    BY <1>3 DEF ReleaseLock, CallPlugin, Relock, Save, params
<1>4. ASSUME NEW n \in 0 .. MaxCounter, WriteCounter(n) PROVE CounterInv'
    BY <1>4 DEF WriteCounter, LockInv
<1>5. CASE UNCHANGED <<counter, expected, pc>>
    BY <1>5
<1> QED
    BY <1>1, <1>2, <1>3, <1>4, <1>5
       DEF Next, CallbackStep, PluginStep, PortBegins, PluginTakes, PluginLocks,
           PluginCalls, CallReturns, PluginEnds, WriteCallbacks, HandlerBegins,
           HandlerEnds, vars, params

\* The conjuncts together are an invariant.
LEMMA Inductive == Spec => []IInv
<1>1. IInv /\ [Next]_vars => IInv'
    BY TypeStep, LockStep, HolderStep, RefsStep, CounterStep DEF IInv
<1> QED
    BY InitInv, <1>1, PTL DEF Spec

-----------------------------------------------------------------------------
\* Every variable is of its type, whatever the size of the pool and the queue.
THEOREM Types == Spec => []TypeOK
<1>1. IInv => TypeOK
    BY DEF IInv
<1> QED
    BY Inductive, <1>1, PTL

\* Every buffer has one reference for each of its holders.
THEOREM ReferencesAreExact == Spec => []RefsExact
<1>1. IInv => RefsExact
    BY DEF IInv
<1> QED
    BY Inductive, <1>1, PTL

\* One buffer per holder is enough: alloc() always finds a free one.
THEOREM PoolSuffices == Spec => []NeverExhausted
<1>1. IInv => NeverExhausted
  <2> SUFFICES ASSUME IInv, pc = "alloc", \A b \in Buffers : refs[b] # 0
               PROVE  FALSE
      BY DEF NeverExhausted
  <2> DEFINE held == {b \in Buffers : \E i \in DOMAIN queue : queue[i] = b}
             some == (held \cup {latest}) \cup {inHand}
  <2>1. \A b \in Buffers : b \in some
    <3> SUFFICES ASSUME NEW b \in Buffers, b # latest, b # inHand
                 PROVE  b \in held
        OBVIOUS
    <3>1. image # b /\ queue \in Seq(Buffers) /\ refs[b] \in Nat \ {0}
        BY BuffersAssumption DEF IInv, TypeOK, HolderInv
    <3>2. Queued(b, queue) \in Nat
        BY <3>1, QueuedType
    <3>3. refs[b] = Ind(image = b) + Ind(latest = b) + Ind(inHand = b)
                      + Queued(b, queue)
        BY DEF IInv, RefsExact
    <3>4. Ind(image = b) = 0 /\ Ind(latest = b) = 0 /\ Ind(inHand = b) = 0
        BY <3>1 DEF Ind
    <3>5. Queued(b, queue) # 0
        BY <3>1, <3>2, <3>3, <3>4
    <3>6. {i \in DOMAIN queue : queue[i] = b} # {}
        BY <3>5, FS_EmptySet DEF Queued
    <3> QED
        BY <3>6
  <2>2. IsFiniteSet(held) /\ Cardinality(held) \in 0 .. QueueSize
      BY QueueBound DEF IInv, TypeOK
  <2>3. IsFiniteSet(some) /\ Cardinality(some) <= QueueSize + 2
    <3>1. /\ IsFiniteSet(held \cup {latest})
          /\ Cardinality(held \cup {latest}) \in 0 .. QueueSize + 1
        BY <2>2, FS_AddElement, BuffersAssumption
    <3>2. /\ IsFiniteSet(some)
          /\ \/ Cardinality(some) = Cardinality(held \cup {latest})
             \/ Cardinality(some) = Cardinality(held \cup {latest}) + 1
        BY <3>1, FS_AddElement
    <3> HIDE DEF some
    <3> QED
        BY <3>1, <3>2, BuffersAssumption
  <2>4. Cardinality(Buffers) <= Cardinality(some)
      BY <2>1, <2>3, FS_Subset
  <2>5. Cardinality(Buffers) \in Nat /\ Cardinality(some) \in Nat
      BY <2>3, FS_CardinalityType, BuffersAssumption
  <2> HIDE DEF some
  <2> QED
      BY <2>3, <2>4, <2>5, BuffersAssumption
<1> QED
    BY Inductive, <1>1, PTL

\* No image that anybody holds is written over.
THEOREM HeldImagesStay == Spec => HeldImagesUntouched
<1> DEFINE Held(b) == \/ b = latest \/ b = inHand
                      \/ \E i \in DOMAIN queue : queue[i] = b
<1>1. IInv /\ [Next]_vars => \A b \in Buffers : Held(b) => number'[b] = number[b]
  <2> SUFFICES ASSUME IInv, [Next]_vars, NEW b \in Buffers, Held(b)
               PROVE  number'[b] = number[b]
      OBVIOUS
  <2>1. CASE Allocate
    <3>1. refs[b] # 0
        BY HeldIsCounted DEF IInv
    <3> QED
        BY <2>1, <3>1 DEF Allocate, IInv, TypeOK
  <2>2. CASE UNCHANGED number
      BY <2>2
  <2> QED
      BY <2>1, <2>2
         DEF Next, CallbackStep, PluginStep, PortBegins, FrameBegins, ReleaseLock,
             CallPlugin, Relock, Save, PluginTakes, PluginLocks, PluginCalls,
             CallReturns, PluginEnds, WriteCounter, WriteCallbacks,
             HandlerBegins, HandlerEnds, vars, pool
<1>2. IInv /\ [Next]_vars =>
        [\A b \in Buffers :
            b = latest \/ b = inHand \/ (\E i \in DOMAIN queue : queue[i] = b)
                => number'[b] = number[b]]_vars
    BY <1>1
<1> QED
    BY Inductive, <1>2, PTL DEF Spec, HeldImagesUntouched

\* The counter is never set back to a number read before a client's write.
THEOREM CounterIsKept == Spec => []CounterCountsFrames
<1>1. IInv => CounterCountsFrames
    BY DEF IInv, CounterInv, CounterCountsFrames
<1> QED
    BY Inductive, <1>1, PTL

\* Where every dynamic range is a supported one, the plugins are called with
\* the driver's lock released for good, not one level of several.
THEOREM PluginsCalledUnlocked ==
    ASSUME AllSupported
    PROVE  Spec => []LockFreeForPlugins
<1>1. IInv => LockFreeForPlugins
    BY DEF IInv, BalanceInv, LockFreeForPlugins
<1> QED
    BY Inductive, <1>1, PTL

-----------------------------------------------------------------------------
(***************************************************************************)
(* Nobody waits on everybody.  Three threads and two mutexes: the callback *)
(* may wait for a buffer, for the plugin's mutex and for the driver's, the *)
(* plugin for both mutexes, the port thread for the driver's.              *)
(***************************************************************************)

\* The guards of CallbackStep, of PluginStep and of HandlerEnds.
CallbackCanGoOn ==
    \/ pc = "alloc" /\ \E b \in Buffers : refs[b] = 0
    \/ pc \in {"release", "save"}
    \/ pc = "callbacks" /\ pluginOwner = "none"
    \/ pc = "relock" /\ MayLock("callback")

PluginCanGoOn ==
    \/ pluginPc = "wait" /\ queue # <<>>
    \/ pluginPc = "lock" /\ pluginOwner = "none"
    \/ pluginPc = "calling" /\ MayLock("plugin")
    \/ pluginPc \in {"call", "done"}

HandlerCanGoOn == portPc = "handler"

Resting == pc = "idle" /\ pluginPc = "wait" /\ queue = <<>> /\ portPc = "idle"

\* As long as an image is in the callback, in the queue or in the plugin's
\* hands, or a handler has the lock, one of the threads can take its next step:
\* with the lock released around the plugins no two threads wait for each other.
NobodyIsStuck ==
    Resting \/ CallbackCanGoOn \/ PluginCanGoOn \/ HandlerCanGoOn

\* The plugin has its mutex while it processes an image.
PluginLockInv == pluginOwner = "plugin" <=> pluginPc \in {"calling", "call", "done"}

\* Nobody but the plugin takes that mutex for longer than a step.
LEMMA PluginLockStep == TypeOK /\ PluginLockInv /\ [Next]_vars => PluginLockInv'
<1> SUFFICES ASSUME TypeOK, PluginLockInv, [Next]_vars PROVE PluginLockInv'
    OBVIOUS
<1> USE DEF PluginLockInv, pluginVars
<1>1. CASE PluginTakes \/ PluginLocks \/ PluginCalls \/ CallReturns \/ PluginEnds
    BY <1>1 DEF PluginTakes, PluginLocks, PluginCalls, CallReturns, PluginEnds
<1>2. CASE Allocate \/ ReleaseLock \/ CallPlugin \/ Relock \/ Save
    BY <1>2 DEF Allocate, ReleaseLock, CallPlugin, Relock, Save
<1>3. CASE PortBegins \/ HandlerEnds \/ UNCHANGED vars
    BY <1>3 DEF PortBegins, WriteCounter, WriteCallbacks, HandlerBegins,
        HandlerEnds, vars
<1>4. ASSUME NEW range \in Ranges, FrameBegins(range) PROVE PluginLockInv'
    BY <1>4 DEF FrameBegins
<1> QED
    BY <1>1, <1>2, <1>3, <1>4 DEF Next, CallbackStep, PluginStep

\* No deadlock of the callback, the plugin and the port thread, where every
\* dynamic range is a supported one: the lock that the callback's thread keeps
\* after an unsupported image stops them for good once the images end.
THEOREM NobodyWaitsForAll ==
    ASSUME AllSupported
    PROVE  Spec => []NobodyIsStuck
<1>1. Init => PluginLockInv
    BY DEF Init, PluginLockInv
<1>2. IInv => TypeOK
    BY DEF IInv
<1>3. IInv /\ PluginLockInv /\ NeverExhausted => NobodyIsStuck
  <2> SUFFICES ASSUME IInv, PluginLockInv, NeverExhausted PROVE NobodyIsStuck
      OBVIOUS
  <2> USE DEF NobodyIsStuck, CallbackCanGoOn, PluginCanGoOn, HandlerCanGoOn,
              MayLock
  <2>1. CASE owner = "callback"
      BY <2>1 DEF IInv, BalanceInv, NeverExhausted
  <2>2. CASE owner \in {"plugin", "port"}
      BY <2>2 DEF IInv, LockInv
  <2>3. CASE owner = "none" /\ pluginPc = "wait"
      BY <2>3 DEF IInv, TypeOK, LockInv, PluginLockInv, Resting
  <2>4. CASE owner = "none" /\ pluginPc # "wait"
      BY <2>4 DEF IInv, TypeOK, PluginLockInv
  <2> QED
      BY <2>1, <2>2, <2>3, <2>4 DEF IInv, TypeOK
<1> QED
    BY Inductive, PoolSuffices, PluginLockStep, <1>1, <1>2, <1>3, PTL DEF Spec
=============================================================================
