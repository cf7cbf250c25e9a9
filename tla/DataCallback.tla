---------------------------- MODULE DataCallback ----------------------------
(***************************************************************************)
(* The image callback of slsDetectorDriver.  The client library calls it   *)
(* from one thread, once per complete image.  It takes the driver lock,    *)
(* copies the image into a buffer of the pool, counts it, gives the lock   *)
(* up while the plugins take their references, takes the lock again and    *)
(* makes the buffer the driver's latest one.                               *)
(*                                                                         *)
(* Around it: one plugin with a queue and a thread of its own, which holds *)
(* the plugin's lock while it processes an image and may call the driver   *)
(* then; and the port thread, whose handlers hold the driver lock.  The    *)
(* plugin and the pool are libraries, modelled from how the callback uses  *)
(* them.                                                                   *)
(***************************************************************************)
EXTENDS Naturals, Sequences, FiniteSets

CONSTANTS
    Buffers,        \* the buffers that the pool may allocate
    NoBuffer,       \* the null pointer
    QueueSize,      \* length of the plugin's queue
    Ranges,         \* the dynamic ranges, in bits, that images come with
    MaxCounter,     \* bound: NDArrayCounter counts modulo MaxCounter + 1
    MaxDepth        \* bound: no image comes when the lock is held so often

\* One buffer for each holder: the image in the callback, the latest one, the
\* plugin's queue and the plugin's hands.
ASSUME BuffersAssumption ==
    /\ IsFiniteSet(Buffers) /\ NoBuffer \notin Buffers
    /\ QueueSize \in Nat \ {0}
    /\ Cardinality(Buffers) >= QueueSize + 3
ASSUME RangesAssumption == Ranges \subseteq Nat
ASSUME BoundsAssumption == MaxCounter \in Nat \ {0} /\ MaxDepth \in Nat \ {0}

VARIABLES
    owner, depth,       \* the driver's mutex, which its owner may take again
    pluginOwner,        \* the plugin's mutex
    counter, callbacks, \* NDArrayCounter and NDArrayCallbacks
    pc, image,          \* the callback, and its local pImage
    latest,             \* pArrays[0]
    refs,               \* the buffers' reference counts; 0: free in the pool
    number,             \* uniqueId of the image in each buffer
    queue, pluginPc, inHand, \* the plugin's queue, its thread, that one's image
    portPc,             \* whether the port thread is in a handler
    expected            \* history: images begun since, added to, the last
                        \* value a client gave to NDArrayCounter

lockVars   == <<owner, depth>>
params     == <<counter, callbacks, expected>>
pool       == <<refs, number>>
pluginVars == <<pluginOwner, queue, pluginPc, inHand>>
vars == <<lockVars, params, pc, image, latest, pool, pluginVars, portPc>>

-----------------------------------------------------------------------------
Buffer0 == Buffers \cup {NoBuffer}

\* dynamicRange / 8 selects the element type.
Supported(range) == range \div 8 \in {1, 2, 4, 8}

NextNumber(n) == IF n = MaxCounter THEN 0 ELSE n + 1

TypeOK ==
    /\ owner \in {"none", "callback", "plugin", "port"}
    /\ depth \in Nat
    /\ pluginOwner \in {"none", "plugin"}
    /\ counter \in 0 .. MaxCounter /\ expected \in 0 .. MaxCounter
    /\ callbacks \in {0, 1}
    /\ pc \in {"idle", "alloc", "release", "callbacks", "relock", "save"}
    /\ image \in Buffer0
    /\ latest \in Buffer0
    /\ refs \in [Buffers -> Nat]
    /\ number \in [Buffers -> 0 .. MaxCounter]
    /\ queue \in Seq(Buffers) /\ Len(queue) <= QueueSize
    /\ pluginPc \in {"wait", "lock", "calling", "call", "done"}
    /\ inHand \in Buffer0
    /\ portPc \in {"idle", "handler"}

Init ==
    /\ owner = "none" /\ depth = 0 /\ pluginOwner = "none"
    /\ counter = 0 /\ expected = 0 /\ callbacks \in {0, 1}
    /\ pc = "idle" /\ image = NoBuffer /\ latest = NoBuffer
    /\ refs = [b \in Buffers |-> 0] /\ number = [b \in Buffers |-> 0]
    /\ queue = <<>> /\ pluginPc = "wait" /\ inHand = NoBuffer
    /\ portPc = "idle"

-----------------------------------------------------------------------------
(***************************************************************************)
(* The recursive mutex of the driver                                       *)
(***************************************************************************)
MayLock(who) == owner \in {"none", who}

Lock(who) ==
    /\ MayLock(who)
    /\ owner' = who
    /\ depth' = depth + 1

Unlock ==
    /\ depth' = depth - 1
    /\ owner' = IF depth = 1 THEN "none" ELSE owner

-----------------------------------------------------------------------------
(***************************************************************************)
(* The callback                                                            *)
(***************************************************************************)

\* The lock is taken and the dynamic range looked at; with an unsupported one
\* the function returns as it is.
FrameBegins(range) ==
    /\ pc = "idle"
    /\ depth < MaxDepth
    /\ Lock("callback")
    /\ IF Supported(range)
       THEN pc' = "alloc" /\ expected' = NextNumber(expected)
       ELSE UNCHANGED <<pc, expected>>
    /\ UNCHANGED <<counter, callbacks, image, latest, pool, pluginVars, portPc>>

\* A free buffer of the pool gets its first reference, NDArrayCounter goes up
\* and numbers the image, and NDArrayCallbacks tells where to go on.
Allocate ==
    /\ pc = "alloc"
    /\ \E b \in Buffers :
        /\ refs[b] = 0
        /\ refs' = [refs EXCEPT ![b] = 1]
        /\ counter' = NextNumber(counter)
        /\ number' = [number EXCEPT ![b] = counter']
        /\ image' = b
    /\ pc' = IF callbacks = 1 THEN "release" ELSE "save"
    /\ UNCHANGED <<lockVars, callbacks, expected, latest, pluginVars, portPc>>

\* Mutant: the plugins are called with the lock held.
MutReleaseLock ==
    /\ pc = "release"
    /\ pc' = "callbacks"
    /\ UNCHANGED <<lockVars, params, image, latest, pool, pluginVars, portPc>>

\* The lock is given up once before the plugins are called.
ReleaseLock ==
    /\ pc = "release"
    /\ Unlock
    /\ pc' = "callbacks"
    /\ UNCHANGED <<params, image, latest, pool, pluginVars, portPc>>

\* Mutant: the queued image has no reference of its own.
MutCallPlugin ==
    /\ pc = "callbacks"
    /\ pluginOwner = "none"
    /\ queue' = IF Len(queue) < QueueSize THEN Append(queue, image) ELSE queue
    /\ pc' = "relock"
    /\ UNCHANGED <<lockVars, params, image, latest, pool, pluginOwner,
                   pluginPc, inHand, portPc>>

\* doCallbacksGenericPointer: under its own lock the plugin takes a reference
\* and queues the image, or drops it if the queue is full.
CallPlugin ==
    /\ pc = "callbacks"
    /\ pluginOwner = "none"
    /\ IF Len(queue) < QueueSize
       THEN /\ refs' = [refs EXCEPT ![image] = @ + 1]
            /\ queue' = Append(queue, image)
       ELSE UNCHANGED <<refs, queue>>
    /\ pc' = "relock"
    /\ UNCHANGED <<lockVars, params, image, latest, number, pluginOwner,
                   pluginPc, inHand, portPc>>

\* Mutant: "while" instead of "if".
MutRelock ==
    /\ pc = "relock"
    /\ Lock("callback")
    /\ pc' = IF callbacks = 1 THEN "release" ELSE "save"
    /\ UNCHANGED <<params, image, latest, pool, pluginVars, portPc>>

\* The lock is taken again.
Relock ==
    /\ pc = "relock"
    /\ Lock("callback")
    /\ pc' = "save"
    /\ UNCHANGED <<params, image, latest, pool, pluginVars, portPc>>

\* Mutant: the number read before the plugins were called is written back.
MutSave ==
    /\ pc = "save"
    /\ refs' = [b \in Buffers |-> IF b = latest THEN refs[b] - 1 ELSE refs[b]]
    /\ latest' = image
    /\ image' = NoBuffer
    /\ Unlock
    /\ pc' = "idle"
    /\ counter' = number[image]
    /\ UNCHANGED <<callbacks, expected, number, pluginVars, portPc>>

\* Mutant: the last image is not released.
MutSaveKeeps ==
    /\ pc = "save"
    /\ latest' = image
    /\ image' = NoBuffer
    /\ Unlock
    /\ pc' = "idle"
    /\ UNCHANGED <<params, pool, pluginVars, portPc>>

\* Mutant: the new image is released with the last one.
MutSaveReleases ==
    /\ pc = "save"
    /\ refs' = [b \in Buffers |-> IF b \in {latest, image} THEN refs[b] - 1
                                                          ELSE refs[b]]
    /\ latest' = image
    /\ image' = NoBuffer
    /\ Unlock
    /\ pc' = "idle"
    /\ UNCHANGED <<params, number, pluginVars, portPc>>

\* The image becomes the latest one, the last one is released, and so is the
\* lock.
Save ==
    /\ pc = "save"
    /\ refs' = [b \in Buffers |-> IF b = latest THEN refs[b] - 1 ELSE refs[b]]
    /\ latest' = image
    /\ image' = NoBuffer
    /\ Unlock
    /\ pc' = "idle"
    /\ UNCHANGED <<params, number, pluginVars, portPc>>

-----------------------------------------------------------------------------
(***************************************************************************)
(* The plugin's thread, which goes on to call the driver or not            *)
(***************************************************************************)
PluginTakes ==
    /\ pluginPc = "wait"
    /\ queue # <<>>
    /\ inHand' = Head(queue)
    /\ queue' = Tail(queue)
    /\ pluginPc' = "lock"
    /\ UNCHANGED <<lockVars, params, pc, image, latest, pool, pluginOwner,
                   portPc>>

PluginLocks ==
    /\ pluginPc = "lock"
    /\ pluginOwner = "none"
    /\ pluginOwner' = "plugin"
    /\ pluginPc' \in {"calling", "done"}
    /\ UNCHANGED <<lockVars, params, pc, image, latest, pool, queue, inHand,
                   portPc>>

PluginCalls ==
    /\ pluginPc = "calling"
    /\ Lock("plugin")
    /\ pluginPc' = "call"
    /\ UNCHANGED <<params, pc, image, latest, pool, pluginOwner, queue, inHand,
                   portPc>>

CallReturns ==
    /\ pluginPc = "call"
    /\ Unlock
    /\ pluginPc' = "done"
    /\ UNCHANGED <<params, pc, image, latest, pool, pluginOwner, queue, inHand,
                   portPc>>

PluginEnds ==
    /\ pluginPc = "done"
    /\ refs' = [refs EXCEPT ![inHand] = @ - 1]
    /\ inHand' = NoBuffer
    /\ pluginOwner' = "none"
    /\ pluginPc' = "wait"
    /\ UNCHANGED <<lockVars, params, pc, image, latest, number, queue, portPc>>

-----------------------------------------------------------------------------
(***************************************************************************)
(* The port thread                                                         *)
(***************************************************************************)

\* NDArrayCounter and NDArrayCallbacks are left to the base class.  They are
\* refused while Acquire is 1, but images may still come when it is 0.
WriteCounter(n) ==
    /\ owner = "none"
    /\ counter' = n
    /\ expected' = n
    /\ UNCHANGED <<lockVars, callbacks, pc, image, latest, pool, pluginVars,
                   portPc>>

WriteCallbacks(v) ==
    /\ owner = "none"
    /\ callbacks' = v
    /\ UNCHANGED <<lockVars, counter, expected, pc, image, latest, pool,
                   pluginVars, portPc>>

\* Any other handler.
HandlerBegins ==
    /\ portPc = "idle"
    /\ owner = "none"
    /\ Lock("port")
    /\ portPc' = "handler"
    /\ UNCHANGED <<params, pc, image, latest, pool, pluginVars>>

HandlerEnds ==
    /\ portPc = "handler"
    /\ Unlock
    /\ portPc' = "idle"
    /\ UNCHANGED <<params, pc, image, latest, pool, pluginVars>>

-----------------------------------------------------------------------------
CallbackStep ==
    \/ Allocate \/ ReleaseLock \/ CallPlugin \/ Relock \/ Save
PluginStep ==
    \/ PluginTakes \/ PluginLocks \/ PluginCalls \/ CallReturns \/ PluginEnds
PortBegins ==
    \/ \E n \in 0 .. MaxCounter : WriteCounter(n)
    \/ \E v \in {0, 1} : WriteCallbacks(v)
    \/ HandlerBegins

Next ==
    \/ \E range \in Ranges : FrameBegins(range)
    \/ CallbackStep
    \/ PluginStep
    \/ PortBegins \/ HandlerEnds

\* Every thread runs and in the end gets each of the two mutexes that it
\* keeps waiting for.  Images need not come, and clients need not write.
Fairness ==
    SF_vars(CallbackStep) /\ SF_vars(PluginStep) /\ WF_vars(HandlerEnds)

Spec == Init /\ [][Next]_vars /\ Fairness

-----------------------------------------------------------------------------
Ind(p) == IF p THEN 1 ELSE 0

Queued(b, q) == Cardinality({i \in DOMAIN q : q[i] = b})

\* A buffer has as many references as it has holders: none is lost, none is
\* given back twice, whatever the plugin does while the lock is released.
RefsExact ==
    \A b \in Buffers :
        refs[b] = Ind(image = b) + Ind(latest = b) + Ind(inHand = b)
                    + Queued(b, queue)

\* The pool never runs out, so the unchecked result of alloc() is a buffer.
NeverExhausted == pc = "alloc" => \E b \in Buffers : refs[b] = 0

\* An image that the plugin has or will get, or that is the latest one, is not
\* written over.
HeldImagesUntouched ==
    [][\A b \in Buffers :
        b = latest \/ b = inHand \/ (\E i \in DOMAIN queue : queue[i] = b)
            => number'[b] = number[b]]_vars

\* NDArrayCounter counts the images from the value that a client last wrote,
\* although clients may write it while the plugins are called.
CounterCountsFrames == pc # "alloc" => counter = expected

\* "Must release the lock here, or we can get into a deadlock, because we can
\* block on the plugin lock, and the plugin can be calling us"
\* (slsDetectorDriver.cpp:431).
LockFreeForPlugins == pc = "callbacks" => owner # "callback"

\* The callback returns, and with it the acquisition that waits for it.
CallbackReturns == pc # "idle" ~> pc = "idle"
=============================================================================
