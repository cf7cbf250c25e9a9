# slsDetector in TLA+

TLA+ modules, TLC models and TLAPS proofs for *slsDetector*, the EPICS
areaDetector driver for the PSI strip and pixel detectors (EIGER, JUNGFRAU,
MYTHEN3, GOTTHARD ...). The program is one C++ class, `slsDetectorDriver`
(`src/slsDetectorApp/slsDetectorSrc/slsDetectorDriver.cpp`, below "the
driver"), on top of the binary client library `sls::Detector`, whose headers are
in `src/slsDetectorApp/slsDetectorSupport/sls/`.

1. [Inventory](#1-inventory)
2. [Modules and how they correspond to the code](#2-modules-and-how-they-correspond-to-the-code)
3. [What is model-checked](#3-what-is-model-checked)
4. [What is proved](#4-what-is-proved)
5. [Disagreements between the code and its comments](#5-disagreements-between-the-code-and-its-comments)
6. [Plan](#6-plan)
7. [What is not modelled, and why](#7-what-is-not-modelled-and-why)

## 1. Inventory

Five threads meet in the driver object.

| thread | code | holds the driver lock |
|---|---|---|
| port thread: asyn runs one handler at a time (`writeInt32`, `writeFloat64`, `writeUInt32Digital`, `writeOctet`, `readFloat64`, `readEnum`) | 450-1000 | from a handler's first step to its last, library calls included |
| acquisition task | `acquisitionTask` 221-312 | except while it waits for the start event, during `acquire()`, and while it fetches the final status and the file index |
| trigger task | `triggerSoftwareTask` 314-332 | only to clear its parameter |
| image thread of the client library | `dataCallback` 334-447 | except while the plugins are called |
| the plugins' threads | in areaDetector | when a plugin calls the driver, with the plugin's own lock held |

They share the driver's mutex (recursive), two binary events (`startEventId`,
`triggerSoftwareEventId`), the parameter library (one value per parameter and
module address), the image pool and `pArrays[0]`, and the pointer `pDetector`.

### Acquisition task and Acquire handlers

*State:* ADAcquire, ADStatus, ADShutter, ADImageMode, NDFileNumber,
NDFullFileName, the start event; in the detector the run status, file writing
and the index of the next file. *Operations:* Acquire = 1 (set, signal),
Acquire = 0 (clear, then stop detector and receiver, clear the library's flag,
fetch the status), the task's cycle, and the gate that refuses the other handlers
while Acquire is 1. *Hard:* the task makes its library calls and several
parameter writes without the lock; every call may throw; a stop may arrive
before, during or after the run; Acquire is cleared by three parties and the
event outlives it. *Correct when* no start is lost, Acquire covers the
acquisition it asked for, nobody configures a running detector, the final
status, shutter and file name are those of the acquisition that ended, and the
task comes to rest.

### Image callback

*State:* the mutex and its depth, the buffers' reference counts, NDArrayCounter,
NDArrayCallbacks, `pArrays[0]`, the plugins' queues. *Operations:* one call per
image; the plugins' taking, processing and releasing; client writes of the two
parameters. *Hard:* the lock is given up in the middle of the function; the
plugin waits for the driver while holding what the callback waits for; the
pool's result is used unchecked; one early return keeps the lock. *Correct when*
the callback holds no lock while it calls plugins, every reference is given back
once, a held image is not written over, the pool suffices, and a client's
counter value survives.

### Software trigger task

*State:* SDTriggerSoftware (a busy record: a client waits for its 0), the event.
*Operations:* the handler (not refused while Acquire is 1), wait, send, clear.
*Hard:* several triggers share one binary event and one busy value. *Correct
when* every trigger is followed by a sending, the busy value always goes back to
0, and for a client that waits it means "sent".

### Parameter handlers of the detector's settings

*State:* one value of each parameter per asyn address, the value last posted to
clients, and the modules' own registers. *Operations:* set the parameter, set it
in one module or in all, read back all modules, post. Four groups have more to
them: thresholds, settings, energy and trim bits go together in one call;
MYTHEN3's exposure time and gate widths are two views of the same registers;
streams and callback are two switches of one way; JSON modes are never read
back. *Hard:* a write for all modules that fails in some; read-backs that throw
after the set; combined calls fed from address 0's parameters; handlers that
restore the old value on failure and handlers that do not; writes for one
address that change what others show; parameters told apart by arithmetic with
their indices. *Correct when* a successful write leaves the parameters of all
modules equal to the modules' registers, a failed one does not pretend to have
succeeded, and a write reaches the parameter that its record names.

### Geometry of images

*State:* the detector's counter mask and bit depth, their parameters, NDDataType,
the frames on their way. *Operations:* capture, callback, writes of mask and
depth. *Hard:* a frame is taken under one mask and made an image under another;
the element type comes from an integer division; NDDataType is set at one
address. *Correct when* an image never has more elements than the frame has
bytes for, and a frame that meets its own mask becomes a whole image.

### Missed packets

*State:* the receivers' counts per port, SDRecvMissed, the value posted.
*Operations:* reset at launch, sum after the run, posting. *Hard:* 64-bit counts
of both signs added in an int; a value written by the task without the lock and
posted by whoever posts next. *Correct when* what is shown is the last run's
number, and told to clients when the task comes to rest.

### Readings

*State:* what records keep of a temperature and of the choices of an enum; the
setting chosen. *Operations:* `readFloat64`, `readEnum`, the write of a choice,
the writes that SDSetting goes along with. *Hard:* exceptions that nobody
catches; addresses beyond the modules; a placeholder choice that may be written
back, is not checked for EIGER and MYTHEN3, and would go along with every later
threshold. *Correct when* a choice that the detector has not confirmed is not
sent again with something else.

### Start-up and shutdown

*State:* whether events, parameters, the detector object, its configuration, the
threads and the exit handler exist; connection and ADStatus. *Operations:* the
constructor step by step with its four early returns and its uncaught
exceptions, writes by clients afterwards, the threads, `epicsExit`. *Hard:*
after an early return the port exists but not what its handlers rely on; at
exit the detector object is deleted under the threads that use it. *Correct
when* no thread makes calls of a detector that is not set up, a failed
configuration shows and keeps handlers away, and a start that is accepted is
served if there is a thread. That handlers do reach a detector that is too large
for the port is in section 5.

### Result and container helpers

`Result::squash` and its kin, `allEqual`, `sum`, `removeDuplicates` and the like
(`Result.h`, `container_utils.h`): pure functions that decide what the answers
of several modules amount to. *Correct when* no disagreement of the modules is
taken for a value.

### Structures and text conversions of the client's headers

`sls_detector_module` owns two arrays through raw pointers, and copies, assigns
and destroys them by hand (`sls_detector_defs.h:771-846`). `ROI` has predicates
and two reserved values. `ToString` and `StringTo` write durations with a unit
and few digits and read them back. *Hard:* self-assignment, an allocation that
throws between two others; crossed and reserved limits; rounding, truncation,
and units at their limits. *Correct when* each array has one owner and the length
its module says; overlap means a common pixel; what is written and read again
stays where it was, to the digits written.

### The rest

Reports only print; the iocsh registration is tables; databases, screens and
start-up scripts are configuration. The client library is a binary: what the
models assume of it is the contract in `Detector.h` and what the driver relies
on.

How the components interact: a client's write reaches the port thread; Acquire = 1
wakes the task, whose `acquire()` makes the library call `dataCallback` and
returns when the run and its images are through; software triggers let a
run go on that waits for them; Acquire = 0 stops the run from outside; every
parameter change is posted back to the clients.

## 2. Modules and how they correspond to the code

| module | models |
|---|---|
| `AcquireService` | what the Acquire parameter promises: flag, pending start, phase |
| `AcquisitionTask` | acquisition task, Acquire handlers, gate, the handlers that change what the task reads, detector |
| `AcquisitionTaskProofs` | its theorems |
| `DataCallback` | the image callback, a plugin with queue and thread, the pool, the counter |
| `DataCallbackProofs` | its theorems, with lemmas on counting in a queue |
| `SoftwareTrigger` | trigger handler, trigger task, busy clients, a run that waits for triggers |
| `SoftwareTriggerProofs` | its theorems |
| `ModuleAddresses` | modules and asyn addresses, for the handlers' modules |
| `ParameterView` | what the parameters of one setting promise about the registers, whatever fails |
| `ModuleParams` | one setting of several modules: set, read back, post, in the six ways that the handlers do it |
| `Threshold` | thresholds, settings, energy and trim bits |
| `GateWidth` | exposure time and gate widths |
| `Receiving` | streams, callback and JSON modes |
| `SettingsProofs` | theorems of the four, and of their composition |
| `Dispatch` | how handlers and records tell parameters apart |
| `FrameGeometry`, `FrameGeometryProofs` | dimensions and element type of images, and its theorems |
| `MissedPackets` | the count of missing packets |
| `Readings` | `readFloat64`, `readEnum` and what comes of their answers |
| `Startup` | constructor, early returns, threads, exit |
| `PortProofs` | theorems of `Startup`, `Readings` and `Dispatch` |
| `DetectorModule` | `sls_detector_module` and the heap |
| `Containers` | `Result` and the container functions |
| `Regions` | regions of interest |
| `Durations` | durations to text and back |
| `LibraryProofs` | theorems of `MissedPackets`, `Containers`, `Regions`, `Durations` and `DetectorModule` |
| `MCAcquisitionTask`, `MCDataCallback`, `MCSoftwareTrigger` | the instances of the three concurrent parts |
| `MCSettings` | the instance of `ModuleParams`, `Threshold`, `GateWidth`, `Receiving` |
| `MCComponents` | the instance of the nine other modules |
| `ComponentsProofs` | theorems of their composition |

**AcquisitionTask.** `pc` is the place in `acquisitionTask`: `top` is the loop's
head with the lock held; `wait`, `relock` the two sides of `epicsEventWait`;
`start`, `running` the inside of `acquire()`; `failed` its catch block;
`fetchStatus` ... `setReceiver` the calls and writes of lines 274-288, made
without the lock; `finish` lines 296-311. `portPc` is the place in the handler:
`stopDetector` ... `setStatus` for Acquire = 0, `config` for a handler whose call
the control server does not answer while an acquisition runs (`Detector.h`, the
contract of `acquire()`). Variables carry the source's names. What one thread
does under the lock up to the next library call is one step; each library call,
and each group of parameter writes made without the lock, is a step of its own.
Abstracted: one module address; file indices counted modulo `MaxIndex + 1`, as
they are only copied, incremented and decremented; SDRecvStatus and
SDRecvMissed, which nothing reads; the library's acquiring flag, which only
`acquire()` tests, on entry. `savedIndex` and `interrupted` are history: no
action's guard reads them.

**DataCallback.** `owner` and `depth` are the recursive mutex. `alloc`,
`release`, `save` are the locked sections of `dataCallback`; at `callbacks` it is
about to wait for the plugin's lock, at `relock` for its own. The plugin's
thread takes an image from its queue, takes the plugin's lock, calls the driver
or does not, releases the image. The plugin and the pool are libraries: they are
modelled from line 402, lines 431-441 and the comment there. `number` is the
uniqueId of the image in each buffer, `expected` the history of what
NDArrayCounter should be. Abstracted: geometry, attributes and time stamps.
Client writes of the counter are allowed at any time: images of a run that was
stopped arrive while Acquire is 0.

**SoftwareTrigger.** `portPc` separates the setting of the parameter (line 619)
from the signalling of the event (708). `waiting` are the clients whose busy
record waits for 0, `asked` those whose trigger no sending has taken up. `left`
stands for the acquisition: the number of triggers its run still waits for.

The handlers' modules take a handler as one step, since the driver lock is held
from its beginning to its end, library calls included. Whatever a call may do
before it throws is in the step: some of the modules have taken the value, in
any combination. Acquire is 0 in them, as `AcquisitionTask` has the gate.

**ModuleParams.** `style` is the way one setting is handled: an exception puts
the old value back (`int`), the same for settings that go to all modules whatever the
address (`all`), or that one module answers for all (`voltage`); it leaves the
refused value (`float`); the value is put at address 0 first (`octet`); nothing
is read back (`kept`). `device` are the registers, `param` the parameter at each
address, `posted` what `callParamCallbacks` has told. There are more addresses
than modules, as the port is configured by hand. `SDCommand` and `SDLoadSetup`
change registers unseen. `disturbed` is history: a call has failed, or a command come,
since the last successful write.

**Threshold.** `held` and `seen` are registers and parameters; `Asked` is the
set of thresholds the call carries, made of the parameters of address 0 (those
as they are after the written one is set, so that a value written at another
address is not in the call, but for half an energy), with -1 for "as it is".
None of these is checked: a setting goes along whatever it is, and a parameter
never set leaves the handler's variable uninitialised (`Got`). `Outcomes` are the
registers that may come of the call; what a module makes of a setting it does not
know, neither driver nor `Detector.h` says, and it is left open
(`SettingsAfter`). `SettingUnread` is the exception between the two read-backs,
which leaves new thresholds and the old setting. The constructor may have read
thresholds, settings, both or neither.

**GateWidth.** Seconds are integers that count half nanoseconds, so that the
truncation of `secToNsec` shows; `Below` are the counts of nanoseconds whose
nearest floating-point number of seconds lies below them. `behind` is history: the
gates whose width parameter was not set from the module.

**Receiving.** `registered` is the one callback of the library, `streaming` the
receivers that stream; registering a callback switches streams on
(`Detector.h`, `registerDataCallback`), and whether removing it switches
them off is left open. The callback is registered or removed at any asyn
address, with a module or without.

**Dispatch.** `library` is the list of parameters, base classes' first. `call` is
what a write has led to: a call of the detector, of the base class, or nothing,
as for the six parameters of lines 622-627 whose old value is put back. The
handlers' comparisons and index ranges are `WriteSingle` and `WriteFloat64`, `FindParam` is
`drvUserCreate`. `Names` is translated from the `createParam` calls; `Base` and
`Records` are given by ADCore and the database template, and the assumptions on
them are what TLC evaluates on those lists: the base class has no parameter of
the driver's and no fewer than the driver, a record gives the name of the
parameter that it is called after.

**FrameGeometry.** `flight` are the frames between capture and callback; the
image is an operator of the oldest frame and of the parameters as they are now.

**MissedPackets.** An int goes from `-IntLimit` to `IntLimit - 1` (the code's limit
is 2^31); `phase` is the place of the acquisition task as far as the count goes.
Sums are recursive functions of the number of elements added.

**Readings.** `killer` is the handler from which an exception escaped, which
ends the IOC. `Sent` is what becomes of a choice: an EIGER or MYTHEN3 is sent any,
other detectors any but -1. `told` and `carried` are history: the settings that the
detector has answered with, and those that have gone along with a threshold, a
beam energy or a trim bit. What a detector has after a setting that it does not
know is left open, as in `Threshold`.

**Startup.** `stage` is what the constructor does next and how it has ended.
The threads are reduced to what they take from the start-up: a call of the
detector begins and ends, by an exception (`RunThrows`), by the end of a run
(`RunReturns`; in Continuous mode the task begins again while Acquire is 1) or of
a trigger. Handlers other than those of Acquire, of the trigger and of the image
mode are one action, `CallFromHandler`, as only their reaching the detector
matters here. `reached` is history: who has called a detector that is
"unconfigured" or "oversized".

**DetectorModule.** Arrays are numbered and found in ascending order; which
address the heap gives, the code cannot tell. A pointer to a deleted array is
`dangling`; what is done with it is undefined and not modelled further.

**Containers, Regions, Durations.** Vectors, regions and durations that grow or
change by the operations of the headers; every helper is an operator that
follows the code, compared in the properties with a definition by sets. The
result of `std::sort` is defined by the place that each element gets. A
duration has fewer than eleven days, so that the six digits written stand for
seconds at least.

## 3. What is model-checked

| run | module, cfg | shows |
|---|---|---|
| `acquisition_safety` | `MCAcquisitionTask`, `MCAcquisitionTask.cfg` | types; `NoLostStart`, `FlagCoversRun`, `ExclusiveWhileAsked`, `RestingStatusIsTrue`, `ShutterClosesAtRest`, `NameIsOfSavedFile` |
| `acquisition_liveness` | same, `MCAcquisitionTaskLive.cfg` | `StartServed`, `ComesToRest`, `HandlerReturns`; `ImplementsService`: the task and its handlers implement `AcquireService`, fairness included |
| `callback_safety` | `MCDataCallback`, `MCDataCallback.cfg` | types; `RefsExact`, `NeverExhausted`, `CounterCountsFrames`, `LockFreeForPlugins`, `HeldImagesUntouched` |
| `callback_liveness` | same, `MCDataCallbackLive.cfg` | `CallbackReturns`, and no deadlock |
| `trigger` | `MCSoftwareTrigger`, `MCSoftwareTrigger.cfg` | types; `EventStandsForAsked`, `FlagHasCause`, `TriggerServed`, `BusyEnds` |
| `trigger_one_client` | same, `MCSoftwareTriggerOne.cfg` | `SentOnce`, `RunIsTriggered` |
| `settings` | `MCSettings`, `MCSettings.cfg` | types; `AgreeUnlessDisturbed` and `ImplementsView` (`ModuleParams` implements `ParameterView`), `TrueUnlessDisturbed` (`Threshold`), `TimesAreTrue` (`GateWidth`), `ReceivingIsShown` (`Receiving`) |
| `components` | `MCComponents`, `MCComponents.cfg` | types; `EarlyReturnIsContained` and `ServedIfThread` (`Startup`), `ImagesFitFrames`, `LossesAreTold`, `OnlyToldSettingsAreCarried` (`Readings`), `WritesFindTheirParameter`, `ArraysAreOwned`; `HelpersAgree` (`Containers`, `Regions`, `Durations`) |

Some properties are the conjunction of named parts, each with a comment of its own:

| property | parts |
|---|---|
| `TimesAreTrue` | `AcquireTimeTellsGates`, `GatesTrueUnlessBehind` |
| `ReceivingIsShown` | `AgreementTellsUse`, `StreamIsShown`, `ImagesComeOfShown`, `ModeIsOneOfTwo` |
| `ImagesFitFrames` | `ElementsWithinBuffer`, `FreshImageIsWhole`, `TypeTellsElement` |
| `LossesAreTold` | `ShownIsTotal`, `PostedWhenLast` |
| `EarlyReturnIsContained` | `ThreadsCallSetUp`, `FailedConfigIsLeftAlone` |
| `WritesFindTheirParameter` | `GateIsNamed`, `BaseGetsItsOwn`, `RecordFindsItsOwn` |
| `ArraysAreOwned` | `EachArrayHasOneOwner`, `LengthsAreSizes` |
| `HelpersAgree` | `ContainersAgree`, `RegionsArePixels`, `TextKeepsDurations`, each with its own parts |

**Families.** `settings` and `components` check several modules in one run. The modules of
such a run share no variable; a behaviour of the run is one of a single
module, chosen at the start (`family`), while the others rest in a fixed state.
Nothing is lost by it: seen from one module, the others' steps are
stuttering. The two halves of `Receiving` that share no variable either, streams
with the callback (`StreamNext`) and JSON modes (`ModeNext`), are two families.

The runs that show a violation are in section 5. Deadlock is checked in all
passing runs but `components`: an IOC ends or crashes there, an assignment
leaves a module that can be neither used nor destroyed, and a duration is written
and read a bounded number of times.

**Bounds.** `MaxIndex = 2`: with three indices the index of the last file, the
current and the next one are different, and the counter wraps. In the liveness
run `MaxIndex = 0`, as no guard looks at an index. The number of writes,
acquisitions and failures is not bounded in any module. The pool has
`QueueSize + 3` buffers, the least that the assumption allows, with queues of 2
and (liveness) 1: a queue that is empty, partly full and full, and a buffer in
every place. `MaxCounter` only has to tell a value from its successor.
`MaxDepth` is 2 where it is never reached, and 3 where the lock leaks. Two
trigger clients are enough for one trigger to be written while the other's is
sent; `MaxDebt`, the cap of a history counter, is above what one client can
reach. One client is tried against a run of nine triggers.

In `settings` there are two modules and three addresses: address 0, which stands for
all, a module of its own, and an address without a module. Two values, two
settings, two thresholds and two gates are enough for modules, counters and
gates to differ. Half of the energy 2 is one of the thresholds. The times 3 and 4 are
different counts of nanoseconds, the first with a fraction that is cut off, the
second with a nearest number of seconds below it. Settings and counters are only
compared, so they are symmetric. 119,005 states are distinct.

In `components`: frames of 5 channels per counter and up to three counters, so that a
division leaves a remainder; bit depths 4 (no element type), 12 (the wrong one)
and 32; one frame under way, since only the oldest is looked at and any number of
writes may come while it is. Counts of -3, 0 and 3 at four ports and ints from
-4 to 3: sums overflow in between and at the end. More addresses than modules,
for readings beyond the answer. Two settings are enough for one to be confirmed
and another not, beside the -1 of an unknown list. The base class has more parameters than the driver, as in
ADCore. Two modules, four arrays: room for both modules' arrays, and none while
an assignment would need it, so that allocation fails by itself, too. Vectors of
up to five elements of five values; regions in a plane of two by two pixels with
-1 outside; durations around the limits of every unit and of six digits, of both
signs, written and read three times. 219,560 states are distinct.

**Fairness.** A thread that can go on does (weak fairness). The mutex and
the port thread's queue are shared with threads that come back again and again;
a thread that waits for its turn gets it in the end (strong fairness): between
two handlers the port thread goes back to its queue and the mutex is free. Library
calls return or throw. No client is bound to write, no call is bound to throw,
and no image to come. `TimedSpec` adds that a run that has started ends: without
it, a detector that waits for an external trigger keeps the task in `acquire()`,
as it should. `TriggeredSpec` adds clients that trigger again whenever they
may, each in its turn, and a detector that does not refuse every trigger. In
`Startup` a thread that exists is scheduled and the detector's calls return
(weak fairness of `Wakes`, `RunReturns` and `TriggerEnds`); neither clients nor the
constructor nor the exit are bound to do anything, and no call is bound to throw.
In Continuous mode `RunReturns` may begin again for ever, so the part of
`ServedIfThread` that says Acquire is cleared excepts that mode.

**Environment.** `acquire()` may throw at any moment and leave the detector
running; the stop may find nothing to stop; every fetch may throw; a configuration call waits
for a running detector. Handlers' calls throw after any subset of the modules has
taken the value; commands and loaded files change registers unseen; the
library's answers may be missing, and an allocation may fail at any array.

**Mutants.** Every property of every passing run has a mutant, an operator
named `Mut...` before the definition it replaces (a dropped gate, a swapped
order, a missing release), under which TLC finds the property violated.

## 4. What is proved

For every value of the constants, with the assumptions named in the modules:
positive numbers (`MaxIndexAssumption`, `ModulesAssumption`, `CyclesAssumption`,
`MaxDebtAssumption`, `MaxFlightAssumption`), sizes that go together
(`BuffersAssumption`: the pool has a buffer for each possible holder;
`SizesAssumption`: no fewer addresses than modules, which the constructor
checks), sets that are sets of numbers or not empty, and values that are told
apart (`Undefined`, `NoTime` and `NoAddress` are none of the others).

Every invariant that a passing run checks is the subject of a theorem, type
correctness included, and so is the safety of both refinements. The properties of
the two runs that check several modules are proved of each module's own
specification first, and carried over by composition.

**AcquisitionTaskProofs.** `Types`, `StartIsNeverLost`, `FlagCovers`,
`Exclusive`, `RestingStatus`, `ShutterCloses`, `NameOfSavedFile`, and
`ImplementsServiceSafely`, the safety part of the refinement. The properties are
not inductive. The invariant `IInv` adds: who holds the lock (`LockInv`); that a
stop in progress has cleared Acquire and will be remembered (`HandlerInv`),
without which the restoring of Acquire by a failing stop could not be
followed; the status on its way from the detector to ADStatus (`StatusInv`)
and the index on its way from the file's creation to NDFileNumber (`FileInv`), stage by
stage of the unlocked stretch; and the shutter at the loop's head
(`ShutterInv`). One lemma per conjunct shows that every step keeps it. The
interesting one is `FileInv`: nobody can move the index between the file's
creation and the composing of its name, because Acquire is 1 there
(`FlagCoversRun`) and the gate refuses NDFileNumber and NDAutoSave.
`StopIsNeverLockedOut`: at each step of an acquisition that was asked for and not
yet stopped, the Acquire = 0 handler can begin, as nobody keeps the lock.

**DataCallbackProofs.** `ReferencesAreExact`, `PoolSuffices`, `HeldImagesStay`,
`CounterIsKept`, `PluginsCalledUnlocked` (under `AllSupported`: every dynamic
range that occurs is a supported one). First, lemmas on the number of places of a
buffer in a queue, and how appending and taking off change it, by finite-set
cardinality. Then `RefsExact` is itself an invariant beside the
lock's (`LockInv`, `BalanceInv`) and the holders' (`HolderInv`). From it:
allocation takes a buffer without holders, hence no held image is written
over; and when an image arrives the holders are the latest image, the plugin's
hands and at most `QueueSize` queued ones, so `QueueSize + 3` buffers include a
free one. `NobodyWaitsForAll` is the freedom from deadlock that the release of the
lock around the plugins is for, in terms of the guards: as long as anything is left
to do, the callback, the plugin or the handler satisfies the guard of its next
step. It rests on the owner of either mutex (`BalanceInv`, `PluginLockInv`) and on
`PoolSuffices`, and again on `AllSupported`. TLC finds the predicate violated when
the plugins are called with the lock held.

**SoftwareTriggerProofs.** `NoTriggerForgotten`, `FlagIsCleared`,
`OneClientSentOnce`. The invariant says what has set the parameter is on its way
(`FlagInv`), that the history counter covers what is pending (`DebtInv`), and, for
one client that waits, that write, sending and clearing take turns (`TurnInv`).

**SettingsProofs.** Of `ModuleParams`: `ParamsTypes`; `Agreement`: a parameter that
differs from its register has a failed call or a command to blame.
`ViewIsImplemented`: for the styles that restore, what clients are shown of the
modules is the registers of one moment, whatever fails; the read-backs map to
`Refresh`, failures and commands to `Drift`. The invariant adds that a setting
of style `kept` never counts as read, and that one that counts as undisturbed
has been read. Of `Threshold`: `ThresholdTypes`; `Truth`: what is shown of
thresholds and settings is what the modules have, unless a call has failed or a
command come. The invariant is that property with the types; the work is in the
cases of the type of detector and of the parameter written.
`OthersAreOfMain` and `EnergyIsHalved` are action properties that are proved and
not in a run. The first is about modules that differ: a write of one counter's
threshold changes nothing in modules of other addresses, and what it changes in
those written, other than that threshold, it changes to address 0's values, whether
the call succeeds or fails half way. Of `GateWidth`: `GateTypes`, `AcquireTimeTells`,
`GatesTrue` and, of both, `TimesTrue`. Of `Receiving`: `ReceivingTypes` and
`ReceivingShown`. `ReceivingIsShown` is not inductive: `AgreementTellsUse` says
nothing of addresses that disagree, so the invariant has that some address shows
whether the callback is registered (`LastUseIsShown`). `Composition`: the four modules composed implement the
specification of each, since a step of one is a stutter of the others;
`SettingsTypes` and `SettingsHold` follow: the theorems above hold of the composed
handlers.

**FrameGeometryProofs.** `FrameTypes`, `BufferIsEnough`, `FreshImages`, `TypeTells`
and, of the last three, `ImagesFit`. First, arithmetic: `n * (x \div n) <= x`, with
equality for `x` a multiple of `n`, and the bytes per element of each depth. The
invariant says that a frame that is not stale was taken with the counters that
the parameter shows now (`NotStale`), and what `dataType` is at the address last
written (`TypeFollows`).

**PortProofs.** Of `Startup`: `StartupTypes`, `ThreadsCall`, `FailureShows` and,
of both, `EarlyReturnContained`. The invariant follows the constructor: what exists at
each stage (`Passed`), that nothing is written before it has returned (`Quiet`), that
threads exist only once it has reached its end (`ThreadsAreLast`), that a port marked
disconnected has taken no write (`Disconnected`), and who may have called a detector
that is not set up (`CallsSetUp`). Of `Readings`: `SettingsCarried`; the invariant is
that SDSetting of an EIGER or MYTHEN3 is one of its answers once it has answered
(`ParamIsTold`), which refused choices keep because the old value is put back. Of
`Dispatch`:
`WritesFind`. The library is at any time the base class's parameters and the first `n`
of the driver's (`Library`), and no two of them are the same; so the index of
the driver's `i`-th parameter is the size of the base class plus `i - 1`, and the
index ranges of `writeFloat64` are those of the delays and of the widths. What
the last request did is kept in the invariant (`CallIsRight`), as later
requests may not undo it. `BaseGetsItsOwn` needs the assumption that the base class has no
fewer parameters than the driver: with fewer, its parameters and the driver's
overlap in the comparison of line 889.

**LibraryProofs.** First, induction. The theorems on induction that come with the
prover speak of any predicate, which its backends cannot instantiate; but of
sets of numbers they can: a set of natural numbers with 0 and the successors of
its members is all of them (`NatInd`, from the well-foundedness of `<`), and from
it a function that is defined by recursion over the numbers up to `N` exists
(`RecursionExists`). With these:

* `MissedPackets`: `MissedTypes`, `LossesTold`. By induction over the modules the int
  that is stored back after each differs from the true sum by a multiple of its
  range, wherever it wrapped around in between (`MissedFacts`); two ints that
  do are the same. So a sum that fits is shown as it is.
* `Containers`: `ContainersTypes`, `ContainersAgreeAlways`. Sorting: the places of
  the elements are a permutation (`Places`: places are different numbers up to
  the size, so that each is taken), so that `Sorted` has the
  elements of the vector in order (`SortedFacts`); in order, equal elements are
  neighbours, and what `std::unique` keeps is each of them once (`UniqueFacts`).
* `Regions`: `RegionsTypes`, `RegionsPixels`. Two intervals have a number in
  common exactly if each begins before the other ends, two products meet exactly
  if their sides do, and a product has as many members as its sides multiplied.
* `Durations`: `DurationsTypes`, `DurationsKept`. The invariant (`DurationsIInv`)
  remembers the number `v` that was first written: after any number of passes the
  duration is `v`, or has been cut off from it towards 0, once a pass as long as all
  of its digits are written, and once in all otherwise (`Cut`), because a number that
  is one below a round one is written as that round one again (`CutAgain`). The
  delicate case is a `v` that was rounded up to a power of ten and cut off below
  it, where the last digit is ten times smaller. Order: a number written
  to fewer digits never passes a power of ten that another one is beyond
  (`WritingIsMonotone`).
* `DetectorModule`: `ModuleTypesHold`, `ArraysOwned`. The invariant `ModuleIInv` says in
  terms of sets that no two pointers share an array (`NoSharing`), that pointers
  of modules that can be used are live (`PointersAreLive`), and that an array without
  owner is free unless memory has run out (`NothingIsLost`); every operation is
  the replacement of one object by one with arrays of its own
  (`ReplacedInv`). That each array has one owner follows by cardinality.

**ComponentsProofs.** `ComponentsCompose`: the nine modules composed implement the
specification of each. `ComponentsTypes`, `HelpersAlwaysAgree` and `ComponentsHold`
follow: the theorems above hold of the composed specification.

What the attempts at proof have shown of the models: `UnitIsTelling` said that
there are at most three digits before the point in any unit, which held only because
TLC's durations end at two seconds; seconds have no limit, and the property now
excepts them. A duration of more than eleven days would be written to digits that
are worth more than a second, so `Durations` now states the limit that it had
taken for granted. Sums and sorting had been defined by folds and by TLC's
`SortSeq`, which the prover cannot reason about; they are recursive functions and
places now, and TLC finds the same states.

Only model-checked: all liveness and the fairness part of `ImplementsService`
(fairness is defined by ENABLED, which the prover does not handle), and TLC's
check for deadlock; for the callback, `NobodyWaitsForAll` says the same of the
guards.

## 5. Disagreements between the code and its comments

| run | property | what TLC shows |
|---|---|---|
| `call_while_running` | `NoCallWhileRunning` | A start event may be left over from a start already served, or stopped before the wake-up. Line 246 reads Acquire again after the wake-up but does not test it: the detector runs with Acquire 0, and the gate, which "rejects any call to the detector if it is running" (line 606), lets calls through. |
| `status_call_overlap` | `OneStatusCallAtATime` | `README.rst:125` says "Avoid calling getDetectorStatus from two threads simultaneously"; the task calls it without the lock (276) while the Acquire = 0 handler calls it with the lock (728). |
| `last_file_name` | `NameIsOfLastSavedFile` | "Compose last saved file name" (297) takes the index minus one even if the acquisition saved nothing: after a failed run or a write of NDFileNumber that is no saved file's index. |
| `callback_lock_leak` | `LockFreeForPlugins` | An image of unsupported dynamic range (EIGER's 4 bits; `Detector.h:361` lists it) returns at line 392 with the lock held. The comment at 431 says that the lock must be released for the plugins; after such an image the single unlock does not. This cfg turns the deadlock check off: when the images stop coming, a driver whose lock has leaked does stop. |

In all of them the neighbouring property that does hold is checked and proved:
`FlagCoversRun` and `ExclusiveWhileAsked` for acquisitions that Acquire stands
for, `RestingStatusIsTrue` when no stop interferes, `NameIsOfSavedFile` for
acquisitions that saved a file, `LockFreeForPlugins` for supported ranges.

Further disagreements that the models were written around. Each is in the model as
the code has it, and the condition that excludes it is in the property beside
it:

* A write at one address reads back all modules but posts only its own address,
  unless it is 0 (764; the comment at 762 says "Update any changed parameters").
  `posted` in `ModuleParams` follows it; no property says it is up to date.
* A threshold or setting written at an address other than 0 is never sent: the
  call for that module is made of address 0's parameters (642-646;
  `README.rst:62` documents the threshold as writable), so the module gets
  address 0's thresholds and setting, and the read-back then shows those. Only half
  of a beam energy is taken from the value written (650). `OthersComeFromMain`
  says so; `TrueUnlessDisturbed` is about what is shown afterwards.
* EIGER and MYTHEN3 are sent the setting of address 0 as it is, which may be -1,
  the "N.A." that `readEnum` offers when the list cannot be had (677 checks for
  other detectors only), or uninitialised, if the constructor could not
  read it (646; the comment at 1155 says "don't fail if one doesn't"). What the library
  makes of it is left open in `SettingsAfter`.
* A width written at address 0 sets all modules and shows at address 0 only
  (878; the comment at 846 calls the width "equivalent to exposure time").
  `behind` in `GateWidth`.
* `dynamicRange / 8` gives 4 bits no element type and 12 bits one of a byte
  (375; `Detector.h:361` lists both for EIGER). `FreshImageIsWhole` and
  `TypeTellsElement` except them.
* Packets in excess at one port hide missing ones at another (286;
  `README.rst:47` says "Number of packets missed"). `ShownIsTotal` speaks of
  the sum.
* In Continuous mode SDRecvMissed may be reset before anybody has posted it (251).
  `PostedWhenLast` excepts that mode.
* Before ADCore 3.10 a configuration that does not load leaves the port
  connected (1083; `README.rst:104` says "Mark detector disconnected when
  config fails"). `MarksDisconnected`.
* After an early return of the constructor a start is accepted and nothing waits
  for it (1094). `ServedIfThread` is about threads that exist.
* A detector with more modules than the port has addresses ends the constructor
  early (1097-1101), but the port stays connected: stops (725) and the handlers
  of settings reach it, with `hasReceiver` and `tempDacIndex` not initialised.
  Before ADCore 3.10 the same goes for one whose configuration did not load.
  `EarlyReturnIsContained` is about the threads, and about handlers only where the
  port was disconnected.
* A read of the temperature at an address without a module indexes the answers
  without a check (801), and no handler catches what the lists of timing modes and
  bit depths throw (940, 951). `ReadTemperatureBeyond` and `ReadEnumThrows`.
* With several clients, the end of one trigger's sending clears the busy value
  (328) of a trigger written meanwhile. `SentOnce` is about one client.
* `sls_detector_module::operator=` deletes its arrays before it allocates new
  ones: when that throws, its pointers dangle and the destructor deletes them
  again (`sls_detector_defs.h:808`). `EachArrayHasOneOwner` and
  `outOfMemory`.
* `writeFloat64` tells base class parameters by `NUM_SD_PARAMS`, the number of
  its own, where the other handlers compare with the first of them: base class
  parameters from there on are dropped (889; the comment at 888 says "If this
  is not a parameter we have handled call the base class"). `BaseGetsItsOwn` is about the
  other direction.
* `README.rst:49`, 50 and 72 name SD_NCYCLES, SD_NFRAMES and SD_NGATES; the
  code creates SD_NUM_CYCLES, SD_NUM_FRAMES and SD_NUM_GATES (51), as the
  database template has it. `RecordFindsItsOwn` is about the template.
* There is one image callback and a parameter SDUseDataCallback per address (683):
  0 at one address ends the images while the others show 1. `AgreementTellsUse`.
* `dataCallback` does not look at `completeImage` (350;
  `Detector.h:290` speaks of "reconstructed complete images").
  `Image` in `Receiving` may lack modules.

## 6. Plan

Done, in this order: `AcquireService` and `AcquisitionTask`; `DataCallback`;
`SoftwareTrigger`; `ModuleParams` with `ParameterView`, `Threshold`, `GateWidth`;
`FrameGeometry` and `MissedPackets`; `Startup`; `Containers`; `Receiving`,
`Readings`, `Dispatch`; `DetectorModule`, `Regions`, `Durations`.

Left:

1. `Acquisition`, a composition: the acquisition task with the image callback,
   `acquire()` returning only after the last callback has; a leaked lock seen from
   the task's side. To check: at rest no image is on its way; each acquisition's
   images are counted.
2. Further proofs: of the composition; of the parts of liveness that are safety (which
   thread a leads-to property waits for, and that it can go on).

## 7. What is not modelled, and why

* The client library and the detectors' firmware: binary. Their contract is
  part of the models, where the driver depends on it; most of the calls that
  `Detector.h` declares the driver does not make.
* The parameter library's list of changed parameters is a vector without a lock,
  which the acquisition task changes without the driver's. The models take a
  parameter write as atomic; what an unsynchronised vector does is below their
  grain.
* Values other than 0 and 1 for Acquire: the record is a busy record and writes
  no others.
* Attributes and time stamps of images: written from the frame's header and not
  read again.
* `report()`, formatting, logging, the iocsh tables, databases and screens.
* Of the headers: type traits and other compile-time predicates; exception types,
  which the driver knows only as "a call throws"; enumerations and structures
  that are plain data with an equality; declarations of functions in the binary
  (network and string utilities, patterns); the conversion of numbers and
  containers to text.
