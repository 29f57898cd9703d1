# gousb in TLA+

gousb gives Go programs access to USB devices through libusb. This directory
holds TLA+ models of its concurrent core, TLC configurations that check them on
small instances, and TLAPS proofs of their safety for instances of any size. Paths
such as `transfer.go` are those of the repository.

## The system

| part | state it keeps | operations | what is hard |
|---|---|---|---|
| usbTransfer (`transfer.go`, `transfer.c`) | C struct `xfer`, `submitted`, channel `done`, mutex | newUSBTransfer, submit, wait, cancel, free, finalizer | shared with libusb and the event loop; contexts end at any time; C memory is freed by hand |
| event loop (`libusb.go`: handleEvents, xferCallback, xferDoneMap) | global map from C pointer to channel | callback of a finished transfer | one goroutine for all transfers: it must never block; pointers are reused |
| stream, ReadStream, WriteStream (`transfer_stream.go`, `endpoint_stream.go`) | fifo of transfers (a buffered channel), first error, `finished`; current transfer; bytes written | NewStream, Read, Write, Close, Written, flushRemaining | transfers finish in any order; submissions fail midway; closing and draining |
| Context (`usb.go`) | libusb context, open devices, stop channel | OpenDevices, OpenDeviceWithVIDPID, OpenDeviceWithFileDescriptor, Close | handshake with the event loop; references that libusb counts; one device of several fails |
| Device, Config, Interface (`device.go`, `config.go`, `interface.go`) | libusb handle, claimed Config, claimed interfaces, a mutex each | Config, Reset, Interface, DefaultInterface, Close of each | four levels of locks; unlocked checks; partial failures |
| endpoint (`endpoint.go`) | a copy of the handle | Read, Write: one transfer each | stale handle after Close |
| descriptors (`libusb.go`, look-ups in `config.go`, `interface.go`) | none | getDeviceDesc, endpointDesc, look-ups | odd devices, numeric edges |
| isochronous packets (`transfer.go`, `transfer.c`) | none | packet sizes, compaction | remainders, overlapping copies |
| usb.ids (`usbid/`) | parser state; the maps of vendors and classes | ParseIDs, Describe, Classify | nesting and repetition of lines |
| BCD (`misc.go`) | none | Version, Major, Minor | digits |

How they interact: an endpoint or a stream creates transfers with
newUSBTransfer and calls submit, wait, cancel and free. submit hands the C
struct to libusb. The event loop, started by the Context, calls libusb, which
calls xferCallback for each finished transfer, which looks the channel up in
xferDoneMap and sends the token that wait receives. Streams see transfers only
through `transferIntf`. Devices, configs and interfaces only carry the handle
the transfers use and must outlive them. An endpoint copies the handle and a
transfer keeps it in its C struct, so nothing in Go ties a transfer to the
objects it needs. A transfer that nobody refers to is cancelled, waited for and
freed by its finalizer; one goroutine of the Go runtime runs the finalizers of
the whole program.

What makes each part correct:

* usbTransfer and event loop: one token for each submission, received by that
  transfer; the callback never blocks; C memory is not freed, reused or read
  while libusb uses it; wait returns when the transfer is finished or cancelled.
* streams: data in the order of submission; no send or receive on the fifo that
  blocks for ever or panics; all transfers given back once the stream is over;
  Written and the result of Close agree with what the device took.
* endpoints: what a read returns is what the device sent, in one piece; packets
  stay in the buffer; the count stops at the first packet that failed.
* descriptors and usb.ids: what is looked up is what the device or the file
  says, also for odd devices.
* Context to Interface: libusb is only called on live handles; a claim has one
  owner; the objects close bottom up; no lock is waited for for ever; what is
  open is in the hands of somebody who can close it, also after a failure.
* everything together: while somebody waits for a transfer its handle stays open
  and the event loop runs.

## Modules

* `TransferProtocol`: the abstract promise of a transfer: unborn, idle, in
  flight, finished, idle again or freed, and memory owned by one transfer.
* `Transfer`: usbTransfer, xferDoneMap, xferCallback and libusb in detail.
  One action per stretch of code between two points of interference: taking
  `t.mu`, a C call, a channel operation, an access of the map under its lock. `pc` and
  `target` say where a goroutine is and on which object. `heap` is the set
  of malloc'ed addresses; Alloc takes any address that is not in it, so freed
  addresses come back. libusb is the pair `lib`, `status`: it may finish a
  transfer as soon as it has accepted it, even before submit returns, may
  finish a cancelled one with success, and (`CancelMayFail`) may refuse to
  cancel. The finalizer is one more goroutine, which cancels, waits and frees.
* `Stream`: the fifo, its error state and flushRemaining, and the transfers as
  streams see them through `transferIntf`; the environment finishes transfers
  in any order with any result, and libusb accepts or refuses each cancellation
  (`cancel`). `Finish`, `Submitted`, `Waited` and `Freed` take
  the steps of TransferProtocol (property `UsesProtocol`), which
  `Transfer` implements: that is how the two levels compose.
* `ReadStream`, `WriteStream`: extend `Stream` with one action per stretch of
  code up to the next call on a transfer. `outcome` in WriteStream is a history
  variable that only the properties read; so are `copied`, `number` and
  `consumed`.
* `ResourceTree`: the abstract promise of the Close methods: objects open under
  an open parent and close without open children.
* `Lifecycle`: Context, Device, Config and Interface with their mutexes, the
  event loop's stop handshake, and libusb's handles, claims and active
  configuration. A critical section of Context.mu is a single step; Device.mu
  and Config.mu are held across libusb calls and are variables.
* `DeviceList`: how devices are opened and closed, without the locks: the loop of
  OpenDevices with its deferred calls of dereference (`list.deferred`), the
  closure of OpenDeviceWithVIDPID (`list.one`, `list.found`),
  OpenDeviceWithFileDescriptor, closeDev and Context.Close. `refs` is libusb's
  count of the references to each device, `held` the Devices that callers have.
* `Session`: extends `DeviceList` with a program that uses it: Configs and
  Interfaces (one of each per Device), DefaultInterface, reads from an endpoint, a
  ReadStream from its allocation to the moment it is dropped, and the finalizers
  of transfers that were dropped. A step is a call of libusb or a method that
  makes none; `pc` and `on` are the label and object of the call in progress, and
  other goroutines close objects and the Context while it runs. What a stream does
  with its data is in `ReadStream`; here it only matters which transfers
  it has in flight.
* `Endpoint`: a Read or Write of an endpoint. Bytes are numbered, so that a
  buffer shows where each byte came from; packets have lengths and statuses.
  The loop of `gousb_compact_iso_data` is one step per packet, in the buffer
  itself.
* `Descriptors`: the loops of getDeviceDesc over configurations, slots of
  libusb's interface array and settings, one step per iteration, and the
  look-ups intfDesc and altSetting. libusb gives the slots; all settings in one
  have the same number, which is how libusb groups them.
* `UsbIds`: ParseIDs, one step per line, with the current vendor, product, class
  and subclass as its state, and Describe and Classify as the lines whose names
  they print. `Parent` and `WellNested` define what a file means, `FollowsFile` which names
  it gives to identifiers, `OneAbove` what the parser makes of any file. The names that `Descriptors` has too begin with `Ids`.
* `TransferProofs`, `ReadStreamProofs`, `WriteStreamProofs`, `LifecycleProofs`,
  `SessionProofs`, `EndpointProofs`: the theorems about the module each is named after.
  `TablesProofs`: those about `Descriptors` and `UsbIds`. `StreamProofs` has the lemmas
  about the fifo that those about the two kinds of streams share.
* `MCTransfer`, `MCReadStream`, `MCWriteStream`, `MCLifecycle`, `MCSession`,
  `MCEndpoint`: instances for TLC. `MCTables` is one of `Descriptors` and `UsbIds`, of
  which a behaviour takes one, as they have nothing in common. Definitions called mutants (`SubmitCallUnchecked`, ...) are faulty
  variants of the action they precede; replacing the action by one makes the
  property it is paired with fail, which shows that the property can fail.

## Runs

| configuration | checks |
|---|---|
| `MCTransfer.cfg` | transfers: no lost or double signal, no memory freed or read too early, wait returns, and TransferProtocol is implemented |
| `MCReadStream.cfg` | data in order, the fifo never blocks, clean end, protocol, reads return |
| `MCReadStreamFreed.cfg` | violated: a failing submission in submitAll loses the later transfers |
| `MCWriteStream.cfg` | order, accounting of Written, Close's result, buffers, clean end, protocol, calls return |
| `MCWriteStreamShort.cfg` | violated: a short write is sent as a whole buffer |
| `MCLifecycle.cfg` | live handles, owned claims, configuration stays active, no deadlock, and ResourceTree |
| `MCLifecycleTwoConfigs.cfg` | violated: two Configs of one device |
| `MCSession.cfg` | nothing that is open is lost, transfers that are waited for are served, when the finalizer goroutine is stuck |
| `MCSessionFD.cfg` | violated: handle left open by OpenDeviceWithFileDescriptor |
| `MCEndpoint.cfg` | data of reads, count and error of reads and writes, compaction of isochronous packets |
| `MCEndpointCancelled.cfg` | violated: a cancelled isochronous transfer may be a success |
| `MCTables.cfg` | settings are found; when getDeviceDesc panics; each accepted line of usb.ids hangs on one of the level above; a well nested file is accepted, its maps are what it means, and so are the names given to identifiers |

Run one with `tlc -config MCTransfer.cfg MCTransfer.tla`.

### Bounds

* Transfer: two goroutines (a waiter and one that cancels or frees, or two
  users of different transfers), two transfers over two addresses, so that an
  address passes from one transfer to the other while memory of its own is still
  registered. The run has liveness properties and hence no symmetry; the safety
  of more goroutines, transfers and addresses is proved.
* Streams: three transfers when reading, so that the middle of the fifo differs from
  its ends, and two when writing, where one is refilled while the other is in flight (the
  safety of more of them is proved); buffers of two bytes, so that reads and writes
  split them; five submissions when reading and four when writing (`MaxSubmits`), so that
  transfers are reused and the fifo wraps around. Beyond MaxSubmits submissions
  fail, as they may at any time. Reads and writes of up to two and three bytes
  end within, at and beyond a buffer.
* Lifecycle: three goroutines, two devices, two configs, two interfaces of one
  number, which contend for its claim, and two configuration numbers: enough for one
  goroutine to open, one to close and one to reset or reopen. Every object is used once, which
  bounds the behaviours. Each Device object stands for a device of its own.
* Session: two USB devices, so that several match a vendor and product and one
  fails beside another; two Device objects, so that a transfer of one is in flight
  while the other closes, and one USB device may be open twice; two transfers and
  streams of two, so that an allocation or submission fails after another
  succeeded. A transfer dropped and one in use are then in flight together.
* Endpoint: buffers of up to five bytes and packets of 0, 1, 2 and 3 bytes and of
  more than the buffer holds, so that there are none, one and several packets,
  with and without a rest. 2049 is one byte with an additional transaction.
* Descriptors: three slots, the least in which an interface comes back after
  another; two configurations share them.
* UsbIds: four lines of any kind and level, with ids that differ but are the same
  class: enough for a vendor with a product and a vendor or product repeated below it, and
  for a line two levels down that stands, across the start of another vendor, below the
  product of an earlier one. Files of any length are in the proofs.

### Callers' contract

A transfer is not submitted after it was freed (its owner drops it). A stream
is used by one goroutine at a time, as its documentation demands, and is made with a
positive count and size, which NewStream does not check (`endpoint_stream.go:17`): without
transfers Read and Write wait for ever, and with empty buffers Write submits for ever. In
Lifecycle a Close overlaps no other call on the same object: the methods check
without a lock whether their object is open, so nothing can be promised
otherwise; calls on different objects overlap freely. With `OneConfig` callers
open a Config only when the device has no other. In Session a caller
closes an Interface only when no call and no stream uses it (Interface.Close does not
ask), a program uses one Config and one Interface of a Device at a time, and
opens nothing from a file descriptor in a Context with discovery, nor while the
Context closes. Configs, Devices and the Context may be closed at any time by
any goroutine: the code refuses when it must, which is what `InFlightIsServed` is
about.

### Fairness

In `Transfer`, a goroutine inside a method goes on when it can (the Go scheduler),
the callback of the event loop goes on, and libusb finishes a transfer that it
accepted to cancel. Strong fairness of the latter is needed because the event
loop is busy with other callbacks again and again. Nothing makes a caller call,
a context end or a device answer; so WaitReturns speaks only of waits whose
context has ended or whose transfer is finished or being cancelled. With
`CancelMayFail` libusb may refuse to cancel: wait ignores the error and then depends
on the device, so such a wait is not among those of which WaitReturns speaks.
The streams have the same
fairness, and there too libusb may refuse: flushRemaining ignores the error
(`transfer_stream.go:73`), so ReadReturns and WriteReturns speak of calls that do not come to
wait for a transfer whose cancellation was refused (`WaitsForRefused`). In `Session` the finalizer goroutine goes on, and libusb finishes what it
accepted to cancel as long as the handle is open and the event loop runs; nothing
else need happen. Lifecycle needs no fairness: NoDeadlock says that nobody waits in a circle or
for a lock that a finished call kept.

## Findings

* `transfer_stream.go:59-64`: when one submission fails, submitAll leaves the
  transfers behind it neither queued nor freed, though the stream's test demands
  that all are freed (`transfer_stream_test.go:249`). Reads end properly, and
  finalizers reclaim the memory some day.
* `transfer_stream.go:241-246`: a Write that does not fill its last buffer sends
  the whole buffer, with old bytes, though the comment on Write says that the
  last transfer is sent with less data (`transfer_stream.go:193`). Nothing sets
  the length of a transfer after it was allocated.
* `device.go:175-177`: Config does not look at `d.claimed`, though `config.go:68`
  allows one Config at a time. With two, closing one lets Device.Close succeed
  under the other; with one, `HandlesAreLive` holds.
* `usb.go:261-265`: the handle is not closed when the descriptor cannot be read;
  Context.Close then exits libusb with an open handle (`usb.go:315`). In a Context
  with discovery, where this function is not to be used, no handle is lost.
  `NothingIsLost` says that and excuses this handle; only `CloseReleasesAll` reports it.
* `libusb.go:516`: the status of an isochronous transfer as a whole is dropped. A
  cancelled one whose packets report no error is a success, though
  `endpoint.go:138-139` and `168-170` promise TransferCancelled. `ResultIsExact` does not say
  what the error of such a transfer is.

Seen while modelling, without a run of its own:

* `libusb.go:363`: getDeviceDesc panics on a device that offers all settings of
  a slot a second time, where the message at `libusb.go:341` says that "gousb
  will use only the first one". `PanicMeansRepeatedSlot` says that it panics on
  no other device. Settings that an interface offers only in a later slot are
  listed but not found.
* `transfer.go:160`: a ReadStream that is closed but not read to its end leaves
  transfers in flight to their finalizers. When the Device or the Context is
  closed before a finalizer's cancellation is completed, its wait never returns,
  and no finalizer of the program runs after it. `FinalizerEnds` says that the only
  other way is a cancellation that libusb refuses, an error that the finalizer ignores
  (`transfer.go:159`) before it waits for the device: without either disjunct TLC finds
  such a behaviour.
  `rawread/main.go` closes a stream this way when it has read enough.
* `usb.go:275-297`: the comment on OpenDeviceWithVIDPID says that it may return a
  device and an error; it returns an error only without a device.
* `interface.go:142`: OutEndpoint(0x81) is the IN endpoint 1 as an OutEndpoint.
* `usbid/parse.go:123-126`: of a vendor listed twice Describe knows only the products
  of the last listing. `NamesMatchFile` takes the last listing for the one that counts.
* `usbid/parse.go:122-142`: a vendor line does not reset the product, so a file
  that is not well nested may be accepted with an interface under the product
  of another vendor. `HangsByLevel` says which files are accepted and what becomes of
  their lines.

## Proofs

Every invariant that a run checks is proved, and so are the refinements of
`TransferProtocol` and `ResourceTree`. The constants are unbounded parameters of the
theorems; each proof has an inductive invariant (`IInv`, and `IdsInv` for `UsbIds`), one
lemma for each action or group of similar actions that says that the action keeps it,
and the theorems that follow from it.

### Transfers

`TransferProofs` proves, for every number of goroutines, transfers and
addresses, from `TransferAssumption` only (NULL is none of them, CancelMayFail
is a Boolean):

* `TypeCorrect`, `CallbackNeverBlocks`, `MemorySafety`, `SignalsMatchSubmissions`
  and `ResultsAreFinal`: the five invariants of `MCTransfer.cfg`;
* `Refinement`: `Spec => ImplementsProtocol`.

None of the invariants is inductive alone. That the callback finds room in
the channel depends on there being one token per submission, which depends on
the map sending each address to its owner, which depends on free not running on
a submitted transfer, which depends on the lock. `IInv` is their conjunction
with: `LockInv` (the goroutine inside a method of a transfer is the one that
holds its lock), `CreateInv` (an object under construction is not yet
shared), `CallInv` (what the checks at the top of a method established
still holds at its later labels), `MemInv` (addresses and owners, the map and
the heap), `LoopInv` (the locals of the callback) and `StatusInv` (a token or
a callback means a final status). `NextIInv` has one lemma for each action or
group of similar actions; lemmas on
the lock (`LockStep`, `GotoStep`, `ReturnStep`) and on the protocol
(`Advances`, `Creates`, `Frees`, `Stutters`) are shared. `Refinement` shows for
each action which step of the protocol it takes.

### Streams

`ReadStreamProofs` and `WriteStreamProofs` prove, for every number of transfers and
submissions and every size of the buffers, the reads and the writes, from
`StreamAssumption`, `ReadAssumption` and `WriteAssumption` only (there is a transfer,
a buffer has a byte, the bounds are naturals):

* `ReadStreamTypeCorrect`, `ReadStreamReadsInOrder`, `ReadStreamFifoNeverBlocks`,
  `ReadStreamEndsClean` and `WriteStreamTypeCorrect`, `WriteStreamInOrder`,
  `WriteStreamCloseNilMeansSuccess`, `WriteStreamWrittenCountsToFirstFailure`,
  `WriteStreamBufferIsFree`, `WriteStreamEndsClean`: all invariants of the two runs;
* `ReadStreamUsesProtocol` and `WriteStreamUsesProtocol`: each step of a stream is at
  most one step of TransferProtocol. With `Refinement` this is the proof that streams
  on top of `usbTransfer` are used as the streams' models say.

Common to both are `OrderInv` (the fifo holds the last submissions in order, none
twice, and the transfer that the goroutine waits for was at its head), `CountInv`
(while there is no error no transfer is missing from the fifo, but the one of the
call; this is why neither end of the channel blocks) and `PlaceInv` (what was not freed
is in the fifo or with the call; this is why the end is clean). For reading,
`SubmitAllInv` says where submitAll is and `ReadInv` that each submission is read, with
the reader or in the fifo. For writing, `WrittenInv` says that all submissions that
have left the fifo were successful and counted (`AllCounted`), or that one
has failed and it and those before it were counted (`CountEnded`); `NumberInv` and
`OutcomeInv` relate the history variable `outcome` to the transfers. What Written() is
compared with is a sum defined by recursion. Its equations (`SumsStep`) are proved with a
least counterexample (`LeastNat`, from WellFoundedInduction), as induction itself is out
of the prover's reach.

### Context to Interface

`LifecycleProofs` proves, for every number of goroutines, devices, Configs and
Interfaces, from `LifecycleAssumption` (NULL and the kinds of objects are distinct):

* whatever callers do with Configs, `LifecycleTypeCorrect` and `LifecycleHasNoDeadlock`;
* for callers that open one Config of a device at a time (`OneConfig`, which
  `MCLifecycleTwoConfigs.cfg` shows to be needed), `LifecycleHandlesAreLive`,
  `LifecycleClaimsAreOwned`, `LifecycleConfigStaysActive`, and
  `LifecycleImplementsTree`: Lifecycle refines `ResourceTree`.

The invariant has two halves. `BaseInv` holds in any case: what a call works on at each
label (`CallInv`), that no two Closes overlap (`ContractInv`), that exactly the labels
between Lock and Unlock hold the mutex (`LockInv`), and that the event loop runs while
anything needs it (`ContextInv`). No goroutine waits in a circle because one that holds
the mutex of a Config waits at most for that of a Device, and one that holds that of a
Device waits for no other goroutine. `OneConfigInv` adds who is open under whom and who knows whom
(`DeviceInv`, `ConfigInv`, `InterfaceInv`), the configuration of the device
(`ActiveInv`), and that each claim of libusb is that of one Interface or of one call
that is making or giving it up (`ClaimInv`): a claim moves between the two, and is never
with both or with neither.

### Session

`SessionProofs` proves, for every number of devices, Device objects and
transfers and every length of a stream, from `DeviceListAssumption` and
`SessionAssumption` only (NULL is no device, the bounds are naturals):

* `SessionTypeCorrect`, `SessionLosesNothing` and `SessionServesInFlight`: the
  three invariants of `MCSession.cfg`.

Here the inductive invariant relates the layers. `ListInv` says that every
Device in `devices` is open, that the Context is open while there is one, and
where the running OpenDevices is with its list (each device is to be visited
or to be dereferenced, and OpenDeviceWithVIDPID opens at most one). `TreeInv`
orders Interface, Config and Device: each is open only above one that is open.
`PlaceInv` puts each allocated transfer in exactly one of a call, the stream,
the garbage and the running finalizer. `UserInv` says that the object of a call or
a stream has its Interface held, and that its transfers carry that object's
handle. `InFlightIsServed` then follows down the tree. The
references are counted with the cardinality lemmas `LibOpenCounts` and
`CloseCounts`; there is one lemma per action, and `ListKeeps`, `CallStepKeeps` and
`BackgroundKeeps` are what they share.

### Data

`EndpointProofs` proves, for buffers of any length and any sizes of packets, from
`EndpointAssumption` only (lengths and sizes are naturals), `EndpointTypeCorrect`,
`EndpointMovesInBuffer` and `EndpointResultIsExact` (the data of a read has no gaps, and the
count and error are those of the bulk transfer or of the isochronous packets). The invariant: `PacketsInv` (the
packets lie in the buffer), `CompactInv` (the packets before the current one were good,
their data was counted, and the current one starts where the code thinks) and
`DataInv` (the bytes up to `sum` are the first that the device sent, and the packets not
reached yet still have theirs). It is kept because a packet's data is moved to or before the place
where it starts: `Before(packets)[p]` is at most `size * (p - 1)` (`BeforeBound`). That
libusb puts the data of packets in the places the compaction takes it from is division
with a remainder (`PlaceHas`, `PlaceIs`, `PacketPlace`).

`TablesProofs` proves, for devices with any number of configurations, slots and
settings, numbered and repeated in any way, from `DescriptorsAssumption` only (the
bounds are naturals), `DescriptorsTypeCorrect`, `DescriptorsPanicMeansRepeatedSlot` and
`DescriptorsFoundIsFirstOffered`. The invariant: `HasIntfInv` (hasIntf is what was
offered so far), `DescsInv` (the current slot's settings that were not offered
before) and `InterfacesInv` (each slot with settings is one interface, in the order of
the slots). So the first interface of a number is the first slot of that number, whose
settings cannot have been offered before; and the first copy of a setting
is the only one.

`TablesProofs` also proves, for usb.ids files of any length, from `UsbIdsAssumption` only
(identifiers have 16 bits, the bound is a natural), `IdsTypeCorrect`, `IdsHangsByLevel`,
`IdsMapsMatchFile` and `IdsNamesMatchFile`. The parser remembers two lines for each kind of
block, and the properties speak of the whole file. What connects them is `IdsInv`:
`RememberedInv` (these two are the last lines of the levels 0 and 1 of the block, or nil
if there is none), `RefusedInv` (a file is refused because its last line is too deep or has
no line of the level above), the kind in force, and `HangsByLevel` itself (the maps hold,
for each place, the last line put there). In a well nested file the last line one level up
is the last that is less indented (`NestedHas`), which gives `IdsMapsMatchFile`. For
`IdsNamesMatchFile`, the map of a line has under an id the last of the lines listed
there, and nothing if there is none (`BelowIs`), so each look-up follows the file if the one
before did (`NamedFollows`); that the recursive `path` in `Lookups` satisfies its equation is
again shown with a least counterexample (`LookupsFind`).

### Only model-checked

Liveness (`WaitReturns`, `ReadReturns`, `WriteReturns`, `FinalizerEnds`): the prover has
neither fairness nor ENABLED.

## Not modelled

Kernel drivers (autodetach), control and string requests, the poll interval of
endpoints, BCD versions, logging, error texts, constants, the generated data,
the example programs and the loading of usb.ids (network, embedded data) are left
out: they keep no state that the properties speak of. So is a buffer longer than C's int
holds, for which alloc gives an error and keeps the C memory (`libusb.go:478-480`). How a line of usb.ids is split into its fields is
abstracted to the fields.

## Plan

1. (done) `Transfer` with `TransferProtocol` and its proofs.
2. (done) `Stream`, `ReadStream`, `WriteStream`.
3. (done) `Lifecycle` with `ResourceTree`.
4. (done) `Endpoint`, `Descriptors`, `UsbIds`.
5. (done) `DeviceList` and `Session`: all of it together, with finalizers.
6. (done) Proofs of the invariants of all modules and of the refinements.
7. To do: the poll interval of endpoints, kernel drivers, and Closes that overlap other
   calls on the same object, once the code says what they should do.
