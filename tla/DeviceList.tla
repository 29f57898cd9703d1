----------------------------- MODULE DeviceList -----------------------------
(***************************************************************************)
(* How a Context opens and closes Devices (usb.go): OpenDevices over the   *)
(* list that libusb gives, OpenDeviceWithVIDPID on top of it, and          *)
(* OpenDeviceWithFileDescriptor; closeDev and Context.Close.  What counts  *)
(* here is who holds what: libusb counts the references to a device, and a *)
(* Device that is open keeps the Context from closing.                     *)
(*                                                                         *)
(* The locks, and the handshake of Context.Close with the event loop, are  *)
(* in Lifecycle; here a Close is one step, at any time another goroutine   *)
(* may make it.                                                            *)
(***************************************************************************)
EXTENDS Integers, FiniteSets

CONSTANTS
    UsbDevices, \* the USB devices connected, as libusb_device
    MaxOpens,   \* bound: Device objects at a time
    NULL

ASSUME DeviceListAssumption == NULL \notin UsbDevices /\ MaxOpens \in Nat

Objects == 1..MaxOpens  \* Device objects; one that is closed is used again

VARIABLES
    ctx,        \* c.ctx is not nil, and handleEvents runs
    discovery,  \* the Context was made with EnableDeviceDiscovery
    pc,         \* where the goroutine that opens devices and reads them is
    handle,     \* libusb: the device that the handle of an object is open on
    refs,       \* libusb: the references to each device
    devices,    \* c.devices
    held,       \* the objects returned to callers and not closed by them
    list        \* locals of the running OpenDevices

listVars == <<ctx, discovery, pc, handle, refs, devices, held, list>>

NoList == [todo |-> {}, deferred |-> {}, one |-> FALSE, found |-> FALSE, ret |-> {}]

ListTypeOK ==
    /\ ctx \in BOOLEAN /\ discovery \in BOOLEAN
    /\ handle \in [Objects -> UsbDevices \cup {NULL}]
    /\ refs \in [UsbDevices -> 0..MaxOpens + 1]
    /\ devices \subseteq Objects /\ held \subseteq Objects
    /\ list \in [todo : SUBSET UsbDevices, deferred : SUBSET UsbDevices,
                 one : BOOLEAN, found : BOOLEAN, ret : SUBSET Objects]

ListInit ==
    /\ ctx = TRUE
    /\ discovery \in BOOLEAN
    /\ pc = "idle"
    /\ handle = [o \in Objects |-> NULL]
    /\ refs = [u \in UsbDevices |-> 0]
    /\ devices = {} /\ held = {}
    /\ list = NoList

Open(o) == handle[o] # NULL

\* The object that the next successful libusb_open is for.
NewObject == CHOOSE o \in Objects : ~Open(o)
MayOpen == \E o \in Objects : ~Open(o)

\* libusb_open and libusb_wrap_sys_device take a reference for the handle.
LibOpen(u) ==
    /\ handle' = [handle EXCEPT ![NewObject] = u]
    /\ refs' = [refs EXCEPT ![u] = @ + 1]

-----------------------------------------------------------------------------
(* OpenDevices, and OpenDeviceWithVIDPID if "one".  getDevices gives all      *)
(* devices, each with a reference, or none without discovery; when it fails,  *)
(* nothing has happened.                                                      *)

ListDevices ==
    /\ pc = "idle" /\ ctx
    /\ LET listed == IF discovery THEN UsbDevices ELSE {} IN
       \E one \in BOOLEAN :
         /\ list' = [NoList EXCEPT !.todo = listed, !.one = one]
         /\ refs' = [u \in UsbDevices |-> IF u \in listed THEN refs[u] + 1 ELSE refs[u]]
    /\ pc' = "list"
    /\ UNCHANGED <<ctx, discovery, handle, devices, held>>

\* Mutant: a device without a descriptor is skipped before its defer.
DeferredFor(u, described) == IF described THEN list.deferred \cup {u} ELSE list.deferred

\* The devices to dereference when the call returns.
Deferred(u, described) == list.deferred \cup {u}

\* Mutant: the closure of OpenDeviceWithVIDPID does not look at found.
AcceptsEvery == TRUE

\* opener(desc) may return true.  The closure of OpenDeviceWithVIDPID does so for
\* the first device that matches; whether it can be opened comes later.
Accepts == list.one => ~list.found

Visited(u, described, found, ret) ==
    /\ pc = "list"
    /\ u \in list.todo
    /\ list' = [list EXCEPT !.todo = @ \ {u}, !.deferred = Deferred(u, described),
                            !.found = @ \/ (found /\ list.one), !.ret = @ \cup ret]
    /\ UNCHANGED <<ctx, discovery, pc, held>>

\* The descriptor cannot be read, opener declines, or the device is not opened.
PassDevice(u) ==
    /\ \/ \E described \in BOOLEAN : Visited(u, described, FALSE, {})
       \/ Accepts /\ Visited(u, TRUE, TRUE, {})
    /\ UNCHANGED <<handle, refs, devices>>

OpenDevice(u) ==
    /\ MayOpen
    /\ Accepts
    /\ Visited(u, TRUE, TRUE, {NewObject})
    /\ LibOpen(u)
    /\ devices' = devices \cup {NewObject}

\* The deferred calls of dereference, and devs[0] for OpenDeviceWithVIDPID.
OpenDevicesReturns ==
    /\ pc = "list"
    /\ list.todo = {}
    /\ IF list.one /\ list.ret # {}
         THEN \E o \in list.ret : held' = held \cup {o}
         ELSE held' = held \cup list.ret
    /\ refs' = [u \in UsbDevices |-> IF u \in list.deferred THEN refs[u] - 1 ELSE refs[u]]
    /\ list' = NoList
    /\ pc' = "idle"
    /\ UNCHANGED <<ctx, discovery, handle, devices>>

-----------------------------------------------------------------------------
\* OpenDeviceWithFileDescriptor, which needs a Context without discovery.  The
\* handle stays open when the descriptor of the device cannot be read.
OpenDeviceWithFileDescriptor(u) ==
    /\ pc = "idle" /\ ctx /\ ~discovery
    /\ MayOpen
    /\ LibOpen(u)
    /\ \/ devices' = devices \cup {NewObject} /\ held' = held \cup {NewObject}
       \/ UNCHANGED <<devices, held>>
    /\ UNCHANGED <<ctx, discovery, pc, list>>

\* Context.closeDev, and what libusb_close does.
closeDev(o) ==
    /\ handle' = [handle EXCEPT ![o] = NULL]
    /\ refs' = [refs EXCEPT ![handle[o]] = @ - 1]
    /\ devices' = devices \ {o}

\* Context.Close, when checkOpenDevs finds none; it overlaps no OpenDevices.
ContextClose ==
    /\ ctx
    /\ pc # "list"
    /\ devices = {}
    /\ ctx' = FALSE
    /\ UNCHANGED <<discovery, pc, handle, refs, devices, held, list>>

OpenStep ==
    \/ ListDevices \/ OpenDevicesReturns
    \/ \E u \in UsbDevices :
         PassDevice(u) \/ OpenDevice(u) \/ OpenDeviceWithFileDescriptor(u)

-----------------------------------------------------------------------------
(* Properties. *)

\* The handles that OpenDeviceWithFileDescriptor has left open.
Leaked == {o \in Objects : Open(o)} \ devices

\* A device is referenced by its handles and by the list of the running
\* OpenDevices, so that libusb frees it in the end; and every Device that keeps
\* the Context from closing is one that a caller has or is about to get.  Excused is
\* the handle that OpenDeviceWithFileDescriptor, which is for a Context without
\* discovery, loses there (usb.go:262-265): only CloseReleasesAll reports that one.
DevicesAreHeld ==
    /\ \A u \in UsbDevices :
         refs[u] = Cardinality({o \in Objects : handle[o] = u})
                     + (IF pc = "list" /\ discovery THEN 1 ELSE 0)
    /\ devices = held \cup list.ret
    /\ discovery => Leaked = {}

\* "Close releases the Context and all associated resources."
CloseReleasesAll == ~ctx => \A o \in Objects : ~Open(o)
=============================================================================
