----------------------------- MODULE Lifecycle ------------------------------
(***************************************************************************)
(* The life of Context, Device, Config and Interface (usb.go, device.go,   *)
(* config.go, interface.go) on top of libusb's handles and claims.         *)
(*                                                                         *)
(* Goroutines open and close the objects concurrently.  Each Device and    *)
(* Config has a mutex, taken in the order Config.mu, Device.mu,            *)
(* Context.mu; but the check that an object is still open, at the top of   *)
(* each method, is made without any lock.  The callers' contract is        *)
(* therefore that a Close overlaps no other call on the same object.       *)
(* Calls on different objects overlap freely.                              *)
(*                                                                         *)
(* A step ends at a libusb call or before a mutex that another goroutine   *)
(* may hold.  What Context.mu guards is always done in a single step.      *)
(***************************************************************************)
EXTENDS Integers, FiniteSets

CONSTANTS
    Goroutines,
    Ctx,        \* the Context
    Devices,    \* Device objects, each for a USB device of its own
    Configs,    \* Config objects
    Interfaces, \* Interface objects
    Numbers,    \* interface numbers
    CfgNumbers, \* configuration numbers
    OneConfig,  \* TRUE: callers use one Config of a device at a time
    NULL

Objects == {Ctx} \cup Devices \cup Configs \cup Interfaces

ASSUME LifecycleAssumption ==
    /\ NULL \notin Goroutines \cup Objects
    /\ Ctx \notin Devices \cup Configs \cup Interfaces
    /\ Devices \cap Configs = {}
    /\ Interfaces \cap (Devices \cup Configs) = {}
    /\ OneConfig \in BOOLEAN

VARIABLES
    ctx,        \* c.ctx is not nil
    loop,       \* handleEvents: "select", "handle" or "stopped"
    devices,    \* c.devices
    handle,     \* the devices with d.handle not nil
    claimed,    \* d.claimed
    devMu,      \* devMu[d]: the goroutine that holds d.mu, or NULL
    cfgDev,     \* c.dev
    cfgNum,     \* c.Desc.Number
    intfs,      \* c.claimed: the interface numbers claimed through Config c
    cfgMu,      \* cfgMu[c]: the goroutine that holds c.mu, or NULL
    config,     \* i.config
    number,     \* i.Setting.Number
    libOpen,    \* libusb: the devices with an open handle
    libClaims,  \* libusb: the interfaces claimed through the handle of a device
    active,     \* the active configuration of a device
    pc,         \* where each goroutine is
    self,       \* the receiver of its call
    new,        \* the object its call will return
    held        \* the objects returned to callers

ctxVars == <<ctx, loop, devices>>
devVars == <<handle, claimed, devMu>>
cfgVars == <<cfgDev, cfgNum, intfs, cfgMu>>
intfVars == <<config, number>>
libVars == <<libOpen, libClaims, active>>
callVars == <<pc, self, new, held>>
vars == <<ctxVars, devVars, cfgVars, intfVars, libVars, callVars>>

ClosingLabels == {"stop", "exit", "dev_close", "close_dev", "dev_closed",
                  "cfg_close", "cfg_release", "release", "intf_delete"}
Labels == ClosingLabels \cup
    {"idle", "open", "register", "reset", "resetting", "get_config", "set_config",
     "claim_dev", "intf", "claim", "set_alt", "unclaim"}

TypeOK ==
    /\ ctx \in BOOLEAN
    /\ loop \in {"select", "handle", "stopped"}
    /\ devices \subseteq Devices
    /\ handle \subseteq Devices
    /\ claimed \in [Devices -> Configs \cup {NULL}]
    /\ devMu \in [Devices -> Goroutines \cup {NULL}]
    /\ cfgDev \in [Configs -> Devices \cup {NULL}]
    /\ cfgNum \in [Configs -> CfgNumbers]
    /\ intfs \in [Configs -> SUBSET Numbers]
    /\ cfgMu \in [Configs -> Goroutines \cup {NULL}]
    /\ config \in [Interfaces -> Configs \cup {NULL}]
    /\ number \in [Interfaces -> Numbers]
    /\ libOpen \subseteq Devices
    /\ libClaims \in [Devices -> SUBSET Numbers]
    /\ active \in [Devices -> CfgNumbers]
    /\ pc \in [Goroutines -> Labels]
    /\ self \in [Goroutines -> Objects \cup {NULL}]
    /\ new \in [Goroutines -> Objects \cup {NULL}]
    /\ held \subseteq Objects

Init ==
    /\ ctx = TRUE
    /\ loop = "select"
    /\ devices = {}
    /\ handle = {}
    /\ claimed = [d \in Devices |-> NULL]
    /\ devMu = [d \in Devices |-> NULL]
    /\ cfgDev = [c \in Configs |-> NULL]
    /\ \E n \in CfgNumbers :
         /\ cfgNum = [c \in Configs |-> n]
         /\ active = [d \in Devices |-> n]
    /\ intfs = [c \in Configs |-> {}]
    /\ cfgMu = [c \in Configs |-> NULL]
    /\ config = [i \in Interfaces |-> NULL]
    /\ number \in {[i \in Interfaces |-> n] : n \in Numbers}
    /\ libOpen = {}
    /\ libClaims = [d \in Devices |-> {}]
    /\ pc = [g \in Goroutines |-> "idle"]
    /\ self = [g \in Goroutines |-> NULL]
    /\ new = [g \in Goroutines |-> NULL]
    /\ held = {Ctx}

-----------------------------------------------------------------------------
(* Calls. *)

At(g, label) == pc[g] = label

Fresh(o) == o \notin held /\ \A g \in Goroutines : new[g] # o

\* A method of o that is not Close, and one that is.
MayCall(o)  == o \in held /\ \A g \in Goroutines : self[g] = o => pc[g] \notin ClosingLabels
MayClose(o) == o \in held /\ \A g \in Goroutines : self[g] # o

Call(g, o, n, label) ==
    /\ At(g, "idle")
    /\ pc' = [pc EXCEPT ![g] = label]
    /\ self' = [self EXCEPT ![g] = o]
    /\ new' = [new EXCEPT ![g] = n]
    /\ UNCHANGED held

Goto(g, label) ==
    /\ pc' = [pc EXCEPT ![g] = label]
    /\ UNCHANGED <<self, new, held>>

ReturnWith(g, objects) ==
    /\ pc' = [pc EXCEPT ![g] = "idle"]
    /\ self' = [self EXCEPT ![g] = NULL]
    /\ new' = [new EXCEPT ![g] = NULL]
    /\ held' = held \cup objects

\* Mutant: a call that fails gives its caller a nil object.
ReturnNil(g) == ReturnWith(g, {NULL})

Return(g) == ReturnWith(g, {})

\* d.mu.Lock() and c.mu.Lock() of a receiver, and the deferred Unlock.  Mutants: the
\* device is not locked; the config is not unlocked.
LockDevNot(g) == UNCHANGED devMu
LockDev(g) == devMu' = [devMu EXCEPT ![self[g]] = g]
UnlockDev(g) == devMu' = [devMu EXCEPT ![self[g]] = NULL]
LockCfg(g) == cfgMu' = [cfgMu EXCEPT ![self[g]] = g]
UnlockCfgNot(g) == UNCHANGED cfgMu
UnlockCfg(g) == cfgMu' = [cfgMu EXCEPT ![self[g]] = NULL]

-----------------------------------------------------------------------------
(* Context *)

\* OpenDevices; DeviceList has its loop.
OpenCheck(g, d) ==
    /\ ctx
    /\ MayCall(Ctx)
    /\ Fresh(d)
    /\ Call(g, Ctx, d, "open")
    /\ UNCHANGED <<ctxVars, devVars, cfgVars, intfVars, libVars>>

LibOpen(g) ==
    /\ At(g, "open")
    /\ libOpen' = libOpen \cup {new[g]}
    /\ Goto(g, "register")
    /\ UNCHANGED <<ctxVars, devVars, cfgVars, intfVars, libClaims, active>>

\* libusb_open fails, or the descriptor of the device cannot be read before it.
OpenFails(g) ==
    /\ At(g, "open")
    /\ Return(g)
    /\ UNCHANGED <<ctxVars, devVars, cfgVars, intfVars, libVars>>

Register(g) ==
    /\ At(g, "register")
    /\ handle' = handle \cup {new[g]}
    /\ devices' = devices \cup {new[g]}
    /\ ReturnWith(g, {new[g]})
    /\ UNCHANGED <<ctx, loop, claimed, devMu, cfgVars, intfVars, libVars>>

\* Mutant: checkOpenDevs does not look.
checkOpenDevsPasses == TRUE

checkOpenDevs == devices = {}

ContextClose(g) ==
    /\ ctx
    /\ MayClose(Ctx)
    /\ checkOpenDevs
    /\ Call(g, Ctx, NULL, "stop")
    /\ UNCHANGED <<ctxVars, devVars, cfgVars, intfVars, libVars>>

\* c.done <- struct{}{} hands over to the select of handleEvents.
ContextStop(g) ==
    /\ At(g, "stop")
    /\ loop = "select"
    /\ loop' = "stopped"
    /\ Goto(g, "exit")
    /\ UNCHANGED <<ctx, devices, devVars, cfgVars, intfVars, libVars>>

ContextExit(g) ==
    /\ At(g, "exit")
    /\ ctx' = FALSE
    /\ Return(g)
    /\ UNCHANGED <<loop, devices, devVars, cfgVars, intfVars, libVars>>

\* Close of a closed Context returns nil.
ContextCloseAgain(g) ==
    /\ At(g, "idle")
    /\ ~ctx
    /\ UNCHANGED vars

\* handleEvents: the default branch of its select, and the libusb call, which
\* returns after an event or a timeout.
HandleEvents ==
    /\ \/ /\ loop = "select"
          /\ \A g \in Goroutines : ~At(g, "stop")
          /\ loop' = "handle"
       \/ /\ loop = "handle"
          /\ loop' = "select"
    /\ UNCHANGED <<ctx, devices, devVars, cfgVars, intfVars, libVars, callVars>>

-----------------------------------------------------------------------------
(* Device *)

ResetCheck(g, d) ==
    /\ d \in handle
    /\ MayCall(d)
    /\ Call(g, d, NULL, "reset")
    /\ UNCHANGED <<ctxVars, devVars, cfgVars, intfVars, libVars>>

\* "can't reset device while it has an active configuration"
ResetRefused(g) ==
    /\ At(g, "reset")
    /\ devMu[self[g]] = NULL
    /\ claimed[self[g]] # NULL
    /\ Return(g)
    /\ UNCHANGED <<ctxVars, devVars, cfgVars, intfVars, libVars>>

Reset(g) ==
    /\ At(g, "reset")
    /\ devMu[self[g]] = NULL
    /\ claimed[self[g]] = NULL
    /\ LockDev(g)
    /\ Goto(g, "resetting")
    /\ UNCHANGED <<ctxVars, handle, claimed, cfgVars, intfVars, libVars>>

ResetReturns(g) ==
    /\ At(g, "resetting")
    /\ UnlockDev(g)
    /\ Return(g)
    /\ UNCHANGED <<ctxVars, handle, claimed, cfgVars, intfVars, libVars>>

\* Config builds the object before it has the configuration.
ConfigCheck(g, d, c, n) ==
    /\ d \in handle
    /\ MayCall(d)
    /\ Fresh(c)
    /\ OneConfig => \A other \in Configs : cfgDev[other] # d
    /\ cfgDev' = [cfgDev EXCEPT ![c] = d]
    /\ cfgNum' = [cfgNum EXCEPT ![c] = n]
    /\ Call(g, d, c, "get_config")
    /\ UNCHANGED <<ctxVars, devVars, intfs, cfgMu, intfVars, libVars>>

\* Kernel drivers are detached (with autodetach), the active configuration is
\* read and, if it is another one, set.  Each may fail.
ConfigFails(g) ==
    /\ pc[g] \in {"get_config", "set_config"}
    /\ cfgDev' = [cfgDev EXCEPT ![new[g]] = NULL]
    /\ Return(g)
    /\ UNCHANGED <<ctxVars, devVars, cfgNum, intfs, cfgMu, intfVars, libVars>>

ActiveConfigNum(g) ==
    /\ At(g, "get_config")
    /\ self[g] \in handle
    /\ Goto(g, IF cfgNum[new[g]] = active[self[g]] THEN "claim_dev" ELSE "set_config")
    /\ UNCHANGED <<ctxVars, devVars, cfgVars, intfVars, libVars>>

\* libusb does not set the configuration of a device with claimed interfaces.
SetConfig(g) ==
    /\ At(g, "set_config")
    /\ libClaims[self[g]] = {}
    /\ active' = [active EXCEPT ![self[g]] = cfgNum[new[g]]]
    /\ Goto(g, "claim_dev")
    /\ UNCHANGED <<ctxVars, devVars, cfgVars, intfVars, libOpen, libClaims>>

\* Mutant: d.claimed is not set.
ClaimedNot(g) == UNCHANGED claimed

Claimed(g) == claimed' = [claimed EXCEPT ![self[g]] = new[g]]

\* d.claimed = cfg, whether or not the device has a Config already.
ClaimDevice(g) ==
    /\ At(g, "claim_dev")
    /\ devMu[self[g]] = NULL
    /\ Claimed(g)
    /\ ReturnWith(g, {new[g]})
    /\ UNCHANGED <<ctxVars, handle, devMu, cfgVars, intfVars, libVars>>

DeviceClose(g, d) ==
    /\ d \in handle
    /\ MayClose(d)
    /\ Call(g, d, NULL, "dev_close")
    /\ UNCHANGED <<ctxVars, devVars, cfgVars, intfVars, libVars>>

\* "can't release the device, it has an open config"
DeviceCloseRefused(g) ==
    /\ At(g, "dev_close")
    /\ devMu[self[g]] = NULL
    /\ claimed[self[g]] # NULL
    /\ Return(g)
    /\ UNCHANGED <<ctxVars, devVars, cfgVars, intfVars, libVars>>

DeviceCloseLock(g) ==
    /\ At(g, "dev_close")
    /\ devMu[self[g]] = NULL
    /\ claimed[self[g]] = NULL
    /\ LockDev(g)
    /\ Goto(g, "close_dev")
    /\ UNCHANGED <<ctxVars, handle, claimed, cfgVars, intfVars, libVars>>

\* closeDev: libusb drops the claims of a handle that is closed.
CloseDev(g) ==
    /\ At(g, "close_dev")
    /\ libOpen' = libOpen \ {self[g]}
    /\ libClaims' = [libClaims EXCEPT ![self[g]] = {}]
    /\ devices' = devices \ {self[g]}
    /\ Goto(g, "dev_closed")
    /\ UNCHANGED <<ctx, loop, devVars, cfgVars, intfVars, active>>

DeviceClosed(g) ==
    /\ At(g, "dev_closed")
    /\ handle' = handle \ {self[g]}
    /\ UnlockDev(g)
    /\ Return(g)
    /\ UNCHANGED <<ctxVars, claimed, cfgVars, intfVars, libVars>>

-----------------------------------------------------------------------------
(* Config *)

\* Interface: the descriptors of interface n and of its setting exist.
InterfaceCheck(g, c, i, n) ==
    /\ cfgDev[c] # NULL
    /\ MayCall(c)
    /\ Fresh(i)
    /\ number' = [number EXCEPT ![i] = n]
    /\ Call(g, c, i, "intf")
    /\ UNCHANGED <<ctxVars, devVars, cfgVars, config, libVars>>

\* "interface is already claimed"
InterfaceRefused(g) ==
    /\ At(g, "intf")
    /\ cfgMu[self[g]] = NULL
    /\ number[new[g]] \in intfs[self[g]]
    /\ Return(g)
    /\ UNCHANGED <<ctxVars, devVars, cfgVars, intfVars, libVars>>

InterfaceLock(g) ==
    /\ At(g, "intf")
    /\ cfgMu[self[g]] = NULL
    /\ number[new[g]] \notin intfs[self[g]]
    /\ LockCfg(g)
    /\ Goto(g, "claim")
    /\ UNCHANGED <<ctxVars, devVars, cfgDev, cfgNum, intfs, intfVars, libVars>>

\* libusb_claim_interface; claiming again what the handle has claimed succeeds.
Claim(g) ==
    /\ At(g, "claim")
    /\ libClaims' = [libClaims EXCEPT ![cfgDev[self[g]]] = @ \cup {number[new[g]]}]
    /\ Goto(g, "set_alt")
    /\ UNCHANGED <<ctxVars, devVars, cfgVars, intfVars, libOpen, active>>

ClaimFails(g) ==
    /\ At(g, "claim")
    /\ UnlockCfg(g)
    /\ Return(g)
    /\ UNCHANGED <<ctxVars, devVars, cfgDev, cfgNum, intfs, intfVars, libVars>>

\* The setting is selected, if the interface has several.
SetAlt(g) ==
    /\ At(g, "set_alt")
    /\ intfs' = [intfs EXCEPT ![self[g]] = @ \cup {number[new[g]]}]
    /\ config' = [config EXCEPT ![new[g]] = self[g]]
    /\ UnlockCfg(g)
    /\ ReturnWith(g, {new[g]})
    /\ UNCHANGED <<ctxVars, devVars, cfgDev, cfgNum, number, libVars>>

SetAltFails(g) ==
    /\ At(g, "set_alt")
    /\ Goto(g, "unclaim")
    /\ UNCHANGED <<ctxVars, devVars, cfgVars, intfVars, libVars>>

\* Mutant: the claim is kept when the setting cannot be selected.
ClaimKept(d, n) == UNCHANGED libClaims

Released(d, n) == libClaims' = [libClaims EXCEPT ![d] = @ \ {n}]

Unclaim(g) ==
    /\ At(g, "unclaim")
    /\ Released(cfgDev[self[g]], number[new[g]])
    /\ UnlockCfg(g)
    /\ Return(g)
    /\ UNCHANGED <<ctxVars, devVars, cfgDev, cfgNum, intfs, intfVars, libOpen, active>>

ConfigClose(g, c) ==
    /\ cfgDev[c] # NULL
    /\ MayClose(c)
    /\ Call(g, c, NULL, "cfg_close")
    /\ UNCHANGED <<ctxVars, devVars, cfgVars, intfVars, libVars>>

\* "failed to release, interfaces are still open"
ConfigCloseRefused(g) ==
    /\ At(g, "cfg_close")
    /\ cfgMu[self[g]] = NULL
    /\ intfs[self[g]] # {}
    /\ Return(g)
    /\ UNCHANGED <<ctxVars, devVars, cfgVars, intfVars, libVars>>

ConfigCloseLock(g) ==
    /\ At(g, "cfg_close")
    /\ cfgMu[self[g]] = NULL
    /\ intfs[self[g]] = {}
    /\ LockCfg(g)
    /\ Goto(g, "cfg_release")
    /\ UNCHANGED <<ctxVars, devVars, cfgDev, cfgNum, intfs, intfVars, libVars>>

\* With both locks: c.dev.claimed = nil; c.dev = nil
ConfigRelease(g) ==
    LET d == cfgDev[self[g]] IN
    /\ At(g, "cfg_release")
    /\ devMu[d] = NULL
    /\ claimed' = [claimed EXCEPT ![d] = NULL]
    /\ cfgDev' = [cfgDev EXCEPT ![self[g]] = NULL]
    /\ UnlockCfg(g)
    /\ Return(g)
    /\ UNCHANGED <<ctxVars, handle, devMu, cfgNum, intfs, intfVars, libVars>>

-----------------------------------------------------------------------------
(* Interface *)

InterfaceClose(g, i) ==
    /\ config[i] # NULL
    /\ MayClose(i)
    /\ Call(g, i, NULL, "release")
    /\ UNCHANGED <<ctxVars, devVars, cfgVars, intfVars, libVars>>

\* libusb_release_interface, without the lock of the Config.
Release(g) ==
    LET d == cfgDev[config[self[g]]] IN
    /\ At(g, "release")
    /\ Released(d, number[self[g]])
    /\ Goto(g, "intf_delete")
    /\ UNCHANGED <<ctxVars, devVars, cfgVars, intfVars, libOpen, active>>

InterfaceDelete(g) ==
    LET c == config[self[g]] IN
    /\ At(g, "intf_delete")
    /\ cfgMu[c] = NULL
    /\ intfs' = [intfs EXCEPT ![c] = @ \ {number[self[g]]}]
    /\ config' = [config EXCEPT ![self[g]] = NULL]
    /\ Return(g)
    /\ UNCHANGED <<ctxVars, devVars, cfgDev, cfgNum, cfgMu, number, libVars>>

-----------------------------------------------------------------------------
Begin(g) ==
    \/ ContextClose(g) \/ ContextCloseAgain(g)
    \/ \E d \in Devices :
         \/ OpenCheck(g, d) \/ ResetCheck(g, d) \/ DeviceClose(g, d)
         \/ \E c \in Configs, n \in CfgNumbers : ConfigCheck(g, d, c, n)
    \/ \E c \in Configs :
         \/ ConfigClose(g, c)
         \/ \E i \in Interfaces, n \in Numbers : InterfaceCheck(g, c, i, n)
    \/ \E i \in Interfaces : InterfaceClose(g, i)

Step(g) ==
    \/ LibOpen(g) \/ OpenFails(g) \/ Register(g) \/ ContextStop(g) \/ ContextExit(g)
    \/ ResetRefused(g) \/ Reset(g) \/ ResetReturns(g)
    \/ ActiveConfigNum(g) \/ SetConfig(g) \/ ConfigFails(g) \/ ClaimDevice(g)
    \/ DeviceCloseRefused(g) \/ DeviceCloseLock(g) \/ CloseDev(g) \/ DeviceClosed(g)
    \/ InterfaceRefused(g) \/ InterfaceLock(g) \/ Claim(g) \/ ClaimFails(g)
    \/ SetAlt(g) \/ SetAltFails(g) \/ Unclaim(g)
    \/ ConfigCloseRefused(g) \/ ConfigCloseLock(g) \/ ConfigRelease(g)
    \/ Release(g) \/ InterfaceDelete(g)

Next == HandleEvents \/ \E g \in Goroutines : Begin(g) \/ Step(g)

Spec == Init /\ [][Next]_vars

-----------------------------------------------------------------------------
(* Properties. *)

\* The device a call reaches through its receiver.
DeviceOf(g) ==
    CASE self[g] \in Devices    -> self[g]
      [] self[g] \in Configs    -> cfgDev[self[g]]
      [] self[g] \in Interfaces -> cfgDev[config[self[g]]]

\* Every libusb call is made on a handle that is open, in a context that is not
\* exited, although nothing but the order of the Close checks keeps it so: no
\* method reads a handle under a lock.
HandlesAreLive ==
    \A g \in Goroutines :
        /\ pc[g] \in {"open", "register", "exit"} => ctx
        /\ pc[g] \in {"resetting", "get_config", "set_config", "close_dev",
                      "claim", "set_alt", "unclaim", "release"} =>
             DeviceOf(g) \in libOpen /\ ctx

\* libusb's claims are those of the open Interfaces, each held by one of them,
\* and of the calls that are making or giving up one.
Claimant(d, n) ==
    {i \in Interfaces : config[i] # NULL /\ cfgDev[config[i]] = d /\ number[i] = n
        /\ \A g \in Goroutines : self[g] = i => ~At(g, "intf_delete")}

Claiming(d, n) ==
    {g \in Goroutines : pc[g] \in {"set_alt", "unclaim"} /\ DeviceOf(g) = d
        /\ number[new[g]] = n}

ClaimsAreOwned ==
    \A d \in Devices, n \in Numbers :
        Cardinality(Claimant(d, n)) + Cardinality(Claiming(d, n))
            = IF n \in libClaims[d] THEN 1 ELSE 0

\* "Config returns a USB device set to use a particular config" and it stays so
\* until Close: nobody sets another one, or resets the device.
ConfigStaysActive ==
    \A c \in Configs \cap held : cfgDev[c] # NULL =>
        /\ active[cfgDev[c]] = cfgNum[c]
        /\ \A g \in Goroutines : At(g, "resetting") => self[g] # cfgDev[c]

\* "Only one Config of a particular device can be used at any one time."
OneConfigPerDevice ==
    \A c, o \in Configs \cap held :
        c # o /\ cfgDev[c] # NULL => cfgDev[o] # cfgDev[c]

\* The objects are opened and closed as a tree.
IsOpen(o) ==
    \/ o = Ctx /\ ctx
    \/ o \in devices
    \/ o \in Configs \cap held /\ cfgDev[o] # NULL
    \/ o \in Interfaces /\ config[o] # NULL

ParentOf(o) ==
    IF o = Ctx \/ ~IsOpen(o) THEN NULL
    ELSE IF o \in Devices THEN Ctx
    ELSE IF o \in Configs THEN cfgDev[o]
    ELSE config[o]

Tree == INSTANCE ResourceTree
    WITH Root <- Ctx,
         open <- {o \in Objects : IsOpen(o)},
         parent <- [o \in Objects |-> ParentOf(o)]

ImplementsTree == Tree!Spec

\* g is about to take a mutex that h holds.
WaitsFor(g, h) ==
    \/ pc[g] \in {"reset", "claim_dev", "dev_close"} /\ devMu[self[g]] = h
    \/ pc[g] \in {"intf", "cfg_close"} /\ cfgMu[self[g]] = h
    \/ At(g, "cfg_release") /\ devMu[cfgDev[self[g]]] = h
    \/ At(g, "intf_delete") /\ cfgMu[config[self[g]]] = h

\* No call waits for ever: a mutex is released by the end of the call that took
\* it, no set of goroutines waits in a circle (Config.Close takes two mutexes),
\* and Context.Close finds the event loop listening.
NoDeadlock ==
    /\ \A g \in Goroutines : At(g, "idle") =>
         /\ \A d \in Devices : devMu[d] # g
         /\ \A c \in Configs : cfgMu[c] # g
    /\ \A S \in (SUBSET Goroutines) \ {{}} : \E g \in S : \A h \in S : ~WaitsFor(g, h)
    /\ \A g \in Goroutines : At(g, "stop") => loop # "stopped"
=============================================================================
