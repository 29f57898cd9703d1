------------------------------- MODULE Session -------------------------------
(***************************************************************************)
(* A program at work: it opens devices, claims an interface, reads from an *)
(* endpoint and from a ReadStream, and closes everything again, while      *)
(* other goroutines close what they no longer need, libusb finishes        *)
(* transfers, and the garbage collector finalizes those that were dropped. *)
(*                                                                         *)
(* Nothing in gousb ties a transfer to the objects it needs: an endpoint   *)
(* copies the handle of its device (openEndpoint).  That a transfer is     *)
(* served depends on each Close refusing while the object below is open,   *)
(* and on callers who close an Interface only when they are done with it.  *)
(*                                                                         *)
(* Composes DeviceList (Context and Devices) with Configs, Interfaces and  *)
(* transfers in the grain of the calls of libusb.  A Config and its        *)
(* Interface have the name of their Device: callers use one of each.       *)
(***************************************************************************)
EXTENDS DeviceList

CONSTANTS
    MaxTransfers,   \* bound: transfers allocated at a time
    Count           \* transfers of a stream

ASSUME SessionAssumption == MaxTransfers \in Nat /\ Count \in Nat \ {0}

Transfers == 1..MaxTransfers
Answers == {"none", "accepted", "refused"}
None == 0

VARIABLES
    config,     \* the devices with d.claimed not nil: their Config is open
    intf,       \* the configs with c.claimed not empty: libusb has a claim too
    heldCfg, heldIntf,  \* the Configs and Interfaces callers have and have not closed
    phase,      \* of a transfer: "none", "idle", "inflight" or "finished"
    owner,      \* libusb: transfer->dev_handle, None once that is closed
    cancel,     \* libusb: its answer when it was asked to cancel one in flight
    on,         \* the object of the call in progress, or None
    ts,         \* the transfers that are in local variables of that call
    stream,     \* the transfers of the ReadStream in use: its fifo and current
    streamOn,   \* the object it reads from, None without a stream
    closed,     \* its s.err is not nil: no more transfers are submitted
    garbage,    \* transfers that nothing refers to
    fin         \* the transfer of the running finalizer, or None

objectVars == <<config, intf, heldCfg, heldIntf>>
xferVars == <<phase, owner, cancel>>
streamVars == <<stream, streamOn, closed>>
vars == <<listVars, objectVars, xferVars, on, ts, streamVars, garbage, fin>>

TypeOK ==
    /\ ListTypeOK
    /\ pc \in {"idle", "list", "default", "alloc", "submit", "wait", "flush"}
    /\ \A S \in {config, intf, heldCfg, heldIntf} : S \subseteq Objects
    /\ phase \in [Transfers -> {"none", "idle", "inflight", "finished"}]
    /\ owner \in [Transfers -> Objects \cup {None}]
    /\ cancel \in [Transfers -> Answers]
    /\ {on, streamOn} \subseteq Objects \cup {None}
    /\ \A S \in {ts, stream, garbage} : S \subseteq Transfers
    /\ closed \in BOOLEAN
    /\ fin \in Transfers \cup {None}

Init ==
    /\ ListInit
    /\ config = {} /\ intf = {} /\ heldCfg = {} /\ heldIntf = {}
    /\ phase = [t \in Transfers |-> "none"]
    /\ owner = [t \in Transfers |-> None]
    /\ cancel = [t \in Transfers |-> "none"]
    /\ ts = {} /\ stream = {} /\ garbage = {}
    /\ on = None /\ streamOn = None /\ fin = None
    /\ closed = FALSE

-----------------------------------------------------------------------------
(* Device, Config and Interface *)

\* Calls that fail and leave nothing behind are left out.
Config(o) ==
    /\ o \in held \ config
    /\ config' = config \cup {o} /\ heldCfg' = heldCfg \cup {o}
    /\ UNCHANGED <<intf, heldIntf, pc, on>>

Interface(o) ==
    /\ o \in heldCfg \ intf
    /\ intf' = intf \cup {o} /\ heldIntf' = heldIntf \cup {o}
    /\ UNCHANGED <<config, heldCfg, pc, on>>

\* DefaultInterface has the Config and goes on to its interface 0.
DefaultConfig(o) ==
    /\ o \in held \ config
    /\ config' = config \cup {o}
    /\ pc' = "default" /\ on' = o
    /\ UNCHANGED <<intf, heldCfg, heldIntf>>

\* Mutant: the Config is not closed when the interface cannot be claimed.
AfterDefaultKept(claims) == config

\* cfg.Close() when the interface cannot be claimed
AfterDefault(claims) == IF claims THEN config ELSE config \ {on}

\* The caller gets the interface and, in done, the means to close both.
DefaultInterface ==
    /\ pc = "default"
    /\ \E claims \in BOOLEAN :
         LET got == IF claims THEN {on} ELSE {} IN
         /\ config' = AfterDefault(claims)
         /\ intf' = intf \cup got
         /\ heldCfg' = heldCfg \cup got /\ heldIntf' = heldIntf \cup got
    /\ pc' = "idle" /\ on' = None

Acquire ==
    /\ \/ /\ pc = "idle"
          /\ \E o \in Objects : Config(o) \/ Interface(o) \/ DefaultConfig(o)
       \/ DefaultInterface
    /\ UNCHANGED <<ctx, discovery, handle, refs, devices, held, list,
                   xferVars, ts, streamVars, garbage, fin>>

\* The callers' contract: an Interface is closed when no call and no stream uses it.
\* For Configs, Devices and the Context there is no such contract.
InterfaceClose(o) ==
    /\ o \in heldIntf \ {on, streamOn}
    /\ intf' = intf \ {o} /\ heldIntf' = heldIntf \ {o}
    /\ UNCHANGED <<listVars, config, heldCfg, xferVars>>

\* Mutant: the interfaces that are open do not matter.
ReleasableAlways(o) == TRUE

\* "failed to release, interfaces are still open" otherwise
Releasable(o) == o \notin intf

ConfigClose(o) ==
    /\ o \in heldCfg
    /\ Releasable(o)
    /\ config' = config \ {o} /\ heldCfg' = heldCfg \ {o}
    /\ UNCHANGED <<listVars, intf, heldIntf, xferVars>>

\* With an open Config it is refused.  libusb_close forgets the transfers in
\* flight on the handle: it will not call back for them.
DeviceClose(o) ==
    /\ o \in held \ config
    /\ closeDev(o)
    /\ held' = held \ {o}
    /\ owner' = [t \in Transfers |-> IF owner[t] = o THEN None ELSE owner[t]]
    /\ UNCHANGED <<ctx, discovery, pc, list, objectVars, phase, cancel>>

\* By any goroutine.
Close ==
    /\ \/ \E o \in Objects : InterfaceClose(o) \/ ConfigClose(o) \/ DeviceClose(o)
       \/ ContextClose /\ UNCHANGED <<objectVars, xferVars>>
    /\ UNCHANGED <<on, ts, streamVars, garbage, fin>>

-----------------------------------------------------------------------------
(* Transfers *)

Unused == {t \in Transfers : phase[t] = "none"}

\* newUSBTransfer; the model gives the least unused number.
Alloc(t, o) ==
    /\ t \in Unused
    /\ \A u \in Unused : t <= u
    /\ phase' = [phase EXCEPT ![t] = "idle"]
    /\ owner' = [owner EXCEPT ![t] = o]
    /\ UNCHANGED cancel

Free(S) ==
    /\ phase' = [t \in Transfers |-> IF t \in S THEN "none" ELSE phase[t]]
    /\ owner' = [t \in Transfers |-> IF t \in S THEN None ELSE owner[t]]
    /\ cancel' = [t \in Transfers |-> IF t \in S THEN "none" ELSE cancel[t]]

Submit(t) ==
    /\ phase' = [phase EXCEPT ![t] = "inflight"]
    /\ UNCHANGED <<owner, cancel>>

InFlight(t) == phase[t] = "inflight"

\* libusb may refuse; no caller looks at the error that is returned then.
Cancel(t) ==
    /\ \E answer \in Answers \ {"none"} :
         cancel' = [cancel EXCEPT ![t] = IF InFlight(t) THEN answer ELSE @]
    /\ UNCHANGED <<phase, owner>>

\* The event loop runs the callback of a transfer that is finished.
Served(t) == ctx /\ owner[t] # None

Complete(t) ==
    /\ InFlight(t)
    /\ Served(t)
    /\ phase' = [phase EXCEPT ![t] = "finished"]
    /\ cancel' = [cancel EXCEPT ![t] = "none"]
    /\ UNCHANGED <<listVars, objectVars, owner, on, ts, streamVars, garbage, fin>>

-----------------------------------------------------------------------------
(* endpoint.transfer *)

Call(o, label) == pc' = label /\ on' = o
Return == Call(None, "idle")

\* The transfer is allocated and submitted; a failure of either leaves nothing.
EndpointRead(o, t) ==
    /\ pc = "idle" /\ o \in heldIntf
    /\ t \in Unused /\ \A u \in Unused : t <= u
    /\ phase' = [phase EXCEPT ![t] = "inflight"]
    /\ owner' = [owner EXCEPT ![t] = o]
    /\ ts' = {t}
    /\ Call(o, "wait")
    /\ UNCHANGED <<cancel, streamVars, garbage>>

\* The context of wait ends.
EndpointCancel ==
    /\ pc = "wait"
    /\ \E t \in ts : InFlight(t) /\ cancel[t] = "none" /\ Cancel(t)
    /\ UNCHANGED <<pc, on, ts, streamVars, garbage>>

EndpointReturns ==
    /\ pc = "wait"
    /\ \A t \in ts : ~InFlight(t)
    /\ Free(ts)
    /\ ts' = {}
    /\ Return
    /\ UNCHANGED <<streamVars, garbage>>

-----------------------------------------------------------------------------
(* InEndpoint.NewStream *)

NewStream(o) ==
    /\ pc = "idle" /\ o \in heldIntf
    /\ streamOn = None
    /\ Call(o, "alloc")
    /\ UNCHANGED <<xferVars, ts, streamVars, garbage>>

NewStreamAlloc(t) ==
    /\ pc = "alloc"
    /\ Cardinality(ts) < Count
    /\ Alloc(t, on)
    /\ ts' = ts \cup {t}
    /\ UNCHANGED <<pc, on, streamVars, garbage>>

\* for _, t := range ts { t.free() }
NewStreamFails ==
    /\ pc = "alloc"
    /\ Cardinality(ts) < Count
    /\ Free(ts)
    /\ ts' = {}
    /\ Return
    /\ UNCHANGED <<streamVars, garbage>>

StreamReady ==
    /\ pc = "alloc"
    /\ Cardinality(ts) = Count
    /\ pc' = "submit"
    /\ UNCHANGED <<xferVars, on, ts, streamVars, garbage>>

\* submitAll; one that fails is freed, and nothing refers to those after it.
StreamSubmit(t) ==
    /\ pc = "submit" /\ t \in ts
    /\ \/ /\ Submit(t)
          /\ stream' = stream \cup {t} /\ ts' = ts \ {t}
          /\ UNCHANGED <<pc, on, streamOn, closed, garbage>>
       \/ /\ Free({t})
          /\ garbage' = garbage \cup (ts \ {t}) /\ ts' = {}
          /\ streamOn' = on /\ closed' = TRUE
          /\ Return
          /\ UNCHANGED stream

StreamSubmitted ==
    /\ pc = "submit" /\ ts = {}
    /\ streamOn' = on
    /\ Return
    /\ UNCHANGED <<xferVars, ts, stream, closed, garbage>>

-----------------------------------------------------------------------------
(* The ReadStream, of which only the transfers matter here: ReadStream has    *)
(* the detail.                                                                *)

\* A transfer is read and submitted again, or freed.
StreamRead(t) ==
    /\ pc = "idle" /\ t \in stream
    /\ phase[t] = "finished"
    /\ \/ ~closed /\ Submit(t) /\ UNCHANGED <<stream, closed>>
       \/ Free({t}) /\ stream' = stream \ {t} /\ closed' = TRUE
    /\ UNCHANGED <<pc, on, ts, streamOn, garbage>>

\* A transfer fails or the context of the read ends: all of them are cancelled,
\* waited for and freed, one by one.
StreamFails ==
    /\ pc = "idle" /\ stream # {}
    /\ Call(streamOn, "flush")
    /\ closed' = TRUE
    /\ UNCHANGED <<xferVars, ts, stream, streamOn, garbage>>

FlushNext(t) ==
    /\ pc = "flush" /\ ts = {} /\ t \in stream
    /\ Cancel(t)
    /\ ts' = {t} /\ stream' = stream \ {t}
    /\ UNCHANGED <<pc, on, streamOn, closed, garbage>>

FlushFree ==
    /\ pc = "flush" /\ ts # {}
    /\ \A t \in ts : ~InFlight(t)
    /\ Free(ts)
    /\ ts' = {}
    /\ UNCHANGED <<pc, on, streamVars, garbage>>

Flushed ==
    /\ pc = "flush" /\ ts = {} /\ stream = {}
    /\ Return
    /\ UNCHANGED <<xferVars, ts, streamVars, garbage>>

StreamClose ==
    /\ pc = "idle" /\ streamOn # None
    /\ closed' = TRUE
    /\ UNCHANGED <<pc, on, xferVars, ts, stream, streamOn, garbage>>

\* The caller is done with the stream, though not all may be read.
StreamDrop ==
    /\ pc = "idle" /\ streamOn # None
    /\ garbage' = garbage \cup stream
    /\ stream' = {} /\ streamOn' = None /\ closed' = FALSE
    /\ UNCHANGED <<pc, on, xferVars, ts>>

Transfer ==
    /\ \/ EndpointCancel \/ EndpointReturns
       \/ \E o \in Objects : NewStream(o)
       \/ \E t \in Transfers :
            \/ \E o \in Objects : EndpointRead(o, t)
            \/ NewStreamAlloc(t) \/ StreamSubmit(t) \/ StreamRead(t) \/ FlushNext(t)
       \/ NewStreamFails \/ StreamReady \/ StreamSubmitted
       \/ StreamFails \/ FlushFree \/ Flushed \/ StreamClose \/ StreamDrop
    /\ UNCHANGED <<ctx, discovery, handle, refs, devices, held, list, objectVars, fin>>

-----------------------------------------------------------------------------
(* The finalizer of newUSBTransfer.  One goroutine runs all finalizers.       *)

\* Mutant: the finalizer does not cancel.
FinalizerCancelMissing(t) == UNCHANGED xferVars

FinalizerCancel(t) == Cancel(t)

Finalize(t) ==
    /\ fin = None /\ t \in garbage
    /\ FinalizerCancel(t)
    /\ fin' = t /\ garbage' = garbage \ {t}
    /\ UNCHANGED <<listVars, objectVars, on, ts, streamVars>>

\* t.wait(context.Background()); t.free()
Finalized ==
    /\ fin # None
    /\ ~InFlight(fin)
    /\ Free({fin})
    /\ fin' = None
    /\ UNCHANGED <<listVars, objectVars, on, ts, streamVars, garbage>>

-----------------------------------------------------------------------------
Next ==
    \/ OpenStep /\ UNCHANGED <<objectVars, xferVars, on, ts, streamVars, garbage, fin>>
    \/ Acquire \/ Close \/ Transfer \/ Finalized
    \/ \E t \in Transfers : Complete(t) \/ Finalize(t)

Spec == Init /\ [][Next]_vars

\* The finalizer goroutine goes on, and libusb finishes what it accepted to
\* cancel as long as it is asked to handle events and has the handle.
FairSpec ==
    /\ Spec
    /\ WF_vars(Finalized)
    /\ \A t \in Transfers : WF_vars(cancel[t] = "accepted" /\ Complete(t))
-----------------------------------------------------------------------------
(* Properties. *)

\* Whatever is open is in the hands of a caller who can close it, once the calls
\* in progress have returned, also where one of their steps failed: devices (with
\* the references of libusb), configs, interfaces and transfers.  The one exception
\* is the handle lost by OpenDeviceWithFileDescriptor, see DevicesAreHeld.
NothingIsLost ==
    /\ DevicesAreHeld
    /\ pc # "default" => config = heldCfg
    /\ intf = heldIntf
    /\ \A t \in Transfers \ (ts \cup stream \cup garbage \cup {fin}) : phase[t] = "none"

\* A transfer that a call or a stream waits for has the event loop running, its
\* handle open and its interface claimed, so the wait can end: no goroutine can
\* close a Config, a Device or the Context under it.
InFlightIsServed ==
    \A t \in ts \cup stream : InFlight(t) =>
        /\ Served(t)
        /\ Open(owner[t]) /\ owner[t] \in config \cap intf

\* The finalizer, which runs for every object of the program, waits for ever only
\* for a transfer dropped in flight whose Device or Context was closed since, or
\* which libusb refuses to cancel.
FinalizerEnds ==
    \A t \in Transfers : fin = t ~> fin # t \/ ~Served(t) \/ cancel[t] = "refused"
=============================================================================
