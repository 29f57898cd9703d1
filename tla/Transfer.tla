------------------------------ MODULE Transfer ------------------------------
(***************************************************************************)
(* usbTransfer (transfer.go): a libusb transfer whose completion is        *)
(* signalled through a Go channel.                                         *)
(*                                                                         *)
(* Three parties touch a transfer.  Goroutines call submit, wait, cancel   *)
(* and free under the transfer's mutex.  libusb (external) owns the C      *)
(* struct while it is in flight.  The event loop (handleEvents) runs       *)
(* xferCallback for every finished transfer: the callback looks the C      *)
(* pointer up in the global xferDoneMap and sends one token on the channel *)
(* it finds.  C pointers come from malloc and are reused after free.       *)
(*                                                                         *)
(* A step is what one goroutine does between two points where another      *)
(* party can interfere: taking the mutex, a C call, a channel receive, or  *)
(* an access to xferDoneMap under its own lock.                            *)
(***************************************************************************)
EXTENDS Integers

CONSTANTS
    Goroutines,     \* goroutines calling methods of usbTransfer
    Transfers,      \* usbTransfer objects; an object's done channel has its name
    Ptrs,           \* addresses malloc can return for a libusb_transfer
    CancelMayFail,  \* TRUE: libusb_cancel_transfer may refuse a pending transfer
    NULL            \* Go's nil, for pointers and channels

ASSUME TransferAssumption ==
    /\ NULL \notin Goroutines \cup Transfers \cup Ptrs
    /\ CancelMayFail \in BOOLEAN

VARIABLES
    mu,         \* mu[t]: the goroutine that holds t.mu, or NULL
    created,    \* transfers returned by newUSBTransfer so far
    xfer,       \* t.xfer
    submitted,  \* t.submitted
    done,       \* tokens in the channel t.done, of capacity 1
    xferDoneMap,\* xferDoneMap.m: C pointer -> done channel, NULL if absent
    heap,       \* C pointers malloc'ed and not yet freed
    lib,        \* libusb: "idle", "inflight" or "cancelling" for each pointer
    status,     \* the C field xfer->status
    loop,       \* event loop: "poll", "lookup" or "send"
    cbXfer,     \* the argument of the running xferCallback
    cbChan,     \* the local ch of the running xferCallback
    pc,         \* where each goroutine is
    target,     \* the transfer each goroutine is working on
    ptr         \* the pointer returned by the C allocation in newUSBTransfer

cVars == <<heap, lib, status>>
loopVars == <<loop, cbXfer, cbChan>>
callVars == <<pc, target, ptr>>
vars == <<mu, created, xfer, submitted, done, xferDoneMap,
          cVars, loopVars, callVars>>

\* xfer->status is -1 ("pending") from submit until libusb finishes the transfer.
Final == {"completed", "cancelled", "error"}

Labels == {"idle", "register", "submit", "submitted", "wait", "wait_bg",
           "drain", "collect", "cancel", "free", "unregister",
           "release", "clear"}

TypeOK ==
    /\ mu \in [Transfers -> Goroutines \cup {NULL}]
    /\ created \subseteq Transfers
    /\ xfer \in [Transfers -> Ptrs \cup {NULL}]
    /\ submitted \in [Transfers -> BOOLEAN]
    /\ done \in [Transfers -> {0, 1}]
    /\ xferDoneMap \in [Ptrs -> Transfers \cup {NULL}]
    /\ heap \subseteq Ptrs
    /\ lib \in [Ptrs -> {"idle", "inflight", "cancelling"}]
    /\ status \in [Ptrs -> Final \cup {"pending"}]
    /\ loop \in {"poll", "lookup", "send"}
    /\ cbXfer \in Ptrs \cup {NULL}
    /\ cbChan \in Transfers \cup {NULL}
    /\ pc \in [Goroutines -> Labels]
    /\ target \in [Goroutines -> Transfers \cup {NULL}]
    /\ ptr \in [Goroutines -> Ptrs \cup {NULL}]

Init ==
    /\ mu = [t \in Transfers |-> NULL]
    /\ created = {}
    /\ xfer = [t \in Transfers |-> NULL]
    /\ submitted = [t \in Transfers |-> FALSE]
    /\ done = [t \in Transfers |-> 0]
    /\ xferDoneMap = [p \in Ptrs |-> NULL]
    /\ heap = {}
    /\ lib = [p \in Ptrs |-> "idle"]
    /\ status = [p \in Ptrs |-> "pending"]
    /\ loop = "poll"
    /\ cbXfer = NULL
    /\ cbChan = NULL
    /\ pc = [g \in Goroutines |-> "idle"]
    /\ target = [g \in Goroutines |-> NULL]
    /\ ptr = [g \in Goroutines |-> NULL]

-----------------------------------------------------------------------------
(* t.mu and the flow of a method call. *)

Lock(g, t, label) ==
    /\ pc[g] = "idle"
    /\ t \in created
    /\ mu[t] = NULL
    /\ mu' = [mu EXCEPT ![t] = g]
    /\ pc' = [pc EXCEPT ![g] = label]
    /\ target' = [target EXCEPT ![g] = t]
    /\ UNCHANGED ptr

At(g, label) == pc[g] = label

Goto(g, label) ==
    /\ pc' = [pc EXCEPT ![g] = label]
    /\ UNCHANGED <<mu, target, ptr>>

\* The deferred t.mu.Unlock() and the return of the method.
Return(g) ==
    /\ mu' = [mu EXCEPT ![target[g]] = NULL]
    /\ pc' = [pc EXCEPT ![g] = "idle"]
    /\ target' = [target EXCEPT ![g] = NULL]
    /\ UNCHANGED ptr

-----------------------------------------------------------------------------
(* newUSBTransfer: allocate in C, register the channel, build the object.  *)

\* gousb_alloc_transfer_and_buffer: malloc returns any address not in use.  Left out:
\* a length beyond C's int, for which alloc gives an error and does not free what it
\* has allocated (libusb.go:478-480); no transfer is made then.
Alloc(g, t, p) ==
    /\ At(g, "idle")
    /\ t \notin created
    /\ \A h \in Goroutines : target[h] # t
    /\ p \notin heap
    /\ heap' = heap \cup {p}
    /\ status' = [status EXCEPT ![p] = "pending"]
    /\ pc' = [pc EXCEPT ![g] = "register"]
    /\ target' = [target EXCEPT ![g] = t]
    /\ ptr' = [ptr EXCEPT ![g] = p]
    /\ UNCHANGED <<mu, created, xfer, submitted, done, xferDoneMap, lib, loopVars>>

\* xferDoneMap.m[ret] = done, then the usbTransfer that is returned.
Register(g) ==
    /\ At(g, "register")
    /\ xferDoneMap' = [xferDoneMap EXCEPT ![ptr[g]] = target[g]]
    /\ xfer' = [xfer EXCEPT ![target[g]] = ptr[g]]
    /\ created' = created \cup {target[g]}
    /\ pc' = [pc EXCEPT ![g] = "idle"]
    /\ target' = [target EXCEPT ![g] = NULL]
    /\ ptr' = [ptr EXCEPT ![g] = NULL]
    /\ UNCHANGED <<mu, submitted, done, cVars, loopVars>>

-----------------------------------------------------------------------------
(* submit *)

\* Callers never submit a transfer they have freed: the streams and
\* endpoint.transfer drop their reference at free().
SubmitLock(g, t) ==
    /\ xfer[t] # NULL
    /\ Lock(g, t, "submit")
    /\ UNCHANGED <<created, xfer, submitted, done, xferDoneMap, cVars, loopVars>>

\* "transfer was already submitted and is not finished yet"
SubmitRefused(g) ==
    /\ At(g, "submit")
    /\ submitted[target[g]]
    /\ Return(g)
    /\ UNCHANGED <<created, xfer, submitted, done, xferDoneMap, cVars, loopVars>>

\* Mutant: the check of t.submitted is missing.
SubmitCallUnchecked(g) ==
    LET p == xfer[target[g]] IN
    /\ At(g, "submit")
    /\ lib' = [lib EXCEPT ![p] = "inflight"]
    /\ status' = [status EXCEPT ![p] = "pending"]
    /\ Goto(g, "submitted")
    /\ UNCHANGED <<created, xfer, submitted, done, xferDoneMap, heap, loopVars>>

\* libusb_submit_transfer accepts: from here on libusb owns the transfer and
\* may finish it before submit() has recorded the submission.
SubmitCall(g) ==
    LET p == xfer[target[g]] IN
    /\ At(g, "submit")
    /\ ~submitted[target[g]]
    /\ lib' = [lib EXCEPT ![p] = "inflight"]
    /\ status' = [status EXCEPT ![p] = "pending"]
    /\ Goto(g, "submitted")
    /\ UNCHANGED <<created, xfer, submitted, done, xferDoneMap, heap, loopVars>>

\* libusb_submit_transfer returns an error.
SubmitFails(g) ==
    LET p == xfer[target[g]] IN
    /\ At(g, "submit")
    /\ ~submitted[target[g]]
    /\ status' = [status EXCEPT ![p] = "pending"]
    /\ Return(g)
    /\ UNCHANGED <<created, xfer, submitted, done, xferDoneMap, heap, lib, loopVars>>

\* Mutant: t.submitted = true is missing.
SubmitReturnForgets(g) ==
    /\ At(g, "submitted")
    /\ Return(g)
    /\ UNCHANGED <<created, xfer, submitted, done, xferDoneMap, cVars, loopVars>>

SubmitReturn(g) ==
    /\ At(g, "submitted")
    /\ submitted' = [submitted EXCEPT ![target[g]] = TRUE]
    /\ Return(g)
    /\ UNCHANGED <<created, xfer, done, xferDoneMap, cVars, loopVars>>

-----------------------------------------------------------------------------
(* libusb_cancel_transfer, called by wait and by cancel.  A transfer that   *)
(* is not in flight is left alone (ErrorNotFound).                          *)
LibCancel(p) ==
    \/ /\ lib[p] = "inflight"
       /\ lib' = [lib EXCEPT ![p] = "cancelling"]
    \/ /\ lib[p] # "inflight" \/ CancelMayFail
       /\ UNCHANGED lib

(* wait: the mutex is held from the first check to the return.  A context  *)
(* that is never done is context.Background() ("wait_bg").                 *)

WaitLock(g, t) ==
    /\ \E label \in {"wait", "wait_bg"} : Lock(g, t, label)
    /\ UNCHANGED <<created, xfer, submitted, done, xferDoneMap, cVars, loopVars>>

\* if !t.submitted { return 0, nil }
WaitIdle(g) ==
    /\ pc[g] \in {"wait", "wait_bg"}
    /\ ~submitted[target[g]]
    /\ Return(g)
    /\ UNCHANGED <<created, xfer, submitted, done, xferDoneMap, cVars, loopVars>>

\* case <-t.done
WaitDone(g) ==
    /\ pc[g] \in {"wait", "wait_bg"}
    /\ submitted[target[g]]
    /\ done[target[g]] = 1
    /\ done' = [done EXCEPT ![target[g]] = 0]
    /\ Goto(g, "collect")
    /\ UNCHANGED <<created, xfer, submitted, xferDoneMap, cVars, loopVars>>

\* Mutant: wait returns after the cancellation without receiving from t.done.
WaitCtxDoneNoDrain(g) ==
    /\ At(g, "wait")
    /\ submitted[target[g]]
    /\ LibCancel(xfer[target[g]])
    /\ Goto(g, "collect")
    /\ UNCHANGED <<created, xfer, submitted, done, xferDoneMap, heap, status, loopVars>>

\* case <-ctx.Done(): select takes it whether or not t.done is ready too.
WaitCtxDone(g) ==
    /\ At(g, "wait")
    /\ submitted[target[g]]
    /\ LibCancel(xfer[target[g]])
    /\ Goto(g, "drain")
    /\ UNCHANGED <<created, xfer, submitted, done, xferDoneMap, heap, status, loopVars>>

\* Mutant: a receive that does not block.
WaitDrainedNonBlocking(g) ==
    /\ At(g, "drain")
    /\ done' = [done EXCEPT ![target[g]] = @ - 1]
    /\ Goto(g, "collect")
    /\ UNCHANGED <<created, xfer, submitted, xferDoneMap, cVars, loopVars>>

\* <-t.done after the cancellation
WaitDrained(g) ==
    /\ At(g, "drain")
    /\ done[target[g]] = 1
    /\ done' = [done EXCEPT ![target[g]] = 0]
    /\ Goto(g, "collect")
    /\ UNCHANGED <<created, xfer, submitted, xferDoneMap, cVars, loopVars>>

\* t.submitted = false, then libusb.data reads status and length.
WaitCollect(g) ==
    /\ At(g, "collect")
    /\ submitted' = [submitted EXCEPT ![target[g]] = FALSE]
    /\ Return(g)
    /\ UNCHANGED <<created, xfer, done, xferDoneMap, cVars, loopVars>>

-----------------------------------------------------------------------------
(* cancel *)

CancelLock(g, t) ==
    /\ Lock(g, t, "cancel")
    /\ UNCHANGED <<created, xfer, submitted, done, xferDoneMap, cVars, loopVars>>

CancelReturn(g) ==
    /\ At(g, "cancel")
    /\ IF submitted[target[g]] THEN LibCancel(xfer[target[g]]) ELSE UNCHANGED lib
    /\ Return(g)
    /\ UNCHANGED <<created, xfer, submitted, done, xferDoneMap, heap, status, loopVars>>

-----------------------------------------------------------------------------
(* free                                                                    *)

FreeLock(g, t) ==
    /\ Lock(g, t, "free")
    /\ UNCHANGED <<created, xfer, submitted, done, xferDoneMap, cVars, loopVars>>

\* Refused on a submitted transfer, and nothing to do on a freed one.
FreeRefused(g) ==
    /\ At(g, "free")
    /\ submitted[target[g]] \/ xfer[target[g]] = NULL
    /\ Return(g)
    /\ UNCHANGED <<created, xfer, submitted, done, xferDoneMap, cVars, loopVars>>

\* Mutant: the check of t.submitted is missing.
FreeStartUnchecked(g) ==
    /\ At(g, "free")
    /\ xfer[target[g]] # NULL
    /\ Goto(g, "unregister")
    /\ UNCHANGED <<created, xfer, submitted, done, xferDoneMap, cVars, loopVars>>

FreeStart(g) ==
    /\ At(g, "free")
    /\ ~submitted[target[g]]
    /\ xfer[target[g]] # NULL
    /\ Goto(g, "unregister")
    /\ UNCHANGED <<created, xfer, submitted, done, xferDoneMap, cVars, loopVars>>

\* Mutant: C.gousb_free_transfer before the entry of xferDoneMap is deleted.
LibFreeSwapped(g) ==
    LET p == xfer[target[g]] IN
    \/ /\ At(g, "unregister")
       /\ heap' = heap \ {p}
       /\ Goto(g, "release")
       /\ UNCHANGED <<created, xfer, submitted, done, xferDoneMap, lib, status, loopVars>>
    \/ /\ At(g, "release")
       /\ xferDoneMap' = [xferDoneMap EXCEPT ![p] = NULL]
       /\ Goto(g, "clear")
       /\ UNCHANGED <<created, xfer, submitted, done, cVars, loopVars>>

\* libusbImpl.free removes the map entry, then frees the C memory, whose
\* address malloc may give to another transfer at once.
LibFree(g) ==
    LET p == xfer[target[g]] IN
    \/ /\ At(g, "unregister")
       /\ xferDoneMap' = [xferDoneMap EXCEPT ![p] = NULL]
       /\ Goto(g, "release")
       /\ UNCHANGED <<created, xfer, submitted, done, cVars, loopVars>>
    \/ /\ At(g, "release")
       /\ heap' = heap \ {p}
       /\ Goto(g, "clear")
       /\ UNCHANGED <<created, xfer, submitted, done, xferDoneMap, lib, status, loopVars>>

\* t.xfer = nil; until then t.xfer dangles, hidden by t.mu.
FreeClear(g) ==
    /\ At(g, "clear")
    /\ xfer' = [xfer EXCEPT ![target[g]] = NULL]
    /\ Return(g)
    /\ UNCHANGED <<created, submitted, done, xferDoneMap, cVars, loopVars>>

-----------------------------------------------------------------------------
(* The event loop and libusb. *)

\* libusb finishes a transfer of its own accord or because it was cancelled
\* (a cancelled transfer may still complete), and calls its callback.
Complete(p) ==
    /\ loop = "poll"
    /\ lib[p] # "idle"
    /\ \E st \in Final :
         /\ st = "cancelled" => lib[p] = "cancelling"
         /\ status' = [status EXCEPT ![p] = st]
    /\ lib' = [lib EXCEPT ![p] = "idle"]
    /\ loop' = "lookup"
    /\ cbXfer' = p
    /\ UNCHANGED <<mu, created, xfer, submitted, done, xferDoneMap, heap, cbChan, callVars>>

\* xferCallback: ch := xferDoneMap.m[xfer] under the read lock
CallbackLookup ==
    /\ loop = "lookup"
    /\ cbChan' = xferDoneMap[cbXfer]
    /\ loop' = "send"
    /\ UNCHANGED <<mu, created, xfer, submitted, done, xferDoneMap, cVars, cbXfer, callVars>>

\* xferCallback: ch <- struct{}{} blocks on a nil channel and on a full one.
CallbackSend ==
    /\ loop = "send"
    /\ cbChan # NULL
    /\ done[cbChan] = 0
    /\ done' = [done EXCEPT ![cbChan] = 1]
    /\ loop' = "poll"
    /\ cbXfer' = NULL
    /\ cbChan' = NULL
    /\ UNCHANGED <<mu, created, xfer, submitted, xferDoneMap, cVars, callVars>>

-----------------------------------------------------------------------------
Begin(g) ==
    \/ \E t \in Transfers, p \in Ptrs : Alloc(g, t, p)
    \/ \E t \in Transfers :
         SubmitLock(g, t) \/ WaitLock(g, t) \/ CancelLock(g, t) \/ FreeLock(g, t)

Step(g) ==
    \/ Register(g)
    \/ SubmitRefused(g) \/ SubmitCall(g) \/ SubmitFails(g) \/ SubmitReturn(g)
    \/ WaitIdle(g) \/ WaitDone(g) \/ WaitDrained(g) \/ WaitCollect(g)
    \/ CancelReturn(g)
    \/ FreeRefused(g) \/ FreeStart(g) \/ LibFree(g) \/ FreeClear(g)

Next ==
    \/ \E g \in Goroutines : Begin(g) \/ Step(g) \/ WaitCtxDone(g)
    \/ \E p \in Ptrs : Complete(p)
    \/ CallbackLookup
    \/ CallbackSend

Spec == Init /\ [][Next]_vars

\* A goroutine inside a method keeps running, the event loop keeps turning,
\* and libusb finishes a transfer it accepted to cancel.  Nothing obliges a
\* caller to call, a context to end, or a device to answer.
Fairness ==
    /\ \A g \in Goroutines : WF_vars(Step(g))
    /\ WF_vars(CallbackLookup)
    /\ WF_vars(CallbackSend)
    /\ \A p \in Ptrs : SF_vars(lib[p] = "cancelling" /\ Complete(p))

FairSpec == Spec /\ Fairness
-----------------------------------------------------------------------------
(* Properties. *)

\* The goroutine that holds t.mu is at a label.
HolderAt(t, label) == mu[t] # NULL /\ pc[mu[t]] = label

\* t has been handed to libusb and the result is not collected yet.
Outstanding(t) == submitted[t] \/ HolderAt(t, "submitted")

\* The C memory that is t's: t.xfer until free() has given it back.
Mem(t) == IF HolderAt(t, "clear") THEN NULL ELSE xfer[t]

InFlight(t)   == Mem(t) # NULL /\ lib[Mem(t)] # "idle"
InCallback(t) == Mem(t) # NULL /\ loop # "poll" /\ cbXfer = Mem(t)
Signalled(t)  == done[t] = 1
Collecting(t) == HolderAt(t, "collect")

\* The event loop serves every transfer of the process, so it must never
\* block: when xferCallback sends, it has found the channel of the very
\* transfer that finished, and that channel has room (libusb.go, xferCallback;
\* the buffer of 1 in newUSBTransfer and the order in libusbImpl.free).
CompletionReachesItsWaiter ==
    loop = "send" =>
        /\ cbChan # NULL
        /\ done[cbChan] = 0
        /\ Mem(cbChan) = cbXfer

\* Memory that libusb is using is allocated, and belongs to exactly one
\* usbTransfer, whose channel is the one registered for it: free() of one
\* transfer cannot pull the memory from under another, even though malloc
\* hands out the same address again.
InFlightMemoryIsOwned ==
    \A p \in Ptrs : lib[p] # "idle" =>
        /\ p \in heap
        /\ \E t \in Transfers : Mem(t) = p /\ xferDoneMap[p] = t /\ Outstanding(t)
        /\ \A s, t \in Transfers : Mem(s) = p /\ Mem(t) = p => s = t

\* A submission gives exactly one signal: between submit and the end of wait
\* a transfer is in flight, or in the callback, or signalled, or being
\* collected, and only one of these; otherwise it is none of them.
OneSignalPerSubmission ==
    \A t \in Transfers :
        /\ Outstanding(t) <=>
             InFlight(t) \/ InCallback(t) \/ Signalled(t) \/ Collecting(t)
        /\ InFlight(t) => ~InCallback(t) /\ ~Signalled(t) /\ ~Collecting(t)
        /\ InCallback(t) => ~Signalled(t) /\ ~Collecting(t)
        /\ Signalled(t) => ~Collecting(t)

\* wait() reads the status and the buffer of a transfer libusb has finished
\* with, never of one it is still using ("After wait returns, the transfer
\* contents are safe to access").
CollectSeesFinalStatus ==
    \A g \in Goroutines : At(g, "collect") =>
        LET p == xfer[target[g]] IN
        /\ p \in heap
        /\ lib[p] = "idle"
        /\ status[p] \in Final

\* usbTransfer implements the ownership protocol its users rely on.
PhaseOf(t) ==
    IF t \notin created THEN "unborn"
    ELSE IF Mem(t) = NULL THEN "freed"
    ELSE IF InFlight(t) THEN "inflight"
    ELSE IF Outstanding(t) THEN "finished"
    ELSE "idle"

Protocol == INSTANCE TransferProtocol
    WITH phase <- [t \in Transfers |-> PhaseOf(t)], mem <- [t \in Transfers |-> Mem(t)]

ImplementsProtocol == Protocol!Spec

\* A wait on a transfer that libusb has finished, or has accepted to cancel,
\* returns: "after the transfer is cancelled, it will run a callback that triggers
\* the activation of t.done".  When libusb refuses to cancel, it is up to the device.
WaitReturns ==
    \A g \in Goroutines :
        /\ pc[g] \in {"wait", "wait_bg", "drain"}
        /\ InFlight(target[g]) => lib[xfer[target[g]]] = "cancelling"
        ~> At(g, "idle")
=============================================================================
