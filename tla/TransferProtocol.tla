-------------------------- MODULE TransferProtocol --------------------------
(***************************************************************************)
(* What usbTransfer promises to the streams and to endpoint.transfer: the  *)
(* ownership protocol of the comments on submit, wait and free.  A         *)
(* transfer is in flight from submit until libusb finishes it, its buffer  *)
(* may be used again only after wait has collected the result, and its     *)
(* memory, shared with no other transfer, is released only while libusb    *)
(* does not use it.                                                        *)
(***************************************************************************)
CONSTANTS Transfers, Ptrs, NULL

VARIABLES
    phase,  \* where each transfer is in its life
    mem     \* the C memory each transfer owns, or NULL

vars == <<phase, mem>>

Init ==
    /\ phase = [t \in Transfers |-> "unborn"]
    /\ mem = [t \in Transfers |-> NULL]

\* A transfer moves from one phase to the next.
Advance(t, from, to) ==
    /\ phase[t] = from
    /\ phase' = [phase EXCEPT ![t] = to]

Create(t, p) ==
    /\ \A s \in Transfers : mem[s] # p
    /\ Advance(t, "unborn", "idle")
    /\ mem' = [mem EXCEPT ![t] = p]

Submit(t)  == Advance(t, "idle", "inflight")     /\ UNCHANGED mem
Finish(t)  == Advance(t, "inflight", "finished") /\ UNCHANGED mem
Collect(t) == Advance(t, "finished", "idle")     /\ UNCHANGED mem

Free(t) ==
    /\ Advance(t, "idle", "freed")
    /\ mem' = [mem EXCEPT ![t] = NULL]

Next == \E t \in Transfers :
    \/ \E p \in Ptrs : Create(t, p)
    \/ Submit(t)
    \/ Finish(t)
    \/ Collect(t)
    \/ Free(t)

Spec == Init /\ [][Next]_vars
=============================================================================
