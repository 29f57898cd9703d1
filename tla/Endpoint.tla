------------------------------ MODULE Endpoint ------------------------------
(***************************************************************************)
(* endpoint.transfer (endpoint.go): Read and Write of an endpoint, each    *)
(* with a transfer of its own.  newUSBTransfer divides the buffer of an    *)
(* isochronous transfer into packets; gousb_compact_iso_data (transfer.c)  *)
(* closes the gaps that short packets leave, in place, packet by packet.   *)
(*                                                                         *)
(* A byte stands for its place in the data: the caller writes 1, 2, 3, ... *)
(* and so does the device.  Addresses in a buffer start at 0.              *)
(***************************************************************************)
EXTENDS Integers, Sequences

CONSTANTS
    MaxLen,         \* longest slice passed to Read or Write
    wMaxPacketSizes \* the values of that field of the endpoints' descriptors

ASSUME EndpointAssumption ==
    /\ MaxLen \in Nat
    /\ wMaxPacketSizes \subseteq Nat

VARIABLES
    pc,         \* where the call is
    desc,       \* e.Desc
    len,        \* len(buf), which is also xfer->length
    buf,        \* the caller's slice
    phase,      \* of the transfer: "none", "idle", "inflight" or "finished"
    size,       \* isoPktSize
    data,       \* xfer->buffer
    packets,    \* xfer->iso_packet_desc
    actual,     \* xfer->actual_length
    status,     \* xfer->status
    i,          \* locals of the compaction: the packet,
    in,         \*   where it starts,
    sum,        \*   and the bytes compacted, which is also where the next go
    ret         \* the results of the call

callVars == <<desc, len>>
xferVars == <<size, data, packets, actual, status>>
loopVars == <<i, in, sum>>
vars == <<pc, callVars, buf, phase, xferVars, loopVars, ret>>

Stale == 0  \* a byte that is not data
Statuses == {"completed", "error", "cancelled"}

\* endpointDesc: bits 0-10 are the size of a packet, bits 11-12 the number of
\* additional transactions of an isochronous endpoint in each microframe.
MaxPacketSize(iso, w) == IF iso THEN (w % 2048) * (((w \div 2048) % 4) + 1) ELSE w

Descs == {[iso |-> t, input |-> d, maxPacketSize |-> MaxPacketSize(t, w)] :
            t \in BOOLEAN, d \in BOOLEAN, w \in wMaxPacketSizes}

Packets == [actual : 0..MaxLen, status : Statuses]
Bytes == [0..len - 1 -> 0..MaxLen]

TypeOK ==
    /\ pc \in {"idle", "alloc", "submit", "wait", "compact", "return"}
    /\ desc \in Descs
    /\ len \in 0..MaxLen
    /\ buf \in Bytes
    /\ phase \in {"none", "idle", "inflight", "finished"}
    /\ size \in 0..len
    /\ IF phase = "none" THEN data = <<>> ELSE data \in Bytes
    /\ packets \in Seq(Packets)
    /\ actual \in 0..len
    /\ status \in Statuses
    /\ i \in 1..Len(packets) + 1
    /\ in \in 0..len
    /\ sum \in 0..len
    /\ ret \in [n : 0..len, err : Statuses \cup {"alloc", "submit"}]

Init ==
    /\ pc = "idle"
    /\ desc \in Descs
    /\ len = 0 /\ buf = <<>>
    /\ phase = "none"
    /\ size = 0 /\ data = <<>> /\ packets = <<>> /\ actual = 0 /\ status = "completed"
    /\ i = 1 /\ in = 0 /\ sum = 0
    /\ ret = [n |-> 0, err |-> "completed"]

\* The results are determined; the deferred free follows.
Result(n, e) ==
    /\ pc' = "return"
    /\ ret' = [n |-> n, err |-> e]

-----------------------------------------------------------------------------
(* newUSBTransfer *)

Call ==
    /\ pc = "idle"
    /\ desc' \in Descs
    /\ len' \in 0..MaxLen
    /\ buf' = [k \in 0..len' - 1 |-> IF desc'.input THEN Stale ELSE k + 1]
    /\ pc' = "alloc"
    /\ ret' = [n |-> 0, err |-> "completed"]
    /\ UNCHANGED <<phase, xferVars, loopVars>>

\* Mutant: the packets may be larger than the buffer.
PacketSizeUnlimited == desc.maxPacketSize

PacketSize == IF len < desc.maxPacketSize THEN len ELSE desc.maxPacketSize

\* Mutant: a last, incomplete packet is counted.
PacketCountRoundsUp ==
    IF PacketSize > 0 THEN (len + PacketSize - 1) \div PacketSize ELSE 1

\* Whole packets only; the rest of the buffer stays unused.
PacketCount == IF PacketSize > 0 THEN len \div PacketSize ELSE 1

\* The memory is that of malloc; the data to write is copied into it.
Alloc ==
    /\ pc = "alloc"
    /\ pc' = "submit"
    /\ phase' = "idle"
    /\ size' = IF desc.iso THEN PacketSize ELSE 0
    /\ packets' = [p \in 1..(IF desc.iso THEN PacketCount ELSE 0) |->
                        [actual |-> 0, status |-> "completed"]]
    /\ data' = [k \in 0..len - 1 |-> IF desc.input THEN Stale ELSE buf[k]]
    /\ UNCHANGED <<callVars, buf, actual, status, loopVars, ret>>

\* newUSBTransfer returns the error, before there is anything to free.
AllocFails ==
    /\ pc = "alloc"
    /\ pc' = "idle"
    /\ ret' = [n |-> 0, err |-> "alloc"]
    /\ UNCHANGED <<callVars, buf, phase, xferVars, loopVars>>

-----------------------------------------------------------------------------
(* submit and wait, as Transfer implements them *)

Submit ==
    /\ pc = "submit"
    /\ phase' = "inflight"
    /\ pc' = "wait"
    /\ UNCHANGED <<callVars, buf, xferVars, loopVars, ret>>

SubmitFails ==
    /\ pc = "submit"
    /\ Result(0, "submit")
    /\ UNCHANGED <<callVars, buf, phase, xferVars, loopVars>>

\* The bytes in the packets before each of the packets ps.
Before(ps) ==
    LET sumTo[p \in 1..Len(ps) + 1] ==
            IF p = 1 THEN 0 ELSE sumTo[p - 1] + ps[p - 1].actual
    IN  sumTo

\* What the device sends, in the place libusb puts it: bulk data at the start
\* of the buffer, the data of an isochronous packet at the start of the packet.
Received(ps, n) ==
    [k \in 0..len - 1 |->
        IF ~desc.iso THEN IF k < n THEN k + 1 ELSE data[k]
        ELSE IF size = 0 \/ k >= size * Len(ps) THEN data[k]
        ELSE LET p == k \div size + 1
             IN  IF k % size < ps[p].actual THEN Before(ps)[p] + (k % size) + 1 ELSE data[k]]

\* libusb finishes the transfer, all of it or, if it is cancelled or fails, some.
Finish ==
    /\ phase = "inflight"
    /\ phase' = "finished"
    /\ status' \in Statuses
    /\ actual' \in 0..(IF desc.iso THEN 0 ELSE len)
    /\ packets' \in [1..Len(packets) -> [actual : 0..size, status : Statuses]]
    /\ data' = IF desc.input THEN Received(packets', actual') ELSE data
    /\ UNCHANGED <<pc, callVars, buf, size, loopVars, ret>>

\* Mutant: what a failed bulk transfer has moved is not counted.
WaitDataForgets ==
    /\ pc = "wait"
    /\ phase = "finished"
    /\ ~desc.iso
    /\ Result(IF status = "completed" THEN actual ELSE 0, status)
    /\ UNCHANGED <<callVars, buf, phase, xferVars, loopVars>>

\* wait returns, with the result of data.
WaitData ==
    /\ pc = "wait"
    /\ phase = "finished"
    /\ ~desc.iso
    /\ Result(actual, status)
    /\ UNCHANGED <<callVars, buf, phase, xferVars, loopVars>>

-----------------------------------------------------------------------------
(* gousb_compact_iso_data *)

\* The status of the transfer is not looked at.
CompactStart ==
    /\ pc = "wait"
    /\ phase = "finished"
    /\ desc.iso
    /\ pc' = "compact"
    /\ i' = 1 /\ in' = 0 /\ sum' = 0
    /\ UNCHANGED <<callVars, buf, phase, xferVars, ret>>

\* memmove
Moved(from, to, n) ==
    [k \in DOMAIN data |-> IF to <= k /\ k < to + n THEN data[from + k - to] ELSE data[k]]

\* Mutants: the status of the packet is not looked at; the next packet is looked
\* for behind the data of this one.
PacketOKAlways == TRUE
PacketOK == packets[i].status = "completed"

NextStartByData == in + packets[i].actual
NextStart == in + size

CompactPacket ==
    /\ pc = "compact" /\ i <= Len(packets)
    /\ PacketOK
    /\ data' = Moved(in, sum, packets[i].actual)
    /\ sum' = sum + packets[i].actual
    /\ in' = NextStart
    /\ i' = i + 1
    /\ UNCHANGED <<pc, callVars, buf, phase, size, packets, actual, status, ret>>

\* The first packet that failed ends the data.
CompactStops ==
    /\ pc = "compact" /\ i <= Len(packets)
    /\ ~PacketOK
    /\ Result(sum, packets[i].status)
    /\ UNCHANGED <<callVars, buf, phase, xferVars, loopVars>>

CompactEnds ==
    /\ pc = "compact" /\ i = Len(packets) + 1
    /\ Result(sum, "completed")
    /\ UNCHANGED <<callVars, buf, phase, xferVars, loopVars>>

-----------------------------------------------------------------------------
\* endpoint.transfer ends: after a wait the whole buffer is copied back, and the
\* transfer is freed.
FinishCall ==
    /\ pc = "return"
    /\ buf' = IF desc.input /\ phase = "finished" THEN data ELSE buf
    /\ pc' = "idle"
    /\ phase' = "none"
    /\ size' = 0 /\ data' = <<>> /\ packets' = <<>>
    /\ actual' = 0 /\ status' = "completed"
    /\ i' = 1 /\ in' = 0 /\ sum' = 0
    /\ UNCHANGED <<callVars, ret>>

Next ==
    \/ Call \/ Alloc \/ AllocFails \/ Submit \/ SubmitFails \/ Finish \/ WaitData
    \/ CompactStart \/ CompactPacket \/ CompactStops \/ CompactEnds \/ FinishCall

Spec == Init /\ [][Next]_vars
-----------------------------------------------------------------------------
(* Properties. *)

\* The n bytes that a read returns are the first n that the device sent, without
\* the gaps between packets, though they are moved within one buffer.
ReadHasNoGaps ==
    pc = "idle" /\ desc.input => \A k \in 0..ret.n - 1 : buf[k] = k + 1

\* The compaction reads and writes in the buffer, and only places it has read.
MovesInBuffer ==
    pc = "compact" /\ i <= Len(packets) => sum <= in /\ in + size <= len

Failures(ps) == {p \in 1..Len(ps) : ps[p].status # "completed"}

\* The first packet that failed, or the place behind the last one if none did.
FirstFailure(ps) ==
    IF Failures(ps) = {} THEN Len(ps) + 1
    ELSE CHOOSE p \in Failures(ps) : \A q \in Failures(ps) : p <= q

\* A bulk transfer reports all bytes that were moved, and how the transfer ended.
CountsAllOfBulk ==
    pc = "return" /\ phase = "finished" /\ ~desc.iso => ret = [n |-> actual, err |-> status]

\* An isochronous transfer reports the bytes up to the first packet that failed, and
\* how that one failed.  What it reports when the transfer was not completed and yet no
\* packet failed is the question of CancelledIsReported.
CountsToFirstFailure ==
    pc = "return" /\ phase = "finished" /\ desc.iso =>
        /\ ret.n = Before(packets)[FirstFailure(packets)]
        /\ Failures(packets) # {} => ret.err = packets[FirstFailure(packets)].status
        /\ Failures(packets) = {} /\ status = "completed" => ret.err = "completed"

\* The bytes a call returns are those the device sent, without gaps; their number is
\* that of the bytes moved (bulk), or of those before the first packet that failed
\* (isochronous); and the error is that of the transfer or of that packet.
ResultIsExact == ReadHasNoGaps /\ CountsAllOfBulk /\ CountsToFirstFailure

\* A transfer that was cancelled does not end as a success: "the context is cancelled
\* ... resulting in TransferCancelled error" (endpoint.go:138 and 168).  It does when
\* it is isochronous and no packet has an error, for its own status is dropped.
CancelledIsReported ==
    pc = "return" /\ phase = "finished" /\ status = "cancelled" => ret.err # "completed"
=============================================================================
