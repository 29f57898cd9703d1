------------------------------- MODULE Stream -------------------------------
(***************************************************************************)
(* stream (transfer_stream.go): the fifo of transfers that ReadStream and  *)
(* WriteStream share, and the transfers as a stream sees them through      *)
(* transferIntf.  One goroutine uses a stream at a time (the methods may   *)
(* not be called concurrently); the device finishes transfers meanwhile,   *)
(* in any order.                                                           *)
(*                                                                         *)
(* A step of a method ends with the transferIntf call it makes.  The       *)
(* methods of a transfer do what Transfer implements: see UsesProtocol.    *)
(***************************************************************************)
EXTENDS Integers, Sequences

CONSTANTS
    Count,      \* transfers of the stream, allocated by newStream
    BufSize,    \* bytes in the buffer of a transfer
    MaxSubmits  \* bound: later submissions fail

\* newStream does not check count and size (endpoint_stream.go:17): that they are
\* positive is the callers' contract.  Reads and writes of a stream without transfers
\* block for ever, and with buffers of no bytes a Write submits them for ever.
ASSUME StreamAssumption ==
    /\ Count \in Nat \ {0}
    /\ BufSize \in Nat \ {0}
    /\ MaxSubmits \in Nat

Transfers == 1..Count
None == 0   \* no transfer

VARIABLES
    phase,      \* phase[t]: "idle", "inflight", "finished" or "freed"
    cancel,     \* cancel[t]: libusb's answer when it was asked to cancel t in flight
    result,     \* result[t]: what libusb reported for the last submission
    number,     \* number[t]: which submission of the stream t's last one is
    submits,    \* submissions of the stream so far
    queue,      \* the contents of the channel s.transfers, of capacity Count
    finished,   \* s.finished: s.transfers is closed
    isNil,      \* s.transfers is nil: the stream is over
    err,        \* s.err
    pc,         \* where the goroutine is
    cur,        \* its local t, or None
    ctxDone,    \* the context of the running method has ended
    ret         \* what the last method call returned: bytes and error

transferVars == <<phase, cancel, result, number, submits>>
streamVars == <<queue, finished, isNil, err>>
callVars == <<pc, cur, ctxDone, ret>>

Errors == {"nil", "EOF", "submit", "transfer", "ErrClosedPipe"}
Answers == {"none", "accepted", "refused"}
Results == [n : 0..BufSize, err : {"nil", "transfer"}]
NoResult == [n |-> 0, err |-> "nil"]

StreamTypeOK ==
    /\ phase \in [Transfers -> {"idle", "inflight", "finished", "freed"}]
    /\ cancel \in [Transfers -> Answers]
    /\ result \in [Transfers -> Results]
    /\ number \in [Transfers -> 0..MaxSubmits]
    /\ submits \in 0..MaxSubmits
    /\ queue \in Seq(Transfers) /\ Len(queue) <= Count
    /\ finished \in BOOLEAN
    /\ isNil \in BOOLEAN
    /\ err \in Errors \ {"ErrClosedPipe"}
    /\ cur \in Transfers \cup {None}
    /\ ctxDone \in BOOLEAN
    /\ ret.n \in Int /\ ret.err \in Errors

\* The transfers as newStream hands them over, and a stream yet unused.
StreamInit ==
    /\ phase = [t \in Transfers |-> "idle"]
    /\ cancel = [t \in Transfers |-> "none"]
    /\ result = [t \in Transfers |-> NoResult]
    /\ number = [t \in Transfers |-> 0]
    /\ submits = 0
    /\ finished = FALSE
    /\ isNil = FALSE
    /\ err = "nil"
    /\ cur = None
    /\ ctxDone = FALSE
    /\ ret = NoResult

-----------------------------------------------------------------------------
(* The goroutine. *)

\* It goes on to the next call, with t as its transfer.
GotoWith(label, t) == pc' = label /\ cur' = t /\ UNCHANGED <<ctxDone, ret>>

Goto(label) == GotoWith(label, cur)

Return(n, e) ==
    /\ pc' = "idle"
    /\ cur' = None
    /\ ctxDone' = FALSE
    /\ ret' = [n |-> n, err |-> e]

-----------------------------------------------------------------------------
(* transferIntf *)

\* submit succeeds.
Submitted(t) ==
    /\ submits < MaxSubmits
    /\ phase' = [phase EXCEPT ![t] = "inflight"]
    /\ submits' = submits + 1
    /\ number' = [number EXCEPT ![t] = submits + 1]
    /\ UNCHANGED <<cancel, result>>

\* free does nothing to a transfer that libusb still has.
Freed(t) ==
    /\ phase' = [phase EXCEPT ![t] = IF @ = "idle" THEN "freed" ELSE @]
    /\ UNCHANGED <<cancel, result, number, submits>>

\* cancel: libusb may refuse, and no caller looks at the error that is returned then.
Cancelled(t) ==
    /\ \E answer \in Answers \ {"none"} :
         cancel' = [cancel EXCEPT ![t] = IF phase[t] = "inflight" THEN answer ELSE @]
    /\ UNCHANGED <<phase, result, number, submits>>

\* wait can return; it gives nothing for a transfer that was not submitted.
CanReturn(t) == phase[t] # "inflight"
WaitResult(t) == IF phase[t] = "finished" THEN result[t] ELSE NoResult

\* What wait has returned is of no further use in the transfer.
Waited(t) ==
    /\ phase' = [phase EXCEPT ![t] = IF @ = "finished" THEN "idle" ELSE @]
    /\ result' = [result EXCEPT ![t] = NoResult]
    /\ UNCHANGED <<cancel, number, submits>>

\* The context of the call ends while wait blocks; once it has, this wait and
\* those that follow in the same call cancel what they wait for.
CtxEnds ==
    /\ pc = "wait"
    /\ ~CanReturn(cur) /\ ~ctxDone
    /\ ctxDone' = TRUE
    /\ UNCHANGED <<transferVars, streamVars, pc, cur, ret>>

WaitCancels ==
    /\ pc = "wait"
    /\ ~CanReturn(cur)
    /\ ctxDone
    /\ cancel[cur] = "none"
    /\ Cancelled(cur)
    /\ UNCHANGED <<streamVars, callVars>>

\* libusb finishes a transfer of at most xfer->length bytes, which is BufSize since
\* alloc and never changes; a cancelled one may still have succeeded.
Finish(t) ==
    /\ phase[t] = "inflight"
    /\ phase' = [phase EXCEPT ![t] = "finished"]
    /\ \E r \in Results : result' = [result EXCEPT ![t] = r]
    /\ cancel' = [cancel EXCEPT ![t] = "none"]
    /\ UNCHANGED <<number, submits, streamVars, callVars>>

-----------------------------------------------------------------------------
(* stream *)

gotError(e) == err' = IF err = "nil" THEN e ELSE err

noMore == finished' = TRUE

\* Mutant: nothing is recorded.
SubmitFailedSilent == UNCHANGED <<finished, err>>

\* A transfer cannot be submitted: s.gotError(err); s.noMore()
SubmitFailed == gotError("submit") /\ noMore

\* Mutant: the result is used before it is collected.
CollectedNot(t) == UNCHANGED transferVars

\* wait has returned without an error.
Collected(t) == Waited(t)

\* t, ok := <-s.transfers
Receive(label) ==
    /\ queue # <<>>
    /\ queue' = Tail(queue)
    /\ GotoWith(label, Head(queue))

\* Mutants: flushRemaining does not cancel, or does not wait.
FlushCancelsNot(t) == UNCHANGED transferVars
FlushCancels(t) == Cancelled(t)

FlushWaitsNot == UNCHANGED transferVars
FlushWaits == CanReturn(cur) /\ Waited(cur)

\* flushRemaining after its noMore: cancel, wait and free each transfer left.
FlushCancel ==
    /\ pc = "flush"
    /\ Receive("flushwait")
    /\ FlushCancels(Head(queue))
    /\ UNCHANGED <<finished, isNil, err>>

FlushWait ==
    /\ pc = "flushwait"
    /\ FlushWaits
    /\ Goto("flushfree")
    /\ UNCHANGED streamVars

FlushFree ==
    /\ pc = "flushfree"
    /\ Freed(cur)
    /\ GotoWith("flush", None)
    /\ UNCHANGED streamVars

Flush == FlushCancel \/ FlushWait \/ FlushFree

\* The range over the closed channel ends.
Flushed == pc = "flush" /\ queue = <<>>

-----------------------------------------------------------------------------
(* Properties of both kinds of stream. *)

Protocol == INSTANCE TransferProtocol
    WITH Ptrs <- Transfers, NULL <- None,
         mem <- [t \in Transfers |-> IF phase[t] = "freed" THEN None ELSE t]

\* A stream uses its transfers as TransferProtocol allows: it submits only idle
\* ones, so none that it has freed, and collects a result before it submits or
\* frees again.
UsesProtocol == [][Protocol!Next]_(Protocol!vars)

\* The goroutine waits for a transfer that libusb has refused to cancel: nothing but
\* the device ends that wait.
WaitsForRefused ==
    pc \in {"wait", "flushwait"} /\ ~CanReturn(cur) /\ cancel[cur] = "refused"

\* The submissions in the fifo are the last ones, in the order they were made,
\* behind the transfers that were never submitted.
InOrder ==
    \A i \in DOMAIN queue :
        LET k == submits - Len(queue) + i IN
        IF k > 0 THEN number[queue[i]] = k /\ phase[queue[i]] \in {"inflight", "finished"}
                 ELSE number[queue[i]] = 0 /\ phase[queue[i]] = "idle"
=============================================================================
