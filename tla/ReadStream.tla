----------------------------- MODULE ReadStream -----------------------------
(***************************************************************************)
(* ReadStream (transfer_stream.go) as InEndpoint.NewStream makes it: every *)
(* transfer is submitted up front, and ReadContext hands the data of the   *)
(* transfers out in the order of their submission, submitting each again   *)
(* once it is used up.                                                     *)
(***************************************************************************)
EXTENDS Stream

CONSTANT MaxRead    \* longest buffer passed to Read

ASSUME ReadAssumption == MaxRead \in Nat

VARIABLES
    todo,       \* submitAll: the transfers not submitted yet
    current,    \* r.current, or None
    total,      \* r.total
    used,       \* r.used
    want,       \* len(p) of the running ReadContext
    consumed    \* submissions whose data was handed out completely

readVars == <<todo, current, total, used, want, consumed>>
vars == <<transferVars, streamVars, callVars, readVars>>

TypeOK ==
    /\ StreamTypeOK
    /\ pc \in {"submitAll", "submitAllFailed", "idle", "wait", "copy", "resubmit",
               "free", "waitFailed", "flush", "flushwait", "flushfree"}
    /\ todo \in Seq(Transfers)
    /\ current \in Transfers \cup {None}
    /\ total \in 0..BufSize
    /\ used \in 0..total
    /\ want \in 0..MaxRead
    /\ consumed \in 0..MaxSubmits

\* submitAll has taken the transfers out of the channel.
Init ==
    /\ StreamInit
    /\ queue = <<>>
    /\ pc = "submitAll"
    /\ todo = [t \in Transfers |-> t]
    /\ current = None
    /\ total = 0
    /\ used = 0
    /\ want = 0
    /\ consumed = 0

-----------------------------------------------------------------------------
(* submitAll *)

SubmitAllNext ==
    LET t == Head(todo) IN
    /\ pc = "submitAll"
    /\ todo # <<>>
    /\ \/ /\ Submitted(t)
          /\ queue' = Append(queue, t)
          /\ todo' = Tail(todo)
          /\ UNCHANGED <<finished, isNil, err, callVars>>
       \/ /\ SubmitFailed
          /\ Goto("submitAllFailed")
          /\ UNCHANGED <<transferVars, queue, isNil, todo>>
    /\ UNCHANGED <<current, total, used, want, consumed>>

\* The transfer that could not be submitted is freed, the later ones are not.
SubmitAllFailed ==
    /\ pc = "submitAllFailed"
    /\ Freed(Head(todo))
    /\ todo' = Tail(todo)
    /\ Goto("idle")
    /\ UNCHANGED <<streamVars, current, total, used, want, consumed>>

SubmitAllDone ==
    /\ pc = "submitAll"
    /\ todo = <<>>
    /\ Goto("idle")
    /\ UNCHANGED <<transferVars, streamVars, readVars>>

-----------------------------------------------------------------------------
(* ReadContext *)

ReadAfterEnd ==
    /\ pc = "idle"
    /\ isNil
    /\ Return(0, "ErrClosedPipe")
    /\ UNCHANGED <<transferVars, streamVars, readVars>>

\* Mutant: a transfer that is not used up is dropped for the next one.
NeedsTransferAlways == TRUE

NeedsTransfer == current = None

\* t, ok := <-r.s.transfers: blocks on an open and empty channel.
ReadReceive ==
    /\ pc = "idle"
    /\ ~isNil
    /\ NeedsTransfer
    /\ Receive("wait")
    /\ want' \in 0..MaxRead
    /\ UNCHANGED <<transferVars, finished, isNil, err,
                   todo, current, total, used, consumed>>

\* "no more transfers in flight"
ReadEnds ==
    /\ pc = "idle"
    /\ ~isNil
    /\ current = None
    /\ queue = <<>> /\ finished
    /\ isNil' = TRUE
    /\ Return(0, err)
    /\ UNCHANGED <<transferVars, queue, finished, err, readVars>>

ReadWaitOK ==
    /\ pc = "wait"
    /\ CanReturn(cur)
    /\ WaitResult(cur).err = "nil"
    /\ Collected(cur)
    /\ current' = cur
    /\ total' = WaitResult(cur).n
    /\ used' = 0
    /\ GotoWith("copy", None)
    /\ UNCHANGED <<streamVars, todo, want, consumed>>

\* "wait error aborts immediately, all remaining data is invalid."
ReadWaitFails ==
    /\ pc = "wait"
    /\ CanReturn(cur)
    /\ WaitResult(cur).err # "nil"
    /\ Waited(cur)
    /\ pc' = "waitFailed"
    /\ ret' = WaitResult(cur)
    /\ UNCHANGED <<streamVars, cur, ctxDone, readVars>>

ReadFreeFailed ==
    /\ pc = "waitFailed"
    /\ Freed(cur)
    /\ noMore
    /\ Goto("flush")
    /\ UNCHANGED <<queue, isNil, err, readVars>>

ReadFlushed ==
    /\ Flushed
    /\ isNil' = TRUE
    /\ Return(ret.n, ret.err)
    /\ UNCHANGED <<transferVars, queue, finished, err, readVars>>

\* The call goes on with the transfer of an earlier one.
ReadMore ==
    /\ pc = "idle"
    /\ ~isNil
    /\ current # None
    /\ want' \in 0..MaxRead
    /\ Goto("copy")
    /\ UNCHANGED <<transferVars, streamVars, todo, current, total, used, consumed>>

\* Mutant: the copy is not limited to what the transfer holds.
useWanted == want

use == IF total - used > want THEN want ELSE total - used

ReadCopy ==
    /\ pc = "copy"
    /\ used' = used + use
    /\ ret' = [n |-> use, err |-> "nil"]
    /\ pc' = IF used' < total THEN "idle" ELSE IF err = "nil" THEN "resubmit" ELSE "free"
    /\ UNCHANGED <<transferVars, streamVars, cur, ctxDone, todo, current, total, want, consumed>>

\* The transfer is used up: it goes back to libusb and to the end of the fifo.
ReadResubmit ==
    /\ pc = "resubmit"
    /\ \/ /\ Submitted(current)
          /\ queue' = Append(queue, current)
          /\ current' = None
          /\ consumed' = consumed + 1
          /\ Goto("idle")
          /\ UNCHANGED <<finished, isNil, err>>
       \/ /\ SubmitFailed
          /\ Goto("free")
          /\ UNCHANGED <<transferVars, queue, isNil, current, consumed>>
    /\ UNCHANGED <<todo, total, used, want>>

ReadFree ==
    /\ pc = "free"
    /\ Freed(current)
    /\ current' = None
    /\ consumed' = consumed + 1
    /\ Goto("idle")
    /\ UNCHANGED <<streamVars, todo, total, used, want>>

-----------------------------------------------------------------------------
Close ==
    /\ pc = "idle"
    /\ ~isNil
    /\ gotError("EOF")
    /\ noMore
    /\ UNCHANGED <<transferVars, queue, isNil, callVars, readVars>>

\* The device and the context of the call.
Environment == (CtxEnds \/ \E t \in Transfers : Finish(t)) /\ UNCHANGED readVars

\* A method that has been called.
Running ==
    \/ SubmitAllNext \/ SubmitAllFailed \/ SubmitAllDone
    \/ ReadWaitOK \/ ReadWaitFails \/ ReadFreeFailed
    \/ ((WaitCancels \/ Flush) /\ UNCHANGED readVars) \/ ReadFlushed
    \/ ReadCopy \/ ReadResubmit \/ ReadFree

Calls == ReadAfterEnd \/ ReadReceive \/ ReadEnds \/ ReadMore \/ Close

Next == Environment \/ Running \/ Calls

Spec == Init /\ [][Next]_vars

\* A method in progress goes on, and libusb finishes what it accepted to cancel;
\* the device need not answer, nor the reader call.
FairSpec ==
    /\ Spec
    /\ WF_vars(Running)
    /\ \A t \in Transfers : WF_vars(cancel[t] = "accepted" /\ Finish(t) /\ UNCHANGED readVars)
-----------------------------------------------------------------------------
(* Properties. *)

\* The submission being read is the one after the last read completely: Read
\* neither skips, repeats nor reorders the data of the transfers it returns.
ReadsInOrder ==
    /\ InOrder
    /\ pc = "wait" => number[cur] = consumed + 1
    /\ current # None => number[current] = consumed + 1

\* The fifo never blocks the reader for good: "guaranteed to not block,
\* len(transfers) == number of allocated transfers" when a transfer is put back,
\* nor is it closed then; and a read that finds it empty finds it closed, with an
\* error to return, however the stream came to its end.
FifoNeverBlocks ==
    /\ pc = "submitAll" => Len(queue) + Len(todo) <= Count /\ ~finished
    /\ pc = "resubmit" => Len(queue) < Count /\ ~finished
    /\ pc = "idle" /\ ~isNil /\ current = None /\ queue = <<>> => finished /\ err # "nil"

\* A stream that is over has given back every transfer it ever submitted.
EndsClean ==
    isNil => \A t \in Transfers : phase[t] = "freed" \/ number[t] = 0

\* The test of the stream demands it of every transfer: "Transfer #%d was not
\* freed after stream completed".
AllFreed == isNil => \A t \in Transfers : phase[t] = "freed"

\* A read whose context has ended returns, although flushRemaining waits for
\* every transfer left without a context, unless libusb refuses to cancel one.
ReadReturns == ctxDone \/ pc = "flush" ~> pc = "idle" \/ WaitsForRefused
=============================================================================
