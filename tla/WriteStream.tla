---------------------------- MODULE WriteStream -----------------------------
(***************************************************************************)
(* WriteStream (transfer_stream.go): WriteContext copies the caller's data *)
(* into the transfers of the fifo, waiting for the previous submission of  *)
(* each before it uses it again; CloseContext waits for those left.        *)
(***************************************************************************)
EXTENDS Stream

CONSTANT MaxWrite   \* longest slice passed to Write

ASSUME WriteAssumption == MaxWrite \in Nat

VARIABLES
    total,      \* w.total
    left,       \* all - written of the running WriteContext
    written,    \* its written
    copied,     \* copied[t]: bytes of the slice in the submission of t, until a wait
    closing,    \* CloseContext is running
    outcome     \* outcome[k]: how submission k ended, or Unknown

writeVars == <<total, left, written, copied, closing, outcome>>
vars == <<transferVars, streamVars, callVars, writeVars>>

Unknown == [n |-> 0, err |-> "unknown"]

TypeOK ==
    /\ StreamTypeOK
    /\ pc \in {"idle", "next", "wait", "submit", "submitFailed", "waitFailed",
               "closeFree", "closeFreeFailed", "closeFreeAgain",
               "flush", "flushwait", "flushfree"}
    /\ total \in 0..BufSize * MaxSubmits
    /\ left \in 0..MaxWrite
    /\ written \in 0..MaxWrite
    /\ copied \in [Transfers -> 0..BufSize]
    /\ closing \in BOOLEAN
    /\ outcome \in [1..MaxSubmits -> Results \cup {Unknown}]

Init ==
    /\ StreamInit
    /\ queue = [t \in Transfers |-> t]
    /\ pc = "idle"
    /\ total = 0
    /\ left = 0
    /\ written = 0
    /\ copied = [t \in Transfers |-> 0]
    /\ closing = FALSE
    /\ outcome = [k \in 1..MaxSubmits |-> Unknown]

-----------------------------------------------------------------------------
(* WriteContext *)

WriteAfterError ==
    /\ pc = "idle"
    /\ isNil \/ err # "nil"
    /\ Return(0, "ErrClosedPipe")
    /\ UNCHANGED <<transferVars, streamVars, writeVars>>

WriteCall ==
    /\ pc = "idle"
    /\ ~isNil /\ err = "nil"
    /\ left' \in 0..MaxWrite
    /\ written' = 0
    /\ Goto("next")
    /\ UNCHANGED <<transferVars, streamVars, total, copied, closing, outcome>>

\* The locals of WriteContext are gone.
WriteEnds ==
    /\ left' = 0
    /\ written' = 0
    /\ UNCHANGED <<total, copied, closing, outcome>>

WriteDone ==
    /\ pc = "next" /\ ~closing
    /\ left = 0
    /\ Return(written, "nil")
    /\ WriteEnds
    /\ UNCHANGED <<transferVars, streamVars>>

\* t := <-w.s.transfers
WriteReceive ==
    /\ pc = "next" /\ ~closing
    /\ left > 0
    /\ Receive("wait")
    /\ UNCHANGED <<transferVars, finished, isNil, err, writeVars>>

WriteWaitOK ==
    /\ pc = "wait" /\ ~closing
    /\ CanReturn(cur)
    /\ WaitResult(cur).err = "nil"
    /\ Collected(cur)
    /\ total' = total + WaitResult(cur).n
    /\ copied' = [copied EXCEPT ![cur] = 0]
    /\ Goto("submit")
    /\ UNCHANGED <<streamVars, left, written, closing, outcome>>

WriteWaitFails ==
    /\ pc = "wait" /\ ~closing
    /\ CanReturn(cur)
    /\ WaitResult(cur).err # "nil"
    /\ Waited(cur)
    /\ total' = total + WaitResult(cur).n
    /\ copied' = [copied EXCEPT ![cur] = 0]
    /\ ret' = [n |-> written, err |-> WaitResult(cur).err]
    /\ pc' = "waitFailed"
    /\ UNCHANGED <<streamVars, cur, ctxDone, left, written, closing, outcome>>

\* "all transfers left in the queue are in flight.  They must be ignored"
WriteFreeFailed ==
    /\ pc = "waitFailed"
    /\ Freed(cur)
    /\ gotError(ret.err)
    /\ noMore
    /\ Goto("flush")
    /\ UNCHANGED <<queue, isNil, writeVars>>

WriteFlushed ==
    /\ Flushed /\ ~closing
    /\ Return(ret.n, ret.err)
    /\ WriteEnds
    /\ UNCHANGED <<transferVars, streamVars>>

\* n bytes are copied into the buffer, and the transfer is submitted: the whole
\* buffer, for nothing sets the length of the transfer to n.
Copied(n) ==
    /\ Submitted(cur)
    /\ copied' = [copied EXCEPT ![cur] = n]

\* Mutant: the data is not limited to the buffer.
useAll == left

\* As much of the data as fits is sent in the transfer.
use == IF left > BufSize THEN BufSize ELSE left

\* Mutant: the transfer is put back at the head of the fifo.
PutBackFirst == <<cur>> \o queue

PutBack == Append(queue, cur)

WriteSubmit ==
    /\ pc = "submit"
    /\ \/ /\ Copied(use)
          /\ queue' = PutBack
          /\ left' = left - use
          /\ written' = written + use
          /\ GotoWith("next", None)
          /\ UNCHANGED <<finished, isNil, err>>
       \/ /\ Goto("submitFailed")
          /\ UNCHANGED <<transferVars, streamVars, left, written, copied>>
    /\ UNCHANGED <<total, closing, outcome>>

\* "all the transfers in flight are still valid.  Don't flush"
WriteFreeUnsubmitted ==
    /\ pc = "submitFailed"
    /\ Freed(cur)
    /\ SubmitFailed
    /\ Return(written, "submit")
    /\ WriteEnds
    /\ UNCHANGED <<queue, isNil>>

-----------------------------------------------------------------------------
(* CloseContext *)

CloseAgain ==
    /\ pc = "idle"
    /\ isNil
    /\ Return(0, "ErrClosedPipe")
    /\ UNCHANGED <<transferVars, streamVars, writeVars>>

CloseCall ==
    /\ pc = "idle"
    /\ ~isNil
    /\ noMore
    /\ closing' = TRUE
    /\ Goto("next")
    /\ UNCHANGED <<transferVars, queue, isNil, err, total, left, written, copied, outcome>>

\* for t := range w.s.transfers
CloseReceive ==
    /\ pc = "next" /\ closing
    /\ Receive("wait")
    /\ UNCHANGED <<transferVars, finished, isNil, err, writeVars>>

CloseWait ==
    /\ pc = "wait" /\ closing
    /\ CanReturn(cur)
    /\ Waited(cur)
    /\ total' = total + WaitResult(cur).n
    /\ copied' = [copied EXCEPT ![cur] = 0]
    /\ pc' = IF WaitResult(cur).err = "nil" THEN "closeFree" ELSE "closeFreeFailed"
    /\ ret' = WaitResult(cur)
    /\ UNCHANGED <<streamVars, cur, ctxDone, left, written, closing, outcome>>

CloseFree ==
    /\ pc = "closeFree"
    /\ Freed(cur)
    /\ Goto("closeFreeAgain")
    /\ UNCHANGED <<streamVars, writeVars>>

\* Mutants: the error is lost; the transfers left are waited for and counted.
CloseErrorLost == UNCHANGED err
CloseError == gotError(ret.err)

AfterCloseErrorGoesOn == "closeFreeAgain"
AfterCloseError == "flush"

CloseFreeFailed ==
    /\ pc = "closeFreeFailed"
    /\ Freed(cur)
    /\ CloseError
    /\ noMore
    /\ Goto(AfterCloseError)
    /\ UNCHANGED <<queue, isNil, writeVars>>

\* free is called a second time, with nothing to do.
CloseFreeAgain ==
    /\ pc = "closeFreeAgain"
    /\ Freed(cur)
    /\ GotoWith("next", None)
    /\ UNCHANGED <<streamVars, writeVars>>

\* The t.free() after the flush (transfer_stream.go:294) finds t freed at line 289.
CloseFlushed ==
    /\ Flushed /\ closing
    /\ Goto("next")
    /\ UNCHANGED <<transferVars, streamVars, writeVars>>

CloseReturns ==
    /\ pc = "next" /\ closing
    /\ queue = <<>>
    /\ isNil' = TRUE
    /\ closing' = FALSE
    /\ Return(0, err)
    /\ UNCHANGED <<transferVars, queue, finished, err, total, left, written, copied, outcome>>

-----------------------------------------------------------------------------
Finishes(t) ==
    /\ Finish(t)
    /\ outcome' = [outcome EXCEPT ![number[t]] = result'[t]]
    /\ UNCHANGED <<total, left, written, copied, closing>>

Environment == (\E t \in Transfers : Finishes(t)) \/ (CtxEnds /\ UNCHANGED writeVars)

Running ==
    \/ WriteDone \/ WriteReceive \/ WriteWaitOK \/ WriteWaitFails \/ WriteFreeFailed
    \/ WriteFlushed \/ WriteSubmit \/ WriteFreeUnsubmitted
    \/ CloseReceive \/ CloseWait \/ CloseFree \/ CloseFreeFailed \/ CloseFreeAgain
    \/ CloseFlushed \/ CloseReturns
    \/ ((WaitCancels \/ Flush) /\ UNCHANGED writeVars)

Calls == WriteAfterError \/ WriteCall \/ CloseAgain \/ CloseCall

Next == Environment \/ Running \/ Calls

Spec == Init /\ [][Next]_vars

\* As for ReadStream: the device need not answer, nor the writer call.
FairSpec ==
    /\ Spec
    /\ WF_vars(Running)
    /\ \A t \in Transfers : WF_vars(cancel[t] = "accepted" /\ Finishes(t))
-----------------------------------------------------------------------------
(* Properties. *)

Known(k) == outcome[k].err # "unknown"
Failed(k) == outcome[k].err = "transfer"

\* The bytes in the first 0, 1, ... results.
Sums(results) ==
    LET sumTo[k \in 0..MaxSubmits] ==
            IF k = 0 THEN 0 ELSE sumTo[k - 1] + results[k].n
    IN  sumTo

\* The bytes libusb reports for the first k submissions.
Reported(k) == Sums(outcome)[k]

\* After Close, Written() is what the device took of the submissions up to the
\* first that failed, though they finish in any order: nothing after it, nothing
\* of it twice.
WrittenCountsToFirstFailure ==
    isNil =>
        LET failed == {k \in 1..submits : Failed(k)}
            last == IF failed = {} THEN submits ELSE CHOOSE k \in failed : \A j \in failed : k <= j
        IN  total = Reported(last)

\* "Close returning nil indicates all transfers completed successfully."
CloseNilMeansSuccess ==
    isNil /\ err = "nil" => \A k \in 1..submits : Known(k) /\ ~Failed(k)

\* WriteContext never touches a transfer that libusb has, nor blocks on the fifo for
\* good: when it copies and submits, the transfer is idle and the open channel has
\* room to put it back; when it takes the next one, there is one.
BufferIsFree ==
    /\ pc = "submit" => phase[cur] = "idle" /\ Len(queue) < Count /\ ~finished
    /\ pc = "next" /\ ~closing => queue # <<>>

\* The device gets no bytes but those of the Write: "the last USB transfer of this
\* Write will be sent with less data than the full buffer."  The code does not
\* keep this promise: it sends the buffer whole, with what was left in it.
SendsOnlyTheData ==
    \A t \in Transfers : phase[t] = "finished" => result[t].n <= copied[t]

\* Close gives back every transfer, whichever way the stream came to its end.
EndsClean == isNil => \A t \in Transfers : phase[t] = "freed"

\* A Write or Close whose context has ended returns, and so does one that has to
\* flush the transfers left, unless libusb refuses to cancel one it waits for.
WriteReturns == ctxDone \/ pc = "flush" ~> pc = "idle" \/ WaitsForRefused
=============================================================================
