-------------------------- MODULE ReadStreamProofs ---------------------------
(***************************************************************************)
(* ReadStream with any number of transfers, buffers of any size and reads  *)
(* of any length: the reader is given the data in order, the fifo never    *)
(* blocks it for good, and the transfers are given back.                   *)
(***************************************************************************)
EXTENDS ReadStream, StreamProofs

(* The inductive invariant. *)

\* Where cur is the transfer of the goroutine alone, and where an error of a wait
\* has ended the stream.
OwnLabels == {"wait", "waitFailed", "flushwait", "flushfree"}
FlushLabels == {"waitFailed", "flush", "flushwait", "flushfree"}

\* What a call works on at each label.
CallInv ==
    /\ pc \in OwnLabels => cur \in Transfers /\ TakenOut(cur)
    /\ pc \in {"waitFailed", "flushfree"} => phase[cur] = "idle"
    /\ current # None => pc \in {"idle", "copy", "resubmit", "free"}
    /\ pc \in {"copy", "resubmit", "free"} => current # None
    /\ current # None => phase[current] = "idle" /\ TakenOut(current)
    /\ pc \in {"resubmit", "submitAll"} => err = "nil"
    /\ pc \in {"free", "submitAllFailed"} => err # "nil"

\* submitAll takes the transfers one by one.
SubmitAllInv ==
    pc \in {"submitAll", "submitAllFailed"} =>
        /\ Len(queue) = submits /\ Len(todo) = Count - submits
        /\ \A i \in DOMAIN todo : todo[i] = submits + i
        /\ \A i \in DOMAIN queue : queue[i] = i
        /\ \A t \in Transfers : t > submits => phase[t] = "idle" /\ number[t] = 0
        /\ pc = "submitAllFailed" => todo # <<>>

\* How many transfers are out of the fifo, with the reader.
Taken == IF current # None \/ pc \in OwnLabels THEN 1 ELSE 0

\* While there is no error, no transfer is lost from the fifo.
CountInv ==
    /\ pc \notin {"submitAll", "submitAllFailed"} => Len(queue) + Taken <= Count
    /\ pc \notin {"submitAll", "submitAllFailed"} \cup FlushLabels /\ ~isNil /\ err = "nil" =>
         Len(queue) + Taken = Count
    /\ pc \notin FlushLabels /\ ~isNil => (finished <=> err # "nil")
    /\ isNil => pc = "idle" /\ current = None /\ queue = <<>>

\* The submissions are read, with the reader, or in the fifo.
ReadInv ==
    /\ consumed + Taken + Len(queue) <= submits
    /\ pc \notin FlushLabels /\ ~isNil => consumed + Taken + Len(queue) = submits
    /\ current # None => number[current] = consumed + 1

\* What was submitted and not freed is in the fifo, or with the reader.
PlaceInv ==
    \A t \in Transfers :
        number[t] # 0 /\ phase[t] # "freed" =>
            \/ ~TakenOut(t)
            \/ t = current
            \/ pc \in OwnLabels /\ t = cur

IInv ==
    /\ TypeOK
    /\ OrderInv
    /\ CallInv
    /\ SubmitAllInv
    /\ CountInv
    /\ ReadInv
    /\ PlaceInv

LEMMA NoneIsNone == None \notin Transfers
BY DEF None, Transfers

\* The next transfer that submitAll takes.
LEMMA TodoHead ==
  ASSUME IInv, pc \in {"submitAll", "submitAllFailed"}, todo # <<>>
  PROVE  /\ Head(todo) = submits + 1 /\ Head(todo) \in Transfers
         /\ TakenOut(Head(todo)) /\ number[Head(todo)] = 0 /\ phase[Head(todo)] = "idle"
         /\ Tail(todo) \in Seq(Transfers) /\ Len(Tail(todo)) = Count - (submits + 1)
         /\ \A i \in DOMAIN Tail(todo) : Tail(todo)[i] = submits + 1 + i
         /\ Len(queue) = submits /\ submits + 1 <= Count
<1>1. /\ todo \in Seq(Transfers) /\ queue \in Seq(Transfers)
      /\ submits \in Nat /\ Count \in Nat
      /\ Len(queue) = submits /\ Len(todo) = Count - submits
      /\ \A i \in DOMAIN todo : todo[i] = submits + i
      /\ \A i \in DOMAIN queue : queue[i] = i
      /\ \A t \in Transfers : t > submits => phase[t] = "idle" /\ number[t] = 0
  BY StreamAssumption DEF IInv, TypeOK, StreamTypeOK, SubmitAllInv
<1>2. /\ Len(todo) \in Nat \ {0}
      /\ Head(todo) = todo[1] /\ 1 \in DOMAIN todo
      /\ Tail(todo) \in Seq(Transfers) /\ Len(Tail(todo)) = Len(todo) - 1
      /\ \A i \in DOMAIN Tail(todo) : i + 1 \in DOMAIN todo /\ Tail(todo)[i] = todo[i + 1]
      /\ DOMAIN Tail(todo) = 1..(Len(todo) - 1)
  BY <1>1, FifoTail, FifoType
<1>3. Head(todo) = submits + 1 /\ Head(todo) \in Transfers /\ submits + 1 <= Count
  BY <1>1, <1>2 DEF Transfers
<1>4. TakenOut(submits + 1)
  BY <1>1, FifoType DEF TakenOut
<1>5. \A i \in DOMAIN Tail(todo) : Tail(todo)[i] = submits + 1 + i
  <2>. SUFFICES ASSUME NEW i \in DOMAIN Tail(todo) PROVE Tail(todo)[i] = submits + 1 + i
    OBVIOUS
  <2>1. i \in Int /\ Tail(todo)[i] = submits + (i + 1)
    BY <1>1, <1>2
  <2>. QED
    BY <1>1, <2>1
<1>. QED
  BY <1>1, <1>2, <1>3, <1>4, <1>5

-----------------------------------------------------------------------------
(* submitAll *)

\* The transfer taken is the one numbered submits + 1: it goes to the end of the fifo
\* with just that number.
LEMMA SubmitAllNextKeeps ==
  ASSUME IInv, SubmitAllNext
  PROVE  IInv'
<1>t. PICK t \in Transfers :
         /\ t = Head(todo) /\ t = submits + 1
         /\ TakenOut(t) /\ number[t] = 0 /\ phase[t] = "idle"
         /\ Tail(todo) \in Seq(Transfers) /\ Len(Tail(todo)) = Count - (submits + 1)
         /\ \A i \in DOMAIN Tail(todo) : Tail(todo)[i] = submits + 1 + i
         /\ Len(queue) = submits /\ submits + 1 <= Count
  BY TodoHead DEF IInv, SubmitAllNext
<1>f. /\ Append(queue, t) \in Seq(Transfers)
      /\ Len(Append(queue, t)) = Len(queue) + 1 /\ Len(queue) \in Nat
      /\ DOMAIN Append(queue, t) = 1..(Len(queue) + 1)
      /\ DOMAIN queue = 1..Len(queue)
      /\ \A i \in DOMAIN queue : Append(queue, t)[i] = queue[i]
      /\ Append(queue, t)[Len(queue) + 1] = t
  <2>1. queue \in Seq(Transfers)
    BY DEF IInv, TypeOK, StreamTypeOK
  <2>. QED
    BY <1>t, <2>1, FifoAppend, FifoType
<1>. USE DEF IInv, SubmitAllNext, GotoWith, Goto, Submitted, gotError, noMore,
              SubmitFailed, transferVars, callVars
<1>1. TypeOK'
  <2>1. CASE pc' = "submitAll"
    <3>1. queue' \in Seq(Transfers) /\ Len(queue') <= Count /\ todo' \in Seq(Transfers)
      <4>1. queue' = Append(queue, t) /\ todo' = Tail(todo)
        BY <2>1, <1>t
      <4>2. Len(queue) + 1 <= Count
        BY <1>t
      <4>. QED
        BY <4>1, <4>2, <1>t, <1>f
    <3>. QED
      BY <2>1, <3>1, <1>t, SubmittedTypes DEF TypeOK, StreamTypeOK
  <2>2. CASE pc' = "submitAllFailed"
    BY <2>2 DEF TypeOK, StreamTypeOK, Errors
  <2>. QED
    BY <2>1, <2>2
<1>2. OrderInv'
  <2>1. CASE pc' = "submitAll"
    BY <2>1, <1>t, PutBackKeepsOrder DEF TypeOK
  <2>2. CASE pc' = "submitAllFailed"
    BY <2>2, UnmovedKeepsOrder DEF TypeOK
  <2>. QED
    BY <2>1, <2>2
<1>3. CallInv'
  BY DEF CallInv, OwnLabels
<1>4. SubmitAllInv'
  <2>1. CASE pc' = "submitAll"
    <3>1. Len(queue') = submits' /\ Len(todo') = Count - submits' /\ submits' = submits + 1
      BY <2>1, <1>t, <1>f
    <3>2. \A i \in DOMAIN todo' : todo'[i] = submits' + i
      BY <2>1, <1>t
    <3>3. \A i \in DOMAIN queue' : queue'[i] = i
      BY <2>1, <1>t, <1>f DEF SubmitAllInv
    <3>4. \A s \in Transfers : s > submits' => phase'[s] = "idle" /\ number'[s] = 0
      <4>. SUFFICES ASSUME NEW s \in Transfers, s > submits'
                    PROVE  phase'[s] = "idle" /\ number'[s] = 0
        OBVIOUS
      <4>1. submits' = submits + 1 /\ s \in Int /\ submits \in Int
        BY <2>1, StreamAssumption DEF TypeOK, StreamTypeOK, Transfers
      <4>2. s # t /\ s > submits
        BY <4>1, <1>t
      <4>3. phase[s] = "idle" /\ number[s] = 0
        BY <4>2 DEF SubmitAllInv
      <4>4. phase'[s] = phase[s] /\ number'[s] = number[s]
        BY <2>1, <4>2, <1>t DEF TypeOK, StreamTypeOK
      <4>. QED
        BY <4>3, <4>4
    <3>. QED
      BY <2>1, <3>1, <3>2, <3>3, <3>4 DEF SubmitAllInv
  <2>2. CASE pc' = "submitAllFailed"
    BY <2>2 DEF SubmitAllInv
  <2>. QED
    BY <2>1, <2>2
<1>5. CountInv'
  BY DEF CountInv
<1>6. ReadInv'
  BY FifoType DEF TypeOK, CallInv, OwnLabels, ReadInv, Taken, SubmitAllInv
<1>7. PlaceInv'
  <2>1. CASE pc' = "submitAll"
    <3>1. ~TakenOut(t)' /\ \A s \in Transfers : ~TakenOut(s) => ~TakenOut(s)'
      BY <1>t, <2>1, PutBackPlaces DEF TypeOK
    <3>. QED
      BY <2>1, <3>1, <1>t DEF TypeOK, StreamTypeOK, CallInv, PlaceInv, OwnLabels
  <2>2. CASE pc' = "submitAllFailed"
    BY <2>2 DEF PlaceInv, TakenOut, OwnLabels
  <2>. QED
    BY <2>1, <2>2
<1>. QED
  BY <1>1, <1>2, <1>3, <1>4, <1>5, <1>6, <1>7

\* The error ends the stream before anything is lost: what was submitted is in the fifo.
LEMMA SubmitAllFailedKeeps ==
  ASSUME IInv, SubmitAllFailed
  PROVE  IInv'
<1>t. PICK t \in Transfers :
         /\ t = Head(todo) /\ t = submits + 1
         /\ TakenOut(t) /\ number[t] = 0 /\ phase[t] = "idle"
         /\ Tail(todo) \in Seq(Transfers)
         /\ Len(queue) = submits /\ submits + 1 <= Count
  BY TodoHead DEF IInv, SubmitAllInv, SubmitAllFailed
<1>. USE DEF IInv, SubmitAllFailed, GotoWith, Goto, Freed, streamVars
<1>1. TypeOK'
  BY <1>t DEF TypeOK, StreamTypeOK, CallInv
<1>2. OrderInv'
  BY <1>t, OwnKeepsOrder DEF TypeOK
<1>3. CallInv'
  BY DEF CallInv, OwnLabels
<1>4. SubmitAllInv'
  BY DEF SubmitAllInv
<1>5. CountInv'
  BY StreamAssumption DEF CallInv, FlushLabels, CountInv, Taken, SubmitAllInv
<1>6. ReadInv'
  BY DEF OwnLabels, FlushLabels, ReadInv, Taken
<1>7. PlaceInv'
  BY DEF OwnLabels, PlaceInv, TakenOut
<1>. QED
  BY <1>1, <1>2, <1>3, <1>4, <1>5, <1>6, <1>7

LEMMA SubmitAllDoneKeeps ==
  ASSUME IInv, SubmitAllDone
  PROVE  IInv'
<1>. USE DEF IInv, SubmitAllDone, GotoWith, Goto, transferVars, streamVars, readVars
<1>1. TypeOK'
  BY StreamAssumption DEF TypeOK, StreamTypeOK
<1>2. OrderInv'
  BY UnmovedKeepsOrder DEF TypeOK
<1>3. CallInv'
  BY DEF CallInv, OwnLabels
<1>4. SubmitAllInv'
  BY DEF SubmitAllInv
<1>5. CountInv'
  BY StreamAssumption DEF CallInv, OwnLabels, FlushLabels, CountInv, Taken, SubmitAllInv
<1>6. ReadInv'
  BY DEF OwnLabels, FlushLabels, ReadInv, Taken
<1>7. PlaceInv'
  BY DEF OwnLabels, PlaceInv, TakenOut
<1>. QED
  BY <1>1, <1>2, <1>3, <1>4, <1>5, <1>6, <1>7

-----------------------------------------------------------------------------
(* ReadContext and Close *)

LEMMA ReadAfterEndKeeps ==
  ASSUME IInv, ReadAfterEnd
  PROVE  IInv'
<1>. USE DEF IInv, ReadAfterEnd, Return, transferVars, streamVars, readVars
<1>1. TypeOK'
  <2>1. ret'.n \in Int /\ ret'.err \in Errors
    BY DEF TypeOK, StreamTypeOK, Errors
  <2>2. StreamTypeOK'
    BY <2>1 DEF TypeOK, StreamTypeOK
  <2>. QED
    BY <2>2 DEF TypeOK
<1>2. OrderInv'
  BY UnmovedKeepsOrder DEF TypeOK
<1>3. CallInv'
  BY DEF CallInv, OwnLabels, CountInv
<1>4. SubmitAllInv'
  BY DEF SubmitAllInv
<1>5. CountInv'
  BY DEF CountInv, Taken
<1>6. ReadInv'
  BY DEF ReadInv, Taken
<1>7. PlaceInv'
  BY DEF OwnLabels, PlaceInv, TakenOut
<1>. QED
  BY <1>1, <1>2, <1>3, <1>4, <1>5, <1>6, <1>7

\* The transfer moves from the head of the fifo to the call.
LEMMA ReadReceiveKeeps ==
  ASSUME IInv, ReadReceive
  PROVE  IInv'
<1>r. queue' \in Seq(Transfers) /\ Len(queue') <= Count /\ cur' \in Transfers
  BY ReceiveTypes DEF IInv, TypeOK, ReadReceive
<1>f. /\ queue' \in Seq(Transfers) /\ Len(queue') = Len(queue) - 1 /\ Len(queue) \in Nat
      /\ cur' = queue[1] /\ 1 \in DOMAIN queue /\ cur' \in Transfers
      /\ DOMAIN queue = 1..Len(queue) /\ DOMAIN queue' = 1..(Len(queue) - 1)
      /\ \A i \in DOMAIN queue' : i + 1 \in DOMAIN queue /\ queue'[i] = queue[i + 1]
  <2>1. queue \in Seq(Transfers) /\ queue # <<>> /\ queue' = Tail(queue) /\ cur' = Head(queue)
    BY DEF IInv, TypeOK, StreamTypeOK, ReadReceive, Receive, GotoWith
  <2>. QED
    BY <2>1, FifoTail, FifoType
<1>. USE DEF IInv, ReadReceive, GotoWith, Receive, NeedsTransfer, transferVars
<1>1. TypeOK'
  <2>1. queue' \in Seq(Transfers) /\ Len(queue') <= Count /\ cur' \in Transfers
    BY <1>r
  <2>2. UNCHANGED <<phase, result, number, submits, finished, isNil, err, ctxDone, ret>>
    OBVIOUS
  <2>3. pc' \in {"wait", "flushwait"} /\ cancel' \in [Transfers -> Answers]
    BY DEF TypeOK, StreamTypeOK
  <2>. QED
    BY <2>1, <2>2, <2>3 DEF TypeOK, StreamTypeOK
<1>2. OrderInv'
  BY ReceiveKeepsOrder DEF TypeOK
<1>3. CallInv'
  BY <1>2, <1>f DEF TypeOK, StreamTypeOK, CallInv, OrderInv, OwnLabels
<1>4. SubmitAllInv'
  BY DEF SubmitAllInv
<1>5. CountInv'
  BY DEF OwnLabels, FlushLabels, CountInv, Taken
<1>6. ReadInv'
  <2>1. Taken = 0 /\ Taken' = 1 /\ Len(queue') = Len(queue) - 1 /\ Len(queue) \in Nat
    BY <1>f DEF Taken, OwnLabels
  <2>. QED
    BY <2>1 DEF TypeOK, ReadInv, FlushLabels
<1>7. PlaceInv'
  <2>1. \A s \in Transfers : ~TakenOut(s) => s = cur' \/ ~TakenOut(s)'
    BY ReceiveTakesOut DEF TypeOK
  <2>. QED
    BY <2>1 DEF PlaceInv, CallInv, OwnLabels
<1>. QED
  BY <1>1, <1>2, <1>3, <1>4, <1>5, <1>6, <1>7

LEMMA ReadEndsKeeps ==
  ASSUME IInv, ReadEnds
  PROVE  IInv'
<1>. USE DEF IInv, ReadEnds, Return, transferVars, readVars
<1>1. TypeOK'
  <2>1. ret'.n \in Int /\ ret'.err \in Errors
    BY DEF TypeOK, StreamTypeOK, Errors
  <2>2. StreamTypeOK'
    BY <2>1 DEF TypeOK, StreamTypeOK
  <2>. QED
    BY <2>2 DEF TypeOK
<1>2. OrderInv'
  BY UnmovedKeepsOrder DEF TypeOK
<1>3. CallInv'
  BY DEF CallInv, OwnLabels
<1>4. SubmitAllInv'
  BY DEF SubmitAllInv
<1>5. CountInv'
  BY DEF CountInv, Taken
<1>6. ReadInv'
  BY DEF ReadInv, Taken
<1>7. PlaceInv'
  BY DEF OwnLabels, PlaceInv, TakenOut
<1>. QED
  BY <1>1, <1>2, <1>3, <1>4, <1>5, <1>6, <1>7

\* What wait returns is the submission after the last one read.
LEMMA ReadWaitOKKeeps ==
  ASSUME IInv, ReadWaitOK
  PROVE  IInv'
<1>. USE DEF IInv, ReadWaitOK, GotoWith, CanReturn, WaitResult, Waited, Collected,
              streamVars, NoResult
<1>1. TypeOK'
  BY StreamAssumption DEF TypeOK, StreamTypeOK, Results, Errors, CallInv, OwnLabels,
         FlushLabels
<1>2. OrderInv'
  BY OwnKeepsOrder DEF TypeOK, CallInv, OwnLabels
<1>3. CallInv'
  BY NoneIsNone DEF TypeOK, StreamTypeOK, CallInv, OwnLabels, TakenOut, OrderInv,
         IsSubmission
<1>4. SubmitAllInv'
  BY DEF SubmitAllInv
<1>5. CountInv'
  BY NoneIsNone DEF CallInv, OwnLabels, FlushLabels, CountInv, Taken
<1>6. ReadInv'
  <2>1. number[cur] = consumed + 1
    <3>1. Taken = 1 /\ submits - Len(queue) = consumed + 1 /\ consumed + 1 > 0
      BY FifoType DEF TypeOK, StreamTypeOK, ReadInv, Taken, OwnLabels, FlushLabels, CountInv
    <3>. QED
      BY <3>1 DEF OrderInv, IsSubmission
  <2>. QED
    BY <2>1, NoneIsNone DEF CallInv, ReadInv, Taken, OwnLabels, FlushLabels
<1>7. PlaceInv'
  BY NoneIsNone DEF CallInv, PlaceInv, TakenOut
<1>. QED
  BY <1>1, <1>2, <1>3, <1>4, <1>5, <1>6, <1>7

LEMMA ReadWaitFailsKeeps ==
  ASSUME IInv, ReadWaitFails
  PROVE  IInv'
<1>. USE DEF IInv, ReadWaitFails, CanReturn, WaitResult, Waited, streamVars, readVars,
              NoResult
<1>1. TypeOK'
  <2>0. NoResult \in Results
    BY StreamAssumption DEF NoResult, Results
  <2>1. StreamTypeOK'
    BY <2>0 DEF TypeOK, StreamTypeOK, Errors, Results, CallInv, OwnLabels
  <2>. QED
    BY <2>1 DEF TypeOK
<1>2. OrderInv'
  BY OwnKeepsOrder DEF TypeOK, CallInv, OwnLabels
<1>3. CallInv'
  BY DEF TypeOK, StreamTypeOK, CallInv, TakenOut, OrderInv
<1>4. SubmitAllInv'
  BY DEF SubmitAllInv
<1>5. CountInv'
  BY DEF OwnLabels, FlushLabels, CountInv, Taken
<1>6. ReadInv'
  BY DEF OwnLabels, FlushLabels, ReadInv, Taken
<1>7. PlaceInv'
  BY DEF OwnLabels, PlaceInv, TakenOut
<1>. QED
  BY <1>1, <1>2, <1>3, <1>4, <1>5, <1>6, <1>7

LEMMA ReadFreeFailedKeeps ==
  ASSUME IInv, ReadFreeFailed
  PROVE  IInv'
<1>. USE DEF IInv, ReadFreeFailed, GotoWith, Goto, Freed, noMore, readVars
<1>1. TypeOK'
  BY DEF TypeOK, StreamTypeOK
<1>2. OrderInv'
  BY OwnKeepsOrder DEF TypeOK, CallInv, OwnLabels
<1>3. CallInv'
  BY DEF CallInv, OwnLabels
<1>4. SubmitAllInv'
  BY DEF SubmitAllInv
<1>5. CountInv'
  BY DEF TypeOK, StreamTypeOK, OwnLabels, FlushLabels, CountInv, Taken
<1>6. ReadInv'
  BY DEF TypeOK, StreamTypeOK, OwnLabels, FlushLabels, ReadInv, Taken
<1>7. PlaceInv'
  BY DEF TypeOK, StreamTypeOK, CallInv, PlaceInv, TakenOut
<1>. QED
  BY <1>1, <1>2, <1>3, <1>4, <1>5, <1>6, <1>7

LEMMA ReadFlushedKeeps ==
  ASSUME IInv, ReadFlushed
  PROVE  IInv'
<1>. USE DEF IInv, ReadFlushed, Return, Flushed, transferVars, readVars
<1>1. TypeOK'
  BY DEF TypeOK, StreamTypeOK
<1>2. OrderInv'
  BY UnmovedKeepsOrder DEF TypeOK
<1>3. CallInv'
  BY DEF CallInv, OwnLabels
<1>4. SubmitAllInv'
  BY DEF SubmitAllInv
<1>5. CountInv'
  BY DEF CallInv, OwnLabels, CountInv, Taken
<1>6. ReadInv'
  BY DEF OwnLabels, ReadInv, Taken
<1>7. PlaceInv'
  BY DEF OwnLabels, PlaceInv, TakenOut
<1>. QED
  BY <1>1, <1>2, <1>3, <1>4, <1>5, <1>6, <1>7

LEMMA ReadMoreKeeps ==
  ASSUME IInv, ReadMore
  PROVE  IInv'
<1>. USE DEF IInv, ReadMore, GotoWith, Goto, transferVars, streamVars
<1>1. TypeOK'
  BY DEF TypeOK, StreamTypeOK
<1>2. OrderInv'
  BY UnmovedKeepsOrder DEF TypeOK
<1>3. CallInv'
  BY DEF CallInv, OwnLabels, TakenOut
<1>4. SubmitAllInv'
  BY DEF SubmitAllInv
<1>5. CountInv'
  BY DEF FlushLabels, CountInv, Taken
<1>6. ReadInv'
  BY DEF FlushLabels, ReadInv, Taken
<1>7. PlaceInv'
  BY DEF OwnLabels, PlaceInv, TakenOut
<1>. QED
  BY <1>1, <1>2, <1>3, <1>4, <1>5, <1>6, <1>7

LEMMA ReadCopyKeeps ==
  ASSUME IInv, ReadCopy
  PROVE  IInv'
<1>. USE DEF IInv, ReadCopy, use, transferVars, streamVars
<1>1. TypeOK'
  <2>1. StreamTypeOK'
    BY ReadAssumption DEF TypeOK, StreamTypeOK, Errors
  <2>. QED
    BY <2>1, StreamAssumption, ReadAssumption DEF TypeOK
<1>2. OrderInv'
  BY UnmovedKeepsOrder DEF TypeOK
<1>3. CallInv'
  BY DEF CallInv, OwnLabels, TakenOut
<1>4. SubmitAllInv'
  BY DEF SubmitAllInv
<1>5. CountInv'
  BY DEF OwnLabels, FlushLabels, CountInv, Taken
<1>6. ReadInv'
  BY DEF OwnLabels, FlushLabels, ReadInv, Taken
<1>7. PlaceInv'
  BY DEF OwnLabels, PlaceInv, TakenOut
<1>. QED
  BY <1>1, <1>2, <1>3, <1>4, <1>5, <1>6, <1>7

\* The transfer moves from the reader to the end of the fifo.
LEMMA ReadResubmitKeeps ==
  ASSUME IInv, ReadResubmit
  PROVE  IInv'
<1>f. PICK t \in Transfers :
         /\ t = current
         /\ Append(queue, t) \in Seq(Transfers)
         /\ Len(Append(queue, t)) = Len(queue) + 1 /\ Len(queue) \in Nat
  <2>1. queue \in Seq(Transfers) /\ current \in Transfers
    BY DEF IInv, TypeOK, StreamTypeOK, CallInv, ReadResubmit
  <2>. QED
    BY <2>1, FifoAppend, FifoType
<1>. USE DEF IInv, ReadResubmit, GotoWith, Goto, Submitted, gotError, noMore,
              SubmitFailed, transferVars
<1>1. TypeOK'
  <2>1. CASE pc' = "idle"
    <3>1. consumed' \in 0..MaxSubmits
      BY <2>1, StreamAssumption, FifoType
         DEF TypeOK, StreamTypeOK, ReadInv, Taken, FlushLabels, OwnLabels, CountInv
    <3>2. queue' \in Seq(Transfers) /\ Len(queue') <= Count
      BY <2>1, <1>f, NoneIsNone DEF TypeOK, StreamTypeOK, CountInv, Taken
    <3>. QED
      BY <2>1, <3>1, <3>2, <1>f, SubmittedTypes DEF TypeOK, StreamTypeOK
  <2>2. CASE pc' = "free"
    BY <2>2 DEF TypeOK, StreamTypeOK, Errors
  <2>. QED
    BY <2>1, <2>2
<1>2. OrderInv'
  BY UnmovedKeepsOrder, PutBackKeepsOrder DEF TypeOK, CallInv
<1>3. CallInv'
  BY DEF CallInv, OwnLabels, TakenOut
<1>4. SubmitAllInv'
  BY DEF SubmitAllInv
<1>5. CountInv'
  BY DEF CallInv, OwnLabels, FlushLabels, CountInv, Taken
<1>6. ReadInv'
  <2>1. CASE pc' = "idle"
    <3>1. Taken = 1 /\ Taken' = 0
      BY <2>1, NoneIsNone, <1>f DEF Taken, OwnLabels
    <3>2. Len(queue') = Len(queue) + 1 /\ submits' = submits + 1 /\ consumed' = consumed + 1
      BY <2>1, <1>f
    <3>3. Len(queue) \in Nat /\ submits \in Int /\ consumed \in Int
      BY FifoType DEF TypeOK, StreamTypeOK
    <3>. QED
      BY <2>1, <3>1, <3>2, <3>3 DEF ReadInv, FlushLabels
  <2>2. CASE pc' = "free"
    BY <2>2 DEF ReadInv, Taken, OwnLabels, FlushLabels
  <2>. QED
    BY <2>1, <2>2
<1>7. PlaceInv'
  <2>1. CASE pc' = "idle"
    <3>1. ~TakenOut(t)' /\ \A s \in Transfers : ~TakenOut(s) => ~TakenOut(s)'
      BY <1>f, <2>1, PutBackPlaces DEF TypeOK
    <3>. QED
      BY <2>1, <3>1, <1>f DEF TypeOK, StreamTypeOK, PlaceInv, OwnLabels
  <2>2. CASE pc' = "free"
    BY <2>2 DEF PlaceInv, TakenOut, OwnLabels
  <2>. QED
    BY <2>1, <2>2
<1>. QED
  BY <1>1, <1>2, <1>3, <1>4, <1>5, <1>6, <1>7

LEMMA ReadFreeKeeps ==
  ASSUME IInv, ReadFree
  PROVE  IInv'
<1>. USE DEF IInv, ReadFree, GotoWith, Goto, Freed, streamVars
<1>1. TypeOK'
  BY StreamAssumption DEF TypeOK, StreamTypeOK, Errors, CallInv, ReadInv, OwnLabels,
         FlushLabels
<1>2. OrderInv'
  BY OwnKeepsOrder DEF TypeOK, CallInv
<1>3. CallInv'
  BY DEF CallInv, OwnLabels
<1>4. SubmitAllInv'
  BY DEF SubmitAllInv
<1>5. CountInv'
  BY DEF TypeOK, StreamTypeOK, CallInv, FlushLabels, CountInv, Taken
<1>6. ReadInv'
  <2>1. Taken = 1 /\ Taken' = 0
    BY DEF CallInv, Taken, OwnLabels
  <2>2. /\ Len(queue) \in Nat /\ submits \in Int /\ consumed \in Int
        /\ UNCHANGED <<queue, submits, isNil>> /\ consumed' = consumed + 1
    BY FifoType DEF TypeOK, StreamTypeOK
  <2>. QED
    BY <2>1, <2>2 DEF ReadInv, FlushLabels
<1>7. PlaceInv'
  BY DEF TypeOK, StreamTypeOK, CallInv, OwnLabels, PlaceInv, TakenOut
<1>. QED
  BY <1>1, <1>2, <1>3, <1>4, <1>5, <1>6, <1>7

LEMMA CloseKeeps ==
  ASSUME IInv, Close
  PROVE  IInv'
<1>. USE DEF IInv, Close, gotError, noMore, transferVars, callVars, readVars
<1>1. TypeOK'
  BY DEF TypeOK, StreamTypeOK, Errors
<1>2. OrderInv'
  BY UnmovedKeepsOrder DEF TypeOK
<1>3. CallInv'
  BY DEF CallInv, TakenOut
<1>4. SubmitAllInv'
  BY DEF SubmitAllInv
<1>5. CountInv'
  BY DEF CountInv, Taken
<1>6. ReadInv'
  BY DEF ReadInv, Taken
<1>7. PlaceInv'
  BY DEF PlaceInv, TakenOut
<1>. QED
  BY <1>1, <1>2, <1>3, <1>4, <1>5, <1>6, <1>7

-----------------------------------------------------------------------------
(* The operations of stream, the device and the context *)

\* As in ReadReceive; no order is promised any more, but the transfer has a place.
LEMMA FlushCancelKeeps ==
  ASSUME IInv, FlushCancel, UNCHANGED readVars
  PROVE  IInv'
<1>r. queue' \in Seq(Transfers) /\ Len(queue') <= Count /\ cur' \in Transfers
  BY ReceiveTypes DEF IInv, TypeOK, FlushCancel
<1>f. /\ queue' \in Seq(Transfers) /\ Len(queue') = Len(queue) - 1 /\ Len(queue) \in Nat
      /\ cur' = queue[1] /\ 1 \in DOMAIN queue /\ cur' \in Transfers
      /\ DOMAIN queue = 1..Len(queue) /\ DOMAIN queue' = 1..(Len(queue) - 1)
      /\ \A i \in DOMAIN queue' : i + 1 \in DOMAIN queue /\ queue'[i] = queue[i + 1]
  <2>1. queue \in Seq(Transfers) /\ queue # <<>> /\ queue' = Tail(queue) /\ cur' = Head(queue)
    BY DEF IInv, TypeOK, StreamTypeOK, FlushCancel, Receive, GotoWith
  <2>. QED
    BY <2>1, FifoTail, FifoType
<1>. USE DEF IInv, FlushCancel, GotoWith, Cancelled, Receive, FlushCancels, readVars
<1>1. TypeOK'
  <2>1. queue' \in Seq(Transfers) /\ Len(queue') <= Count /\ cur' \in Transfers
    BY <1>r
  <2>2. UNCHANGED <<phase, result, number, submits, finished, isNil, err, ctxDone, ret>>
    OBVIOUS
  <2>3. pc' \in {"wait", "flushwait"} /\ cancel' \in [Transfers -> Answers]
    BY DEF TypeOK, StreamTypeOK
  <2>. QED
    BY <2>1, <2>2, <2>3 DEF TypeOK, StreamTypeOK
<1>2. OrderInv'
  BY ReceiveKeepsOrder DEF TypeOK
<1>3. CallInv'
  BY <1>2, <1>f DEF TypeOK, StreamTypeOK, CallInv, OrderInv, OwnLabels
<1>4. SubmitAllInv'
  BY DEF SubmitAllInv
<1>5. CountInv'
  BY DEF CallInv, OwnLabels, FlushLabels, CountInv, Taken
<1>6. ReadInv'
  BY DEF TypeOK, CallInv, OwnLabels, FlushLabels, ReadInv, Taken
<1>7. PlaceInv'
  <2>1. \A s \in Transfers : ~TakenOut(s) => s = cur' \/ ~TakenOut(s)'
    BY ReceiveTakesOut DEF TypeOK
  <2>. QED
    BY <2>1 DEF PlaceInv, CallInv, OwnLabels
<1>. QED
  BY <1>1, <1>2, <1>3, <1>4, <1>5, <1>6, <1>7

LEMMA FlushWaitKeeps ==
  ASSUME IInv, FlushWait, UNCHANGED readVars
  PROVE  IInv'
<1>. USE DEF IInv, FlushWait, GotoWith, Goto, CanReturn, Waited, FlushWaits, streamVars,
              NoResult, readVars
<1>1. TypeOK'
  BY StreamAssumption DEF TypeOK, StreamTypeOK, Results, Errors, CallInv, ReadInv,
         OwnLabels, FlushLabels
<1>2. OrderInv'
  BY OwnKeepsOrder DEF TypeOK, CallInv, OwnLabels
<1>3. CallInv'
  BY DEF TypeOK, StreamTypeOK, CallInv, TakenOut, OrderInv, IsSubmission
<1>4. SubmitAllInv'
  BY DEF SubmitAllInv
<1>5. CountInv'
  BY DEF OwnLabels, FlushLabels, CountInv, Taken
<1>6. ReadInv'
  BY DEF OwnLabels, FlushLabels, ReadInv, Taken
<1>7. PlaceInv'
  BY DEF OwnLabels, PlaceInv, TakenOut
<1>. QED
  BY <1>1, <1>2, <1>3, <1>4, <1>5, <1>6, <1>7

LEMMA FlushFreeKeeps ==
  ASSUME IInv, FlushFree, UNCHANGED readVars
  PROVE  IInv'
<1>. USE DEF IInv, FlushFree, GotoWith, Freed, streamVars, readVars
<1>1. TypeOK'
  BY DEF TypeOK, StreamTypeOK
<1>2. OrderInv'
  BY OwnKeepsOrder DEF TypeOK, CallInv, OwnLabels
<1>3. CallInv'
  BY DEF CallInv, OwnLabels
<1>4. SubmitAllInv'
  BY DEF SubmitAllInv
<1>5. CountInv'
  BY DEF TypeOK, StreamTypeOK, OwnLabels, FlushLabels, CountInv, Taken
<1>6. ReadInv'
  BY DEF TypeOK, StreamTypeOK, OwnLabels, FlushLabels, ReadInv, Taken
<1>7. PlaceInv'
  BY DEF TypeOK, StreamTypeOK, CallInv, PlaceInv, TakenOut
<1>. QED
  BY <1>1, <1>2, <1>3, <1>4, <1>5, <1>6, <1>7

LEMMA WaitCancelsKeeps ==
  ASSUME IInv, WaitCancels, UNCHANGED readVars
  PROVE  IInv'
<1>. USE DEF IInv, WaitCancels, Cancelled, CanReturn, streamVars, callVars, readVars
<1>1. TypeOK'
  BY DEF TypeOK, StreamTypeOK, CallInv, OwnLabels
<1>2. OrderInv'
  BY UnmovedKeepsOrder DEF TypeOK
<1>3. CallInv'
  BY DEF CallInv, TakenOut
<1>4. SubmitAllInv'
  BY DEF SubmitAllInv
<1>5. CountInv'
  BY DEF CountInv, Taken
<1>6. ReadInv'
  BY DEF ReadInv, Taken
<1>7. PlaceInv'
  BY DEF PlaceInv, TakenOut
<1>. QED
  BY <1>1, <1>2, <1>3, <1>4, <1>5, <1>6, <1>7

LEMMA CtxEndsKeeps ==
  ASSUME IInv, CtxEnds, UNCHANGED readVars
  PROVE  IInv'
<1>. USE DEF IInv, CtxEnds, CanReturn, transferVars, streamVars, readVars
<1>1. TypeOK'
  BY DEF TypeOK, StreamTypeOK
<1>2. OrderInv'
  BY UnmovedKeepsOrder DEF TypeOK
<1>3. CallInv'
  BY DEF CallInv, TakenOut
<1>4. SubmitAllInv'
  BY DEF SubmitAllInv
<1>5. CountInv'
  BY DEF CountInv, Taken
<1>6. ReadInv'
  BY DEF ReadInv, Taken
<1>7. PlaceInv'
  BY DEF PlaceInv, TakenOut
<1>. QED
  BY <1>1, <1>2, <1>3, <1>4, <1>5, <1>6, <1>7

\* The device finishes a transfer wherever it is: only its phase and result change.
LEMMA FinishKeeps ==
  ASSUME IInv, NEW t \in Transfers, Finish(t), UNCHANGED readVars
  PROVE  IInv'
<1>. USE DEF IInv, Finish, streamVars, callVars, readVars
<1>1. TypeOK'
  <2>1. StreamTypeOK'
    BY DEF TypeOK, StreamTypeOK, Answers
  <2>. QED
    BY <2>1 DEF TypeOK
<1>2. OrderInv'
  BY FinishKeepsOrder DEF TypeOK
<1>3. CallInv'
  BY DEF CallInv, TakenOut
<1>4. SubmitAllInv'
  BY DEF SubmitAllInv
<1>5. CountInv'
  BY DEF CountInv, Taken
<1>6. ReadInv'
  BY DEF ReadInv, Taken
<1>7. PlaceInv'
  BY DEF PlaceInv, TakenOut
<1>. QED
  BY <1>1, <1>2, <1>3, <1>4, <1>5, <1>6, <1>7

-----------------------------------------------------------------------------
(* Every step keeps the invariant. *)

LEMMA InitGives == Init => IInv
<1>. SUFFICES ASSUME Init PROVE IInv
  OBVIOUS
<1>1. /\ todo \in Seq(Transfers) /\ Len(todo) = Count /\ Count \in Nat
      /\ \A i \in DOMAIN todo : todo[i] = i
  BY FifoAll, StreamAssumption DEF Init
<1>2. /\ queue = <<>> /\ queue \in Seq(Transfers) /\ Len(queue) = 0
      /\ DOMAIN queue = {}
  BY EmptySeq DEF Init
<1>3. NoResult \in Results
  BY StreamAssumption DEF NoResult, Results
<1>4. StreamTypeOK
  <2>1. /\ phase \in [Transfers -> {"idle", "inflight", "finished", "freed"}]
        /\ result \in [Transfers -> Results]
        /\ number \in [Transfers -> 0..MaxSubmits] /\ submits \in 0..MaxSubmits
    BY <1>3, StreamAssumption DEF Init, StreamInit
  <2>2. ret.n \in Int /\ ret.err \in Errors
    BY DEF Init, StreamInit, NoResult, Errors
  <2>3. queue \in Seq(Transfers) /\ Len(queue) <= Count
    BY <1>1, <1>2
  <2>4. /\ cancel \in [Transfers -> Answers] /\ finished \in BOOLEAN /\ isNil \in BOOLEAN
        /\ err \in Errors \ {"ErrClosedPipe"} /\ cur \in Transfers \cup {None}
        /\ ctxDone \in BOOLEAN
    BY DEF Init, StreamInit, Errors, Answers
  <2>. QED
    BY <2>1, <2>2, <2>3, <2>4 DEF StreamTypeOK
<1>8. TypeOK
  BY <1>1, <1>4, StreamAssumption, ReadAssumption DEF Init, TypeOK
<1>5. OrderInv /\ CallInv /\ PlaceInv
  BY <1>2 DEF Init, StreamInit, OrderInv, InOrder, CallInv, PlaceInv, OwnLabels
<1>6. SubmitAllInv
  BY <1>1, <1>2 DEF Init, StreamInit, SubmitAllInv
<1>7. CountInv /\ ReadInv
  BY <1>2 DEF Init, StreamInit, CountInv, ReadInv, Taken, OwnLabels, FlushLabels
<1>. QED
  BY <1>5, <1>6, <1>7, <1>8 DEF IInv

LEMMA StutterKeeps ==
  ASSUME IInv, UNCHANGED vars
  PROVE  IInv'
<1>. USE DEF IInv, vars, transferVars, streamVars, callVars, readVars
<1>1. TypeOK'
  BY DEF TypeOK, StreamTypeOK
<1>2. OrderInv' /\ CallInv' /\ PlaceInv'
  BY DEF OrderInv, InOrder, IsSubmission, TakenOut, CallInv, PlaceInv
<1>3. SubmitAllInv' /\ CountInv' /\ ReadInv'
  BY DEF SubmitAllInv, CountInv, ReadInv, Taken
<1>. QED
  BY <1>1, <1>2, <1>3

LEMMA StepKeeps ==
  ASSUME IInv, [Next]_vars
  PROVE  IInv'
<1>1. CASE Environment
  <2>1. CASE CtxEnds /\ UNCHANGED readVars
    BY <2>1, CtxEndsKeeps
  <2>2. ASSUME NEW t \in Transfers, Finish(t), UNCHANGED readVars
        PROVE  IInv'
    BY <2>2, FinishKeeps
  <2>. QED
    BY <1>1, <2>1, <2>2 DEF Environment
<1>2. CASE Running
  <2>1. CASE SubmitAllNext \/ SubmitAllFailed \/ SubmitAllDone
    BY <2>1, SubmitAllNextKeeps, SubmitAllFailedKeeps, SubmitAllDoneKeeps
  <2>2. CASE ReadWaitOK \/ ReadWaitFails \/ ReadFreeFailed
    BY <2>2, ReadWaitOKKeeps, ReadWaitFailsKeeps, ReadFreeFailedKeeps
  <2>3. CASE (WaitCancels \/ Flush) /\ UNCHANGED readVars
    BY <2>3, WaitCancelsKeeps, FlushCancelKeeps, FlushWaitKeeps, FlushFreeKeeps DEF Flush
  <2>4. CASE ReadFlushed \/ ReadCopy \/ ReadResubmit \/ ReadFree
    BY <2>4, ReadFlushedKeeps, ReadCopyKeeps, ReadResubmitKeeps, ReadFreeKeeps
  <2>. QED
    BY <1>2, <2>1, <2>2, <2>3, <2>4 DEF Running
<1>3. CASE Calls
  BY <1>3, ReadAfterEndKeeps, ReadReceiveKeeps, ReadEndsKeeps, ReadMoreKeeps, CloseKeeps
     DEF Calls
<1>4. CASE UNCHANGED vars
  BY <1>4, StutterKeeps
<1>. QED
  BY <1>1, <1>2, <1>3, <1>4 DEF Next

\* In every state of every stream: the fifo holds the submissions in order, what is
\* not in it is with the reader, and none is lost while there is no error.
THEOREM ReadStreamInvariant == Spec => []IInv
BY InitGives, StepKeeps, PTL DEF Spec

-----------------------------------------------------------------------------
(* What follows from it. *)

\* The variables have their types: the fifo never holds more than its capacity, and
\* what is used of a transfer stays within what it received.
THEOREM ReadStreamTypeCorrect == Spec => []TypeOK
<1>1. IInv => TypeOK
  BY DEF IInv
<1>. QED
  BY <1>1, ReadStreamInvariant, PTL

\* Read hands out the submissions in the order they were made, each once and all of
\* it, though the device finishes them in any order.
THEOREM ReadStreamReadsInOrder == Spec => []ReadsInOrder
<1>1. ASSUME IInv PROVE ReadsInOrder
  <2>1. InOrder /\ (current # None => number[current] = consumed + 1)
    BY <1>1 DEF IInv, OrderInv, ReadInv
  <2>2. ASSUME pc = "wait" PROVE number[cur] = consumed + 1
    <3>1. IsSubmission(cur, submits - Len(queue))
      BY <1>1, <2>2 DEF IInv, OrderInv
    <3>2. ~isNil /\ Taken = 1
      BY <1>1, <2>2 DEF IInv, CountInv, Taken, OwnLabels
    <3>3. consumed + 1 + Len(queue) = submits
      BY <1>1, <2>2, <3>2 DEF IInv, ReadInv, FlushLabels
    <3>4. consumed \in Nat /\ submits \in Int /\ Len(queue) \in Int
      BY <1>1, FifoType, StreamAssumption DEF IInv, TypeOK, StreamTypeOK
    <3>. QED
      BY <3>1, <3>3, <3>4 DEF IsSubmission
  <2>. QED
    BY <2>1, <2>2 DEF ReadsInOrder
<1>. QED
  BY <1>1, ReadStreamInvariant, PTL

\* A transfer is put back into a fifo that is open and has room, and a read that
\* finds the fifo empty finds it closed with an error: neither blocks for good,
\* whatever submissions and transfers failed before.
THEOREM ReadStreamFifoNeverBlocks == Spec => []FifoNeverBlocks
<1>1. ASSUME IInv PROVE FifoNeverBlocks
  <2>1. /\ Len(queue) \in Nat /\ Count \in Nat \ {0} /\ submits \in Int
        /\ queue = <<>> <=> Len(queue) = 0
    BY <1>1, FifoType, StreamAssumption DEF IInv, TypeOK, StreamTypeOK
  <2>2. ASSUME pc = "submitAll" PROVE Len(queue) + Len(todo) <= Count /\ ~finished
    <3>1. Len(queue) = submits /\ Len(todo) = Count - submits /\ err = "nil" /\ ~isNil
      BY <1>1, <2>2 DEF IInv, SubmitAllInv, CallInv, CountInv
    <3>. QED
      BY <1>1, <2>1, <2>2, <3>1 DEF IInv, CountInv, FlushLabels
  <2>3. ASSUME pc = "resubmit" PROVE Len(queue) < Count /\ ~finished
    <3>1. current # None /\ err = "nil" /\ ~isNil
      BY <1>1, <2>3 DEF IInv, CallInv, CountInv
    <3>. QED
      BY <1>1, <2>1, <2>3, <3>1 DEF IInv, CountInv, Taken, FlushLabels
  <2>4. ASSUME pc = "idle", ~isNil, current = None, queue = <<>>
        PROVE  finished /\ err # "nil"
    BY <1>1, <2>1, <2>4 DEF IInv, CountInv, Taken, OwnLabels, FlushLabels
  <2>. QED
    BY <2>2, <2>3, <2>4 DEF FifoNeverBlocks
<1>. QED
  BY <1>1, ReadStreamInvariant, PTL

\* Whichever way a stream ends, it has freed every transfer it ever submitted.
THEOREM ReadStreamEndsClean == Spec => []EndsClean
<1>1. ASSUME IInv PROVE EndsClean
  <2>. SUFFICES ASSUME isNil, NEW t \in Transfers, phase[t] # "freed", number[t] # 0
                PROVE  FALSE
    BY DEF EndsClean
  <2>1. pc = "idle" /\ current = None /\ queue = <<>>
    BY <1>1 DEF IInv, CountInv
  <2>2. TakenOut(t)
    BY <2>1, EmptySeq DEF TakenOut
  <2>3. t \in Transfers /\ None \notin Transfers
    BY NoneIsNone
  <2>. QED
    BY <1>1, <2>1, <2>2, <2>3 DEF IInv, PlaceInv, OwnLabels
<1>. QED
  BY <1>1, ReadStreamInvariant, PTL

\* Every step of a ReadStream is one that TransferProtocol allows, or does nothing to
\* the transfers: it submits and frees only idle ones, never one it has freed, and
\* collects each result before it uses the transfer again.
THEOREM ReadStreamUsesProtocol == Spec => UsesProtocol
<1>1. ASSUME IInv, [Next]_vars PROVE Obeys
  <2>. USE DEF readVars, streamVars, callVars
  <2>0. StreamTypeOK /\ cur \in Transfers \cup {None} /\ current \in Transfers \cup {None}
    BY <1>1 DEF IInv, TypeOK, StreamTypeOK
  <2>1. CASE SubmitAllNext
    <3>1. CASE Submitted(Head(todo))
      <4>1. PICK t \in Transfers : t = Head(todo) /\ phase[t] = "idle"
        BY <1>1, <2>1, TodoHead DEF SubmitAllNext
      <4>. QED
        BY <2>0, <3>1, <4>1, SubmittedObeys
    <3>2. CASE UNCHANGED phase
      BY <3>2, UnmovedObeys
    <3>. QED
      BY <2>1, <3>1, <3>2 DEF SubmitAllNext, transferVars
  <2>2. CASE SubmitAllFailed
    <3>1. PICK t \in Transfers : t = Head(todo)
      BY <1>1, <2>2, TodoHead DEF SubmitAllFailed, IInv, SubmitAllInv
    <3>. QED
      BY <2>0, <2>2, <3>1, FreedObeys DEF SubmitAllFailed
  <2>3. CASE ReadWaitOK \/ ReadWaitFails
    <3>1. cur \in Transfers /\ Waited(cur)
      BY <1>1, <2>3 DEF IInv, CallInv, OwnLabels, ReadWaitOK, ReadWaitFails, Collected
    <3>. QED
      BY <2>0, <3>1, WaitedObeys
  <2>4. CASE ReadFreeFailed
    <3>1. cur \in Transfers /\ Freed(cur)
      BY <1>1, <2>4 DEF IInv, CallInv, OwnLabels, ReadFreeFailed
    <3>. QED
      BY <2>0, <3>1, FreedObeys
  <2>5. CASE ReadResubmit
    <3>1. CASE Submitted(current)
      <4>1. current \in Transfers /\ phase[current] = "idle"
        BY <1>1, <2>0, <2>5 DEF IInv, CallInv, ReadResubmit
      <4>. QED
        BY <2>0, <3>1, <4>1, SubmittedObeys
    <3>2. CASE UNCHANGED phase
      BY <3>2, UnmovedObeys
    <3>. QED
      BY <2>5, <3>1, <3>2 DEF ReadResubmit, transferVars
  <2>6. CASE ReadFree
    <3>1. current \in Transfers /\ Freed(current)
      BY <1>1, <2>0, <2>6 DEF IInv, CallInv, ReadFree
    <3>. QED
      BY <2>0, <3>1, FreedObeys
  <2>7. CASE FlushWait
    <3>1. cur \in Transfers /\ Waited(cur)
      BY <1>1, <2>7 DEF IInv, CallInv, OwnLabels, FlushWait, FlushWaits
    <3>. QED
      BY <2>0, <3>1, WaitedObeys
  <2>8. CASE FlushFree
    <3>1. cur \in Transfers /\ Freed(cur)
      BY <1>1, <2>8 DEF IInv, CallInv, OwnLabels, FlushFree
    <3>. QED
      BY <2>0, <3>1, FreedObeys
  <2>9. ASSUME NEW t \in Transfers, Finish(t) PROVE Obeys
    BY <2>0, <2>9, FinishObeys
  <2>10. CASE UNCHANGED phase
    BY <2>10, UnmovedObeys
  <2>11. FlushCancel \/ WaitCancels \/ CtxEnds => UNCHANGED phase
    BY DEF FlushCancel, FlushCancels, WaitCancels, Cancelled, CtxEnds, transferVars
  <2>12. SubmitAllDone \/ ReadFlushed \/ ReadCopy \/ Calls \/ UNCHANGED vars => UNCHANGED phase
    BY DEF SubmitAllDone, ReadFlushed, ReadCopy, Calls, ReadAfterEnd, ReadReceive, ReadEnds,
           ReadMore, Close, vars, transferVars
  <2>. QED
    BY <1>1, <2>1, <2>2, <2>3, <2>4, <2>5, <2>6, <2>7, <2>8, <2>9, <2>10, <2>11, <2>12
       DEF Next, Environment, Running, Flush
<1>2. Spec => [][Obeys]_vars
  BY <1>1, ReadStreamInvariant, PTL DEF Spec
<1>. QED
  BY <1>1, ReadStreamInvariant, PTL DEF Spec, UsesProtocol, Obeys
=============================================================================
