-------------------------- MODULE WriteStreamProofs --------------------------
(***************************************************************************)
(* WriteStream with any number of transfers, buffers of any size and       *)
(* writes of any length: no buffer is used that libusb has, no failure is  *)
(* hidden by a Close without error, and the transfers are given back.      *)
(***************************************************************************)
EXTENDS WriteStream, StreamProofs, WellFoundedInduction

(* The inductive invariant. *)

\* Where cur is the transfer of the goroutine alone, and where it is no longer, or
\* not yet again, submitted.
IdleLabels == {"submit", "submitFailed", "waitFailed", "closeFree", "closeFreeFailed", "flushfree"}
OwnLabels == IdleLabels \cup {"wait", "flushwait"}
FlushLabels == {"flush", "flushwait", "flushfree"}
CloseLabels == {"closeFree", "closeFreeFailed", "closeFreeAgain"}

\* What a call works on at each label.
CallInv ==
    /\ pc \in OwnLabels \cup {"closeFreeAgain"} => cur \in Transfers /\ TakenOut(cur)
    /\ pc \in IdleLabels => phase[cur] = "idle"
    /\ pc = "closeFreeAgain" => phase[cur] = "freed"
    /\ closing => finished /\ pc \in {"next", "wait"} \cup CloseLabels \cup FlushLabels
    /\ pc \in CloseLabels => closing
    /\ pc \in {"waitFailed", "closeFreeFailed"} => ret.err = "transfer"
    /\ pc \in FlushLabels => err # "nil"
    /\ isNil => pc = "idle" /\ queue = <<>>

\* While there is no error and the stream is not closed, every transfer is in the
\* fifo, but for the one of the call.
CountInv ==
    /\ pc = "idle" /\ ~isNil /\ err = "nil" => ~finished /\ Len(queue) = Count
    /\ pc = "next" /\ ~closing => ~finished /\ err = "nil" /\ Len(queue) = Count
    /\ pc \in {"wait", "submit", "submitFailed", "waitFailed"} /\ ~closing =>
         ~finished /\ err = "nil" /\ Len(queue) = Count - 1

\* What was not freed is in the fifo, or with the call.
PlaceInv ==
    \A t \in Transfers :
        phase[t] # "freed" => ~TakenOut(t) \/ (pc \in OwnLabels /\ t = cur)

\* No two transfers carry the same submission.
NumberInv ==
    /\ \A t \in Transfers : number[t] <= submits
    /\ \A t \in Transfers : phase[t] \in {"inflight", "finished"} => number[t] > 0
    /\ \A s, t \in Transfers : number[s] = number[t] => s = t \/ number[t] = 0

\* Submissions up to this one have left the fifo and were waited for.
LastLeft == submits - Len(queue) - (IF pc = "wait" THEN 1 ELSE 0)

\* What has not finished is not known.
OutcomeInv ==
    /\ \A k \in submits + 1..MaxSubmits : ~Known(k)
    /\ \A t \in Transfers : phase[t] = "inflight" => ~Known(number[t])
    /\ \A t \in Transfers : phase[t] = "finished" => outcome[number[t]] = result[t]

\* The first k submissions were successful.
Good(k) == \A i \in 1..k : outcome[i].err = "nil"

\* All submissions that have left the fifo were successful, and were counted.
AllCounted == Good(LastLeft) /\ total = Reported(IF LastLeft > 0 THEN LastLeft ELSE 0)

\* One failed, and it and those before it were counted.
CountEnded ==
    \E k \in 1..submits : Failed(k) /\ Good(k - 1) /\ total = Reported(k)

\* With the first failure the counting ends, and the rest is flushed.
WrittenInv ==
    IF pc \in {"waitFailed", "closeFreeFailed"} \cup FlushLabels THEN CountEnded
    ELSE \/ AllCounted
         \/ CountEnded /\ err # "nil" /\ pc \in {"idle", "next"} /\ queue = <<>>

\* The most that k submissions can carry.
Most(k) == IF k > 0 THEN BufSize * k ELSE 0

\* Only they were counted, and a call sends no more than it was given.
TotalInv ==
    /\ total <= Most(LastLeft)
    /\ left + written <= MaxWrite

IInv ==
    /\ TypeOK
    /\ OrderInv
    /\ CallInv
    /\ CountInv
    /\ PlaceInv
    /\ NumberInv
    /\ OutcomeInv
    /\ WrittenInv
    /\ TotalInv

-----------------------------------------------------------------------------
(* Numbers of submissions and bytes. *)

LEMMA LeastNat ==
  ASSUME NEW T \in SUBSET Nat, T # {}
  PROVE  \E n \in T : \A m \in T : n <= m
<1>1. PICK n \in T : \A m \in T : ~(<<m, n>> \in OpToRel(<, Nat))
  BY NatLessThanWellFounded, WFMin
<1>2. \A m \in T : ~(m < n)
  BY <1>1 DEF OpToRel
<1>. QED
  BY <1>2

\* f has the sums of the first n results.
HasSums(f, results, n) ==
    f = [k \in 0..n |-> IF k = 0 THEN 0 ELSE f[k - 1] + results[k].n]

\* Sums has them: there is no least n for which no function has.
LEMMA SumsAreSums ==
  ASSUME NEW results
  PROVE  HasSums(Sums(results), results, MaxSubmits)
<1>. DEFINE Without == {n \in Nat : ~\E f : HasSums(f, results, n)}
<1>1. Without = {}
  <2>. SUFFICES ASSUME Without # {} PROVE FALSE
    OBVIOUS
  <2>1. PICK n \in Without : \A m \in Without : n <= m
    BY LeastNat
  <2>2. n # 0
    <3>. DEFINE f == [k \in 0..0 |-> 0]
    <3>1. HasSums(f, results, 0)
      BY DEF HasSums
    <3>. QED
      BY <3>1
  <2>3. PICK f : HasSums(f, results, n - 1)
    BY <2>1, <2>2
  <2>. DEFINE g == [k \in 0..n |-> IF k = n THEN f[n - 1] + results[n].n ELSE f[k]]
  <2>4. HasSums(g, results, n)
    <3>1. ASSUME NEW k \in 0..n
          PROVE  g[k] = IF k = 0 THEN 0 ELSE g[k - 1] + results[k].n
      BY <2>2, <2>3, <3>1 DEF HasSums
    <3>. QED
      BY <3>1 DEF HasSums
  <2>. QED
    BY <2>1, <2>4
<1>2. \E f : HasSums(f, results, MaxSubmits)
  BY <1>1, StreamAssumption
<1>. QED
  BY <1>2 DEF Sums, HasSums

LEMMA SumsStep ==
  ASSUME NEW results
  PROVE  /\ Sums(results)[0] = 0
         /\ \A k \in 1..MaxSubmits : Sums(results)[k] = Sums(results)[k - 1] + results[k].n
<1>1. \A k \in 0..MaxSubmits :
        Sums(results)[k] = IF k = 0 THEN 0 ELSE Sums(results)[k - 1] + results[k].n
  BY SumsAreSums DEF HasSums
<1>. QED
  BY <1>1, StreamAssumption

\* Later results do not matter.
LEMMA SumsSame ==
  ASSUME NEW r, NEW s, NEW n \in 0..MaxSubmits, \A k \in 1..n : r[k] = s[k]
  PROVE  Sums(r)[n] = Sums(s)[n]
<1>. DEFINE Differ == {k \in 0..n : Sums(r)[k] # Sums(s)[k]}
<1>1. Differ = {}
  <2>. SUFFICES ASSUME Differ # {} PROVE FALSE
    OBVIOUS
  <2>1. PICK k \in Differ : \A m \in Differ : k <= m
    <3>1. Differ \in SUBSET Nat
      OBVIOUS
    <3>. QED
      BY <3>1, LeastNat
  <2>2. k # 0
    BY SumsStep
  <2>3. k - 1 \in 0..n /\ k - 1 \notin Differ /\ k \in 1..MaxSubmits
    BY <2>1, <2>2, StreamAssumption
  <2>4. Sums(r)[k - 1] = Sums(s)[k - 1] /\ r[k] = s[k]
    BY <2>1, <2>3
  <2>. QED
    BY <2>1, <2>3, <2>4, SumsStep
<1>. QED
  BY <1>1, StreamAssumption

LEMMA LastLeftType ==
  ASSUME TypeOK
  PROVE  /\ LastLeft \in Int /\ LastLeft <= submits /\ submits \in 0..MaxSubmits
         /\ MaxSubmits \in Nat /\ Len(queue) \in Nat
<1>1. Len(queue) \in Nat /\ submits \in 0..MaxSubmits /\ MaxSubmits \in Nat
  BY FifoType, StreamAssumption DEF TypeOK, StreamTypeOK
<1>. QED
  BY <1>1 DEF LastLeft

LEMMA MostGrows ==
  ASSUME NEW k \in Int, NEW l \in Int, k <= l
  PROVE  Most(k) \in Nat /\ Most(k) <= Most(l)
<1>1. ASSUME k > 0
      PROVE  BufSize * k \in Nat /\ BufSize * k <= BufSize * l
  <2>1. BufSize \in Nat /\ k \in Nat /\ l \in Nat /\ l - k \in Nat
    BY <1>1, StreamAssumption
  <2>2. BufSize * l = BufSize * k + BufSize * (l - k)
    BY <2>1
  <2>3. BufSize * (l - k) \in Nat /\ BufSize * k \in Nat
    BY <2>1
  <2>. QED
    BY <2>2, <2>3
<1>2. ASSUME l > 0 PROVE BufSize * l \in Nat
  BY <1>2, StreamAssumption
<1>. QED
  BY <1>1, <1>2 DEF Most

LEMMA MostType ==
  ASSUME NEW k \in Int
  PROVE  Most(k) \in Nat
<1>1. k <= k
  OBVIOUS
<1>. QED
  BY <1>1, MostGrows

LEMMA MostOfOneMore ==
  ASSUME NEW k \in Int, NEW n \in 0..BufSize, k >= 0 \/ n = 0
  PROVE  Most(k) \in Nat /\ Most(k + 1) \in Nat /\ Most(k) + n <= Most(k + 1)
<1>0. Most(k) \in Nat /\ Most(k + 1) \in Nat
  BY MostType
<1>1. CASE k > 0
  <2>1. BufSize * (k + 1) = BufSize * k + BufSize
    BY <1>1, StreamAssumption
  <2>. QED
    BY <1>1, <2>1, StreamAssumption DEF Most
<1>2. CASE k = 0
  BY <1>2, StreamAssumption DEF Most
<1>3. CASE k < 0
  BY <1>3, MostGrows
<1>. QED
  BY <1>0, <1>1, <1>2, <1>3

\* What wait returns is what became of the next submission to leave the fifo, or
\* nothing for a transfer that was never submitted.
LEMMA WaitGives ==
  ASSUME IInv, pc = "wait", CanReturn(cur)
  PROVE  /\ cur \in Transfers /\ WaitResult(cur) \in Results
         /\ phase[cur] \in {"idle", "finished"}
         /\ LastLeft \in Int
         /\ LastLeft + 1 = submits - Len(queue)
         /\ IF LastLeft >= 0 THEN outcome[LastLeft + 1] = WaitResult(cur)
                             ELSE WaitResult(cur) = NoResult
<1>1. /\ cur \in Transfers /\ IsSubmission(cur, submits - Len(queue))
      /\ phase[cur] # "inflight"
  BY DEF IInv, OrderInv, CanReturn
<1>2. WaitResult(cur) \in Results
  BY <1>1, StreamAssumption DEF IInv, TypeOK, StreamTypeOK, WaitResult, NoResult, Results
<1>3. LastLeft \in Int /\ LastLeft + 1 = submits - Len(queue)
  BY LastLeftType DEF IInv, LastLeft
<1>4. CASE LastLeft >= 0
  <2>1. number[cur] = LastLeft + 1 /\ phase[cur] = "finished"
    BY <1>1, <1>3, <1>4 DEF IsSubmission
  <2>2. outcome[number[cur]] = result[cur]
    BY <1>1, <2>1 DEF IInv, OutcomeInv
  <2>. QED
    BY <1>1, <1>2, <1>3, <1>4, <2>1, <2>2 DEF WaitResult
<1>5. CASE LastLeft < 0
  <2>1. phase[cur] = "idle"
    BY <1>1, <1>3, <1>5 DEF IsSubmission
  <2>. QED
    BY <1>1, <1>2, <1>3, <1>5, <2>1 DEF WaitResult
<1>. QED
  BY <1>3, <1>4, <1>5

\* Its bytes are counted, and the submission has left.
LEMMA WaitCounts ==
  ASSUME IInv, pc = "wait", CanReturn(cur), Waited(cur), pc' # "wait", UNCHANGED queue,
         total' = total + WaitResult(cur).n
  PROVE  /\ cur \in Transfers /\ phase'[cur] = "idle"
         /\ LastLeft' = LastLeft + 1
         /\ total' \in 0..BufSize * MaxSubmits /\ total' <= Most(LastLeft')
<1>1. PICK n \in 0..BufSize :
        /\ n = WaitResult(cur).n /\ (LastLeft >= 0 \/ n = 0)
        /\ cur \in Transfers /\ phase[cur] \in {"idle", "finished"}
        /\ LastLeft \in Int /\ LastLeft + 1 = submits - Len(queue)
  BY WaitGives DEF Results, NoResult
<1>2. phase'[cur] = "idle"
  BY <1>1 DEF Waited, IInv, TypeOK, StreamTypeOK
<1>3. LastLeft' = LastLeft + 1 /\ LastLeft + 1 <= MaxSubmits
  <2>1. submits' = submits /\ submits \in 0..MaxSubmits /\ Len(queue) \in Nat /\ MaxSubmits \in Nat
    BY LastLeftType DEF IInv, Waited
  <2>. QED
    BY <1>1, <2>1 DEF LastLeft
<1>4. total' <= Most(LastLeft + 1)
  <2>1. total \in Nat /\ total <= Most(LastLeft) /\ n \in Nat
    BY <1>1, StreamAssumption DEF IInv, TypeOK, TotalInv
  <2>2. /\ Most(LastLeft) \in Nat /\ Most(LastLeft + 1) \in Nat
        /\ Most(LastLeft) + n <= Most(LastLeft + 1)
    BY <1>1, MostOfOneMore
  <2>3. total + n <= Most(LastLeft + 1)
    BY <2>1, <2>2
  <2>. QED
    BY <1>1, <2>3
<1>5. total' \in 0..BufSize * MaxSubmits
  <2>1. Most(LastLeft + 1) \in Nat /\ Most(LastLeft + 1) <= Most(MaxSubmits)
    BY <1>1, <1>3, MostGrows, StreamAssumption
  <2>2. Most(MaxSubmits) = BufSize * MaxSubmits /\ BufSize * MaxSubmits \in Nat
    BY StreamAssumption DEF Most
  <2>3. total' \in Nat
    <3>1. total \in Nat /\ n \in Nat
      BY <1>1, StreamAssumption DEF IInv, TypeOK
    <3>. QED
      BY <1>1, <3>1
  <2>. QED
    BY <1>4, <2>1, <2>2, <2>3
<1>. QED
  BY <1>1, <1>2, <1>3, <1>4, <1>5

\* If it was successful, all that have left are still counted; else that ends.
LEMMA WaitWritten ==
  ASSUME IInv, pc = "wait", CanReturn(cur), Waited(cur), pc' # "wait", UNCHANGED <<queue, outcome>>,
         total' = total + WaitResult(cur).n
  PROVE  IF WaitResult(cur).err = "nil" THEN AllCounted' ELSE CountEnded'
<1>1. PICK k \in Int, r \in Results :
        /\ k = LastLeft /\ r = WaitResult(cur)
        /\ k + 1 = submits - Len(queue)
        /\ IF k >= 0 THEN outcome[k + 1] = r ELSE r = NoResult
  BY WaitGives
<1>2. k + 1 <= submits /\ submits <= MaxSubmits /\ submits \in Int
  BY <1>1, LastLeftType DEF IInv
<1>3. LastLeft' = k + 1 /\ submits' = submits
  BY <1>1, WaitCounts DEF Waited
<1>4. (\A i \in 1..k : outcome[i].err = "nil") /\ total = Sums(outcome)[IF k > 0 THEN k ELSE 0]
  BY <1>1 DEF IInv, WrittenInv, FlushLabels, AllCounted, Good, Reported
<1>5. CASE k >= 0
  <2>1. total' = Sums(outcome)[k + 1]
    <3>1. k + 1 \in 1..MaxSubmits /\ (IF k > 0 THEN k ELSE 0) = k /\ k + 1 - 1 = k
      BY <1>1, <1>2, <1>5, StreamAssumption
    <3>2. Sums(outcome)[k + 1] = Sums(outcome)[k] + outcome[k + 1].n
      BY <3>1, SumsStep
    <3>. QED
      BY <1>1, <1>4, <1>5, <3>1, <3>2
  <2>2. CASE r.err = "nil"
    <3>1. \A i \in 1..k + 1 : outcome[i].err = "nil"
      BY <1>1, <1>4, <1>5, <2>2
    <3>. QED
      BY <1>1, <1>3, <1>5, <2>1, <2>2, <3>1 DEF AllCounted, Good, Reported
  <2>3. CASE r.err # "nil"
    <3>1. r.err = "transfer"
      BY <2>3 DEF Results
    <3>. QED
      BY <1>1, <1>2, <1>3, <1>4, <1>5, <2>1, <2>3, <3>1 DEF CountEnded, Good, Failed, Reported
  <2>. QED
    BY <2>2, <2>3
<1>6. CASE k < 0
  <2>1. r.n = 0 /\ r.err = "nil"
    BY <1>1, <1>6 DEF NoResult
  <2>2. total \in Int
    BY StreamAssumption DEF IInv, TypeOK
  <2>3. total' = Sums(outcome)[0]
    BY <1>1, <1>4, <1>6, <2>1, <2>2
  <2>. QED
    BY <1>1, <1>3, <1>6, <2>1, <2>3 DEF AllCounted, Good, Reported
<1>. QED
  BY <1>5, <1>6

-----------------------------------------------------------------------------
(* WriteContext *)

LEMMA WriteAfterErrorKeeps ==
  ASSUME IInv, WriteAfterError
  PROVE  IInv'
<1>. USE DEF IInv, WriteAfterError, Return, transferVars, streamVars, writeVars
<1>1. TotalInv'
  BY DEF TotalInv, LastLeft
<1>2. TypeOK'
  <2>1. ret'.n \in Int /\ ret'.err \in Errors
    BY StreamAssumption, WriteAssumption DEF TypeOK, StreamTypeOK, Errors
  <2>2. StreamTypeOK'
    BY <2>1 DEF TypeOK, StreamTypeOK, Errors, CallInv, OwnLabels, IdleLabels
  <2>. QED
    BY <2>2, WriteAssumption DEF TypeOK
<1>3. OrderInv'
  BY UnmovedKeepsOrder DEF TypeOK
<1>4. CallInv'
  BY DEF CallInv, OwnLabels, IdleLabels
<1>5. CountInv'
  BY DEF CountInv
<1>6. PlaceInv'
  BY DEF OwnLabels, IdleLabels, PlaceInv, TakenOut
<1>7. NumberInv'
  BY DEF NumberInv
<1>8. OutcomeInv'
  BY DEF OutcomeInv, Known
<1>9. WrittenInv'
  BY DEF WrittenInv, AllCounted, CountEnded, Good, Failed, Reported, LastLeft
<1>. QED
  BY <1>1, <1>2, <1>3, <1>4, <1>5, <1>6, <1>7, <1>8, <1>9

LEMMA WriteCallKeeps ==
  ASSUME IInv, WriteCall
  PROVE  IInv'
<1>w. left' + written' <= MaxWrite
  <2>1. PICK n \in 0..MaxWrite : left' = n
    BY DEF WriteCall
  <2>2. written' = 0 /\ MaxWrite \in Nat
    BY WriteAssumption DEF WriteCall
  <2>3. n + 0 <= MaxWrite
    BY <2>2
  <2>. QED
    BY <2>1, <2>2, <2>3
<1>. USE DEF IInv, WriteCall, GotoWith, Goto, transferVars, streamVars
<1>1. TotalInv'
  <2>1. LastLeft' = LastLeft
    BY DEF LastLeft
  <2>. QED
    BY <2>1, <1>w DEF TotalInv
<1>2. TypeOK'
  BY WriteAssumption DEF TypeOK, StreamTypeOK
<1>3. OrderInv'
  BY UnmovedKeepsOrder DEF TypeOK
<1>4. CallInv'
  BY DEF CallInv, OwnLabels, IdleLabels, FlushLabels, CloseLabels
<1>5. CountInv'
  BY DEF CountInv
<1>6. PlaceInv'
  BY DEF OwnLabels, IdleLabels, PlaceInv, TakenOut
<1>7. NumberInv'
  BY DEF NumberInv
<1>8. OutcomeInv'
  BY DEF OutcomeInv, Known
<1>9. WrittenInv'
  BY DEF FlushLabels, WrittenInv, AllCounted, Good, Reported, LastLeft
<1>. QED
  BY <1>1, <1>2, <1>3, <1>4, <1>5, <1>6, <1>7, <1>8, <1>9

LEMMA WriteDoneKeeps ==
  ASSUME IInv, WriteDone
  PROVE  IInv'
<1>. USE DEF IInv, WriteDone, Return, WriteEnds, transferVars, streamVars
<1>1. TotalInv'
  BY DEF TypeOK, TotalInv, LastLeft
<1>2. TypeOK'
  <2>1. ret'.n \in Int /\ ret'.err \in Errors
    BY StreamAssumption, WriteAssumption DEF TypeOK, StreamTypeOK, Errors
  <2>2. StreamTypeOK'
    BY <2>1 DEF TypeOK, StreamTypeOK, Errors, CallInv, OwnLabels, IdleLabels
  <2>. QED
    BY <2>2, WriteAssumption DEF TypeOK
<1>3. OrderInv'
  BY UnmovedKeepsOrder DEF TypeOK
<1>4. CallInv'
  BY DEF CallInv, OwnLabels, IdleLabels, FlushLabels, CloseLabels
<1>5. CountInv'
  BY DEF CountInv
<1>6. PlaceInv'
  BY DEF OwnLabels, IdleLabels, PlaceInv, TakenOut
<1>7. NumberInv'
  BY DEF NumberInv
<1>8. OutcomeInv'
  BY DEF OutcomeInv, Known
<1>9. WrittenInv'
  BY DEF FlushLabels, WrittenInv, AllCounted, Good, Reported, LastLeft, CountInv
<1>. QED
  BY <1>1, <1>2, <1>3, <1>4, <1>5, <1>6, <1>7, <1>8, <1>9

\* The transfer moves from the head of the fifo to the call.
LEMMA WriteReceiveKeeps ==
  ASSUME IInv, WriteReceive
  PROVE  IInv'
<1>f. /\ queue' \in Seq(Transfers) /\ Len(queue') = Len(queue) - 1
      /\ Len(queue) \in Nat /\ Len(queue') <= Count /\ cur' \in Transfers
  <2>1. /\ queue \in Seq(Transfers) /\ queue # <<>> /\ Len(queue) <= Count /\ Count \in Nat
        /\ queue' = Tail(queue) /\ cur' = Head(queue)
    BY StreamAssumption DEF IInv, TypeOK, StreamTypeOK, WriteReceive, Receive, GotoWith
  <2>. QED
    BY <2>1, FifoTail, FifoType
<1>. USE DEF IInv, WriteReceive, GotoWith, Receive, transferVars, writeVars
<1>1. TotalInv'
  BY DEF TypeOK, StreamTypeOK, TotalInv, LastLeft
<1>2. TypeOK'
  <2>1. cancel' \in [Transfers -> Answers]
    BY DEF TypeOK, StreamTypeOK
  <2>2. UNCHANGED <<phase, result, number, submits, finished, isNil, err, ctxDone, ret, writeVars>>
    OBVIOUS
  <2>3. pc' \in {"wait", "flushwait"}
    OBVIOUS
  <2>4. StreamTypeOK'
    BY <2>1, <2>2, <1>f DEF TypeOK, StreamTypeOK
  <2>. QED
    BY <2>2, <2>3, <2>4 DEF TypeOK
<1>3. OrderInv'
  BY ReceiveKeepsOrder DEF TypeOK
<1>4. CallInv'
  BY <1>3, <1>f DEF CallInv, OrderInv, OwnLabels, IdleLabels, CloseLabels, FlushLabels
<1>5. CountInv'
  BY DEF CountInv
<1>6. PlaceInv'
  <2>1. \A s \in Transfers : ~TakenOut(s) => s = cur' \/ ~TakenOut(s)'
    BY ReceiveTakesOut DEF TypeOK
  <2>. QED
    BY <2>1 DEF PlaceInv, CallInv, OwnLabels, IdleLabels
<1>7. NumberInv'
  BY DEF NumberInv
<1>8. OutcomeInv'
  BY DEF OutcomeInv, Known
<1>9. WrittenInv'
  BY DEF TypeOK, StreamTypeOK, FlushLabels, WrittenInv, AllCounted, Good, Reported,
         LastLeft
<1>. QED
  BY <1>1, <1>2, <1>3, <1>4, <1>5, <1>6, <1>7, <1>8, <1>9

\* What wait returns is the submission after the last one counted, and is counted.
LEMMA WriteWaitOKKeeps ==
  ASSUME IInv, WriteWaitOK
  PROVE  IInv'
<1>w. PICK r \in Results :
         /\ r = WaitResult(cur) /\ LastLeft \in Int
         /\ LastLeft >= 0 => outcome[LastLeft + 1] = r
         /\ r.n \in 0..BufSize /\ r.err \in {"nil", "transfer"}
  BY WaitGives DEF WriteWaitOK, Results
<1>c. /\ cur \in Transfers /\ phase'[cur] = "idle"
      /\ LastLeft' = LastLeft + 1
      /\ total' \in 0..BufSize * MaxSubmits /\ total' <= Most(LastLeft')
  BY WaitCounts DEF WriteWaitOK, Collected, Goto, GotoWith, streamVars
<1>e. IF WaitResult(cur).err = "nil" THEN AllCounted' ELSE CountEnded'
  BY WaitWritten DEF WriteWaitOK, Collected, Goto, GotoWith, streamVars, writeVars
<1>. USE DEF IInv, WriteWaitOK, GotoWith, Goto, CanReturn, WaitResult, Waited, Collected,
              streamVars
<1>1. TotalInv'
  BY <1>c DEF TotalInv
<1>2. TypeOK'
  <2>1. phase' \in [Transfers -> {"idle", "inflight", "finished", "freed"}]
    BY <1>c DEF TypeOK, StreamTypeOK
  <2>2. result' \in [Transfers -> Results] /\ copied' \in [Transfers -> 0..BufSize]
    <3>1. NoResult \in Results /\ 0 \in 0..BufSize
      BY StreamAssumption DEF NoResult, Results
    <3>. QED
      BY <3>1 DEF TypeOK, StreamTypeOK
  <2>3. ret'.n \in Int /\ ret'.err \in Errors
    BY <1>w, StreamAssumption, WriteAssumption DEF TypeOK, StreamTypeOK, Errors
  <2>. QED
    BY <1>c, <2>1, <2>2, <2>3 DEF TypeOK, StreamTypeOK
<1>3. OrderInv'
  BY OwnKeepsOrder DEF TypeOK, CallInv, OwnLabels
<1>4. CallInv'
  BY <1>w, <1>c DEF CallInv, FlushLabels, CloseLabels, TakenOut, OrderInv
<1>5. CountInv'
  BY DEF CountInv
<1>6. PlaceInv'
  BY DEF OwnLabels, IdleLabels, PlaceInv, TakenOut
<1>7. NumberInv'
  BY DEF NumberInv
<1>8. OutcomeInv'
  BY <1>c DEF TypeOK, StreamTypeOK, OutcomeInv, Known
<1>9. WrittenInv'
  BY <1>e DEF WrittenInv, FlushLabels
<1>. QED
  BY <1>1, <1>2, <1>3, <1>4, <1>5, <1>6, <1>7, <1>8, <1>9

LEMMA WriteWaitFailsKeeps ==
  ASSUME IInv, WriteWaitFails
  PROVE  IInv'
<1>w. PICK r \in Results :
         /\ r = WaitResult(cur) /\ LastLeft \in Int
         /\ LastLeft >= 0 => outcome[LastLeft + 1] = r
         /\ r.n \in 0..BufSize /\ r.err \in {"nil", "transfer"}
  BY WaitGives DEF WriteWaitFails, Results
<1>c. /\ cur \in Transfers /\ phase'[cur] = "idle"
      /\ LastLeft' = LastLeft + 1
      /\ total' \in 0..BufSize * MaxSubmits /\ total' <= Most(LastLeft')
  BY WaitCounts DEF WriteWaitFails, streamVars
<1>e. IF WaitResult(cur).err = "nil" THEN AllCounted' ELSE CountEnded'
  BY WaitWritten DEF WriteWaitFails, streamVars, writeVars
<1>. USE DEF IInv, WriteWaitFails, CanReturn, WaitResult, Waited, streamVars
<1>1. TotalInv'
  BY <1>c DEF TotalInv
<1>2. TypeOK'
  <2>1. phase' \in [Transfers -> {"idle", "inflight", "finished", "freed"}]
    BY <1>c DEF TypeOK, StreamTypeOK
  <2>2. result' \in [Transfers -> Results] /\ copied' \in [Transfers -> 0..BufSize]
    <3>1. NoResult \in Results /\ 0 \in 0..BufSize
      BY StreamAssumption DEF NoResult, Results
    <3>. QED
      BY <3>1 DEF TypeOK, StreamTypeOK
  <2>3. ret'.n \in Int /\ ret'.err \in Errors
    BY <1>w, StreamAssumption, WriteAssumption DEF TypeOK, StreamTypeOK, Errors
  <2>. QED
    BY <1>c, <2>1, <2>2, <2>3 DEF TypeOK, StreamTypeOK
<1>3. OrderInv'
  BY OwnKeepsOrder DEF TypeOK, CallInv, OwnLabels
<1>4. CallInv'
  BY <1>w, <1>c DEF CallInv, FlushLabels, CloseLabels, TakenOut, OrderInv
<1>5. CountInv'
  BY DEF CountInv
<1>6. PlaceInv'
  BY DEF OwnLabels, IdleLabels, PlaceInv, TakenOut
<1>7. NumberInv'
  BY DEF NumberInv
<1>8. OutcomeInv'
  BY <1>c DEF TypeOK, StreamTypeOK, OutcomeInv, Known
<1>9. WrittenInv'
  BY <1>e DEF WrittenInv, FlushLabels
<1>. QED
  BY <1>1, <1>2, <1>3, <1>4, <1>5, <1>6, <1>7, <1>8, <1>9

LEMMA WriteFreeFailedKeeps ==
  ASSUME IInv, WriteFreeFailed
  PROVE  IInv'
<1>. USE DEF IInv, WriteFreeFailed, GotoWith, Goto, Freed, gotError, noMore, writeVars
<1>1. TotalInv'
  BY DEF TotalInv, LastLeft
<1>2. TypeOK'
  BY DEF TypeOK, StreamTypeOK, CallInv
<1>3. OrderInv'
  BY OwnKeepsOrder DEF TypeOK, CallInv, OwnLabels, IdleLabels
<1>4. CallInv'
  BY DEF CallInv, OwnLabels, IdleLabels, FlushLabels, CloseLabels
<1>5. CountInv'
  BY DEF CountInv
<1>6. PlaceInv'
  BY DEF TypeOK, StreamTypeOK, CallInv, IdleLabels, PlaceInv, TakenOut
<1>7. NumberInv'
  BY DEF NumberInv
<1>8. OutcomeInv'
  BY DEF OutcomeInv, Known
<1>9. WrittenInv'
  BY DEF FlushLabels, WrittenInv, CountEnded, Good, Failed, Reported
<1>. QED
  BY <1>1, <1>2, <1>3, <1>4, <1>5, <1>6, <1>7, <1>8, <1>9

LEMMA WriteFlushedKeeps ==
  ASSUME IInv, WriteFlushed
  PROVE  IInv'
<1>. USE DEF IInv, WriteFlushed, Return, Flushed, WriteEnds, transferVars, streamVars
<1>1. TotalInv'
  <2>1. LastLeft' = LastLeft
    BY DEF LastLeft
  <2>2. left' + written' <= MaxWrite
    <3>1. left' \in 0..MaxWrite /\ written' = 0 /\ MaxWrite \in Nat
      BY WriteAssumption
    <3>. QED
      BY <3>1
  <2>. QED
    BY <2>1, <2>2 DEF TotalInv
<1>2. TypeOK'
  <2>1. ret'.n \in Int /\ ret'.err \in Errors
    BY StreamAssumption, WriteAssumption DEF TypeOK, StreamTypeOK, Errors
  <2>2. StreamTypeOK'
    BY <2>1 DEF TypeOK, StreamTypeOK, Errors, CallInv, OwnLabels, IdleLabels
  <2>. QED
    BY <2>2, WriteAssumption DEF TypeOK
<1>3. OrderInv'
  BY UnmovedKeepsOrder DEF TypeOK
<1>4. CallInv'
  BY DEF CallInv, OwnLabels, IdleLabels, FlushLabels, CloseLabels
<1>5. CountInv'
  BY DEF CallInv, FlushLabels, CountInv
<1>6. PlaceInv'
  BY DEF OwnLabels, IdleLabels, PlaceInv, TakenOut
<1>7. NumberInv'
  BY DEF NumberInv
<1>8. OutcomeInv'
  BY DEF OutcomeInv, Known
<1>9. WrittenInv'
  BY DEF CallInv, FlushLabels, WrittenInv, CountEnded, Good, Failed, Reported
<1>. QED
  BY <1>1, <1>2, <1>3, <1>4, <1>5, <1>6, <1>7, <1>8, <1>9

\* The submission is one more, and so is the fifo: no submission leaves it.
LEMMA WriteSubmitKeeps ==
  ASSUME IInv, WriteSubmit
  PROVE  IInv'
<1>f. PICK t \in Transfers :
         /\ t = cur
         /\ Append(queue, t) \in Seq(Transfers)
         /\ Len(Append(queue, t)) = Len(queue) + 1 /\ Len(queue) \in Nat
  <2>1. queue \in Seq(Transfers) /\ cur \in Transfers
    BY DEF IInv, TypeOK, StreamTypeOK, CallInv, WriteSubmit, OwnLabels, IdleLabels
  <2>. QED
    BY <2>1, FifoAppend, FifoType
<1>. USE DEF IInv, WriteSubmit, GotoWith, Goto, Submitted, Copied, use, PutBack,
              transferVars, streamVars
<1>1. TotalInv'
  <2>1. CASE pc' = "next"
    <3>1. LastLeft' = LastLeft
      <4>1. submits' = submits + 1 /\ Len(queue') = Len(queue) + 1
        BY <2>1, <1>f
      <4>2. submits \in Int /\ Len(queue) \in Int
        BY LastLeftType DEF TypeOK
      <4>. QED
        BY <2>1, <4>1, <4>2 DEF LastLeft
    <3>2. left' + written' = left + written
      <4>1. left \in Int /\ written \in Int /\ use \in Int
        BY StreamAssumption, WriteAssumption DEF TypeOK
      <4>. QED
        BY <2>1, <4>1
    <3>. QED
      BY <2>1, <3>1, <3>2 DEF TotalInv
  <2>2. CASE pc' = "submitFailed"
    BY <2>2 DEF TotalInv, LastLeft
  <2>. QED
    BY <2>1, <2>2
<1>2. TypeOK'
  <2>1. CASE pc' = "next"
    <3>1. queue' \in Seq(Transfers) /\ Len(queue') <= Count
      <4>1. Len(queue) = Count - 1 /\ Count \in Nat
        BY StreamAssumption DEF CountInv, CallInv, CloseLabels, FlushLabels
      <4>. QED
        BY <2>1, <4>1, <1>f
    <3>2. use \in 0..BufSize /\ use <= left
      BY StreamAssumption, WriteAssumption DEF TypeOK
    <3>3. left' \in 0..MaxWrite /\ written' \in 0..MaxWrite
      <4>1. left \in Nat /\ written \in Nat /\ left + written <= MaxWrite /\ MaxWrite \in Nat
        BY WriteAssumption DEF TypeOK, TotalInv
      <4>. QED
        BY <2>1, <3>2, <4>1
    <3>4. copied' \in [Transfers -> 0..BufSize]
      BY <2>1, <3>2, <1>f DEF TypeOK
    <3>5. /\ phase' \in [Transfers -> {"idle", "inflight", "finished", "freed"}]
          /\ number' \in [Transfers -> 0..MaxSubmits]
          /\ submits' \in 0..MaxSubmits
      BY <2>1, <1>f, SubmittedTypes DEF TypeOK
    <3>. QED
      BY <2>1, <3>1, <3>3, <3>4, <3>5 DEF TypeOK, StreamTypeOK
  <2>2. CASE pc' = "submitFailed"
    BY <2>2 DEF TypeOK, StreamTypeOK
  <2>. QED
    BY <2>1, <2>2
<1>3. OrderInv'
  BY UnmovedKeepsOrder, PutBackKeepsOrder DEF TypeOK, CallInv, OwnLabels, IdleLabels
<1>4. CallInv'
  BY DEF CallInv, OwnLabels, IdleLabels, FlushLabels, CloseLabels, TakenOut
<1>5. CountInv'
  <2>1. CASE pc' = "next"
    <3>1. Len(queue') = Len(queue) + 1 /\ UNCHANGED <<finished, err, closing>>
      BY <2>1, <1>f
    <3>2. ~closing /\ Len(queue) = Count - 1 /\ ~finished /\ err = "nil" /\ Count \in Nat
      BY StreamAssumption DEF CountInv, CallInv, CloseLabels, FlushLabels
    <3>. QED
      BY <2>1, <3>1, <3>2, <1>f DEF CountInv
  <2>2. CASE pc' = "submitFailed"
    BY <2>2 DEF CountInv, CallInv, CloseLabels, FlushLabels
  <2>. QED
    BY <2>1, <2>2
<1>6. PlaceInv'
  <2>1. CASE pc' = "next"
    <3>1. ~TakenOut(t)' /\ \A s : ~TakenOut(s) => ~TakenOut(s)'
      BY <2>1, <1>f, PutBackPlaces DEF TypeOK
    <3>. QED
      BY <2>1, <3>1, <1>f DEF TypeOK, StreamTypeOK, PlaceInv, CallInv, OwnLabels
  <2>2. CASE pc' = "submitFailed"
    BY <2>2 DEF PlaceInv, TakenOut, OwnLabels, IdleLabels
  <2>. QED
    BY <2>1, <2>2
<1>7. NumberInv'
  <2>1. CASE pc' = "next"
    <3>1. submits' = submits + 1 /\ submits \in Nat
      BY <2>1, StreamAssumption DEF TypeOK, StreamTypeOK
    <3>2. number'[t] = submits + 1 /\ \A s \in Transfers \ {t} : number'[s] = number[s]
      BY <2>1, <1>f DEF TypeOK, StreamTypeOK
    <3>3. \A s \in Transfers \ {t} : phase'[s] = phase[s]
      BY <2>1, <1>f DEF TypeOK, StreamTypeOK
    <3>4. \A s \in Transfers : number[s] \in Nat /\ number[s] <= submits
      BY StreamAssumption DEF TypeOK, StreamTypeOK, NumberInv
    <3>5. \A s \in Transfers : number'[s] <= submits'
      BY <3>1, <3>2, <3>4
    <3>6. \A s \in Transfers : phase'[s] \in {"inflight", "finished"} => number'[s] > 0
      BY <3>1, <3>2, <3>3 DEF NumberInv
    <3>7. \A s, u \in Transfers : number'[s] = number'[u] => s = u \/ number'[u] = 0
      BY <3>1, <3>2, <3>4 DEF NumberInv
    <3>. QED
      BY <3>5, <3>6, <3>7 DEF NumberInv
  <2>2. CASE pc' = "submitFailed"
    BY <2>2 DEF NumberInv
  <2>. QED
    BY <2>1, <2>2
<1>8. OutcomeInv'
  <2>1. CASE pc' = "next"
    <3>1. /\ submits' = submits + 1 /\ submits \in 0..MaxSubmits /\ submits < MaxSubmits
          /\ phase'[t] = "inflight" /\ number'[t] = submits + 1
          /\ \A s \in Transfers \ {t} : number'[s] = number[s] /\ phase'[s] = phase[s]
      BY <2>1, <1>f DEF TypeOK, StreamTypeOK
    <3>2. submits + 1 \in submits + 1..MaxSubmits
      BY <3>1, StreamAssumption
    <3>. QED
      BY <2>1, <3>1, <3>2, StreamAssumption DEF OutcomeInv, Known
  <2>2. CASE pc' = "submitFailed"
    BY <2>2 DEF OutcomeInv, Known
  <2>. QED
    BY <2>1, <2>2
<1>9. WrittenInv'
  <2>1. CASE pc' = "next"
    <3>1. LastLeft' = LastLeft
      <4>1. submits' = submits + 1 /\ Len(queue') = Len(queue) + 1
        BY <2>1, <1>f
      <4>2. submits \in Int /\ Len(queue) \in Int
        BY LastLeftType DEF TypeOK
      <4>. QED
        BY <2>1, <4>1, <4>2 DEF LastLeft
    <3>. QED
      BY <2>1, <3>1 DEF WrittenInv, AllCounted, Good, Reported, FlushLabels
  <2>2. CASE pc' = "submitFailed"
    BY <2>2 DEF WrittenInv, AllCounted, Good, Reported, LastLeft, FlushLabels
  <2>. QED
    BY <2>1, <2>2
<1>. QED
  BY <1>1, <1>2, <1>3, <1>4, <1>5, <1>6, <1>7, <1>8, <1>9

LEMMA WriteFreeUnsubmittedKeeps ==
  ASSUME IInv, WriteFreeUnsubmitted
  PROVE  IInv'
<1>. USE DEF IInv, WriteFreeUnsubmitted, Return, Freed, gotError, noMore, SubmitFailed,
              WriteEnds
<1>1. TotalInv'
  <2>1. LastLeft' = LastLeft
    BY DEF LastLeft
  <2>2. left' + written' <= MaxWrite
    <3>1. left' \in 0..MaxWrite /\ written' = 0 /\ MaxWrite \in Nat
      BY WriteAssumption
    <3>. QED
      BY <3>1
  <2>. QED
    BY <2>1, <2>2 DEF TotalInv
<1>2. TypeOK'
  <2>1. ret'.n \in Int /\ ret'.err \in Errors
    BY StreamAssumption, WriteAssumption DEF TypeOK, StreamTypeOK, Errors
  <2>2. StreamTypeOK'
    BY <2>1 DEF TypeOK, StreamTypeOK, Errors, CallInv, OwnLabels, IdleLabels
  <2>. QED
    BY <2>2, WriteAssumption DEF TypeOK
<1>3. OrderInv'
  BY OwnKeepsOrder DEF TypeOK, CallInv, OwnLabels, IdleLabels
<1>4. CallInv'
  BY DEF CallInv, OwnLabels, IdleLabels, FlushLabels, CloseLabels
<1>5. CountInv'
  BY DEF CountInv
<1>6. PlaceInv'
  BY DEF TypeOK, StreamTypeOK, CallInv, IdleLabels, PlaceInv, TakenOut
<1>7. NumberInv'
  BY DEF NumberInv
<1>8. OutcomeInv'
  BY DEF OutcomeInv, Known
<1>9. WrittenInv'
  BY DEF FlushLabels, WrittenInv, AllCounted, Good, Reported, LastLeft
<1>. QED
  BY <1>1, <1>2, <1>3, <1>4, <1>5, <1>6, <1>7, <1>8, <1>9

-----------------------------------------------------------------------------
(* CloseContext *)

LEMMA CloseAgainKeeps ==
  ASSUME IInv, CloseAgain
  PROVE  IInv'
<1>. USE DEF IInv, CloseAgain, Return, transferVars, streamVars, writeVars
<1>1. TotalInv'
  BY DEF TotalInv, LastLeft
<1>2. TypeOK'
  <2>1. ret'.n \in Int /\ ret'.err \in Errors
    BY StreamAssumption, WriteAssumption DEF TypeOK, StreamTypeOK, Errors
  <2>2. StreamTypeOK'
    BY <2>1 DEF TypeOK, StreamTypeOK, Errors, CallInv, OwnLabels, IdleLabels
  <2>. QED
    BY <2>2, WriteAssumption DEF TypeOK
<1>3. OrderInv'
  BY UnmovedKeepsOrder DEF TypeOK
<1>4. CallInv'
  BY DEF CallInv, OwnLabels, IdleLabels
<1>5. CountInv'
  BY DEF CountInv
<1>6. PlaceInv'
  BY DEF OwnLabels, IdleLabels, PlaceInv, TakenOut
<1>7. NumberInv'
  BY DEF NumberInv
<1>8. OutcomeInv'
  BY DEF OutcomeInv, Known
<1>9. WrittenInv'
  BY DEF WrittenInv, AllCounted, CountEnded, Good, Failed, Reported, LastLeft
<1>. QED
  BY <1>1, <1>2, <1>3, <1>4, <1>5, <1>6, <1>7, <1>8, <1>9

LEMMA CloseCallKeeps ==
  ASSUME IInv, CloseCall
  PROVE  IInv'
<1>. USE DEF IInv, CloseCall, GotoWith, Goto, noMore, transferVars
<1>1. TotalInv'
  BY DEF TotalInv, LastLeft
<1>2. TypeOK'
  BY DEF TypeOK, StreamTypeOK
<1>3. OrderInv'
  BY UnmovedKeepsOrder DEF TypeOK
<1>4. CallInv'
  BY DEF CallInv, OwnLabels, IdleLabels, FlushLabels
<1>5. CountInv'
  BY DEF CountInv
<1>6. PlaceInv'
  BY DEF OwnLabels, IdleLabels, PlaceInv, TakenOut
<1>7. NumberInv'
  BY DEF NumberInv
<1>8. OutcomeInv'
  BY DEF OutcomeInv, Known
<1>9. WrittenInv'
  BY DEF FlushLabels, WrittenInv, AllCounted, CountEnded, Good, Failed, Reported, LastLeft
<1>. QED
  BY <1>1, <1>2, <1>3, <1>4, <1>5, <1>6, <1>7, <1>8, <1>9

LEMMA CloseReceiveKeeps ==
  ASSUME IInv, CloseReceive
  PROVE  IInv'
<1>f. /\ queue' \in Seq(Transfers) /\ Len(queue') = Len(queue) - 1
      /\ Len(queue) \in Nat /\ Len(queue') <= Count /\ cur' \in Transfers
  <2>1. /\ queue \in Seq(Transfers) /\ queue # <<>> /\ Len(queue) <= Count /\ Count \in Nat
        /\ queue' = Tail(queue) /\ cur' = Head(queue)
    BY StreamAssumption DEF IInv, TypeOK, StreamTypeOK, CloseReceive, Receive, GotoWith
  <2>. QED
    BY <2>1, FifoTail, FifoType
<1>. USE DEF IInv, CloseReceive, GotoWith, Receive, transferVars, writeVars
<1>1. TotalInv'
  BY DEF TypeOK, StreamTypeOK, TotalInv, LastLeft
<1>2. TypeOK'
  <2>1. cancel' \in [Transfers -> Answers]
    BY DEF TypeOK, StreamTypeOK
  <2>2. UNCHANGED <<phase, result, number, submits, finished, isNil, err, ctxDone, ret, writeVars>>
    OBVIOUS
  <2>3. pc' \in {"wait", "flushwait"}
    OBVIOUS
  <2>4. StreamTypeOK'
    BY <2>1, <2>2, <1>f DEF TypeOK, StreamTypeOK
  <2>. QED
    BY <2>2, <2>3, <2>4 DEF TypeOK
<1>3. OrderInv'
  BY ReceiveKeepsOrder DEF TypeOK
<1>4. CallInv'
  BY <1>3, <1>f DEF CallInv, OrderInv, OwnLabels, IdleLabels, CloseLabels, FlushLabels
<1>5. CountInv'
  BY DEF CountInv
<1>6. PlaceInv'
  <2>1. \A s \in Transfers : ~TakenOut(s) => s = cur' \/ ~TakenOut(s)'
    BY ReceiveTakesOut DEF TypeOK
  <2>. QED
    BY <2>1 DEF PlaceInv, CallInv, OwnLabels, IdleLabels
<1>7. NumberInv'
  BY DEF NumberInv
<1>8. OutcomeInv'
  BY DEF OutcomeInv, Known
<1>9. WrittenInv'
  BY DEF TypeOK, StreamTypeOK, FlushLabels, WrittenInv, AllCounted, Good, Reported,
         LastLeft
<1>. QED
  BY <1>1, <1>2, <1>3, <1>4, <1>5, <1>6, <1>7, <1>8, <1>9

\* As WriteWaitOK and WriteWaitFails.
LEMMA CloseWaitKeeps ==
  ASSUME IInv, CloseWait
  PROVE  IInv'
<1>w. PICK r \in Results :
         /\ r = WaitResult(cur) /\ LastLeft \in Int
         /\ LastLeft >= 0 => outcome[LastLeft + 1] = r
         /\ r.n \in 0..BufSize /\ r.err \in {"nil", "transfer"}
  BY WaitGives DEF CloseWait, Results
<1>c. /\ cur \in Transfers /\ phase'[cur] = "idle"
      /\ LastLeft' = LastLeft + 1
      /\ total' \in 0..BufSize * MaxSubmits /\ total' <= Most(LastLeft')
  BY WaitCounts DEF CloseWait, streamVars
<1>e. IF WaitResult(cur).err = "nil" THEN AllCounted' ELSE CountEnded'
  BY WaitWritten DEF CloseWait, streamVars, writeVars
<1>. USE DEF IInv, CloseWait, CanReturn, WaitResult, Waited, streamVars
<1>1. TotalInv'
  BY <1>c DEF TotalInv
<1>2. TypeOK'
  <2>1. phase' \in [Transfers -> {"idle", "inflight", "finished", "freed"}]
    BY <1>c DEF TypeOK, StreamTypeOK
  <2>2. result' \in [Transfers -> Results] /\ copied' \in [Transfers -> 0..BufSize]
    <3>1. NoResult \in Results /\ 0 \in 0..BufSize
      BY StreamAssumption DEF NoResult, Results
    <3>. QED
      BY <3>1 DEF TypeOK, StreamTypeOK
  <2>3. ret'.n \in Int /\ ret'.err \in Errors
    BY <1>w, StreamAssumption, WriteAssumption DEF TypeOK, StreamTypeOK, Errors
  <2>. QED
    BY <1>c, <2>1, <2>2, <2>3 DEF TypeOK, StreamTypeOK
<1>3. OrderInv'
  BY OwnKeepsOrder DEF TypeOK, CallInv, OwnLabels
<1>4. CallInv'
  BY <1>w, <1>c DEF CallInv, FlushLabels, CloseLabels, TakenOut, OrderInv
<1>5. CountInv'
  BY DEF CountInv
<1>6. PlaceInv'
  BY DEF OwnLabels, IdleLabels, PlaceInv, TakenOut
<1>7. NumberInv'
  BY DEF NumberInv
<1>8. OutcomeInv'
  BY <1>c DEF TypeOK, StreamTypeOK, OutcomeInv, Known
<1>9. WrittenInv'
  BY <1>e DEF WrittenInv, FlushLabels
<1>. QED
  BY <1>1, <1>2, <1>3, <1>4, <1>5, <1>6, <1>7, <1>8, <1>9

LEMMA CloseFreeKeeps ==
  ASSUME IInv, CloseFree
  PROVE  IInv'
<1>. USE DEF IInv, CloseFree, GotoWith, Goto, Freed, streamVars, writeVars
<1>1. TotalInv'
  BY DEF TotalInv, LastLeft
<1>2. TypeOK'
  BY DEF TypeOK, StreamTypeOK, CallInv, CloseLabels
<1>3. OrderInv'
  BY OwnKeepsOrder DEF TypeOK, CallInv, OwnLabels, IdleLabels
<1>4. CallInv'
  BY DEF TypeOK, StreamTypeOK, CallInv, OwnLabels, IdleLabels, FlushLabels, CloseLabels,
         TakenOut
<1>5. CountInv'
  BY DEF CountInv
<1>6. PlaceInv'
  BY DEF TypeOK, StreamTypeOK, CallInv, IdleLabels, PlaceInv, TakenOut
<1>7. NumberInv'
  BY DEF NumberInv
<1>8. OutcomeInv'
  BY DEF OutcomeInv, Known
<1>9. WrittenInv'
  BY DEF FlushLabels, WrittenInv, AllCounted, Good, Reported, LastLeft
<1>. QED
  BY <1>1, <1>2, <1>3, <1>4, <1>5, <1>6, <1>7, <1>8, <1>9

LEMMA CloseFreeFailedKeeps ==
  ASSUME IInv, CloseFreeFailed
  PROVE  IInv'
<1>. USE DEF IInv, CloseFreeFailed, GotoWith, Goto, Freed, gotError, noMore, CloseError,
              AfterCloseError, writeVars
<1>1. TotalInv'
  BY DEF TotalInv, LastLeft
<1>2. TypeOK'
  BY DEF TypeOK, StreamTypeOK, CallInv
<1>3. OrderInv'
  BY OwnKeepsOrder DEF TypeOK, CallInv, OwnLabels, IdleLabels
<1>4. CallInv'
  BY DEF CallInv, OwnLabels, IdleLabels, FlushLabels, CloseLabels
<1>5. CountInv'
  BY DEF CountInv
<1>6. PlaceInv'
  BY DEF TypeOK, StreamTypeOK, CallInv, IdleLabels, PlaceInv, TakenOut
<1>7. NumberInv'
  BY DEF NumberInv
<1>8. OutcomeInv'
  BY DEF OutcomeInv, Known
<1>9. WrittenInv'
  BY DEF FlushLabels, WrittenInv, CountEnded, Good, Failed, Reported
<1>. QED
  BY <1>1, <1>2, <1>3, <1>4, <1>5, <1>6, <1>7, <1>8, <1>9

LEMMA CloseFreeAgainKeeps ==
  ASSUME IInv, CloseFreeAgain
  PROVE  IInv'
<1>. USE DEF IInv, CloseFreeAgain, GotoWith, Freed, streamVars, writeVars
<1>1. TotalInv'
  BY DEF TotalInv, LastLeft
<1>2. TypeOK'
  BY DEF TypeOK, StreamTypeOK
<1>3. OrderInv'
  BY OwnKeepsOrder DEF TypeOK, CallInv
<1>4. CallInv'
  BY DEF CallInv, OwnLabels, IdleLabels, FlushLabels, CloseLabels
<1>5. CountInv'
  BY DEF CallInv, CloseLabels, CountInv
<1>6. PlaceInv'
  BY DEF OwnLabels, IdleLabels, PlaceInv, TakenOut
<1>7. NumberInv'
  BY DEF NumberInv
<1>8. OutcomeInv'
  BY DEF OutcomeInv, Known
<1>9. WrittenInv'
  BY DEF FlushLabels, WrittenInv, AllCounted, Good, Reported, LastLeft
<1>. QED
  BY <1>1, <1>2, <1>3, <1>4, <1>5, <1>6, <1>7, <1>8, <1>9

LEMMA CloseFlushedKeeps ==
  ASSUME IInv, CloseFlushed
  PROVE  IInv'
<1>. USE DEF IInv, CloseFlushed, GotoWith, Goto, Flushed, transferVars, streamVars,
              writeVars
<1>1. TotalInv'
  BY DEF TotalInv, LastLeft
<1>2. TypeOK'
  BY DEF TypeOK, StreamTypeOK
<1>3. OrderInv'
  BY UnmovedKeepsOrder DEF TypeOK
<1>4. CallInv'
  BY DEF CallInv, OwnLabels, IdleLabels, CloseLabels
<1>5. CountInv'
  BY DEF CountInv
<1>6. PlaceInv'
  BY DEF OwnLabels, IdleLabels, PlaceInv, TakenOut
<1>7. NumberInv'
  BY DEF NumberInv
<1>8. OutcomeInv'
  BY DEF OutcomeInv, Known
<1>9. WrittenInv'
  BY DEF CallInv, CloseLabels, WrittenInv, CountEnded, Good, Failed, Reported
<1>. QED
  BY <1>1, <1>2, <1>3, <1>4, <1>5, <1>6, <1>7, <1>8, <1>9

LEMMA CloseReturnsKeeps ==
  ASSUME IInv, CloseReturns
  PROVE  IInv'
<1>. USE DEF IInv, CloseReturns, Return, transferVars
<1>1. TotalInv'
  BY DEF TotalInv, LastLeft
<1>2. TypeOK'
  <2>1. ret'.n \in Int /\ ret'.err \in Errors
    BY StreamAssumption, WriteAssumption DEF TypeOK, StreamTypeOK, Errors
  <2>2. StreamTypeOK'
    BY <2>1 DEF TypeOK, StreamTypeOK, Errors, CallInv, OwnLabels, IdleLabels
  <2>. QED
    BY <2>2, WriteAssumption DEF TypeOK
<1>3. OrderInv'
  BY UnmovedKeepsOrder DEF TypeOK
<1>4. CallInv'
  BY DEF CallInv, OwnLabels, IdleLabels, FlushLabels, CloseLabels
<1>5. CountInv'
  BY DEF CountInv
<1>6. PlaceInv'
  BY DEF OwnLabels, IdleLabels, PlaceInv, TakenOut
<1>7. NumberInv'
  BY DEF NumberInv
<1>8. OutcomeInv'
  BY DEF OutcomeInv, Known
<1>9. WrittenInv'
  BY DEF FlushLabels, WrittenInv, AllCounted, CountEnded, Good, Failed, Reported, LastLeft
<1>. QED
  BY <1>1, <1>2, <1>3, <1>4, <1>5, <1>6, <1>7, <1>8, <1>9

-----------------------------------------------------------------------------
(* The operations of stream, the device and the context *)

\* Submissions leave the fifo uncounted; there is an error already.
LEMMA FlushCancelKeeps ==
  ASSUME IInv, FlushCancel, UNCHANGED writeVars
  PROVE  IInv'
<1>f. /\ queue' \in Seq(Transfers) /\ Len(queue') = Len(queue) - 1
      /\ Len(queue) \in Nat /\ Len(queue') <= Count /\ cur' \in Transfers
  <2>1. /\ queue \in Seq(Transfers) /\ queue # <<>> /\ Len(queue) <= Count /\ Count \in Nat
        /\ queue' = Tail(queue) /\ cur' = Head(queue)
    BY StreamAssumption DEF IInv, TypeOK, StreamTypeOK, FlushCancel, Receive, GotoWith
  <2>. QED
    BY <2>1, FifoTail, FifoType
<1>. USE DEF IInv, FlushCancel, GotoWith, Cancelled, Receive, FlushCancels, writeVars
<1>1. TotalInv'
  <2>1. LastLeft' = LastLeft + 1 /\ LastLeft \in Int
    BY <1>f, LastLeftType DEF LastLeft, TypeOK
  <2>2. Most(LastLeft) <= Most(LastLeft') /\ Most(LastLeft) \in Nat /\ Most(LastLeft') \in Nat
    BY <2>1, MostGrows
  <2>3. total \in Int
    BY StreamAssumption DEF TypeOK
  <2>. QED
    BY <2>2, <2>3 DEF TotalInv
<1>2. TypeOK'
  <2>1. cancel' \in [Transfers -> Answers]
    BY DEF TypeOK, StreamTypeOK
  <2>2. UNCHANGED <<phase, result, number, submits, finished, isNil, err, ctxDone, ret, writeVars>>
    OBVIOUS
  <2>3. pc' \in {"wait", "flushwait"}
    OBVIOUS
  <2>4. StreamTypeOK'
    BY <2>1, <2>2, <1>f DEF TypeOK, StreamTypeOK
  <2>. QED
    BY <2>2, <2>3, <2>4 DEF TypeOK
<1>3. OrderInv'
  BY ReceiveKeepsOrder DEF TypeOK
<1>4. CallInv'
  BY <1>3, <1>f DEF CallInv, OrderInv, OwnLabels, IdleLabels, CloseLabels, FlushLabels
<1>5. CountInv'
  BY DEF CountInv
<1>6. PlaceInv'
  <2>1. \A s \in Transfers : ~TakenOut(s) => s = cur' \/ ~TakenOut(s)'
    BY ReceiveTakesOut DEF TypeOK
  <2>. QED
    BY <2>1 DEF PlaceInv, CallInv, OwnLabels, IdleLabels
<1>7. NumberInv'
  BY DEF NumberInv
<1>8. OutcomeInv'
  BY DEF OutcomeInv, Known
<1>9. WrittenInv'
  BY DEF FlushLabels, WrittenInv, CountEnded, Good, Failed, Reported
<1>. QED
  BY <1>1, <1>2, <1>3, <1>4, <1>5, <1>6, <1>7, <1>8, <1>9

LEMMA FlushWaitKeeps ==
  ASSUME IInv, FlushWait, UNCHANGED writeVars
  PROVE  IInv'
<1>. USE DEF IInv, FlushWait, GotoWith, Goto, CanReturn, Waited, FlushWaits, streamVars,
              writeVars
<1>1. TotalInv'
  BY DEF TotalInv, LastLeft
<1>2. TypeOK'
  BY StreamAssumption, WriteAssumption DEF TypeOK, StreamTypeOK, CallInv, OwnLabels,
         Results, NoResult
<1>3. OrderInv'
  BY OwnKeepsOrder DEF TypeOK, CallInv, OwnLabels
<1>4. CallInv'
  BY DEF TypeOK, StreamTypeOK, CallInv, FlushLabels, CloseLabels, TakenOut, OrderInv,
         IsSubmission
<1>5. CountInv'
  BY DEF CountInv
<1>6. PlaceInv'
  BY DEF OwnLabels, IdleLabels, PlaceInv, TakenOut
<1>7. NumberInv'
  BY DEF NumberInv
<1>8. OutcomeInv'
  BY DEF TypeOK, StreamTypeOK, OutcomeInv, Known
<1>9. WrittenInv'
  BY DEF FlushLabels, WrittenInv, CountEnded, Good, Failed, Reported
<1>. QED
  BY <1>1, <1>2, <1>3, <1>4, <1>5, <1>6, <1>7, <1>8, <1>9

LEMMA FlushFreeKeeps ==
  ASSUME IInv, FlushFree, UNCHANGED writeVars
  PROVE  IInv'
<1>. USE DEF IInv, FlushFree, GotoWith, Freed, streamVars, writeVars
<1>1. TotalInv'
  BY DEF TotalInv, LastLeft
<1>2. TypeOK'
  BY DEF TypeOK, StreamTypeOK
<1>3. OrderInv'
  BY OwnKeepsOrder DEF TypeOK, CallInv, OwnLabels, IdleLabels
<1>4. CallInv'
  BY DEF CallInv, OwnLabels, IdleLabels, FlushLabels, CloseLabels
<1>5. CountInv'
  BY DEF CountInv
<1>6. PlaceInv'
  BY DEF TypeOK, StreamTypeOK, CallInv, IdleLabels, PlaceInv, TakenOut
<1>7. NumberInv'
  BY DEF NumberInv
<1>8. OutcomeInv'
  BY DEF OutcomeInv, Known
<1>9. WrittenInv'
  BY DEF FlushLabels, WrittenInv, CountEnded, Good, Failed, Reported
<1>. QED
  BY <1>1, <1>2, <1>3, <1>4, <1>5, <1>6, <1>7, <1>8, <1>9

LEMMA WaitCancelsKeeps ==
  ASSUME IInv, WaitCancels, UNCHANGED writeVars
  PROVE  IInv'
<1>. USE DEF IInv, WaitCancels, Cancelled, CanReturn, streamVars, callVars, writeVars
<1>1. TotalInv'
  BY DEF TotalInv, LastLeft
<1>2. TypeOK'
  BY DEF TypeOK, StreamTypeOK, CallInv, OwnLabels
<1>3. OrderInv'
  BY UnmovedKeepsOrder DEF TypeOK
<1>4. CallInv'
  BY DEF CallInv, TakenOut
<1>5. CountInv'
  BY DEF CountInv
<1>6. PlaceInv'
  BY DEF PlaceInv, TakenOut
<1>7. NumberInv'
  BY DEF NumberInv
<1>8. OutcomeInv'
  BY DEF OutcomeInv, Known
<1>9. WrittenInv'
  BY DEF WrittenInv, AllCounted, CountEnded, Good, Failed, Reported, LastLeft
<1>. QED
  BY <1>1, <1>2, <1>3, <1>4, <1>5, <1>6, <1>7, <1>8, <1>9

LEMMA CtxEndsKeeps ==
  ASSUME IInv, CtxEnds, UNCHANGED writeVars
  PROVE  IInv'
<1>. USE DEF IInv, CtxEnds, CanReturn, transferVars, streamVars, writeVars
<1>1. TotalInv'
  BY DEF TotalInv, LastLeft
<1>2. TypeOK'
  BY DEF TypeOK, StreamTypeOK
<1>3. OrderInv'
  BY UnmovedKeepsOrder DEF TypeOK
<1>4. CallInv'
  BY DEF CallInv, TakenOut
<1>5. CountInv'
  BY DEF CountInv
<1>6. PlaceInv'
  BY DEF PlaceInv, TakenOut
<1>7. NumberInv'
  BY DEF NumberInv
<1>8. OutcomeInv'
  BY DEF OutcomeInv, Known
<1>9. WrittenInv'
  BY DEF WrittenInv, AllCounted, CountEnded, Good, Failed, Reported, LastLeft
<1>. QED
  BY <1>1, <1>2, <1>3, <1>4, <1>5, <1>6, <1>7, <1>8, <1>9

\* What finishes is in the fifo, or waited for, so none of those already counted.
LEMMA FinishesKeeps ==
  ASSUME IInv, NEW t \in Transfers, Finishes(t)
  PROVE  IInv'
<1>. USE DEF IInv, Finishes, Finish, streamVars, callVars
<1>1. TotalInv'
  BY DEF TotalInv, LastLeft
<1>2. TypeOK'
  <2>1. PICK r \in Results : result' = [result EXCEPT ![t] = r]
    OBVIOUS
  <2>2. result'[t] = r
    BY <2>1 DEF TypeOK, StreamTypeOK
  <2>3. outcome' \in [1..MaxSubmits -> Results \cup {Unknown}]
    BY <2>2 DEF TypeOK
  <2>4. phase' \in [Transfers -> {"idle", "inflight", "finished", "freed"}]
        /\ result' \in [Transfers -> Results] /\ cancel' \in [Transfers -> Answers]
    BY <2>1 DEF TypeOK, StreamTypeOK, Answers
  <2>. QED
    BY <2>3, <2>4 DEF TypeOK, StreamTypeOK
<1>3. OrderInv'
  BY FinishKeepsOrder DEF TypeOK
<1>4. CallInv'
  BY DEF CallInv, TakenOut
<1>5. CountInv'
  BY DEF CountInv
<1>6. PlaceInv'
  BY DEF PlaceInv, TakenOut
<1>7. NumberInv'
  BY DEF NumberInv
<1>8. OutcomeInv'
  <2>1. /\ number[t] \in 1..MaxSubmits /\ number[t] <= submits /\ phase[t] = "inflight"
        /\ \A s \in Transfers \ {t} : number[s] = number[t] => phase[s] \notin {"inflight", "finished"}
    BY StreamAssumption DEF TypeOK, StreamTypeOK, NumberInv
  <2>2. \A k \in submits + 1..MaxSubmits : ~Known(k)'
    BY <2>1, StreamAssumption DEF TypeOK, StreamTypeOK, OutcomeInv, Known
  <2>3. \A s \in Transfers : phase'[s] = "inflight" => ~Known(number[s])'
    BY <2>1 DEF TypeOK, StreamTypeOK, OutcomeInv, Known
  <2>4. \A s \in Transfers : phase'[s] = "finished" => outcome'[number[s]] = result'[s]
    BY <2>1 DEF TypeOK, StreamTypeOK, OutcomeInv
  <2>. QED
    BY <2>2, <2>3, <2>4 DEF OutcomeInv
<1>9. WrittenInv'
  <2>0. submits \in 0..MaxSubmits /\ MaxSubmits \in Nat /\ submits' = submits
    BY StreamAssumption DEF TypeOK, StreamTypeOK
  <2>1. ASSUME NEW k \in 1..MaxSubmits, outcome[k].err \in {"nil", "transfer"}
        PROVE  outcome'[k] = outcome[k]
    BY <2>1 DEF TypeOK, StreamTypeOK, OutcomeInv, Known
  <2>2. ASSUME NEW k \in 0..MaxSubmits, \A j \in 1..k : outcome[j].err \in {"nil", "transfer"}
        PROVE  (\A j \in 1..k : outcome'[j] = outcome[j]) /\ Reported(k)' = Reported(k)
    <3>1. \A j \in 1..k : outcome'[j] = outcome[j]
      BY <2>0, <2>1, <2>2
    <3>2. Sums(outcome')[k] = Sums(outcome)[k]
      <4>1. \A r, q : (\A j \in 1..k : r[j] = q[j]) => Sums(r)[k] = Sums(q)[k]
        BY SumsSame
      <4>. QED
        BY <3>1, <4>1
    <3>. QED
      BY <3>1, <3>2 DEF Reported
  <2>3. LastLeft' = LastLeft /\ LastLeft \in Int /\ LastLeft <= submits
    BY <2>0, LastLeftType DEF LastLeft
  <2>4. AllCounted => AllCounted'
    <3>. SUFFICES ASSUME AllCounted PROVE AllCounted'
      OBVIOUS
    <3>1. PICK l \in Int : l = LastLeft
      BY <2>3
    <3>2. PICK k \in 0..MaxSubmits : k = IF l > 0 THEN l ELSE 0
      BY <2>0, <2>3, <3>1
    <3>3. \A j \in 1..k : outcome[j].err = "nil"
      BY <3>1, <3>2 DEF AllCounted, Good
    <3>4. (\A j \in 1..k : outcome'[j].err = "nil") /\ Reported(k)' = Reported(k)
      BY <2>2, <3>3
    <3>5. Good(l)'
      BY <3>2, <3>4 DEF Good
    <3>. QED
      BY <2>3, <3>1, <3>2, <3>4, <3>5 DEF AllCounted, Good
  <2>5. CountEnded => CountEnded'
    <3>. SUFFICES ASSUME CountEnded PROVE CountEnded'
      OBVIOUS
    <3>1. PICK k \in 1..submits :
            /\ outcome[k].err = "transfer" /\ \A j \in 1..k - 1 : outcome[j].err = "nil"
            /\ total = Reported(k)
      BY DEF CountEnded, Failed, Good
    <3>2. k \in 0..MaxSubmits /\ k \in 1..k /\ \A j \in 1..k : j = k \/ j \in 1..k - 1
      BY <2>0
    <3>3. (\A j \in 1..k : outcome'[j] = outcome[j]) /\ Reported(k)' = Reported(k)
      BY <2>2, <3>1, <3>2
    <3>4. outcome'[k].err = "transfer" /\ \A j \in 1..k - 1 : outcome'[j].err = "nil"
      BY <3>1, <3>2, <3>3
    <3>. QED
      BY <2>0, <3>1, <3>3, <3>4 DEF CountEnded, Failed, Good
  <2>. QED
    BY <2>4, <2>5 DEF WrittenInv
<1>. QED
  BY <1>1, <1>2, <1>3, <1>4, <1>5, <1>6, <1>7, <1>8, <1>9

-----------------------------------------------------------------------------
(* Every step keeps the invariant. *)

LEMMA InitGives == Init => IInv
<1>. SUFFICES ASSUME Init PROVE IInv
  OBVIOUS
<1>1. /\ queue \in Seq(Transfers) /\ Len(queue) = Count /\ Count \in Nat \ {0}
      /\ DOMAIN queue = 1..Count /\ \A i \in DOMAIN queue : queue[i] = i
  BY FifoAll, FifoType, StreamAssumption DEF Init
<1>2. NoResult \in Results /\ NoResult.n = 0 /\ NoResult.err = "nil"
  BY StreamAssumption DEF NoResult, Results
<1>3. StreamTypeOK
  <2>1. /\ phase \in [Transfers -> {"idle", "inflight", "finished", "freed"}]
        /\ result \in [Transfers -> Results]
        /\ number \in [Transfers -> 0..MaxSubmits] /\ submits \in 0..MaxSubmits
    BY <1>2, StreamAssumption DEF Init, StreamInit
  <2>2. ret.n \in Int /\ ret.err \in Errors
    BY <1>2 DEF Init, StreamInit, Errors
  <2>3. queue \in Seq(Transfers) /\ Len(queue) <= Count
    BY <1>1
  <2>4. /\ cancel \in [Transfers -> Answers] /\ finished \in BOOLEAN /\ isNil \in BOOLEAN
        /\ err \in Errors \ {"ErrClosedPipe"} /\ cur \in Transfers \cup {None}
        /\ ctxDone \in BOOLEAN
    BY DEF Init, StreamInit, Errors, Answers
  <2>. QED
    BY <2>1, <2>2, <2>3, <2>4 DEF StreamTypeOK
<1>4. TypeOK
  <2>1. 0 \in 0..BufSize * MaxSubmits /\ 0 \in 0..MaxWrite /\ 0 \in 0..BufSize
    <3>1. BufSize * MaxSubmits \in Nat
      BY StreamAssumption
    <3>. QED
      BY <3>1, StreamAssumption, WriteAssumption
  <2>. QED
    BY <1>3, <2>1 DEF Init, TypeOK
<1>5. OrderInv
  BY <1>1 DEF Init, StreamInit, OrderInv, InOrder, Transfers
<1>6. CallInv /\ CountInv
  BY <1>1 DEF Init, StreamInit, CallInv, CountInv, OwnLabels, IdleLabels, FlushLabels, CloseLabels
<1>7. PlaceInv
  BY <1>1 DEF PlaceInv, TakenOut, Transfers
<1>8. NumberInv
  BY DEF Init, StreamInit, NumberInv
<1>9. LastLeft = -Count
  BY <1>1 DEF Init, StreamInit, LastLeft
<1>10. OutcomeInv
  <2>1. \A k \in 1..MaxSubmits : outcome[k] = Unknown
    BY DEF Init
  <2>2. submits = 0 /\ \A t \in Transfers : phase[t] = "idle"
    BY DEF Init, StreamInit
  <2>. QED
    BY <2>1, <2>2, StreamAssumption DEF OutcomeInv, Known, Unknown
<1>11. WrittenInv
  <2>1. Good(LastLeft)
    BY <1>1, <1>9 DEF Good
  <2>2. total = Reported(0) /\ ~(LastLeft > 0)
    BY <1>1, <1>9, SumsStep DEF Init, Reported
  <2>3. pc = "idle"
    BY DEF Init
  <2>. QED
    BY <2>1, <2>2, <2>3 DEF WrittenInv, AllCounted, FlushLabels
<1>12. TotalInv
  <2>1. Most(LastLeft) = 0
    BY <1>1, <1>9 DEF Most
  <2>. QED
    BY <2>1, WriteAssumption DEF Init, TotalInv
<1>. QED
  BY <1>4, <1>5, <1>6, <1>7, <1>8, <1>10, <1>11, <1>12 DEF IInv

LEMMA StutterKeeps ==
  ASSUME IInv, UNCHANGED vars
  PROVE  IInv'
<1>. USE DEF IInv, vars, transferVars, streamVars, callVars, writeVars
<1>1. TypeOK'
  BY DEF TypeOK, StreamTypeOK
<1>2. OrderInv'
  BY DEF OrderInv, InOrder, IsSubmission, TakenOut
<1>3. CallInv'
  BY DEF CallInv, TakenOut
<1>4. CountInv' /\ NumberInv' /\ OutcomeInv'
  BY DEF CountInv, NumberInv, OutcomeInv, Known
<1>5. PlaceInv'
  BY DEF PlaceInv, TakenOut
<1>6. LastLeft' = LastLeft
  BY DEF LastLeft
<1>7. WrittenInv'
  BY <1>6 DEF WrittenInv, AllCounted, CountEnded, Good, Failed, Known, Reported
<1>8. TotalInv'
  BY <1>6 DEF TotalInv
<1>. QED
  BY <1>1, <1>2, <1>3, <1>4, <1>5, <1>7, <1>8

LEMMA StepKeeps ==
  ASSUME IInv, [Next]_vars
  PROVE  IInv'
<1>1. CASE Environment
  <2>1. CASE CtxEnds /\ UNCHANGED writeVars
    BY <2>1, CtxEndsKeeps
  <2>2. ASSUME NEW t \in Transfers, Finishes(t)
        PROVE  IInv'
    BY <2>2, FinishesKeeps
  <2>. QED
    BY <1>1, <2>1, <2>2 DEF Environment
<1>2. CASE Running
  <2>1. CASE WriteDone \/ WriteReceive \/ WriteWaitOK \/ WriteWaitFails \/ WriteFreeFailed
    BY <2>1, WriteDoneKeeps, WriteReceiveKeeps, WriteWaitOKKeeps, WriteWaitFailsKeeps,
       WriteFreeFailedKeeps
  <2>2. CASE WriteFlushed \/ WriteSubmit \/ WriteFreeUnsubmitted
    BY <2>2, WriteFlushedKeeps, WriteSubmitKeeps, WriteFreeUnsubmittedKeeps
  <2>3. CASE CloseReceive \/ CloseWait \/ CloseFree \/ CloseFreeFailed
    BY <2>3, CloseReceiveKeeps, CloseWaitKeeps, CloseFreeKeeps, CloseFreeFailedKeeps
  <2>4. CASE CloseFreeAgain \/ CloseFlushed \/ CloseReturns
    BY <2>4, CloseFreeAgainKeeps, CloseFlushedKeeps, CloseReturnsKeeps
  <2>5. CASE (WaitCancels \/ Flush) /\ UNCHANGED writeVars
    BY <2>5, WaitCancelsKeeps, FlushCancelKeeps, FlushWaitKeeps, FlushFreeKeeps DEF Flush
  <2>. QED
    BY <1>2, <2>1, <2>2, <2>3, <2>4, <2>5 DEF Running
<1>3. CASE Calls
  BY <1>3, WriteAfterErrorKeeps, WriteCallKeeps, CloseAgainKeeps, CloseCallKeeps DEF Calls
<1>4. CASE UNCHANGED vars
  BY <1>4, StutterKeeps
<1>. QED
  BY <1>1, <1>2, <1>3, <1>4 DEF Next

\* In every state of every stream: what was not freed is in the fifo, in order, or
\* with the call, and all that has left the fifo was counted, up to the first failure.
THEOREM WriteStreamInvariant == Spec => []IInv
BY InitGives, StepKeeps, PTL DEF Spec

-----------------------------------------------------------------------------
(* What follows from it. *)

\* The variables have their types: the fifo never holds more than its capacity, and
\* Written() never more than the submissions could carry.
THEOREM WriteStreamTypeCorrect == Spec => []TypeOK
<1>1. IInv => TypeOK
  BY DEF IInv
<1>. QED
  BY <1>1, WriteStreamInvariant, PTL

\* The fifo always holds the last submissions, in the order they were made, behind
\* the transfers not submitted yet: Written and Close collect them in that order.
THEOREM WriteStreamInOrder == Spec => []InOrder
<1>1. IInv => InOrder
  BY DEF IInv, OrderInv
<1>. QED
  BY <1>1, WriteStreamInvariant, PTL

\* When the stream is over, either all submissions were successful and were counted,
\* or it has an error, and those up to the first that failed were.
LEMMA OverWritten ==
  ASSUME IInv, isNil
  PROVE  /\ submits \in 0..MaxSubmits /\ MaxSubmits \in Nat
         /\ \/ /\ \A k \in 1..submits : outcome[k].err = "nil"
               /\ total = Reported(submits)
            \/ err # "nil" /\ CountEnded
<1>1. pc = "idle" /\ Len(queue) = 0
  BY EmptySeq DEF IInv, CallInv
<1>2. submits \in 0..MaxSubmits /\ MaxSubmits \in Nat /\ LastLeft = submits
  BY <1>1, LastLeftType DEF IInv, LastLeft
<1>3. AllCounted \/ (err # "nil" /\ CountEnded)
  BY <1>1 DEF IInv, WrittenInv, FlushLabels
<1>4. ASSUME AllCounted
      PROVE  (\A k \in 1..submits : outcome[k].err = "nil") /\ total = Reported(submits)
  <2>1. submits = IF submits > 0 THEN submits ELSE 0
    BY <1>2
  <2>. QED
    BY <1>2, <1>4, <2>1 DEF AllCounted, Good
<1>. QED
  BY <1>2, <1>3, <1>4

\* Close returns nil only if every submission of the stream has completed, and
\* without an error: no failure is lost between the calls of Write and Close,
\* whatever was cancelled, and in whichever order the transfers finished.
THEOREM WriteStreamCloseNilMeansSuccess == Spec => []CloseNilMeansSuccess
<1>1. ASSUME IInv PROVE CloseNilMeansSuccess
  <2>. SUFFICES ASSUME isNil, err = "nil", NEW k \in 1..submits
                PROVE  Known(k) /\ ~Failed(k)
    BY DEF CloseNilMeansSuccess
  <2>1. outcome[k].err = "nil"
    BY <1>1, OverWritten
  <2>. QED
    BY <2>1 DEF Known, Failed
<1>. QED
  BY <1>1, WriteStreamInvariant, PTL

\* Once the stream is closed, Written() is the sum of what libusb reported for the
\* submissions up to the first that failed, of all when none did: the transfers are
\* collected in the order of submission, each once, and nothing is counted after a
\* failure, though the later ones may have finished first.
THEOREM WriteStreamWrittenCountsToFirstFailure == Spec => []WrittenCountsToFirstFailure
<1>1. ASSUME IInv PROVE WrittenCountsToFirstFailure
  <2>. SUFFICES ASSUME isNil PROVE WrittenCountsToFirstFailure
    BY DEF WrittenCountsToFirstFailure
  <2>. DEFINE failed == {k \in 1..submits : Failed(k)}
  <2>1. CASE (\A k \in 1..submits : outcome[k].err = "nil") /\ total = Reported(submits)
    <3>1. failed = {}
      BY <2>1 DEF Failed
    <3>. QED
      BY <2>1, <3>1 DEF WrittenCountsToFirstFailure
  <2>2. CASE CountEnded
    <3>1. PICK k \in 1..submits :
            Failed(k) /\ (\A j \in 1..k - 1 : ~Failed(j)) /\ total = Reported(k)
      BY <2>2 DEF CountEnded, Good, Failed
    <3>2. submits \in Nat
      BY <1>1, OverWritten
    <3>3. k \in failed /\ \A j \in failed : k <= j
      BY <3>1, <3>2
    <3>4. ASSUME NEW l \in failed, \A j \in failed : l <= j PROVE l = k
      BY <3>2, <3>3, <3>4
    <3>5. (CHOOSE l \in failed : \A j \in failed : l <= j) = k
      BY <3>3, <3>4
    <3>. QED
      BY <3>1, <3>3, <3>5 DEF WrittenCountsToFirstFailure
  <2>. QED
    BY <1>1, <2>1, <2>2, OverWritten
<1>. QED
  BY <1>1, WriteStreamInvariant, PTL

\* Write copies into a transfer and submits it only when libusb does not have it and
\* the open fifo has room to take it back, and it never finds the fifo empty.
THEOREM WriteStreamBufferIsFree == Spec => []BufferIsFree
<1>1. ASSUME IInv PROVE BufferIsFree
  <2>1. Len(queue) \in Nat /\ Count \in Nat \ {0} /\ (queue = <<>> <=> Len(queue) = 0)
    BY <1>1, FifoType, StreamAssumption DEF IInv, TypeOK, StreamTypeOK
  <2>2. ASSUME pc = "submit" PROVE phase[cur] = "idle" /\ Len(queue) < Count /\ ~finished
    <3>1. ~closing
      BY <1>1, <2>2 DEF IInv, CallInv, CloseLabels, FlushLabels
    <3>2. Len(queue) = Count - 1 /\ ~finished
      BY <1>1, <2>2, <3>1 DEF IInv, CountInv
    <3>3. phase[cur] = "idle"
      BY <1>1, <2>2 DEF IInv, CallInv, IdleLabels
    <3>. QED
      BY <2>1, <3>2, <3>3
  <2>3. ASSUME pc = "next", ~closing PROVE queue # <<>>
    BY <1>1, <2>1, <2>3 DEF IInv, CountInv
  <2>. QED
    BY <2>2, <2>3 DEF BufferIsFree
<1>. QED
  BY <1>1, WriteStreamInvariant, PTL

\* Whichever way a stream ends, Close has freed every one of its transfers.
THEOREM WriteStreamEndsClean == Spec => []EndsClean
<1>1. ASSUME IInv PROVE EndsClean
  <2>. SUFFICES ASSUME isNil, NEW t \in Transfers, phase[t] # "freed"
                PROVE  FALSE
    BY DEF EndsClean
  <2>1. pc = "idle" /\ queue = <<>>
    BY <1>1 DEF IInv, CallInv
  <2>2. TakenOut(t)
    BY <2>1, EmptySeq DEF TakenOut
  <2>. QED
    BY <1>1, <2>1, <2>2 DEF IInv, PlaceInv, OwnLabels, IdleLabels
<1>. QED
  BY <1>1, WriteStreamInvariant, PTL

\* Every step of a WriteStream is one that TransferProtocol allows, or does nothing to
\* the transfers: it submits and frees only idle ones, never one it has freed, and
\* collects each result before it uses the transfer again.
THEOREM WriteStreamUsesProtocol == Spec => UsesProtocol
<1>1. ASSUME IInv, [Next]_vars PROVE Obeys
  <2>0. StreamTypeOK
    BY <1>1 DEF IInv, TypeOK
  <2>1. CASE WriteWaitOK \/ WriteWaitFails \/ CloseWait \/ FlushWait
    <3>1. cur \in Transfers /\ Waited(cur)
      BY <1>1, <2>1 DEF IInv, CallInv, OwnLabels, WriteWaitOK, WriteWaitFails, CloseWait,
                        FlushWait, FlushWaits, Collected
    <3>. QED
      BY <2>0, <3>1, WaitedObeys
  <2>2. CASE WriteFreeFailed \/ WriteFreeUnsubmitted \/ FlushFree
    <3>1. cur \in Transfers /\ Freed(cur)
      BY <1>1, <2>2 DEF IInv, CallInv, OwnLabels, IdleLabels, WriteFreeFailed,
                        WriteFreeUnsubmitted, FlushFree
    <3>. QED
      BY <2>0, <3>1, FreedObeys
  <2>3. CASE CloseFree \/ CloseFreeFailed \/ CloseFreeAgain
    <3>1. cur \in Transfers /\ Freed(cur)
      BY <1>1, <2>3 DEF IInv, CallInv, OwnLabels, IdleLabels, CloseFree, CloseFreeFailed,
                        CloseFreeAgain
    <3>. QED
      BY <2>0, <3>1, FreedObeys
  <2>4. CASE WriteSubmit
    <3>1. CASE Submitted(cur)
      <4>1. cur \in Transfers /\ phase[cur] = "idle"
        BY <1>1, <2>4 DEF IInv, CallInv, OwnLabels, IdleLabels, WriteSubmit
      <4>. QED
        BY <2>0, <3>1, <4>1, SubmittedObeys
    <3>2. CASE UNCHANGED phase
      BY <3>2, UnmovedObeys
    <3>. QED
      BY <2>4, <3>1, <3>2 DEF WriteSubmit, Copied, transferVars
  <2>5. ASSUME NEW t \in Transfers, Finishes(t) PROVE Obeys
    BY <2>0, <2>5, FinishObeys DEF Finishes
  <2>6. CASE UNCHANGED phase
    BY <2>6, UnmovedObeys
  <2>7. FlushCancel \/ WaitCancels \/ CtxEnds => UNCHANGED phase
    BY DEF FlushCancel, FlushCancels, WaitCancels, Cancelled, CtxEnds, transferVars
  <2>8. WriteDone \/ WriteReceive \/ WriteFlushed \/ CloseReceive \/ CloseFlushed
          \/ CloseReturns \/ Calls \/ UNCHANGED vars => UNCHANGED phase
    BY DEF WriteDone, WriteReceive, WriteFlushed, CloseReceive, CloseFlushed, CloseReturns,
           Calls, WriteAfterError, WriteCall, CloseAgain, CloseCall, vars, transferVars
  <2>. QED
    BY <1>1, <2>1, <2>2, <2>3, <2>4, <2>5, <2>6, <2>7, <2>8
       DEF Next, Environment, Running, Flush
<1>. QED
  BY <1>1, WriteStreamInvariant, PTL DEF Spec, UsesProtocol, Obeys
=============================================================================
