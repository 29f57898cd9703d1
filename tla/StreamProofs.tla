---------------------------- MODULE StreamProofs -----------------------------
(***************************************************************************)
(* Invariants and lemmas about the fifo and the transfers of a stream that *)
(* the proofs about ReadStream and WriteStream share.                      *)
(***************************************************************************)
EXTENDS Stream, SequenceTheorems, TLAPS

\* The transfer t is not in the fifo.
TakenOut(t) == \A i \in DOMAIN queue : queue[i] # t

\* Submission k is the last one of t or, for k < 1, t was not submitted yet.
IsSubmission(t, k) ==
    IF k > 0 THEN number[t] = k /\ phase[t] \in {"inflight", "finished"}
             ELSE number[t] = 0 /\ phase[t] = "idle"

\* The fifo holds the submissions in order, and none twice; the transfer that the
\* goroutine waits for was at its head.
OrderInv ==
    /\ InOrder
    /\ \A i, j \in DOMAIN queue : queue[i] = queue[j] => i = j
    /\ pc \in {"wait", "flushwait"} =>
         cur \in Transfers /\ TakenOut(cur) /\ IsSubmission(cur, submits - Len(queue))

-----------------------------------------------------------------------------
(* The operations of the fifo. *)

LEMMA FifoType ==
  ASSUME NEW q \in Seq(Transfers)
  PROVE  /\ Len(q) \in Nat
         /\ DOMAIN q = 1..Len(q)
         /\ \A i \in DOMAIN q : q[i] \in Transfers
         /\ q = <<>> <=> Len(q) = 0
BY LenProperties, EmptySeq

LEMMA FifoTail ==
  ASSUME NEW q \in Seq(Transfers), q # <<>>
  PROVE  /\ Head(q) = q[1] /\ 1 \in DOMAIN q
         /\ Tail(q) \in Seq(Transfers)
         /\ Len(Tail(q)) = Len(q) - 1
         /\ DOMAIN Tail(q) = 1..(Len(q) - 1)
         /\ \A i \in DOMAIN Tail(q) : i + 1 \in DOMAIN q /\ Tail(q)[i] = q[i + 1]
BY HeadTailProperties, FifoType

LEMMA FifoAppend ==
  ASSUME NEW q \in Seq(Transfers), NEW t \in Transfers
  PROVE  /\ Append(q, t) \in Seq(Transfers)
         /\ Len(Append(q, t)) = Len(q) + 1
         /\ DOMAIN Append(q, t) = 1..(Len(q) + 1)
         /\ \A i \in DOMAIN q : Append(q, t)[i] = q[i]
         /\ Append(q, t)[Len(q) + 1] = t
BY AppendProperties, FifoType

\* The transfers in the order of their numbers, as newStream is given them.
LEMMA FifoAll ==
  ASSUME NEW q, q = [t \in Transfers |-> t]
  PROVE  /\ q \in Seq(Transfers) /\ Len(q) = Count
         /\ \A i \in DOMAIN q : q[i] = i
<1>1. q \in Seq(Transfers)
  BY StreamAssumption, IsASeq DEF Transfers
<1>2. Len(q) = Count
  BY <1>1, StreamAssumption, FifoType DEF Transfers
<1>. QED
  BY <1>1, <1>2

-----------------------------------------------------------------------------
(* How the steps of both streams keep types. *)

LEMMA SubmittedTypes ==
  ASSUME StreamTypeOK, NEW t \in Transfers, Submitted(t)
  PROVE  /\ phase' \in [Transfers -> {"idle", "inflight", "finished", "freed"}]
         /\ number' \in [Transfers -> 0..MaxSubmits]
         /\ submits' \in 0..MaxSubmits
<1>1. submits + 1 \in 0..MaxSubmits
  BY StreamAssumption DEF StreamTypeOK, Submitted
<1>. QED
  BY <1>1 DEF StreamTypeOK, Submitted

LEMMA ReceiveTypes ==
  ASSUME StreamTypeOK, NEW label, Receive(label)
  PROVE  /\ queue' \in Seq(Transfers) /\ Len(queue') <= Count
         /\ cur' \in Transfers
<1>1. queue \in Seq(Transfers) /\ queue # <<>> /\ Len(queue) <= Count /\ Count \in Nat
  BY StreamAssumption DEF StreamTypeOK, Receive
<1>2. queue' = Tail(queue) /\ cur' = Head(queue)
  BY DEF Receive, GotoWith
<1>. QED
  BY <1>1, <1>2, FifoTail, FifoType

-----------------------------------------------------------------------------
(* How they keep the order. *)

LEMMA UnmovedKeepsOrder ==
  ASSUME StreamTypeOK, OrderInv, UNCHANGED <<queue, phase, number, submits>>,
         pc' \in {"wait", "flushwait"} => pc \in {"wait", "flushwait"} /\ cur' = cur
  PROVE  OrderInv'
BY DEF OrderInv, InOrder, IsSubmission, TakenOut

LEMMA ReceiveKeepsOrder ==
  ASSUME StreamTypeOK, OrderInv, UNCHANGED <<phase, number, submits>>, NEW label, Receive(label)
  PROVE  OrderInv'
<1>. USE DEF StreamTypeOK
<1>1. /\ queue' = Tail(queue) /\ cur' = queue[1] /\ 1 \in DOMAIN queue
      /\ Len(queue') = Len(queue) - 1 /\ DOMAIN queue' = 1..(Len(queue) - 1)
      /\ \A i \in DOMAIN queue' : i + 1 \in DOMAIN queue /\ queue'[i] = queue[i + 1]
  BY FifoTail DEF Receive, GotoWith
<1>2. InOrder'
  <2>. SUFFICES ASSUME NEW i \in DOMAIN queue'
                PROVE  LET k == submits - Len(queue') + i IN
                       IF k > 0
                       THEN number[queue'[i]] = k /\ phase[queue'[i]] \in {"inflight", "finished"}
                       ELSE number[queue'[i]] = 0 /\ phase[queue'[i]] = "idle"
    BY DEF InOrder
  <2>1. i + 1 \in DOMAIN queue /\ queue'[i] = queue[i + 1]
    BY <1>1
  <2>2. submits - Len(queue') + i = submits - Len(queue) + (i + 1)
    BY <1>1, FifoType
  <2>. QED
    BY <2>1, <2>2 DEF OrderInv, InOrder
<1>3. \A i, j \in DOMAIN queue' : queue'[i] = queue'[j] => i = j
  BY <1>1, FifoType DEF OrderInv
<1>4. cur' \in Transfers /\ TakenOut(cur)'
  BY <1>1, FifoType DEF OrderInv, TakenOut
<1>5. IsSubmission(cur, submits - Len(queue))'
  BY <1>1, FifoType DEF OrderInv, InOrder, IsSubmission
<1>. QED
  BY <1>2, <1>3, <1>4, <1>5 DEF OrderInv

\* The goroutine collects or frees a transfer that it has taken out.
LEMMA OwnKeepsOrder ==
  ASSUME StreamTypeOK, OrderInv, NEW t \in Transfers, TakenOut(t),
         UNCHANGED <<queue, number, submits>>,
         \A s \in Transfers \ {t} : phase'[s] = phase[s],
         pc' \notin {"wait", "flushwait"}
  PROVE  OrderInv'
BY FifoType DEF OrderInv, InOrder, TakenOut, StreamTypeOK

LEMMA PutBackKeepsOrder ==
  ASSUME StreamTypeOK, OrderInv, NEW t \in Transfers, TakenOut(t),
         Submitted(t), queue' = Append(queue, t),
         pc' \notin {"wait", "flushwait"}
  PROVE  OrderInv'
<1>. USE DEF StreamTypeOK
<1>1. /\ Len(queue') = Len(queue) + 1 /\ DOMAIN queue' = 1..(Len(queue) + 1)
      /\ \A i \in DOMAIN queue : queue'[i] = queue[i]
      /\ queue'[Len(queue) + 1] = t
  BY FifoAppend
<1>2. submits' = submits + 1 /\ number'[t] = submits + 1 /\ phase'[t] = "inflight"
  BY DEF Submitted
<1>3. \A s \in Transfers \ {t} : number'[s] = number[s] /\ phase'[s] = phase[s]
  BY DEF Submitted
<1>4. InOrder'
  <2>1. /\ submits \in Nat /\ Len(queue) \in Nat /\ DOMAIN queue = 1..Len(queue)
        /\ submits' - Len(queue') = submits - Len(queue)
    BY <1>1, <1>2, FifoType
  <2>2. ASSUME NEW i \in DOMAIN queue
        PROVE  IsSubmission(queue[i], submits - Len(queue) + i)'
    <3>1. IsSubmission(queue[i], submits - Len(queue) + i)
      BY DEF OrderInv, InOrder, IsSubmission
    <3>2. queue[i] \in Transfers \ {t}
      BY FifoType DEF TakenOut
    <3>. QED
      BY <1>1, <1>3, <2>1, <3>1, <3>2 DEF IsSubmission
  <2>3. ASSUME NEW i, i = Len(queue) + 1
        PROVE  IsSubmission(queue[i], submits - Len(queue) + i)'
    BY <1>1, <1>2, <2>1, <2>3 DEF IsSubmission
  <2>4. \A i \in DOMAIN queue' : i \in DOMAIN queue \/ i = Len(queue) + 1
    BY <1>1, <2>1
  <2>. QED
    BY <2>2, <2>3, <2>4 DEF InOrder, IsSubmission
<1>5. \A i, j \in DOMAIN queue' : queue'[i] = queue'[j] => i = j
  BY <1>1, FifoType DEF OrderInv, TakenOut
<1>. QED
  BY <1>4, <1>5 DEF OrderInv

LEMMA ReceiveTakesOut ==
  ASSUME StreamTypeOK, NEW label, Receive(label), NEW t, ~TakenOut(t)
  PROVE  t = cur' \/ ~TakenOut(t)'
<1>1. /\ queue' = Tail(queue) /\ cur' = queue[1]
      /\ DOMAIN queue = 1..Len(queue) /\ Len(queue) \in Nat
      /\ DOMAIN queue' = 1..(Len(queue) - 1)
      /\ \A i \in DOMAIN queue' : queue'[i] = queue[i + 1]
  BY FifoTail, FifoType DEF Receive, GotoWith, StreamTypeOK
<1>2. PICK i \in DOMAIN queue : queue[i] = t
  BY DEF TakenOut
<1>3. CASE i = 1
  BY <1>1, <1>2, <1>3
<1>4. CASE i # 1
  <2>1. i - 1 \in DOMAIN queue' /\ queue'[i - 1] = queue[i]
    BY <1>1, <1>4
  <2>. QED
    BY <1>2, <2>1 DEF TakenOut
<1>. QED
  BY <1>3, <1>4

LEMMA PutBackPlaces ==
  ASSUME StreamTypeOK, NEW t \in Transfers, queue' = Append(queue, t)
  PROVE  /\ ~TakenOut(t)'
         /\ \A s : ~TakenOut(s) => ~TakenOut(s)'
<1>1. /\ DOMAIN queue = 1..Len(queue) /\ Len(queue) \in Nat
      /\ DOMAIN queue' = 1..(Len(queue) + 1)
      /\ \A i \in DOMAIN queue : queue'[i] = queue[i]
      /\ queue'[Len(queue) + 1] = t
  BY FifoAppend, FifoType DEF StreamTypeOK
<1>2. Len(queue) + 1 \in DOMAIN queue' /\ \A i \in DOMAIN queue : i \in DOMAIN queue'
  BY <1>1
<1>. QED
  BY <1>1, <1>2 DEF TakenOut

LEMMA FinishKeepsOrder ==
  ASSUME StreamTypeOK, OrderInv, NEW t \in Transfers, Finish(t)
  PROVE  OrderInv'
<1>1. /\ UNCHANGED <<queue, number, submits, pc, cur>>
      /\ \A s \in Transfers \ {t} : phase'[s] = phase[s]
      /\ phase[t] = "inflight" /\ phase'[t] = "finished"
  BY DEF Finish, StreamTypeOK, streamVars, callVars
<1>2. InOrder'
  <2>1. ASSUME NEW i \in DOMAIN queue
        PROVE  IsSubmission(queue[i], submits - Len(queue) + i)'
    <3>1. IsSubmission(queue[i], submits - Len(queue) + i)
      BY DEF OrderInv, InOrder, IsSubmission
    <3>2. queue[i] \in Transfers
      BY FifoType DEF StreamTypeOK
    <3>. QED
      BY <1>1, <3>1, <3>2 DEF IsSubmission
  <2>. QED
    BY <1>1, <2>1 DEF InOrder, IsSubmission
<1>3. pc \in {"wait", "flushwait"} => IsSubmission(cur, submits - Len(queue))'
  BY <1>1 DEF OrderInv, IsSubmission
<1>. QED
  BY <1>1, <1>2, <1>3 DEF OrderInv, TakenOut

-----------------------------------------------------------------------------
(* How they use the transfers. *)

Obeys == Protocol!Next \/ UNCHANGED Protocol!vars

LEMMA SubmittedObeys ==
  ASSUME StreamTypeOK, NEW t \in Transfers, phase[t] = "idle", Submitted(t)
  PROVE  Obeys
<1>1. Protocol!Submit(t)
  BY DEF Submitted, Protocol!Submit, Protocol!Advance, StreamTypeOK
<1>. QED
  BY <1>1 DEF Obeys, Protocol!Next

LEMMA FreedObeys ==
  ASSUME StreamTypeOK, NEW t \in Transfers, Freed(t)
  PROVE  Obeys
<1>1. CASE phase[t] = "idle"
  <2>1. Protocol!Free(t)
    BY <1>1 DEF Freed, Protocol!Free, Protocol!Advance, StreamTypeOK
  <2>. QED
    BY <2>1 DEF Obeys, Protocol!Next
<1>2. CASE phase[t] # "idle"
  BY <1>2 DEF Obeys, Protocol!vars, Freed, StreamTypeOK
<1>. QED
  BY <1>1, <1>2

LEMMA WaitedObeys ==
  ASSUME StreamTypeOK, NEW t \in Transfers, Waited(t)
  PROVE  Obeys
<1>1. CASE phase[t] = "finished"
  <2>1. Protocol!Collect(t)
    BY <1>1 DEF Waited, Protocol!Collect, Protocol!Advance, StreamTypeOK
  <2>. QED
    BY <2>1 DEF Obeys, Protocol!Next
<1>2. CASE phase[t] # "finished"
  BY <1>2 DEF Obeys, Protocol!vars, Waited, StreamTypeOK
<1>. QED
  BY <1>1, <1>2

LEMMA FinishObeys ==
  ASSUME StreamTypeOK, NEW t \in Transfers, Finish(t)
  PROVE  Obeys
<1>1. Protocol!Finish(t)
  BY DEF Finish, Protocol!Finish, Protocol!Advance, StreamTypeOK
<1>. QED
  BY <1>1 DEF Obeys, Protocol!Next

LEMMA UnmovedObeys ==
  ASSUME UNCHANGED phase
  PROVE  Obeys
BY DEF Obeys, Protocol!vars
=============================================================================
