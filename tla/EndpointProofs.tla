--------------------------- MODULE EndpointProofs ---------------------------
(***************************************************************************)
(* Endpoint with buffers of any length and any sizes of packets: the       *)
(* compaction stays in the buffer, and a call returns the data, the count  *)
(* and the error of what the device did.                                   *)
(***************************************************************************)
EXTENDS Endpoint, SequenceTheorems, WellFoundedInduction, TLAPS

(* The inductive invariant. *)

\* Where the transfer is when the call is there.
CallInv ==
    /\ phase = "none" <=> pc \in {"idle", "alloc"}
    /\ phase = "none" => packets = <<>> /\ size = 0 /\ actual = 0 /\ i = 1 /\ in = 0 /\ sum = 0
    /\ pc = "submit" => phase = "idle"
    /\ pc = "wait" => phase \in {"inflight", "finished"}
    /\ pc = "compact" => phase = "finished" /\ desc.iso
    /\ pc = "return" => phase \in {"idle", "finished"}

\* The packets lie in the buffer, each with no more data than it has room for.
PacketsInv ==
    /\ size * Len(packets) <= len
    /\ \A p \in 1..Len(packets) : packets[p].actual <= size

\* The packets before packet i were good, and their data was counted.
CompactInv ==
    pc = "compact" =>
        /\ in = size * (i - 1)
        /\ sum = Before(packets)[i]
        /\ \A p \in 1..i - 1 : packets[p].status = "completed"

\* The data of the packets from q on is where libusb has put it.
Arrived(q) ==
    \A p \in q..Len(packets) : \A k \in 0..packets[p].actual - 1 :
        data[size * (p - 1) + k] = Before(packets)[p] + k + 1

\* The first n bytes of the buffer are the first that the device has sent.
Compact(n) == \A k \in 0..n - 1 : data[k] = k + 1

\* What is compacted was sent first, and what is not is still in its place.
DataInv ==
    desc.input /\ phase = "finished" =>
        /\ pc = "wait" => IF desc.iso THEN Arrived(1) ELSE Compact(actual)
        /\ pc = "compact" => Arrived(i) /\ Compact(sum)
        /\ pc = "return" => Compact(ret.n)

\* A transfer that was not submitted has no bytes.
ResultInv ==
    /\ ResultIsExact
    /\ pc = "return" /\ phase = "idle" => ret.n = 0

IInv ==
    /\ TypeOK
    /\ CallInv
    /\ PacketsInv
    /\ CompactInv
    /\ DataInv
    /\ ResultInv

-----------------------------------------------------------------------------
(* The bytes before a packet. *)

LEMMA LeastNat ==
  ASSUME NEW T \in SUBSET Nat, T # {}
  PROVE  \E n \in T : \A m \in T : n <= m
<1>1. PICK n \in T : \A m \in T : ~(<<m, n>> \in OpToRel(<, Nat))
  BY NatLessThanWellFounded, WFMin
<1>2. \A m \in T : ~(m < n)
  BY <1>1 DEF OpToRel
<1>. QED
  BY <1>2

\* f has the bytes before each of the first n packets, and behind them.
HasBefore(f, ps, n) ==
    f = [p \in 1..n + 1 |-> IF p = 1 THEN 0 ELSE f[p - 1] + ps[p - 1].actual]

\* Before has them: there is no least n for which no function has.
LEMMA BeforeHas ==
  ASSUME NEW ps, Len(ps) \in Nat
  PROVE  HasBefore(Before(ps), ps, Len(ps))
<1>. DEFINE Without == {n \in Nat : ~\E f : HasBefore(f, ps, n)}
<1>1. Without = {}
  <2>. SUFFICES ASSUME Without # {} PROVE FALSE
    OBVIOUS
  <2>1. PICK n \in Without : \A m \in Without : n <= m
    BY LeastNat
  <2>2. n # 0
    <3>. DEFINE f == [p \in 1..0 + 1 |-> 0]
    <3>1. HasBefore(f, ps, 0)
      BY DEF HasBefore
    <3>. QED
      BY <3>1
  <2>3. PICK f : HasBefore(f, ps, n - 1)
    BY <2>1, <2>2
  <2>. DEFINE g == [p \in 1..n + 1 |-> IF p = n + 1 THEN f[n] + ps[n].actual ELSE f[p]]
  <2>4. HasBefore(g, ps, n)
    <3>1. ASSUME NEW p \in 1..n + 1
          PROVE  g[p] = IF p = 1 THEN 0 ELSE g[p - 1] + ps[p - 1].actual
      <4>1. CASE p = n + 1
        <5>1. n \in 1..n + 1 /\ n # n + 1 /\ n + 1 # 1 /\ n + 1 - 1 = n
          BY <2>2
        <5>. QED
          BY <4>1, <5>1
      <4>2. CASE p # n + 1
        <5>1. p \in 1..n - 1 + 1 /\ n - 1 \in Nat
          BY <2>2, <4>2
        <5>2. f[p] = IF p = 1 THEN 0 ELSE f[p - 1] + ps[p - 1].actual
          BY <2>3, <5>1 DEF HasBefore
        <5>3. p # 1 => p - 1 \in 1..n + 1 /\ p - 1 # n + 1
          BY <5>1
        <5>. QED
          BY <4>2, <5>2, <5>3
      <4>. QED
        BY <4>1, <4>2
    <3>. QED
      BY <3>1 DEF HasBefore
  <2>. QED
    BY <2>1, <2>4
<1>2. \E f : HasBefore(f, ps, Len(ps))
  BY <1>1
<1>. QED
  BY <1>2 DEF Before, HasBefore

LEMMA BeforeStep ==
  ASSUME NEW ps, Len(ps) \in Nat
  PROVE  /\ Before(ps)[1] = 0
         /\ \A p \in 1..Len(ps) : Before(ps)[p + 1] = Before(ps)[p] + ps[p].actual
<1>1. \A p \in 1..Len(ps) + 1 :
        Before(ps)[p] = IF p = 1 THEN 0 ELSE Before(ps)[p - 1] + ps[p - 1].actual
  BY BeforeHas DEF HasBefore
<1>2. Before(ps)[1] = 0
  BY <1>1
<1>3. ASSUME NEW p \in 1..Len(ps)
      PROVE  Before(ps)[p + 1] = Before(ps)[p] + ps[p].actual
  <2>1. p + 1 \in 1..Len(ps) + 1 /\ p + 1 # 1 /\ p + 1 - 1 = p
    OBVIOUS
  <2>. QED
    BY <1>1, <2>1
<1>. QED
  BY <1>2, <1>3

\* There is never more data than there would be in full packets.
LEMMA BeforeBound ==
  ASSUME NEW ps, Len(ps) \in Nat, NEW s \in Nat, \A p \in 1..Len(ps) : ps[p].actual \in 0..s
  PROVE  \A p \in 1..Len(ps) + 1 : Before(ps)[p] \in 0..s * (p - 1)
<1>. DEFINE Over == {p \in 1..Len(ps) + 1 : Before(ps)[p] \notin 0..s * (p - 1)}
<1>1. Over = {}
  <2>. SUFFICES ASSUME Over # {} PROVE FALSE
    OBVIOUS
  <2>1. PICK p \in Over : \A q \in Over : p <= q
    <3>1. Over \in SUBSET Nat
      OBVIOUS
    <3>. QED
      BY <3>1, LeastNat
  <2>2. p # 1
    <3>1. s * (1 - 1) = 0
      OBVIOUS
    <3>. QED
      BY <3>1, BeforeStep
  <2>3. PICK q \in 1..Len(ps) : q = p - 1
    BY <2>1, <2>2
  <2>4. Before(ps)[q] \in 0..s * (q - 1)
    BY <2>1, <2>3
  <2>5. Before(ps)[p] = Before(ps)[q] + ps[q].actual
    BY <2>3, BeforeStep
  <2>6. s * (q - 1) \in Nat /\ s * (p - 1) = s * (q - 1) + s
    BY <2>3
  <2>. QED
    <3>1. PICK m \in Nat : m = s * (q - 1)
      BY <2>6
    <3>2. PICK b \in 0..m, c \in 0..s : b = Before(ps)[q] /\ c = ps[q].actual
      BY <2>4, <3>1
    <3>3. b + c \in 0..m + s
      OBVIOUS
    <3>. QED
      BY <2>1, <2>5, <2>6, <3>1, <3>2, <3>3
<1>. QED
  BY <1>1

\* Places in the buffer.
LEMMA PlaceHas ==
  ASSUME NEW s \in Nat \ {0}, NEW k \in Nat
  PROVE  k \div s \in Nat /\ k % s \in 0..s - 1 /\ k = s * (k \div s) + (k % s)
<1>1. k % s \in 0..s - 1
  OBVIOUS
<1>2. k \div s \in Int
  OBVIOUS
<1>3. k = s * (k \div s) + (k % s)
  OBVIOUS
<1>4. PICK d \in Int, r \in 0..s - 1 : d = k \div s /\ k = s * d + r
  BY <1>1, <1>2, <1>3
<1>5. d < 0 => s * d <= -s
  OBVIOUS
<1>6. d \in Nat
  BY <1>4, <1>5
<1>. QED
  BY <1>1, <1>3, <1>4, <1>6

LEMMA PlaceIs ==
  ASSUME NEW s \in Nat \ {0}, NEW q \in Nat, NEW k \in 0..s - 1
  PROVE  (s * q + k) \div s = q /\ (s * q + k) % s = k
<1>. DEFINE a == s * q + k
<1>1. a \in Nat
  OBVIOUS
<1>2. PICK d \in Nat, r \in 0..s - 1 : d = a \div s /\ r = a % s /\ a = s * d + r
  BY <1>1, PlaceHas
<1>3. s * (d - q) = k - r
  BY <1>2
<1>4. ~(d > q)
  <2>1. d > q => s * (d - q) >= s
    OBVIOUS
  <2>. QED
    BY <1>3, <2>1
<1>5. ~(d < q)
  <2>1. d < q => s * (d - q) <= -s
    OBVIOUS
  <2>. QED
    BY <1>3, <2>1
<1>. QED
  BY <1>2, <1>3, <1>4, <1>5

-----------------------------------------------------------------------------
(* The packets in the buffer. *)

\* Functions that are sequences, and what the types say of the sizes.
LEMMA SeqOf ==
  ASSUME NEW S, NEW n \in Nat, NEW f \in [1..n -> S]
  PROVE  f \in Seq(S) /\ Len(f) = n
OBVIOUS

LEMMA Sizes ==
  ASSUME TypeOK
  PROVE  /\ len \in Nat /\ len <= MaxLen /\ MaxLen \in Nat /\ size \in Nat /\ size <= len
         /\ Len(packets) \in Nat /\ packets \in Seq(Packets)
         /\ \A p \in 1..Len(packets) : packets[p] \in Packets
<1>1. len \in 0..MaxLen /\ size \in 0..len /\ packets \in Seq(Packets) /\ MaxLen \in Nat
  BY EndpointAssumption DEF TypeOK
<1>2. Len(packets) \in Nat /\ \A p \in 1..Len(packets) : packets[p] \in Packets
  BY <1>1, LenProperties, ElementOfSeq
<1>. QED
  BY <1>1, <1>2

LEMMA DescHas == \A d \in Descs : d.maxPacketSize \in Nat
<1>1. ASSUME NEW w \in wMaxPacketSizes, NEW t \in BOOLEAN
      PROVE  MaxPacketSize(t, w) \in Nat
  <2>1. w \in Nat
    BY EndpointAssumption
  <2>2. w % 2048 \in Nat /\ ((w \div 2048) % 4) + 1 \in Nat
    BY <2>1
  <2>3. \A a, b \in Nat : a * b \in Nat
    OBVIOUS
  <2>. QED
    BY <2>1, <2>2, <2>3 DEF MaxPacketSize
<1>. QED
  BY <1>1 DEF Descs

\* newUSBTransfer makes packets that fit in the buffer.
LEMMA PacketsFit ==
  ASSUME TypeOK
  PROVE  PacketSize \in 0..len /\ PacketCount \in Nat /\ PacketSize * PacketCount <= len
<1>1. len \in Nat /\ desc.maxPacketSize \in Nat
  BY Sizes, DescHas DEF TypeOK
<1>2. PICK s \in 0..len : s = PacketSize
  BY <1>1 DEF PacketSize
<1>3. CASE s > 0
  <2>1. s \in Nat \ {0}
    BY <1>3
  <2>2. PICK c \in Nat, r \in 0..s - 1 : c = len \div s /\ len = s * c + r
    BY <1>1, <2>1, PlaceHas
  <2>. QED
    BY <1>2, <1>3, <2>2 DEF PacketCount
<1>4. CASE s = 0
  BY <1>1, <1>2, <1>4 DEF PacketCount
<1>. QED
  BY <1>3, <1>4, <1>2

\* A byte of a packet is in the buffer, and its place tells the packet.
LEMMA PacketPlace ==
  \A s, c, l \in Nat :
     s * c <= l =>
        \A p \in 1..c : \A k \in 0..s - 1 :
            \E a \in 0..l - 1 :
                a = s * (p - 1) + k /\ a < s * c /\ a \div s = p - 1 /\ a % s = k
<1>. SUFFICES ASSUME NEW s \in Nat, NEW c \in Nat, NEW l \in Nat, s * c <= l,
                     NEW p \in 1..c, NEW k \in 0..s - 1
              PROVE  \E a \in 0..l - 1 :
                        a = s * (p - 1) + k /\ a < s * c /\ a \div s = p - 1 /\ a % s = k
  OBVIOUS
<1>1. s \in Nat \ {0} /\ p - 1 \in Nat
  OBVIOUS
<1>2. s * (p - 1) \in Nat /\ s * p = s * (p - 1) + s
  BY <1>1
<1>3. s * c = s * p + s * (c - p) /\ s * (c - p) \in Nat
  BY <1>1
<1>4. s * (p - 1) + k < s * c
  <2>1. PICK x \in Nat, y \in Nat : x = s * (p - 1) /\ y = s * (c - p)
    BY <1>2, <1>3
  <2>2. s * c = x + s + y
    BY <1>2, <1>3, <2>1
  <2>. QED
    BY <2>1, <2>2
<1>5. (s * (p - 1) + k) \div s = p - 1 /\ (s * (p - 1) + k) % s = k
  BY <1>1, PlaceIs
<1>6. s * (p - 1) + k \in 0..l - 1
  BY <1>2, <1>4
<1>. QED
  BY <1>4, <1>5, <1>6

\* What libusb may make of the packets.
Filled(ps) == Len(ps) = Len(packets) /\ \A p \in 1..Len(ps) : ps[p].actual \in 0..size

\* Finish fills the packets it finds.
LEMMA FinishFills ==
  ASSUME TypeOK, PacketsInv, packets' \in [1..Len(packets) -> [actual : 0..size, status : Statuses]]
  PROVE  /\ packets' \in Seq(Packets) /\ Len(packets') = Len(packets) /\ Filled(packets')
         /\ \A p \in 1..Len(packets') : packets'[p].actual <= size
<1>1. PICK c \in Nat, s \in Nat : c = Len(packets) /\ s = size /\ s <= MaxLen /\ MaxLen \in Nat
  BY Sizes
<1>2. \A p \in 1..c : packets'[p] \in [actual : 0..s, status : Statuses]
  BY <1>1
<1>3. packets' \in [1..c -> Packets]
  BY <1>1, <1>2 DEF Packets
<1>4. packets' \in Seq(Packets) /\ Len(packets') = c
  BY <1>3, SeqOf
<1>5. \A p \in 1..c : packets'[p].actual \in 0..s
  BY <1>2
<1>. QED
  BY <1>1, <1>4, <1>5 DEF Filled

\* libusb puts the data of each packet, in order, at the start of the packet.
LEMMA ReceivedArrives ==
  ASSUME TypeOK, PacketsInv, desc.iso, NEW ps, Filled(ps), NEW n
  PROVE  \A p \in 1..Len(ps) : \A k \in 0..ps[p].actual - 1 :
            Received(ps, n)[size * (p - 1) + k] = Before(ps)[p] + k + 1
<1>1. PICK s \in Nat, c \in Nat, l \in Nat : s = size /\ c = Len(ps) /\ l = len /\ s * c <= l
  BY Sizes DEF PacketsInv, Filled
<1>0. \A p \in 1..c : \A k \in 0..s - 1 :
         \E a \in 0..l - 1 :
            a = s * (p - 1) + k /\ a < s * c /\ a \div s = p - 1 /\ a % s = k
  BY <1>1, PacketPlace
<1>2. ASSUME NEW p \in 1..c, NEW k \in 0..s - 1, k < ps[p].actual
      PROVE  Received(ps, n)[s * (p - 1) + k] = Before(ps)[p] + k + 1
  <2>1. PICK a \in 0..l - 1 :
          a = s * (p - 1) + k /\ a < s * c /\ a \div s = p - 1 /\ a % s = k
    BY <1>0
  <2>2. s # 0 /\ p - 1 + 1 = p
    OBVIOUS
  <2>3. Received(ps, n)[a] = Before(ps)[p] + k + 1
    BY <1>1, <1>2, <2>1, <2>2 DEF Received
  <2>. QED
    BY <2>1, <2>3
<1>3. ASSUME NEW p \in 1..Len(ps), NEW k \in 0..ps[p].actual - 1
      PROVE  p \in 1..c /\ k \in 0..s - 1 /\ k < ps[p].actual
  BY <1>1 DEF Filled
<1>. QED
  BY <1>1, <1>2, <1>3

\* What is received are bytes, and no more than were asked for.
LEMMA ReceivedType ==
  ASSUME TypeOK, PacketsInv, phase # "none", NEW ps, Filled(ps), NEW n \in 0..len
  PROVE  Received(ps, n) \in Bytes
<1>1. PICK s \in Nat, c \in Nat, l \in Nat : s = size /\ c = Len(ps) /\ l = len /\ l <= MaxLen
  BY Sizes DEF Filled
<1>0. data \in [0..l - 1 -> 0..MaxLen] /\ MaxLen \in Nat
  <2>1. data \in Bytes
    BY DEF TypeOK
  <2>. QED
    BY <1>1, <2>1, Sizes DEF Bytes
<1>2. ASSUME NEW k \in 0..l - 1
      PROVE  Received(ps, n)[k] \in 0..MaxLen
  <2>1. k + 1 \in 0..MaxLen /\ data[k] \in 0..MaxLen
    BY <1>0, <1>1
  <2>2. ASSUME s # 0, k < s * c
        PROVE  Before(ps)[(k \div s) + 1] + (k % s) + 1 \in 0..MaxLen
    <3>1. PICK q \in Nat, r \in 0..s - 1 : q = k \div s /\ r = k % s /\ k = s * q + r
      <4>1. s \in Nat \ {0} /\ k \in Nat
        BY <2>2
      <4>2. k \div s \in Nat /\ k % s \in 0..s - 1 /\ k = s * (k \div s) + (k % s)
        BY <4>1, PlaceHas
      <4>. QED
        BY <4>2
    <3>2. q + 1 \in 1..c
      <4>1. ASSUME q >= c PROVE FALSE
        <5>1. s * q = s * c + s * (q - c) /\ s * (q - c) \in Nat
          BY <4>1, <1>1
        <5>2. PICK x \in Nat, y \in Nat, z \in Nat : x = s * c /\ y = s * (q - c) /\ z = s * q
          BY <5>1
        <5>3. k < x /\ k = z + r /\ z = x + y
          BY <1>1, <2>2, <3>1, <5>1, <5>2
        <5>. QED
          BY <5>3
      <4>. QED
        BY <4>1
    <3>3. Before(ps)[q + 1] \in 0..s * q
      <4>1. q + 1 \in 1..Len(ps) + 1 /\ q + 1 - 1 = q /\ Len(ps) \in Nat
        BY <1>1, <3>2
      <4>2. \A p \in 1..Len(ps) + 1 : Before(ps)[p] \in 0..s * (p - 1)
        BY <1>1, <4>1, BeforeBound DEF Filled
      <4>3. Before(ps)[q + 1] \in 0..s * (q + 1 - 1)
        BY <4>1, <4>2
      <4>. QED
        BY <4>1, <4>3
    <3>4. PICK x \in Nat : x = s * q
      BY <3>1
    <3>5. PICK b \in 0..x : b = Before(ps)[q + 1]
      BY <3>3, <3>4
    <3>6. b + r + 1 \in Nat /\ b + r + 1 <= k + 1
      BY <3>1, <3>4, <3>5
    <3>7. b + r + 1 \in 0..MaxLen
      BY <1>0, <2>1, <3>6
    <3>. QED
      BY <3>1, <3>5, <3>7
  <2>. QED
    BY <1>1, <2>1, <2>2 DEF Received
<1>. QED
  BY <1>1, <1>2 DEF Received, Bytes

\* What the compaction knows of the packet it works on.
LEMMA CompactKnows ==
  ASSUME TypeOK, PacketsInv, CompactInv, pc = "compact"
  PROVE  /\ Before(packets)[i] \in 0..size * (i - 1) /\ sum = Before(packets)[i]
         /\ in = size * (i - 1) /\ i \in 1..Len(packets) + 1
         /\ i <= Len(packets) =>
              /\ packets[i].actual \in 0..size /\ in + size <= len /\ size * (i + 1 - 1) = in + size
              /\ Before(packets)[i + 1] = sum + packets[i].actual
<1>1. PICK s \in Nat, c \in Nat, l \in Nat : s = size /\ c = Len(packets) /\ l = len /\ s * c <= l
  BY Sizes DEF PacketsInv
<1>2. \A p \in 1..c : packets[p].actual \in 0..s
  BY <1>1, Sizes DEF PacketsInv, Packets
<1>3. i \in 1..c + 1 /\ in = s * (i - 1) /\ sum = Before(packets)[i]
  BY <1>1 DEF TypeOK, CompactInv
<1>4. Before(packets)[i] \in 0..s * (i - 1)
  BY <1>1, <1>2, <1>3, BeforeBound
<1>5. ASSUME i <= c
      PROVE  in + s <= l /\ s * (i + 1 - 1) = in + s
  <2>1. i + 1 - 1 = i /\ s * i = s * (i - 1) + s
    BY <1>3
  <2>2. s * c = s * i + s * (c - i) /\ s * (c - i) \in Nat
    BY <1>3, <1>5
  <2>. QED
    BY <1>1, <1>3, <2>1, <2>2
<1>6. ASSUME i <= c
      PROVE  Before(packets)[i + 1] = sum + packets[i].actual
  <2>1. \A p \in 1..c : Before(packets)[p + 1] = Before(packets)[p] + packets[p].actual
    BY <1>1, BeforeStep
  <2>2. i \in 1..c
    BY <1>3, <1>6
  <2>. QED
    BY <1>3, <2>1, <2>2
<1>. QED
  BY <1>1, <1>2, <1>3, <1>4, <1>5, <1>6

-----------------------------------------------------------------------------
(* newUSBTransfer, submit and wait *)

LEMMA CallKeeps ==
  ASSUME IInv, Call
  PROVE  IInv'
<1>. USE DEF IInv, Call, xferVars, loopVars
<1>1. TypeOK'
  <2>1. PICK d \in Descs, l \in 0..MaxLen :
          d = desc' /\ l = len' /\ buf' = [k \in 0..l - 1 |-> IF d.input THEN Stale ELSE k + 1]
    OBVIOUS
  <2>2. l \in Nat /\ l <= MaxLen /\ MaxLen \in Nat
    BY Sizes
  <2>3. buf' \in Bytes'
    <3>1. \A k \in 0..l - 1 : (IF d.input THEN Stale ELSE k + 1) \in 0..MaxLen
      BY <2>2 DEF Stale
    <3>2. buf' \in [0..l - 1 -> 0..MaxLen]
      BY <2>1, <3>1
    <3>. QED
      BY <2>1, <3>2 DEF Bytes
  <2>4. 0 \in 0..l
    BY <2>2
  <2>5. desc' \in Descs /\ len' \in 0..MaxLen /\ ret' = [n |-> 0, err |-> "completed"]
    BY <2>1
  <2>6. phase = "none" /\ packets = <<>> /\ size = 0 /\ actual = 0 /\ i = 1 /\ in = 0 /\ sum = 0
        /\ data = <<>>
    BY DEF CallInv, TypeOK
  <2>7. UNCHANGED <<phase, packets, size, actual, i, in, sum, data, status>> /\ pc' = "alloc"
    OBVIOUS
  <2>8. i' \in 1..Len(packets') + 1 /\ packets' \in Seq(Packets) /\ status' \in Statuses
    BY <2>7 DEF TypeOK
  <2>. QED
    BY <2>1, <2>3, <2>4, <2>5, <2>6, <2>7, <2>8 DEF TypeOK, Statuses
<1>2. CallInv'
  BY DEF CallInv
<1>3. PacketsInv'
  BY DEF CallInv, PacketsInv
<1>4. CompactInv'
  BY DEF CompactInv
<1>5. DataInv'
  BY DEF DataInv
<1>6. ResultInv'
  BY DEF ResultInv, ResultIsExact, ReadHasNoGaps, CountsAllOfBulk, CountsToFirstFailure
<1>. QED
  BY <1>1, <1>2, <1>3, <1>4, <1>5, <1>6

LEMMA AllocKeeps ==
  ASSUME IInv, Alloc
  PROVE  IInv'
<1>p. PICK m \in Nat : 
         /\ packets' = [p \in 1..m |-> [actual |-> 0, status |-> "completed"]]
         /\ size' \in 0..len /\ size' \in Nat /\ size' * m <= len
  <2>0. len \in Nat
    BY Sizes DEF IInv
  <2>1. CASE desc.iso
    <3>1. PICK m \in Nat, z \in 0..len : m = PacketCount /\ z = PacketSize /\ z * m <= len
      BY PacketsFit DEF IInv
    <3>. QED
      BY <2>0, <2>1, <3>1 DEF Alloc
  <2>2. CASE ~desc.iso
    <3>1. 0 \in 0..len /\ 0 * 0 <= len
      BY <2>0
    <3>. QED
      BY <2>2, <3>1 DEF Alloc
  <2>. QED
    BY <2>1, <2>2
<1>s. /\ packets' \in Seq(Packets) /\ Len(packets') = m
      /\ \A p \in 1..m : packets'[p].actual = 0
  <2>1. [actual |-> 0, status |-> "completed"] \in Packets
    BY Sizes DEF IInv, Packets, Statuses
  <2>2. packets' \in [1..m -> Packets]
    BY <1>p, <2>1
  <2>. QED
    BY <1>p, <2>2, SeqOf
<1>z. \A p \in 1..m : packets'[p].actual <= size'
  BY <1>p, <1>s
<1>i. i = 1 /\ i \in 1..m + 1 /\ phase = "none"
  BY DEF IInv, CallInv, Alloc
<1>. USE DEF IInv, Alloc, callVars, loopVars
<1>1. TypeOK'
  <2>1. buf' \in Bytes' /\ Bytes' = Bytes
    BY DEF TypeOK, Bytes
  <2>2. \A k \in 0..len - 1 : buf[k] \in 0..MaxLen /\ Stale \in 0..MaxLen
    BY Sizes DEF TypeOK, Bytes, Stale
  <2>3. data' \in Bytes
    BY <2>2 DEF Bytes
  <2>. QED
    BY <1>p, <1>s, <1>i, <2>1, <2>3 DEF TypeOK
<1>2. CallInv'
  BY DEF CallInv
<1>3. PacketsInv'
  BY <1>p, <1>s, <1>z DEF PacketsInv
<1>4. CompactInv'
  BY DEF CompactInv
<1>5. DataInv'
  BY DEF DataInv
<1>6. ResultInv'
  BY DEF ResultInv, ResultIsExact, ReadHasNoGaps, CountsAllOfBulk, CountsToFirstFailure
<1>. QED
  BY <1>1, <1>2, <1>3, <1>4, <1>5, <1>6

LEMMA AllocFailsKeeps ==
  ASSUME IInv, AllocFails
  PROVE  IInv'
<1>. USE DEF IInv, AllocFails, callVars, xferVars, loopVars
<1>1. TypeOK'
  BY DEF TypeOK, Bytes
<1>2. CallInv'
  BY DEF CallInv
<1>3. PacketsInv'
  BY DEF PacketsInv
<1>4. CompactInv'
  BY DEF CompactInv
<1>5. DataInv'
  BY DEF DataInv
<1>6. ResultInv'
  BY DEF ResultInv, ResultIsExact, ReadHasNoGaps, CountsAllOfBulk, CountsToFirstFailure
<1>. QED
  BY <1>1, <1>2, <1>3, <1>4, <1>5, <1>6

LEMMA SubmitKeeps ==
  ASSUME IInv, Submit
  PROVE  IInv'
<1>. USE DEF IInv, Submit, callVars, xferVars, loopVars
<1>1. TypeOK'
  BY DEF TypeOK, CallInv, Bytes
<1>2. CallInv'
  BY DEF CallInv
<1>3. PacketsInv'
  BY DEF PacketsInv
<1>4. CompactInv'
  BY DEF CompactInv
<1>5. DataInv'
  BY DEF DataInv
<1>6. ResultInv'
  BY DEF ResultInv, ResultIsExact, ReadHasNoGaps, CountsAllOfBulk, CountsToFirstFailure
<1>. QED
  BY <1>1, <1>2, <1>3, <1>4, <1>5, <1>6

LEMMA SubmitFailsKeeps ==
  ASSUME IInv, SubmitFails
  PROVE  IInv'
<1>. USE DEF IInv, SubmitFails, callVars, xferVars, loopVars, Result
<1>1. TypeOK'
  BY DEF TypeOK, Bytes
<1>2. CallInv'
  BY DEF CallInv
<1>3. PacketsInv'
  BY DEF PacketsInv
<1>4. CompactInv'
  BY DEF CompactInv
<1>5. DataInv'
  BY DEF DataInv, Compact
<1>6. ResultInv'
  BY DEF CallInv, ResultInv, ResultIsExact, ReadHasNoGaps, CountsAllOfBulk, CountsToFirstFailure
<1>. QED
  BY <1>1, <1>2, <1>3, <1>4, <1>5, <1>6

LEMMA FinishKeeps ==
  ASSUME IInv, Finish
  PROVE  IInv'
<1>f. /\ packets' \in Seq(Packets) /\ Len(packets') = Len(packets) /\ Filled(packets')
      /\ \A p \in 1..Len(packets') : packets'[p].actual <= size
  BY FinishFills DEF IInv, Finish
<1>a. actual' \in 0..len
  BY Sizes DEF IInv, Finish
<1>w. pc = "wait"
  BY DEF IInv, TypeOK, CallInv, Finish
<1>d. ASSUME desc.input, ~desc.iso
      PROVE  \A k \in 0..actual' - 1 : Received(packets', actual')[k] = k + 1
  <2>1. len \in Nat
    BY Sizes DEF IInv
  <2>2. PICK n \in Nat : n = actual' /\ n <= len
    BY <1>a, <2>1
  <2>3. \A k \in 0..n - 1 : k \in 0..len - 1 /\ k < n
    <3>1. \A x, y \in Nat : x <= y => \A k \in 0..x - 1 : k \in 0..y - 1 /\ k < x
      OBVIOUS
    <3>. QED
      BY <2>1, <2>2, <3>1
  <2>. QED
    BY <1>d, <2>2, <2>3 DEF Received
<1>. USE DEF IInv, Finish, callVars, loopVars
<1>1. TypeOK'
  <2>1. data' \in Bytes' /\ buf' \in Bytes'
    <3>1. Bytes' = Bytes
      BY DEF Bytes
    <3>2. Received(packets', actual') \in Bytes
      BY <1>f, <1>a, ReceivedType
    <3>. QED
      BY <3>1, <3>2 DEF TypeOK
  <2>. QED
    BY <1>f, <1>a, <2>1 DEF TypeOK
<1>2. CallInv'
  BY DEF CallInv
<1>3. PacketsInv'
  BY <1>f DEF PacketsInv
<1>4. CompactInv'
  BY DEF CallInv, CompactInv
<1>5. DataInv'
  <2>. SUFFICES ASSUME desc.input
                PROVE  pc = "wait" /\ IF desc.iso THEN Arrived(1)' ELSE Compact(actual)'
    BY DEF DataInv, CallInv
  <2>1. CASE desc.iso
    <3>1. \A p \in 1..Len(packets') : \A k \in 0..packets'[p].actual - 1 :
             Received(packets', actual')[size * (p - 1) + k] = Before(packets')[p] + k + 1
      BY <1>f, <2>1, ReceivedArrives
    <3>. QED
      BY <1>w, <2>1, <3>1 DEF Arrived
  <2>2. CASE ~desc.iso
    BY <1>d, <1>w, <2>2 DEF Compact
  <2>. QED
    BY <2>1, <2>2
<1>6. ResultInv'
  BY DEF CallInv, ResultInv, ResultIsExact, ReadHasNoGaps, CountsAllOfBulk, CountsToFirstFailure
<1>. QED
  BY <1>1, <1>2, <1>3, <1>4, <1>5, <1>6

LEMMA WaitDataKeeps ==
  ASSUME IInv, WaitData
  PROVE  IInv'
<1>. USE DEF IInv, WaitData, callVars, xferVars, loopVars, Result
<1>1. TypeOK'
  BY DEF TypeOK, Bytes
<1>2. CallInv'
  BY DEF CallInv
<1>3. PacketsInv'
  BY DEF PacketsInv
<1>4. CompactInv'
  BY DEF CompactInv
<1>5. DataInv'
  BY DEF DataInv, Compact
<1>6. ResultInv'
  BY DEF ResultInv, ResultIsExact, ReadHasNoGaps, CountsAllOfBulk, CountsToFirstFailure
<1>. QED
  BY <1>1, <1>2, <1>3, <1>4, <1>5, <1>6

-----------------------------------------------------------------------------
(* gousb_compact_iso_data, and the end of the call *)

LEMMA CompactStartKeeps ==
  ASSUME IInv, CompactStart
  PROVE  IInv'
<1>. USE DEF IInv, CompactStart, callVars, xferVars
<1>1. TypeOK'
  BY DEF TypeOK, Bytes
<1>2. CallInv'
  BY DEF CallInv
<1>3. PacketsInv'
  BY DEF PacketsInv
<1>4. CompactInv'
  <2>1. size * (1 - 1) = 0 /\ Len(packets) \in Nat
    BY Sizes
  <2>2. Before(packets)[1] = 0
    BY <2>1, BeforeStep
  <2>. QED
    BY <2>1, <2>2 DEF CompactInv
<1>5. DataInv'
  BY DEF DataInv, Arrived, Compact
<1>6. ResultInv'
  BY DEF ResultInv, ResultIsExact, ReadHasNoGaps, CountsAllOfBulk, CountsToFirstFailure
<1>. QED
  BY <1>1, <1>2, <1>3, <1>4, <1>5, <1>6

LEMMA CompactPacketKeeps ==
  ASSUME IInv, CompactPacket
  PROVE  IInv'
<1>n. /\ size * (i - 1) = in /\ size * (i + 1 - 1) = in + size
      /\ size \in Nat /\ len \in Nat /\ in \in Nat /\ sum \in Nat /\ sum <= in
      /\ i \in 1..Len(packets) /\ in + size <= len
      /\ packets[i].actual \in 0..size
      /\ Before(packets)[i] = sum /\ Before(packets)[i + 1] = sum + packets[i].actual
  <2>1. pc = "compact" /\ i <= Len(packets) /\ i \in 1..Len(packets) + 1
    BY DEF IInv, TypeOK, CompactPacket
  <2>2. size \in Nat /\ Len(packets) \in Nat /\ len \in Nat /\ i \in 1..Len(packets)
    BY <2>1, Sizes DEF IInv
  <2>3. /\ Before(packets)[i] \in 0..size * (i - 1) /\ sum = Before(packets)[i]
        /\ in = size * (i - 1)
        /\ packets[i].actual \in 0..size /\ in + size <= len /\ size * (i + 1 - 1) = in + size
        /\ Before(packets)[i + 1] = sum + packets[i].actual
    BY <2>1, CompactKnows DEF IInv
  <2>4. in \in Nat /\ sum \in Nat /\ sum <= in
    BY <2>2, <2>3
  <2>. QED
    BY <2>2, <2>3, <2>4
<1>f. size * Len(packets) <= len /\ Len(packets) \in Nat
  BY Sizes DEF IInv, PacketsInv
<1>c. PICK c \in Nat, n \in Nat : c = Len(packets) /\ n = packets[i].actual /\ n <= size
  BY <1>n, <1>f
<1>k. /\ size \in Nat /\ len \in Nat /\ in \in Nat /\ sum \in Nat /\ sum <= in
      /\ i \in 1..c /\ in + size <= len
      /\ Before(packets)[i] = sum /\ Before(packets)[i + 1] = sum + n
  BY <1>n, <1>c
<1>y. /\ size * c <= len
      /\ size * (i - 1) = in /\ size * (i + 1 - 1) = in + size
  BY <1>n, <1>f, <1>c
<1>m. /\ sum' = sum + n /\ in' = in + size /\ i' = i + 1
      /\ UNCHANGED <<pc, callVars, phase, size, packets>>
      /\ data' = [k \in 0..len - 1 |-> IF sum <= k /\ k < sum + n THEN data[in + k - sum]
                                                                  ELSE data[k]]
      /\ data \in [0..len - 1 -> 0..MaxLen]
  <2>1. data \in Bytes
    BY DEF IInv, CompactPacket, CallInv, TypeOK
  <2>. QED
    BY <1>c, <2>1 DEF CompactPacket, NextStart, Moved, Bytes
\* What is moved is the data of this packet, to behind what is compacted.
<1>d. ASSUME Arrived(i), Compact(sum), NEW k \in Nat, k < sum + n
      PROVE  data'[k] = k + 1
  <2>1. k \in 0..len - 1
    BY <1>k, <1>c, <1>d
  <2>2. CASE k < sum
    BY <1>k, <1>m, <1>d, <2>1, <2>2 DEF Compact
  <2>3. CASE k >= sum
    <3>1. k - sum \in 0..n - 1 /\ in + (k - sum) = in + k - sum /\ i \in i..c
      BY <1>k, <1>c, <1>d, <2>3
    <3>2. data[in + (k - sum)] = sum + (k - sum) + 1
      BY <1>k, <1>c, <1>y, <1>d, <3>1 DEF Arrived
    <3>3. data'[k] = data[in + k - sum]
      BY <1>k, <1>m, <1>d, <2>1, <2>3
    <3>. QED
      BY <1>k, <3>1, <3>2, <3>3
  <2>. QED
    BY <1>k, <2>2, <2>3
\* It does not reach the packets that follow.
<1>e. ASSUME Arrived(i), NEW p \in i + 1..c, NEW k \in 0..packets[p].actual - 1
      PROVE  data'[size * (p - 1) + k] = Before(packets)[p] + k + 1
  <2>1. p \in i..c /\ p \in 1..c
    BY <1>k, <1>c
  <2>2. data[size * (p - 1) + k] = Before(packets)[p] + k + 1
    BY <1>c, <1>e, <2>1 DEF Arrived
  <2>3. k \in 0..size - 1
    <3>1. packets[p] \in Packets /\ packets[p].actual <= size
      BY <1>c, <2>1, Sizes DEF IInv, PacketsInv
    <3>2. packets[p].actual \in Int
      BY <3>1, Sizes DEF IInv, Packets
    <3>. QED
      BY <1>k, <3>1, <3>2
  <2>4. PICK a \in 0..len - 1 : a = size * (p - 1) + k
    <3>1. size \in Nat /\ len \in Nat /\ size * c <= len
      BY <1>k, <1>y
    <3>. QED
      BY <2>1, <2>3, <3>1, PacketPlace
  <2>5. a >= in + size
    <3>1. PICK x \in Nat, y \in Nat : x = size * (p - 1) /\ y = size * (p - 1 - i)
      BY <1>k, <2>1
    <3>2. size * (p - 1) = size * (i + 1 - 1) + size * (p - 1 - i)
      BY <1>k, <2>1
    <3>3. x = in + size + y
      BY <1>y, <3>1, <3>2
    <3>4. a = x + k
      BY <2>4, <3>1
    <3>. QED
      BY <1>k, <2>3, <3>3, <3>4
  <2>6. data'[a] = data[a]
    <3>1. ~(a < sum + n)
      BY <1>k, <1>c, <2>5
    <3>2. data'[a] = IF sum <= a /\ a < sum + n THEN data[in + a - sum] ELSE data[a]
      BY <1>m
    <3>. QED
      BY <3>1, <3>2
  <2>. QED
    BY <2>2, <2>4, <2>6
<1>. USE DEF IInv, CompactPacket, callVars, PacketOK, NextStart
<1>1. TypeOK'
  <2>1. data' \in Bytes'
    <3>1. ASSUME NEW k \in 0..len - 1, sum <= k, k < sum + n
          PROVE  in + k - sum \in 0..len - 1
      BY <1>k, <1>c, <3>1
    <3>2. data' \in [0..len - 1 -> 0..MaxLen]
      BY <1>m, <3>1
    <3>. QED
      BY <3>2 DEF Bytes
  <2>2. in' \in 0..len /\ sum' \in 0..len /\ i' \in 1..Len(packets) + 1
    BY <1>k, <1>c, <1>m
  <2>. QED
    BY <2>1, <2>2 DEF TypeOK, CallInv, Bytes
<1>2. CallInv'
  BY DEF CallInv
<1>3. PacketsInv'
  BY DEF PacketsInv
<1>4. CompactInv'
  <2>1. \A p \in 1..i + 1 - 1 : p = i \/ p \in 1..i - 1
    BY <1>k
  <2>2. \A p \in 1..i + 1 - 1 : packets[p].status = "completed"
    BY <2>1 DEF CompactInv
  <2>. QED
    BY <1>k, <1>y, <1>c, <1>m, <2>2 DEF CompactInv
<1>5. DataInv'
  <2>. SUFFICES ASSUME desc.input PROVE Arrived(i)' /\ Compact(sum)'
    BY <1>m DEF DataInv
  <2>1. Arrived(i) /\ Compact(sum)
    BY DEF DataInv, CallInv
  <2>2. Compact(sum)'
    <3>1. PICK x \in Nat : x = sum + n
      BY <1>k
    <3>2. \A k \in 0..x - 1 : k \in Nat /\ k < x
      OBVIOUS
    <3>3. \A k \in 0..x - 1 : data'[k] = k + 1
      BY <1>d, <2>1, <3>1, <3>2
    <3>. QED
      BY <1>m, <3>1, <3>3 DEF Compact
  <2>3. Arrived(i)'
    BY <1>c, <1>m, <1>e, <2>1 DEF Arrived
  <2>. QED
    BY <2>2, <2>3
<1>6. ResultInv'
  BY DEF ResultInv, ResultIsExact, ReadHasNoGaps, CountsAllOfBulk, CountsToFirstFailure
<1>. QED
  BY <1>1, <1>2, <1>3, <1>4, <1>5, <1>6

LEMMA CompactStopsKeeps ==
  ASSUME IInv, CompactStops
  PROVE  IInv'
<1>k. /\ Before(packets)[i] \in 0..size * (i - 1) /\ sum = Before(packets)[i]
      /\ i \in 1..Len(packets) + 1 /\ Len(packets) \in Nat
      /\ \A p \in 1..i - 1 : packets[p].status = "completed"
  BY CompactKnows, Sizes DEF IInv, CompactInv, CompactStops
<1>. USE DEF IInv, CompactStops, callVars, xferVars, loopVars, Result, PacketOK
<1>1. TypeOK'
  <2>1. packets[i] \in Packets /\ sum \in 0..len
    BY <1>k, Sizes DEF TypeOK
  <2>2. ret' \in [n : 0..len, err : Statuses \cup {"alloc", "submit"}]
    BY <2>1 DEF Packets
  <2>. QED
    BY <2>2 DEF TypeOK, Bytes
<1>2. CallInv'
  BY DEF CallInv
<1>3. PacketsInv'
  BY DEF PacketsInv
<1>4. CompactInv'
  BY DEF CompactInv
<1>5. DataInv'
  BY DEF DataInv, Compact
<1>6. ResultInv'
  <2>1. i \in Failures(packets) /\ \A p \in Failures(packets) : i <= p
    BY <1>k DEF Failures
  <2>2. ASSUME NEW p \in Failures(packets), \A q \in Failures(packets) : p <= q
        PROVE  p = i
    BY <2>1, <2>2, <1>k DEF Failures
  <2>3. FirstFailure(packets) = i /\ Failures(packets) # {}
    BY <2>1, <2>2 DEF FirstFailure
  <2>4. CountsToFirstFailure'
    BY <1>k, <2>3 DEF CountsToFirstFailure
  <2>. QED
    BY <2>4 DEF ResultInv, ResultIsExact, ReadHasNoGaps, CountsAllOfBulk, CallInv
<1>. QED
  BY <1>1, <1>2, <1>3, <1>4, <1>5, <1>6

LEMMA CompactEndsKeeps ==
  ASSUME IInv, CompactEnds
  PROVE  IInv'
<1>k. /\ Before(packets)[i] \in 0..size * (i - 1) /\ sum = Before(packets)[i]
      /\ i \in 1..Len(packets) + 1 /\ Len(packets) \in Nat
      /\ \A p \in 1..i - 1 : packets[p].status = "completed"
  BY CompactKnows, Sizes DEF IInv, CompactInv, CompactEnds
<1>. USE DEF IInv, CompactEnds, callVars, xferVars, loopVars, Result
<1>1. TypeOK'
  BY DEF TypeOK, Bytes, Statuses
<1>2. CallInv'
  BY DEF CallInv
<1>3. PacketsInv'
  BY DEF PacketsInv
<1>4. CompactInv'
  BY DEF CompactInv
<1>5. DataInv'
  BY DEF DataInv, Compact
<1>6. ResultInv'
  <2>1. Failures(packets) = {} /\ FirstFailure(packets) = i
    BY <1>k DEF Failures, FirstFailure
  <2>2. CountsToFirstFailure'
    BY <1>k, <2>1 DEF CountsToFirstFailure
  <2>. QED
    BY <2>2 DEF ResultInv, ResultIsExact, ReadHasNoGaps, CountsAllOfBulk, CallInv
<1>. QED
  BY <1>1, <1>2, <1>3, <1>4, <1>5, <1>6

LEMMA FinishCallKeeps ==
  ASSUME IInv, FinishCall
  PROVE  IInv'
<1>. USE DEF IInv, FinishCall, callVars
<1>1. TypeOK'
  BY DEF TypeOK, Bytes, Statuses
<1>2. CallInv'
  BY DEF CallInv
<1>3. PacketsInv'
  BY DEF TypeOK, PacketsInv
<1>4. CompactInv'
  BY DEF CompactInv
<1>5. DataInv'
  BY DEF DataInv
<1>6. ResultInv'
  <2>1. ASSUME desc.input, NEW k \in 0..ret.n - 1
        PROVE  buf'[k] = k + 1
    <3>1. phase = "finished"
      BY <2>1 DEF CallInv, ResultInv
    <3>. QED
      BY <2>1, <3>1 DEF DataInv, Compact
  <2>. QED
    BY <2>1 DEF ResultInv, ResultIsExact, ReadHasNoGaps, CountsAllOfBulk, CountsToFirstFailure
<1>. QED
  BY <1>1, <1>2, <1>3, <1>4, <1>5, <1>6
-----------------------------------------------------------------------------
(* The system. *)

LEMMA InitGives == Init => IInv
<1>. SUFFICES ASSUME Init PROVE IInv
  OBVIOUS
<1>1. TypeOK
  <2>1. packets \in Seq(Packets) /\ Len(packets) = 0
    BY DEF Init
  <2>2. 0..-1 = {} /\ MaxLen \in Nat
    BY EndpointAssumption
  <2>3. buf \in Bytes
    <3>1. buf = [k \in 0..len - 1 |-> 0] /\ len - 1 = -1
      BY <2>2 DEF Init
    <3>. QED
      BY <2>2, <3>1 DEF Bytes
  <2>. QED
    BY <2>1, <2>2, <2>3 DEF Init, TypeOK, Statuses
<1>2. CallInv
  BY DEF Init, CallInv
<1>3. PacketsInv
  BY DEF Init, PacketsInv
<1>4. CompactInv
  BY DEF Init, CompactInv
<1>5. DataInv
  BY DEF Init, DataInv
<1>6. ResultInv
  BY DEF Init, ResultInv, ResultIsExact, ReadHasNoGaps, CountsAllOfBulk,
              CountsToFirstFailure
<1>. QED
  BY <1>1, <1>2, <1>3, <1>4, <1>5, <1>6 DEF IInv

LEMMA StutterKeeps ==
  ASSUME IInv, UNCHANGED vars
  PROVE  IInv'
<1>. USE DEF IInv, vars, callVars, xferVars, loopVars
<1>1. TypeOK'
  BY DEF TypeOK, Bytes
<1>2. CallInv' /\ PacketsInv' /\ CompactInv'
  BY DEF CallInv, PacketsInv, CompactInv
<1>3. DataInv'
  BY DEF DataInv, Arrived, Compact
<1>4. ResultInv'
  BY DEF ResultInv, ResultIsExact, ReadHasNoGaps, CountsAllOfBulk, CountsToFirstFailure
<1>. QED
  BY <1>1, <1>2, <1>3, <1>4

LEMMA StepKeeps ==
  ASSUME IInv, [Next]_vars
  PROVE  IInv'
<1>1. CASE Call \/ Alloc \/ AllocFails
  BY <1>1, CallKeeps, AllocKeeps, AllocFailsKeeps
<1>2. CASE Submit \/ SubmitFails \/ Finish \/ WaitData
  BY <1>2, SubmitKeeps, SubmitFailsKeeps, FinishKeeps, WaitDataKeeps
<1>3. CASE CompactStart \/ CompactPacket \/ CompactStops \/ CompactEnds
  BY <1>3, CompactStartKeeps, CompactPacketKeeps, CompactStopsKeeps, CompactEndsKeeps
<1>4. CASE FinishCall
  BY <1>4, FinishCallKeeps
<1>5. CASE UNCHANGED vars
  BY <1>5, StutterKeeps
<1>. QED
  BY <1>1, <1>2, <1>3, <1>4, <1>5 DEF Next

\* In every state of every call, with a buffer of any length and packets of any size:
\* what was compacted is what the device sent first, and the packets not reached yet
\* still have their data.
THEOREM EndpointInvariant == Spec => []IInv
BY InitGives, StepKeeps, PTL DEF Spec

-----------------------------------------------------------------------------
(* What follows from it. *)

\* The variables have their types: the number of bytes returned, the places the
\* compaction uses and the size of the packets never exceed the buffer.
THEOREM EndpointTypeCorrect == Spec => []TypeOK
<1>1. IInv => TypeOK
  BY DEF IInv
<1>. QED
  BY <1>1, EndpointInvariant, PTL

\* gousb_compact_iso_data never writes past the place it has read to, and the packet
\* that it is about to read is all in the buffer: the memmove is in its bounds.
THEOREM EndpointMovesInBuffer == Spec => []MovesInBuffer
<1>1. ASSUME IInv PROVE MovesInBuffer
  <2>. SUFFICES ASSUME pc = "compact", i <= Len(packets)
                PROVE  sum <= in /\ in + size <= len
    BY DEF MovesInBuffer
  <2>1. sum \in 0..size * (i - 1) /\ in = size * (i - 1) /\ in + size <= len
    BY <1>1, CompactKnows DEF IInv
  <2>. QED
    BY <2>1
<1>. QED
  BY <1>1, EndpointInvariant, PTL

\* A read returns the first bytes that the device sent, without the gaps between
\* packets; a bulk transfer counts all it moved and has the status of the transfer, an
\* isochronous one counts all before the first packet that failed and has the status
\* of that packet.
THEOREM EndpointResultIsExact == Spec => []ResultIsExact
<1>1. IInv => ResultIsExact
  BY DEF IInv, ResultInv
<1>. QED
  BY <1>1, EndpointInvariant, PTL
=============================================================================
