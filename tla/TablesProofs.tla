---------------------------- MODULE TablesProofs -----------------------------
(***************************************************************************)
(* What gousb makes of data: the descriptions of devices that it copies    *)
(* from libusb's descriptors (Descriptors), and the names of devices in    *)
(* the usb.ids file (UsbIds), of any size.                                 *)
(***************************************************************************)
EXTENDS Descriptors, UsbIds, SequenceTheorems, WellFoundedInduction, TLAPS

-----------------------------------------------------------------------------
(* Descriptors: the inductive invariant. *)

\* The settings of slot t.
Alts(t) == slots[t].alternates

\* Setting j of slot t is offered when setting k of slot u is looked at.
Precedes(t, j, u, k) == t < u \/ (t = u /\ j < k)

\* The device has offered setting alt of interface n when setting k of slot u is
\* looked at, which is what hasIntf is for.
WasOffered(n, alt, u, k) ==
    \E t \in 1..Len(slots) : \E j \in 1..Len(Alts(t)) :
        Precedes(t, j, u, k) /\ n = slots[t].number /\ alt = Alts(t)[j]

HasIntfInv ==
    \A n \in Numbers, alt \in Alternates :
        <<n, alt>> \in hasIntf <=> WasOffered(n, alt, s, a)

\* Setting j of slot t is the first of its number and interface.
IsFirst(t, j) ==
    \A u \in 1..t : \A k \in 1..Len(Alts(u)) :
        Precedes(u, k, t, j) /\ slots[u].number = slots[t].number => Alts(u)[k] # Alts(t)[j]

\* x is gousb's copy of setting j of slot t, which is such a first one.
IsCopy(x, t, j) == x = [alternate |-> Alts(t)[j], at |-> <<t, j>>] /\ IsFirst(t, j)

\* ds are those of the settings of slot t before setting b that are the first.
CopiesOf(ds, t, b) ==
    /\ \A k \in 1..Len(ds) : \E j \in 1..b - 1 : IsCopy(ds[k], t, j)
    /\ \A j \in 1..b - 1 : IsFirst(t, j) => \E k \in 1..Len(ds) : IsCopy(ds[k], t, j)

\* Of the slot that is copied, the settings so far; none when all slots are copied.
DescsInv ==
    IF s <= Len(slots) THEN CopiesOf(descs, s, a) ELSE descs = <<>>

\* The slot that an interface was copied from.
From(d) == interfaces[d].altSettings[1].at[1]

\* Each interface is the copy of one slot, in the order of the slots, and each slot
\* that has settings is one.
InterfacesInv ==
    /\ \A d \in 1..Len(interfaces) :
          /\ interfaces[d].altSettings # <<>>
          /\ From(d) \in 1..s - 1
          /\ interfaces[d].number = slots[From(d)].number
          /\ CopiesOf(interfaces[d].altSettings, From(d), Len(Alts(From(d))) + 1)
    /\ \A d, e \in 1..Len(interfaces) : d < e => From(d) < From(e)
    /\ \A t \in 1..s - 1 : Alts(t) # <<>> => \E d \in 1..Len(interfaces) : From(d) = t

\* A configuration is complete when its last slot is, and descs[0] fails after the
\* last setting of a slot.
PlaceInv ==
    /\ pc = "config" => s = Len(slots) + 1
    /\ pc = "panic" =>
          /\ s <= Len(slots) /\ a = Len(Alts(s)) + 1 /\ descs = <<>>
    /\ Len(slots) + slotsLeft <= MaxSlots

IInv ==
    /\ TypeOK
    /\ PlaceInv
    /\ HasIntfInv
    /\ DescsInv
    /\ InterfacesInv

-----------------------------------------------------------------------------
(* Sequences. *)

LEMMA LeastNat ==
  ASSUME NEW T \in SUBSET Nat, T # {}
  PROVE  \E n \in T : \A m \in T : n <= m
<1>1. PICK n \in T : \A m \in T : ~(<<m, n>> \in OpToRel(<, Nat))
  BY NatLessThanWellFounded, WFMin
<1>2. \A m \in T : ~(m < n)
  BY <1>1 DEF OpToRel
<1>. QED
  BY <1>2

LEMMA LeastIsMin ==
  ASSUME NEW T \in SUBSET Nat, NEW n \in T, \A m \in T : n <= m
  PROVE  Min(T) = n
<1>1. n \in T /\ \A m \in T : n <= m
  OBVIOUS
<1>2. Min(T) \in T /\ \A m \in T : Min(T) <= m
  BY <1>1 DEF Min
<1>3. n <= Min(T) /\ Min(T) <= n /\ n \in Nat /\ Min(T) \in Nat
  BY <1>1, <1>2
<1>. QED
  BY <1>3

\* The parsers bound the length of what they make.
LEMMA BoundedHas ==
  ASSUME NEW S, NEW n \in Nat, NEW q \in BoundedSeq(S, n)
  PROVE  q \in Seq(S) /\ Len(q) \in 0..n
<1>1. PICK m \in 0..n : q \in [1..m -> S]
  BY DEF BoundedSeq, SeqOf
<1>2. m \in Nat
  OBVIOUS
<1>3. q \in Seq(S) /\ Len(q) = m
  BY <1>1, <1>2
<1>. QED
  BY <1>3

LEMMA AppendHas ==
  ASSUME NEW S, NEW q \in Seq(S), NEW e \in S
  PROVE  /\ Append(q, e) \in Seq(S) /\ Len(q) \in Nat /\ Len(Append(q, e)) = Len(q) + 1
         /\ \A k \in 1..Len(q) : Append(q, e)[k] = q[k]
         /\ Append(q, e)[Len(q) + 1] = e
  BY AppendProperties, LenProperties

\* What SelectInSeq makes of the places I with what is looked for.
LEMMA FirstOf ==
  ASSUME NEW n \in Nat, NEW I \in SUBSET (1..n), NEW k, k = IF I # {} THEN Min(I) ELSE 0
  PROVE  \/ k = 0 /\ I = {}
         \/ k \in I /\ k \in Nat /\ \A j \in I : k <= j
<1>1. CASE I = {}
  BY <1>1
<1>2. CASE I # {}
  <2>1. I \in SUBSET Nat
    OBVIOUS
  <2>2. PICK m \in I : \A j \in I : m <= j
    BY <1>2, <2>1, LeastNat
  <2>3. Min(I) = m
    BY <2>1, <2>2, LeastIsMin
  <2>. QED
    BY <1>2, <2>1, <2>2, <2>3
<1>. QED
  BY <1>1, <1>2

-----------------------------------------------------------------------------
(* The settings that were offered. *)

LEMMA SlotsHave ==
  ASSUME TypeOK
  PROVE  /\ Len(slots) \in Nat /\ s \in 1..Len(slots) + 1 /\ s \in Nat /\ a \in Nat
         /\ \A t \in 1..Len(slots) :
               /\ slots[t] \in Slots /\ slots[t].number \in Numbers
               /\ Alts(t) \in Seq(Alternates) /\ Len(Alts(t)) \in 0..MaxSettings
               /\ \A j \in 1..Len(Alts(t)) : Alts(t)[j] \in Alternates
         /\ s <= Len(slots) => a \in 1..Len(Alts(s)) + 1
<1>1. slots \in Seq(Slots) /\ Len(slots) \in Nat /\ \A t \in 1..Len(slots) : slots[t] \in Slots
  BY LenProperties, ElementOfSeq DEF TypeOK
<1>2. ASSUME NEW t \in 1..Len(slots)
      PROVE  /\ slots[t].number \in Numbers
             /\ Alts(t) \in Seq(Alternates) /\ Len(Alts(t)) \in 0..MaxSettings
             /\ \A j \in 1..Len(Alts(t)) : Alts(t)[j] \in Alternates
  <2>1. slots[t].number \in Numbers /\ Alts(t) \in BoundedSeq(Alternates, MaxSettings)
    BY <1>1 DEF Slots, Alts
  <2>2. Alts(t) \in Seq(Alternates) /\ Len(Alts(t)) \in 0..MaxSettings
    BY <2>1, BoundedHas, DescriptorsAssumption
  <2>. QED
    BY <2>1, <2>2, ElementOfSeq
<1>3. s \in 1..Len(slots) + 1 /\ s \in Nat
  BY <1>1 DEF TypeOK
<1>4. a \in 1..(IF s > Len(slots) THEN 1 ELSE Len(Alts(s)) + 1)
  BY DEF TypeOK, Alts
<1>5. s <= Len(slots) => a \in 1..Len(Alts(s)) + 1
  BY <1>1, <1>3, <1>4
<1>6. a \in Nat
  BY <1>1, <1>2, <1>3, <1>4
<1>. QED
  BY <1>1, <1>2, <1>3, <1>5, <1>6

\* hasIntf tells whether the setting that is looked at is new.
LEMMA OfferedBefore ==
  ASSUME TypeOK, HasIntfInv, InSlot, a <= Len(Alts(s))
  PROVE  /\ s \in 1..Len(slots) /\ a \in 1..Len(Alts(s))
         /\ Offered = <<slots[s].number, Alts(s)[a]>>
         /\ slots[s].number \in Numbers /\ Alts(s)[a] \in Alternates
         /\ Offered \in hasIntf <=> ~IsFirst(s, a)
<1>1. s \in 1..Len(slots) /\ a \in 1..Len(Alts(s)) /\ Len(slots) \in Nat
  BY SlotsHave DEF InSlot
<1>2. slots[s].number \in Numbers /\ Alts(s)[a] \in Alternates
  BY <1>1, SlotsHave
<1>3. Offered = <<slots[s].number, Alts(s)[a]>>
  BY DEF Offered, Alts
<1>4. Offered \in hasIntf <=> WasOffered(slots[s].number, Alts(s)[a], s, a)
  BY <1>2, <1>3 DEF HasIntfInv
<1>5. \A t \in 1..Len(slots) : \A j : Precedes(t, j, s, a) => t \in 1..s
  BY <1>1 DEF Precedes
<1>6. \A t \in 1..s : t \in 1..Len(slots)
  BY <1>1
<1>7. WasOffered(slots[s].number, Alts(s)[a], s, a) <=> ~IsFirst(s, a)
  BY <1>5, <1>6 DEF IsFirst, WasOffered
<1>. QED
  BY <1>1, <1>2, <1>3, <1>4, <1>7

\* The next place in a slot, and the first of the next slot.
LEMMA OfferedNext ==
  ASSUME TypeOK, s <= Len(slots), a <= Len(Alts(s)), NEW n, NEW alt
  PROVE  WasOffered(n, alt, s, a + 1) <=>
            WasOffered(n, alt, s, a) \/ (n = slots[s].number /\ alt = Alts(s)[a])
<1>1. s \in 1..Len(slots) /\ a \in 1..Len(Alts(s)) /\ s \in Nat /\ a \in Nat
  BY SlotsHave
<1>2. ASSUME NEW t \in 1..Len(slots), NEW j \in 1..Len(Alts(t))
      PROVE  Precedes(t, j, s, a + 1) <=> Precedes(t, j, s, a) \/ (t = s /\ j = a)
  <2>1. t \in Nat /\ j \in Nat
    OBVIOUS
  <2>. QED
    BY <1>1, <2>1 DEF Precedes
<1>. QED
  BY <1>1, <1>2 DEF WasOffered

LEMMA OfferedNextSlot ==
  ASSUME TypeOK, s <= Len(slots), a > Len(Alts(s)), NEW n, NEW alt
  PROVE  WasOffered(n, alt, s + 1, 1) <=> WasOffered(n, alt, s, a)
<1>1. s \in Nat /\ a \in Nat /\ a = Len(Alts(s)) + 1
  <2>1. s \in 1..Len(slots) /\ s \in Nat /\ a \in Nat /\ a \in 1..Len(Alts(s)) + 1
    BY SlotsHave
  <2>2. Len(Alts(s)) \in Nat
    BY <2>1, SlotsHave
  <2>. QED
    BY <2>1, <2>2
<1>2. ASSUME NEW t \in 1..Len(slots), NEW j \in 1..Len(Alts(t))
      PROVE  Precedes(t, j, s + 1, 1) <=> Precedes(t, j, s, a)
  <2>1. t \in Nat /\ j \in Nat /\ j > 0
    OBVIOUS
  <2>2. t = s => j < a
    <3>1. Len(Alts(t)) \in Nat
      BY SlotsHave
    <3>. QED
      BY <1>1, <3>1
  <2>. QED
    BY <1>1, <2>1, <2>2 DEF Precedes
<1>. QED
  BY <1>2 DEF WasOffered

\* The setting after the last one that was copied.
LEMMA CopiesNext ==
  ASSUME NEW ds, NEW t, NEW b \in Nat \ {0}, CopiesOf(ds, t, b), ~IsFirst(t, b)
  PROVE  CopiesOf(ds, t, b + 1)
<1>1. \A j : j \in 1..b + 1 - 1 <=> (j \in 1..b - 1 \/ j = b)
  OBVIOUS
<1>. QED
  BY <1>1 DEF CopiesOf

LEMMA CopiesAre ==
  ASSUME NEW es, NEW t, NEW c,
         \A k \in 1..Len(es) : \E j \in 1..c - 1 : IsCopy(es[k], t, j),
         \A j \in 1..c - 1 : IsFirst(t, j) => \E k \in 1..Len(es) : IsCopy(es[k], t, j)
  PROVE  CopiesOf(es, t, c)
BY DEF CopiesOf

LEMMA CopiesAppend ==
  ASSUME NEW ds \in Seq(Settings), NEW t, NEW b \in Nat \ {0}, CopiesOf(ds, t, b),
         NEW x \in Settings, IsCopy(x, t, b)
  PROVE  CopiesOf(Append(ds, x), t, b + 1)
<1>1. \A j : j \in 1..b + 1 - 1 <=> (j \in 1..b - 1 \/ j = b)
  OBVIOUS
<1>0. PICK n \in Nat : n = Len(ds)
  BY LenProperties
<1>2. PICK es : n = Len(ds) /\ es = Append(ds, x)
  BY <1>0
<1>3. Len(es) = n + 1 /\ (\A k \in 1..n : es[k] = ds[k]) /\ es[n + 1] = x
  BY <1>2, AppendHas
<1>4. \A k : k \in 1..Len(es) <=> (k \in 1..n \/ k = n + 1)
  BY <1>3
<1>5. ASSUME NEW k \in 1..Len(es)
      PROVE  \E j \in 1..b + 1 - 1 : IsCopy(es[k], t, j)
  <2>1. CASE k = n + 1
    <3>1. b \in 1..b + 1 - 1 /\ IsCopy(es[k], t, b)
      BY <1>1, <1>3, <2>1
    <3>. QED
      BY <3>1
  <2>2. CASE k \in 1..n
    <3>1. PICK j \in 1..b - 1 : IsCopy(ds[k], t, j)
      BY <1>2, <2>2 DEF CopiesOf
    <3>2. j \in 1..b + 1 - 1 /\ IsCopy(es[k], t, j)
      BY <1>1, <1>3, <2>2, <3>1
    <3>. QED
      BY <3>2
  <2>. QED
    BY <1>4, <2>1, <2>2
<1>6. ASSUME NEW j \in 1..b + 1 - 1, IsFirst(t, j)
      PROVE  \E k \in 1..Len(es) : IsCopy(es[k], t, j)
  <2>1. CASE j = b
    <3>1. n + 1 \in 1..Len(es) /\ IsCopy(es[n + 1], t, j)
      BY <1>3, <1>4, <2>1
    <3>. QED
      BY <3>1
  <2>2. CASE j \in 1..b - 1
    <3>1. PICK k \in 1..n : IsCopy(ds[k], t, j)
      BY <1>2, <1>6, <2>2 DEF CopiesOf
    <3>2. k \in 1..Len(es) /\ IsCopy(es[k], t, j)
      BY <1>3, <1>4, <3>1
    <3>. QED
      BY <3>2
  <2>. QED
    BY <1>1, <2>1, <2>2
<1>7. CopiesOf(es, t, b + 1)
  BY <1>5, <1>6, CopiesAre
<1>. QED
  BY <1>2, <1>7

\* A slot with nothing copied.
LEMMA CopiesNone ==
  ASSUME NEW t
  PROVE  CopiesOf(<<>>, t, 1)
BY DEF CopiesOf

-----------------------------------------------------------------------------
(* Every step keeps the invariant. *)

\* What was offered and what was copied are about the slots only.
LEMMA SameSlots ==
  ASSUME slots' = slots
  PROVE  /\ \A t : Alts(t)' = Alts(t)
         /\ \A n, alt, u, k : WasOffered(n, alt, u, k)' <=> WasOffered(n, alt, u, k)
         /\ \A ds, t, b : CopiesOf(ds, t, b)' <=> CopiesOf(ds, t, b)
BY DEF Alts, WasOffered, CopiesOf, IsCopy, IsFirst

LEMMA SameInterfaces ==
  ASSUME InterfacesInv, slots' = slots, interfaces' = interfaces, s' = s
  PROVE  InterfacesInv'
<1>1. \A d : From(d)' = From(d)
  BY DEF From
<1>. QED
  BY <1>1, SameSlots DEF InterfacesInv

LEMMA ReadConfigKeeps ==
  ASSUME IInv, ReadConfig
  PROVE  IInv'
<1>1. slots' \in Seq(Slots) /\ Len(slots') \in 0..slotsLeft /\ slotsLeft \in 0..MaxSlots
  BY BoundedHas, DescriptorsAssumption DEF IInv, TypeOK, ReadConfig
<1>2. /\ slotsLeft' = slotsLeft - Len(slots') /\ s' = 1 /\ a' = 1 /\ hasIntf' = {}
      /\ descs' = <<>> /\ interfaces' = <<>> /\ pc' = "slot"
      /\ cfgNum' \in CfgNumbers /\ cfgs' = cfgs /\ read' = read + 1 /\ read < MaxConfigs
  BY DEF ReadConfig, NewHasIntf
<1>3. MaxConfigs \in Nat /\ MaxSlots \in Nat
  BY DescriptorsAssumption
<1>4. TypeOK'
  <2>1. slotsLeft' \in 0..MaxSlots /\ s' \in 1..Len(slots') + 1
    BY <1>1, <1>2, <1>3
  <2>2. a' \in 1..(IF s' > Len(slots') THEN 1 ELSE Len(slots'[s'].alternates) + 1)
    <3>1. CASE Len(slots') = 0
      BY <1>2, <3>1
    <3>2. CASE Len(slots') # 0
      <4>1. 1 \in 1..Len(slots')
        BY <1>1, <3>2
      <4>2. slots'[1].alternates \in BoundedSeq(Alternates, MaxSettings)
        <5>1. slots'[1] \in Slots
          BY <1>1, <4>1, ElementOfSeq
        <5>. QED
          BY <5>1 DEF Slots
      <4>3. Len(slots'[1].alternates) \in Nat
        BY <4>2, BoundedHas, DescriptorsAssumption
      <4>. QED
        BY <1>2, <4>3
    <3>. QED
      BY <3>1, <3>2
  <2>3. read' \in 0..MaxConfigs
    BY <1>2, <1>3 DEF IInv, TypeOK
  <2>4. /\ descs' \in Seq(Settings)
        /\ interfaces' \in Seq([number : Numbers, altSettings : Seq(Settings)])
    BY <1>2
  <2>5. /\ DOMAIN cfgs' \subseteq CfgNumbers /\ cfgNum' \in CfgNumbers
        /\ hasIntf' \subseteq Numbers \X Alternates
    BY <1>2 DEF IInv, TypeOK
  <2>. QED
    BY <1>1, <1>2, <2>1, <2>2, <2>3, <2>4, <2>5 DEF TypeOK
<1>5. PlaceInv'
  BY <1>1, <1>2, <1>3 DEF PlaceInv
<1>6. HasIntfInv'
  <2>1. \A t \in 1..Len(slots'), j \in Nat \ {0} : ~Precedes(t, j, 1, 1)
    BY DEF Precedes
  <2>. QED
    BY <1>2, <2>1 DEF HasIntfInv, WasOffered
<1>7. DescsInv'
  BY <1>2 DEF DescsInv, CopiesOf
<1>8. InterfacesInv'
  BY <1>2 DEF InterfacesInv
<1>. QED
  BY <1>4, <1>5, <1>6, <1>7, <1>8 DEF IInv

\* The steps between the configurations.
LEMMA BetweenKeeps ==
  ASSUME IInv, ReadFails \/ CopyConfig \/ AllCopied
  PROVE  IInv'
<1>1. UNCHANGED <<deviceVars, s, a, hasIntf, descs, interfaces>>
  BY DEF ReadFails, CopyConfig, AllCopied
<1>2. TypeOK'
  <2>1. DOMAIN cfgs' \subseteq CfgNumbers
    BY DEF IInv, TypeOK, ReadFails, CopyConfig, AllCopied
  <2>2. pc' \in {"config", "slot", "panic", "done", "failed"}
    BY DEF ReadFails, CopyConfig, AllCopied
  <2>. QED
    BY <1>1, <2>1, <2>2 DEF IInv, TypeOK, deviceVars
<1>3. PlaceInv'
  <2>1. pc' = "config" => s > Len(slots)
    BY DEF ReadFails, CopyConfig, AllCopied
  <2>2. pc' = "config" => s = Len(slots) + 1
    BY <2>1, SlotsHave DEF IInv
  <2>3. pc' # "panic"
    BY DEF ReadFails, CopyConfig, AllCopied
  <2>. QED
    BY <1>1, <2>2, <2>3 DEF IInv, PlaceInv, deviceVars
<1>4. HasIntfInv'
  BY <1>1, SameSlots DEF IInv, HasIntfInv, deviceVars
<1>5. DescsInv'
  BY <1>1, SameSlots DEF IInv, DescsInv, deviceVars
<1>6. InterfacesInv'
  BY <1>1, SameInterfaces DEF IInv, deviceVars
<1>. QED
  BY <1>2, <1>3, <1>4, <1>5, <1>6 DEF IInv

LEMMA SkipSettingKeeps ==
  ASSUME IInv, SkipSetting
  PROVE  IInv'
<1>1. /\ InSlot /\ a <= Len(Alts(s)) /\ Offered \in hasIntf /\ a' = a + 1 /\ slots' = slots
      /\ UNCHANGED <<pc, slotsLeft, s, hasIntf, descs, interfaces>>
  BY DEF SkipSetting, Alts, deviceVars
<1>2. /\ s \in 1..Len(slots) /\ a \in 1..Len(Alts(s))
      /\ Offered = <<slots[s].number, Alts(s)[a]>> /\ ~IsFirst(s, a)
  BY <1>1, OfferedBefore DEF IInv
<1>3. TypeOK'
  <2>1. a + 1 \in 1..Len(Alts(s)) + 1 /\ ~(s > Len(slots))
    <3>1. Len(slots) \in Nat /\ Len(Alts(s)) \in Nat
      BY <1>2, SlotsHave DEF IInv
    <3>. QED
      BY <1>2, <3>1
  <2>. QED
    BY <1>1, <2>1 DEF IInv, TypeOK, SkipSetting, deviceVars, Alts
<1>4. PlaceInv'
  BY <1>1 DEF IInv, PlaceInv, InSlot
<1>5. HasIntfInv'
  <2>1. ASSUME NEW n \in Numbers, NEW alt \in Alternates
        PROVE  <<n, alt>> \in hasIntf <=> WasOffered(n, alt, s, a + 1)
    <3>1. WasOffered(n, alt, s, a + 1) <=>
            WasOffered(n, alt, s, a) \/ <<n, alt>> = Offered
      BY <1>1, <1>2, OfferedNext DEF IInv, InSlot
    <3>. QED
      BY <1>1, <3>1 DEF IInv, HasIntfInv
  <2>. QED
    BY <1>1, <2>1, SameSlots DEF HasIntfInv
<1>6. DescsInv'
  <2>1. a \in Nat \ {0} /\ s <= Len(slots)
    BY <1>1, <1>2 DEF InSlot
  <2>2. CopiesOf(descs, s, a + 1)
    BY <1>2, <2>1, CopiesNext DEF IInv, DescsInv
  <2>. QED
    BY <1>1, <2>1, <2>2, SameSlots DEF DescsInv
<1>7. InterfacesInv'
  BY <1>1, SameInterfaces DEF IInv
<1>. QED
  BY <1>3, <1>4, <1>5, <1>6, <1>7 DEF IInv

LEMMA CopySettingKeeps ==
  ASSUME IInv, CopySetting
  PROVE  IInv'
<1>. DEFINE x == [alternate |-> Alts(s)[a], at |-> <<s, a>>]
<1>1. /\ InSlot /\ a <= Len(Alts(s)) /\ Offered \notin hasIntf /\ a' = a + 1 /\ slots' = slots
      /\ hasIntf' = hasIntf \cup {Offered} /\ descs' = Append(descs, x)
      /\ UNCHANGED <<pc, slotsLeft, s, interfaces>>
  BY DEF CopySetting, Alts, deviceVars
<1>2. /\ s \in 1..Len(slots) /\ a \in 1..Len(Alts(s))
      /\ Offered = <<slots[s].number, Alts(s)[a]>> /\ IsFirst(s, a)
      /\ slots[s].number \in Numbers /\ Alts(s)[a] \in Alternates
  BY <1>1, OfferedBefore DEF IInv
<1>3. Len(slots) \in Nat /\ Len(Alts(s)) \in 0..MaxSettings /\ MaxSettings \in Nat
  BY <1>2, SlotsHave, DescriptorsAssumption DEF IInv
<1>4. descs \in Seq(Settings) /\ x \in Settings
  <2>1. Len(slots) <= MaxSlots
    BY <1>3, DescriptorsAssumption DEF IInv, TypeOK, PlaceInv
  <2>2. s \in 1..MaxSlots /\ a \in 1..MaxSettings
    BY <1>2, <1>3, <2>1, DescriptorsAssumption
  <2>. QED
    BY <1>2, <2>2 DEF IInv, TypeOK, Settings
<1>5. TypeOK'
  <2>1. a + 1 \in 1..Len(Alts(s)) + 1 /\ ~(s > Len(slots))
    BY <1>2, <1>3
  <2>2. descs' \in Seq(Settings)
    BY <1>1, <1>4, AppendHas
  <2>3. hasIntf' \subseteq Numbers \X Alternates
    BY <1>1, <1>2 DEF IInv, TypeOK
  <2>. QED
    BY <1>1, <2>1, <2>2, <2>3 DEF IInv, TypeOK, CopySetting, deviceVars, Alts
<1>6. PlaceInv'
  BY <1>1 DEF IInv, PlaceInv, InSlot
<1>7. HasIntfInv'
  <2>1. ASSUME NEW n \in Numbers, NEW alt \in Alternates
        PROVE  <<n, alt>> \in hasIntf' <=> WasOffered(n, alt, s, a + 1)
    <3>1. WasOffered(n, alt, s, a + 1) <=>
            WasOffered(n, alt, s, a) \/ <<n, alt>> = Offered
      BY <1>1, <1>2, OfferedNext DEF IInv, InSlot
    <3>. QED
      BY <1>1, <3>1 DEF IInv, HasIntfInv
  <2>. QED
    BY <1>1, <2>1, SameSlots DEF HasIntfInv
<1>8. DescsInv'
  <2>1. a \in Nat \ {0} /\ s <= Len(slots)
    BY <1>1, <1>2 DEF InSlot
  <2>2. CopiesOf(descs', s, a + 1)
    <3>1. IsCopy(x, s, a)
      BY <1>2 DEF IsCopy
    <3>2. CopiesOf(descs, s, a)
      BY <2>1 DEF IInv, DescsInv
    <3>. QED
      BY <1>1, <1>4, <2>1, <3>1, <3>2, CopiesAppend
  <2>. QED
    BY <1>1, <2>1, <2>2, SameSlots DEF DescsInv
<1>9. InterfacesInv'
  BY <1>1, SameInterfaces DEF IInv
<1>. QED
  BY <1>5, <1>6, <1>7, <1>8, <1>9 DEF IInv

\* What is left of a slot that ends.
LEMMA NextSlotGives ==
  ASSUME IInv, InSlot, a > Len(Alts(s)), NextSlot, UNCHANGED <<slots, hasIntf>>
  PROVE  /\ s \in 1..Len(slots) /\ s \in Nat /\ a = Len(Alts(s)) + 1 /\ Len(slots) \in Nat
         /\ s' = s + 1 /\ s' \in 1..Len(slots) + 1 /\ a' = 1 /\ descs' = <<>>
         /\ 1 \in 1..(IF s + 1 > Len(slots) THEN 1 ELSE Len(slots[s + 1].alternates) + 1)
         /\ HasIntfInv' /\ DescsInv'
<1>1. /\ s' = s + 1 /\ a' = 1 /\ descs' = <<>> /\ slots' = slots /\ hasIntf' = hasIntf
      /\ s <= Len(slots)
  BY DEF NextSlot, InSlot
<1>2. s \in 1..Len(slots) /\ s \in Nat /\ Len(slots) \in Nat /\ a \in 1..Len(Alts(s)) + 1
  BY <1>1, SlotsHave DEF IInv
<1>3. Len(Alts(s)) \in Nat
  BY <1>2, SlotsHave DEF IInv
<1>4. a = Len(Alts(s)) + 1 /\ s' \in 1..Len(slots) + 1
  BY <1>1, <1>2, <1>3
<1>5. 1 \in 1..(IF s + 1 > Len(slots) THEN 1 ELSE Len(slots[s + 1].alternates) + 1)
  <2>1. s + 1 <= Len(slots) => Len(Alts(s + 1)) \in Nat
    BY <1>2, SlotsHave DEF IInv
  <2>. QED
    BY <1>2, <2>1 DEF Alts
<1>6. HasIntfInv'
  BY <1>1, OfferedNextSlot, SameSlots DEF IInv, HasIntfInv
<1>7. DescsInv'
  <2>1. CopiesOf(<<>>, s + 1, 1)
    BY CopiesNone
  <2>. QED
    BY <1>1, <2>1, SameSlots DEF DescsInv
<1>. QED
  BY <1>1, <1>2, <1>4, <1>5, <1>6, <1>7

LEMMA SkipSlotKeeps ==
  ASSUME IInv, SkipSlot
  PROVE  IInv'
<1>1. /\ InSlot /\ Alts(s) = <<>> /\ NextSlot /\ slots' = slots
      /\ UNCHANGED <<pc, slotsLeft, hasIntf, interfaces>>
  BY DEF SkipSlot, Alts, deviceVars
<1>2. a > Len(Alts(s))
  <2>1. Len(Alts(s)) = 0 /\ a \in 1..1
    BY <1>1, SlotsHave DEF IInv, InSlot
  <2>. QED
    BY <2>1
<1>3. /\ s \in Nat /\ s' = s + 1 /\ s' \in 1..Len(slots) + 1 /\ a' = 1 /\ descs' = <<>>
      /\ 1 \in 1..(IF s + 1 > Len(slots) THEN 1 ELSE Len(slots[s + 1].alternates) + 1)
      /\ HasIntfInv' /\ DescsInv'
  BY <1>1, <1>2, NextSlotGives
<1>4. TypeOK'
  <2>1. descs' \in Seq(Settings)
    BY <1>3
  <2>. QED
    BY <1>1, <1>3, <2>1 DEF IInv, TypeOK, SkipSlot, deviceVars
<1>5. PlaceInv'
  BY <1>1 DEF IInv, PlaceInv, InSlot
<1>6. InterfacesInv'
  <2>1. \A t \in 1..s' - 1 : t \in 1..s - 1 \/ t = s
    BY <1>3
  <2>2. \A t \in 1..s - 1 : t \in 1..s' - 1
    BY <1>3
  <2>3. \A d : From(d)' = From(d)
    BY <1>1 DEF From
  <2>. QED
    BY <1>1, <2>1, <2>2, <2>3, SameSlots DEF IInv, InterfacesInv
<1>. QED
  BY <1>3, <1>4, <1>5, <1>6 DEF IInv

LEMMA CopyInterfaceKeeps ==
  ASSUME IInv, CopyInterface
  PROVE  IInv'
<1>. DEFINE x == [number |-> slots[s].number, altSettings |-> descs]
            Interfaces == [number : Numbers, altSettings : Seq(Settings)]
<1>1. /\ InSlot /\ a > Len(Alts(s)) /\ descs # <<>> /\ NextSlot /\ slots' = slots
      /\ interfaces' = Append(interfaces, x) /\ UNCHANGED <<pc, slotsLeft, hasIntf>>
  BY DEF CopyInterface, Alts, deviceVars
<1>2. /\ s \in 1..Len(slots) /\ s \in Nat /\ a = Len(Alts(s)) + 1
      /\ s' = s + 1 /\ s' \in 1..Len(slots) + 1 /\ a' = 1 /\ descs' = <<>>
      /\ 1 \in 1..(IF s + 1 > Len(slots) THEN 1 ELSE Len(slots[s + 1].alternates) + 1)
      /\ HasIntfInv' /\ DescsInv'
  BY <1>1, NextSlotGives
<1>3. descs \in Seq(Settings) /\ interfaces \in Seq(Interfaces) /\ slots[s].number \in Numbers
  BY <1>2, SlotsHave DEF IInv, TypeOK
<1>4. x \in Interfaces
  BY <1>3
<1>5. PICK m \in Nat : m = Len(interfaces)
  BY <1>3, LenProperties
<1>6. /\ interfaces' \in Seq(Interfaces) /\ Len(interfaces') = m + 1
      /\ \A d \in 1..m : interfaces'[d] = interfaces[d]
      /\ interfaces'[m + 1] = x
  BY <1>1, <1>3, <1>4, <1>5, AppendHas
<1>7. TypeOK'
  <2>1. descs' \in Seq(Settings)
    BY <1>2
  <2>. QED
    BY <1>1, <1>2, <1>6, <2>1 DEF IInv, TypeOK, CopyInterface, deviceVars
<1>8. PlaceInv'
  BY <1>1 DEF IInv, PlaceInv, InSlot
<1>9. CopiesOf(descs, s, Len(Alts(s)) + 1)
  BY <1>1, <1>2 DEF IInv, DescsInv, InSlot
<1>10. descs[1].at[1] = s
  <2>1. 1 \in 1..Len(descs)
    BY <1>1, <1>3, EmptySeq, LenProperties
  <2>2. PICK j : IsCopy(descs[1], s, j)
    BY <1>9, <2>1 DEF CopiesOf
  <2>. QED
    BY <2>2 DEF IsCopy
<1>11. (\A d \in 1..m : From(d)' = From(d)) /\ From(m + 1)' = s
  <2>1. \A d \in 1..m : interfaces'[d].altSettings[1].at[1] = interfaces[d].altSettings[1].at[1]
    BY <1>6
  <2>2. interfaces'[m + 1].altSettings = descs
    BY <1>6
  <2>3. interfaces'[m + 1].altSettings[1].at[1] = s
    BY <1>10, <2>2
  <2>. QED
    BY <2>1, <2>3 DEF From
<1>12. \A d : d \in 1..m + 1 <=> (d \in 1..m \/ d = m + 1)
  OBVIOUS
<1>13. \A t : t \in 1..s' - 1 <=> (t \in 1..s - 1 \/ t = s)
  BY <1>2
<1>14. InterfacesInv'
  <2>1. ASSUME NEW d \in 1..m + 1
        PROVE  /\ interfaces'[d].altSettings # <<>>
               /\ From(d)' \in 1..s' - 1
               /\ interfaces'[d].number = slots[From(d)'].number
               /\ CopiesOf(interfaces'[d].altSettings, From(d)', Len(Alts(From(d)')) + 1)
    <3>1. CASE d \in 1..m
      BY <1>5, <1>6, <1>11, <1>13, <3>1 DEF IInv, InterfacesInv
    <3>2. CASE d = m + 1
      BY <1>1, <1>6, <1>9, <1>11, <1>13, <3>2
    <3>. QED
      BY <1>12, <3>1, <3>2
  <2>2. ASSUME NEW d \in 1..m + 1, NEW e \in 1..m + 1, d < e
        PROVE  From(d)' < From(e)'
    <3>1. d \in 1..m
      BY <2>2
    <3>2. CASE e \in 1..m
      BY <1>5, <1>11, <2>2, <3>1, <3>2 DEF IInv, InterfacesInv
    <3>3. CASE e = m + 1
      <4>1. From(d) \in 1..s - 1
        BY <1>5, <3>1 DEF IInv, InterfacesInv
      <4>. QED
        BY <1>2, <1>11, <3>1, <3>3, <4>1
    <3>. QED
      BY <1>12, <3>2, <3>3
  <2>3. ASSUME NEW t \in 1..s' - 1, Alts(t) # <<>>
        PROVE  \E d \in 1..m + 1 : From(d)' = t
    <3>1. CASE t \in 1..s - 1
      <4>1. PICK d \in 1..m : From(d) = t
        BY <1>5, <2>3, <3>1 DEF IInv, InterfacesInv
      <4>. QED
        BY <1>11, <1>12, <4>1
    <3>2. CASE t = s
      BY <1>11, <1>12, <3>2
    <3>. QED
      BY <1>13, <3>1, <3>2
  <2>. QED
    BY <1>1, <1>6, <2>1, <2>2, <2>3, SameSlots DEF InterfacesInv
<1>. QED
  BY <1>2, <1>7, <1>8, <1>14 DEF IInv

LEMMA PanicKeeps ==
  ASSUME IInv, Panic
  PROVE  IInv'
<1>1. /\ InSlot /\ a > Len(Alts(s)) /\ descs = <<>> /\ pc' = "panic" /\ slots' = slots
      /\ UNCHANGED <<slotsLeft, s, a, hasIntf, descs, interfaces>>
  BY DEF Panic, Alts, deviceVars
<1>2. TypeOK'
  BY <1>1 DEF IInv, TypeOK, Panic, deviceVars
<1>3. PlaceInv'
  <2>1. s <= Len(slots) /\ s \in 1..Len(slots) /\ a \in 1..Len(Alts(s)) + 1
    BY <1>1, SlotsHave DEF IInv, InSlot
  <2>2. Len(Alts(s)) \in Nat
    BY <2>1, SlotsHave DEF IInv
  <2>3. a = Len(Alts(s)) + 1
    BY <1>1, <2>1, <2>2
  <2>. QED
    BY <1>1, <2>1, <2>3, SameSlots DEF IInv, PlaceInv
<1>4. HasIntfInv'
  BY <1>1, SameSlots DEF IInv, HasIntfInv
<1>5. DescsInv'
  BY <1>1, SameSlots DEF IInv, DescsInv
<1>6. InterfacesInv'
  BY <1>1, SameInterfaces DEF IInv
<1>. QED
  BY <1>2, <1>3, <1>4, <1>5, <1>6 DEF IInv

-----------------------------------------------------------------------------
(* The system. *)

LEMMA InitGives == Init => IInv
<1>. SUFFICES ASSUME Init PROVE IInv
  OBVIOUS
<1>1. /\ Len(slots) = 0 /\ s = 1 /\ a = 1 /\ hasIntf = {} /\ descs = <<>> /\ interfaces = <<>>
      /\ pc = "config" /\ slotsLeft = MaxSlots /\ slots = <<>> /\ Len(interfaces) = 0
  BY DEF Init
<1>2. TypeOK
  <2>1. slots \in Seq(Slots) /\ descs \in Seq(Settings)
        /\ interfaces \in Seq([number : Numbers, altSettings : Seq(Settings)])
    BY <1>1
  <2>2. /\ s \in 1..Len(slots) + 1
        /\ a \in 1..(IF s > Len(slots) THEN 1 ELSE Len(slots[s].alternates) + 1)
    BY <1>1
  <2>3. read \in 0..MaxConfigs /\ slotsLeft \in 0..MaxSlots
    BY DescriptorsAssumption DEF Init
  <2>4. DOMAIN cfgs \subseteq CfgNumbers /\ cfgNum \in CfgNumbers
    BY DEF Init
  <2>. QED
    BY <1>1, <2>1, <2>2, <2>3, <2>4 DEF TypeOK
<1>3. PlaceInv
  BY <1>1, DescriptorsAssumption DEF PlaceInv
<1>4. HasIntfInv
  BY <1>1 DEF HasIntfInv, WasOffered
<1>5. DescsInv /\ InterfacesInv
  BY <1>1 DEF DescsInv, InterfacesInv
<1>. QED
  BY <1>2, <1>3, <1>4, <1>5 DEF IInv

LEMMA StutterKeeps ==
  ASSUME IInv, UNCHANGED vars
  PROVE  IInv'
<1>1. UNCHANGED <<pc, read, slotsLeft, cfgNum, slots, s, a, hasIntf, descs, interfaces, cfgs>>
  BY DEF vars, deviceVars
<1>2. TypeOK'
  BY <1>1 DEF IInv, TypeOK
<1>3. PlaceInv' /\ HasIntfInv' /\ DescsInv'
  BY <1>1, SameSlots DEF IInv, PlaceInv, HasIntfInv, DescsInv
<1>4. InterfacesInv'
  BY <1>1, SameInterfaces DEF IInv
<1>. QED
  BY <1>2, <1>3, <1>4 DEF IInv

LEMMA StepKeeps ==
  ASSUME IInv, [Next]_vars
  PROVE  IInv'
<1>1. CASE ReadConfig
  BY <1>1, ReadConfigKeeps
<1>2. CASE ReadFails \/ CopyConfig \/ AllCopied
  BY <1>2, BetweenKeeps
<1>3. CASE SkipSlot \/ SkipSetting
  BY <1>3, SkipSlotKeeps, SkipSettingKeeps
<1>4. CASE CopySetting \/ CopyInterface \/ Panic
  BY <1>4, CopySettingKeeps, CopyInterfaceKeeps, PanicKeeps
<1>5. CASE UNCHANGED vars
  BY <1>5, StutterKeeps
<1>. QED
  BY <1>1, <1>2, <1>3, <1>4, <1>5 DEF Next

\* For a device with any descriptors, at every point of the copying: hasIntf is what
\* the device has offered so far, and each slot with settings is an interface, in the
\* order of the slots, of those of its settings that were not offered before.
THEOREM DescriptorsInvariant == Spec => []IInv
BY InitGives, StepKeeps, PTL DEF Spec

-----------------------------------------------------------------------------
(* What follows from it. *)

\* The variables have their types: the copying stays in the slots of the configuration
\* and in the settings of the slot.
THEOREM DescriptorsTypeCorrect == Spec => []TypeOK
<1>1. IInv => TypeOK
  BY DEF IInv
<1>. QED
  BY <1>1, DescriptorsInvariant, PTL

\* getDeviceDesc panics only on a device that offers all settings of a slot in earlier
\* slots of the same interface: settings repeated in one slot do not suffice.
THEOREM DescriptorsPanicMeansRepeatedSlot == Spec => []PanicMeansRepeatedSlot
<1>1. ASSUME IInv PROVE PanicMeansRepeatedSlot
  <2>. SUFFICES ASSUME pc = "panic", NEW alt \in ToSet(Alts(s))
                PROVE  \E t \in 1..s - 1 :
                          slots[t].number = slots[s].number /\ alt \in ToSet(Alts(t))
    BY DEF PanicMeansRepeatedSlot, Alts
  <2>1. s \in 1..Len(slots) /\ s \in Nat /\ Len(slots) \in Nat /\ Len(Alts(s)) \in Nat
    <3>1. s \in 1..Len(slots) /\ s \in Nat /\ Len(slots) \in Nat
      BY <1>1, SlotsHave DEF IInv, PlaceInv
    <3>. QED
      BY <1>1, <3>1, SlotsHave DEF IInv
  <2>2. \A j \in 1..Len(Alts(s)) : ~IsFirst(s, j)
    <3>1. CopiesOf(<<>>, s, Len(Alts(s)) + 1)
      BY <1>1 DEF IInv, PlaceInv, DescsInv
    <3>2. \A j \in 1..Len(Alts(s)) : j \in 1..Len(Alts(s)) + 1 - 1
      BY <2>1
    <3>. QED
      BY <3>1, <3>2 DEF CopiesOf
  <2>. DEFINE J == {j \in 1..Len(Alts(s)) : Alts(s)[j] = alt}
  <2>3. \A t \in 1..Len(slots) : DOMAIN Alts(t) = 1..Len(Alts(t))
    BY <1>1, SlotsHave DEF IInv
  <2>4. J # {} /\ J \in SUBSET Nat
    BY <2>1, <2>3 DEF ToSet
  <2>5. PICK j \in J : \A k \in J : j <= k
    BY <2>4, LeastNat
  <2>6. PICK u \in 1..s, k \in Nat :
          /\ k \in 1..Len(Alts(u)) /\ Precedes(u, k, s, j)
          /\ slots[u].number = slots[s].number /\ Alts(u)[k] = Alts(s)[j]
    BY <2>2, <2>5 DEF IsFirst
  <2>7. u # s
    BY <2>5, <2>6 DEF Precedes
  <2>8. u \in 1..s - 1 /\ u \in 1..Len(slots)
    BY <2>1, <2>7
  <2>. QED
    BY <2>3, <2>5, <2>6, <2>8 DEF ToSet
<1>. QED
  BY <1>1, DescriptorsInvariant, PTL

\* The slots that interfaces come from are those with settings.
LEMMA FromHas ==
  ASSUME IInv, pc = "config"
  PROVE  /\ Len(slots) \in Nat /\ Len(interfaces) \in Nat
         /\ \A d \in 1..Len(interfaces) :
               /\ From(d) \in 1..Len(slots) /\ Alts(From(d)) # <<>>
               /\ interfaces[d].number = slots[From(d)].number
               /\ Len(interfaces[d].altSettings) \in Nat
               /\ CopiesOf(interfaces[d].altSettings, From(d), Len(Alts(From(d))) + 1)
         /\ \A t \in 1..Len(slots) : Alts(t) # <<>> => \E d \in 1..Len(interfaces) : From(d) = t
<1>1. s = Len(slots) + 1 /\ Len(slots) \in Nat
  BY SlotsHave DEF IInv, PlaceInv
<1>2. s - 1 = Len(slots)
  BY <1>1
<1>3. interfaces \in Seq([number : Numbers, altSettings : Seq(Settings)])
  BY DEF IInv, TypeOK
<1>4. Len(interfaces) \in Nat
  BY <1>3, LenProperties
<1>5. ASSUME NEW d \in 1..Len(interfaces)
      PROVE  Len(interfaces[d].altSettings) \in Nat /\ Alts(From(d)) # <<>>
  <2>1. interfaces[d].altSettings \in Seq(Settings) /\ interfaces[d].altSettings # <<>>
    <3>1. interfaces[d] \in [number : Numbers, altSettings : Seq(Settings)]
      BY <1>3, <1>5, ElementOfSeq
    <3>. QED
      BY <1>5, <3>1 DEF IInv, InterfacesInv
  <2>2. Len(interfaces[d].altSettings) \in Nat /\ 1 \in 1..Len(interfaces[d].altSettings)
    BY <2>1, LenProperties, EmptySeq
  <2>3. PICK j \in 1..Len(Alts(From(d))) + 1 - 1 : TRUE
    BY <1>5, <2>2 DEF IInv, InterfacesInv, CopiesOf
  <2>4. Len(Alts(From(d))) # 0
    BY <2>3
  <2>. QED
    BY <2>2, <2>4
<1>. QED
  BY <1>1, <1>2, <1>4, <1>5 DEF IInv, InterfacesInv

\* Interface n is that of the first slot of this number with settings.
LEMMA InterfaceFound ==
  ASSUME IInv, pc = "config", NEW n, NEW slot, slot = FirstSlot(n)
  PROVE  /\ slot = 0 => intfDesc(n) = 0
         /\ slot # 0 =>
              /\ slot \in 1..Len(slots) /\ slots[slot].number = n
              /\ \A t \in 1..slot - 1 : slots[t].number = n => Alts(t) = <<>>
              /\ intfDesc(n) \in 1..Len(interfaces) /\ From(intfDesc(n)) = slot
<1>. DEFINE I == {t \in 1..Len(slots) : slots[t].number = n /\ slots[t].alternates # <<>>}
            D == {d \in 1..Len(interfaces) : interfaces[d].number = n}
<1>0. PICK e : e = intfDesc(n)
  OBVIOUS
<1>1. Len(slots) \in Nat /\ Len(interfaces) \in Nat
  BY FromHas
<1>2. slot = IF I # {} THEN Min(I) ELSE 0
  BY DEF SelectInSeq, FirstSlot
<1>3. e = IF D # {} THEN Min(D) ELSE 0
  BY <1>0 DEF SelectInSeq, intfDesc
<1>4. (slot = 0 /\ I = {}) \/ (slot \in I /\ slot \in Nat /\ \A t \in I : slot <= t)
  <2>1. I \in SUBSET (1..Len(slots))
    OBVIOUS
  <2>. QED
    BY <1>1, <1>2, <2>1, FirstOf
<1>5. (e = 0 /\ D = {}) \/ (e \in D /\ e \in Nat /\ \A d \in D : e <= d)
  <2>1. D \in SUBSET (1..Len(interfaces))
    OBVIOUS
  <2>. QED
    BY <1>1, <1>3, <2>1, FirstOf
<1>6. \A d \in D : From(d) \in I
  BY FromHas DEF Alts
<1>7. CASE slot = 0 /\ I = {}
  <2>1. D = {}
    BY <1>6, <1>7
  <2>. QED
    BY <1>0, <1>5, <1>7, <2>1
<1>8. CASE slot \in I /\ slot \in Nat /\ \A t \in I : slot <= t
  <2>1. PICK d \in 1..Len(interfaces) : From(d) = slot
    BY <1>8, FromHas DEF Alts
  <2>2. d \in D
    BY <1>8, <2>1, FromHas
  <2>3. e \in D /\ e \in Nat /\ e <= d
    BY <1>5, <2>2
  <2>4. slot <= From(e)
    BY <1>6, <1>8, <2>3
  <2>5. ~(e < d)
    <3>1. e < d => From(e) < From(d)
      BY <2>1, <2>3 DEF IInv, InterfacesInv
    <3>2. From(e) \in Nat
      BY <1>6, <2>3
    <3>. QED
      BY <1>8, <2>1, <2>4, <3>1, <3>2
  <2>6. e = d
    BY <2>3, <2>5
  <2>7. \A t \in 1..slot - 1 : t \in 1..Len(slots) /\ ~(slot <= t)
    BY <1>1, <1>8
  <2>8. \A t \in 1..slot - 1 : slots[t].number = n => Alts(t) = <<>>
    BY <1>8, <2>7 DEF Alts
  <2>9. e \in 1..Len(interfaces) /\ From(e) = slot /\ slot # 0
    BY <1>8, <2>1, <2>6
  <2>10. slot \in 1..Len(slots) /\ slots[slot].number = n
    BY <1>8
  <2>. QED
    BY <1>0, <2>8, <2>9, <2>10
<1>. QED
  BY <1>4, <1>7, <1>8

\* Setting alt of it is the first of the slot.
LEMMA SettingFound ==
  ASSUME IInv, pc = "config", NEW alt, NEW d \in 1..Len(interfaces), NEW slot, slot = From(d),
         \A t \in 1..slot - 1 : slots[t].number = slots[slot].number => Alts(t) = <<>>,
         NEW k, k = FirstSetting(slot, alt)
  PROVE  LET c == altSetting(interfaces[d], alt)
         IN  /\ k = 0 => c = 0
             /\ k # 0 => c # 0 /\ interfaces[d].altSettings[c].at = <<slot, k>>
<1>0. PICK c, ds : c = altSetting(interfaces[d], alt) /\ ds = interfaces[d].altSettings
  OBVIOUS
<1>1. /\ slot \in 1..Len(slots) /\ Len(slots) \in Nat /\ Len(ds) \in Nat
      /\ CopiesOf(ds, slot, Len(Alts(slot)) + 1)
  BY <1>0, FromHas
<1>2. Len(Alts(slot)) \in Nat
  BY <1>1, SlotsHave DEF IInv
<1>. DEFINE J == {j \in 1..Len(Alts(slot)) : Alts(slot)[j] = alt}
            C == {x \in 1..Len(ds) : ds[x].alternate = alt}
<1>3. k = IF J # {} THEN Min(J) ELSE 0
  BY DEF SelectInSeq, FirstSetting, Alts
<1>4. c = IF C # {} THEN Min(C) ELSE 0
  BY <1>0 DEF SelectInSeq, altSetting
<1>5. (k = 0 /\ J = {}) \/ (k \in J /\ k \in Nat /\ \A j \in J : k <= j)
  <2>1. J \in SUBSET (1..Len(Alts(slot)))
    OBVIOUS
  <2>. QED
    BY <1>2, <1>3, <2>1, FirstOf
<1>6. (c = 0 /\ C = {}) \/ (c \in C /\ c \in Nat /\ \A x \in C : c <= x)
  <2>1. C \in SUBSET (1..Len(ds))
    OBVIOUS
  <2>. QED
    BY <1>1, <1>4, <2>1, FirstOf
<1>7. \A j : j \in 1..Len(Alts(slot)) + 1 - 1 <=> j \in 1..Len(Alts(slot))
  BY <1>2
<1>8. ASSUME NEW x \in C
      PROVE  \E j \in J : ds[x].at = <<slot, j>> /\ IsFirst(slot, j)
  <2>1. PICK j \in 1..Len(Alts(slot)) : IsCopy(ds[x], slot, j)
    BY <1>1, <1>7 DEF CopiesOf
  <2>. QED
    BY <2>1 DEF IsCopy
<1>9. CASE k = 0 /\ J = {}
  <2>1. C = {}
    BY <1>8, <1>9
  <2>. QED
    BY <1>0, <1>6, <1>9, <2>1
<1>10. CASE k \in J /\ k \in Nat /\ \A j \in J : k <= j
  <2>1. IsFirst(slot, k)
    <3>1. ASSUME NEW u \in 1..slot, NEW m \in 1..Len(Alts(u)), Precedes(u, m, slot, k),
                 slots[u].number = slots[slot].number
          PROVE  Alts(u)[m] # alt
      <4>1. CASE u = slot
        <5>1. m \in 1..Len(Alts(slot)) /\ m < k
          BY <1>1, <3>1, <4>1 DEF Precedes
        <5>2. ~(k <= m)
          BY <1>2, <1>10, <5>1
        <5>. QED
          BY <1>10, <4>1, <5>1, <5>2
      <4>2. CASE u # slot
        <5>1. u \in 1..slot - 1
          BY <1>1, <4>2
        <5>2. Len(Alts(u)) = 0
          BY <3>1, <5>1
        <5>. QED
          BY <5>2
      <4>. QED
        BY <4>1, <4>2
    <3>. QED
      BY <1>10, <3>1 DEF IsFirst
  <2>2. PICK x \in 1..Len(ds) : IsCopy(ds[x], slot, k)
    <3>1. k \in 1..Len(Alts(slot)) + 1 - 1
      BY <1>7, <1>10
    <3>. QED
      BY <1>1, <2>1, <3>1 DEF CopiesOf
  <2>3. x \in C
    BY <1>10, <2>2 DEF IsCopy
  <2>4. c \in C /\ c \in Nat
    BY <1>6, <2>3
  <2>5. PICK j \in J : ds[c].at = <<slot, j>> /\ IsFirst(slot, j)
    BY <1>8, <2>4
  <2>6. ~(k < j)
    <3>1. ASSUME k < j PROVE FALSE
      <4>1. Precedes(slot, k, slot, j) /\ slot \in 1..slot
        BY <1>1, <3>1 DEF Precedes
      <4>. QED
        BY <1>10, <2>5, <4>1 DEF IsFirst
    <3>. QED
      BY <3>1
  <2>7. j = k
    <3>1. k <= j /\ j \in 1..Len(Alts(slot))
      BY <1>10, <2>5
    <3>. QED
      BY <1>2, <1>10, <2>6, <3>1
  <2>8. c # 0 /\ k # 0
    BY <1>10, <2>4
  <2>. QED
    BY <1>0, <2>5, <2>7, <2>8
<1>. QED
  BY <1>5, <1>9, <1>10

\* Config.Interface(n, alt) uses the first setting alt of the first slot of interface n
\* that has settings, and fails for all others: however slots and settings are numbered
\* and repeated, the copying has lost none of those and has put none before it.
THEOREM DescriptorsFoundIsFirstOffered == Spec => []FoundIsFirstOffered
<1>1. ASSUME IInv PROVE FoundIsFirstOffered
  <2>1. ASSUME pc = "config", NEW n \in Numbers, NEW alt \in Alternates, NEW slot, NEW k,
               slot = FirstSlot(n), k = IF slot = 0 THEN 0 ELSE FirstSetting(slot, alt)
        PROVE  Found(n, alt) = IF k = 0 THEN NotFound ELSE <<slot, k>>
    <3>1. PICK d : d = intfDesc(n)
      OBVIOUS
    <3>2. CASE slot = 0
      <4>1. d = 0 /\ k = 0
        BY <1>1, <2>1, <3>1, <3>2, InterfaceFound
      <4>. QED
        BY <3>1, <4>1 DEF Found
    <3>3. CASE slot # 0
      <4>1. /\ slots[slot].number = n /\ d \in 1..Len(interfaces) /\ slot = From(d)
            /\ \A t \in 1..slot - 1 : slots[t].number = n => Alts(t) = <<>>
        BY <1>1, <2>1, <3>1, <3>3, InterfaceFound
      <4>2. k = FirstSetting(slot, alt)
        BY <2>1, <3>3
      <4>3. PICK c : c = altSetting(interfaces[d], alt)
        OBVIOUS
      <4>4. (k = 0 => c = 0) /\ (k # 0 => c # 0 /\ interfaces[d].altSettings[c].at = <<slot, k>>)
        BY <1>1, <2>1, <4>1, <4>2, <4>3, SettingFound
      <4>5. d # 0
        BY <4>1
      <4>. QED
        BY <3>1, <4>3, <4>4, <4>5 DEF Found
    <3>. QED
      BY <3>2, <3>3
  <2>. QED
    BY <2>1 DEF FoundIsFirstOffered
<1>. QED
  BY <1>1, DescriptorsInvariant, PTL

-----------------------------------------------------------------------------
(* UsbIds: the inductive invariant. *)

\* The lines of a block and level.
LinesAt(b, level) == {k \in Parsed : KindOf(k) = b /\ file[k].level = level}

LastLine(S) == IF S = {} THEN nil ELSE Max(S)

\* What the parser remembers is the last line of each level.
RememberedInv ==
    status # "refused" =>
        \A b \in Blocks :
            /\ first[b] = LastLine(LinesAt(b, 0))
            /\ second[b] = LastLine(LinesAt(b, 1))

\* A file is refused because its last line has none to hang on.
RefusedInv ==
    status = "refused" =>
        /\ Len(file) \in Parsed
        /\ \/ file[Len(file)].level > 2
           \/ file[Len(file)].level > 0 /\ OneAbove(Len(file)) = {}

IdsInv ==
    /\ IdsTypeOK
    /\ kind = KindOf(Len(file))
    /\ RememberedInv
    /\ RefusedInv
    /\ HangsByLevel

-----------------------------------------------------------------------------
(* The last of some lines. *)

LEMMA GreatestIsMax ==
  ASSUME NEW S \in SUBSET Int, NEW m \in S, \A j \in S : j <= m
  PROVE  Max(S) = m
<1>1. m \in S /\ \A j \in S : m >= j
  OBVIOUS
<1>2. Max(S) \in S /\ \A j \in S : Max(S) >= j
  BY <1>1 DEF Max
<1>3. m >= Max(S) /\ Max(S) >= m /\ m \in Int /\ Max(S) \in Int
  BY <1>1, <1>2
<1>. QED
  BY <1>3

LEMMA LastHas ==
  ASSUME NEW n \in Nat, NEW S \in SUBSET (1..n), S # {}
  PROVE  Max(S) \in S /\ Max(S) \in 1..n /\ \A j \in S : j <= Max(S)
<1>. DEFINE T == {d \in 0..n : n - d \in S}
<1>1. T \in SUBSET Nat /\ T # {}
  <2>1. PICK j \in S : TRUE
    OBVIOUS
  <2>2. n - j \in 0..n /\ n - (n - j) = j
    BY <2>1
  <2>3. n - j \in T
    BY <2>1, <2>2
  <2>4. T \in SUBSET Nat
    OBVIOUS
  <2>. QED
    BY <2>3, <2>4
<1>2. PICK d \in T : \A c \in T : d <= c
  <2>. HIDE DEF T
  <2>. QED
    BY <1>1, LeastNat
<1>3. n - d \in S /\ \A j \in S : j <= n - d
  <2>1. n - d \in S /\ d \in 0..n
    BY <1>2
  <2>2. ASSUME NEW j \in S
        PROVE  j <= n - d
    <3>1. j \in 1..n /\ n - j \in 0..n /\ n - (n - j) = j
      OBVIOUS
    <3>2. n - j \in T
      BY <3>1
    <3>. QED
      BY <1>2, <2>1, <3>1, <3>2
  <2>. QED
    BY <2>1, <2>2
<1>4. Max(S) = n - d
  <2>1. S \in SUBSET Int
    OBVIOUS
  <2>. HIDE DEF T
  <2>. QED
    BY <1>3, <2>1, GreatestIsMax
<1>. QED
  BY <1>3, <1>4

\* A line added at the end is the last.
LEMMA AddedIsLast ==
  ASSUME NEW n \in Nat, NEW S \in SUBSET (1..n)
  PROVE  Max(S \cup {n + 1}) = n + 1
<1>1. S \cup {n + 1} \in SUBSET Int /\ n + 1 \in S \cup {n + 1}
  OBVIOUS
<1>2. \A j \in S \cup {n + 1} : j <= n + 1
  OBVIOUS
<1>. QED
  BY <1>1, <1>2, GreatestIsMax

-----------------------------------------------------------------------------
(* What a line added at the end changes. *)

LEMMA FileType ==
  ASSUME IdsTypeOK
  PROVE  /\ Len(file) \in Nat /\ DOMAIN file = 1..Len(file)
         /\ \A k \in 1..Len(file) : file[k] \in Lines
         /\ Parsed \in SUBSET (1..Len(file))
<1>1. file \in Seq(Lines)
  BY DEF IdsTypeOK
<1>2. Len(file) \in Nat /\ DOMAIN file = 1..Len(file) /\ \A k \in 1..Len(file) : file[k] \in Lines
  BY <1>1, LenProperties, ElementOfSeq
<1>. QED
  BY <1>2 DEF Parsed

LEMMA LineType ==
  ASSUME NEW l \in Lines
  PROVE  l.kind \in Kinds /\ l.level \in 0..3 /\ l.id \in Ids
BY DEF Lines

LEMMA ParsedHas ==
  ASSUME IdsTypeOK, NEW k \in Parsed
  PROVE  /\ k \in 1..Len(file) /\ KindOf(k) \in Blocks
         /\ file[k].level \in 0..3 /\ file[k].id \in Ids
<1>1. k \in 1..Len(file) /\ KindOf(k) \in Blocks
  BY FileType DEF Parsed
<1>2. file[k] \in Lines
  BY <1>1, FileType
<1>. QED
  BY <1>1, <1>2, LineType

\* The number of the line that is read.
LEMMA ReadFile ==
  ASSUME IdsTypeOK, NEW l \in Lines, Read(l)
  PROVE  /\ file' \in Seq(Lines)
         /\ Len(file') = Len(file) + 1 /\ DOMAIN file' = 1..(Len(file) + 1)
         /\ file'[Len(file) + 1] = l
         /\ \A k \in 1..Len(file) : file'[k] = file[k]
         /\ kind' \in Kinds
<1>1. file \in Seq(Lines) /\ file' = Append(file, l)
  BY DEF IdsTypeOK, Read
<1>2. /\ file' \in Seq(Lines) /\ Len(file') = Len(file) + 1
      /\ file'[Len(file) + 1] = l
      /\ \A k \in 1..Len(file) : file'[k] = file[k]
  BY <1>1, AppendProperties
<1>3. DOMAIN file' = 1..(Len(file) + 1)
  BY <1>2, LenProperties
<1>4. kind' \in Kinds
  BY LineType DEF IdsTypeOK, Read
<1>. QED
  BY <1>2, <1>3, <1>4

\* The kinds of the lines before do not change.
LEMMA ReadKinds ==
  ASSUME IdsTypeOK, NEW l \in Lines, Read(l), NEW k \in 0..Len(file)
  PROVE  KindOf(k)' = KindOf(k)
<1>. DEFINE given == {j \in 1..k : file[j].kind # ""}
            later == {j \in 1..k : file'[j].kind # ""}
<1>1. k \in Nat /\ \A j \in 1..k : file'[j] = file[j]
  BY FileType, ReadFile
<1>2. later = given
  BY <1>1
<1>3. KindOf(k) = IF given = {} THEN "" ELSE file[Max(given)].kind
  BY DEF KindOf
<1>4. KindOf(k)' = IF later = {} THEN "" ELSE file'[Max(later)].kind
  BY DEF KindOf
<1>5. given \in SUBSET (1..k)
  OBVIOUS
<1>. HIDE DEF given, later
<1>6. CASE given = {}
  BY <1>2, <1>3, <1>4, <1>6
<1>7. CASE given # {}
  <2>1. Max(given) \in 1..k
    BY <1>1, <1>5, <1>7, LastHas
  <2>2. file'[Max(given)] = file[Max(given)]
    BY <1>1, <2>1
  <2>. QED
    BY <1>2, <1>3, <1>4, <1>7, <2>2
<1>. QED
  BY <1>6, <1>7

\* The kind of the line that is read is the one that the parser has then.
LEMMA ReadKind ==
  ASSUME IdsTypeOK, kind = KindOf(Len(file)), NEW l \in Lines, Read(l),
         NEW n, n = Len(file)
  PROVE  KindOf(n + 1)' = kind'
<1>. DEFINE before == {j \in 1..n : file[j].kind # ""}
            given == {j \in 1..(n + 1) : file'[j].kind # ""}
<1>1. n \in Nat /\ file'[n + 1] = l /\ \A j \in 1..n : file'[j] = file[j]
  BY FileType, ReadFile
<1>2. given = IF l.kind # "" THEN before \cup {n + 1} ELSE before
  <2>1. \A j \in 1..(n + 1) : j \in 1..n \/ j = n + 1
    BY <1>1
  <2>2. n + 1 \in 1..(n + 1) /\ n + 1 \notin 1..n /\ \A j \in 1..n : j \in 1..(n + 1)
    BY <1>1
  <2>. QED
    BY <1>1, <2>1, <2>2
<1>3. KindOf(n) = IF before = {} THEN "" ELSE file[Max(before)].kind
  BY DEF KindOf
<1>4. KindOf(n + 1)' = IF given = {} THEN "" ELSE file'[Max(given)].kind
  BY DEF KindOf
<1>5. before \in SUBSET (1..n)
  OBVIOUS
<1>6. kind' = (IF l.kind # "" THEN l.kind ELSE kind) /\ kind = KindOf(n)
  BY DEF Read
<1>. HIDE DEF before, given
<1>7. CASE l.kind # ""
  <2>1. Max(given) = n + 1 /\ given # {}
    BY <1>1, <1>2, <1>5, <1>7, AddedIsLast
  <2>. QED
    BY <1>1, <1>4, <1>6, <1>7, <2>1
<1>8. CASE l.kind = ""
  <2>1. before # {} => Max(before) \in 1..n
    BY <1>1, <1>5, LastHas
  <2>. QED
    BY <1>1, <1>2, <1>3, <1>4, <1>6, <1>8, <2>1
<1>. QED
  BY <1>7, <1>8
\* Of the lines of a block and level, and of those that are parsed, at most the line
\* that is read is new.
LEMMA ReadLines ==
  ASSUME IdsTypeOK, kind = KindOf(Len(file)), NEW l \in Lines, Read(l),
         NEW n, n = Len(file)
  PROVE  /\ Parsed' = IF kind' \in Blocks THEN Parsed \cup {n + 1} ELSE Parsed
         /\ \A b \in Blocks, level \in Int :
              LinesAt(b, level)' = IF b = kind' /\ level = l.level
                                   THEN LinesAt(b, level) \cup {n + 1}
                                   ELSE LinesAt(b, level)
<1>1. /\ n \in Nat /\ file'[n + 1] = l /\ DOMAIN file' = 1..(n + 1) /\ DOMAIN file = 1..n
      /\ \A j \in 1..n : file'[j] = file[j]
  BY FileType, ReadFile
<1>2. KindOf(n + 1)' = kind'
  BY ReadKind
<1>3. \A k \in 1..n : KindOf(k)' = KindOf(k)
  BY <1>1, ReadKinds
<1>4. 1..(n + 1) = (1..n) \cup {n + 1}
  BY <1>1
<1>5. Parsed' = {k \in (1..n) \cup {n + 1} : KindOf(k)' \in Blocks}
  BY <1>1, <1>4 DEF Parsed
<1>6. Parsed = {k \in 1..n : KindOf(k) \in Blocks}
  BY <1>1 DEF Parsed
<1>7. Parsed' = IF kind' \in Blocks THEN Parsed \cup {n + 1} ELSE Parsed
  BY <1>2, <1>3, <1>5, <1>6
<1>8. ASSUME NEW b \in Blocks, NEW level \in Int
      PROVE  LinesAt(b, level)' = IF b = kind' /\ level = l.level
                                  THEN LinesAt(b, level) \cup {n + 1}
                                  ELSE LinesAt(b, level)
  <2>1. LinesAt(b, level) = {k \in Parsed : KindOf(k) = b /\ file[k].level = level}
    BY DEF LinesAt
  <2>2. LinesAt(b, level)' = {k \in Parsed' : KindOf(k)' = b /\ file'[k].level = level}
    BY DEF LinesAt
  <2>3. \A k \in Parsed : k \in 1..n /\ KindOf(k)' = KindOf(k) /\ file'[k] = file[k]
    BY <1>1, <1>3, <1>6
  <2>. QED
    BY <1>1, <1>2, <1>7, <2>1, <2>2, <2>3
<1>. QED
  BY <1>7, <1>8

\* What the lines before hang on does not change.
LEMMA ReadKeeps ==
  ASSUME IdsTypeOK, kind = KindOf(Len(file)), NEW l \in Lines, Read(l), NEW k \in Parsed
  PROVE  /\ k \in Parsed' /\ KindOf(k)' = KindOf(k) /\ file'[k] = file[k]
         /\ OneAbove(k)' = OneAbove(k)
         /\ Owner(k)' = Owner(k)
<1>. DEFINE n == Len(file)
<1>1. n \in Nat /\ \A j \in Parsed : j \in 1..n
  BY FileType
<1>2. \A j \in Parsed : KindOf(j)' = KindOf(j) /\ file'[j] = file[j]
  BY <1>1, ReadKinds, ReadFile
<1>3. Parsed \subseteq Parsed' /\ Parsed' \subseteq Parsed \cup {n + 1}
  BY ReadLines
<1>4. OneAbove(k)' = OneAbove(k)
  <2>1. OneAbove(k) = {j \in Parsed : j < k /\ KindOf(j) = KindOf(k)
                                        /\ file[j].level = file[k].level - 1}
    BY DEF OneAbove
  <2>2. OneAbove(k)' = {j \in Parsed' : j < k /\ KindOf(j)' = KindOf(k)'
                                          /\ file'[j].level = file'[k].level - 1}
    BY DEF OneAbove
  <2>3. \A j \in Parsed' : j < k => j \in Parsed
    BY <1>1, <1>3
  <2>. QED
    BY <1>2, <1>3, <2>1, <2>2, <2>3
<1>. QED
  BY <1>2, <1>3, <1>4 DEF Owner

\* The line that is read may hang on all lines of the level above.
LEMMA ReadAbove ==
  ASSUME IdsTypeOK, kind = KindOf(Len(file)), NEW l \in Lines, Read(l), kind' \in Blocks,
         NEW n, n = Len(file)
  PROVE  OneAbove(n + 1)' = LinesAt(kind', l.level - 1)
<1>1. n \in Nat /\ file'[n + 1] = l /\ \A j \in Parsed : j \in 1..n
  BY FileType, ReadFile
<1>2. \A j \in Parsed : KindOf(j)' = KindOf(j) /\ file'[j] = file[j]
  BY ReadKeeps
<1>3. Parsed' = Parsed \cup {n + 1} /\ KindOf(n + 1)' = kind'
  BY ReadLines, ReadKind
<1>4. LinesAt(kind', l.level - 1)
        = {j \in Parsed : KindOf(j) = kind' /\ file[j].level = l.level - 1}
  BY DEF LinesAt
<1>5. OneAbove(n + 1)' = {j \in Parsed' : j < n + 1 /\ KindOf(j)' = KindOf(n + 1)'
                                            /\ file'[j].level = file'[n + 1].level - 1}
  BY DEF OneAbove
<1>6. \A j \in Parsed' : j < n + 1 <=> j \in Parsed
  BY <1>1, <1>3
<1>7. \A j \in Parsed : j \in Parsed'
  BY <1>3
<1>8. \A j : j \in OneAbove(n + 1)' <=>
               j \in Parsed /\ KindOf(j)' = kind' /\ file'[j].level = l.level - 1
  BY <1>1, <1>3, <1>5, <1>6, <1>7
<1>9. \A j : j \in OneAbove(n + 1)' <=> j \in LinesAt(kind', l.level - 1)
  BY <1>2, <1>4, <1>8
<1>. QED
  BY <1>4, <1>5, <1>9
-----------------------------------------------------------------------------
(* The maps. *)

LEMMA IdByte ==
  ASSUME NEW i \in Nat
  PROVE  i % 256 \in 0..255
BY SMT

LEMMA KeyType ==
  ASSUME NEW b, NEW id \in Ids
  PROVE  Key(b, id) \in RawIds
<1>1. MaxId \in Nat /\ 255 <= MaxId
  BY SMT DEF MaxId
<1>2. id \in RawIds
  BY UsbIdsAssumption
<1>3. id \in Nat
  BY <1>1, <1>2 DEF RawIds
<1>4. id % 256 \in 0..255
  BY <1>3, IdByte
<1>5. id % 256 \in RawIds
  BY <1>1, <1>4 DEF RawIds
<1>. QED
  BY <1>2, <1>5 DEF Key

\* A line is added to the maps of the lines before where it hangs.
LEMMA ReadEnters ==
  ASSUME IdsTypeOK, kind = KindOf(Len(file)), NEW l \in Lines, Read(l), kind' \in Blocks,
         NEW n, n = Len(file), NEW super, super = Owner(n + 1)',
         entries = LastOf(Owners), Enter(super, l.id)
  PROVE  entries' = LastOf(Owners)'
<1>. DEFINE key == <<super, Key(kind', l.id)>>
            at(x) == {k \in Parsed : Place(Owners, k) = x}
            after(x) == {k \in Parsed' : Place(Owners, k)' = x}
<1>1. n \in Nat /\ \A j \in Parsed : j \in 1..n
  BY FileType
<1>2. Parsed' = Parsed \cup {n + 1} /\ KindOf(n + 1)' = kind' /\ file'[n + 1] = l
  BY ReadLines, ReadKind, ReadFile
<1>3. \A k \in Parsed : Place(Owners, k)' = Place(Owners, k)
  <2>. SUFFICES ASSUME NEW k \in Parsed
                PROVE  Place(Owners, k)' = Place(Owners, k)
    OBVIOUS
  <2>1. Owners[k] = Owner(k) /\ Owners'[k] = Owner(k)'
    BY <1>2 DEF Owners
  <2>. QED
    BY <2>1, ReadKeeps DEF Place
<1>4. Place(Owners, n + 1)' = key
  <2>1. Owners'[n + 1] = super
    BY <1>2 DEF Owners
  <2>. QED
    BY <1>2, <2>1 DEF Place
<1>5. entries' = [x \in DOMAIN entries \cup {key} |-> IF x = key THEN n + 1 ELSE entries[x]]
  <2>1. This = n + 1
    BY ReadFile DEF This
  <2>. QED
    BY <2>1 DEF Enter
<1>6. entries = [x \in {Place(Owners, k) : k \in Parsed} |-> Max(at(x))]
  BY DEF LastOf
<1>7. LastOf(Owners)' = [x \in {Place(Owners, k)' : k \in Parsed'} |-> Max(after(x))]
  BY DEF LastOf
<1>8. {Place(Owners, k)' : k \in Parsed'} = DOMAIN entries \cup {key}
  BY <1>2, <1>3, <1>4, <1>6
<1>9. Max(after(key)) = n + 1
  <2>1. after(key) = at(key) \cup {n + 1} /\ at(key) \in SUBSET (1..n)
    BY <1>1, <1>2, <1>3, <1>4
  <2>. HIDE DEF at, after, key
  <2>. QED
    BY <1>1, <2>1, AddedIsLast
<1>10. ASSUME NEW x, x # key
       PROVE  after(x) = at(x)
  BY <1>2, <1>3, <1>4, <1>10
<1>11. ASSUME NEW x \in DOMAIN entries \cup {key}
       PROVE  (IF x = key THEN n + 1 ELSE entries[x]) = Max(after(x))
  <2>. HIDE DEF at, after, key
  <2>1. CASE x = key
    BY <1>9, <2>1
  <2>2. CASE x # key
    BY <1>6, <1>10, <1>11, <2>2
  <2>. QED
    BY <2>1, <2>2
<1>. HIDE DEF at, after, key
<1>. QED
  BY <1>5, <1>7, <1>8, <1>11

\* Nothing is added to them.
LEMMA ReadIgnores ==
  ASSUME IdsTypeOK, kind = KindOf(Len(file)), NEW l \in Lines, Read(l), kind' \notin Blocks
  PROVE  LastOf(Owners)' = LastOf(Owners)
<1>1. Parsed' = Parsed
  BY ReadLines
<1>2. \A k \in Parsed : Place(Owners, k)' = Place(Owners, k)
  <2>. SUFFICES ASSUME NEW k \in Parsed
                PROVE  Place(Owners, k)' = Place(Owners, k)
    OBVIOUS
  <2>1. Owners[k] = Owner(k) /\ Owners'[k] = Owner(k)'
    BY <1>1 DEF Owners
  <2>. QED
    BY <2>1, ReadKeeps DEF Place
<1>3. LastOf(Owners)
        = [x \in {Place(Owners, k) : k \in Parsed} |-> Max({k \in Parsed : Place(Owners, k) = x})]
  BY DEF LastOf
<1>4. LastOf(Owners)'
        = [x \in {Place(Owners, k)' : k \in Parsed'}
             |-> Max({k \in Parsed' : Place(Owners, k)' = x})]
  BY DEF LastOf
<1>5. {Place(Owners, k)' : k \in Parsed'} = {Place(Owners, k) : k \in Parsed}
  BY <1>1, <1>2
<1>6. \A x : {k \in Parsed' : Place(Owners, k)' = x} = {k \in Parsed : Place(Owners, k) = x}
  BY <1>1, <1>2
<1>. QED
  BY <1>3, <1>4, <1>5, <1>6
-----------------------------------------------------------------------------
(* Each step keeps the invariant. *)

\* What the parser remembers of the level of the line, and of the others.
LEMMA ReadRemembers ==
  ASSUME IdsInv, NEW l \in Lines, Read(l), kind' \in Blocks, NEW n, n = Len(file),
         NEW b \in Blocks, NEW level \in Int
  PROVE  LastLine(LinesAt(b, level))' =
           IF b = kind' /\ level = l.level THEN n + 1 ELSE LastLine(LinesAt(b, level))
<1>1. n \in Nat /\ LinesAt(b, level) \in SUBSET (1..n)
  BY FileType DEF LinesAt, IdsInv
<1>2. LinesAt(b, level)' = IF b = kind' /\ level = l.level
                           THEN LinesAt(b, level) \cup {n + 1} ELSE LinesAt(b, level)
  BY ReadLines DEF IdsInv
<1>3. LastLine(LinesAt(b, level))'
        = IF LinesAt(b, level)' = {} THEN nil ELSE Max(LinesAt(b, level)')
  BY DEF LastLine
<1>4. Max(LinesAt(b, level) \cup {n + 1}) = n + 1
  BY <1>1, AddedIsLast
<1>5. LastLine(LinesAt(b, level))
        = IF LinesAt(b, level) = {} THEN nil ELSE Max(LinesAt(b, level))
  BY DEF LastLine
<1>. QED
  BY <1>2, <1>3, <1>4, <1>5

\* A last line is a line of that level, and no object otherwise.
LEMMA LastLineHas ==
  ASSUME IdsTypeOK, NEW b \in Blocks, NEW level
  PROVE  /\ LastLine(LinesAt(b, level)) \in 1..Len(file) \cup {nil}
         /\ LastLine(LinesAt(b, level)) # nil <=> LinesAt(b, level) # {}
         /\ LinesAt(b, level) # {} => LastLine(LinesAt(b, level)) = Max(LinesAt(b, level))
<1>1. Len(file) \in Nat /\ LinesAt(b, level) \in SUBSET (1..Len(file))
  BY FileType DEF LinesAt
<1>2. LinesAt(b, level) # {} => Max(LinesAt(b, level)) \in 1..Len(file)
  BY <1>1, LastHas
<1>3. nil \notin 1..Len(file)
  BY DEF nil
<1>. QED
  BY <1>2, <1>3 DEF LastLine

\* What the five actions on a line share: the types, and what was accepted before.
LEMMA ReadStep ==
  ASSUME IdsInv, NEW l \in Lines, Read(l), NEW n, n = Len(file)
  PROVE  /\ n \in Nat
         /\ file' \in Seq(Lines) /\ Len(file') = n + 1 /\ Len(file') <= MaxLines
         /\ kind' \in Kinds /\ kind' = KindOf(n + 1)'
         /\ status = "read"
         /\ \A k \in Parsed : /\ file'[k].level <= 2
                              /\ file'[k].level = 0 \/ OneAbove(k)' # {}
<1>1. n \in Nat
  BY FileType DEF IdsInv
<1>2. file' \in Seq(Lines) /\ Len(file') = n + 1 /\ kind' \in Kinds
  BY ReadFile DEF IdsInv
<1>3. Len(file') <= MaxLines
  <2>1. n < MaxLines
    BY DEF Read
  <2>2. MaxLines \in Int
    BY UsbIdsAssumption
  <2>. QED
    BY <1>1, <1>2, <2>1, <2>2
<1>4. kind' = KindOf(n + 1)'
  BY ReadKind DEF IdsInv
<1>5. status = "read"
  BY DEF Read
<1>6. \A k \in Parsed : file[k].level <= 2 /\ (file[k].level = 0 \/ OneAbove(k) # {})
  BY <1>5 DEF IdsInv, HangsByLevel
<1>7. \A k \in Parsed : file'[k] = file[k] /\ OneAbove(k)' = OneAbove(k)
  BY ReadKeeps DEF IdsInv
<1>. QED
  BY <1>1, <1>2, <1>3, <1>4, <1>5, <1>6, <1>7

\* A line is accepted and put below its owner.
LEMMA AcceptKeeps ==
  ASSUME IdsInv, NEW l \in Lines, Read(l), kind' \in Blocks, NEW n, n = Len(file),
         NEW super \in {Root(b) : b \in Blocks} \cup 1..n, super = Owner(n + 1)',
         Enter(super, l.id), UNCHANGED status,
         l.level <= 2, l.level = 0 \/ LinesAt(kind', l.level - 1) # {},
         first' = IF l.level = 0 THEN [first EXCEPT ![kind'] = n + 1] ELSE first,
         second' = IF l.level = 1 THEN [second EXCEPT ![kind'] = n + 1] ELSE second
  PROVE  IdsInv'
<1>1. /\ n \in Nat
      /\ file' \in Seq(Lines) /\ Len(file') = n + 1 /\ Len(file') <= MaxLines
      /\ kind' \in Kinds /\ kind' = KindOf(n + 1)'
      /\ status = "read" /\ status' = "read"
      /\ \A k \in Parsed : /\ file'[k].level <= 2
                           /\ file'[k].level = 0 \/ OneAbove(k)' # {}
  BY ReadStep
<1>2. IdsTypeOK'
  <2>1. first \in [Blocks -> 1..n \cup {nil}] /\ second \in [Blocks -> 1..n \cup {nil}]
    BY DEF IdsInv, IdsTypeOK
  <2>2. n + 1 \in 1..(n + 1) /\ 1..n \subseteq 1..(n + 1)
    BY <1>1
  <2>3. /\ first' \in [Blocks -> 1..(n + 1) \cup {nil}]
        /\ second' \in [Blocks -> 1..(n + 1) \cup {nil}]
    BY <2>1, <2>2
  <2>4. /\ DOMAIN entries \subseteq ({Root(b) : b \in Blocks} \cup 1..n) \X RawIds
        /\ \A x \in DOMAIN entries : entries[x] \in 1..n
    BY DEF IdsInv, IdsTypeOK
  <2>. DEFINE key == <<super, Key(kind', l.id)>>
  <2>5. entries' = [x \in DOMAIN entries \cup {key} |-> IF x = key THEN n + 1 ELSE entries[x]]
    <3>1. This = n + 1
      BY <1>1 DEF This
    <3>. QED
      BY <3>1 DEF Enter
  <2>6. key \in ({Root(b) : b \in Blocks} \cup 1..(n + 1)) \X RawIds
    <3>1. Key(kind', l.id) \in RawIds
      BY LineType, KeyType
    <3>. QED
      BY <2>2, <3>1
  <2>7. DOMAIN entries' \subseteq ({Root(b) : b \in Blocks} \cup 1..(n + 1)) \X RawIds
    <3>1. \A x \in DOMAIN entries : x \in ({Root(b) : b \in Blocks} \cup 1..(n + 1)) \X RawIds
      BY <2>2, <2>4
    <3>. HIDE DEF key
    <3>. QED
      BY <2>5, <2>6, <3>1
  <2>8. \A x \in DOMAIN entries' : entries'[x] \in 1..(n + 1)
    <3>. HIDE DEF key
    <3>. QED
      BY <2>2, <2>4, <2>5
  <2>. QED
    BY <1>1, <2>3, <2>7, <2>8 DEF IdsTypeOK
<1>3. RememberedInv'
  <2>. SUFFICES ASSUME NEW b \in Blocks
                PROVE  /\ first'[b] = LastLine(LinesAt(b, 0))'
                       /\ second'[b] = LastLine(LinesAt(b, 1))'
    BY DEF RememberedInv
  <2>1. first[b] = LastLine(LinesAt(b, 0)) /\ second[b] = LastLine(LinesAt(b, 1))
    BY <1>1 DEF IdsInv, RememberedInv
  <2>2. first \in [Blocks -> 1..n \cup {nil}] /\ second \in [Blocks -> 1..n \cup {nil}]
    BY DEF IdsInv, IdsTypeOK
  <2>3. 0 \in Int /\ 1 \in Int
    OBVIOUS
  <2>4. /\ LastLine(LinesAt(b, 0))'
             = IF b = kind' /\ 0 = l.level THEN n + 1 ELSE LastLine(LinesAt(b, 0))
        /\ LastLine(LinesAt(b, 1))'
             = IF b = kind' /\ 1 = l.level THEN n + 1 ELSE LastLine(LinesAt(b, 1))
    BY <2>3, ReadRemembers
  <2>5. first'[b] = IF b = kind' /\ 0 = l.level THEN n + 1 ELSE first[b]
    BY <2>2
  <2>6. second'[b] = IF b = kind' /\ 1 = l.level THEN n + 1 ELSE second[b]
    BY <2>2
  <2>. QED
    BY <2>1, <2>4, <2>5, <2>6
<1>4. RefusedInv'
  BY <1>1 DEF RefusedInv
<1>5. HangsByLevel'
  <2>1. Parsed' = Parsed \cup {n + 1} /\ file'[n + 1] = l
    BY ReadLines, ReadFile DEF IdsInv
  <2>2. OneAbove(n + 1)' = LinesAt(kind', l.level - 1)
    BY ReadAbove DEF IdsInv
  <2>3. \A k \in Parsed' : file'[k].level <= 2 /\ (file'[k].level = 0 \/ OneAbove(k)' # {})
    BY <1>1, <2>1, <2>2
  <2>4. entries' = LastOf(Owners)'
    BY <1>1, ReadEnters DEF IdsInv, HangsByLevel
  <2>. QED
    BY <2>3, <2>4 DEF HangsByLevel
<1>. QED
  BY <1>1, <1>2, <1>3, <1>4, <1>5 DEF IdsInv
\* A longer file has more objects.
LEMMA LongerTypeOK ==
  ASSUME IdsTypeOK, NEW l \in Lines, Read(l), NEW n \in Nat, n = Len(file),
         file' \in Seq(Lines), Len(file') = n + 1, Len(file') <= MaxLines,
         kind' \in Kinds, status' \in {"read", "refused"},
         UNCHANGED <<first, second, entries>>
  PROVE  IdsTypeOK'
<1>1. 1..n \subseteq 1..(n + 1)
  OBVIOUS
<1>2. /\ first \in [Blocks -> 1..n \cup {nil}] /\ second \in [Blocks -> 1..n \cup {nil}]
      /\ DOMAIN entries \subseteq ({Root(b) : b \in Blocks} \cup 1..n) \X RawIds
      /\ \A x \in DOMAIN entries : entries[x] \in 1..n
  BY DEF IdsTypeOK
<1>3. /\ first' \in [Blocks -> 1..(n + 1) \cup {nil}]
      /\ second' \in [Blocks -> 1..(n + 1) \cup {nil}]
      /\ \A x \in DOMAIN entries' : entries'[x] \in 1..(n + 1)
  BY <1>1, <1>2
<1>4. DOMAIN entries' \subseteq ({Root(b) : b \in Blocks} \cup 1..(n + 1)) \X RawIds
  BY <1>1, <1>2
<1>. QED
  BY <1>3, <1>4 DEF IdsTypeOK

\* A line is not looked at.
LEMMA IgnoreKeeps ==
  ASSUME IdsInv, NEW l \in Lines, Ignore(l), NEW n, n = Len(file)
  PROVE  IdsInv'
<1>1. Read(l) /\ kind' \notin Blocks /\ UNCHANGED <<status, first, second, entries>>
  BY DEF Ignore
<1>2. /\ n \in Nat
      /\ file' \in Seq(Lines) /\ Len(file') = n + 1 /\ Len(file') <= MaxLines
      /\ kind' \in Kinds /\ kind' = KindOf(n + 1)'
      /\ status = "read" /\ status' = "read"
      /\ \A k \in Parsed : /\ file'[k].level <= 2
                           /\ file'[k].level = 0 \/ OneAbove(k)' # {}
  BY <1>1, ReadStep
<1>3. IdsTypeOK'
  BY <1>1, <1>2, LongerTypeOK DEF IdsInv
<1>4. Parsed' = Parsed
  BY <1>1, ReadLines DEF IdsInv
<1>5. RememberedInv'
  <2>. SUFFICES ASSUME NEW b \in Blocks
                PROVE  /\ first'[b] = LastLine(LinesAt(b, 0))'
                       /\ second'[b] = LastLine(LinesAt(b, 1))'
    BY DEF RememberedInv
  <2>1. first[b] = LastLine(LinesAt(b, 0)) /\ second[b] = LastLine(LinesAt(b, 1))
    BY <1>2 DEF IdsInv, RememberedInv
  <2>2. b # kind' /\ 0 \in Int /\ 1 \in Int
    BY <1>1
  <2>3. LinesAt(b, 0)' = LinesAt(b, 0) /\ LinesAt(b, 1)' = LinesAt(b, 1)
    BY <1>1, <2>2, ReadLines DEF IdsInv
  <2>. QED
    BY <1>1, <2>1, <2>3 DEF LastLine
<1>6. RefusedInv'
  BY <1>2 DEF RefusedInv
<1>7. entries' = LastOf(Owners)'
  BY <1>1, <1>2, ReadIgnores DEF IdsInv, HangsByLevel
<1>8. HangsByLevel'
  BY <1>2, <1>4, <1>7 DEF HangsByLevel
<1>. QED
  BY <1>2, <1>3, <1>5, <1>6, <1>8 DEF IdsInv

\* A line is refused: there is none of the level above.
LEMMA RefuseKeeps ==
  ASSUME IdsInv, NEW l \in Lines, Refuse(l), NEW n, n = Len(file)
  PROVE  IdsInv'
<1>1. /\ Read(l) /\ kind' \in Blocks /\ status' = "refused"
      /\ UNCHANGED <<first, second, entries>>
      /\ \/ l.level = 1 /\ first[kind'] = nil
         \/ l.level = 2 /\ second[kind'] = nil
         \/ l.level > 2
  BY DEF Refuse
<1>2. /\ n \in Nat
      /\ file' \in Seq(Lines) /\ Len(file') = n + 1 /\ Len(file') <= MaxLines
      /\ kind' \in Kinds /\ kind' = KindOf(n + 1)'
      /\ status = "read"
  BY <1>1, ReadStep
<1>3. IdsTypeOK'
  BY <1>1, <1>2, LongerTypeOK DEF IdsInv
<1>4. Parsed' = Parsed \cup {n + 1} /\ file'[n + 1] = l
  BY <1>1, ReadLines, ReadFile DEF IdsInv
<1>5. OneAbove(n + 1)' = LinesAt(kind', l.level - 1)
  BY <1>1, ReadAbove DEF IdsInv
<1>6. first[kind'] = LastLine(LinesAt(kind', 0)) /\ second[kind'] = LastLine(LinesAt(kind', 1))
  BY <1>1, <1>2 DEF IdsInv, RememberedInv
<1>7. l.level > 2 \/ (l.level > 0 /\ LinesAt(kind', l.level - 1) = {})
  <2>1. CASE l.level = 1 /\ first[kind'] = nil
    <3>1. LinesAt(kind', 0) = {}
      BY <1>1, <1>6, <2>1, LastLineHas DEF IdsInv
    <3>. QED
      BY <2>1, <3>1
  <2>2. CASE l.level = 2 /\ second[kind'] = nil
    <3>1. LinesAt(kind', 1) = {}
      BY <1>1, <1>6, <2>2, LastLineHas DEF IdsInv
    <3>. QED
      BY <2>2, <3>1
  <2>. QED
    BY <1>1, <2>1, <2>2
<1>8. RefusedInv'
  <2>1. \/ file'[n + 1].level > 2
        \/ file'[n + 1].level > 0 /\ OneAbove(n + 1)' = {}
    BY <1>4, <1>5, <1>7
  <2>2. RefusedInv' = (status' = "refused" =>
          /\ n + 1 \in Parsed'
          /\ \/ file'[n + 1].level > 2
             \/ file'[n + 1].level > 0 /\ OneAbove(n + 1)' = {})
    BY <1>2 DEF RefusedInv, OneAbove
  <2>. QED
    BY <1>4, <2>1, <2>2
<1>. QED
  BY <1>1, <1>2, <1>3, <1>8 DEF IdsInv, RememberedInv, HangsByLevel

\* What a line hangs on is what the parser remembers.
LEMMA ReadOwner ==
  ASSUME IdsInv, NEW l \in Lines, Read(l), kind' \in Blocks, NEW n, n = Len(file),
         status = "read"
  PROVE  /\ l.level = 0 => Owner(n + 1)' = Root(kind')
         /\ l.level = 1 /\ first[kind'] # nil =>
              /\ Owner(n + 1)' = first[kind'] /\ first[kind'] \in 1..n
              /\ LinesAt(kind', 0) # {}
         /\ l.level = 2 /\ second[kind'] # nil =>
              /\ Owner(n + 1)' = second[kind'] /\ second[kind'] \in 1..n
              /\ LinesAt(kind', 1) # {}
<1>1. file'[n + 1] = l /\ KindOf(n + 1)' = kind'
  BY ReadFile, ReadKind DEF IdsInv
<1>2. OneAbove(n + 1)' = LinesAt(kind', l.level - 1)
  BY ReadAbove DEF IdsInv
<1>3. Owner(n + 1)' = IF l.level = 0 THEN Root(kind') ELSE Max(LinesAt(kind', l.level - 1))
  BY <1>1, <1>2 DEF Owner
<1>4. first[kind'] = LastLine(LinesAt(kind', 0)) /\ second[kind'] = LastLine(LinesAt(kind', 1))
  BY DEF IdsInv, RememberedInv
<1>5. CASE l.level = 0
  BY <1>3, <1>5
<1>6. CASE l.level = 1
  <2>1. Owner(n + 1)' = Max(LinesAt(kind', 0))
    BY <1>3, <1>6
  <2>. QED
    BY <1>4, <1>6, <2>1, LastLineHas DEF IdsInv
<1>7. CASE l.level = 2
  <2>1. Owner(n + 1)' = Max(LinesAt(kind', 1))
    BY <1>3, <1>7
  <2>. QED
    BY <1>4, <1>7, <2>1, LastLineHas DEF IdsInv
<1>. QED
  BY <1>5, <1>6, <1>7

LEMMA ParseFirstKeeps ==
  ASSUME IdsInv, NEW l \in Lines, ParseFirst(l), NEW n, n = Len(file)
  PROVE  IdsInv'
<1>1. /\ Read(l) /\ kind' \in Blocks /\ l.level = 0 /\ status = "read"
      /\ first' = [first EXCEPT ![kind'] = n + 1]
      /\ Enter(Root(kind'), l.id) /\ UNCHANGED <<status, second>>
  BY ReadFile DEF ParseFirst, Read, This, IdsInv
<1>2. PICK super : super = Root(kind')
  OBVIOUS
<1>3. super = Owner(n + 1)' /\ super \in {Root(b) : b \in Blocks} \cup 1..n
  BY <1>1, <1>2, ReadOwner
<1>4. /\ l.level <= 2 /\ (l.level = 0 \/ LinesAt(kind', l.level - 1) # {})
      /\ first' = IF l.level = 0 THEN [first EXCEPT ![kind'] = n + 1] ELSE first
      /\ second' = IF l.level = 1 THEN [second EXCEPT ![kind'] = n + 1] ELSE second
  BY <1>1, <1>3
<1>. QED
  BY <1>1, <1>2, <1>3, <1>4, AcceptKeeps

LEMMA ParseSecondKeeps ==
  ASSUME IdsInv, NEW l \in Lines, ParseSecond(l), NEW n, n = Len(file)
  PROVE  IdsInv'
<1>1. /\ Read(l) /\ kind' \in Blocks /\ l.level = 1 /\ status = "read"
      /\ first[kind'] # nil
      /\ second' = [second EXCEPT ![kind'] = n + 1]
      /\ Enter(first[kind'], l.id) /\ UNCHANGED <<status, first>>
  BY ReadFile DEF ParseSecond, Remembered, Read, This, IdsInv
<1>2. PICK super : super = first[kind']
  OBVIOUS
<1>3. /\ super = Owner(n + 1)' /\ super \in {Root(b) : b \in Blocks} \cup 1..n
      /\ LinesAt(kind', l.level - 1) # {}
  BY <1>1, <1>2, ReadOwner
<1>4. /\ l.level <= 2 /\ (l.level = 0 \/ LinesAt(kind', l.level - 1) # {})
      /\ first' = IF l.level = 0 THEN [first EXCEPT ![kind'] = n + 1] ELSE first
      /\ second' = IF l.level = 1 THEN [second EXCEPT ![kind'] = n + 1] ELSE second
  BY <1>1, <1>3
<1>. QED
  BY <1>1, <1>2, <1>3, <1>4, AcceptKeeps

LEMMA ParseThirdKeeps ==
  ASSUME IdsInv, NEW l \in Lines, ParseThird(l), NEW n, n = Len(file)
  PROVE  IdsInv'
<1>1. /\ Read(l) /\ kind' \in Blocks /\ l.level = 2 /\ status = "read"
      /\ second[kind'] # nil
      /\ Enter(second[kind'], l.id) /\ UNCHANGED <<status, first, second>>
  BY DEF ParseThird, HasSecond, Read
<1>2. PICK super : super = second[kind']
  OBVIOUS
<1>3. /\ super = Owner(n + 1)' /\ super \in {Root(b) : b \in Blocks} \cup 1..n
      /\ LinesAt(kind', l.level - 1) # {}
  BY <1>1, <1>2, ReadOwner
<1>4. /\ l.level <= 2 /\ (l.level = 0 \/ LinesAt(kind', l.level - 1) # {})
      /\ first' = IF l.level = 0 THEN [first EXCEPT ![kind'] = n + 1] ELSE first
      /\ second' = IF l.level = 1 THEN [second EXCEPT ![kind'] = n + 1] ELSE second
  BY <1>1, <1>3
<1>. QED
  BY <1>1, <1>2, <1>3, <1>4, AcceptKeeps

\* The parser stops, or nothing happens.
LEMMA NoLineKeeps ==
  ASSUME IdsInv, UNCHANGED <<file, kind, first, second, entries>>,
         status' = status \/ (status = "read" /\ status' \in {"malformed", "done"})
  PROVE  IdsInv'
<1>1. IdsTypeOK'
  BY DEF IdsInv, IdsTypeOK
<1>2. \A k : KindOf(k)' = KindOf(k)
  BY DEF KindOf
<1>3. Parsed' = Parsed
  BY <1>2 DEF Parsed
<1>4. \A k : OneAbove(k)' = OneAbove(k)
  BY <1>2, <1>3 DEF OneAbove
<1>5. kind' = KindOf(Len(file))'
  BY DEF IdsInv, KindOf
<1>6. RememberedInv'
  BY <1>2, <1>3 DEF IdsInv, RememberedInv, LinesAt
<1>7. RefusedInv'
  BY <1>3 DEF IdsInv, RefusedInv, OneAbove, KindOf
<1>8. LastOf(Owners)' = LastOf(Owners)
  BY DEF LastOf, Owners, Owner, Place, Parsed, KindOf, OneAbove
<1>9. HangsByLevel'
  BY <1>3, <1>4, <1>8 DEF IdsInv, HangsByLevel
<1>. QED
  BY <1>1, <1>5, <1>6, <1>7, <1>9 DEF IdsInv

LEMMA IdsInitInv == IdsInit => IdsInv
<1>. SUFFICES ASSUME IdsInit
              PROVE  IdsInv
  OBVIOUS
<1>1. /\ status = "read" /\ file = <<>> /\ kind = "" /\ entries = [x \in {} |-> nil]
      /\ first = [b \in Blocks |-> nil] /\ second = [b \in Blocks |-> nil]
  BY DEF IdsInit
<1>2. file \in Seq(Lines) /\ Len(file) = 0 /\ DOMAIN file = {} /\ 0 <= MaxLines
  <2>1. 0 <= MaxLines
    BY UsbIdsAssumption
  <2>2. <<>> \in Seq(Lines) /\ Len(<<>>) = 0 /\ DOMAIN <<>> = {}
    BY EmptySeq
  <2>. QED
    BY <1>1, <2>1, <2>2
<1>3. Parsed = {}
  BY <1>2 DEF Parsed
<1>4. IdsTypeOK
  BY <1>1, <1>2 DEF IdsTypeOK, Kinds, Blocks
<1>5. KindOf(0) = ""
  BY DEF KindOf
<1>6. RememberedInv
  <2>1. \A b \in Blocks : LinesAt(b, 0) = {} /\ LinesAt(b, 1) = {}
    BY <1>3 DEF LinesAt
  <2>. QED
    BY <1>1, <2>1 DEF RememberedInv, LastLine
<1>7. HangsByLevel
  <2>1. {Place(Owners, k) : k \in Parsed} = {}
    BY <1>3
  <2>2. entries = LastOf(Owners)
    BY <1>1, <2>1 DEF LastOf
  <2>. QED
    BY <1>3, <2>2 DEF HangsByLevel
<1>. QED
  BY <1>1, <1>2, <1>4, <1>5, <1>6, <1>7 DEF IdsInv, RefusedInv

LEMMA IdsNextInv == IdsInv /\ [IdsNext]_idsVars => IdsInv'
<1>. SUFFICES ASSUME IdsInv, [IdsNext]_idsVars
              PROVE  IdsInv'
  OBVIOUS
<1>1. ASSUME NEW l \in Lines, ParseFirst(l) \/ ParseSecond(l) \/ ParseThird(l)
      PROVE  IdsInv'
  BY <1>1, ParseFirstKeeps, ParseSecondKeeps, ParseThirdKeeps
<1>2. ASSUME NEW l \in Lines, Refuse(l) \/ Ignore(l)
      PROVE  IdsInv'
  BY <1>2, RefuseKeeps, IgnoreKeeps
<1>3. CASE Malformed \/ EndOfFile
  BY <1>3, NoLineKeeps DEF Malformed, EndOfFile
<1>4. CASE UNCHANGED idsVars
  BY <1>4, NoLineKeeps DEF idsVars
<1>. QED
  BY <1>1, <1>2, <1>3, <1>4 DEF IdsNext

\* IdsInv is an invariant of the parser.
THEOREM IdsInvariant == IdsSpec => []IdsInv
BY IdsInitInv, IdsNextInv, PTL DEF IdsSpec

-----------------------------------------------------------------------------
(* What the file means. *)

\* Where each line of a well nested file stands is what the code hangs it on.
LEMMA NestedHas ==
  ASSUME IdsTypeOK, WellNested, NEW k \in Parsed
  PROVE  /\ file[k].level \in 0..2
         /\ file[k].level = 0 => Above(k) = {} /\ Parent(k) = Root(KindOf(k))
         /\ file[k].level > 0 =>
              /\ Parent(k) \in Parsed /\ Parent(k) < k /\ KindOf(Parent(k)) = KindOf(k)
              /\ file[Parent(k)].level = file[k].level - 1
              /\ Parent(k) \in OneAbove(k)
         /\ Parent(k) = Owner(k)
<1>1. Len(file) \in Nat /\ Parsed \in SUBSET (1..Len(file))
  BY FileType
<1>2. \A j \in Parsed : file[j].level \in 0..3
  BY ParsedHas
<1>3. /\ file[k].level <= 2
      /\ IF Above(k) = {} THEN file[k].level = 0
                          ELSE file[k].level = file[Max(Above(k))].level + 1
  BY DEF WellNested
<1>4. Above(k) \in SUBSET (1..Len(file))
  BY <1>1 DEF Above
<1>5. CASE Above(k) = {}
  BY <1>2, <1>3, <1>5 DEF Parent, Owner
<1>6. CASE Above(k) # {}
  <2>1. PICK m : m = Max(Above(k))
    OBVIOUS
  <2>2. m \in Above(k) /\ \A j \in Above(k) : j <= m
    BY <1>1, <1>4, <1>6, <2>1, LastHas
  <2>3. /\ m \in Parsed /\ m < k /\ KindOf(m) = KindOf(k)
        /\ file[m].level = file[k].level - 1 /\ file[k].level > 0
    BY <1>2, <1>3, <1>6, <2>1, <2>2 DEF Above
  <2>4. m \in OneAbove(k)
    BY <2>3 DEF OneAbove
  <2>5. \A j \in OneAbove(k) : j \in Above(k)
    BY <1>2 DEF OneAbove, Above
  <2>6. Max(OneAbove(k)) = m
    <3>1. OneAbove(k) \in SUBSET Int /\ \A j \in OneAbove(k) : j <= m
      BY <1>4, <2>2, <2>5
    <3>. QED
      BY <2>4, <3>1, GreatestIsMax
  <2>. QED
    BY <1>2, <1>3, <1>6, <2>1, <2>3, <2>4, <2>6 DEF Parent, Owner
<1>. QED
  BY <1>5, <1>6

LEMMA IdsInvMatches == IdsInv => MapsMatchFile
<1>. SUFFICES ASSUME IdsInv, status \in {"done", "refused"}, WellNested
              PROVE  status = "done" /\ entries = LastOf(Parents)
  BY DEF MapsMatchFile
<1>. USE DEF IdsInv
<1>1. status # "refused"
  <2>. SUFFICES ASSUME status = "refused" PROVE FALSE
    OBVIOUS
  <2>1. PICK k : k = Len(file)
    OBVIOUS
  <2>2. k \in Parsed /\ (file[k].level > 2 \/ (file[k].level > 0 /\ OneAbove(k) = {}))
    BY <2>1 DEF RefusedInv
  <2>3. file[k].level \in 0..2 /\ (file[k].level > 0 => Parent(k) \in OneAbove(k))
    BY <2>2, NestedHas
  <2>. QED
    BY <2>2, <2>3
<1>2. Parents = Owners
  BY NestedHas DEF Parents, Owners
<1>. QED
  BY <1>1, <1>2 DEF HangsByLevel

-----------------------------------------------------------------------------
(* The names of a path. *)

\* f is path as far as the first n ids.
FindsPath(f, block, ids, n) ==
    f = [m \in 0..n |-> IF m = 0 THEN Root(block) ELSE Below(Under(f, m), ids[m])]

LEMMA LookupsFind ==
  ASSUME NEW block, NEW ids, NEW N \in Nat, Len(ids) = N
  PROVE  FindsPath(Lookups(block, ids), block, ids, N)
<1>. DEFINE Without == {n \in Nat : ~\E f : FindsPath(f, block, ids, n)}
<1>1. Without = {}
  <2>. SUFFICES ASSUME Without # {} PROVE FALSE
    OBVIOUS
  <2>1. PICK n \in Without : \A m \in Without : n <= m
    BY LeastNat
  <2>2. n # 0
    <3>. DEFINE f == [m \in 0..0 |-> Root(block)]
    <3>1. FindsPath(f, block, ids, 0)
      BY DEF FindsPath
    <3>. QED
      BY <3>1
  <2>3. PICK f : FindsPath(f, block, ids, n - 1)
    BY <2>1, <2>2
  <2>. DEFINE g == [m \in 0..n |-> IF m = n THEN Below(f[n - 1], ids[n]) ELSE f[m]]
  <2>4. FindsPath(g, block, ids, n)
    <3>1. ASSUME NEW m \in 0..n
          PROVE  g[m] = IF m = 0 THEN Root(block) ELSE Below(Under(g, m), ids[m])
      BY <2>2, <2>3, <3>1 DEF FindsPath, Under
    <3>. QED
      BY <3>1 DEF FindsPath
  <2>. QED
    BY <2>1, <2>4
<1>2. \E f : FindsPath(f, block, ids, N)
  BY <1>1
<1>. QED
  BY <1>2 DEF Lookups, FindsPath

\* path is what Lookups gives: each object is found below the one before.
IsLookups(path, block, ids, N) ==
    /\ path = Lookups(block, ids)
    /\ path[0] = Root(block)
    /\ \A m \in 1..N : path[m] = Below(path[m - 1], ids[m])

LEMMA LookupsHas ==
  ASSUME NEW block, NEW ids, NEW N \in Nat, Len(ids) = N
  PROVE  \E path : IsLookups(path, block, ids, N)
<1>1. PICK path : path = Lookups(block, ids)
  OBVIOUS
<1>2. path = [m \in 0..N |-> IF m = 0 THEN Root(block) ELSE Below(Under(path, m), ids[m])]
  BY <1>1, LookupsFind DEF FindsPath
<1>3. path[0] = Root(block)
  BY <1>2
<1>4. \A m \in 1..N : path[m] = Below(path[m - 1], ids[m])
  <2>1. \A m \in 1..N : m \in 0..N /\ m # 0
    OBVIOUS
  <2>2. \A m \in 1..N : path[m] = Below(Under(path, m), ids[m])
    BY <1>2, <2>1
  <2>. QED
    BY <2>2 DEF Under
<1>. QED
  BY <1>1, <1>3, <1>4 DEF IsLookups

\* What is found below an object is the last of the lines that stand there.
LEMMA BelowIs ==
  ASSUME IdsTypeOK, entries = LastOf(Parents), NEW object, NEW id, NEW S,
         S = {k \in Parsed : Place(Parents, k) = <<object, id>>}
  PROVE  /\ S = {} => Below(object, id) = nil
         /\ S # {} => Below(object, id) = Max(S) /\ Max(S) # nil
<1>. DEFINE x == <<object, id>>
            places == {Place(Parents, k) : k \in Parsed}
<1>1. Len(file) \in Nat /\ Parsed \in SUBSET (1..Len(file))
  BY FileType
<1>2. DOMAIN entries = places
  BY DEF LastOf
<1>3. CASE S = {}
  <2>1. x \notin places
    BY <1>3
  <2>. QED
    BY <1>2, <1>3, <2>1 DEF Below
<1>4. CASE S # {}
  <2>1. x \in places
    BY <1>4
  <2>2. entries[x] = Max(S)
    BY <2>1 DEF LastOf
  <2>3. Max(S) \in 1..Len(file)
    BY <1>1, <1>4, LastHas
  <2>. QED
    BY <1>2, <1>4, <2>1, <2>2, <2>3 DEF Below, nil
<1>. QED
  BY <1>3, <1>4

\* The names are those of the objects looked up, as far as there are any.
AreNames(names, path, N) ==
    /\ DOMAIN names = {n \in 1..N : \A m \in 1..n : path[m] # nil}
    /\ \A n \in DOMAIN names : names[n] = path[n]

LEMMA NamedHas ==
  ASSUME NEW block, NEW ids, NEW N \in Nat, Len(ids) = N,
         NEW path, IsLookups(path, block, ids, N)
  PROVE  AreNames(Named(block, ids), path, N)
BY DEF IsLookups, Named, AreNames

LEMMA NamedFollows ==
  ASSUME IdsTypeOK, entries = LastOf(Parents),
         NEW block, NEW ids, NEW N \in Nat, Len(ids) = N
  PROVE  FollowsFile(block, ids, Named(block, ids))
<1>1. PICK path : IsLookups(path, block, ids, N)
  BY LookupsHas
<1>2. PICK names : names = Named(block, ids)
  OBVIOUS
<1>3. /\ DOMAIN names = {n \in 1..N : \A m \in 1..n : path[m] # nil}
      /\ \A n \in DOMAIN names : names[n] = path[n]
  <2>1. AreNames(names, path, N)
    BY <1>1, <1>2, NamedHas
  <2>. QED
    BY <2>1 DEF AreNames
\* Above the n-th name is what was named before, and path has the last line there.
<1>4. ASSUME NEW n \in 1..N, n > 1 => n - 1 \in DOMAIN names
      PROVE  LET S == Listed(block, ids, names, n) IN
             /\ S = {} => path[n] = nil
             /\ S # {} => path[n] = Max(S) /\ path[n] # nil
  <2>1. PICK above : above = IF n = 1 THEN Root(block) ELSE names[n - 1]
    OBVIOUS
  <2>2. above = path[n - 1]
    <3>1. CASE n = 1
      BY <1>1, <2>1, <3>1 DEF IsLookups
    <3>2. CASE n # 1
      BY <1>3, <1>4, <2>1, <3>2
    <3>. QED
      BY <3>1, <3>2
  <2>3. path[n] = Below(above, ids[n])
    BY <1>1, <2>2 DEF IsLookups
  <2>4. PICK S : S = Listed(block, ids, names, n)
    OBVIOUS
  <2>5. S = {k \in Parsed : Place(Parents, k) = <<above, ids[n]>>}
    BY <2>1, <2>4 DEF Listed
  <2>6. /\ S = {} => Below(above, ids[n]) = nil
        /\ S # {} => Below(above, ids[n]) = Max(S) /\ Max(S) # nil
    BY <2>5, BelowIs
  <2>. QED
    BY <2>3, <2>4, <2>6
<1>5. ASSUME NEW n \in 1..N
      PROVE  n \in DOMAIN names <=> (n > 1 => n - 1 \in DOMAIN names) /\ path[n] # nil
  <2>1. n > 1 => n - 1 \in 1..N
    OBVIOUS
  <2>2. \A m \in 1..n : m = n \/ (n > 1 /\ m \in 1..n - 1)
    OBVIOUS
  <2>3. \A m \in 1..n - 1 : m \in 1..n
    OBVIOUS
  <2>. QED
    BY <1>3, <2>1, <2>2, <2>3
<1>6. ASSUME NEW n \in 1..N
      PROVE  n \in DOMAIN names <=> /\ n > 1 => n - 1 \in DOMAIN names
                                    /\ Listed(block, ids, names, n) # {}
  BY <1>4, <1>5
<1>7. ASSUME NEW n \in DOMAIN names
      PROVE  names[n] = Max(Listed(block, ids, names, n))
  <2>1. n \in 1..N
    BY <1>3
  <2>2. (n > 1 => n - 1 \in DOMAIN names) /\ path[n] # nil
    BY <1>5, <2>1
  <2>3. path[n] = Max(Listed(block, ids, names, n))
    BY <1>4, <2>1, <2>2
  <2>. QED
    BY <1>3, <2>3
<1>8. DOMAIN names \subseteq 1..Len(ids)
  BY <1>3
<1>9. FollowsFile(block, ids, names)
  BY <1>6, <1>7, <1>8 DEF FollowsFile
<1>. QED
  BY <1>2, <1>9

LEMMA IdsInvNames == IdsInv => NamesMatchFile
<1>. SUFFICES ASSUME IdsInv, status = "done", WellNested
              PROVE  /\ \A vendor, product \in Keys("") :
                          FollowsFile("", <<vendor, product>>, Describe(vendor, product))
                     /\ \A class, subclass, protocol \in Keys("C") :
                          FollowsFile("C", <<class, subclass, protocol>>,
                                      Classify(class, subclass, protocol))
  BY DEF NamesMatchFile
<1>1. IdsTypeOK /\ entries = LastOf(Parents)
  BY IdsInvMatches DEF IdsInv, MapsMatchFile
<1>2. ASSUME NEW vendor \in Keys(""), NEW product \in Keys("")
      PROVE  FollowsFile("", <<vendor, product>>, Describe(vendor, product))
  <2>1. PICK ids : ids = <<vendor, product>>
    OBVIOUS
  <2>2. 2 \in Nat /\ Len(ids) = 2
    BY <2>1
  <2>3. FollowsFile("", ids, Named("", ids))
    BY <1>1, <2>2, NamedFollows
  <2>. QED
    BY <2>1, <2>3 DEF Describe
<1>3. ASSUME NEW class \in Keys("C"), NEW subclass \in Keys("C"), NEW protocol \in Keys("C")
      PROVE  FollowsFile("C", <<class, subclass, protocol>>, Classify(class, subclass, protocol))
  <2>1. PICK ids : ids = <<class, subclass, protocol>>
    OBVIOUS
  <2>2. 3 \in Nat /\ Len(ids) = 3
    BY <2>1
  <2>3. FollowsFile("C", ids, Named("C", ids))
    BY <1>1, <2>2, NamedFollows
  <2>. QED
    BY <2>1, <2>3 DEF Classify
<1>. QED
  BY <1>2, <1>3

-----------------------------------------------------------------------------
(* Theorems. *)

\* Type correctness: every entry is a line, below a map or a line, under a 16-bit id.
THEOREM IdsTypeCorrect == IdsSpec => []IdsTypeOK
<1>1. IdsInv => IdsTypeOK
  BY DEF IdsInv
<1>. QED
  BY <1>1, IdsInvariant, PTL

\* For files of any length, each line that is accepted hangs on the last line one level
\* up, and there is one, although the parser only remembers two lines of each block.
THEOREM IdsHangsByLevel == IdsSpec => []HangsByLevel
<1>1. IdsInv => HangsByLevel
  BY DEF IdsInv
<1>. QED
  BY <1>1, IdsInvariant, PTL

\* ParseIDs accepts every well nested file, of any length, and its maps are what the
\* indentation means.
THEOREM IdsMapsMatchFile == IdsSpec => []MapsMatchFile
BY IdsInvMatches, IdsInvariant, PTL

\* For well nested files of any length and all identifiers, Describe and Classify give
\* exactly the vendor and product, or class, subclass and protocol, that the indentation
\* of the file has for them.
THEOREM IdsNamesMatchFile == IdsSpec => []NamesMatchFile
BY IdsInvNames, IdsInvariant, PTL
=============================================================================
