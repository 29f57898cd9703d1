--------------------------- MODULE SessionProofs ----------------------------
(***************************************************************************)
(* Session for any number of devices, transfers and transfers of a stream: *)
(* nothing that is open is lost, and no Close takes from a transfer what   *)
(* it needs while somebody waits for it.                                   *)
(***************************************************************************)
EXTENDS Session, FiniteSetTheorems, TLAPS

(* The inductive invariant. *)

\* The Devices: who has them, who gets them, and what they keep open.
ListInv ==
    /\ DevicesAreHeld
    /\ \A o \in devices : Open(o)
    /\ devices # {} => ctx
    /\ held \cap list.ret = {}
    /\ pc = "list" =>
         /\ ctx
         /\ list.todo \cap list.deferred = {}
         /\ list.todo \cup list.deferred = (IF discovery THEN UsbDevices ELSE {})
         /\ list.one => \A o, p \in list.ret : o = p
         /\ list.one /\ list.ret # {} => list.found
    /\ pc # "list" => list = NoList

\* Interface, Config and Device: each is open only above one that is open.
TreeInv ==
    /\ config \subseteq held
    /\ intf \subseteq config
    /\ heldIntf = intf
    /\ pc # "default" => heldCfg = config
    /\ pc = "default" => on \in config \ intf /\ heldCfg = config \ {on}

\* Every transfer is somewhere, and in one place only.
PlaceInv ==
    /\ ts \cap stream = {}
    /\ (ts \cup stream) \cap garbage = {}
    /\ fin \notin ts \cup stream \cup garbage
    /\ \A t \in Transfers : phase[t] # "none" <=> t \in ts \cup stream \cup garbage \cup {fin}

\* The interface of a call and that of a stream are held, so not closed, and
\* their transfers use the handle of its device.
UserInv ==
    /\ pc \in {"idle", "list", "default"} => ts = {}
    /\ pc \in {"alloc", "submit", "wait", "flush"} => on \in heldIntf
    /\ streamOn # None => streamOn \in heldIntf
    /\ pc \in {"alloc", "submit"} => streamOn = None
    /\ streamOn = None /\ pc # "submit" => stream = {}
    /\ pc = "flush" => on = streamOn
    /\ \A t \in ts : owner[t] = on
    /\ \A t \in stream : owner[t] = IF pc = "submit" THEN on ELSE streamOn

IInv ==
    /\ TypeOK
    /\ ListInv
    /\ TreeInv
    /\ PlaceInv
    /\ UserInv

-----------------------------------------------------------------------------
(* Counting references. *)

\* The objects with a handle on device u.
Handles(h, u) == {o \in Objects : h[o] = u}

\* A device is referenced by its handles and n times more.
Counted(r, h, n) ==
    /\ r \in [UsbDevices -> Int]
    /\ \A u \in UsbDevices : r[u] = Cardinality(Handles(h, u)) + n

Listing == IF pc = "list" /\ discovery THEN 1 ELSE 0

\* There are never more handles than objects.
LEMMA HandlesFinite ==
  ASSUME NEW h, NEW u
  PROVE  IsFiniteSet(Handles(h, u)) /\ Cardinality(Handles(h, u)) \in 0..MaxOpens
<1>1. IsFiniteSet(Objects) /\ Cardinality(Objects) = MaxOpens
  BY FS_Interval, DeviceListAssumption DEF Objects
<1>2. Handles(h, u) \subseteq Objects
  BY DEF Handles
<1>3. IsFiniteSet(Handles(h, u)) /\ Cardinality(Handles(h, u)) <= MaxOpens
  BY <1>1, <1>2, FS_Subset
<1>. QED
  BY <1>3, FS_CardinalityType, DeviceListAssumption

\* The type that ListTypeOK gives the references follows from the count.
LEMMA CountedBounds ==
  ASSUME NEW r, NEW h, NEW n \in {0, 1}, Counted(r, h, n)
  PROVE  r \in [UsbDevices -> 0..MaxOpens + 1]
<1>1. ASSUME NEW u \in UsbDevices PROVE r[u] \in 0..MaxOpens + 1
  BY HandlesFinite, DeviceListAssumption DEF Counted
<1>. QED
  BY <1>1 DEF Counted

\* What DevicesAreHeld says of the references, before and after a step.
LEMMA References ==
  ASSUME TypeOK, DevicesAreHeld
  PROVE  Counted(refs, handle, Listing)
BY DeviceListAssumption DEF TypeOK, ListTypeOK, DevicesAreHeld, Counted, Handles, Listing

LEMMA ReferencesNext ==
  ASSUME Counted(refs', handle', Listing')
  PROVE  /\ refs' \in [UsbDevices -> 0..MaxOpens + 1]
         /\ devices' = held' \cup list'.ret /\ (discovery' => Leaked' = {}) => DevicesAreHeld'
<1>1. Listing' \in {0, 1}
  BY DEF Listing
<1>2. refs' \in [UsbDevices -> 0..MaxOpens + 1]
  BY <1>1, CountedBounds
<1>. QED
  BY <1>2 DEF DevicesAreHeld, Counted, Handles, Listing

\* A call of libusb_open uses no object that is open.
LEMMA NewObjectIsClosed ==
  ASSUME MayOpen
  PROVE  NewObject \in Objects /\ ~Open(NewObject)
BY DEF MayOpen, NewObject

\* libusb_open adds a handle, and a reference, to one device only.
LEMMA LibOpenCounts ==
  ASSUME ListTypeOK, MayOpen, NEW u \in UsbDevices, LibOpen(u),
         NEW n \in {0, 1}, Counted(refs, handle, n)
  PROVE  /\ Counted(refs', handle', n)
         /\ handle' \in [Objects -> UsbDevices \cup {NULL}]
         /\ handle'[NewObject] # NULL
         /\ \A p \in Objects \ {NewObject} : handle'[p] = handle[p]
<1> DEFINE o == NewObject
<1>1. o \in Objects /\ handle[o] = NULL
  BY NewObjectIsClosed DEF Open
<1>2. handle' = [handle EXCEPT ![o] = u] /\ refs' = [refs EXCEPT ![u] = @ + 1]
  BY DEF LibOpen
<1> HIDE DEF o
<1>3. handle' \in [Objects -> UsbDevices \cup {NULL}] /\ refs' \in [UsbDevices -> Int]
  BY <1>1, <1>2, DeviceListAssumption DEF ListTypeOK
<1>4. ASSUME NEW v \in UsbDevices
      PROVE  refs'[v] = Cardinality(Handles(handle', v)) + n
  <2>0. IsFiniteSet(Handles(handle, v)) /\ Cardinality(Handles(handle, v)) \in Int
          /\ refs[v] = Cardinality(Handles(handle, v)) + n
    BY HandlesFinite DEF Counted
  <2>1. CASE v = u
    <3>1. Handles(handle', v) = Handles(handle, v) \cup {o} /\ o \notin Handles(handle, v)
      BY <1>1, <1>2, <2>1, DeviceListAssumption DEF Handles, ListTypeOK
    <3>2. Cardinality(Handles(handle', v)) = Cardinality(Handles(handle, v)) + 1
      BY <2>0, <3>1, FS_AddElement
    <3>3. refs'[v] = refs[v] + 1
      BY <1>2, <2>1 DEF ListTypeOK
    <3>. QED
      BY <2>0, <3>2, <3>3
  <2>2. CASE v # u
    <3>1. Handles(handle', v) = Handles(handle, v)
      BY <1>1, <1>2, <2>2, DeviceListAssumption DEF Handles, ListTypeOK
    <3>2. refs'[v] = refs[v]
      BY <1>2, <2>2 DEF ListTypeOK
    <3>. QED
      BY <2>0, <3>1, <3>2
  <2>. QED
    BY <2>1, <2>2
<1>5. handle'[o] # NULL /\ \A p \in Objects \ {o} : handle'[p] = handle[p]
  BY <1>1, <1>2, DeviceListAssumption DEF ListTypeOK
<1>. QED
  BY <1>3, <1>4, <1>5 DEF Counted, o

\* libusb_close takes both away.
LEMMA CloseCounts ==
  ASSUME ListTypeOK, NEW o \in Objects, Open(o), closeDev(o),
         NEW n \in {0, 1}, Counted(refs, handle, n)
  PROVE  /\ Counted(refs', handle', n)
         /\ handle' \in [Objects -> UsbDevices \cup {NULL}]
         /\ handle'[o] = NULL
         /\ \A p \in Objects \ {o} : handle'[p] = handle[p]
<1> DEFINE u == handle[o]
<1>1. u \in UsbDevices
  BY DEF Open, ListTypeOK
<1>2. handle' = [handle EXCEPT ![o] = NULL] /\ refs' = [refs EXCEPT ![u] = @ - 1]
  BY DEF closeDev
<1>3. handle' \in [Objects -> UsbDevices \cup {NULL}] /\ refs' \in [UsbDevices -> Int]
  BY <1>1, <1>2, DeviceListAssumption DEF ListTypeOK
<1>4. ASSUME NEW v \in UsbDevices
      PROVE  refs'[v] = Cardinality(Handles(handle', v)) + n
  <2>0. IsFiniteSet(Handles(handle, v)) /\ Cardinality(Handles(handle, v)) \in Int
          /\ refs[v] = Cardinality(Handles(handle, v)) + n
    BY HandlesFinite DEF Counted
  <2>1. CASE v = u
    <3>1. Handles(handle', v) = Handles(handle, v) \ {o} /\ o \in Handles(handle, v)
      BY <1>1, <1>2, <2>1, DeviceListAssumption DEF Handles, ListTypeOK
    <3>2. Cardinality(Handles(handle', v)) = Cardinality(Handles(handle, v)) - 1
      BY <2>0, <3>1, FS_RemoveElement
    <3>3. refs'[v] = refs[v] - 1
      BY <1>2, <2>1 DEF ListTypeOK
    <3>. QED
      BY <2>0, <3>2, <3>3
  <2>2. CASE v # u
    <3>1. Handles(handle', v) = Handles(handle, v)
      BY <1>1, <1>2, <2>2, DeviceListAssumption DEF Handles, ListTypeOK
    <3>2. refs'[v] = refs[v]
      BY <1>2, <2>2 DEF ListTypeOK
    <3>. QED
      BY <2>0, <3>1, <3>2
  <2>. QED
    BY <2>1, <2>2
<1>5. handle'[o] = NULL /\ \A p \in Objects \ {o} : handle'[p] = handle[p]
  BY <1>2 DEF ListTypeOK
<1>. QED
  BY <1>3, <1>4, <1>5 DEF Counted

-----------------------------------------------------------------------------
(* The inductive invariant holds initially ... *)

\* A Context that was just made has no Devices, transfers or calls.
LEMMA InitIInv == Init => IInv
<1> SUFFICES ASSUME Init PROVE IInv
  OBVIOUS
<1>1. ListInit /\ list = NoList /\ pc = "idle"
  BY DEF Init, ListInit
<1>2. ListTypeOK
  BY <1>1, DeviceListAssumption DEF ListInit, ListTypeOK, NoList
<1>3. TypeOK
  BY <1>1, <1>2 DEF Init, TypeOK, Answers
<1>4. \A u \in UsbDevices : Handles(handle, u) = {} /\ refs[u] = 0
  BY <1>1, DeviceListAssumption DEF ListInit, Handles
<1>5. DevicesAreHeld
  <2>1. \A u \in UsbDevices : refs[u] = Cardinality(Handles(handle, u)) + 0
    BY <1>4, FS_EmptySet
  <2>2. Leaked = {}
    BY <1>1 DEF ListInit, Leaked, Open
  <2>. QED
    BY <1>1, <2>1, <2>2 DEF DevicesAreHeld, ListInit, NoList, Handles
<1>6. ListInv
  BY <1>1, <1>5 DEF ListInit, ListInv, NoList
<1>7. TreeInv /\ PlaceInv /\ UserInv
  BY <1>1 DEF Init, ListInit, TreeInv, PlaceInv, UserInv, None, Transfers
<1>. QED
  BY <1>3, <1>6, <1>7 DEF IInv

-----------------------------------------------------------------------------
(* ... and is kept by every step.  First, what the steps of DeviceList do. *)

\* What an opening step leaves alone.
Rest == <<objectVars, xferVars, on, ts, streamVars, garbage, fin>>

\* The rest of the invariant is not disturbed by a step that opens Devices.
LEMMA RestKeeps ==
  ASSUME IInv, UNCHANGED Rest, held \subseteq held',
         pc \in {"idle", "list"}, pc' \in {"idle", "list"}
  PROVE  TreeInv' /\ PlaceInv' /\ UserInv'
<1>1. UNCHANGED <<config, intf, heldCfg, heldIntf, phase, owner, cancel, on, ts,
                  stream, streamOn, closed, garbage, fin>>
  BY DEF Rest, objectVars, xferVars, streamVars
<1>2. TreeInv'
  BY <1>1 DEF IInv, TreeInv
<1>3. PlaceInv'
  BY <1>1 DEF IInv, PlaceInv
<1>4. UserInv'
  BY <1>1 DEF IInv, UserInv
<1>. QED
  BY <1>2, <1>3, <1>4

\* ... nor is its type.
LEMMA TypeKeeps ==
  ASSUME TypeOK, UNCHANGED Rest, ListTypeOK', pc' \in {"idle", "list"}
  PROVE  TypeOK'
BY DEF TypeOK, Rest, objectVars, xferVars, streamVars

\* getDevices takes a reference to every device of the list, and of no list.
LEMMA ListDevicesKeeps ==
  ASSUME IInv, ListDevices, UNCHANGED Rest
  PROVE  IInv'
<1> DEFINE listed == IF discovery THEN UsbDevices ELSE {}
<1>1. PICK one \in BOOLEAN : list' = [NoList EXCEPT !.todo = listed, !.one = one]
  BY DEF ListDevices
<1>2. /\ pc = "idle" /\ ctx /\ pc' = "list"
      /\ UNCHANGED <<ctx, discovery, handle, devices, held>>
      /\ refs' = [u \in UsbDevices |-> IF u \in listed THEN refs[u] + 1 ELSE refs[u]]
  BY DEF ListDevices
<1>3. list' = [todo |-> listed, deferred |-> {}, one |-> one, found |-> FALSE, ret |-> {}]
  BY <1>1 DEF NoList
<1>4. list = NoList
  BY <1>2 DEF IInv, ListInv
<1>5. Counted(refs', handle', Listing')
  <2>1. Counted(refs, handle, 0)
    BY <1>2, References DEF IInv, ListInv, Listing
  <2>2. Listing' = IF discovery THEN 1 ELSE 0
    BY <1>2 DEF Listing
  <2>3. ASSUME NEW u \in UsbDevices
        PROVE  refs'[u] = Cardinality(Handles(handle', u)) + Listing'
    BY <1>2, <2>1, <2>2, <2>3, HandlesFinite DEF Counted
  <2>4. refs' \in [UsbDevices -> Int]
    BY <1>2, <2>1 DEF Counted
  <2>. QED
    BY <2>3, <2>4 DEF Counted
<1>6. TypeOK'
  <2>1. ListTypeOK'
    BY <1>2, <1>3, <1>5, ReferencesNext DEF IInv, TypeOK, ListTypeOK
  <2>. QED
    BY <1>2, <2>1, TypeKeeps DEF IInv
<1>7. DevicesAreHeld'
  <2>1. devices' = held' \cup list'.ret /\ (discovery' => Leaked' = {})
    BY <1>2, <1>3, <1>4 DEF IInv, ListInv, DevicesAreHeld, NoList, Leaked, Open
  <2>. QED
    BY <1>5, <2>1, ReferencesNext
<1>8. ListInv'
  BY <1>2, <1>3, <1>7 DEF IInv, ListInv, Open
<1>. QED
  BY <1>2, <1>6, <1>8, RestKeeps DEF IInv

\* A visit puts the device from the devices to do to those to dereference.
ListGoesOn(found, ret) ==
    /\ ctx /\ pc = "list" /\ pc' = "list"
    /\ UNCHANGED <<ctx, discovery, held>>
    /\ list' \in [todo : SUBSET UsbDevices, deferred : SUBSET UsbDevices,
                  one : BOOLEAN, found : BOOLEAN, ret : SUBSET Objects]
    /\ list'.todo \cap list'.deferred = {}
    /\ list'.todo \cup list'.deferred = (IF discovery THEN UsbDevices ELSE {})
    /\ list'.one = list.one /\ list'.ret = list.ret \cup ret
    /\ list'.found = (list.found \/ (found /\ list.one))

LEMMA VisitedKeeps ==
  ASSUME IInv, NEW u \in UsbDevices, NEW described, NEW found \in BOOLEAN,
         NEW ret \in SUBSET Objects, Visited(u, described, found, ret)
  PROVE  ListGoesOn(found, ret)
<1>1. list \in [todo : SUBSET UsbDevices, deferred : SUBSET UsbDevices,
               one : BOOLEAN, found : BOOLEAN, ret : SUBSET Objects]
  BY DEF IInv, TypeOK, ListTypeOK
<1>2. /\ u \in list.todo
      /\ list' = [list EXCEPT !.todo = list.todo \ {u}, !.deferred = list.deferred \cup {u},
                             !.found = list.found \/ (found /\ list.one),
                             !.ret = list.ret \cup ret]
  BY DEF Visited, Deferred
<1>3. /\ list'.todo = list.todo \ {u} /\ list'.deferred = list.deferred \cup {u}
      /\ list'.one = list.one /\ list'.ret = list.ret \cup ret
      /\ list'.found = (list.found \/ (found /\ list.one))
  BY <1>1, <1>2
<1>4. list' \in [todo : SUBSET UsbDevices, deferred : SUBSET UsbDevices,
                one : BOOLEAN, found : BOOLEAN, ret : SUBSET Objects]
  BY <1>1, <1>2
<1>5. /\ ctx /\ list.todo \cap list.deferred = {}
      /\ list.todo \cup list.deferred = (IF discovery THEN UsbDevices ELSE {})
  BY DEF IInv, ListInv, Visited
<1>6. /\ list'.todo \cap list'.deferred = {}
      /\ list'.todo \cup list'.deferred = (IF discovery THEN UsbDevices ELSE {})
  BY <1>2, <1>3, <1>5
<1>. QED
  BY <1>3, <1>4, <1>5, <1>6 DEF Visited, ListGoesOn

LEMMA PassDeviceKeeps ==
  ASSUME IInv, NEW u \in UsbDevices, PassDevice(u), UNCHANGED Rest
  PROVE  IInv'
<1>1. PICK described \in BOOLEAN, found \in BOOLEAN : Visited(u, described, found, {})
  BY DEF PassDevice
<1>2. UNCHANGED <<handle, refs, devices>>
  BY DEF PassDevice
<1>3. /\ ctx /\ pc = "list" /\ pc' = "list"
      /\ UNCHANGED <<ctx, discovery, held>>
      /\ list' \in [todo : SUBSET UsbDevices, deferred : SUBSET UsbDevices,
                    one : BOOLEAN, found : BOOLEAN, ret : SUBSET Objects]
      /\ list'.todo \cap list'.deferred = {}
      /\ list'.todo \cup list'.deferred = (IF discovery THEN UsbDevices ELSE {})
      /\ list'.one = list.one /\ list'.ret = list.ret
      /\ list.found => list'.found
  <2>1. ListGoesOn(found, {})
    BY <1>1, VisitedKeeps
  <2>2. list.found \in BOOLEAN
    BY DEF IInv, TypeOK, ListTypeOK
  <2>. QED
    BY <2>1, <2>2 DEF ListGoesOn
<1>4. TypeOK'
  <2>1. ListTypeOK'
    BY <1>2, <1>3 DEF IInv, TypeOK, ListTypeOK
  <2>. QED
    BY <1>3, <2>1, TypeKeeps DEF IInv
<1>5. DevicesAreHeld'
  BY <1>2, <1>3 DEF IInv, ListInv, DevicesAreHeld, Leaked, Open
<1>6. ListInv'
  BY <1>2, <1>3, <1>5 DEF IInv, ListInv, Open
<1>. QED
  BY <1>3, <1>4, <1>6, RestKeeps DEF IInv

\* The new object is none that is open, so none of c.devices; it is the only one
\* that OpenDeviceWithVIDPID opens, as found says.
LEMMA OpenDeviceKeeps ==
  ASSUME IInv, NEW u \in UsbDevices, OpenDevice(u), UNCHANGED Rest
  PROVE  IInv'
<1> DEFINE o == NewObject
<1>1. /\ MayOpen /\ Accepts /\ LibOpen(u)
      /\ devices' = devices \cup {o}
      /\ Visited(u, TRUE, TRUE, {o})
  BY DEF OpenDevice
<1>2. o \in Objects /\ ~Open(o)
  BY <1>1, NewObjectIsClosed
<1>3. Listing \in {0, 1} /\ Counted(refs, handle, Listing) /\ ListTypeOK
  BY References DEF IInv, ListInv, Listing, TypeOK
<1>4. /\ Counted(refs', handle', Listing)
      /\ handle' \in [Objects -> UsbDevices \cup {NULL}]
      /\ handle'[o] # NULL
      /\ \A p \in Objects \ {o} : handle'[p] = handle[p]
  BY <1>1, <1>3, LibOpenCounts
<1> HIDE DEF o
<1>5. /\ ctx /\ pc = "list" /\ pc' = "list"
      /\ UNCHANGED <<ctx, discovery, held>>
      /\ list' \in [todo : SUBSET UsbDevices, deferred : SUBSET UsbDevices,
                    one : BOOLEAN, found : BOOLEAN, ret : SUBSET Objects]
      /\ list'.todo \cap list'.deferred = {}
      /\ list'.todo \cup list'.deferred = (IF discovery THEN UsbDevices ELSE {})
      /\ list'.one = list.one /\ list'.ret = list.ret \cup {o}
      /\ list'.found = (list.found \/ list.one)
  <2>1. ListGoesOn(TRUE, {o})
    BY <1>1, <1>2, VisitedKeeps
  <2>. QED
    BY <2>1 DEF ListGoesOn
<1>6. Listing' = Listing
  BY <1>5 DEF Listing
<1>7. devices = held \cup list.ret /\ (discovery => Leaked = {})
  BY DEF IInv, ListInv, DevicesAreHeld
<1>8. o \notin held \cup list.ret
  BY <1>2, <1>7 DEF IInv, ListInv
<1>9. TypeOK'
  <2>1. devices' \subseteq Objects
    BY <1>1, <1>2, <1>3 DEF ListTypeOK
  <2>2. ListTypeOK'
    BY <1>3, <1>4, <1>5, <1>6, <2>1, ReferencesNext DEF ListTypeOK
  <2>. QED
    BY <1>5, <2>2, TypeKeeps DEF IInv
<1>10. DevicesAreHeld'
  <2>1. discovery => Leaked' = {}
    BY <1>1, <1>4, <1>7 DEF Leaked, Open
  <2>. QED
    BY <1>1, <1>4, <1>5, <1>6, <1>7, <2>1, ReferencesNext
<1>11. \A p \in devices' : Open(p)'
  BY <1>1, <1>2, <1>3, <1>4 DEF IInv, ListInv, Open, ListTypeOK
<1>12. list.one => list.ret = {}
  BY <1>1, <1>5 DEF IInv, ListInv, Accepts
<1>13. ListInv'
  <2>1. held' \cap list'.ret = {}
    BY <1>5, <1>8 DEF IInv, ListInv
  <2>2. /\ list'.one => \A p, q \in list'.ret : p = q
        /\ list'.one /\ list'.ret # {} => list'.found
    BY <1>5, <1>12
  <2>. QED
    BY <1>5, <1>10, <1>11, <2>1, <2>2 DEF ListInv
<1>. QED
  BY <1>5, <1>9, <1>13, RestKeeps DEF IInv

\* Every device was visited, so every reference of the list goes.  One that
\* OpenDeviceWithVIDPID opened is the one it returns.
LEMMA OpenDevicesReturnsKeeps ==
  ASSUME IInv, OpenDevicesReturns, UNCHANGED Rest
  PROVE  IInv'
<1>1. /\ pc = "list" /\ pc' = "idle" /\ list.todo = {} /\ list' = NoList
      /\ refs' = [u \in UsbDevices |-> IF u \in list.deferred THEN refs[u] - 1 ELSE refs[u]]
      /\ UNCHANGED <<ctx, discovery, handle, devices>>
  BY DEF OpenDevicesReturns
<1>2. list.deferred = (IF discovery THEN UsbDevices ELSE {})
  BY <1>1 DEF IInv, ListInv
<1>3. held' = held \cup list.ret
  BY <1>1 DEF IInv, ListInv, OpenDevicesReturns
<1>4. Counted(refs', handle', Listing')
  <2>1. Counted(refs, handle, Listing) /\ Listing' = 0
    BY <1>1, References DEF IInv, ListInv, Listing
  <2>2. Listing = IF discovery THEN 1 ELSE 0
    BY <1>1 DEF Listing
  <2>3. ASSUME NEW u \in UsbDevices
        PROVE  refs'[u] = Cardinality(Handles(handle', u)) + Listing'
    BY <1>1, <1>2, <2>1, <2>2, <2>3, HandlesFinite DEF Counted
  <2>4. refs' \in [UsbDevices -> Int]
    BY <1>1, <2>1 DEF Counted
  <2>. QED
    BY <2>3, <2>4 DEF Counted
<1>5. TypeOK'
  <2>1. ListTypeOK'
    BY <1>1, <1>3, <1>4, ReferencesNext DEF IInv, TypeOK, ListTypeOK, NoList
  <2>. QED
    BY <1>1, <2>1, TypeKeeps DEF IInv
<1>6. DevicesAreHeld'
  <2>1. devices' = held' \cup list'.ret /\ (discovery' => Leaked' = {})
    BY <1>1, <1>3 DEF IInv, ListInv, DevicesAreHeld, NoList, Leaked, Open
  <2>. QED
    BY <1>4, <2>1, ReferencesNext
<1>7. ListInv'
  BY <1>1, <1>6 DEF IInv, ListInv, Open, NoList
<1>. QED
  BY <1>1, <1>3, <1>5, <1>7, RestKeeps DEF IInv

\* A handle that is left open leaks, though only without discovery.
LEMMA OpenDeviceWithFileDescriptorKeeps ==
  ASSUME IInv, NEW u \in UsbDevices, OpenDeviceWithFileDescriptor(u), UNCHANGED Rest
  PROVE  IInv'
<1> DEFINE o == NewObject
<1>1. /\ pc = "idle" /\ ctx /\ ~discovery /\ MayOpen /\ LibOpen(u)
      /\ UNCHANGED <<ctx, discovery, pc, list>>
      /\ \/ devices' = devices \cup {o} /\ held' = held \cup {o}
         \/ UNCHANGED <<devices, held>>
  BY DEF OpenDeviceWithFileDescriptor
<1>2. o \in Objects /\ ~Open(o)
  BY <1>1, NewObjectIsClosed
<1>3. Counted(refs, handle, 0) /\ Listing' = 0 /\ ListTypeOK
  BY <1>1, References DEF IInv, ListInv, Listing, TypeOK
<1>4. /\ Counted(refs', handle', 0)
      /\ handle' \in [Objects -> UsbDevices \cup {NULL}]
      /\ handle'[o] # NULL
      /\ \A p \in Objects \ {o} : handle'[p] = handle[p]
  BY <1>1, <1>3, LibOpenCounts
<1> HIDE DEF o
<1>5. list = NoList /\ list.ret = {}
  BY <1>1 DEF IInv, ListInv, NoList
<1>6. TypeOK'
  <2>1. devices' \subseteq Objects /\ held' \subseteq Objects
    BY <1>1, <1>2, <1>3 DEF ListTypeOK
  <2>2. ListTypeOK'
    BY <1>1, <1>3, <1>4, <2>1, ReferencesNext DEF ListTypeOK
  <2>. QED
    BY <1>1, <2>2, TypeKeeps DEF IInv
<1>7. DevicesAreHeld'
  <2>1. devices' = held' \cup list'.ret
    BY <1>1, <1>5 DEF IInv, ListInv, DevicesAreHeld
  <2>. QED
    BY <1>1, <1>3, <1>4, <2>1, ReferencesNext
<1>8. \A p \in devices' : Open(p)'
  BY <1>1, <1>2, <1>3, <1>4 DEF IInv, ListInv, Open, ListTypeOK
<1>9. ListInv'
  BY <1>1, <1>5, <1>7, <1>8 DEF IInv, ListInv
<1>. QED
  BY <1>1, <1>6, <1>9, RestKeeps DEF IInv

-----------------------------------------------------------------------------
(* The steps on Configs and Interfaces, and those of transfers, leave the     *)
(* Devices alone.                                                             *)

ListRest == <<ctx, discovery, handle, refs, devices, held, list>>

LEMMA ListKeeps ==
  ASSUME IInv, UNCHANGED ListRest, pc' = pc \/ (pc # "list" /\ pc' # "list")
  PROVE  ListTypeOK' /\ ListInv'
<1>1. UNCHANGED <<ctx, discovery, handle, refs, devices, held, list>>
  BY DEF ListRest
<1>2. ListTypeOK'
  BY <1>1 DEF IInv, TypeOK, ListTypeOK
<1>3. DevicesAreHeld'
  BY <1>1 DEF IInv, ListInv, DevicesAreHeld, Leaked, Open
<1>4. ListInv'
  BY <1>1, <1>3 DEF IInv, ListInv, Open
<1>. QED
  BY <1>2, <1>4

LEMMA NoneIsNoObject == None \notin Objects /\ None \notin Transfers
BY DeviceListAssumption, SessionAssumption DEF None, Objects, Transfers

\* Config, Interface and DefaultInterface open each object above one that is open;
\* DefaultInterface closes the Config when it gets no interface.
LEMMA AcquireKeeps ==
  ASSUME IInv, Acquire
  PROVE  IInv'
<1>1. UNCHANGED <<ctx, discovery, handle, refs, devices, held, list, phase, owner, cancel,
                  ts, stream, streamOn, closed, garbage, fin>>
  BY DEF Acquire, xferVars, streamVars
<1>2. pc # "list" /\ pc' # "list"
  BY DEF Acquire, Config, Interface, DefaultConfig, DefaultInterface
<1>3. ListTypeOK' /\ ListInv'
  BY <1>1, <1>2, ListKeeps DEF ListRest
<1>4. PlaceInv'
  BY <1>1 DEF IInv, PlaceInv
<1>5. CASE pc = "idle" /\ \E o \in Objects : Config(o)
  BY <1>1, <1>3, <1>4, <1>5 DEF Config, IInv, TypeOK, TreeInv, UserInv
<1>6. CASE pc = "idle" /\ \E o \in Objects : Interface(o)
  BY <1>1, <1>3, <1>4, <1>6 DEF Interface, IInv, TypeOK, TreeInv, UserInv
<1>7. CASE pc = "idle" /\ \E o \in Objects : DefaultConfig(o)
  <2>1. PICK o \in Objects : DefaultConfig(o)
    BY <1>7
  <2>2. /\ o \in held \ config /\ config' = config \cup {o} /\ pc = "idle" /\ pc' = "default"
        /\ on' = o /\ UNCHANGED <<intf, heldCfg, heldIntf>>
    BY <1>7, <2>1 DEF DefaultConfig
  <2>3. TypeOK'
    BY <1>1, <1>3, <2>2 DEF IInv, TypeOK
  <2>4. TreeInv'
    BY <1>1, <2>2 DEF IInv, TreeInv
  <2>5. UserInv'
    BY <1>1, <2>2 DEF IInv, UserInv
  <2>. QED
    BY <1>3, <1>4, <2>3, <2>4, <2>5 DEF IInv
<1>8. CASE DefaultInterface
  <2>1. PICK claims \in BOOLEAN :
          /\ config' = IF claims THEN config ELSE config \ {on}
          /\ intf' = intf \cup (IF claims THEN {on} ELSE {})
          /\ heldCfg' = heldCfg \cup (IF claims THEN {on} ELSE {})
          /\ heldIntf' = heldIntf \cup (IF claims THEN {on} ELSE {})
    BY <1>8 DEF DefaultInterface, AfterDefault
  <2>2. pc = "default" /\ pc' = "idle" /\ on' = None
    BY <1>8 DEF DefaultInterface
  <2>3. /\ config \subseteq held /\ intf \subseteq config /\ heldIntf = intf
        /\ on \in config \ intf /\ heldCfg = config \ {on}
    BY <2>2 DEF IInv, TreeInv
  <2>4. TypeOK'
    BY <1>1, <1>3, <2>1, <2>2, <2>3 DEF IInv, TypeOK
  <2>5. TreeInv'
    BY <1>1, <2>1, <2>2, <2>3 DEF TreeInv
  <2>6. UserInv'
    BY <1>1, <2>1, <2>2 DEF IInv, UserInv
  <2>. QED
    BY <1>3, <1>4, <2>4, <2>5, <2>6 DEF IInv
<1>. QED
  BY <1>5, <1>6, <1>7, <1>8 DEF Acquire

-----------------------------------------------------------------------------
(* The Closes: none of them takes an object from below one that is open.      *)

\* A caller does not close the Interface of a call or stream in progress.
LEMMA InterfaceCloseKeeps ==
  ASSUME IInv, NEW o \in Objects, InterfaceClose(o),
         UNCHANGED <<on, ts, streamVars, garbage, fin>>
  PROVE  IInv'
<1>1. /\ o \in heldIntf \ {on, streamOn}
      /\ intf' = intf \ {o} /\ heldIntf' = heldIntf \ {o}
      /\ UNCHANGED <<ctx, discovery, pc, handle, refs, devices, held, list, config, heldCfg,
                     phase, owner, cancel, on, ts, stream, streamOn, closed, garbage, fin>>
  BY DEF InterfaceClose, listVars, xferVars, streamVars
<1>2. ListTypeOK' /\ ListInv'
  BY <1>1, ListKeeps DEF ListRest
<1>3. TypeOK'
  BY <1>1, <1>2 DEF IInv, TypeOK
<1>4. TreeInv'
  BY <1>1 DEF IInv, TreeInv
<1>5. PlaceInv'
  BY <1>1 DEF IInv, PlaceInv
<1>6. UserInv'
  BY <1>1 DEF IInv, UserInv
<1>. QED
  BY <1>2, <1>3, <1>4, <1>5, <1>6 DEF IInv

\* A Config with an open Interface is not closed.
LEMMA ConfigCloseKeeps ==
  ASSUME IInv, NEW o \in Objects, ConfigClose(o),
         UNCHANGED <<on, ts, streamVars, garbage, fin>>
  PROVE  IInv'
<1>1. /\ o \in heldCfg /\ o \notin intf
      /\ config' = config \ {o} /\ heldCfg' = heldCfg \ {o}
      /\ UNCHANGED <<ctx, discovery, pc, handle, refs, devices, held, list, intf, heldIntf,
                     phase, owner, cancel, on, ts, stream, streamOn, closed, garbage, fin>>
  BY DEF ConfigClose, Releasable, listVars, xferVars, streamVars
<1>2. ListTypeOK' /\ ListInv'
  BY <1>1, ListKeeps DEF ListRest
<1>3. TypeOK'
  BY <1>1, <1>2 DEF IInv, TypeOK
<1>4. TreeInv'
  BY <1>1 DEF IInv, TreeInv
<1>5. PlaceInv'
  BY <1>1 DEF IInv, PlaceInv
<1>6. UserInv'
  BY <1>1 DEF IInv, UserInv
<1>. QED
  BY <1>2, <1>3, <1>4, <1>5, <1>6 DEF IInv

\* A Device that may be closed has no Config, so no Interface, and no call or
\* stream uses its handle.
LEMMA DeviceCloseKeeps ==
  ASSUME IInv, NEW o \in Objects, DeviceClose(o),
         UNCHANGED <<on, ts, streamVars, garbage, fin>>
  PROVE  IInv'
<1>1. /\ o \in held \ config /\ closeDev(o) /\ held' = held \ {o}
      /\ devices' = devices \ {o}
      /\ owner' = [t \in Transfers |-> IF owner[t] = o THEN None ELSE owner[t]]
      /\ UNCHANGED <<ctx, discovery, pc, list, config, intf, heldCfg, heldIntf, phase, cancel,
                     on, ts, stream, streamOn, closed, garbage, fin>>
  BY DEF DeviceClose, closeDev, objectVars, streamVars
<1>2. ListTypeOK /\ Listing \in {0, 1} /\ Counted(refs, handle, Listing) /\ Listing' = Listing
  BY <1>1, References DEF IInv, ListInv, Listing, TypeOK
<1>3. devices = held \cup list.ret /\ (discovery => Leaked = {})
  BY DEF IInv, ListInv, DevicesAreHeld
<1>4. Open(o)
  BY <1>1, <1>3 DEF IInv, ListInv
<1>5. /\ Counted(refs', handle', Listing)
      /\ handle' \in [Objects -> UsbDevices \cup {NULL}]
      /\ handle'[o] = NULL
      /\ \A p \in Objects \ {o} : handle'[p] = handle[p]
  BY <1>1, <1>2, <1>4, CloseCounts
<1>6. TypeOK'
  <2>1. ListTypeOK'
    BY <1>1, <1>2, <1>5, ReferencesNext DEF ListTypeOK
  <2>2. owner' \in [Transfers -> Objects \cup {None}]
    BY <1>1 DEF IInv, TypeOK
  <2>. QED
    BY <1>1, <2>1, <2>2 DEF IInv, TypeOK
<1>7. DevicesAreHeld'
  <2>1. devices' = held' \cup list'.ret
    BY <1>1, <1>3 DEF IInv, ListInv
  <2>2. discovery' => Leaked' = {}
    BY <1>1, <1>3, <1>5 DEF Leaked, Open
  <2>. QED
    BY <1>2, <1>5, <2>1, <2>2, ReferencesNext
<1>8. ListInv'
  <2>1. \A p \in devices' : Open(p)'
    BY <1>1, <1>2, <1>5 DEF IInv, ListInv, Open, ListTypeOK
  <2>2. devices' # {} => ctx'
    BY <1>1 DEF IInv, ListInv
  <2>3. held' \cap list'.ret = {}
    BY <1>1 DEF IInv, ListInv
  <2>. QED
    BY <1>1, <1>7, <2>1, <2>2, <2>3 DEF IInv, ListInv
<1>9. TreeInv'
  BY <1>1 DEF IInv, TreeInv
<1>10. PlaceInv'
  BY <1>1 DEF IInv, PlaceInv
<1>11. UserInv'
  <2>1. heldIntf \subseteq config /\ o \notin heldIntf
    BY <1>1 DEF IInv, TreeInv
  <2>2. \A t \in ts : owner'[t] = on
    BY <1>1, <2>1 DEF IInv, UserInv, TypeOK
  <2>3. \A t \in stream : owner'[t] = IF pc = "submit" THEN on ELSE streamOn
    BY <1>1, <2>1 DEF IInv, UserInv, TypeOK
  <2>. QED
    BY <1>1, <2>2, <2>3 DEF IInv, UserInv
<1>. QED
  BY <1>6, <1>8, <1>9, <1>10, <1>11 DEF IInv

\* The Context is closed only when there are no Devices.
LEMMA ContextCloseKeeps ==
  ASSUME IInv, ContextClose, UNCHANGED Rest
  PROVE  IInv'
<1>1. /\ pc # "list" /\ devices = {} /\ ctx' = FALSE
      /\ UNCHANGED <<discovery, pc, handle, refs, devices, held, list>>
      /\ UNCHANGED <<config, intf, heldCfg, heldIntf, phase, owner, cancel, on, ts,
                     stream, streamOn, closed, garbage, fin>>
  BY DEF ContextClose, Rest, objectVars, xferVars, streamVars
<1>2. TypeOK'
  BY <1>1 DEF IInv, TypeOK, ListTypeOK
<1>3. ListInv'
  BY <1>1 DEF IInv, ListInv, DevicesAreHeld, Leaked, Open
<1>4. TreeInv' /\ PlaceInv' /\ UserInv'
  BY <1>1 DEF IInv, TreeInv, PlaceInv, UserInv
<1>. QED
  BY <1>2, <1>3, <1>4 DEF IInv

LEMMA CloseKeeps ==
  ASSUME IInv, Close
  PROVE  IInv'
<1>1. UNCHANGED <<on, ts, streamVars, garbage, fin>>
  BY DEF Close
<1>2. CASE ContextClose /\ UNCHANGED <<objectVars, xferVars>>
  BY <1>1, <1>2, ContextCloseKeeps DEF Rest
<1>3. CASE \E o \in Objects : InterfaceClose(o) \/ ConfigClose(o) \/ DeviceClose(o)
  BY <1>1, <1>3, InterfaceCloseKeeps, ConfigCloseKeeps, DeviceCloseKeeps
<1>. QED
  BY <1>2, <1>3 DEF Close

-----------------------------------------------------------------------------
(* Transfers.  What each step has to show is that the transfers it touches    *)
(* stay in one place and that who waits for them holds the interface.         *)

XferTypeOK ==
    /\ phase \in [Transfers -> {"none", "idle", "inflight", "finished"}]
    /\ owner \in [Transfers -> Objects \cup {None}]
    /\ cancel \in [Transfers -> Answers]

UseTypeOK ==
    /\ pc \in {"idle", "alloc", "submit", "wait", "flush"}
    /\ {on, streamOn} \subseteq Objects \cup {None}
    /\ ts \subseteq Transfers /\ stream \subseteq Transfers /\ garbage \subseteq Transfers
    /\ closed \in BOOLEAN

\* What a step of a call leaves alone.
BooksKept == UNCHANGED <<ctx, discovery, handle, refs, devices, held, list, objectVars, fin>>

\* A step of a call keeps the invariant when it keeps the places of the transfers
\* and what their users hold.
LEMMA CallStepKeeps ==
  ASSUME IInv, BooksKept, UseTypeOK, XferTypeOK', UseTypeOK', PlaceInv', UserInv'
  PROVE  IInv'
<1>1. UNCHANGED <<ctx, discovery, handle, refs, devices, held, list,
                  config, intf, heldCfg, heldIntf, fin>>
  BY DEF BooksKept, objectVars
<1>2. pc \notin {"list", "default"} /\ pc' \notin {"list", "default"}
  BY DEF UseTypeOK
<1>3. ListTypeOK' /\ ListInv'
  BY <1>1, <1>2, ListKeeps DEF ListRest
<1>4. TreeInv'
  BY <1>1, <1>2 DEF IInv, TreeInv
<1>5. TypeOK'
  BY <1>1, <1>3 DEF IInv, TypeOK, XferTypeOK, UseTypeOK
<1>. QED
  BY <1>3, <1>4, <1>5 DEF IInv

\* free takes a transfer out of its place and touches no other one.
LEMMA FreeFrees ==
  ASSUME XferTypeOK, NEW S \in SUBSET Transfers, Free(S)
  PROVE  /\ XferTypeOK'
         /\ \A t \in S : phase'[t] = "none"
         /\ \A t \in Transfers \ S : phase'[t] = phase[t] /\ owner'[t] = owner[t]
BY DEF XferTypeOK, Free, Answers

\* cancel has one of its answers for the transfer.
LEMMA CancelTypes ==
  ASSUME XferTypeOK, NEW t \in Transfers, Cancel(t)
  PROVE  cancel' \in [Transfers -> Answers]
BY DEF XferTypeOK, Cancel

\* What the lemmas below use of the invariant.
LEMMA IInvGives ==
  ASSUME IInv
  PROVE  /\ XferTypeOK /\ PlaceInv /\ UserInv
         /\ pc \notin {"list", "default"} => UseTypeOK
         /\ fin \in Transfers \cup {None}
         /\ ts \subseteq Transfers /\ stream \subseteq Transfers /\ garbage \subseteq Transfers
         /\ heldIntf \subseteq Objects
BY DEF IInv, TypeOK, XferTypeOK, UseTypeOK

\* A new transfer is in no other place.
LEMMA EndpointReadKeeps ==
  ASSUME IInv, NEW o \in Objects, NEW t \in Transfers, EndpointRead(o, t), BooksKept
  PROVE  IInv'
<1>1. /\ pc = "idle" /\ pc' = "wait" /\ o \in heldIntf /\ on' = o
      /\ phase[t] = "none" /\ ts' = {t}
      /\ phase' = [phase EXCEPT ![t] = "inflight"]
      /\ owner' = [owner EXCEPT ![t] = o]
      /\ UNCHANGED <<cancel, stream, streamOn, closed, garbage, heldIntf, fin>>
  BY DEF EndpointRead, Unused, Call, streamVars, BooksKept, objectVars
<1>2. /\ XferTypeOK /\ PlaceInv /\ UserInv /\ UseTypeOK
      /\ ts = {} /\ t \notin stream \cup garbage /\ t # fin
  BY <1>1, IInvGives DEF PlaceInv, UserInv
<1>3. XferTypeOK' /\ UseTypeOK'
  BY <1>1, <1>2 DEF XferTypeOK, UseTypeOK
<1>4. PlaceInv'
  BY <1>1, <1>2 DEF PlaceInv, XferTypeOK
<1>5. UserInv'
  BY <1>1, <1>2 DEF UserInv, XferTypeOK, UseTypeOK
<1>. QED
  BY <1>2, <1>3, <1>4, <1>5, CallStepKeeps

LEMMA EndpointCancelKeeps ==
  ASSUME IInv, EndpointCancel, BooksKept
  PROVE  IInv'
<1>1. PICK t \in ts : InFlight(t) /\ cancel[t] = "none" /\ Cancel(t)
  BY DEF EndpointCancel
<1>2. /\ pc = "wait"
      /\ UNCHANGED <<phase, owner, pc, on, ts, stream, streamOn, closed, garbage, heldIntf, fin>>
  BY <1>1 DEF EndpointCancel, Cancel, streamVars, BooksKept, objectVars
<1>3. XferTypeOK /\ PlaceInv /\ UserInv /\ UseTypeOK /\ t \in Transfers
  BY <1>1, <1>2, IInvGives
<1>4. XferTypeOK'
  BY <1>1, <1>2, <1>3, CancelTypes DEF XferTypeOK
<1>5. UseTypeOK' /\ PlaceInv' /\ UserInv'
  BY <1>2, <1>3 DEF UseTypeOK, PlaceInv, UserInv
<1>. QED
  BY <1>3, <1>4, <1>5, CallStepKeeps

\* A call that frees its transfers and returns.
LEMMA FreeAndReturnKeeps ==
  ASSUME IInv, BooksKept, pc \in {"alloc", "wait"}, Free(ts), ts' = {}, Return,
         UNCHANGED <<streamVars, garbage>>
  PROVE  IInv'
<1>1. /\ pc' = "idle" /\ on' = None
      /\ UNCHANGED <<stream, streamOn, closed, garbage, heldIntf, fin>>
  BY DEF Return, Call, streamVars, BooksKept, objectVars
<1>2. XferTypeOK /\ PlaceInv /\ UserInv /\ UseTypeOK
  BY IInvGives
<1>3. /\ XferTypeOK'
      /\ \A t \in ts : phase'[t] = "none"
      /\ \A t \in Transfers \ ts : phase'[t] = phase[t] /\ owner'[t] = owner[t]
  BY <1>2, FreeFrees DEF UseTypeOK
<1>4. UseTypeOK'
  BY <1>1, <1>2 DEF UseTypeOK
<1>5. PlaceInv'
  BY <1>1, <1>2, <1>3 DEF PlaceInv
<1>6. UserInv'
  BY <1>1, <1>2, <1>3 DEF UserInv, PlaceInv, UseTypeOK
<1>. QED
  BY <1>2, <1>3, <1>4, <1>5, <1>6, CallStepKeeps

LEMMA NewStreamKeeps ==
  ASSUME IInv, NEW o \in Objects, NewStream(o), BooksKept
  PROVE  IInv'
<1>1. /\ pc = "idle" /\ pc' = "alloc" /\ o \in heldIntf /\ on' = o /\ streamOn = None
      /\ UNCHANGED <<phase, owner, cancel, ts, stream, streamOn, closed, garbage, heldIntf, fin>>
  BY DEF NewStream, Call, xferVars, streamVars, BooksKept, objectVars
<1>2. XferTypeOK /\ PlaceInv /\ UserInv /\ UseTypeOK
  BY <1>1, IInvGives
<1>3. XferTypeOK' /\ UseTypeOK' /\ PlaceInv' /\ UserInv'
  BY <1>1, <1>2 DEF XferTypeOK, UseTypeOK, PlaceInv, UserInv
<1>. QED
  BY <1>2, <1>3, CallStepKeeps

LEMMA NewStreamAllocKeeps ==
  ASSUME IInv, NEW t \in Transfers, NewStreamAlloc(t), BooksKept
  PROVE  IInv'
<1>1. /\ pc = "alloc" /\ phase[t] = "none" /\ ts' = ts \cup {t}
      /\ phase' = [phase EXCEPT ![t] = "idle"]
      /\ owner' = [owner EXCEPT ![t] = on]
      /\ UNCHANGED <<cancel, pc, on, stream, streamOn, closed, garbage, heldIntf, fin>>
  BY DEF NewStreamAlloc, Alloc, Unused, streamVars, BooksKept, objectVars
<1>2. /\ XferTypeOK /\ PlaceInv /\ UserInv /\ UseTypeOK
      /\ t \notin ts \cup stream \cup garbage /\ t # fin
  BY <1>1, IInvGives DEF PlaceInv
<1>3. XferTypeOK' /\ UseTypeOK'
  BY <1>1, <1>2 DEF XferTypeOK, UseTypeOK
<1>4. PlaceInv'
  BY <1>1, <1>2 DEF PlaceInv, XferTypeOK
<1>5. UserInv'
  BY <1>1, <1>2 DEF UserInv, XferTypeOK, UseTypeOK
<1>. QED
  BY <1>2, <1>3, <1>4, <1>5, CallStepKeeps

LEMMA StreamReadyKeeps ==
  ASSUME IInv, StreamReady, BooksKept
  PROVE  IInv'
<1>1. /\ pc = "alloc" /\ pc' = "submit"
      /\ UNCHANGED <<phase, owner, cancel, on, ts, stream, streamOn, closed, garbage,
                     heldIntf, fin>>
  BY DEF StreamReady, xferVars, streamVars, BooksKept, objectVars
<1>2. XferTypeOK /\ PlaceInv /\ UserInv /\ UseTypeOK
  BY <1>1, IInvGives
<1>3. XferTypeOK' /\ UseTypeOK' /\ PlaceInv' /\ UserInv'
  BY <1>1, <1>2 DEF XferTypeOK, UseTypeOK, PlaceInv, UserInv
<1>. QED
  BY <1>2, <1>3, CallStepKeeps

\* The transfers after one that cannot be submitted become garbage.
LEMMA StreamSubmitKeeps ==
  ASSUME IInv, NEW t \in Transfers, StreamSubmit(t), BooksKept
  PROVE  IInv'
<1>1. pc = "submit" /\ t \in ts /\ UNCHANGED <<heldIntf, fin>>
  BY DEF StreamSubmit, BooksKept, objectVars
<1>2. XferTypeOK /\ PlaceInv /\ UserInv /\ UseTypeOK
  BY <1>1, IInvGives
<1>3. CASE /\ Submit(t)
           /\ stream' = stream \cup {t} /\ ts' = ts \ {t}
           /\ UNCHANGED <<pc, on, streamOn, closed, garbage>>
  <2>1. phase' = [phase EXCEPT ![t] = "inflight"] /\ UNCHANGED <<owner, cancel>>
    BY <1>3 DEF Submit
  <2>2. XferTypeOK' /\ UseTypeOK'
    BY <1>2, <1>3, <2>1 DEF XferTypeOK, UseTypeOK
  <2>3. PlaceInv'
    BY <1>1, <1>2, <1>3, <2>1 DEF PlaceInv, XferTypeOK
  <2>4. UserInv'
    BY <1>1, <1>2, <1>3, <2>1 DEF UserInv
  <2>. QED
    BY <1>2, <2>2, <2>3, <2>4, CallStepKeeps
<1>4. CASE /\ Free({t})
           /\ garbage' = garbage \cup (ts \ {t}) /\ ts' = {}
           /\ streamOn' = on /\ closed' = TRUE
           /\ Return
           /\ UNCHANGED stream
  <2>1. pc' = "idle" /\ on' = None
    BY <1>4 DEF Return, Call
  <2>2. /\ XferTypeOK'
        /\ phase'[t] = "none"
        /\ \A u \in Transfers \ {t} : phase'[u] = phase[u] /\ owner'[u] = owner[u]
    BY <1>2, <1>4, FreeFrees
  <2>3. UseTypeOK'
    BY <1>2, <1>4, <2>1 DEF UseTypeOK
  <2>4. PlaceInv'
    BY <1>1, <1>2, <1>4, <2>2 DEF PlaceInv, UseTypeOK
  <2>5. UserInv'
    <3>1. \A u \in stream : owner'[u] = on
      BY <1>1, <1>2, <2>2 DEF PlaceInv, UserInv, UseTypeOK
    <3>2. on \in heldIntf /\ on # None
      BY <1>1, <1>2, IInvGives, NoneIsNoObject DEF UserInv
    <3>. QED
      BY <1>1, <1>4, <2>1, <3>1, <3>2 DEF UserInv
  <2>. QED
    BY <1>2, <2>2, <2>3, <2>4, <2>5, CallStepKeeps
<1>. QED
  BY <1>3, <1>4 DEF StreamSubmit

\* NewStream returns a stream whose interface is held.
LEMMA StreamSubmittedKeeps ==
  ASSUME IInv, StreamSubmitted, BooksKept
  PROVE  IInv'
<1>1. /\ pc = "submit" /\ pc' = "idle" /\ ts = {} /\ streamOn' = on /\ on' = None
      /\ UNCHANGED <<phase, owner, cancel, ts, stream, closed, garbage, heldIntf, fin>>
  BY DEF StreamSubmitted, Return, Call, xferVars, BooksKept, objectVars
<1>2. /\ XferTypeOK /\ PlaceInv /\ UserInv /\ UseTypeOK
      /\ on \in heldIntf /\ on # None
  BY <1>1, IInvGives, NoneIsNoObject DEF UserInv
<1>3. XferTypeOK' /\ UseTypeOK' /\ PlaceInv'
  BY <1>1, <1>2 DEF XferTypeOK, UseTypeOK, PlaceInv
<1>4. UserInv'
  BY <1>1, <1>2 DEF UserInv
<1>. QED
  BY <1>2, <1>3, <1>4, CallStepKeeps

LEMMA StreamReadKeeps ==
  ASSUME IInv, NEW t \in Transfers, StreamRead(t), BooksKept
  PROVE  IInv'
<1>1. /\ pc = "idle" /\ t \in stream /\ phase[t] = "finished"
      /\ UNCHANGED <<pc, on, ts, streamOn, garbage, heldIntf, fin>>
  BY DEF StreamRead, BooksKept, objectVars
<1>2. XferTypeOK /\ PlaceInv /\ UserInv /\ UseTypeOK
  BY <1>1, IInvGives
<1>3. CASE Submit(t) /\ UNCHANGED <<stream, closed>>
  <2>1. phase' = [phase EXCEPT ![t] = "inflight"] /\ UNCHANGED <<owner, cancel>>
    BY <1>3 DEF Submit
  <2>2. XferTypeOK' /\ UseTypeOK' /\ PlaceInv'
    BY <1>1, <1>2, <1>3, <2>1 DEF XferTypeOK, UseTypeOK, PlaceInv
  <2>3. UserInv'
    BY <1>1, <1>2, <1>3, <2>1 DEF UserInv
  <2>. QED
    BY <1>2, <2>2, <2>3, CallStepKeeps
<1>4. CASE Free({t}) /\ stream' = stream \ {t} /\ closed' = TRUE
  <2>1. /\ XferTypeOK'
        /\ phase'[t] = "none"
        /\ \A u \in Transfers \ {t} : phase'[u] = phase[u] /\ owner'[u] = owner[u]
    BY <1>2, <1>4, FreeFrees
  <2>2. UseTypeOK'
    BY <1>1, <1>2, <1>4 DEF UseTypeOK
  <2>3. PlaceInv'
    BY <1>1, <1>2, <1>4, <2>1 DEF PlaceInv
  <2>4. UserInv'
    BY <1>1, <1>2, <1>4, <2>1 DEF UserInv, UseTypeOK
  <2>. QED
    BY <1>2, <2>1, <2>2, <2>3, <2>4, CallStepKeeps
<1>. QED
  BY <1>3, <1>4 DEF StreamRead

LEMMA StreamFailsKeeps ==
  ASSUME IInv, StreamFails, BooksKept
  PROVE  IInv'
<1>1. /\ pc = "idle" /\ pc' = "flush" /\ on' = streamOn /\ closed' = TRUE /\ stream # {}
      /\ UNCHANGED <<phase, owner, cancel, ts, stream, streamOn, garbage, heldIntf, fin>>
  BY DEF StreamFails, Call, xferVars, BooksKept, objectVars
<1>2. /\ XferTypeOK /\ PlaceInv /\ UserInv /\ UseTypeOK
      /\ streamOn # None /\ streamOn \in heldIntf
  BY <1>1, IInvGives DEF UserInv
<1>3. XferTypeOK' /\ UseTypeOK' /\ PlaceInv'
  BY <1>1, <1>2 DEF XferTypeOK, UseTypeOK, PlaceInv
<1>4. UserInv'
  BY <1>1, <1>2 DEF UserInv
<1>. QED
  BY <1>2, <1>3, <1>4, CallStepKeeps

LEMMA FlushNextKeeps ==
  ASSUME IInv, NEW t \in Transfers, FlushNext(t), BooksKept
  PROVE  IInv'
<1>1. /\ pc = "flush" /\ t \in stream /\ ts = {} /\ ts' = {t} /\ stream' = stream \ {t}
      /\ Cancel(t)
      /\ UNCHANGED <<phase, owner, pc, on, streamOn, closed, garbage, heldIntf, fin>>
  BY DEF FlushNext, Cancel, BooksKept, objectVars
<1>2. XferTypeOK /\ PlaceInv /\ UserInv /\ UseTypeOK
  BY <1>1, IInvGives
<1>3. XferTypeOK' /\ UseTypeOK' /\ PlaceInv'
  BY <1>1, <1>2, CancelTypes DEF XferTypeOK, UseTypeOK, PlaceInv
<1>4. UserInv'
  BY <1>1, <1>2 DEF UserInv
<1>. QED
  BY <1>2, <1>3, <1>4, CallStepKeeps

LEMMA FlushFreeKeeps ==
  ASSUME IInv, FlushFree, BooksKept
  PROVE  IInv'
<1>1. /\ pc = "flush" /\ Free(ts) /\ ts' = {}
      /\ UNCHANGED <<pc, on, stream, streamOn, closed, garbage, heldIntf, fin>>
  BY DEF FlushFree, streamVars, BooksKept, objectVars
<1>2. XferTypeOK /\ PlaceInv /\ UserInv /\ UseTypeOK
  BY <1>1, IInvGives
<1>3. /\ XferTypeOK'
      /\ \A t \in ts : phase'[t] = "none"
      /\ \A t \in Transfers \ ts : phase'[t] = phase[t] /\ owner'[t] = owner[t]
  BY <1>1, <1>2, FreeFrees DEF UseTypeOK
<1>4. UseTypeOK'
  BY <1>1, <1>2 DEF UseTypeOK
<1>5. PlaceInv'
  BY <1>1, <1>2, <1>3 DEF PlaceInv
<1>6. UserInv'
  BY <1>1, <1>2, <1>3 DEF UserInv, PlaceInv, UseTypeOK
<1>. QED
  BY <1>2, <1>3, <1>4, <1>5, <1>6, CallStepKeeps

LEMMA FlushedKeeps ==
  ASSUME IInv, Flushed, BooksKept
  PROVE  IInv'
<1>1. /\ pc = "flush" /\ pc' = "idle" /\ ts = {} /\ stream = {} /\ on' = None
      /\ UNCHANGED <<phase, owner, cancel, ts, stream, streamOn, closed, garbage, heldIntf, fin>>
  BY DEF Flushed, Return, Call, xferVars, streamVars, BooksKept, objectVars
<1>2. XferTypeOK /\ PlaceInv /\ UserInv /\ UseTypeOK
  BY <1>1, IInvGives
<1>3. XferTypeOK' /\ UseTypeOK' /\ PlaceInv' /\ UserInv'
  BY <1>1, <1>2 DEF XferTypeOK, UseTypeOK, PlaceInv, UserInv
<1>. QED
  BY <1>2, <1>3, CallStepKeeps

LEMMA StreamCloseKeeps ==
  ASSUME IInv, StreamClose, BooksKept
  PROVE  IInv'
<1>1. /\ pc = "idle" /\ closed' = TRUE
      /\ UNCHANGED <<phase, owner, cancel, pc, on, ts, stream, streamOn, garbage, heldIntf, fin>>
  BY DEF StreamClose, xferVars, BooksKept, objectVars
<1>2. XferTypeOK /\ PlaceInv /\ UserInv /\ UseTypeOK
  BY <1>1, IInvGives
<1>3. XferTypeOK' /\ UseTypeOK' /\ PlaceInv' /\ UserInv'
  BY <1>1, <1>2 DEF XferTypeOK, UseTypeOK, PlaceInv, UserInv
<1>. QED
  BY <1>2, <1>3, CallStepKeeps

\* The transfers of a stream that is dropped are garbage.
LEMMA StreamDropKeeps ==
  ASSUME IInv, StreamDrop, BooksKept
  PROVE  IInv'
<1>1. /\ pc = "idle" /\ garbage' = garbage \cup stream /\ stream' = {}
      /\ streamOn' = None /\ closed' = FALSE
      /\ UNCHANGED <<phase, owner, cancel, pc, on, ts, heldIntf, fin>>
  BY DEF StreamDrop, xferVars, BooksKept, objectVars
<1>2. XferTypeOK /\ PlaceInv /\ UserInv /\ UseTypeOK
  BY <1>1, IInvGives
<1>3. XferTypeOK' /\ UseTypeOK'
  BY <1>1, <1>2 DEF XferTypeOK, UseTypeOK
<1>4. PlaceInv' /\ UserInv'
  BY <1>1, <1>2 DEF PlaceInv, UserInv
<1>. QED
  BY <1>2, <1>3, <1>4, CallStepKeeps

LEMMA TransferKeeps ==
  ASSUME IInv, Transfer
  PROVE  IInv'
<1>1. BooksKept
  BY DEF Transfer, BooksKept
<1>2. CASE EndpointReturns
  BY <1>1, <1>2, FreeAndReturnKeeps DEF EndpointReturns
<1>3. CASE NewStreamFails
  BY <1>1, <1>3, FreeAndReturnKeeps DEF NewStreamFails
<1>4. CASE \E o \in Objects : NewStream(o)
  BY <1>1, <1>4, NewStreamKeeps
<1>5. CASE \E t \in Transfers, o \in Objects : EndpointRead(o, t)
  BY <1>1, <1>5, EndpointReadKeeps
<1>6. CASE \E t \in Transfers : NewStreamAlloc(t) \/ StreamSubmit(t) \/ StreamRead(t) \/ FlushNext(t)
  BY <1>1, <1>6, NewStreamAllocKeeps, StreamSubmitKeeps, StreamReadKeeps, FlushNextKeeps
<1>7. CASE EndpointCancel
  BY <1>1, <1>7, EndpointCancelKeeps
<1>8. CASE StreamReady \/ StreamSubmitted \/ StreamFails
  BY <1>1, <1>8, StreamReadyKeeps, StreamSubmittedKeeps, StreamFailsKeeps
<1>9. CASE FlushFree \/ Flushed \/ StreamClose \/ StreamDrop
  BY <1>1, <1>9, FlushFreeKeeps, FlushedKeeps, StreamCloseKeeps, StreamDropKeeps
<1>. QED
  BY <1>2, <1>3, <1>4, <1>5, <1>6, <1>7, <1>8, <1>9 DEF Transfer

-----------------------------------------------------------------------------
(* The event loop and the finalizer work at any time.                         *)

\* What neither of them touches.
OthersKept == UNCHANGED <<listVars, objectVars, on, ts, streamVars>>

\* They move no transfer of a call or a stream and leave its owner.
LEMMA BackgroundKeeps ==
  ASSUME IInv, OthersKept, XferTypeOK', PlaceInv', garbage' \subseteq garbage,
         fin' \in Transfers \cup {None},
         \A t \in ts \cup stream : owner'[t] = owner[t]
  PROVE  IInv'
<1>1. UNCHANGED <<ctx, discovery, pc, handle, refs, devices, held, list,
                  config, intf, heldCfg, heldIntf, on, ts, stream, streamOn, closed>>
  BY DEF OthersKept, listVars, objectVars, streamVars
<1>2. ListTypeOK' /\ ListInv'
  BY <1>1, ListKeeps DEF ListRest
<1>3. TypeOK'
  BY <1>1, <1>2 DEF IInv, TypeOK, XferTypeOK
<1>4. TreeInv' /\ UserInv'
  BY <1>1 DEF IInv, TreeInv, UserInv
<1>. QED
  BY <1>2, <1>3, <1>4 DEF IInv

LEMMA CompleteKeeps ==
  ASSUME IInv, NEW t \in Transfers, Complete(t)
  PROVE  IInv'
<1>1. /\ OthersKept /\ phase[t] = "inflight"
      /\ phase' = [phase EXCEPT ![t] = "finished"] /\ cancel' = [cancel EXCEPT ![t] = "none"]
      /\ UNCHANGED <<owner, ts, stream, garbage, fin>>
  BY DEF Complete, InFlight, OthersKept, streamVars
<1>2. XferTypeOK /\ PlaceInv /\ fin \in Transfers \cup {None}
  BY IInvGives
<1>3. XferTypeOK' /\ PlaceInv'
  BY <1>1, <1>2 DEF XferTypeOK, PlaceInv, Answers
<1>. QED
  BY <1>1, <1>2, <1>3, BackgroundKeeps

\* A finalizer takes a transfer from the garbage.
LEMMA FinalizeKeeps ==
  ASSUME IInv, NEW t \in Transfers, Finalize(t)
  PROVE  IInv'
<1>1. /\ OthersKept /\ fin = None /\ t \in garbage /\ fin' = t /\ garbage' = garbage \ {t}
      /\ Cancel(t) /\ UNCHANGED <<phase, owner, ts, stream>>
  BY DEF Finalize, FinalizerCancel, Cancel, OthersKept, streamVars
<1>2. XferTypeOK /\ PlaceInv
  BY IInvGives
<1>3. XferTypeOK'
  BY <1>1, <1>2, CancelTypes, IInvGives DEF XferTypeOK
<1>4. PlaceInv'
  BY <1>1, <1>2, NoneIsNoObject DEF PlaceInv
<1>. QED
  BY <1>1, <1>3, <1>4, BackgroundKeeps

LEMMA FinalizedKeeps ==
  ASSUME IInv, Finalized
  PROVE  IInv'
<1>1. /\ OthersKept /\ fin # None /\ fin' = None /\ Free({fin})
      /\ UNCHANGED <<ts, stream, garbage>>
  BY DEF Finalized, OthersKept, streamVars
<1>2. /\ XferTypeOK /\ PlaceInv /\ fin \in Transfers
      /\ ts \subseteq Transfers /\ stream \subseteq Transfers /\ garbage \subseteq Transfers
  BY <1>1, IInvGives
<1>3. /\ XferTypeOK'
      /\ phase'[fin] = "none"
      /\ \A t \in Transfers \ {fin} : phase'[t] = phase[t] /\ owner'[t] = owner[t]
  BY <1>1, <1>2, FreeFrees
<1>4. PlaceInv'
  BY <1>1, <1>2, <1>3, NoneIsNoObject DEF PlaceInv
<1>5. \A t \in ts \cup stream : owner'[t] = owner[t]
  BY <1>2, <1>3 DEF PlaceInv
<1>. QED
  BY <1>1, <1>3, <1>4, <1>5, BackgroundKeeps

-----------------------------------------------------------------------------
LEMMA OpenStepKeeps ==
  ASSUME IInv, OpenStep, UNCHANGED Rest
  PROVE  IInv'
<1>1. CASE ListDevices
  BY <1>1, ListDevicesKeeps
<1>2. CASE OpenDevicesReturns
  BY <1>2, OpenDevicesReturnsKeeps
<1>3. CASE \E u \in UsbDevices :
             PassDevice(u) \/ OpenDevice(u) \/ OpenDeviceWithFileDescriptor(u)
  BY <1>3, PassDeviceKeeps, OpenDeviceKeeps, OpenDeviceWithFileDescriptorKeeps
<1>. QED
  BY <1>1, <1>2, <1>3 DEF OpenStep

\* Every step, and stuttering, keeps the invariant.
LEMMA NextKeeps ==
  ASSUME IInv, [Next]_vars
  PROVE  IInv'
<1>1. CASE OpenStep /\ UNCHANGED <<objectVars, xferVars, on, ts, streamVars, garbage, fin>>
  BY <1>1, OpenStepKeeps DEF Rest
<1>2. CASE Acquire \/ Close \/ Transfer \/ Finalized
  BY <1>2, AcquireKeeps, CloseKeeps, TransferKeeps, FinalizedKeeps
<1>3. CASE \E t \in Transfers : Complete(t) \/ Finalize(t)
  BY <1>3, CompleteKeeps, FinalizeKeeps
<1>4. CASE UNCHANGED vars
  <2>1. OthersKept /\ UNCHANGED <<phase, owner, cancel, ts, stream, garbage, fin>>
    BY <1>4 DEF vars, OthersKept, xferVars, streamVars
  <2>2. XferTypeOK' /\ PlaceInv' /\ fin' \in Transfers \cup {None}
    BY <2>1, IInvGives DEF XferTypeOK, PlaceInv
  <2>. QED
    BY <2>1, <2>2, BackgroundKeeps
<1>. QED
  BY <1>1, <1>2, <1>3, <1>4 DEF Next

\* In every state of every session: each Device has one holder and an open handle,
\* Interfaces are above Configs above Devices, each transfer is in one place, and
\* whoever waits for transfers holds the interface they use.
THEOREM SpecIInv == Spec => []IInv
BY InitIInv, NextKeeps, PTL DEF Spec

-----------------------------------------------------------------------------
(* What follows from it. *)

\* The variables have their types, so libusb counts no device below zero or more
\* often than there are objects and one list: no reference is dropped twice.
THEOREM SessionTypeCorrect == Spec => []TypeOK
<1>1. IInv => TypeOK
  BY DEF IInv
<1>. QED
  BY <1>1, SpecIInv, PTL

\* Whatever order of opens, claims, failures and Closes: what is open has a caller
\* who can close it, a call in progress, or, for transfers, the finalizer.
THEOREM SessionLosesNothing == Spec => []NothingIsLost
<1>1. IInv => NothingIsLost
  BY DEF IInv, ListInv, TreeInv, PlaceInv, NothingIsLost
<1>. QED
  BY <1>1, SpecIInv, PTL

\* As long as a call or a stream waits for a transfer, its interface stays claimed,
\* its handle open and the event loop running, whatever other goroutines close.
THEOREM SessionServesInFlight == Spec => []InFlightIsServed
<1>1. ASSUME IInv PROVE InFlightIsServed
  <2> SUFFICES ASSUME NEW t \in ts \cup stream, InFlight(t)
               PROVE  Served(t) /\ Open(owner[t]) /\ owner[t] \in config \cap intf
    BY DEF InFlightIsServed
  <2>1. owner[t] \in heldIntf
    <3>1. CASE t \in ts
      BY <1>1, <3>1 DEF IInv, TypeOK, UserInv
    <3>2. CASE t \in stream
      BY <1>1, <3>2 DEF IInv, TypeOK, UserInv
    <3>. QED
      BY <3>1, <3>2
  <2>2. owner[t] \in config \cap intf /\ owner[t] \in held
    BY <1>1, <2>1 DEF IInv, TreeInv
  <2>3. owner[t] \in devices
    BY <1>1, <2>2 DEF IInv, ListInv, DevicesAreHeld
  <2>4. Open(owner[t]) /\ ctx
    BY <1>1, <2>3 DEF IInv, ListInv
  <2>5. owner[t] # None
    BY <1>1, <2>1, IInvGives, NoneIsNoObject
  <2>. QED
    BY <2>2, <2>4, <2>5 DEF Served
<1>. QED
  BY <1>1, SpecIInv, PTL
=============================================================================
