--------------------------- MODULE TransferProofs ---------------------------
(***************************************************************************)
(* Safety of usbTransfer for any number of goroutines, transfers and       *)
(* addresses: the invariants of Transfer and the refinement of             *)
(* TransferProtocol, from one inductive invariant.                         *)
(***************************************************************************)
EXTENDS Transfer, TLAPS

(* The inductive invariant. *)

\* Labels of a goroutine inside a method of usbTransfer.
InMethod(g) == pc[g] \notin {"idle", "register"}

\* t.mu is held by exactly the goroutine that is inside a method of t.
LockInv ==
    /\ \A g \in Goroutines : InMethod(g) => /\ target[g] \in created
                                            /\ mu[target[g]] = g
    /\ \A t \in Transfers : mu[t] # NULL => InMethod(mu[t]) /\ target[mu[t]] = t
    /\ \A g \in Goroutines : pc[g] = "idle" => target[g] = NULL

\* An object under construction has memory of its own and is seen by nobody.
CreateInv ==
    /\ \A g \in Goroutines : pc[g] = "register" =>
        /\ target[g] \in Transfers \ created
        /\ ptr[g] \in heap
        /\ \A t \in Transfers : Mem(t) # ptr[g]
        /\ \A h \in Goroutines \ {g} : pc[h] = "register" =>
             target[h] # target[g] /\ ptr[h] # ptr[g]
    /\ \A t \in Transfers \ created : xfer[t] = NULL /\ ~submitted[t] /\ done[t] = 0

\* What a goroutine relies on at each label.
CallInv ==
    \A g \in Goroutines :
        /\ pc[g] \in {"submit", "submitted"} => xfer[target[g]] # NULL
        /\ pc[g] \in {"drain", "collect"} => submitted[target[g]]
        /\ pc[g] \in {"unregister", "release", "clear"} =>
             ~submitted[target[g]] /\ xfer[target[g]] # NULL

\* Live memory has one owner, and the owner's channel is registered for it
\* until the owner starts to give it up.
MemInv ==
    /\ \A t \in Transfers : Mem(t) # NULL =>
        /\ Mem(t) \in heap
        /\ xferDoneMap[Mem(t)] = t \/ HolderAt(t, "release")
    /\ \A s, t \in Transfers : Mem(s) # NULL /\ Mem(s) = Mem(t) => s = t
    /\ \A t \in Transfers : Outstanding(t) => Mem(t) # NULL

\* libusb and the event loop work only on live memory.
LoopInv ==
    /\ \A p \in Ptrs : lib[p] # "idle" => \E t \in Transfers : Mem(t) = p
    /\ loop # "poll" => \E t \in Transfers : Mem(t) = cbXfer /\ Mem(t) # NULL
    /\ loop = "send" => cbChan \in Transfers /\ Mem(cbChan) = cbXfer

\* The status is final once libusb has finished, until the next submit.
StatusInv ==
    \A t \in Transfers :
        InCallback(t) \/ Signalled(t) \/ Collecting(t) => status[Mem(t)] \in Final

IInv ==
    /\ TypeOK
    /\ LockInv
    /\ CreateInv
    /\ CallInv
    /\ MemInv
    /\ LoopInv
    /\ OneSignalPerSubmission
    /\ StatusInv
-----------------------------------------------------------------------------
(* The mutex: what taking it, moving on under it and releasing it do to    *)
(* the holder of each transfer.                                            *)

\* A goroutine inside a method holds the mutex of its transfer.
LEMMA Inside ==
  ASSUME TypeOK, LockInv, NEW g \in Goroutines, InMethod(g)
  PROVE  \E t \in Transfers :
           /\ target[g] = t
           /\ t \in created
           /\ mu[t] = g
           /\ \A k : HolderAt(t, k) <=> pc[g] = k
BY TransferAssumption DEF TypeOK, LockInv, InMethod, HolderAt

\* t.mu.Lock()
LEMMA LockStep ==
  ASSUME TypeOK, LockInv, UNCHANGED created,
         NEW g \in Goroutines, NEW t \in Transfers,
         NEW label \in Labels \ {"idle", "register"},
         Lock(g, t, label)
  PROVE  /\ LockInv'
         /\ t \in created
         /\ \A k : ~HolderAt(t, k)
         /\ \A k : HolderAt(t, k)' <=> k = label
         /\ \A s \in Transfers \ {t} : \A k : HolderAt(s, k)' <=> HolderAt(s, k)
         /\ \A h \in Goroutines \ {g} : pc'[h] = pc[h] /\ target'[h] = target[h]
         /\ pc'[g] = label /\ target'[g] = t /\ ptr' = ptr
BY TransferAssumption DEF TypeOK, LockInv, InMethod, HolderAt, Lock, Labels

\* A step under the mutex.
LEMMA GotoStep ==
  ASSUME TypeOK, LockInv, UNCHANGED created,
         NEW g \in Goroutines, InMethod(g),
         NEW t \in Transfers, target[g] = t,
         NEW label \in Labels \ {"idle", "register"},
         Goto(g, label)
  PROVE  /\ LockInv'
         /\ \A k : HolderAt(t, k)' <=> k = label
         /\ \A s \in Transfers \ {t} : \A k : HolderAt(s, k)' <=> HolderAt(s, k)
         /\ \A h \in Goroutines \ {g} : pc'[h] = pc[h] /\ target'[h] = target[h]
         /\ pc'[g] = label /\ target' = target /\ ptr' = ptr
BY TransferAssumption DEF TypeOK, LockInv, InMethod, HolderAt, Goto, Labels

\* The deferred t.mu.Unlock().
LEMMA ReturnStep ==
  ASSUME TypeOK, LockInv, UNCHANGED created,
         NEW g \in Goroutines, InMethod(g),
         NEW t \in Transfers, target[g] = t,
         Return(g)
  PROVE  /\ LockInv'
         /\ \A k : ~HolderAt(t, k)'
         /\ \A s \in Transfers \ {t} : \A k : HolderAt(s, k)' <=> HolderAt(s, k)
         /\ \A h \in Goroutines \ {g} : pc'[h] = pc[h] /\ target'[h] = target[h]
         /\ pc'[g] = "idle" /\ ptr' = ptr
<1>1. mu[t] = g
  BY Inside
<1>2. /\ mu' = [mu EXCEPT ![t] = NULL]
      /\ pc' = [pc EXCEPT ![g] = "idle"]
      /\ target' = [target EXCEPT ![g] = NULL]
      /\ ptr' = ptr
  BY DEF Return
<1>3. /\ \A h \in Goroutines \ {g} : pc'[h] = pc[h] /\ target'[h] = target[h]
      /\ pc'[g] = "idle" /\ target'[g] = NULL
      /\ mu'[t] = NULL
      /\ \A s \in Transfers \ {t} : mu'[s] = mu[s] /\ mu[s] # g
  BY <1>1, <1>2, TransferAssumption DEF TypeOK, LockInv
<1>4. LockInv'
  BY <1>1, <1>3, TransferAssumption DEF TypeOK, LockInv, InMethod
<1>5. \A s \in Transfers \ {t} : \A k : HolderAt(s, k)' <=> HolderAt(s, k)
  BY <1>3, TransferAssumption DEF TypeOK, HolderAt
<1>. QED
  BY <1>2, <1>3, <1>4, <1>5 DEF HolderAt

-----------------------------------------------------------------------------
(* The steps of the abstract protocol, in terms of the concrete state. *)

\* What a step of Transfer is to TransferProtocol: one of its steps or a stutter.
ProtocolStep == [Protocol!Next]_(Protocol!vars)

\* The refined state of a transfer is determined by its memory, whether libusb
\* has it and whether its result is still to be collected.
SameAbstract(t) ==
    /\ Mem(t)' = Mem(t)
    /\ InFlight(t)' <=> InFlight(t)
    /\ Outstanding(t)' <=> Outstanding(t)

\* A step that changes none of these is a stutter.
LEMMA Stutters ==
  ASSUME UNCHANGED created, \A t \in Transfers : SameAbstract(t)
  PROVE  ProtocolStep
<1>1. \A t \in Transfers : PhaseOf(t)' = PhaseOf(t) /\ Mem(t)' = Mem(t)
  BY DEF SameAbstract, PhaseOf
<1>2. /\ [t \in Transfers |-> PhaseOf(t)]' = [t \in Transfers |-> PhaseOf(t)]
      /\ [t \in Transfers |-> Mem(t)]' = [t \in Transfers |-> Mem(t)]
  BY <1>1
<1>. QED
  BY <1>2 DEF ProtocolStep, Protocol!vars

\* A step that moves one transfer and keeps its memory is a step of the protocol.
LEMMA Advances ==
  ASSUME UNCHANGED created, NEW t \in Transfers, Mem(t)' = Mem(t),
         \A s \in Transfers \ {t} : SameAbstract(s),
         \/ PhaseOf(t) = "idle" /\ PhaseOf(t)' = "inflight"
         \/ PhaseOf(t) = "inflight" /\ PhaseOf(t)' = "finished"
         \/ PhaseOf(t) = "finished" /\ PhaseOf(t)' = "idle"
  PROVE  ProtocolStep
<1> DEFINE phase == [s \in Transfers |-> PhaseOf(s)]
           mem == [s \in Transfers |-> Mem(s)]
<1>1. \A s \in Transfers \ {t} : PhaseOf(s)' = PhaseOf(s) /\ Mem(s)' = Mem(s)
  BY DEF SameAbstract, PhaseOf
<1>2. phase[t] = PhaseOf(t) /\ phase' = [phase EXCEPT ![t] = PhaseOf(t)'] /\ mem' = mem
  BY <1>1
<1>. QED
  BY <1>2 DEF ProtocolStep, Protocol!Next, Protocol!Submit, Protocol!Finish,
              Protocol!Collect, Protocol!Advance

\* A transfer that is born with memory nobody owns.
LEMMA Creates ==
  ASSUME NEW t \in Transfers, NEW p \in Ptrs,
         created' = created \cup {t}, t \notin created,
         \A s \in Transfers \ {t} : SameAbstract(s),
         \A s \in Transfers : Mem(s) # p,
         Mem(t)' = p, p # NULL, ~InFlight(t)', ~Outstanding(t)'
  PROVE  ProtocolStep
<1> DEFINE phase == [s \in Transfers |-> PhaseOf(s)]
           mem == [s \in Transfers |-> Mem(s)]
<1>1. /\ \A s \in Transfers \ {t} : PhaseOf(s)' = PhaseOf(s) /\ Mem(s)' = Mem(s)
      /\ PhaseOf(t) = "unborn" /\ PhaseOf(t)' = "idle"
  BY DEF SameAbstract, PhaseOf
<1>2. /\ phase[t] = "unborn" /\ phase' = [phase EXCEPT ![t] = "idle"]
      /\ mem' = [mem EXCEPT ![t] = p]
      /\ \A s \in Transfers : mem[s] # p
  BY <1>1
<1>. QED
  BY <1>2 DEF ProtocolStep, Protocol!Next, Protocol!Create, Protocol!Advance

\* A transfer that gives its memory back.
LEMMA Frees ==
  ASSUME NEW t \in Transfers, UNCHANGED created,
         \A s \in Transfers \ {t} : SameAbstract(s),
         PhaseOf(t) = "idle", t \in created, Mem(t)' = NULL
  PROVE  ProtocolStep
<1> DEFINE phase == [s \in Transfers |-> PhaseOf(s)]
           mem == [s \in Transfers |-> Mem(s)]
<1>1. /\ \A s \in Transfers \ {t} : PhaseOf(s)' = PhaseOf(s) /\ Mem(s)' = Mem(s)
      /\ PhaseOf(t)' = "freed"
  BY DEF SameAbstract, PhaseOf
<1>2. /\ phase[t] = "idle" /\ phase' = [phase EXCEPT ![t] = "freed"]
      /\ mem' = [mem EXCEPT ![t] = NULL]
  BY <1>1
<1>. QED
  BY <1>2 DEF ProtocolStep, Protocol!Next, Protocol!Free, Protocol!Advance

-----------------------------------------------------------------------------
(* Steps that only take, pass on or release the mutex. *)

\* Labels the shared state depends on.
Critical == {"submitted", "collect", "release", "clear"}

\* Moving between other labels disturbs nothing but what CallInv says.
LEMMA ControlStep ==
  ASSUME IInv, TypeOK', UNCHANGED ptr,
         UNCHANGED <<created, xfer, submitted, done, xferDoneMap, cVars, loopVars>>,
         NEW g \in Goroutines, pc[g] # "register", pc'[g] # "register",
         \A h \in Goroutines \ {g} : pc'[h] = pc[h] /\ target'[h] = target[h],
         \A s \in Transfers : \A k \in Critical : HolderAt(s, k)' <=> HolderAt(s, k)
  PROVE  /\ CreateInv' /\ MemInv' /\ LoopInv' /\ OneSignalPerSubmission' /\ StatusInv'
         /\ ProtocolStep
<1>1. \A s \in Transfers : /\ Mem(s)' = Mem(s)
                           /\ Outstanding(s)' <=> Outstanding(s)
                           /\ Collecting(s)' <=> Collecting(s)
                           /\ HolderAt(s, "release")' <=> HolderAt(s, "release")
  BY DEF Mem, Outstanding, Collecting, Critical
<1>2. \A s \in Transfers : /\ InFlight(s)' <=> InFlight(s)
                           /\ InCallback(s)' <=> InCallback(s)
                           /\ Signalled(s)' <=> Signalled(s)
  BY <1>1 DEF InFlight, InCallback, Signalled, cVars, loopVars
<1>3. CreateInv'
  BY <1>1 DEF IInv, CreateInv, cVars
<1>4. MemInv' /\ LoopInv'
  BY <1>1 DEF IInv, MemInv, LoopInv, cVars, loopVars
<1>5. OneSignalPerSubmission' /\ StatusInv'
  BY <1>1, <1>2 DEF IInv, OneSignalPerSubmission, StatusInv, cVars
<1>6. ProtocolStep
  BY <1>1, <1>2, Stutters DEF SameAbstract
<1>. QED
  BY <1>3, <1>4, <1>5, <1>6

\* The first step of submit, wait, cancel and free.
LEMMA LockKeeps ==
  ASSUME IInv, NEW g \in Goroutines, NEW t \in Transfers,
         NEW label \in {"submit", "wait", "wait_bg", "cancel", "free"},
         Lock(g, t, label), label = "submit" => xfer[t] # NULL,
         UNCHANGED <<created, xfer, submitted, done, xferDoneMap, cVars, loopVars>>
  PROVE  IInv' /\ ProtocolStep
<1>1. label \in Labels \ {"idle", "register"}
  BY DEF Labels
<1>2. /\ LockInv'
      /\ \A k : ~HolderAt(t, k)
      /\ \A k : HolderAt(t, k)' <=> k = label
      /\ \A s \in Transfers \ {t} : \A k : HolderAt(s, k)' <=> HolderAt(s, k)
      /\ \A h \in Goroutines \ {g} : pc'[h] = pc[h] /\ target'[h] = target[h]
      /\ pc'[g] = label /\ target'[g] = t /\ ptr' = ptr
  BY <1>1, LockStep DEF IInv
<1>3. TypeOK'
  BY <1>1 DEF IInv, TypeOK, Lock, cVars, loopVars
<1>4. pc[g] # "register" /\ pc'[g] # "register"
  BY <1>2 DEF Lock
<1>5. \A s \in Transfers : \A k \in Critical : HolderAt(s, k)' <=> HolderAt(s, k)
  BY <1>2 DEF Critical
<1>6. /\ CreateInv' /\ MemInv' /\ LoopInv' /\ OneSignalPerSubmission' /\ StatusInv'
      /\ ProtocolStep
  BY <1>2, <1>3, <1>4, <1>5, ControlStep
<1>7. CallInv'
  BY <1>2 DEF IInv, CallInv
<1>. QED
  BY <1>2, <1>3, <1>6, <1>7 DEF IInv

\* A method that returns without having done anything.
LEMMA ReturnKeeps ==
  ASSUME IInv, NEW g \in Goroutines, InMethod(g), pc[g] \notin Critical,
         Return(g),
         UNCHANGED <<created, xfer, submitted, done, xferDoneMap, cVars, loopVars>>
  PROVE  IInv' /\ ProtocolStep
<1>1. PICK t \in Transfers : target[g] = t /\ (\A k : HolderAt(t, k) <=> pc[g] = k)
  BY Inside DEF IInv
<1>2. /\ LockInv'
      /\ \A k : ~HolderAt(t, k)'
      /\ \A s \in Transfers \ {t} : \A k : HolderAt(s, k)' <=> HolderAt(s, k)
      /\ \A h \in Goroutines \ {g} : pc'[h] = pc[h] /\ target'[h] = target[h]
      /\ pc'[g] = "idle" /\ ptr' = ptr
  BY <1>1, ReturnStep DEF IInv
<1>3. TypeOK'
  BY DEF IInv, TypeOK, Return, Labels, cVars, loopVars
<1>4. pc[g] # "register" /\ pc'[g] # "register"
  BY <1>2 DEF InMethod
<1>5. \A s \in Transfers : \A k \in Critical : HolderAt(s, k)' <=> HolderAt(s, k)
  BY <1>1, <1>2
<1>6. /\ CreateInv' /\ MemInv' /\ LoopInv' /\ OneSignalPerSubmission' /\ StatusInv'
      /\ ProtocolStep
  BY <1>2, <1>3, <1>4, <1>5, ControlStep
<1>7. CallInv'
  BY <1>2 DEF IInv, CallInv
<1>. QED
  BY <1>2, <1>3, <1>6, <1>7 DEF IInv

-----------------------------------------------------------------------------
(* submit *)

\* libusb takes the transfer over.
LEMMA SubmitCallKeeps ==
  ASSUME IInv, NEW g \in Goroutines, SubmitCall(g)
  PROVE  IInv' /\ ProtocolStep
<1>1. pc[g] = "submit" /\ InMethod(g)
  BY DEF SubmitCall, At, InMethod
<1>2. PICK t \in Transfers : target[g] = t /\ (\A k : HolderAt(t, k) <=> pc[g] = k)
  BY <1>1, Inside DEF IInv
<1>3. /\ LockInv'
      /\ \A k : HolderAt(t, k)' <=> k = "submitted"
      /\ \A s \in Transfers \ {t} : \A k : HolderAt(s, k)' <=> HolderAt(s, k)
      /\ \A h \in Goroutines \ {g} : pc'[h] = pc[h] /\ target'[h] = target[h]
      /\ pc'[g] = "submitted" /\ target' = target /\ ptr' = ptr
  BY <1>1, <1>2, GotoStep DEF IInv, SubmitCall, Labels
<1>4. TypeOK'
  BY DEF IInv, TypeOK, SubmitCall, Goto, Labels, loopVars
<1>5. /\ \A s \in Transfers : /\ Mem(s)' = Mem(s)
                              /\ Collecting(s)' <=> Collecting(s)
                              /\ HolderAt(s, "release")' <=> HolderAt(s, "release")
      /\ \A s \in Transfers \ {t} : Outstanding(s)' <=> Outstanding(s)
      /\ ~Outstanding(t) /\ Outstanding(t)'
      /\ ~Collecting(t)
      /\ Mem(t) = xfer[t] /\ Mem(t) \in Ptrs
  BY <1>1, <1>2, <1>3
     DEF Mem, Outstanding, Collecting, SubmitCall, At, IInv, CallInv, TypeOK
<1>6. /\ lib' = [lib EXCEPT ![Mem(t)] = "inflight"]
      /\ status' = [status EXCEPT ![Mem(t)] = "pending"]
      /\ UNCHANGED <<created, xfer, submitted, done, xferDoneMap, heap, loopVars>>
  BY <1>2, <1>5 DEF SubmitCall
<1>7. \A s \in Transfers \ {t} : Mem(s) # Mem(t)
  BY <1>5, TransferAssumption DEF IInv, MemInv
<1>8. /\ \A s \in Transfers : /\ InCallback(s)' <=> InCallback(s)
                              /\ Signalled(s)' <=> Signalled(s)
      /\ \A s \in Transfers \ {t} : InFlight(s)' <=> InFlight(s)
      /\ InFlight(t)'
  BY <1>5, <1>6, <1>7, TransferAssumption
     DEF InFlight, InCallback, Signalled, loopVars, IInv, TypeOK
<1>9. CreateInv'
  BY <1>3, <1>5, <1>6 DEF IInv, CreateInv, SubmitCall, At
<1>10. CallInv'
  BY <1>2, <1>3, <1>6 DEF IInv, CallInv, SubmitCall, At
<1>11. MemInv'
  BY <1>5, <1>6, TransferAssumption DEF IInv, MemInv
<1>12. LoopInv'
  BY <1>5, <1>6 DEF IInv, LoopInv, TypeOK, loopVars
<1>13. OneSignalPerSubmission'
  BY <1>5, <1>8 DEF IInv, OneSignalPerSubmission
<1>14. StatusInv'
  BY <1>5, <1>6, <1>7, <1>8 DEF IInv, StatusInv, OneSignalPerSubmission, TypeOK
<1>15. t \in created /\ Mem(t) # NULL /\ ~InFlight(t)
  BY <1>5, TransferAssumption DEF IInv, CreateInv, OneSignalPerSubmission
<1>16. ProtocolStep
  BY <1>5, <1>6, <1>8, <1>15, Advances DEF SameAbstract, PhaseOf
<1>. QED
  BY <1>3, <1>4, <1>9, <1>10, <1>11, <1>12, <1>13, <1>14, <1>16 DEF IInv

\* libusb refuses the transfer.
LEMMA SubmitFailsKeeps ==
  ASSUME IInv, NEW g \in Goroutines, SubmitFails(g)
  PROVE  IInv' /\ ProtocolStep
<1>1. pc[g] = "submit" /\ InMethod(g)
  BY DEF SubmitFails, At, InMethod
<1>2. PICK t \in Transfers : target[g] = t /\ (\A k : HolderAt(t, k) <=> pc[g] = k)
  BY <1>1, Inside DEF IInv
<1>3. /\ LockInv'
      /\ \A k : ~HolderAt(t, k)'
      /\ \A s \in Transfers \ {t} : \A k : HolderAt(s, k)' <=> HolderAt(s, k)
      /\ \A h \in Goroutines \ {g} : pc'[h] = pc[h] /\ target'[h] = target[h]
      /\ pc'[g] = "idle" /\ ptr' = ptr
  BY <1>1, <1>2, ReturnStep DEF IInv, SubmitFails
<1>4. TypeOK'
  BY DEF IInv, TypeOK, SubmitFails, Return, Labels, loopVars
<1>5. /\ \A s \in Transfers : /\ Mem(s)' = Mem(s)
                              /\ Outstanding(s)' <=> Outstanding(s)
                              /\ Collecting(s)' <=> Collecting(s)
                              /\ HolderAt(s, "release")' <=> HolderAt(s, "release")
      /\ ~Outstanding(t)
      /\ Mem(t) = xfer[t] /\ Mem(t) \in Ptrs
  BY <1>1, <1>2, <1>3
     DEF Mem, Outstanding, Collecting, SubmitFails, At, IInv, CallInv, TypeOK
<1>6. /\ status' = [status EXCEPT ![Mem(t)] = "pending"]
      /\ UNCHANGED <<created, xfer, submitted, done, xferDoneMap, heap, lib, loopVars>>
  BY <1>2, <1>5 DEF SubmitFails
<1>7. \A s \in Transfers \ {t} : Mem(s) # Mem(t)
  BY <1>5, TransferAssumption DEF IInv, MemInv
<1>8. \A s \in Transfers : /\ InCallback(s)' <=> InCallback(s)
                           /\ Signalled(s)' <=> Signalled(s)
                           /\ InFlight(s)' <=> InFlight(s)
  BY <1>5, <1>6 DEF InFlight, InCallback, Signalled, loopVars
<1>9. CreateInv'
  BY <1>3, <1>5, <1>6 DEF IInv, CreateInv
<1>10. CallInv'
  BY <1>3, <1>6 DEF IInv, CallInv
<1>11. MemInv'
  BY <1>5, <1>6 DEF IInv, MemInv
<1>12. LoopInv'
  BY <1>5, <1>6 DEF IInv, LoopInv, loopVars
<1>13. OneSignalPerSubmission'
  BY <1>5, <1>8 DEF IInv, OneSignalPerSubmission
<1>14. StatusInv'
  BY <1>5, <1>6, <1>7, <1>8 DEF IInv, StatusInv, OneSignalPerSubmission, TypeOK
<1>15. ProtocolStep
  BY <1>5, <1>6, <1>8, Stutters DEF SameAbstract
<1>. QED
  BY <1>3, <1>4, <1>9, <1>10, <1>11, <1>12, <1>13, <1>14, <1>15 DEF IInv

\* submit records the submission.
LEMMA SubmitReturnKeeps ==
  ASSUME IInv, NEW g \in Goroutines, SubmitReturn(g)
  PROVE  IInv' /\ ProtocolStep
<1>1. pc[g] = "submitted" /\ InMethod(g)
  BY DEF SubmitReturn, At, InMethod
<1>2. PICK t \in Transfers : target[g] = t /\ (\A k : HolderAt(t, k) <=> pc[g] = k)
  BY <1>1, Inside DEF IInv
<1>3. /\ LockInv'
      /\ \A k : ~HolderAt(t, k)'
      /\ \A s \in Transfers \ {t} : \A k : HolderAt(s, k)' <=> HolderAt(s, k)
      /\ \A h \in Goroutines \ {g} : pc'[h] = pc[h] /\ target'[h] = target[h]
      /\ pc'[g] = "idle" /\ ptr' = ptr
  BY <1>1, <1>2, ReturnStep DEF IInv, SubmitReturn
<1>4. TypeOK'
  BY DEF IInv, TypeOK, SubmitReturn, Return, Labels, cVars, loopVars
<1>5. /\ \A s \in Transfers : /\ Mem(s)' = Mem(s)
                              /\ Outstanding(s)' <=> Outstanding(s)
                              /\ Collecting(s)' <=> Collecting(s)
                              /\ HolderAt(s, "release")' <=> HolderAt(s, "release")
      /\ Outstanding(t)
  BY <1>1, <1>2, <1>3 DEF Mem, Outstanding, Collecting, SubmitReturn, IInv, TypeOK
<1>6. /\ submitted' = [submitted EXCEPT ![t] = TRUE]
      /\ UNCHANGED <<created, xfer, done, xferDoneMap, heap, lib, status, loopVars>>
  BY <1>2 DEF SubmitReturn, cVars
<1>7. \A s \in Transfers : /\ InCallback(s)' <=> InCallback(s)
                           /\ Signalled(s)' <=> Signalled(s)
                           /\ InFlight(s)' <=> InFlight(s)
  BY <1>5, <1>6 DEF InFlight, InCallback, Signalled, loopVars
<1>8. CreateInv'
  BY <1>1, <1>2, <1>3, <1>5, <1>6 DEF IInv, CreateInv, LockInv, TypeOK
<1>9. CallInv'
  BY <1>1, <1>2, <1>3, <1>6 DEF IInv, CallInv, LockInv, TypeOK, InMethod
<1>10. MemInv'
  BY <1>5, <1>6 DEF IInv, MemInv
<1>11. LoopInv'
  BY <1>5, <1>6 DEF IInv, LoopInv, loopVars
<1>12. OneSignalPerSubmission'
  BY <1>5, <1>7 DEF IInv, OneSignalPerSubmission
<1>13. StatusInv'
  BY <1>5, <1>6, <1>7 DEF IInv, StatusInv
<1>14. ProtocolStep
  BY <1>5, <1>6, <1>7, Stutters DEF SameAbstract
<1>. QED
  BY <1>3, <1>4, <1>8, <1>9, <1>10, <1>11, <1>12, <1>13, <1>14 DEF IInv

-----------------------------------------------------------------------------
(* wait and cancel *)

\* wait takes the signal.
LEMMA WaitDoneKeeps ==
  ASSUME IInv, NEW g \in Goroutines, WaitDone(g)
  PROVE  IInv' /\ ProtocolStep
<1>1. pc[g] \in {"wait", "wait_bg"} /\ InMethod(g)
  BY DEF WaitDone, At, InMethod
<1>2. PICK t \in Transfers : target[g] = t /\ (\A k : HolderAt(t, k) <=> pc[g] = k)
  BY <1>1, Inside DEF IInv
<1>3. /\ LockInv'
      /\ \A k : HolderAt(t, k)' <=> k = "collect"
      /\ \A s \in Transfers \ {t} : \A k : HolderAt(s, k)' <=> HolderAt(s, k)
      /\ \A h \in Goroutines \ {g} : pc'[h] = pc[h] /\ target'[h] = target[h]
      /\ pc'[g] = "collect" /\ target' = target /\ ptr' = ptr
  <2>1. /\ Goto(g, "collect") /\ UNCHANGED created
        /\ "collect" \in Labels \ {"idle", "register"}
    BY DEF WaitDone, Labels
  <2>2. TypeOK /\ LockInv
    BY DEF IInv
  <2>. QED
    BY <1>1, <1>2, <2>1, <2>2, GotoStep
<1>4. TypeOK'
  BY DEF IInv, TypeOK, WaitDone, Goto, Labels, cVars, loopVars
<1>5. /\ \A s \in Transfers : /\ Mem(s)' = Mem(s)
                              /\ Outstanding(s)' <=> Outstanding(s)
                              /\ HolderAt(s, "release")' <=> HolderAt(s, "release")
      /\ \A s \in Transfers \ {t} : Collecting(s)' <=> Collecting(s)
      /\ submitted[t] /\ Outstanding(t) /\ Collecting(t)'
  BY <1>1, <1>2, <1>3 DEF Mem, Outstanding, Collecting, WaitDone, IInv, TypeOK, CallInv
<1>6. /\ done[t] = 1
      /\ done' = [done EXCEPT ![t] = 0]
      /\ UNCHANGED <<created, xfer, submitted, xferDoneMap, heap, lib, status, loopVars>>
  BY <1>2 DEF WaitDone, cVars
<1>7. /\ \A s \in Transfers : /\ InCallback(s)' <=> InCallback(s)
                              /\ InFlight(s)' <=> InFlight(s)
      /\ \A s \in Transfers \ {t} : Signalled(s)' <=> Signalled(s)
      /\ Signalled(t) /\ ~Signalled(t)'
  BY <1>5, <1>6 DEF InFlight, InCallback, Signalled, loopVars, IInv, TypeOK
<1>8. CreateInv'
  BY <1>3, <1>5, <1>6 DEF IInv, CreateInv, TypeOK
<1>9. CallInv'
  BY <1>2, <1>3, <1>5, <1>6 DEF IInv, CallInv
<1>10. MemInv'
  BY <1>5, <1>6 DEF IInv, MemInv
<1>11. LoopInv'
  BY <1>5, <1>6 DEF IInv, LoopInv, loopVars
<1>12. OneSignalPerSubmission'
  BY <1>5, <1>7 DEF IInv, OneSignalPerSubmission
<1>13. StatusInv'
  BY <1>5, <1>6, <1>7 DEF IInv, StatusInv
<1>14. ProtocolStep
  BY <1>5, <1>6, <1>7, Stutters DEF SameAbstract
<1>. QED
  BY <1>3, <1>4, <1>8, <1>9, <1>10, <1>11, <1>12, <1>13, <1>14 DEF IInv

\* wait takes the signal after its context has ended.
LEMMA WaitDrainedKeeps ==
  ASSUME IInv, NEW g \in Goroutines, WaitDrained(g)
  PROVE  IInv' /\ ProtocolStep
<1>1. pc[g] = "drain" /\ InMethod(g)
  BY DEF WaitDrained, At, InMethod
<1>2. PICK t \in Transfers : target[g] = t /\ (\A k : HolderAt(t, k) <=> pc[g] = k)
  BY <1>1, Inside DEF IInv
<1>3. /\ LockInv'
      /\ \A k : HolderAt(t, k)' <=> k = "collect"
      /\ \A s \in Transfers \ {t} : \A k : HolderAt(s, k)' <=> HolderAt(s, k)
      /\ \A h \in Goroutines \ {g} : pc'[h] = pc[h] /\ target'[h] = target[h]
      /\ pc'[g] = "collect" /\ target' = target /\ ptr' = ptr
  BY <1>1, <1>2, GotoStep DEF IInv, WaitDrained, Labels
<1>4. TypeOK'
  BY DEF IInv, TypeOK, WaitDrained, Goto, Labels, cVars, loopVars
<1>5. /\ \A s \in Transfers : /\ Mem(s)' = Mem(s)
                              /\ Outstanding(s)' <=> Outstanding(s)
                              /\ HolderAt(s, "release")' <=> HolderAt(s, "release")
      /\ \A s \in Transfers \ {t} : Collecting(s)' <=> Collecting(s)
      /\ submitted[t] /\ Outstanding(t) /\ Collecting(t)'
  BY <1>1, <1>2, <1>3 DEF Mem, Outstanding, Collecting, WaitDrained, IInv, TypeOK, CallInv
<1>6. /\ done[t] = 1
      /\ done' = [done EXCEPT ![t] = 0]
      /\ UNCHANGED <<created, xfer, submitted, xferDoneMap, heap, lib, status, loopVars>>
  BY <1>2 DEF WaitDrained, cVars
<1>7. /\ \A s \in Transfers : /\ InCallback(s)' <=> InCallback(s)
                              /\ InFlight(s)' <=> InFlight(s)
      /\ \A s \in Transfers \ {t} : Signalled(s)' <=> Signalled(s)
      /\ Signalled(t) /\ ~Signalled(t)'
  BY <1>5, <1>6 DEF InFlight, InCallback, Signalled, loopVars, IInv, TypeOK
<1>8. CreateInv'
  BY <1>3, <1>5, <1>6 DEF IInv, CreateInv, TypeOK
<1>9. CallInv'
  BY <1>2, <1>3, <1>5, <1>6 DEF IInv, CallInv
<1>10. MemInv'
  BY <1>5, <1>6 DEF IInv, MemInv
<1>11. LoopInv'
  BY <1>5, <1>6 DEF IInv, LoopInv, loopVars
<1>12. OneSignalPerSubmission'
  BY <1>5, <1>7 DEF IInv, OneSignalPerSubmission
<1>13. StatusInv'
  BY <1>5, <1>6, <1>7 DEF IInv, StatusInv
<1>14. ProtocolStep
  BY <1>5, <1>6, <1>7, Stutters DEF SameAbstract
<1>. QED
  BY <1>3, <1>4, <1>8, <1>9, <1>10, <1>11, <1>12, <1>13, <1>14 DEF IInv

\* wait gives the buffer back to its caller.
LEMMA WaitCollectKeeps ==
  ASSUME IInv, NEW g \in Goroutines, WaitCollect(g)
  PROVE  IInv' /\ ProtocolStep
<1>1. pc[g] = "collect" /\ InMethod(g)
  BY DEF WaitCollect, At, InMethod
<1>2. PICK t \in Transfers : target[g] = t /\ (\A k : HolderAt(t, k) <=> pc[g] = k)
  BY <1>1, Inside DEF IInv
<1>3. /\ LockInv'
      /\ \A k : ~HolderAt(t, k)'
      /\ \A s \in Transfers \ {t} : \A k : HolderAt(s, k)' <=> HolderAt(s, k)
      /\ \A h \in Goroutines \ {g} : pc'[h] = pc[h] /\ target'[h] = target[h]
      /\ pc'[g] = "idle" /\ ptr' = ptr
  BY <1>1, <1>2, ReturnStep DEF IInv, WaitCollect
<1>4. TypeOK'
  BY DEF IInv, TypeOK, WaitCollect, Return, Labels, cVars, loopVars
<1>5. /\ submitted' = [submitted EXCEPT ![t] = FALSE]
      /\ UNCHANGED <<created, xfer, done, xferDoneMap, heap, lib, status, loopVars>>
  BY <1>2 DEF WaitCollect, cVars
<1>6. /\ \A s \in Transfers : /\ Mem(s)' = Mem(s)
                              /\ HolderAt(s, "release")' <=> HolderAt(s, "release")
      /\ \A s \in Transfers \ {t} : /\ Outstanding(s)' <=> Outstanding(s)
                                    /\ Collecting(s)' <=> Collecting(s)
      /\ Collecting(t) /\ ~Outstanding(t)' /\ ~Collecting(t)'
  BY <1>1, <1>2, <1>3, <1>5 DEF Mem, Outstanding, Collecting, IInv, TypeOK
<1>7. \A s \in Transfers : /\ InCallback(s)' <=> InCallback(s)
                           /\ Signalled(s)' <=> Signalled(s)
                           /\ InFlight(s)' <=> InFlight(s)
  BY <1>5, <1>6 DEF InFlight, InCallback, Signalled, loopVars
<1>8. CreateInv'
  BY <1>3, <1>5, <1>6 DEF IInv, CreateInv, TypeOK
<1>9. CallInv'
  BY <1>1, <1>2, <1>3, <1>5 DEF IInv, CallInv, LockInv, TypeOK, InMethod
<1>10. MemInv'
  BY <1>5, <1>6 DEF IInv, MemInv
<1>11. LoopInv'
  BY <1>5, <1>6 DEF IInv, LoopInv, loopVars
<1>12. OneSignalPerSubmission'
  BY <1>6, <1>7 DEF IInv, OneSignalPerSubmission
<1>13. StatusInv'
  BY <1>5, <1>6, <1>7 DEF IInv, StatusInv
<1>14. ProtocolStep
  BY <1>5, <1>6, <1>7, Advances DEF SameAbstract, PhaseOf, IInv, CreateInv,
     OneSignalPerSubmission, MemInv, Mem
<1>. QED
  BY <1>3, <1>4, <1>8, <1>9, <1>10, <1>11, <1>12, <1>13, <1>14 DEF IInv

\* wait cancels the transfer when its context ends.
LEMMA WaitCtxDoneKeeps ==
  ASSUME IInv, NEW g \in Goroutines, WaitCtxDone(g)
  PROVE  IInv' /\ ProtocolStep
<1>1. pc[g] = "wait" /\ InMethod(g) /\ Goto(g, "drain") /\ UNCHANGED created
  BY DEF WaitCtxDone, At, InMethod
<1>2. PICK t \in Transfers : target[g] = t /\ (\A k : HolderAt(t, k) <=> pc[g] = k)
  BY <1>1, Inside DEF IInv
<1>3. /\ LockInv'
      /\ \A k : HolderAt(t, k)' <=> k = "drain"
      /\ \A s \in Transfers \ {t} : \A k : HolderAt(s, k)' <=> HolderAt(s, k)
      /\ \A h \in Goroutines \ {g} : pc'[h] = pc[h] /\ target'[h] = target[h]
      /\ pc'[g] = "drain" /\ target' = target /\ ptr' = ptr
  BY <1>1, <1>2, GotoStep DEF IInv, Labels
<1>4. /\ lib' = lib \/ (lib[xfer[t]] = "inflight" /\ lib' = [lib EXCEPT ![xfer[t]] = "cancelling"])
      /\ UNCHANGED <<created, xfer, submitted, done, xferDoneMap, heap, status, loopVars>>
  BY <1>2 DEF WaitCtxDone, LibCancel
<1>5. TypeOK'
  BY <1>4 DEF IInv, TypeOK, WaitCtxDone, Goto, Labels, loopVars
<1>6. \A s \in Transfers : /\ Mem(s)' = Mem(s)
                           /\ Outstanding(s)' <=> Outstanding(s)
                           /\ Collecting(s)' <=> Collecting(s)
                           /\ HolderAt(s, "release")' <=> HolderAt(s, "release")
  BY <1>1, <1>2, <1>3, <1>4 DEF Mem, Outstanding, Collecting
<1>7. \A p \in Ptrs : lib'[p] = "idle" <=> lib[p] = "idle"
  BY <1>4 DEF IInv, TypeOK
<1>8. \A s \in Transfers : /\ InCallback(s)' <=> InCallback(s)
                           /\ Signalled(s)' <=> Signalled(s)
                           /\ InFlight(s)' <=> InFlight(s)
  BY <1>4, <1>6, <1>7 DEF InFlight, InCallback, Signalled, loopVars, IInv, TypeOK, Mem
<1>9. CreateInv'
  BY <1>1, <1>3, <1>4, <1>6 DEF IInv, CreateInv
<1>10. CallInv'
  BY <1>2, <1>3, <1>4 DEF IInv, CallInv, WaitCtxDone, At
<1>11. MemInv'
  BY <1>4, <1>6 DEF IInv, MemInv
<1>12. LoopInv'
  BY <1>4, <1>6, <1>7 DEF IInv, LoopInv, loopVars
<1>13. OneSignalPerSubmission'
  BY <1>6, <1>8 DEF IInv, OneSignalPerSubmission
<1>14. StatusInv'
  BY <1>4, <1>6, <1>8 DEF IInv, StatusInv
<1>15. ProtocolStep
  BY <1>4, <1>6, <1>8, Stutters DEF SameAbstract
<1>. QED
  BY <1>3, <1>5, <1>9, <1>10, <1>11, <1>12, <1>13, <1>14, <1>15 DEF IInv

\* cancel asks libusb to abort the transfer.
LEMMA CancelReturnKeeps ==
  ASSUME IInv, NEW g \in Goroutines, CancelReturn(g)
  PROVE  IInv' /\ ProtocolStep
<1>1. pc[g] = "cancel" /\ InMethod(g)
  BY DEF CancelReturn, At, InMethod
<1>2. PICK t \in Transfers : target[g] = t /\ (\A k : HolderAt(t, k) <=> pc[g] = k)
  BY <1>1, Inside DEF IInv
<1>3. /\ LockInv'
      /\ \A k : ~HolderAt(t, k)'
      /\ \A s \in Transfers \ {t} : \A k : HolderAt(s, k)' <=> HolderAt(s, k)
      /\ \A h \in Goroutines \ {g} : pc'[h] = pc[h] /\ target'[h] = target[h]
      /\ pc'[g] = "idle" /\ ptr' = ptr
  BY <1>1, <1>2, ReturnStep DEF IInv, CancelReturn
<1>4. /\ lib' = lib \/ (lib[xfer[t]] = "inflight" /\ lib' = [lib EXCEPT ![xfer[t]] = "cancelling"])
      /\ UNCHANGED <<created, xfer, submitted, done, xferDoneMap, heap, status, loopVars>>
  BY <1>2 DEF CancelReturn, LibCancel
<1>5. TypeOK'
  BY <1>4 DEF IInv, TypeOK, CancelReturn, Return, Labels, loopVars
<1>6. \A s \in Transfers : /\ Mem(s)' = Mem(s)
                           /\ Outstanding(s)' <=> Outstanding(s)
                           /\ Collecting(s)' <=> Collecting(s)
                           /\ HolderAt(s, "release")' <=> HolderAt(s, "release")
  BY <1>1, <1>2, <1>3, <1>4 DEF Mem, Outstanding, Collecting
<1>7. \A p \in Ptrs : lib'[p] = "idle" <=> lib[p] = "idle"
  BY <1>4 DEF IInv, TypeOK
<1>8. \A s \in Transfers : /\ InCallback(s)' <=> InCallback(s)
                           /\ Signalled(s)' <=> Signalled(s)
                           /\ InFlight(s)' <=> InFlight(s)
  BY <1>4, <1>6, <1>7 DEF InFlight, InCallback, Signalled, loopVars, IInv, TypeOK, Mem
<1>9. CreateInv'
  BY <1>1, <1>3, <1>4, <1>6 DEF IInv, CreateInv
<1>10. CallInv'
  BY <1>2, <1>3, <1>4 DEF IInv, CallInv, CancelReturn, At
<1>11. MemInv'
  BY <1>4, <1>6 DEF IInv, MemInv
<1>12. LoopInv'
  BY <1>4, <1>6, <1>7 DEF IInv, LoopInv, loopVars
<1>13. OneSignalPerSubmission'
  BY <1>6, <1>8 DEF IInv, OneSignalPerSubmission
<1>14. StatusInv'
  BY <1>4, <1>6, <1>8 DEF IInv, StatusInv
<1>15. ProtocolStep
  BY <1>4, <1>6, <1>8, Stutters DEF SameAbstract
<1>. QED
  BY <1>3, <1>5, <1>9, <1>10, <1>11, <1>12, <1>13, <1>14, <1>15 DEF IInv
-----------------------------------------------------------------------------
(* free *)

\* free finds an idle transfer.
LEMMA FreeStartKeeps ==
  ASSUME IInv, NEW g \in Goroutines, FreeStart(g)
  PROVE  IInv' /\ ProtocolStep
<1>1. pc[g] = "free" /\ InMethod(g)
  BY DEF FreeStart, At, InMethod
<1>2. PICK t \in Transfers : target[g] = t /\ (\A k : HolderAt(t, k) <=> pc[g] = k)
  BY <1>1, Inside DEF IInv
<1>3. /\ LockInv'
      /\ \A k : HolderAt(t, k)' <=> k = "unregister"
      /\ \A s \in Transfers \ {t} : \A k : HolderAt(s, k)' <=> HolderAt(s, k)
      /\ \A h \in Goroutines \ {g} : pc'[h] = pc[h] /\ target'[h] = target[h]
      /\ pc'[g] = "unregister" /\ target' = target /\ ptr' = ptr
  BY <1>1, <1>2, GotoStep DEF IInv, FreeStart, Labels
<1>4. TypeOK'
  BY DEF IInv, TypeOK, FreeStart, Goto, Labels, cVars, loopVars
<1>5. \A s \in Transfers : \A k \in Critical : HolderAt(s, k)' <=> HolderAt(s, k)
  BY <1>1, <1>2, <1>3 DEF Critical
<1>6. /\ CreateInv' /\ MemInv' /\ LoopInv' /\ OneSignalPerSubmission' /\ StatusInv'
      /\ ProtocolStep
  BY <1>1, <1>3, <1>4, <1>5, ControlStep DEF FreeStart
<1>7. CallInv'
  BY <1>2, <1>3 DEF IInv, CallInv, FreeStart
<1>. QED
  BY <1>3, <1>4, <1>6, <1>7 DEF IInv

\* free releases the registration, then the memory, of an idle transfer.
LEMMA LibFreeKeeps ==
  ASSUME IInv, NEW g \in Goroutines, LibFree(g)
  PROVE  IInv' /\ ProtocolStep
<1>1. pc[g] \in {"unregister", "release"} /\ InMethod(g)
  BY DEF LibFree, At, InMethod
<1>2. PICK t \in Transfers : target[g] = t /\ (\A k : HolderAt(t, k) <=> pc[g] = k)
  BY <1>1, Inside DEF IInv
<1>3. /\ ~submitted[t] /\ ~Outstanding(t)
      /\ Mem(t) = xfer[t] /\ Mem(t) \in Ptrs /\ Mem(t) # NULL
  BY <1>1, <1>2, TransferAssumption DEF IInv, CallInv, TypeOK, Mem, Outstanding
<1>4. \A s \in Transfers \ {t} : Mem(s) # Mem(t)
  BY <1>3 DEF IInv, MemInv
<1>5. ~InFlight(t) /\ ~InCallback(t) /\ ~Signalled(t) /\ ~Collecting(t)
  BY <1>3 DEF IInv, OneSignalPerSubmission
<1>6. CASE pc[g] = "unregister"
  <2>1. /\ Goto(g, "release")
        /\ xferDoneMap' = [xferDoneMap EXCEPT ![Mem(t)] = NULL]
        /\ UNCHANGED <<created, xfer, submitted, done, cVars, loopVars>>
    BY <1>2, <1>3, <1>6 DEF LibFree, At
  <2>2. /\ LockInv'
        /\ \A k : HolderAt(t, k)' <=> k = "release"
        /\ \A s \in Transfers \ {t} : \A k : HolderAt(s, k)' <=> HolderAt(s, k)
        /\ \A h \in Goroutines \ {g} : pc'[h] = pc[h] /\ target'[h] = target[h]
        /\ pc'[g] = "release" /\ target' = target /\ ptr' = ptr
    BY <1>1, <1>2, <2>1, GotoStep DEF IInv, Labels
  <2>3. TypeOK'
    BY <2>1 DEF IInv, TypeOK, Goto, Labels, cVars, loopVars
  <2>4. \A s \in Transfers : /\ Mem(s)' = Mem(s)
                             /\ Outstanding(s)' <=> Outstanding(s)
                             /\ Collecting(s)' <=> Collecting(s)
    BY <1>2, <1>6, <2>1, <2>2 DEF Mem, Outstanding, Collecting
  <2>5. \A s \in Transfers : /\ InCallback(s)' <=> InCallback(s)
                             /\ Signalled(s)' <=> Signalled(s)
                             /\ InFlight(s)' <=> InFlight(s)
    BY <2>1, <2>4 DEF InFlight, InCallback, Signalled, cVars, loopVars
  <2>6. CreateInv'
    BY <1>1, <2>1, <2>2, <2>4 DEF IInv, CreateInv, cVars
  <2>7. CallInv'
    BY <1>2, <1>6, <2>1, <2>2 DEF IInv, CallInv
  <2>8. MemInv'
    BY <1>4, <2>1, <2>2, <2>4 DEF IInv, MemInv, cVars, TypeOK
  <2>9. LoopInv'
    BY <2>1, <2>4 DEF IInv, LoopInv, cVars, loopVars
  <2>10. OneSignalPerSubmission' /\ StatusInv'
    BY <2>1, <2>4, <2>5 DEF IInv, OneSignalPerSubmission, StatusInv, cVars
  <2>11. ProtocolStep
    BY <2>1, <2>4, <2>5, Stutters DEF SameAbstract
  <2>. QED
    BY <2>2, <2>3, <2>6, <2>7, <2>8, <2>9, <2>10, <2>11 DEF IInv
<1>7. CASE pc[g] = "release"
  <2>1. /\ Goto(g, "clear")
        /\ heap' = heap \ {Mem(t)}
        /\ UNCHANGED <<created, xfer, submitted, done, xferDoneMap, lib, status, loopVars>>
    BY <1>2, <1>3, <1>7 DEF LibFree, At
  <2>2. /\ LockInv'
        /\ \A k : HolderAt(t, k)' <=> k = "clear"
        /\ \A s \in Transfers \ {t} : \A k : HolderAt(s, k)' <=> HolderAt(s, k)
        /\ \A h \in Goroutines \ {g} : pc'[h] = pc[h] /\ target'[h] = target[h]
        /\ pc'[g] = "clear" /\ target' = target /\ ptr' = ptr
    BY <1>1, <1>2, <2>1, GotoStep DEF IInv, Labels
  <2>3. TypeOK'
    BY <2>1 DEF IInv, TypeOK, Goto, Labels, loopVars
  <2>4. /\ \A s \in Transfers \ {t} : Mem(s)' = Mem(s)
        /\ Mem(t)' = NULL
        /\ \A s \in Transfers : /\ Outstanding(s)' <=> Outstanding(s)
                                /\ Collecting(s)' <=> Collecting(s)
    BY <1>2, <1>7, <2>1, <2>2 DEF Mem, Outstanding, Collecting
  <2>5. \A s \in Transfers : /\ InCallback(s)' <=> InCallback(s)
                             /\ Signalled(s)' <=> Signalled(s)
                             /\ InFlight(s)' <=> InFlight(s)
    BY <1>5, <2>1, <2>4 DEF InFlight, InCallback, Signalled, loopVars
  <2>6. CreateInv'
    <3>1. \A h \in Goroutines : pc'[h] = "register" => ptr[h] \in Ptrs
      BY <2>2 DEF IInv, CreateInv, TypeOK
    <3>. QED
      BY <1>1, <2>1, <2>2, <2>4, <3>1, TransferAssumption DEF IInv, CreateInv
  <2>7. CallInv'
    BY <1>2, <1>7, <2>1, <2>2 DEF IInv, CallInv
  <2>8. MemInv'
    BY <1>3, <1>4, <2>1, <2>2, <2>4 DEF IInv, MemInv, TypeOK
  <2>9. LoopInv'
    BY <1>3, <1>5, <2>1, <2>4 DEF IInv, LoopInv, loopVars, InFlight, InCallback
  <2>10. OneSignalPerSubmission'
    BY <2>4, <2>5 DEF IInv, OneSignalPerSubmission
  <2>11. StatusInv'
    BY <1>5, <2>1, <2>4, <2>5 DEF IInv, StatusInv
  <2>12. t \in created
    BY <1>3 DEF IInv, CreateInv
  <2>13. ProtocolStep
    BY <1>3, <1>5, <2>1, <2>4, <2>5, <2>12, Frees DEF SameAbstract, PhaseOf
  <2>. QED
    BY <2>2, <2>3, <2>6, <2>7, <2>8, <2>9, <2>10, <2>11, <2>13 DEF IInv
<1>. QED
  BY <1>1, <1>6, <1>7

\* free forgets the pointer.
LEMMA FreeClearKeeps ==
  ASSUME IInv, NEW g \in Goroutines, FreeClear(g)
  PROVE  IInv' /\ ProtocolStep
<1>1. pc[g] = "clear" /\ InMethod(g)
  BY DEF FreeClear, At, InMethod
<1>2. PICK t \in Transfers : target[g] = t /\ (\A k : HolderAt(t, k) <=> pc[g] = k)
  BY <1>1, Inside DEF IInv
<1>3. /\ LockInv'
      /\ \A k : ~HolderAt(t, k)'
      /\ \A s \in Transfers \ {t} : \A k : HolderAt(s, k)' <=> HolderAt(s, k)
      /\ \A h \in Goroutines \ {g} : pc'[h] = pc[h] /\ target'[h] = target[h]
      /\ pc'[g] = "idle" /\ ptr' = ptr
  BY <1>1, <1>2, ReturnStep DEF IInv, FreeClear
<1>4. TypeOK'
  BY DEF IInv, TypeOK, FreeClear, Return, Labels, cVars, loopVars
<1>5. /\ xfer' = [xfer EXCEPT ![t] = NULL]
      /\ UNCHANGED <<created, submitted, done, xferDoneMap, cVars, loopVars>>
  BY <1>2 DEF FreeClear
<1>6. \A s \in Transfers : /\ Mem(s)' = Mem(s)
                           /\ Outstanding(s)' <=> Outstanding(s)
                           /\ Collecting(s)' <=> Collecting(s)
                           /\ HolderAt(s, "release")' <=> HolderAt(s, "release")
  BY <1>1, <1>2, <1>3, <1>5 DEF Mem, Outstanding, Collecting, IInv, TypeOK
<1>7. \A s \in Transfers : /\ InCallback(s)' <=> InCallback(s)
                           /\ Signalled(s)' <=> Signalled(s)
                           /\ InFlight(s)' <=> InFlight(s)
  BY <1>5, <1>6 DEF InFlight, InCallback, Signalled, cVars, loopVars
<1>8. CreateInv'
  BY <1>3, <1>5, <1>6 DEF IInv, CreateInv, TypeOK, cVars
<1>9. CallInv'
  BY <1>1, <1>2, <1>3, <1>5 DEF IInv, CallInv, LockInv, TypeOK, InMethod
<1>10. MemInv'
  BY <1>5, <1>6 DEF IInv, MemInv, cVars
<1>11. LoopInv'
  BY <1>5, <1>6 DEF IInv, LoopInv, cVars, loopVars
<1>12. OneSignalPerSubmission'
  BY <1>6, <1>7 DEF IInv, OneSignalPerSubmission
<1>13. StatusInv'
  BY <1>5, <1>6, <1>7 DEF IInv, StatusInv, cVars
<1>14. ProtocolStep
  BY <1>5, <1>6, <1>7, Stutters DEF SameAbstract
<1>. QED
  BY <1>3, <1>4, <1>8, <1>9, <1>10, <1>11, <1>12, <1>13, <1>14 DEF IInv

-----------------------------------------------------------------------------
(* newUSBTransfer *)

\* A goroutine outside any method holds no mutex.
LEMMA Outside ==
  ASSUME TypeOK, LockInv, NEW g \in Goroutines, ~InMethod(g), UNCHANGED mu,
         \A h \in Goroutines \ {g} : pc'[h] = pc[h]
  PROVE  \A s \in Transfers : \A k : HolderAt(s, k)' <=> HolderAt(s, k)
BY TransferAssumption DEF TypeOK, LockInv, HolderAt

\* malloc returns memory that belongs to no transfer.
LEMMA AllocKeeps ==
  ASSUME IInv, NEW g \in Goroutines, NEW t \in Transfers, NEW p \in Ptrs, Alloc(g, t, p)
  PROVE  IInv' /\ ProtocolStep
<1>1. /\ pc[g] = "idle" /\ ~InMethod(g) /\ p \notin heap
      /\ t \notin created /\ \A h \in Goroutines : target[h] # t
      /\ heap' = heap \cup {p} /\ status' = [status EXCEPT ![p] = "pending"]
      /\ pc' = [pc EXCEPT ![g] = "register"]
      /\ target' = [target EXCEPT ![g] = t] /\ ptr' = [ptr EXCEPT ![g] = p]
      /\ UNCHANGED <<mu, created, xfer, submitted, done, xferDoneMap, lib, loopVars>>
  BY DEF Alloc, At, InMethod
<1>2. \A s \in Transfers : \A k : HolderAt(s, k)' <=> HolderAt(s, k)
  BY <1>1, Outside DEF IInv, TypeOK
<1>3. TypeOK'
  BY <1>1 DEF IInv, TypeOK, Labels, loopVars
<1>4. LockInv'
  BY <1>1, TransferAssumption DEF IInv, LockInv, TypeOK, InMethod
<1>5. \A s \in Transfers : /\ Mem(s)' = Mem(s)
                           /\ Outstanding(s)' <=> Outstanding(s)
                           /\ Collecting(s)' <=> Collecting(s)
                           /\ HolderAt(s, "release")' <=> HolderAt(s, "release")
  BY <1>1, <1>2 DEF Mem, Outstanding, Collecting
<1>6. \A s \in Transfers : /\ InCallback(s)' <=> InCallback(s)
                           /\ Signalled(s)' <=> Signalled(s)
                           /\ InFlight(s)' <=> InFlight(s)
  BY <1>1, <1>5 DEF InFlight, InCallback, Signalled, loopVars
<1>7. \A s \in Transfers : Mem(s) # p
  BY <1>1, TransferAssumption DEF IInv, MemInv
<1>8. \A h \in Goroutines \ {g} : pc[h] = "register" => ptr[h] # p
  BY <1>1 DEF IInv, CreateInv
<1>9. CreateInv'
  BY <1>1, <1>5, <1>7, <1>8 DEF IInv, CreateInv, TypeOK
<1>10. CallInv'
  BY <1>1 DEF IInv, CallInv, TypeOK
<1>11. MemInv'
  BY <1>1, <1>5 DEF IInv, MemInv
<1>12. LoopInv'
  BY <1>1, <1>5 DEF IInv, LoopInv, loopVars
<1>13. OneSignalPerSubmission'
  BY <1>5, <1>6 DEF IInv, OneSignalPerSubmission
<1>14. StatusInv'
  <2>1. \A s \in Transfers : Mem(s) # p /\ Mem(s)' = Mem(s)
    BY <1>5, <1>7
  <2>2. \A q \in Ptrs \ {p} : status'[q] = status[q]
    BY <1>1 DEF IInv, TypeOK
  <2>3. \A s \in Transfers :
          InCallback(s) \/ Signalled(s) \/ Collecting(s) => Mem(s) \in Ptrs
    BY DEF IInv, OneSignalPerSubmission, MemInv, TypeOK, Mem
  <2>. QED
    BY <1>5, <1>6, <2>1, <2>2, <2>3 DEF IInv, StatusInv
<1>15. ProtocolStep
  BY <1>1, <1>5, <1>6, Stutters DEF SameAbstract
<1>. QED
  BY <1>3, <1>4, <1>9, <1>10, <1>11, <1>12, <1>13, <1>14, <1>15 DEF IInv

\* The new object is registered and gets its memory.
LEMMA RegisterKeeps ==
  ASSUME IInv, NEW g \in Goroutines, Register(g)
  PROVE  IInv' /\ ProtocolStep
<1>1. pc[g] = "register" /\ ~InMethod(g)
  BY DEF Register, At, InMethod
<1>2. PICK t \in Transfers, p \in Ptrs :
        /\ target[g] = t /\ ptr[g] = p
        /\ t \notin created /\ p \in heap
        /\ \A s \in Transfers : Mem(s) # p
        /\ \A h \in Goroutines \ {g} : pc[h] = "register" => target[h] # t /\ ptr[h] # p
  BY <1>1 DEF IInv, CreateInv, TypeOK
<1>3. /\ xferDoneMap' = [xferDoneMap EXCEPT ![p] = t]
      /\ xfer' = [xfer EXCEPT ![t] = p]
      /\ created' = created \cup {t}
      /\ pc' = [pc EXCEPT ![g] = "idle"]
      /\ target' = [target EXCEPT ![g] = NULL] /\ ptr' = [ptr EXCEPT ![g] = NULL]
      /\ UNCHANGED <<mu, submitted, done, cVars, loopVars>>
  BY <1>2 DEF Register
<1>4. /\ xfer[t] = NULL /\ ~submitted[t] /\ done[t] = 0 /\ mu[t] = NULL
  BY <1>2, TransferAssumption DEF IInv, CreateInv, LockInv, TypeOK
<1>5. \A s \in Transfers : \A k : HolderAt(s, k)' <=> HolderAt(s, k)
  BY <1>1, <1>3, Outside DEF IInv, TypeOK
<1>6. TypeOK'
  BY <1>3 DEF IInv, TypeOK, Labels, cVars, loopVars
<1>7. LockInv'
  BY <1>1, <1>3, TransferAssumption DEF IInv, LockInv, TypeOK, InMethod
<1>8. \A k : ~HolderAt(t, k)
  BY <1>4 DEF HolderAt
<1>9. /\ \A s \in Transfers : /\ Outstanding(s)' <=> Outstanding(s)
                              /\ Collecting(s)' <=> Collecting(s)
                              /\ HolderAt(s, "release")' <=> HolderAt(s, "release")
      /\ \A s \in Transfers \ {t} : Mem(s)' = Mem(s)
      /\ Mem(t) = NULL /\ Mem(t)' = p /\ ~Outstanding(t)
  BY <1>3, <1>4, <1>5, <1>8 DEF Mem, Outstanding, Collecting, IInv, TypeOK
<1>10. ~InFlight(t)' /\ ~InCallback(t)'
  BY <1>2, <1>3, <1>9 DEF InFlight, InCallback, cVars, loopVars, IInv, LoopInv
<1>11. \A s \in Transfers : /\ InCallback(s)' <=> InCallback(s)
                            /\ Signalled(s)' <=> Signalled(s)
                            /\ InFlight(s)' <=> InFlight(s)
  BY <1>3, <1>9, <1>10 DEF InFlight, InCallback, Signalled, cVars, loopVars
<1>12. CreateInv'
  <2>1. \A h \in Goroutines : pc'[h] = "register" =>
          h # g /\ pc[h] = "register" /\ target'[h] = target[h] /\ ptr'[h] = ptr[h]
    BY <1>3 DEF IInv, TypeOK
  <2>2. \A s \in Transfers \ created' : s # t /\ xfer'[s] = xfer[s]
    BY <1>3 DEF IInv, TypeOK
  <2>3. \A h \in Goroutines : pc'[h] = "register" =>
          /\ target'[h] \in Transfers \ created'
          /\ ptr'[h] \in heap'
          /\ \A s \in Transfers : Mem(s)' # ptr'[h]
    BY <1>2, <1>3, <1>9, <2>1 DEF IInv, CreateInv, cVars
  <2>4. \A h, i \in Goroutines : pc'[h] = "register" /\ pc'[i] = "register" /\ h # i =>
          target'[i] # target'[h] /\ ptr'[i] # ptr'[h]
    BY <2>1 DEF IInv, CreateInv
  <2>5. \A s \in Transfers \ created' : xfer'[s] = NULL /\ ~submitted'[s] /\ done'[s] = 0
    BY <1>3, <2>2 DEF IInv, CreateInv
  <2>. QED
    BY <2>3, <2>4, <2>5 DEF CreateInv
<1>13. CallInv'
  BY <1>1, <1>2, <1>3, <1>4, TransferAssumption DEF IInv, CallInv, LockInv, TypeOK, InMethod
<1>14. MemInv'
  BY <1>2, <1>3, <1>9 DEF IInv, MemInv, TypeOK, cVars
<1>15. LoopInv'
  BY <1>3, <1>9, TransferAssumption DEF IInv, LoopInv, TypeOK, cVars, loopVars
<1>16. OneSignalPerSubmission'
  BY <1>9, <1>11 DEF IInv, OneSignalPerSubmission
<1>17. StatusInv'
  BY <1>3, <1>9, <1>11 DEF IInv, StatusInv, OneSignalPerSubmission, cVars
<1>18. ProtocolStep
  BY <1>2, <1>3, <1>9, <1>10, <1>11, Creates, TransferAssumption DEF SameAbstract
<1>. QED
  BY <1>6, <1>7, <1>12, <1>13, <1>14, <1>15, <1>16, <1>17, <1>18 DEF IInv

-----------------------------------------------------------------------------
(* The event loop *)

\* The goroutines do not move.
LEMMA LoopStep ==
  ASSUME UNCHANGED <<mu, created, xfer, submitted, xferDoneMap, heap, callVars>>
  PROVE  /\ \A s : \A k : HolderAt(s, k)' <=> HolderAt(s, k)
         /\ \A s : /\ Mem(s)' = Mem(s)
                   /\ Outstanding(s)' <=> Outstanding(s)
                   /\ Collecting(s)' <=> Collecting(s)
         /\ LockInv => LockInv'
         /\ CallInv => CallInv'
         /\ MemInv => MemInv'
<1>1. \A s : \A k : HolderAt(s, k)' <=> HolderAt(s, k)
  BY DEF HolderAt, callVars
<1>2. \A s : /\ Mem(s)' = Mem(s)
             /\ Outstanding(s)' <=> Outstanding(s)
             /\ Collecting(s)' <=> Collecting(s)
  BY <1>1 DEF Mem, Outstanding, Collecting
<1>3. (LockInv => LockInv') /\ (CallInv => CallInv')
  BY DEF LockInv, CallInv, InMethod, callVars
<1>4. MemInv => MemInv'
  BY <1>1, <1>2 DEF MemInv
<1>. QED
  BY <1>1, <1>2, <1>3, <1>4

\* libusb finishes a transfer and calls xferCallback.
LEMMA CompleteKeeps ==
  ASSUME IInv, NEW p \in Ptrs, Complete(p)
  PROVE  IInv' /\ ProtocolStep
<1>1. PICK st \in Final : status' = [status EXCEPT ![p] = st]
  BY DEF Complete
<1>2. /\ loop = "poll" /\ lib[p] # "idle"
      /\ lib' = [lib EXCEPT ![p] = "idle"] /\ loop' = "lookup" /\ cbXfer' = p
      /\ UNCHANGED <<mu, created, xfer, submitted, done, xferDoneMap, heap, cbChan, callVars>>
  BY DEF Complete
<1>3. PICK t \in Transfers : Mem(t) = p
  BY <1>2 DEF IInv, LoopInv
<1>4. \A s \in Transfers \ {t} : Mem(s) # p
  BY <1>3, TransferAssumption DEF IInv, MemInv
<1>5. /\ \A s : /\ Mem(s)' = Mem(s)
                /\ Outstanding(s)' <=> Outstanding(s)
                /\ Collecting(s)' <=> Collecting(s)
      /\ LockInv' /\ CallInv' /\ MemInv'
  BY <1>2, LoopStep DEF IInv
<1>6. TypeOK'
  BY <1>1, <1>2 DEF IInv, TypeOK, callVars
<1>7. /\ \A s \in Transfers : Signalled(s)' <=> Signalled(s)
      /\ \A s \in Transfers \ {t} : /\ InFlight(s)' <=> InFlight(s)
                                    /\ ~InCallback(s) /\ ~InCallback(s)'
      /\ InFlight(t) /\ ~InFlight(t)' /\ ~InCallback(t) /\ InCallback(t)'
  BY <1>2, <1>3, <1>4, <1>5, TransferAssumption
     DEF InFlight, InCallback, Signalled, IInv, TypeOK
<1>8. CreateInv'
  BY <1>2, <1>5 DEF IInv, CreateInv, callVars
<1>9. LoopInv'
  BY <1>2, <1>3, <1>5, TransferAssumption DEF IInv, LoopInv, TypeOK
<1>10. OneSignalPerSubmission'
  BY <1>5, <1>7 DEF IInv, OneSignalPerSubmission
<1>11. StatusInv'
  <2>1. status'[p] \in Final /\ \A q \in Ptrs \ {p} : status'[q] = status[q]
    BY <1>1 DEF IInv, TypeOK
  <2>2. \A s \in Transfers :
          InCallback(s) \/ Signalled(s) \/ Collecting(s) => Mem(s) \in Ptrs
    BY DEF IInv, OneSignalPerSubmission, MemInv, TypeOK, Mem
  <2>. QED
    BY <1>3, <1>4, <1>5, <1>7, <2>1, <2>2 DEF IInv, StatusInv
<1>12. ProtocolStep
  BY <1>2, <1>3, <1>5, <1>7, Advances DEF SameAbstract, PhaseOf, IInv, CreateInv,
     OneSignalPerSubmission, InFlight, Mem
<1>. QED
  BY <1>5, <1>6, <1>8, <1>9, <1>10, <1>11, <1>12 DEF IInv

\* The registration of an outstanding transfer is not being removed.
LEMMA NotReleasing ==
  ASSUME TypeOK, LockInv, CallInv, NEW t \in Transfers, Outstanding(t)
  PROVE  ~HolderAt(t, "release")
<1>1. SUFFICES ASSUME HolderAt(t, "release") PROVE FALSE
  OBVIOUS
<1>2. mu[t] \in Goroutines /\ pc[mu[t]] = "release" /\ target[mu[t]] = t
  BY <1>1, TransferAssumption DEF HolderAt, LockInv, TypeOK
<1>3. ~submitted[t]
  BY <1>2 DEF CallInv
<1>. QED
  BY <1>2, <1>3 DEF Outstanding, HolderAt

\* xferCallback finds the channel of the transfer that finished.
LEMMA CallbackLookupKeeps ==
  ASSUME IInv, CallbackLookup
  PROVE  IInv' /\ ProtocolStep
<1>1. /\ loop = "lookup" /\ loop' = "send" /\ cbChan' = xferDoneMap[cbXfer]
      /\ UNCHANGED <<mu, created, xfer, submitted, done, xferDoneMap, cVars, cbXfer, callVars>>
  BY DEF CallbackLookup
<1>2. PICK t \in Transfers : Mem(t) = cbXfer /\ Mem(t) # NULL
  BY <1>1 DEF IInv, LoopInv
<1>3. InCallback(t) /\ Outstanding(t)
  BY <1>1, <1>2 DEF IInv, InCallback, OneSignalPerSubmission
<1>4. ~HolderAt(t, "release")
  BY <1>3, NotReleasing DEF IInv
<1>5. cbChan' = t
  BY <1>1, <1>2, <1>4 DEF IInv, MemInv
<1>6. /\ \A s : /\ Mem(s)' = Mem(s)
                /\ Outstanding(s)' <=> Outstanding(s)
                /\ Collecting(s)' <=> Collecting(s)
      /\ LockInv' /\ CallInv' /\ MemInv'
  BY <1>1, LoopStep DEF IInv, cVars
<1>7. TypeOK'
  BY <1>1, <1>5 DEF IInv, TypeOK, cVars, callVars
<1>8. \A s \in Transfers : /\ InCallback(s)' <=> InCallback(s)
                           /\ Signalled(s)' <=> Signalled(s)
                           /\ InFlight(s)' <=> InFlight(s)
  BY <1>1, <1>6 DEF InFlight, InCallback, Signalled, cVars
<1>9. CreateInv'
  BY <1>1, <1>6 DEF IInv, CreateInv, cVars, callVars
<1>10. LoopInv'
  BY <1>1, <1>2, <1>5, <1>6 DEF IInv, LoopInv, cVars
<1>11. OneSignalPerSubmission' /\ StatusInv'
  BY <1>1, <1>6, <1>8 DEF IInv, OneSignalPerSubmission, StatusInv, cVars
<1>12. ProtocolStep
  BY <1>1, <1>6, <1>8, Stutters DEF SameAbstract
<1>. QED
  BY <1>6, <1>7, <1>9, <1>10, <1>11, <1>12 DEF IInv

\* xferCallback signals the waiter and returns to the event loop.
LEMMA CallbackSendKeeps ==
  ASSUME IInv, CallbackSend
  PROVE  IInv' /\ ProtocolStep
<1>1. /\ loop = "send" /\ loop' = "poll" /\ done[cbChan] = 0
      /\ done' = [done EXCEPT ![cbChan] = 1] /\ cbXfer' = NULL /\ cbChan' = NULL
      /\ UNCHANGED <<mu, created, xfer, submitted, xferDoneMap, cVars, callVars>>
  BY DEF CallbackSend
<1>2. PICK t \in Transfers : cbChan = t /\ Mem(t) = cbXfer /\ Mem(t) # NULL
  BY <1>1, TransferAssumption DEF IInv, LoopInv
<1>3. \A s \in Transfers \ {t} : Mem(s) # cbXfer
  BY <1>2 DEF IInv, MemInv
<1>4. /\ \A s : /\ Mem(s)' = Mem(s)
                /\ Outstanding(s)' <=> Outstanding(s)
                /\ Collecting(s)' <=> Collecting(s)
      /\ LockInv' /\ CallInv' /\ MemInv'
  BY <1>1, LoopStep DEF IInv, cVars
<1>5. TypeOK'
  BY <1>1 DEF IInv, TypeOK, cVars, callVars
<1>6. /\ \A s \in Transfers : InFlight(s)' <=> InFlight(s)
      /\ \A s \in Transfers : ~InCallback(s)'
      /\ \A s \in Transfers \ {t} : Signalled(s)' <=> Signalled(s)
      /\ \A s \in Transfers \ {t} : ~InCallback(s)
      /\ InCallback(t) /\ Signalled(t)'
  BY <1>1, <1>2, <1>3, <1>4 DEF InFlight, InCallback, Signalled, cVars, IInv, TypeOK
<1>7. Outstanding(t)
  BY <1>6 DEF IInv, OneSignalPerSubmission
<1>8. t \in created
  <2>1. xfer[t] # NULL
    BY <1>2 DEF Mem
  <2>. QED
    BY <2>1 DEF IInv, CreateInv
<1>9. CreateInv'
  BY <1>1, <1>2, <1>4, <1>8 DEF IInv, CreateInv, cVars, callVars, TypeOK
<1>10. LoopInv'
  BY <1>1, <1>4 DEF IInv, LoopInv, cVars
<1>11. OneSignalPerSubmission'
  BY <1>4, <1>6 DEF IInv, OneSignalPerSubmission
<1>12. StatusInv'
  BY <1>1, <1>4, <1>6 DEF IInv, StatusInv, cVars
<1>13. ProtocolStep
  BY <1>1, <1>4, <1>6, Stutters DEF SameAbstract
<1>. QED
  BY <1>4, <1>5, <1>9, <1>10, <1>11, <1>12, <1>13 DEF IInv

-----------------------------------------------------------------------------
(* The theorems. *)

\* The inductive invariant holds initially...
LEMMA InitIInv == Init => IInv
<1> SUFFICES ASSUME Init PROVE IInv
  OBVIOUS
<1>1. TypeOK
  BY DEF Init, TypeOK, Labels, Final
<1>2. LockInv /\ CallInv
  BY TransferAssumption DEF Init, LockInv, CallInv, InMethod
<1>3. /\ \A t \in Transfers : Mem(t) = NULL /\ ~Signalled(t)
      /\ \A t \in Transfers : ~Outstanding(t) /\ ~Collecting(t)
  BY DEF Init, Mem, Signalled, Outstanding, Collecting, HolderAt
<1>4. CreateInv /\ MemInv /\ LoopInv
  BY <1>3 DEF Init, CreateInv, MemInv, LoopInv
<1>5. OneSignalPerSubmission /\ StatusInv
  BY <1>3 DEF OneSignalPerSubmission, StatusInv, InFlight, InCallback
<1>. QED
  BY <1>1, <1>2, <1>4, <1>5 DEF IInv

\* ... and is kept by every step.
LEMMA NextIInv == IInv /\ [Next]_vars => IInv' /\ ProtocolStep
<1> SUFFICES ASSUME IInv, [Next]_vars PROVE IInv' /\ ProtocolStep
  OBVIOUS
<1>1. ASSUME NEW g \in Goroutines, Begin(g) PROVE IInv' /\ ProtocolStep
  <2>1. ASSUME NEW t \in Transfers, NEW p \in Ptrs, Alloc(g, t, p) PROVE IInv' /\ ProtocolStep
    BY <2>1, AllocKeeps
  <2>2. ASSUME NEW t \in Transfers, SubmitLock(g, t) PROVE IInv' /\ ProtocolStep
    BY <2>2, LockKeeps DEF SubmitLock
  <2>3. ASSUME NEW t \in Transfers, WaitLock(g, t) PROVE IInv' /\ ProtocolStep
    <3>1. PICK label \in {"wait", "wait_bg"} : Lock(g, t, label)
      BY <2>3 DEF WaitLock
    <3>. QED
      BY <2>3, <3>1, LockKeeps DEF WaitLock
  <2>4. ASSUME NEW t \in Transfers, CancelLock(g, t) PROVE IInv' /\ ProtocolStep
    BY <2>4, LockKeeps DEF CancelLock
  <2>5. ASSUME NEW t \in Transfers, FreeLock(g, t) PROVE IInv' /\ ProtocolStep
    BY <2>5, LockKeeps DEF FreeLock
  <2>. QED
    BY <1>1, <2>1, <2>2, <2>3, <2>4, <2>5 DEF Begin
<1>2. ASSUME NEW g \in Goroutines, SubmitRefused(g) \/ WaitIdle(g) \/ FreeRefused(g)
      PROVE  IInv' /\ ProtocolStep
  BY <1>2, ReturnKeeps
     DEF SubmitRefused, WaitIdle, FreeRefused, At, InMethod, Critical
<1>3. ASSUME NEW g \in Goroutines, Step(g) PROVE IInv' /\ ProtocolStep
  BY <1>2, <1>3, RegisterKeeps, SubmitCallKeeps, SubmitFailsKeeps, SubmitReturnKeeps,
     WaitDoneKeeps, WaitDrainedKeeps, WaitCollectKeeps, CancelReturnKeeps,
     FreeStartKeeps, LibFreeKeeps, FreeClearKeeps DEF Step
<1>4. ASSUME NEW g \in Goroutines, WaitCtxDone(g) PROVE IInv' /\ ProtocolStep
  BY <1>4, WaitCtxDoneKeeps
<1>5. ASSUME NEW p \in Ptrs, Complete(p) PROVE IInv' /\ ProtocolStep
  BY <1>5, CompleteKeeps
<1>6. CASE CallbackLookup \/ CallbackSend
  BY <1>6, CallbackLookupKeeps, CallbackSendKeeps
<1>7. CASE UNCHANGED vars
  <2>1. UNCHANGED <<mu, created, xfer, submitted, done, xferDoneMap, heap, lib, status,
                    loop, cbXfer, cbChan, pc, target, ptr>>
    BY <1>7 DEF vars, cVars, loopVars, callVars
  <2>2. \A t : \A k : HolderAt(t, k)' <=> HolderAt(t, k)
    BY <2>1 DEF HolderAt
  <2>3. \A t : /\ Mem(t)' = Mem(t)
               /\ Outstanding(t)' <=> Outstanding(t)
               /\ Collecting(t)' <=> Collecting(t)
    BY <2>1, <2>2 DEF Mem, Outstanding, Collecting
  <2>4. \A t : /\ InFlight(t)' <=> InFlight(t)
               /\ InCallback(t)' <=> InCallback(t)
               /\ Signalled(t)' <=> Signalled(t)
    BY <2>1, <2>3 DEF InFlight, InCallback, Signalled
  <2>5. TypeOK'
    BY <2>1 DEF IInv, TypeOK
  <2>6. LockInv' /\ CreateInv' /\ CallInv'
    BY <2>1, <2>3 DEF IInv, LockInv, CreateInv, CallInv, InMethod
  <2>7. MemInv' /\ LoopInv'
    BY <2>1, <2>2, <2>3 DEF IInv, MemInv, LoopInv
  <2>8. OneSignalPerSubmission' /\ StatusInv'
    BY <2>1, <2>3, <2>4 DEF IInv, OneSignalPerSubmission, StatusInv
  <2>9. ProtocolStep
    BY <2>1, <2>3, <2>4, Stutters DEF SameAbstract
  <2>. QED
    BY <2>5, <2>6, <2>7, <2>8, <2>9 DEF IInv
<1>. QED
  BY <1>1, <1>3, <1>4, <1>5, <1>6, <1>7 DEF Next

\* The inductive invariant holds in every reachable state.
THEOREM Invariance == Spec => []IInv
  BY InitIInv, NextIInv, PTL DEF Spec

\* Every variable keeps its type.
THEOREM TypeCorrect == Spec => []TypeOK
<1>1. IInv => TypeOK
  BY DEF IInv
<1>. QED
  BY <1>1, Invariance, PTL

\* xferCallback never blocks the event loop: it finds the registered channel of
\* the transfer that finished, and the channel has room.
THEOREM CallbackNeverBlocks == Spec => []CompletionReachesItsWaiter
<1>1. IInv => CompletionReachesItsWaiter
  <2> SUFFICES ASSUME IInv, loop = "send"
                 PROVE  cbChan # NULL /\ done[cbChan] = 0 /\ Mem(cbChan) = cbXfer
    BY DEF CompletionReachesItsWaiter
  <2>1. cbChan \in Transfers /\ Mem(cbChan) = cbXfer
    BY DEF IInv, LoopInv
  <2>2. PICK t \in Transfers : Mem(t) = cbXfer /\ Mem(t) # NULL
    BY DEF IInv, LoopInv
  <2>3. InCallback(cbChan)
    BY <2>1, <2>2 DEF InCallback
  <2>4. done[cbChan] # 1
    BY <2>1, <2>3 DEF IInv, OneSignalPerSubmission, Signalled
  <2>. QED
    BY <2>1, <2>4, TransferAssumption DEF IInv, TypeOK
<1>. QED
  BY <1>1, Invariance, PTL

\* The memory of a transfer in flight is allocated and has exactly one owner,
\* whatever addresses malloc reuses.
THEOREM MemorySafety == Spec => []InFlightMemoryIsOwned
<1>1. IInv => InFlightMemoryIsOwned
  <2> SUFFICES ASSUME IInv, NEW p \in Ptrs, lib[p] # "idle"
                 PROVE  /\ p \in heap
                        /\ \E t \in Transfers :
                             Mem(t) = p /\ xferDoneMap[p] = t /\ Outstanding(t)
                        /\ \A s, t \in Transfers : Mem(s) = p /\ Mem(t) = p => s = t
    BY DEF InFlightMemoryIsOwned
  <2>1. PICK t \in Transfers : Mem(t) = p
    BY DEF IInv, LoopInv
  <2>2. Mem(t) # NULL /\ Outstanding(t)
    BY <2>1, TransferAssumption DEF IInv, OneSignalPerSubmission, InFlight
  <2>3. ~HolderAt(t, "release")
    BY <2>2, NotReleasing DEF IInv
  <2>. QED
    BY <2>1, <2>2, <2>3 DEF IInv, MemInv
<1>. QED
  BY <1>1, Invariance, PTL

\* A submission produces exactly one signal.
THEOREM SignalsMatchSubmissions == Spec => []OneSignalPerSubmission
<1>1. IInv => OneSignalPerSubmission
  BY DEF IInv
<1>. QED
  BY <1>1, Invariance, PTL

\* wait reads the result of a transfer only when libusb is done with it.
THEOREM ResultsAreFinal == Spec => []CollectSeesFinalStatus
<1>1. IInv => CollectSeesFinalStatus
  <2> SUFFICES ASSUME IInv, NEW g \in Goroutines, At(g, "collect")
                 PROVE  /\ xfer[target[g]] \in heap
                        /\ lib[xfer[target[g]]] = "idle"
                        /\ status[xfer[target[g]]] \in Final
    BY DEF CollectSeesFinalStatus
  <2>1. PICK t \in Transfers : target[g] = t /\ (\A k : HolderAt(t, k) <=> pc[g] = k)
    BY Inside DEF IInv, At, InMethod
  <2>2. Collecting(t) /\ Mem(t) = xfer[t]
    BY <2>1 DEF Collecting, Mem, At
  <2>3. Outstanding(t) /\ ~InFlight(t)
    BY <2>2 DEF IInv, OneSignalPerSubmission
  <2>4. Mem(t) # NULL /\ Mem(t) \in heap /\ status[Mem(t)] \in Final
    BY <2>2, <2>3 DEF IInv, MemInv, StatusInv
  <2>. QED
    BY <2>1, <2>2, <2>3, <2>4 DEF InFlight
<1>. QED
  BY <1>1, Invariance, PTL

\* usbTransfer keeps the ownership protocol that the streams, the endpoints and
\* the finalizer rely on.
THEOREM Refinement == Spec => ImplementsProtocol
<1>1. Init => Protocol!Init
  <2> SUFFICES ASSUME Init PROVE Protocol!Init
    OBVIOUS
  <2>1. \A t \in Transfers : PhaseOf(t) = "unborn" /\ Mem(t) = NULL
    BY DEF Init, PhaseOf, Mem, HolderAt
  <2>. QED
    BY <2>1 DEF Protocol!Init
<1>2. IInv /\ [Next]_vars => [Protocol!Next]_(Protocol!vars)
  BY NextIInv DEF ProtocolStep
<1>. QED
  BY <1>1, <1>2, Invariance, PTL DEF Spec, ImplementsProtocol, Protocol!Spec
=============================================================================
