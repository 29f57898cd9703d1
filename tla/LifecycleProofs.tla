-------------------------- MODULE LifecycleProofs ---------------------------
(***************************************************************************)
(* Lifecycle for any number of goroutines, devices, configs and            *)
(* interfaces.  Locks, calls and types are right whatever callers do with  *)
(* Configs; that handles stay open under the calls that use them, and the  *)
(* rest, needs the contract of one Config of a device at a time.           *)
(***************************************************************************)
EXTENDS Lifecycle, FiniteSetTheorems, TLAPS

(* The inductive invariant.  First what holds in any case. *)

\* What a call works on, and makes, at each label.
CallInv ==
    \A g \in Goroutines :
        /\ pc[g] = "idle" => self[g] = NULL /\ new[g] = NULL
        /\ pc[g] \in {"open", "register"} => self[g] = Ctx /\ new[g] \in Devices
        /\ pc[g] \in {"stop", "exit"} => self[g] = Ctx /\ new[g] = NULL
        /\ pc[g] \in {"reset", "resetting", "dev_close", "close_dev", "dev_closed"} =>
             self[g] \in Devices /\ new[g] = NULL
        /\ pc[g] \in {"get_config", "set_config", "claim_dev"} =>
             self[g] \in Devices /\ new[g] \in Configs /\ cfgDev[new[g]] = self[g]
        /\ pc[g] \in {"intf", "claim", "set_alt", "unclaim"} =>
             self[g] \in Configs /\ new[g] \in Interfaces
        /\ pc[g] \in {"cfg_close", "cfg_release"} =>
             self[g] \in Configs /\ new[g] = NULL /\ cfgDev[self[g]] # NULL
        /\ pc[g] \in {"release", "intf_delete"} =>
             self[g] \in Interfaces /\ new[g] = NULL /\ config[self[g]] # NULL

\* The callers' contract, as it is kept: a call is on an object its caller has, an
\* object that is made is nobody else's, and no two Closes of an object overlap.
ContractInv ==
    /\ \A g \in Goroutines : self[g] # NULL => self[g] \in held
    /\ \A g \in Goroutines : new[g] \notin held
    /\ \A g, h \in Goroutines : new[g] # NULL /\ new[g] = new[h] => g = h
    /\ \A g, h \in Goroutines : pc[g] \in ClosingLabels /\ self[g] = self[h] => g = h

\* The labels at which a call holds the mutex of its receiver.
HoldsDev(g) == pc[g] \in {"resetting", "close_dev", "dev_closed"}
HoldsCfg(g) == pc[g] \in {"claim", "set_alt", "unclaim", "cfg_release"}

LockInv ==
    /\ \A g \in Goroutines, d \in Devices : devMu[d] = g <=> HoldsDev(g) /\ self[g] = d
    /\ \A g \in Goroutines, c \in Configs : cfgMu[c] = g <=> HoldsCfg(g) /\ self[g] = c

\* The event loop runs, and the Context is open, while anything needs it.
ContextInv ==
    /\ devices # {} => ctx
    /\ \A g \in Goroutines : pc[g] \in {"open", "register", "stop", "exit"} => ctx
    /\ \A g \in Goroutines : pc[g] \in {"stop", "exit"} => devices = {}
    /\ loop = "stopped" /\ ctx => \E g \in Goroutines : At(g, "exit")

BaseInv ==
    /\ TypeOK
    /\ CallInv
    /\ ContractInv
    /\ LockInv
    /\ ContextInv

(* What holds when callers use one Config of a device at a time. *)

\* A Device is open in libusb from before it is registered until after it is not.
DeviceInv ==
    /\ devices \subseteq handle \cap libOpen
    /\ handle \subseteq held
    /\ \A d \in handle \ devices : \E g \in Goroutines : At(g, "dev_closed") /\ self[g] = d
    /\ \A g \in Goroutines :
         /\ At(g, "register") => new[g] \in libOpen
         /\ self[g] \in Devices => (self[g] \in devices <=> ~At(g, "dev_closed"))

\* A Config belongs to a device that is open, which knows it once it is returned.
ConfigInv ==
    /\ \A c \in Configs : cfgDev[c] # NULL =>
         /\ cfgDev[c] \in devices
         /\ IF c \in held THEN claimed[cfgDev[c]] = c
                          ELSE \E g \in Goroutines : new[g] = c
    /\ \A d \in Devices : claimed[d] # NULL => claimed[d] \in held /\ cfgDev[claimed[d]] = d
    /\ \A b, c \in Configs : cfgDev[b] # NULL /\ cfgDev[b] = cfgDev[c] => b = c
    /\ \A g \in Goroutines :
         pc[g] \in {"resetting", "close_dev", "dev_closed"} => claimed[self[g]] = NULL

\* The configuration of the device is that of its Config.
ActiveInv ==
    /\ \A c \in Configs \cap held : cfgDev[c] # NULL => active[cfgDev[c]] = cfgNum[c]
    /\ \A g \in Goroutines : At(g, "claim_dev") => active[self[g]] = cfgNum[new[g]]

\* An Interface belongs to a Config that is open, and has a number of its own there.
InterfaceInv ==
    /\ \A i \in Interfaces : config[i] # NULL =>
         /\ i \in held
         /\ config[i] \in held /\ cfgDev[config[i]] # NULL
         /\ number[i] \in intfs[config[i]]
    /\ \A i, j \in Interfaces :
         config[i] # NULL /\ config[i] = config[j] /\ number[i] = number[j] => i = j
    /\ \A g \in Goroutines :
         /\ self[g] \in Configs => cfgDev[self[g]] # NULL
         /\ pc[g] \in {"claim", "set_alt", "unclaim"} => number[new[g]] \notin intfs[self[g]]
         /\ At(g, "cfg_release") => intfs[self[g]] = {}

\* libusb has the claims of the Interfaces, until a Close has released them, and
\* those of the calls that make one.
Keeps(i, d, n) ==
    /\ config[i] # NULL /\ cfgDev[config[i]] = d /\ number[i] = n
    /\ \A g \in Goroutines : At(g, "intf_delete") => self[g] # i

Makes(g, d, n) ==
    pc[g] \in {"set_alt", "unclaim"} /\ cfgDev[self[g]] = d /\ number[new[g]] = n

ClaimInv ==
    \A d \in Devices, n \in Numbers :
        n \in libClaims[d] <=> \/ \E i \in Interfaces : Keeps(i, d, n)
                              \/ \E g \in Goroutines : Makes(g, d, n)

OneConfigInv ==
    /\ DeviceInv
    /\ ConfigInv
    /\ ActiveInv
    /\ InterfaceInv
    /\ ClaimInv

IInv == BaseInv /\ (OneConfig => OneConfigInv)

-----------------------------------------------------------------------------
(* The claims stay owned when no claim, and no owner of one, comes or goes. *)

LEMMA ClaimsUnmoved ==
  ASSUME ClaimInv, UNCHANGED libClaims,
         \A i \in Interfaces, d \in Devices, n \in Numbers :
             Keeps(i, d, n)' <=> Keeps(i, d, n),
         \A g \in Goroutines, d \in Devices, n \in Numbers :
             Makes(g, d, n)' <=> Makes(g, d, n)
  PROVE  ClaimInv'
BY DEF ClaimInv

-----------------------------------------------------------------------------
(* Each action keeps the invariant, one lemma for each.  Context *)

LEMMA OpenCheckKeeps ==
  ASSUME IInv, NEW g \in Goroutines, NEW d \in Devices, OpenCheck(g, d)
  PROVE  IInv'
<1>. USE DEF IInv, BaseInv, OneConfigInv, OpenCheck, At, Fresh, MayCall, Call, ctxVars,
             devVars, cfgVars, intfVars, libVars
<1>1. TypeOK'
  BY DEF TypeOK, Labels, Objects
<1>2. CallInv'
  BY DEF TypeOK, CallInv
<1>3. ContractInv'
  BY DEF ContractInv, ClosingLabels
<1>4. LockInv'
  BY DEF LockInv, HoldsDev, HoldsCfg
<1>5. ContextInv'
  BY DEF ContextInv
<1>6. OneConfig => DeviceInv'
  BY LifecycleAssumption DEF DeviceInv
<1>7. OneConfig => ConfigInv'
  BY LifecycleAssumption DEF CallInv, ConfigInv, Objects
<1>8. OneConfig => ActiveInv'
  BY DEF ActiveInv
<1>9. OneConfig => InterfaceInv'
  BY LifecycleAssumption DEF InterfaceInv
<1>10. OneConfig => ClaimInv'
  <2>. HAVE OneConfig
  <2>1. \A j \in Interfaces, e \in Devices, m \in Numbers : Keeps(j, e, m)' <=> Keeps(j, e, m)
    BY DEF TypeOK, CallInv, Keeps
  <2>2. \A h \in Goroutines, e \in Devices, m \in Numbers : Makes(h, e, m)' <=> Makes(h, e, m)
    BY DEF TypeOK, CallInv, Makes
  <2>. QED
    BY <2>1, <2>2, ClaimsUnmoved
<1>. QED
  BY <1>1, <1>2, <1>3, <1>4, <1>5, <1>6, <1>7, <1>8, <1>9, <1>10

LEMMA LibOpenKeeps ==
  ASSUME IInv, NEW g \in Goroutines, LibOpen(g)
  PROVE  IInv'
<1>. USE DEF IInv, BaseInv, OneConfigInv, LibOpen, At, Goto, ctxVars, devVars, cfgVars,
             intfVars
<1>1. CallInv' /\ ContextInv'
  BY DEF CallInv, ContextInv
<1>2. OneConfig => DeviceInv' /\ ConfigInv' /\ ActiveInv' /\ InterfaceInv'
  BY DEF DeviceInv, ConfigInv, ActiveInv, InterfaceInv
<1>3. TypeOK'
  BY DEF TypeOK, CallInv, Labels
<1>4. ContractInv'
  BY DEF ContractInv, ClosingLabels
<1>5. LockInv'
  BY DEF LockInv, HoldsDev, HoldsCfg
<1>6. OneConfig => ClaimInv'
  BY DEF ClaimInv, Keeps, Makes
<1>. QED
  BY <1>1, <1>2, <1>3, <1>4, <1>5, <1>6

LEMMA OpenFailsKeeps ==
  ASSUME IInv, NEW g \in Goroutines, OpenFails(g)
  PROVE  IInv'
<1>. USE DEF IInv, BaseInv, OneConfigInv, OpenFails, At, ReturnWith, Return, ctxVars,
             devVars, cfgVars, intfVars, libVars
<1>1. TypeOK'
  BY DEF TypeOK, Labels
<1>2. CallInv'
  BY DEF TypeOK, CallInv
<1>3. ContractInv'
  BY LifecycleAssumption DEF TypeOK, CallInv, ContractInv, ClosingLabels, Objects
<1>4. LockInv'
  BY DEF LockInv, HoldsDev, HoldsCfg
<1>5. ContextInv'
  BY DEF ContextInv
<1>6. OneConfig => DeviceInv'
  BY LifecycleAssumption DEF DeviceInv, Objects
<1>7. OneConfig => ConfigInv'
  BY LifecycleAssumption DEF CallInv, ConfigInv
<1>8. OneConfig => ActiveInv'
  BY DEF ActiveInv
<1>9. OneConfig => InterfaceInv'
  BY LifecycleAssumption DEF TypeOK, InterfaceInv, Objects
<1>10. OneConfig => ClaimInv'
  <2>. HAVE OneConfig
  <2>1. \A j \in Interfaces, e \in Devices, m \in Numbers : Keeps(j, e, m)' <=> Keeps(j, e, m)
    BY DEF TypeOK, CallInv, Keeps
  <2>2. \A h \in Goroutines, e \in Devices, m \in Numbers : Makes(h, e, m)' <=> Makes(h, e, m)
    BY DEF TypeOK, CallInv, Makes
  <2>. QED
    BY <2>1, <2>2, ClaimsUnmoved
<1>. QED
  BY <1>1, <1>2, <1>3, <1>4, <1>5, <1>6, <1>7, <1>8, <1>9, <1>10

\* The new handle is open since libusb_open, and no other call has the device.
LEMMA RegisterKeeps ==
  ASSUME IInv, NEW g \in Goroutines, Register(g)
  PROVE  IInv'
<1>. USE DEF IInv, BaseInv, OneConfigInv, Register, At, ReturnWith, cfgVars, intfVars,
             libVars
<1>1. TypeOK'
  BY DEF TypeOK, CallInv, Labels, Objects
<1>2. CallInv'
  BY DEF TypeOK, CallInv
<1>3. ContractInv'
  BY LifecycleAssumption DEF TypeOK, CallInv, ContractInv, ClosingLabels, Objects
<1>4. LockInv'
  BY DEF LockInv, HoldsDev, HoldsCfg
<1>5. ContextInv'
  BY DEF CallInv, ContractInv, ContextInv, ClosingLabels
<1>6. OneConfig => DeviceInv'
  BY LifecycleAssumption DEF TypeOK, ContractInv, DeviceInv, Objects
<1>7. OneConfig => ConfigInv'
  BY LifecycleAssumption DEF CallInv, ConfigInv
<1>8. OneConfig => ActiveInv'
  BY LifecycleAssumption DEF CallInv, ActiveInv
<1>9. OneConfig => InterfaceInv'
  BY LifecycleAssumption DEF TypeOK, InterfaceInv, Objects
<1>10. OneConfig => ClaimInv'
  BY LifecycleAssumption DEF ClaimInv, Keeps, Makes
<1>. QED
  BY <1>1, <1>2, <1>3, <1>4, <1>5, <1>6, <1>7, <1>8, <1>9, <1>10

\* checkOpenDevs has seen no device, and no OpenDevices can begin any more.
LEMMA ContextCloseKeeps ==
  ASSUME IInv, NEW g \in Goroutines, ContextClose(g)
  PROVE  IInv'
<1>. USE DEF IInv, BaseInv, OneConfigInv, ContextClose, At, MayClose, Call, checkOpenDevs,
             ctxVars, devVars, cfgVars, intfVars, libVars
<1>1. OneConfig => ConfigInv' /\ ActiveInv'
  BY DEF ConfigInv, ActiveInv
<1>2. TypeOK'
  BY DEF TypeOK, Labels, ClosingLabels
<1>3. CallInv'
  BY DEF TypeOK, CallInv
<1>4. ContractInv'
  BY DEF TypeOK, CallInv, ContractInv
<1>5. LockInv'
  BY DEF LockInv, HoldsDev, HoldsCfg
<1>6. ContextInv'
  BY DEF ContextInv
<1>7. OneConfig => DeviceInv'
  BY LifecycleAssumption DEF DeviceInv
<1>8. OneConfig => InterfaceInv'
  BY LifecycleAssumption DEF InterfaceInv
<1>9. OneConfig => ClaimInv'
  BY DEF ClaimInv, Keeps, Makes
<1>. QED
  BY <1>1, <1>2, <1>3, <1>4, <1>5, <1>6, <1>7, <1>8, <1>9

LEMMA ContextStopKeeps ==
  ASSUME IInv, NEW g \in Goroutines, ContextStop(g)
  PROVE  IInv'
<1>. USE DEF IInv, BaseInv, OneConfigInv, ContextStop, At, Goto, devVars, cfgVars,
             intfVars, libVars
<1>1. OneConfig => DeviceInv' /\ ConfigInv' /\ ActiveInv' /\ InterfaceInv'
  BY DEF DeviceInv, ConfigInv, ActiveInv, InterfaceInv
<1>2. TypeOK'
  BY DEF TypeOK, Labels, ClosingLabels
<1>3. CallInv'
  BY DEF CallInv
<1>4. ContractInv'
  BY DEF ContractInv, ClosingLabels
<1>5. LockInv'
  BY DEF LockInv, HoldsDev, HoldsCfg
<1>6. ContextInv'
  BY DEF TypeOK, ContextInv
<1>7. OneConfig => ClaimInv'
  BY LifecycleAssumption DEF ClaimInv, Keeps, Makes
<1>. QED
  BY <1>1, <1>2, <1>3, <1>4, <1>5, <1>6, <1>7

LEMMA ContextExitKeeps ==
  ASSUME IInv, NEW g \in Goroutines, ContextExit(g)
  PROVE  IInv'
<1>. USE DEF IInv, BaseInv, OneConfigInv, ContextExit, At, ReturnWith, Return, devVars,
             cfgVars, intfVars, libVars
<1>1. TypeOK'
  BY DEF TypeOK, Labels
<1>2. CallInv'
  BY DEF TypeOK, CallInv
<1>3. ContractInv'
  BY LifecycleAssumption DEF TypeOK, CallInv, ContractInv, ClosingLabels, Objects
<1>4. LockInv'
  BY DEF LockInv, HoldsDev, HoldsCfg
<1>5. ContextInv'
  BY DEF TypeOK, CallInv, ContractInv, ContextInv, ClosingLabels
<1>6. OneConfig => DeviceInv'
  BY LifecycleAssumption DEF DeviceInv, Objects
<1>7. OneConfig => ConfigInv'
  BY DEF CallInv, ConfigInv
<1>8. OneConfig => ActiveInv'
  BY DEF ActiveInv
<1>9. OneConfig => InterfaceInv'
  BY LifecycleAssumption DEF InterfaceInv, Objects
<1>10. OneConfig => ClaimInv'
  BY LifecycleAssumption DEF ClaimInv, Keeps, Makes
<1>. QED
  BY <1>1, <1>2, <1>3, <1>4, <1>5, <1>6, <1>7, <1>8, <1>9, <1>10

-----------------------------------------------------------------------------
(* Device *)

LEMMA ResetCheckKeeps ==
  ASSUME IInv, NEW g \in Goroutines, NEW d \in Devices, ResetCheck(g, d)
  PROVE  IInv'
<1>. USE DEF IInv, BaseInv, OneConfigInv, ResetCheck, At, MayCall, Call, ctxVars, devVars,
             cfgVars, intfVars, libVars
<1>1. TypeOK'
  BY DEF TypeOK, Labels
<1>2. CallInv'
  BY DEF TypeOK, CallInv
<1>3. ContractInv'
  BY DEF CallInv, ContractInv, ClosingLabels
<1>4. LockInv'
  BY DEF LockInv, HoldsDev, HoldsCfg
<1>5. ContextInv'
  BY DEF ContextInv
<1>6. OneConfig => DeviceInv'
  BY DEF DeviceInv, ClosingLabels
<1>7. OneConfig => ConfigInv'
  BY DEF CallInv, ConfigInv
<1>8. OneConfig => ActiveInv'
  BY DEF ActiveInv
<1>9. OneConfig => InterfaceInv'
  BY LifecycleAssumption DEF InterfaceInv
<1>10. OneConfig => ClaimInv'
  BY LifecycleAssumption DEF ClaimInv, Keeps, Makes
<1>. QED
  BY <1>1, <1>2, <1>3, <1>4, <1>5, <1>6, <1>7, <1>8, <1>9, <1>10

LEMMA ResetRefusedKeeps ==
  ASSUME IInv, NEW g \in Goroutines, ResetRefused(g)
  PROVE  IInv'
<1>. USE DEF IInv, BaseInv, OneConfigInv, ResetRefused, At, ReturnWith, Return, ctxVars,
             devVars, cfgVars, intfVars, libVars
<1>1. TypeOK'
  BY DEF TypeOK, Labels
<1>2. CallInv'
  BY DEF TypeOK, CallInv
<1>3. ContractInv'
  BY LifecycleAssumption DEF CallInv, ContractInv, ClosingLabels, Objects
<1>4. LockInv'
  BY DEF LockInv, HoldsDev, HoldsCfg
<1>5. ContextInv'
  BY DEF ContextInv
<1>6. OneConfig => DeviceInv'
  BY LifecycleAssumption DEF DeviceInv, Objects
<1>7. OneConfig => ConfigInv'
  BY DEF CallInv, ConfigInv
<1>8. OneConfig => ActiveInv'
  BY DEF ActiveInv
<1>9. OneConfig => InterfaceInv'
  BY LifecycleAssumption DEF InterfaceInv, Objects
<1>10. OneConfig => ClaimInv'
  BY LifecycleAssumption DEF ClaimInv, Keeps, Makes
<1>. QED
  BY <1>1, <1>2, <1>3, <1>4, <1>5, <1>6, <1>7, <1>8, <1>9, <1>10

LEMMA ResetKeeps ==
  ASSUME IInv, NEW g \in Goroutines, Reset(g)
  PROVE  IInv'
<1>. USE DEF IInv, BaseInv, OneConfigInv, Reset, At, Goto, LockDev, ctxVars, cfgVars,
             intfVars, libVars
<1>1. CallInv' /\ ContextInv'
  BY DEF CallInv, ContextInv
<1>2. OneConfig => DeviceInv' /\ ConfigInv' /\ ActiveInv' /\ InterfaceInv'
  BY DEF DeviceInv, ConfigInv, ActiveInv, InterfaceInv
<1>3. TypeOK'
  BY DEF TypeOK, Labels
<1>4. ContractInv'
  BY DEF ContractInv, ClosingLabels
<1>5. LockInv'
  BY LifecycleAssumption DEF TypeOK, LockInv, HoldsDev, HoldsCfg
<1>6. OneConfig => ClaimInv'
  BY DEF ClaimInv, Keeps, Makes
<1>. QED
  BY <1>1, <1>2, <1>3, <1>4, <1>5, <1>6

LEMMA ResetReturnsKeeps ==
  ASSUME IInv, NEW g \in Goroutines, ResetReturns(g)
  PROVE  IInv'
<1>. USE DEF IInv, BaseInv, OneConfigInv, ResetReturns, At, ReturnWith, Return, UnlockDev,
             ctxVars, cfgVars, intfVars, libVars
<1>1. TypeOK'
  BY DEF TypeOK, Labels
<1>2. CallInv'
  BY DEF TypeOK, CallInv
<1>3. ContractInv'
  BY LifecycleAssumption DEF CallInv, ContractInv, ClosingLabels, Objects
<1>4. LockInv'
  BY LifecycleAssumption DEF TypeOK, LockInv, HoldsDev, HoldsCfg
<1>5. ContextInv'
  BY DEF ContextInv
<1>6. OneConfig => DeviceInv'
  BY LifecycleAssumption DEF DeviceInv, Objects
<1>7. OneConfig => ConfigInv'
  BY DEF TypeOK, CallInv, ConfigInv
<1>8. OneConfig => ActiveInv'
  BY DEF ActiveInv
<1>9. OneConfig => InterfaceInv'
  BY LifecycleAssumption DEF TypeOK, InterfaceInv, Objects
<1>10. OneConfig => ClaimInv'
  BY LifecycleAssumption DEF ClaimInv, Keeps, Makes
<1>. QED
  BY <1>1, <1>2, <1>3, <1>4, <1>5, <1>6, <1>7, <1>8, <1>9, <1>10

\* The contract: the device has no other Config, so the new one is its only one.
LEMMA ConfigCheckKeeps ==
  ASSUME IInv, NEW g \in Goroutines, NEW d \in Devices, NEW c \in Configs,
         NEW n \in CfgNumbers, ConfigCheck(g, d, c, n)
  PROVE  IInv'
<1>. USE DEF IInv, BaseInv, OneConfigInv, ConfigCheck, At, Fresh, MayCall, Call, ctxVars,
             devVars, intfVars, libVars
<1>1. TypeOK'
  BY DEF TypeOK, Labels, Objects
<1>2. CallInv'
  BY DEF TypeOK, CallInv, ContractInv
<1>3. ContractInv'
  BY DEF ContractInv, ClosingLabels
<1>4. LockInv'
  BY DEF LockInv, HoldsDev, HoldsCfg
<1>5. ContextInv'
  BY DEF ContextInv
<1>6. OneConfig => DeviceInv'
  BY DEF DeviceInv, ClosingLabels
<1>7. OneConfig => ConfigInv'
  BY LifecycleAssumption DEF TypeOK, CallInv, DeviceInv, ConfigInv, ClosingLabels, Objects
<1>8. OneConfig => ActiveInv'
  BY DEF ActiveInv
<1>9. OneConfig => InterfaceInv'
  BY LifecycleAssumption DEF CallInv, ContractInv, InterfaceInv, ClosingLabels
<1>10. OneConfig => ClaimInv'
  <2>. HAVE OneConfig
  <2>1. \A j \in Interfaces, e \in Devices, m \in Numbers : Keeps(j, e, m)' <=> Keeps(j, e, m)
    BY LifecycleAssumption DEF TypeOK, CallInv, ContractInv, InterfaceInv, Keeps
  <2>2. \A h \in Goroutines, e \in Devices, m \in Numbers : Makes(h, e, m)' <=> Makes(h, e, m)
    BY LifecycleAssumption DEF TypeOK, CallInv, ContractInv, InterfaceInv, Makes, Objects
  <2>. QED
    BY <2>1, <2>2, ClaimsUnmoved
<1>. QED
  BY <1>1, <1>2, <1>3, <1>4, <1>5, <1>6, <1>7, <1>8, <1>9, <1>10

\* The Config that is given up was never returned: no Interface is of it.
LEMMA ConfigFailsKeeps ==
  ASSUME IInv, NEW g \in Goroutines, ConfigFails(g)
  PROVE  IInv'
<1>. USE DEF IInv, BaseInv, OneConfigInv, ConfigFails, At, ReturnWith, Return, ctxVars,
             devVars, intfVars, libVars
<1>1. TypeOK'
  BY DEF TypeOK, Labels
<1>2. CallInv'
  BY LifecycleAssumption DEF TypeOK, CallInv, ContractInv, Objects
<1>3. ContractInv'
  BY LifecycleAssumption DEF TypeOK, CallInv, ContractInv, ClosingLabels, Objects
<1>4. LockInv'
  BY DEF LockInv, HoldsDev, HoldsCfg
<1>5. ContextInv'
  BY DEF ContextInv
<1>6. OneConfig => DeviceInv'
  BY LifecycleAssumption DEF DeviceInv, Objects
<1>7. OneConfig => ConfigInv'
  BY DEF TypeOK, ContractInv, ConfigInv
<1>8. OneConfig => ActiveInv'
  BY DEF ActiveInv
<1>9. OneConfig => InterfaceInv'
  BY LifecycleAssumption DEF TypeOK, ContractInv, InterfaceInv, Objects
<1>10. OneConfig => ClaimInv'
  <2>. HAVE OneConfig
  <2>1. \A j \in Interfaces, e \in Devices, m \in Numbers : Keeps(j, e, m)' <=> Keeps(j, e, m)
    BY LifecycleAssumption DEF TypeOK, CallInv, ContractInv, InterfaceInv, Keeps
  <2>2. \A h \in Goroutines, e \in Devices, m \in Numbers : Makes(h, e, m)' <=> Makes(h, e, m)
    BY LifecycleAssumption DEF TypeOK, CallInv, ContractInv, InterfaceInv, Makes, Objects
  <2>. QED
    BY <2>1, <2>2, ClaimsUnmoved
<1>. QED
  BY <1>1, <1>2, <1>3, <1>4, <1>5, <1>6, <1>7, <1>8, <1>9, <1>10

LEMMA ActiveConfigNumKeeps ==
  ASSUME IInv, NEW g \in Goroutines, ActiveConfigNum(g)
  PROVE  IInv'
<1>. USE DEF IInv, BaseInv, OneConfigInv, ActiveConfigNum, At, Goto, ctxVars, devVars,
             cfgVars, intfVars, libVars
<1>1. CallInv' /\ ContextInv'
  BY DEF CallInv, ContextInv
<1>2. OneConfig => DeviceInv' /\ ConfigInv' /\ ActiveInv' /\ InterfaceInv'
  BY DEF DeviceInv, ConfigInv, ActiveInv, InterfaceInv
<1>3. TypeOK'
  BY DEF TypeOK, Labels
<1>4. ContractInv'
  BY DEF ContractInv, ClosingLabels
<1>5. LockInv'
  BY DEF LockInv, HoldsDev, HoldsCfg
<1>6. OneConfig => ClaimInv'
  <2>. HAVE OneConfig
  <2>1. \A j \in Interfaces, e \in Devices, m \in Numbers : Keeps(j, e, m)' <=> Keeps(j, e, m)
    BY DEF TypeOK, CallInv, Keeps
  <2>2. \A h \in Goroutines, e \in Devices, m \in Numbers : Makes(h, e, m)' <=> Makes(h, e, m)
    BY DEF TypeOK, CallInv, Makes
  <2>. QED
    BY <2>1, <2>2, ClaimsUnmoved
<1>. QED
  BY <1>1, <1>2, <1>3, <1>4, <1>5, <1>6

LEMMA SetConfigKeeps ==
  ASSUME IInv, NEW g \in Goroutines, SetConfig(g)
  PROVE  IInv'
<1>. USE DEF IInv, BaseInv, OneConfigInv, SetConfig, At, Goto, ctxVars, devVars, cfgVars,
             intfVars
<1>1. CallInv' /\ ContextInv'
  BY DEF CallInv, ContextInv
<1>2. OneConfig => DeviceInv' /\ ConfigInv' /\ InterfaceInv'
  BY DEF DeviceInv, ConfigInv, InterfaceInv
<1>3. TypeOK'
  BY DEF TypeOK, CallInv, Labels
<1>4. ContractInv'
  BY DEF ContractInv, ClosingLabels
<1>5. LockInv'
  BY DEF LockInv, HoldsDev, HoldsCfg
<1>6. OneConfig => ActiveInv'
  BY LifecycleAssumption DEF TypeOK, CallInv, ConfigInv, ActiveInv, Objects
<1>7. OneConfig => ClaimInv'
  BY DEF ClaimInv, Keeps, Makes
<1>. QED
  BY <1>1, <1>2, <1>3, <1>4, <1>5, <1>6, <1>7

\* d.claimed and the Config's own c.dev now agree.
LEMMA ClaimDeviceKeeps ==
  ASSUME IInv, NEW g \in Goroutines, ClaimDevice(g)
  PROVE  IInv'
<1>. USE DEF IInv, BaseInv, OneConfigInv, ClaimDevice, At, ReturnWith, Claimed, ctxVars,
             cfgVars, intfVars, libVars
<1>1. TypeOK'
  BY DEF TypeOK, CallInv, Labels, Objects
<1>2. CallInv'
  BY DEF TypeOK, CallInv
<1>3. ContractInv'
  BY LifecycleAssumption DEF TypeOK, CallInv, ContractInv, ClosingLabels, Objects
<1>4. LockInv'
  BY DEF LockInv, HoldsDev, HoldsCfg
<1>5. ContextInv'
  BY DEF ContextInv
<1>6. OneConfig => DeviceInv'
  BY LifecycleAssumption DEF DeviceInv, Objects
<1>7. OneConfig => ConfigInv'
  BY DEF TypeOK, CallInv, ContractInv, LockInv, ConfigInv, HoldsDev, HoldsCfg
<1>8. OneConfig => ActiveInv'
  BY DEF TypeOK, CallInv, ActiveInv
<1>9. OneConfig => InterfaceInv'
  BY LifecycleAssumption DEF TypeOK, InterfaceInv, Objects
<1>10. OneConfig => ClaimInv'
  <2>. HAVE OneConfig
  <2>1. \A j \in Interfaces, e \in Devices, m \in Numbers : Keeps(j, e, m)' <=> Keeps(j, e, m)
    BY DEF TypeOK, CallInv, Keeps
  <2>2. \A h \in Goroutines, e \in Devices, m \in Numbers : Makes(h, e, m)' <=> Makes(h, e, m)
    BY DEF TypeOK, CallInv, Makes
  <2>. QED
    BY <2>1, <2>2, ClaimsUnmoved
<1>. QED
  BY <1>1, <1>2, <1>3, <1>4, <1>5, <1>6, <1>7, <1>8, <1>9, <1>10

LEMMA DeviceCloseKeeps ==
  ASSUME IInv, NEW g \in Goroutines, NEW d \in Devices, DeviceClose(g, d)
  PROVE  IInv'
<1>. USE DEF IInv, BaseInv, OneConfigInv, DeviceClose, At, MayClose, Call, ctxVars,
             devVars, cfgVars, intfVars, libVars
<1>1. OneConfig => DeviceInv' /\ ActiveInv'
  BY DEF DeviceInv, ActiveInv
<1>2. TypeOK'
  BY DEF TypeOK, Labels, ClosingLabels
<1>3. CallInv'
  BY DEF TypeOK, CallInv
<1>4. ContractInv'
  BY DEF TypeOK, CallInv, ContractInv
<1>5. LockInv'
  BY DEF LockInv, HoldsDev, HoldsCfg
<1>6. ContextInv'
  BY DEF ContextInv
<1>7. OneConfig => ConfigInv'
  BY DEF CallInv, ConfigInv
<1>8. OneConfig => InterfaceInv'
  BY LifecycleAssumption DEF InterfaceInv
<1>9. OneConfig => ClaimInv'
  <2>. HAVE OneConfig
  <2>1. \A j \in Interfaces, e \in Devices, m \in Numbers : Keeps(j, e, m)' <=> Keeps(j, e, m)
    BY DEF TypeOK, CallInv, Keeps
  <2>2. \A h \in Goroutines, e \in Devices, m \in Numbers : Makes(h, e, m)' <=> Makes(h, e, m)
    BY DEF TypeOK, CallInv, Makes
  <2>. QED
    BY <2>1, <2>2, ClaimsUnmoved
<1>. QED
  BY <1>1, <1>2, <1>3, <1>4, <1>5, <1>6, <1>7, <1>8, <1>9

LEMMA DeviceCloseRefusedKeeps ==
  ASSUME IInv, NEW g \in Goroutines, DeviceCloseRefused(g)
  PROVE  IInv'
<1>. USE DEF IInv, BaseInv, OneConfigInv, DeviceCloseRefused, At, ReturnWith, Return,
             ctxVars, devVars, cfgVars, intfVars, libVars
<1>1. TypeOK'
  BY DEF TypeOK, Labels
<1>2. CallInv'
  BY DEF TypeOK, CallInv
<1>3. ContractInv'
  BY LifecycleAssumption DEF TypeOK, CallInv, ContractInv, ClosingLabels, Objects
<1>4. LockInv'
  BY DEF LockInv, HoldsDev, HoldsCfg
<1>5. ContextInv'
  BY DEF ContextInv
<1>6. OneConfig => DeviceInv'
  BY LifecycleAssumption DEF DeviceInv, Objects
<1>7. OneConfig => ConfigInv'
  BY DEF CallInv, ConfigInv
<1>8. OneConfig => ActiveInv'
  BY DEF ActiveInv
<1>9. OneConfig => InterfaceInv'
  BY LifecycleAssumption DEF TypeOK, InterfaceInv, Objects
<1>10. OneConfig => ClaimInv'
  BY LifecycleAssumption DEF ClaimInv, Keeps, Makes
<1>. QED
  BY <1>1, <1>2, <1>3, <1>4, <1>5, <1>6, <1>7, <1>8, <1>9, <1>10

LEMMA DeviceCloseLockKeeps ==
  ASSUME IInv, NEW g \in Goroutines, DeviceCloseLock(g)
  PROVE  IInv'
<1>. USE DEF IInv, BaseInv, OneConfigInv, DeviceCloseLock, At, Goto, LockDev, ctxVars,
             cfgVars, intfVars, libVars
<1>1. CallInv' /\ ContextInv'
  BY DEF CallInv, ContextInv
<1>2. OneConfig => DeviceInv' /\ ConfigInv' /\ ActiveInv' /\ InterfaceInv'
  BY DEF DeviceInv, ConfigInv, ActiveInv, InterfaceInv
<1>3. TypeOK'
  BY DEF TypeOK, Labels, ClosingLabels
<1>4. ContractInv'
  BY DEF ContractInv, ClosingLabels
<1>5. LockInv'
  BY DEF TypeOK, ContractInv, LockInv, HoldsDev, HoldsCfg, ClosingLabels
<1>6. OneConfig => ClaimInv'
  BY DEF ClaimInv, Keeps, Makes
<1>. QED
  BY <1>1, <1>2, <1>3, <1>4, <1>5, <1>6

\* d.claimed is NULL under d.mu, so no Config, and no claim, goes with the handle.
LEMMA CloseDevKeeps ==
  ASSUME IInv, NEW g \in Goroutines, CloseDev(g)
  PROVE  IInv'
<1>. USE DEF IInv, BaseInv, OneConfigInv, CloseDev, At, Goto, devVars, cfgVars, intfVars
<1>1. CallInv' /\ ContextInv'
  BY DEF CallInv, ContextInv
<1>2. OneConfig => ActiveInv' /\ InterfaceInv'
  BY DEF ActiveInv, InterfaceInv
<1>3. TypeOK'
  BY DEF TypeOK, Labels, ClosingLabels
<1>4. ContractInv'
  BY DEF ContractInv, ClosingLabels
<1>5. LockInv'
  BY DEF LockInv, HoldsDev, HoldsCfg
<1>6. OneConfig => DeviceInv'
  BY DEF TypeOK, ContractInv, DeviceInv, ClosingLabels
<1>7. OneConfig => ConfigInv'
  BY LifecycleAssumption DEF TypeOK, CallInv, ContractInv, ContextInv, ConfigInv,
         ActiveInv, InterfaceInv, Labels, ClosingLabels, Objects
<1>8. OneConfig => ClaimInv'
  BY LifecycleAssumption DEF TypeOK, CallInv, ContractInv, ConfigInv, ActiveInv,
         InterfaceInv, ClaimInv, Keeps, Makes, Objects
<1>. QED
  BY <1>1, <1>2, <1>3, <1>4, <1>5, <1>6, <1>7, <1>8

\* The device left the Context's list in CloseDev; its object goes last.
LEMMA DeviceClosedKeeps ==
  ASSUME IInv, NEW g \in Goroutines, DeviceClosed(g)
  PROVE  IInv'
<1>. USE DEF IInv, BaseInv, OneConfigInv, DeviceClosed, At, ReturnWith, Return, UnlockDev,
             ctxVars, cfgVars, intfVars, libVars
<1>1. TypeOK'
  BY DEF TypeOK, Labels
<1>2. CallInv'
  BY DEF TypeOK, CallInv
<1>3. ContractInv'
  BY LifecycleAssumption DEF TypeOK, CallInv, ContractInv, ClosingLabels, Objects
<1>4. LockInv'
  BY LifecycleAssumption DEF TypeOK, LockInv, HoldsDev, HoldsCfg
<1>5. ContextInv'
  BY DEF ContextInv
<1>6. OneConfig => DeviceInv'
  BY LifecycleAssumption DEF TypeOK, DeviceInv, Objects
<1>7. OneConfig => ConfigInv'
  BY DEF TypeOK, CallInv, ConfigInv
<1>8. OneConfig => ActiveInv'
  BY DEF ActiveInv
<1>9. OneConfig => InterfaceInv'
  BY LifecycleAssumption DEF TypeOK, InterfaceInv, Objects
<1>10. OneConfig => ClaimInv'
  BY LifecycleAssumption DEF ClaimInv, Keeps, Makes
<1>. QED
  BY <1>1, <1>2, <1>3, <1>4, <1>5, <1>6, <1>7, <1>8, <1>9, <1>10

-----------------------------------------------------------------------------
(* Config *)

LEMMA InterfaceCheckKeeps ==
  ASSUME IInv, NEW g \in Goroutines, NEW c \in Configs, NEW i \in Interfaces,
         NEW n \in Numbers, InterfaceCheck(g, c, i, n)
  PROVE  IInv'
<1>. USE DEF IInv, BaseInv, OneConfigInv, InterfaceCheck, At, Fresh, MayCall, Call,
             ctxVars, devVars, cfgVars, libVars
<1>1. TypeOK'
  BY DEF TypeOK, Labels, Objects
<1>2. CallInv'
  BY DEF TypeOK, CallInv
<1>3. ContractInv'
  BY DEF ContractInv, ClosingLabels
<1>4. LockInv'
  BY DEF LockInv, HoldsDev, HoldsCfg
<1>5. ContextInv'
  BY DEF ContextInv
<1>6. OneConfig => DeviceInv'
  BY LifecycleAssumption DEF DeviceInv
<1>7. OneConfig => ConfigInv'
  BY LifecycleAssumption DEF CallInv, ConfigInv, Objects
<1>8. OneConfig => ActiveInv'
  BY DEF ActiveInv
<1>9. OneConfig => InterfaceInv'
  BY DEF TypeOK, InterfaceInv
<1>10. OneConfig => ClaimInv'
  <2>. HAVE OneConfig
  <2>1. \A j \in Interfaces, e \in Devices, m \in Numbers : Keeps(j, e, m)' <=> Keeps(j, e, m)
    BY DEF TypeOK, CallInv, InterfaceInv, Keeps
  <2>2. \A h \in Goroutines, e \in Devices, m \in Numbers : Makes(h, e, m)' <=> Makes(h, e, m)
    BY DEF TypeOK, CallInv, Makes
  <2>. QED
    BY <2>1, <2>2, ClaimsUnmoved
<1>. QED
  BY <1>1, <1>2, <1>3, <1>4, <1>5, <1>6, <1>7, <1>8, <1>9, <1>10

LEMMA InterfaceRefusedKeeps ==
  ASSUME IInv, NEW g \in Goroutines, InterfaceRefused(g)
  PROVE  IInv'
<1>. USE DEF IInv, BaseInv, OneConfigInv, InterfaceRefused, At, ReturnWith, Return,
             ctxVars, devVars, cfgVars, intfVars, libVars
<1>1. TypeOK'
  BY DEF TypeOK, Labels
<1>2. CallInv'
  BY DEF TypeOK, CallInv
<1>3. ContractInv'
  BY LifecycleAssumption DEF TypeOK, CallInv, ContractInv, ClosingLabels, Objects
<1>4. LockInv'
  BY DEF LockInv, HoldsDev, HoldsCfg
<1>5. ContextInv'
  BY DEF ContextInv
<1>6. OneConfig => DeviceInv'
  BY LifecycleAssumption DEF DeviceInv, Objects
<1>7. OneConfig => ConfigInv'
  BY LifecycleAssumption DEF CallInv, ConfigInv
<1>8. OneConfig => ActiveInv'
  BY DEF ActiveInv
<1>9. OneConfig => InterfaceInv'
  BY LifecycleAssumption DEF TypeOK, InterfaceInv, Objects
<1>10. OneConfig => ClaimInv'
  <2>. HAVE OneConfig
  <2>1. \A j \in Interfaces, e \in Devices, m \in Numbers : Keeps(j, e, m)' <=> Keeps(j, e, m)
    BY DEF TypeOK, CallInv, Keeps
  <2>2. \A h \in Goroutines, e \in Devices, m \in Numbers : Makes(h, e, m)' <=> Makes(h, e, m)
    BY DEF TypeOK, CallInv, Makes
  <2>. QED
    BY <2>1, <2>2, ClaimsUnmoved
<1>. QED
  BY <1>1, <1>2, <1>3, <1>4, <1>5, <1>6, <1>7, <1>8, <1>9, <1>10

LEMMA InterfaceLockKeeps ==
  ASSUME IInv, NEW g \in Goroutines, InterfaceLock(g)
  PROVE  IInv'
<1>. USE DEF IInv, BaseInv, OneConfigInv, InterfaceLock, At, Goto, LockCfg, ctxVars,
             devVars, intfVars, libVars
<1>1. CallInv' /\ ContextInv'
  BY DEF CallInv, ContextInv
<1>2. OneConfig => DeviceInv' /\ ConfigInv' /\ ActiveInv' /\ InterfaceInv'
  BY DEF DeviceInv, ConfigInv, ActiveInv, InterfaceInv
<1>3. TypeOK'
  BY DEF TypeOK, Labels
<1>4. ContractInv'
  BY DEF ContractInv, ClosingLabels
<1>5. LockInv'
  BY LifecycleAssumption DEF TypeOK, LockInv, HoldsDev, HoldsCfg
<1>6. OneConfig => ClaimInv'
  BY LifecycleAssumption DEF ClaimInv, Keeps, Makes
<1>. QED
  BY <1>1, <1>2, <1>3, <1>4, <1>5, <1>6

LEMMA ClaimKeeps ==
  ASSUME IInv, NEW g \in Goroutines, Claim(g)
  PROVE  IInv'
<1>. USE DEF IInv, BaseInv, OneConfigInv, Claim, At, Goto, ctxVars, devVars, cfgVars,
             intfVars
<1>1. CallInv' /\ ContextInv'
  BY DEF CallInv, ContextInv
<1>2. OneConfig => DeviceInv' /\ ConfigInv' /\ ActiveInv' /\ InterfaceInv'
  BY DEF DeviceInv, ConfigInv, ActiveInv, InterfaceInv
<1>3. TypeOK'
  <2>1. number[new[g]] \in Numbers
    BY DEF TypeOK, CallInv
  <2>2. libClaims' \in [Devices -> SUBSET Numbers]
    BY <2>1 DEF TypeOK
  <2>. QED
    BY <2>2 DEF TypeOK, Labels, ClosingLabels
<1>4. ContractInv'
  BY DEF ContractInv, ClosingLabels
<1>5. LockInv'
  BY DEF LockInv, HoldsDev, HoldsCfg
<1>6. OneConfig => ClaimInv'
  BY DEF TypeOK, CallInv, ClaimInv, Keeps, Makes, Labels
<1>. QED
  BY <1>1, <1>2, <1>3, <1>4, <1>5, <1>6

LEMMA ClaimFailsKeeps ==
  ASSUME IInv, NEW g \in Goroutines, ClaimFails(g)
  PROVE  IInv'
<1>. USE DEF IInv, BaseInv, OneConfigInv, ClaimFails, At, ReturnWith, Return, UnlockCfg,
             ctxVars, devVars, intfVars, libVars
<1>1. TypeOK'
  BY DEF TypeOK, Labels
<1>2. CallInv'
  BY DEF TypeOK, CallInv
<1>3. ContractInv'
  BY LifecycleAssumption DEF TypeOK, CallInv, ContractInv, ClosingLabels, Objects
<1>4. LockInv'
  BY LifecycleAssumption DEF TypeOK, LockInv, HoldsDev, HoldsCfg
<1>5. ContextInv'
  BY DEF ContextInv
<1>6. OneConfig => DeviceInv'
  BY LifecycleAssumption DEF DeviceInv, Objects
<1>7. OneConfig => ConfigInv'
  BY LifecycleAssumption DEF CallInv, ConfigInv
<1>8. OneConfig => ActiveInv'
  BY DEF ActiveInv
<1>9. OneConfig => InterfaceInv'
  BY LifecycleAssumption DEF TypeOK, InterfaceInv, Objects
<1>10. OneConfig => ClaimInv'
  BY LifecycleAssumption DEF ClaimInv, Keeps, Makes
<1>. QED
  BY <1>1, <1>2, <1>3, <1>4, <1>5, <1>6, <1>7, <1>8, <1>9, <1>10

\* The claim passes from the call to the Interface it returns.
LEMMA SetAltKeeps ==
  ASSUME IInv, NEW g \in Goroutines, SetAlt(g)
  PROVE  IInv'
<1>. USE DEF IInv, BaseInv, OneConfigInv, SetAlt, At, ReturnWith, UnlockCfg, ctxVars,
             devVars, libVars
<1>1. TypeOK'
  BY DEF TypeOK, CallInv, Labels, Objects
<1>2. CallInv'
  BY DEF TypeOK, CallInv, ContractInv, ClosingLabels
<1>3. ContractInv'
  BY LifecycleAssumption DEF TypeOK, CallInv, ContractInv, ClosingLabels, Objects
<1>4. LockInv'
  BY LifecycleAssumption DEF TypeOK, LockInv, HoldsDev, HoldsCfg
<1>5. ContextInv'
  BY DEF ContextInv
<1>6. OneConfig => DeviceInv'
  BY LifecycleAssumption DEF DeviceInv, Objects
<1>7. OneConfig => ConfigInv'
  BY LifecycleAssumption DEF CallInv, ConfigInv
<1>8. OneConfig => ActiveInv'
  BY LifecycleAssumption DEF CallInv, ActiveInv
<1>9. OneConfig => InterfaceInv'
  BY LifecycleAssumption DEF TypeOK, CallInv, ContractInv, LockInv, InterfaceInv,
         HoldsCfg, Objects
<1>10. OneConfig => ClaimInv'
  <2>. HAVE OneConfig
  <2>1. PICK made \in Interfaces : made = new[g] /\ config[made] = NULL
    BY DEF TypeOK, CallInv, ContractInv, InterfaceInv
  <2>2. \A d \in Devices, n \in Numbers : Keeps(made, d, n)' <=> Makes(g, d, n)
    <3>1. /\ config'[made] = self[g] /\ self[g] # NULL
          /\ \A h \in Goroutines : pc'[h] = "intf_delete" => self'[h] # made
      BY <2>1, LifecycleAssumption DEF TypeOK, CallInv, Objects
    <3>. QED
      BY <2>1, <3>1 DEF Keeps, Makes
  <2>3. \A i \in Interfaces \ {made}, d \in Devices, n \in Numbers :
            Keeps(i, d, n)' <=> Keeps(i, d, n)
    BY <2>1 DEF TypeOK, CallInv, Keeps
  <2>4. \A h \in Goroutines \ {g}, d \in Devices, n \in Numbers :
            Makes(h, d, n)' <=> Makes(h, d, n)
    BY DEF TypeOK, CallInv, Makes
  <2>5. \A d \in Devices, n \in Numbers : ~Makes(g, d, n)' /\ ~Keeps(made, d, n)
    BY <2>1 DEF TypeOK, Keeps, Makes
  <2>6. ASSUME NEW d \in Devices, NEW n \in Numbers
        PROVE  n \in libClaims'[d] <=> \/ \E i \in Interfaces : Keeps(i, d, n)'
                                       \/ \E h \in Goroutines : Makes(h, d, n)'
    <3>1. n \in libClaims[d] <=> \/ \E i \in Interfaces : Keeps(i, d, n)
                                 \/ \E h \in Goroutines : Makes(h, d, n)
      BY DEF ClaimInv
    <3>2. (\E i \in Interfaces : Keeps(i, d, n)')
            <=> (\E i \in Interfaces : Keeps(i, d, n)) \/ Makes(g, d, n)
      BY <2>1, <2>2, <2>3, <2>5
    <3>3. (\E h \in Goroutines : Makes(h, d, n))
            <=> (\E h \in Goroutines : Makes(h, d, n)') \/ Makes(g, d, n)
      BY <2>4, <2>5
    <3>. QED
      BY <3>1, <3>2, <3>3
  <2>. QED
    BY <2>6 DEF ClaimInv
<1>. QED
  BY <1>1, <1>2, <1>3, <1>4, <1>5, <1>6, <1>7, <1>8, <1>9, <1>10

LEMMA SetAltFailsKeeps ==
  ASSUME IInv, NEW g \in Goroutines, SetAltFails(g)
  PROVE  IInv'
<1>. USE DEF IInv, BaseInv, OneConfigInv, SetAltFails, At, Goto, ctxVars, devVars,
             cfgVars, intfVars, libVars
<1>1. CallInv' /\ ContextInv'
  BY DEF CallInv, ContextInv
<1>2. OneConfig => DeviceInv' /\ ConfigInv' /\ ActiveInv' /\ InterfaceInv'
  BY DEF DeviceInv, ConfigInv, ActiveInv, InterfaceInv
<1>3. TypeOK'
  BY DEF TypeOK, Labels
<1>4. ContractInv'
  BY DEF ContractInv, ClosingLabels
<1>5. LockInv'
  BY DEF LockInv, HoldsDev, HoldsCfg
<1>6. OneConfig => ClaimInv'
  BY DEF ClaimInv, Keeps, Makes
<1>. QED
  BY <1>1, <1>2, <1>3, <1>4, <1>5, <1>6

\* Nobody else has the claim that is given up.
LEMMA UnclaimKeeps ==
  ASSUME IInv, NEW g \in Goroutines, Unclaim(g)
  PROVE  IInv'
<1>. USE DEF IInv, BaseInv, OneConfigInv, Unclaim, At, ReturnWith, Return, UnlockCfg,
             Released, ctxVars, devVars, intfVars
<1>1. TypeOK'
  <2>1. libClaims' \in [Devices -> SUBSET Numbers]
    BY DEF TypeOK, CallInv
  <2>. QED
    BY <2>1 DEF TypeOK, Labels, ClosingLabels
<1>2. CallInv'
  BY DEF TypeOK, CallInv
<1>3. ContractInv'
  BY LifecycleAssumption DEF TypeOK, CallInv, ContractInv, ClosingLabels, Objects
<1>4. LockInv'
  BY LifecycleAssumption DEF TypeOK, LockInv, HoldsDev, HoldsCfg
<1>5. ContextInv'
  BY DEF ContextInv
<1>6. OneConfig => DeviceInv'
  BY LifecycleAssumption DEF DeviceInv, Objects
<1>7. OneConfig => ConfigInv'
  BY LifecycleAssumption DEF CallInv, ConfigInv
<1>8. OneConfig => ActiveInv'
  BY DEF ActiveInv
<1>9. OneConfig => InterfaceInv'
  BY LifecycleAssumption DEF TypeOK, InterfaceInv, Objects
<1>10. OneConfig => ClaimInv'
  <2>. HAVE OneConfig
  <2>a. cfgDev[self[g]] \in Devices /\ number[new[g]] \in Numbers
    BY DEF TypeOK, CallInv, InterfaceInv
  <2>1. PICK dev \in Devices, num \in Numbers :
            /\ dev = cfgDev[self[g]] /\ num = number[new[g]]
            /\ libClaims' = [libClaims EXCEPT ![dev] = @ \ {num}]
    BY <2>a
  <2>2. \A j \in Interfaces, e \in Devices, m \in Numbers : Keeps(j, e, m)' <=> Keeps(j, e, m)
    BY DEF TypeOK, CallInv, Keeps
  <2>3. \A h \in Goroutines \ {g}, d \in Devices, n \in Numbers :
            Makes(h, d, n)' <=> Makes(h, d, n)
    BY DEF TypeOK, CallInv, Makes
  <2>4. \A d \in Devices, n \in Numbers :
            ~Makes(g, d, n)' /\ (Makes(g, d, n) <=> d = dev /\ n = num)
    BY <2>1 DEF TypeOK, Makes
  <2>5. \A i \in Interfaces : ~Keeps(i, dev, num)
    BY <2>1, LifecycleAssumption DEF TypeOK, CallInv, ConfigInv, InterfaceInv, Keeps
  <2>6. \A h \in Goroutines \ {g} : ~Makes(h, dev, num)
    BY <2>1, LifecycleAssumption DEF TypeOK, CallInv, ConfigInv, InterfaceInv, LockInv, HoldsCfg, Makes
  <2>7. ASSUME NEW d \in Devices, NEW n \in Numbers
        PROVE  n \in libClaims'[d] <=> \/ \E i \in Interfaces : Keeps(i, d, n)'
                                       \/ \E h \in Goroutines : Makes(h, d, n)'
    <3>1. n \in libClaims[d] <=> \/ \E i \in Interfaces : Keeps(i, d, n)
                                 \/ \E h \in Goroutines : Makes(h, d, n)
      BY DEF ClaimInv
    <3>2. n \in libClaims'[d] <=> n \in libClaims[d] /\ ~(d = dev /\ n = num)
      BY <2>1 DEF TypeOK
    <3>. QED
      BY <2>2, <2>3, <2>4, <2>5, <2>6, <3>1, <3>2
  <2>. QED
    BY <2>7 DEF ClaimInv
<1>. QED
  BY <1>1, <1>2, <1>3, <1>4, <1>5, <1>6, <1>7, <1>8, <1>9, <1>10

LEMMA ConfigCloseKeeps ==
  ASSUME IInv, NEW g \in Goroutines, NEW c \in Configs, ConfigClose(g, c)
  PROVE  IInv'
<1>. USE DEF IInv, BaseInv, OneConfigInv, ConfigClose, At, MayClose, Call, ctxVars,
             devVars, cfgVars, intfVars, libVars
<1>1. OneConfig => ActiveInv' /\ InterfaceInv'
  BY DEF ActiveInv, InterfaceInv
<1>2. TypeOK'
  BY DEF TypeOK, Labels, ClosingLabels
<1>3. CallInv'
  BY DEF TypeOK, CallInv
<1>4. ContractInv'
  BY DEF TypeOK, CallInv, ContractInv
<1>5. LockInv'
  BY DEF LockInv, HoldsDev, HoldsCfg
<1>6. ContextInv'
  BY DEF ContextInv
<1>7. OneConfig => DeviceInv'
  BY LifecycleAssumption DEF DeviceInv
<1>8. OneConfig => ConfigInv'
  BY DEF CallInv, ConfigInv
<1>9. OneConfig => ClaimInv'
  BY LifecycleAssumption DEF ClaimInv, Keeps, Makes
<1>. QED
  BY <1>1, <1>2, <1>3, <1>4, <1>5, <1>6, <1>7, <1>8, <1>9

LEMMA ConfigCloseRefusedKeeps ==
  ASSUME IInv, NEW g \in Goroutines, ConfigCloseRefused(g)
  PROVE  IInv'
<1>. USE DEF IInv, BaseInv, OneConfigInv, ConfigCloseRefused, At, ReturnWith, Return,
             ctxVars, devVars, cfgVars, intfVars, libVars
<1>1. TypeOK'
  BY DEF TypeOK, Labels
<1>2. CallInv'
  BY DEF TypeOK, CallInv
<1>3. ContractInv'
  BY LifecycleAssumption DEF TypeOK, CallInv, ContractInv, ClosingLabels, Objects
<1>4. LockInv'
  BY DEF LockInv, HoldsDev, HoldsCfg
<1>5. ContextInv'
  BY DEF ContextInv
<1>6. OneConfig => DeviceInv'
  BY LifecycleAssumption DEF DeviceInv, Objects
<1>7. OneConfig => ConfigInv'
  BY DEF CallInv, ConfigInv
<1>8. OneConfig => ActiveInv'
  BY DEF ActiveInv
<1>9. OneConfig => InterfaceInv'
  BY LifecycleAssumption DEF InterfaceInv, Objects
<1>10. OneConfig => ClaimInv'
  BY DEF ClaimInv, Keeps, Makes
<1>. QED
  BY <1>1, <1>2, <1>3, <1>4, <1>5, <1>6, <1>7, <1>8, <1>9, <1>10

LEMMA ConfigCloseLockKeeps ==
  ASSUME IInv, NEW g \in Goroutines, ConfigCloseLock(g)
  PROVE  IInv'
<1>. USE DEF IInv, BaseInv, OneConfigInv, ConfigCloseLock, At, Goto, LockCfg, ctxVars,
             devVars, intfVars, libVars
<1>1. CallInv' /\ ContextInv'
  BY DEF CallInv, ContextInv
<1>2. OneConfig => DeviceInv' /\ ConfigInv' /\ ActiveInv' /\ InterfaceInv'
  BY DEF DeviceInv, ConfigInv, ActiveInv, InterfaceInv
<1>3. TypeOK'
  BY DEF TypeOK, Labels, ClosingLabels
<1>4. ContractInv'
  BY DEF ContractInv, ClosingLabels
<1>5. LockInv'
  BY DEF TypeOK, ContractInv, LockInv, HoldsDev, HoldsCfg, ClosingLabels
<1>6. OneConfig => ClaimInv'
  BY DEF ClaimInv, Keeps, Makes
<1>. QED
  BY <1>1, <1>2, <1>3, <1>4, <1>5, <1>6

\* No Interface is of the Config any more, and d.mu is free, so no Close of the device
\* has looked at d.claimed.
LEMMA ConfigReleaseKeeps ==
  ASSUME IInv, NEW g \in Goroutines, ConfigRelease(g)
  PROVE  IInv'
<1>. USE DEF IInv, BaseInv, OneConfigInv, ConfigRelease, At, ReturnWith, Return,
             UnlockCfg, ctxVars, intfVars, libVars
<1>1. TypeOK'
  BY DEF TypeOK, Labels
<1>2. CallInv'
  BY LifecycleAssumption DEF TypeOK, CallInv, ContractInv, ClosingLabels, Objects
<1>3. ContractInv'
  BY LifecycleAssumption DEF TypeOK, CallInv, ContractInv, ClosingLabels, Objects
<1>4. LockInv'
  BY LifecycleAssumption DEF TypeOK, LockInv, HoldsDev, HoldsCfg
<1>5. ContextInv'
  BY DEF ContextInv
<1>6. OneConfig => DeviceInv'
  BY LifecycleAssumption DEF DeviceInv, Objects
<1>7. OneConfig => ConfigInv'
  BY DEF TypeOK, CallInv, ConfigInv
<1>8. OneConfig => ActiveInv'
  BY DEF ActiveInv
<1>9. OneConfig => InterfaceInv'
  BY LifecycleAssumption DEF TypeOK, ContractInv, InterfaceInv, ClosingLabels, Objects
<1>10. OneConfig => ClaimInv'
  <2>. HAVE OneConfig
  <2>1. \A j \in Interfaces, e \in Devices, m \in Numbers : Keeps(j, e, m)' <=> Keeps(j, e, m)
    BY DEF TypeOK, CallInv, InterfaceInv, Keeps
  <2>2. \A h \in Goroutines, e \in Devices, m \in Numbers : Makes(h, e, m)' <=> Makes(h, e, m)
    BY DEF TypeOK, CallInv, LockInv, HoldsCfg, Makes
  <2>. QED
    BY <2>1, <2>2, ClaimsUnmoved
<1>. QED
  BY <1>1, <1>2, <1>3, <1>4, <1>5, <1>6, <1>7, <1>8, <1>9, <1>10

-----------------------------------------------------------------------------
(* Interface *)

LEMMA InterfaceCloseKeeps ==
  ASSUME IInv, NEW g \in Goroutines, NEW i \in Interfaces, InterfaceClose(g, i)
  PROVE  IInv'
<1>. USE DEF IInv, BaseInv, OneConfigInv, InterfaceClose, At, MayClose, Call, ctxVars,
             devVars, cfgVars, intfVars, libVars
<1>1. TypeOK'
  BY DEF TypeOK, Labels, ClosingLabels
<1>2. CallInv'
  BY DEF TypeOK, CallInv
<1>3. ContractInv'
  BY DEF TypeOK, CallInv, ContractInv
<1>4. LockInv'
  BY DEF LockInv, HoldsDev, HoldsCfg
<1>5. ContextInv'
  BY DEF ContextInv
<1>6. OneConfig => DeviceInv'
  BY LifecycleAssumption DEF DeviceInv
<1>7. OneConfig => ConfigInv'
  BY DEF CallInv, ConfigInv
<1>8. OneConfig => ActiveInv'
  BY DEF ActiveInv
<1>9. OneConfig => InterfaceInv'
  BY LifecycleAssumption DEF InterfaceInv
<1>10. OneConfig => ClaimInv'
  <2>. HAVE OneConfig
  <2>1. \A j \in Interfaces, e \in Devices, m \in Numbers : Keeps(j, e, m)' <=> Keeps(j, e, m)
    BY DEF TypeOK, CallInv, Keeps
  <2>2. \A h \in Goroutines, e \in Devices, m \in Numbers : Makes(h, e, m)' <=> Makes(h, e, m)
    BY DEF TypeOK, CallInv, Makes
  <2>. QED
    BY <2>1, <2>2, ClaimsUnmoved
<1>. QED
  BY <1>1, <1>2, <1>3, <1>4, <1>5, <1>6, <1>7, <1>8, <1>9, <1>10

\* The claim of the Interface is released before the Config forgets the Interface.
LEMMA ReleaseKeeps ==
  ASSUME IInv, NEW g \in Goroutines, Release(g)
  PROVE  IInv'
<1>. USE DEF IInv, BaseInv, OneConfigInv, Release, At, Goto, Released, ctxVars, devVars,
             cfgVars, intfVars
<1>1. CallInv' /\ ContextInv'
  BY DEF CallInv, ContextInv
<1>2. OneConfig => DeviceInv' /\ ConfigInv' /\ ActiveInv' /\ InterfaceInv'
  BY DEF DeviceInv, ConfigInv, ActiveInv, InterfaceInv
<1>3. TypeOK'
  <2>1. libClaims' \in [Devices -> SUBSET Numbers]
    BY DEF TypeOK, CallInv
  <2>. QED
    BY <2>1 DEF TypeOK, Labels, ClosingLabels
<1>4. ContractInv'
  BY DEF ContractInv, ClosingLabels
<1>5. LockInv'
  BY DEF LockInv, HoldsDev, HoldsCfg
<1>6. OneConfig => ClaimInv'
  BY DEF TypeOK, CallInv, ConfigInv, InterfaceInv, ClaimInv, Keeps, Makes
<1>. QED
  BY <1>1, <1>2, <1>3, <1>4, <1>5, <1>6

\* Its claim was already given up by Release.
LEMMA InterfaceDeleteKeeps ==
  ASSUME IInv, NEW g \in Goroutines, InterfaceDelete(g)
  PROVE  IInv'
<1>. USE DEF IInv, BaseInv, OneConfigInv, InterfaceDelete, At, ReturnWith, Return,
             ctxVars, devVars, libVars
<1>1. TypeOK'
  BY DEF TypeOK, CallInv, Labels
<1>2. CallInv'
  BY DEF TypeOK, CallInv, ContractInv, ClosingLabels
<1>3. ContractInv'
  BY LifecycleAssumption DEF TypeOK, CallInv, ContractInv, ClosingLabels, Objects
<1>4. LockInv'
  BY DEF LockInv, HoldsDev, HoldsCfg
<1>5. ContextInv'
  BY DEF ContextInv
<1>6. OneConfig => DeviceInv'
  BY LifecycleAssumption DEF DeviceInv, Objects
<1>7. OneConfig => ConfigInv'
  BY DEF CallInv, ConfigInv
<1>8. OneConfig => ActiveInv'
  BY DEF ActiveInv
<1>9. OneConfig => InterfaceInv'
  BY LifecycleAssumption DEF TypeOK, CallInv, InterfaceInv, Objects
<1>10. OneConfig => ClaimInv'
  <2>. HAVE OneConfig
  <2>1. \A j \in Interfaces, e \in Devices, m \in Numbers : Keeps(j, e, m)' <=> Keeps(j, e, m)
    BY DEF TypeOK, CallInv, ContractInv, ClosingLabels, Keeps
  <2>2. \A h \in Goroutines, e \in Devices, m \in Numbers : Makes(h, e, m)' <=> Makes(h, e, m)
    BY DEF TypeOK, CallInv, Makes
  <2>. QED
    BY <2>1, <2>2, ClaimsUnmoved
<1>. QED
  BY <1>1, <1>2, <1>3, <1>4, <1>5, <1>6, <1>7, <1>8, <1>9, <1>10

-----------------------------------------------------------------------------
(* The invariant. *)

LEMMA InitKeeps == Init => IInv
<1>. SUFFICES ASSUME Init PROVE IInv
  OBVIOUS
<1>. USE LifecycleAssumption DEF Init
<1>1. TypeOK
  BY DEF TypeOK, Labels, Objects
<1>2. CallInv /\ ContractInv
  BY DEF CallInv, ContractInv, ClosingLabels, Objects
<1>3. LockInv /\ ContextInv
  BY DEF LockInv, ContextInv, HoldsDev, HoldsCfg
<1>4. DeviceInv /\ ConfigInv /\ ActiveInv /\ InterfaceInv
  BY DEF DeviceInv, ConfigInv, ActiveInv, InterfaceInv, At, Objects
<1>5. ClaimInv
  BY DEF ClaimInv, Keeps, Makes
<1>. QED
  BY <1>1, <1>2, <1>3, <1>4, <1>5 DEF IInv, BaseInv, OneConfigInv

LEMMA HandleEventsKeeps == ASSUME IInv, HandleEvents PROVE IInv'
<1>. USE DEF HandleEvents, devVars, cfgVars, intfVars, libVars, callVars
<1>1. TypeOK'
  BY DEF IInv, BaseInv, TypeOK
<1>2. CallInv' /\ ContractInv' /\ LockInv' /\ ContextInv'
  BY DEF IInv, BaseInv, CallInv, ContractInv, LockInv, HoldsDev, HoldsCfg, ContextInv, At
<1>3. OneConfig => DeviceInv' /\ ConfigInv' /\ ActiveInv' /\ InterfaceInv'
  BY DEF IInv, OneConfigInv, DeviceInv, ConfigInv, ActiveInv, InterfaceInv, At
<1>4. OneConfig => ClaimInv'
  BY DEF IInv, OneConfigInv, ClaimInv, Keeps, Makes, At
<1>. QED
  BY <1>1, <1>2, <1>3, <1>4 DEF IInv, BaseInv, OneConfigInv

LEMMA StutterKeeps == ASSUME IInv, UNCHANGED vars PROVE IInv'
<1>. USE DEF vars, ctxVars, devVars, cfgVars, intfVars, libVars, callVars
<1>1. TypeOK' /\ CallInv' /\ ContractInv' /\ LockInv' /\ ContextInv'
  BY DEF IInv, BaseInv, TypeOK, CallInv, ContractInv, LockInv, HoldsDev, HoldsCfg,
         ContextInv, At
<1>2. OneConfig => DeviceInv' /\ ConfigInv' /\ ActiveInv' /\ InterfaceInv'
  BY DEF IInv, OneConfigInv, DeviceInv, ConfigInv, ActiveInv, InterfaceInv, At
<1>3. OneConfig => ClaimInv'
  BY DEF IInv, OneConfigInv, ClaimInv, Keeps, Makes, At
<1>. QED
  BY <1>1, <1>2, <1>3 DEF IInv, BaseInv, OneConfigInv

LEMMA BeginKeeps == ASSUME IInv, NEW g \in Goroutines, Begin(g) PROVE IInv'
<1>1. CASE ContextClose(g)
  BY <1>1, ContextCloseKeeps
<1>2. CASE ContextCloseAgain(g)
  BY <1>2, StutterKeeps DEF ContextCloseAgain
<1>3. ASSUME NEW d \in Devices, OpenCheck(g, d) \/ ResetCheck(g, d) \/ DeviceClose(g, d)
      PROVE  IInv'
  BY <1>3, OpenCheckKeeps, ResetCheckKeeps, DeviceCloseKeeps
<1>4. ASSUME NEW d \in Devices, NEW c \in Configs, NEW n \in CfgNumbers,
             ConfigCheck(g, d, c, n)
      PROVE  IInv'
  BY <1>4, ConfigCheckKeeps
<1>5. ASSUME NEW c \in Configs, ConfigClose(g, c) PROVE IInv'
  BY <1>5, ConfigCloseKeeps
<1>6. ASSUME NEW c \in Configs, NEW i \in Interfaces, NEW n \in Numbers,
             InterfaceCheck(g, c, i, n)
      PROVE  IInv'
  BY <1>6, InterfaceCheckKeeps
<1>7. ASSUME NEW i \in Interfaces, InterfaceClose(g, i) PROVE IInv'
  BY <1>7, InterfaceCloseKeeps
<1>. QED
  BY <1>1, <1>2, <1>3, <1>4, <1>5, <1>6, <1>7 DEF Begin

LEMMA StepKeeps == ASSUME IInv, NEW g \in Goroutines, Step(g) PROVE IInv'
<1>1. CASE LibOpen(g) \/ OpenFails(g) \/ Register(g) \/ ContextStop(g) \/ ContextExit(g)
  BY <1>1, LibOpenKeeps, OpenFailsKeeps, RegisterKeeps, ContextStopKeeps, ContextExitKeeps
<1>2. CASE ResetRefused(g) \/ Reset(g) \/ ResetReturns(g)
  BY <1>2, ResetRefusedKeeps, ResetKeeps, ResetReturnsKeeps
<1>3. CASE ActiveConfigNum(g) \/ SetConfig(g) \/ ConfigFails(g) \/ ClaimDevice(g)
  BY <1>3, ActiveConfigNumKeeps, SetConfigKeeps, ConfigFailsKeeps, ClaimDeviceKeeps
<1>4. CASE DeviceCloseRefused(g) \/ DeviceCloseLock(g) \/ CloseDev(g) \/ DeviceClosed(g)
  BY <1>4, DeviceCloseRefusedKeeps, DeviceCloseLockKeeps, CloseDevKeeps, DeviceClosedKeeps
<1>5. CASE InterfaceRefused(g) \/ InterfaceLock(g) \/ Claim(g) \/ ClaimFails(g)
  BY <1>5, InterfaceRefusedKeeps, InterfaceLockKeeps, ClaimKeeps, ClaimFailsKeeps
<1>6. CASE SetAlt(g) \/ SetAltFails(g) \/ Unclaim(g)
  BY <1>6, SetAltKeeps, SetAltFailsKeeps, UnclaimKeeps
<1>7. CASE ConfigCloseRefused(g) \/ ConfigCloseLock(g) \/ ConfigRelease(g)
  BY <1>7, ConfigCloseRefusedKeeps, ConfigCloseLockKeeps, ConfigReleaseKeeps
<1>8. CASE Release(g) \/ InterfaceDelete(g)
  BY <1>8, ReleaseKeeps, InterfaceDeleteKeeps
<1>. QED
  BY <1>1, <1>2, <1>3, <1>4, <1>5, <1>6, <1>7, <1>8 DEF Step

\* The invariant holds of every state: of its second half, if callers use one Config
\* of a device at a time.
THEOREM LifecycleInvariant == Spec => []IInv
<1>1. IInv /\ [Next]_vars => IInv'
  BY HandleEventsKeeps, BeginKeeps, StepKeeps, StutterKeeps DEF Next
<1>. QED
  BY InitKeeps, <1>1, PTL DEF Spec

-----------------------------------------------------------------------------
(* What follows from it in any case. *)

\* Every variable has its type: a mutex is held by a goroutine or by none, a call
\* reaches only labels of the code, and callers are given objects, never nil.
THEOREM LifecycleTypeCorrect == Spec => []TypeOK
<1>1. IInv => TypeOK
  BY DEF IInv, BaseInv
<1>. QED
  BY <1>1, LifecycleInvariant, PTL

\* Who waits, waits for a goroutine that has a mutex; with one already, it waits for
\* the mutex of a Device.
LEMMA WaitsForHolder ==
  ASSUME IInv, NEW g \in Goroutines, NEW h \in Goroutines, WaitsFor(g, h)
  PROVE  /\ HoldsDev(h) \/ HoldsCfg(h)
         /\ HoldsCfg(g) => HoldsDev(h)
<1>. USE DEF IInv, BaseInv
<1>1. CASE pc[g] \in {"reset", "claim_dev", "dev_close"} /\ devMu[self[g]] = h
  BY <1>1 DEF CallInv, LockInv, HoldsCfg
<1>2. CASE pc[g] \in {"intf", "cfg_close"} /\ cfgMu[self[g]] = h
  BY <1>2 DEF CallInv, LockInv, HoldsCfg
<1>3. CASE At(g, "cfg_release") /\ devMu[cfgDev[self[g]]] = h
  BY <1>3 DEF TypeOK, CallInv, LockInv, At
<1>4. CASE At(g, "intf_delete") /\ cfgMu[config[self[g]]] = h
  BY <1>4 DEF TypeOK, CallInv, LockInv, HoldsCfg, At
<1>. QED
  BY <1>1, <1>2, <1>3, <1>4 DEF WaitsFor

\* Who has the mutex of a Device waits for nobody, and who has that of a Config only
\* in Config.Close.
LEMMA HolderWaits ==
  ASSUME NEW g \in Goroutines, NEW h \in Goroutines, HoldsDev(g) \/ HoldsCfg(g), WaitsFor(g, h)
  PROVE  At(g, "cfg_release") /\ HoldsCfg(g)
BY DEF HoldsDev, HoldsCfg, WaitsFor, At

\* Whatever the number of goroutines and objects, and whatever callers do with
\* Configs: no call returns with a mutex, no goroutines wait in a circle, and
\* Context.Close finds the event loop listening.
THEOREM LifecycleHasNoDeadlock == Spec => []NoDeadlock
<1>1. ASSUME IInv PROVE NoDeadlock
  <2>. USE <1>1 DEF IInv, BaseInv
  <2>1. \A g \in Goroutines : At(g, "idle") =>
          /\ \A d \in Devices : devMu[d] # g
          /\ \A c \in Configs : cfgMu[c] # g
    BY DEF LockInv, HoldsDev, HoldsCfg, At
  <2>2. ASSUME NEW S \in (SUBSET Goroutines) \ {{}}
        PROVE  \E g \in S : \A h \in S : ~WaitsFor(g, h)
    <3>. SUFFICES ASSUME \A g \in S : \E h \in S : WaitsFor(g, h)
                  PROVE  FALSE
      OBVIOUS
    <3>0. PICK g \in S : TRUE
      OBVIOUS
    <3>1. PICK h \in S : WaitsFor(g, h)
      OBVIOUS
    <3>2. PICK k \in S : WaitsFor(h, k)
      OBVIOUS
    <3>3. PICK m \in S : WaitsFor(k, m)
      OBVIOUS
    <3>4. HoldsCfg(h)
      BY <3>1, <3>2, WaitsForHolder, HolderWaits
    <3>5. HoldsDev(k)
      BY <3>2, <3>4, WaitsForHolder
    <3>. QED
      BY <3>3, <3>5, HolderWaits DEF HoldsDev, At
  <2>3. \A g \in Goroutines : At(g, "stop") => loop # "stopped"
    BY DEF ContextInv, ContractInv, CallInv, ClosingLabels, At
  <2>. QED
    BY <2>1, <2>2, <2>3 DEF NoDeadlock
<1>. QED
  BY <1>1, LifecycleInvariant, PTL

-----------------------------------------------------------------------------
(* What follows when callers use one Config of a device at a time. *)

\* The device of a call is that of its receiver, and is registered until it is closed.
LEMMA DeviceOfCall ==
  ASSUME IInv, OneConfig, NEW g \in Goroutines
  PROVE  /\ self[g] \in Devices => DeviceOf(g) = self[g]
         /\ self[g] \in Configs => DeviceOf(g) = cfgDev[self[g]] /\ DeviceOf(g) \in devices
         /\ At(g, "release") => DeviceOf(g) = cfgDev[config[self[g]]] /\ DeviceOf(g) \in devices
<1>. USE LifecycleAssumption DEF IInv, BaseInv, OneConfigInv
<1>1. self[g] \in Devices => DeviceOf(g) = self[g]
  BY DEF DeviceOf
<1>2. self[g] \in Configs => DeviceOf(g) = cfgDev[self[g]]
  BY DEF DeviceOf
<1>3. self[g] \in Interfaces => DeviceOf(g) = cfgDev[config[self[g]]]
  BY DEF DeviceOf
<1>4. self[g] \in Configs => cfgDev[self[g]] \in devices
  BY DEF InterfaceInv, ConfigInv
<1>5. At(g, "release") => self[g] \in Interfaces /\ cfgDev[config[self[g]]] \in devices
  BY DEF TypeOK, CallInv, InterfaceInv, ConfigInv, At
<1>. QED
  BY <1>1, <1>2, <1>3, <1>4, <1>5

\* No call of libusb is made on a handle that was closed, nor in a context that was
\* exited, for any number of goroutines that keep the contract of Close.
THEOREM LifecycleHandlesAreLive ==
  ASSUME OneConfig PROVE Spec => []HandlesAreLive
<1>1. ASSUME IInv PROVE HandlesAreLive
  <2>. USE <1>1, OneConfig DEF IInv, BaseInv, OneConfigInv
  <2>1. ASSUME NEW g \in Goroutines, pc[g] \in {"open", "register", "exit"} PROVE ctx
    BY <2>1 DEF ContextInv
  <2>2. ASSUME NEW g \in Goroutines,
               pc[g] \in {"resetting", "get_config", "set_config", "close_dev",
                          "claim", "set_alt", "unclaim", "release"}
        PROVE  DeviceOf(g) \in devices
    <3>1. CASE pc[g] \in {"resetting", "get_config", "set_config", "close_dev"}
      BY <3>1, DeviceOfCall DEF CallInv, DeviceInv, At
    <3>2. CASE pc[g] \in {"claim", "set_alt", "unclaim"}
      BY <3>2, DeviceOfCall DEF CallInv
    <3>3. CASE pc[g] = "release"
      BY <3>3, DeviceOfCall DEF At
    <3>. QED
      BY <2>2, <3>1, <3>2, <3>3
  <2>3. \A d \in devices : d \in libOpen /\ ctx
    BY DEF DeviceInv, ContextInv
  <2>. QED
    BY <2>1, <2>2, <2>3 DEF HandlesAreLive
<1>. QED
  BY <1>1, LifecycleInvariant, PTL

LEMMA AtMostOne ==
  ASSUME NEW S, \A x, y \in S : x = y
  PROVE  Cardinality(S) = IF S = {} THEN 0 ELSE 1
<1>1. CASE S = {}
  BY <1>1, FS_EmptySet
<1>2. CASE S # {}
  <2>1. PICK x \in S : S = {x}
    BY <1>2
  <2>. QED
    BY <1>2, <2>1, FS_Singleton
<1>. QED
  BY <1>1, <1>2

LEMMA ClaimantKeeps ==
  ASSUME NEW d \in Devices, NEW n \in Numbers
  PROVE  Claimant(d, n) = {i \in Interfaces : Keeps(i, d, n)}
BY DEF Claimant, Keeps

LEMMA ClaimingMakes ==
  ASSUME IInv, OneConfig, NEW d \in Devices, NEW n \in Numbers
  PROVE  Claiming(d, n) = {g \in Goroutines : Makes(g, d, n)}
<1>1. \A g \in Goroutines : pc[g] \in {"set_alt", "unclaim"} => DeviceOf(g) = cfgDev[self[g]]
  BY DeviceOfCall DEF IInv, BaseInv, CallInv
<1>. QED
  BY <1>1 DEF Claiming, Makes

\* Every claim that libusb has belongs to one open Interface or to one call that is
\* making or giving it up, and to each of them its claim: none leaks on an error path,
\* and none is taken from its owner.
THEOREM LifecycleClaimsAreOwned ==
  ASSUME OneConfig PROVE Spec => []ClaimsAreOwned
<1>1. ASSUME IInv PROVE ClaimsAreOwned
  <2>. USE <1>1, OneConfig, LifecycleAssumption DEF IInv, BaseInv, OneConfigInv
  <2>. SUFFICES ASSUME NEW d \in Devices, NEW n \in Numbers
                PROVE  Cardinality(Claimant(d, n)) + Cardinality(Claiming(d, n))
                         = IF n \in libClaims[d] THEN 1 ELSE 0
    BY DEF ClaimsAreOwned
  <2>1. \A i, j \in Interfaces : Keeps(i, d, n) /\ Keeps(j, d, n) => i = j
    BY DEF TypeOK, ConfigInv, InterfaceInv, Keeps
  <2>2. \A g, h \in Goroutines : Makes(g, d, n) /\ Makes(h, d, n) => self[g] = self[h]
    BY DEF CallInv, ConfigInv, InterfaceInv, Makes
  <2>3. \A g, h \in Goroutines : Makes(g, d, n) /\ Makes(h, d, n) => g = h
    BY <2>2 DEF CallInv, LockInv, HoldsCfg, Makes
  <2>4. \A i \in Interfaces, g \in Goroutines : ~(Keeps(i, d, n) /\ Makes(g, d, n))
    <3>. SUFFICES ASSUME NEW i \in Interfaces, NEW g \in Goroutines,
                         Keeps(i, d, n), Makes(g, d, n)
                  PROVE  FALSE
      OBVIOUS
    <3>1. config[i] \in Configs /\ self[g] \in Configs /\ cfgDev[config[i]] = cfgDev[self[g]]
      BY DEF TypeOK, CallInv, Keeps, Makes
    <3>2. config[i] = self[g]
      BY <3>1 DEF InterfaceInv, ConfigInv
    <3>. QED
      BY <3>2 DEF InterfaceInv, Keeps, Makes
  <2>5. Cardinality(Claimant(d, n)) = IF \E i \in Interfaces : Keeps(i, d, n) THEN 1 ELSE 0
    BY <2>1, ClaimantKeeps, AtMostOne
  <2>6. Cardinality(Claiming(d, n)) = IF \E g \in Goroutines : Makes(g, d, n) THEN 1 ELSE 0
    BY <2>3, ClaimingMakes, AtMostOne
  <2>7. n \in libClaims[d] <=> \/ \E i \in Interfaces : Keeps(i, d, n)
                               \/ \E g \in Goroutines : Makes(g, d, n)
    BY DEF ClaimInv
  <2>. QED
    BY <2>4, <2>5, <2>6, <2>7
<1>. QED
  BY <1>1, LifecycleInvariant, PTL

\* A device keeps the configuration of its Config until the Config is closed: no
\* other Config of it is set meanwhile, and no Reset begins.
THEOREM LifecycleConfigStaysActive ==
  ASSUME OneConfig PROVE Spec => []ConfigStaysActive
<1>1. ASSUME IInv PROVE ConfigStaysActive
  <2>. USE <1>1, OneConfig, LifecycleAssumption DEF IInv, OneConfigInv
  <2>1. \A c \in Configs \cap held : cfgDev[c] # NULL => active[cfgDev[c]] = cfgNum[c]
    BY DEF ActiveInv
  <2>2. ASSUME NEW c \in Configs \cap held, cfgDev[c] # NULL,
               NEW g \in Goroutines, At(g, "resetting"), self[g] = cfgDev[c]
        PROVE  FALSE
    <3>1. claimed[self[g]] = c
      BY <2>2 DEF ConfigInv
    <3>2. claimed[self[g]] = NULL
      BY <2>2 DEF ConfigInv, At
    <3>. QED
      BY <3>1, <3>2 DEF Objects
  <2>. QED
    BY <2>1, <2>2 DEF ConfigStaysActive
<1>. QED
  BY <1>1, LifecycleInvariant, PTL

-----------------------------------------------------------------------------
(* The objects are opened and closed as a tree. *)

opened == {o \in Objects : IsOpen(o)}
parents == [o \in Objects |-> ParentOf(o)]

LEMMA OpenOf ==
  ASSUME IInv
  PROVE  /\ IsOpen(Ctx) <=> ctx
         /\ \A d \in Devices : IsOpen(d) <=> d \in devices
         /\ \A c \in Configs : IsOpen(c) <=> c \in held /\ cfgDev[c] # NULL
         /\ \A i \in Interfaces : IsOpen(i) <=> config[i] # NULL
BY LifecycleAssumption DEF IInv, BaseInv, TypeOK, IsOpen

LEMMA ParentIs ==
  /\ ParentOf(Ctx) = NULL
  /\ \A d \in Devices : ParentOf(d) = IF IsOpen(d) THEN Ctx ELSE NULL
  /\ \A c \in Configs : ParentOf(c) = IF IsOpen(c) THEN cfgDev[c] ELSE NULL
  /\ \A i \in Interfaces : ParentOf(i) = IF IsOpen(i) THEN config[i] ELSE NULL
BY LifecycleAssumption DEF ParentOf

\* The same in the next state.
LEMMA OpenNext ==
  ASSUME IInv'
  PROVE  /\ IsOpen(Ctx)' <=> ctx'
         /\ \A d \in Devices : IsOpen(d)' <=> d \in devices'
         /\ \A c \in Configs : IsOpen(c)' <=> c \in held' /\ cfgDev'[c] # NULL
         /\ \A i \in Interfaces : IsOpen(i)' <=> config'[i] # NULL
BY LifecycleAssumption DEF IInv, BaseInv, TypeOK, IsOpen

LEMMA ParentNext ==
  /\ ParentOf(Ctx)' = NULL
  /\ \A d \in Devices : ParentOf(d)' = IF IsOpen(d)' THEN Ctx ELSE NULL
  /\ \A c \in Configs : ParentOf(c)' = IF IsOpen(c)' THEN cfgDev'[c] ELSE NULL
  /\ \A i \in Interfaces : ParentOf(i)' = IF IsOpen(i)' THEN config'[i] ELSE NULL
BY LifecycleAssumption DEF ParentOf

\* A step that opens nothing and closes nothing.
LEMMA TreeUnmoved ==
  ASSUME IInv, IInv', UNCHANGED <<ctx, devices, config>>,
         \A c \in Configs : /\ IsOpen(c)' <=> IsOpen(c)
                            /\ IsOpen(c) => cfgDev'[c] = cfgDev[c]
  PROVE  UNCHANGED <<opened, parents>>
<1>1. \A o \in Objects : IsOpen(o)' <=> IsOpen(o)
  BY OpenOf, OpenNext DEF Objects
<1>2. \A o \in Objects : ParentOf(o)' = ParentOf(o)
  BY <1>1, ParentIs, ParentNext DEF Objects
<1>. QED
  BY <1>1, <1>2 DEF opened, parents

LEMMA TreeOpens ==
  ASSUME NEW x \in Objects, NEW p \in Objects,
         x # Ctx, IsOpen(p), ~IsOpen(x),
         \A o \in Objects : IsOpen(o)' <=> IsOpen(o) \/ o = x,
         \A o \in Objects : ParentOf(o)' = IF o = x THEN p ELSE ParentOf(o)
  PROVE  Tree!Open(x, p)
BY DEF Tree!Open

LEMMA TreeCloses ==
  ASSUME NEW x \in Objects, IsOpen(x),
         \A o \in Objects : IsOpen(o) => ParentOf(o) # x,
         \A o \in Objects : IsOpen(o)' <=> IsOpen(o) /\ o # x,
         \A o \in Objects : ParentOf(o)' = IF o = x THEN NULL ELSE ParentOf(o)
  PROVE  Tree!Close(x)
BY DEF Tree!Close

LEMMA TreeStays ==
  ASSUME IInv, IInv', UNCHANGED <<ctx, devices, config, cfgDev, held>>
  PROVE  UNCHANGED <<opened, parents>>
BY OpenOf, OpenNext, TreeUnmoved

LEMMA RegisterOpens ==
  ASSUME IInv, IInv', OneConfig, NEW g \in Goroutines, Register(g)
  PROVE  Tree!Next
<1>. USE LifecycleAssumption DEF Register, ReturnWith, At, cfgVars, intfVars
<1>1. PICK d \in Devices : d = new[g] /\ d \notin devices /\ devices' = devices \cup {d} /\ ctx
  BY DEF IInv, BaseInv, OneConfigInv, CallInv, ContractInv, ContextInv, DeviceInv
<1>2. \A o \in Objects : IsOpen(o)' <=> IsOpen(o) \/ o = d
  BY <1>1, OpenOf, OpenNext DEF IInv, BaseInv, TypeOK, Objects
<1>3. \A o \in Objects : ParentOf(o)' = IF o = d THEN Ctx ELSE ParentOf(o)
  BY <1>1, <1>2, ParentIs, ParentNext DEF Objects
<1>4. Tree!Open(d, Ctx)
  BY <1>1, <1>2, <1>3, OpenOf, TreeOpens DEF Objects
<1>. QED
  BY <1>4 DEF Tree!Next, Objects

LEMMA ClaimDeviceOpens ==
  ASSUME IInv, IInv', OneConfig, NEW g \in Goroutines, ClaimDevice(g)
  PROVE  Tree!Next
<1>. USE LifecycleAssumption DEF ClaimDevice, ReturnWith, At, ctxVars, cfgVars, intfVars
<1>1. PICK c \in Configs, d \in Devices :
         /\ c = new[g] /\ c \notin held /\ held' = held \cup {c}
         /\ cfgDev[c] = d /\ d \in devices
  <2>1. new[g] \in Configs \ held /\ self[g] \in Devices /\ cfgDev[new[g]] = self[g]
    BY DEF IInv, BaseInv, CallInv, ContractInv
  <2>2. self[g] \in devices
    BY <2>1 DEF IInv, OneConfigInv, DeviceInv
  <2>. QED
    BY <2>1, <2>2
<1>2. \A o \in Objects : IsOpen(o)' <=> IsOpen(o) \/ o = c
  BY <1>1, OpenOf, OpenNext DEF Objects
<1>3. \A o \in Objects : ParentOf(o)' = IF o = c THEN d ELSE ParentOf(o)
  BY <1>1, <1>2, ParentIs, ParentNext DEF Objects
<1>4. Tree!Open(c, d)
  BY <1>1, <1>2, <1>3, OpenOf, TreeOpens DEF Objects
<1>. QED
  BY <1>4 DEF Tree!Next, Objects

LEMMA SetAltOpens ==
  ASSUME IInv, IInv', OneConfig, NEW g \in Goroutines, SetAlt(g)
  PROVE  Tree!Next
<1>. USE LifecycleAssumption DEF SetAlt, ReturnWith, At, ctxVars
<1>1. PICK i \in Interfaces, c \in Configs :
         /\ i = new[g] /\ config[i] = NULL /\ held' = held \cup {i}
         /\ c \in held /\ cfgDev[c] # NULL
         /\ config' = [config EXCEPT ![i] = c]
  <2>1. new[g] \in Interfaces \ held /\ self[g] \in Configs /\ self[g] \in held
    BY DEF IInv, BaseInv, CallInv, ContractInv, Objects
  <2>2. config[new[g]] = NULL /\ cfgDev[self[g]] # NULL
    BY <2>1 DEF IInv, OneConfigInv, InterfaceInv
  <2>. QED
    BY <2>1, <2>2
<1>2. \A o \in Objects : IsOpen(o)' <=> IsOpen(o) \/ o = i
  BY <1>1, OpenOf, OpenNext DEF IInv, BaseInv, TypeOK, Objects
<1>3. \A o \in Objects : ParentOf(o)' = IF o = i THEN c ELSE ParentOf(o)
  BY <1>1, <1>2, ParentIs, ParentNext DEF IInv, BaseInv, TypeOK, Objects
<1>4. Tree!Open(i, c)
  BY <1>1, <1>2, <1>3, OpenOf, TreeOpens DEF Objects
<1>. QED
  BY <1>4 DEF Tree!Next, Objects

\* Close found no open Config of the device, and d.claimed is NULL until it is closed.
LEMMA CloseDevCloses ==
  ASSUME IInv, IInv', OneConfig, NEW g \in Goroutines, CloseDev(g)
  PROVE  Tree!Next
<1>. USE LifecycleAssumption DEF CloseDev, Goto, At, devVars, cfgVars, intfVars
<1>1. PICK d \in Devices : d = self[g] /\ d \in devices /\ devices' = devices \ {d}
  BY DEF IInv, BaseInv, OneConfigInv, CallInv, DeviceInv
<1>2. \A c \in Configs : IsOpen(c) => cfgDev[c] # d
  BY <1>1, OpenOf DEF IInv, OneConfigInv, ConfigInv, Objects
<1>3. \A o \in Objects : IsOpen(o) => ParentOf(o) # d
  BY <1>1, <1>2, ParentIs DEF IInv, BaseInv, TypeOK, Objects
<1>4. \A o \in Objects : IsOpen(o)' <=> IsOpen(o) /\ o # d
  BY <1>1, OpenOf, OpenNext DEF Objects
<1>5. \A o \in Objects : ParentOf(o)' = IF o = d THEN NULL ELSE ParentOf(o)
  BY <1>1, <1>4, ParentIs, ParentNext DEF Objects
<1>6. Tree!Close(d)
  BY <1>1, <1>3, <1>4, <1>5, OpenOf, TreeCloses DEF Objects
<1>. QED
  BY <1>6 DEF Tree!Next, Objects

\* Close found no open Interface, and no other call has made one since.
LEMMA ConfigReleaseCloses ==
  ASSUME IInv, IInv', OneConfig, NEW g \in Goroutines, ConfigRelease(g)
  PROVE  Tree!Next
<1>. USE LifecycleAssumption DEF ConfigRelease, Return, ReturnWith, At, ctxVars, intfVars
<1>1. PICK c \in Configs :
         /\ c = self[g] /\ c \in held /\ cfgDev[c] # NULL /\ held' = held
         /\ cfgDev' = [cfgDev EXCEPT ![c] = NULL]
  BY DEF IInv, BaseInv, CallInv, ContractInv, Objects
<1>2. \A i \in Interfaces : config[i] # c
  BY <1>1 DEF IInv, OneConfigInv, InterfaceInv, Objects
<1>3. \A o \in Objects : IsOpen(o) => ParentOf(o) # c
  BY <1>1, <1>2, ParentIs DEF IInv, BaseInv, TypeOK, Objects
<1>4. \A o \in Objects : IsOpen(o)' <=> IsOpen(o) /\ o # c
  BY <1>1, OpenOf, OpenNext DEF IInv, BaseInv, TypeOK, Objects
<1>5. \A o \in Objects : ParentOf(o)' = IF o = c THEN NULL ELSE ParentOf(o)
  BY <1>1, <1>4, ParentIs, ParentNext DEF IInv, BaseInv, TypeOK, Objects
<1>6. Tree!Close(c)
  BY <1>1, <1>3, <1>4, <1>5, OpenOf, TreeCloses DEF Objects
<1>. QED
  BY <1>6 DEF Tree!Next, Objects

LEMMA InterfaceDeleteCloses ==
  ASSUME IInv, IInv', OneConfig, NEW g \in Goroutines, InterfaceDelete(g)
  PROVE  Tree!Next
<1>. USE LifecycleAssumption DEF InterfaceDelete, Return, ReturnWith, At, ctxVars
<1>1. PICK i \in Interfaces :
         /\ i = self[g] /\ config[i] # NULL /\ held' = held
         /\ config' = [config EXCEPT ![i] = NULL]
  <2>1. self[g] \in Interfaces /\ config[self[g]] # NULL
    BY DEF IInv, BaseInv, CallInv
  <2>. QED
    BY <2>1
<1>2. \A o \in Objects : IsOpen(o) => ParentOf(o) # i
  BY <1>1, ParentIs DEF IInv, BaseInv, TypeOK, Objects
<1>3. \A o \in Objects : IsOpen(o)' <=> IsOpen(o) /\ o # i
  BY <1>1, OpenOf, OpenNext DEF IInv, BaseInv, TypeOK, Objects
<1>4. \A o \in Objects : ParentOf(o)' = IF o = i THEN NULL ELSE ParentOf(o)
  BY <1>1, <1>3, ParentIs, ParentNext DEF IInv, BaseInv, TypeOK, Objects
<1>5. Tree!Close(i)
  BY <1>1, <1>2, <1>3, <1>4, OpenOf, TreeCloses DEF Objects
<1>. QED
  BY <1>5 DEF Tree!Next, Objects

LEMMA ContextExitCloses ==
  ASSUME IInv, IInv', OneConfig, NEW g \in Goroutines, ContextExit(g)
  PROVE  Tree!Next
<1>. USE LifecycleAssumption DEF ContextExit, Return, ReturnWith, At, cfgVars, intfVars
<1>1. ctx /\ ~ctx' /\ devices = {} /\ held' = held
  BY DEF IInv, BaseInv, ContextInv
<1>2. \A o \in Objects : IsOpen(o) => ParentOf(o) # Ctx
  BY <1>1, OpenOf, ParentIs DEF IInv, BaseInv, TypeOK, Objects
<1>3. \A o \in Objects : IsOpen(o)' <=> IsOpen(o) /\ o # Ctx
  BY <1>1, OpenOf, OpenNext DEF Objects
<1>4. \A o \in Objects : ParentOf(o)' = IF o = Ctx THEN NULL ELSE ParentOf(o)
  BY <1>1, <1>3, ParentIs, ParentNext DEF Objects
<1>5. Tree!Close(Ctx)
  BY <1>1, <1>2, <1>3, <1>4, OpenOf, TreeCloses DEF Objects
<1>. QED
  BY <1>5 DEF Tree!Next, Objects

\* Config changes only objects that no caller has yet.
LEMMA ConfigMakesNoObject ==
  ASSUME IInv, IInv', NEW g \in Goroutines,
         \/ ConfigFails(g)
         \/ \E d \in Devices, c \in Configs, n \in CfgNumbers : ConfigCheck(g, d, c, n)
  PROVE  UNCHANGED <<opened, parents>>
<1>1. PICK c \in Configs \ held, d \in Devices \cup {NULL} :
         /\ cfgDev' = [cfgDev EXCEPT ![c] = d]
         /\ UNCHANGED <<ctx, devices, config, held>>
  <2>1. CASE ConfigFails(g)
    <3>1. new[g] \in Configs \ held
      BY <2>1 DEF IInv, BaseInv, CallInv, ContractInv, ConfigFails
    <3>. QED
      BY <2>1, <3>1 DEF ConfigFails, Return, ReturnWith, ctxVars, intfVars
  <2>2. CASE \E d \in Devices, c \in Configs, n \in CfgNumbers : ConfigCheck(g, d, c, n)
    BY <2>2 DEF ConfigCheck, Call, Fresh, ctxVars, intfVars
  <2>. QED
    BY <2>1, <2>2
<1>2. \A b \in Configs \ {c} : cfgDev'[b] = cfgDev[b]
  BY <1>1 DEF IInv, BaseInv, TypeOK
<1>. QED
  BY <1>1, <1>2, OpenOf, OpenNext, TreeUnmoved

\* Every other call leaves all objects as open as they are.
LEMMA BeginInTree ==
  ASSUME IInv, IInv', NEW g \in Goroutines, Begin(g)
  PROVE  UNCHANGED <<opened, parents>>
<1>1. CASE \E d \in Devices, c \in Configs, n \in CfgNumbers : ConfigCheck(g, d, c, n)
  BY <1>1, ConfigMakesNoObject
<1>2. CASE ~\E d \in Devices, c \in Configs, n \in CfgNumbers : ConfigCheck(g, d, c, n)
  <2>1. UNCHANGED <<ctx, devices, config, cfgDev, held>>
    BY <1>2 DEF Begin, ContextClose, ContextCloseAgain, OpenCheck, ResetCheck, DeviceClose,
                ConfigClose, InterfaceCheck, InterfaceClose, Call, vars, ctxVars, cfgVars,
                intfVars, callVars
  <2>. QED
    BY <2>1, TreeStays
<1>. QED
  BY <1>1, <1>2

LEMMA StepInTree ==
  ASSUME IInv, IInv', OneConfig, NEW g \in Goroutines, Step(g)
  PROVE  Tree!Next \/ UNCHANGED <<opened, parents>>
<1>1. CASE Register(g) \/ ClaimDevice(g) \/ SetAlt(g)
  BY <1>1, RegisterOpens, ClaimDeviceOpens, SetAltOpens
<1>2. CASE CloseDev(g) \/ ConfigRelease(g) \/ InterfaceDelete(g) \/ ContextExit(g)
  BY <1>2, CloseDevCloses, ConfigReleaseCloses, InterfaceDeleteCloses, ContextExitCloses
<1>3. CASE ConfigFails(g)
  BY <1>3, ConfigMakesNoObject
<1>4. CASE LibOpen(g) \/ OpenFails(g) \/ ContextStop(g) \/ ResetRefused(g) \/ Reset(g)
             \/ ResetReturns(g) \/ ActiveConfigNum(g) \/ SetConfig(g)
             \/ DeviceCloseRefused(g) \/ DeviceCloseLock(g) \/ DeviceClosed(g)
  <2>1. UNCHANGED <<ctx, devices, config, cfgDev, held>>
    BY <1>4 DEF LibOpen, OpenFails, ContextStop, ResetRefused, Reset, ResetReturns,
                ActiveConfigNum, SetConfig, DeviceCloseRefused, DeviceCloseLock, DeviceClosed,
                Goto, Return, ReturnWith, ctxVars, cfgVars, intfVars
  <2>. QED
    BY <2>1, TreeStays
<1>5. CASE InterfaceRefused(g) \/ InterfaceLock(g) \/ Claim(g) \/ ClaimFails(g)
             \/ SetAltFails(g) \/ Unclaim(g) \/ ConfigCloseRefused(g)
             \/ ConfigCloseLock(g) \/ Release(g)
  <2>1. UNCHANGED <<ctx, devices, config, cfgDev, held>>
    BY <1>5 DEF InterfaceRefused, InterfaceLock, Claim, ClaimFails, SetAltFails, Unclaim,
                ConfigCloseRefused, ConfigCloseLock, Release, Goto, Return, ReturnWith,
                ctxVars, cfgVars, intfVars
  <2>. QED
    BY <2>1, TreeStays
<1>. QED
  BY <1>1, <1>2, <1>3, <1>4, <1>5 DEF Step

\* The Close methods of the four kinds of objects, each on its own, keep all of them a
\* tree: nothing is opened under an object that is closed, and nothing is closed under
\* which something is open, in whatever order goroutines open and close.
THEOREM LifecycleImplementsTree ==
  ASSUME OneConfig PROVE Spec => ImplementsTree
<1>1. Init => Tree!Init
  <2>. SUFFICES ASSUME Init PROVE Tree!Init
    OBVIOUS
  <2>1. \A o \in Objects : IsOpen(o) <=> o = Ctx
    BY LifecycleAssumption DEF Init, IsOpen, Objects
  <2>2. \A o \in Objects : ParentOf(o) = NULL
    BY <2>1 DEF ParentOf
  <2>. QED
    BY <2>1, <2>2 DEF Tree!Init, Objects
<1>2. IInv /\ IInv' /\ [Next]_vars => [Tree!Next]_(Tree!vars)
  <2>. SUFFICES ASSUME IInv, IInv', [Next]_vars
                PROVE  Tree!Next \/ UNCHANGED <<opened, parents>>
    BY DEF Tree!vars, opened, parents
  <2>1. CASE HandleEvents
    BY <2>1, TreeStays DEF HandleEvents, cfgVars, intfVars, callVars
  <2>2. ASSUME NEW g \in Goroutines, Begin(g)
        PROVE  UNCHANGED <<opened, parents>>
    BY <2>2, BeginInTree
  <2>3. ASSUME NEW g \in Goroutines, Step(g)
        PROVE  Tree!Next \/ UNCHANGED <<opened, parents>>
    BY <2>3, OneConfig, StepInTree
  <2>4. CASE UNCHANGED vars
    BY <2>4, TreeStays DEF vars, ctxVars, cfgVars, intfVars, callVars
  <2>. QED
    BY <2>1, <2>2, <2>3, <2>4 DEF Next
<1>. QED
  BY <1>1, <1>2, LifecycleInvariant, PTL DEF Spec, ImplementsTree, Tree!Spec
=============================================================================
