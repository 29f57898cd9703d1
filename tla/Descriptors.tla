---------------------------- MODULE Descriptors -----------------------------
(***************************************************************************)
(* getDeviceDesc (libusb.go): the configurations of a device, their        *)
(* interfaces and the alternate settings of each, as libusb parses them    *)
(* and gousb copies them; and the look-ups of interfaces and settings      *)
(* (config.go, interface.go) in what was copied.                           *)
(*                                                                         *)
(* Devices are odd: interfaces may be numbered in any way, a setting may   *)
(* be offered twice, and an interface may come in several pieces (slots).  *)
(***************************************************************************)
EXTENDS Integers, Sequences, SequencesExt

CONSTANTS
    CfgNumbers,     \* bConfigurationValue of a device's configurations
    Numbers,        \* bInterfaceNumber
    Alternates,     \* bAlternateSetting
    MaxConfigs,     \* bound: configurations of the device
    MaxSlots,       \* bound: slots of all its configurations together
    MaxSettings     \* bound: settings in a slot

ASSUME DescriptorsAssumption ==
    /\ MaxConfigs \in Nat /\ MaxSlots \in Nat /\ MaxSettings \in Nat

\* An element of libusb's array of interfaces.  All settings in it have the
\* number of the first; there may be none.
Slots == [number : Numbers, alternates : BoundedSeq(Alternates, MaxSettings)]

\* What gousb keeps of a setting; "at" says which one the device offered it is.
Settings == [alternate : Alternates, at : (1..MaxSlots) \X (1..MaxSettings)]

VARIABLES
    pc,         \* "config", "slot", "panic", "done" or "failed"
    read,       \* configurations read so far
    slotsLeft,  \* of MaxSlots
    cfgNum,     \* cfg.bConfigurationValue
    slots,      \* cfg.interface, while and after the configuration is copied
    s, a,       \* the slot and the setting in it that are copied next
    hasIntf,    \* the numbers and settings copied in this configuration
    descs,      \* the settings copied of slot s
    interfaces, \* c.Interfaces
    cfgs        \* the configurations copied, by number

deviceVars == <<read, slotsLeft, cfgNum, slots>>
vars == <<pc, deviceVars, s, a, hasIntf, descs, interfaces, cfgs>>

TypeOK ==
    /\ pc \in {"config", "slot", "panic", "done", "failed"}
    /\ read \in 0..MaxConfigs
    /\ slotsLeft \in 0..MaxSlots
    /\ cfgNum \in CfgNumbers
    /\ slots \in Seq(Slots)
    /\ s \in 1..Len(slots) + 1
    /\ a \in 1..(IF s > Len(slots) THEN 1 ELSE Len(slots[s].alternates) + 1)
    /\ hasIntf \subseteq Numbers \X Alternates
    /\ descs \in Seq(Settings)
    /\ interfaces \in Seq([number : Numbers, altSettings : Seq(Settings)])
    /\ DOMAIN cfgs \subseteq CfgNumbers

Init ==
    /\ pc = "config"
    /\ read = 0
    /\ slotsLeft = MaxSlots
    /\ cfgNum \in CfgNumbers
    /\ slots = <<>>
    /\ s = 1 /\ a = 1
    /\ hasIntf = {}
    /\ descs = <<>>
    /\ interfaces = <<>>
    /\ cfgs = [n \in {} |-> <<>>]

-----------------------------------------------------------------------------
(* getDeviceDesc *)

\* Mutant: hasIntf is that of the last configuration.
NewHasIntfKept == hasIntf

NewHasIntf == {}

\* libusb_get_config_descriptor for one more configuration.
ReadConfig ==
    /\ pc = "config"
    /\ read < MaxConfigs
    /\ read' = read + 1
    /\ cfgNum' \in CfgNumbers
    /\ slots' \in BoundedSeq(Slots, slotsLeft)
    /\ slotsLeft' = slotsLeft - Len(slots')
    /\ pc' = "slot"
    /\ s' = 1 /\ a' = 1
    /\ hasIntf' = NewHasIntf
    /\ descs' = <<>>
    /\ interfaces' = <<>>
    /\ UNCHANGED cfgs

ReadFails ==
    /\ pc = "config"
    /\ read < MaxConfigs
    /\ pc' = "failed"
    /\ UNCHANGED <<deviceVars, s, a, hasIntf, descs, interfaces, cfgs>>

InSlot == pc = "slot" /\ s <= Len(slots)

\* Mutant: the settings of different interfaces are not told apart.
OfferedByAny == <<CHOOSE n \in Numbers : TRUE, slots[s].alternates[a]>>

Offered == <<slots[s].number, slots[s].alternates[a]>>

\* Mutant: the setting index goes on in the next slot.
NextSlotKeepsSetting == s' = s + 1 /\ descs' = <<>> /\ UNCHANGED a

NextSlot == s' = s + 1 /\ a' = 1 /\ descs' = <<>>

SkipSlot ==
    /\ InSlot /\ slots[s].alternates = <<>>
    /\ NextSlot
    /\ UNCHANGED <<pc, deviceVars, hasIntf, interfaces, cfgs>>

\* "gousb will use only the first one."
SkipSetting ==
    /\ InSlot /\ a <= Len(slots[s].alternates)
    /\ Offered \in hasIntf
    /\ a' = a + 1
    /\ UNCHANGED <<pc, deviceVars, s, hasIntf, descs, interfaces, cfgs>>

CopySetting ==
    /\ InSlot /\ a <= Len(slots[s].alternates)
    /\ Offered \notin hasIntf
    /\ hasIntf' = hasIntf \cup {Offered}
    /\ descs' = Append(descs, [alternate |-> slots[s].alternates[a], at |-> <<s, a>>])
    /\ a' = a + 1
    /\ UNCHANGED <<pc, deviceVars, s, interfaces, cfgs>>

CopyInterface ==
    /\ InSlot /\ a > Len(slots[s].alternates)
    /\ descs # <<>>
    /\ interfaces' = Append(interfaces,
                            [number |-> slots[s].number, altSettings |-> descs])
    /\ NextSlot
    /\ UNCHANGED <<pc, deviceVars, hasIntf, cfgs>>

\* descs[0] panics when all settings of the slot were offered before.
Panic ==
    /\ InSlot /\ a > Len(slots[s].alternates)
    /\ slots[s].alternates # <<>> /\ descs = <<>>
    /\ pc' = "panic"
    /\ UNCHANGED <<deviceVars, s, a, hasIntf, descs, interfaces, cfgs>>

\* A configuration replaces an earlier one of the same number.
CopyConfig ==
    /\ pc = "slot" /\ s > Len(slots)
    /\ cfgs' = [n \in DOMAIN cfgs \cup {cfgNum} |->
                    IF n = cfgNum THEN interfaces ELSE cfgs[n]]
    /\ pc' = "config"
    /\ UNCHANGED <<deviceVars, s, a, hasIntf, descs, interfaces>>

AllCopied ==
    /\ pc = "config"
    /\ pc' = "done"
    /\ UNCHANGED <<deviceVars, s, a, hasIntf, descs, interfaces, cfgs>>

Next ==
    \/ ReadConfig \/ ReadFails \/ SkipSlot \/ SkipSetting \/ CopySetting
    \/ CopyInterface \/ Panic \/ CopyConfig \/ AllCopied

Spec == Init /\ [][Next]_vars

-----------------------------------------------------------------------------
(* The look-ups of Config.Interface in the configuration copied last.  They   *)
(* give 0 for an error.                                                       *)

intfDesc(n) == SelectInSeq(interfaces, LAMBDA d : d.number = n)

altSetting(d, alt) == SelectInSeq(d.altSettings, LAMBDA x : x.alternate = alt)

NotFound == <<0, 0>>

\* Which of the settings offered by the device Interface(n, alt) uses.
Found(n, alt) ==
    LET d == intfDesc(n)
        k == IF d = 0 THEN 0 ELSE altSetting(interfaces[d], alt)
    IN  IF k = 0 THEN NotFound ELSE interfaces[d].altSettings[k].at

-----------------------------------------------------------------------------
(* Properties. *)

\* The first slot of interface n with settings, and the first setting alt of slot t.
FirstSlot(n) == SelectInSeq(slots, LAMBDA x : x.number = n /\ x.alternates # <<>>)
FirstSetting(t, alt) == SelectInSeq(slots[t].alternates, LAMBDA x : x = alt)

\* Interface(n, alt) uses the first setting alt that the device offers in the
\* first slot of interface n, however the slots are numbered and repeated, and
\* fails for those settings that are offered in later slots only.
FoundIsFirstOffered ==
    pc = "config" /\ read > 0 =>
        \A n \in Numbers, alt \in Alternates :
            LET slot == FirstSlot(n)
                k == IF slot = 0 THEN 0 ELSE FirstSetting(slot, alt)
            IN  Found(n, alt) = IF k = 0 THEN NotFound ELSE <<slot, k>>

\* getDeviceDesc panics on a device only if the device offers all settings of a
\* slot in earlier slots of the same configuration.
PanicMeansRepeatedSlot ==
    pc = "panic" =>
        \A alt \in ToSet(slots[s].alternates) :
            \E t \in 1..s - 1 :
                slots[t].number = slots[s].number /\ alt \in ToSet(slots[t].alternates)
=============================================================================
