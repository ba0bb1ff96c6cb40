------------------------ MODULE BootAssessmentProofs ------------------------
(***************************************************************************)
(* Proofs about BootAssessment: updates do not touch the slot that runs,   *)
(* only a base whose extensions were verified gets a boot entry, and a     *)
(* blessed base is left to come back to.                                   *)
(***************************************************************************)
EXTENDS BootAssessment, TLAPS

USE BasesAssumption, TriesAssumption

\* The disk has two slots, and an entry has its slot.
TwoSlots ==
  /\ \A a, b, c \in Bases :
       slot[a] # "none" /\ slot[b] # "none" /\ slot[c] # "none" => a = b \/ b = c \/ a = c
  /\ \A b \in Bases : uki[b] # "none" => slot[b] # "none"

\* What stage-base knows of its target at each step.
TargetOK ==
  /\ pc # "idle" => Up /\ target \in Bases
  /\ pc \in {"write", "uki"} => uki[target] = "none" /\ slot[target] # "none"
  /\ pc \in {"update", "write", "uki"} => target = running \/ Ready(target, Installed)

\* What carbideos-ops reboot has looked at holds until the node boots.
RebootChecked ==
  ~Up /\ halt = "checked" /\ uki[running] = "blessed"
    => \A b \in Bases : b > running /\ uki[b] # "none"
         => \A e \in Installed : images[b][e] # "none"

IInv == TypeOK /\ BootedSlotIntact /\ TwoSlots /\ TargetOK /\ RebootChecked
-------------------------------------------------------------------------------
\* The version systemd-boot sorts first is one of those it sorts: with two slots
\* there are at most two.
LEMMA NewestIsOne ==
  ASSUME TwoSlots, NEW S \in SUBSET {b \in Bases : uki[b] # "none"}, S # {}
  PROVE  Newest(S) \in S
<1>1. \E b \in S : \A c \in S : c <= b
  <2>1. PICK a \in S : TRUE
    OBVIOUS
  <2>2. CASE \A c \in S : c <= a
    BY <2>1, <2>2
  <2>3. CASE \E b \in S : ~(b <= a)
    <3>1. PICK b \in S : ~(b <= a)
      BY <2>3
    <3>2. \A c \in S : c = a \/ c = b
      BY <2>1, <3>1 DEF TwoSlots
    <3>3. a \in Nat /\ b \in Nat
      BY <2>1, <3>1
    <3>4. \A c \in S : c <= b
      BY <3>1, <3>2, <3>3
    <3> QED BY <3>1, <3>4
  <2> QED BY <2>2, <2>3
<1> QED BY <1>1 DEF Newest

\* The boot loader boots an entry.
LEMMA ChosenIsEntry ==
  ASSUME TypeOK, BootedSlotIntact, TwoSlots
  PROVE  Chosen \in Bases /\ uki[Chosen] # "none"
<1>1. CASE oneshot # None /\ uki[oneshot] # "none"
  BY <1>1 DEF Chosen, TypeOK
<1>2. CASE ~(oneshot # None /\ uki[oneshot] # "none") /\ Eligible # {}
  <2>1. Eligible \in SUBSET {b \in Bases : uki[b] # "none"}
    BY DEF Eligible
  <2>2. Newest(Eligible) \in Eligible
    BY <1>2, <2>1, NewestIsOne
  <2> QED BY <1>2, <2>1, <2>2 DEF Chosen
<1>3. CASE ~(oneshot # None /\ uki[oneshot] # "none") /\ Eligible = {}
  <2> DEFINE All == {b \in Bases : uki[b] # "none"}
  <2>1. running \in All
    BY DEF TypeOK, BootedSlotIntact
  <2>2. Newest(All) \in All
    BY <2>1, NewestIsOne
  <2> QED BY <1>3, <2>2 DEF Chosen
<1> QED BY <1>1, <1>2, <1>3
-------------------------------------------------------------------------------
\* Where a node starts: one base, nothing staged.
LEMMA InitIInv == Init => IInv
  BY DEF Init, IInv, TypeOK, BootedSlotIntact, Bootable, TwoSlots, TargetOK, RebootChecked, Up

\* Every step keeps the types.
LEMMA NextType ==
  ASSUME IInv, [Next]_vars
  PROVE  TypeOK'
<1> USE DEF IInv, TypeOK, Idle, Goes
<1>1. ASSUME NEW v \in Bases, StageBase(v) PROVE TypeOK'
  BY <1>1 DEF StageBase, entries, exts, boot, command
<1>2. CASE Verify
  BY <1>2 DEF Verify, entries, exts, boot, command
<1>3. CASE Update
  BY <1>3 DEF Update, exts, boot
<1>4. CASE Write
  BY <1>4 DEF Write, exts, boot
<1>5. CASE InstallUki
  BY <1>5 DEF InstallUki, exts, boot
<1>6. CASE Sync
  BY <1>6 DEF Sync, Flushed, exts, boot
<1>7. CASE Pending
  BY <1>7 DEF Pending, entries, exts, boot
<1>8. CASE Reverify
  BY <1>8 DEF Reverify, entries, exts, boot
<1>9. CASE Select
  BY <1>9 DEF Select, TargetOK, exts, boot
<1>10. ASSUME NEW e \in Exts, NEW b \in Bases, PlaceImage(e, b) PROVE TypeOK'
  BY <1>10 DEF PlaceImage, entries, boot, command
<1>11. ASSUME NEW e \in Exts, RemoveImage(e) \/ SetRequired(e) PROVE TypeOK'
  BY <1>11 DEF RemoveImage, SetRequired, entries, boot, command
<1>12. CASE GatePass \/ GateFail \/ Bless
  BY <1>12 DEF GatePass, GateFail, Bless, entries, exts, command
<1>13. CASE Reject \/ OperatorReboot
  BY <1>13 DEF Reject, OperatorReboot, Shutdown, Flushed, exts
<1>14. CASE PowerLoss
  BY <1>14 DEF PowerLoss, Flushed, exts
<1>15. CASE Boot
  <2>1. Chosen \in Bases
    BY ChosenIsEntry
  <2>2. tries' \in [Bases -> 0..TriesLeft]
    BY <1>15, <2>1 DEF Boot, Spend
  <2> QED BY <1>15, <2>1, <2>2 DEF Boot, command
<1>16. CASE UNCHANGED vars
  BY <1>16 DEF vars, entries, exts, boot, command
<1> QED
  BY <1>1, <1>2, <1>3, <1>4, <1>5, <1>6, <1>7, <1>8, <1>9, <1>10, <1>11, <1>12, <1>13,
     <1>14, <1>15, <1>16 DEF Next, StageStep

\* The base that runs keeps its slot and its entry.
LEMMA NextBooted ==
  ASSUME IInv, [Next]_vars
  PROVE  BootedSlotIntact'
<1> USE DEF IInv, BootedSlotIntact, Bootable
<1>1. ASSUME NEW v \in Bases, StageBase(v) PROVE BootedSlotIntact'
  BY <1>1 DEF StageBase, entries, boot
<1>2. CASE Verify \/ Pending \/ Reverify
  BY <1>2 DEF Verify, Pending, Reverify, entries, boot
<1>3. CASE Update
  BY <1>3 DEF Update, Evicted, TypeOK, boot
<1>4. CASE Write \/ InstallUki
  BY <1>4 DEF Write, InstallUki, TypeOK, TargetOK, boot
<1>5. CASE Sync \/ Select
  BY <1>5 DEF Sync, Select, Flushed, TypeOK, boot
<1>6. ASSUME NEW e \in Exts, NEW b \in Bases, PlaceImage(e, b) PROVE BootedSlotIntact'
  BY <1>6 DEF PlaceImage, entries, boot
<1>7. ASSUME NEW e \in Exts, RemoveImage(e) \/ SetRequired(e) PROVE BootedSlotIntact'
  BY <1>7 DEF RemoveImage, SetRequired, entries, boot
<1>8. CASE GatePass \/ GateFail \/ Bless
  BY <1>8 DEF GatePass, GateFail, Bless, entries, TypeOK
<1>9. CASE Reject \/ OperatorReboot
  BY <1>9 DEF Reject, OperatorReboot, Shutdown, Flushed, TypeOK
<1>10. CASE PowerLoss
  BY <1>10 DEF PowerLoss, Flushed, TypeOK
<1>11. CASE Boot
  BY <1>11, ChosenIsEntry DEF Boot
<1>12. CASE UNCHANGED vars
  BY <1>12 DEF vars, entries, boot
<1> QED
  BY <1>1, <1>2, <1>3, <1>4, <1>5, <1>6, <1>7, <1>8, <1>9, <1>10, <1>11, <1>12
  DEF Next, StageStep

\* Only Update writes to a slot that was free, and it frees the other.
LEMMA NextSlots ==
  ASSUME IInv, [Next]_vars
  PROVE  TwoSlots'
<1> USE DEF IInv, TwoSlots
<1>1. CASE Update
  BY <1>1 DEF Update, Evicted, TypeOK, TargetOK, BootedSlotIntact, boot
<1>2. CASE Write \/ InstallUki
  BY <1>2 DEF Write, InstallUki, TypeOK, TargetOK, boot
<1>3. CASE Sync \/ Reject \/ OperatorReboot
  BY <1>3 DEF Sync, Reject, OperatorReboot, Shutdown, Flushed, TypeOK, boot
<1>4. CASE PowerLoss
  BY <1>4 DEF PowerLoss, Flushed, TypeOK
<1>5. CASE Bless
  BY <1>5 DEF Bless, TypeOK, BootedSlotIntact
<1>6. CASE \/ Verify \/ Pending \/ Reverify \/ Select \/ GatePass \/ GateFail \/ Boot
           \/ UNCHANGED vars
  BY <1>6 DEF Verify, Pending, Reverify, Select, GatePass, GateFail, Boot, vars, entries
<1>7. ASSUME NEW e \in Exts, NEW b \in Bases,
             PlaceImage(e, b) \/ RemoveImage(e) \/ SetRequired(e)
      PROVE  TwoSlots'
  BY <1>7 DEF PlaceImage, RemoveImage, SetRequired, entries
<1>8. ASSUME NEW b \in Bases, StageBase(b) PROVE TwoSlots'
  BY <1>8 DEF StageBase, entries
<1> QED
  BY <1>1, <1>2, <1>3, <1>4, <1>5, <1>6, <1>7, <1>8 DEF Next, StageStep

\* What was verified stays true while the command holds the lock.
LEMMA NextTarget ==
  ASSUME IInv, [Next]_vars
  PROVE  TargetOK'
<1> USE DEF IInv, TargetOK, Idle, Goes
<1>1. ASSUME NEW v \in Bases, StageBase(v) PROVE TargetOK'
  BY <1>1 DEF StageBase, boot, Up
<1>2. CASE Verify
  <2>1. CASE Verifies /\ Goes("update")
    <3>1. target = running \/ Ready(target, Installed)
      BY <2>1 DEF Verifies, Names, Ready
    <3> QED BY <1>2, <2>1, <3>1 DEF Verify, exts, boot, Up, Ready, Installed
  <2>2. CASE Refuses /\ Idle
    BY <1>2, <2>2
  <2> QED BY <1>2, <2>1, <2>2 DEF Verify
<1>3. CASE Update
  BY <1>3 DEF Update, TypeOK, exts, boot, Up, Ready, Installed, Evicted
<1>4. CASE Write
  BY <1>4 DEF Write, TypeOK, exts, boot, Up, Ready, Installed
<1>5. CASE InstallUki \/ Sync \/ Pending \/ Reverify \/ Select
  BY <1>5 DEF InstallUki, Sync, Pending, Reverify, Select, entries, boot, Up
<1>6. ASSUME NEW e \in Exts, NEW b \in Bases, PlaceImage(e, b) PROVE TargetOK'
  BY <1>6 DEF PlaceImage, entries, boot, command, Up
<1>7. ASSUME NEW e \in Exts, RemoveImage(e) \/ SetRequired(e) PROVE TargetOK'
  BY <1>7 DEF RemoveImage, SetRequired, entries, boot, command, Up
<1>8. CASE GatePass \/ GateFail
  BY <1>8 DEF GatePass, GateFail, entries, exts, command, Up, Ready, Installed
<1>9. CASE Bless
  BY <1>9 DEF Bless, BootedSlotIntact, TypeOK, exts, command, Up, Ready, Installed
<1>10. CASE Reject \/ OperatorReboot \/ PowerLoss
  BY <1>10 DEF Reject, OperatorReboot, Shutdown, PowerLoss
<1>11. CASE Boot
  BY <1>11 DEF Boot, command, Up
<1>12. CASE UNCHANGED vars
  BY <1>12 DEF vars, entries, exts, boot, command, Up, Ready, Installed
<1> QED
  BY <1>1, <1>2, <1>3, <1>4, <1>5, <1>6, <1>7, <1>8, <1>9, <1>10, <1>11, <1>12
  DEF Next, StageStep

\* Nothing changes between the check and the boot.
LEMMA NextChecked ==
  ASSUME IInv, [Next]_vars
  PROVE  RebootChecked'
<1> USE DEF IInv, RebootChecked, Up
<1>1. CASE OperatorReboot
  <2>1. SUFFICES ASSUME halt' = "checked", uki[running] = "blessed",
                        NEW b \in Bases, b > running, uki[b] # "none",
                        NEW e \in Installed
                 PROVE  images[b][e] # "none"
    BY <1>1 DEF OperatorReboot, Shutdown, exts, Installed
  <2>2. RequirePendingExtensions
    BY <1>1, <2>1 DEF OperatorReboot, Shutdown, UpdatePending
  <2>3. PICK p \in Bases : Counted = {p} /\ \A x \in Installed : images[p][x] # "none"
    BY <2>1, <2>2 DEF RequirePendingExtensions
  <2>4. p # running /\ uki[p] # "none"
    BY <2>1, <2>3 DEF Counted
  <2>5. b # running
    BY <2>1 DEF TypeOK
  <2>6. b = p
    BY <2>1, <2>4, <2>5 DEF TwoSlots, TypeOK
  <2> QED BY <2>3, <2>6
<1>2. CASE Reject \/ PowerLoss \/ Boot
  BY <1>2 DEF Reject, Shutdown, PowerLoss, Boot
<1>3. CASE UNCHANGED vars
  BY <1>3 DEF vars, entries, exts, boot, Installed
<1>4. CASE StageStep
  BY <1>4 DEF TargetOK, Up, StageStep, Verify, Update, Write, InstallUki, Sync, Pending,
     Reverify, Select, boot
<1>5. ASSUME NEW b \in Bases, StageBase(b) PROVE RebootChecked'
  BY <1>5 DEF StageBase, boot
<1>6. ASSUME NEW e \in Exts, NEW b \in Bases, PlaceImage(e, b) PROVE RebootChecked'
  BY <1>6 DEF PlaceImage, boot
<1>7. ASSUME NEW e \in Exts, RemoveImage(e) \/ SetRequired(e) PROVE RebootChecked'
  BY <1>7 DEF RemoveImage, SetRequired, boot
<1>8. CASE GatePass \/ GateFail \/ Bless
  BY <1>8 DEF GatePass, GateFail, Bless
<1> QED
  BY <1>1, <1>2, <1>3, <1>4, <1>5, <1>6, <1>7, <1>8 DEF Next

\* Every step keeps all of it.
LEMMA Inductive == IInv /\ [Next]_vars => IInv'
  BY NextType, NextBooted, NextSlots, NextTarget, NextChecked DEF IInv

\* Every reachable state satisfies the invariant.
LEMMA InvariantHolds == Spec => []IInv
  BY InitIInv, Inductive, PTL DEF Spec
-------------------------------------------------------------------------------
(***************************************************************************)
(* Safety.                                                                 *)
(***************************************************************************)
\* Every variable stays within the shape the code gives it.
THEOREM TypeCorrect == Spec => []TypeOK
  BY InvariantHolds, PTL DEF IInv

\* An update, cut short anywhere, leaves the running base bootable.
THEOREM RunningBaseStays == Spec => []BootedSlotIntact
  BY InvariantHolds, PTL DEF IInv

\* A boot entry is written by one step only, for a base whose extensions the
\* command verified before it began to write.
LEMMA EntryStep ==
  ASSUME IInv, [Next]_vars, NEW b \in Bases, uki[b] = "none", uki'[b] # "none"
  PROVE  Ready(b, Installed)
<1>1. CASE InstallUki
  <2>1. b = target
    BY <1>1 DEF InstallUki, IInv, TypeOK
  <2>2. b # running
    BY DEF IInv, BootedSlotIntact
  <2> QED BY <1>1, <2>1, <2>2 DEF InstallUki, IInv, TargetOK
<1>2. CASE Update \/ PowerLoss \/ Bless
  BY <1>2 DEF Update, PowerLoss, Bless, IInv, TypeOK, BootedSlotIntact
<1>3. CASE ~(InstallUki \/ Update \/ PowerLoss \/ Bless)
  <2>1. uki' = uki
    BY <1>3 DEF Next, StageStep, vars, entries, StageBase, Verify, Write, Sync, Pending,
       Reverify, Select, PlaceImage, RemoveImage, SetRequired, GatePass, GateFail, Reject,
       Shutdown, OperatorReboot, Boot
  <2> QED BY <2>1
<1> QED BY <1>1, <1>2, <1>3

\* The other slot becomes bootable only with an image of every installed extension.
THEOREM EntriesHaveExtensions == Spec => EntryHasExtensions
<1>1. IInv /\ [Next]_vars
        => [\A b \in Bases : uki[b] = "none" /\ uki'[b] # "none" => Ready(b, Installed)]_vars
  BY EntryStep
<1> QED BY <1>1, InvariantHolds, PTL DEF Spec, EntryHasExtensions

\* A reboot that was checked into a newer base keeps the extensions.
THEOREM CheckedRebootsKeepExtensions == Spec => CheckedRebootKeepsExtensions
<1>1. IInv /\ [Next]_vars
        => [Boot /\ halt = "checked" /\ uki[running] = "blessed" /\ running' > running
              => \A e \in Installed : images[running'][e] # "none"]_vars
  <2>1. SUFFICES ASSUME IInv, Boot, halt = "checked", uki[running] = "blessed",
                        running' > running
                 PROVE  \A e \in Installed : images[running'][e] # "none"
    OBVIOUS
  <2>2. Chosen \in Bases /\ uki[Chosen] # "none"
    BY <2>1, ChosenIsEntry DEF IInv
  <2>3. running' = Chosen \/ running' = running
    BY <2>1 DEF Boot
  <2>4. running' = Chosen
    BY <2>1, <2>3 DEF IInv, TypeOK
  <2>5. ~Up
    BY <2>1 DEF Boot, Up
  <2> QED BY <2>1, <2>2, <2>4, <2>5 DEF IInv, RebootChecked
<1> QED BY <1>1, InvariantHolds, PTL DEF Spec, CheckedRebootKeepsExtensions
-------------------------------------------------------------------------------
(***************************************************************************)
(* There is a base to come back to, provided that stage-base is given on   *)
(* blessed boots only: then the base it must not overwrite is the blessed  *)
(* one.                                                                    *)
(***************************************************************************)
BlessedInv ==
  /\ pc # "idle" => phase = "up"
  /\ phase = "up" => uki[running] = "blessed"
  /\ phase = "passed" => quality[running] = "good"
  /\ \A b \in Bases : uki[b] = "blessed" => quality[b] = "good"
  /\ FallbackKept

\* A node starts in the base it was installed with, blessed and good.
LEMMA InitBlessed == Init => BlessedInv
  BY DEF Init, BlessedInv, FallbackKept

\* Every step keeps it, unless updates are staged before the boot is blessed.
LEMMA NextBlessed ==
  ASSUME ~EarlyStaging, IInv, BlessedInv, [Next]_vars
  PROVE  BlessedInv'
<1> USE DEF IInv, BlessedInv, FallbackKept, Goes, Idle
<1>1. ASSUME NEW v \in Bases, StageBase(v) PROVE BlessedInv'
  BY <1>1 DEF StageBase, entries, boot
<1>2. CASE Verify \/ Pending \/ Reverify \/ Select
  BY <1>2 DEF Verify, Pending, Reverify, Select, entries, boot
<1>11. CASE Sync
  BY <1>11 DEF Sync, Flushed, TypeOK, boot
<1>12. CASE Write
  BY <1>12 DEF Write, TypeOK, TargetOK, boot
<1>3. CASE Update
  <2>1. running \in Bases /\ running \notin Evicted /\ uki[running] = "blessed"
    BY <1>3 DEF Update, Evicted, TypeOK
  <2>2. uki'[running] = "blessed" /\ slot'[running] = "durable" /\ quality'[running] = "good"
    BY <1>3, <2>1 DEF Update, TypeOK, BootedSlotIntact, Bootable
  <2> QED BY <1>3, <2>1, <2>2 DEF Update, TypeOK, boot
<1>4. CASE InstallUki
  BY <1>4 DEF InstallUki, TypeOK, TargetOK, boot
<1>5. ASSUME NEW e \in Exts, NEW b \in Bases,
             PlaceImage(e, b) \/ RemoveImage(e) \/ SetRequired(e)
      PROVE  BlessedInv'
  BY <1>5 DEF PlaceImage, RemoveImage, SetRequired, entries, boot, command
<1>6. CASE GatePass \/ GateFail
  BY <1>6 DEF GatePass, GateFail, entries, command
<1>7. CASE Bless
  BY <1>7 DEF Bless, TypeOK, command
<1>8. CASE Reject \/ OperatorReboot \/ PowerLoss
  <2>1. PICK b \in Bases : uki[b] = "blessed" /\ slot[b] = "durable" /\ quality[b] = "good"
    OBVIOUS
  <2>2. slot'[b] = "durable" /\ uki'[b] = "blessed" /\ quality' = quality
    BY <1>8, <2>1 DEF Reject, OperatorReboot, Shutdown, PowerLoss, Flushed
  <2>3. \A c \in Bases : uki'[c] = "blessed" => uki[c] = "blessed"
    BY <1>8 DEF Reject, OperatorReboot, Shutdown, PowerLoss
  <2>4. pc' = "idle" /\ phase' = "down"
    BY <1>8 DEF Reject, OperatorReboot, Shutdown, PowerLoss
  <2> QED BY <2>1, <2>2, <2>3, <2>4
<1>9. CASE Boot
  <2>1. UNCHANGED <<uki, slot, quality, pc>> /\ pc = "idle"
    BY <1>9 DEF Boot, command
  <2>2. phase' = "up" => uki[running'] = "blessed"
    BY <1>9, ChosenIsEntry, ZenonT(60) DEF Boot, TypeOK
  <2>3. phase' # "passed"
    BY <1>9 DEF Boot
  <2> QED BY <2>1, <2>2, <2>3
<1>10. CASE UNCHANGED vars
  BY <1>10 DEF vars, entries, boot, command
<1> QED
  BY <1>1, <1>2, <1>3, <1>4, <1>5, <1>6, <1>7, <1>8, <1>9, <1>10, <1>11, <1>12
  DEF Next, StageStep

\* Some blessed base is always whole, if no base is staged over an unproven one.
THEOREM FallbackIsKept ==
  ASSUME ~EarlyStaging
  PROVE  Spec => []FallbackKept
<1>1. IInv /\ BlessedInv /\ [Next]_vars => BlessedInv'
  BY NextBlessed
<1> QED BY <1>1, InitBlessed, InvariantHolds, PTL DEF Spec, BlessedInv
===============================================================================
