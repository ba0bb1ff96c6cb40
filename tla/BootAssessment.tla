---------------------------- MODULE BootAssessment ----------------------------
(***************************************************************************)
(* Base image updates and boot assessment: `carbide-agent stage-base`      *)
(* (agent/src/ops.rs, system.rs), the sysupdate transfers, the health gate *)
(* and its reboot, `carbideos-ops reboot`, and the boot loader that counts *)
(* boots.                                                                  *)
(*                                                                         *)
(* The disk has two slots.  An update overwrites the one that does not run *)
(* and adds a boot entry that may be tried a few times; a boot that passes *)
(* the gate blesses its entry, one that fails it reboots, and an entry     *)
(* whose tries are spent is passed over.  Power may go at any step.        *)
(***************************************************************************)
EXTENDS Naturals, FiniteSets

CONSTANTS
  Bases,         \* versions of the base image, by age
  Exts,          \* names of extensions
  TriesLeft,     \* 90-uki.transfer
  EarlyStaging,  \* whether stage-base is also given before the boot is blessed
  IoErrors,      \* whether the list of merged or required names may be unreadable
  None

ASSUME BasesAssumption == Bases \subseteq Nat /\ None \notin Bases
ASSUME TriesAssumption == TriesLeft \in Nat \ {0}
ASSUME FlagsAssumption == EarlyStaging \in BOOLEAN /\ IoErrors \in BOOLEAN

VARIABLES
  \* On disk.
  uki,       \* per base: no boot entry, a counted one (+l-d), or a blessed one
  tries,     \* per base: the tries its counted entry has left
  slot,      \* per base: its root partitions are absent, cut short, in cache, or on disk
  oneshot,   \* LoaderEntryOneShot
  images,    \* per base and extension: <ext>_<base>.raw is absent, unusable, or valid
  required,  \* the extensions state.json requires
  \* Of the running system.
  running,   \* the base that runs, or ran last
  phase,     \* of the boot
  merged,    \* extensions systemd-sysext has merged
  halt,      \* how the system went down, until it boots
  \* Of the stage-base command that holds the operation lock.
  pc, target,
  \* What the releases are worth: fixed, and unknown to the node.
  quality

entries == <<uki, tries, slot, oneshot>>
exts == <<images, required, merged>>
boot == <<running, phase, halt>>
command == <<pc, target>>
vars == <<entries, exts, boot, command, quality>>

Up == phase # "down"
Idle == pc' = "idle" /\ target' = None
Counted == {b \in Bases : uki[b] = "counted"}
Newest(S) == CHOOSE b \in S : \A c \in S : c <= b

Init ==
  /\ running \in Bases
  /\ uki = [b \in Bases |-> IF b = running THEN "blessed" ELSE "none"]
  /\ tries = [b \in Bases |-> 0]
  /\ slot = [b \in Bases |-> IF b = running THEN "durable" ELSE "none"]
  /\ oneshot = None
  /\ images \in [Bases -> [Exts -> {"none", "bad", "valid"}]]
  /\ required \in SUBSET Exts
  /\ merged = {e \in Exts : images[running][e] = "valid"}
  /\ phase = "up" /\ halt = "none"
  /\ pc = "idle" /\ target = None
  /\ quality \in [Bases -> {"good", "unhealthy", "unbootable"}]
  /\ quality[running] = "good"
-------------------------------------------------------------------------------
(***************************************************************************)
(* stage_base, under the operation lock.                                   *)
(***************************************************************************)
StageBase(v) ==
  /\ pc = "idle" /\ Up
  /\ phase = "up" \/ EarlyStaging
  /\ pc' = "verify" /\ target' = v
  /\ UNCHANGED <<entries, exts, boot, quality>>

\* installed_extensions_for, and the names that are merged or required, as far
\* as they can be read.
Installed == {e \in Exts : images[running][e] # "none"}
Names ==
  {Installed \cup m \cup r :
     m \in {merged} \cup (IF IoErrors THEN {{}} ELSE {}),
     r \in {required} \cup (IF IoErrors THEN {{}} ELSE {})}

Ready(b, names) == \A e \in names : images[b][e] = "valid"

\* verify_extensions_for, before the download and again before the selection.
Verifies == target = running \/ \E names \in Names : Ready(target, names)
Refuses == target # running /\ \E names \in Names : ~Ready(target, names)

Goes(step) == pc' = step /\ UNCHANGED target

\* Slip: the extensions are looked at only when the boot entry is selected.
VerifyLate ==
  /\ pc = "verify" /\ Goes("update")
  /\ UNCHANGED <<entries, exts, boot, quality>>

Verify ==
  /\ pc = "verify"
  /\ \/ Verifies /\ Goes("update")
     \/ Refuses /\ Idle
  /\ UNCHANGED <<entries, exts, boot, quality>>

\* Slip: without ProtectVersion the oldest instance makes room.
EvictOldest ==
  LET others == {b \in Bases \ {target} : slot[b] # "none"}
  IN  {b \in others : Cardinality(others) > 1 /\ \A c \in others : b <= c}

\* The versions sysupdate vacuums to make room for the target: what
\* ProtectVersion and InstancesMax do not keep.
Evicted == {b \in Bases \ {target, running} : slot[b] # "none"}

\* systemd-sysupdate skips a version that is installed already.  Otherwise it
\* vacuums the other slot, entry first, and starts to write.
Update ==
  /\ pc = "update"
  /\ IF uki[target] # "none"
     THEN Goes("sync") /\ UNCHANGED <<uki, slot>>
     ELSE /\ uki' = [b \in Bases |-> IF b \in Evicted THEN "none" ELSE uki[b]]
          /\ slot' = [b \in Bases |-> IF b = target THEN "partial"
                                      ELSE IF b \in Evicted THEN "none" ELSE slot[b]]
          /\ Goes("write")
  /\ UNCHANGED <<tries, oneshot, exts, boot, quality>>

Write ==
  /\ pc = "write"
  /\ \/ slot' = [slot EXCEPT ![target] = "cached"] /\ Goes("uki")
     \/ Idle /\ UNCHANGED slot
  /\ UNCHANGED <<uki, tries, oneshot, exts, boot, quality>>

\* Slip: the entry is written without a counter.
InstallUncounted ==
  /\ pc = "uki"
  /\ uki' = [uki EXCEPT ![target] = "blessed"]
  /\ Goes("sync")
  /\ UNCHANGED <<tries, slot, oneshot, exts, boot, quality>>

\* The UKI is transferred last: the slot is now the newest there is to boot.
InstallUki ==
  /\ pc = "uki"
  /\ \/ /\ uki' = [uki EXCEPT ![target] = "counted"]
        /\ tries' = [tries EXCEPT ![target] = TriesLeft]
        /\ Goes("sync")
     \/ Idle /\ UNCHANGED <<uki, tries>>
  /\ UNCHANGED <<slot, oneshot, exts, boot, quality>>

Flushed == [b \in Bases |-> IF slot[b] = "cached" THEN "durable" ELSE slot[b]]

\* `let _ = system::sync()`: a sync that fails is not noticed.
Sync ==
  /\ pc = "sync"
  /\ slot' \in {slot, Flushed}
  /\ Goes("pending")
  /\ UNCHANGED <<uki, tries, oneshot, exts, boot, quality>>

\* pending_base_version: the one counted entry, which has to be the target.
Pending ==
  /\ pc = "pending"
  /\ IF Counted = {target} THEN Goes("reverify") ELSE Idle
  /\ UNCHANGED <<entries, exts, boot, quality>>

Reverify ==
  /\ pc = "reverify"
  /\ \/ Verifies /\ Goes("select")
     \/ Refuses /\ Idle
  /\ UNCHANGED <<entries, exts, boot, quality>>

\* set_oneshot, of the entry pending_boot_entry finds.
Select ==
  /\ pc = "select"
  /\ oneshot' \in {oneshot, target}
  /\ Idle
  /\ UNCHANGED <<uki, tries, slot, exts, boot, quality>>

StageStep ==
  Verify \/ Update \/ Write \/ InstallUki \/ Sync \/ Pending \/ Reverify \/ Select
-------------------------------------------------------------------------------
(***************************************************************************)
(* What the extension commands do to the images, under the same lock.      *)
(***************************************************************************)
\* stage-extension for another base, or an activation on the running one.
PlaceImage(e, b) ==
  /\ pc = "idle" /\ Up
  /\ images' = [images EXCEPT ![b][e] = "valid"]
  /\ merged' = IF b = running THEN merged \cup {e} ELSE merged
  /\ UNCHANGED <<entries, required, boot, command, quality>>

\* remove_extension: of the running base only.
RemoveImage(e) ==
  /\ pc = "idle" /\ Up
  /\ images' = [images EXCEPT ![running][e] = "none"]
  /\ merged' = merged \ {e}
  /\ required' = required \ {e}
  /\ UNCHANGED <<entries, boot, command, quality>>

SetRequired(e) ==
  /\ pc = "idle" /\ Up
  /\ required' \in {required \cup {e}, required \ {e}}
  /\ UNCHANGED <<entries, images, merged, boot, command, quality>>
-------------------------------------------------------------------------------
(***************************************************************************)
(* Boot assessment.                                                        *)
(***************************************************************************)
\* carbide-agent-health.service, for as long as the boot is assessed.  The gate
\* waits for the lock and is failed by its timeout.
GatePass ==
  /\ phase = "assessing" /\ pc = "idle"
  /\ quality[running] = "good" /\ required \subseteq merged
  /\ phase' = "passed"
  /\ UNCHANGED <<entries, exts, running, halt, command, quality>>

GateFail ==
  /\ phase = "assessing"
  /\ pc # "idle" \/ quality[running] # "good" \/ ~(required \subseteq merged)
  /\ phase' = "rejected"
  /\ UNCHANGED <<entries, exts, running, halt, command, quality>>

\* systemd-bless-boot.service takes the counter off the entry that was booted.
Bless ==
  /\ phase = "passed"
  /\ phase' = "up"
  /\ uki' = [uki EXCEPT ![running] = "blessed"]
  /\ UNCHANGED <<tries, slot, oneshot, exts, running, halt, command, quality>>

\* An orderly shutdown ends the command and writes the caches out.
Shutdown(how) ==
  /\ phase' = "down" /\ halt' = how
  /\ slot' = Flushed
  /\ Idle
  /\ UNCHANGED <<uki, tries, oneshot, exts, running, quality>>

\* FailureAction=reboot.
Reject == phase = "rejected" /\ Shutdown("rejected")

\* systemd-sysupdate pending: a version newer than the one booted is installed.
UpdatePending == \E b \in Bases : b > running /\ uki[b] # "none"

\* Slip: `reboot` does not look at the extensions.
RequireNothing == TRUE

\* require_pending_extensions: the images present for the running base are
\* present for the one pending base.
RequirePendingExtensions ==
  Installed # {} =>
    \E p \in Bases : Counted = {p} /\ \A e \in Installed : images[p][e] # "none"

\* carbideos-ops reboot.
OperatorReboot ==
  /\ Up /\ pc = "idle"
  /\ IF UpdatePending
     THEN RequirePendingExtensions /\ Shutdown("checked")
     ELSE Shutdown("plain")

\* What is still cached may be lost, the partitions in part and the entry whole.
PowerLoss ==
  /\ Up
  /\ phase' = "down" /\ halt' = "cut"
  /\ slot' \in {Flushed, [b \in Bases |-> IF slot[b] = "cached" THEN "partial" ELSE slot[b]]}
  /\ uki' \in {uki, [b \in Bases |-> IF slot[b] = "cached" THEN "none" ELSE uki[b]]}
  /\ Idle
  /\ UNCHANGED <<tries, oneshot, exts, running, quality>>

\* Slip: an entry without tries left is as good as another.
EligibleAnyway == {b \in Bases : uki[b] # "none"}

Eligible == {b \in Bases : uki[b] = "blessed" \/ (uki[b] = "counted" /\ tries[b] > 0)}

\* systemd-boot: the entry named for this boot only, else the newest, with the
\* entries that have no tries left after all others.
Chosen ==
  IF oneshot # None /\ uki[oneshot] # "none" THEN oneshot
  ELSE IF Eligible # {} THEN Newest(Eligible)
  ELSE Newest({b \in Bases : uki[b] # "none"})

\* Slip: a try is taken off whether there is one left or not.
SpendAnyway(b) == IF uki[b] = "counted" THEN [tries EXCEPT ![b] = @ - 1] ELSE tries

\* A counted boot costs a try.
Spend(b) == IF uki[b] = "counted" /\ tries[b] > 0 THEN [tries EXCEPT ![b] = @ - 1] ELSE tries

Bootable(b) == slot[b] = "durable" /\ quality[b] # "unbootable"

\* A counted boot that does not get far enough to be assessed panics or ends in
\* emergency mode, and is reset.
Boot ==
  LET b == Chosen IN
  /\ phase = "down"
  /\ oneshot' = None /\ halt' = "none"
  /\ tries' = Spend(b)
  /\ IF Bootable(b)
     THEN /\ running' = b
          /\ phase' = IF uki[b] = "counted" THEN "assessing" ELSE "up"
          /\ merged' = {e \in Exts : images[b][e] = "valid"}
     ELSE UNCHANGED <<running, phase, merged>>
  /\ UNCHANGED <<uki, slot, images, required, command, quality>>

Next ==
  \/ \E v \in Bases : StageBase(v)
  \/ StageStep
  \/ \E e \in Exts, b \in Bases : PlaceImage(e, b)
  \/ \E e \in Exts : RemoveImage(e) \/ SetRequired(e)
  \/ GatePass \/ GateFail \/ Bless \/ Reject
  \/ OperatorReboot \/ PowerLoss \/ Boot

Spec == Init /\ [][Next]_vars

\* Commands, units and the firmware keep running; nobody has to reboot, and
\* nothing has to be staged.
Fairness ==
  /\ WF_vars(StageStep) /\ WF_vars(Boot)
  /\ WF_vars(GatePass \/ GateFail) /\ WF_vars(Bless) /\ WF_vars(Reject)

FairSpec == Spec /\ Fairness
-------------------------------------------------------------------------------
(***************************************************************************)
(* Properties.                                                             *)
(***************************************************************************)
\* Every variable stays within the shape the code gives it.
TypeOK ==
  /\ uki \in [Bases -> {"none", "counted", "blessed"}]
  /\ tries \in [Bases -> 0..TriesLeft]
  /\ slot \in [Bases -> {"none", "partial", "cached", "durable"}]
  /\ oneshot \in Bases \cup {None}
  /\ images \in [Bases -> [Exts -> {"none", "bad", "valid"}]]
  /\ required \subseteq Exts /\ merged \subseteq Exts
  /\ running \in Bases
  /\ phase \in {"assessing", "passed", "rejected", "up", "down"}
  /\ halt \in {"none", "plain", "checked", "rejected", "cut"}
  /\ pc \in {"idle", "verify", "update", "write", "uki", "sync", "pending", "reverify", "select"}
  /\ target \in Bases \cup {None}
  /\ quality \in [Bases -> {"good", "unhealthy", "unbootable"}]

\* An update never overwrites the slot it runs from, nor takes its boot entry,
\* whatever was staged, selected or cut short before (ProtectVersion).
BootedSlotIntact == Bootable(running) /\ uki[running] # "none"

\* Whenever power goes there is a base to come back to that was blessed, is
\* whole on disk and boots into a passing gate: an update overwrites the other
\* slot only once its own is such a base.
FallbackKept ==
  \E b \in Bases : uki[b] = "blessed" /\ slot[b] = "durable" /\ quality[b] = "good"

\* README.md: the agent "validates every required extension for the incoming
\* base before writing the inactive slot".  The boot entry alone makes the slot
\* the next one to boot, whether or not stage-base gets as far as selecting it.
EntryHasExtensions ==
  [][\A b \in Bases : uki[b] = "none" /\ uki'[b] # "none" => Ready(b, Installed)]_vars

\* A node rebooted by its operator from a blessed base into a newer one finds
\* there an image of every extension the old base had one of, also of those
\* activated or removed since the base was staged.
CheckedRebootKeepsExtensions ==
  [][Boot /\ halt = "checked" /\ uki[running] = "blessed" /\ running' > running
       => \A e \in Installed : images[running'][e] # "none"]_vars

\* carbide-agent-health.service: "This cannot loop".  Whatever is staged and
\* however bad it is, the node gets back to a blessed boot, once the power holds.
NoRebootLoop == <>[](halt # "cut") => []<>(phase = "up")

(***************************************************************************)
(* What the documentation says and the code does not do.                   *)
(***************************************************************************)
\* carbide-agent-health.service: "at zero systemd-boot stops considering it and
\* the previous image comes back", once nothing is staged any more and nobody
\* but the gate takes the node down.
PreviousComesBack ==
  <>[](pc = "idle" /\ halt \in {"none", "rejected"}) => (phase = "rejected" ~> phase = "up")
===============================================================================
