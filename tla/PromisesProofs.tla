---------------------------- MODULE PromisesProofs ----------------------------
(***************************************************************************)
(* What the agent promises beyond Supervision: a refusal stands, one image *)
(* is visible, a recovered node runs what was retained, what is retained   *)
(* has been proven, and a request is carried out once.                     *)
(*                                                                         *)
(* Three of them are about nodes with one base image, as the runs are: an  *)
(* image staged for the other slot may be put beside an unscoped one, and  *)
(* a reboot into the other slot leaves the retained image behind.          *)
(***************************************************************************)
EXTENDS SupervisionProofs

OneBase == \A b, c \in Bases : b = c
--------------------------------------------------------------------------------
(***************************************************************************)
(* A refusal stands.                                                       *)
(***************************************************************************)
Gates == {"gate", "require", "unrequire"}

\* A boot unit or a mark that finds a refusal holds it in memory, and is at none of
\* the steps that would undo it.
KeptInv ==
  entry.phase = "Unrecoverable" /\ entry.terminalOs = running /\ cmd.op \in Gates
    => /\ pc \in {"r_case", "r_prune", "r_store", "g_verify", "c_store", "done"}
       /\ mem.phase = "Unrecoverable" /\ mem.terminalOs = running

\* A refusal is recorded with the base it was made under.
LEMMA TerminalRefuses ==
  ASSUME TypeInv, Terminal
  PROVE  /\ mem'.phase = "Unrecoverable" /\ mem'.terminalOs = running
         /\ entry' \in {entry, mem'} /\ pc' = ret
BY DEF Terminal, StoreOk, StoreFails, TypeInv, TypeOK, Entry

\* Every step keeps it.
LEMMA NextKept ==
  ASSUME TypeInv, FallbackInv, KeptInv, [Next]_vars
  PROVE  KeptInv'
<1> USE DEF disk, files, system, agent, KeptInv, Gates
<1>0. /\ entry \in Entry /\ mem \in Entry
      /\ pc \in RecoverSteps => ret \in {"r_prune", "c_store", "done"}
      /\ pc \in ActivateSteps \cup AdoptSteps \cup StageSteps => cmd.op \notin Gates
      /\ pc = "r_case" => snap = mem
  BY DEF TypeInv, TypeOK, ControlInv, FallbackInv, ReconcileInv
<1>1. CASE ReconcileTransient \/ ReconcileRemoving
  BY <1>0, <1>1 DEF ReconcileTransient, ReconcileRemoving, CallRecover, Transient
<1>2. CASE ReconcileStaged \/ ReconcileActive \/ ReconcileAtRest
  <2>1. /\ pc = "r_case" /\ UNCHANGED <<entry, running, cmd>>
        /\ mem.phase = "Unrecoverable" => mem' = mem /\ pc' = "r_prune"
    BY <1>0, <1>2 DEF ReconcileStaged, ReconcileActive, ReconcileAtRest
  <2> QED
    BY <2>1
<1>3. CASE ReconcilePrune
  BY <1>3 DEF ReconcilePrune
<1>4. CASE ReconcileStore
  <2>1. /\ pc = "r_store" /\ UNCHANGED <<running, cmd, mem>> /\ entry' \in {entry, mem}
        /\ pc' \in {FirstStep(cmd.op), "done"}
    BY <1>4 DEF ReconcileStore, StoreOk, StoreFails
  <2>2. cmd.op \in Gates => FirstStep(cmd.op) \in {"g_verify", "c_store"}
    BY DEF FirstStep
  <2>3. entry.phase = "Unrecoverable" /\ entry.terminalOs = running /\ cmd.op \in Gates
          => mem.phase = "Unrecoverable" /\ mem.terminalOs = running
    OBVIOUS
  <2> QED
    BY <2>1, <2>2, <2>3
<1>5. CASE Recover
  <2>1. CASE Terminal
    <3>1. pc \in RecoverSteps /\ UNCHANGED <<running, cmd>>
      BY <1>5, <2>1 DEF Recover, RecoverRefuse, RecoverBegin, RecoverHide, RecoverInstall,
         RecoverRefresh, RecoverVerify, RecoverPrune, RecoverSteps
    <3> QED
      BY <1>0, <2>1, <3>1, TerminalRefuses
  <2>2. CASE ~Terminal
    <3>1. /\ pc \in RecoverSteps /\ UNCHANGED <<running, cmd>>
          /\ \/ entry' = entry
             \/ entry' = mem' /\ mem'.phase \in {"Reverting", "Recovered"}
      BY <1>0, <1>5, <2>2 DEF Recover, RecoverRefuse, RecoverBegin, RecoverHide, RecoverInstall,
         RecoverRefresh, RecoverVerify, RecoverPrune, StoreOk, StoreFails, RecoverSteps, Entry
    <3> QED
      BY <3>1 DEF RecoverSteps
  <2> QED
    BY <2>1, <2>2
<1>6. CASE Remove
  <2>1. /\ pc \in {"x_record", "x_files", "x_refresh", "x_prune"} /\ UNCHANGED <<running, cmd>>
        /\ \/ entry' = entry
           \/ entry' = mem' /\ mem'.phase = "Removing"
    BY <1>0, <1>6 DEF Remove, RemoveRecord, RemoveFiles, RemoveRefresh, RemovePrune,
       StoreOk, StoreFails, Entry
  <2> QED
    BY <2>1
<1>7. CASE Adopt \/ Activate \/ Stage
  <2>1. pc \in ActivateSteps \cup AdoptSteps \cup StageSteps /\ cmd' = cmd
    BY <1>7 DEF Adopt, AdoptCheck, AdoptCopy, AdoptStore,
       Activate, ActivateReplay, ActivateUnstaged, ActivateCheck, ActivateRetain, ActivateRecord,
       ActivateHide, ActivateInstall, ActivateRefresh, ActivateStart, ActivateReady, ActivateSoak,
       ActivatePrune, Stage, StageCandidate, StageOtherBase, StageRecord,
       ActivateSteps, AdoptSteps, StageSteps
  <2> QED
    BY <1>0, <2>1
<1>8. CASE Gate
  <2>1. /\ pc \in {"g_verify", "g_adopt"} /\ UNCHANGED <<entry, running, cmd>>
        /\ pc = "g_verify" /\ mem.phase = "Unrecoverable"
             => mem' = mem /\ pc' \in {"c_store", "done"}
    BY <1>8 DEF Gate, GateNotRequired, GateTerminal, GateUnhealthy, GateHealthy, GateSoak,
       GateAdopt, Fail
  <2> QED
    BY <2>1
<1>9. CASE CommandStore
  <2>1. /\ pc = "c_store" /\ pc' = "done" /\ UNCHANGED <<running, cmd>> /\ entry' \in {entry, mem'}
        /\ cmd.op \in Gates => mem'.phase = mem.phase /\ mem'.terminalOs = mem.terminalOs
    BY <1>0, <1>9 DEF CommandStore, Marked, StoreOk, StoreFails, Fail, Entry
  <2> QED
    BY <2>1
<1>10. CASE Finish \/ Kill \/ \E b \in Bases : Reboot(b)
  BY <1>10 DEF Finish, Kill, Reboot, Exit, NoCmd, Cmd
<1>11. CASE \E c \in Commands : Start(c)
  BY <1>11 DEF Start, Forget
<1>12. CASE UNCHANGED vars
  BY <1>12 DEF vars
<1> QED
  BY <1>1, <1>2, <1>3, <1>4, <1>5, <1>6, <1>7, <1>8, <1>9, <1>10, <1>11, <1>12
  DEF Next, AgentStep, Reconcile

\* None of the steps such a command is at touches the image or another record.
LEMMA KeptStep ==
  ASSUME TypeInv, FallbackInv, KeptInv, [Next]_vars,
         entry.phase = "Unrecoverable", entry.terminalOs = running, cmd.op \in Gates
  PROVE  entry'.phase = "Unrecoverable" /\ UNCHANGED scoped
<1> USE DEF disk, files
<1>0. /\ pc \in {"r_case", "r_prune", "r_store", "g_verify", "c_store", "done"}
      /\ mem.phase = "Unrecoverable" /\ mem \in Entry
  BY DEF KeptInv, TypeInv, TypeOK
<1>1. CASE ReconcileStore \/ CommandStore
  <2>1. UNCHANGED scoped /\ entry' \in {entry, mem, Marked(mem)}
    BY <1>1 DEF ReconcileStore, CommandStore, StoreOk, StoreFails
  <2>2. Marked(mem).phase = "Unrecoverable"
    BY <1>0 DEF Marked, Gates, Entry
  <2> QED
    BY <1>0, <2>1, <2>2
<1>2. CASE \/ ReconcileTransient \/ ReconcileRemoving \/ ReconcileStaged \/ ReconcileActive
           \/ ReconcileAtRest \/ ReconcilePrune \/ Gate \/ Finish \/ Kill
           \/ \E c \in Commands : Start(c)
           \/ \E b \in Bases : Reboot(b)
  BY <1>2 DEF ReconcileTransient, ReconcileRemoving, ReconcileStaged, ReconcileActive,
     ReconcileAtRest, ReconcilePrune, Gate, GateNotRequired, GateTerminal, GateUnhealthy,
     GateHealthy, GateSoak, GateAdopt, Finish, Kill, Start, Reboot
<1>3. ~(Recover \/ Remove \/ Adopt \/ Activate \/ Stage)
  BY <1>0 DEF Recover, RecoverRefuse, RecoverBegin, RecoverHide, RecoverInstall,
     RecoverRefresh, RecoverVerify, RecoverPrune,
     Remove, RemoveRecord, RemoveFiles, RemoveRefresh, RemovePrune,
     Adopt, AdoptCheck, AdoptCopy, AdoptStore,
     Activate, ActivateReplay, ActivateUnstaged, ActivateCheck, ActivateRetain, ActivateRecord,
     ActivateHide, ActivateInstall, ActivateRefresh, ActivateStart, ActivateReady, ActivateSoak,
     ActivatePrune, Stage, StageCandidate, StageOtherBase, StageRecord
<1>4. CASE UNCHANGED vars
  BY <1>4 DEF vars
<1> QED
  BY <1>1, <1>2, <1>3, <1>4 DEF Next, AgentStep, Reconcile

\* "Terminal means do not retry this automatically": while the same base runs, the boot
\* units and the deployment marks leave a refusal standing and swap no image.
THEOREM RefusalsAreKept == Spec => TerminalIsKept
<1>1. Init => KeptInv
  BY DEF Init, KeptInv, AbsentEntry
<1>2. TypeInv /\ FallbackInv /\ KeptInv /\ [Next]_vars
        => [entry.phase = "Unrecoverable" /\ entry.terminalOs = running
              /\ cmd.op \in {"gate", "require", "unrequire"}
              => entry'.phase = "Unrecoverable" /\ UNCHANGED scoped]_vars
  BY KeptStep DEF Gates
<1> QED
  BY <1>1, <1>2, NextKept, SupervisionInductive, PTL DEF Spec, TerminalIsKept
--------------------------------------------------------------------------------
(***************************************************************************)
(* One image is visible.                                                   *)
(***************************************************************************)
\* An unscoped image is not for a base that has an image of its own.
VisibleInv ==
  \A b \in Bases : scoped[b] # None /\ legacy # None => legacy.base # b

\* An image is scoped only once the unscoped one is out of the way, or for another
\* base than the one that runs.
LEMMA NextVisible ==
  ASSUME OneBase \/ Ops \cap {"stage", "install"} = {},
         TypeInv, VisibleInv, [Next]_vars
  PROVE  VisibleInv'
<1> USE DEF disk, files, system, VisibleInv
<1>0. running \in Bases /\ scoped \in [Bases -> Image \cup {None}]
  BY DEF TypeInv, TypeOK
<1>1. CASE legacy' \in {legacy, None} /\ scoped' = scoped
  BY <1>1
<1>2. CASE legacy' \in {legacy, None} /\ scoped' = [scoped EXCEPT ![running] = None]
  BY <1>0, <1>2
<1>3. CASE legacy' = None
  BY <1>3
<1>4. CASE RecoverInstall \/ ActivateInstall
  BY <1>1, <1>3, <1>4 DEF RecoverInstall, ActivateInstall, InstallFails, PublishActive
<1>5. CASE RecoverHide \/ ActivateHide
  BY <1>3, <1>5 DEF RecoverHide, ActivateHide, HideLegacy
<1>6. CASE RemoveFiles
  BY <1>1, <1>2, <1>3, <1>6 DEF RemoveFiles
<1>7. CASE StageOtherBase
  <2>1. cmd.op \in {"stage", "install"} /\ cmd.op \in Ops /\ cmd.base \in Bases
    BY <1>7 DEF StageOtherBase, TypeInv, TypeOK, ControlInv, Carries, StageSteps, Commands, NoCmd, Cmd
  <2> QED
    BY <1>0, <1>7, <2>1 DEF OneBase, StageOtherBase
<1>8. CASE Reconcile \/ Adopt \/ StageCandidate \/ StageRecord \/ Gate
  BY <1>1, <1>8 DEF Reconcile, ReconcileTransient, ReconcileRemoving, ReconcileStaged,
     ReconcileActive, ReconcileAtRest, ReconcilePrune, ReconcileStore,
     Adopt, AdoptCheck, AdoptCopy, AdoptStore, StageCandidate, StageRecord,
     Gate, GateNotRequired, GateTerminal, GateUnhealthy, GateHealthy, GateSoak, GateAdopt
<1>9. CASE \/ RecoverRefuse \/ RecoverBegin \/ RecoverRefresh \/ RecoverVerify \/ RecoverPrune
           \/ RemoveRecord \/ RemoveRefresh \/ RemovePrune
  BY <1>1, <1>9 DEF RecoverRefuse, RecoverBegin, RecoverRefresh, RecoverVerify, RecoverPrune,
     RemoveRecord, RemoveRefresh, RemovePrune
<1>10. CASE \/ ActivateReplay \/ ActivateUnstaged \/ ActivateCheck \/ ActivateRetain
            \/ ActivateRecord \/ ActivateRefresh \/ ActivateStart \/ ActivateReady
            \/ ActivateSoak \/ ActivatePrune
  BY <1>1, <1>10 DEF ActivateReplay, ActivateUnstaged, ActivateCheck, ActivateRetain,
     ActivateRecord, ActivateRefresh, ActivateStart, ActivateReady, ActivateSoak, ActivatePrune
<1>11. CASE \/ CommandStore \/ Finish \/ Kill
            \/ \E c \in Commands : Start(c)
            \/ \E b \in Bases : Reboot(b)
            \/ UNCHANGED vars
  BY <1>1, <1>11 DEF CommandStore, Finish, Kill, Start, Reboot, vars
<1> QED
  BY <1>4, <1>5, <1>6, <1>7, <1>8, <1>9, <1>10, <1>11
  DEF Next, AgentStep, Recover, Remove, Activate, Stage

\* install_active: a crash never leaves the node "booting with two merge-visible copies"
\* of the image, as long as none is staged for another base than the one that runs.
THEOREM NeverTwoAreVisible ==
  ASSUME OneBase \/ Ops \cap {"stage", "install"} = {}
  PROVE  Spec => []NeverTwoVisible
<1>1. Init => VisibleInv
  BY DEF Init, VisibleInv
<1>2. TypeInv /\ VisibleInv => NeverTwoVisible
  BY DEF TypeInv, TypeOK, VisibleInv, NeverTwoVisible
<1> QED
  BY <1>1, <1>2, NextVisible, SupervisionInductive, PTL DEF Spec
--------------------------------------------------------------------------------
(***************************************************************************)
(* A recovered node runs what was retained.                                *)
(***************************************************************************)
Restored(e) ==
  e.phase = "Recovered" =>
    /\ e.knownGood # None /\ rollback[running][e.knownGood] # None
    /\ ActiveImage = rollback[running][e.knownGood]
    /\ merged = ActiveImage

\* Neither copy of the record says `recovered` while an image is replaced.
RecoveredInv ==
  /\ Restored(entry) /\ Restored(mem)
  /\ pc \in {"v_install", "v_refresh", "v_verify", "a_install", "a_refresh"}
       => mem.phase # "Recovered"
  /\ pc = "v_verify" => merged = ActiveImage

\* With one base the active image is the one image that systemd-sysext finds.
LEMMA RefreshMergesActive ==
  ASSUME OneBase, TypeInv, VisibleInv
  PROVE  \A b \in Bases : MergeChoice(b, scoped, legacy) = {ActiveImage}
<1> TAKE b \in Bases
<1>1. b = running /\ scoped[b] \in Image \cup {None} /\ legacy \in Image \cup {None}
  BY DEF TypeInv, TypeOK, OneBase
<1>2. \A i \in Image : i.base = b /\ i # None
  BY NoneAssumption DEF Image, OneBase
<1>3. scoped[b] # None /\ legacy # None => FALSE
  BY <1>1, <1>2 DEF VisibleInv
<1>4. {i \in {scoped[b], legacy} : i # None /\ i.base = b}
         = IF ActiveImage = None THEN {} ELSE {ActiveImage}
  BY <1>1, <1>2, <1>3 DEF ActiveImage
<1> QED
  BY <1>4 DEF MergeChoice

\* A step that replaces no image, and keeps what a recovered record falls back to.
LEMMA RestoredKept ==
  ASSUME RecoveredInv, UNCHANGED <<scoped, legacy, running, merged>>,
         mem'.phase = "Recovered" =>
           \E e \in {entry, mem} : e.phase = "Recovered" /\ mem'.knownGood = e.knownGood,
         entry' \in {entry, mem'} \/ entry'.phase # "Recovered",
         \A e \in {entry, mem} : e.phase = "Recovered" =>
           rollback'[running][e.knownGood] = rollback[running][e.knownGood]
  PROVE  Restored(entry)' /\ Restored(mem)'
<1>1. ActiveImage' = ActiveImage
  BY DEF ActiveImage
<1>2. Restored(mem)'
  BY <1>1 DEF RecoveredInv, Restored
<1>3. Restored(entry)'
  BY <1>1, <1>2 DEF RecoveredInv, Restored
<1> QED
  BY <1>2, <1>3

\* Reconciliation only ever prunes what the record does not name.
LEMMA ReconcileRecovered ==
  ASSUME TypeInv, FallbackInv, RecoveredInv, Reconcile
  PROVE  RecoveredInv'
<1> USE DEF disk, files, system
<1>0. /\ entry \in Entry /\ mem \in Entry /\ snap \in Entry /\ running \in Bases
      /\ pc = "r_case" => snap = mem
  BY DEF TypeInv, TypeOK, FallbackInv, ReconcileInv
<1>1. CASE ReconcilePrune
  <2>1. /\ UNCHANGED <<entry, scoped, legacy, system, mem>> /\ pc = "r_prune" /\ pc' = "r_store"
        /\ rollback' = rollback \/ \E R \in LeftRollbacks(snap.knownGood) : SetRollbacks(R)
    BY <1>1 DEF ReconcilePrune, LeftRollbacks
  <2>2. \A e \in {entry, mem} : e.phase = "Recovered" =>
          e.knownGood \in Versions /\ e.knownGood = snap.knownGood
    BY <1>0, <2>1 DEF RecoveredInv, Restored, FallbackInv, ReconcileInv, Unresolved, Entry
  <2>3. \A e \in {entry, mem} : e.phase = "Recovered" =>
          rollback'[running][e.knownGood] = rollback[running][e.knownGood]
    BY <1>0, <2>1, <2>2, PruneRetains, NoneAssumption DEF TypeInv
  <2>4. Restored(entry)' /\ Restored(mem)'
    BY <2>1, <2>3, RestoredKept
  <2> QED
    BY <2>1, <2>4 DEF RecoveredInv
<1>2. CASE \/ ReconcileTransient \/ ReconcileRemoving \/ ReconcileStaged \/ ReconcileActive
           \/ ReconcileAtRest \/ ReconcileStore
  <2>1. UNCHANGED <<files, system>> /\ entry' \in {entry, mem'}
    BY <1>2 DEF ReconcileTransient, ReconcileRemoving, ReconcileStaged, ReconcileActive,
       ReconcileAtRest, ReconcileStore, StoreOk, StoreFails
  <2>2. pc' \notin {"v_install", "v_refresh", "v_verify", "a_install", "a_refresh"}
    BY <1>2, FirstSteps DEF ReconcileTransient, ReconcileRemoving, ReconcileStaged, ReconcileActive,
       ReconcileAtRest, ReconcileStore, CallRecover
  <2>3. mem'.phase = "Recovered" => mem.phase = "Recovered" /\ mem'.knownGood = mem.knownGood
    <3>1. CASE ReconcileStaged
      <4> DEFINE m == [mem EXCEPT !.candidate = None,
                                  !.phase = IF ActiveImage # None THEN "Active" ELSE "Idle"]
      <4>1. mem' \in {mem, m, Cleared(m)} /\ mem.phase = "Staged"
        BY <1>0, <3>1 DEF ReconcileStaged
      <4>2. m.phase # "Recovered" /\ Cleared(m).phase = m.phase
        BY <1>0 DEF Entry, Cleared
      <4> HIDE DEF m
      <4> QED
        BY <4>1, <4>2
    <3>2. CASE ReconcileActive
      BY <1>0, <3>2 DEF ReconcileActive, Cleared, Entry
    <3>3. CASE ReconcileAtRest
      BY <1>0, <3>3 DEF ReconcileAtRest, Cleared, Entry
    <3>4. CASE ReconcileTransient \/ ReconcileRemoving \/ ReconcileStore
      BY <3>4 DEF ReconcileTransient, ReconcileRemoving, ReconcileStore
    <3> QED
      BY <1>2, <3>1, <3>2, <3>3, <3>4
  <2>4. Restored(entry)' /\ Restored(mem)'
    BY <2>1, <2>3, RestoredKept
  <2> QED
    BY <2>2, <2>4 DEF RecoveredInv
<1> QED
  BY <1>1, <1>2 DEF Reconcile

\* A recovery ends with the retained image in place and merged.
LEMMA RecoverRecovered ==
  ASSUME OneBase, TypeInv, FallbackInv, SupervisionInv, VisibleInv, RecoveredInv, Recover
  PROVE  RecoveredInv'
<1> USE DEF disk, files, system
<1>0. /\ entry \in Entry /\ mem \in Entry /\ running \in Bases
      /\ pc \in RecoverSteps => ret \in {"r_prune", "c_store", "done"}
  BY DEF TypeInv, TypeOK, ControlInv
<1>1. CASE RecoverRefuse \/ RecoverBegin
  <2>1. /\ UNCHANGED <<files, system>> /\ entry' \in {entry, mem'}
        /\ mem'.phase \in {"Unrecoverable", "Reverting"}
        /\ pc' # "v_verify"
    BY <1>0, <1>1 DEF RecoverRefuse, RecoverBegin, Terminal, StoreOk, StoreFails, Entry, RecoverSteps
  <2> QED
    BY <2>1, RestoredKept DEF RecoveredInv
<1>2. CASE RecoverHide \/ RecoverInstall \/ RecoverRefresh
  <2>1. pc \in {"v_install", "v_refresh"} /\ entry.phase = "Reverting" /\ mem.phase # "Recovered"
    BY <1>2 DEF RecoverHide, RecoverInstall, RecoverRefresh, FallbackInv, PhaseInv,
       SupervisionInv, UndoInv, RecoveredInv
  <2>2. entry' \in {entry, mem'} /\ (mem' = mem \/ mem'.phase = "Unrecoverable")
    BY <1>0, <1>2 DEF RecoverHide, RecoverInstall, RecoverRefresh, agent, Terminal, StoreOk,
       StoreFails, Entry
  <2>3. ASSUME pc' = "v_verify" PROVE merged' = ActiveImage'
    <3>1. RefreshOk /\ UNCHANGED <<files, running>>
      BY <1>0, <1>2, <2>1, <2>3 DEF RecoverHide, RecoverInstall, RecoverRefresh, agent, Terminal,
         RecoverSteps
    <3> QED
      BY <1>0, <3>1, RefreshMergesActive DEF RefreshOk, ActiveImage
  <2> QED
    BY <2>1, <2>2, <2>3 DEF RecoveredInv, Restored
<1>3. CASE RecoverVerify
  <2>1. /\ UNCHANGED <<files, system>> /\ entry' \in {entry, mem'}
        /\ pc = "v_verify" /\ pc' \in {ret, "v_prune"}
        /\ \/ mem'.phase = "Unrecoverable"
           \/ mem'.phase = "Recovered" /\ mem'.knownGood = mem.knownGood
    BY <1>0, <1>3 DEF RecoverVerify, Terminal, StoreOk, StoreFails, Entry
  <2>2. merged = ActiveImage /\ ActiveImage = Fallback /\ Fallback # None
    BY <2>1 DEF RecoveredInv, SupervisionInv, UndoInv
  <2>3. mem.knownGood # None /\ Fallback = rollback[running][mem.knownGood]
    BY <2>2 DEF Fallback
  <2>4. ActiveImage' = ActiveImage
    BY <2>1 DEF ActiveImage
  <2>5. Restored(mem)'
    BY <2>1, <2>2, <2>3, <2>4 DEF Restored
  <2>6. Restored(entry)'
    BY <2>1, <2>4, <2>5 DEF RecoveredInv, Restored
  <2> QED
    BY <1>0, <2>1, <2>5, <2>6 DEF RecoveredInv, RecoverSteps
<1>4. CASE RecoverPrune
  <2>1. /\ UNCHANGED <<entry, scoped, legacy, system, mem>> /\ pc = "v_prune" /\ pc' = ret
        /\ \E R \in LeftRollbacks(mem.knownGood) : SetRollbacks(R)
    BY <1>4 DEF RecoverPrune
  <2>2. entry = mem
    BY <2>1 DEF FallbackInv, PruneInv
  <2>3. \A e \in {entry, mem} : e.phase = "Recovered" =>
          rollback'[running][e.knownGood] = rollback[running][e.knownGood]
    BY <1>0, <2>1, <2>2, PruneRetains DEF TypeInv, RecoveredInv, Restored, Entry
  <2> QED
    BY <1>0, <2>1, <2>3, RestoredKept DEF RecoveredInv, RecoverSteps
<1> QED
  BY <1>1, <1>2, <1>3, <1>4 DEF Recover

\* A removal is on record before anything is removed.
LEMMA RemoveRecovered ==
  ASSUME TypeInv, FallbackInv, RecoveredInv, Remove
  PROVE  RecoveredInv'
<1> USE DEF disk, files, system
<1>0. /\ entry \in Entry /\ mem \in Entry
      /\ pc \in RemovalSteps => ret \in {"r_prune", "c_store"}
  BY DEF TypeInv, TypeOK, ControlInv
<1>1. CASE RemoveRecord
  <2>1. /\ UNCHANGED <<files, system>> /\ entry' \in {entry, mem'}
        /\ mem'.phase = "Removing" /\ pc' \in {"x_files", "done"}
    BY <1>0, <1>1 DEF RemoveRecord, StoreOk, StoreFails, Entry
  <2> QED
    BY <2>1, RestoredKept DEF RecoveredInv
<1>2. CASE RemoveFiles \/ RemoveRefresh \/ RemovePrune
  <2>1. pc \in RemovalSteps /\ entry.phase = "Removing" /\ mem.phase = "Removing"
    BY <1>2 DEF RemoveFiles, RemoveRefresh, RemovePrune, RemovalSteps, FallbackInv, RemovingInv
  <2>2. entry' = entry /\ mem'.phase \in {"Removing", "Idle"}
    BY <1>0, <1>2, <2>1 DEF RemoveFiles, RemoveRefresh, RemovePrune, Cleared, Entry
  <2>3. pc' \in {"x_refresh", "x_prune", "done", ret}
    BY <1>2 DEF RemoveFiles, RemoveRefresh, RemovePrune, RemovalFails
  <2> QED
    BY <1>0, <2>1, <2>2, <2>3 DEF Restored, RecoveredInv
<1> QED
  BY <1>1, <1>2 DEF Remove

\* An image is retained beside the others, never over the one to fall back to.
LEMMA AdoptRecovered ==
  ASSUME TypeInv, FallbackInv, RecoveredInv, Adopt
  PROVE  RecoveredInv'
<1> USE DEF disk, files, system
<1>0. /\ entry \in Entry /\ mem \in Entry /\ running \in Bases
      /\ rollback \in [Bases -> [Versions -> Image \cup {None}]]
      /\ pc \in AdoptSteps => ret \in {"done", "a_retain"}
  BY DEF TypeInv, TypeOK, ControlInv
<1>1. CASE AdoptCheck
  <2>1. UNCHANGED <<disk, system, mem>> /\ pc' \in {"d_copy", "done"}
    BY <1>1 DEF AdoptCheck, Fail
  <2> QED
    BY <2>1, RestoredKept DEF RecoveredInv
<1>2. CASE AdoptCopy
  <2>1. /\ UNCHANGED <<entry, scoped, legacy, system, mem>> /\ pc' \in {"d_store", "done"}
        /\ \/ rollback' = rollback
           \/ /\ rollback[running][AdoptedVersion] = None
              /\ rollback' = [rollback EXCEPT ![running][AdoptedVersion] = ActiveImage]
    BY <1>2 DEF AdoptCopy, Fail
  <2>2. \A e \in {entry, mem} : e.phase = "Recovered" =>
          rollback'[running][e.knownGood] = rollback[running][e.knownGood]
    BY <1>0, <2>1 DEF RecoveredInv, Restored, Entry
  <2> QED
    BY <2>1, <2>2, RestoredKept DEF RecoveredInv
<1>3. CASE AdoptStore
  <2>1. /\ UNCHANGED <<files, system>> /\ entry' \in {entry, mem'}
        /\ mem'.phase = "Active" /\ pc' \in {ret, "done"} /\ pc = "d_store"
    BY <1>0, <1>3 DEF AdoptStore, KnownGood, Fail, StoreOk, StoreFails, Entry
  <2> QED
    BY <1>0, <2>1, RestoredKept DEF RecoveredInv, AdoptSteps
<1> QED
  BY <1>1, <1>2, <1>3 DEF Adopt

\* An activation is on record before the image is replaced.
LEMMA ActivateRecovered ==
  ASSUME TypeInv, FallbackInv, SupervisionInv, RecoveredInv, Activate
  PROVE  RecoveredInv'
<1> USE DEF disk, files, system
<1>0. /\ entry \in Entry /\ mem \in Entry /\ snap \in Entry /\ running \in Bases
      /\ rollback \in [Bases -> [Versions -> Image \cup {None}]]
  BY DEF TypeInv, TypeOK
<1>1. CASE ActivateReplay \/ ActivateUnstaged \/ ActivateCheck
  <2>1. /\ UNCHANGED <<disk, system, mem>>
        /\ pc' \notin {"v_install", "v_refresh", "v_verify", "a_install", "a_refresh"}
    BY <1>1 DEF ActivateReplay, ActivateUnstaged, ActivateCheck, Fail
  <2> QED
    BY <2>1, RestoredKept DEF RecoveredInv
<1>2. CASE ActivateRetain
  <2>1. /\ UNCHANGED <<entry, scoped, legacy, system, mem>> /\ pc' \in {"a_record", "done"}
        /\ \/ rollback' = rollback
           \/ /\ rollback[running][mem.active] = None
              /\ rollback' = [rollback EXCEPT ![running][mem.active] = ActiveImage]
    BY <1>2 DEF ActivateRetain, Fail
  <2>2. \A e \in {entry, mem} : e.phase = "Recovered" =>
          rollback'[running][e.knownGood] = rollback[running][e.knownGood]
    BY <1>0, <2>1 DEF RecoveredInv, Restored, Entry
  <2> QED
    BY <2>1, <2>2, RestoredKept DEF RecoveredInv
<1>3. CASE ActivateRecord \/ ActivateStart \/ ActivateReady
  <2>1. /\ UNCHANGED <<files, system>> /\ entry' \in {entry, mem'}
        /\ mem' = mem \/ mem'.phase \in Swapping
        /\ pc' \notin {"v_install", "v_refresh", "v_verify", "a_refresh"}
        /\ pc' = "a_install" => mem'.phase \in Swapping
    BY <1>0, <1>3 DEF ActivateRecord, ActivateStart, ActivateReady, Advance, Revert, CallRecover,
       KnownGood, Fail, StoreOk, StoreFails, Entry, Swapping
  <2> QED
    BY <2>1, RestoredKept DEF RecoveredInv, Swapping
<1>4. CASE ActivateHide \/ ActivateInstall \/ ActivateRefresh
  <2>1. pc \in {"a_install", "a_refresh"} /\ entry.phase \in Swapping /\ mem.phase # "Recovered"
    BY <1>4 DEF ActivateHide, ActivateInstall, ActivateRefresh, SupervisionInv, TrialInv, RecoveredInv
  <2>2. UNCHANGED <<entry, mem>> /\ pc' # "v_verify"
    BY <1>4 DEF ActivateHide, ActivateInstall, ActivateRefresh, agent, Revert, CallRecover
  <2> QED
    BY <2>1, <2>2 DEF RecoveredInv, Restored, Swapping
<1>5. CASE ActivateSoak
  <2>1. /\ UNCHANGED <<files, system>> /\ mem' \in {mem, Committed} /\ entry' \in {entry, Committed}
        /\ pc' \in {"a_prune", "v_check"}
    BY <1>5 DEF ActivateSoak, Revert, CallRecover, StoreOk, StoreFails
  <2>2. Committed.phase = "Active"
    BY <1>0 DEF Committed, Entry
  <2> QED
    BY <2>1, <2>2, RestoredKept DEF RecoveredInv
<1>6. CASE ActivatePrune
  <2>1. pc = "a_prune" /\ pc' = "done" /\ UNCHANGED <<entry, mem>>
    BY <1>6 DEF ActivatePrune
  <2>2. entry.phase = "Active" /\ mem.phase = "Active"
    BY <2>1 DEF FallbackInv, PruneInv, SupervisionInv, RestInv
  <2> QED
    BY <2>1, <2>2 DEF RecoveredInv, Restored
<1> QED
  BY <1>1, <1>2, <1>3, <1>4, <1>5, <1>6 DEF Activate

\* With one base staging puts no image in place.
LEMMA StageRecovered ==
  ASSUME OneBase, TypeInv, RecoveredInv, Stage
  PROVE  RecoveredInv'
<1> USE DEF disk, files, system
<1>0. entry \in Entry /\ mem \in Entry /\ running \in Bases
  BY DEF TypeInv, TypeOK
<1>1. ~StageOtherBase
  BY <1>0 DEF StageOtherBase, TypeInv, ControlInv, Carries, StageSteps, OneBase
<1>2. /\ UNCHANGED <<scoped, legacy, rollback, system>> /\ entry' \in {entry, mem'}
      /\ mem' = mem \/ mem'.phase = "Staged"
      /\ pc' \in {"s_record", "a_check", "done"}
  BY <1>0, <1>1 DEF Stage, StageCandidate, StageRecord, Fail, StoreOk, StoreFails, Entry
<1> QED
  BY <1>2, RestoredKept DEF RecoveredInv

\* The gate may retain the merged image over what is there: it is the same image.
LEMMA GateRecovered ==
  ASSUME TypeInv, RecoveredInv, Gate
  PROVE  RecoveredInv'
<1> USE DEF disk, files, system
<1>0. /\ entry \in Entry /\ mem \in Entry /\ running \in Bases
      /\ rollback \in [Bases -> [Versions -> Image \cup {None}]]
  BY DEF TypeInv, TypeOK
<1>1. CASE GateNotRequired \/ GateTerminal \/ GateUnhealthy \/ GateHealthy \/ GateSoak
  <2>1. /\ UNCHANGED <<disk, system>>
        /\ mem' = mem \/ mem'.phase = "Active"
        /\ pc' \in {"done", "c_store", "v_check", "g_adopt"}
    BY <1>0, <1>1 DEF GateNotRequired, GateTerminal, GateUnhealthy, GateHealthy, GateSoak,
       Verified, CallRecover, Fail, Entry
  <2> QED
    BY <2>1, RestoredKept DEF RecoveredInv
<1>2. CASE GateAdopt
  <2>1. /\ UNCHANGED <<entry, scoped, legacy, system>> /\ pc' = "c_store"
        /\ \/ rollback' = rollback
           \/ rollback' = [rollback EXCEPT ![running][merged.version] = ActiveImage]
    BY <1>2 DEF GateAdopt
  <2>2. mem' = mem \/ mem'.phase = "Active"
    BY <1>0, <1>2 DEF GateAdopt, Verified, KnownGood, Entry
  <2>3. \A e \in {entry, mem} : e.phase = "Recovered" =>
          rollback'[running][e.knownGood] = rollback[running][e.knownGood]
    BY <1>0, <2>1 DEF RecoveredInv, Restored, Entry
  <2> QED
    BY <2>1, <2>2, <2>3, RestoredKept DEF RecoveredInv
<1> QED
  BY <1>1, <1>2 DEF Gate

\* A crash or a reboot merges the image again that the record speaks of.
LEMMA OtherRecovered ==
  ASSUME OneBase, TypeInv, FallbackInv, SupervisionInv, VisibleInv, RecoveredInv,
         \/ CommandStore \/ Finish \/ Kill
         \/ \E c \in Commands : Start(c)
         \/ \E b \in Bases : Reboot(b)
  PROVE  RecoveredInv'
<1> USE DEF disk, files, system
<1>0. entry \in Entry /\ mem \in Entry /\ running \in Bases
  BY DEF TypeInv, TypeOK
<1>1. CASE CommandStore
  <2>1. /\ UNCHANGED <<files, system>> /\ entry' \in {entry, mem'} /\ pc' = "done"
        /\ mem' = Marked(mem)
    BY <1>1 DEF CommandStore, StoreOk, StoreFails, Fail
  <2>2. mem'.knownGood = mem.knownGood /\ mem'.phase \in {mem.phase, "Idle"}
    BY <1>0, <2>1 DEF Marked, Entry
  <2> QED
    BY <2>1, <2>2, RestoredKept DEF RecoveredInv
<1>2. CASE \E c \in Commands : Start(c)
  <2>1. UNCHANGED <<disk, system>> /\ mem' = Forget(entry) /\ pc' = "r_case"
    BY <1>2 DEF Start
  <2>2. mem'.knownGood = entry.knownGood /\ mem'.phase \in {entry.phase, "Idle"}
    BY <1>0, <2>1 DEF Forget, Entry
  <2> QED
    BY <2>1, <2>2, RestoredKept DEF RecoveredInv
<1>3. CASE Finish \/ (Kill /\ pc \notin {"v_refresh", "x_refresh", "a_refresh"})
  <2>1. UNCHANGED <<disk, system>> /\ mem'.phase = "Idle" /\ pc' = "idle"
    BY <1>3 DEF Finish, Kill, Exit, AbsentEntry
  <2> QED
    BY <2>1, RestoredKept DEF RecoveredInv
<1>4. CASE Kill /\ pc \in {"v_refresh", "x_refresh", "a_refresh"}
  <2>1. entry' = entry /\ mem'.phase = "Idle" /\ pc' = "idle"
    BY <1>4 DEF Kill, Exit, AbsentEntry
  <2>2. entry.phase # "Recovered"
    BY <1>4 DEF SupervisionInv, UndoInv, TrialInv, Swapping, FallbackInv, RemovingInv, RemovalSteps
  <2> QED
    BY <2>1, <2>2 DEF RecoveredInv, Restored
<1>5. CASE \E b \in Bases : Reboot(b)
  <2>1. PICK b \in Bases : Reboot(b)
    BY <1>5
  <2>2. /\ UNCHANGED disk /\ running' = b /\ mem'.phase = "Idle" /\ pc' = "idle"
        /\ merged' \in MergeChoice(b, scoped, legacy)
    BY <2>1 DEF Reboot, Exit, AbsentEntry
  <2>3. running' = running /\ merged' = ActiveImage /\ ActiveImage' = ActiveImage
    BY <1>0, <2>2, RefreshMergesActive DEF OneBase, ActiveImage
  <2> QED
    BY <2>2, <2>3 DEF RecoveredInv, Restored
<1> QED
  BY <1>1, <1>2, <1>3, <1>4, <1>5

\* Every step keeps it.
LEMMA NextRecovered ==
  ASSUME OneBase, TypeInv, FallbackInv, SupervisionInv, VisibleInv, RecoveredInv, [Next]_vars
  PROVE  RecoveredInv'
<1>1. CASE Next
  BY <1>1, ReconcileRecovered, RecoverRecovered, RemoveRecovered, AdoptRecovered,
     ActivateRecovered, StageRecovered, GateRecovered, OtherRecovered DEF Next, AgentStep
<1>2. CASE UNCHANGED vars
  BY <1>2 DEF vars, disk, files, system, agent, RecoveredInv, Restored, ActiveImage
<1> QED
  BY <1>1, <1>2

\* recover: once the record says `recovered`, the node runs the retained image, and still
\* does after any crash, reboot or failed command that leaves the record saying so.
THEOREM TheRecoveredNodeRunsWhatWasRetained ==
  ASSUME OneBase
  PROVE  Spec => []RecoveredRuns
<1>1. Init => VisibleInv /\ RecoveredInv
  BY DEF Init, VisibleInv, RecoveredInv, Restored, AbsentEntry
<1>2. RecoveredInv => RecoveredRuns
  BY DEF RecoveredInv, Restored, RecoveredRuns
<1> QED
  BY <1>1, <1>2, NextVisible, NextRecovered, SupervisionInductive, PTL DEF Spec
--------------------------------------------------------------------------------
(***************************************************************************)
(* What is retained has been proven.                                       *)
(***************************************************************************)
\* Every image retained for the running base has passed a health check.
RetainedInv ==
  \A v \in Versions : rollback[running][v] # None => rollback[running][v] \in proven

\* Out of a swap a merged image with a ruleset is the active one, and the active one,
\* if the record gives it a version, has passed.  A swap with nothing to fall back to
\* replaces an image without a ruleset, or none.
Settles(e) ==
  /\ e.phase \in Resting \/ (e.phase \in Swapping /\ e.knownGood = None)
       => (HasRuleset => merged = ActiveImage)
  /\ e.phase \in Resting /\ e.active # None /\ ActiveImage # None => ActiveImage \in proven
  /\ e.phase \in Swapping /\ e.active # None => e.knownGood # None
  /\ e.phase = "Reverting" => e.knownGood # None

\* What each step has made sure of, for those that follow it.
SureInv ==
  /\ pc \in {"v_install", "v_refresh", "v_verify"} => entry = mem /\ mem.phase = "Reverting"
  /\ pc \in {"a_install", "a_refresh", "a_start", "a_ready", "a_soak"}
       => entry = mem /\ mem.phase \in Swapping
  /\ pc \in {"a_retain", "a_record", "a_install", "a_refresh"} /\ mem.knownGood = None
       => ~HasRuleset
  /\ pc \in {"v_verify", "a_start", "a_ready", "a_soak", "x_prune"} => merged = ActiveImage
  /\ pc \in {"d_copy", "d_store", "g_adopt"} => ActiveImage \in proven

ProvenInv ==
  /\ RetainedInv
  /\ Settles(entry) /\ (pc # "idle" => Settles(mem))
  /\ SureInv

\* The steps that take nothing for granted.
PlainSteps ==
  {"idle", "done", "r_case", "r_prune", "r_store", "v_check", "v_prune", "x_record", "x_files",
   "x_refresh", "a_check", "a_prune", "d_check", "s_place", "s_record", "g_verify", "c_store"}

\* A record that says less than the one before it.
Follows(m, e) ==
  \/ m.phase = e.phase /\ m.knownGood = e.knownGood /\ m.active = e.active
  \/ m.phase \in Swapping /\ e.phase \in Swapping /\ m.knownGood = e.knownGood /\ m.active = e.active
  \/ m.phase \in Resting /\ e.phase \in Resting /\ m.active \in {e.active, None}

\* The phases of a swap, of its undoing and of rest exclude each other.
LEMMA PhasesApart ==
  /\ Swapping \cap Resting = {} /\ "Reverting" \notin Swapping \cup Resting
  /\ "Removing" \notin Swapping \cup Resting
  /\ {"Idle", "Staged", "Active", "Recovered", "Unrecoverable"} = Resting
BY DEF Swapping, Resting, Phase, Transient

\* A step that replaces no image and goes on from what the record said.
LEMMA SettlesKept ==
  ASSUME Settles(entry), Settles(mem),
         UNCHANGED <<scoped, legacy, running, merged>>, proven \subseteq proven',
         \E e \in {entry, mem} : Follows(mem', e),
         entry' \in {entry, mem, mem'}
  PROVE  Settles(entry)' /\ Settles(mem)'
<1>1. ActiveImage' = ActiveImage /\ HasRuleset' = HasRuleset
  BY DEF ActiveImage, HasRuleset
<1>2. PICK e \in {entry, mem} : Follows(mem', e)
  OBVIOUS
<1>3. Settles(e)
  BY <1>2
<1>4. Settles(mem)'
  BY <1>1, <1>2, <1>3, PhasesApart DEF Settles, Follows
<1>5. /\ entry' = entry => Settles(entry)'
      /\ entry' = mem => Settles(entry)'
      /\ entry' = mem' => Settles(entry)'
  BY <1>1, <1>4 DEF Settles
<1> QED
  BY <1>4, <1>5

\* A pruning leaves nothing new.
LEMMA RetainedKept ==
  ASSUME RetainedInv, running' = running, proven \subseteq proven',
         \A v \in Versions : \/ rollback'[running][v] \in {None, rollback[running][v]}
                             \/ rollback'[running][v] \in proven'
  PROVE  RetainedInv'
BY DEF RetainedInv

\* With one base a known-good version has its image under the base that runs.
LEMMA FallbackThere ==
  ASSUME OneBase, TypeInv, FallbackInv
  PROVE  /\ entry.knownGood # None /\ entry.phase # "Removing"
              => entry.kgBase = running /\ rollback[running][entry.knownGood] # None
         /\ mem.knownGood # None /\ mem.phase # "Removing" => Fallback # None
<1>1. /\ entry \in Entry /\ mem \in Entry /\ running \in Bases
      /\ Holds(rollback, entry) \/ entry.phase = "Removing"
      /\ Holds(rollback, mem) \/ mem.phase = "Removing"
  BY DEF TypeInv, TypeOK, FallbackInv, HoldsInv
<1>2. \A e \in Entry : e.kgBase # None => e.kgBase = running
  BY <1>1 DEF Entry, OneBase
<1> QED
  BY <1>1, <1>2 DEF Holds, Fallback

\* Reconciliation.
LEMMA ReconcileProven ==
  ASSUME ~IoErrors, TypeInv, FallbackInv, ProvenInv, Reconcile
  PROVE  ProvenInv'
<1> USE DEF disk, files, system, history
<1>0. /\ entry \in Entry /\ mem \in Entry /\ snap \in Entry /\ running \in Bases
      /\ pc # "idle" /\ RetainedInv /\ Settles(entry) /\ Settles(mem)
  BY DEF TypeInv, TypeOK, ProvenInv, Reconcile, ReconcileTransient, ReconcileRemoving,
     ReconcileStaged, ReconcileActive, ReconcileAtRest, ReconcilePrune, ReconcileStore
<1>1. /\ UNCHANGED <<scoped, legacy, system, proven>>
      /\ pc' \in PlainSteps
  BY FirstSteps DEF Reconcile, ReconcileTransient, ReconcileRemoving,
     ReconcileStaged, ReconcileActive, ReconcileAtRest, ReconcilePrune, ReconcileStore,
     CallRecover, PlainSteps
<1>2. SureInv'
  BY <1>1 DEF PlainSteps, SureInv
<1>3. RetainedInv'
  <2>1. CASE ReconcilePrune
    <3>1. rollback' = rollback \/ \E R \in LeftRollbacks(snap.knownGood) : SetRollbacks(R)
      BY <2>1 DEF ReconcilePrune, LeftRollbacks
    <3>2. \A v \in Versions : rollback'[running][v] \in {None, rollback[running][v]}
      BY <1>0, <3>1, PruneRetains DEF TypeInv, Entry
    <3> QED
      BY <1>0, <1>1, <3>2, RetainedKept
  <2>2. CASE ~ReconcilePrune
    <3>1. rollback' = rollback
      BY <2>2 DEF Reconcile, ReconcileTransient, ReconcileRemoving,
         ReconcileStaged, ReconcileActive, ReconcileAtRest, ReconcileStore
    <3> QED
      BY <1>0, <1>1, <3>1, RetainedKept
  <2> QED
    BY <2>1, <2>2
<1>4. Settles(entry)' /\ Settles(mem)'
  <2>1. Follows(mem', mem)
    <3>1. CASE ReconcileStaged \/ ReconcileActive \/ ReconcileAtRest
      <4>1. mem.phase \in Resting
        BY <3>1, ReconciledFields, PhasesApart DEF Forget, TypeInv, TypeOK, Entry
      <4> QED
        BY <3>1, <4>1, ReconciledFields DEF Follows
    <3>2. CASE ~(ReconcileStaged \/ ReconcileActive \/ ReconcileAtRest)
      <4>1. mem' = mem
        BY <3>2 DEF Reconcile, ReconcileTransient, ReconcileRemoving, ReconcilePrune, ReconcileStore
      <4> QED
        BY <4>1 DEF Follows
    <3> QED
      BY <3>1, <3>2
  <2>2. entry' \in {entry, mem}
    BY DEF Reconcile, ReconcileTransient, ReconcileRemoving, ReconcileStaged, ReconcileActive,
       ReconcileAtRest, ReconcilePrune, ReconcileStore, StoreOk, StoreFails
  <2> QED
    BY <1>0, <1>1, <2>1, <2>2, SettlesKept
<1> QED
  BY <1>2, <1>3, <1>4 DEF ProvenInv

\* Recovery restores an image that has passed, and refuses only where nothing was swapped
\* that could be undone.
LEMMA RecoverProven ==
  ASSUME OneBase, ~IoErrors, TypeInv, FallbackInv, SupervisionInv, VisibleInv, ProvenInv, Recover
  PROVE  ProvenInv'
<1> USE DEF disk, files, system, history
<1>0. /\ entry \in Entry /\ mem \in Entry /\ running \in Bases
      /\ pc \in RecoverSteps => ret \in {"r_prune", "c_store", "done"}
      /\ pc \in RecoverSteps => mem.phase # "Removing"
  BY DEF TypeInv, TypeOK, ControlInv, FallbackInv, RemovingInv
<1>p. pc \in RecoverSteps /\ pc # "idle"
  BY DEF Recover, RecoverRefuse, RecoverBegin, RecoverHide, RecoverInstall,
     RecoverRefresh, RecoverVerify, RecoverPrune, RecoverSteps
<1>s. RetainedInv /\ Settles(entry) /\ Settles(mem) /\ SureInv
  BY <1>p DEF ProvenInv
<1>t. ret \in PlainSteps
  BY <1>0, <1>p DEF PlainSteps
<1>1. CASE RecoverRefuse
  <2>1. /\ UNCHANGED <<files, system, proven>> /\ pc' = ret /\ Fallback = None
        /\ entry' = mem' /\ mem'.phase = "Unrecoverable"
        /\ mem'.knownGood = mem.knownGood /\ mem'.active = mem.active
    BY <1>0, <1>1 DEF RecoverRefuse, Terminal, StoreOk, StoreFails, Entry
  <2>2. mem.knownGood = None
    BY <1>0, <1>p, <2>1, FallbackThere
  <2>3. ActiveImage' = ActiveImage /\ HasRuleset' = HasRuleset
    BY <2>1 DEF ActiveImage, HasRuleset
  <2>4. mem.phase \in Resting \cup Swapping
    BY <1>0, <1>p, <1>s, <2>2 DEF Settles, Entry, Phase, Transient, Resting, Swapping
  <2>5. Settles(mem)'
    BY <1>s, <2>1, <2>2, <2>3, <2>4, PhasesApart DEF Settles
  <2>6. Settles(entry)'
    BY <2>1, <2>5 DEF Settles
  <2>7. RetainedInv' /\ SureInv'
    BY <1>s, <1>t, <2>1 DEF RetainedInv, SureInv, PlainSteps
  <2> QED
    BY <2>5, <2>6, <2>7 DEF ProvenInv
<1>2. CASE RecoverBegin
  <2>1. /\ UNCHANGED <<files, system, proven>> /\ pc' = "v_install" /\ Fallback # None
        /\ entry' = mem' /\ mem'.phase = "Reverting" /\ mem'.knownGood = mem.knownGood
    BY <1>0, <1>2 DEF RecoverBegin, StoreOk, StoreFails, Entry
  <2>2. Settles(mem)' /\ Settles(entry)'
    BY <2>1, PhasesApart DEF Settles, Fallback
  <2>3. RetainedInv' /\ SureInv'
    BY <1>s, <2>1 DEF RetainedInv, SureInv
  <2> QED
    BY <2>2, <2>3 DEF ProvenInv
<1>3. CASE RecoverHide \/ RecoverInstall \/ RecoverRefresh
  <2>1. /\ pc \in {"v_install", "v_refresh"} /\ pc' \in {"v_install", "v_refresh", "v_verify"}
        /\ UNCHANGED <<entry, rollback, running, mem, proven>>
        /\ pc' = "v_verify" => RefreshOk /\ UNCHANGED files
    BY <1>3 DEF RecoverHide, RecoverInstall, RecoverRefresh, InstallFails, RefreshFails, agent
  <2>2. entry = mem /\ mem.phase = "Reverting"
    BY <1>s, <2>1 DEF SureInv
  <2>3. Settles(mem)' /\ Settles(entry)'
    BY <1>s, <2>1, <2>2, PhasesApart DEF Settles
  <2>4. pc' = "v_verify" => merged' = ActiveImage'
    BY <1>0, <2>1, RefreshMergesActive DEF RefreshOk, ActiveImage
  <2>5. RetainedInv' /\ SureInv'
    BY <1>s, <2>1, <2>2, <2>4 DEF RetainedInv, SureInv
  <2> QED
    BY <2>3, <2>5 DEF ProvenInv
<1>4. CASE RecoverVerify
  <2>1. /\ UNCHANGED <<files, system>> /\ pc = "v_verify" /\ pc' \in {ret, "v_prune"}
        /\ entry' = mem' /\ proven \subseteq proven'
        /\ \/ mem'.phase = "Unrecoverable"
           \/ mem'.phase = "Recovered"
    BY <1>0, <1>4 DEF RecoverVerify, Healthy, Sound, Unhealthy, Terminal, StoreOk, StoreFails, Entry
  <2>2. merged = ActiveImage /\ ActiveImage = Fallback /\ Fallback # None
    BY <1>s, <2>1 DEF SureInv, SupervisionInv, UndoInv
  <2>3. ActiveImage \in proven
    BY <1>0, <1>s, <2>2 DEF Fallback, RetainedInv, Entry
  <2>4. ActiveImage' = ActiveImage
    BY <2>1 DEF ActiveImage
  <2>5. Settles(mem)' /\ Settles(entry)'
    BY <2>1, <2>2, <2>3, <2>4, PhasesApart DEF Settles
  <2>6. RetainedInv' /\ SureInv'
    BY <1>s, <1>t, <2>1 DEF RetainedInv, SureInv, PlainSteps
  <2> QED
    BY <2>5, <2>6 DEF ProvenInv
<1>5. CASE RecoverPrune
  <2>1. /\ UNCHANGED <<entry, scoped, legacy, system, mem, history>> /\ pc' = ret
        /\ \E R \in LeftRollbacks(mem.knownGood) : SetRollbacks(R)
    BY <1>5 DEF RecoverPrune
  <2>2. \A v \in Versions : rollback'[running][v] \in {None, rollback[running][v]}
    BY <1>0, <2>1, PruneRetains DEF TypeInv, Entry
  <2>3. RetainedInv'
    BY <1>s, <2>1, <2>2, RetainedKept
  <2>4. Settles(entry)' /\ Settles(mem)'
    BY <1>s, <2>1, SettlesKept DEF Follows
  <2>5. SureInv'
    BY <1>t, <2>1 DEF SureInv, PlainSteps
  <2> QED
    BY <2>3, <2>4, <2>5 DEF ProvenInv
<1> QED
  BY <1>1, <1>2, <1>3, <1>4, <1>5 DEF Recover

\* A removal leaves nothing merged.
LEMMA RemoveProven ==
  ASSUME OneBase, ~IoErrors, TypeInv, FallbackInv, SupervisionInv, VisibleInv, ProvenInv, Remove
  PROVE  ProvenInv'
<1> USE DEF disk, files, system, history
<1>0. /\ entry \in Entry /\ mem \in Entry /\ running \in Bases
      /\ pc \in RemovalSteps => ret \in {"r_prune", "c_store"}
  BY DEF TypeInv, TypeOK, ControlInv
<1>s. RetainedInv /\ Settles(entry) /\ Settles(mem) /\ SureInv
  BY DEF ProvenInv, Remove, RemoveRecord, RemoveFiles, RemoveRefresh, RemovePrune
<1>1. CASE RemoveRecord
  <2>1. /\ UNCHANGED <<files, system, proven>> /\ pc' = "x_files"
        /\ entry' = mem' /\ mem'.phase = "Removing"
    BY <1>0, <1>1 DEF RemoveRecord, StoreOk, StoreFails, Entry
  <2>2. Settles(mem)' /\ Settles(entry)'
    BY <2>1, PhasesApart DEF Settles
  <2>3. RetainedInv' /\ SureInv'
    BY <1>s, <2>1 DEF RetainedInv, SureInv
  <2> QED
    BY <2>2, <2>3 DEF ProvenInv
<1>2. CASE RemoveFiles \/ RemoveRefresh
  <2>1. /\ pc \in RemovalSteps /\ pc' \in {"x_refresh", "x_prune"}
        /\ UNCHANGED <<entry, rollback, running, mem, proven>>
        /\ pc' = "x_prune" => RefreshOk /\ UNCHANGED files
    BY <1>2 DEF RemoveFiles, RemoveRefresh, RemovalFails, RemovalSteps
  <2>2. entry.phase = "Removing" /\ mem.phase = "Removing"
    BY <2>1 DEF FallbackInv, RemovingInv
  <2>3. Settles(mem)' /\ Settles(entry)'
    BY <2>1, <2>2, PhasesApart DEF Settles
  <2>4. pc' = "x_prune" => merged' = ActiveImage'
    BY <1>0, <2>1, RefreshMergesActive DEF RefreshOk, ActiveImage
  <2>5. RetainedInv' /\ SureInv'
    BY <1>s, <2>1, <2>4 DEF RetainedInv, SureInv
  <2> QED
    BY <2>3, <2>5 DEF ProvenInv
<1>3. CASE RemovePrune
  <2>1. /\ pc = "x_prune" /\ pc' = ret /\ ret \in {"r_prune", "c_store"}
        /\ UNCHANGED <<entry, scoped, legacy, system, proven>>
        /\ mem'.phase = "Idle" /\ mem'.active = None
        /\ SetRollbacks(Kept(None))
    BY <1>0, <1>3 DEF RemovePrune, RemovalFails, RemovalSteps, Cleared, Entry
  <2>2. entry.phase = "Removing" /\ merged = ActiveImage
    BY <1>s, <2>1 DEF FallbackInv, RemovingInv, RemovalSteps, SureInv
  <2>3. ActiveImage' = ActiveImage
    BY <2>1 DEF ActiveImage
  <2>4. Settles(mem)' /\ Settles(entry)'
    BY <2>1, <2>2, <2>3, PhasesApart DEF Settles
  <2>5. \A v \in Versions : rollback'[running][v] \in {None, rollback[running][v]}
    BY <1>0, <2>1, PruneRetains DEF TypeInv, LeftRollbacks
  <2>6. RetainedInv' /\ SureInv'
    BY <1>s, <2>1, <2>5, RetainedKept DEF SureInv
  <2> QED
    BY <2>4, <2>6 DEF ProvenInv
<1> QED
  BY <1>1, <1>2, <1>3 DEF Remove

\* What is adopted is the active image, which has just passed.
LEMMA AdoptProven ==
  ASSUME ~IoErrors, TypeInv, FallbackInv, SupervisionInv, ProvenInv, Adopt
  PROVE  ProvenInv'
<1> USE DEF disk, files, system, history
<1>0. /\ entry \in Entry /\ mem \in Entry /\ running \in Bases
      /\ rollback \in [Bases -> [Versions -> Image \cup {None}]]
      /\ pc \in AdoptSteps => ret \in {"done", "a_retain"}
  BY DEF TypeInv, TypeOK, ControlInv
<1>p. /\ pc \in {"d_check", "d_copy", "d_store"} /\ mem = entry /\ mem.phase \in Resting
  BY DEF Adopt, AdoptCheck, AdoptCopy, AdoptStore, SupervisionInv, FreshInv, FreshSteps
<1>s. RetainedInv /\ Settles(entry) /\ Settles(mem) /\ SureInv
  BY <1>p DEF ProvenInv
<1>1. CASE AdoptCheck
  <2>1. /\ UNCHANGED <<disk, system, mem>> /\ proven \subseteq proven'
        /\ \/ pc' = "d_copy" /\ HasRuleset /\ merged \in proven'
           \/ pc' = "done"
    BY <1>1 DEF AdoptCheck, Healthy, Sound, Unhealthy, Fail
  <2>2. HasRuleset => merged = ActiveImage
    BY <1>p, <1>s DEF Settles
  <2>3. ActiveImage' = ActiveImage
    BY <2>1 DEF ActiveImage
  <2>4. RetainedInv' /\ SureInv'
    BY <1>s, <2>1, <2>2, <2>3 DEF RetainedInv, SureInv
  <2>5. Settles(entry)' /\ Settles(mem)'
    BY <1>s, <2>1, SettlesKept DEF Follows
  <2> QED
    BY <2>4, <2>5 DEF ProvenInv
<1>2. CASE AdoptCopy
  <2>1. /\ UNCHANGED <<entry, scoped, legacy, system, mem, proven>> /\ pc' = "d_store"
        /\ pc = "d_copy"
        /\ \/ rollback' = rollback
           \/ rollback' = [rollback EXCEPT ![running][AdoptedVersion] = ActiveImage]
    BY <1>2 DEF AdoptCopy, Fail
  <2>2. ActiveImage \in proven /\ ActiveImage' = ActiveImage
    BY <1>s, <2>1 DEF SureInv, ActiveImage
  <2>3. RetainedInv'
    BY <1>0, <1>s, <2>1, <2>2 DEF RetainedInv
  <2>4. Settles(entry)' /\ Settles(mem)'
    BY <1>s, <2>1, SettlesKept DEF Follows
  <2>5. SureInv'
    BY <2>1, <2>2 DEF SureInv
  <2> QED
    BY <2>3, <2>4, <2>5 DEF ProvenInv
<1>3. CASE AdoptStore
  <2>1. /\ UNCHANGED <<files, system, proven>> /\ pc = "d_store" /\ pc' = ret
        /\ entry' = mem' /\ mem'.phase = "Active" /\ mem'.knownGood = AdoptedVersion
    BY <1>0, <1>3 DEF AdoptStore, KnownGood, StoreOk, StoreFails, Entry
  <2>2. ActiveImage \in proven /\ ActiveImage' = ActiveImage /\ HasRuleset' = HasRuleset
    BY <1>s, <2>1 DEF SureInv, ActiveImage, HasRuleset
  <2>3. AdoptedVersion \in Versions
    BY <2>1, FilesTyped DEF TypeInv, ControlInv, Carries, AdoptSteps, AdoptedVersion
  <2>4. AdoptedVersion # None
    BY <2>3, NoneAssumption
  <2>5. Settles(mem)'
    BY <1>p, <1>s, <2>1, <2>2, PhasesApart DEF Settles
  <2>6. Settles(entry)'
    BY <2>1, <2>5 DEF Settles
  <2>7. RetainedInv' /\ SureInv'
    BY <1>0, <1>s, <2>1, <2>4 DEF RetainedInv, SureInv, AdoptSteps
  <2> QED
    BY <2>5, <2>6, <2>7 DEF ProvenInv
<1> QED
  BY <1>1, <1>2, <1>3 DEF Adopt

\* An activation retains an image that has passed, and commits the one that just did.
LEMMA ActivateProven ==
  ASSUME OneBase, ~IoErrors, TypeInv, FallbackInv, SupervisionInv, VisibleInv, ProvenInv, Activate
  PROVE  ProvenInv'
<1> USE DEF disk, files, system, history
<1>0. /\ entry \in Entry /\ mem \in Entry /\ snap \in Entry /\ running \in Bases
      /\ rollback \in [Bases -> [Versions -> Image \cup {None}]]
  BY DEF TypeInv, TypeOK
<1>s. RetainedInv /\ Settles(entry) /\ Settles(mem) /\ SureInv
  BY DEF ProvenInv, Activate, ActivateReplay, ActivateUnstaged, ActivateCheck, ActivateRetain,
     ActivateRecord, ActivateHide, ActivateInstall, ActivateRefresh, ActivateStart,
     ActivateReady, ActivateSoak, ActivatePrune
<1>f. pc \in {"a_check", "a_retain", "a_record"} => mem = entry /\ mem.phase \in Resting
  BY DEF SupervisionInv, FreshInv, FreshSteps
<1>1. CASE ActivateReplay \/ ActivateUnstaged
  <2>1. UNCHANGED <<disk, system, mem, proven>> /\ pc' = "done"
    BY <1>1 DEF ActivateReplay, ActivateUnstaged, Fail
  <2>2. Settles(entry)' /\ Settles(mem)'
    BY <1>s, <2>1, SettlesKept DEF Follows
  <2> QED
    BY <1>s, <2>1, <2>2 DEF ProvenInv, RetainedInv, SureInv
<1>2. CASE ActivateCheck
  <2>1. /\ UNCHANGED <<disk, system, mem>> /\ proven \subseteq proven' /\ pc = "a_check"
        /\ \/ pc' = "d_copy" /\ HasRuleset /\ merged \in proven'
           \/ pc' = "done"
           \/ pc' = "a_retain" /\ ~(mem.knownGood = None /\ ActiveImage # None /\ HasRuleset)
    BY <1>2 DEF ActivateCheck, Healthy, Sound, Unhealthy, Fail
  <2>2. HasRuleset => merged = ActiveImage /\ merged # None
    BY <1>f, <1>s, <2>1 DEF Settles, HasRuleset
  <2>3. ActiveImage' = ActiveImage /\ HasRuleset' = HasRuleset
    BY <2>1 DEF ActiveImage, HasRuleset
  <2>4. RetainedInv' /\ SureInv'
    BY <1>s, <2>1, <2>2, <2>3 DEF RetainedInv, SureInv
  <2>5. Settles(entry)' /\ Settles(mem)'
    BY <1>s, <2>1, SettlesKept DEF Follows
  <2> QED
    BY <2>4, <2>5 DEF ProvenInv
<1>3. CASE ActivateRetain
  <2>1. /\ UNCHANGED <<entry, scoped, legacy, system, mem, proven>> /\ pc = "a_retain"
        /\ pc' \in {"a_record", "done"}
        /\ \/ rollback' = rollback
           \/ /\ mem.active # None /\ ActiveImage # None
              /\ rollback' = [rollback EXCEPT ![running][mem.active] = ActiveImage]
    BY <1>3 DEF ActivateRetain, Fail
  <2>2. mem.active # None /\ ActiveImage # None => ActiveImage \in proven
    BY <1>f, <1>s, <2>1 DEF Settles
  <2>3. RetainedInv'
    BY <1>0, <1>s, <2>1, <2>2 DEF RetainedInv
  <2>4. Settles(entry)' /\ Settles(mem)'
    BY <1>s, <2>1, SettlesKept DEF Follows
  <2>5. SureInv'
    BY <1>s, <2>1 DEF SureInv, HasRuleset
  <2> QED
    BY <2>3, <2>4, <2>5 DEF ProvenInv
<1>4. CASE ActivateRecord
  <2>1. /\ UNCHANGED <<files, system, proven>> /\ pc = "a_record" /\ pc' = "a_install"
        /\ entry' = mem' /\ mem'.phase = "Activating" /\ mem'.active = mem.active
        /\ mem'.knownGood = IF mem.active = None THEN mem.knownGood ELSE mem.active
    BY <1>0, <1>4 DEF ActivateRecord, KnownGood, StoreOk, StoreFails, Entry
  <2>2. mem'.knownGood = None => mem'.active = None /\ ~HasRuleset
    BY <1>s, <2>1 DEF SureInv
  <2>3. "Activating" \in Swapping /\ HasRuleset' = HasRuleset
    BY <2>1 DEF Swapping, HasRuleset
  <2>4. Settles(mem)' /\ Settles(entry)'
    BY <2>1, <2>2, <2>3, PhasesApart DEF Settles
  <2>5. RetainedInv' /\ SureInv'
    BY <1>s, <2>1, <2>2, <2>3 DEF RetainedInv, SureInv
  <2> QED
    BY <2>4, <2>5 DEF ProvenInv
<1>5. CASE ActivateHide \/ ActivateInstall
  <2>1. /\ pc = "a_install" /\ pc' \in {"a_install", "a_refresh"}
        /\ UNCHANGED <<entry, rollback, system, mem, proven>>
    BY <1>5 DEF ActivateHide, ActivateInstall, InstallFails, agent
  <2>2. entry = mem /\ mem.phase \in Swapping /\ (mem.knownGood = None => ~HasRuleset)
    BY <1>s, <2>1 DEF SureInv
  <2>3. HasRuleset' = HasRuleset
    BY <2>1 DEF HasRuleset
  <2>4. Settles(mem)' /\ Settles(entry)'
    BY <1>s, <2>1, <2>2, <2>3, PhasesApart DEF Settles
  <2>5. RetainedInv' /\ SureInv'
    BY <1>s, <2>1, <2>2, <2>3 DEF RetainedInv, SureInv
  <2> QED
    BY <2>4, <2>5 DEF ProvenInv
<1>6. CASE ActivateRefresh
  <2>1. /\ pc = "a_refresh" /\ pc' = "a_start" /\ UNCHANGED <<disk, running, mem, proven>>
        /\ merged' \in MergeChoice(running, scoped, legacy)
    BY <1>6 DEF ActivateRefresh, RefreshOk, RefreshFails
  <2>2. entry = mem /\ mem.phase \in Swapping
    BY <1>s, <2>1 DEF SureInv
  <2>3. ActiveImage' = ActiveImage /\ merged' = ActiveImage
    BY <1>0, <2>1, RefreshMergesActive DEF ActiveImage
  <2>4. Settles(mem)' /\ Settles(entry)'
    BY <1>s, <2>1, <2>2, <2>3, PhasesApart DEF Settles
  <2>5. RetainedInv' /\ SureInv'
    BY <1>s, <2>1, <2>2, <2>3 DEF RetainedInv, SureInv
  <2> QED
    BY <2>4, <2>5 DEF ProvenInv
<1>7. CASE ActivateStart \/ ActivateReady
  <2>1. /\ pc \in {"a_start", "a_ready"} /\ pc' \in {"a_ready", "a_soak", "v_check"}
        /\ UNCHANGED <<files, system, proven>>
        /\ \/ pc' = "v_check" /\ UNCHANGED <<entry, mem>>
           \/ /\ pc' # "v_check" /\ entry' = mem' /\ mem'.phase \in {"Starting", "Soaking"}
              /\ mem'.knownGood = mem.knownGood /\ mem'.active = mem.active
    BY <1>0, <1>7 DEF ActivateStart, ActivateReady, Advance, Revert, CallRecover, StoreOk,
       StoreFails, Entry
  <2>2. /\ mem.phase \in Swapping /\ {"Starting", "Soaking"} \subseteq Swapping
        /\ merged = ActiveImage
    BY <1>s, <2>1 DEF SureInv, Swapping
  <2>3. ActiveImage' = ActiveImage
    BY <2>1 DEF ActiveImage
  <2>4. Settles(entry)' /\ Settles(mem)'
    BY <1>s, <2>1, <2>2, SettlesKept DEF Follows
  <2>5. RetainedInv' /\ SureInv'
    BY <1>s, <2>1, <2>2, <2>3 DEF RetainedInv, SureInv
  <2> QED
    BY <2>4, <2>5 DEF ProvenInv
<1>8. CASE ActivateSoak
  <2>1. /\ pc = "a_soak" /\ pc' \in {"a_prune", "v_check"} /\ UNCHANGED <<files, system>>
        /\ proven \subseteq proven'
        /\ \/ UNCHANGED <<entry, mem>>
           \/ entry' = mem' /\ mem' = Committed /\ merged \in proven'
    BY <1>8 DEF ActivateSoak, Healthy, Sound, Unhealthy, Revert, CallRecover, StoreOk, StoreFails
  <2>2. merged = ActiveImage /\ ActiveImage' = ActiveImage
    BY <1>s, <2>1 DEF SureInv, ActiveImage
  <2>3. Committed.phase = "Active"
    BY <1>0 DEF Committed, Entry
  <2>4. CASE UNCHANGED <<entry, mem>>
    BY <1>s, <2>1, <2>4, SettlesKept DEF Follows, ProvenInv, RetainedInv, SureInv
  <2>5. CASE entry' = mem' /\ mem' = Committed /\ merged \in proven'
    <3>1. Settles(mem)'
      BY <2>1, <2>2, <2>3, <2>5, PhasesApart DEF Settles
    <3>2. Settles(entry)'
      BY <2>5, <3>1 DEF Settles
    <3> QED
      BY <1>s, <2>1, <3>1, <3>2 DEF ProvenInv, RetainedInv, SureInv
  <2> QED
    BY <2>1, <2>4, <2>5
<1>9. CASE ActivatePrune
  <2>1. /\ UNCHANGED <<entry, scoped, legacy, system, mem, proven>> /\ pc' = "done"
        /\ \E R \in LeftRollbacks(snap.active) : SetRollbacks(R)
    BY <1>9 DEF ActivatePrune
  <2>2. \A v \in Versions : rollback'[running][v] \in {None, rollback[running][v]}
    BY <1>0, <2>1, PruneRetains DEF TypeInv, Entry
  <2>3. RetainedInv'
    BY <1>s, <2>1, <2>2, RetainedKept
  <2>4. Settles(entry)' /\ Settles(mem)'
    BY <1>s, <2>1, SettlesKept DEF Follows
  <2> QED
    BY <2>1, <2>3, <2>4 DEF ProvenInv, SureInv
<1> QED
  BY <1>1, <1>2, <1>3, <1>4, <1>5, <1>6, <1>7, <1>8, <1>9 DEF Activate

\* Staging records a candidate and nothing else.
LEMMA StageProven ==
  ASSUME OneBase, ~IoErrors, TypeInv, SupervisionInv, ProvenInv, Stage
  PROVE  ProvenInv'
<1> USE DEF disk, files, system, history
<1>0. entry \in Entry /\ mem \in Entry /\ running \in Bases
  BY DEF TypeInv, TypeOK
<1>s. RetainedInv /\ Settles(entry) /\ Settles(mem)
  BY DEF ProvenInv, Stage, StageCandidate, StageOtherBase, StageRecord
<1>1. ~StageOtherBase
  BY <1>0 DEF StageOtherBase, TypeInv, ControlInv, Carries, StageSteps, OneBase
<1>2. /\ UNCHANGED <<scoped, legacy, rollback, system, proven>> /\ entry' \in {entry, mem'}
      /\ mem' = mem \/ (mem'.phase = "Staged" /\ mem'.active = mem.active)
      /\ pc \in {"s_place", "s_record"} /\ pc' \in {"s_record", "a_check", "done"}
  BY <1>0, <1>1 DEF Stage, StageCandidate, StageRecord, Fail, StoreOk, StoreFails, Entry
<1>3. mem.phase \in Resting
  BY <1>2 DEF SupervisionInv, FreshInv, FreshSteps
<1>4. Settles(entry)' /\ Settles(mem)'
  BY <1>s, <1>2, <1>3, SettlesKept, PhasesApart DEF Follows
<1> QED
  BY <1>s, <1>2, <1>4 DEF ProvenInv, RetainedInv, SureInv

\* The gate adopts only what it has just seen pass.
LEMMA GateProven ==
  ASSUME ~IoErrors, TypeInv, SupervisionInv, ProvenInv, Gate
  PROVE  ProvenInv'
<1> USE DEF disk, files, system, history
<1>0. /\ entry \in Entry /\ mem \in Entry /\ running \in Bases
      /\ rollback \in [Bases -> [Versions -> Image \cup {None}]]
  BY DEF TypeInv, TypeOK
<1>p. pc \in {"g_verify", "g_adopt"} /\ mem = entry /\ mem.phase \in Resting
  BY DEF Gate, GateNotRequired, GateTerminal, GateUnhealthy, GateHealthy, GateSoak, GateAdopt,
     SupervisionInv, FreshInv, FreshSteps
<1>s. RetainedInv /\ Settles(entry) /\ Settles(mem) /\ SureInv
  BY <1>p DEF ProvenInv
<1>h. HasRuleset => merged = ActiveImage
  BY <1>p, <1>s DEF Settles
<1>1. CASE GateNotRequired \/ GateTerminal \/ GateUnhealthy \/ GateSoak
  <2>1. /\ UNCHANGED <<disk, system, mem>> /\ proven \subseteq proven'
        /\ \/ pc' \in {"done", "c_store", "v_check"}
           \/ pc' = "g_adopt" /\ HasRuleset /\ merged \in proven'
    BY <1>1 DEF GateNotRequired, GateTerminal, GateUnhealthy, GateSoak, Healthy, Sound, CallRecover, Fail
  <2>2. ActiveImage' = ActiveImage
    BY <2>1 DEF ActiveImage
  <2>3. Settles(entry)' /\ Settles(mem)'
    BY <1>s, <2>1, SettlesKept DEF Follows
  <2> QED
    BY <1>s, <1>h, <2>1, <2>2, <2>3 DEF ProvenInv, RetainedInv, SureInv
<1>2. CASE GateHealthy
  <2>1. /\ UNCHANGED <<disk, system>> /\ proven \subseteq proven' /\ pc' = "c_store"
        /\ mem'.phase = "Active" /\ mem'.active = mem.active
    BY <1>0, <1>2 DEF GateHealthy, Healthy, Sound, Verified, Entry
  <2>2. Settles(entry)' /\ Settles(mem)'
    BY <1>p, <1>s, <2>1, SettlesKept, PhasesApart DEF Follows
  <2> QED
    BY <1>s, <2>1, <2>2 DEF ProvenInv, RetainedInv, SureInv
<1>3. CASE GateAdopt
  <2>1. /\ UNCHANGED <<entry, scoped, legacy, system, proven>> /\ pc = "g_adopt" /\ pc' = "c_store"
        /\ \/ rollback' = rollback
           \/ rollback' = [rollback EXCEPT ![running][merged.version] = ActiveImage]
    BY <1>3 DEF GateAdopt
  <2>2. mem' = mem \/ mem'.phase = "Active"
    BY <1>0, <1>3 DEF GateAdopt, Verified, KnownGood, Entry
  <2>3. ActiveImage \in proven /\ ActiveImage' = ActiveImage /\ HasRuleset' = HasRuleset
    BY <1>s, <2>1 DEF SureInv, ActiveImage, HasRuleset
  <2>4. Settles(mem)'
    BY <1>h, <1>s, <2>1, <2>2, <2>3, PhasesApart DEF Settles
  <2>5. Settles(entry)'
    BY <1>s, <2>1, <2>3 DEF Settles
  <2>6. RetainedInv'
    BY <1>0, <1>s, <2>1, <2>3 DEF RetainedInv
  <2> QED
    BY <2>1, <2>4, <2>5, <2>6 DEF ProvenInv, SureInv
<1> QED
  BY <1>1, <1>2, <1>3 DEF Gate

\* A crash or a reboot leaves merged what was, or merges the active image.
LEMMA OtherProven ==
  ASSUME OneBase, ~IoErrors, TypeInv, FallbackInv, SupervisionInv, VisibleInv, ProvenInv,
         \/ CommandStore \/ Finish \/ Kill
         \/ \E c \in Commands : Start(c)
         \/ \E b \in Bases : Reboot(b)
  PROVE  ProvenInv'
<1> USE DEF disk, files, system, history
<1>0. entry \in Entry /\ mem \in Entry /\ running \in Bases
  BY DEF TypeInv, TypeOK
<1>s. RetainedInv /\ Settles(entry) /\ (pc # "idle" => Settles(mem)) /\ SureInv
  BY DEF ProvenInv
<1>1. CASE CommandStore
  <2>1. /\ UNCHANGED <<files, system, proven>> /\ entry' = mem' /\ pc = "c_store" /\ pc' = "done"
        /\ mem' = Marked(mem)
    BY <1>1 DEF CommandStore, StoreOk, StoreFails, Fail
  <2>2. /\ mem'.knownGood = mem.knownGood /\ mem'.active = mem.active
        /\ mem'.phase = mem.phase \/ (mem'.phase = "Idle" /\ cmd.op = "reset")
    BY <1>0, <2>1 DEF Marked, Entry
  <2>3. cmd.op = "reset" => mem.phase \in Resting
    BY <2>1 DEF SupervisionInv, FreshInv, Marks
  <2>4. Settles(entry)' /\ Settles(mem)'
    BY <1>s, <2>1, <2>2, <2>3, SettlesKept, PhasesApart DEF Follows
  <2> QED
    BY <1>s, <2>1, <2>4 DEF ProvenInv, RetainedInv, SureInv
<1>2. CASE \E c \in Commands : Start(c)
  <2>1. UNCHANGED <<disk, system, proven>> /\ mem' = Forget(entry) /\ pc' = "r_case"
    BY <1>2 DEF Start
  <2>2. /\ mem'.knownGood = entry.knownGood /\ mem'.active = entry.active
        /\ \/ mem'.phase = entry.phase
           \/ mem'.phase = "Idle" /\ entry.phase = "Unrecoverable"
    BY <1>0, <2>1 DEF Forget, Entry
  <2>3. ActiveImage' = ActiveImage /\ HasRuleset' = HasRuleset
    BY <2>1 DEF ActiveImage, HasRuleset
  <2>4. Settles(mem)'
    BY <1>s, <2>1, <2>2, <2>3, PhasesApart DEF Settles
  <2>5. Settles(entry)'
    BY <1>s, <2>1, <2>3 DEF Settles
  <2> QED
    BY <1>s, <2>1, <2>4, <2>5 DEF ProvenInv, RetainedInv, SureInv
<1>3. CASE Finish \/ Kill \/ \E b \in Bases : Reboot(b)
  <2>1. pc' = "idle" /\ UNCHANGED <<disk, proven>> /\ running' = running
    BY <1>0, <1>3 DEF Finish, Kill, Reboot, Exit, OneBase
  <2>2. ActiveImage' = ActiveImage
    BY <2>1 DEF ActiveImage
  <2>3. \/ merged' \in {merged, ActiveImage}
        \/ pc \in {"v_refresh", "x_refresh"}
    BY <1>0, <1>3, RefreshMergesActive DEF Finish, Kill, Reboot, OneBase
  <2>4. pc \in {"v_refresh", "x_refresh"} => entry.phase \in {"Reverting", "Removing"}
    BY <1>s DEF SureInv, FallbackInv, RemovingInv, RemovalSteps
  <2>5. Settles(entry)'
    BY <1>s, <2>1, <2>2, <2>3, <2>4, PhasesApart DEF Settles, HasRuleset
  <2> QED
    BY <1>s, <2>1, <2>5 DEF ProvenInv, RetainedInv, SureInv
<1> QED
  BY <1>1, <1>2, <1>3

\* Every step keeps it.
LEMMA NextProven ==
  ASSUME OneBase, ~IoErrors, TypeInv, FallbackInv, SupervisionInv, VisibleInv, ProvenInv,
         [Next]_vars
  PROVE  ProvenInv'
<1>1. CASE Next
  BY <1>1, ReconcileProven, RecoverProven, RemoveProven, AdoptProven,
     ActivateProven, StageProven, GateProven, OtherProven DEF Next, AgentStep
<1>2. CASE UNCHANGED vars
  BY <1>2 DEF vars, disk, files, system, agent, history, ProvenInv, RetainedInv, Settles, SureInv,
     ActiveImage, HasRuleset
<1> QED
  BY <1>1, <1>2

\* A node starts without a record, and with nothing retained.
LEMMA InitProven ==
  ASSUME OneBase, Init
  PROVE  VisibleInv /\ ProvenInv
<1>1. TypeInv /\ VisibleInv
  BY InitTyped DEF Init, VisibleInv
<1>2. merged = ActiveImage
  BY <1>1, RefreshMergesActive DEF Init
<1>3. Settles(entry)
  BY <1>2 DEF Init, Settles, AbsentEntry, Swapping
<1>4. RetainedInv /\ SureInv
  BY DEF Init, RetainedInv, SureInv
<1> QED
  BY <1>1, <1>3, <1>4 DEF ProvenInv, Init

\* prune_rollbacks, durable_copy and adopt_active never leave an untried image behind the
\* known-good name, as long as no file operation fails: what recovery would restore has
\* passed a health check while it was merged.
THEOREM KnownGoodIsProven ==
  ASSUME OneBase, ~IoErrors
  PROVE  Spec => []KnownGoodProven
<1>1. TypeInv /\ FallbackInv /\ ProvenInv => KnownGoodProven
  BY FallbackThere DEF KnownGoodProven, ProvenInv, RetainedInv, TypeInv, TypeOK, Entry
<1> QED
  BY <1>1, InitProven, NextVisible, NextProven, SupervisionInductive, PTL DEF Spec
--------------------------------------------------------------------------------
(***************************************************************************)
(* A request is carried out once.                                          *)
(***************************************************************************)
\* A history remembers each request that was carried out behind no more ids than its count
\* still allows.
Recalls(s, count) ==
  \A q \in Requests : count[q] > 0
    => \E i \in DOMAIN s : s[i] = q /\ Len(s) - i <= History - count[q]

\* Both copies of the record do.
CompletedInv ==
  /\ Recalls(entry.completed, remembered)
  /\ pc # "idle" => Recalls(mem.completed, remembered)

\* From the check of its request to the commit, an activation carries one that its history
\* does not hold.
Undone ==
  \/ pc \in ActivateSteps \ {"a_check", "a_prune"}
  \/ pc \in AdoptSteps /\ ret = "a_retain"

UndoneInv == Undone => cmd.request \notin Elements(mem.completed)

\* A history that holds no request remembers none.
LEMMA ForgottenOnes ==
  ASSUME TypeOK, NEW s, Recalls(s, remembered), NEW q \in Requests, q \notin Elements(s)
  PROVE  remembered[q] = 0
BY HistoryAssumption DEF Recalls, Elements, TypeOK

\* A request is forgotten no sooner when its count is lower.
LEMMA AgedRecalls ==
  ASSUME TypeOK, NEW s \in Seq(Ids), Recalls(s, remembered), NEW id
  PROVE  Recalls(s, Aged(id))
<1> SUFFICES ASSUME NEW q \in Requests, Aged(id)[q] > 0
             PROVE  \E i \in DOMAIN s : s[i] = q /\ Len(s) - i <= History - Aged(id)[q]
  BY DEF Recalls
<1>1. remembered[q] \in 0..History /\ History \in Nat
  BY HistoryAssumption DEF TypeOK
<1>2. Aged(id)[q] \in {remembered[q], remembered[q] - 1} /\ remembered[q] > 0
  BY <1>1 DEF Aged
<1>3. PICK i \in DOMAIN s : s[i] = q /\ Len(s) - i <= History - remembered[q]
  BY <1>2 DEF Recalls
<1>4. i \in Nat /\ Len(s) \in Nat
  OBVIOUS
<1>5. Len(s) - i <= History - Aged(id)[q]
  BY <1>1, <1>2, <1>3, <1>4
<1> QED
  BY <1>3, <1>5

\* record_completed pushes each request back by one place at most, and drops only those
\* behind as many newer ids as the history holds.
LEMMA RecordCompletedRecalls ==
  ASSUME TypeOK, NEW s \in Seq(Ids), Recalls(s, remembered),
         NEW id \in Ids \cup {None}, id \notin Elements(s)
  PROVE  Recalls(RecordCompleted(s, id), Remembered(id))
<1>0. History \in Nat \ {0} /\ None \notin Requests
  BY HistoryAssumption, NoneAssumption DEF Ids
<1>1. CASE id = None
  BY <1>0, <1>1 DEF RecordCompleted, Remembered, Aged, Recalls, TypeOK
<1>2. CASE id # None
  <2> DEFINE t == Append(s, id)
             n == Len(s) + 1
             cut == IF n > History THEN n - History ELSE 0
             r == RecordCompleted(s, id)
  <2>1. /\ t \in Seq(Ids) /\ Len(s) \in Nat /\ Len(t) = n
        /\ DOMAIN s = 1..Len(s) /\ DOMAIN t = 1..n
        /\ \A i \in 1..Len(s) : t[i] = s[i]
        /\ t[n] = id
    BY <1>2
  <2> HIDE DEF t
  <2>2. /\ Len(r) = n - cut /\ DOMAIN r = 1..(n - cut)
        /\ \A j \in 1..(n - cut) : r[j] = t[j + cut]
    <3>1. CASE n > History
      <4>1. r = SubSeq(t, n - History + 1, n)
        BY <1>2, <2>1, <3>1 DEF RecordCompleted, t
      <4>2. /\ n - History + 1 \in 1..n /\ n \in 1..n
            /\ n - (n - History + 1) + 1 = History
        BY <1>0, <2>1, <3>1
      <4>3. /\ Len(r) = History /\ DOMAIN r = 1..History
            /\ \A j \in 1..History : r[j] = t[j + (n - History)]
        BY <1>0, <2>1, <3>1, <4>1, <4>2
      <4>4. n - cut = History /\ cut = n - History
        BY <1>0, <2>1, <3>1
      <4> QED
        BY <4>3, <4>4
    <3>2. CASE ~(n > History)
      <4>1. r = t
        BY <1>2, <2>1, <3>2 DEF RecordCompleted, t
      <4> QED
        BY <2>1, <3>2, <4>1
    <3> QED
      BY <3>1, <3>2
  <2>3. cut \in Nat /\ cut < n /\ (cut > 0 => n - cut = History)
    BY <1>0, <2>1
  <2> HIDE DEF r, cut
  <2> SUFFICES ASSUME NEW q \in Requests, Remembered(id)[q] > 0
               PROVE  \E j \in DOMAIN r : r[j] = q /\ Len(r) - j <= History - Remembered(id)[q]
    BY DEF Recalls, r
  <2>4. CASE q = id
    <3>1. n - cut \in DOMAIN r /\ r[n - cut] = q
      BY <2>1, <2>2, <2>3, <2>4
    <3>2. Remembered(id)[q] = History
      BY <2>4 DEF Remembered
    <3>3. Len(r) - (n - cut) = 0
      BY <2>1, <2>2, <2>3
    <3>4. Len(r) - (n - cut) <= History - Remembered(id)[q]
      BY <1>0, <3>2, <3>3
    <3> QED
      BY <3>1, <3>4
  <2>5. CASE q # id
    <3>1. /\ remembered[q] \in Nat /\ remembered[q] > 1
          /\ Remembered(id)[q] = remembered[q] - 1
      BY <1>2, <2>5 DEF Remembered, Aged, TypeOK
    <3>2. PICK i \in DOMAIN s : s[i] = q /\ Len(s) - i <= History - remembered[q]
      BY <3>1 DEF Recalls
    <3>3. i \in 1..Len(s) /\ i - cut \in 1..(n - cut) /\ n - i <= History - (remembered[q] - 1)
      BY <1>0, <2>1, <2>3, <3>1, <3>2
    <3>4. r[i - cut] = t[i] /\ t[i] = q
      BY <2>1, <2>2, <2>3, <3>2, <3>3
    <3>5. Len(r) - (i - cut) = n - i
      BY <2>1, <2>2, <2>3, <3>3
    <3> QED
      BY <2>2, <3>1, <3>3, <3>4, <3>5
  <2> QED
    BY <2>4, <2>5
<1> QED
  BY <1>1, <1>2

\* A step inside a command that leaves the history of both copies as it is, or stores
\* what is in memory.
LEMMA CompletedKept ==
  ASSUME CompletedInv, pc # "idle", UNCHANGED remembered,
         mem'.completed = mem.completed,
         entry'.completed \in {entry.completed, mem.completed}
  PROVE  CompletedInv'
  BY DEF CompletedInv, Recalls

\* What reconciliation, recovery, removal, adoption, staging and the gate do to the
\* record leaves its history alone.
LEMMA HistoryKept ==
  ASSUME TypeInv, \/ Reconcile \/ Recover \/ Remove \/ Adopt \/ Stage \/ Gate \/ CommandStore
  PROVE  /\ mem'.completed = mem.completed
         /\ entry'.completed \in {entry.completed, mem.completed}
         /\ UNCHANGED <<cmd, remembered>> /\ pc # "idle"
<1> USE DEF disk, files, history, StoreOk, StoreFails
<1>0. entry \in Entry /\ mem \in Entry
  BY DEF TypeInv, TypeOK
<1>1. CASE Reconcile
  <2>1. CASE ReconcileStaged
    <3> DEFINE p == IF ActiveImage # None THEN "Active" ELSE "Idle"
               m == [mem EXCEPT !.candidate = None, !.phase = p]
    <3>1. m.completed = mem.completed /\ Cleared(m).completed = mem.completed
      BY <1>0 DEF Entry, Cleared
    <3>2. mem' \in {mem, m, Cleared(m)} /\ UNCHANGED <<entry, cmd, remembered>> /\ pc = "r_case"
      BY <2>1 DEF ReconcileStaged
    <3> QED
      BY <3>1, <3>2
  <2>2. CASE ReconcileActive \/ ReconcileAtRest
    <3>1. /\ Cleared(mem).completed = mem.completed
          /\ [Cleared(mem) EXCEPT !.phase = "Idle"].completed = mem.completed
      BY <1>0 DEF Entry, Cleared
    <3>2. /\ mem' \in {mem, Cleared(mem), [Cleared(mem) EXCEPT !.phase = "Idle"]}
          /\ UNCHANGED <<entry, cmd, remembered>> /\ pc = "r_case"
      BY <2>2 DEF ReconcileActive, ReconcileAtRest, CallRecover
    <3> QED
      BY <3>1, <3>2
  <2>3. CASE ReconcileTransient \/ ReconcileRemoving \/ ReconcilePrune \/ ReconcileStore
    BY <2>3 DEF ReconcileTransient, ReconcileRemoving, ReconcilePrune, ReconcileStore, CallRecover
  <2> QED
    BY <1>1, <2>1, <2>2, <2>3 DEF Reconcile
<1>2. CASE Recover
  BY <1>0, <1>2 DEF Recover, RecoverRefuse, RecoverBegin, RecoverHide, RecoverInstall,
     RecoverRefresh, RecoverVerify, RecoverPrune, Terminal, Healthy, Unhealthy, Entry, agent
<1>3. CASE Remove
  BY <1>0, <1>3 DEF Remove, RemoveRecord, RemoveFiles, RemoveRefresh, RemovePrune, Cleared, Entry
<1>4. CASE Adopt
  BY <1>0, <1>4 DEF Adopt, AdoptCheck, AdoptCopy, AdoptStore, KnownGood, Healthy, Unhealthy, Entry
<1>5. CASE Stage
  BY <1>0, <1>5 DEF Stage, StageCandidate, StageOtherBase, StageRecord, Entry
<1>6. CASE Gate
  BY <1>0, <1>6 DEF Gate, GateNotRequired, GateTerminal, GateUnhealthy, GateHealthy, GateSoak,
     GateAdopt, CallRecover, Verified, KnownGood, Healthy, Fail, Entry
<1>7. CASE CommandStore
  <2>1. Marked(mem).completed = mem.completed
    BY <1>0 DEF Marked, Entry
  <2> QED
    BY <1>7, <2>1 DEF CommandStore
<1> QED
  BY <1>1, <1>2, <1>3, <1>4, <1>5, <1>6, <1>7

\* None of these steps is between the check of a request and its commit, but adoption.
LEMMA UndoneKept ==
  ASSUME TypeInv, UndoneInv,
         \/ Reconcile \/ Recover \/ Remove \/ Adopt \/ Stage \/ Gate \/ CommandStore
  PROVE  UndoneInv'
<1> USE DEF Undone, ActivateSteps, AdoptSteps, RecoverSteps, RemovalSteps, StageSteps
<1>0. /\ cmd' = cmd /\ mem'.completed = mem.completed
      /\ pc \in RecoverSteps => ret \in {"r_prune", "c_store", "done"}
      /\ pc \in RemovalSteps => ret \in {"r_prune", "c_store"}
      /\ pc \in AdoptSteps => ret \in {"done", "a_retain"}
  BY HistoryKept DEF TypeInv, ControlInv
<1>1. CASE Undone'
  <2>1. ~Reconcile
    BY <1>1, FirstSteps DEF Reconcile, ReconcileTransient, ReconcileRemoving, ReconcileStaged,
       ReconcileActive, ReconcileAtRest, ReconcilePrune, ReconcileStore, CallRecover
  <2>2. ~Recover
    BY <1>0, <1>1 DEF Recover, RecoverRefuse, RecoverBegin, RecoverHide, RecoverInstall,
       RecoverRefresh, RecoverVerify, RecoverPrune, Terminal, agent
  <2>3. ~Remove
    BY <1>0, <1>1 DEF Remove, RemoveRecord, RemoveFiles, RemoveRefresh, RemovePrune, RemovalFails
  <2>4. ~(Stage \/ Gate \/ CommandStore)
    BY <1>1 DEF Stage, StageCandidate, StageOtherBase, StageRecord, Gate, GateNotRequired,
       GateTerminal, GateUnhealthy, GateHealthy, GateSoak, GateAdopt, CallRecover, CommandStore,
       Fail, agent
  <2>5. CASE Adopt
    <3>1. pc \in AdoptSteps /\ ret = "a_retain"
      BY <1>0, <1>1, <2>5 DEF Adopt, AdoptCheck, AdoptCopy, AdoptStore, Fail
    <3> QED
      BY <1>0, <3>1 DEF UndoneInv
  <2> QED
    BY <2>1, <2>2, <2>3, <2>4, <2>5
<1> QED
  BY <1>1 DEF UndoneInv

\* Activation writes the history once, when the candidate has proven itself.
LEMMA ActivateCompletes ==
  ASSUME TypeInv, CompletedInv, UndoneInv, Activate
  PROVE  CompletedInv' /\ UndoneInv'
<1> USE DEF disk, files, agent, history
<1>0. /\ TypeOK /\ entry \in Entry /\ mem \in Entry /\ cmd.request \in Ids \cup {None}
  BY DEF TypeInv, TypeOK, ControlInv, Carries
<1> USE DEF Undone, ActivateSteps, AdoptSteps
<1>1. CASE ActivateReplay \/ ActivateUnstaged \/ ActivateCheck
  <2>1. /\ UNCHANGED <<entry, mem, cmd, remembered>> /\ pc = "a_check"
        /\ pc' = "done" \/ cmd.request \notin Elements(mem.completed)
    BY <1>1 DEF ActivateReplay, ActivateUnstaged, ActivateCheck, Fail, Healthy, Unhealthy
  <2> QED
    BY <2>1, CompletedKept DEF UndoneInv
<1>2. CASE ActivateRetain \/ ActivateRecord
  <2>1. /\ UNCHANGED <<cmd, remembered>> /\ pc \in {"a_retain", "a_record"}
        /\ mem'.completed = mem.completed /\ entry' \in {entry, mem'}
        /\ pc' \in {"a_record", "a_install", "done"}
    BY <1>0, <1>2 DEF ActivateRetain, ActivateRecord, KnownGood, StoreOk, StoreFails, Fail, Entry
  <2> QED
    BY <2>1, CompletedKept DEF UndoneInv
<1>3. CASE ActivateHide \/ ActivateInstall \/ ActivateRefresh \/ ActivateStart \/ ActivateReady
  <2>1. /\ UNCHANGED <<cmd, remembered>>
        /\ pc \in {"a_install", "a_refresh", "a_start", "a_ready"}
        /\ mem'.completed = mem.completed /\ entry' \in {entry, mem'}
        /\ pc' \in {"a_install", "a_refresh", "a_start", "a_ready", "a_soak", "v_check"}
    BY <1>0, <1>3 DEF ActivateHide, ActivateInstall, ActivateRefresh, ActivateStart, ActivateReady,
       Advance, Revert, CallRecover, StoreOk, StoreFails, Entry
  <2> QED
    BY <2>1, CompletedKept DEF UndoneInv
<1>4. CASE ActivateSoak
  <2>1. Committed.completed = RecordCompleted(mem.completed, cmd.request)
    BY <1>0 DEF Committed, Entry
  <2>2. /\ pc = "a_soak" /\ cmd.request \notin Elements(mem.completed)
        /\ Recalls(mem.completed, remembered) /\ Recalls(entry.completed, remembered)
        /\ mem.completed \in Seq(Ids) /\ entry.completed \in Seq(Ids)
    BY <1>0, <1>4 DEF ActivateSoak, UndoneInv, CompletedInv, Entry
  <2>3. Recalls(Committed.completed, Remembered(cmd.request))
    BY <1>0, <2>1, <2>2, RecordCompletedRecalls
  <2>4. Recalls(Committed.completed, Aged(cmd.request))
    <3>1. \A q \in Requests : Aged(cmd.request)[q] > 0
            => Remembered(cmd.request)[q] = Aged(cmd.request)[q]
      <4> SUFFICES ASSUME NEW q \in Requests, q = cmd.request
                   PROVE  ~(Aged(cmd.request)[q] > 0)
        BY DEF Remembered
      <4>1. remembered[q] = 0 /\ q # None
        BY <1>0, <2>2, ForgottenOnes, NoneAssumption DEF Ids
      <4> QED
        BY <4>1 DEF Aged
    <3> QED
      BY <2>3, <3>1 DEF Recalls
  <2>5. /\ Recalls(mem.completed, Aged(cmd.request))
        /\ Recalls(entry.completed, Aged(cmd.request))
    BY <1>0, <2>2, AgedRecalls
  <2>6. \/ /\ entry' = Committed /\ mem' = Committed /\ pc' = "a_prune"
           /\ remembered' = Remembered(cmd.request)
        \/ /\ entry' \in {entry, Committed} /\ mem' = mem /\ pc' = "v_check"
           /\ remembered' = IF entry' = entry THEN remembered ELSE Aged(cmd.request)
        \/ UNCHANGED <<entry, mem, remembered>> /\ pc' = "v_check"
    BY <1>4 DEF ActivateSoak, Unhealthy, Revert, CallRecover, StoreOk, StoreFails
  <2> HIDE DEF Committed
  <2>7. CompletedInv'
    <3> USE DEF CompletedInv
    <3>1. CASE entry' = entry /\ mem' = mem /\ remembered' = remembered
      BY <2>2, <3>1 DEF Recalls
    <3>2. CASE entry' = Committed /\ mem' = mem /\ remembered' = Aged(cmd.request)
      BY <2>4, <2>5, <3>2 DEF Recalls
    <3>3. CASE entry' = Committed /\ mem' = Committed /\ remembered' = Remembered(cmd.request)
      BY <2>3, <3>3 DEF Recalls
    <3> QED
      BY <2>6, <3>1, <3>2, <3>3
  <2>8. UndoneInv'
    BY <2>6, <1>4 DEF ActivateSoak, UndoneInv, Revert, CallRecover
  <2> QED
    BY <2>7, <2>8
<1>5. CASE ActivatePrune
  <2>1. UNCHANGED <<entry, mem, cmd, remembered>> /\ pc = "a_prune" /\ pc' = "done"
    BY <1>5 DEF ActivatePrune
  <2> QED
    BY <2>1, CompletedKept DEF UndoneInv
<1> QED
  BY <1>1, <1>2, <1>3, <1>4, <1>5 DEF Activate

\* Every step keeps both.
LEMMA NextAnswered ==
  ASSUME TypeInv, CompletedInv, UndoneInv, [Next]_vars
  PROVE  CompletedInv' /\ UndoneInv'
<1> USE DEF disk, history
<1>0. entry \in Entry
  BY DEF TypeInv, TypeOK
<1>1. CASE Reconcile \/ Recover \/ Remove \/ Adopt \/ Stage \/ Gate \/ CommandStore
  BY <1>1, HistoryKept, CompletedKept, UndoneKept
<1>2. CASE Activate
  BY <1>2, ActivateCompletes
<1>3. CASE \E c \in Commands : Start(c)
  <2>1. /\ mem'.completed = entry.completed /\ UNCHANGED <<entry, remembered>> /\ pc' = "r_case"
    BY <1>0, <1>3 DEF Start, Forget, Entry
  <2>2. CompletedInv'
    BY <2>1 DEF CompletedInv, Recalls
  <2>3. UndoneInv'
    BY <2>1 DEF UndoneInv, Undone, ActivateSteps, AdoptSteps
  <2> QED
    BY <2>2, <2>3
<1>4. CASE Finish \/ Kill \/ \E b \in Bases : Reboot(b)
  <2>1. pc' = "idle" /\ UNCHANGED <<entry, remembered>>
    BY <1>4 DEF Finish, Kill, Reboot, Exit
  <2> QED
    BY <2>1 DEF CompletedInv, Recalls, UndoneInv, Undone, ActivateSteps, AdoptSteps
<1>5. CASE UNCHANGED vars
  BY <1>5 DEF vars, agent, CompletedInv, Recalls, UndoneInv, Undone, Elements
<1> QED
  BY <1>1, <1>2, <1>3, <1>4, <1>5 DEF Next, AgentStep

\* Only the step that records a swap puts `activating` on disk.
LEMMA OnlyRecordActivates ==
  ASSUME TypeInv, FallbackInv, SupervisionInv, [Next]_vars,
         entry'.phase = "Activating", entry.phase # "Activating"
  PROVE  ActivateRecord
<1> USE DEF disk, StoreOk, StoreFails
<1>0. entry \in Entry /\ mem \in Entry
  BY DEF TypeInv, TypeOK
<1>1. ~(ReconcileStore \/ CommandStore)
  <2>1. pc \in {"r_store", "c_store"} => mem.phase # "Activating"
    BY DEF SupervisionInv, StoreInv, MayFollow, SameMode, Vanished, WasUndone, WasGivenUp,
       IsUndoing, WasRemoved, WasAdopted, Resting, Transient
  <2>2. Marked(mem).phase \in {mem.phase, "Idle"}
    BY <1>0 DEF Marked, Entry
  <2> QED
    BY <2>1, <2>2 DEF ReconcileStore, CommandStore
<1>2. ~(\/ ReconcileTransient \/ ReconcileRemoving \/ ReconcileStaged \/ ReconcileActive
        \/ ReconcileAtRest \/ ReconcilePrune \/ Gate \/ Finish \/ Kill
        \/ (\E c \in Commands : Start(c))
        \/ (\E b \in Bases : Reboot(b)))
  BY DEF ReconcileTransient, ReconcileRemoving, ReconcileStaged, ReconcileActive, ReconcileAtRest,
     ReconcilePrune, Gate, GateNotRequired, GateTerminal, GateUnhealthy, GateHealthy, GateSoak,
     GateAdopt, Finish, Kill, Start, Reboot
<1>3. ~(Recover \/ Remove)
  BY <1>0 DEF Recover, RecoverRefuse, RecoverBegin, RecoverHide, RecoverInstall, RecoverRefresh,
     RecoverVerify, RecoverPrune, Terminal, Remove, RemoveRecord, RemoveFiles, RemoveRefresh,
     RemovePrune, files, Entry
<1>4. ~(Adopt \/ Stage)
  BY <1>0 DEF Adopt, AdoptCheck, AdoptCopy, AdoptStore, KnownGood, Stage, StageCandidate,
     StageOtherBase, StageRecord, Entry
<1>5. ~(\/ ActivateReplay \/ ActivateUnstaged \/ ActivateCheck \/ ActivateRetain \/ ActivateHide
        \/ ActivateInstall \/ ActivateRefresh \/ ActivateStart \/ ActivateReady \/ ActivateSoak
        \/ ActivatePrune)
  BY <1>0 DEF ActivateReplay, ActivateUnstaged, ActivateCheck, ActivateRetain, ActivateHide,
     ActivateInstall, ActivateRefresh, ActivateStart, ActivateReady, ActivateSoak, ActivatePrune,
     Advance, Committed, Entry
<1>6. ~UNCHANGED vars
  BY DEF vars
<1> QED
  BY <1>1, <1>2, <1>3, <1>4, <1>5, <1>6 DEF Next, AgentStep, Reconcile, Activate

\* "A replayed command cannot invert a rollback that happened in between": a request that
\* was carried out starts no second activation until as many other ids have been recorded
\* as the history holds, those that `stage-extension --activate` makes up for itself
\* included, whatever commands, failures, crashes and reboots come between.
THEOREM RequestsAreAnsweredOnce == Spec => AnsweredOnce
<1>1. Init => CompletedInv /\ UndoneInv
  BY DEF Init, CompletedInv, Recalls, UndoneInv, Undone, ActivateSteps, AdoptSteps
<1>2. TypeInv /\ FallbackInv /\ SupervisionInv /\ CompletedInv /\ UndoneInv /\ [Next]_vars
        => [entry'.phase = "Activating" /\ entry.phase # "Activating"
              /\ cmd.request \in Requests => remembered[cmd.request] = 0]_vars
  <2> SUFFICES ASSUME TypeInv, FallbackInv, SupervisionInv, CompletedInv, UndoneInv, [Next]_vars,
                      entry'.phase = "Activating", entry.phase # "Activating",
                      cmd.request \in Requests
               PROVE  remembered[cmd.request] = 0
    OBVIOUS
  <2>1. pc = "a_record"
    BY OnlyRecordActivates DEF ActivateRecord
  <2>2. Recalls(mem.completed, remembered) /\ cmd.request \notin Elements(mem.completed)
    BY <2>1 DEF CompletedInv, UndoneInv, Undone, ActivateSteps
  <2> QED
    BY <2>2, ForgottenOnes DEF TypeInv
<1> QED
  BY <1>1, <1>2, NextAnswered, SupervisionInductive, PTL DEF Spec, AnsweredOnce
================================================================================
