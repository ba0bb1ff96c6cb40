------------------------- MODULE ExtensionAgentProofs -------------------------
(***************************************************************************)
(* Theorems about ExtensionAgent, for any bases, versions and requests.    *)
(*                                                                         *)
(* TypeOK is not inductive by itself: which fields a command carries, and  *)
(* so what a step reads from it, follows from the step the agent is at.    *)
(* FallbackRetained is not either: it rests on what the agent holds in     *)
(* memory, and on how that relates to the record on disk at the four       *)
(* places that delete rollbacks.                                           *)
(***************************************************************************)
EXTENDS ExtensionAgent, SequenceTheorems, TLAPS

RecoverSteps == {"v_check", "v_install", "v_refresh", "v_verify", "v_prune"}
RemovalSteps == {"x_files", "x_refresh", "x_prune"}
ActivateSteps == {"a_check", "a_retain", "a_record", "a_install", "a_refresh", "a_start",
                  "a_ready", "a_soak", "a_prune"}
AdoptSteps == {"d_check", "d_copy", "d_store"}
StageSteps == {"s_place", "s_record"}

(***************************************************************************)
(* What the step the agent is at says of its command, of where it returns  *)
(* to, and of what is merged.                                              *)
(***************************************************************************)
Carries(c) ==
  /\ c.request \in Ids \cup {None}
  /\ c.op \in {"adopt", "activate", "stage", "install"} => c.version \in Versions
  /\ c.op \in {"stage", "install"} => c.base \in Bases

ControlInv ==
  /\ Carries(cmd)
  /\ pc \in ActivateSteps => cmd.op \in {"activate", "install"}
  /\ pc \in AdoptSteps => cmd.op \in {"adopt", "activate", "install"}
  /\ pc \in StageSteps => cmd.op \in {"stage", "install"}
  /\ pc \in RecoverSteps => ret \in {"r_prune", "c_store", "done"}
  /\ pc \in RemovalSteps => ret \in {"r_prune", "c_store"}
  /\ pc \in AdoptSteps => ret \in {"done", "a_retain"}
  /\ pc \in AdoptSteps /\ ret = "a_retain" => cmd.op \in {"activate", "install"}
  /\ pc \in {"a_check", "s_place", "s_record"} => ret = "done"
  /\ pc \in AdoptSteps \ {"d_check"} /\ cmd.op # "adopt" => merged # None
  /\ pc = "d_check" => cmd.op = "adopt" /\ ret = "done"
  /\ pc = "g_adopt" => merged # None

TypeInv == TypeOK /\ ControlInv

(***************************************************************************)
(* The strengthening of FallbackRetained.                                  *)
(***************************************************************************)
Holds(r, e) ==
  e.knownGood # None => e.kgBase # None /\ r[e.kgBase][e.knownGood] # None

\* A known-good version is recorded only beside an active one, under some base.
Paired(e) == e.knownGood # None => e.active # None /\ e.kgBase # None

\* Outside a removal both copies of the record can be recovered from.
HoldsInv ==
  /\ Paired(entry) /\ Paired(mem)
  /\ entry.phase # "Removing" => Holds(rollback, entry)
  /\ mem.phase # "Removing" => Holds(rollback, mem)

\* Where a removal may be in progress.
RemovingInv ==
  /\ pc \in RemovalSteps => entry.phase = "Removing" /\ mem.phase = "Removing"
  /\ pc \in {"r_prune", "r_store"} /\ verdict = "ok" => mem.phase # "Removing"
  /\ pc \in RecoverSteps \cup ActivateSteps \cup AdoptSteps \cup StageSteps
             \cup {"g_verify", "g_adopt", "c_store", "x_record"}
        => mem.phase # "Removing"

\* While the record is reconciled, only what it said at the start is known-good.
Unresolved ==
  \/ pc \in {"r_case", "r_prune"}
  \/ pc \in RecoverSteps \cup RemovalSteps /\ ret = "r_prune"

ReconcileInv ==
  /\ pc = "r_case" => mem = Forget(entry) /\ snap = mem
  /\ Unresolved => /\ entry.knownGood # None => entry.knownGood = snap.knownGood
                   /\ mem.knownGood # None => mem.knownGood = snap.knownGood

\* What each later pruning keeps is what the record names.
PruneInv ==
  /\ pc \in {"v_prune", "a_prune"} => entry = mem
  /\ pc = "a_record" => snap = mem
  /\ pc \in {"a_install", "a_refresh", "a_start", "a_ready", "a_soak", "a_prune"}
       /\ mem.knownGood # None => mem.knownGood = snap.active

\* What is about to be recorded as known-good has been retained.
RetainInv ==
  /\ pc = "d_copy" => ActiveImage # None
  /\ pc = "d_store" => rollback[running][AdoptedVersion] # None
  /\ pc = "a_record" /\ mem.active # None => rollback[running][mem.active] # None

\* A step that replaces the active image has its phase on disk.
PhaseInv ==
  /\ pc = "v_install" => entry.phase = "Reverting"
  /\ pc = "a_install" => entry.phase = "Activating"

FallbackInv ==
  HoldsInv /\ RemovingInv /\ ReconcileInv /\ PruneInv /\ RetainInv /\ PhaseInv

-------------------------------------------------------------------------------
(***************************************************************************)
(* Type correctness.                                                       *)
(***************************************************************************)
\* Every command a caller can give carries what its steps will read.
LEMMA CommandsCarry == \A c \in Commands \cup {NoCmd} : Carries(c)
  BY OpsAssumption DEF Commands, NoCmd, Cmd, Carries, Ids

\* The step a command begins with, for each of them.
LEMMA FirstSteps ==
  ASSUME NEW op
  PROVE  /\ FirstStep(op) \in {"g_verify", "a_check", "s_place", "d_check", "v_check",
                               "x_record", "c_store"}
         /\ FirstStep(op) = "a_check" => op = "activate"
         /\ FirstStep(op) = "s_place" => op \in {"stage", "install"}
         /\ FirstStep(op) = "d_check" => op = "adopt"
         /\ FirstStep(op) = "v_check" => op = "rollback"
  BY DEF FirstStep

\* What the files helpers return are images.
LEMMA FilesTyped ==
  ASSUME TypeOK
  PROVE  /\ ActiveImage \in Image \cup {None}
         /\ \A b \in Bases : MergeChoice(b, scoped, legacy) \subseteq Image \cup {None}
         /\ \A v \in Versions \cup {None} : Kept(v) \in [Versions -> Image \cup {None}]
         /\ \A v \in Versions \cup {None} :
              LeftRollbacks(v) \subseteq [Versions -> Image \cup {None}]
         /\ \A K : LeftCandidates(K) \subseteq SUBSET Versions
         /\ Fallback \in Image \cup {None}
         /\ merged # None => merged.version \in Versions
<1>1. ActiveImage \in Image \cup {None}
  BY DEF TypeOK, ActiveImage
<1>2. \A b \in Bases : MergeChoice(b, scoped, legacy) \subseteq Image \cup {None}
  BY DEF TypeOK, MergeChoice
<1>3. \A v \in Versions \cup {None} : Kept(v) \in [Versions -> Image \cup {None}]
  BY DEF TypeOK, Kept
<1>4. \A v \in Versions \cup {None} :
        LeftRollbacks(v) \subseteq [Versions -> Image \cup {None}]
  BY <1>3 DEF TypeOK, LeftRollbacks
<1>5. \A K : LeftCandidates(K) \subseteq SUBSET Versions
  BY DEF TypeOK, LeftCandidates
<1>6. Fallback \in Image \cup {None}
  BY DEF TypeOK, Fallback, Entry
<1>7. merged # None => merged.version \in Versions
  BY DEF TypeOK, Image
<1> QED
  BY <1>1, <1>2, <1>3, <1>4, <1>5, <1>6, <1>7

\* Forgetting a stale refusal leaves a record.
LEMMA ForgetTyped ==
  ASSUME NEW e \in Entry
  PROVE  Forget(e) \in Entry
<1>1. [e EXCEPT !.phase = "Idle", !.terminalOs = None] \in Entry
  BY DEF Entry, Phase
<1> QED
  BY <1>1 DEF Forget

\* The history of completed requests stays a sequence of them.
LEMMA RecordCompletedTyped ==
  ASSUME NEW s \in Seq(Ids), NEW id \in Ids \cup {None}
  PROVE  RecordCompleted(s, id) \in Seq(Ids)
<1>1. CASE id = None \/ id \in Elements(s)
  BY <1>1 DEF RecordCompleted
<1>2. CASE ~(id = None \/ id \in Elements(s))
  <2> DEFINE t == Append(s, id)
  <2>1. t \in Seq(Ids) /\ Len(t) \in Nat
    BY <1>2
  <2>2. Len(t) > History => SubSeq(t, Len(t) - History + 1, Len(t)) \in Seq(Ids)
    BY <2>1, HistoryAssumption, SubSeqProperties
  <2> QED
    BY <1>2, <2>1, <2>2 DEF RecordCompleted
<1> QED
  BY <1>1, <1>2

\* The program starts in a well-typed state.
LEMMA InitTyped == Init => TypeInv
<1> SUFFICES ASSUME Init PROVE TypeInv
  OBVIOUS
<1>1. AbsentEntry \in Entry
  BY DEF AbsentEntry, Entry, Phase
<1>2. merged \in Image \cup {None}
  BY DEF Init, MergeChoice
<1>3. TypeOK
  BY <1>1, <1>2, HistoryAssumption DEF Init, TypeOK, Steps
<1>4. ControlInv
  BY CommandsCarry DEF Init, ControlInv, ActivateSteps, AdoptSteps, StageSteps,
     RecoverSteps, RemovalSteps
<1> QED
  BY <1>3, <1>4 DEF TypeInv

\* Emptying a record, and moving it to another phase, leaves a record.
LEMMA ClearedTyped ==
  ASSUME NEW e \in Entry
  PROVE  Cleared(e) \in Entry
  BY DEF Cleared, Entry

\* Moving a record to another phase leaves a record.
LEMMA PhaseTyped ==
  ASSUME NEW e \in Entry, NEW p \in Phase
  PROVE  [e EXCEPT !.phase = p] \in Entry
  BY DEF Entry

\* What a successful or failing store leaves on disk.
LEMMA StoreTyped ==
  ASSUME entry \in Entry, NEW m \in Entry, StoreOk(m) \/ StoreFails(m)
  PROVE  entry' \in Entry
  BY DEF StoreOk, StoreFails

\* What a pruning leaves of the running base's rollbacks and candidates.
LEMMA PruneTyped ==
  ASSUME TypeOK
  PROVE  /\ \A f \in [Versions -> Image \cup {None}] :
              SetRollbacks(f) => rollback' \in [Bases -> [Versions -> Image \cup {None}]]
         /\ \A C \in SUBSET Versions :
              SetCandidates(C) => candidates' \in [Bases -> SUBSET Versions]
  BY DEF TypeOK, SetRollbacks, SetCandidates

\* Reconciliation keeps the types.
LEMMA ReconcileTyped ==
  ASSUME TypeInv, Reconcile
  PROVE  TypeInv'
<1> USE DEF TypeInv, disk, files, system, agent, history
<1> USE DEF RecoverSteps, RemovalSteps, ActivateSteps, AdoptSteps, StageSteps, Carries
<1>1. CASE ReconcileTransient
  BY <1>1 DEF ReconcileTransient, CallRecover, TypeOK, ControlInv, Steps
<1>2. CASE ReconcileRemoving
  BY <1>2 DEF ReconcileRemoving, TypeOK, ControlInv, Steps
<1>3. CASE ReconcileStaged
  <2>1. mem' \in Entry
    <3> DEFINE phase == IF ActiveImage # None THEN "Active" ELSE "Idle"
               m == [mem EXCEPT !.candidate = None, !.phase = phase]
    <3>1. m \in Entry
      <4>1. phase \in Phase
        BY DEF Phase
      <4> HIDE DEF phase
      <4> QED
        BY <4>1 DEF TypeOK, Entry
    <3>2. mem' \in {mem, m, Cleared(m)}
      BY <1>3 DEF ReconcileStaged
    <3> QED
      BY <3>1, <3>2, ClearedTyped DEF TypeOK
  <2> QED
    BY <1>3, <2>1 DEF ReconcileStaged, TypeOK, ControlInv, Steps
<1>4. CASE ReconcileActive
  <2>1. mem' \in Entry
    <3>1. [Cleared(mem) EXCEPT !.phase = "Idle"] \in Entry
      BY ClearedTyped, PhaseTyped DEF TypeOK, Phase
    <3> QED
      BY <1>4, <3>1 DEF ReconcileActive, TypeOK
  <2> QED
    BY <1>4, <2>1 DEF ReconcileActive, CallRecover, TypeOK, ControlInv, Steps
<1>5. CASE ReconcileAtRest
  <2>1. mem' \in Entry
    BY <1>5, ClearedTyped DEF ReconcileAtRest, TypeOK
  <2> QED
    BY <1>5, <2>1 DEF ReconcileAtRest, TypeOK, ControlInv, Steps
<1>6. CASE ReconcilePrune
  <2>1. rollback' \in [Bases -> [Versions -> Image \cup {None}]]
    <3>1. snap.knownGood \in Versions \cup {None}
      BY DEF TypeOK, Entry
    <3> QED
      BY <1>6, <3>1, FilesTyped, PruneTyped DEF ReconcilePrune, TypeOK
  <2>2. candidates' \in [Bases -> SUBSET Versions]
    <3>1. candidates[running] \in SUBSET Versions
      BY DEF TypeOK
    <3> QED
      BY <1>6, <3>1, FilesTyped, PruneTyped DEF ReconcilePrune
  <2> QED
    BY <1>6, <2>1, <2>2 DEF ReconcilePrune, TypeOK, ControlInv, Steps
<1>7. CASE ReconcileStore
  <2>1. entry' \in Entry
    BY <1>7, StoreTyped DEF ReconcileStore, TypeOK
  <2>2. pc' \in Steps /\ ret' \in Steps /\ verdict' \in {"ok", "fail"}
    BY <1>7, FirstSteps DEF ReconcileStore, TypeOK, Steps
  <2>3. ControlInv'
    BY <1>7, FirstSteps DEF ReconcileStore, ControlInv
  <2> QED
    BY <1>7, <2>1, <2>2, <2>3 DEF ReconcileStore, TypeOK
<1> QED
  BY <1>1, <1>2, <1>3, <1>4, <1>5, <1>6, <1>7 DEF Reconcile

\* Giving up leaves a record.
LEMMA TerminalTyped ==
  ASSUME TypeOK, Terminal
  PROVE  mem' \in Entry /\ entry' \in Entry
<1>1. mem' \in Entry
  BY DEF Terminal, TypeOK, Entry, Phase
<1> QED
  BY <1>1, StoreTyped DEF Terminal, TypeOK

\* A refresh, and a publication, leave an image or none.
LEMMA RefreshTyped ==
  ASSUME TypeOK, RefreshOk \/ RefreshFails
  PROVE  merged' \in Image \cup {None}
<1>1. MergeChoice(running, scoped, legacy) \subseteq Image \cup {None}
  BY FilesTyped DEF TypeOK
<1> QED
  BY <1>1 DEF RefreshOk, RefreshFails, TypeOK

\* Publishing an image, or failing to, leaves images.
LEMMA PublishTyped ==
  ASSUME TypeOK, NEW i \in Image \cup {None},
         \/ PublishActive(i) /\ UNCHANGED legacy
         \/ InstallFails(i)
  PROVE  scoped' \in [Bases -> Image \cup {None}] /\ legacy' \in Image \cup {None}
  BY DEF TypeOK, PublishActive, InstallFails

\* A health check that passes saw an image.
LEMMA HealthyTyped ==
  ASSUME TypeOK, Healthy \/ Unhealthy
  PROVE  /\ proven' \subseteq Image /\ remembered' \in [Requests -> 0..History]
         /\ Healthy => merged # None
  BY DEF TypeOK, Healthy, Sound, Unhealthy, HasRuleset, history

\* A soak that is survived saw an image.
LEMMA SoundTyped ==
  ASSUME TypeOK, Sound
  PROVE  proven' \subseteq Image
  BY DEF TypeOK, Sound, HasRuleset

\* How long each request is remembered stays within the history.
LEMMA RememberedTyped ==
  ASSUME TypeOK, NEW id
  PROVE  /\ Aged(id) \in [Requests -> 0..History]
         /\ Remembered(id) \in [Requests -> 0..History]
<1>1. Aged(id) \in [Requests -> 0..History]
  BY HistoryAssumption DEF TypeOK, Aged
<1> QED
  BY <1>1, HistoryAssumption DEF Remembered

\* Recovery keeps the types.
LEMMA RecoverTyped ==
  ASSUME TypeInv, Recover
  PROVE  TypeInv'
<1> USE DEF TypeInv, disk, files, system, agent, history
<1> USE DEF RecoverSteps, RemovalSteps, ActivateSteps, AdoptSteps, StageSteps, Carries
<1>1. CASE RecoverRefuse
  <2>1. mem' \in Entry /\ entry' \in Entry
    BY <1>1, TerminalTyped DEF RecoverRefuse
  <2> QED
    BY <1>1, <2>1 DEF RecoverRefuse, Terminal, TypeOK, ControlInv
<1>2. CASE RecoverBegin
  <2>1. mem' \in Entry
    BY <1>2, PhaseTyped DEF RecoverBegin, TypeOK, Phase, Transient
  <2>2. entry' \in Entry
    BY <1>2, <2>1, StoreTyped DEF RecoverBegin, TypeOK
  <2> QED
    BY <1>2, <2>1, <2>2 DEF RecoverBegin, TypeOK, ControlInv, Steps
<1>3. CASE RecoverHide
  BY <1>3 DEF RecoverHide, HideLegacy, TypeOK, ControlInv
<1>4. CASE RecoverInstall
  <2>1. scoped' \in [Bases -> Image \cup {None}] /\ legacy' \in Image \cup {None}
    BY <1>4, FilesTyped, PublishTyped DEF RecoverInstall
  <2>2. mem' \in Entry /\ entry' \in Entry
    BY <1>4, TerminalTyped DEF RecoverInstall, TypeOK
  <2> QED
    BY <1>4, <2>1, <2>2 DEF RecoverInstall, Terminal, TypeOK, ControlInv, Steps
<1>5. CASE RecoverRefresh
  <2>1. merged' \in Image \cup {None}
    BY <1>5, RefreshTyped DEF RecoverRefresh
  <2>2. mem' \in Entry /\ entry' \in Entry
    BY <1>5, TerminalTyped DEF RecoverRefresh, TypeOK
  <2> QED
    BY <1>5, <2>1, <2>2 DEF RecoverRefresh, Terminal, TypeOK, ControlInv, Steps
<1>6. CASE RecoverVerify
  <2>1. mem' \in Entry /\ entry' \in Entry
    <3>1. CASE Terminal
      BY <3>1, TerminalTyped
    <3>2. CASE ~Terminal
      <4>1. mem' \in Entry
        BY <1>6, <3>2 DEF RecoverVerify, TypeOK, Entry, Phase
      <4> QED
        BY <1>6, <3>2, <4>1, StoreTyped DEF RecoverVerify, TypeOK
    <3> QED
      BY <3>1, <3>2
  <2>2. proven' \subseteq Image /\ remembered' \in [Requests -> 0..History]
    BY <1>6, HealthyTyped DEF RecoverVerify
  <2> QED
    BY <1>6, <2>1, <2>2 DEF RecoverVerify, Terminal, TypeOK, ControlInv, Steps
<1>7. CASE RecoverPrune
  <2>1. rollback' \in [Bases -> [Versions -> Image \cup {None}]]
    <3>1. mem.knownGood \in Versions \cup {None}
      BY DEF TypeOK, Entry
    <3> QED
      BY <1>7, <3>1, FilesTyped, PruneTyped DEF RecoverPrune
  <2>2. candidates' \in [Bases -> SUBSET Versions]
    BY <1>7, FilesTyped, PruneTyped DEF RecoverPrune
  <2> QED
    BY <1>7, <2>1, <2>2 DEF RecoverPrune, TypeOK, ControlInv
<1> QED
  BY <1>1, <1>2, <1>3, <1>4, <1>5, <1>6, <1>7 DEF Recover

\* Removal keeps the types.
LEMMA RemoveTyped ==
  ASSUME TypeInv, Remove
  PROVE  TypeInv'
<1> USE DEF TypeInv, disk, files, system, agent, history
<1> USE DEF RecoverSteps, RemovalSteps, ActivateSteps, AdoptSteps, StageSteps, Carries
<1>1. CASE RemoveRecord
  <2>1. mem' \in Entry
    BY <1>1 DEF RemoveRecord, TypeOK, Entry, Phase
  <2>2. entry' \in Entry
    BY <1>1, <2>1, StoreTyped DEF RemoveRecord, TypeOK
  <2> QED
    BY <1>1, <2>1, <2>2 DEF RemoveRecord, TypeOK, ControlInv, Steps
<1>2. CASE RemoveFiles
  BY <1>2 DEF RemoveFiles, RemovalFails, TypeOK, ControlInv, Steps
<1>3. CASE RemoveRefresh
  <2>1. merged' \in Image \cup {None}
    BY <1>3, RefreshTyped DEF RemoveRefresh
  <2> QED
    BY <1>3, <2>1 DEF RemoveRefresh, RemovalFails, TypeOK, ControlInv, Steps
<1>4. CASE RemovePrune
  <2>1. mem' \in Entry
    <3>1. [Cleared(mem) EXCEPT !.phase = "Idle"] \in Entry
      BY ClearedTyped, PhaseTyped DEF TypeOK, Phase
    <3> QED
      BY <1>4, <3>1 DEF RemovePrune, TypeOK
  <2>2. rollback' \in [Bases -> [Versions -> Image \cup {None}]]
    BY <1>4, FilesTyped, PruneTyped DEF RemovePrune, TypeOK
  <2>3. candidates' \in [Bases -> SUBSET Versions]
    BY <1>4, FilesTyped, PruneTyped DEF RemovePrune
  <2> QED
    BY <1>4, <2>1, <2>2, <2>3 DEF RemovePrune, RemovalFails, TypeOK, ControlInv, Steps
<1> QED
  BY <1>1, <1>2, <1>3, <1>4 DEF Remove

\* Adoption keeps the types.
LEMMA AdoptTyped ==
  ASSUME TypeInv, Adopt
  PROVE  TypeInv'
<1> USE DEF TypeInv, disk, files, system, agent, history
<1> USE DEF RecoverSteps, RemovalSteps, ActivateSteps, AdoptSteps, StageSteps, Carries
<1>1. CASE AdoptCheck
  <2>1. /\ proven' \subseteq Image /\ remembered' \in [Requests -> 0..History]
        /\ pc' = "d_copy" => merged # None
    BY <1>1, HealthyTyped DEF AdoptCheck, Fail
  <2> QED
    BY <1>1, <2>1 DEF AdoptCheck, Fail, TypeOK, ControlInv, Steps
<1>2. CASE AdoptCopy
  <2>1. AdoptedVersion \in Versions /\ ActiveImage \in Image \cup {None}
    BY <1>2, FilesTyped DEF AdoptCopy, AdoptedVersion, ControlInv
  <2>2. rollback' \in [Bases -> [Versions -> Image \cup {None}]]
    <3> DEFINE copied == [rollback EXCEPT ![running][AdoptedVersion] = ActiveImage]
    <3>1. copied \in [Bases -> [Versions -> Image \cup {None}]]
      BY <2>1 DEF TypeOK
    <3>2. rollback' \in {rollback, copied}
      BY <1>2 DEF AdoptCopy
    <3> QED
      BY <3>1, <3>2 DEF TypeOK
  <2> QED
    BY <1>2, <2>2 DEF AdoptCopy, Fail, TypeOK, ControlInv, Steps
<1>3. CASE AdoptStore
  <2>1. AdoptedVersion \in Versions
    BY <1>3, FilesTyped DEF AdoptStore, AdoptedVersion, ControlInv
  <2>2. mem' \in Entry
    BY <1>3, <2>1 DEF AdoptStore, KnownGood, TypeOK, Entry, Phase
  <2>3. entry' \in Entry
    BY <1>3, <2>2, StoreTyped DEF AdoptStore, TypeOK
  <2> QED
    BY <1>3, <2>2, <2>3 DEF AdoptStore, Fail, TypeOK, ControlInv, Steps
<1> QED
  BY <1>1, <1>2, <1>3 DEF Adopt

\* Recording a phase leaves a record.
LEMMA AdvanceTyped ==
  ASSUME TypeOK, NEW p \in {"Starting", "Soaking"}, NEW step, Advance(p, step)
  PROVE  mem' \in Entry /\ entry' \in Entry
<1>1. mem' \in Entry
  BY PhaseTyped DEF Advance, TypeOK, Phase, Transient
<1> QED
  BY <1>1, StoreTyped DEF Advance, TypeOK

\* Activation keeps the types.
LEMMA ActivateTyped ==
  ASSUME TypeInv, Activate
  PROVE  TypeInv'
<1> USE DEF TypeInv, disk, files, system, agent, history
<1> USE DEF RecoverSteps, RemovalSteps, ActivateSteps, AdoptSteps, StageSteps, Carries
<1>1. CASE ActivateReplay
  BY <1>1 DEF ActivateReplay, TypeOK, ControlInv, Steps
<1>2. CASE ActivateUnstaged
  BY <1>2 DEF ActivateUnstaged, Fail, TypeOK, ControlInv, Steps
<1>3. CASE ActivateCheck
  <2>1. proven' \subseteq Image /\ remembered' \in [Requests -> 0..History]
    BY <1>3, HealthyTyped DEF ActivateCheck, TypeOK
  <2> QED
    BY <1>3, <2>1 DEF ActivateCheck, HasRuleset, Fail, TypeOK, ControlInv, Steps
<1>4. CASE ActivateRetain
  <2>1. rollback' \in [Bases -> [Versions -> Image \cup {None}]]
    <3>1. mem.active \in Versions \cup {None} /\ ActiveImage \in Image \cup {None}
      BY FilesTyped DEF TypeOK, Entry
    <3> QED
      <4> DEFINE kept == [rollback EXCEPT ![running][mem.active] = ActiveImage]
      <4>1. mem.active # None => kept \in [Bases -> [Versions -> Image \cup {None}]]
        BY <3>1 DEF TypeOK
      <4>2. rollback' = rollback \/ (mem.active # None /\ rollback' = kept)
        BY <1>4 DEF ActivateRetain
      <4> QED
        BY <4>1, <4>2 DEF TypeOK
  <2> QED
    BY <1>4, <2>1 DEF ActivateRetain, Fail, TypeOK, ControlInv, Steps
<1>5. CASE ActivateRecord
  <2>1. mem' \in Entry
    <3> DEFINE m == [mem EXCEPT !.present = TRUE, !.candidate = cmd.version,
                                !.phase = "Activating"]
    <3>1. m \in Entry
      BY <1>5 DEF ActivateRecord, TypeOK, ControlInv, Entry, Phase, Transient
    <3>2. mem.active \in Versions \cup {None} /\ running \in Bases
      BY DEF TypeOK, Entry
    <3>3. mem.active # None => KnownGood(m, mem.active) \in Entry
      BY <3>1, <3>2 DEF KnownGood, Entry
    <3>4. mem' \in {m, KnownGood(m, mem.active)} /\ (mem.active = None => mem' = m)
      BY <1>5 DEF ActivateRecord
    <3> QED
      BY <3>1, <3>3, <3>4
  <2>2. entry' \in Entry
    BY <1>5, <2>1, StoreTyped DEF ActivateRecord, TypeOK
  <2> QED
    BY <1>5, <2>1, <2>2 DEF ActivateRecord, Fail, TypeOK, ControlInv, Steps
<1>6. CASE ActivateHide
  BY <1>6 DEF ActivateHide, HideLegacy, TypeOK, ControlInv
<1>7. CASE ActivateInstall
  <2>1. Candidate \in Image
    BY <1>7 DEF ActivateInstall, Candidate, Image, TypeOK, ControlInv
  <2>2. scoped' \in [Bases -> Image \cup {None}] /\ legacy' \in Image \cup {None}
    BY <1>7, <2>1, PublishTyped DEF ActivateInstall
  <2> QED
    BY <1>7, <2>2 DEF ActivateInstall, Revert, CallRecover, TypeOK, ControlInv, Steps
<1>8. CASE ActivateRefresh
  <2>1. merged' \in Image \cup {None}
    BY <1>8, RefreshTyped DEF ActivateRefresh
  <2> QED
    BY <1>8, <2>1 DEF ActivateRefresh, Revert, CallRecover, TypeOK, ControlInv, Steps
<1>9. CASE ActivateStart
  <2>1. mem' \in Entry /\ entry' \in Entry
    BY <1>9, AdvanceTyped DEF ActivateStart, TypeOK
  <2> QED
    BY <1>9, <2>1 DEF ActivateStart, Advance, Revert, CallRecover, TypeOK,
       ControlInv, Steps
<1>10. CASE ActivateReady
  <2>1. mem' \in Entry /\ entry' \in Entry
    BY <1>10, AdvanceTyped DEF ActivateReady, TypeOK
  <2> QED
    BY <1>10, <2>1 DEF ActivateReady, Advance, Revert, CallRecover, TypeOK,
       ControlInv, Steps
<1>11. CASE ActivateSoak
  <2>1. Committed \in Entry
    <3>1. mem.completed \in Seq(Ids)
      BY DEF TypeOK, Entry
    <3>2. RecordCompleted(mem.completed, cmd.request) \in Seq(Ids)
      BY <3>1, RecordCompletedTyped DEF ControlInv
    <3> QED
      BY <1>11, <3>2 DEF ActivateSoak, Committed, TypeOK, ControlInv, Entry, Phase
  <2>2. mem' \in Entry /\ entry' \in Entry
    BY <1>11, <2>1, StoreTyped DEF ActivateSoak, TypeOK
  <2>3. proven' \subseteq Image
    BY <1>11, SoundTyped DEF ActivateSoak, Unhealthy, TypeOK
  <2>4. remembered' \in [Requests -> 0..History]
    BY <1>11, RememberedTyped DEF ActivateSoak, Unhealthy, TypeOK
  <2> QED
    BY <1>11, <2>2, <2>3, <2>4 DEF ActivateSoak, Revert, CallRecover, TypeOK, ControlInv, Steps
<1>12. CASE ActivatePrune
  <2>1. rollback' \in [Bases -> [Versions -> Image \cup {None}]]
    <3>1. snap.active \in Versions \cup {None}
      BY DEF TypeOK, Entry
    <3> QED
      BY <1>12, <3>1, FilesTyped, PruneTyped DEF ActivatePrune
  <2>2. candidates' \in [Bases -> SUBSET Versions]
    BY <1>12, FilesTyped, PruneTyped DEF ActivatePrune
  <2> QED
    BY <1>12, <2>1, <2>2 DEF ActivatePrune, TypeOK, ControlInv, Steps
<1> QED
  BY <1>1, <1>2, <1>3, <1>4, <1>5, <1>6, <1>7, <1>8, <1>9, <1>10, <1>11, <1>12
  DEF Activate

\* Staging keeps the types.
LEMMA StageTyped ==
  ASSUME TypeInv, Stage
  PROVE  TypeInv'
<1> USE DEF TypeInv, disk, files, system, agent, history
<1> USE DEF RecoverSteps, RemovalSteps, ActivateSteps, AdoptSteps, StageSteps, Carries
<1>1. CASE StageCandidate
  <2>1. cmd.version \in Versions
    BY <1>1 DEF StageCandidate, ControlInv
  <2>2. candidates' \in [Bases -> SUBSET Versions]
    BY <1>1, <2>1, FilesTyped, PruneTyped DEF StageCandidate, TypeOK
  <2> QED
    BY <1>1, <2>2 DEF StageCandidate, Fail, TypeOK, ControlInv, Steps
<1>2. CASE StageOtherBase
  <2>1. [base |-> cmd.base, version |-> cmd.version] \in Image /\ cmd.base \in Bases
    BY <1>2 DEF StageOtherBase, ControlInv, Image
  <2>2. scoped' \in [Bases -> Image \cup {None}]
    BY <1>2, <2>1 DEF StageOtherBase, TypeOK
  <2> QED
    BY <1>2, <2>2 DEF StageOtherBase, Fail, TypeOK, ControlInv, Steps
<1>3. CASE StageRecord
  <2>1. mem' \in Entry
    BY <1>3 DEF StageRecord, TypeOK, ControlInv, Entry, Phase
  <2>2. entry' \in Entry
    BY <1>3, <2>1, StoreTyped DEF StageRecord, TypeOK
  <2>3. candidates' \in [Bases -> SUBSET Versions]
    BY <1>3, PruneTyped DEF StageRecord, TypeOK
  <2> QED
    BY <1>3, <2>1, <2>2, <2>3 DEF StageRecord, Fail, TypeOK, ControlInv, Steps
<1> QED
  BY <1>1, <1>2, <1>3 DEF Stage

\* The health gate keeps the types.
LEMMA GateTyped ==
  ASSUME TypeInv, Gate
  PROVE  TypeInv'
<1> USE DEF TypeInv, disk, files, system, agent, history
<1> USE DEF RecoverSteps, RemovalSteps, ActivateSteps, AdoptSteps, StageSteps, Carries
<1>1. CASE GateNotRequired
  BY <1>1 DEF GateNotRequired, TypeOK, ControlInv, Steps
<1>2. CASE GateTerminal
  BY <1>2 DEF GateTerminal, Fail, TypeOK, ControlInv, Steps
<1>3. CASE GateUnhealthy
  BY <1>3 DEF GateUnhealthy, CallRecover, TypeOK, ControlInv, Steps
<1>4. CASE GateHealthy
  <2>1. proven' \subseteq Image /\ remembered' \in [Requests -> 0..History]
    BY <1>4, HealthyTyped DEF GateHealthy
  <2>2. mem' \in Entry
    BY <1>4 DEF GateHealthy, Verified, TypeOK, Entry, Phase
  <2> QED
    BY <1>4, <2>1, <2>2 DEF GateHealthy, TypeOK, ControlInv, Steps
<1>5. CASE GateSoak
  <2>1. proven' \subseteq Image /\ remembered' \in [Requests -> 0..History] /\ merged # None
    BY <1>5, HealthyTyped DEF GateSoak
  <2> QED
    BY <1>5, <2>1 DEF GateSoak, Fail, TypeOK, ControlInv, Steps
<1>6. CASE GateAdopt
  <2>1. merged.version \in Versions /\ ActiveImage \in Image \cup {None}
    BY <1>6, FilesTyped DEF GateAdopt, ControlInv
  <2>2. rollback' \in [Bases -> [Versions -> Image \cup {None}]]
    <3> DEFINE copied == [rollback EXCEPT ![running][merged.version] = ActiveImage]
    <3>1. copied \in [Bases -> [Versions -> Image \cup {None}]]
      BY <2>1 DEF TypeOK
    <3>2. rollback' \in {rollback, copied}
      BY <1>6 DEF GateAdopt
    <3> QED
      BY <3>1, <3>2 DEF TypeOK
  <2>3. mem' \in Entry
    <3>1. Verified([KnownGood(mem, merged.version) EXCEPT
                      !.active = merged.version, !.candidate = None]) \in Entry
      BY <2>1 DEF Verified, KnownGood, TypeOK, Entry, Phase
    <3> QED
      BY <1>6, <3>1 DEF GateAdopt, TypeOK
  <2> QED
    BY <1>6, <2>2, <2>3 DEF GateAdopt, TypeOK, ControlInv, Steps
<1> QED
  BY <1>1, <1>2, <1>3, <1>4, <1>5, <1>6 DEF Gate

\* Marking an extension, and resetting it, leaves a record.
LEMMA MarkedTyped ==
  ASSUME NEW e \in Entry
  PROVE  /\ [e EXCEPT !.present = TRUE, !.required = TRUE] \in Entry
         /\ [e EXCEPT !.present = TRUE, !.required = FALSE] \in Entry
         /\ [e EXCEPT !.present = TRUE, !.phase = "Idle"] \in Entry
<1>1. [e EXCEPT !.present = TRUE, !.required = TRUE] \in Entry
  BY DEF Entry
<1>2. [e EXCEPT !.present = TRUE, !.required = FALSE] \in Entry
  BY DEF Entry
<1>3. [e EXCEPT !.present = TRUE, !.phase = "Idle"] \in Entry
  BY DEF Entry, Phase
<1> QED
  BY <1>1, <1>2, <1>3

\* The closing store, the exit, a kill, a reboot and a new command keep the types.
LEMMA OtherTyped ==
  ASSUME TypeInv,
         \/ CommandStore \/ Finish \/ Kill
         \/ \E c \in Commands : Start(c)
         \/ \E b \in Bases : Reboot(b)
  PROVE  TypeInv'
<1> USE DEF TypeInv, disk, files, system, agent, history
<1> USE DEF RecoverSteps, RemovalSteps, ActivateSteps, AdoptSteps, StageSteps
<1>0. AbsentEntry \in Entry
  BY DEF AbsentEntry, Entry, Phase
<1>1. CASE CommandStore
  <2>1. mem' \in Entry
    <3>1. /\ [mem EXCEPT !.present = TRUE, !.required = TRUE] \in Entry
          /\ [mem EXCEPT !.present = TRUE, !.required = FALSE] \in Entry
          /\ [mem EXCEPT !.present = TRUE, !.phase = "Idle"] \in Entry
      BY MarkedTyped DEF TypeOK
    <3>2. Marked(mem) \in {mem, [mem EXCEPT !.present = TRUE, !.required = TRUE],
                            [mem EXCEPT !.present = TRUE, !.required = FALSE],
                            [mem EXCEPT !.present = TRUE, !.phase = "Idle"]}
      BY DEF Marked
    <3> QED
      BY <1>1, <3>1, <3>2 DEF CommandStore, TypeOK
  <2>2. entry' \in Entry
    BY <1>1, <2>1, StoreTyped DEF CommandStore, TypeOK
  <2> QED
    BY <1>1, <2>1, <2>2 DEF CommandStore, Fail, Carries, TypeOK, ControlInv, Steps
<1>2. CASE Finish
  <2>1. remembered' \in [Requests -> 0..History]
    BY <1>2 DEF Finish, TypeOK, ControlInv, Carries
  <2>2. Carries(NoCmd)
    BY CommandsCarry
  <2> QED
    BY <1>0, <1>2, <2>1, <2>2 DEF Finish, Exit, Carries, TypeOK, ControlInv, Steps
<1>3. CASE Kill
  <2>1. merged' \in Image \cup {None}
    BY <1>3, FilesTyped DEF Kill, TypeOK
  <2>2. Carries(NoCmd)
    BY CommandsCarry
  <2> QED
    BY <1>0, <1>3, <2>1, <2>2 DEF Kill, Exit, Carries, TypeOK, ControlInv, Steps
<1>4. CASE \E c \in Commands : Start(c)
  <2> PICK c \in Commands : Start(c)
    BY <1>4
  <2>1. Forget(entry) \in Entry
    BY ForgetTyped DEF TypeOK
  <2>2. Carries(c)
    BY CommandsCarry
  <2> QED
    BY <2>1, <2>2 DEF Start, Carries, TypeOK, ControlInv, Steps
<1>5. CASE \E b \in Bases : Reboot(b)
  <2> PICK b \in Bases : Reboot(b)
    BY <1>5
  <2>1. merged' \in Image \cup {None}
    BY FilesTyped DEF Reboot
  <2>2. Carries(NoCmd)
    BY CommandsCarry
  <2> QED
    BY <1>0, <2>1, <2>2 DEF Reboot, Exit, Carries, TypeOK, ControlInv, Steps
<1> QED
  BY <1>1, <1>2, <1>3, <1>4, <1>5

\* Every step keeps the types.
LEMMA NextTyped ==
  ASSUME TypeInv, [Next]_vars
  PROVE  TypeInv'
<1>1. CASE Next
  BY <1>1, ReconcileTyped, RecoverTyped, RemoveTyped, AdoptTyped, ActivateTyped,
     StageTyped, GateTyped, OtherTyped DEF Next, AgentStep
<1>2. CASE UNCHANGED vars
  BY <1>2 DEF vars, disk, files, system, agent, history, TypeInv, TypeOK, ControlInv,
     Carries
<1> QED
  BY <1>1, <1>2

\* In every reachable state the record, its copies and the files are well typed,
\* and a step finds in its command what it reads from it.
THEOREM TypeCorrect == Spec => []TypeOK
<1>1. Spec => []TypeInv
  BY InitTyped, NextTyped, PTL DEF Spec
<1>2. TypeInv => TypeOK
  BY DEF TypeInv
<1> QED
  BY <1>1, <1>2, PTL

-------------------------------------------------------------------------------
(***************************************************************************)
(* What recovery would restore is there.                                   *)
(***************************************************************************)
\* A pruning that keeps version k of the running base keeps what a record that
\* names k, or nothing, or something of another base, falls back to.
LEMMA PruneKeeps ==
  ASSUME TypeOK, NEW k \in Versions \cup {None}, NEW R \in LeftRollbacks(k),
         SetRollbacks(R),
         NEW e \in Entry, Paired(e), Holds(rollback, e),
         e.knownGood # None => e.knownGood = k
  PROVE  Holds(rollback', e)
<1> SUFFICES ASSUME e.knownGood # None
             PROVE  rollback'[e.kgBase][e.knownGood] # None
  BY DEF Holds, Paired
<1>1. /\ e.knownGood = k /\ k \in Versions
      /\ e.kgBase \in Bases /\ running \in Bases
      /\ rollback[e.kgBase][k] # None
  BY DEF Holds, Paired, Entry, TypeOK
<1>2. R[k] = rollback[running][k]
  BY <1>1 DEF LeftRollbacks, Kept
<1> QED
  BY <1>1, <1>2 DEF SetRollbacks, TypeOK

\* So does a step that only adds rollbacks.
LEMMA GrowthKeeps ==
  ASSUME NEW e \in Entry, Paired(e), Holds(rollback, e),
         \A b \in Bases, v \in Versions : rollback[b][v] # None => rollback'[b][v] # None
  PROVE  Holds(rollback', e)
  BY DEF Holds, Paired, Entry

\* Nothing has been retained or recorded at the start.
LEMMA InitFallback == Init => FallbackInv
  BY DEF Init, FallbackInv, HoldsInv, RemovingInv, ReconcileInv, PruneInv, RetainInv,
     PhaseInv, Paired, Holds, AbsentEntry, Unresolved, RecoverSteps, RemovalSteps,
     ActivateSteps, AdoptSteps, StageSteps

\* Forgetting a refusal changes nothing else that matters here.
LEMMA ForgetKeeps ==
  ASSUME NEW e \in Entry
  PROVE  /\ Forget(e).knownGood = e.knownGood /\ Forget(e).kgBase = e.kgBase
         /\ Forget(e).active = e.active
         /\ Forget(e).phase = "Removing" <=> e.phase = "Removing"
  BY DEF Forget, Entry

\* An emptied record falls back to nothing.
LEMMA ClearedKeeps ==
  ASSUME NEW e \in Entry
  PROVE  /\ Cleared(e).knownGood = None /\ Cleared(e).active = None
         /\ Cleared(e).phase = e.phase
  BY DEF Cleared, Entry

\* Reconciliation resolves the record without losing what it falls back to.
LEMMA ReconcileFallback ==
  ASSUME TypeInv, FallbackInv, Reconcile
  PROVE  FallbackInv'
<1> USE DEF FallbackInv, disk, files, system, agent, history
<1> USE DEF RecoverSteps, RemovalSteps, ActivateSteps, AdoptSteps, StageSteps, Unresolved
<1>0. /\ entry \in Entry /\ mem \in Entry /\ snap \in Entry
      /\ pc = "r_case" => /\ snap = mem /\ mem.knownGood = entry.knownGood
                          /\ mem.phase = "Removing" <=> entry.phase = "Removing"
  BY ForgetKeeps DEF TypeInv, TypeOK, ReconcileInv
<1>1. CASE ReconcileTransient
  BY <1>1 DEF ReconcileTransient, CallRecover, Transient, HoldsInv, RemovingInv,
     ReconcileInv, PruneInv, RetainInv, PhaseInv, Paired, Holds, Forget
<1>2. CASE ReconcileRemoving
  BY <1>0, <1>2 DEF ReconcileRemoving, HoldsInv, RemovingInv,
     ReconcileInv, PruneInv, RetainInv, PhaseInv, Paired, Holds
<1>3. CASE ReconcileStaged
  <2>1. /\ mem'.phase # "Removing"
        /\ \/ /\ mem'.knownGood = mem.knownGood /\ mem'.active = mem.active
              /\ mem'.kgBase = mem.kgBase
           \/ mem'.knownGood = None
    <3> DEFINE m == [mem EXCEPT !.candidate = None,
                                !.phase = IF ActiveImage # None THEN "Active" ELSE "Idle"]
    <3>1. /\ m.phase # "Removing" /\ m.knownGood = mem.knownGood
          /\ m.active = mem.active /\ m.kgBase = mem.kgBase
      BY <1>0 DEF Entry
    <3>2. Cleared(m).knownGood = None /\ Cleared(m).phase = m.phase
      BY <1>0 DEF Cleared, Entry
    <3>3. mem' \in {mem, m, Cleared(m)} /\ mem.phase = "Staged"
      BY <1>0, <1>3 DEF ReconcileStaged
    <3> QED
      BY <3>1, <3>2, <3>3
  <2> QED
    BY <1>0, <1>3, <2>1 DEF ReconcileStaged, HoldsInv, RemovingInv,
       ReconcileInv, PruneInv, RetainInv, PhaseInv, Paired, Holds
<1>4. CASE ReconcileActive
  <2>1. \/ mem' = mem
        \/ mem'.knownGood = None /\ mem'.phase = "Idle"
    <3>1. mem' = mem \/ mem' = [Cleared(mem) EXCEPT !.phase = "Idle"]
      BY <1>4 DEF ReconcileActive
    <3> QED
      BY <1>0, <3>1 DEF Cleared, Entry
  <2>2. mem.phase # "Removing"
    BY <1>0, <1>4 DEF ReconcileActive
  <2> QED
    BY <1>0, <1>4, <2>1, <2>2 DEF ReconcileActive, CallRecover, HoldsInv, RemovingInv,
       ReconcileInv, PruneInv, RetainInv, PhaseInv, Paired, Holds
<1>5. CASE ReconcileAtRest
  BY <1>0, <1>5, ClearedKeeps DEF ReconcileAtRest, HoldsInv, RemovingInv,
     ReconcileInv, PruneInv, RetainInv, PhaseInv, Paired, Holds
<1>6. CASE ReconcilePrune
  <2>1. \E R \in LeftRollbacks(snap.knownGood) : SetRollbacks(R) \/ UNCHANGED rollback
    BY <1>6 DEF ReconcilePrune, LeftRollbacks
  <2>2. snap.knownGood \in Versions \cup {None}
    BY <1>0 DEF Entry
  <2>3. /\ Paired(entry) /\ Paired(mem)
        /\ entry.knownGood # None => entry.knownGood = snap.knownGood
        /\ mem.knownGood # None => mem.knownGood = snap.knownGood
    BY <1>6 DEF ReconcilePrune, HoldsInv, ReconcileInv
  <2>4. /\ entry.phase # "Removing" => Holds(rollback', entry)
        /\ mem.phase # "Removing" => Holds(rollback', mem)
    BY <1>0, <2>1, <2>2, <2>3, PruneKeeps DEF HoldsInv, TypeInv, Holds
  <2> QED
    BY <1>6, <2>3, <2>4 DEF ReconcilePrune, HoldsInv, RemovingInv,
       ReconcileInv, PruneInv, RetainInv, PhaseInv, Paired
<1>7. CASE ReconcileStore
  BY <1>7, FirstSteps DEF ReconcileStore, StoreOk, StoreFails, HoldsInv, RemovingInv,
     ReconcileInv, PruneInv, RetainInv, PhaseInv, Paired, Holds
<1> QED
  BY <1>1, <1>2, <1>3, <1>4, <1>5, <1>6, <1>7 DEF Reconcile

\* Giving up does not touch what can be fallen back to.
LEMMA TerminalKeeps ==
  ASSUME mem \in Entry, Terminal
  PROVE  /\ mem'.knownGood = mem.knownGood /\ mem'.kgBase = mem.kgBase
         /\ mem'.active = mem.active /\ mem'.phase = "Unrecoverable"
         /\ entry' \in {entry, mem'}
  BY DEF Terminal, StoreOk, StoreFails, Entry

\* Recovery keeps what it restores from.
LEMMA RecoverFallback ==
  ASSUME TypeInv, FallbackInv, Recover
  PROVE  FallbackInv'
<1> USE DEF FallbackInv, disk, files, system, agent, history
<1> USE DEF RecoverSteps, RemovalSteps, ActivateSteps, AdoptSteps, StageSteps, Unresolved
<1>0. /\ entry \in Entry /\ mem \in Entry /\ snap \in Entry
      /\ pc \in RecoverSteps => ret \in {"r_prune", "c_store", "done"}
  BY DEF TypeInv, TypeOK, ControlInv
<1>1. CASE RecoverRefuse
  <2>1. pc = "v_check" /\ pc' = ret /\ verdict' = "fail" /\ Terminal
    BY <1>1 DEF RecoverRefuse, Terminal
  <2> QED
    BY <1>0, <1>1, <2>1, TerminalKeeps DEF RecoverRefuse, HoldsInv, RemovingInv,
       ReconcileInv, PruneInv, RetainInv, PhaseInv, Paired, Holds
<1>2. CASE RecoverBegin
  <2>1. /\ mem'.knownGood = mem.knownGood /\ mem'.kgBase = mem.kgBase
        /\ mem'.active = mem.active /\ mem'.phase = "Reverting"
        /\ entry' \in {entry, mem'}
        /\ pc' = "v_install" => entry' = mem'
    BY <1>0, <1>2 DEF RecoverBegin, StoreOk, StoreFails, Entry
  <2> QED
    BY <1>0, <1>2, <2>1 DEF RecoverBegin, HoldsInv, RemovingInv,
       ReconcileInv, PruneInv, RetainInv, PhaseInv, Paired, Holds
<1>3. CASE RecoverHide
  BY <1>3 DEF RecoverHide, HideLegacy, HoldsInv, RemovingInv,
     ReconcileInv, PruneInv, RetainInv, PhaseInv, Paired, Holds, Forget
<1>4. CASE RecoverInstall
  <2>1. CASE Terminal
    <3>1. pc = "v_install" /\ pc' = ret /\ verdict' = "fail"
      BY <1>4, <2>1 DEF RecoverInstall, Terminal
    <3> QED
      BY <1>0, <1>4, <2>1, <3>1, TerminalKeeps DEF RecoverInstall, HoldsInv, RemovingInv,
         ReconcileInv, PruneInv, RetainInv, PhaseInv, Paired, Holds
  <2>2. CASE ~Terminal
    BY <1>4, <2>2 DEF RecoverInstall, HoldsInv, RemovingInv,
       ReconcileInv, PruneInv, RetainInv, PhaseInv, Paired, Holds
  <2> QED
    BY <2>1, <2>2
<1>5. CASE RecoverRefresh
  <2>1. CASE Terminal
    <3>1. pc = "v_refresh" /\ pc' = ret /\ verdict' = "fail"
      BY <1>5, <2>1 DEF RecoverRefresh, Terminal
    <3> QED
      BY <1>0, <1>5, <2>1, <3>1, TerminalKeeps DEF RecoverRefresh, HoldsInv, RemovingInv,
         ReconcileInv, PruneInv, RetainInv, PhaseInv, Paired, Holds
  <2>2. CASE ~Terminal
    BY <1>5, <2>2 DEF RecoverRefresh, HoldsInv, RemovingInv,
       ReconcileInv, PruneInv, RetainInv, PhaseInv, Paired, Holds
  <2> QED
    BY <2>1, <2>2
<1>6. CASE RecoverVerify
  <2>1. CASE Terminal
    <3>1. pc = "v_verify" /\ pc' = ret /\ verdict' = "fail"
      BY <1>6, <2>1 DEF RecoverVerify, Terminal
    <3> QED
      BY <1>0, <1>6, <2>1, <3>1, TerminalKeeps DEF RecoverVerify, HoldsInv, RemovingInv,
         ReconcileInv, PruneInv, RetainInv, PhaseInv, Paired, Holds
  <2>2. CASE ~Terminal
    <3>1. /\ mem'.knownGood = mem.knownGood /\ mem'.kgBase = mem.kgBase
          /\ mem'.active = mem.knownGood /\ mem'.phase = "Recovered"
          /\ entry' \in {entry, mem'}
          /\ pc' = "v_prune" => entry' = mem'
          /\ (pc' = ret /\ verdict' = "fail") \/ pc' = "v_prune"
      BY <1>0, <1>6, <2>2 DEF RecoverVerify, StoreOk, StoreFails, Entry
    <3> QED
      BY <1>0, <1>6, <3>1 DEF RecoverVerify, HoldsInv, RemovingInv,
         ReconcileInv, PruneInv, RetainInv, PhaseInv, Paired, Holds
  <2> QED
    BY <2>1, <2>2
<1>7. CASE RecoverPrune
  <2>1. PICK R \in LeftRollbacks(mem.knownGood) : SetRollbacks(R)
    BY <1>7 DEF RecoverPrune
  <2>2. mem.knownGood \in Versions \cup {None} /\ entry = mem /\ mem.phase # "Removing"
    BY <1>0, <1>7 DEF RecoverPrune, Entry, PruneInv, RemovingInv
  <2>3. Paired(mem) /\ Holds(rollback, mem)
    BY <2>2 DEF HoldsInv
  <2>4. Holds(rollback', mem)
    BY <1>0, <2>1, <2>2, <2>3, PruneKeeps DEF TypeInv
  <2> QED
    BY <1>0, <1>7, <2>2, <2>3, <2>4 DEF RecoverPrune, HoldsInv, RemovingInv,
       ReconcileInv, PruneInv, RetainInv, PhaseInv, Paired
<1> QED
  BY <1>1, <1>2, <1>3, <1>4, <1>5, <1>6, <1>7 DEF Recover

\* Removal gives up the fallback only while the record says it is removing.
LEMMA RemoveFallback ==
  ASSUME TypeInv, FallbackInv, Remove
  PROVE  FallbackInv'
<1> USE DEF FallbackInv, disk, files, system, agent, history
<1> USE DEF RecoverSteps, RemovalSteps, ActivateSteps, AdoptSteps, StageSteps, Unresolved
<1>0. /\ entry \in Entry /\ mem \in Entry /\ snap \in Entry
      /\ pc \in RemovalSteps => ret \in {"r_prune", "c_store"}
  BY DEF TypeInv, TypeOK, ControlInv
<1>1. CASE RemoveRecord
  <2>1. /\ mem'.knownGood = mem.knownGood /\ mem'.kgBase = mem.kgBase
        /\ mem'.active = mem.active /\ mem'.phase = "Removing"
        /\ entry' \in {entry, mem'}
        /\ pc' = "x_files" => entry' = mem' /\ ret' = "c_store"
    BY <1>0, <1>1 DEF RemoveRecord, StoreOk, StoreFails, Entry
  <2> QED
    BY <1>0, <1>1, <2>1 DEF RemoveRecord, HoldsInv, RemovingInv,
       ReconcileInv, PruneInv, RetainInv, PhaseInv, Paired, Holds
<1>2. CASE RemoveFiles
  BY <1>0, <1>2 DEF RemoveFiles, RemovalFails, HoldsInv, RemovingInv,
     ReconcileInv, PruneInv, RetainInv, PhaseInv, Paired, Holds
<1>3. CASE RemoveRefresh
  BY <1>0, <1>3 DEF RemoveRefresh, RemovalFails, HoldsInv, RemovingInv,
     ReconcileInv, PruneInv, RetainInv, PhaseInv, Paired, Holds
<1>4. CASE RemovePrune
  <2>1. mem' = mem \/ (mem'.knownGood = None /\ mem'.phase = "Idle")
    <3>1. mem' = mem \/ mem' = [Cleared(mem) EXCEPT !.phase = "Idle"]
      BY <1>4 DEF RemovePrune
    <3> QED
      BY <1>0, <3>1 DEF Cleared, Entry
  <2>2. /\ pc = "x_prune" /\ entry.phase = "Removing" /\ mem.phase = "Removing"
        /\ pc' \in {"r_prune", "c_store", "done"} /\ entry' = entry
        /\ verdict' = "fail" \/ mem'.phase = "Idle"
        /\ pc' = "r_prune" => ret = "r_prune"
        /\ pc' = "c_store" => mem'.phase = "Idle"
    BY <1>0, <1>4 DEF RemovePrune, RemovalFails, RemovingInv, Cleared, Entry
  <2>3. UNCHANGED <<snap, ret, scoped, legacy, running>>
    BY <1>4 DEF RemovePrune
  <2> QED
    BY <1>0, <2>1, <2>2, <2>3 DEF HoldsInv, RemovingInv,
       ReconcileInv, PruneInv, RetainInv, PhaseInv, Paired, Holds
<1> QED
  BY <1>1, <1>2, <1>3, <1>4 DEF Remove

\* Adoption retains an image before the record names it.
LEMMA AdoptFallback ==
  ASSUME TypeInv, FallbackInv, Adopt
  PROVE  FallbackInv'
<1> USE DEF FallbackInv, disk, files, system, agent, history
<1> USE DEF RecoverSteps, RemovalSteps, ActivateSteps, AdoptSteps, StageSteps, Unresolved
<1>0. /\ entry \in Entry /\ mem \in Entry /\ snap \in Entry
      /\ pc \in AdoptSteps => ret \in {"done", "a_retain"}
  BY DEF TypeInv, TypeOK, ControlInv
<1>1. CASE AdoptCheck
  BY <1>0, <1>1 DEF AdoptCheck, Fail, Healthy, ActiveImage, HoldsInv, RemovingInv,
     ReconcileInv, PruneInv, RetainInv, PhaseInv, Paired, Holds
<1>2. CASE AdoptCopy
  <2>1. AdoptedVersion \in Versions /\ AdoptedVersion' = AdoptedVersion
    BY <1>2, FilesTyped DEF AdoptCopy, AdoptedVersion, TypeInv, ControlInv, Carries
  <2>2. ActiveImage # None /\ running \in Bases
    BY <1>2 DEF AdoptCopy, RetainInv, TypeInv, TypeOK
  <2>3. /\ \A b \in Bases, v \in Versions : rollback[b][v] # None => rollback'[b][v] # None
        /\ pc' = "d_store" => rollback'[running][AdoptedVersion] # None
    BY <1>2, <2>1, <2>2 DEF AdoptCopy, Fail, TypeInv, TypeOK
  <2>4. /\ Holds(rollback, entry) => Holds(rollback', entry)
        /\ Holds(rollback, mem) => Holds(rollback', mem)
    BY <1>0, <2>3, GrowthKeeps DEF HoldsInv
  <2> QED
    BY <1>0, <1>2, <2>1, <2>3, <2>4 DEF AdoptCopy, Fail, HoldsInv, RemovingInv,
       ReconcileInv, PruneInv, RetainInv, PhaseInv, Paired
<1>3. CASE AdoptStore
  <2>1. AdoptedVersion \in Versions /\ rollback[running][AdoptedVersion] # None
    BY <1>3, FilesTyped DEF AdoptStore, AdoptedVersion, TypeInv, ControlInv, Carries,
       RetainInv
  <2>2. /\ mem'.knownGood = AdoptedVersion /\ mem'.active = AdoptedVersion
        /\ mem'.kgBase = running /\ mem'.phase = "Active"
        /\ entry' \in {entry, mem'}
    BY <1>0, <1>3 DEF AdoptStore, KnownGood, StoreOk, StoreFails, Entry
  <2>3. running # None /\ AdoptedVersion # None
    BY <2>1, NoneAssumption DEF TypeInv, TypeOK
  <2> QED
    BY <1>0, <1>3, <2>1, <2>2, <2>3 DEF AdoptStore, Fail, HoldsInv, RemovingInv,
       ReconcileInv, PruneInv, RetainInv, PhaseInv, Paired, Holds
<1> QED
  BY <1>1, <1>2, <1>3 DEF Adopt

\* Staging touches no rollback and no known-good version.
LEMMA StageFallback ==
  ASSUME TypeInv, FallbackInv, Stage
  PROVE  FallbackInv'
<1> USE DEF FallbackInv, disk, files, system, agent, history
<1> USE DEF RecoverSteps, RemovalSteps, ActivateSteps, AdoptSteps, StageSteps, Unresolved
<1>0. /\ entry \in Entry /\ mem \in Entry
  BY DEF TypeInv, TypeOK
<1>1. CASE StageCandidate
  BY <1>1 DEF StageCandidate, Fail, HoldsInv, RemovingInv,
     ReconcileInv, PruneInv, RetainInv, PhaseInv, Paired, Holds
<1>2. CASE StageOtherBase
  BY <1>2 DEF StageOtherBase, Fail, HoldsInv, RemovingInv,
     ReconcileInv, PruneInv, RetainInv, PhaseInv, Paired, Holds
<1>3. CASE StageRecord
  <2>1. /\ mem'.knownGood = mem.knownGood /\ mem'.kgBase = mem.kgBase
        /\ mem'.active = mem.active /\ mem'.phase = "Staged"
        /\ entry' \in {entry, mem'} /\ pc' \in {"a_check", "done"}
    BY <1>0, <1>3 DEF StageRecord, Fail, StoreOk, StoreFails, Entry
  <2> QED
    BY <1>0, <1>3, <2>1, ZenonT(60) DEF StageRecord, HoldsInv, RemovingInv,
       ReconcileInv, PruneInv, RetainInv, PhaseInv, Paired, Holds
<1> QED
  BY <1>1, <1>2, <1>3 DEF Stage

\* Activation records as known-good only what it has retained, and prunes all but
\* that.
LEMMA ActivateFallback ==
  ASSUME TypeInv, FallbackInv, Activate
  PROVE  FallbackInv'
<1> USE DEF FallbackInv, disk, files, system, agent, history
<1> USE DEF RecoverSteps, RemovalSteps, ActivateSteps, AdoptSteps, StageSteps, Unresolved
<1>0. /\ entry \in Entry /\ mem \in Entry /\ snap \in Entry /\ running \in Bases
      /\ pc = "a_check" => ret = "done"
      /\ pc \in ActivateSteps => cmd.version \in Versions
      /\ None \notin Versions /\ None \notin Bases
  BY NoneAssumption DEF TypeInv, TypeOK, ControlInv, Carries
<1>1. CASE ActivateReplay
  BY <1>1 DEF ActivateReplay, HoldsInv, RemovingInv,
     ReconcileInv, PruneInv, RetainInv, PhaseInv, Paired, Holds
<1>2. CASE ActivateUnstaged
  BY <1>2 DEF ActivateUnstaged, Fail, HoldsInv, RemovingInv,
     ReconcileInv, PruneInv, RetainInv, PhaseInv, Paired, Holds
<1>3. CASE ActivateCheck
  BY <1>3 DEF ActivateCheck, Fail, ActiveImage, HoldsInv, RemovingInv,
     ReconcileInv, PruneInv, RetainInv, PhaseInv, Paired, Holds
<1>4. CASE ActivateRetain
  <2>1. mem.active \in Versions \cup {None}
    BY <1>0 DEF Entry
  <2>2. /\ \A b \in Bases, v \in Versions : rollback[b][v] # None => rollback'[b][v] # None
        /\ pc' = "a_record" /\ mem.active # None => rollback'[running][mem.active] # None
    BY <1>0, <1>4, <2>1 DEF ActivateRetain, Fail, TypeInv, TypeOK
  <2>3. /\ Holds(rollback, entry) => Holds(rollback', entry)
        /\ Holds(rollback, mem) => Holds(rollback', mem)
    BY <1>0, <2>2, GrowthKeeps DEF HoldsInv
  <2>4. /\ pc = "a_retain" /\ pc' \in {"a_record", "done"} /\ snap' = mem
        /\ UNCHANGED <<entry, mem, running>>
    BY <1>4 DEF ActivateRetain, Fail
  <2> QED
    BY <2>2, <2>3, <2>4 DEF HoldsInv, RemovingInv,
       ReconcileInv, PruneInv, RetainInv, PhaseInv, Paired
<1>5. CASE ActivateRecord
  <2>1. /\ mem'.active = mem.active /\ mem'.phase = "Activating"
        /\ IF mem.active = None
           THEN mem'.knownGood = mem.knownGood /\ mem'.kgBase = mem.kgBase
           ELSE mem'.knownGood = mem.active /\ mem'.kgBase = running
        /\ entry' \in {entry, mem'} /\ pc' \in {"a_install", "done"}
        /\ pc' = "a_install" => entry' = mem'
    BY <1>0, <1>5 DEF ActivateRecord, Fail, KnownGood, StoreOk, StoreFails, Entry
  <2>2. pc = "a_record" /\ UNCHANGED <<snap, rollback, running>>
    BY <1>5 DEF ActivateRecord
  <2> QED
    BY <1>0, <2>1, <2>2 DEF HoldsInv, RemovingInv,
       ReconcileInv, PruneInv, RetainInv, PhaseInv, Paired, Holds
<1>6. CASE ActivateHide
  BY <1>6 DEF ActivateHide, HideLegacy, HoldsInv, RemovingInv,
     ReconcileInv, PruneInv, RetainInv, PhaseInv, Paired, Holds, Forget
<1>7. CASE ActivateInstall
  BY <1>7 DEF ActivateInstall, Revert, CallRecover, HoldsInv, RemovingInv,
     ReconcileInv, PruneInv, RetainInv, PhaseInv, Paired, Holds
<1>8. CASE ActivateRefresh
  BY <1>8 DEF ActivateRefresh, Revert, CallRecover, HoldsInv, RemovingInv,
     ReconcileInv, PruneInv, RetainInv, PhaseInv, Paired, Holds
<1>9. CASE ActivateStart \/ ActivateReady
  <2>1. /\ mem'.knownGood = mem.knownGood /\ mem'.kgBase = mem.kgBase
        /\ mem'.active = mem.active /\ mem'.phase # "Removing"
        /\ entry' \in {entry, mem'}
    BY <1>0, <1>9 DEF ActivateStart, ActivateReady, Advance, StoreOk, StoreFails, Entry,
       RemovingInv
  <2>2. /\ pc \in {"a_start", "a_ready"} /\ UNCHANGED <<snap, rollback, running>>
        /\ pc' \in {"a_ready", "a_soak"} \/ (pc' = "v_check" /\ ret' = "done")
    BY <1>9 DEF ActivateStart, ActivateReady, Advance, Revert, CallRecover
  <2> QED
    BY <2>1, <2>2 DEF HoldsInv, RemovingInv,
       ReconcileInv, PruneInv, RetainInv, PhaseInv, Paired, Holds
<1>10. CASE ActivateSoak
  <2>1. /\ Committed.knownGood = mem.knownGood /\ Committed.kgBase = mem.kgBase
        /\ Committed.active = cmd.version /\ Committed.phase = "Active"
    BY <1>0 DEF Committed, Entry
  <2>2. /\ pc = "a_soak" /\ UNCHANGED <<snap, rollback, running, cmd>>
        /\ entry' \in {entry, Committed} /\ mem' \in {mem, Committed}
        /\ \/ pc' = "a_prune" /\ entry' = mem'
           \/ pc' = "v_check" /\ ret' = "done"
    BY <1>10 DEF ActivateSoak, StoreOk, StoreFails, Revert, CallRecover
  <2>3. cmd.version # None
    BY <1>0, <2>2
  <2> HIDE DEF Committed
  <2> QED
    BY <2>1, <2>2, <2>3 DEF HoldsInv, RemovingInv,
       ReconcileInv, PruneInv, RetainInv, PhaseInv, Paired, Holds
<1>11. CASE ActivatePrune
  <2>1. PICK R \in LeftRollbacks(snap.active) : SetRollbacks(R)
    BY <1>11 DEF ActivatePrune
  <2>2. /\ snap.active \in Versions \cup {None} /\ entry = mem /\ mem.phase # "Removing"
        /\ mem.knownGood # None => mem.knownGood = snap.active
    BY <1>0, <1>11 DEF ActivatePrune, Entry, PruneInv, RemovingInv
  <2>3. Paired(mem) /\ Holds(rollback, mem)
    BY <2>2 DEF HoldsInv
  <2>4. Holds(rollback', mem)
    BY <1>0, <2>1, <2>2, <2>3, PruneKeeps DEF TypeInv
  <2> QED
    BY <1>0, <1>11, <2>2, <2>3, <2>4 DEF ActivatePrune, HoldsInv, RemovingInv,
       ReconcileInv, PruneInv, RetainInv, PhaseInv, Paired
<1> QED
  BY <1>1, <1>2, <1>3, <1>4, <1>5, <1>6, <1>7, <1>8, <1>9, <1>10, <1>11 DEF Activate

\* The gate retains an image before it trusts it.
LEMMA GateFallback ==
  ASSUME TypeInv, FallbackInv, Gate
  PROVE  FallbackInv'
<1> USE DEF FallbackInv, disk, files, system, agent, history
<1> USE DEF RecoverSteps, RemovalSteps, ActivateSteps, AdoptSteps, StageSteps, Unresolved
<1>0. /\ entry \in Entry /\ mem \in Entry /\ running \in Bases
      /\ None \notin Versions /\ None \notin Bases
  BY NoneAssumption DEF TypeInv, TypeOK
<1>1. CASE GateNotRequired \/ GateTerminal \/ GateUnhealthy \/ GateSoak
  <2>1. /\ pc = "g_verify" /\ UNCHANGED <<entry, mem, rollback, running>>
        /\ pc' \in {"done", "c_store", "g_adopt"} \/ (pc' = "v_check" /\ ret' = "c_store")
    BY <1>1 DEF GateNotRequired, GateTerminal, GateUnhealthy, GateSoak, Fail, CallRecover
  <2> QED
    BY <2>1 DEF HoldsInv, RemovingInv, ReconcileInv, PruneInv, RetainInv, PhaseInv,
       Paired, Holds
<1>2. CASE GateHealthy
  <2>1. /\ mem'.knownGood = mem.knownGood /\ mem'.kgBase = mem.kgBase
        /\ mem'.active = mem.active /\ mem'.phase = "Active"
    BY <1>0, <1>2 DEF GateHealthy, Verified, Entry
  <2> QED
    BY <1>2, <2>1 DEF GateHealthy, HoldsInv, RemovingInv,
       ReconcileInv, PruneInv, RetainInv, PhaseInv, Paired, Holds
<1>3. CASE GateAdopt
  <2>1. merged.version \in Versions
    BY <1>3, FilesTyped DEF GateAdopt, TypeInv, ControlInv
  <2>2. \A b \in Bases, v \in Versions : rollback[b][v] # None => rollback'[b][v] # None
    BY <1>0, <1>3, <2>1 DEF GateAdopt, TypeInv, TypeOK
  <2>3. /\ Holds(rollback, entry) => Holds(rollback', entry)
        /\ Holds(rollback, mem) => Holds(rollback', mem)
    BY <1>0, <2>2, GrowthKeeps DEF HoldsInv
  <2>4. \/ mem' = mem
        \/ /\ mem'.knownGood = merged.version /\ mem'.active = merged.version
           /\ mem'.kgBase = running /\ mem'.phase = "Active"
           /\ rollback'[running][merged.version] # None
    <3> DEFINE v == merged.version
               adopted == Verified([KnownGood(mem, v) EXCEPT !.active = v, !.candidate = None])
    <3>1. /\ adopted.knownGood = v /\ adopted.active = v
          /\ adopted.kgBase = running /\ adopted.phase = "Active"
      BY <1>0 DEF Verified, KnownGood, Entry
    <3>2. \/ mem' = mem
          \/ /\ mem' = adopted /\ ActiveImage # None
             /\ rollback' = [rollback EXCEPT ![running][v] = ActiveImage]
      BY <1>3 DEF GateAdopt
    <3> HIDE DEF adopted
    <3> QED
      BY <1>0, <2>1, <3>1, <3>2 DEF TypeInv, TypeOK
  <2>5. pc = "g_adopt" /\ pc' = "c_store" /\ UNCHANGED entry
    BY <1>3 DEF GateAdopt
  <2> QED
    BY <1>0, <2>1, <2>3, <2>4, <2>5 DEF HoldsInv, RemovingInv,
       ReconcileInv, PruneInv, RetainInv, PhaseInv, Paired, Holds
<1> QED
  BY <1>1, <1>2, <1>3 DEF Gate

\* The closing store, the exit, a kill, a reboot and a new command lose nothing:
\* what the agent held in memory goes, the record on disk stays.
LEMMA OtherFallback ==
  ASSUME TypeInv, FallbackInv,
         \/ CommandStore \/ Finish \/ Kill
         \/ \E c \in Commands : Start(c)
         \/ \E b \in Bases : Reboot(b)
  PROVE  FallbackInv'
<1> USE DEF FallbackInv, disk, files, system, agent, history
<1> USE DEF RecoverSteps, RemovalSteps, ActivateSteps, AdoptSteps, StageSteps, Unresolved
<1>0. entry \in Entry /\ mem \in Entry
  BY DEF TypeInv, TypeOK
<1>1. CASE CommandStore
  <2>1. /\ mem'.knownGood = mem.knownGood /\ mem'.kgBase = mem.kgBase
        /\ mem'.active = mem.active /\ mem'.phase \in {mem.phase, "Idle"}
    BY <1>0, <1>1 DEF CommandStore, Marked, Entry
  <2>2. /\ pc = "c_store" /\ pc' = "done" /\ entry' \in {entry, mem'}
        /\ UNCHANGED <<rollback, running>>
    BY <1>1 DEF CommandStore, Fail, StoreOk, StoreFails
  <2> QED
    BY <2>1, <2>2 DEF HoldsInv, RemovingInv,
       ReconcileInv, PruneInv, RetainInv, PhaseInv, Paired, Holds
<1>2. CASE Finish \/ Kill \/ \E b \in Bases : Reboot(b)
  <2>1. /\ mem' = AbsentEntry /\ pc' = "idle" /\ UNCHANGED <<entry, rollback>>
    BY <1>2 DEF Finish, Kill, Reboot, Exit
  <2> QED
    BY <2>1 DEF AbsentEntry, HoldsInv, RemovingInv,
       ReconcileInv, PruneInv, RetainInv, PhaseInv, Paired, Holds
<1>3. CASE \E c \in Commands : Start(c)
  <2>1. /\ mem' = Forget(entry) /\ snap' = Forget(entry) /\ pc' = "r_case"
        /\ UNCHANGED <<entry, rollback, running>>
    BY <1>3 DEF Start
  <2>2. /\ Forget(entry).knownGood = entry.knownGood /\ Forget(entry).kgBase = entry.kgBase
        /\ Forget(entry).active = entry.active
        /\ Forget(entry).phase = "Removing" <=> entry.phase = "Removing"
        /\ Forget(entry)' = Forget(entry)
    BY <1>0, <2>1, ForgetKeeps DEF Forget
  <2> QED
    BY <2>1, <2>2 DEF HoldsInv, RemovingInv,
       ReconcileInv, PruneInv, RetainInv, PhaseInv, Paired, Holds
<1> QED
  BY <1>1, <1>2, <1>3

\* Every step keeps what recovery would restore.
LEMMA NextFallback ==
  ASSUME TypeInv, FallbackInv, [Next]_vars
  PROVE  FallbackInv'
<1>1. CASE Next
  BY <1>1, ReconcileFallback, RecoverFallback, RemoveFallback, AdoptFallback,
     ActivateFallback, StageFallback, GateFallback, OtherFallback DEF Next, AgentStep
<1>2. CASE UNCHANGED vars
  BY <1>2 DEF vars, disk, files, system, agent, history, FallbackInv, HoldsInv,
     RemovingInv, ReconcileInv, PruneInv, RetainInv, PhaseInv, Paired, Holds, Unresolved,
     Forget, ActiveImage, AdoptedVersion
<1> QED
  BY <1>1, <1>2

\* The invariant the safety theorems share.
LEMMA FallbackInductive == Spec => [](TypeInv /\ FallbackInv)
  BY InitTyped, InitFallback, NextTyped, NextFallback, PTL DEF Spec

\* Whatever fails, is killed or loses power, and under whichever base it does, the
\* image the record names as known-good is on disk: the three functions that prune
\* rollbacks never delete what recovery would look for.
THEOREM KnownGoodIsRetained == Spec => []FallbackRetained
<1>1. HoldsInv => FallbackRetained
  BY DEF HoldsInv, Holds, FallbackRetained
<1> QED
  BY <1>1, FallbackInductive, PTL DEF FallbackInv

\* The active image of the running base is replaced or deleted only under a record
\* on disk that says so.
THEOREM SwapsAreRecorded == Spec => SwapIsRecorded
<1>1. ASSUME TypeInv, FallbackInv, [Next]_vars
      PROVE  [scoped'[running] # scoped[running] /\ running' = running
                => entry.phase \in {"Activating", "Reverting", "Removing"}]_vars
  <2> SUFFICES ASSUME Next, scoped'[running] # scoped[running], running' = running
               PROVE  entry.phase \in {"Activating", "Reverting", "Removing"}
    BY <1>1 DEF vars, disk, files
  <2> USE DEF disk, files, system, agent, history
  <2>1. ~StageOtherBase
    BY <1>1 DEF StageOtherBase, TypeInv, TypeOK, ControlInv, Carries, StageSteps
  <2>2. RecoverInstall \/ ActivateInstall \/ RemoveFiles
    BY <1>1, <2>1 DEF Next, AgentStep, Start, Kill, Reboot, Finish, CommandStore,
       Reconcile, ReconcileTransient, ReconcileRemoving, ReconcileStaged, ReconcileActive,
       ReconcileAtRest, ReconcilePrune, ReconcileStore,
       Recover, RecoverRefuse, RecoverBegin, RecoverHide, RecoverRefresh, RecoverVerify,
       RecoverPrune, Remove, RemoveRecord, RemoveRefresh, RemovePrune,
       Adopt, AdoptCheck, AdoptCopy, AdoptStore,
       Activate, ActivateReplay, ActivateUnstaged, ActivateCheck, ActivateRetain,
       ActivateRecord, ActivateHide, ActivateRefresh, ActivateStart, ActivateReady,
       ActivateSoak, ActivatePrune, Stage, StageCandidate, StageRecord,
       Gate, GateNotRequired, GateTerminal, GateUnhealthy, GateHealthy, GateSoak, GateAdopt
  <2> QED
    BY <1>1, <2>2 DEF RecoverInstall, ActivateInstall, RemoveFiles, FallbackInv, PhaseInv,
       RemovingInv, RemovalSteps
<1> QED
  BY <1>1, FallbackInductive, PTL DEF Spec, SwapIsRecorded

===============================================================================
