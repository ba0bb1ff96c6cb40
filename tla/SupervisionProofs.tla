--------------------------- MODULE SupervisionProofs ---------------------------
(***************************************************************************)
(* The agent implements Supervision, for any bases, versions and requests, *)
(* whatever commands are given and whatever fails.                         *)
(*                                                                         *)
(* A store writes what the agent holds in memory over what is on disk, so  *)
(* the proof rests on how far the two can be apart at each step that       *)
(* stores, and on what of the files the store then speaks of.              *)
(***************************************************************************)
EXTENDS ExtensionAgentProofs

Resting == Phase \ (Transient \cup {"Removing"})
Swapping == {"Activating", "Starting", "Soaking"}

Retained(e) == IF e.knownGood = None THEN None ELSE rollback[running][e.knownGood]

\* The steps of a command's own work before it has stored anything.
FreshSteps ==
  {"g_verify", "g_adopt", "a_check", "a_retain", "a_record", "s_place", "s_record",
   "d_check", "d_copy", "d_store", "x_record"}
Marks == {"require", "unrequire", "reset"}

FreshInv ==
  /\ pc \in FreshSteps \/ (pc = "c_store" /\ cmd.op \in Marks)
       => mem = entry /\ entry.phase \in Resting
  /\ \/ pc \in FreshSteps
     \/ pc \in RecoverSteps \cup RemovalSteps /\ ret = "c_store"
     => cmd.op \notin Marks

\* What memory may say when it is stored over the record on disk.
SameMode(m) ==
  /\ m.knownGood = entry.knownGood
  /\ \/ m.phase = entry.phase
     \/ m.phase \in Resting \ {"Unrecoverable"} /\ entry.phase \in Resting
Vanished(m) ==
  /\ entry.phase \in Resting /\ ActiveImage = None
  /\ m.phase \in Resting \ {"Unrecoverable"} /\ m.knownGood = None
WasUndone(m) ==
  /\ m.knownGood = entry.knownGood
  /\ entry.phase = "Reverting" /\ m.phase = "Recovered"
  /\ ActiveImage = Retained(entry)
WasGivenUp(m) ==
  m.knownGood = entry.knownGood /\ entry.phase # "Removing" /\ m.phase = "Unrecoverable"
IsUndoing(m) ==
  /\ m.knownGood = entry.knownGood
  /\ entry.phase # "Removing" /\ m.phase = "Reverting" /\ Retained(entry) # None
WasRemoved(m) ==
  /\ entry.phase = "Removing" /\ m.phase = "Idle"
  /\ m.knownGood = None /\ ActiveImage = None
WasAdopted(m) ==
  /\ entry.phase \in Resting /\ m.phase \in Resting \ {"Unrecoverable"}
  /\ ActiveImage # None /\ m.knownGood # None /\ Retained(m) # None
MayFollow(m) ==
  \/ SameMode(m) \/ Vanished(m) \/ WasUndone(m) \/ WasGivenUp(m)
  \/ IsUndoing(m) \/ WasRemoved(m) \/ WasAdopted(m)

StoreInv ==
  /\ pc \in {"r_prune", "r_store", "c_store"} => MayFollow(mem)
  /\ pc \in RemovalSteps => mem.knownGood = entry.knownGood
  /\ pc \in {"x_refresh", "x_prune"} => ActiveImage = None

\* Recovery may begin over any record but one of a removal, and ends only with
\* the retained image in place.
UndoInv ==
  /\ pc \in RecoverSteps => mem.knownGood = entry.knownGood /\ entry.phase # "Removing"
  /\ pc \in {"v_install", "v_refresh", "v_verify"} => Fallback # None
  /\ pc \in {"v_refresh", "v_verify"} => entry.phase = "Reverting" /\ ActiveImage = Fallback
  /\ pc = "v_prune" => mem.phase = "Recovered"

\* Work begins, and success is reported, over a record that is at rest.
RestInv ==
  /\ pc \in {"r_prune", "r_store", "c_store"} /\ verdict = "ok" => mem.phase \in Resting
  /\ pc = "done" /\ verdict = "ok" => entry.phase \in Resting
  /\ pc = "a_prune" => entry.phase = "Active"

\* A refusal leaves no candidate to activate.
RefusalInv ==
  /\ pc = "r_prune" /\ verdict = "ok" /\ mem.phase = "Unrecoverable" => snap.phase # "Staged"
  /\ pc = "a_check" \/ (pc = "r_store" /\ verdict = "ok")
       => (mem.phase = "Unrecoverable" => candidates[running] = {})
  /\ pc \in {"g_adopt", "a_retain", "a_record"} => mem.phase # "Unrecoverable"

\* What the active version falls back to is what was retained for the
\* known-good one, or is the image that runs.
OutgoingInv ==
  /\ ~entry.present => entry.active = None /\ ~entry.required
  /\ ~mem.present => mem.active = None /\ ~mem.required
  /\ pc = "g_adopt" => mem.present
  /\ Unresolved /\ verdict = "ok" => mem.present = snap.present
  /\ Unresolved => mem.knownGood = snap.knownGood \/ mem.active = None
  /\ \/ pc = "r_store" /\ verdict = "ok"
     \/ pc \in {"a_check", "a_retain", "s_place", "s_record"}
     => (mem.active # None /\ rollback[running][mem.active] # None => mem.active = mem.knownGood)
  /\ pc = "a_record" /\ mem.active # None
       => rollback[running][mem.active] \in {Retained(mem), ActiveImage}

\* While a candidate is on trial the record says so.
TrialInv ==
  /\ pc \in {"a_install", "a_refresh", "a_start", "a_ready", "a_soak"}
       => /\ entry.phase \in Swapping /\ mem.knownGood = entry.knownGood
          /\ entry.present /\ mem.present
  /\ pc \in {"a_refresh", "a_start", "a_ready", "a_soak"} => ActiveImage # None
  /\ pc = "d_store" => ActiveImage # None

SupervisionInv ==
  FreshInv /\ StoreInv /\ UndoInv /\ RestInv /\ RefusalInv /\ OutgoingInv /\ TrialInv
--------------------------------------------------------------------------------
(***************************************************************************)
(* The invariant.                                                          *)
(***************************************************************************)
\* A node starts with no record and no command.
LEMMA InitSupervised == Init => SupervisionInv
  BY DEF Init, SupervisionInv, FreshInv, StoreInv, UndoInv, RestInv, RefusalInv, OutgoingInv,
     TrialInv, AbsentEntry, FreshSteps, RecoverSteps, RemovalSteps, Unresolved, NoCmd, Cmd, Marks

\* Emptying a record leaves it where it is.
LEMMA ClearedFields ==
  ASSUME NEW e \in Entry
  PROVE  /\ Cleared(e).knownGood = None /\ Cleared(e).active = None
         /\ Cleared(e).phase = e.phase /\ Cleared(e).present = e.present
         /\ Cleared(e).required = e.required /\ Cleared(e) \in Entry
  BY DEF Cleared, Entry

\* What reconciliation makes of a record at rest.
LEMMA ReconciledFields ==
  ASSUME TypeInv, FallbackInv, ReconcileStaged \/ ReconcileActive \/ ReconcileAtRest
  PROVE  /\ snap = mem /\ mem = Forget(entry) /\ mem.knownGood = entry.knownGood
         /\ mem.present = entry.present /\ mem.active = entry.active /\ mem.required = entry.required
         /\ mem'.present = mem.present /\ (mem'.required => mem.required)
         /\ \/ mem'.knownGood = mem.knownGood /\ mem'.active = mem.active
            \/ mem'.knownGood = None /\ mem'.active = None /\ ActiveImage = None
         /\ entry.phase \in Resting /\ mem'.phase \in Resting
         /\ mem'.phase = "Unrecoverable" => mem' = mem /\ entry = mem
<1> USE DEF TypeInv, TypeOK, FallbackInv, ReconcileInv
<1>1. snap = mem /\ mem = Forget(entry) /\ mem \in Entry /\ entry \in Entry
  BY DEF ReconcileStaged, ReconcileActive, ReconcileAtRest
<1>2. /\ mem.knownGood = entry.knownGood /\ mem.present = entry.present
      /\ mem.active = entry.active /\ mem.required = entry.required
      /\ mem = entry \/ (entry.phase = "Unrecoverable" /\ mem.phase = "Idle")
  <2>1. CASE mem = entry
    BY <2>1
  <2>2. CASE mem # entry
    BY <1>1, <2>2 DEF Forget, Entry
  <2> QED
    BY <2>1, <2>2
<1>3. CASE ReconcileStaged
  <2> DEFINE p == IF ActiveImage # None THEN "Active" ELSE "Idle"
             m == [mem EXCEPT !.candidate = None, !.phase = p]
  <2>1. /\ m.phase \in {"Active", "Idle"} /\ m.knownGood = mem.knownGood
        /\ m.active = mem.active /\ m.present = mem.present /\ m.required = mem.required
        /\ m \in Entry
    <3>1. p \in {"Active", "Idle"} /\ p \in Phase
      BY DEF Phase
    <3> HIDE DEF p
    <3> QED
      BY <1>1, <3>1 DEF Entry
  <2>2. mem' \in {mem, m} \/ (mem' = Cleared(m) /\ ActiveImage = None)
    BY <1>3 DEF ReconcileStaged
  <2>3. mem.phase = "Staged"
    BY <1>1, <1>3 DEF ReconcileStaged
  <2> HIDE DEF m
  <2> QED
    BY <1>1, <1>2, <2>1, <2>2, <2>3, ClearedFields DEF Resting, Phase, Transient
<1>4. CASE ReconcileActive
  <2> DEFINE m == [Cleared(mem) EXCEPT !.phase = "Idle"]
  <2>1. /\ m.phase = "Idle" /\ m.knownGood = None /\ m.active = None
        /\ m.present = mem.present /\ m.required = mem.required
    BY <1>1 DEF Cleared, Entry
  <2>2. mem' = mem \/ (mem' = m /\ ActiveImage = None)
    BY <1>4 DEF ReconcileActive
  <2>3. mem.phase \in {"Active", "Recovered"}
    BY <1>1, <1>4 DEF ReconcileActive
  <2> HIDE DEF m
  <2> QED
    BY <1>1, <1>2, <2>1, <2>2, <2>3 DEF Resting, Phase, Transient
<1>5. CASE ReconcileAtRest
  <2>1. mem' = mem \/ (mem' = Cleared(mem) /\ ActiveImage = None /\ mem.phase = "Idle")
    BY <1>1, <1>5 DEF ReconcileAtRest
  <2>2. mem.phase \in {"Idle", "Unrecoverable"}
    BY <1>1, <1>5 DEF ReconcileAtRest
  <2> QED
    BY <1>1, <1>2, <2>1, <2>2, ClearedFields DEF Resting, Phase, Transient
<1> QED
  BY <1>3, <1>4, <1>5

\* A pruning that keeps the version a record falls back to keeps its image.
LEMMA PruneRetains ==
  ASSUME TypeOK, NEW k \in Versions \cup {None}, NEW R \in LeftRollbacks(k), SetRollbacks(R)
  PROVE  /\ rollback'[running] = R
         /\ k # None => rollback'[running][k] = rollback[running][k]
         /\ \A v \in Versions : rollback'[running][v] \in {None, rollback[running][v]}
<1>1. rollback'[running] = R
  BY DEF SetRollbacks, TypeOK
<1>2. \A v \in Versions : R[v] \in {None, rollback[running][v]}
  BY DEF LeftRollbacks, Kept
<1>3. k # None => R[k] = rollback[running][k]
  BY NoneAssumption DEF LeftRollbacks, Kept
<1> QED
  BY <1>1, <1>2, <1>3

\* Reconciliation.
LEMMA ReconcileSupervised ==
  ASSUME TypeInv, FallbackInv, SupervisionInv, Reconcile
  PROVE  SupervisionInv'
<1> USE DEF disk, files, system, agent, history
<1> USE DEF SupervisionInv, FreshInv, StoreInv, UndoInv, RestInv, RefusalInv, OutgoingInv, TrialInv
<1> USE DEF FreshSteps, RecoverSteps, RemovalSteps, Unresolved, Marks
<1>0. /\ entry \in Entry /\ mem \in Entry /\ snap \in Entry
      /\ pc = "r_case" => snap = mem /\ mem = Forget(entry)
  BY DEF TypeInv, TypeOK, FallbackInv, ReconcileInv
<1>1. CASE ReconcileTransient
  <2>1. mem.phase = entry.phase /\ mem.knownGood = entry.knownGood /\ mem.phase # "Removing"
    BY <1>0, <1>1, ZenonT(60) DEF ReconcileTransient, Transient, Forget, Entry
  <2> QED
    BY <1>0, <1>1, <2>1 DEF ReconcileTransient, CallRecover
<1>2. CASE ReconcileRemoving
  <2>1. mem.knownGood = entry.knownGood
    BY <1>0, <1>2, ForgetKeeps DEF ReconcileRemoving
  <2> QED
    BY <1>0, <1>2, <2>1 DEF ReconcileRemoving
<1>3. CASE ReconcileStaged \/ ReconcileActive \/ ReconcileAtRest
  <2>1. MayFollow(mem')
    BY <1>3, ReconciledFields DEF MayFollow, SameMode, Vanished
  <2>2. CASE pc' = "r_prune"
    <3>1. UNCHANGED <<disk, system, snap, verdict>>
      BY <1>3 DEF ReconcileStaged, ReconcileActive, ReconcileAtRest, CallRecover
    <3>2. MayFollow(mem)'
      BY <2>1, <3>1 DEF MayFollow, SameMode, Vanished, WasUndone, WasGivenUp, IsUndoing,
         WasRemoved, WasAdopted, ActiveImage, Retained
    <3>3. pc = "r_case" /\ (mem'.phase = "Unrecoverable" => snap.phase # "Staged")
      BY <1>3, ReconciledFields DEF ReconcileStaged, ReconcileActive, ReconcileAtRest
    <3> QED
      BY <1>0, <1>3, <2>2, <3>1, <3>2, <3>3, ReconciledFields
  <2>3. CASE pc' # "r_prune"
    <3>1. /\ pc = "r_case" /\ pc' = "v_check" /\ ret' = "r_prune" /\ UNCHANGED mem
          /\ UNCHANGED <<disk, system, cmd, snap, verdict, history>>
      BY <1>3, <2>3 DEF ReconcileStaged, ReconcileActive, ReconcileAtRest, CallRecover
    <3>2. entry.phase # "Removing"
      BY <1>3, ReconciledFields DEF Resting
    <3> QED
      BY <1>0, <1>3, <3>1, <3>2, ReconciledFields
  <2> QED
    BY <2>2, <2>3
<1>6. CASE ReconcilePrune
  <2>1. /\ pc = "r_prune" /\ pc' = "r_store" /\ verdict' \in {verdict, "fail"}
        /\ UNCHANGED <<entry, scoped, legacy, system, cmd, mem, snap, ret, history>>
    BY <1>6 DEF ReconcilePrune
  <2>2. \/ UNCHANGED rollback
        \/ \E R \in LeftRollbacks(snap.knownGood) : SetRollbacks(R)
    BY <1>6 DEF ReconcilePrune, LeftRollbacks
  <2>3. snap.knownGood \in Versions \cup {None} /\ TypeOK
    BY <1>0 DEF Entry, TypeInv
  <2>4. /\ entry.knownGood # None => entry.knownGood = snap.knownGood
        /\ mem.knownGood # None => mem.knownGood = snap.knownGood
    BY <2>1 DEF FallbackInv, ReconcileInv
  <2>5. /\ entry.knownGood # None =>
             rollback'[running][entry.knownGood] = rollback[running][entry.knownGood]
        /\ mem.knownGood # None =>
             rollback'[running][mem.knownGood] = rollback[running][mem.knownGood]
    BY <2>2, <2>3, <2>4, PruneRetains
  <2>6. MayFollow(mem)'
    <3>1. MayFollow(mem)
      BY <2>1
    <3> QED
      BY <2>1, <2>5, <3>1 DEF MayFollow, SameMode, Vanished, WasUndone, WasGivenUp, IsUndoing,
         WasRemoved, WasAdopted, ActiveImage, Retained
  <2>7. ASSUME verdict' = "ok"
        PROVE  /\ mem.phase = "Unrecoverable" => candidates'[running] = {}
               /\ mem.active # None /\ rollback'[running][mem.active] # None
                    => mem.active = mem.knownGood
    <3>1. /\ verdict = "ok" /\ SetCandidates(candidates[running] \cap KeptCandidates)
          /\ snap.present => SetRollbacks(Kept(snap.knownGood))
      BY <1>6, <2>7 DEF ReconcilePrune
    <3>2. mem.phase = "Unrecoverable" => candidates'[running] = {}
      BY <2>1, <2>3, <3>1 DEF KeptCandidates, SetCandidates, TypeOK
    <3>3. ASSUME mem.active # None, rollback'[running][mem.active] # None
          PROVE  mem.active = mem.knownGood
      <4>1. snap.present /\ mem.knownGood = snap.knownGood /\ mem.active \in Versions
        BY <1>0, <2>1, <3>1, <3>3 DEF Entry
      <4>2. rollback'[running] = Kept(snap.knownGood)
        BY <2>3, <3>1, <4>1 DEF SetRollbacks, TypeOK
      <4> QED
        BY <3>3, <4>1, <4>2 DEF Kept
    <3> QED
      BY <3>2, <3>3
  <2>8. Retained(mem)' = Retained(mem) /\ ActiveImage' = ActiveImage /\ running' = running
    BY <2>1, <2>5 DEF Retained, ActiveImage
  <2> QED
    BY <1>0, <2>1, <2>6, <2>7
<1>7. CASE ReconcileStore
  <2>1. /\ pc = "r_store" /\ entry' \in {entry, mem}
        /\ UNCHANGED <<files, system, cmd, mem, snap, history>>
        /\ \/ pc' = "done" /\ verdict' = verdict /\ verdict # "ok"
           \/ pc' = "done" /\ verdict' = "fail"
           \/ /\ pc' = FirstStep(cmd.op) /\ entry' = mem /\ verdict = "ok" /\ verdict' = "ok"
              /\ ret' = IF cmd.op = "rollback" THEN "c_store" ELSE "done"
    BY <1>7 DEF ReconcileStore, StoreOk, StoreFails
  <2>2. CASE pc' = "done" /\ verdict' # "ok"
    BY <2>1, <2>2
  <2>3. CASE /\ pc' = FirstStep(cmd.op) /\ entry' = mem /\ verdict = "ok" /\ verdict' = "ok"
             /\ ret' = IF cmd.op = "rollback" THEN "c_store" ELSE "done"
    <3>1. mem.phase \in Resting /\ entry' = mem'
      BY <2>1, <2>3
    <3>2. MayFollow(mem)'
      BY <3>1 DEF MayFollow, SameMode
    <3>3. /\ pc' \in {"g_verify", "a_check", "s_place", "d_check", "v_check", "x_record", "c_store"}
          /\ pc' = "v_check" => ret' = "c_store"
          /\ pc' # "c_store" => cmd.op \notin Marks
      BY <2>3, FirstSteps DEF FirstStep
    <3> QED
      BY <1>0, <2>1, <2>3, <3>1, <3>2, <3>3 DEF Resting
  <2> QED
    BY <2>1, <2>2, <2>3
<1> QED
  BY <1>1, <1>2, <1>3, <1>6, <1>7 DEF Reconcile

\* Giving up may follow anything but a removal.
LEMMA TerminalFields ==
  ASSUME mem \in Entry, Terminal
  PROVE  /\ mem'.knownGood = mem.knownGood /\ mem'.active = mem.active
         /\ mem'.required = mem.required
         /\ mem'.present /\ mem'.phase = "Unrecoverable"
         /\ entry' \in {entry, mem'} /\ pc' = ret /\ verdict' = "fail"
  BY DEF Terminal, StoreOk, StoreFails, Entry

\* Giving up keeps it wherever recovery may give up.
LEMMA TerminalSupervised ==
  ASSUME TypeInv, FallbackInv, SupervisionInv, Terminal, pc \in RecoverSteps,
         UNCHANGED <<rollback, candidates, running, cmd, snap, ret>>
  PROVE  SupervisionInv'
<1> USE DEF SupervisionInv, FreshInv, StoreInv, UndoInv, RestInv, RefusalInv, OutgoingInv, TrialInv
<1> USE DEF FreshSteps, RecoverSteps, RemovalSteps, Unresolved, Marks
<1>1. mem \in Entry /\ ret \in {"r_prune", "c_store", "done"}
  BY DEF TypeInv, TypeOK, ControlInv
<1>2. mem.knownGood = entry.knownGood /\ entry.phase # "Removing"
  OBVIOUS
<1>3. MayFollow(mem)'
  BY <1>1, <1>2, TerminalFields DEF MayFollow, SameMode, WasGivenUp
<1>4. pc' = "c_store" => cmd.op \notin Marks
  BY <1>1, TerminalFields
<1> QED
  BY <1>1, <1>2, <1>3, <1>4, TerminalFields

\* Recovery.
LEMMA RecoverSupervised ==
  ASSUME TypeInv, FallbackInv, SupervisionInv, Recover
  PROVE  SupervisionInv'
<1> USE DEF disk, files, system, agent, history
<1> USE DEF SupervisionInv, FreshInv, StoreInv, UndoInv, RestInv, RefusalInv, OutgoingInv, TrialInv
<1> USE DEF FreshSteps, RecoverSteps, RemovalSteps, Unresolved, Marks
<1>0. /\ entry \in Entry /\ mem \in Entry /\ snap \in Entry
      /\ pc \in RecoverSteps => ret \in {"r_prune", "c_store", "done"}
  BY DEF TypeInv, TypeOK, ControlInv
<1>t. ASSUME Terminal, pc \in RecoverSteps,
             UNCHANGED <<rollback, candidates, running, cmd, snap, ret>>
      PROVE  SupervisionInv'
  BY <1>t, TerminalSupervised
<1>1. CASE RecoverRefuse
  BY <1>1, <1>t DEF RecoverRefuse
<1>2. CASE RecoverBegin
  <2>1. /\ mem'.knownGood = mem.knownGood /\ mem'.active = mem.active
        /\ mem'.present = mem.present /\ mem'.required = mem.required
        /\ mem'.phase = "Reverting" /\ entry' \in {entry, mem'}
        /\ \/ pc' = "v_install" /\ entry' = mem' /\ UNCHANGED verdict
           \/ pc' = ret /\ verdict' = "fail"
        /\ pc = "v_check" /\ Fallback # None
        /\ UNCHANGED <<files, system, cmd, snap, ret, history>>
    BY <1>0, <1>2 DEF RecoverBegin, StoreOk, StoreFails, Entry
  <2>2. Fallback' = Fallback /\ Retained(entry)' = Retained(entry) /\ Fallback = Retained(entry)
    BY <1>0, <2>1 DEF Fallback, Retained
  <2>3. MayFollow(mem)'
    BY <1>0, <2>1, <2>2 DEF MayFollow, SameMode, IsUndoing
  <2> QED
    BY <1>0, <2>1, <2>2, <2>3
<1>3. CASE RecoverHide
  BY <1>3 DEF RecoverHide, HideLegacy, Fallback
<1>4. CASE RecoverInstall
  <2>1. CASE Terminal
    BY <1>4, <1>t, <2>1 DEF RecoverInstall
  <2>2. CASE ~Terminal
    <3>1. /\ pc = "v_install" /\ PublishActive(Fallback) /\ pc' = "v_refresh"
          /\ UNCHANGED <<entry, legacy, mem, verdict, rollback, candidates, system, cmd, snap, ret, history>>
      BY <1>4, <2>2 DEF RecoverInstall
    <3>2. Fallback' = Fallback /\ Fallback # None /\ entry.phase = "Reverting"
      BY <3>1 DEF Fallback, FallbackInv, PhaseInv
    <3>3. ActiveImage' = Fallback
      BY <3>1, <3>2 DEF PublishActive, ActiveImage, TypeInv, TypeOK
    <3> QED
      BY <1>0, <3>1, <3>2, <3>3
  <2> QED
    BY <2>1, <2>2
<1>5. CASE RecoverRefresh
  <2>1. CASE Terminal
    BY <1>5, <1>t, <2>1 DEF RecoverRefresh
  <2>2. CASE ~Terminal
    BY <1>5, <2>2 DEF RecoverRefresh, Fallback, ActiveImage
  <2> QED
    BY <2>1, <2>2
<1>6. CASE RecoverVerify
  <2>1. CASE Terminal
    BY <1>6, <1>t, <2>1 DEF RecoverVerify
  <2>2. CASE ~Terminal
    <3>1. /\ mem'.knownGood = mem.knownGood /\ mem'.active = mem.knownGood
          /\ mem'.present = mem.present /\ mem'.required = mem.required
          /\ mem'.phase = "Recovered" /\ entry' \in {entry, mem'}
          /\ \/ pc' = "v_prune" /\ entry' = mem' /\ UNCHANGED verdict
             \/ pc' = ret /\ verdict' = "fail"
          /\ pc = "v_verify"
          /\ UNCHANGED <<files, system, cmd, snap, ret>>
      BY <1>0, <1>6, <2>2, ZenonT(60) DEF RecoverVerify, StoreOk, StoreFails, Entry
    <3>2. /\ ActiveImage' = ActiveImage /\ Fallback # None /\ Fallback = Retained(entry)
          /\ Retained(entry)' = Retained(entry) /\ Fallback' = Fallback
      BY <1>0, <3>1 DEF ActiveImage, Fallback, Retained
    <3>3. mem.present /\ mem.active # None
      BY <1>0, <3>1, <3>2 DEF Fallback, FallbackInv, HoldsInv, Paired
    <3>4. MayFollow(mem)'
      BY <1>0, <3>1, <3>2 DEF MayFollow, SameMode, WasUndone
    <3>5. mem'.phase \in Resting
      BY <3>1 DEF Resting, Phase, Transient
    <3> QED
      BY <1>0, <3>1, <3>2, <3>3, <3>4, <3>5
  <2> QED
    BY <2>1, <2>2
<1>7. CASE RecoverPrune
  <2>1. /\ pc = "v_prune" /\ pc' = ret /\ entry = mem /\ mem.phase = "Recovered"
        /\ UNCHANGED <<entry, scoped, legacy, system, cmd, mem, snap, ret, verdict, history>>
    BY <1>7 DEF RecoverPrune, FallbackInv, PruneInv
  <2>2. MayFollow(mem)'
    BY <2>1 DEF MayFollow, SameMode
  <2>3. mem.phase \in Resting
    BY <2>1 DEF Resting, Phase, Transient
  <2> QED
    BY <1>0, <2>1, <2>2, <2>3
<1> QED
  BY <1>1, <1>2, <1>3, <1>4, <1>5, <1>6, <1>7 DEF Recover

\* Removal.
LEMMA RemoveSupervised ==
  ASSUME TypeInv, FallbackInv, SupervisionInv, Remove
  PROVE  SupervisionInv'
<1> USE DEF disk, files, system, agent, history
<1> USE DEF SupervisionInv, FreshInv, StoreInv, UndoInv, RestInv, RefusalInv, OutgoingInv, TrialInv
<1> USE DEF FreshSteps, RecoverSteps, RemovalSteps, Unresolved, Marks
<1>0. /\ entry \in Entry /\ mem \in Entry /\ snap \in Entry
      /\ pc \in RemovalSteps => ret \in {"r_prune", "c_store"} /\ entry.phase = "Removing"
                                  /\ mem.phase = "Removing"
  BY DEF TypeInv, TypeOK, ControlInv, FallbackInv, RemovingInv
<1>1. CASE RemoveRecord
  <2>1. /\ mem'.knownGood = mem.knownGood /\ mem'.active = mem.active
        /\ mem'.present /\ mem'.phase = "Removing" /\ entry' \in {entry, mem'}
        /\ \/ pc' = "x_files" /\ ret' = "c_store" /\ UNCHANGED verdict
           \/ pc' = "done" /\ verdict' = "fail"
        /\ pc = "x_record"
        /\ UNCHANGED <<files, system, cmd, snap, history>>
    BY <1>0, <1>1 DEF RemoveRecord, StoreOk, StoreFails, Entry
  <2> QED
    BY <1>0, <2>1
<1>2. ASSUME RemovalFails, pc \in RemovalSteps, UNCHANGED <<entry, running, cmd, mem, snap, ret>>
      PROVE  SupervisionInv'
  <2>1. verdict' = "fail" /\ pc' \in {"done", "r_prune"} /\ (pc' = "r_prune" => ret = "r_prune")
    BY <1>0, <1>2 DEF RemovalFails
  <2>2. MayFollow(mem)'
    BY <1>0, <1>2 DEF MayFollow, SameMode
  <2> QED
    BY <1>0, <1>2, <2>1, <2>2
<1>3. CASE RemoveFiles
  <2>1. CASE RemovalFails
    BY <1>2, <1>3, <2>1 DEF RemoveFiles
  <2>2. CASE ~RemovalFails
    <3>1. /\ scoped' = [scoped EXCEPT ![running] = None] /\ legacy' = None
          /\ pc = "x_files" /\ pc' = "x_refresh"
          /\ UNCHANGED <<entry, rollback, candidates, system, cmd, mem, snap, ret, history, verdict>>
      BY <1>3, <2>2 DEF RemoveFiles
    <3>2. ActiveImage' = None
      BY <3>1 DEF ActiveImage, TypeInv, TypeOK
    <3> QED
      BY <1>0, <3>1, <3>2
  <2> QED
    BY <2>1, <2>2
<1>4. CASE RemoveRefresh
  <2>1. CASE RemovalFails
    BY <1>2, <1>4, <2>1 DEF RemoveRefresh
  <2>2. CASE ~RemovalFails
    <3>1. ActiveImage' = ActiveImage
      BY <1>4 DEF RemoveRefresh, ActiveImage
    <3> QED
      BY <1>4, <2>2, <3>1 DEF RemoveRefresh
  <2> QED
    BY <2>1, <2>2
<1>5. CASE RemovePrune
  <2>1. CASE RemovalFails /\ UNCHANGED mem
    BY <1>2, <1>5, <2>1 DEF RemovePrune
  <2>2. CASE ~(RemovalFails /\ UNCHANGED mem)
    <3>1. /\ pc = "x_prune" /\ SetCandidates({}) /\ SetRollbacks(Kept(None))
          /\ mem' = [Cleared(mem) EXCEPT !.phase = "Idle"] /\ pc' = ret
          /\ UNCHANGED <<entry, scoped, legacy, system, cmd, snap, ret, history, verdict>>
      BY <1>5, <2>2 DEF RemovePrune
    <3>2. /\ mem'.phase = "Idle" /\ mem'.knownGood = None /\ mem'.active = None
          /\ mem'.present = mem.present /\ mem'.required = mem.required
      BY <1>0, <3>1 DEF Cleared, Entry
    <3>3. ActiveImage' = None
      BY <3>1 DEF ActiveImage
    <3>4. MayFollow(mem)'
      BY <1>0, <3>1, <3>2, <3>3 DEF MayFollow, WasRemoved
    <3>5. mem'.phase \in Resting
      BY <3>2 DEF Resting, Phase, Transient
    <3> QED
      BY <1>0, <3>1, <3>2, <3>3, <3>4, <3>5
  <2> QED
    BY <2>1, <2>2
<1> QED
  BY <1>1, <1>3, <1>4, <1>5 DEF Remove

\* Adoption.
LEMMA AdoptSupervised ==
  ASSUME TypeInv, FallbackInv, SupervisionInv, Adopt
  PROVE  SupervisionInv'
<1> USE DEF disk, files, system, agent, history
<1> USE DEF SupervisionInv, FreshInv, StoreInv, UndoInv, RestInv, RefusalInv, OutgoingInv, TrialInv
<1> USE DEF FreshSteps, RecoverSteps, RemovalSteps, Unresolved, Marks
<1>0. /\ entry \in Entry /\ mem \in Entry /\ snap \in Entry
      /\ pc \in AdoptSteps => ret \in {"done", "a_retain"}
      /\ pc = "d_check" => ret = "done"
      /\ pc = "d_copy" => ActiveImage # None
  BY DEF TypeInv, TypeOK, ControlInv, FallbackInv, RetainInv
<1>1. CASE AdoptCheck
  BY <1>0, <1>1 DEF AdoptCheck, AdoptSteps, Fail
<1>2. CASE AdoptCopy
  <2>1. ActiveImage' = ActiveImage
    BY <1>2 DEF AdoptCopy, ActiveImage
  <2> QED
    BY <1>0, <1>2, <2>1 DEF AdoptCopy, Fail, AdoptSteps
<1>3. CASE AdoptStore
  <2>1. /\ mem'.knownGood = AdoptedVersion /\ mem'.active = AdoptedVersion
        /\ mem'.present /\ mem'.required /\ mem'.phase = "Active" /\ entry' \in {entry, mem'}
        /\ \/ pc' = ret /\ entry' = mem' /\ UNCHANGED verdict
           \/ pc' = "done" /\ verdict' = "fail"
        /\ pc = "d_store"
        /\ UNCHANGED <<files, system, cmd, snap, ret, history>>
    BY <1>0, <1>3 DEF AdoptStore, Fail, StoreOk, StoreFails, KnownGood, Entry
  <2>2. "Active" \in Resting
    BY DEF Resting, Phase, Transient
  <2> QED
    BY <1>0, <2>1, <2>2 DEF AdoptSteps
<1> QED
  BY <1>1, <1>2, <1>3 DEF Adopt

\* Staging.
LEMMA StageSupervised ==
  ASSUME TypeInv, FallbackInv, SupervisionInv, Stage
  PROVE  SupervisionInv'
<1> USE DEF disk, files, system, agent, history
<1> USE DEF SupervisionInv, FreshInv, StoreInv, UndoInv, RestInv, RefusalInv, OutgoingInv, TrialInv
<1> USE DEF FreshSteps, RecoverSteps, RemovalSteps, Unresolved, Marks
<1>0. entry \in Entry /\ mem \in Entry /\ snap \in Entry
  BY DEF TypeInv, TypeOK
<1>1. CASE StageCandidate
  BY <1>0, <1>1 DEF StageCandidate, Fail
<1>2. CASE StageOtherBase
  BY <1>0, <1>2 DEF StageOtherBase, Fail
<1>3. CASE StageRecord
  <2>1. /\ mem'.knownGood = mem.knownGood /\ mem'.active = mem.active
        /\ mem'.present /\ mem'.phase = "Staged" /\ entry' \in {entry, mem'}
        /\ \/ pc' \in {"a_check", "done"} /\ entry' = mem' /\ UNCHANGED verdict
           \/ pc' = "done" /\ verdict' = "fail"
        /\ pc = "s_record"
        /\ UNCHANGED <<scoped, legacy, rollback, system, cmd, snap, ret, history>>
    BY <1>0, <1>3 DEF StageRecord, Fail, StoreOk, StoreFails, Entry
  <2>2. "Staged" \in Resting
    BY DEF Resting, Phase, Transient
  <2> QED
    BY <1>0, <2>1, <2>2
<1> QED
  BY <1>1, <1>2, <1>3 DEF Stage

\* Activation.
LEMMA AdvanceFields ==
  ASSUME mem \in Entry, NEW phase \in Swapping, NEW step, Advance(phase, step)
  PROVE  /\ mem'.knownGood = mem.knownGood /\ mem'.active = mem.active
         /\ mem'.present = mem.present /\ mem'.required = mem.required
         /\ mem'.phase = phase /\ entry' \in {entry, mem'}
         /\ \/ pc' = step /\ UNCHANGED <<ret, verdict>> /\ entry' = mem'
            \/ pc' = "v_check" /\ ret' = "done" /\ verdict' = "fail"
  BY DEF Advance, Revert, CallRecover, StoreOk, StoreFails, Entry

\* The steps of an activation keep it.
LEMMA ActivateSupervised ==
  ASSUME TypeInv, FallbackInv, SupervisionInv, Activate
  PROVE  SupervisionInv'
<1> USE DEF disk, files, system, agent, history
<1> USE DEF SupervisionInv, FreshInv, StoreInv, UndoInv, RestInv, RefusalInv, OutgoingInv, TrialInv
<1> USE DEF FreshSteps, RecoverSteps, RemovalSteps, Unresolved, Marks
<1>0. entry \in Entry /\ mem \in Entry /\ snap \in Entry
  BY DEF TypeInv, TypeOK
<1>s. /\ Swapping \cap {"Removing", "Unrecoverable"} = {}
      /\ "Active" \in Resting /\ {"Activating", "Starting", "Soaking"} \subseteq Swapping
  BY DEF Swapping, Resting, Phase, Transient
\* What is tried out is on record, and so can be taken back.
<1>r. ASSUME pc \in {"a_install", "a_refresh", "a_start", "a_ready", "a_soak"}, Revert,
             UNCHANGED <<mem, running, cmd, snap>>,
             entry' = entry \/ entry' = Committed
      PROVE  SupervisionInv'
  <2>1. pc' = "v_check" /\ ret' = "done" /\ verdict' = "fail"
    BY <1>r DEF Revert, CallRecover
  <2>2. entry'.knownGood = mem.knownGood /\ entry'.phase # "Removing" /\ entry'.present
    BY <1>0, <1>r, <1>s, ZenonT(60) DEF Committed, Entry
  <2> QED
    BY <1>0, <1>r, <2>1, <2>2
<1>1. CASE ActivateReplay
  BY <1>0, <1>1 DEF ActivateReplay
<1>2. CASE ActivateUnstaged
  BY <1>0, <1>2 DEF ActivateUnstaged, Fail
<1>3. CASE ActivateCheck
  BY <1>0, <1>3 DEF ActivateCheck, Fail
<1>4. CASE ActivateRetain
  <2>1. /\ pc = "a_retain" /\ pc' \in {"a_record", "done"} /\ (pc' = "done" => verdict' = "fail")
        /\ UNCHANGED <<entry, scoped, legacy, candidates, system, cmd, mem, history>>
    BY <1>4 DEF ActivateRetain, Fail
  <2>2. CASE pc' = "done"
    BY <1>0, <2>1, <2>2
  <2>3. CASE pc' = "a_record"
    <3>1. ASSUME mem.active # None
          PROVE  rollback'[running][mem.active] \in {Retained(mem)', ActiveImage'}
      <4>1. mem.active \in Versions /\ running \in Bases
        BY <1>0, <3>1 DEF Entry, TypeInv, TypeOK
      <4>2. CASE rollback' = [rollback EXCEPT ![running][mem.active] = ActiveImage]
        <5>1. rollback'[running][mem.active] = ActiveImage
          BY <4>1, <4>2 DEF TypeInv, TypeOK
        <5> QED
          BY <2>1, <5>1 DEF ActiveImage
      <4>3. CASE UNCHANGED rollback /\ rollback[running][mem.active] # None
        <5>1. mem.active = mem.knownGood
          BY <2>1, <3>1, <4>3
        <5> QED
          BY <2>1, <3>1, <4>3, <5>1 DEF Retained
      <4> QED
        BY <1>4, <2>3, <3>1, <4>2, <4>3 DEF ActivateRetain, Fail
    <3> QED
      BY <1>0, <2>1, <2>3, <3>1
  <2> QED
    BY <2>1, <2>2, <2>3
<1>5. CASE ActivateRecord
  <2>1. /\ mem'.present /\ mem'.phase = "Activating" /\ mem'.active = mem.active
        /\ entry' \in {entry, mem'}
        /\ \/ pc' = "a_install" /\ entry' = mem' /\ UNCHANGED verdict
           \/ pc' = "done" /\ verdict' = "fail"
        /\ pc = "a_record"
        /\ UNCHANGED <<files, system, cmd, snap, ret, history>>
    BY <1>0, <1>5 DEF ActivateRecord, Fail, StoreOk, StoreFails, KnownGood, Entry
  <2> QED
    BY <1>0, <1>s, <2>1
<1>6. CASE ActivateHide
  BY <1>0, <1>6 DEF ActivateHide, HideLegacy
<1>7. CASE ActivateInstall
  <2>1. CASE Revert
    BY <1>7, <1>r, <2>1 DEF ActivateInstall
  <2>2. CASE ~Revert
    <3>1. /\ PublishActive(Candidate) /\ pc = "a_install" /\ pc' = "a_refresh"
          /\ UNCHANGED <<legacy, ret, verdict, entry, rollback, candidates, system, cmd, mem, snap, history>>
      BY <1>7, <2>2 DEF ActivateInstall
    <3>2. Candidate # None
      BY <3>1, NoneAssumption DEF Candidate, TypeInv, TypeOK, ControlInv, Carries, ActivateSteps
    <3>3. ActiveImage' # None
      BY <3>1, <3>2 DEF PublishActive, ActiveImage, TypeInv, TypeOK
    <3> QED
      BY <1>0, <3>1, <3>3
  <2> QED
    BY <2>1, <2>2
<1>8. CASE ActivateRefresh
  <2>1. CASE Revert
    BY <1>8, <1>r, <2>1 DEF ActivateRefresh
  <2>2. CASE ~Revert
    BY <1>0, <1>8, <2>2 DEF ActivateRefresh, ActiveImage
  <2> QED
    BY <2>1, <2>2
<1>9. CASE ActivateStart \/ ActivateReady
  <2>1. CASE Revert /\ UNCHANGED <<entry, mem>>
    BY <1>9, <1>r, <2>1 DEF ActivateStart, ActivateReady
  <2>2. CASE ~(Revert /\ UNCHANGED <<entry, mem>>)
    <3>1. \/ pc = "a_start" /\ Advance("Starting", "a_ready")
          \/ pc = "a_ready" /\ Advance("Soaking", "a_soak")
      BY <1>9, <2>2 DEF ActivateStart, ActivateReady
    <3>2. UNCHANGED <<files, system, cmd, snap, history>>
      BY <1>9 DEF ActivateStart, ActivateReady
    <3>3. ActiveImage' = ActiveImage
      BY <3>2 DEF ActiveImage
    <3> QED
      BY <1>0, <1>s, <3>1, <3>2, <3>3, AdvanceFields
  <2> QED
    BY <2>1, <2>2
<1>10. CASE ActivateSoak
  <2>1. CASE Revert
    <3>1. /\ pc = "a_soak" /\ entry' \in {entry, Committed}
          /\ UNCHANGED <<mem, running, cmd, snap>>
      BY <1>10, <2>1 DEF ActivateSoak, StoreOk, StoreFails, Revert, CallRecover
    <3> QED
      BY <1>r, <2>1, <3>1
  <2>2. CASE ~Revert
    <3>1. /\ pc = "a_soak" /\ entry' = Committed /\ mem' = Committed /\ pc' = "a_prune"
          /\ UNCHANGED <<ret, verdict, files, system, cmd, snap>>
      BY <1>10, <2>2 DEF ActivateSoak, StoreOk
    <3>2. Committed.phase = "Active" /\ Committed.present = mem.present
      BY <1>0 DEF Committed, Entry
    <3> QED
      BY <1>0, <1>s, <3>1, <3>2
  <2> QED
    BY <2>1, <2>2
<1>11. CASE ActivatePrune
  BY <1>0, <1>11, <1>s DEF ActivatePrune
<1> QED
  BY <1>1, <1>2, <1>3, <1>4, <1>5, <1>6, <1>7, <1>8, <1>9, <1>10, <1>11 DEF Activate

\* The health gate.
LEMMA GateSupervised ==
  ASSUME TypeInv, FallbackInv, SupervisionInv, Gate
  PROVE  SupervisionInv'
<1> USE DEF disk, files, system, agent, history
<1> USE DEF SupervisionInv, FreshInv, StoreInv, UndoInv, RestInv, RefusalInv, OutgoingInv, TrialInv
<1> USE DEF FreshSteps, RecoverSteps, RemovalSteps, Unresolved, Marks
<1>0. entry \in Entry /\ mem \in Entry /\ snap \in Entry
  BY DEF TypeInv, TypeOK
<1>s. "Active" \in Resting /\ "Active" # "Unrecoverable" /\ "Removing" \notin Resting
  BY DEF Resting, Phase, Transient
<1>1. CASE GateNotRequired
  BY <1>0, <1>1 DEF GateNotRequired
<1>2. CASE GateTerminal
  <2>1. MayFollow(mem)'
    BY <1>2 DEF GateTerminal, Fail, MayFollow, SameMode
  <2> QED
    BY <1>0, <1>2, <2>1 DEF GateTerminal, Fail
<1>3. CASE GateUnhealthy
  BY <1>0, <1>3, <1>s DEF GateUnhealthy, CallRecover
<1>4. CASE GateHealthy
  <2>1. /\ mem'.knownGood = mem.knownGood /\ mem'.active = mem.active
        /\ mem'.present = mem.present /\ mem'.required = mem.required /\ mem'.phase = "Active"
        /\ pc = "g_verify" /\ pc' = "c_store"
        /\ UNCHANGED <<disk, system, cmd, snap, ret, verdict>>
    BY <1>0, <1>4 DEF GateHealthy, Verified, Entry
  <2>2. MayFollow(mem)'
    BY <1>s, <2>1 DEF MayFollow, SameMode
  <2> QED
    BY <1>0, <1>s, <2>1, <2>2
<1>5. CASE GateSoak
  <2>1. MayFollow(mem)'
    BY <1>5 DEF GateSoak, MayFollow, SameMode, Fail
  <2> QED
    BY <1>0, <1>5, <2>1 DEF GateSoak, Fail
<1>6. CASE GateAdopt
  <2>1. /\ pc = "g_adopt" /\ pc' = "c_store" /\ mem = entry /\ entry.phase \in Resting
        /\ UNCHANGED <<entry, scoped, legacy, candidates, system, cmd, snap, ret, history>>
        /\ merged.version \in Versions /\ running \in Bases
    BY <1>6, FilesTyped DEF GateAdopt, TypeInv, TypeOK, ControlInv
  <2>2. CASE verdict' = "fail" /\ UNCHANGED mem
    <3>1. MayFollow(mem)'
      BY <2>1, <2>2 DEF MayFollow, SameMode
    <3> QED
      BY <1>0, <2>1, <2>2, <3>1
  <2>3. CASE ~(verdict' = "fail" /\ UNCHANGED mem)
    <3>1. /\ ActiveImage # None
          /\ rollback' = [rollback EXCEPT ![running][merged.version] = ActiveImage]
          /\ mem'.knownGood = merged.version /\ mem'.active = merged.version
          /\ mem'.present = mem.present /\ mem'.required = mem.required /\ mem'.phase = "Active"
      <4> DEFINE v == merged.version
                 m == Verified([KnownGood(mem, v) EXCEPT !.active = v, !.candidate = None])
      <4>1. /\ m.knownGood = v /\ m.active = v /\ m.phase = "Active"
            /\ m.present = mem.present /\ m.required = mem.required
        BY <1>0 DEF Verified, KnownGood, Entry
      <4>2. /\ ActiveImage # None /\ mem' = m
            /\ rollback' = [rollback EXCEPT ![running][v] = ActiveImage]
        BY <1>6, <2>3 DEF GateAdopt
      <4> HIDE DEF m
      <4> QED
        BY <4>1, <4>2
    <3>2. rollback'[running][merged.version] = ActiveImage
      BY <2>1, <3>1 DEF TypeInv, TypeOK
    <3>3. mem.present
      BY <2>1
    <3>4. MayFollow(mem)'
      BY <1>s, <2>1, <3>1, <3>2, NoneAssumption DEF MayFollow, WasAdopted, ActiveImage, Retained
    <3> QED
      BY <1>0, <1>s, <2>1, <3>1, <3>3, <3>4
  <2> QED
    BY <2>2, <2>3
<1> QED
  BY <1>1, <1>2, <1>3, <1>4, <1>5, <1>6 DEF Gate

\* The closing store, the exit, a kill, a reboot and a new command.
LEMMA OtherSupervised ==
  ASSUME TypeInv, FallbackInv, SupervisionInv,
         \/ CommandStore \/ Finish \/ Kill
         \/ \E c \in Commands : Start(c)
         \/ \E b \in Bases : Reboot(b)
  PROVE  SupervisionInv'
<1> USE DEF disk, files, system, agent, history
<1> USE DEF SupervisionInv, FreshInv, StoreInv, UndoInv, RestInv, RefusalInv, OutgoingInv, TrialInv
<1> USE DEF FreshSteps, RecoverSteps, RemovalSteps, Unresolved, Marks
<1>0. entry \in Entry /\ mem \in Entry /\ snap \in Entry
  BY DEF TypeInv, TypeOK
<1>1. CASE CommandStore
  <2>1. /\ pc = "c_store" /\ pc' = "done" /\ entry' \in {entry, mem'} /\ mem' = Marked(mem)
        /\ verdict' = "ok" => verdict = "ok" /\ entry' = mem'
        /\ UNCHANGED <<files, system, cmd, snap, ret, history>>
    BY <1>1 DEF CommandStore, Fail, StoreOk, StoreFails
  <2>2. /\ mem'.phase \in {mem.phase, "Idle"}
        /\ mem'.active = mem.active
        /\ mem'.present \/ mem' = mem
    BY <1>0, <2>1 DEF Marked, Entry
  <2>3. "Idle" \in Resting
    BY DEF Resting, Phase, Transient
  <2> QED
    BY <1>0, <2>1, <2>2, <2>3
<1>2. CASE Finish \/ Kill \/ \E b \in Bases : Reboot(b)
  <2>1. Exit /\ UNCHANGED disk
    BY <1>2 DEF Finish, Kill, Reboot
  <2> QED
    BY <1>0, <2>1 DEF Exit, AbsentEntry
<1>3. CASE \E c \in Commands : Start(c)
  <2>1. /\ pc' = "r_case" /\ verdict' = "ok" /\ mem' = Forget(entry) /\ snap' = mem'
        /\ UNCHANGED <<disk, system, history>>
    BY <1>3 DEF Start
  <2>2. mem'.present = entry.present /\ mem'.active = entry.active /\ mem'.required = entry.required
    BY <1>0, <2>1 DEF Forget, Entry
  <2> QED
    BY <1>0, <2>1, <2>2
<1> QED
  BY <1>1, <1>2, <1>3

\* Every step keeps it.
LEMMA NextSupervised ==
  ASSUME TypeInv, FallbackInv, SupervisionInv, [Next]_vars
  PROVE  SupervisionInv'
<1>1. CASE Next
  BY <1>1, ReconcileSupervised, RecoverSupervised, RemoveSupervised, AdoptSupervised,
     ActivateSupervised, StageSupervised, GateSupervised, OtherSupervised DEF Next, AgentStep
<1>2. CASE UNCHANGED vars
  BY <1>2 DEF vars, disk, files, system, agent, history, SupervisionInv, FreshInv, StoreInv,
     UndoInv, RestInv, RefusalInv, OutgoingInv, TrialInv, MayFollow, SameMode, Vanished,
     WasUndone, WasGivenUp, IsUndoing, WasRemoved, WasAdopted, ActiveImage, Retained, Fallback,
     Unresolved
<1> QED
  BY <1>1, <1>2

\* All that the theorems about supervision rest on.
LEMMA SupervisionInductive == Spec => [](TypeInv /\ FallbackInv /\ SupervisionInv)
  BY InitTyped, InitFallback, InitSupervised, NextTyped, NextFallback, NextSupervised, PTL
  DEF Spec

\* reconcile_state: an interrupted transaction is resolved "before a new command is
\* allowed to mutate anything", and no command reports success over one.
THEOREM WorkBeginsAtRest == Spec => []SettledFirst
<1>1. SupervisionInv => SettledFirst
  BY DEF SupervisionInv, FreshInv, RestInv, FreshSteps, SettledFirst, Resting
<1> QED
  BY <1>1, SupervisionInductive, PTL
--------------------------------------------------------------------------------
(***************************************************************************)
(* Every step is one of Supervision, or none.                              *)
(***************************************************************************)
Abstract == [Promised!Next]_(Promised!vars)

\* What the abstract variables stand for has its type.
LEMMA AbstractTyped ==
  ASSUME TypeInv
  PROVE  /\ ActiveImage \in Image \cup {None} /\ Retained(entry) \in Image \cup {None}
         /\ running \in Bases /\ None \notin Image
         /\ \A e \in Entry : Retained(e) \in Image \cup {None}
<1>1. \A e \in Entry : Retained(e) \in Image \cup {None}
  BY DEF Retained, Entry, TypeInv, TypeOK
<1>2. None \notin Image
  BY NoneAssumption DEF Image
<1> QED
  BY <1>1, <1>2, FilesTyped DEF TypeInv, TypeOK

\* The record at rest is one of two modes.
LEMMA Modes ==
  /\ entry.phase \in Swapping <=> Mode = "swapping"
  /\ entry.phase = "Reverting" <=> Mode = "undoing"
  /\ entry.phase = "Removing" <=> Mode = "removing"
  /\ entry.phase = "Unrecoverable" <=> Mode = "given up"
  /\ entry.phase \in Resting \ {"Unrecoverable"} => Mode = "settled"
  /\ entry.phase \in Phase => (Mode = "settled" => entry.phase \in Resting \ {"Unrecoverable"})
  BY DEF Mode, Swapping, Resting, Phase, Transient

\* A step that leaves the record and these files alone is none of Supervision's.
LEMMA Stutters ==
  ASSUME UNCHANGED <<entry, running>>, ActiveImage' = ActiveImage,
         Retained(entry)' = Retained(entry)
  PROVE  Abstract
  BY DEF Abstract, Promised!vars, Mode, Retained

\* The same of the mode after a step.
LEMMA Modes2 == Modes'
  BY Modes, PTL

\* A store of what may follow the record is a step of Supervision, as long as no
\* file moves with it.
LEMMA StoreIsAbstract ==
  ASSUME TypeInv, NEW m \in Entry, MayFollow(m), entry' \in {entry, m},
         UNCHANGED <<running, rollback>>, ActiveImage' = ActiveImage
  PROVE  Abstract
<1> USE DEF Promised!Next, Promised!Becomes
<1>0. /\ entry \in Entry /\ entry.phase \in Phase /\ m.phase \in Phase
      /\ Retained(entry) \in Image \cup {None} /\ Retained(m) \in Image \cup {None}
  BY AbstractTyped DEF TypeInv, TypeOK, Entry
<1>1. CASE entry' = entry
  BY <1>1, Stutters DEF Retained
<1> SUFFICES ASSUME entry' = m
             PROVE  Abstract
  BY <1>1
<1>k. /\ Retained(entry)' = Retained(m)
      /\ m.knownGood = entry.knownGood => Retained(m) = Retained(entry)
  BY DEF Retained
<1>2. CASE SameMode(m)
  <2>1. Retained(entry)' = Retained(entry)
    BY <1>2, <1>k DEF SameMode
  <2>2. \/ Mode' = Mode
        \/ Mode = "given up" /\ Mode' = "settled"
    BY <1>0, <1>2, Modes, Modes2 DEF SameMode, Mode
  <2>3. CASE Mode' = Mode
    BY <2>1, <2>3 DEF Abstract, Promised!vars, Retained
  <2>4. CASE Mode = "given up" /\ Mode' = "settled"
    <3>1. Promised!Readmit
      BY <2>1, <2>4 DEF Promised!Readmit, Retained
    <3> QED
      BY <3>1 DEF Abstract
  <2> QED
    BY <2>2, <2>3, <2>4
<1>3. CASE Vanished(m)
  <2>1. Promised!Forget
    BY <1>0, <1>3, <1>k, Modes, Modes2 DEF Vanished, Promised!Forget, Retained
  <2> QED
    BY <2>1 DEF Abstract
<1>4. CASE WasUndone(m)
  <2>1. Promised!Undone
    BY <1>0, <1>4, <1>k, Modes, Modes2 DEF WasUndone, Promised!Undone, Retained, Resting, Phase, Transient
  <2> QED
    BY <2>1 DEF Abstract
<1>5. CASE WasGivenUp(m)
  <2>1. Promised!GiveUp
    BY <1>0, <1>5, <1>k, Modes, Modes2 DEF WasGivenUp, Promised!GiveUp, Retained
  <2> QED
    BY <2>1 DEF Abstract
<1>6. CASE IsUndoing(m)
  <2>1. Retained(entry)' = Retained(entry) /\ Retained(entry) # None /\ Mode' = "undoing"
    BY <1>6, <1>k, Modes2 DEF IsUndoing
  <2>2. Mode \in {"settled", "swapping", "given up", "undoing"}
    BY <1>0, <1>6, Modes DEF IsUndoing, Mode
  <2>3. CASE Mode = "undoing"
    BY <2>1, <2>3 DEF Abstract, Promised!vars, Retained
  <2>4. CASE Mode # "undoing"
    <3>1. Promised!Undo
      BY <2>1, <2>2, <2>4 DEF Promised!Undo, Retained
    <3> QED
      BY <3>1 DEF Abstract
  <2> QED
    BY <2>3, <2>4
<1>7. CASE WasRemoved(m)
  <2>1. Promised!Removed
    BY <1>0, <1>7, <1>k, Modes, Modes2 DEF WasRemoved, Promised!Removed, Retained, Resting, Phase, Transient
  <2> QED
    BY <2>1 DEF Abstract
<1>8. CASE WasAdopted(m)
  <2>1. Promised!Adopt
    BY <1>0, <1>8, <1>k, Modes, Modes2 DEF WasAdopted, Promised!Adopt, Retained
  <2> QED
    BY <2>1 DEF Abstract
<1> QED
  BY <1>2, <1>3, <1>4, <1>5, <1>6, <1>7, <1>8 DEF MayFollow

\* Reconciliation moves no file Supervision sees; its store is a step of it.
LEMMA ReconcileIsAbstract ==
  ASSUME TypeInv, FallbackInv, SupervisionInv, Reconcile
  PROVE  Abstract
<1> USE DEF disk, files, system, agent, history
<1>0. entry \in Entry /\ mem \in Entry /\ snap \in Entry
  BY DEF TypeInv, TypeOK
<1>1. CASE ReconcileTransient \/ ReconcileRemoving \/ ReconcileStaged \/ ReconcileActive
             \/ ReconcileAtRest
  BY <1>1, Stutters DEF ReconcileTransient, ReconcileRemoving, ReconcileStaged, ReconcileActive,
     ReconcileAtRest, CallRecover, ActiveImage, Retained
<1>2. CASE ReconcilePrune
  <2>1. \/ UNCHANGED rollback
        \/ \E R \in LeftRollbacks(snap.knownGood) : SetRollbacks(R)
    BY <1>2 DEF ReconcilePrune, LeftRollbacks
  <2>2. entry.knownGood # None =>
          rollback'[running][entry.knownGood] = rollback[running][entry.knownGood]
    <3>1. entry.knownGood # None => entry.knownGood = snap.knownGood
      BY <1>2 DEF ReconcilePrune, FallbackInv, ReconcileInv, Unresolved
    <3>2. snap.knownGood \in Versions \cup {None} /\ TypeOK
      BY <1>0 DEF Entry, TypeInv
    <3> QED
      BY <2>1, <3>1, <3>2, PruneRetains
  <2> QED
    BY <1>2, <2>2, Stutters DEF ReconcilePrune, ActiveImage, Retained
<1>3. CASE ReconcileStore
  <2>1. MayFollow(mem) /\ entry' \in {entry, mem}
    BY <1>3 DEF ReconcileStore, StoreOk, StoreFails, SupervisionInv, StoreInv
  <2> QED
    BY <1>0, <1>3, <2>1, StoreIsAbstract DEF ReconcileStore, ActiveImage
<1> QED
  BY <1>1, <1>2, <1>3 DEF Reconcile

\* Recovery undoes: it begins, restores, and is done or gives up.
LEMMA RecoverIsAbstract ==
  ASSUME TypeInv, FallbackInv, SupervisionInv, Recover
  PROVE  Abstract
<1> USE DEF disk, files, system, agent, history
<1>0. entry \in Entry /\ mem \in Entry
  BY DEF TypeInv, TypeOK
<1>1. pc \in RecoverSteps /\ mem.knownGood = entry.knownGood /\ entry.phase # "Removing"
      /\ Fallback = Retained(entry)
  BY DEF Recover, RecoverRefuse, RecoverBegin, RecoverHide, RecoverInstall, RecoverRefresh,
     RecoverVerify, RecoverPrune, RecoverSteps, SupervisionInv, UndoInv, Fallback, Retained
<1>t. ASSUME Terminal, UNCHANGED <<files, running>>
      PROVE  Abstract
  <2>1. mem' \in Entry /\ entry' \in {entry, mem'} /\ MayFollow(mem')
    BY <1>0, <1>1, <1>t, TerminalTyped, TerminalFields DEF MayFollow, WasGivenUp, TypeInv
  <2> QED
    BY <1>t, <2>1, StoreIsAbstract DEF ActiveImage
<1>2. CASE RecoverRefuse
  BY <1>2, <1>t DEF RecoverRefuse
<1>3. CASE RecoverBegin
  <2>1. /\ mem' = [mem EXCEPT !.phase = "Reverting"] /\ entry' \in {entry, mem'}
        /\ Fallback # None /\ UNCHANGED <<files, system>>
    BY <1>3 DEF RecoverBegin, StoreOk, StoreFails
  <2>2. mem' \in Entry /\ MayFollow(mem')
    BY <1>0, <1>1, <2>1, PhaseTyped DEF MayFollow, IsUndoing, Phase, Transient, Entry
  <2> QED
    BY <2>1, <2>2, StoreIsAbstract DEF ActiveImage
<1>4. CASE RecoverHide \/ RecoverInstall
  <2>1. /\ pc = "v_install" /\ entry.phase = "Reverting" /\ Mode = "undoing" /\ Fallback # None
        /\ UNCHANGED <<rollback, running>>
    BY <1>4, Modes DEF RecoverHide, RecoverInstall, FallbackInv, PhaseInv, SupervisionInv, UndoInv
  <2>2. ActiveImage' \in {ActiveImage, None, Fallback}
    <3>1. \/ UNCHANGED scoped /\ legacy' \in {legacy, None}
          \/ legacy = None /\ UNCHANGED legacy /\ scoped' = [scoped EXCEPT ![running] = Fallback]
      BY <1>4 DEF RecoverHide, HideLegacy, RecoverInstall, PublishActive, InstallFails
    <3> QED
      BY <2>1, <3>1 DEF ActiveImage, TypeInv, TypeOK
  <2>3. CASE UNCHANGED entry
    <3>1. Retained(entry)' = Retained(entry)
      BY <2>1, <2>3 DEF Retained
    <3>2. CASE ActiveImage' = ActiveImage
      BY <2>1, <2>3, <3>1, <3>2, Stutters
    <3>3. CASE ActiveImage' # ActiveImage
      <4>1. Promised!Restore
        BY <1>1, <2>1, <2>2, <2>3, <3>1, <3>3
        DEF Promised!Restore, Promised!Becomes, Mode, Retained
      <4> QED
        BY <4>1 DEF Abstract, Promised!Next
    <3> QED
      BY <3>2, <3>3
  <2>4. CASE entry' # entry
    <3>1. Terminal
      BY <1>4, <2>4 DEF RecoverHide, RecoverInstall
    <3>2. /\ entry'.knownGood = entry.knownGood /\ entry'.phase = "Unrecoverable"
      BY <1>0, <1>1, <2>4, <3>1, TerminalFields
    <3>3. Retained(entry)' = Retained(entry) /\ Mode' = "given up"
      BY <2>1, <3>2, Modes2 DEF Retained
    <3>4. Promised!GiveUp
      BY <1>1, <2>1, <2>2, <3>3 DEF Promised!GiveUp, Promised!Becomes, Retained
    <3> QED
      BY <3>4 DEF Abstract, Promised!Next
  <2> QED
    BY <2>3, <2>4
<1>5. CASE RecoverRefresh
  <2>1. CASE Terminal
    BY <1>5, <1>t, <2>1 DEF RecoverRefresh
  <2>2. CASE ~Terminal
    BY <1>5, <2>2, Stutters DEF RecoverRefresh, ActiveImage, Retained
  <2> QED
    BY <2>1, <2>2
<1>6. CASE RecoverVerify
  <2>1. CASE Terminal
    BY <1>6, <1>t, <2>1 DEF RecoverVerify
  <2>2. CASE ~Terminal
    <3>1. /\ mem' = [mem EXCEPT !.phase = "Recovered", !.active = mem.knownGood,
                                !.candidate = None, !.terminalOs = None]
          /\ entry' \in {entry, mem'} /\ pc = "v_verify" /\ UNCHANGED <<files, system>>
      BY <1>6, <2>2 DEF RecoverVerify, StoreOk, StoreFails
    <3>2. mem' \in Entry /\ mem'.knownGood = mem.knownGood /\ mem'.phase = "Recovered"
      BY <1>0, <3>1 DEF Entry, Phase
    <3>3. MayFollow(mem')
      BY <1>1, <3>1, <3>2 DEF MayFollow, WasUndone, SupervisionInv, UndoInv
    <3> QED
      BY <3>1, <3>2, <3>3, StoreIsAbstract DEF ActiveImage
  <2> QED
    BY <2>1, <2>2
<1>7. CASE RecoverPrune
  <2>1. PICK R \in LeftRollbacks(mem.knownGood) : SetRollbacks(R)
    BY <1>7 DEF RecoverPrune
  <2>2. mem.knownGood \in Versions \cup {None} /\ TypeOK
    BY <1>0 DEF Entry, TypeInv
  <2>3. entry.knownGood # None =>
          rollback'[running][entry.knownGood] = rollback[running][entry.knownGood]
    BY <1>1, <2>1, <2>2, PruneRetains
  <2> QED
    BY <1>7, <2>3, Stutters DEF RecoverPrune, ActiveImage, Retained
<1> QED
  BY <1>2, <1>3, <1>4, <1>5, <1>6, <1>7 DEF Recover

\* Removal is recorded, and then clears what it finds.
LEMMA RemoveIsAbstract ==
  ASSUME TypeInv, FallbackInv, SupervisionInv, Remove
  PROVE  Abstract
<1> USE DEF disk, files, system, agent, history
<1>0. /\ entry \in Entry /\ mem \in Entry
      /\ pc \in RemovalSteps => Mode = "removing"
      /\ pc = "x_record" => mem = entry /\ entry.phase \in Resting
  BY Modes DEF TypeInv, TypeOK, FallbackInv, RemovingInv, SupervisionInv, FreshInv, FreshSteps
\* Once the removal is on record it may take what it finds.
<1>c. ASSUME Mode = "removing", UNCHANGED <<entry, running>>,
             \A v \in Versions : rollback'[running][v] \in {None, rollback[running][v]}
      PROVE  Abstract
  <2>1. Mode' = "removing" /\ ActiveImage' \in Image \cup {None}
    <3>1. TypeOK'
      BY NextTyped DEF TypeInv, Next, AgentStep
    <3> QED
      BY <1>c, <3>1 DEF Mode, ActiveImage, TypeOK
  <2>2. Retained(entry)' \in {None, Retained(entry)}
    BY <1>0, <1>c DEF Retained, Entry
  <2>3. Promised!Clear
    BY <1>c, <2>1, <2>2 DEF Promised!Clear, Promised!Becomes, Retained
  <2> QED
    BY <2>3 DEF Abstract, Promised!Next
<1>1. CASE RemoveRecord
  <2>1. /\ entry' \in {entry, mem'} /\ mem'.knownGood = entry.knownGood /\ mem'.phase = "Removing"
        /\ entry.phase \in Resting /\ UNCHANGED <<files, system>>
    BY <1>0, <1>1 DEF RemoveRecord, StoreOk, StoreFails, Entry
  <2>2. ActiveImage' = ActiveImage
    BY <2>1 DEF ActiveImage
  <2>3. CASE entry' = entry
    BY <2>1, <2>2, <2>3, Stutters DEF Retained
  <2>4. CASE entry' = mem'
    <3>1. Retained(entry)' = Retained(entry) /\ Mode' = "removing" /\ Mode # "removing"
      BY <2>1, <2>4, Modes, Modes2 DEF Retained, Resting
    <3>2. Promised!Remove
      BY <2>1, <2>2, <3>1 DEF Promised!Remove, Promised!Becomes, Retained
    <3> QED
      BY <3>2 DEF Abstract, Promised!Next
  <2> QED
    BY <2>1, <2>3, <2>4
<1>2. CASE RemoveFiles
  BY <1>0, <1>2, <1>c DEF RemoveFiles, RemovalSteps
<1>3. CASE RemoveRefresh
  BY <1>3, Stutters DEF RemoveRefresh, ActiveImage, Retained
<1>4. CASE RemovePrune
  <2>1. \/ UNCHANGED rollback
        \/ \E R \in LeftRollbacks(None) : SetRollbacks(R)
    BY <1>4 DEF RemovePrune, LeftRollbacks
  <2>2. \A v \in Versions : rollback'[running][v] \in {None, rollback[running][v]}
    BY <2>1, PruneRetains DEF TypeInv
  <2> QED
    BY <1>0, <1>4, <1>c, <2>2 DEF RemovePrune, RemovalSteps
<1> QED
  BY <1>1, <1>2, <1>3, <1>4 DEF Remove

\* Adoption retains the image that runs, and then falls back to it.
LEMMA AdoptIsAbstract ==
  ASSUME TypeInv, FallbackInv, SupervisionInv, Adopt
  PROVE  Abstract
<1> USE DEF disk, files, system, agent, history
<1>0. /\ entry \in Entry /\ mem \in Entry /\ running \in Bases /\ None \notin Image
      /\ ActiveImage \in Image \cup {None}
      /\ pc \in AdoptSteps => mem = entry /\ entry.phase \in Resting /\ AdoptedVersion \in Versions
  <2>1. pc \in AdoptSteps => mem = entry /\ entry.phase \in Resting
    BY DEF SupervisionInv, FreshInv, FreshSteps, AdoptSteps
  <2>2. pc \in AdoptSteps => AdoptedVersion \in Versions
    BY FilesTyped DEF TypeInv, TypeOK, ControlInv, Carries, AdoptSteps, AdoptedVersion
  <2> QED
    BY <2>1, <2>2, AbstractTyped DEF TypeInv, TypeOK
<1>1. CASE AdoptCheck
  BY <1>1, Stutters DEF AdoptCheck, ActiveImage, Retained
<1>2. CASE AdoptCopy
  <2>1. /\ pc = "d_copy" /\ ActiveImage # None /\ ActiveImage' = ActiveImage
        /\ UNCHANGED <<entry, running>>
    BY <1>2 DEF AdoptCopy, FallbackInv, RetainInv, ActiveImage
  <2>2. \/ UNCHANGED rollback
        \/ /\ rollback[running][AdoptedVersion] = None
           /\ rollback' = [rollback EXCEPT ![running][AdoptedVersion] = ActiveImage]
    BY <1>2 DEF AdoptCopy
  <2>3. \/ Retained(entry)' = Retained(entry)
        \/ Retained(entry) = None /\ Retained(entry)' = ActiveImage
    BY <1>0, <2>1, <2>2 DEF Retained, TypeInv, TypeOK, AdoptSteps, Entry
  <2>4. CASE Retained(entry)' = Retained(entry)
    BY <2>1, <2>4, Stutters
  <2>5. CASE Retained(entry) = None /\ Retained(entry)' = ActiveImage
    <3>1. Mode \in {"settled", "given up"} /\ Mode' = Mode
      BY <1>0, <2>1, Modes DEF AdoptSteps, Mode
    <3>2. Promised!Retain
      BY <2>1, <2>5, <3>1 DEF Promised!Retain, Promised!Becomes, Retained
    <3> QED
      BY <3>2 DEF Abstract, Promised!Next
  <2> QED
    BY <2>3, <2>4, <2>5
<1>3. CASE AdoptStore
  <2>1. /\ pc = "d_store" /\ mem'.knownGood = AdoptedVersion /\ mem'.phase = "Active"
        /\ entry' \in {entry, mem'} /\ UNCHANGED <<files, system>>
    BY <1>0, <1>3 DEF AdoptStore, Fail, StoreOk, StoreFails, KnownGood, Entry
  <2>2. mem' \in Entry
    BY NextTyped DEF Adopt, Next, AgentStep, TypeInv, TypeOK
  <2>3. ActiveImage # None /\ rollback[running][AdoptedVersion] # None
    BY <2>1 DEF SupervisionInv, TrialInv, FallbackInv, RetainInv
  <2>4. MayFollow(mem')
    <3>1. AdoptedVersion # None /\ entry.phase \in Resting
      BY <1>0, <2>1, NoneAssumption DEF AdoptSteps
    <3>2. "Active" \in Resting \ {"Unrecoverable"}
      BY DEF Resting, Phase, Transient
    <3> QED
      BY <2>1, <2>3, <3>1, <3>2 DEF MayFollow, WasAdopted, Retained
  <2> QED
    BY <2>1, <2>2, <2>4, StoreIsAbstract DEF ActiveImage
<1> QED
  BY <1>1, <1>2, <1>3 DEF Adopt

\* Staging touches neither the image of the running base nor its fallback.
LEMMA StageIsAbstract ==
  ASSUME TypeInv, FallbackInv, SupervisionInv, Stage
  PROVE  Abstract
<1> USE DEF disk, files, system, agent, history
<1>1. CASE StageCandidate
  BY <1>1, Stutters DEF StageCandidate, ActiveImage, Retained
<1>2. CASE StageOtherBase
  <2>1. scoped'[running] = scoped[running] /\ UNCHANGED <<entry, legacy, rollback, system>>
    BY <1>2 DEF StageOtherBase, TypeInv, TypeOK
  <2> QED
    BY <2>1, Stutters DEF ActiveImage, Retained
<1>3. CASE StageRecord
  <2>1. /\ mem' \in Entry /\ mem'.phase = "Staged" /\ mem'.knownGood = entry.knownGood
        /\ entry' \in {entry, mem'} /\ entry.phase \in Resting
        /\ UNCHANGED <<scoped, legacy, rollback, system>>
    <3>1. pc = "s_record" /\ mem = entry /\ entry.phase \in Resting
      BY <1>3 DEF StageRecord, SupervisionInv, FreshInv, FreshSteps
    <3>2. mem' \in Entry
      BY <1>3, NextTyped DEF Stage, Next, AgentStep, TypeInv, TypeOK
    <3> QED
      BY <1>3, <3>1, <3>2 DEF StageRecord, StoreOk, StoreFails, Entry, TypeInv, TypeOK
  <2>2. MayFollow(mem')
    BY <2>1 DEF MayFollow, SameMode, Resting, Phase, Transient
  <2> QED
    BY <2>1, <2>2, StoreIsAbstract DEF ActiveImage
<1> QED
  BY <1>1, <1>2, <1>3 DEF Stage

\* Activation retains, begins, swaps and commits.
LEMMA ActivateIsAbstract ==
  ASSUME TypeInv, FallbackInv, SupervisionInv, Activate
  PROVE  Abstract
<1> USE DEF disk, files, system, agent, history
<1>0. /\ entry \in Entry /\ mem \in Entry /\ snap \in Entry /\ running \in Bases
      /\ ActiveImage \in Image \cup {None} /\ None \notin Image
  BY AbstractTyped DEF TypeInv, TypeOK
<1>k. ASSUME TypeInv'
      PROVE  ActiveImage' \in Image \cup {None}
  BY <1>k DEF TypeInv, TypeOK, ActiveImage
<1>f. pc \in {"a_retain", "a_record"}
        => mem = entry /\ entry.phase \in Resting \ {"Unrecoverable"} /\ Mode = "settled"
  BY Modes DEF SupervisionInv, FreshInv, FreshSteps, RefusalInv
<1>s. pc \in {"a_install", "a_refresh", "a_start", "a_ready", "a_soak"}
        => Mode = "swapping" /\ mem.knownGood = entry.knownGood
  BY Modes DEF SupervisionInv, TrialInv
<1>1. CASE ActivateReplay \/ ActivateUnstaged \/ ActivateCheck \/ ActivateRefresh
  BY <1>1, Stutters DEF ActivateReplay, ActivateUnstaged, ActivateCheck, ActivateRefresh, Fail,
     ActiveImage, Retained
<1>2. CASE ActivateRetain
  <2>1. /\ pc = "a_retain" /\ ActiveImage' = ActiveImage /\ UNCHANGED <<entry, running>>
    BY <1>2 DEF ActivateRetain, ActiveImage
  <2>2. \/ UNCHANGED rollback
        \/ /\ mem.active # None /\ rollback[running][mem.active] = None /\ ActiveImage # None
           /\ rollback' = [rollback EXCEPT ![running][mem.active] = ActiveImage]
    BY <1>2 DEF ActivateRetain
  <2>3. \/ Retained(entry)' = Retained(entry)
        \/ ActiveImage # None /\ Retained(entry) = None /\ Retained(entry)' = ActiveImage
    BY <1>0, <2>1, <2>2 DEF Retained, TypeInv, TypeOK, Entry
  <2>4. CASE Retained(entry)' = Retained(entry)
    BY <2>1, <2>4, Stutters
  <2>5. CASE ActiveImage # None /\ Retained(entry) = None /\ Retained(entry)' = ActiveImage
    <3>1. Mode = "settled" /\ Mode' = Mode
      BY <1>f, <2>1 DEF Mode
    <3>2. Promised!Retain
      BY <2>1, <2>5, <3>1 DEF Promised!Retain, Promised!Becomes, Retained
    <3> QED
      BY <3>2 DEF Abstract, Promised!Next
  <2> QED
    BY <2>3, <2>4, <2>5
<1>3. CASE ActivateRecord
  <2>1. /\ pc = "a_record" /\ entry' \in {entry, mem'} /\ mem'.phase = "Activating"
        /\ mem'.knownGood = IF mem.active = None THEN mem.knownGood ELSE mem.active
        /\ UNCHANGED <<files, system>>
    BY <1>0, <1>3 DEF ActivateRecord, Fail, StoreOk, StoreFails, KnownGood, Entry
  <2>2. ActiveImage' = ActiveImage
    BY <2>1 DEF ActiveImage
  <2>3. CASE entry' = entry
    BY <2>1, <2>2, <2>3, Stutters DEF Retained
  <2>4. CASE entry' = mem'
    <3>1. Mode' = "swapping" /\ Mode = "settled"
      BY <1>f, <2>1, <2>4, Modes2 DEF Swapping
    <3>2. Retained(entry)' \in {Retained(entry), ActiveImage}
      BY <1>f, <2>1, <2>4 DEF Retained, SupervisionInv, OutgoingInv
    <3>3. Promised!Begin
      BY <2>1, <2>2, <3>1, <3>2 DEF Promised!Begin, Promised!Becomes, Retained
    <3> QED
      BY <3>3 DEF Abstract, Promised!Next
  <2> QED
    BY <2>1, <2>3, <2>4
<1>4. CASE ActivateHide \/ ActivateInstall
  <2>1. pc = "a_install" /\ UNCHANGED <<entry, rollback, running>>
    BY <1>4 DEF ActivateHide, ActivateInstall
  <2>2. ActiveImage' \in Image \cup {None}
    BY <1>4, <1>k, NextTyped DEF Activate, Next, AgentStep
  <2>3. Promised!Swap
    BY <1>s, <2>1, <2>2 DEF Promised!Swap, Promised!Becomes, Mode
  <2> QED
    BY <2>3 DEF Abstract, Promised!Next
<1>5. CASE ActivateStart \/ ActivateReady
  <2>1. UNCHANGED <<files, system>> /\ pc \in {"a_start", "a_ready"}
    BY <1>5 DEF ActivateStart, ActivateReady
  <2>2. /\ entry'.knownGood = entry.knownGood
        /\ entry' = entry \/ entry'.phase \in Swapping
    <3>1. \/ UNCHANGED entry
          \/ Advance("Starting", "a_ready") \/ Advance("Soaking", "a_soak")
      BY <1>5 DEF ActivateStart, ActivateReady
    <3> QED
      BY <1>0, <1>s, <2>1, <3>1, AdvanceFields DEF Swapping
  <2>3. Mode' = Mode
    BY <1>s, <2>1, <2>2, Modes2 DEF Mode
  <2> QED
    BY <2>1, <2>2, <2>3 DEF Abstract, Promised!vars, ActiveImage
<1>6. CASE ActivateSoak
  <2>1. pc = "a_soak" /\ entry' \in {entry, Committed} /\ UNCHANGED <<files, system>>
    BY <1>6 DEF ActivateSoak, StoreOk, StoreFails
  <2>2. Committed.phase = "Active" /\ Committed.knownGood = entry.knownGood
    BY <1>0, <1>s, <2>1 DEF Committed, Entry
  <2>3. ActiveImage' = ActiveImage /\ ActiveImage # None
    BY <2>1 DEF ActiveImage, SupervisionInv, TrialInv
  <2>4. CASE entry' = entry
    BY <2>1, <2>3, <2>4, Stutters DEF Retained
  <2>5. CASE entry' = Committed
    <3>1. Mode = "swapping" /\ Mode' = "settled"
      BY <1>s, <2>1, <2>2, <2>5, Modes2 DEF Resting, Phase, Transient
    <3>2. Promised!Commit
      BY <2>1, <2>2, <2>3, <2>5, <3>1 DEF Promised!Commit, Promised!Becomes
    <3> QED
      BY <3>2 DEF Abstract, Promised!Next
  <2> QED
    BY <2>1, <2>4, <2>5
<1>7. CASE ActivatePrune
  <2>1. PICK R \in LeftRollbacks(snap.active) : SetRollbacks(R)
    BY <1>7 DEF ActivatePrune
  <2>2. snap.active \in Versions \cup {None} /\ TypeOK
    BY <1>0 DEF Entry, TypeInv
  <2>3. entry.knownGood # None => entry.knownGood = snap.active
    BY <1>7 DEF ActivatePrune, FallbackInv, PruneInv
  <2>4. entry.knownGood # None =>
          rollback'[running][entry.knownGood] = rollback[running][entry.knownGood]
    BY <2>1, <2>2, <2>3, PruneRetains
  <2> QED
    BY <1>7, <2>4, Stutters DEF ActivatePrune, ActiveImage, Retained
<1> QED
  BY <1>1, <1>2, <1>3, <1>4, <1>5, <1>6, <1>7 DEF Activate

\* The gate itself moves only what there is to fall back to.
LEMMA GateIsAbstract ==
  ASSUME TypeInv, FallbackInv, SupervisionInv, Gate
  PROVE  Abstract
<1> USE DEF disk, files, system, agent, history
<1>1. CASE GateNotRequired \/ GateTerminal \/ GateUnhealthy \/ GateHealthy \/ GateSoak
  BY <1>1, Stutters DEF GateNotRequired, GateTerminal, GateUnhealthy, GateHealthy, GateSoak,
     CallRecover, Fail, ActiveImage, Retained
<1>2. CASE GateAdopt
  <2>1. /\ pc = "g_adopt" /\ ActiveImage' = ActiveImage /\ UNCHANGED <<entry, running>>
        /\ mem = entry /\ entry.phase \in Resting \ {"Unrecoverable"}
    BY <1>2 DEF GateAdopt, ActiveImage, SupervisionInv, FreshInv, FreshSteps, RefusalInv
  <2>2. \/ UNCHANGED rollback
        \/ /\ ActiveImage # None
           /\ rollback' = [rollback EXCEPT ![running][merged.version] = ActiveImage]
    BY <1>2 DEF GateAdopt
  <2>3. /\ merged.version \in Versions /\ running \in Bases /\ entry \in Entry
        /\ ActiveImage \in Image \cup {None}
    BY <2>1, FilesTyped DEF TypeInv, TypeOK, ControlInv
  <2>4. \/ Retained(entry)' = Retained(entry)
        \/ ActiveImage # None /\ Retained(entry)' = ActiveImage
    BY <2>1, <2>2, <2>3 DEF Retained, TypeInv, TypeOK, Entry
  <2>5. CASE Retained(entry)' = Retained(entry)
    BY <2>1, <2>5, Stutters
  <2>6. CASE ActiveImage # None /\ Retained(entry)' = ActiveImage
    <3>1. Mode = "settled" /\ Mode' = Mode
      BY <2>1, Modes DEF Mode
    <3>2. Promised!Adopt
      BY <2>1, <2>3, <2>6, <3>1 DEF Promised!Adopt, Promised!Becomes, Retained
    <3> QED
      BY <3>2 DEF Abstract, Promised!Next
  <2> QED
    BY <2>4, <2>5, <2>6
<1> QED
  BY <1>1, <1>2 DEF Gate

\* The closing store, the exit, a kill, a reboot and a new command.
LEMMA OtherIsAbstract ==
  ASSUME TypeInv, FallbackInv, SupervisionInv,
         \/ CommandStore \/ Finish \/ Kill
         \/ \E c \in Commands : Start(c)
         \/ \E b \in Bases : Reboot(b)
  PROVE  Abstract
<1> USE DEF disk, files, system, agent, history
<1>1. CASE CommandStore
  <2>1. /\ pc = "c_store" /\ mem' = Marked(mem) /\ entry' \in {entry, mem'}
        /\ UNCHANGED <<files, system>>
    BY <1>1 DEF CommandStore, StoreOk, StoreFails
  <2>2. entry \in Entry /\ mem \in Entry /\ mem' \in Entry
    BY <1>1, NextTyped DEF Next, AgentStep, TypeInv, TypeOK
  <2>3. MayFollow(mem')
    <3>1. CASE cmd.op \in Marks
      <4>1. mem = entry /\ entry.phase \in Resting
        BY <2>1, <3>1 DEF SupervisionInv, FreshInv
      <4>2. mem'.knownGood = mem.knownGood /\ mem'.phase \in {mem.phase, "Idle"}
        BY <2>1, <2>2 DEF Marked, Entry
      <4> QED
        BY <4>1, <4>2 DEF MayFollow, SameMode, Resting, Phase, Transient
    <3>2. CASE cmd.op \notin Marks
      <4>1. mem' = mem /\ MayFollow(mem)
        BY <2>1, <3>2 DEF Marked, Marks, SupervisionInv, StoreInv
      <4> QED
        BY <4>1
    <3> QED
      BY <3>1, <3>2
  <2> QED
    BY <2>1, <2>2, <2>3, StoreIsAbstract DEF ActiveImage
<1>2. CASE Finish \/ Kill \/ \E c \in Commands : Start(c)
  BY <1>2, Stutters DEF Finish, Kill, Start, ActiveImage, Retained
<1>3. CASE \E b \in Bases : Reboot(b)
  <2>1. PICK b \in Bases : Reboot(b)
    BY <1>3
  <2>2. running' = b /\ UNCHANGED disk /\ Mode' = Mode
    BY <2>1 DEF Reboot, Mode
  <2>3. CASE b = running
    BY <2>2, <2>3, Stutters DEF ActiveImage, Retained
  <2>4. CASE b # running
    <3>1. ActiveImage' \in Image \cup {None} /\ Retained(entry)' \in Image \cup {None}
      BY <2>2 DEF ActiveImage, Retained, TypeInv, TypeOK, Entry
    <3>2. Promised!Reboot
      BY <2>2, <2>4, <3>1 DEF Promised!Reboot, Retained
    <3> QED
      BY <3>2 DEF Abstract, Promised!Next
  <2> QED
    BY <2>3, <2>4
<1> QED
  BY <1>1, <1>2, <1>3

\* A node starts at rest with nothing to fall back to.
LEMMA InitIsAbstract == Init => Promised!Init
<1> SUFFICES ASSUME Init
             PROVE  Promised!Init
  OBVIOUS
<1>1. TypeInv /\ entry = AbsentEntry
  BY InitTyped DEF Init
<1> QED
  BY <1>1, AbstractTyped DEF Promised!Init, Mode, AbsentEntry

\* Every step is one of them.
LEMMA NextIsAbstract ==
  ASSUME TypeInv, FallbackInv, SupervisionInv, [Next]_vars
  PROVE  Abstract
<1>1. CASE Next
  BY <1>1, ReconcileIsAbstract, RecoverIsAbstract, RemoveIsAbstract, AdoptIsAbstract,
     ActivateIsAbstract, StageIsAbstract, GateIsAbstract, OtherIsAbstract DEF Next, AgentStep
<1>2. CASE UNCHANGED vars
  BY <1>2, Stutters DEF vars, disk, system, ActiveImage, Retained
<1> QED
  BY <1>1, <1>2

\* The commands, steps, failures and crashes of the agent add up to Supervision.
THEOREM AgentImplementsSupervision == Spec => ImplementsSupervision
<1>1. TypeInv /\ FallbackInv /\ SupervisionInv /\ [Next]_vars => Abstract
  BY NextIsAbstract
<1> QED
  BY <1>1, InitIsAbstract, SupervisionInductive, PTL
  DEF Spec, ImplementsSupervision, Promised!Spec, Abstract
--------------------------------------------------------------------------------
(***************************************************************************)
(* Which image a candidate's trial is about.                               *)
(***************************************************************************)
Trial == {"a_start", "a_ready", "a_soak"}

\* The candidate alone is where systemd-sysext looks, and a refresh merged it.
JudgedInv ==
  /\ pc \in Trial \cup {"a_refresh"} => scoped[running] = Candidate /\ legacy = None
  /\ pc \in Trial => merged = Candidate

\* Every step keeps it.
LEMMA NextJudged ==
  ASSUME TypeInv, JudgedInv, [Next]_vars
  PROVE  JudgedInv'
<1> USE DEF disk, files, system, agent, history, JudgedInv, Trial, Candidate
<1>t. /\ pc \in RecoverSteps \cup RemovalSteps => ret \in {"r_prune", "c_store", "done"}
      /\ pc \in AdoptSteps => ret \in {"done", "a_retain"}
  BY DEF TypeInv, ControlInv
<1>1. CASE ActivateInstall
  BY <1>1 DEF ActivateInstall, Revert, CallRecover, PublishActive, TypeInv, TypeOK
<1>2. CASE ActivateRefresh
  <2>1. Candidate # None
    BY <1>2, NoneAssumption
    DEF ActivateRefresh, TypeInv, TypeOK, ControlInv, Carries, ActivateSteps
  <2> QED
    BY <1>2, <2>1 DEF ActivateRefresh, Revert, CallRecover, RefreshOk, MergeChoice
<1>3. CASE \/ ActivateReplay \/ ActivateUnstaged \/ ActivateCheck \/ ActivateRetain
           \/ ActivateRecord \/ ActivateHide \/ ActivateStart \/ ActivateReady \/ ActivateSoak
           \/ ActivatePrune
  BY <1>3 DEF ActivateReplay, ActivateUnstaged, ActivateCheck, ActivateRetain, ActivateRecord,
     ActivateHide, ActivateStart, ActivateReady, ActivateSoak, ActivatePrune, Advance, Revert,
     CallRecover, Fail
<1>4. CASE Reconcile
  BY <1>4, FirstSteps DEF Reconcile, ReconcileTransient, ReconcileRemoving, ReconcileStaged,
     ReconcileActive, ReconcileAtRest, ReconcilePrune, ReconcileStore, CallRecover
<1>5. CASE Recover
  BY <1>5, <1>t DEF Recover, RecoverRefuse, RecoverBegin, RecoverHide, RecoverInstall,
     RecoverRefresh, RecoverVerify, RecoverPrune, Terminal, RecoverSteps, TypeInv
<1>6. CASE Remove
  BY <1>6, <1>t DEF Remove, RemoveRecord, RemoveFiles, RemoveRefresh, RemovePrune,
     RemovalFails, RemovalSteps, TypeInv
<1>7. CASE Adopt
  BY <1>7, <1>t DEF Adopt, AdoptCheck, AdoptCopy, AdoptStore, Fail, AdoptSteps
<1>8. CASE Stage \/ Gate
  BY <1>8 DEF Stage, StageCandidate, StageOtherBase, StageRecord, Gate, GateNotRequired,
     GateTerminal, GateUnhealthy, GateHealthy, GateSoak, GateAdopt, CallRecover, Fail
<1>9. CASE \/ CommandStore \/ Finish \/ Kill
           \/ \E c \in Commands : Start(c)
           \/ \E b \in Bases : Reboot(b)
  BY <1>9 DEF CommandStore, Finish, Kill, Start, Reboot, Exit, Fail
<1>10. CASE UNCHANGED vars
  BY <1>10 DEF vars
<1> QED
  BY <1>1, <1>2, <1>3, <1>4, <1>5, <1>6, <1>7, <1>8, <1>9, <1>10 DEF Next, AgentStep, Activate

\* activate_extension: the ruleset and the soak judge the candidate and no other image,
\* whatever the node had merged before and whatever was left in /var/lib/extensions.
THEOREM TheCandidateIsJudged == Spec => []CandidateIsJudged
<1>1. Init => JudgedInv
  BY DEF Init, JudgedInv, Trial
<1>2. JudgedInv => CandidateIsJudged
  BY DEF JudgedInv, CandidateIsJudged, Trial
<1> QED
  BY <1>1, <1>2, NextJudged, SupervisionInductive, PTL DEF Spec
--------------------------------------------------------------------------------
(***************************************************************************)
(* What a health gate that passes has seen.                                *)
(***************************************************************************)
GateInv ==
  /\ pc \in RecoverSteps /\ ret = "done" => cmd.op # "gate"
  /\ pc = "x_record" \/ (pc \in RemovalSteps /\ ret = "c_store") => cmd.op # "gate"
  /\ pc = "g_verify" /\ mem.active # None /\ rollback[running][mem.active] # None
       => mem.active = mem.knownGood
  /\ pc = "v_prune" => Fallback # None
  /\ cmd.op = "gate" /\ verdict = "ok" =>
       /\ pc = "c_store" /\ mem.required => Retained(mem) # None
       /\ pc = "done" /\ entry.required => Retained(entry) # None

\* Every step keeps it.
LEMMA NextGated ==
  ASSUME TypeInv, FallbackInv, SupervisionInv, GateInv, [Next]_vars
  PROVE  GateInv'
<1> USE DEF disk, files, system, agent, history
<1> USE DEF GateInv, RecoverSteps, RemovalSteps
<1>0. /\ entry \in Entry /\ mem \in Entry /\ running \in Bases
      /\ pc \in RecoverSteps => ret \in {"r_prune", "c_store", "done"}
      /\ pc \in RemovalSteps => ret \in {"r_prune", "c_store"}
      /\ pc \in AdoptSteps => ret \in {"done", "a_retain"}
      /\ pc \in ActivateSteps \cup AdoptSteps \cup StageSteps => cmd.op # "gate"
  BY DEF TypeInv, TypeOK, ControlInv
<1>1. CASE ReconcileStore
  <2>1. /\ pc = "r_store" /\ UNCHANGED <<files, running, cmd, mem>>
        /\ \/ pc' = "done" /\ verdict' # "ok"
           \/ /\ pc' = FirstStep(cmd.op) /\ verdict = "ok"
              /\ ret' = IF cmd.op = "rollback" THEN "c_store" ELSE "done"
    BY <1>1 DEF ReconcileStore, StoreOk, StoreFails
  <2>2. verdict = "ok" /\ mem.active # None /\ rollback[running][mem.active] # None
          => mem.active = mem.knownGood
    BY <2>1 DEF SupervisionInv, OutgoingInv
  <2>3. /\ FirstStep(cmd.op) \in {"g_verify", "a_check", "s_place", "d_check", "v_check",
                                  "x_record", "c_store"}
        /\ cmd.op = "gate" => FirstStep(cmd.op) = "g_verify"
        /\ FirstStep(cmd.op) = "v_check" => cmd.op = "rollback"
    BY FirstSteps DEF FirstStep
  <2> QED
    BY <2>1, <2>2, <2>3
<1>2. CASE \/ ReconcileTransient \/ ReconcileRemoving \/ ReconcileStaged \/ ReconcileActive
           \/ ReconcileAtRest \/ ReconcilePrune
  BY <1>2 DEF ReconcileTransient, ReconcileRemoving, ReconcileStaged, ReconcileActive,
     ReconcileAtRest, ReconcilePrune, CallRecover
<1>3. CASE RecoverVerify
  <2>1. CASE Terminal
    BY <1>0, <1>3, <2>1 DEF RecoverVerify, Terminal
  <2>2. CASE ~Terminal
    <3>1. /\ pc = "v_verify" /\ mem'.knownGood = mem.knownGood
          /\ \/ pc' = "v_prune"
             \/ pc' = ret /\ verdict' = "fail"
          /\ UNCHANGED <<files, running, cmd, ret>>
      BY <1>0, <1>3, <2>2 DEF RecoverVerify, Entry
    <3>2. Fallback' = Fallback /\ Fallback # None
      BY <3>1 DEF Fallback, SupervisionInv, UndoInv
    <3> QED
      BY <1>0, <3>1, <3>2
  <2> QED
    BY <2>1, <2>2
<1>4. CASE RecoverPrune
  <2>1. PICK R \in LeftRollbacks(mem.knownGood) : SetRollbacks(R)
    BY <1>4 DEF RecoverPrune
  <2>2. /\ pc = "v_prune" /\ pc' = ret /\ UNCHANGED <<entry, running, cmd, mem, ret, verdict>>
    BY <1>4 DEF RecoverPrune
  <2>3. Retained(mem)' # None
    <3>1. mem.knownGood # None /\ Retained(mem) # None
      BY <2>2 DEF Fallback, Retained
    <3>2. rollback'[running][mem.knownGood] = rollback[running][mem.knownGood]
      BY <1>0, <2>1, <3>1, PruneRetains DEF TypeInv, Entry
    <3> QED
      BY <2>2, <3>1, <3>2 DEF Retained
  <2> QED
    BY <1>0, <2>2, <2>3
<1>5. CASE RecoverRefuse \/ RecoverBegin \/ RecoverHide \/ RecoverInstall \/ RecoverRefresh
  BY <1>0, <1>5 DEF RecoverRefuse, RecoverBegin, RecoverHide, RecoverInstall, RecoverRefresh,
     Terminal
<1>6. CASE Remove
  BY <1>0, <1>6 DEF Remove, RemoveRecord, RemoveFiles, RemoveRefresh, RemovePrune, RemovalFails
<1>7. CASE Adopt
  BY <1>0, <1>7 DEF Adopt, AdoptCheck, AdoptCopy, AdoptStore, Fail, AdoptSteps
<1>8. CASE Activate
  BY <1>0, <1>8 DEF Activate, ActivateReplay, ActivateUnstaged, ActivateCheck, ActivateRetain,
     ActivateRecord, ActivateHide, ActivateInstall, ActivateRefresh, ActivateStart,
     ActivateReady, ActivateSoak, ActivatePrune, Advance, Revert, CallRecover, Fail,
     ActivateSteps
<1>9. CASE Stage
  BY <1>0, <1>9 DEF Stage, StageCandidate, StageOtherBase, StageRecord, Fail, StageSteps
<1>10. CASE GateNotRequired
  <2>1. mem = entry
    BY <1>10 DEF GateNotRequired, SupervisionInv, FreshInv, FreshSteps
  <2> QED
    BY <1>10, <2>1 DEF GateNotRequired
<1>11. CASE GateTerminal \/ GateUnhealthy \/ GateSoak
  BY <1>11 DEF GateTerminal, GateUnhealthy, GateSoak, CallRecover, Fail
<1>12. CASE GateHealthy
  <2>1. /\ pc = "g_verify" /\ pc' = "c_store" /\ mem'.knownGood = mem.knownGood
        /\ merged # None /\ mem.active = merged.version
        /\ rollback[running][mem.active] # None /\ UNCHANGED <<files, running>>
    BY <1>0, <1>12 DEF GateHealthy, Healthy, Sound, HasRuleset, MergedIsRecorded, Verified, Entry
  <2>2. mem.active # None
    BY <2>1, FilesTyped, NoneAssumption DEF TypeInv
  <2>3. Retained(mem)' # None
    BY <2>1, <2>2 DEF Retained
  <2> QED
    BY <2>1, <2>3
<1>13. CASE GateAdopt
  <2>1. pc = "g_adopt" /\ pc' = "c_store" /\ UNCHANGED <<running, cmd>>
    BY <1>13 DEF GateAdopt
  <2>2. ASSUME verdict' = "ok"
        PROVE  Retained(mem)' # None
    <3>1. /\ mem'.knownGood = merged.version /\ ActiveImage # None
          /\ rollback' = [rollback EXCEPT ![running][merged.version] = ActiveImage]
      BY <1>0, <1>13, <2>2 DEF GateAdopt, Verified, KnownGood, Entry
    <3>2. merged.version \in Versions
      BY <2>1, FilesTyped DEF TypeInv, ControlInv
    <3> QED
      BY <1>0, <2>1, <3>1, <3>2, NoneAssumption DEF Retained, TypeInv, TypeOK
  <2> QED
    BY <2>1, <2>2
<1>14. CASE CommandStore
  <2>1. /\ pc = "c_store" /\ pc' = "done" /\ UNCHANGED <<files, running, cmd>>
        /\ cmd.op = "gate" /\ verdict' = "ok" => verdict = "ok" /\ entry' = mem
    BY <1>14 DEF CommandStore, Marked, StoreOk, Fail
  <2> QED
    BY <2>1 DEF Retained
<1>15. CASE \/ Finish \/ Kill
            \/ \E c \in Commands : Start(c)
            \/ \E b \in Bases : Reboot(b)
  BY <1>15 DEF Finish, Kill, Start, Reboot, Exit
<1>16. CASE UNCHANGED vars
  BY <1>16 DEF vars, Fallback, Retained
<1> QED
  BY <1>1, <1>2, <1>3, <1>4, <1>5, <1>6, <1>7, <1>8, <1>9, <1>10, <1>11, <1>12, <1>13, <1>14,
     <1>15, <1>16 DEF Next, AgentStep, Reconcile, Recover, Gate

\* health_gate: a gate that passes for a required extension leaves a known-good image
\* to recover from under the base that passed.
THEOREM ThePassingGateLeavesFallback == Spec => []GateLeavesFallback
<1>1. Init => GateInv
  BY DEF Init, GateInv, RecoverSteps, RemovalSteps, NoCmd, Cmd
<1>2. GateInv => GateLeavesFallback
  BY DEF GateInv, GateLeavesFallback, Retained
<1> QED
  BY <1>1, <1>2, NextGated, SupervisionInductive, PTL DEF Spec
================================================================================
