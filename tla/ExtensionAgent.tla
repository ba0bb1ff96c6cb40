---------------------------- MODULE ExtensionAgent ----------------------------
(***************************************************************************)
(* carbide-agent's supervision of one system extension (agent/src/main.rs, *)
(* ops.rs, state.rs, system.rs).                                           *)
(*                                                                         *)
(* The agent keeps a record of the extension in state.json and swaps image *)
(* files under /var/lib/extensions.  Every command takes the operation     *)
(* lock, resolves whatever an interrupted command left behind, and then    *)
(* does its own work as a sequence of durable steps.  A step may fail, the *)
(* agent may be killed and the node may lose power between any two of      *)
(* them, and a reboot may come back on another base image: the record and  *)
(* the files survive, what is merged is decided again.                     *)
(*                                                                         *)
(* One action is one step between two points at which a crash leaves a     *)
(* different disk.  Deletions that follow each other are one action whose  *)
(* failing outcome leaves any part of them done.                           *)
(***************************************************************************)
EXTENDS Naturals, Sequences

CONSTANTS
  Bases,       \* base OS versions this node may boot (os-release VERSION_ID)
  Versions,    \* versions of the extension
  Supervised,  \* the versions whose image carries a usable health ruleset
  Requests,    \* request ids callers give to activate-extension, and may repeat
  Generated,   \* request ids `stage-extension --activate` makes up (UUIDs)
  History,     \* COMPLETED_REQUEST_HISTORY
  Ops,         \* the commands that are given
  IoErrors,    \* whether file operations, subprocesses and stores may fail
  None         \* Option::None, and a file that does not exist

Ids == Requests \cup Generated

ASSUME SupervisedAssumption == Supervised \subseteq Versions
ASSUME HistoryAssumption == History \in Nat \ {0}
ASSUME OpsAssumption ==
  Ops \subseteq {"gate", "rollback", "remove", "require", "unrequire", "reset",
                 "adopt", "activate", "stage", "install"}
ASSUME IoErrorsAssumption == IoErrors \in BOOLEAN
ASSUME GeneratedAssumption == Requests \cap Generated = {}
ASSUME NoneAssumption ==
  None \notin Bases \cup Versions \cup Ids \cup [base : Bases, version : Versions]

(***************************************************************************)
(* Images, and the record kept for the extension in state.json.            *)
(***************************************************************************)
Image == [base : Bases, version : Versions]

Transient == {"Activating", "Starting", "Soaking", "Reverting"}
Phase == Transient
           \cup {"Idle", "Staged", "Active", "Recovered", "Removing", "Unrecoverable"}

Entry ==
  [present    : BOOLEAN,               \* the extension has a key in the map
   required   : BOOLEAN,
   active     : Versions \cup {None},  \* active_version
   knownGood  : Versions \cup {None},  \* known_good_version
   candidate  : Versions \cup {None},  \* candidate_version
   phase      : Phase,
   terminalOs : Bases \cup {None},     \* terminal_os_version
   completed  : Seq(Ids),              \* completed_requests
   kgBase     : Bases \cup {None}]     \* ghost: the base knownGood was recorded under

AbsentEntry ==
  [present |-> FALSE, required |-> FALSE, active |-> None, knownGood |-> None,
   candidate |-> None, phase |-> "Idle", terminalOs |-> None, completed |-> << >>,
   kgBase |-> None]

VARIABLES
  \* On disk, shared by both base slots.
  entry,       \* the record as state.json holds it
  scoped,      \* per base: the image in <name>_<base>.raw
  legacy,      \* the image in <name>.raw
  rollback,    \* per base and version: the image in ...raw.<version>.rollback
  candidates,  \* per base: the versions with a ...raw.<version>.candidate
  \* Of the running system.
  running,     \* the base image booted
  merged,      \* the image systemd-sysext has merged
  \* Of the agent process that holds the operation lock, if any.
  pc,          \* the step it is about to take
  cmd,         \* the command it executes
  mem,         \* its in-memory State
  snap,        \* the record as the step read it at its start
  ret,         \* where recover() or complete_removal() returns to
  verdict,     \* whether anything has failed so far
  \* History.
  proven,      \* images that have passed a health check while merged
  remembered   \* per request: how many more ids may be recorded before the
               \* history may forget that the request was carried out; 0 for
               \* one that was not, or may be forgotten

disk == <<entry, scoped, legacy, rollback, candidates>>
files == <<scoped, legacy, rollback, candidates>>
system == <<running, merged>>
agent == <<pc, cmd, mem, snap, ret, verdict>>
history == <<proven, remembered>>
vars == <<disk, system, agent, history>>

(***************************************************************************)
(* Commands, from the CLI and from the socket.  A command that has no use  *)
(* for a field carries None in it.                                         *)
(***************************************************************************)
Cmd(op, version, base, request) ==
  [op |-> op, version |-> version, base |-> base, request |-> request]

NoCmd == Cmd("none", None, None, None)

Commands ==
  {Cmd(op, None, None, None) :
      op \in Ops \cap {"gate", "rollback", "remove", "require", "unrequire", "reset"}}
    \cup {Cmd(op, v, None, None) : op \in Ops \cap {"adopt"}, v \in Versions}
    \cup {Cmd(op, v, None, r) :
            op \in Ops \cap {"activate"}, v \in Versions, r \in Requests \cup {None}}
    \cup {Cmd(op, v, b, None) :
            op \in Ops \cap {"stage"}, v \in Versions, b \in Bases}
    \cup {Cmd(op, v, b, g) :
            op \in Ops \cap {"install"}, v \in Versions, b \in Bases,
            g \in Generated \cup {None}}

Steps ==
  {"idle", "done",
   "r_case", "r_prune", "r_store",
   "v_check", "v_install", "v_refresh", "v_verify", "v_prune",
   "x_record", "x_files", "x_refresh", "x_prune",
   "a_check", "a_retain", "a_record", "a_install", "a_refresh", "a_start", "a_ready",
   "a_soak", "a_prune",
   "d_check", "d_copy", "d_store",
   "s_place", "s_record",
   "g_verify", "g_adopt",
   "c_store"}

(***************************************************************************)
(* The files as the agent's helpers see them.                              *)
(***************************************************************************)
\* active_path: the scoped image if there is one, else the unscoped one.
ActiveImage == IF scoped[running] # None THEN scoped[running] ELSE legacy

\* What systemd-sysext may merge under base b: an image that declares it.
\* With two of them it merges one or the other.
MergeChoice(b, s, l) ==
  LET visible == {i \in {s[b], l} : i # None /\ i.base = b}
  IN  IF visible = {} THEN {None} ELSE visible

HasRuleset == merged # None /\ merged.version \in Supervised

\* What prune_rollbacks may leave of the running base's rollbacks when it is to
\* keep version k's, and prune_candidates of its candidates when it is to keep
\* those in Keep: nothing else, or less than that was deleted before an error.
Kept(k) == [v \in Versions |-> IF v = k THEN rollback[running][v] ELSE None]
LeftRollbacks(k) ==
  {Kept(k)} \cup
    {[v \in Versions |-> IF v \in Gone THEN None ELSE rollback[running][v]] :
        Gone \in IF IoErrors THEN SUBSET (Versions \ {k}) ELSE {}}
LeftCandidates(Keep) ==
  {C \in SUBSET candidates[running] :
     /\ candidates[running] \cap Keep \subseteq C
     /\ IoErrors \/ C \subseteq Keep}

SetRollbacks(f) == rollback' = [rollback EXCEPT ![running] = f]
SetCandidates(S) == candidates' = [candidates EXCEPT ![running] = S]
-------------------------------------------------------------------------------
(***************************************************************************)
(* Locking, dispatch and reconciliation: `locked`, `reconcile_state`.      *)
(***************************************************************************)
Init ==
  /\ running \in Bases
  /\ entry = AbsentEntry
  /\ scoped \in {s \in [Bases -> Image \cup {None}] :
                  \A b \in Bases : s[b] # None => s[b].base = b}
  /\ legacy \in Image \cup {None}
  /\ \A b \in Bases : scoped[b] # None /\ legacy # None => legacy.base # b
  /\ rollback = [b \in Bases |-> [v \in Versions |-> None]]
  /\ candidates = [b \in Bases |-> {}]
  /\ merged \in MergeChoice(running, scoped, legacy)
  /\ pc = "idle" /\ cmd = NoCmd /\ ret = "done" /\ verdict = "ok"
  /\ mem = AbsentEntry /\ snap = AbsentEntry
  /\ proven = {} /\ remembered = [r \in Requests |-> 0]

\* Slip: forget_stale_terminals does not look at the base.
ForgetAll(e) ==
  IF e.phase = "Unrecoverable" THEN [e EXCEPT !.phase = "Idle", !.terminalOs = None] ELSE e

\* A refusal recorded under a base that no longer runs is forgotten.
Forget(e) ==
  IF e.phase = "Unrecoverable" /\ e.terminalOs # running
  THEN [e EXCEPT !.phase = "Idle", !.terminalOs = None]
  ELSE e

Elements(s) == {s[i] : i \in DOMAIN s}

\* A command takes the lock and reads the record it will reconcile.  An id that is
\* made up is new: not one the record holds.  One the record has dropped is as
\* good as new, and there is none if the kernel gives none.
Start(c) ==
  /\ pc = "idle"
  /\ c.request \in Generated => c.request \notin Elements(entry.completed)
  /\ pc' = "r_case" /\ cmd' = c /\ verdict' = "ok" /\ ret' = "r_prune"
  /\ mem' = Forget(entry) /\ snap' = Forget(entry)
  /\ UNCHANGED <<disk, system, history>>

\* recover() is entered from three places, each of which names where to return.
CallRecover(from) == pc' = "v_check" /\ ret' = from

\* Slip: the entry is looked at again after its recovery, as it was read before.
ReconcileTransientAgain ==
  /\ pc = "r_case" /\ snap.phase \in Transient
  /\ CallRecover("r_case")
  /\ UNCHANGED <<disk, system, cmd, mem, snap, verdict, history>>

\* An interrupted swap is undone before anything else may happen.
ReconcileTransient ==
  /\ pc = "r_case" /\ snap.phase \in Transient
  /\ CallRecover("r_prune")
  /\ UNCHANGED <<disk, system, cmd, mem, snap, verdict, history>>

\* Slip: an interrupted removal is left for the next `remove`.
ReconcileRemovingLater ==
  /\ pc = "r_case" /\ snap.phase = "Removing"
  /\ pc' = "r_prune"
  /\ UNCHANGED <<disk, system, cmd, mem, snap, ret, verdict, history>>

ReconcileRemoving ==
  /\ pc = "r_case" /\ snap.phase = "Removing"
  /\ pc' = "x_files" /\ ret' = "r_prune"
  /\ UNCHANGED <<disk, system, cmd, mem, snap, verdict, history>>

Cleared(e) ==
  [e EXCEPT !.active = None, !.knownGood = None, !.candidate = None, !.kgBase = None]

\* A candidate that disappeared is no longer staged.
ReconcileStaged ==
  /\ pc = "r_case" /\ snap.phase = "Staged"
  /\ pc' = "r_prune"
  /\ IF snap.candidate \in candidates[running]
     THEN UNCHANGED mem
     ELSE mem' = LET m == [mem EXCEPT
                             !.candidate = None,
                             !.phase = IF ActiveImage # None THEN "Active" ELSE "Idle"]
                 IN  IF ActiveImage = None /\ ~m.required THEN Cleared(m) ELSE m
  /\ UNCHANGED <<disk, system, cmd, snap, ret, verdict, history>>

\* An active image that vanished is restored if required, else forgotten.
ReconcileActive ==
  /\ pc = "r_case" /\ snap.phase \in {"Active", "Recovered"}
  /\ IF ActiveImage = None /\ mem.required
     THEN CallRecover("r_prune") /\ UNCHANGED mem
     ELSE /\ pc' = "r_prune" /\ UNCHANGED ret
          /\ mem' = IF ActiveImage = None THEN [Cleared(mem) EXCEPT !.phase = "Idle"] ELSE mem
  /\ UNCHANGED <<disk, system, cmd, snap, verdict, history>>

ReconcileAtRest ==
  /\ pc = "r_case" /\ snap.phase \in {"Idle", "Unrecoverable"}
  /\ pc' = "r_prune"
  /\ mem' = IF snap.phase = "Idle" /\ ActiveImage = None /\ ~mem.required
            THEN Cleared(mem) ELSE mem
  /\ UNCHANGED <<disk, system, cmd, snap, ret, verdict, history>>

\* prune_candidates, prune_rollbacks and the orphan sweep: of the running base
\* only, with the versions the record named before any of them was resolved.
\* An extension without a record loses its orphan candidates only.
KeptCandidates == IF snap.phase = "Staged" THEN {snap.candidate} ELSE {}

ReconcilePrune ==
  /\ pc = "r_prune"
  /\ pc' = "r_store"
  /\ \/ /\ SetCandidates(candidates[running] \cap KeptCandidates)
        /\ IF snap.present THEN SetRollbacks(Kept(snap.knownGood))
                           ELSE UNCHANGED rollback
        /\ UNCHANGED verdict
     \/ /\ IoErrors
        /\ \E C \in LeftCandidates(KeptCandidates) : SetCandidates(C)
        /\ IF snap.present
           THEN \E R \in LeftRollbacks(snap.knownGood) : SetRollbacks(R)
           ELSE UNCHANGED rollback
        /\ verdict' = "fail"
  /\ UNCHANGED <<entry, scoped, legacy, system, cmd, mem, snap, ret, history>>

FirstStep(op) ==
  CASE op = "gate" -> "g_verify"
    [] op = "activate" -> "a_check"
    [] op \in {"stage", "install"} -> "s_place"
    [] op = "adopt" -> "d_check"
    [] op = "rollback" -> "v_check"
    [] op = "remove" -> "x_record"
    [] OTHER -> "c_store"

\* store(): written aside, synced, renamed, and the directory synced.  When it
\* fails after the rename the new record is on disk all the same.
StoreOk(m) == entry' = m
StoreFails(m) == IoErrors /\ entry' \in {entry, m}

\* Slip: what reconciliation could not resolve is only logged.
ReconcileStoreAnyway ==
  /\ pc = "r_store"
  /\ \/ StoreOk(mem) /\ pc' = FirstStep(cmd.op) /\ UNCHANGED verdict
     \/ StoreFails(mem) /\ pc' = "done" /\ verdict' = "fail"
  /\ ret' = IF cmd.op = "rollback" THEN "c_store" ELSE "done"
  /\ UNCHANGED <<files, system, cmd, mem, snap, history>>

\* The reconciled record is stored once, and the command's own work begins
\* only if nothing failed.
ReconcileStore ==
  /\ pc = "r_store"
  /\ \/ /\ StoreOk(mem)
        /\ pc' = IF verdict = "ok" THEN FirstStep(cmd.op) ELSE "done"
        /\ ret' = IF cmd.op = "rollback" THEN "c_store" ELSE "done"
        /\ UNCHANGED verdict
     \/ StoreFails(mem) /\ pc' = "done" /\ verdict' = "fail" /\ UNCHANGED ret
  /\ UNCHANGED <<files, system, cmd, mem, snap, history>>

\* The process exits and the lock falls with it.
Exit ==
  /\ pc' = "idle" /\ cmd' = NoCmd /\ ret' = "done" /\ verdict' = "ok"
  /\ mem' = AbsentEntry /\ snap' = AbsentEntry

Finish ==
  /\ pc = "done" /\ Exit
  /\ UNCHANGED <<disk, system, history>>
-------------------------------------------------------------------------------
(***************************************************************************)
(* Steps shared by the commands that replace the active image.             *)
(***************************************************************************)
\* install_active hides an unscoped image before it publishes the scoped one.
HideLegacy == legacy # None /\ legacy' = None

\* Slip: the scoped image is published beside the unscoped one.
PublishBeside(i) == scoped' = [scoped EXCEPT ![running] = i]

\* durable_copy of image i over the running base's active image.
PublishActive(i) == legacy = None /\ scoped' = [scoped EXCEPT ![running] = i]

\* Stopping the unit, hiding or publishing failed, before or after its rename.
InstallFails(i) ==
  /\ IoErrors
  /\ \/ legacy' \in {legacy, None} /\ UNCHANGED scoped
     \/ PublishActive(i) /\ UNCHANGED legacy

\* systemd-sysext refresh, then daemon-reload.  A refresh that fails may leave
\* the old image merged, the new one, or nothing.
RefreshOk == merged' \in MergeChoice(running, scoped, legacy)
RefreshFails == IoErrors /\ merged' \in {merged, None} \cup MergeChoice(running, scoped, legacy)

\* A health check can pass only for an image that brought its ruleset.
Sound == HasRuleset /\ proven' = proven \cup {merged}
Healthy == Sound /\ UNCHANGED remembered
Unhealthy == UNCHANGED history

-------------------------------------------------------------------------------
(***************************************************************************)
(* recover: restore the retained known-good image and confirm it works.    *)
(***************************************************************************)
\* Slip: the version instead of the image retained for it.
FallbackVersion == mem.knownGood

Fallback == IF mem.knownGood = None THEN None ELSE rollback[running][mem.knownGood]

\* terminal(): give up on the extension for as long as this base runs.
Terminal ==
  /\ mem' = [mem EXCEPT !.present = TRUE, !.phase = "Unrecoverable", !.terminalOs = running]
  /\ StoreOk(mem') \/ StoreFails(mem')
  /\ verdict' = "fail"
  /\ pc' = ret

\* Slip: the refusal is returned and not recorded.
RecoverRefuseSilently ==
  /\ pc = "v_check" /\ Fallback = None
  /\ pc' = ret /\ verdict' = "fail"
  /\ UNCHANGED <<disk, system, cmd, mem, snap, ret, history>>

RecoverRefuse ==
  /\ pc = "v_check" /\ Fallback = None
  /\ Terminal
  /\ UNCHANGED <<files, system, cmd, snap, ret, history>>

\* Slip: the intent is kept in memory only.
RecoverBeginUnrecorded ==
  /\ pc = "v_check" /\ Fallback # None
  /\ mem' = [mem EXCEPT !.phase = "Reverting"]
  /\ pc' = "v_install"
  /\ UNCHANGED <<disk, system, cmd, snap, ret, verdict, history>>

\* The intent is on disk before the image is touched; if it cannot be, nothing is.
RecoverBegin ==
  /\ pc = "v_check" /\ Fallback # None
  /\ mem' = [mem EXCEPT !.phase = "Reverting"]
  /\ \/ StoreOk(mem') /\ pc' = "v_install" /\ UNCHANGED verdict
     \/ StoreFails(mem') /\ pc' = ret /\ verdict' = "fail"
  /\ UNCHANGED <<files, system, cmd, snap, ret, history>>

RecoverHide ==
  /\ pc = "v_install" /\ HideLegacy
  /\ UNCHANGED <<entry, scoped, rollback, candidates, system, agent, history>>

RecoverInstall ==
  /\ pc = "v_install"
  /\ \/ PublishActive(Fallback) /\ pc' = "v_refresh"
        /\ UNCHANGED <<entry, legacy, mem, verdict>>
     \/ InstallFails(Fallback) /\ Terminal
  /\ UNCHANGED <<rollback, candidates, system, cmd, snap, ret, history>>

\* Slip: a refresh that fails is only logged.
RecoverRefreshAnyway ==
  /\ pc = "v_refresh"
  /\ RefreshOk \/ RefreshFails
  /\ pc' = "v_verify"
  /\ UNCHANGED <<disk, running, cmd, mem, snap, ret, verdict, history>>

RecoverRefresh ==
  /\ pc = "v_refresh"
  /\ \/ RefreshOk /\ pc' = "v_verify" /\ UNCHANGED <<entry, mem, verdict>>
     \/ RefreshFails /\ Terminal
  /\ UNCHANGED <<files, running, cmd, snap, ret, history>>

RecoverVerify ==
  /\ pc = "v_verify"
  /\ \/ /\ Healthy
        /\ mem' = [mem EXCEPT !.phase = "Recovered", !.active = mem.knownGood,
                              !.candidate = None, !.terminalOs = None]
        /\ \/ StoreOk(mem') /\ pc' = "v_prune" /\ UNCHANGED verdict
           \/ StoreFails(mem') /\ pc' = ret /\ verdict' = "fail"
     \/ Unhealthy /\ Terminal
  /\ UNCHANGED <<files, system, cmd, snap, ret>>

\* Clean-up that fails is only logged.
RecoverPrune ==
  /\ pc = "v_prune"
  /\ \E C \in LeftCandidates({}) : SetCandidates(C)
  /\ \E R \in LeftRollbacks(mem.knownGood) : SetRollbacks(R)
  /\ pc' = ret
  /\ UNCHANGED <<entry, scoped, legacy, system, cmd, mem, snap, ret, verdict, history>>

Recover ==
  \/ RecoverRefuse \/ RecoverBegin \/ RecoverHide \/ RecoverInstall
  \/ RecoverRefresh \/ RecoverVerify \/ RecoverPrune

-------------------------------------------------------------------------------
(***************************************************************************)
(* remove_extension and complete_removal.                                  *)
(***************************************************************************)
RemoveRecord ==
  /\ pc = "x_record"
  /\ mem' = [mem EXCEPT !.present = TRUE, !.required = FALSE, !.phase = "Removing"]
  /\ \/ StoreOk(mem') /\ pc' = "x_files" /\ ret' = "c_store" /\ UNCHANGED verdict
     \/ StoreFails(mem') /\ pc' = "done" /\ verdict' = "fail" /\ UNCHANGED ret
  /\ UNCHANGED <<files, system, cmd, snap, history>>

\* `remove` returns its error at once; reconciliation notes it and goes on.
RemovalFails ==
  /\ IoErrors
  /\ verdict' = "fail"
  /\ pc' = IF ret = "c_store" THEN "done" ELSE ret

RemoveFiles ==
  /\ pc = "x_files"
  /\ \/ /\ scoped' = [scoped EXCEPT ![running] = None] /\ legacy' = None
        /\ pc' = "x_refresh" /\ UNCHANGED verdict
     \/ /\ \/ UNCHANGED <<scoped, legacy>>
           \/ scoped' = [scoped EXCEPT ![running] = None] /\ legacy' \in {legacy, None}
        /\ RemovalFails
  /\ UNCHANGED <<entry, rollback, candidates, system, cmd, mem, snap, ret, history>>

RemoveRefresh ==
  /\ pc = "x_refresh"
  /\ \/ RefreshOk /\ pc' = "x_prune" /\ UNCHANGED verdict
     \/ RefreshFails /\ RemovalFails
  /\ UNCHANGED <<disk, running, cmd, mem, snap, ret, history>>

RemovePrune ==
  /\ pc = "x_prune"
  /\ \/ /\ SetCandidates({}) /\ SetRollbacks(Kept(None))
        /\ mem' = [Cleared(mem) EXCEPT !.phase = "Idle"]
        /\ pc' = ret /\ UNCHANGED verdict
     \/ /\ \/ /\ \E C \in LeftCandidates({}) : SetCandidates(C)
              /\ UNCHANGED rollback
           \/ /\ SetCandidates({})
              /\ \E R \in LeftRollbacks(None) : SetRollbacks(R)
        /\ RemovalFails /\ UNCHANGED mem
  /\ UNCHANGED <<entry, scoped, legacy, system, cmd, snap, ret, history>>

Remove == RemoveRecord \/ RemoveFiles \/ RemoveRefresh \/ RemovePrune
-------------------------------------------------------------------------------
(***************************************************************************)
(* adopt and adopt_active: record a working image as known-good.           *)
(***************************************************************************)
\* The CLI trusts the version it is given, activation the merged release file.
AdoptedVersion == IF cmd.op = "adopt" THEN cmd.version ELSE merged.version

Fail(step) == pc' = step /\ verdict' = "fail"

AdoptCheck ==
  /\ pc = "d_check"
  /\ \/ ActiveImage # None /\ Healthy /\ pc' = "d_copy" /\ UNCHANGED verdict
     \/ Unhealthy /\ Fail("done")
  /\ UNCHANGED <<disk, system, cmd, mem, snap, ret>>

AdoptCopy ==
  /\ pc = "d_copy"
  /\ \/ /\ pc' = "d_store" /\ UNCHANGED verdict
        /\ IF rollback[running][AdoptedVersion] = None
           THEN rollback' = [rollback EXCEPT ![running][AdoptedVersion] = ActiveImage]
           ELSE UNCHANGED rollback
     \/ /\ IoErrors /\ rollback[running][AdoptedVersion] = None
        /\ rollback' \in {rollback, [rollback EXCEPT ![running][AdoptedVersion] = ActiveImage]}
        /\ Fail("done")
  /\ UNCHANGED <<entry, scoped, legacy, candidates, system, cmd, mem, snap, ret, history>>

KnownGood(e, version) == [e EXCEPT !.knownGood = version, !.kgBase = running]

AdoptStore ==
  /\ pc = "d_store"
  /\ mem' = [KnownGood(mem, AdoptedVersion) EXCEPT
               !.present = TRUE, !.required = TRUE, !.active = AdoptedVersion,
               !.phase = "Active", !.terminalOs = None]
  /\ \/ StoreOk(mem') /\ pc' = ret /\ UNCHANGED verdict
     \/ StoreFails(mem') /\ Fail("done")
  /\ UNCHANGED <<files, system, cmd, snap, ret, history>>

Adopt == AdoptCheck \/ AdoptCopy \/ AdoptStore

-------------------------------------------------------------------------------
(***************************************************************************)
(* activate_extension: promote a staged candidate, reverting if it does    *)
(* not prove itself.                                                       *)
(***************************************************************************)
\* A request that has completed is answered and not done again.
ActivateReplay ==
  /\ pc = "a_check" /\ cmd.request \in Elements(mem.completed)
  /\ pc' = "done"
  /\ UNCHANGED <<disk, system, cmd, mem, snap, ret, verdict, history>>

ActivateUnstaged ==
  /\ pc = "a_check" /\ cmd.request \notin Elements(mem.completed)
  /\ cmd.version \notin candidates[running]
  /\ Fail("done")
  /\ UNCHANGED <<disk, system, cmd, mem, snap, ret, history>>

\* Slip: a merged image that brought a ruleset is adopted without its check.
ActivateUnchecked ==
  /\ pc = "a_check" /\ cmd.request \notin Elements(mem.completed)
  /\ cmd.version \in candidates[running]
  /\ IF mem.knownGood = None /\ ActiveImage # None /\ HasRuleset
     THEN pc' = "d_copy" /\ ret' = "a_retain"
     ELSE pc' = "a_retain" /\ UNCHANGED ret
  /\ UNCHANGED <<disk, system, cmd, mem, snap, verdict, history>>

\* A merged image the record does not know is adopted first.  One without a
\* ruleset cannot be: the candidate will have nothing to fall back to.
ActivateCheck ==
  /\ pc = "a_check" /\ cmd.request \notin Elements(mem.completed)
  /\ cmd.version \in candidates[running]
  /\ IF mem.knownGood = None /\ ActiveImage # None /\ HasRuleset
     THEN \/ Healthy /\ pc' = "d_copy" /\ ret' = "a_retain" /\ UNCHANGED verdict
          \/ Unhealthy /\ Fail("done") /\ UNCHANGED ret
     ELSE pc' = "a_retain" /\ UNCHANGED <<ret, verdict, history>>
  /\ UNCHANGED <<disk, system, cmd, mem, snap>>

\* Check the space and retain the outgoing image under the version the record
\* gives it.  A recorded image that is nowhere to be found is an error.
ActivateRetain ==
  /\ pc = "a_retain"
  /\ snap' = mem /\ ret' = "done"
  /\ LET previous == mem.active
         retained == IF previous = None THEN None ELSE rollback[running][previous]
     IN  \/ /\ previous # None /\ retained = None /\ ActiveImage # None
            /\ \/ /\ rollback' = [rollback EXCEPT ![running][previous] = ActiveImage]
                  /\ pc' = "a_record" /\ UNCHANGED verdict
               \/ /\ IoErrors
                  /\ rollback' \in
                        {rollback, [rollback EXCEPT ![running][previous] = ActiveImage]}
                  /\ Fail("done")
         \/ /\ previous = None \/ retained # None
            /\ pc' = "a_record" /\ UNCHANGED <<rollback, verdict>>
         \/ Fail("done") /\ UNCHANGED rollback
  /\ UNCHANGED <<entry, scoped, legacy, candidates, system, cmd, mem, history>>

\* The swap and what it falls back to are on disk before the image is touched.
ActivateRecord ==
  /\ pc = "a_record"
  /\ LET m == [mem EXCEPT !.present = TRUE, !.candidate = cmd.version, !.phase = "Activating"]
     IN  mem' = IF mem.active = None THEN m ELSE KnownGood(m, mem.active)
  /\ \/ StoreOk(mem') /\ pc' = "a_install" /\ UNCHANGED verdict
     \/ StoreFails(mem') /\ Fail("done")
  /\ UNCHANGED <<files, system, cmd, snap, ret, history>>

\* Whatever goes wrong from here on is reverted, and the activation fails.
Revert == CallRecover("done") /\ verdict' = "fail"

Candidate == [base |-> running, version |-> cmd.version]

ActivateHide ==
  /\ pc = "a_install" /\ HideLegacy
  /\ UNCHANGED <<entry, scoped, rollback, candidates, system, agent, history>>

ActivateInstall ==
  /\ pc = "a_install"
  /\ \/ PublishActive(Candidate) /\ pc' = "a_refresh" /\ UNCHANGED <<legacy, ret, verdict>>
     \/ InstallFails(Candidate) /\ Revert
  /\ UNCHANGED <<entry, rollback, candidates, system, cmd, mem, snap, history>>

\* Slip: a refresh that fails is only logged.
ActivateRefreshAnyway ==
  /\ pc = "a_refresh"
  /\ RefreshOk \/ RefreshFails
  /\ pc' = "a_start"
  /\ UNCHANGED <<disk, running, cmd, mem, snap, ret, verdict, history>>

ActivateRefresh ==
  /\ pc = "a_refresh"
  /\ \/ RefreshOk /\ pc' = "a_start" /\ UNCHANGED <<ret, verdict>>
     \/ RefreshFails /\ Revert
  /\ UNCHANGED <<disk, running, cmd, mem, snap, history>>

\* Record the phase reached and go on, or revert.
Advance(phase, step) ==
  /\ mem' = [mem EXCEPT !.phase = phase]
  /\ \/ StoreOk(mem') /\ pc' = step /\ UNCHANGED <<ret, verdict>>
     \/ StoreFails(mem') /\ Revert

ActivateStart ==
  /\ pc = "a_start"
  /\ \/ HasRuleset /\ Advance("Starting", "a_ready")
     \/ ~HasRuleset /\ Revert /\ UNCHANGED <<entry, mem>>
  /\ UNCHANGED <<files, system, cmd, snap, history>>

ActivateReady ==
  /\ pc = "a_ready"
  /\ \/ Advance("Soaking", "a_soak")
     \/ Revert /\ UNCHANGED <<entry, mem>>
  /\ UNCHANGED <<files, system, cmd, snap, history>>

\* Slip: one id too many is dropped.
RecordCompletedShort(s, id) ==
  LET t == Append(s, id)
  IN  IF id = None \/ id \in Elements(s) THEN s
      ELSE IF Len(t) >= History THEN SubSeq(t, Len(t) - History + 2, Len(t)) ELSE t

\* record_completed: the newest History ids, each once.
RecordCompleted(s, id) ==
  LET t == Append(s, id)
  IN  IF id = None \/ id \in Elements(s) THEN s
      ELSE IF Len(t) > History THEN SubSeq(t, Len(t) - History + 1, Len(t)) ELSE t

Committed ==
  [mem EXCEPT !.phase = "Active", !.terminalOs = None, !.active = cmd.version,
              !.candidate = None, !.required = TRUE,
              !.completed = RecordCompleted(@, cmd.request)]

\* History: an id is recorded, and the requests before it are remembered for one
\* id less.
Aged(id) ==
  IF id = None THEN remembered
  ELSE [q \in Requests |-> IF remembered[q] > 0 THEN remembered[q] - 1 ELSE 0]
Remembered(id) == [q \in Requests |-> IF q = id THEN History ELSE Aged(id)[q]]

\* A commit that cannot be stored is reverted from the uncommitted state.
ActivateSoak ==
  /\ pc = "a_soak"
  /\ \/ /\ Sound
        /\ \/ StoreOk(Committed) /\ mem' = Committed /\ pc' = "a_prune"
              /\ remembered' = Remembered(cmd.request) /\ UNCHANGED <<ret, verdict>>
           \/ StoreFails(Committed) /\ Revert /\ UNCHANGED mem
              /\ remembered' = IF entry' = entry THEN remembered ELSE Aged(cmd.request)
     \/ Unhealthy /\ Revert /\ UNCHANGED <<entry, mem>>
  /\ UNCHANGED <<files, system, cmd, snap>>

\* Slip: the new version's rollback is kept instead of the previous one's.
ActivatePruneNew ==
  /\ pc = "a_prune"
  /\ \E C \in LeftCandidates({}) : SetCandidates(C)
  /\ \E R \in LeftRollbacks(cmd.version) : SetRollbacks(R)
  /\ pc' = "done"
  /\ UNCHANGED <<entry, scoped, legacy, system, cmd, mem, snap, ret, verdict, history>>

ActivatePrune ==
  /\ pc = "a_prune"
  /\ \E C \in LeftCandidates({}) : SetCandidates(C)
  /\ \E R \in LeftRollbacks(snap.active) : SetRollbacks(R)
  /\ pc' = "done"
  /\ UNCHANGED <<entry, scoped, legacy, system, cmd, mem, snap, ret, verdict, history>>

Activate ==
  \/ ActivateReplay \/ ActivateUnstaged \/ ActivateCheck \/ ActivateRetain
  \/ ActivateRecord \/ ActivateHide \/ ActivateInstall \/ ActivateRefresh
  \/ ActivateStart \/ ActivateReady \/ ActivateSoak \/ ActivatePrune
-------------------------------------------------------------------------------
(***************************************************************************)
(* stage_extension: validate_and_place.                                    *)
(***************************************************************************)
\* For the running base the image becomes the only candidate.
StageCandidate ==
  /\ pc = "s_place" /\ cmd.base = running
  /\ \/ SetCandidates({cmd.version}) /\ pc' = "s_record" /\ UNCHANGED verdict
     \/ /\ \/ UNCHANGED candidates
           \/ IoErrors /\ \E C \in LeftCandidates({}) : SetCandidates(C)
           \/ IoErrors /\ SetCandidates({cmd.version})
        /\ Fail("done")
  /\ UNCHANGED <<entry, scoped, legacy, rollback, system, cmd, mem, snap, ret, history>>

\* For a base not running it is placed where that base will merge it at boot.
StageOtherBase ==
  /\ pc = "s_place" /\ cmd.base # running
  /\ LET placed == [scoped EXCEPT ![cmd.base] = [base |-> cmd.base, version |-> cmd.version]]
     IN  \/ scoped' = placed /\ pc' = "done" /\ UNCHANGED verdict
         \/ scoped' \in {scoped, IF IoErrors THEN placed ELSE scoped} /\ Fail("done")
  /\ UNCHANGED <<entry, legacy, rollback, candidates, system, cmd, mem, snap, ret, history>>

\* `stage-extension --activate` goes on to activate within the same command.
StageRecord ==
  /\ pc = "s_record"
  /\ mem' = [mem EXCEPT !.present = TRUE, !.candidate = cmd.version, !.phase = "Staged"]
  /\ \/ /\ StoreOk(mem') /\ UNCHANGED <<candidates, verdict>>
        /\ pc' = IF cmd.op = "install" THEN "a_check" ELSE "done"
     \/ /\ StoreFails(mem') /\ Fail("done")
        /\ \/ UNCHANGED candidates
           \/ SetCandidates(candidates[running] \ {cmd.version})
  /\ UNCHANGED <<scoped, legacy, rollback, system, cmd, snap, ret, history>>

Stage == StageCandidate \/ StageOtherBase \/ StageRecord

-------------------------------------------------------------------------------
(***************************************************************************)
(* health_gate and verify_or_recover, of the boot units.                   *)
(***************************************************************************)
GateNotRequired ==
  /\ pc = "g_verify" /\ ~mem.required
  /\ pc' = "done"
  /\ UNCHANGED <<disk, system, cmd, mem, snap, ret, verdict, history>>

GateTerminal ==
  /\ pc = "g_verify" /\ mem.required /\ mem.phase = "Unrecoverable"
  /\ Fail("c_store")
  /\ UNCHANGED <<disk, system, cmd, mem, snap, ret, history>>

\* Not merged, without a ruleset, or unhealthy: recover, then store.
GateUnhealthy ==
  /\ pc = "g_verify" /\ mem.required /\ mem.phase # "Unrecoverable"
  /\ CallRecover("c_store")
  /\ UNCHANGED <<disk, system, cmd, mem, snap, verdict, history>>

\* Slip: the recorded version is enough, whichever base it was recorded under.
MergedIsActive == mem.active = merged.version

MergedIsRecorded ==
  mem.active = merged.version /\ rollback[running][merged.version] # None

Verified(e) == [e EXCEPT !.phase = "Active", !.terminalOs = None]

GateHealthy ==
  /\ pc = "g_verify" /\ mem.required /\ mem.phase # "Unrecoverable"
  /\ Healthy
  /\ MergedIsRecorded
  /\ mem' = Verified(mem) /\ pc' = "c_store"
  /\ UNCHANGED <<disk, system, cmd, snap, ret, verdict>>

\* The merged image is not the one on record: soak it before trusting it.  An
\* image that does not survive the soak fails the gate then and there.
GateSoak ==
  /\ pc = "g_verify" /\ mem.required /\ mem.phase # "Unrecoverable"
  /\ Healthy
  /\ ~MergedIsRecorded
  /\ \/ pc' = "g_adopt" /\ UNCHANGED verdict
     \/ Fail("c_store")
  /\ UNCHANGED <<disk, system, cmd, mem, snap, ret>>

GateAdopt ==
  /\ pc = "g_adopt"
  /\ pc' = "c_store"
  /\ LET v == merged.version
         copied == [rollback EXCEPT ![running][v] = ActiveImage]
     IN  \/ /\ ActiveImage # None /\ rollback' = copied
            /\ mem' = Verified([KnownGood(mem, v) EXCEPT !.active = v, !.candidate = None])
            /\ UNCHANGED verdict
         \/ /\ IoErrors \/ ActiveImage = None
            /\ rollback' \in {rollback, IF ActiveImage = None THEN rollback ELSE copied}
            /\ verdict' = "fail" /\ UNCHANGED mem
  /\ UNCHANGED <<entry, scoped, legacy, candidates, system, cmd, snap, ret, history>>

Gate ==
  \/ GateNotRequired \/ GateTerminal \/ GateUnhealthy \/ GateHealthy
  \/ GateSoak \/ GateAdopt

-------------------------------------------------------------------------------
(***************************************************************************)
(* The store that ends health_gate, rollback_command and remove_extension, *)
(* and the whole of set_required and reset.                                *)
(***************************************************************************)
Marked(e) ==
  CASE cmd.op = "require" -> [e EXCEPT !.present = TRUE, !.required = TRUE]
    [] cmd.op = "unrequire" -> [e EXCEPT !.present = TRUE, !.required = FALSE]
    [] cmd.op = "reset" -> [e EXCEPT !.present = TRUE, !.phase = "Idle"]
    [] OTHER -> e

CommandStore ==
  /\ pc = "c_store"
  /\ mem' = Marked(mem)
  /\ \/ StoreOk(mem') /\ pc' = "done" /\ UNCHANGED verdict
     \/ StoreFails(mem') /\ Fail("done")
  /\ UNCHANGED <<files, system, cmd, snap, ret, history>>

-------------------------------------------------------------------------------
(***************************************************************************)
(* What happens to the agent and the node.                                 *)
(***************************************************************************)
Reconcile ==
  \/ ReconcileTransient \/ ReconcileRemoving \/ ReconcileStaged \/ ReconcileActive
  \/ ReconcileAtRest \/ ReconcilePrune \/ ReconcileStore

AgentStep ==
  \/ Reconcile \/ Recover \/ Remove \/ Adopt \/ Activate \/ Stage \/ Gate
  \/ CommandStore \/ Finish

\* The agent is killed.  A child keeps the lock until it ends, so a refresh the
\* agent had begun has happened, or not, before any other command starts.
Kill ==
  /\ pc # "idle"
  /\ IF pc \in {"v_refresh", "x_refresh", "a_refresh"}
     THEN merged' \in {merged} \cup MergeChoice(running, scoped, legacy)
     ELSE UNCHANGED merged
  /\ Exit
  /\ UNCHANGED <<disk, running, history>>

\* Power loss or a reboot, into base b of either slot.
Reboot(b) ==
  /\ running' = b
  /\ merged' \in MergeChoice(b, scoped, legacy)
  /\ Exit
  /\ UNCHANGED <<disk, history>>

Next ==
  \/ \E c \in Commands : Start(c)
  \/ AgentStep
  \/ Kill
  \/ \E b \in Bases : Reboot(b)

Spec == Init /\ [][Next]_vars

\* A command that holds the lock keeps running: nothing else can stop it.
FairSpec == Spec /\ WF_vars(AgentStep)
-------------------------------------------------------------------------------
(***************************************************************************)
(* Properties.                                                             *)
(***************************************************************************)
\* Every variable stays within the shape the code gives it.
TypeOK ==
  /\ entry \in Entry /\ mem \in Entry /\ snap \in Entry
  /\ scoped \in [Bases -> Image \cup {None}]
  /\ legacy \in Image \cup {None}
  /\ rollback \in [Bases -> [Versions -> Image \cup {None}]]
  /\ candidates \in [Bases -> SUBSET Versions]
  /\ running \in Bases
  /\ merged \in Image \cup {None}
  /\ pc \in Steps /\ ret \in Steps
  /\ cmd \in Commands \cup {NoCmd}
  /\ verdict \in {"ok", "fail"}
  /\ proven \subseteq Image
  /\ remembered \in [Requests -> 0..History]

\* "There is always something to fall back to even if the machine dies
\* mid-activation" (activate_extension): whenever the record names a known-good
\* version, its retained image is on disk under the base it was recorded for.
\* Three functions prune rollbacks, each by what it believes the record says.
FallbackRetained ==
  entry.knownGood # None /\ entry.phase # "Removing"
    => rollback[entry.kgBase][entry.knownGood] # None

\* What recovery would restore has passed a health check while merged, so that
\* prune, retain and adopt never leave an untried image behind the known-good
\* name.  Failed file operations break it (README), so it is checked without.
KnownGoodProven ==
  entry.knownGood # None /\ entry.phase # "Removing"
    => rollback[entry.kgBase][entry.knownGood] \in proven

\* The ruleset and the soak of activate_extension judge the candidate and no
\* other image, whatever the node had merged before and whatever was left
\* beside it in /var/lib/extensions.
CandidateIsJudged ==
  pc \in {"a_start", "a_ready", "a_soak"} => merged = Candidate

\* reconcile_state: an interrupted transaction is resolved "before a new command
\* is allowed to mutate anything", and no command reports success over one.
SettledFirst ==
  \/ pc \in {"g_verify", "a_check", "s_place", "d_check", "x_record"}
  \/ pc = "done" /\ verdict = "ok"
  => entry.phase \notin Transient \cup {"Removing"}

\* recover: once the record says `recovered`, the node runs the retained image,
\* and still does after any crash, reboot or failed command that leaves the
\* record saying so.
RecoveredRuns ==
  pc = "idle" /\ entry.phase = "Recovered"
    => /\ merged = rollback[running][entry.knownGood]
       /\ ActiveImage = merged

\* install_active: a crash never leaves the node "booting with two merge-visible
\* copies" of the image.
NeverTwoVisible ==
  scoped[running] # None /\ legacy # None => legacy.base # running

\* The active image is replaced only while the record on disk already says that
\* a swap is under way, so a crash at any point of it is found and undone.
SwapIsRecorded ==
  [][scoped'[running] # scoped[running] /\ running' = running
       => entry.phase \in {"Activating", "Reverting", "Removing"}]_vars

\* "Terminal means do not retry this automatically": while the same base runs,
\* the boot units and the deployment marks leave a refusal standing and swap no
\* image; rollback, remove, stage, adopt and reset are the ways out of it.
TerminalIsKept ==
  [][entry.phase = "Unrecoverable" /\ entry.terminalOs = running
       /\ cmd.op \in {"gate", "require", "unrequire"}
       => entry'.phase = "Unrecoverable" /\ UNCHANGED scoped]_vars

\* "A replayed command cannot invert a rollback that happened in between": a
\* request that was carried out starts no second activation until as many other
\* activations have been recorded as the history holds, those of operators with
\* ids of their own included.
AnsweredOnce ==
  [][entry'.phase = "Activating" /\ entry.phase # "Activating" /\ cmd.request \in Requests
       => remembered[cmd.request] = 0]_vars

\* health_gate: a gate that passes for a required extension leaves a known-good
\* image to recover from under the base that passed, whichever base the record
\* was last written under ("later extension-level recovery never looks for an
\* old base's slot").
GateLeavesFallback ==
  pc = "done" /\ cmd.op = "gate" /\ verdict = "ok" /\ entry.required =>
    /\ entry.knownGood # None
    /\ rollback[running][entry.knownGood] # None

\* Every command gives the lock back: reconciliation, recovery and removal
\* return to their caller and never to each other.
CommandsEnd == pc # "idle" ~> pc = "idle"

Interrupted == entry.phase \in Transient \cup {"Removing"}

\* "Power loss between promotion and refresh resolves deterministically": once
\* no command is cut short any more and commands keep coming, an interrupted
\* swap or removal is resolved, provided no file operation fails.
InterruptedIsResolved ==
  (<>[][pc' = "idle" => pc = "done"]_vars /\ []<><<pc = "idle" /\ pc' # "idle">>_vars)
    => (Interrupted ~> ~Interrupted)

(***************************************************************************)
(* What all of this amounts to, from one crash to the next.                *)
(***************************************************************************)
Mode ==
  CASE entry.phase \in {"Activating", "Starting", "Soaking"} -> "swapping"
    [] entry.phase = "Reverting" -> "undoing"
    [] entry.phase = "Removing" -> "removing"
    [] entry.phase = "Unrecoverable" -> "given up"
    [] OTHER -> "settled"

Promised ==
  INSTANCE Supervision
    WITH Images <- Image, base <- running, mode <- Mode, image <- ActiveImage,
         fallback <- IF entry.knownGood = None THEN None ELSE rollback[running][entry.knownGood]

\* The commands, steps, failures and crashes of the agent add up to Supervision:
\* what a swap falls back to is fixed until it has ended, undoing it puts nothing
\* else in place, and a removal is only ever completed.
ImplementsSupervision == Promised!Spec

(***************************************************************************)
(* What the documentation says and the code does not do.                   *)
(***************************************************************************)
\* CARBIDE-AGENT.md: "The agent gates boot blessing, but only after
\* extension-level recovery has been exhausted".
GateOnlyAfterRecovery ==
  pc = "c_store" /\ cmd.op = "gate" /\ verdict = "fail" => mem.phase = "Unrecoverable"

\* CARBIDE-AGENT.md: <name>_<base>.raw.<version>.rollback is the "retained
\* known-good" of that version, so it holds that version.
RollbackHoldsItsVersion ==
  \A b \in Bases, v \in Versions : rollback[b][v] # None => rollback[b][v].version = v
===============================================================================
