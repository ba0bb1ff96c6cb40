# CarbideOS: TLA+ models of the node agent

CarbideOS is an A/B-updated appliance OS. Each node runs `carbide-agent`, a small
privileged program that stages, activates, supervises, recovers and removes
system extensions (`systemd-sysext` images), and stages base images. Around it
are boot units that gate the blessing of a new base, an operator tool, a network
installer, and the scripts that build, sign, publish and prune releases.

This directory holds TLA+ modules that model the parts whose correctness depends
on the order of durable steps, on crashes and on concurrency; TLC configurations
that check them on small instances; and proofs that TLAPS checks for every value
of the constants. Source paths below are relative to the repository's root.

## Inventory

### Components

| Component | State it keeps | Operations | What makes it correct |
|---|---|---|---|
| Extension supervision, `agent/src/main.rs` | per extension: required, active, known-good and candidate version, phase, terminal base, completed requests | health gate, activate, adopt, rollback, remove, require, unrequire, reset; `reconcile_state` before each; `recover` from several | something to fall back to at every instant; a refusal stands; interrupted work is undone before new work; no request is carried out twice |
| State record, `agent/src/state.rs` | `/var/lib/carbide/agent/state.json` | load, store (write aside, sync, rename, sync directory), forget a stale refusal, remember a request | what is on disk is always one complete record, and a store that reports failure may still have happened |
| Operation lock, `agent/src/state.rs`, `api.rs`, `system.rs` | the flock on `operation.lock`, `OPERATION_LOCK_FD`, descriptors inherited by children | acquire, try_acquire, own, drop, retain across exec | whatever mutates has the lock, even after its agent died; nothing else keeps it |
| Staging, `agent/src/ops.rs` | `/var/lib/carbide/agent/staging`, candidates, images of another base | stage-extension (download, digest, dissect, place), stage-base | only a verified image is placed; staging leaves what runs alone |
| System helpers, `agent/src/system.rs` | image files under `/var/lib/extensions` | durable copy, publish, prune, refresh, health check, soak, probe | a crash in the middle leaves a state the next boot can resolve |
| Socket API, `agent/src/api.rs`, `protocol.rs` | one thread per connection | hello, update-status, logs; stage, activate and stage-base under the lock | answers `busy` rather than waiting, and only when something runs |
| Base updates and boot assessment: `ops.rs` (`stage_base`, `verify_extensions_for`) and the units `carbide-agent-health`, `carbide-agent-ensure`, `carbideos-counted-boot-reboot` | two base slots, tries left, boot order | sysupdate, select once, gate, bless, reboot when counted | an unhealthy base is never blessed; a base without its extensions is never selected |
| Operator tool, `mkosi.extra/usr/sbin/carbideos-ops` | none | status, update, reboot and poweroff under the same lock | does not reboot into a base with no extensions, nor during an operation |
| Installer, `installer/src/`, `installer/ui/` | decode buffer and watermark, span counter, first failure, `Progress`, the screen shown, the disk | decode, write by several threads, flush, verify, report; choose, confirm, begin, poll | a block is written only after it was decoded; success means the whole image; an install ends |
| Release feed, `scripts/package`, `sign`, `publish-r2`, `prune-r2` | objects of the feed, the update directory | upload payloads, signature, manifest; prune | a node never reads a manifest whose payloads are missing |
| Build, provisioning and enrolment scripts; extension recipes | files | one-shot shell | sequential, no state of their own |

### How they interact

* The boot units, the command line and the API daemon are separate processes.
  All of them call the same functions, read `state.json` afresh and exclude each
  other by `flock` on `operation.lock`; `carbideos-ops reboot` and `poweroff` take
  the same lock from the shell.
* The daemon runs a thread per connection. Threads share the process's
  descriptors and the static `OPERATION_LOCK_FD`, and any of them may fork.
* Every privileged step is a subprocess (`systemd-sysext refresh`, `systemctl`,
  `systemd-sysupdate`). It may outlive an agent that is killed.
* `state.json` and `/var/lib/extensions` are shared by both base slots. A boot of
  the other base finds a record that describes images under another name.

### What is hard

* **Crashes.** Power may fail, or the agent may be killed, between any two
  durable steps, including those of recovery itself and of removal.
* **Failures.** Each step may fail, some after having taken effect (a rename
  that happened before the directory sync that failed, a refresh that merged the
  new image before it failed).
* **Stale copies.** Reconciliation, recovery and activation each prune rollbacks
  by a copy of the record taken at some earlier point.
* **Two bases** over one record.
* **Descriptors.** A lock that belongs to an open file, threads that fork at any
  time, and children that outlive parents.
* **Retries** of a request whose reply was lost.
* **Running services.** A service goes on running, restarting and failing while
  its image is replaced under it and while it is being judged.
* **An untrusted caller and a changing feed.** The file handed in may be rewritten
  while it is being read; the feed may be published to or pruned between two
  requests of one acquisition.
* **Boot counting.** Two slots, tries that run out, a loader that sorts by version.
* **Threads of the installer.** Workers write spans of an image that another
  thread is still decoding; any of them may fail, and the interface polls them.

`PROJECT.json` lists each of these hazards at the line where it bites, with the
properties that watch it.

## Modules

| Module | Contents | Composes |
|---|---|---|
| `ExtensionAgent` | supervision of one extension: every command, step by step | `Supervision`, as what it implements |
| `Supervision` | what those steps add up to, in four variables | |
| `HealthCheck` | how one image is judged: stop, start, wait, soak, probe | refines the verdict of `ExtensionAgent` (informally, below) |
| `OperationLock` | the lock, its descriptors, and the processes that inherit them | |
| `BootAssessment` | base updates, boot counting, gate, blessing, reboots | |
| `Feed` | the bucket, publishing and pruning | |
| `Staging` | an image from a caller or from the feed to its place | `Feed` |
| `InstallerWrite` | the installer's decode thread, workers, write and interface | |
| `MCExtensionAgent`, `MCBootAssessment`, `MCStaging` | symmetries, restricted initial states, values and a view, for TLC | |
| `PromisesProofs` | what the agent promises beyond `Supervision`: five inductive invariants and theorems of `ExtensionAgent` | `SupervisionProofs` |
| other `...Proofs` (seven) | inductive invariants and theorems of the module they are named after | `SupervisionProofs` uses `ExtensionAgentProofs` |

The operators commented `Slip:` are steps with a bug that is easy to make. They
are not part of any specification; each shows that a property can fail.

### ExtensionAgent

One extension is modelled; the agent treats each entry of its map alike, and an
extension's files are told apart by its name.

| Variables | In the code |
|---|---|
| `entry` | the extension's entry in `state.json`; `present` says whether the map has the key |
| `scoped`, `legacy` | the images `<name>_<base>.raw` and `<name>.raw` |
| `rollback`, `candidates` | `...raw.<version>.rollback` and `...raw.<version>.candidate`, per base |
| `running`, `merged` | the base booted, and the image `systemd-sysext` has merged |
| `pc`, `cmd`, `mem`, `snap`, `ret`, `verdict` | the agent under the lock: next step, command line, in-memory record, the copy a step made of it, where a shared function returns to, and whether anything failed |
| `proven`, `remembered`, `entry.kgBase` | history: images found healthy while merged, how many more ids may be recorded before a request that was carried out may be forgotten, and the base under which the known-good was recorded; no guard reads them |

An image is its base and version. One action is one stretch of code between two
points at which a crash would leave a different disk, error returns included.
`ActivateRecord` is the assignment of candidate, known-good and phase with the
store that follows; `ActivateHide` and `ActivateInstall` are the two renames of
`install_active`; `RecoverPrune` is all the deletions at the end of `recover`, with
an outcome for every part of them that may have been done before an error.
`store()` has three outcomes (`StoreOk`, and the two of `StoreFails`: with and
without the new record on disk). `Kill` and `Reboot` may come between any two
steps; a reboot may come back on any base, which covers power loss, an update
and a rollback of the base. Of a killed agent's refresh, the next command sees it
done or not done: the child keeps the lock until it ends (`OperationLock`).

`stage` and `install` are `stage-extension` without and with `--activate`; `activate`
is `activate` and the socket's `activate-extension`, with or without a request id.
`Requests` are the ids callers give and may repeat. `install` makes up an id of its own
(main.rs:579-582, a kernel UUID, or none if that cannot be read), one of `Generated`, which
is new to the record; its commit takes a place in the history like any other.

Health is not a state of an image: each check may pass or fail whenever the merged
image brought a ruleset. What a passing check rests on is the subject of
`HealthCheck`. Three things the code reads from an image or the node are inputs:
its version and base (every image is taken to declare a version), whether it brings
a usable ruleset (`Supervised`), and whether there is space (`ActivateRetain` may
fail without `IoErrors`).

* `FallbackRetained`: while the record on disk names a known-good version and no
  removal is under way, its retained image is on disk. Three functions delete
  rollbacks, each by its own copy of the record.
* `KnownGoodProven`: what recovery would restore has passed a health check.
* `CandidateIsJudged`: what is judged during an activation is the candidate.
* `SettledFirst`: no command begins or reports success over unresolved work.
* `RecoveredRuns`: a record that says `recovered` is true of the node.
* `NeverTwoVisible`: two images are never visible to `systemd-sysext` at once.
* `SwapIsRecorded`: the active image changes only with the intent on disk.
* `TerminalIsKept`: boot units and marks leave a refusal standing.
* `GateLeavesFallback`: a gate that passes leaves an image to recover from under
  the base that passed, whichever base the record was written under.
* `AnsweredOnce`: a request that was carried out starts no second activation until as
  many other ids have been recorded as the history holds, those of installs included.
* `CommandsEnd`, `InterruptedIsResolved`: liveness, below.
* `ImplementsSupervision`: the refinement.

### Supervision

The abstract specification of the agent: what an observer of the disk alone may
rely on, without commands, memory or steps.

| Variable | Refinement mapping |
|---|---|
| `base` | `running` |
| `mode` | the phase on disk: `Activating`, `Starting` and `Soaking` are "swapping", `Reverting` "undoing", `Removing` "removing", `Unrecoverable` "given up", any other "settled" |
| `image` | the scoped image of the running base, else the legacy one (`active_path`) |
| `fallback` | the rollback of the known-good version under the running base, or `None` |

A swap begins on record before the image moves; while it lasts the fallback is
fixed; undoing puts nothing but the fallback in place and is "settled" only when
it is; a removal can only be completed. Three actions leave a choice open, each
because the code does. `Adopt` may leave any image as fallback: `adopt_active`
keeps a rollback that is already there under the merged version's name. `Clear`
takes files in any order, since a removal that was cut short takes up wherever it was.
`GiveUp` may have moved the image if it was undoing: `terminal()` is stored after
`install_active`.

### HealthCheck

`wait_until_ready`, `probe` and `soak` of system.rs, and the swap of main.rs
(777-824 in an activation, 293-342 in a recovery, 215-242 in the gate) that leads to them.

| Variables | In the code |
|---|---|
| `image` | what is merged: "outgoing" or "incoming" |
| `unit`, `process`, `queued` | systemd's: ActiveState, the image the process was started from, a waiting start job |
| `op`, `ruled` | what the check is for, and whether the outgoing image has a ruleset to stop by |
| `pc`, `attempt`, `asked` | the step; the attempt of `wait_until_ready`; what a probe is for |
| `left`, `nap` | time to the deadline, time left to sleep |
| `seen`, `blind`, `fell`, `justified` | history; no guard reads it |

The service and systemd are external. `start --no-block` leaves a job; a
job does nothing to a unit that is up; a unit may become ready, fail, exit, restart or be
started by others between any two questions. A `systemctl` that does not run is a "no", as in
`unit_is_active`. Reading the ruleset after the refresh and the stores between the steps are
part of `Refresh` and of the steps next to them: an error there is a rejection.

* `TrustIsEarned`: a check that passes did so on a service that had not gone
  down during the soak for good, and on a process of the merged image if the
  service was stopped for the swap and not started before the refresh (`~blind`).
  The `blind` cases are a hazard no property covers: the model reaches a pass on the old process there.
* `GivenUpAfterAllAttempts`: a service is given up only after each attempt saw
  it fail by itself or ran out of time.

This is what `ExtensionAgent` abstracts: there a check may pass or fail at any time
over the merged image. `TrustIsEarned` shows when "the merged image passed"
is what a pass means; where `blind` holds, see the observations.

### OperationLock

| Variables | In the code |
|---|---|
| `pc`, `file` | what a command, a daemon thread or `carbideos-ops` is doing, and its `OperationLock.file` (descriptor 9 of the shell) |
| `open` | which processes have a descriptor of which open file |
| `locked` | the open file that has the flock |
| `fd` | `OPERATION_LOCK_FD` of each process |
| `child` | each child: forked or running, of whom, whether it mutates, the descriptor it was told to keep, the file its command had the lock on |

The kernel's side is modelled from how the code relies on it: the lock belongs to
an open file and falls with its last descriptor, a fork copies all descriptors,
an exec closes those with close-on-exec. `retain_operation_lock` clears that flag
on the descriptor registered in `OPERATION_LOCK_FD`; `run` and `probe` do not call it. `Drop` has two steps,
since the code forgets the number before the file closes; `ForgetClosed` shows the
other order failing.

* `MutatorsHoldTheLock`: a command under way and any mutating child have the lock,
  the child also after its agent was killed.
* `BusyIsJustified`: the lock is taken only while a command or a mutating child
  runs or a process is between fork and exec. The last case is real: a thread
  that only answers `update-status` may fork while another holds the lock, and for the moment before
  the exec the child keeps the file open; a request in that moment is answered
  `busy` although the operation has ended.
* `LockComesFree`: the lock always falls in the end.

### BootAssessment

| Variables | In the code |
|---|---|
| `uki`, `tries` | the boot entries of `90-uki.transfer`: none, counted with tries left, or blessed |
| `slot` | the root partitions: absent, cut short, written to the cache, on disk |
| `oneshot` | `LoaderEntryOneShot` |
| `images`, `required`, `merged` | per base and extension its scoped image: absent, unusable or valid; `state.json`'s required names; what is merged |
| `running`, `phase`, `halt` | the base, where its boot is in its assessment, how the system went down |
| `pc`, `target` | `stage_base` under the operation lock |
| `quality` | what a release is worth: boots and passes, boots and fails the gate, does not boot; nothing in the node reads it but booting and the gate |

Base versions are numbers: `systemd-boot` and `ProtectVersion` go by age. `StageBase`
to `Select` are the steps of `stage_base`, `Verify` and `Reverify` its two
calls of `verify_extensions_for` with either list unreadable. `GatePass`, `GateFail`, `Bless`
and `Reject` are the health unit and the units around it; a gate that is kept from
the lock by a `stage-base` times out. `PowerLoss` may lose what is in the cache.
`systemd-sysupdate`, `systemd-boot` and `systemd-bless-boot` are modelled from how
the transfers and units rely on them.

* `BootedSlotIntact`: no update touches the slot or the entry of the base that runs.
* `FallbackKept`: there always is a blessed, whole and good base to come back to.
* `EntryHasExtensions`: a boot entry appears only for a base that has a valid
  image of every extension installed on the running one. The entry alone, not the
  selection, makes the new base the next one to boot.
* `CheckedRebootKeepsExtensions`: what `carbideos-ops reboot` checked still holds
  when the node boots.
* `NoRebootLoop`: liveness, below.

### Feed and Staging

`Feed` is the bucket of the release feed: payloads, signature and manifest are
separate objects, uploaded in that order by `publish-r2`, which may be interrupted
after any of them, skips payloads that are there and refuses to replace any;
`prune-r2` deletes what its local manifest does not name.

`Staging` runs `stage-extension` against it.

| Variables | In the code |
|---|---|
| `source` | the caller's file, which the caller may rewrite while it is open |
| `staged`, `temporary` | the private copy in the staging directory; bytes of copies that were cut short |
| `placed`, `candidate` | an incoming base's scoped image; the running base's candidate file |
| `record` | the candidate version in `state.json` |
| `taken` | what other processes use of the filesystem meanwhile |
| `pc`, `request`, `selected`, `budget` | the command: step, request, feed revision, and the size its space check was for |

The content of a file is one of a small set, with a size, the base and the version
it declares, and whether `dissect` accepts it. `Reconcile` is the part of
`reconcile_state` that deletes such files; `ExtensionAgent` has the rest. A feed name
is a base, a number and whether the number is written canonically.

* `OnlyValidatedIsPlaced`: what is under a name that is merged or activated was
  accepted, and declares that base.
* `PlacedIsAsked`: it has the digest and base its caller named, whatever the
  caller wrote to its file meanwhile.
* `AdmittedFits`: a command that passed its space check finds the space for each copy.
* `OfferedIsServed`: a manifest a node can verify has all its payloads, with
  the bytes it names.
* `NoDowngrade`: an acquisition that leaves the revision open never goes back. It is a claim about
  the agent and the feed together: `FeedGrows` is what `publish_extension` makes of the releases
  packaged one after the other, while its base stays in the feed. `MCStaging` assumes it of its instance, so TLC evaluates it.

`Free` counts the images in place as a set of bytes, one pair of base and position for each, whose
cardinality needs no fold over the bases.

### InstallerWrite

| Variables | In the code |
|---|---|
| `image`, `decoder` | whether `start_image` succeeded, and where the decode thread is |
| `decoded`, `ready`, `broken` | what is in the buffer, `Image.ready`, `Image.failed` |
| `writer` | where the thread of `install::run` is |
| `next`, `failure` | the two locals of `run` the workers share |
| `worker`, `index` | where each worker is, and the span it has claimed |
| `disk` | what this write has done to each span: nothing, a part, written (decoded or not), flushed |
| `progress` | `Progress.finished`, `error`, `written` |
| `screen` | the phase of the interface; `committed` is its confirm phase once confirmed |

The image is counted in blocks and a span is `Span` of them. A worker's loop is cut
at each access to what the threads share: the look at `failure`, the `fetch_add`, each
look at the watermark and at the decoder's error, the write, the count.
`Decode` puts blocks into the buffer and `Publish` moves the watermark, so a worker
can run between the two. Writing copies what the buffer holds: `disk` says
"garbage" when that is not decoded yet. `fail()` is two steps, and so is the timer's
look at `finished` and `error`. `Reboot` covers the power keys and a power cut.

The device is honest: what it acknowledged and flushed is stored. `Verify`, the
sampled comparison, may pass or fail, and nothing relies on it. Discarding, the attract
screen, eligibility of disks and the styles of confirmation are left out; the headless
mode runs the same engine.

* `OnlyDecodedIsWritten`: no worker copies what is not decoded.
* `CompleteIsWhole`, `CountIsWhole`: the summary screen means that every span is
  flushed, and that the workers' counter, which the progress display reads, holds the size of
  the image. (The summary itself prints `progress.total()`, main.rs:347, which is that size by construction.)
* `PowerKeysAreSafe`: off the install screen, where the power keys work, no thread writes.
* `InstallEnds`: an install ends, also if the payload ends early, is damaged or the
  device refuses.

## Runs

| Run | Instance | Distinct states | Shows |
|---|---|---|---|
| `agent_io` | 1 base, 2 versions, all commands, every step may fail | 3,277,454 | six invariants, two action properties, the refinement of `Supervision` |
| `agent_ab` | 2 bases, 2 versions, gate and install, reboots into either base | 2,825,714 | `GateLeavesFallback`, the refinement across bases |
| `agent_live` | 1 base, 3 versions, one without a ruleset, 1 request, 1 generated id, history of 1, fair commands, no failing step | 837,391 | `KnownGoodProven`, `AnsweredOnce`, `CommandsEnd`, `InterruptedIsResolved` |
| `health` | 2 attempts of 2 polls, soak of 3 with rounds of 2 | 18,224 | `TrustIsEarned`, `GivenUpAfterAllAttempts` |
| `lock` | 1 command, 2 threads, 1 operator, 2 children, 3 open files, fair | 67,448 | three invariants and `LockComesFree` |
| `boot` | 3 bases, 1 extension, 2 tries | 2,290,080 | three invariants, two action properties and `NoRebootLoop` |
| `stage` | 2 bases, 6 contents, 3 releases | 567,554 | four invariants and two action properties |
| `install` | 3 workers, 7 blocks in spans of 2, fair | 197,690 | five invariants and `InstallEnds` |
| `agent_soak`, `agent_label` | 1 base, 3 versions | stops at the counterexample | two findings |
| `boot_fallback` | 3 bases, updates also before a boot is blessed | stops at the counterexample | a finding |
| `install_commit` | 1 worker, 1 block | stops at the counterexample | a finding |

Where the counts use symmetry (`agent_io`, `agent_ab`) they are of states up to permutation.

### Bounds, and why they are enough

* *Bases, versions.* A record names at most three versions, but a swap
  involves two: the one that goes and the one that comes. `agent_io` therefore takes two;
  `agent_live` takes three, of which one cannot be adopted. Two bases suffice for a record
  to be right for one and wrong for the other. The theorems remove these bounds for the properties they cover.
* *Requests and history.* The code remembers 64 ids; `History` is a constant. In `agent_live`
  it is 1, beside one request and one generated id: an install evicts the request, a
  request evicts the install's id, and an off-by-one in the cut shows. A second generated id would only
  be another name: what the record has dropped is as good as new. `agent_io` has a
  generated id for the commit's failing outcomes. The other runs have neither, since without a request to be
  evicted nothing looks at what the history holds; an install then goes on without an id.
* *Legacy images.* `agent_ab` starts without unscoped images (`ScopedSpec`). With
  them and two bases, two images of one base may be visible after staging for
  the other base; `NeverTwoVisible` and `RecoveredRuns` are for this reason stated of one base.
* *View.* `agent_ab` drops the history variables from the state. No action's
  guard, and neither of its properties, reads them.
* *Symmetry.* Only in `agent_io`, `agent_ab`, `agent_soak` and `agent_label`, over
  versions and bases that no action or property orders; no run with fairness uses symmetry.
* *Health check.* Time is counted in polls. Two attempts make one that is followed
  by another and one that is the last; a ready timeout of two has a look before and one at the
  deadline; a soak of three in rounds of two has a full nap, one cut to what remains, and the look after the end.
* *Boot.* The node starts on the middle one of three bases, so that it may update
  to a newer and to an older one and has more releases than slots. Two tries: one failed
  boot with another to come, and the last. One extension is there, missing, invalid, required or not.
* *Staging.* Sizes are 1 and 2, the margin and a rollback 1, the capacity 5: an
  image of 1 needs 4, so each file left behind, the caller's growth and other writers
  decide. Three releases publish, replace and retire a revision, one name has a
  suffix that is no revision, and the largest number is 1 (`MaxRevision`), so the limit is reached.
* *Installer.* The last span is a short one and there is a span more than there are workers:
  spans are claimed, waited for and written in any order, and one worker can also do them all.
* *Lock.* A conflict needs two holders, a mutating child that outlives its command and
  another child that forks meanwhile. Three files let two processes and an orphan have one.

### Failing steps

`KnownGoodProven` is checked without failing steps, because with them it is not
true: `adopt_active` copies the file at `active_path`, and after a recovery or a
removal that failed half way that file need not be the image that is merged and
was just checked. The step that could go wrong is in the model, in `agent_io`.

### Fairness

* `ExtensionAgent.FairSpec` is weak fairness of `AgentStep`: nothing else runs
  under the lock, every wait of the agent has a deadline, so a command that is
  not killed takes its next step. Nothing forces a command to be given.
* `InterruptedIsResolved` is conditional: if from some time on no command is cut
  short, and commands keep being given (`carbide-agent-ensure.service` and the
  health unit run the gate at every boot, and operators and the fleet give
  others), an interrupted
  swap or removal is resolved. Without the first condition a node that loses
  power at every attempt is a counterexample. A command that ends is formally the step
  to `idle` from `done`.
* `OperationLock.FairSpec`: children exec and end (`probe` kills at its deadline, systemd bounds
  its own jobs), a command that has the lock goes on, and it drops the lock after
  finitely many children: strong fairness of `Drop`, since starting a child disables it for
  a while. Taking the lock is not assumed fair: flock promises no order.
* `BootAssessment.FairSpec`: `stage_base`, the firmware, the gate, blessing and
  the gate's reboot go on by themselves, weakly fair. Nobody has to stage, reboot or cut the
  power. `NoRebootLoop` is conditional: once the power holds, the
  node keeps getting back to a blessed boot. A power cut at every boot spends
  the tries of a good base too.
* `InstallerWrite.FairSpec`: threads run and timers fire, so weak fairness of the decode
  thread, of `run`, of each worker, and of the two timers. The operator's keys and reboots are not fair.

### Findings

Each is a run TLC refutes, on one sentence of the documentation or of a comment.

* `agent_soak`: an image that merged but is not on record, and fails its soak in the gate,
  makes `verify_or_recover` return the error (main.rs:242) without trying the
  retained known-good, although recovery is promised to be exhausted first.
* `agent_label`: after a recovery that restored the image but found it unhealthy,
  the record still names the replaced version as active, and the next activation retains the
  restored image under that name (main.rs:754). A later rollback to that
  version restores another one.
* `boot_fallback`: a `stage-base` given while a counted boot is still assessed
  protects that boot's slot and vacuums the blessed one (ops.rs:543). When the gate then
  rejects the boot, the previous image does not come back: there is none.
* `install_commit`: if the payload cannot be opened, Escape leaves the failure screen
  for the disk picker, where a disk can be confirmed. `begin-install` then returns
  (main.rs:271) and the interface stays committed, swallowing every key.

Other observations, not claimed as findings.

Extensions:

* The comment at `install_active` says a retained known-good exists before the
  legacy image is hidden. It does not if the legacy image has no ruleset.
* An activation cannot begin when the record names an active version with no
  image under the running base; `remove` clears that.
* `Staged` takes the place of `Unrecoverable` when an operator stages an image: the gate
  then tries again.
* From the second replacement on, with no reboot between, activation retains the outgoing
  image before it prunes the older known-good: four images at once, where
  CARBIDE-AGENT.md:128-129 budgets three. `missing_rollback_size` counts no
  rollback when one is retained, so staging may succeed and the activation be refused for space (main.rs:736).
* `verify_or_recover` takes an empty list of merged names for "unknown" and does not recover then.

Health checks:

* A service that is not stopped before the swap (the outgoing image has no usable
  ruleset; the stop fails in a recovery and is ignored; somebody starts the service
  between stop and refresh) is what gets judged, since a start does nothing to
  a unit that is up: the candidate may be committed without ever having run.
* A crash that `Restart=` mends between two rounds of the soak goes unnoticed, though the service
  is to "stay healthy for the soak period".
* The result of `reset-failed` is ignored. It is taken to fail only when the start fails too.

Boot:

* A base older than the running one does not survive its first boot as the choice:
  after the one-shot boot the loader goes by version again.
* Such a downgrade is not reported by `sysupdate pending`, so `carbideos-ops reboot`
  does not check it. After the downgrade, with an extension installed, the same command
  is refused or compares with the base that runs.
* An entry whose tries are spent still counts as pending and can be selected again.
* A slot that was cut short but has its entry counts as installed; staging the same version again skips it.
* When `Reverify` refuses, the counted entry stays, and is the default of the next boot.
* An unreadable list of merged or required names shrinks the set that is verified, silently.
* `require-pending` in the shell looks at the presence of files, not at their validity.
* The gate waits for the operation lock while its own `TimeoutStartSec=900` runs.

Staging and feed:

* An explicitly named version may place an image whose name automatic selection ignores ("-02").
* `NoDowngrade` assumes that a feed does not retire a newer revision while it still offers an older one.
* A base version that contains a dash reads like a revision of another base; the release in the image then refuses it.
* `prune-r2` compares nothing with the live manifest. It is modelled as run on the
  release that is live and with no publish beside it, because the script checks for neither; from any
  other directory, or beside a publish, it may delete payloads a node can still verify. No property covers that.
* An interruption between signature and manifest leaves a feed nothing can be verified from until the publish is repeated.
* A payload that was rebuilt under a name already uploaded makes `publish-r2` refuse until `--adopt-existing`.
* `journal` (system.rs:646-653) passes `--lines` together with `--after-cursor`, although its comment says
  that the lines are then counted from the end. Not modelled.

## Proofs

`tlapm` checks the eight proof modules completely. The assumptions are
those the modules name: for `ExtensionAgent` that supervised versions are versions, the
history is positive, the commands are known ones, generated ids are not those of callers and `None` is neither an image
nor a name; for `OperationLock` that actors, children, the daemon and `None`
are distinct; for `InstallerWrite` that there is a worker and that image and
span have a size; for `BootAssessment` that base versions are numbers and there is a
try; for `Feed` and `Staging` that contents have a size and declare bases the node knows, that
there are finitely many bases to come, and
the first release exists; for `HealthCheck` that a ruleset permits an attempt, as `Ruleset::validate` demands.

Some theorems need more, and say so in their `ASSUME`. Each such hypothesis marks where the claim
ends in the code as well:

| Hypothesis | Theorems | Why it is needed |
|---|---|---|
| `OneBase` | `TheRecoveredNodeRunsWhatWasRetained`, `KnownGoodIsProven` | what is retained belongs to one base; a reboot into the other slot leaves it behind |
| `OneBase`, or no staging | `NeverTwoAreVisible` | an image staged for the other slot may come to lie beside an unscoped one |
| `~IoErrors` | `KnownGoodIsProven` | after a recovery or a removal that failed half way, `adopt_active` may copy another file than the one that was checked (see Failing steps) |
| `IsFiniteSet(Workers)` | `TypeCorrect` of `InstallerWrite` | the claim counter is bounded by the number of workers |
| `FeedGrows` | `AcquisitionsGoForward` | a feed that retires a newer revision and offers an older one, or a caller who hands in an image ahead of its release, makes the newest on offer older than what is in place; so does a base that is dropped from the feed and packaged again from its first image |
| `~EarlyStaging` | `FallbackIsKept` | `boot_fallback` is the counterexample without it |

The runs satisfy each of them: `agent_live` has one base and no failing step,
`agent_io` one base and failing steps, `stage` a feed that grows.

`ExtensionAgentProofs`:

* `TypeCorrect` (`Spec => []TypeOK`). `TypeOK` is not inductive: what a step reads
  from its command depends on the command. `ControlInv` says which commands can be
  at which step and where shared functions may return to.
* `KnownGoodIsRetained` (`Spec => []FallbackRetained`). The invariant
  `FallbackInv` extends the claim to the record in memory (`HoldsInv`), confines
  removals (`RemovingInv`), and relates the copy each pruning uses to the
  record: during reconciliation neither the record on disk nor the one in memory
  names a known-good other than the one read at the start (`ReconcileInv`);
  at the other two prunings disk and memory agree, and activation's copy of the
  active version is the new known-good (`PruneInv`); what is about to be
  recorded has been retained (`RetainInv`). With two bases the claim is about the base the
  version was recorded under, and pruning touches the running base only.
* `SwapsAreRecorded` (`Spec => SwapIsRecorded`), from `PhaseInv`.

`SupervisionProofs`, on top of those:

* `AgentImplementsSupervision` (`Spec => ImplementsSupervision`): the initial states map
  to initial states and every step to a step of `Supervision` or a stutter. A store writes
  what is in memory over what is on disk, so the heart of `SupervisionInv` is
  `StoreInv`: at each step that stores, `MayFollow` lists the ways the record in memory may
  differ from the one on disk and what the files then look like. `FreshInv` says where the two
  agree, `UndoInv` that recovery ends only with the retained image in
  place, `OutgoingInv` that the outgoing image and its rollback are one,
  `TrialInv` that a candidate on trial is on record.
* `WorkBeginsAtRest` (`SettledFirst`), from `RestInv`: reconciliation leaves a record at rest or fails the command.
* `TheCandidateIsJudged` (`CandidateIsJudged`), from `JudgedInv`: the candidate is the only image
  visible under the running base when the refresh merges it.
* `ThePassingGateLeavesFallback` (`GateLeavesFallback`), from `GateInv`, across bases.

`PromisesProofs`, on top of those:

* `RefusalsAreKept` (`TerminalIsKept`). `KeptInv`: a boot unit or a mark that finds a refusal
  on disk holds it in memory too, and is at none of the steps that would undo it.
* `NeverTwoAreVisible` (`NeverTwoVisible`). `VisibleInv`: an unscoped image is never for a base
  that has a scoped one. Hiding and installing take the unscoped one away first.
* `TheRecoveredNodeRunsWhatWasRetained` (`RecoveredRuns`). `RecoveredInv` keeps the claim for both
  copies of the record, and no copy says `recovered` while an image is replaced.
* `KnownGoodIsProven` (`KnownGoodProven`). The claim about the known-good alone says nothing of
  the image the next activation will retain. `RetainedInv` is about every retained image, `Settles` relates, by
  the phase of the record, what is merged, what is active and what has passed; `SureInv` is what
  each step has made sure of for the next. One lemma per group of steps.
* `RequestsAreAnsweredOnce` (`AnsweredOnce`), for a history of any length and any requests and
  generated ids. `CompletedInv`: in both copies of the record, a request stands behind no more ids than
  `remembered` says have been recorded since. `RecordCompletedRecalls` is the arithmetic of
  append and cut: a place further back at most, and dropped only when the count has reached zero.
  `UndoneInv`: between the check of a request and its commit the history does not hold it.
  `OnlyRecordActivates` names the one step that starts an activation.

`HealthCheckProofs`:

* `TypeCorrect`, `TrustIsAlwaysEarned` (`TrustIsEarned`) and `AllAttemptsAreMade`
  (`GivenUpAfterAllAttempts`). `ImageInv` follows the process through stop, refresh and
  start: once the old one is stopped and nobody started it, whatever is
  up was started from the merged image. `FellInv`: a service that fell is
  down until it is started again, and the soak ends only at a look that finds it up. `AttemptInv`
  and `PastInv`: a failed unit, after the reset, failed in this attempt.

`OperationLockProofs`:

* `TypeCorrect`, `MutationIsOwned` (`Spec => []MutatorsHoldTheLock`),
  `LockIsJustified` (`Spec => []BusyIsJustified`). The invariant says who may have
  a descriptor of which file: an actor of its own only, a running child of the
  one it keeps, and that only a mutating child keeps one. `ClosingLemma` is the
  common part of exec, end and kill: closing one process's descriptors leaves
  everybody else's lock alone.

`BootAssessmentProofs`:

* `TypeCorrect`, `RunningBaseStays` (`BootedSlotIntact`), `EntriesHaveExtensions`,
  `CheckedRebootsKeepExtensions`. Besides `TwoSlots` (an entry has its slot, and no
  more than two slots are in use, so the loader's newest exists), the invariant says what
  `stage_base` knows of its target at each step (`TargetOK`) and what
  the operator's check has shown while the node is down (`RebootChecked`).
* `FallbackIsKept` (`FallbackKept`), under `~EarlyStaging`: `BlessedInv` adds that
  the running base is the blessed, good one whenever an update writes. `boot_fallback`
  shows that the assumption is needed.

`StagingProofs`:

* `TypeCorrect`, `ValidatedIsPlaced`, `PlacedIsWhatWasAsked`, `FeedIsServed`. `FeedInv`: what a
  publish has uploaded stays until the manifest is up, and a prune has only payloads
  in hand that the live manifest does not name. `StagingInv` follows the private copy from
  its digest and its verdict to its place.
* `WhatIsAdmittedFits` (`AdmittedFits`). What is free changes under the command while others
  write, so `SpaceInv` is about `Room`, what is free when nobody else writes: what each check has found
  room for and the steps since have not used, the margin included.
* `AcquisitionsGoForward` (`NoDowngrade`). `RevisionInv`: whatever of the feed is in place was offered by a release
  up to the live one, and what was selected as the newest is no older than what is in place, which
  holds however the feed moves on between selection, download and placing.

`InstallerWriteProofs`:

* `WritesAreDecoded` (`Spec => []OnlyDecodedIsWritten`): a worker that writes has seen
  the watermark at the end of its span, and the watermark never passes what is decoded.
* `SuccessIsWhole` (`Spec => []CompleteIsWhole`) and `OffScreenIsQuiet` (`Spec =>
  []PowerKeysAreSafe`). `CompleteIsWhole` speaks of the last screen only. `ClaimInv` says where a
  claimed span can be while no failure is noted, written or with a worker, and that
  a worker ends only when all are claimed; `StageInv` and `ScreenInv` carry that
  through the join, the flush, `finished` and the interface's two looks.
* `TheCountIsWhole` (`CountIsWhole`). `CountInv`: the count is the length of the spans written and counted, the
  last of which may be short; `HoldInv` says that a span is held by one worker and counted
  once. `LengthAdds` and `LengthBounds` are about the cardinality of such sets of spans.
* `TypeCorrect` (`TypeOK`). `BoundInv`: each claim beyond the last span ended a worker.

Only model-checked: all liveness (`CommandsEnd`, `InterruptedIsResolved`, `LockComesFree`,
`NoRebootLoop`, `InstallEnds`), which the prover does not handle, and the four violations. Every
invariant and every action property of a passing run is a theorem.

## Not modelled

* Parsing and formatting: rulesets, protocol lines, `journalctl`, `dissect`
  output, the warnings for unreadable records.
* Several extensions at once in `ExtensionAgent`. They share only the store, which writes all entries
  together; an entry whose reconciliation fails makes the command fail for all.
* The bytes of an image, and the tools that read it: their verdict only.
* Space during an activation: `ActivateRetain` may fail for lack of it at any time.
* What the gate does to extensions while a boot is assessed: `BootAssessment` has its verdict,
  `ExtensionAgent` its steps.
* `publish-r2 --adopt-existing` and the recovery of missing digests from the published manifest; two scripts at
  once; channels and size limits.
* `carbideos-ops poweroff` and the status output; the socket's request parsing and read timeouts.
* Everything `PROJECT.json` lists as `not_modelled`: user interfaces,
  ioctls, build, provisioning and enrolment scripts, image recipes.

## Plan

What would add most, in this order:

1. `HealthCheck` composed with `ExtensionAgent`: its verdicts as those of the agent's
   checks, and liveness of a check (every wait has a deadline, so each ends).
2. The gate's time: waiting for the lock, reconciliation and recovery against `TimeoutStartSec=900`.
3. `publish-r2 --adopt-existing` and its digest recovery, in `Feed`.
4. Several extensions over one record, and the gate over all of them.
