# dig-updater: a TLA+ verification project

dig-updater is the auto-update beacon of the DIG Network. On every host a
scheduled task wakes a privileged **broker**; the broker spawns an unprivileged
**worker** that fetches and verifies a signed feed and stages its artifacts; the
broker verifies everything again and replaces the installed binaries, behind a
health gate and with a rollback. Off the hosts, a **feed signer** publishes the
feed of each channel. This project models the part of it whose correctness
depends on order, failure and time. It reads the crates under `src/crates/` and
the feed's workflow; the line ranges of every definition are in `PROJECT.json`
("map").

## 1. Inventory

| component | state it keeps | operations | interacts with | what makes it correct |
|---|---|---|---|---|
| trust core (`dig-updater-trust`) | none; the type `TrustState` | `verify_update_chain`, `TrustState::advance` | called by worker, broker, feed signer | an accepted feed is fresh, signed, above the floor; marks never go back |
| update pass (`broker/pass.rs`, `health.rs`, `selfupdate.rs`) | per pass: plan, snapshot, outcome of each component | `Installer::apply` | everything below | whole sets, no lost binary, services come back, marks only after success |
| planner and catalog (`plan.rs`) | the built-in catalog | `Plan::build` | reads the disk and the records | a component is skipped only if its whole set is current |
| installer (`install.rs`) | install destinations, their moved-aside siblings, the private copies | `stage_and_verify_private`, `install_from_private`, `refresh_aliases` | OS installers, locked files, the staging directory | what was hashed is what is installed; a failed replace puts the original back |
| last-known-good cache (`rollback.rs`) | cached bytes and a record per binary | `snapshot`, `restore` | pass, manual rollback | what is restored is what was captured |
| records (`installed.rs`), marks (`state.rs`) | one JSON file per channel each | `record`; `load`, `save` | planner, pass | never lost, never on another channel's scale |
| facade (`broker/lib.rs`) | paths | `run_once`, `dry_check`, `rollback`, `pause`, `resume`, `set_channel` | all | a pass at a time, and commands beside it that do no harm |
| lock (`lock.rs`) | an OS mutex or file lock | `try_acquire` | facade | exclusion, freed by death |
| config and status (`config.rs`, `status.rs`) | `config.json`, `status.json` | load, save, mirror | facade, CLI | a pause is honored, the mirror catches up |
| schedule (`scheduler.rs`, `optout.rs`) | the OS artifact, the opt-out marker | `install`, `uninstall`, `ensure` | every pass heals it | healed, but never against an opt-out |
| service control (`service.rs`, `liveprocess.rs`) | none | `control`, `settled_run_state` | pass, service manager | a verdict only on evidence, no service left down |
| worker (`dig-updater-worker`) | the staging directory | `run` | spawned by the broker | nothing is reported that was not staged and verified |
| worker spawn and sandbox (`spawn.rs`, `sandbox.rs`) | a child process, a pipe, a thread that reads it | `spawn_worker` | worker | a hung or endless worker neither hangs nor fills the broker; its report arrives whole |
| version probe (`probe.rs`) | a child process | `bounded_probe` | planner, health gate | it comes back, and leaves no child running |
| path security (`secure.rs`, `dacl.rs`, ...) | none | `judge`, `judge_files_created_in`, ownership checks | schedule, facade | exactly the lists that grant a write are refused |
| feed signer (`dig-updater-feedsign`, `feed.yml`) | channel configuration, two published bases | `doctor`, `sign`, audits | releases, hosts | a feed the hosts accept, whole, fresh and in order |
| extension force-list (`ext_forcelist.rs`), command line | none | `follow_channel_change` | facade | the extension follows the channel |

What is hard here: a pass changes several files and a service, one at a time, on a
machine where any file may be locked, any write may fail and the process may be
killed between any two steps; what it leaves must be understood by the *next* pass,
which sees only the disk, the records and the marks. Around the pass, commands that
take no lock, a worker that outlives its broker, an operating system's scheduler and
service manager, and a publisher with races of its own. The hazards, each at its line
and with the properties that watch it, are listed in `PROJECT.json` ("hazards").

## 2. Modules

| module | what it is |
|---|---|
| `TrustChain` | the trust chain and the marks, as operators: what is accepted (`Accepts`), what an accepted manifest does to the marks (`Advance`) |
| `UpdatePass` | the update passes of one channel on one host, for any catalog and feed |
| `Broker` | the broker's entry points side by side: passes, dry checks, pause, resume, channel set, manual rollback |
| `PersistedFile` | `write_json_atomic` with more than one writer, as operators |
| `ChannelMarks` | abstract: each channel has a mark, which only moves to newer releases of that channel |
| `Staging` | worker, staging directory, verified copy, choice of a variant |
| `ChildIO` | a call of the broker that starts a child: the version probe and the worker's IPC |
| `Schedule` | the daily wake: install, uninstall, ensure, the opt-out marker |
| `ServiceControl` | one service around its replace, against a service manager with a life of its own |
| `AccessControl` | the verdict over an access-control list beside what Windows grants |
| `FeedSigner` | releases, the feed workflow, two bases, a polling host |
| `MC...` | one small instance of each for TLC |
| `UpdatePassProofs`, `BrokerProofs`, `StagingProofs`, `ChildIOProofs`, `ScheduleProofs`, `ServiceControlProofs`, `AccessControlProofs`, `FeedSignerProofs` | proofs about the module each is named for |

`UpdatePass`, `Staging` and `FeedSigner` extend `TrustChain`: the publisher, the
worker and the broker decide by the same chain. `Broker` extends `PersistedFile` and
instantiates `ChannelMarks` as what it promises about the marks. What one module
takes as one step another opens: `UpdatePass` verifies a private copy in one step
(`Staging` chunk by chunk), stops and starts a service in one step
(`ServiceControl`), asks a binary for its version in one step (`ChildIO`, which is also
the spawn of the worker in `Staging`), runs alone (`Broker` has the lock that makes it
so), and is woken for ever (`Schedule` says under which conditions).

### UpdatePass and the code

A state is what is on the host (`disk`, the moved-aside siblings `aside`, the
last-known-good cache `lkg`, the record of installed builds `recorded`, the `marks`,
the services) and what the running pass has in memory (`pc` and below). Bytes are
represented by the build they were published as, so that a digest comparison is
equality; slot 1 of a component is its primary and the other slots its aliases.

The steps of a pass, in the order of `Installer::apply`:

| actions | code |
|---|---|
| `Wake` | lock, load the marks, re-verify, plan (`run_once_with_feed`, `reverify_chain`, `Plan::build`) |
| `TakeComponent`, `TakeBeacon` | the loop over the plan; the beacon's own component is last |
| `Stage`, `Refuse`, `StageFault` | variant selection and the verified private copy |
| `SnapshotAbsent/Bytes/Record/Fault` | `snapshot_set`: bytes are renamed in, the record is then written in place |
| `StopService`, `StopFault` | the stop before the replace; a refused stop defers |
| `InstallPackage`, `PackageLeftOld`, `PackageFails` | a native package, as the OS installer reports it |
| `MoveAside`, `TargetLocked`, `ReplaceFails`, `Place`, `PlaceFails`, `UndoMoveAside`, `UndoFails` | `rename_into_place_with`, once per binary of the set |
| `HealthPasses`, `HealthFails`, `ProbeFault` | `check_binary_set` |
| `RestoreBinary`, `RestoreFault` | `rollback_set`; a failure leaves the rest of the set unrestored and ends the pass, after the restart |
| `RestartService`, `StartFault` | `restart_after` |
| `RecordInstalledBuild`, `RecordFault` | `record_installed_build` |
| `AdvanceState`, `KeepState`, `AdvanceFault` | the marks, if all other components succeeded |
| `Finish` | the report |
| `Crash` | the process is killed, at any point; its memory and its lock go with it |

One action is one change of persistent state, so a kill falls between any two of
them. A pass that verifies nothing new changes nothing and is not a step. External
and modelled from its use: the version decision of the `dig-release-resolver` crate
(`ProbedCurrent`: Skip iff the binary answers with the offered build or a newer one),
the OS package installers, the service managers. Abstracted: signatures and digests
(facts), JSON, paths and permissions, the text of the report. A package installs the
primary only; what else it lays down is overwritten by the alias refresh.

### Broker, PersistedFile and the code

Every process is one command of the CLI with its own program counter; the shared
state is what is on disk (`files`, `legacy`, `installed`, `cache`) and the lock. A
release is its number, which is both its build and its sequence; a pass is one
component that is replaced, deferred or left alone, then the marks, then the mirror.

| actions | code |
|---|---|
| `Acquire`, `Refused`, `CloseHandle` | `SingleInstanceLock`: on Windows the lock is the existence of a mutex, which a refused process prolongs |
| `Gate`, `Fetch`, `Snapshot`, `Record`, `Place` | `run_once_with_feed`, `run_pass`, `LkgCache::snapshot` |
| `Create`, `Write`, `Rename`, `RenameFails` | `write_json_atomic`, for each of the files |
| `Mirror` | `refresh_status_after_pass`, `_after_check`, `_after_config_change` |
| `Look` | `dry_check` |
| `Before`, `Load`, `Follow`, `Add` | `run_channel`, `mutate_config`, `follow_ext_channel` |
| `Floor`, `Entry`, `Restore`, `Reinstate` | `Broker::rollback`, `LkgCache::restore` |
| `Quit` | a process is killed or a call of it fails; the OS closes what it had open |

`PersistedFile` keeps, besides the target and its sibling, who has which open: a
writer that has been overtaken goes on writing into whatever its file has become.

### Staging and the code

The worker (`Feed`, `Create`, `Chunk`, `Staged`, `Mismatch`, `TransferFails`) is
`dig-updater-worker`'s `run`; a file is a sequence of chunks and is written in place
under its fixed name. `MakePass`, `OwnPass`, `SpawnPass`, `DeadlinePass`,
`ReadReport` are the broker's side of the spawn; `Open`, `Read`, `Check`, `Install`
are `stage_and_verify_private`, `select_loadable_variant` and the install. Beside
them: a dry check with its own worker, the worker of a pass that was killed, and a
compromised worker that hangs, lies or rewrites (`Hang`, `Lie`, `Rewrite`).

### ChildIO and the code

One call after another, of three kinds: `bounded_probe` ("probe"), `communicate_bounded`
("ipc") and the Windows `spawn_restricted` ("restricted").

| actions | code |
|---|---|
| `Call`, `CallFails` | the spawn; the restricted token and its fallback |
| `Request` | the request is written and the child's input closed |
| `Drain` | the thread that reads up to `cap + 1` bytes beside the wait |
| `Poll`, `Elapse`, `KillAndReap`, `Join` | `wait_within`, `kill_and_reap`, the join of that thread |
| `ReadAnswer` | `read_stdout`, after the probed child has ended |
| `ReadAll`, `WaitForExit` | `read_all`, then `WaitForSingleObject` |
| `Write`, `CloseOutput`, `Fork`, `HeirEnds`, `Exit` | whatever the child does |

An output ends when nobody has it open, which need not be when the child ends: a
process it has started holds it too (`holders`). A request fits into a pipe, so writing
it never waits. Errors of `try_wait` and of reading the pipe are not modelled, and the
thread left behind by a call that timed out is not followed further: nothing uses what
it reads.

### Schedule and the code

The artifact is a set of parts (one task; two units and their enablement; a plist and
its loaded job), and `install` and `uninstall` are the platform's sequences of calls,
each of which may fail; some failures are ignored (`BestEffort`). `ensure` is
`CheckOptOut`, `Probe`, `Guard`, then the same calls. `WriteMarker` and `ClaimMarker`
are two steps: a marker that is not yet owned by a privileged identity is not honored.

### ServiceControl and the code

`Stop`, `Install`, `Gate`, `Observe`, `Start`, `Ask` are `apply_component`,
`restart_after`, `settled_run_state` and `judge_restart`; `ComesUp`, `GoesDown` are
the manager's, and `Meddle` and `Revive` somebody else's. A run-state query is
answered by the manager's state or not at all.

### AccessControl and the code

`Read`, `DeniedMask`, `UnprivilegedWrite` are `entries`, `denied_mask_for` and
`judge_grants`; `Granted` is AccessCheck, the definition the verdict is held against,
for every token that holds no privileged identity. Masks are sets of rights, a
condition is a set of the positions at which it holds.

### FeedSigner and the code

A run is the leg of one channel in `feed.yml` (`Doctor`, `Resolve`, `Download`,
`Keystone`, `PublishPrimary`, `Clobber`, `UploadFeed`) with the crate's `doctor`,
`resolve_all`, `produce_feed` in it; the group keeps one run and one waiting run.
Time is relative to now: a `Tick` ages what is kept, so the state space stays finite.

## 3. Runs

| run | expects | shows |
|---|---|---|
| `pass_safety` | pass | the pass's safety properties, with two faults and one kill |
| `pass_liveness` | pass | convergence of the binaries and of the marks, with one fault and one kill |
| `broker` | pass | marks, pause, rollback floor and mirror, with commands beside a pass and one process killed |
| `staging` | pass | what is installed was verified and loads; leftovers do no harm; the update lands |
| `child_io` | pass | an answer is whole, no child is left running, every call comes back |
| `schedule` | pass | opt-out against self-heal, with a fault, a kill or reboot, and a deletion |
| `service` | pass | the verdict and the restart, with three disturbances |
| `access` | pass | the verdict of `dacl.rs` is exact, on every list of three entries |
| `feedsigner` | pass | the published feed is whole, fresh and in order, and releases arrive |
| `deferral_skips_gate`, `kill_then_deferral_loses_target`, `two_commands_tear_the_configuration` | violation | statements of the documents that the code does not keep (section 5) |

### Bounds

*UpdatePass.* The host has dig-node (a service, from a native package, with one
alias, probed), dig-app (judged by digest, no alias, possibly unloadable) and the
beacon: every evidence class that can be acted on, both install methods, both ways a
result reaches the next component. Its feed serves two acceptable manifests, the
second with a higher floor and an older dig-app, and one that offers a build below
its own floor; an overridden feed serves a third. Build 2 of dig-node does not answer
`--version`. In the safety run dig-app is absent at first, so a fresh install and its
rollback occur. `MaxFaults = 2`: one fault takes a replace off its path, the second
one fails the recovery. `MaxCrashes = 1`: a kill, then later passes that find what it
left. The number of passes is not bounded. `Times = {1}`: expiry only ever rejects a
feed, which is no step.

*Broker.* Two channels on scales of their own with one release each, newer on the
nightly channel than what a host brought over from before there were channels has
installed, one console with two commands, the daily pass without bound, one
process killed. So a command crosses passes and, being killed, its own leftovers; two
commands that cross each other, and passes whose feeds serve different releases of a
channel, are beyond this run, but not beyond the proofs about the marks, which have
any number of both. `Platform` is Windows, where exclusion is harder; the proofs have
both.

*Staging.* One component in two variants on a headless host and on one where
loadability cannot be told; two manifests of one version whose files share their
staged names, and an unsigned third; two workers; two troubles of any kind (dry
checks, failed calls, kills, acts of a compromised worker): enough for a dry check
beside the orphan of a killed pass.

*ChildIO.* All three kinds, without bound on their number; a pipe that holds less than
the cap (2 and 3), so that a child can be stuck in a write, and up to 6 units of output,
so that it can exceed the cap with the pipe full behind it.

*Schedule.* Every platform; a sound install root and one with a loose binary; a
console with two commands (an uninstall and an install that cross an `ensure`), the
driver and the fired pass without bound; one fault, one kill or reboot, one deletion.

*ServiceControl.* Every platform, two builds in turn without bound, three asks of the
settling probe, three troubles.

*AccessControl.* Everyone, a group, the anonymous logon (which may be without
Everyone) and an administrator; two rights; lists of three entries, so that a grant
may stand before, between and after the denies. The proof has any list.

*FeedSigner.* Two components, two versions, two platforms and a variant, both
channels, two edits of the floor (one ahead of the releases), a feed that lives two
heartbeats, and one trouble (a failed call, a dropped heartbeat or an audit).

Deadlock is checked in every run but `access`, whose list may simply be full.

### Fairness

A process that is neither faulted nor killed goes on to its next step: the code has
no unbounded wait (probes, retries, settling and the worker's budget are bounded).
Beyond that:

- `UpdatePass`: `Wake` with the newest manifest is strongly fair: the task recurs and
  the feed goes on serving the newest manifest, however often an older cached one is
  served in between.
- `Broker`: the daily wake is weakly fair; commands are not.
- `Staging`: the host's steps are weakly fair together, a fetch of the newest manifest
  by the pass's own worker strongly.
- `ChildIO`: the broker's two threads run and time passes; nothing at all is assumed of
  the child. A budget that elapses while the child is running ends the wait, and that
  is what makes `Returns` hold.
- `Schedule`: the always-on driver ticks for ever, as its service does; a pass fires
  only while the artifact is registered.
- `ServiceControl`: the manager finishes a transition it has accepted.
- `FeedSigner`: a release that is begun is finished, time passes, runs go on within
  `MaxRun`, hosts poll.

The code's blocking reads are the exception to "no unbounded wait"; `ChildIO` has
them, and `Returns` says exactly whom they wait for.

Nothing is assumed about faults, kills and outsiders but their number.

### Properties

By what they relate:

- a result to the whole set on disk: `RollbackRestoresSet`, `InstalledIsWhole`,
  `DeferralLosesNothing`, `LeftAlone`;
- services to every path out of the replace: `ServicesComeBack`; a verdict to the
  process that runs: `ActiveIsTrue`, `NeverLeftDown`;
- the cache to what was captured: `RestoreNeverRefused`, `PrimaryAgedTruly`, and to
  the floor when a rollback comes much later or beside a pass: `RollbackKeepsFloor`;
- the marks and the record to what was applied: `AdvanceMeansApplied`,
  `OverrideLeavesNoTrace`, and to what may be installed: `NeverBelowFloor`;
- the marks on disk to the abstract `ChannelMarks`: `MarksOnlyAdvance`, a refinement;
- a command that was acknowledged to the passes after it: `PauseHonored`,
  `MirrorCatchesUp`, `OptOutNotFought`;
- what was verified to what is installed, chunk by chunk: `InstallsWhatItVerified`,
  `InstallsWhatLoads`, `LeftoversAreHarmless`;
- what a child wrote to what the broker reads: `AnswerIsWhole`; the child to every
  return of the call: `NoStray`;
- the artifact to the marker and the install root: `RemovalIsRecorded`,
  `OptOutWithdrawnForCause`, `NeverRegistersFromLooseRoot`;
- a decision to its definition: `CleanMeansWithheld`, `FindingMeansGranted`;
- what is published to what is released and to what hosts hold: `ServedIsWhole`,
  `HeartbeatKeepsItFresh`, `NoBaseGoesBack`;
- the beacon's swap to everything else: `BeaconLast`;
- eventually: `SetsConverge`, `MarksCatchUp`, `UpdateLands`, `Healed`,
  `ReleaseReachesHost`, `Returns`.

Each has a mutated form of a definition next to the original (`..._PrimaryOnly`,
`..._NoUndo`, ...), a bug the code could plausibly have, under which TLC finds it
violated. Where a type invariant is proved for every value of the constants
(`UpdatePass`, `Broker`, `Schedule`, `ServiceControl`, `FeedSigner`), no run repeats it.

## 4. Proofs

For every value of the constants, from the named assumptions on them.

*UpdatePass* (`CatalogAssumption`, `FeedAssumption`, `HostAssumption`), in
`UpdatePassProofs`:

- `TypeCorrect`: `Spec => []TypeOK`.
- `FloorHolds`: `Spec => NeverBelowFloor`. The property is about
  a step; what makes it true is where the bytes come from. `FloorInv` says that
  whatever is on disk, in the snapshot, or moved aside while it is being replaced, is
  at the manifest's floor or was in the component's own set when the pass began
  (`Sound`), that the manifest's floor is at or above the persisted one, and that only
  offered components are acted on. Without the snapshot and the sibling in it, a
  restore or an undo could bring anything back, and the property alone is not
  inductive. `AcceptedAboveFloor` is where the trust chain enters.
- `RollbackIsWhole`: `Spec => []RollbackRestoresSet` and `LeftAloneHolds`:
  `Spec => []LeftAlone`, from `RestoreInv`: the snapshot of every
  binary behind `slot` is what the pass found, the disk behind `slot` is restored
  during the rollback, nothing outside the set changes, and a component not yet taken
  is as it was found.
- `ServicesRestarted`: `Spec => []ServicesComeBack`. `ServiceInv`
  adds the one service that may be down in the middle of a pass: the one whose
  component is between its stop and its restart.
- `BeaconIsLast`: `Spec => BeaconLast`, from `ServiceInv` and
  `BeaconInv`: every planned component has a result, is still to be taken or is being
  applied, and nothing is left to be taken once the beacon is. `DiskChange` ties a
  change of the disk to the component being applied.
- `RestoreFindsItsBytes`: `Spec => []RestoreNeverRefused`, `PrimaryAged`:
  `Spec => []PrimaryAgedTruly` and `OverrideIsTraceless`:
  `Spec => OverrideLeavesNoTrace`, from `CacheInv`: what the snapshot holds is in the
  cache under the binary's own key until the component is through, and a record names
  the build of the bytes it digests, at every point where a kill may come between the
  two.
- `InstalledWhole`: `Spec => []InstalledIsWhole` and `DeferralIsIntact`:
  `Spec => []DeferralLosesNothing`, from `GateInv`. `ReplaceInv`
  follows the replace up the set: behind `slot` the binaries are the primary's bytes,
  before it they are as found, and the one in work is moved aside or not; in the health
  loop those behind `slot` have answered. `PromiseInv` is what a result promises, the
  one about to be settled included.
- `MarksMeanApplied`: `Spec => AdvanceMeansApplied`, from
  `MarksInv`, `BeaconInv` and `GateInv`: a skipped component stays current, `allOk` is
  lost with the first failure and not found again, and every planned component has a
  result when the pass concludes.

*Broker* (`BrokerAssumption`), in `BrokerProofs`:

- `Typed`: `Spec => []TypeOK`, in which a pass under way has the lock.
- `Refinement`: `Spec => MarksOnlyAdvance`, that `Broker` implements `ChannelMarks`
  with a channel's mark mapped to what a pass would load. The mapped mark changes only
  when a marks file is renamed. `IInv` makes that rename an `Advance`: at most one
  process is past the lock (`OnePass`), what it is about to save is a release of its
  channel at or above the mark it read (`Ahead`), nobody else has that file or its
  sibling open, and what it has written is whole (`Handles`). On Windows `OnePass`
  rests on a refused process never reaching a pass although it has the mutex open.
- `PauseHolds`: `Spec => PauseHonored`. `WordInv` says that what was acknowledged is
  what a pass would load and that nobody can write into it any more; that only editors
  have the configuration or its sibling open; and that an editor who has been alone is
  alone and finds in the sibling what it wrote. (Two editors tear the file: see 5.)
- `FloorKept`: `Spec => RollbackKeepsFloor`, with passes and rollbacks beside each other
  at any point. `RollInv`: a record names the build of the bytes it digests; a pass
  between its detection of a build and its capture has the build of what is installed;
  a rollback past its checks has in the cache what it checked, at or above the floor it
  read (`Knows`). It holds until one of the two crossings has happened that the property
  sets aside (`tangled`): other bytes captured between a rollback's check and its copy,
  or bytes reinstated between a pass's detection and its capture. Below the floor is
  where the code may then go (see 5). The floor is the one the rollback has read, which
  a pass may raise before the copy.

*AccessControl* (`AccessAssumption`), in `AccessControlProofs`:

- `CleanVerdictIsSound`: `Spec => []CleanMeansWithheld` and `FindingIsExact`:
  `Spec => []FindingMeansGranted`, for lists of any length. The first takes the entry
  that grants and shows that `denied_mask_for` cannot have taken the right away: a
  deny it counts is met by every token that meets the grant. The second builds the
  token: the grant's identity, with Everyone unless the identity can be without.

*Staging* (`StagingAssumption`), in `StagingProofs`:

- `VerifiedIsInstalled`: `Spec => InstallsWhatItVerified`. The invariant is about the
  broker alone: the private copy about to be installed is the candidate's, whole
  (`CopyIsIt`), the manifest is one that the marks accept (`Reverified`), and
  every variant tried, the fallback included, is one that the manifest offers
  (`OnlyOffered`, `OnACandidate`, `FallbackIsOne`). Nothing about the staged files or
  the workers is in it: that is the point of the theorem.
- `LoadableIsInstalled`: `Spec => InstallsWhatLoads`. `Searches` says what the candidates
  behind the one under examination have shown: none of them is known to load, the one to
  fall back to is not known not to, and it is staged again only when none is left.
- `LeftoversHarmless`: `Spec => LeftoversAreHarmless`. Here the files do matter:
  `CleanInv` follows a pass that is alone with its worker. What the worker has still to
  fetch is on its list and everything else is staged (`Downloading`), and the private
  copy is a prefix of what is staged. The assumption adds that a manifest lists
  something, each artifact under a name of its own.
- `StagingTyped`: `Spec => []TypeOK`, for files of any length, from `Typed`: who has a
  file open is still writing, a file without a name is open to nobody (`FileTyped`),
  and a worker that downloads has something left to download (`WorkerTyped`).

*ChildIO* (`ChildAssumption`), in `ChildIOProofs`:

- `CallTyped`: `Spec => []TypeOK`, with the bound on what is buffered.
- `AnswerHolds`: `Spec => []AnswerIsWhole`, from `Kept` (what was written is in the pipe
  or was read) and `ReadOut` (a reader that has ended below its limit has found the end
  of the output, so nobody can write any more).
- `NoneLeft`: `Spec => []NoStray`, from `Ended`: the steps after the wait have a child
  that has ended.

*Schedule* (`HostAssumption`), in `ScheduleProofs`:

- `ScheduleTyped`, and `NotFought`: `Spec => []OptOutNotFought`, `NeverLoose`:
  `Spec => NeverRegistersFromLooseRoot`, for any set of operators. The second is about
  what commands add: an artifact that is there already over a loose root, as `Init`
  allows, goes on being fired.
- `RemovalHasRecord`: `Spec => RemovalIsRecorded`, with one operator at the most. With
  two, the clear of an install may withdraw the record of an uninstall that is under
  way, and the artifact is then removed without one.
- `WithdrawnForCause`: `Spec => OptOutWithdrawnForCause`, for any set of operators.
  `ArmInv`: an install at work has the call that makes the artifact whole before it, as
  the last one. So it comes to its clear only over an artifact that is whole at that
  step, whatever others have taken apart between its calls. The other cause is the
  rescind of an uninstall, which withdraws the record whoever wrote it (see 5).

*ServiceControl* (`ServiceAssumption`), in `ServiceControlProofs`:

- `ServiceTyped`, and `ActiveHolds`: `Spec => []ActiveIsTrue`. The invariant says
  that only Windows has a service still on its way down (`OnlyWindowsLingers`), and that
  whatever runs was started from the installed image: from the look on where a start
  that finds the service up counts as performed (`LookedAt`), from the start on
  elsewhere (`Started`). `Asking` bounds the asks.

*FeedSigner* (`FeedAssumption`), in `FeedSignerProofs`, about any components, releases,
floors, period, run length and lifetime, and any number of failures:

- `FeedTyped`: `Spec => []TypeOK`. `RunsOK` is the concurrency group: one run at a time,
  and nothing kept of one that has ended.
- `ServedWhole`: `Spec => []ServedIsWhole`. The releases move while a run reads them, so
  nothing is said of them: `Gathered` says of what the run has taken that every
  component is still to be resolved or was found complete when it was, and, once the
  beacon has proved it, that no build is below the floor of the configuration the run
  took.
- `PublishedInOrder`: `Spec => []NoBaseGoesBack`, from `OrderInv`: a run that has its
  timestamp has a newer one than every base serves and every mark a host keeps, and a
  host is not ahead of the base it has its marks from. It rests on one run at a time
  (two may publish in the wrong order, which is the mutated form `Free_Beside`).
- `PrimaryFresh`: `Spec => []HeartbeatKeepsItFresh` where `Period + 2 * MaxRun <= TTL`.
  `Fresh` says why a feed may be as old as it is: no heartbeat was due since; or a
  signing run waits, behind one other at the most (`Waits`); or one is on its way
  (`Signs`). `StampInv` carries it over a publication: the timestamp was taken during
  the run, and a heartbeat that has come due since has its run waiting. The bound is
  exact: with a lifetime one shorter TLC finds the feed expired (tried with a period of
  2 and runs of 1, and of 3 and 2). With the cron of six hours (feed.yml:54) and the
  lifetime of twelve (feed-config.json) it allows three hours a run; no step of
  feed.yml sets a limit of its own.

These are all the safety properties the passing runs check, of every module, and every
type invariant. Out of the prover's reach, and left to TLC, are the liveness
properties: `SetsConverge`, `MarksCatchUp`, `MirrorCatchesUp`, `UpdateLands`, `Healed`,
`NeverLeftDown`, `Returns` and `ReleaseReachesHost`.

## 5. Where the documents and the code part

Shown by a run whose property states the document and which TLC violates:

1. *Every install is health-checked* (SPEC 9.5). An alias that stays locked turns the
   component into a deferral before the gate; the new primary stays, unchecked.
2. *The target is never left missing* (SPEC 9.5). A kill between the two renames
   followed by a failed place loses it until a later pass succeeds (`SetsConverge`).
3. *A reader never observes a partial write* (persist.rs:5). Two commands that change
   the configuration write through one sibling file; the configuration may end as no
   JSON, and every pass then stops at its gate.

Met while modelling, and not given a run:

4. *The extension must follow a channel change* (SPEC.md:1827). What the channel was is
   read from the status mirror (main.rs:388), which a pass may have put back.
5. *The next wake brings a service back whose restart failed* (SPEC.md:804). The next
   wake skips a component whose binaries are current (pass.rs:444). The service
   manager's recovery, which the same sentence names, is outside the model.
6. *A rollback re-records the reinstated build* (SPEC.md:943). For a digest-evidenced
   component the record is removed (pass.rs:789).
7. *A host ahead of the feed is decided Skip* (plan.rs:643). A stale alias re-drives
   the set (plan.rs:816), and a primary that was ahead goes back, above the floor.
8. *An artifact absent without a marker is impossible after an uninstall*
   (SPEC.md:506). On Linux the timer is disabled first and best-effort
   (scheduler.rs:765); when a later call fails the record is withdrawn.
9. *The host prefers the freshest feed* (SPEC.md:1217). The ladder takes the first
   base that answers (worker/lib.rs:155).
10. *One lost signing run never lets a client see an expired feed*
    (feedsign/config.rs:20). The lifetime is exactly two periods, and a run publishes
    some time after its timestamp: the gap is the length of a run.
11. *The budget exceeds any legitimate pass* (SPEC.md:646). Each download may take
    five minutes and a Linux feed has more than six of them.
12. *A worker still running when the budget elapses must fail the pass* (SPEC.md:646).
    Under the restricted token it is ended, but what it wrote is returned as its answer
    and its exit code is not looked at (sandbox.rs:335, spawn.rs:30); the budget begins
    only when its output has ended, as a comment there says itself.
13. *It cannot hang the broker forever* (sandbox.rs:508), *this module bounds that wait*
    (probe.rs:16). A process that the child has left behind holds the output open, and
    the join (sandbox.rs:556) and `read_stdout` (probe.rs:211) wait for it.
14. *Every handle is closed on every path* (sandbox.rs:273). The early returns of
    `write_all` and `read_all` close none and leave the worker running.
15. *An operator who ran `schedule uninstall` is never fought* (scheduler.rs:420). A
    self-heal that read the marker before the uninstall recorded it, and the artifact
    after the removal, registers it again against the opt-out; nothing excludes the two.
    `OptOutNotFought` is about the self-heals that begin with the opt-out in force.
16. *The two never disagree about whether the operator asked for this*
    (scheduler.rs:386). An uninstall whose removal fails withdraws the record also when
    it was an earlier uninstall, which succeeded, that had made it; the next self-heal
    may then register the schedule again.
17. *A cross-pass rollback must not downgrade below the floor* (SPEC.md:710). The manual
    rollback takes no lock (lib.rs:348). A pass that captures older bytes and their
    record between its check and its copy has them reinstated unchecked; bytes that it
    reinstates between a pass's detection and its capture are recorded under another
    build, and later rollbacks pass the floor on the strength of that; and the floor it
    has read may have been raised since.

## 6. Not modelled

Version parsing and build numbers (`version.rs`, `pack_build`), argument parsing, the
report's wording, the transparency log, the audits' findings, signatures, JSON, paths
and the operating systems' tokens: see the notes in `PROJECT.json`
("components"). They are stateless and a call deep; what the models need of them is
that they succeed or fail.

Simplified in the modules themselves:

- `FeedSigner`: a cron run may be lost but is never late, and the wakes that nightly
  releases send are left out. A run's configuration is the one in force when it begins,
  not the one at the commit of its trigger. Every component has a release on the channel;
  dig-chat cuts no rolling nightly (feed-config.json, the note; feed.yml:17), so today's
  nightly leg ends at the doctor, and `ReleaseReachesHost` says nothing of it.
- `UpdatePass`, `ServiceControl`: a stop that fails leaves the service as it was, as
  pass.rs:730 has it. One that is reported as failed and takes effect all the same would
  leave it down, as a deferral at that point makes no restart.
- `Schedule`: on macOS a `launchctl bootout` by anybody else ends the pass that the job
  had fired; one that this pass itself makes does not.

## 7. What would come next

A `Broker` with several components and their aliases in the cache, for the manual
rollback's partial restores; the build numbers of `version.rs` against those of
`plan.rs` (two nightlies of one day share a number).
