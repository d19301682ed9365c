------------------------------ MODULE UpdatePass ------------------------------
(***************************************************************************)
(* One channel's update passes on one host: the privileged broker's         *)
(* Installer::apply (dig-updater-broker, pass.rs) with the planner it asks  *)
(* (plan.rs), the replace of a binary (install.rs) and the in-pass          *)
(* last-known-good rollback (rollback.rs).  A pass accepts a manifest,      *)
(* plans every component from the disk, takes the components one at a time  *)
(* (stage, snapshot, stop the service, replace each binary of the set,      *)
(* health-gate, roll back, restart, record), advances the trust marks, and  *)
(* last of all replaces the beacon itself.                                  *)
(*                                                                         *)
(* Every change of the disk is a step of its own, so that the process can   *)
(* be killed (Crash) between any two of them.  Passes do not overlap: the   *)
(* single-instance lock is held from Wake to the end of the pass.           *)
(*                                                                         *)
(* A component is a binary SET: slot 1 is its primary, the other slots its  *)
(* byte-identical aliases.  Bytes are the build they were published as      *)
(* (None: no file), so a digest is equality of builds.                      *)
(***************************************************************************)
EXTENDS TrustChain, FiniteSets

CONSTANTS
  Beacon,        \* the component that is the running updater itself
  Evidence,      \* component -> "probe", "digest" or "unsafe" (VersionEvidence)
  MaxWidth,      \* the largest binary set
  Width,         \* component -> number of its binaries, primary included
  Services,      \* the components that run as an OS service
  Native,        \* the components installed by the OS package installer
  Manifests,     \* what the tracked channel's feed has ever served
  Foreign,       \* what a feed given by --feed-base serves instead
  Newest,        \* the manifest the feed goes on serving in the end
  NoManifest,    \* no pass is running
  Times,         \* readings of the wall clock
  Mute,          \* <<c, b>>: build b of c does not answer `--version`
  Unloadable,    \* components the host may be unable to load any variant of
  InitDisk,      \* component -> slot -> build installed before the first pass
  InitRecorded,  \* component -> build this beacon had recorded by then
  MaxFaults,     \* bound: I/O, lock, probe and service faults in a behaviour
  MaxCrashes     \* bound: kills of the broker in a behaviour

Slot == 1..MaxWidth
BinarySet(c) == 1..Width[c]
Disk == [Components -> [Slot -> Nat]]

ASSUME CatalogAssumption ==
  /\ MaxWidth \in Nat \ {0}
  /\ Width \in [Components -> Slot]
  /\ Evidence \in [Components -> {"probe", "digest", "unsafe"}]
  /\ Beacon \in Components /\ Width[Beacon] = 1
  /\ Services \subseteq Components \ {Beacon}
  /\ Native \subseteq Components \ {Beacon}
  /\ Unloadable \subseteq Components

ASSUME FeedAssumption ==
  /\ Manifests \subseteq SignedManifest /\ Foreign \subseteq SignedManifest
  /\ Newest \in Manifests /\ NoManifest \notin Manifests \cup Foreign
  /\ Times \subseteq Nat

ASSUME HostAssumption ==
  /\ InitDisk \in Disk
  /\ \A c \in Components : \A k \in Slot \ BinarySet(c) : InitDisk[c][k] = None
  /\ InitRecorded \in [Components -> Nat]
  /\ MaxFaults \in Nat /\ MaxCrashes \in Nat

VARIABLES
  \* persistent
  disk,       \* component -> slot -> bytes at the install destination
  aside,      \* component -> slot -> bytes of the `.dig-updater-old` sibling
  lkg,        \* component -> slot -> last-known-good cache: bytes and record
  recorded,   \* component -> build in installed-builds-<channel>.json
  marks,      \* trust-state-<channel>.json
  svc,        \* service -> "up" or "down"
  \* the running pass
  pc,         \* the step it is at
  man,        \* the manifest it re-verified
  override,   \* its feed was overridden: suppress_state_advance
  prior,      \* component -> PlannedComponent.installed_build
  todo,       \* components planned as Install or Update, not yet taken
  cur,        \* the component being applied
  slot,       \* the binary of its set being worked on
  snap,       \* slot -> bytes of cur's snapshot (None: the file was absent)
  moved,      \* the replace has moved the existing target aside
  result,     \* what the replace and its gate came to, for cur
  results,    \* component -> what the pass reports of it
  allOk,      \* all_succeeded
  \* bounds
  faults, crashes,
  \* history, for the properties only
  start,      \* the disk this pass found
  excused     \* services whose start failed or whose pass was killed

pass == <<pc, man, override, prior, todo, cur, slot, snap, moved, result,
          results, allOk, start>>
bounds == <<faults, crashes>>
vars == <<disk, aside, lkg, recorded, marks, svc, pass, bounds, excused>>

PCs == {"idle", "next", "stage", "snapBytes", "snapRecord", "stop", "package",
        "aside", "place", "undo", "health", "rollback", "restart", "record",
        "self"}

Outcomes == {"none", "Installed", "Skipped", "Deferred", "RolledBack", "Held",
             "Refused", "Error"}

LkgEntry == [bytes : Nat, digest : Nat, build : Nat]
NoEntry == [bytes |-> None, digest |-> None, build |-> None]

Nothing == [c \in Components |-> "none"]
NoBuilds == [c \in Components |-> None]
EmptySnap == [k \in Slot |-> None]

HostOK ==
  /\ disk \in Disk /\ aside \in Disk
  /\ lkg \in [Components -> [Slot -> LkgEntry]]
  /\ recorded \in [Components -> Nat] /\ marks \in TrustState
  /\ svc \in [Services -> {"up", "down"}] /\ excused \subseteq Services

PassOK ==
  /\ pc \in PCs
  /\ IF pc = "idle" THEN man = NoManifest ELSE man \in Manifests \cup Foreign
  /\ override \in BOOLEAN /\ moved \in BOOLEAN /\ allOk \in BOOLEAN
  /\ start \in Disk /\ prior \in [Components -> Nat]
  /\ todo \subseteq Components /\ cur \in Components
  /\ slot \in Slot /\ snap \in [Slot -> Nat]
  /\ result \in Outcomes /\ results \in [Components -> Outcomes]

BoundsOK == faults \in 0..MaxFaults /\ crashes \in 0..MaxCrashes

\* The type of every variable; a pass carries a manifest and an idle host none.
TypeOK == HostOK /\ PassOK /\ BoundsOK

-----------------------------------------------------------------------------
(* Planning (plan.rs): decided from what is on disk when the pass begins.    *)

\* The shared decision matrix on a `--version` answer: Skip iff the binary
\* answers, and answers the offered build or a newer one.
ProbedCurrent(c, b, want) == b # None /\ <<c, b>> \notin Mute /\ b >= want

\* hold_reason: decided from the catalog alone.
HoldReason(c) ==
  \/ Evidence[c] = "unsafe"
  \/ Evidence[c] = "digest" /\ Width[c] > 1

\* A digest cannot tell a newer build from an older one: the record of what
\* this beacon installed turns that Update into a Skip.
GuardNewerInstalled(c, want) == disk[c][1] # None /\ recorded[c] > want

\* Mutated form: an aliased component is current as soon as its primary is.
PlanSkips_PrimaryOnly(c, want) ==
  IF Evidence[c] = "probe"
    THEN ProbedCurrent(c, disk[c][1], want)
    ELSE disk[c][1] = want \/ GuardNewerInstalled(c, want)

\* An aliased component is current only if every binary of its set is.
PlanSkips(c, want) ==
  IF Evidence[c] = "probe"
    THEN \A k \in BinarySet(c) : ProbedCurrent(c, disk[c][k], want)
    ELSE disk[c][1] = want \/ GuardNewerInstalled(c, want)

InstalledBuild(c, want) ==
  LET b == disk[c][1] IN
  IF Evidence[c] = "probe"
    THEN IF <<c, b>> \in Mute THEN None ELSE b
    ELSE IF b = want THEN b ELSE None

Planned(m) == {c \in Components : Offers(m, c) /\ ~HoldReason(c)}
Acting(m) == {c \in Planned(m) : ~PlanSkips(c, m.build[c])}

Planning(m) ==
  [c \in Components |->
     IF ~Offers(m, c) \/ c \in Acting(m) THEN "none"
     ELSE IF HoldReason(c) THEN "Held" ELSE "Skipped"]

-----------------------------------------------------------------------------
(* The pass.  Every variable an action leaves alone is in one of the groups  *)
(* below, in the order of `vars`.                                            *)

hostState == <<disk, aside, lkg, recorded, marks, svc>>
planState == <<man, override, prior, start>>
workState == <<slot, snap, moved, result>>

Init ==
  /\ disk = InitDisk /\ aside = [c \in Components |-> EmptySnap]
  /\ lkg = [c \in Components |-> [k \in Slot |-> NoEntry]]
  /\ recorded = InitRecorded /\ marks = Initial
  /\ svc = [s \in Services |-> "up"] /\ excused = {}
  /\ pc = "idle" /\ man = NoManifest /\ override = FALSE
  /\ prior = NoBuilds /\ todo = {} /\ cur = Beacon
  /\ slot = 1 /\ snap = EmptySnap /\ moved = FALSE /\ result = "none"
  /\ results = Nothing /\ allOk = TRUE /\ start = InitDisk
  /\ faults = 0 /\ crashes = 0

\* The process ends, reported or not: nothing in memory outlives it.
EndPass ==
  /\ pc' = "idle" /\ man' = NoManifest /\ override' = FALSE
  /\ prior' = NoBuilds /\ todo' = {} /\ cur' = Beacon
  /\ slot' = 1 /\ snap' = EmptySnap /\ moved' = FALSE /\ result' = "none"
  /\ results' = Nothing /\ allOk' = TRUE /\ start' = InitDisk

\* One I/O, lock, probe or service fault out of the bounded number.
Fault == faults < MaxFaults /\ faults' = faults + 1 /\ UNCHANGED crashes

\* A wake takes the lock, loads the marks, lets the worker fetch and stage, then
\* re-verifies and plans.  A rejected feed changes nothing: it is no step here.
Wake(m, o, now) ==
  /\ pc = "idle"
  /\ m \in IF o THEN Foreign ELSE Manifests
  /\ Accepts(marks, m, now)
  /\ pc' = "next" /\ man' = m /\ override' = o /\ start' = disk
  /\ prior' = [c \in Components |-> InstalledBuild(c, m.build[c])]
  /\ todo' = Acting(m) /\ results' = Planning(m)
  /\ UNCHANGED <<hostState, cur, workState, allOk, bounds, excused>>

Take(c) ==
  /\ c \in todo
  /\ cur' = c /\ todo' = todo \ {c} /\ pc' = "stage"
  /\ UNCHANGED <<hostState, planState, workState, results, allOk, bounds,
                 excused>>

\* Mutated form: the beacon is applied in the loop, like any other component.
TakeComponent_BeaconInLoop(c) == pc = "next" /\ Take(c)

\* The loop of apply sets the beacon's own component aside.
TakeComponent(c) == pc = "next" /\ c # Beacon /\ Take(c)

\* Mutated forms: a deferral counts as a success; a refusal as a failure.
KeepsAllSucceeded_OnDeferral(outcome) ==
  outcome \in {"Installed", "Refused", "Deferred"}
KeepsAllSucceeded_NotOnRefusal(outcome) == outcome = "Installed"

\* A host may refuse a component for ever: that must not freeze the marks.
KeepsAllSucceeded(outcome) == outcome \in {"Installed", "Refused"}

\* What apply does with a component's outcome, before it takes the next.
Settle(outcome) ==
  /\ results' = [results EXCEPT ![cur] = outcome]
  /\ allOk' = (allOk /\ KeepsAllSucceeded(outcome))
  /\ pc' = IF cur = Beacon THEN "self" ELSE "next"
  /\ slot' = 1 /\ snap' = EmptySnap /\ moved' = FALSE /\ result' = "none"
  /\ UNCHANGED <<planState, todo, cur>>

\* An error returned with `?`: the pass ends there, later components untaken.
Abort == Fault /\ EndPass

\* Go on to the next binary of the set at p, or past the last one to q.
NextBinary(p, q) ==
  IF slot < Width[cur] THEN pc' = p /\ slot' = slot + 1
                       ELSE pc' = q /\ slot' = 1

InstallStep == IF cur \in Native THEN "package" ELSE "aside"
AfterSnapshot == IF cur \in Services THEN "stop" ELSE InstallStep

\* select_loadable_variant leaves verified bytes in the broker-private copy ...
Stage ==
  /\ pc = "stage" /\ pc' = "snapBytes"
  /\ UNCHANGED <<hostState, planState, todo, cur, workState, results, allOk,
                 bounds, excused>>

\* Mutated form: loadability is looked at only after the replace.
Refuse_AfterReplace ==
  /\ pc = "health" /\ cur \in Unloadable /\ Settle("Refused")
  /\ UNCHANGED <<hostState, bounds, excused>>

\* ... or every variant is one this host cannot load ...
Refuse ==
  /\ pc = "stage" /\ cur \in Unloadable /\ Settle("Refused")
  /\ UNCHANGED <<hostState, bounds, excused>>

\* ... or the staged bytes cannot be read or no longer match.
StageFault ==
  /\ pc = "stage" /\ Abort
  /\ UNCHANGED <<hostState, excused>>

-----------------------------------------------------------------------------
(* The last-known-good snapshot of the set: the bytes, then their record.    *)

SnapshotAbsent ==
  /\ pc = "snapBytes" /\ disk[cur][slot] = None
  /\ snap' = [snap EXCEPT ![slot] = None]
  /\ NextBinary("snapBytes", AfterSnapshot)
  /\ UNCHANGED <<hostState, planState, todo, cur, moved, result, results, allOk,
                 bounds, excused>>

\* Mutated form: the aliases are cached under the component's own key.
SnapshotBytes_SharedKey ==
  /\ pc = "snapBytes" /\ disk[cur][slot] # None
  /\ lkg' = [lkg EXCEPT ![cur][1].bytes = disk[cur][slot]]
  /\ pc' = "snapRecord"
  /\ UNCHANGED <<disk, aside, recorded, marks, svc, planState, todo, cur,
                 workState, results, allOk, bounds, excused>>

SnapshotBytes ==
  /\ pc = "snapBytes" /\ disk[cur][slot] # None
  /\ lkg' = [lkg EXCEPT ![cur][slot].bytes = disk[cur][slot]]
  /\ pc' = "snapRecord"
  /\ UNCHANGED <<disk, aside, recorded, marks, svc, planState, todo, cur,
                 workState, results, allOk, bounds, excused>>

\* Mutated form: the snapshot is recorded with the build about to be installed.
SnapshotRecord_OfferedBuild ==
  /\ pc = "snapRecord"
  /\ lkg' = [lkg EXCEPT ![cur][slot].digest = disk[cur][slot],
                        ![cur][slot].build = man.build[cur]]
  /\ snap' = [snap EXCEPT ![slot] = disk[cur][slot]]
  /\ NextBinary("snapBytes", AfterSnapshot)
  /\ UNCHANGED <<disk, aside, recorded, marks, svc, planState, todo, cur, moved,
                 result, results, allOk, bounds, excused>>

\* Every binary of the set is recorded with the PRIMARY's installed build.
SnapshotRecord ==
  /\ pc = "snapRecord"
  /\ lkg' = [lkg EXCEPT ![cur][slot].digest = disk[cur][slot],
                        ![cur][slot].build = prior[cur]]
  /\ snap' = [snap EXCEPT ![slot] = disk[cur][slot]]
  /\ NextBinary("snapBytes", AfterSnapshot)
  /\ UNCHANGED <<disk, aside, recorded, marks, svc, planState, todo, cur, moved,
                 result, results, allOk, bounds, excused>>

\* The record is written in place: a failed write leaves none to be read.
SnapshotFault ==
  /\ pc \in {"snapBytes", "snapRecord"} /\ Abort
  /\ lkg' = IF pc = "snapRecord"
              THEN [lkg EXCEPT ![cur][slot].digest = None,
                               ![cur][slot].build = None]
              ELSE lkg
  /\ UNCHANGED <<disk, aside, recorded, marks, svc, excused>>

-----------------------------------------------------------------------------
(* Replacing the set: the primary from the verified copy, each alias from    *)
(* the primary.                                                           *)

StopService ==
  /\ pc = "stop" /\ svc' = [svc EXCEPT ![cur] = "down"]
  /\ pc' = InstallStep
  /\ UNCHANGED <<disk, aside, lkg, recorded, marks, planState, todo, cur,
                 workState, results, allOk, bounds, excused>>

\* The service refuses to stop: it is left running and nothing is replaced.
StopFault ==
  /\ pc = "stop" /\ svc[cur] = "up" /\ Fault /\ Settle("Deferred")
  /\ UNCHANGED <<hostState, excused>>

NewBytes == IF slot = 1 THEN man.build[cur] ELSE disk[cur][1]

\* The package installer lays down the primary and the aliases follow ...
InstallPackage ==
  /\ pc = "package" /\ disk' = [disk EXCEPT ![cur][1] = man.build[cur]]
  /\ pc' = IF Width[cur] > 1 THEN "aside" ELSE "health"
  /\ slot' = IF Width[cur] > 1 THEN 2 ELSE 1
  /\ UNCHANGED <<aside, lkg, recorded, marks, svc, planState, todo, cur, snap,
                 moved, result, results, allOk, bounds, excused>>

\* ... or it claims success over a file it left as it was ...
PackageLeftOld ==
  /\ pc = "package" /\ Fault
  /\ pc' = IF Width[cur] > 1 /\ disk[cur][1] # None THEN "aside"
           ELSE IF Width[cur] > 1 THEN "rollback" ELSE "health"
  /\ slot' = IF pc' = "aside" THEN 2 ELSE 1
  /\ UNCHANGED <<hostState, planState, todo, cur, snap, moved, result, results,
                 allOk, excused>>

\* ... or it fails, before or after it wrote the file.
PackageFails ==
  /\ pc = "package" /\ Fault
  /\ \E b \in {disk[cur][1], man.build[cur], None} :
       disk' = [disk EXCEPT ![cur][1] = b]
  /\ pc' = "rollback"
  /\ UNCHANGED <<aside, lkg, recorded, marks, svc, planState, todo, cur,
                 workState, results, allOk, excused>>

\* rename_into_place: sweep the old sibling, move the target out of the way.
MoveAside ==
  /\ pc = "aside" /\ pc' = "place"
  /\ moved' = (disk[cur][slot] # None)
  /\ aside' = [aside EXCEPT ![cur][slot] = disk[cur][slot]]
  /\ disk' = [disk EXCEPT ![cur][slot] = None]
  /\ UNCHANGED <<lkg, recorded, marks, svc, planState, todo, cur, slot, snap,
                 result, results, allOk, bounds, excused>>

\* The target stays locked: a benign deferral, with no gate and no rollback.
TargetLocked ==
  /\ pc = "aside" /\ disk[cur][slot] # None /\ Fault
  /\ aside' = [aside EXCEPT ![cur][slot] = None]
  /\ result' = "Deferred" /\ pc' = "restart" /\ slot' = 1
  /\ UNCHANGED <<disk, lkg, recorded, marks, svc, planState, todo, cur, snap,
                 moved, results, allOk, excused>>

\* No directory to install to, or the alias's own copy cannot be derived.
ReplaceFails ==
  /\ pc = "aside" /\ Fault /\ pc' = "rollback" /\ slot' = 1
  /\ UNCHANGED <<hostState, planState, todo, cur, snap, moved, result, results,
                 allOk, excused>>

Place ==
  /\ pc = "place"
  /\ disk' = [disk EXCEPT ![cur][slot] = NewBytes]
  /\ aside' = [aside EXCEPT ![cur][slot] = None]
  /\ NextBinary("aside", "health")
  /\ UNCHANGED <<lkg, recorded, marks, svc, planState, todo, cur, snap, moved,
                 result, results, allOk, bounds, excused>>

\* Mutated form: the move-aside is not undone.
PlaceFails_NoUndo ==
  /\ pc = "place" /\ Fault
  /\ pc' = "restart" /\ slot' = 1 /\ result' = "Deferred"
  /\ UNCHANGED <<hostState, planState, todo, cur, snap, moved, results, allOk,
                 excused>>

\* With nothing moved aside there is nothing to put back: deferred.
PlaceFails ==
  /\ pc = "place" /\ Fault
  /\ IF moved THEN pc' = "undo" /\ UNCHANGED <<slot, result>>
              ELSE pc' = "restart" /\ slot' = 1 /\ result' = "Deferred"
  /\ UNCHANGED <<hostState, planState, todo, cur, snap, moved, results, allOk,
                 excused>>

UndoMoveAside ==
  /\ pc = "undo"
  /\ disk' = [disk EXCEPT ![cur][slot] = aside[cur][slot]]
  /\ aside' = [aside EXCEPT ![cur][slot] = None]
  /\ result' = "Deferred" /\ pc' = "restart" /\ slot' = 1
  /\ UNCHANGED <<lkg, recorded, marks, svc, planState, todo, cur, snap, moved,
                 results, allOk, bounds, excused>>

\* The double fault: the target is missing, so the snapshot must reinstate it.
UndoFails ==
  /\ pc = "undo" /\ Fault /\ pc' = "rollback" /\ slot' = 1
  /\ UNCHANGED <<hostState, planState, todo, cur, snap, moved, result, results,
                 allOk, excused>>

-----------------------------------------------------------------------------
(* The health gate over the whole set, and the in-pass rollback.             *)

\* Mutated form: any file in the place of the binary will do.
Healthy_AnyVersion(k) == disk[cur][k] # None

Healthy(k) ==
  IF Evidence[cur] = "probe"
    THEN ProbedCurrent(cur, disk[cur][k], man.build[cur])
    ELSE disk[cur][k] = man.build[cur]

HealthPasses ==
  /\ pc = "health" /\ Healthy(slot)
  /\ NextBinary("health", "restart")
  /\ result' = IF slot < Width[cur] THEN result ELSE "Installed"
  /\ UNCHANGED <<hostState, planState, todo, cur, snap, moved, results, allOk,
                 bounds, excused>>

\* A binary of the set is missing, silent or another build ...
HealthFails ==
  /\ pc = "health" /\ ~Healthy(slot)
  /\ pc' = "rollback" /\ slot' = 1
  /\ UNCHANGED <<hostState, planState, todo, cur, snap, moved, result, results,
                 allOk, bounds, excused>>

\* ... or a good one did not answer in time.
ProbeFault ==
  /\ pc = "health" /\ Healthy(slot) /\ Fault
  /\ pc' = "rollback" /\ slot' = 1
  /\ UNCHANGED <<hostState, planState, todo, cur, snap, moved, result, results,
                 allOk, excused>>

\* The cached bytes must still hash to the snapshot's digest.
CacheIntact == snap[slot] # None => lkg[cur][slot].bytes = snap[slot]

\* Mutated form: only the primary is rolled back.
RestoreBinary_PrimaryOnly ==
  /\ pc = "rollback" /\ CacheIntact
  /\ disk' = [disk EXCEPT ![cur][slot] = snap[slot]]
  /\ pc' = "restart" /\ slot' = 1 /\ result' = "RolledBack"
  /\ UNCHANGED <<aside, lkg, recorded, marks, svc, planState, todo, cur, snap,
                 moved, results, allOk, bounds, excused>>

\* Reinstate this binary as it was snapshotted, or remove a fresh one.
RestoreBinary ==
  /\ pc = "rollback" /\ CacheIntact
  /\ disk' = [disk EXCEPT ![cur][slot] = snap[slot]]
  /\ NextBinary("rollback", "restart")
  /\ result' = IF slot < Width[cur] THEN result ELSE "RolledBack"
  /\ UNCHANGED <<aside, lkg, recorded, marks, svc, planState, todo, cur, snap,
                 moved, results, allOk, bounds, excused>>

\* A cached file that cannot be read, no longer hashes to its digest, or cannot
\* be written back ends the rollback: the rest of the set is not restored.
RestoreFault ==
  /\ pc = "rollback"
  /\ IF CacheIntact THEN Fault ELSE UNCHANGED bounds
  /\ result' = "Error" /\ pc' = "restart" /\ slot' = 1
  /\ UNCHANGED <<hostState, planState, todo, cur, snap, moved, results, allOk,
                 excused>>

-----------------------------------------------------------------------------
(* After the replace, whatever came of it: restart, report, record.          *)

\* restart_after starts the service BEFORE it propagates an error.
Propagate ==
  /\ pc = "restart"
  /\ IF result = "Error"
       THEN EndPass
       ELSE /\ pc' = "record"
            /\ UNCHANGED <<planState, todo, cur, workState, results, allOk>>

\* Mutated form: the error is propagated before the restart.
RestartService_AfterPropagation ==
  /\ Propagate
  /\ svc' = [s \in Services |-> IF s = cur /\ result # "Error" THEN "up" ELSE svc[s]]
  /\ excused' = excused \ {cur}
  /\ UNCHANGED <<disk, aside, lkg, recorded, marks, bounds>>

RestartService ==
  /\ Propagate
  /\ svc' = [s \in Services |-> IF s = cur THEN "up" ELSE svc[s]]
  /\ excused' = excused \ {cur}
  /\ UNCHANGED <<disk, aside, lkg, recorded, marks, bounds>>

\* A failed start is a warning in the report; the service stays down.
StartFault ==
  /\ cur \in Services /\ Propagate /\ Fault
  /\ excused' = excused \cup {cur}
  /\ UNCHANGED hostState

\* Mutated form: an off-channel install is recorded too.
BuildToRecord_DespiteOverride ==
  IF result = "Deferred" THEN recorded[cur]
  ELSE IF result = "Installed" THEN man.build[cur] ELSE prior[cur]

BuildToRecord ==
  IF override \/ result = "Deferred" THEN recorded[cur]
  ELSE IF result = "Installed" THEN man.build[cur] ELSE prior[cur]

RecordInstalledBuild ==
  /\ pc = "record" /\ Settle(result)
  /\ recorded' = [recorded EXCEPT ![cur] = BuildToRecord]
  /\ UNCHANGED <<disk, aside, lkg, marks, svc, bounds, excused>>

\* The record is best-effort: a failed write is only a warning.
RecordFault ==
  /\ pc = "record" /\ recorded[cur] # BuildToRecord /\ Fault /\ Settle(result)
  /\ UNCHANGED <<hostState, excused>>

-----------------------------------------------------------------------------
(* Once every component but the beacon has settled.                          *)

Settled == pc = "next" /\ todo \subseteq {Beacon}

AdvanceState ==
  /\ Settled /\ allOk /\ ~override
  /\ marks' = Advance(marks, man) /\ pc' = "self"
  /\ UNCHANGED <<disk, aside, lkg, recorded, svc, planState, todo, cur,
                 workState, results, allOk, bounds, excused>>

KeepState ==
  /\ Settled /\ (~allOk \/ override) /\ pc' = "self"
  /\ UNCHANGED <<hostState, planState, todo, cur, workState, results, allOk,
                 bounds, excused>>

AdvanceFault ==
  /\ Settled /\ allOk /\ ~override /\ Abort
  /\ UNCHANGED <<hostState, excused>>

\* The self-update is the last act, and what came before does not gate it.
TakeBeacon == pc = "self" /\ Take(Beacon)

Finish ==
  /\ pc = "self" /\ Beacon \notin todo /\ EndPass
  /\ UNCHANGED <<hostState, bounds, excused>>

\* The broker is killed; the lock goes with the process.
Crash ==
  /\ pc # "idle" /\ crashes < MaxCrashes /\ crashes' = crashes + 1
  /\ EndPass
  /\ excused' = excused \cup {s \in Services : svc[s] = "down"}
  /\ UNCHANGED <<hostState, faults>>

-----------------------------------------------------------------------------
PassStep ==
  \/ \E c \in Components : TakeComponent(c)
  \/ TakeBeacon
  \/ Stage \/ Refuse
  \/ SnapshotAbsent \/ SnapshotBytes \/ SnapshotRecord
  \/ StopService \/ InstallPackage
  \/ MoveAside \/ Place \/ UndoMoveAside
  \/ HealthPasses \/ HealthFails \/ RestoreBinary
  \/ RestartService \/ RecordInstalledBuild
  \/ AdvanceState \/ KeepState \/ Finish

FaultStep ==
  \/ StageFault \/ SnapshotFault \/ StopFault
  \/ PackageLeftOld \/ PackageFails
  \/ TargetLocked \/ ReplaceFails \/ PlaceFails \/ UndoFails
  \/ ProbeFault \/ RestoreFault \/ StartFault \/ RecordFault \/ AdvanceFault
  \/ Crash

Next ==
  \/ \E o \in BOOLEAN, m \in Manifests \cup Foreign, now \in Times : Wake(m, o, now)
  \/ PassStep
  \/ FaultStep

Spec == Init /\ [][Next]_vars

\* The host keeps waking and the feed keeps serving Newest, however often it
\* serves something older in between (scheduler.rs registers a recurring task);
\* a pass that is neither killed nor faulted keeps going.  Nothing is assumed of
\* faults and kills but their bounds.
FairSpec ==
  /\ Spec
  /\ WF_vars(PassStep)
  /\ SF_vars(\E now \in Times : Wake(Newest, FALSE, now))

-----------------------------------------------------------------------------
(* Properties.                                                               *)

\* A component reported RolledBack has every binary of its set, aliases
\* included, back to what the pass found: no health failure or failed replace
\* leaves primary and alias on different builds (pass.rs, rollback_set).
RollbackRestoresSet ==
  \A c \in Components : results[c] = "RolledBack" => disk[c] = start[c]

\* A component reported Installed has its WHOLE set on the bytes of its primary,
\* and each binary passes the gate it was installed under: a stale alias is
\* never reported Installed (pass.rs, check_binary_set).
InstalledIsWhole ==
  \A c \in Components : results[c] = "Installed" =>
    \A k \in BinarySet(c) :
      /\ disk[c][k] = disk[c][1]
      /\ disk[c][k] >= man.build[c]
      /\ Evidence[c] = "probe" => <<c, disk[c][k]>> \notin Mute

\* A deferral loses nothing: a binary that was there is still there, each is
\* either the one the pass found or a copy of the primary, and the primary is
\* the one it found or the build just verified (install.rs,
\* rename_into_place_with: the move-aside is undone).
DeferralLosesNothing ==
  \A c \in Components : results[c] = "Deferred" =>
    /\ disk[c][1] \in {start[c][1], man.build[c]}
    /\ \A k \in BinarySet(c) :
         /\ disk[c][k] \in {start[c][k], disk[c][1]}
         /\ start[c][k] # None => disk[c][k] # None

\* What a pass reports as skipped, held or refused it has not touched.
LeftAlone ==
  \A c \in Components :
    results[c] \in {"Skipped", "Held", "Refused"} => disk[c] = start[c]

\* Whenever no component is being applied, and after a pass that ended in an
\* error as much as after one that reported, a service that is down is down
\* because its start failed or the broker was killed: no path from the stop to
\* the end of a component goes round the restart (pass.rs, restart_after).
ServicesComeBack ==
  pc \in {"idle", "next", "self"} =>
    \A s \in Services : svc[s] = "down" => s \in excused

\* The in-pass restore never refuses its own snapshot: no later snapshot of the
\* same set overwrites the cached bytes (pass.rs, alias_cache_key).
RestoreNeverRefused == pc = "rollback" => CacheIntact

\* A readable record beside matching bytes tells a primary's build truly, so
\* the floor gate of a later cross-pass rollback ages the right build; a kill
\* between the bytes and the record leaves a pair that does not match.
PrimaryAgedTruly ==
  \A c \in Components :
    LET e == lkg[c][1] IN
    e.build # None /\ e.digest = e.bytes => e.build = e.bytes

\* The marks move only when every component the pass planned, the beacon apart,
\* ended with its whole set at the accepted build or ahead of it; the exceptions
\* are the components the host cannot load and those the record says are ahead.
AdvanceMeansApplied ==
  [][marks' # marks =>
       \A c \in Planned(man) \ {Beacon} :
         \/ results[c] = "Refused"
         \/ Evidence[c] = "digest" /\ recorded[c] > man.build[c]
         \/ \A k \in BinarySet(c) : disk[c][k] >= man.build[c]]_vars

\* A destination only ever comes to hold a build at or above the persisted
\* anti-downgrade floor, or bytes the pass found in that component's own set
\* (an undo or a restore in place): neither a replayed manifest nor a lowered
\* floor gets a build through (verify.rs, the two floor checks together).
NeverBelowFloor ==
  [][\A c \in Components : \A k \in Slot :
       disk'[c][k] # disk[c][k] /\ disk'[c][k] # None =>
         \/ disk'[c][k] >= marks.floor
         \/ \E j \in Slot : disk'[c][k] = start[c][j]]_vars

\* The beacon's own image moves only after every other component the pass acts
\* on has a result and every service it stopped has had its restart
\* (selfupdate.rs: the self-swap is the last act of a pass).
BeaconLast ==
  [][disk'[Beacon] # disk[Beacon] =>
       /\ todo = {}
       /\ \A c \in Planned(man) \ {Beacon} : results[c] # "none"
       /\ \A s \in Services \ {Beacon} : svc[s] = "down" => s \in excused]_vars

\* An off-channel feed (--feed-base) may change binaries, never what the tracked
\* channel remembers: no mark and no recorded build comes from it.
OverrideLeavesNoTrace ==
  [][override => UNCHANGED <<marks, recorded>>]_vars

\* However faults and kills leave them, the binaries of every probed component
\* the host can load come to be, together, at the newest build or ahead of it:
\* an alias left stale by a deferral is not skipped for ever because its primary
\* is current (plan.rs, redrive_for_stale_alias), nor is a lost binary.
SetsConverge ==
  \A c \in Components \ Unloadable : Evidence[c] = "probe" =>
    <>[](\A k \in BinarySet(c) : /\ disk[c][k] >= Newest.build[c]
                                 /\ <<c, disk[c][k]>> \notin Mute)

\* The marks catch up with the newest manifest even on a host that refuses a
\* component for ever: a refusal does not hold back the anti-rollback marks
\* (pass.rs, the refusal arm of apply).
MarksCatchUp == <>[](marks.sequence = Newest.sequence)

-----------------------------------------------------------------------------
(* What the documents say and the code does not do: each is checked, and     *)
(* violated, by a run of its own.                                            *)

\* SPEC 9.5: after installing, the broker runs a health check, and rolls back
\* when it fails.  So no component settles on newly placed bytes that would have
\* failed it.  (An alias deferral returns before the gate.)
HealthGated ==
  \A c \in Components :
    results[c] \in {"Installed", "Deferred", "RolledBack"} =>
      disk[c][1] = start[c][1] \/ <<c, disk[c][1]>> \notin Mute

\* SPEC 9.5: across every branch of the replace the target is never left missing.
\* InitDisk has every binary, so one that is missing when its component settles
\* was lost.  (Killed after the move-aside, the next pass sweeps the moved-aside
\* original, snapshots nothing, and defers when the place fails.)
TargetNeverMissing ==
  \A c \in Components :
    results[c] \in {"Deferred", "RolledBack"} =>
      \A k \in BinarySet(c) : disk[c][k] # None
=============================================================================
