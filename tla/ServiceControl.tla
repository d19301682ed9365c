---------------------------- MODULE ServiceControl ----------------------------
(***************************************************************************)
(* One service-backed component and the applier around its replace: stop     *)
(* the service, replace the binary, probe it and roll it back, start the     *)
(* service, watch it settle, judge what is running (apply_component,         *)
(* restart_after, judge_restart of pass.rs; control, run_state,              *)
(* settled_run_state of service.rs).  UpdatePass takes the stop and the      *)
(* restart as one step each; here the service manager has a life of its own: *)
(* a Windows stop returns before the service is down, a package's scripts    *)
(* restart their own unit, and somebody else may start or stop it.           *)
(***************************************************************************)
EXTENDS Naturals

CONSTANTS
  Platforms,       \* the operating systems to explore
  Builds,          \* what the binary's bytes may be
  NoImage,         \* no process is running
  SettleAttempts,  \* SETTLE_ATTEMPTS
  MaxTrouble       \* bound: refusals, crashes, blind queries, other operators

ASSUME ServiceAssumption ==
  /\ Platforms \subseteq {"windows", "linux", "macos"}
  /\ NoImage \notin Builds
  /\ SettleAttempts \in Nat \ {0} /\ MaxTrouble \in Nat

VARIABLES
  platform,   \* fixed
  unit,       \* the service manager's state of the service
  image,      \* the bytes the service's process was launched from
  dest,       \* the bytes at the install destination
  at,         \* the applier's step
  previous, wanted,  \* this application: what it snapshot, what it installs
  outcome,    \* what the install came to
  attempt,    \* what the start came to
  asks,       \* queries of the settling probe
  verdict,    \* the Activation the pass reports
  trouble,
  \* history of this application, for the properties only
  blind,      \* the look before the start got no answer
  raced,      \* the start was asked while the stop had not finished
  meddled     \* the start was refused, or someone or something else stopped it

application == <<previous, wanted, outcome, attempt, asks, verdict>>
history == <<blind, raced, meddled>>
vars == <<platform, unit, image, dest, at, application, trouble, history>>

Up == unit \in {"starting", "running"}

\* The type of every variable; a process runs exactly while the unit is not stopped.
TypeOK ==
  /\ platform \in Platforms
  /\ unit \in {"stopped", "starting", "running", "stopping"}
  /\ image \in Builds \cup {NoImage} /\ (unit = "stopped" <=> image = NoImage)
  /\ dest \in Builds /\ previous \in Builds /\ wanted \in Builds
  /\ at \in {"idle", "stop", "install", "health", "observe", "start", "settle"}
  /\ outcome \in {"none", "Installed", "Deferred", "RolledBack", "Error"}
  /\ attempt \in {"none", "Performed", "AlreadyInState", "Refused"}
  /\ asks \in 0..SettleAttempts
  /\ verdict \in {"none", "Active", "PendingRestart", "Unknown"}
  /\ trouble \in 0..MaxTrouble
  /\ blind \in BOOLEAN /\ raced \in BOOLEAN /\ meddled \in BOOLEAN

Init ==
  /\ platform \in Platforms /\ dest \in Builds
  /\ \/ unit = "running" /\ image = dest
     \/ unit = "stopped" /\ image = NoImage
  /\ at = "idle" /\ previous = dest /\ wanted = dest
  /\ outcome = "none" /\ attempt = "none" /\ asks = 0 /\ verdict = "none"
  /\ trouble = 0 /\ blind = FALSE /\ raced = FALSE /\ meddled = FALSE

Trouble == trouble < MaxTrouble /\ trouble' = trouble + 1
NoTrouble == UNCHANGED trouble
Go(step) == at' = step

-----------------------------------------------------------------------------
(* The service manager, as service.rs describes it.                          *)

Launch(bytes) == unit' = "starting" /\ image' = bytes
Down == unit' = "stopped" /\ image' = NoImage

\* `sc stop` is answered when the service begins to stop; `systemctl stop` and
\* `launchctl bootout` when it is down.
Halt == IF platform = "windows" THEN unit' = "stopping" /\ UNCHANGED image ELSE Down

ComesUp ==
  /\ unit = "starting" /\ unit' = "running"
  /\ UNCHANGED <<platform, image, dest, at, application, trouble, history>>

GoesDown ==
  /\ unit = "stopping" /\ Down
  /\ UNCHANGED <<platform, dest, at, application, trouble, history>>

\* The process dies, or an operator stops the service.
Meddle ==
  /\ Trouble /\ Up /\ (Down \/ Halt)
  /\ meddled' = TRUE
  /\ UNCHANGED <<platform, dest, at, application, blind, raced>>

\* An operator, or the manager's own recovery, starts the service.
Revive ==
  /\ Trouble /\ unit = "stopped" /\ Launch(dest)
  /\ UNCHANGED <<platform, dest, at, application, history>>

\* classify_run_state: what a query of the run state is answered.
RunState ==
  CASE unit = "running" -> "Running"
    [] unit = "starting" -> IF platform = "macos" THEN "Unknown" ELSE "Running"
    [] OTHER -> "NotRunning"

\* run_state; the query may also get no answer at all.
Look(answer) ==
  \/ answer = RunState /\ NoTrouble
  \/ answer = "Unknown" /\ Trouble

-----------------------------------------------------------------------------
(* The applier.                                                              *)

\* A pass plans an update of the component.
Begin(build) ==
  /\ at = "idle" /\ build # dest
  /\ previous' = dest /\ wanted' = build
  /\ outcome' = "none" /\ attempt' = "none" /\ asks' = 0 /\ verdict' = "none"
  /\ blind' = FALSE /\ raced' = FALSE /\ meddled' = FALSE
  /\ Go("stop") /\ UNCHANGED <<platform, unit, image, dest, trouble>>

\* control(Stop): a service that is already down has met the goal.
Stop ==
  /\ at = "stop" /\ (platform = "windows" => unit \in {"running", "stopped"})
  /\ IF unit = "stopped" THEN UNCHANGED <<unit, image>> ELSE Halt
  /\ Go("install") /\ UNCHANGED <<platform, dest, application, trouble, history>>

\* The stop is refused: nothing is replaced and nothing is started.  Windows
\* refuses to stop a service on its way up or down.
StopRefused ==
  /\ at = "stop"
  /\ \/ platform = "windows" /\ unit \in {"starting", "stopping"} /\ NoTrouble
     \/ Trouble
  /\ outcome' = "Deferred" /\ Go("idle")
  /\ UNCHANGED <<platform, unit, image, dest, previous, wanted, attempt, asks,
                 verdict, history>>

\* A package's own scripts may restart the unit it carries.
Install ==
  /\ at = "install" /\ dest' = wanted /\ Go("health")
  /\ \/ unit # "stopping" /\ Launch(wanted)
     \/ UNCHANGED <<unit, image>>
  /\ UNCHANGED <<platform, application, trouble, history>>

\* The binary is held, or the package installer is busy.
InstallDeferred ==
  /\ at = "install"
  /\ \/ platform = "windows" /\ image # NoImage /\ NoTrouble
     \/ Trouble
  /\ outcome' = "Deferred" /\ Go("observe")
  /\ UNCHANGED <<platform, unit, image, dest, previous, wanted, attempt, asks,
                 verdict, history>>

\* finish_apply: the new build answers, or what was there before is put back,
\* or even that fails.
Gate ==
  /\ at = "health"
  /\ \/ outcome' = "Installed" /\ UNCHANGED dest
     \/ outcome' = "RolledBack" /\ dest' = previous
     \/ outcome' = "Error" /\ UNCHANGED dest
  /\ Go("observe")
  /\ UNCHANGED <<platform, unit, image, previous, wanted, attempt, asks, verdict,
                 trouble, history>>

\* Mutated form: an error of the rollback is propagated before the restart.
Observe_AfterPropagation ==
  /\ at = "observe"
  /\ \E answer \in {"Running", "NotRunning", "Unknown"} :
       /\ Look(answer)
       /\ blind' = (answer = "Unknown" /\ RunState # "Unknown")
       /\ attempt' = IF answer = "Running" THEN "AlreadyInState" ELSE "none"
       /\ Go(IF outcome = "Error" THEN "idle"
             ELSE IF answer = "Running" THEN "settle" ELSE "start")
  /\ UNCHANGED <<platform, unit, image, dest, previous, wanted, outcome, asks,
                 verdict, raced, meddled>>

\* Mutated form: the start's exit code alone is trusted.
Observe_Unlooked ==
  /\ at = "observe" /\ Go("start")
  /\ UNCHANGED <<platform, unit, image, dest, application, trouble, history>>

\* start_outcome_from_prior: a service that runs is not asked to start.
Observe ==
  /\ at = "observe"
  /\ \E answer \in {"Running", "NotRunning", "Unknown"} :
       /\ Look(answer)
       /\ blind' = (answer = "Unknown" /\ RunState # "Unknown")
       /\ attempt' = IF answer = "Running" THEN "AlreadyInState" ELSE "none"
       /\ Go(IF answer = "Running" THEN "settle" ELSE "start")
  /\ UNCHANGED <<platform, unit, image, dest, previous, wanted, outcome, asks,
                 verdict, raced, meddled>>

\* control(Start).  systemctl exits 0 for an active unit, which is no different
\* from a start performed; sc and launchctl say that it is there already.
Start ==
  /\ at = "start" /\ Go("settle")
  /\ IF unit = "stopped" THEN Launch(dest) ELSE UNCHANGED <<unit, image>>
  /\ attempt' = IF unit = "stopped" \/ platform = "linux"
                  THEN "Performed" ELSE "AlreadyInState"
  /\ raced' = (unit = "stopping")
  /\ UNCHANGED <<platform, dest, previous, wanted, outcome, asks, verdict,
                 trouble, blind, meddled>>

StartRefused ==
  /\ at = "start" /\ Trouble /\ Go("settle")
  /\ attempt' = "Refused" /\ meddled' = TRUE
  /\ UNCHANGED <<platform, unit, image, dest, previous, wanted, outcome, asks,
                 verdict, blind, raced>>

\* judge_restart; an error of the rollback is propagated without a verdict.
Judged(answer) ==
  IF outcome = "Error" THEN "none"
  ELSE IF answer = "NotRunning" THEN "PendingRestart"
  ELSE IF answer = "Running" /\ attempt = "Performed" THEN "Active"
  ELSE "Unknown"

\* settled_run_state: the first Running answer, or the last answer of all.
Ask ==
  /\ at = "settle"
  /\ \E answer \in {"Running", "NotRunning", "Unknown"} :
       /\ Look(answer)
       /\ IF answer = "Running" \/ asks + 1 = SettleAttempts
            THEN verdict' = Judged(answer) /\ Go("idle")
            ELSE UNCHANGED <<verdict, at>>
  /\ asks' = asks + 1
  /\ UNCHANGED <<platform, unit, image, dest, previous, wanted, outcome, attempt,
                 history>>

Manager == ComesUp \/ GoesDown
Applier ==
  \/ Stop \/ StopRefused \/ Install \/ InstallDeferred \/ Gate
  \/ Observe \/ Start \/ StartRefused \/ Ask
Next == Manager \/ Applier \/ Meddle \/ Revive \/ \E build \in Builds : Begin(build)

Spec == Init /\ [][Next]_vars
\* The applier goes on with what it has begun, and the manager finishes a
\* transition it has accepted; nobody need meddle or revive.
FairSpec == Spec /\ WF_vars(Applier) /\ WF_vars(ComesUp) /\ WF_vars(GoesDown)

-----------------------------------------------------------------------------
(* Properties.                                                               *)

\* A pass that reports the new build Active speaks of a process launched from
\* the bytes now at the destination, whatever was started and stopped around
\* it, provided the look before the start was answered (judge_restart).
ActiveIsTrue ==
  [][(at = "settle" /\ at' = "idle" /\ verdict' = "Active")
       => (blind \/ (image = dest /\ Up))]_vars

\* A service stopped for its replace is brought back on every path, a rollback
\* that errors included (restart_after), unless its start is refused, it is
\* stopped by someone else, or it was still stopping when it was asked to start.
NeverLeftDown == (at = "install") ~> (Up \/ meddled \/ raced)
=============================================================================
