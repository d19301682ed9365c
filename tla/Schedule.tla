------------------------------- MODULE Schedule -------------------------------
(***************************************************************************)
(* The daily wake of the beacon on one host: the scheduler artifact that     *)
(* `schedule install` registers, `schedule uninstall` removes and           *)
(* `schedule ensure` (and every pass) heals, with the opt-out marker by      *)
(* which a deliberate removal is told from an accidental one (scheduler.rs,  *)
(* optout.rs of dig-updater-broker).  The commands take no lock: an          *)
(* operator, the always-on driver and a pass run them side by side, any of   *)
(* them may be killed, and an outsider may delete the artifact.              *)
(*                                                                         *)
(* The artifact is the set of the things it consists of on this platform;    *)
(* registering and removing it are sequences of steps that fail one by one.  *)
(***************************************************************************)
EXTENDS Naturals, Sequences, FiniteSets

CONSTANTS
  Platforms,    \* the operating systems to explore
  Operators,    \* consoles from which an administrator types a command
  Drivers,      \* the always-on service that runs `schedule ensure` on a tick
  Daemon,       \* the pass the artifact itself fires: its self-heal
  Roots,        \* the states of the install root: which legs of it are loose
  MaxCommands,  \* bound: commands typed by operators
  MaxFaults,    \* bound: failing calls to the OS
  MaxKills,     \* bound: killed processes and reboots
  MaxOutside    \* bound: deletions by an outsider

Procs == Operators \cup Drivers \cup {Daemon}

\* The three objects a registration verifies: the install directory, the
\* binary in it, and what the directory hands to the files created in it.
Legs == {"dir", "exe", "creates"}

ASSUME HostAssumption ==
  /\ Platforms \subseteq {"windows", "linux", "macos"}
  /\ Daemon \notin Operators \cup Drivers
  /\ Roots \subseteq SUBSET Legs
  /\ MaxCommands \in Nat /\ MaxFaults \in Nat
  /\ MaxKills \in Nat /\ MaxOutside \in Nat

VARIABLES
  platform, loose,   \* fixed: the OS, and the legs a non-administrator can write
  parts,             \* what of the artifact is there
  marker,            \* the schedule-optout file
  proc,              \* process -> the command it is running
  commands, faults, kills, outside,
  culprit            \* history: who last turned a registered schedule off

bounds == <<commands, faults, kills, outside>>
fixed == <<platform, loose>>
vars == <<fixed, parts, marker, proc, bounds, culprit>>

Parts == CASE platform = "windows" -> {"task"}
           [] platform = "linux"   -> {"service", "timer", "enabled"}
           [] platform = "macos"   -> {"plist", "loaded"}

\* What the OS has to hold for the beacon to be woken.
Registered(ps) == CASE platform = "macos" -> "loaded" \in ps
                    [] OTHER              -> ps = Parts

\* imp::install and imp::uninstall, call by call.
Registering == CASE platform = "windows" -> <<"create">>
                 [] platform = "linux"   -> <<"service", "timer", "reload", "enable">>
                 [] platform = "macos"   -> <<"bootout", "unlink", "plist", "bootstrap">>
Removing == CASE platform = "windows" -> <<"delete">>
              [] platform = "linux"   -> <<"disable", "rmService", "rmTimer", "reload">>
              [] platform = "macos"   -> <<"bootout", "unlink">>
Steps == {"create", "delete", "service", "timer", "reload", "enable", "disable",
          "rmService", "rmTimer", "bootout", "unlink", "plist", "bootstrap"}

\* Calls whose failure is ignored.
BestEffort == {"disable", "bootout", "unlink"}

\* Whether the OS can carry a call out on what is there.
Possible(step, ps) ==
  CASE step = "delete"    -> "task" \in ps
    [] step = "enable"    -> {"service", "timer"} \subseteq ps
    [] step = "disable"   -> "timer" \in ps
    [] step = "bootout"   -> "loaded" \in ps
    [] step = "bootstrap" -> "plist" \in ps /\ "loaded" \notin ps
    [] OTHER              -> TRUE

After(step, ps) ==
  CASE step = "create"    -> ps \cup {"task"}
    [] step = "delete"    -> ps \ {"task"}
    [] step = "service"   -> ps \cup {"service"}
    [] step = "timer"     -> ps \cup {"timer"}
    [] step = "enable"    -> ps \cup {"enabled"}
    [] step = "disable"   -> ps \ {"enabled"}
    [] step = "rmService" -> ps \ {"service"}
    [] step = "rmTimer"   -> ps \ {"timer"}
    [] step = "bootout"   -> ps \ {"loaded"}
    [] step = "unlink"    -> ps \ {"plist"}
    [] step = "plist"     -> ps \cup {"plist"}
    [] step = "bootstrap" -> ps \cup {"loaded"}
    [] step = "reload"    -> ps

\* Only a marker provably owned by a privileged identity is honored.
OptedOut == marker = "claimed"

Idle == [op |-> "none", at |-> "idle", steps |-> <<>>, elevated |-> FALSE,
         kept |-> FALSE]

TypeOK ==
  /\ platform \in Platforms /\ loose \in Roots
  /\ parts \subseteq Parts
  /\ marker \in {"absent", "unclaimed", "claimed"}
  /\ \A p \in Procs :
       /\ proc[p].op \in {"none", "install", "uninstall", "ensure"}
       /\ proc[p].at \in {"idle", "guard", "optout", "probe", "write", "claim",
                          "work", "rescind", "clear"}
       /\ proc[p].at = "idle" <=> proc[p] = Idle
       /\ proc[p].at = "work" <=> proc[p].steps # <<>>
       /\ \A i \in DOMAIN proc[p].steps : proc[p].steps[i] \in Steps
       /\ proc[p].elevated \in BOOLEAN /\ proc[p].kept \in BOOLEAN
  /\ commands \in 0..MaxCommands /\ faults \in 0..MaxFaults
  /\ kills \in 0..MaxKills /\ outside \in 0..MaxOutside
  /\ culprit \in {"nobody", "outsider", "install", "uninstall", "ensure"}

Init ==
  /\ platform \in Platforms /\ loose \in Roots
  /\ parts \in {{}, Parts} /\ marker = "absent"
  /\ proc = [p \in Procs |-> Idle]
  /\ commands = 0 /\ faults = 0 /\ kills = 0 /\ outside = 0
  /\ culprit = "nobody"

-----------------------------------------------------------------------------
At(p, phase) == proc[p].at = phase
Fault == faults < MaxFaults /\ faults' = faults + 1 /\ UNCHANGED <<commands, kills, outside>>

Move(p, phase) == proc' = [proc EXCEPT ![p].at = phase]
Done(p) == proc' = [proc EXCEPT ![p] = Idle]

\* The marker goes, and p ends: no command still running has been opted out of
\* all along (`kept` remembers that).
Unmark(p) ==
  /\ marker' = "absent"
  /\ proc' = [q \in Procs |-> IF q = p THEN Idle ELSE [proc[q] EXCEPT !.kept = FALSE]]

\* What each command looks to first.
First == [install |-> "guard", uninstall |-> "write", ensure |-> "optout"]

Begin(op, elevated) ==
  [op |-> op, elevated |-> elevated, steps |-> <<>>, kept |-> OptedOut, at |-> First[op]]

\* An administrator, or somebody who is not one, types a command.
Command(p, op, elevated) ==
  /\ p \in Operators /\ At(p, "idle")
  /\ commands < MaxCommands /\ commands' = commands + 1
  /\ proc' = [proc EXCEPT ![p] = Begin(op, elevated)]
  /\ UNCHANGED <<fixed, parts, marker, faults, kills, outside, culprit>>

\* The always-on driver's tick; it runs as a privileged service.
Tick(p) ==
  /\ p \in Drivers /\ At(p, "idle")
  /\ proc' = [proc EXCEPT ![p] = Begin("ensure", TRUE)]
  /\ UNCHANGED <<fixed, parts, marker, bounds, culprit>>

\* The OS fires the artifact; every pass begins with the self-heal.
Fire ==
  /\ Registered(parts) /\ At(Daemon, "idle")
  /\ proc' = [proc EXCEPT ![Daemon] = Begin("ensure", TRUE)]
  /\ UNCHANGED <<fixed, parts, marker, bounds, culprit>>

\* Mutated form: the binary itself is not looked at.
Restricted_DirOnly == loose \cap {"dir", "creates"} = {}

\* refuse_unprivileged_exe_dir.
Restricted == loose = {}

\* Mutated form: an explicit install clears the marker before it registers.
Guard_ClearsFirst(p) ==
  /\ At(p, "guard")
  /\ IF Restricted /\ proc[p].elevated
       THEN /\ proc' = [proc EXCEPT ![p].at = "work", ![p].steps = Registering]
            /\ marker' = IF proc[p].op = "install" THEN "absent" ELSE marker
       ELSE Done(p) /\ UNCHANGED marker
  /\ UNCHANGED <<fixed, parts, bounds, culprit>>

\* Register only what a non-administrator cannot replace, and only elevated.
Guard(p) ==
  /\ At(p, "guard")
  /\ IF Restricted /\ proc[p].elevated
       THEN proc' = [proc EXCEPT ![p].at = "work", ![p].steps = Registering]
       ELSE Done(p)
  /\ UNCHANGED <<fixed, parts, marker, bounds, culprit>>

\* Mutated form: the marker is not looked at.
CheckOptOut_Skipped(p) ==
  /\ At(p, "optout") /\ Move(p, "probe")
  /\ UNCHANGED <<fixed, parts, marker, bounds, culprit>>

\* ensure looks at the marker first; without privilege it cannot be verified.
CheckOptOut(p) ==
  /\ At(p, "optout")
  /\ IF OptedOut /\ proc[p].elevated THEN Done(p) ELSE Move(p, "probe")
  /\ UNCHANGED <<fixed, parts, marker, bounds, culprit>>

\* Mutated form: what is left of a broken artifact passes for the artifact.
Presence_AnyPart(p) == IF parts # {} THEN "Registered" ELSE "Absent"

\* classify_query: without privilege a failed Windows query proves nothing.
Presence(p) ==
  IF Registered(parts) THEN "Registered"
  ELSE IF platform = "windows" /\ ~proc[p].elevated THEN "Unknown"
  ELSE "Absent"

\* Only a provably absent artifact is registered again.
Probe(p) ==
  /\ At(p, "probe")
  /\ IF Presence(p) = "Absent" THEN Move(p, "guard") ELSE Done(p)
  /\ UNCHANGED <<fixed, parts, marker, bounds, culprit>>

\* The query fails: refused access leaves the presence unknown, a tool that does
\* not start is an error; any other failure of an elevated Windows query, and of
\* is-enabled or launchctl, is read as an absent artifact.
ProbeFault(p) ==
  /\ At(p, "probe") /\ Fault
  /\ \/ Done(p)
     \/ /\ platform # "windows" \/ proc[p].elevated
        /\ Move(p, "guard")
  /\ UNCHANGED <<fixed, parts, marker, culprit>>

-----------------------------------------------------------------------------
(* Uninstall: the intent first, then the removal.                            *)

BeginRemoval(p) == proc' = [proc EXCEPT ![p].at = "work", ![p].steps = Removing]

\* Mutated form: the removal goes first.
WriteMarker_AfterRemoval(p) ==
  /\ At(p, "write") /\ proc[p].elevated /\ BeginRemoval(p)
  /\ UNCHANGED <<fixed, parts, marker, bounds, culprit>>

\* A privileged process creates the marker; on Windows its owner is whatever
\* the token's default owner is, and an existing marker keeps its own.
WriteMarker(p) ==
  /\ At(p, "write") /\ proc[p].elevated
  /\ marker' \in IF marker # "absent"       THEN {marker}
                 ELSE IF platform = "windows" THEN {"unclaimed", "claimed"}
                 ELSE {"claimed"}
  /\ Move(p, "claim")
  /\ UNCHANGED <<fixed, parts, bounds, culprit>>

ClaimMarker(p) ==
  /\ At(p, "claim") /\ marker' = IF marker = "absent" THEN marker ELSE "claimed"
  /\ IF marker = "absent" THEN Done(p) ELSE BeginRemoval(p)
  /\ UNCHANGED <<fixed, parts, bounds, culprit>>

\* The marker cannot be written, hardened or claimed: nothing is removed, and
\* what has been written of the marker stays.
RecordRefused(p) ==
  /\ At(p, "write") /\ ~proc[p].elevated /\ Done(p)
  /\ UNCHANGED <<fixed, parts, marker, bounds, culprit>>
RecordFault(p) ==
  /\ \/ At(p, "write") /\ proc[p].elevated
     \/ At(p, "claim")
  /\ Fault /\ Done(p)
  /\ UNCHANGED <<fixed, parts, marker, culprit>>

-----------------------------------------------------------------------------
(* The calls to the OS.                                                      *)

NextAfterWork(op) == IF op = "install" THEN "clear" ELSE "idle"

\* p is through with its current call.
Advance(p, procs) ==
  LET rest == Tail(procs[p].steps)
      phase == IF rest # <<>> THEN "work" ELSE NextAfterWork(procs[p].op)
  IN [procs EXCEPT ![p] = IF phase = "idle" THEN Idle
                          ELSE [@ EXCEPT !.steps = rest, !.at = phase]]

\* Whoever takes a working schedule away is remembered.
Blame(who) == culprit' = IF Registered(parts) /\ ~Registered(parts') THEN who
                         ELSE culprit

\* A call succeeds.  `launchctl bootout` also kills the pass it had fired.
Call(p) ==
  /\ At(p, "work")
  /\ LET step == Head(proc[p].steps)
         killed == IF step = "bootout" THEN {Daemon} \ {p} ELSE {}
     IN /\ Possible(step, parts)
        /\ parts' = After(step, parts)
        /\ proc' = [q \in Procs |->
                     IF q \in killed THEN Idle ELSE Advance(p, proc)[q]]
  /\ Blame(proc[p].op)
  /\ UNCHANGED <<fixed, marker, bounds>>

\* An uninstall that fails goes on to withdraw its record.
Fail(p) ==
  IF proc[p].op = "uninstall"
    THEN proc' = [proc EXCEPT ![p].at = "rescind", ![p].steps = <<>>]
    ELSE Done(p)

\* What a call that does not succeed leads to.
CallFails(p) ==
  LET step == Head(proc[p].steps) IN
  /\ IF step \in BestEffort THEN proc' = Advance(p, proc) ELSE Fail(p)
  /\ UNCHANGED <<fixed, parts, marker, culprit>>

\* A call the OS cannot carry out on what is there.
CallImpossible(p) ==
  /\ At(p, "work")
  /\ ~Possible(Head(proc[p].steps), parts) /\ Head(proc[p].steps) # "delete"
  /\ CallFails(p) /\ UNCHANGED bounds

CallFault(p) == At(p, "work") /\ Fault /\ CallFails(p)

\* Deleting a task that is not there is success: the query that follows, by
\* somebody elevated, says so.
DeleteAbsent(p) ==
  /\ At(p, "work") /\ Head(proc[p].steps) = "delete" /\ "task" \notin parts
  /\ proc' = Advance(p, proc)
  /\ UNCHANGED <<fixed, parts, marker, bounds, culprit>>

\* The removal failed: the record is withdrawn, whoever had written it.
Rescind(p) ==
  /\ At(p, "rescind") /\ Unmark(p)
  /\ UNCHANGED <<fixed, parts, bounds, culprit>>

\* An explicit install, once registered, withdraws the opt-out.
Clear(p) ==
  /\ At(p, "clear") /\ Unmark(p)
  /\ UNCHANGED <<fixed, parts, bounds, culprit>>

\* The marker cannot be removed: a rescind ignores that, an install reports it.
ClearFault(p) ==
  /\ At(p, "rescind") \/ At(p, "clear")
  /\ Fault /\ Done(p)
  /\ UNCHANGED <<fixed, parts, marker, culprit>>

-----------------------------------------------------------------------------
(* The world.                                                                *)

Outsider(gone) ==
  /\ outside < MaxOutside /\ outside' = outside + 1
  /\ gone # {} /\ gone \subseteq parts /\ parts' = parts \ gone
  /\ Blame("outsider")
  /\ UNCHANGED <<fixed, marker, proc, commands, faults, kills>>

Kill(p) ==
  /\ ~At(p, "idle") /\ kills < MaxKills /\ kills' = kills + 1
  /\ proc' = [proc EXCEPT ![p] = Idle]
  /\ UNCHANGED <<fixed, parts, marker, commands, faults, outside, culprit>>

\* A reboot loads what launchd finds on disk, and nothing else.
Reboot ==
  /\ kills < MaxKills /\ kills' = kills + 1
  /\ proc' = [p \in Procs |-> Idle]
  /\ parts' = IF platform # "macos" THEN parts
              ELSE IF "plist" \in parts THEN {"plist", "loaded"} ELSE {}
  /\ Blame("outsider")
  /\ UNCHANGED <<fixed, marker, commands, faults, outside>>

Step(p) ==
  \/ Guard(p) \/ CheckOptOut(p) \/ Probe(p)
  \/ WriteMarker(p) \/ ClaimMarker(p) \/ RecordRefused(p)
  \/ Call(p) \/ CallImpossible(p) \/ DeleteAbsent(p)
  \/ Rescind(p) \/ Clear(p)

Next ==
  \/ \E p \in Procs :
       \/ \E op \in {"install", "uninstall", "ensure"}, e \in BOOLEAN : Command(p, op, e)
       \/ Tick(p)
       \/ Step(p)
       \/ ProbeFault(p) \/ RecordFault(p) \/ CallFault(p) \/ ClearFault(p)
       \/ Kill(p)
  \/ Fire
  \/ \E gone \in SUBSET Parts : Outsider(gone)
  \/ Reboot

Spec == Init /\ [][Next]_vars

\* A command that is neither killed nor faulted goes on to its end, and the
\* always-on driver runs `schedule ensure` again and again.
FairSpec ==
  /\ Spec
  /\ \A p \in Procs : WF_vars(Step(p))
  /\ \A p \in Drivers : WF_vars(Tick(p))
-----------------------------------------------------------------------------
(* Properties.                                                               *)

\* An operator who removed the schedule is not fought: a self-heal that began
\* with the opt-out in force, and during which nobody withdrew it, registers
\* nothing, whoever removes what meanwhile (scheduler.rs, ensure_with).
OptOutNotFought ==
  \A p \in Procs : proc[p].op = "ensure" /\ proc[p].kept => ~At(p, "work")

\* An uninstall takes the schedule away only once its intent is on record, so a
\* process killed anywhere in it never leaves an unexplained absence
\* (scheduler.rs, uninstall_recording_intent_first).
RemovalIsRecorded ==
  [][Registered(parts) /\ ~Registered(parts') /\ culprit' = "uninstall" => OptedOut]_vars

\* What a non-administrator could replace is never made the daily task: from an
\* install root any of whose three legs is loose no command adds any part of an
\* artifact, whatever is there already, fails or is killed; one that was there
\* before goes on being fired, and a reboot loads what is on disk (scheduler.rs,
\* refuse_unprivileged_exe_dir).
NeverRegistersFromLooseRoot ==
  [][~(parts' \subseteq parts) /\ kills' = kills => loose = {}]_vars

\* A deliberate opt-out is withdrawn for one of two causes only: an install that
\* reached the end of its registration, which at its last call left the schedule
\* whole, however others took it apart and put it together between its calls; or
\* an uninstall at the rescind of the record, whoever had written it.
\* No install that fails part way re-arms it (scheduler.rs, install_with and
\* uninstall_recording_intent_first).
OptOutWithdrawnForCause ==
  [][/\ marker = "claimed" /\ marker' = "absent"
        => \E p \in Procs : /\ At(p, "clear") \/ At(p, "rescind")
                            /\ proc'[p].at = "idle"
     /\ \A p \in Procs : ~At(p, "clear") /\ proc'[p].at = "clear" => Registered(parts')]_vars

\* A schedule nobody opted out of comes back: whatever deletes it, in part or
\* whole, and whatever fails or is killed on the way, the driver's next ticks
\* restore it (scheduler.rs, ensure).
Healed ==
  loose = {} /\ ~Registered(parts) /\ ~OptedOut ~> Registered(parts) \/ OptedOut
=============================================================================
