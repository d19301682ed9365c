---------------------------- MODULE ScheduleProofs ----------------------------
(***************************************************************************)
(* Schedule never fights an opt-out, never makes a loose install root the    *)
(* daily task, and withdraws an opt-out for cause only, for any number of     *)
(* operators and drivers and any number of commands, faults, kills and        *)
(* deletions.  While operators do not cross, a removal has its record.        *)
(***************************************************************************)
EXTENDS Schedule, SequenceTheorems, TLAPS

Registers(step) == step \notin {"delete", "disable", "rmService", "rmTimer", "reload",
                                "bootout", "unlink"}


\* What an uninstall calls takes parts away and adds none.
LEMMA RemovalShrinks ==
  ASSUME NEW step \in Steps, ~Registers(step), NEW ps PROVE After(step, ps) \subseteq ps
  BY DEF Steps, Registers, After

LEMMA RemovingCalls ==
  ASSUME platform \in {"windows", "linux", "macos"}
  PROVE  /\ Removing \in Seq(Steps) /\ Removing # <<>>
         /\ \A i \in DOMAIN Removing : ~Registers(Removing[i])
<1>1. CASE platform = "windows"
  <2>1. Removing = <<"delete">>
    BY <1>1 DEF Removing
  <2> QED  BY <2>1 DEF Steps, Registers
<1>2. CASE platform = "linux"
  <2>1. Removing = <<"disable", "rmService", "rmTimer", "reload">>
    BY <1>2 DEF Removing
  <2> QED  BY <2>1 DEF Steps, Registers
<1>3. CASE platform = "macos"
  <2>1. Removing = <<"bootout", "unlink">>
    BY <1>3 DEF Removing
  <2> QED  BY <2>1 DEF Steps, Registers
<1> QED  BY <1>1, <1>2, <1>3

LEMMA RegisteringCalls ==
  ASSUME platform \in {"windows", "linux", "macos"}
  PROVE  Registering \in Seq(Steps) /\ Registering # <<>>
<1>1. CASE platform = "windows"
  <2>1. Registering = <<"create">>
    BY <1>1 DEF Registering
  <2> QED  BY <2>1 DEF Steps
<1>2. CASE platform = "linux"
  <2>1. Registering = <<"service", "timer", "reload", "enable">>
    BY <1>2 DEF Registering
  <2> QED  BY <2>1 DEF Steps
<1>3. CASE platform = "macos"
  <2>1. Registering = <<"bootout", "unlink", "plist", "bootstrap">>
    BY <1>3 DEF Registering
  <2> QED  BY <2>1 DEF Steps
<1> QED  BY <1>1, <1>2, <1>3

\* The calls this platform has.
Calls == {Registering[i] : i \in DOMAIN Registering} \cup {Removing[i] : i \in DOMAIN Removing}

LEMMA CallsStayInParts ==
  ASSUME platform \in {"windows", "linux", "macos"}, NEW step \in Calls,
         NEW ps \in SUBSET Parts
  PROVE  After(step, ps) \subseteq Parts /\ step \in Steps
<1>1. CASE platform = "windows"
  <2>1. Calls = {"create", "delete"} /\ Parts = {"task"}
    BY <1>1 DEF Calls, Registering, Removing, Parts
  <2> QED  BY <2>1, Zenon DEF After, Steps
<1>2. CASE platform = "linux"
  <2>1. Calls = {"service", "timer", "reload", "enable", "disable", "rmService", "rmTimer"}
        /\ Parts = {"service", "timer", "enabled"}
    BY <1>2 DEF Calls, Registering, Removing, Parts
  <2> QED  BY <2>1, Zenon DEF After, Steps
<1>3. CASE platform = "macos"
  <2>1. Calls = {"bootout", "unlink", "plist", "bootstrap"} /\ Parts = {"plist", "loaded"}
    BY <1>3 DEF Calls, Registering, Removing, Parts
  <2> QED  BY <2>1, Zenon DEF After, Steps
<1> QED  BY <1>1, <1>2, <1>3

-----------------------------------------------------------------------------
(* The commands under way.                                                   *)

Ops == {"none", "install", "uninstall", "ensure"}
Record(C) == [op : Ops, at : {"idle", "guard", "optout", "probe", "write", "claim",
                               "work", "rescind", "clear"},
              steps : Seq(C), elevated : BOOLEAN, kept : BOOLEAN]

\* Each command has phases of its own.
Fits(r) ==
  /\ r.op = "none" => r.at = "idle"
  /\ r.op = "ensure" => r.at \in {"optout", "probe", "guard", "work"}
  /\ r.op = "install" => r.at \in {"guard", "work", "clear"}
  /\ r.op = "uninstall" => r.at \in {"write", "claim", "work", "rescind"}

\* A command at work registers what is sound, or only takes away; a self-heal
\* that was opted out of all along and is past the marker has no privilege.
Sane(r, C, sound) ==
  /\ r \in Record(C) /\ Fits(r)
  /\ r.at = "idle" => r = Idle
  /\ r.at = "work" <=> r.steps # <<>>
  /\ r.at = "work" => \/ r.op \in {"install", "ensure"} /\ sound
                      \/ r.op = "uninstall" /\ \A i \in DOMAIN r.steps : ~Registers(r.steps[i])
  /\ r.op = "ensure" /\ r.kept => r.at # "work" /\ (r.at # "optout" => ~r.elevated)

HostOK ==
  /\ platform \in Platforms /\ loose \in Roots /\ parts \subseteq Parts
  /\ marker \in {"absent", "unclaimed", "claimed"}
BoundsOK ==
  /\ commands \in 0..MaxCommands /\ faults \in 0..MaxFaults
  /\ kills \in 0..MaxKills /\ outside \in 0..MaxOutside
  /\ culprit \in {"nobody", "outsider", "install", "uninstall", "ensure"}
ProcsOK ==
  /\ proc \in [Procs -> Record(Calls)]
  /\ \A p \in Procs : Sane(proc[p], Calls, loose = {})
KeptOK == \A p \in Procs : proc[p].kept => OptedOut

IInv == HostOK /\ BoundsOK /\ ProcsOK /\ KeptOK

LEMMA IdleIsSane == ASSUME NEW C, NEW sound \in BOOLEAN PROVE Sane(Idle, C, sound) /\ ~Idle.kept
  BY EmptySeq DEF Sane, Record, Fits, Idle, Ops

\* One command goes on; the others are where they were.
LEMMA OneMoves ==
  ASSUME ProcsOK, NEW p \in Procs, NEW r, Sane(r, Calls, loose = {})
  PROVE  LET f == [proc EXCEPT ![p] = r]
         IN /\ f \in [Procs -> Record(Calls)]
            /\ \A q \in Procs : Sane(f[q], Calls, loose = {})
            /\ \A q \in Procs : f[q] = IF q = p THEN r ELSE proc[q]
  BY DEF ProcsOK, Sane

LEMMA FixedParts == ASSUME UNCHANGED fixed PROVE Calls' = Calls /\ Parts' = Parts /\ (loose = {})' = (loose = {})
  BY DEF fixed, Calls, Registering, Removing, Parts

LEMMA Steady ==
  ASSUME ProcsOK, KeptOK, NEW p \in Procs, NEW r, Sane(r, Calls, loose = {}),
         proc' = [proc EXCEPT ![p] = r], UNCHANGED fixed,
         OptedOut => OptedOut', r.kept => OptedOut'
  PROVE  ProcsOK' /\ KeptOK'
<1>1. ProcsOK'
  <2>1. Calls' = Calls /\ (loose = {})' = (loose = {})
    BY FixedParts
  <2> QED  BY <2>1, OneMoves DEF ProcsOK
<1>2. KeptOK'
  <2>1. \A q \in Procs : proc'[q] = IF q = p THEN r ELSE proc[q]
    BY DEF ProcsOK
  <2> QED  BY <2>1 DEF KeptOK
<1> QED  BY <1>1, <1>2

\* Nobody's command goes on.
LEMMA Resting ==
  ASSUME ProcsOK, KeptOK, UNCHANGED proc, UNCHANGED fixed, OptedOut => OptedOut'
  PROVE  ProcsOK' /\ KeptOK'
<1>1. Calls' = Calls /\ (loose = {})' = (loose = {})
  BY FixedParts
<1> QED  BY <1>1 DEF ProcsOK, KeptOK

\* A command that ends.
LEMMA Ends ==
  ASSUME IInv, NEW p \in Procs, Done(p), UNCHANGED fixed, OptedOut => OptedOut'
  PROVE  ProcsOK' /\ KeptOK'
<1>1. Sane(Idle, Calls, loose = {}) /\ ~Idle.kept
  BY IdleIsSane
<1> QED  BY <1>1, Steady DEF Done, IInv

-----------------------------------------------------------------------------
(* Every step keeps the invariant.                                           *)

LEMMA InitHolds == Init => IInv
<1> SUFFICES ASSUME Init PROVE IInv
  OBVIOUS
<1>1. Sane(Idle, Calls, loose = {}) /\ ~Idle.kept
  BY IdleIsSane
<1>2. ProcsOK /\ KeptOK
  BY <1>1 DEF Init, ProcsOK, KeptOK, Sane
<1>3. BoundsOK
  BY HostAssumption DEF Init, BoundsOK
<1> QED  BY <1>2, <1>3 DEF Init, IInv, HostOK

\* A command that has just begun.
LEMMA BeginIsSane ==
  ASSUME NEW op \in Ops \ {"none"}, NEW elevated \in BOOLEAN
  PROVE  /\ Sane(Begin(op, elevated), Calls, loose = {})
         /\ Begin(op, elevated).kept = OptedOut
<1> DEFINE r == Begin(op, elevated)
<1>1. <<>> \in Seq(Calls)
  BY EmptySeq
<1>2. OptedOut \in BOOLEAN
  BY DEF OptedOut
<1>3. r \in Record(Calls) /\ Fits(r) /\ r.at # "idle" /\ r.at # "work"
  BY <1>1, <1>2 DEF Begin, First, Record, Fits, Ops
<1>4. r.steps = <<>> /\ r.kept = OptedOut /\ (r.op = "ensure" => r.at = "optout")
  BY DEF Begin, First
<1> QED  BY <1>3, <1>4 DEF Sane

LEMMA CommandsKeep ==
  ASSUME IInv, NEW p \in Procs, NEW op \in Ops \ {"none"}, NEW elevated \in BOOLEAN,
         Command(p, op, elevated) \/ Tick(p) \/ Fire
  PROVE  IInv'
<1>1. BoundsOK' /\ UNCHANGED <<fixed, parts, marker>>
  <2>1. commands' = commands \/ (commands < MaxCommands /\ commands' = commands + 1)
    BY DEF Command, Tick, Fire, bounds
  <2>2. commands' \in 0..MaxCommands
    BY <2>1, HostAssumption DEF IInv, BoundsOK
  <2> QED  BY <2>2 DEF IInv, BoundsOK, Command, Tick, Fire, bounds
<1>2. HostOK'
  BY <1>1, FixedParts DEF IInv, HostOK, fixed
<1>3. OptedOut' = OptedOut
  BY <1>1 DEF OptedOut
<1>4. PICK q \in Procs, o \in Ops \ {"none"}, e \in BOOLEAN :
        proc' = [proc EXCEPT ![q] = Begin(o, e)]
  BY DEF Command, Tick, Fire, Procs, Ops
<1>5. ProcsOK' /\ KeptOK'
  BY <1>1, <1>3, <1>4, BeginIsSane, Steady DEF IInv
<1> QED  BY <1>1, <1>2, <1>5 DEF IInv

\* The looks at the install root, the marker and the OS.
LEMMA LooksKeep ==
  ASSUME IInv, NEW p \in Procs,
         Guard(p) \/ CheckOptOut(p) \/ Probe(p) \/ ProbeFault(p)
  PROVE  IInv'
<1>1. BoundsOK' /\ UNCHANGED <<fixed, parts, marker>>
  BY HostAssumption DEF IInv, BoundsOK, Guard, CheckOptOut, Probe, ProbeFault, Fault, bounds
<1>2. HostOK'
  BY <1>1, FixedParts DEF IInv, HostOK, fixed
<1>3. OptedOut' = OptedOut
  BY <1>1 DEF OptedOut
<1>4. ASSUME Done(p) PROVE ProcsOK' /\ KeptOK'
  BY <1>1, <1>3, <1>4, Ends
<1>5. Sane(proc[p], Calls, loose = {}) /\ proc[p] \in Record(Calls) /\ (proc[p].kept => OptedOut)
  BY DEF IInv, ProcsOK, KeptOK
<1>6. ASSUME Guard(p) /\ ~Done(p) PROVE ProcsOK' /\ KeptOK'
  <2> DEFINE r == [proc[p] EXCEPT !.at = "work", !.steps = Registering]
  <2>1. proc' = [proc EXCEPT ![p] = r] /\ loose = {} /\ proc[p].elevated
        /\ proc[p].at = "guard"
    BY <1>6, <1>5 DEF Guard, Restricted, At, IInv, ProcsOK
  <2>2. Registering \in Seq(Calls) /\ Registering # <<>>
    <3>1. platform \in {"windows", "linux", "macos"}
      BY HostAssumption DEF IInv, HostOK
    <3>2. Registering \in Seq(Steps) /\ Registering # <<>>
      BY <3>1, RegisteringCalls
    <3> QED  BY <3>2 DEF Calls
  <2>3. Sane(r, Calls, loose = {}) /\ r.kept = proc[p].kept
    BY <1>5, <2>1, <2>2 DEF Sane, Record, Fits, Ops
  <2> QED  BY <1>1, <1>3, <1>5, <2>1, <2>3, Steady DEF IInv
<1>7. ASSUME NEW phase \in {"probe", "guard"}, Move(p, phase), proc[p].op = "ensure",
             proc[p].at \in {"optout", "probe"}, ~(proc[p].kept /\ proc[p].elevated)
      PROVE  ProcsOK' /\ KeptOK'
  <2> DEFINE r == [proc[p] EXCEPT !.at = phase]
  <2>1. Sane(r, Calls, loose = {}) /\ r.kept = proc[p].kept
    BY <1>5, <1>7 DEF Sane, Record, Fits, Ops
  <2>2. proc' = [proc EXCEPT ![p] = r]
    BY <1>7 DEF Move, IInv, ProcsOK
  <2> QED  BY <1>1, <1>3, <1>5, <2>1, <2>2, Steady DEF IInv
<1>8. ASSUME CheckOptOut(p) /\ ~Done(p) PROVE ProcsOK' /\ KeptOK'
  <2>1. proc[p].at = "optout" /\ Move(p, "probe") /\ ~(OptedOut /\ proc[p].elevated)
    BY <1>8 DEF CheckOptOut, At
  <2>2. proc[p].op = "ensure" /\ ~(proc[p].kept /\ proc[p].elevated)
    BY <1>5, <2>1 DEF Sane, Fits, Record, Ops
  <2> QED  BY <1>7, <2>1, <2>2
<1>9. ASSUME (Probe(p) \/ ProbeFault(p)) /\ ~Done(p) PROVE ProcsOK' /\ KeptOK'
  <2>1. proc[p].at = "probe" /\ Move(p, "guard")
    BY <1>9 DEF Probe, ProbeFault, At
  <2>2. proc[p].op = "ensure" /\ ~(proc[p].kept /\ proc[p].elevated)
    BY <1>5, <2>1 DEF Sane, Fits, Record, Ops
  <2> QED  BY <1>7, <2>1, <2>2
<1>10. ProcsOK' /\ KeptOK'
  BY <1>4, <1>6, <1>8, <1>9
<1> QED  BY <1>1, <1>2, <1>10 DEF IInv

\* An uninstall up to its first call: the marker only ever gains an owner.
LEMMA RecordingKeeps ==
  ASSUME IInv, NEW p \in Procs,
         WriteMarker(p) \/ ClaimMarker(p) \/ RecordRefused(p) \/ RecordFault(p)
  PROVE  IInv'
<1>1. BoundsOK' /\ UNCHANGED <<fixed, parts>>
  BY HostAssumption
  DEF IInv, BoundsOK, WriteMarker, ClaimMarker, RecordRefused, RecordFault, Fault, bounds
<1>2. marker' \in {"absent", "unclaimed", "claimed"} /\ (OptedOut => OptedOut')
  BY DEF IInv, HostOK, OptedOut, WriteMarker, ClaimMarker, RecordRefused, RecordFault
<1>3. HostOK'
  BY <1>1, <1>2, FixedParts DEF IInv, HostOK, fixed
<1>4. Sane(proc[p], Calls, loose = {}) /\ proc[p] \in Record(Calls) /\ (proc[p].kept => OptedOut)
  BY DEF IInv, ProcsOK, KeptOK
<1>5. ASSUME Done(p) PROVE ProcsOK' /\ KeptOK'
  BY <1>1, <1>2, <1>5, Ends
<1>6. ASSUME WriteMarker(p) PROVE ProcsOK' /\ KeptOK'
  <2> DEFINE r == [proc[p] EXCEPT !.at = "claim"]
  <2>1. proc' = [proc EXCEPT ![p] = r] /\ proc[p].at = "write"
    BY <1>6 DEF WriteMarker, Move, At, IInv, ProcsOK
  <2>2. Sane(r, Calls, loose = {}) /\ r.kept = proc[p].kept
    BY <1>4, <2>1 DEF Sane, Record, Fits, Ops
  <2> QED  BY <1>1, <1>2, <1>4, <2>1, <2>2, Steady DEF IInv
<1>7. ASSUME ClaimMarker(p), ~Done(p) PROVE ProcsOK' /\ KeptOK'
  <2> DEFINE r == [proc[p] EXCEPT !.at = "work", !.steps = Removing]
  <2>1. proc' = [proc EXCEPT ![p] = r] /\ proc[p].at = "claim"
    BY <1>7 DEF ClaimMarker, BeginRemoval, At, IInv, ProcsOK
  <2>2. /\ Removing \in Seq(Calls) /\ Removing # <<>>
        /\ \A i \in DOMAIN Removing : ~Registers(Removing[i])
    <3>1. platform \in {"windows", "linux", "macos"}
      BY HostAssumption DEF IInv, HostOK
    <3>2. /\ Removing \in Seq(Steps) /\ Removing # <<>>
          /\ \A i \in DOMAIN Removing : ~Registers(Removing[i])
      BY <3>1, RemovingCalls
    <3> QED  BY <3>2 DEF Calls
  <2>3. Sane(r, Calls, loose = {}) /\ r.kept = proc[p].kept
    BY <1>4, <2>1, <2>2 DEF Sane, Record, Fits, Ops
  <2> QED  BY <1>1, <1>2, <1>4, <2>1, <2>3, Steady DEF IInv
<1>8. ProcsOK' /\ KeptOK'
  BY <1>5, <1>6, <1>7 DEF RecordRefused, RecordFault
<1> QED  BY <1>1, <1>3, <1>8 DEF IInv

\* A command is through with a call.
LEMMA AdvanceIsSane ==
  ASSUME IInv, NEW p \in Procs, proc[p].at = "work"
  PROVE  \E r : /\ Sane(r, Calls, loose = {}) /\ (r.kept => proc[p].kept)
               /\ Advance(p, proc) = [proc EXCEPT ![p] = r]
<1> DEFINE rest == Tail(proc[p].steps)
           phase == IF rest # <<>> THEN "work" ELSE NextAfterWork(proc[p].op)
           r == IF phase = "idle" THEN Idle
                ELSE [proc[p] EXCEPT !.steps = rest, !.at = phase]
<1>1. Sane(proc[p], Calls, loose = {}) /\ proc[p] \in Record(Calls)
  BY DEF IInv, ProcsOK
<1>2. proc[p].steps \in Seq(Calls) /\ proc[p].steps # <<>>
  BY <1>1 DEF Sane, Record
<1>3. /\ rest \in Seq(Calls)
      /\ \A i \in DOMAIN rest : i + 1 \in DOMAIN proc[p].steps /\ rest[i] = proc[p].steps[i + 1]
  BY <1>2
<1>4. Advance(p, proc) = [proc EXCEPT ![p] = r]
  BY DEF Advance, IInv, ProcsOK
<1>5. CASE phase = "idle"
  BY <1>4, <1>5, IdleIsSane
<1>6. CASE rest # <<>>
  <2>1. r = [proc[p] EXCEPT !.steps = rest, !.at = "work"]
    BY <1>6
  <2> HIDE DEF r
  <2>2. Sane(r, Calls, loose = {}) /\ r.kept = proc[p].kept
    <3> HIDE DEF rest
    <3>1. r \in Record(Calls) /\ Fits(r) /\ r.kept = proc[p].kept /\ r.op = proc[p].op
          /\ r.steps = rest /\ r.at = "work"
      BY <1>1, <1>3, <2>1 DEF Record, Sane, Fits, Ops
    <3>2. \A i \in DOMAIN r.steps : proc[p].op = "uninstall" => ~Registers(r.steps[i])
      BY <1>1, <1>3, <3>1 DEF Sane
    <3> QED  BY <1>1, <1>6, <3>1, <3>2 DEF Sane
  <2> QED  BY <1>4, <2>2
<1>7. CASE rest = <<>> /\ phase # "idle"
  <2>1. proc[p].op = "install" /\ r = [proc[p] EXCEPT !.steps = <<>>, !.at = "clear"]
    BY <1>7 DEF NextAfterWork
  <2>2. <<>> \in Seq(Calls)
    BY EmptySeq
  <2> HIDE DEF r
  <2>3. Sane(r, Calls, loose = {}) /\ r.kept = proc[p].kept
    BY <1>1, <2>1, <2>2 DEF Sane, Record, Fits, Ops
  <2> QED  BY <1>4, <2>3
<1> QED  BY <1>5, <1>6, <1>7

\* A call that fails is passed over, ends its command, or turns it back.
LEMMA FailuresKeep ==
  ASSUME IInv, NEW p \in Procs,
         CallImpossible(p) \/ CallFault(p) \/ DeleteAbsent(p)
  PROVE  IInv'
<1>1. BoundsOK' /\ UNCHANGED <<fixed, parts, marker>> /\ proc[p].at = "work"
  BY HostAssumption
  DEF IInv, BoundsOK, CallImpossible, CallFault, DeleteAbsent, CallFails, Fault, bounds, At
<1>2. HostOK' /\ OptedOut' = OptedOut
  BY <1>1, FixedParts DEF IInv, HostOK, fixed, OptedOut
<1>3. Sane(proc[p], Calls, loose = {}) /\ proc[p] \in Record(Calls) /\ (proc[p].kept => OptedOut)
  BY DEF IInv, ProcsOK, KeptOK
<1>4. ASSUME proc' = Advance(p, proc) PROVE ProcsOK' /\ KeptOK'
  BY <1>1, <1>2, <1>3, <1>4, AdvanceIsSane, Steady DEF IInv
<1>5. ASSUME Fail(p) PROVE ProcsOK' /\ KeptOK'
  <2>1. CASE Done(p)
    BY <1>1, <1>2, <2>1, Ends
  <2>2. CASE ~Done(p)
    <3> DEFINE r == [proc[p] EXCEPT !.at = "rescind", !.steps = <<>>]
    <3>1. proc' = [proc EXCEPT ![p] = r] /\ proc[p].op = "uninstall"
      BY <1>5, <2>2 DEF Fail, IInv, ProcsOK
    <3>2. <<>> \in Seq(Calls)
      BY EmptySeq
    <3>3. Sane(r, Calls, loose = {}) /\ r.kept = proc[p].kept
      BY <1>3, <3>1, <3>2 DEF Sane, Record, Fits, Ops
    <3> QED  BY <1>1, <1>2, <1>3, <3>1, <3>3, Steady DEF IInv
  <2> QED  BY <2>1, <2>2
<1>6. proc' = Advance(p, proc) \/ Fail(p)
  BY DEF CallImpossible, CallFault, DeleteAbsent, CallFails
<1> QED  BY <1>1, <1>2, <1>4, <1>5, <1>6 DEF IInv

LEMMA BlameIsKnown ==
  ASSUME BoundsOK, NEW who \in {"outsider", "install", "uninstall", "ensure"}, Blame(who)
  PROVE  culprit' \in {"nobody", "outsider", "install", "uninstall", "ensure"}
  BY DEF Blame, BoundsOK

\* A call of a command at work: what it registers is sound, else it takes away.
LEMMA CallKeeps == ASSUME IInv, NEW p \in Procs, Call(p) PROVE IInv'
<1> DEFINE step == Head(proc[p].steps)
           killed == IF step = "bootout" THEN {Daemon} \ {p} ELSE {}
<1>1. Sane(proc[p], Calls, loose = {}) /\ proc[p].at = "work"
      /\ proc[p] \in Record(Calls) /\ (proc[p].kept => OptedOut)
  BY DEF IInv, ProcsOK, KeptOK, Call, At
<1>2. step \in Calls
  BY <1>1 DEF Sane, Record
<1>3. UNCHANGED <<fixed, marker, bounds>> /\ parts' = After(step, parts) /\ Blame(proc[p].op)
  BY DEF Call
<1>4. HostOK'
  <2>1. platform \in {"windows", "linux", "macos"} /\ parts \in SUBSET Parts
    BY HostAssumption DEF IInv, HostOK
  <2>2. parts' \subseteq Parts
    BY <1>2, <1>3, <2>1, CallsStayInParts
  <2> QED  BY <1>3, <2>2, FixedParts DEF IInv, HostOK, fixed
<1>5. BoundsOK'
  <2>1. proc[p].op \in {"install", "uninstall", "ensure"}
    BY <1>1 DEF Sane, Fits, Record, Ops
  <2> QED  BY <1>3, <2>1, BlameIsKnown DEF IInv, BoundsOK, bounds
<1>6. PICK r : /\ Sane(r, Calls, loose = {}) /\ (r.kept => proc[p].kept)
               /\ Advance(p, proc) = [proc EXCEPT ![p] = r]
  BY <1>1, AdvanceIsSane
<1>7. /\ proc' \in [Procs -> Record(Calls)]
      /\ \A q \in Procs : Sane(proc'[q], Calls, loose = {}) /\ (proc'[q].kept => OptedOut)
  <2>1. proc' = [q \in Procs |-> IF q \in killed THEN Idle ELSE [proc EXCEPT ![p] = r][q]]
    BY <1>6 DEF Call
  <2>2. Sane(Idle, Calls, loose = {}) /\ ~Idle.kept
    BY IdleIsSane
  <2>3. \A q \in Procs : proc'[q] \in {Idle, r, proc[q]} /\ (proc'[q] = r => q = p \/ r \in {Idle, proc[q]})
    BY <2>1 DEF IInv, ProcsOK
  <2>4. \A q \in Procs : Sane(proc'[q], Calls, loose = {}) /\ (proc'[q].kept => OptedOut)
    BY <1>1, <1>6, <2>2, <2>3 DEF IInv, ProcsOK, KeptOK
  <2> QED  BY <2>1, <2>4 DEF Sane
<1>8. ProcsOK' /\ KeptOK'
  BY <1>3, <1>7, FixedParts DEF ProcsOK, KeptOK, OptedOut
<1> QED  BY <1>4, <1>5, <1>8 DEF IInv

\* The marker is withdrawn: no command can count on it any more.
LEMMA UnmarkKeeps == ASSUME IInv, NEW p \in Procs, Rescind(p) \/ Clear(p) PROVE IInv'
<1>1. BoundsOK' /\ UNCHANGED <<fixed, parts>> /\ Unmark(p)
  BY DEF IInv, BoundsOK, Rescind, Clear, bounds
<1>2. HostOK'
  BY <1>1, FixedParts DEF IInv, HostOK, fixed, Unmark
<1>3. Sane(Idle, Calls, loose = {}) /\ ~Idle.kept
  BY IdleIsSane
<1>4. ASSUME NEW q \in Procs
      PROVE  Sane([proc[q] EXCEPT !.kept = FALSE], Calls, loose = {})
             /\ ~[proc[q] EXCEPT !.kept = FALSE].kept
  <2> DEFINE r == [proc[q] EXCEPT !.kept = FALSE]
  <2>1. Sane(proc[q], Calls, loose = {}) /\ proc[q] \in Record(Calls)
    BY DEF IInv, ProcsOK
  <2>2. r \in Record(Calls) /\ r.op = proc[q].op /\ r.at = proc[q].at
        /\ r.steps = proc[q].steps /\ ~r.kept
    BY <2>1 DEF Record
  <2>3. r.at = "idle" => r = Idle
    <3> SUFFICES ASSUME proc[q] = Idle PROVE r = Idle
      BY <2>1, <2>2 DEF Sane
    <3>1. r.elevated = FALSE /\ r.kept = FALSE
      BY <2>1 DEF Idle
    <3> HIDE DEF r
    <3>2. r = [op |-> r.op, at |-> r.at, steps |-> r.steps, elevated |-> r.elevated, kept |-> r.kept]
      BY <2>2 DEF Record
    <3> QED  BY <2>2, <3>1, <3>2 DEF Idle
  <2> HIDE DEF r
  <2>4. Sane(r, Calls, loose = {})
    BY <2>1, <2>2, <2>3 DEF Sane, Fits
  <2> QED  BY <2>2, <2>4 DEF r
<1>5. /\ proc' \in [Procs -> Record(Calls)]
      /\ \A q \in Procs : Sane(proc'[q], Calls, loose = {}) /\ ~proc'[q].kept
  <2>1. \A q \in Procs : Sane(proc'[q], Calls, loose = {}) /\ ~proc'[q].kept
    BY <1>1, <1>3, <1>4 DEF Unmark
  <2> QED  BY <1>1, <2>1 DEF Unmark, Sane
<1>6. ProcsOK' /\ KeptOK'
  BY <1>1, <1>5, FixedParts DEF ProcsOK, KeptOK
<1> QED  BY <1>1, <1>2, <1>6 DEF IInv

\* A marker that cannot be removed, a kill, a reboot and an outsider.
LEMMA WorldKeeps ==
  ASSUME IInv, NEW p \in Procs, NEW gone \in SUBSET Parts,
         ClearFault(p) \/ Kill(p) \/ Reboot \/ Outsider(gone)
  PROVE  IInv'
<1>1. UNCHANGED <<fixed, marker>> /\ OptedOut' = OptedOut
  BY DEF ClearFault, Kill, Reboot, Outsider, OptedOut
<1>2. /\ commands' \in 0..MaxCommands /\ faults' \in 0..MaxFaults
      /\ kills' \in 0..MaxKills /\ outside' \in 0..MaxOutside
  BY HostAssumption DEF IInv, BoundsOK, ClearFault, Kill, Reboot, Outsider, Fault
<1>3. culprit' \in {"nobody", "outsider", "install", "uninstall", "ensure"}
  BY DEF IInv, BoundsOK, ClearFault, Kill, Reboot, Outsider, Blame
<1>4. parts' \subseteq Parts
  <2>1. CASE Reboot
    <3>1. platform = "macos" => Parts = {"plist", "loaded"}
      BY DEF Parts
    <3> QED  BY <2>1, <3>1 DEF Reboot, IInv, HostOK
  <2> QED  BY <2>1 DEF IInv, HostOK, ClearFault, Kill, Outsider
<1>5. Sane(Idle, Calls, loose = {}) /\ ~Idle.kept
  BY IdleIsSane
<1>6. ProcsOK' /\ KeptOK'
  <2>1. CASE Done(p)
    BY <1>1, <2>1, Ends
  <2>2. CASE UNCHANGED proc
    BY <1>1, <2>2, Resting DEF IInv
  <2>3. CASE Reboot
    <3>1. proc' \in [Procs -> Record(Calls)] /\ \A q \in Procs : proc'[q] = Idle
      BY <1>5, <2>3 DEF Reboot, Sane
    <3> QED  BY <1>1, <1>5, <3>1, FixedParts DEF ProcsOK, KeptOK
  <2> QED  BY <2>1, <2>2, <2>3 DEF ClearFault, Kill, Outsider, Done
<1> QED  BY <1>1, <1>2, <1>3, <1>4, <1>6, FixedParts DEF IInv, HostOK, BoundsOK, fixed

LEMMA NextKeeps == IInv /\ [Next]_vars => IInv'
<1> SUFFICES ASSUME IInv, [Next]_vars PROVE IInv'
  OBVIOUS
<1>1. ASSUME NEW p \in Procs, NEW op \in {"install", "uninstall", "ensure"}, NEW e \in BOOLEAN,
             Command(p, op, e)
      PROVE  IInv'
  BY <1>1, CommandsKeep DEF Ops
<1>2. ASSUME NEW p \in Procs,
             Tick(p) \/ Step(p) \/ ProbeFault(p) \/ RecordFault(p) \/ CallFault(p)
             \/ ClearFault(p) \/ Kill(p)
      PROVE  IInv'
  <2>1. CASE Tick(p)
    <3>1. "ensure" \in Ops \ {"none"} /\ TRUE \in BOOLEAN
      BY DEF Ops
    <3> QED  BY <2>1, <3>1, CommandsKeep
  <2>2. CASE ClearFault(p) \/ Kill(p)
    <3>1. {} \in SUBSET Parts
      OBVIOUS
    <3> QED  BY <2>2, <3>1, WorldKeeps
  <2> QED
    BY <1>2, <2>1, <2>2, LooksKeep, RecordingKeeps, FailuresKeep, CallKeeps, UnmarkKeeps DEF Step
<1>3. CASE Fire
  <2>1. "ensure" \in Ops \ {"none"} /\ TRUE \in BOOLEAN /\ Daemon \in Procs
    BY DEF Ops, Procs
  <2> QED  BY <1>3, <2>1, CommandsKeep
<1>4. ASSUME NEW gone \in SUBSET Parts, Outsider(gone) \/ Reboot PROVE IInv'
  <2>1. Daemon \in Procs
    BY DEF Procs
  <2> QED  BY <1>4, <2>1, WorldKeeps
<1>5. CASE UNCHANGED vars
  <2>1. UNCHANGED <<fixed, parts, marker, proc, bounds, culprit>>
    BY <1>5 DEF vars
  <2>2. ProcsOK' /\ KeptOK'
    BY <2>1, Resting DEF IInv, OptedOut
  <2> QED  BY <2>1, <2>2, FixedParts DEF IInv, HostOK, BoundsOK, fixed, bounds
<1>6. {} \in SUBSET Parts
  OBVIOUS
<1> QED  BY <1>1, <1>2, <1>3, <1>4, <1>5, <1>6 DEF Next

LEMMA Inductive == Spec => []IInv
  BY InitHolds, NextKeeps, PTL DEF Spec

-----------------------------------------------------------------------------
(* What follows.                                                             *)

\* Every variable has its type, whoever runs what beside whom (scheduler.rs).
THEOREM ScheduleTyped == Spec => []TypeOK
<1>1. IInv => TypeOK
  <2> SUFFICES ASSUME IInv, NEW p \in Procs
               PROVE  /\ proc[p].op \in Ops
                      /\ proc[p].at \in {"idle", "guard", "optout", "probe", "write", "claim",
                                         "work", "rescind", "clear"}
                      /\ proc[p].at = "idle" <=> proc[p] = Idle
                      /\ proc[p].at = "work" <=> proc[p].steps # <<>>
                      /\ \A i \in DOMAIN proc[p].steps : proc[p].steps[i] \in Steps
                      /\ proc[p].elevated \in BOOLEAN /\ proc[p].kept \in BOOLEAN
    BY DEF IInv, HostOK, BoundsOK, TypeOK, Ops
  <2>1. Sane(proc[p], Calls, loose = {}) /\ proc[p] \in Record(Calls)
    BY DEF IInv, ProcsOK
  <2>2. \A i \in DOMAIN proc[p].steps : proc[p].steps[i] \in Steps
    <3>1. platform \in {"windows", "linux", "macos"} /\ {} \in SUBSET Parts
      BY HostAssumption DEF IInv, HostOK
    <3>2. \A step \in Calls : step \in Steps
      BY <3>1, CallsStayInParts
    <3> QED  BY <2>1, <3>2 DEF Record
  <2>3. proc[p] = Idle => proc[p].at = "idle"
    BY DEF Idle
  <2> QED  BY <2>1, <2>2, <2>3 DEF Sane, Record
<1> QED  BY <1>1, Inductive, PTL

\* A self-heal that has found the opt-out, and during which nobody withdrew it,
\* registers nothing (ensure_with).
THEOREM NotFought == Spec => []OptOutNotFought
<1>1. IInv => OptOutNotFought
  BY DEF IInv, ProcsOK, Sane, OptOutNotFought, At
<1> QED  BY <1>1, Inductive, PTL

\* Only Call, Outsider and Reboot touch the artifact, and only Call adds to it.
LEMMA WhoTouches ==
  ASSUME IInv, [Next]_vars, parts' # parts
  PROVE  \/ \E p \in Procs : Call(p)
         \/ parts' \subseteq parts /\ Blame("outsider")
         \/ kills' # kills /\ Blame("outsider")
<1>1. CASE \E gone \in SUBSET Parts : Outsider(gone)
  BY <1>1 DEF Outsider
<1>2. CASE Reboot
  BY <1>2 DEF Reboot, IInv, BoundsOK
<1>3. ASSUME NEW p \in Procs, Step(p) PROVE Call(p)
  BY <1>3 DEF Step, Guard, CheckOptOut, Probe, WriteMarker, ClaimMarker, RecordRefused,
              CallImpossible, CallFails, DeleteAbsent, Rescind, Clear
<1>4. ASSUME NEW p \in Procs, NEW op, NEW e,
             Command(p, op, e) \/ Tick(p) \/ ProbeFault(p) \/ RecordFault(p) \/ CallFault(p)
             \/ ClearFault(p) \/ Kill(p) \/ Fire \/ UNCHANGED vars
      PROVE  FALSE
  BY <1>4 DEF Command, Tick, ProbeFault, RecordFault, CallFault, CallFails, ClearFault, Kill,
              Fire, vars
<1> QED  BY <1>1, <1>2, <1>3, <1>4, Zenon DEF Next, Procs

\* From an install root a non-administrator can write to, no command adds any
\* part of an artifact (refuse_unprivileged_exe_dir).
THEOREM NeverLoose == Spec => NeverRegistersFromLooseRoot
<1> DEFINE Sound == ~(parts' \subseteq parts) /\ kills' = kills => loose = {}
<1>1. IInv /\ [Next]_vars => [Sound]_vars
  <2> SUFFICES ASSUME IInv, [Next]_vars, ~(parts' \subseteq parts), kills' = kills
               PROVE  loose = {}
    OBVIOUS
  <2>1. parts' # parts
    OBVIOUS
  <2>2. PICK p \in Procs : Call(p)
    BY <2>1, WhoTouches
  <2>3. Sane(proc[p], Calls, loose = {}) /\ proc[p].at = "work"
    BY <2>2 DEF IInv, ProcsOK, Call, At
  <2>4. proc[p].op # "uninstall"
    <3> SUFFICES ASSUME proc[p].op = "uninstall" PROVE FALSE
      OBVIOUS
    <3> DEFINE step == Head(proc[p].steps)
    <3>1. step \in Calls /\ ~Registers(step) /\ parts' = After(step, parts)
      BY <2>2, <2>3 DEF Sane, Record, Call
    <3>2. step \in Steps
      <4>1. platform \in {"windows", "linux", "macos"} /\ parts \in SUBSET Parts
        BY HostAssumption DEF IInv, HostOK
      <4> QED  BY <3>1, <4>1, CallsStayInParts
    <3> HIDE DEF step
    <3> QED  BY <3>1, <3>2, RemovalShrinks
  <2> QED  BY <2>3, <2>4 DEF Sane
<1> QED  BY <1>1, Inductive, PTL DEF Spec, NeverRegistersFromLooseRoot

-----------------------------------------------------------------------------
(* The removal is recorded, as long as operators do not cross.  (One who     *)
(* installs while another uninstalls withdraws the record of a removal that  *)
(* is still to come.)                                                        *)

\* An uninstall at work has its record.
Recorded(q) == proc[q].op = "uninstall" /\ proc[q].at = "work" => OptedOut
Typed(q) == proc[q].op \in {"install", "uninstall"} => q \in Operators
IntentInv == IInv /\ \A q \in Procs : Typed(q) /\ Recorded(q)

\* A command ends or goes on as the command it is; an uninstall sets to work only
\* with its record made.
GoesOn(q) ==
  \/ proc'[q] \in {proc[q], Idle}
  \/ /\ proc'[q].op = proc[q].op
     /\ proc'[q].at = "work" => proc[q].at = "work" \/ proc[q].op # "uninstall" \/ OptedOut'

\* A command is typed by an operator, or is a self-heal.
Typing == \E p \in Procs, op \in Ops \ {"none"}, e \in BOOLEAN :
            /\ proc' = [proc EXCEPT ![p] = Begin(op, e)] /\ UNCHANGED marker
            /\ op = "ensure" \/ p \in Operators

LEMMA StepsGoOn ==
  ASSUME IInv, NEW p \in Procs, NEW q \in Procs,
         \/ Guard(p) \/ CheckOptOut(p) \/ Probe(p) \/ ProbeFault(p)
         \/ WriteMarker(p) \/ ClaimMarker(p) \/ RecordRefused(p) \/ RecordFault(p)
         \/ CallImpossible(p) \/ CallFault(p) \/ DeleteAbsent(p) \/ Call(p)
         \/ ClearFault(p) \/ Kill(p)
  PROVE  GoesOn(q) /\ (OptedOut => OptedOut')
<1>1. OptedOut => OptedOut'
  BY DEF OptedOut, Guard, CheckOptOut, Probe, ProbeFault, WriteMarker, ClaimMarker,
         RecordRefused, RecordFault, CallImpossible, CallFault, CallFails, DeleteAbsent, Call,
         ClearFault, Kill
<1>2. Sane(proc[p], Calls, loose = {}) /\ proc[p] \in Record(Calls)
      /\ proc \in [Procs -> Record(Calls)]
  BY DEF IInv, ProcsOK
<1>3. ASSUME Done(p) PROVE GoesOn(q)
  BY <1>2, <1>3 DEF Done, GoesOn
<1>4. ASSUME NEW phase, phase # "work", Move(p, phase) PROVE GoesOn(q)
  BY <1>2, <1>4 DEF Move, GoesOn, Record
<1>5. ASSUME proc[p].at = "work", proc' = Advance(p, proc) PROVE GoesOn(q)
  BY <1>2, <1>5, Zenon DEF Advance, GoesOn, Record
<1>6. ASSUME Guard(p) PROVE GoesOn(q)
  <2>1. proc[p].op # "uninstall"
    BY <1>2, <1>6 DEF Guard, At, Sane, Fits
  <2> QED  BY <1>2, <1>3, <1>6, <2>1 DEF Guard, GoesOn, Record
<1>7. ASSUME CheckOptOut(p) \/ Probe(p) \/ ProbeFault(p) \/ WriteMarker(p) PROVE GoesOn(q)
  BY <1>3, <1>4, <1>7 DEF CheckOptOut, Probe, ProbeFault, WriteMarker
<1>8. ASSUME ClaimMarker(p) PROVE GoesOn(q)
  <2>1. CASE marker = "absent"
    BY <1>3, <1>8, <2>1 DEF ClaimMarker
  <2>2. CASE marker # "absent"
    <3>1. OptedOut' /\ BeginRemoval(p)
      BY <1>8, <2>2 DEF ClaimMarker, OptedOut
    <3> QED  BY <1>2, <3>1 DEF BeginRemoval, GoesOn, Record
  <2> QED  BY <2>1, <2>2
<1>9. ASSUME Fail(p) PROVE GoesOn(q)
  BY <1>2, <1>3, <1>9 DEF Fail, GoesOn, Record
<1>10. ASSUME CallImpossible(p) \/ CallFault(p) \/ DeleteAbsent(p) PROVE GoesOn(q)
  <2>1. proc[p].at = "work" /\ (proc' = Advance(p, proc) \/ Fail(p))
    BY <1>10 DEF CallImpossible, CallFault, DeleteAbsent, CallFails, At
  <2> QED  BY <1>5, <1>9, <2>1
<1>11. ASSUME Call(p) PROVE GoesOn(q)
  <2>1. proc[p].at = "work" /\ proc'[q] \in {Idle, Advance(p, proc)[q]}
    BY <1>11 DEF Call, At
  <2>2. \/ Advance(p, proc)[q] \in {proc[q], Idle}
        \/ proc[q].at = "work" /\ Advance(p, proc)[q].op = proc[q].op
    BY <1>2, <2>1, Zenon DEF Advance, Record
  <2> QED  BY <2>1, <2>2 DEF GoesOn
<1>12. ASSUME RecordRefused(p) \/ RecordFault(p) \/ ClearFault(p) \/ Kill(p) PROVE GoesOn(q)
  <2>1. Done(p)
    BY <1>12 DEF RecordRefused, RecordFault, ClearFault, Kill, Done
  <2> QED  BY <1>3, <2>1
<1> QED  BY <1>1, <1>6, <1>7, <1>8, <1>10, <1>11, <1>12

LEMMA IntentKept ==
  ASSUME \A o1, o2 \in Operators : o1 = o2, IntentInv, [Next]_vars
  PROVE  IntentInv'
<1>1. IInv'
  BY NextKeeps DEF IntentInv
<1>2. IInv /\ \A q \in Procs : Typed(q) /\ Recorded(q)
  BY DEF IntentInv
<1>3. ASSUME \A q \in Procs : GoesOn(q) /\ (OptedOut => OptedOut') PROVE IntentInv'
  <2>1. ASSUME NEW q \in Procs PROVE Typed(q)' /\ Recorded(q)'
    BY <1>2, <1>3, <2>1 DEF GoesOn, Typed, Recorded, Idle
  <2> QED  BY <1>1, <2>1 DEF IntentInv
<1>4. ASSUME Typing PROVE IntentInv'
  <2>1. PICK p \in Procs, op \in Ops \ {"none"}, e \in BOOLEAN :
          /\ proc' = [proc EXCEPT ![p] = Begin(op, e)] /\ UNCHANGED marker
          /\ op = "ensure" \/ p \in Operators
    BY <1>4 DEF Typing
  <2>2. Begin(op, e).op = op /\ Begin(op, e).at # "work"
    BY <2>1 DEF Begin, First, Ops
  <2>3. ASSUME NEW q \in Procs PROVE Typed(q)' /\ Recorded(q)'
    BY <1>2, <2>1, <2>2, <2>3 DEF Typed, Recorded, OptedOut, IInv, ProcsOK
  <2> QED  BY <1>1, <2>3 DEF IntentInv
<1>5. ASSUME NEW p \in Procs, Rescind(p) \/ Clear(p) PROVE IntentInv'
  <2>1. p \in Operators
    <3>1. Sane(proc[p], Calls, loose = {}) /\ proc[p].at \in {"rescind", "clear"}
      BY <1>2, <1>5 DEF IInv, ProcsOK, Rescind, Clear, At
    <3> QED  BY <1>2, <3>1 DEF Sane, Fits, Record, Ops, Typed
  <2>2. ASSUME NEW q \in Procs
        PROVE  proc'[q].op \in {"none", proc[q].op} /\ (q = p => proc'[q].op = "none")
    BY <1>2, <1>5 DEF Rescind, Clear, Unmark, IInv, ProcsOK, Record, Idle
  <2>3. ASSUME NEW q \in Procs PROVE Typed(q)' /\ Recorded(q)'
    BY <1>2, <2>1, <2>2 DEF Typed, Recorded
  <2> QED  BY <1>1, <2>3 DEF IntentInv
<1>6. ASSUME NEW p \in Procs, NEW op \in {"install", "uninstall", "ensure"}, NEW e \in BOOLEAN,
             Command(p, op, e) \/ Tick(p) \/ Fire
      PROVE  Typing
  BY <1>6 DEF Command, Tick, Fire, Typing, Ops, Procs
<1>7. CASE \E gone \in SUBSET Parts : Outsider(gone)
  BY <1>3, <1>7 DEF Outsider, GoesOn, OptedOut
<1>8. CASE Reboot
  BY <1>3, <1>8 DEF Reboot, GoesOn, OptedOut
<1>9. CASE UNCHANGED vars
  BY <1>3, <1>9 DEF vars, GoesOn, OptedOut
<1>10. ASSUME NEW p \in Procs,
              Step(p) \/ ProbeFault(p) \/ RecordFault(p) \/ CallFault(p) \/ ClearFault(p)
              \/ Kill(p)
       PROVE  IntentInv'
  BY <1>2, <1>3, <1>5, <1>10, StepsGoOn DEF Step
<1> QED  BY <1>4, <1>6, <1>7, <1>8, <1>9, <1>10 DEF Next, Procs

\* An uninstall takes a registered schedule away only with its intent on record
\* (uninstall_recording_intent_first), whatever drivers, passes, kills, faults and
\* outsiders do meanwhile.
THEOREM RemovalHasRecord ==
  ASSUME \A o1, o2 \in Operators : o1 = o2
  PROVE  Spec => RemovalIsRecorded
<1> DEFINE Explained ==
      Registered(parts) /\ ~Registered(parts') /\ culprit' = "uninstall" => OptedOut
<1>1. Init => IntentInv
  BY InitHolds DEF IntentInv, Typed, Recorded, Init, Idle
<1>2. IntentInv /\ [Next]_vars => IntentInv'
  BY IntentKept
<1>3. IntentInv /\ [Next]_vars => [Explained]_vars
  <2> SUFFICES ASSUME IntentInv, [Next]_vars,
                      Registered(parts), ~Registered(parts'), culprit' = "uninstall"
               PROVE  OptedOut
    OBVIOUS
  <2>1. ~Blame("outsider") /\ parts' # parts
    BY DEF Blame
  <2>2. PICK p \in Procs : Call(p)
    BY <2>1, WhoTouches DEF IntentInv
  <2>3. proc[p].at = "work" /\ proc[p].op = "uninstall"
    BY <2>2 DEF Call, At, Blame
  <2> QED  BY <2>3 DEF IntentInv, Recorded
<1> QED  BY <1>1, <1>2, <1>3, PTL DEF Spec, RemovalIsRecorded

-----------------------------------------------------------------------------
(* The opt-out is withdrawn for cause, whoever crosses whom.                 *)

\* The call of a registration that makes the artifact whole.
Arm == CASE platform = "windows" -> "create"
         [] platform = "linux"   -> "enable"
         [] platform = "macos"   -> "bootstrap"

\* An install at work has that call before it, as the last one.
Arming(q) ==
  proc[q].op = "install" /\ proc[q].at = "work" => proc[q].steps[Len(proc[q].steps)] = Arm
ArmInv == IInv /\ \A q \in Procs : Arming(q)

\* q comes to its clear only with the artifact whole.
Whole(q) == ~At(q, "clear") /\ proc'[q].at = "clear" => Registered(parts')

LEMMA ArmRegisters ==
  ASSUME HostOK
  PROVE  /\ Registering[Len(Registering)] = Arm /\ Arm # "delete" /\ Arm \notin BestEffort
         /\ Possible(Arm, parts) => Registered(After(Arm, parts))
<1>1. platform \in {"windows", "linux", "macos"} /\ parts \subseteq Parts
  BY HostAssumption DEF HostOK
<1>2. CASE platform = "windows"
  BY <1>1, <1>2 DEF Registering, Arm, BestEffort, Possible, Registered, After, Parts
<1>3. CASE platform = "linux"
  BY <1>1, <1>3 DEF Registering, Arm, BestEffort, Possible, Registered, After, Parts
<1>4. CASE platform = "macos"
  BY <1>1, <1>4 DEF Registering, Arm, BestEffort, Possible, Registered, After, Parts
<1> QED  BY <1>1, <1>2, <1>3, <1>4

\* q comes neither to work as an install nor to the clear.
Rests(q) ==
  proc'[q].op = "install" /\ proc'[q].at \in {"work", "clear"} =>
    proc[q].op = "install" /\ proc[q].at = proc'[q].at /\ proc[q].steps = proc'[q].steps

Working(p) == Guard(p) \/ Call(p) \/ CallImpossible(p) \/ CallFault(p) \/ DeleteAbsent(p)

LEMMA OthersRest ==
  ASSUME IInv, [Next]_vars, NEW q \in Procs
  PROVE  Rests(q) \/ Working(q)
<1>1. proc \in [Procs -> Record(Calls)] /\ \A p \in Procs : Sane(proc[p], Calls, loose = {})
  BY DEF IInv, ProcsOK
<1>2. ASSUME NEW p \in Procs, Done(p) PROVE Rests(q)
  BY <1>1, <1>2 DEF Done, Rests, Idle
<1>3. ASSUME NEW p \in Procs, NEW phase, phase \notin {"work", "clear"}, Move(p, phase)
      PROVE Rests(q)
  BY <1>1, <1>3 DEF Move, Rests, Record
<1>4. ASSUME NEW p \in Procs, CheckOptOut(p) \/ Probe(p) \/ ProbeFault(p) \/ WriteMarker(p)
      PROVE Rests(q)
  BY <1>2, <1>3, <1>4 DEF CheckOptOut, Probe, ProbeFault, WriteMarker
<1>5. ASSUME NEW p \in Procs, ClaimMarker(p) PROVE Rests(q)
  <2>1. proc[p].op # "install"
    BY <1>1, <1>5 DEF ClaimMarker, At, Sane, Fits
  <2> QED  BY <1>1, <1>2, <1>5, <2>1 DEF ClaimMarker, BeginRemoval, Rests, Record
<1>6. ASSUME NEW p \in Procs, RecordRefused(p) \/ RecordFault(p) \/ ClearFault(p) \/ Kill(p)
      PROVE Rests(q)
  <2>1. Done(p)
    BY <1>6 DEF RecordRefused, RecordFault, ClearFault, Kill, Done
  <2> QED  BY <1>2, <2>1
<1>7. ASSUME NEW p \in Procs, Rescind(p) \/ Clear(p) PROVE Rests(q)
  BY <1>1, <1>7, SMTT(20) DEF Rescind, Clear, Unmark, Rests, Record, Idle
<1>8. ASSUME NEW p \in Procs, NEW op \in {"install", "uninstall", "ensure"}, NEW e \in BOOLEAN,
             Command(p, op, e) \/ Tick(p) \/ Fire
      PROVE  Rests(q)
  <2>1. PICK o \in {"install", "uninstall", "ensure"}, f \in BOOLEAN, r \in Procs :
          proc' = [proc EXCEPT ![r] = Begin(o, f)]
    BY <1>8 DEF Command, Tick, Fire, Procs
  <2>2. Begin(o, f).at \notin {"work", "clear"}
    BY <2>1 DEF Begin, First
  <2> QED  BY <1>1, <2>1, <2>2 DEF Rests
<1>9. CASE \E gone \in SUBSET Parts : Outsider(gone)
  BY <1>9 DEF Outsider, Rests
<1>10. CASE Reboot
  BY <1>10 DEF Reboot, Rests, Idle
<1>11. CASE UNCHANGED vars
  BY <1>11 DEF vars, Rests
<1>12. ASSUME NEW p \in Procs, p # q, Working(p) PROVE Rests(q)
  <2>1. \/ proc'[q] \in {proc[q], Idle}
        \/ \E r : proc' = [proc EXCEPT ![p] = r]
        \/ Advance(p, proc)[q] = proc'[q]
    BY <1>1, <1>12, Zenon
    DEF Working, Guard, Done, Call, CallImpossible, CallFault, DeleteAbsent, CallFails, Fail, At
  <2>2. Advance(p, proc)[q] = proc[q]
    BY <1>1, <1>12 DEF Advance
  <2> QED  BY <1>1, <1>12, <2>1, <2>2 DEF Rests, Idle
<1> QED
  BY <1>4, <1>5, <1>6, <1>7, <1>8, <1>9, <1>10, <1>11, <1>12 DEF Next, Procs, Step, Working

\* A command that works keeps its last call before it, and clears only when it
\* has succeeded.
LEMMA WorkArms ==
  ASSUME IInv, NEW q \in Procs, Working(q), Arming(q), UNCHANGED platform
  PROVE  Arming(q)' /\ Whole(q)
<1>0. Arm' = Arm /\ HostOK
  BY DEF Arm, IInv
<1>1. proc \in [Procs -> Record(Calls)] /\ Sane(proc[q], Calls, loose = {})
  BY DEF IInv, ProcsOK
<1>2. ASSUME Done(q) PROVE Arming(q)' /\ Whole(q)
  BY <1>1, <1>2 DEF Done, Arming, Whole, Idle
<1>3. CASE Guard(q)
  <2>1. CASE proc' = [proc EXCEPT ![q].at = "work", ![q].steps = Registering]
    <3>1. proc'[q].at = "work" /\ proc'[q].steps = Registering
      BY <1>1, <2>1 DEF Record
    <3> QED  BY <1>0, <3>1, ArmRegisters DEF Arming, Whole
  <2> QED  BY <1>2, <1>3, <2>1 DEF Guard
<1>4. ASSUME proc[q].at = "work", proc'[q] = Advance(q, proc)[q], proc[q].op = "install",
             Tail(proc[q].steps) = <<>> => Registered(parts')
      PROVE  Arming(q)' /\ Whole(q)
  <2> DEFINE steps == proc[q].steps
             rest == Tail(steps)
  <2>1. steps \in Seq(Calls) /\ steps # <<>> /\ steps[Len(steps)] = Arm
    BY <1>1, <1>4 DEF Sane, Record, Arming
  <2>2. rest # <<>> => rest[Len(rest)] = Arm
    <3>1. Len(rest) = Len(steps) - 1 /\ \A i \in 1..Len(rest) : rest[i] = steps[i + 1]
      BY <2>1
    <3>2. rest # <<>> => Len(rest) \in 1..Len(rest) /\ Len(rest) + 1 = Len(steps)
      BY <2>1, <3>1
    <3> QED  BY <2>1, <3>1, <3>2
  <2>3. CASE rest # <<>>
    <3>1. proc'[q] = [proc[q] EXCEPT !.steps = rest, !.at = "work"]
      BY <1>1, <1>4, <2>3 DEF Advance
    <3>2. proc'[q].steps = rest /\ proc'[q].at = "work"
      BY <1>1, <3>1 DEF Record
    <3> QED  BY <1>0, <2>2, <2>3, <3>2 DEF Arming, Whole
  <2>4. CASE rest = <<>>
    <3>1. proc'[q] = [proc[q] EXCEPT !.steps = rest, !.at = "clear"]
      BY <1>1, <1>4, <2>4 DEF Advance, NextAfterWork
    <3>2. proc'[q].at = "clear"
      BY <1>1, <3>1 DEF Record
    <3> QED  BY <1>4, <2>4, <3>2 DEF Arming, Whole
  <2> QED  BY <2>3, <2>4
<1>5. ASSUME proc[q].op # "install", ~Guard(q) PROVE Arming(q)' /\ Whole(q)
  <2>1. Advance(q, proc)[q].op # "install" /\ Idle.op # "install"
        /\ (proc[q].at = "work" => Advance(q, proc)[q].at # "clear") /\ Idle.at # "clear"
    BY <1>1, <1>5 DEF Advance, NextAfterWork, Idle, Record
  <2>2. ASSUME Fail(q) PROVE proc'[q].op # "install" /\ proc'[q].at # "clear"
    BY <1>1, <1>5, <2>1, <2>2 DEF Fail, Done, Record
  <2>3. ASSUME Call(q) PROVE proc'[q].op # "install" /\ proc'[q].at # "clear"
    BY <2>1, <2>3 DEF Call, At
  <2>4. proc'[q].op # "install" /\ proc'[q].at # "clear"
    BY <1>5, <2>1, <2>2, <2>3 DEF Working, CallImpossible, CallFault, DeleteAbsent, CallFails, At
  <2> QED  BY <2>4 DEF Arming, Whole
<1>6. ASSUME proc[q].at = "work", proc[q].op = "install"
      PROVE  /\ Tail(proc[q].steps) = <<>> => Head(proc[q].steps) = Arm
             /\ proc[q].steps # <<>>
  <2> DEFINE steps == proc[q].steps
  <2>1. steps \in Seq(Calls) /\ steps # <<>> /\ steps[Len(steps)] = Arm
    BY <1>1, <1>6 DEF Sane, Record, Arming
  <2>2. ASSUME Tail(steps) = <<>> PROVE Head(steps) = Arm
    <3>1. Len(Tail(steps)) = Len(steps) - 1 /\ Len(<<>>) = 0 /\ Len(steps) \in Nat
      BY <2>1
    <3>2. Len(steps) = 1
      <4>1. Len(Tail(steps)) = Len(<<>>)
        BY <2>2, Zenon
      <4> HIDE DEF steps
      <4> QED  BY <3>1, <4>1
    <3> QED  BY <2>1, <3>2
  <2> QED  BY <2>1, <2>2
<1>7. CASE Call(q) /\ proc[q].op = "install"
  <2>1. proc[q].at = "work" /\ Possible(Head(proc[q].steps), parts)
        /\ parts' = After(Head(proc[q].steps), parts)
    BY <1>7 DEF Call, At
  <2>2. proc'[q] = Advance(q, proc)[q]
    BY <1>7 DEF Call
  <2>3. ASSUME Tail(proc[q].steps) = <<>> PROVE Registered(parts')
    BY <1>0, <1>6, <1>7, <2>1, <2>3, ArmRegisters
  <2> QED  BY <1>4, <1>7, <2>1, <2>2, <2>3
<1>8. CASE (CallImpossible(q) \/ CallFault(q) \/ DeleteAbsent(q)) /\ proc[q].op = "install"
  <2>1. /\ proc[q].at = "work"
        /\ \/ Done(q)
           \/ proc' = Advance(q, proc) /\ Head(proc[q].steps) \in BestEffort \cup {"delete"}
    BY <1>8 DEF CallImpossible, CallFault, DeleteAbsent, CallFails, Fail, At
  <2>2. Head(proc[q].steps) \in BestEffort \cup {"delete"} => Tail(proc[q].steps) # <<>>
    BY <1>0, <1>6, <1>8, <2>1, ArmRegisters
  <2> QED  BY <1>2, <1>4, <1>8, <2>1, <2>2
<1> QED  BY <1>3, <1>5, <1>7, <1>8 DEF Working

LEMMA ArmKept ==
  ASSUME ArmInv, [Next]_vars
  PROVE  ArmInv' /\ \A q \in Procs : Whole(q)
<1>1. IInv' /\ IInv
  BY NextKeeps DEF ArmInv
<1>2. platform' = platform
  BY DEF Next, vars, fixed, Step, Command, Tick, Fire, Guard, CheckOptOut, Probe, ProbeFault,
         WriteMarker, ClaimMarker, RecordRefused, RecordFault, Call, CallImpossible, CallFault,
         CallFails, DeleteAbsent, Rescind, Clear, ClearFault, Kill, Outsider, Reboot
<1>3. ASSUME NEW q \in Procs, Rests(q) PROVE Arming(q)' /\ Whole(q)
  <2>1. Arm' = Arm
    BY <1>2 DEF Arm
  <2>2. Arming(q)'
    BY <1>3, <2>1 DEF Rests, ArmInv, Arming
  <2>3. proc'[q].at = "clear" => proc'[q].op = "install"
    BY <1>1 DEF IInv, ProcsOK, Sane, Fits, Record, Ops
  <2> QED  BY <1>3, <2>2, <2>3 DEF Rests, Whole, At
<1>4. ASSUME NEW q \in Procs PROVE Arming(q)' /\ Whole(q)
  BY <1>1, <1>2, <1>3, OthersRest, WorkArms DEF ArmInv
<1> QED  BY <1>1, <1>4 DEF ArmInv

\* A deliberate opt-out is withdrawn only by an install that has reached the end of
\* its registration, the schedule whole at that moment, or by an uninstall at its
\* rescind, whatever other operators, drivers, passes, kills, faults and outsiders
\* do meanwhile (install_with, uninstall_recording_intent_first).
THEOREM WithdrawnForCause == Spec => OptOutWithdrawnForCause
<1> DEFINE Cause ==
      \E p \in Procs : /\ At(p, "clear") \/ At(p, "rescind")
                       /\ proc'[p].at = "idle"
    Earned == /\ marker = "claimed" /\ marker' = "absent" => Cause
              /\ \A p \in Procs : Whole(p)
<1>1. Init => ArmInv
  BY InitHolds DEF ArmInv, Arming, Init, Idle
<1>2. ArmInv /\ [Next]_vars => ArmInv'
  BY ArmKept
<1>3. ArmInv /\ [Next]_vars => [Earned]_vars
  <2> SUFFICES ASSUME ArmInv, [Next]_vars, marker = "claimed", marker' = "absent"
               PROVE  Cause
    BY ArmKept
  <2>1. PICK q \in Procs : Rescind(q) \/ Clear(q)
    <3>1. ASSUME NEW r \in Procs, Step(r) PROVE Rescind(r) \/ Clear(r)
      BY <3>1 DEF Step, Guard, CheckOptOut, Probe, WriteMarker, ClaimMarker, RecordRefused,
                  Call, CallImpossible, CallFails, DeleteAbsent
    <3>2. ASSUME NEW r \in Procs, NEW op, NEW e,
                 Command(r, op, e) \/ Tick(r) \/ ProbeFault(r) \/ RecordFault(r) \/ CallFault(r)
                 \/ ClearFault(r) \/ Kill(r) \/ Fire \/ Reboot \/ UNCHANGED vars
          PROVE  FALSE
      BY <3>2 DEF Command, Tick, ProbeFault, RecordFault, CallFault, CallFails, ClearFault, Kill,
                  Fire, Reboot, vars
    <3>3. ASSUME NEW gone, Outsider(gone) PROVE FALSE
      BY <3>3 DEF Outsider
    <3> QED  BY <3>1, <3>2, <3>3, Zenon DEF Next, Procs
  <2>2. proc'[q].at = "idle"
    BY <2>1 DEF Rescind, Clear, Unmark, Idle
  <2> QED  BY <2>1, <2>2 DEF Rescind, Clear
<1> QED  BY <1>1, <1>2, <1>3, PTL DEF Spec, OptOutWithdrawnForCause, Whole
=============================================================================
