----------------------------- MODULE BrokerProofs -----------------------------
(***************************************************************************)
(* Proofs about Broker, for any number of consoles, channels and releases,   *)
(* on either platform, under kills at any step: its state stays typed, and   *)
(* it implements ChannelMarks.                                              *)
(*                                                                         *)
(* The argument is exclusion.  At most one process is inside a pass, because *)
(* the lock is taken only while nobody has it open; so a channel's file and   *)
(* its sibling have at most one writer, what that writer renames over the    *)
(* target is exactly what it wrote, and the release it carries, which was    *)
(* held against the mark at the fetch, is still ahead of it.                 *)
(*                                                                         *)
(* The commands take no lock, and what is proved of them is conditional: a    *)
(* pause holds once acknowledged by a command that was alone, and a rollback *)
(* keeps to the floor it has read beside any pass, unless the two have met in *)
(* one of the windows in which the one spoils what the other relies on.       *)
(***************************************************************************)
EXTENDS Broker, TLAPS

Files == Channels \cup {"config", "status"}
NoJson == {Missing, Empty, Mixed}
Contents == Nat \cup RawConfigs \cup NoJson

FileRec == [target : Contents, tmp : Contents, tmpBy : SUBSET Procs, targetBy : SUBSET Procs]

ProcRec ==
  [op : {"none", "run", "dry", "edit", "rollback"}, at : Phases,
   edit : Edits \cup {Missing}, cfg : Configs, was : Channels \cup {Missing},
   file : Files, save : Nat \cup Configs \cup {Missing}, release : Nat, mark : Nat,
   build : Nat, digest : Nat, alone : BOOLEAN]

Opened == {"write", "rename"}
Saves == {"create", "write", "rename"}
Carrying == {"snapshot", "record", "place"}
Editing == {"before", "load", "follow", "add"}
Rolling == {"floor", "entry", "restore", "reinstate"}

\* What the place a process has come to says of the rest of its record.
Local(r) ==
  /\ r.at = "idle" => r = Idle
  /\ r.at \in {"lock", "close", "gate", "fetch"} \cup Carrying => r.op = "run"
  /\ r.at = "look" => r.op = "dry"
  /\ r.at \in Editing => r.op = "edit"
  /\ r.at \in Rolling => r.op = "rollback"
  /\ r.op = "edit" => r.edit \in Edits
  /\ r.at \in Saves =>
       IF r.file \in Channels THEN r.op = "run" /\ r.save \in Offers[r.file]
                              ELSE r.save \in Configs
  /\ r.at \in Carrying => r.release \in Offers[r.cfg.channel]

PassingAt(r) == r.op = "run" /\ r.at \in PassPhases

Mark == [c \in Channels |-> LoadMark(c)]

\* What a process is about to save is not older than the mark it replaces.
AheadOf(r, mark) ==
  /\ r.at \in Saves /\ r.file \in Channels => r.save >= mark[r.file]
  /\ r.at \in Carrying => r.release >= mark[r.cfg.channel]

FilesOK ==
  /\ files \in [Files -> FileRec]
  /\ {files["config"].target, files["config"].tmp} \subseteq RawConfigs \cup NoJson
  /\ {files["status"].target, files["status"].tmp} \subseteq Configs \cup NoJson
  /\ \A x \in Files : files[x].tmp = Missing => files[x].tmpBy = {}
  /\ \A c \in Channels : /\ files[c].target \in Nat \cup {Missing}
                         /\ files[c].tmp \in Nat \cup NoJson
                         /\ files[c].targetBy = {}

HostOK ==
  /\ legacy \in Legacies /\ installed \in Nat /\ ext \in Channels \cup {Missing}
  /\ cache \in [Channels -> [bytes : Nat, build : Nat, digest : Nat]]
  /\ lapsed \in BOOLEAN /\ tangled \in BOOLEAN
  /\ commands \in 0..MaxCommands /\ quits \in 0..MaxQuits
  /\ word \in Configs \cup {Missing}

ProcsOK == proc \in [Procs -> ProcRec] /\ \A p \in Procs : Local(proc[p])

\* Exclusion: whoever is inside a pass has the lock, and is alone inside.
OnePass ==
  /\ lock \subseteq Procs
  /\ \A p \in Procs : Passing(p) => p \in lock
  /\ \A p, q \in Procs : Passing(p) /\ Passing(q) => p = q

Ahead == \A p \in Procs : AheadOf(proc[p], Mark)

\* Who has a channel's sibling open, and what the sibling holds meanwhile.
Handles ==
  \A c \in Channels, p \in Procs :
    LET its == proc[p].at \in Opened /\ proc[p].file = c IN
    /\ p \in files[c].tmpBy <=> its
    /\ its /\ proc[p].at = "write" => files[c].tmp = Empty
    /\ its /\ proc[p].at = "rename" => files[c].tmp = proc[p].save

IInv == FilesOK /\ HostOK /\ ProcsOK /\ OnePass /\ Ahead /\ Handles

\* The inductive invariant contains the type invariant of the runs.
LEMMA Implied == IInv => TypeOK
<1> SUFFICES ASSUME IInv PROVE TypeOK
  OBVIOUS
<1> USE BrokerAssumption DEF IInv, FilesOK, HostOK, Files, NoJson
<1>1. /\ files["config"] \in FileState(RawConfigs, Procs)
      /\ files["status"] \in FileState(Configs, Procs)
      /\ \A c \in Channels : files[c] \in FileState(Nat, Procs)
  <2>1. \A x \in Files : files[x] \in FileRec
    OBVIOUS
  <2> QED
    BY <2>1 DEF FileRec, FileState
<1>2. \A x \in DOMAIN files : files[x].tmp = Missing => files[x].tmpBy = {}
  OBVIOUS
<1>3. ASSUME NEW p \in Procs
      PROVE  /\ proc[p].at \in Phases /\ (proc[p].at = "idle" <=> proc[p] = Idle)
             /\ proc[p].op \in {"none", "run", "dry", "edit", "rollback"}
             /\ proc[p].cfg \in Configs /\ proc[p].alone \in BOOLEAN
             /\ {proc[p].release, proc[p].mark, proc[p].build, proc[p].digest} \subseteq Nat
             /\ proc[p].at \in {"write", "rename"} => proc[p].save # Missing
             /\ Passing(p) => p \in lock
  <2>1. proc[p] \in ProcRec /\ Local(proc[p]) /\ (Passing(p) => p \in lock)
    BY DEF ProcsOK, OnePass
  <2>2. proc[p] = Idle => proc[p].at = "idle"
    BY DEF Idle
  <2>3. ASSUME proc[p].at \in {"write", "rename"} PROVE proc[p].save # Missing
    <3>1. Configs \subseteq RawConfigs
      BY DEF Configs, RawConfigs
    <3>2. \A c \in Channels : Offers[c] \subseteq Nat
      OBVIOUS
    <3> QED
      BY <2>1, <2>3, <3>1, <3>2 DEF Local, Saves
  <2> QED
    BY <2>1, <2>2, <2>3 DEF ProcRec, Local
<1> QED
  BY <1>1, <1>2, <1>3 DEF TypeOK, OnePass

\* A process that does nothing satisfies all that is asked of processes.
LEMMA IdleOK ==
  /\ Idle \in ProcRec /\ Local(Idle) /\ Idle.at = "idle" /\ Idle.op = "none"
  /\ ~PassingAt(Idle) /\ AheadOf(Idle, Mark)
<1>1. Idle \in ProcRec
  BY BrokerAssumption DEF Idle, ProcRec, Phases, Files, None, Fresh, Config, Configs, Pauses
<1>2. Idle.at = "idle" /\ Idle.op = "none"
  BY DEF Idle
<1> QED
  BY <1>1, <1>2 DEF Local, PassingAt, AheadOf, Saves, Carrying, Editing, Rolling

\* A host installed afresh, or brought over from before there were channels.
LEMMA Initially == Init => IInv
<1> SUFFICES ASSUME Init PROVE IInv
  OBVIOUS
<1> USE BrokerAssumption DEF Init, Files, NoJson
<1>1. LoadConfig \in Configs
  <2>1. legacy = None => LoadConfig = Fresh
    BY DEF LoadConfig, Content, OnDisk
  <2>2. legacy # None => LoadConfig = Config(Adopts, "no")
    BY DEF LoadConfig, Content, OnDisk, RawConfigs, Pauses, Config
  <2> QED
    BY <2>1, <2>2 DEF Configs, Fresh, Config, Pauses
<1>2. FilesOK
  <2> DEFINE raw == [channel |-> Undeclared, paused |-> "no"]
  <2>1. raw \in RawConfigs /\ raw \in Contents /\ Missing \in Contents
    BY DEF RawConfigs, Contents, Pauses
  <2>2. OnDisk(raw) \in FileRec /\ OnDisk(Missing) \in FileRec
    BY <2>1 DEF OnDisk, FileRec
  <2>3. \A x \in Files : (files[x] = OnDisk(raw) /\ x = "config") \/ files[x] = OnDisk(Missing)
    OBVIOUS
  <2> HIDE DEF raw
  <2>4. files \in [Files -> FileRec]
    BY <2>2, <2>3
  <2> QED
    BY <2>1, <2>3, <2>4 DEF FilesOK, OnDisk
<1>3. HostOK
  <2>1. ext \in Channels /\ word \in Configs
    BY <1>1 DEF Configs
  <2>2. cache \in [Channels -> [bytes : Nat, build : Nat, digest : Nat]]
    BY DEF None
  <2>3. legacy \in Legacies /\ installed \in Nat
    OBVIOUS
  <2>4. lapsed \in BOOLEAN /\ tangled \in BOOLEAN
    OBVIOUS
  <2>5. commands \in 0..MaxCommands /\ quits \in 0..MaxQuits
    OBVIOUS
  <2> QED
    BY <2>1, <2>2, <2>3, <2>4, <2>5 DEF HostOK
<1>4. \A p \in Procs : proc[p] = Idle
  OBVIOUS
<1>5. ProcsOK
  BY <1>4, IdleOK DEF ProcsOK
<1>6. OnePass /\ Ahead
  BY <1>4, IdleOK DEF OnePass, Passing, At, Ahead, PassPhases, Saves, Carrying, Editing, Rolling
<1>7. Handles
  BY <1>4, IdleOK DEF Handles, OnDisk, Opened
<1> QED
  BY <1>2, <1>3, <1>5, <1>6, <1>7 DEF IInv

\* What a process's step does to the rest: it leaves the other processes as they
\* are, but that two commands under way together are no longer alone.
Elsewhere(p) ==
  \A q \in Procs \ {p} :
    \/ proc'[q] = proc[q]
    \/ proc[q].op = "edit" /\ proc'[q] = [proc[q] EXCEPT !.alone = FALSE]

\* The steps that touch no file, with all they leave alone shown once.
LEMMA Frame ==
  ASSUME IInv, NEW p \in Procs, Elsewhere(p), proc' \in [Procs -> ProcRec],
         UNCHANGED <<files, legacy>>,
         proc[p].at \notin Opened, proc'[p].at \notin Opened,
         Local(proc'[p]), AheadOf(proc'[p], Mark),
         \/ lock' = lock /\ (PassingAt(proc'[p]) => Passing(p))
         \/ lock' = lock \ {p} /\ ~PassingAt(proc'[p])
         \/ lock' = lock \cup {p} /\ ~PassingAt(proc'[p])
         \/ lock = {} /\ lock' = {p}
  PROVE  FilesOK' /\ ProcsOK' /\ OnePass' /\ Ahead' /\ Handles'
<1> USE DEF IInv
<1>1. FilesOK' /\ \A c \in Channels : LoadMark(c)' = LoadMark(c)
  BY DEF FilesOK, LoadMark, Content
<1>2. \A q \in Procs \ {p} :
        /\ proc[q] \in ProcRec /\ proc'[q] \in ProcRec
        /\ proc'[q].op = proc[q].op /\ proc'[q].at = proc[q].at /\ proc'[q].file = proc[q].file
        /\ proc'[q].save = proc[q].save /\ proc'[q].release = proc[q].release
        /\ proc'[q].cfg = proc[q].cfg /\ proc'[q].edit = proc[q].edit
        /\ proc'[q] = proc[q] \/ proc[q].op = "edit"
  BY DEF Elsewhere, ProcsOK, ProcRec
<1>3. \A q \in Procs : Local(proc'[q])
  <2> SUFFICES ASSUME NEW q \in Procs \ {p} PROVE Local(proc'[q])
    OBVIOUS
  <2>1. Local(proc[q])
    BY DEF ProcsOK
  <2>2. proc[q].op = "edit" => proc[q].at # "idle"
    BY <2>1 DEF Local, Idle
  <2> QED
    BY <1>2, <2>1, <2>2 DEF Local
<1>4. Ahead'
  <2>1. Mark' = Mark
    BY <1>1 DEF Mark
  <2>2. \A q \in Procs : AheadOf(proc'[q], Mark)
    BY <1>2 DEF Ahead, AheadOf
  <2> QED
    BY <2>1, <2>2 DEF Ahead
<1>5. OnePass'
  <2>1. \A q \in Procs \ {p} : Passing(q)' <=> Passing(q)
    BY <1>2 DEF Passing, At
  <2>2. Passing(p)' <=> PassingAt(proc'[p])
    BY DEF Passing, At, PassingAt
  <2> QED
    BY <2>1, <2>2 DEF OnePass
<1>6. Handles'
  BY <1>2 DEF Handles, FilesOK, Opened
<1> QED
  BY <1>1, <1>3, <1>4, <1>5, <1>6 DEF ProcsOK

\* A step that puts one record in the place of another.
LEMMA Stepped ==
  ASSUME IInv, NEW p \in Procs, NEW r \in ProcRec, proc' = [proc EXCEPT ![p] = r],
         UNCHANGED <<files, legacy>>, HostOK',
         proc[p].at \notin Opened, r.at \notin Opened, Local(r), AheadOf(r, Mark),
         \/ lock' = lock /\ (PassingAt(r) => Passing(p))
         \/ lock' = lock \ {p} /\ ~PassingAt(r)
         \/ lock' = lock \cup {p} /\ ~PassingAt(r)
         \/ lock = {} /\ lock' = {p}
  PROVE  IInv'
<1>1. proc \in [Procs -> ProcRec]
  BY DEF IInv, ProcsOK
<1>2. proc' \in [Procs -> ProcRec] /\ proc'[p] = r /\ Elsewhere(p)
  BY <1>1 DEF Elsewhere
<1> QED
  BY <1>2, Frame DEF IInv

\* A process that ends with no file open.
LEMMA Ends ==
  ASSUME IInv, NEW p \in Procs, Done(p), UNCHANGED <<files, legacy>>, HostOK',
         proc[p].at \notin Opened, lock' \in {lock, lock \ {p}}
  PROVE  IInv'
  BY IdleOK, Stepped DEF Done, Opened

\* A process that moves on and changes nothing else of its record.
LEMMA Moves ==
  ASSUME IInv, NEW p \in Procs, NEW phase \in Phases, Move(p, phase),
         UNCHANGED <<files, legacy>>, HostOK', proc[p].at \notin Opened,
         phase \notin Saves \cup Editing \cup Rolling \cup {"idle", "look"},
         phase \in {"lock", "close", "gate", "fetch"} \cup Carrying => proc[p].op = "run",
         phase \in Carrying => proc[p].at \in Carrying,
         \/ lock' = lock /\ (phase \in PassPhases /\ proc[p].op = "run" => Passing(p))
         \/ lock' = lock \cup {p} /\ phase \notin PassPhases
         \/ lock = {} /\ lock' = {p}
  PROVE  IInv'
<1> DEFINE r == [proc[p] EXCEPT !.at = phase]
<1>1. proc[p] \in ProcRec /\ Local(proc[p]) /\ AheadOf(proc[p], Mark)
  BY DEF IInv, ProcsOK, Ahead
<1>2. /\ r \in ProcRec /\ r.at = phase /\ r.op = proc[p].op /\ r.edit = proc[p].edit
      /\ r.release = proc[p].release /\ r.cfg = proc[p].cfg
  BY <1>1 DEF ProcRec
<1>3. proc' = [proc EXCEPT ![p] = r]
  BY DEF Move
<1> HIDE DEF r
<1>4. Local(r) /\ AheadOf(r, Mark) /\ r.at \notin Opened
  BY <1>1, <1>2 DEF Local, AheadOf, Saves, Opened, Editing, Rolling, Carrying
<1>5. PassingAt(r) <=> phase \in PassPhases /\ proc[p].op = "run"
  BY <1>2 DEF PassingAt
<1> QED
  BY <1>2, <1>3, <1>4, <1>5, Stepped

\* A process goes on to save something it may save.
LEMMA GoesToSave ==
  ASSUME IInv, NEW p \in Procs, NEW file \in Files, NEW data, NEW c \in Configs,
         proc' = [proc EXCEPT ![p] = [@ EXCEPT !.at = "create", !.file = file,
                    !.save = data, !.cfg = c, !.release = None, !.mark = None,
                    !.build = None, !.digest = None]],
         UNCHANGED <<files, legacy, lock>>, HostOK', proc[p].at \notin Opened,
         proc[p].op = "run" => Passing(p),
         IF file \in Channels
           THEN proc[p].op = "run" /\ data \in Offers[file] /\ data >= LoadMark(file)
           ELSE data \in Configs
  PROVE  IInv'
<1> DEFINE r == [proc[p] EXCEPT !.at = "create", !.file = file, !.save = data, !.cfg = c,
                   !.release = None, !.mark = None, !.build = None, !.digest = None]
<1>1. proc[p] \in ProcRec /\ Local(proc[p])
  BY DEF IInv, ProcsOK
<1>2. data \in Nat \cup Configs
  BY BrokerAssumption
<1>3. /\ r \in ProcRec /\ r.at = "create" /\ r.op = proc[p].op /\ r.edit = proc[p].edit
      /\ r.file = file /\ r.save = data
  BY <1>1, <1>2, ZenonT(60) DEF ProcRec, Phases, PassPhases, None
<1>4. proc' = [proc EXCEPT ![p] = r]
  OBVIOUS
<1> HIDE DEF r
<1>5. Local(r) /\ r.at \notin Opened
  BY <1>1, <1>3 DEF Local, Saves, Opened, Carrying, Editing, Rolling
<1>6. AheadOf(r, Mark)
  BY <1>3 DEF AheadOf, Carrying, Mark
<1>7. PassingAt(r) => Passing(p)
  BY <1>3 DEF PassingAt
<1> QED
  BY <1>3, <1>4, <1>5, <1>6, <1>7, Stepped

\* A process that begins: the daily wake, or a command typed.
LEMMA Begins ==
  ASSUME IInv, NEW p \in Procs, NEW op \in {"run", "dry", "edit", "rollback"},
         NEW edit \in Edits \cup {Missing}, NEW first \in Phases,
         Begin(p, op, edit, first), UNCHANGED <<files, legacy, lock>>, HostOK',
         At(p, "idle"), first \in {"lock", "look", "floor", "before", "load"},
         first = "lock" => op = "run", first = "look" => op = "dry",
         first = "floor" => op = "rollback", first \in {"before", "load"} => op = "edit",
         op = "edit" => edit \in Edits
  PROVE  IInv'
<1>1. proc \in [Procs -> ProcRec] /\ Idle \in ProcRec
  BY IdleOK DEF IInv, ProcsOK
<1> DEFINE r == proc'[p]
<1>2. /\ r \in ProcRec /\ r.op = op /\ r.at = first /\ r.edit = edit
  BY <1>1, ZenonT(60) DEF Begin, ProcRec
<1>3. Elsewhere(p) /\ proc' \in [Procs -> ProcRec]
  <2>1. \A q \in Procs \ {p} :
          \/ proc'[q] = proc[q]
          \/ proc[q].op = "edit" /\ proc'[q] = [proc[q] EXCEPT !.alone = FALSE]
    BY <1>1 DEF Begin
  <2>2. \A q \in Procs : [proc[q] EXCEPT !.alone = FALSE] \in ProcRec
    BY <1>1 DEF ProcRec
  <2>3. proc' = [q \in Procs |-> proc'[q]]
    BY DEF Begin
  <2> QED
    BY <1>1, <1>2, <2>1, <2>2, <2>3 DEF Elsewhere
<1> HIDE DEF r
<1>4. Local(r) /\ AheadOf(r, Mark) /\ r.at \notin Opened /\ ~PassingAt(r)
  BY <1>2 DEF Local, AheadOf, Saves, Carrying, Editing, Rolling, Opened, PassingAt, PassPhases
<1>5. proc[p].at \notin Opened
  BY DEF At, Opened
<1> QED
  BY <1>3, <1>4, <1>5, Frame DEF IInv, r

\* ConfigStore::load returns a configuration or an error.
LEMMA LoadedIsTyped == IInv /\ ~ConfigBroken => LoadConfig \in Configs
<1> SUFFICES ASSUME IInv, ~ConfigBroken PROVE LoadConfig \in Configs
  OBVIOUS
<1>1. Content("config") \in RawConfigs \cup {Missing}
  BY DEF IInv, FilesOK, Content, ConfigBroken, Unreadable, NoJson
<1> QED
  BY <1>1, BrokerAssumption DEF LoadConfig, RawConfigs, Configs, Fresh, Config, Pauses

\* TrustStateStore::load returns a mark, also where the legacy file is adopted.
LEMMA MarksAreTyped ==
  ASSUME IInv, NEW c \in Channels PROVE LoadMark(c) \in Nat
BY BrokerAssumption DEF IInv, FilesOK, HostOK, LoadMark, Content, None

\* The daily wake and every command that can be typed.
LEMMA Commands ==
  ASSUME IInv, NEW p \in Procs, Command(p) \/ Wake PROVE IInv'
<1>1. CASE Command(p)
  <2>1. HostOK'
    BY <1>1, BrokerAssumption DEF Command, IInv, HostOK, host, history
  <2>2. ASSUME NEW op \in Others, Begin(p, op, Missing, First[op]) PROVE IInv'
    <3>1. op \in {"run", "dry", "rollback"}
      BY BrokerAssumption
    <3>2. /\ First[op] \in {"lock", "look", "floor"} /\ First[op] \in Phases
          /\ First[op] = "lock" => op = "run"
          /\ First[op] = "look" => op = "dry"
          /\ First[op] = "floor" => op = "rollback"
      BY <3>1 DEF First, Phases
    <3> QED
      BY <1>1, <2>1, <2>2, <3>1, <3>2, Begins DEF Command
  <2>3. ASSUME NEW e \in Edits,
               Begin(p, "edit", e, IF e.set = "channel" THEN "before" ELSE "load")
        PROVE  IInv'
    BY <1>1, <2>1, <2>3, Begins DEF Command, Phases
  <2> QED
    BY <1>1, <2>2, <2>3 DEF Command
<1>2. CASE Wake
  <2>1. HostOK' /\ Daemon \in Procs
    BY <1>2 DEF Wake, IInv, HostOK, bounds, host, history, Procs
  <2> QED
    BY <1>2, <2>1, Begins DEF Wake, Phases
<1> QED
  BY <1>1, <1>2

\* The single-instance lock: taken, refused, and its handle closed (lock.rs).
LEMMA Locking ==
  ASSUME IInv, NEW p \in Procs, Acquire(p) \/ Refused(p) \/ CloseHandle(p) PROVE IInv'
<1>1. proc[p] \in ProcRec /\ Local(proc[p])
  BY DEF IInv, ProcsOK
<1>2. CASE Acquire(p)
  <2>1. HostOK'
    BY <1>2 DEF Acquire, IInv, HostOK, bounds, host, history
  <2> QED
    BY <1>1, <1>2, <2>1, Moves DEF Acquire, At, Local, Opened, Saves, Carrying, Editing, Rolling, Phases, PassPhases
<1>3. CASE Refused(p)
  <2>1. HostOK'
    BY <1>3 DEF Refused, IInv, HostOK, bounds, host, history
  <2> QED
    BY <1>1, <1>3, <2>1, Moves, Ends
       DEF Refused, At, Local, Opened, Saves, Carrying, Editing, Rolling, Phases, PassPhases
<1>4. CASE CloseHandle(p)
  <2>1. HostOK'
    BY <1>4 DEF CloseHandle, IInv, HostOK, bounds, host, history
  <2> QED
    BY <1>4, <2>1, Ends DEF CloseHandle, Leave, At, Opened
<1> QED
  BY <1>2, <1>3, <1>4

\* The pause gate of a pass (run_once_with_feed).
LEMMA Gating == ASSUME IInv, NEW p \in Procs, Gate(p) PROVE IInv'
<1>1. proc[p] \in ProcRec /\ Local(proc[p]) /\ proc[p].op = "run" /\ Passing(p)
  BY DEF IInv, ProcsOK, Gate, At, Local, Passing, PassPhases
<1>2. HostOK'
  BY DEF Gate, IInv, HostOK, bounds, host, history
<1>3. CASE ConfigBroken
  BY <1>2, <1>3, Ends DEF Gate, Leave, At, Opened
<1>4. CASE ~ConfigBroken
  <2> DEFINE phase == IF IsPaused(LoadConfig) THEN "mirror" ELSE "fetch"
             r == [proc[p] EXCEPT !.cfg = LoadConfig, !.at = phase]
  <2>1. LoadConfig \in Configs
    BY <1>4, LoadedIsTyped
  <2>2. /\ r \in ProcRec /\ r.at \in {"mirror", "fetch"} /\ r.op = "run" /\ r.edit = proc[p].edit
    BY <1>1, <2>1, ZenonT(60) DEF ProcRec, Phases, PassPhases
  <2>3. proc' = [proc EXCEPT ![p] = r] /\ lock' = lock /\ UNCHANGED <<files, legacy>>
    BY <1>4 DEF Gate
  <2> HIDE DEF r, phase
  <2>4. Local(r) /\ AheadOf(r, Mark) /\ r.at \notin Opened /\ proc[p].at \notin Opened
    BY <1>1, <2>2 DEF Local, AheadOf, Saves, Carrying, Editing, Rolling, Opened, Gate, At
  <2> QED
    BY <1>1, <1>2, <2>2, <2>3, <2>4, Stepped
<1> QED
  BY <1>3, <1>4

\* The planner takes only a release that is not older than the mark it has read.
LEMMA Fetching == ASSUME IInv, NEW p \in Procs, Fetch(p) PROVE IInv'
<1>1. proc[p] \in ProcRec /\ Local(proc[p]) /\ proc[p].op = "run" /\ Passing(p)
  BY DEF IInv, ProcsOK, Fetch, At, Local, Passing, PassPhases
<1>2. HostOK' /\ UNCHANGED <<files, legacy>> /\ proc[p].at \notin Opened
  BY DEF Fetch, IInv, HostOK, bounds, host, history, At, Opened
<1> DEFINE c == proc[p].cfg.channel
<1>3. c \in Channels /\ proc[p].cfg \in Configs
  BY <1>1 DEF ProcRec, Configs
<1>4. CASE Leave(p)
  BY <1>2, <1>4, Ends DEF Leave
<1>5. CASE Move(p, "mirror") /\ UNCHANGED lock
  BY <1>1, <1>2, <1>5, Moves DEF Saves, Carrying, Editing, Rolling, Phases, PassPhases
<1>6. ASSUME NEW r \in Offers[c], r >= LoadMark(c), UNCHANGED lock, installed >= r,
             proc' = Saving(p, c, r)
      PROVE  IInv'
  <2>1. proc' = [proc EXCEPT ![p] = [@ EXCEPT !.at = "create", !.file = c,
                    !.save = r, !.cfg = proc[p].cfg, !.release = None, !.mark = None,
                    !.build = None, !.digest = None]]
    BY <1>1, <1>6 DEF Saving, ProcRec
  <2>2. c \in Files
    BY <1>3 DEF Files
  <2> HIDE DEF c
  <2> QED
    BY <1>1, <1>2, <1>3, <1>6, <2>1, <2>2, GoesToSave
<1>7. ASSUME NEW r \in Offers[c], r >= LoadMark(c), UNCHANGED lock,
             proc' = [proc EXCEPT ![p].at = IF installed = None THEN "place" ELSE "snapshot",
                                  ![p].release = r, ![p].build = installed]
      PROVE  IInv'
  <2> DEFINE phase == IF installed = None THEN "place" ELSE "snapshot"
             new == [proc[p] EXCEPT !.at = phase, !.release = r, !.build = installed]
  <2>1. r \in Nat /\ installed \in Nat
    BY <1>3, BrokerAssumption DEF IInv, HostOK
  <2>2. /\ new \in ProcRec /\ new.at \in {"place", "snapshot"} /\ new.op = "run"
        /\ new.edit = proc[p].edit /\ new.release = r /\ new.cfg = proc[p].cfg
    BY <1>1, <2>1, ZenonT(60) DEF ProcRec, Phases, PassPhases
  <2>3. proc' = [proc EXCEPT ![p] = new]
    BY <1>7
  <2> HIDE DEF new, phase
  <2>4. Local(new) /\ AheadOf(new, Mark) /\ new.at \notin Opened
    BY <1>3, <1>7, <2>2 DEF Local, AheadOf, Saves, Carrying, Editing, Rolling, Opened, Mark
  <2> QED
    BY <1>1, <1>2, <1>7, <2>2, <2>3, <2>4, Stepped
<1> QED
  BY <1>4, <1>5, <1>6, <1>7 DEF Fetch

\* The snapshot of the last-known-good bytes, its record, and the replacement.
LEMMA Applying ==
  ASSUME IInv, NEW p \in Procs, Snapshot(p) \/ Record(p) \/ Place(p) PROVE IInv'
<1>1. /\ proc[p] \in ProcRec /\ Local(proc[p]) /\ AheadOf(proc[p], Mark)
      /\ proc[p].at \in Carrying
  BY DEF IInv, ProcsOK, Ahead, Snapshot, Record, Place, At, Carrying
<1>2. /\ proc[p].op = "run" /\ Passing(p) /\ proc[p].at \notin Opened
      /\ proc[p].cfg \in Configs /\ proc[p].cfg.channel \in Channels
      /\ UNCHANGED <<files, legacy, lock>>
  BY <1>1 DEF Local, Passing, At, PassPhases, Carrying, Opened, ProcRec, Configs,
             Snapshot, Record, Place
<1>3. CASE Snapshot(p)
  <2> DEFINE new == [proc[p] EXCEPT !.at = "record", !.digest = installed]
  <2>1. HostOK'
    BY <1>2, <1>3 DEF Snapshot, IInv, HostOK, bounds, history
  <2>2. /\ new \in ProcRec /\ new.at = "record" /\ new.op = "run"
        /\ new.edit = proc[p].edit /\ new.release = proc[p].release /\ new.cfg = proc[p].cfg
    BY <1>1, <1>2 DEF ProcRec, Phases, PassPhases, IInv, HostOK
  <2>3. proc' = [proc EXCEPT ![p] = new]
    BY <1>3 DEF Snapshot
  <2> HIDE DEF new
  <2>4. Local(new) /\ AheadOf(new, Mark) /\ new.at \notin Opened
    BY <1>1, <2>2 DEF Local, AheadOf, Saves, Carrying, Editing, Rolling, Opened
  <2> QED
    BY <1>2, <2>1, <2>2, <2>3, <2>4, Stepped
<1>4. CASE Record(p)
  <2>1. HostOK'
    <3>1. proc[p].build \in Nat /\ proc[p].digest \in Nat
      BY <1>1 DEF ProcRec
    <3> QED
      BY <1>2, <1>4, <3>1 DEF Record, IInv, HostOK, bounds, history
  <2> QED
    BY <1>1, <1>2, <1>4, <2>1, Moves DEF Record, Saves, Carrying, Editing, Rolling, Phases, PassPhases
<1>5. CASE Place(p)
  <2>1. HostOK'
    BY <1>1, <1>5 DEF Place, IInv, HostOK, bounds, history, ProcRec
  <2>2. CASE Move(p, "mirror")
    BY <1>1, <1>2, <2>1, <2>2, Moves DEF Saves, Carrying, Editing, Rolling, Phases, PassPhases
  <2>3. CASE proc' = Saving(p, proc[p].cfg.channel, proc[p].release)
    <3>1. proc' = [proc EXCEPT ![p] = [@ EXCEPT !.at = "create", !.file = proc[p].cfg.channel,
                    !.save = proc[p].release, !.cfg = proc[p].cfg, !.release = None,
                    !.mark = None, !.build = None, !.digest = None]]
      BY <1>1, <2>3 DEF Saving, ProcRec
    <3>2. /\ proc[p].release \in Offers[proc[p].cfg.channel]
          /\ proc[p].release >= LoadMark(proc[p].cfg.channel)
      BY <1>1, <1>2 DEF Local, AheadOf, Mark
    <3> QED
      BY <1>1, <1>2, <2>1, <3>1, <3>2, GoesToSave DEF Files
  <2> QED
    BY <1>5, <2>2, <2>3 DEF Place
<1> QED
  BY <1>3, <1>4, <1>5

\* The refresh of the status mirror, by whoever has saved something.
LEMMA Mirroring == ASSUME IInv, NEW p \in Procs, Mirror(p) PROVE IInv'
<1>1. proc[p] \in ProcRec /\ proc[p].at = "mirror" /\ proc[p].cfg \in Configs
  BY DEF IInv, ProcsOK, Mirror, At, ProcRec
<1>2. /\ HostOK' /\ UNCHANGED <<files, legacy, lock>>
      /\ proc[p].at \notin Opened /\ (proc[p].op = "run" => Passing(p))
  BY <1>1 DEF Mirror, IInv, HostOK, bounds, host, history, Opened, Passing, At, PassPhases
<1>3. proc' = [proc EXCEPT ![p] = [@ EXCEPT !.at = "create", !.file = "status",
                    !.save = proc[p].cfg, !.cfg = proc[p].cfg, !.release = None,
                    !.mark = None, !.build = None, !.digest = None]]
  BY <1>1 DEF Mirror, Saving, ProcRec
<1> QED
  BY <1>1, <1>2, <1>3, GoesToSave, BrokerAssumption DEF Files

\* A step of a command that takes no lock.
LEMMA Strolls ==
  ASSUME IInv, NEW p \in Procs, NEW r \in ProcRec, proc' = [proc EXCEPT ![p] = r],
         UNCHANGED <<files, legacy, lock>>, HostOK', proc[p].at \notin Opened,
         r.op # "run", r.at \in Editing => r.op = "edit", r.at \in Rolling => r.op = "rollback",
         r.at \in {"mirror"} \cup Editing \cup Rolling, r.op = "edit" => r.edit \in Edits
  PROVE  IInv'
<1>1. Local(r) /\ AheadOf(r, Mark) /\ r.at \notin Opened /\ ~PassingAt(r)
  BY DEF Local, AheadOf, Saves, Carrying, Editing, Rolling, Opened, PassingAt
<1> QED
  BY <1>1, Stepped

\* The configuration a dry check goes by.
LEMMA DryChecking == ASSUME IInv, NEW p \in Procs, Look(p) PROVE IInv'
<1> DEFINE c == IF ConfigBroken THEN Fresh ELSE LoadConfig
           r == [proc[p] EXCEPT !.at = "mirror", !.cfg = c]
<1>1. proc[p] \in ProcRec /\ proc[p].at = "look" /\ proc[p].op = "dry"
  BY DEF IInv, ProcsOK, Look, At, Local
<1>2. c \in Configs
  BY LoadedIsTyped, BrokerAssumption DEF Fresh, Config, Configs, Pauses
<1>3. HostOK' /\ UNCHANGED <<files, legacy, lock>> /\ proc[p].at \notin Opened
  BY <1>1 DEF Look, IInv, HostOK, bounds, host, history, Opened
<1>4. CASE Done(p)
  BY <1>3, <1>4, Ends
<1>5. CASE proc' = [proc EXCEPT ![p].at = "mirror", ![p].cfg = c]
  <2>1. r \in ProcRec /\ r.at = "mirror" /\ r.op = "dry"
    BY <1>1, <1>2 DEF ProcRec, Phases, PassPhases
  <2>2. proc' = [proc EXCEPT ![p] = r]
    BY <1>5
  <2> HIDE DEF r
  <2> QED
    BY <1>3, <2>1, <2>2, Strolls DEF Editing, Rolling
<1> QED
  BY <1>4, <1>5 DEF Look

\* The commands that edit the configuration (mutate_config, follow_ext_channel).
LEMMA Configuring ==
  ASSUME IInv, NEW p \in Procs, Before(p) \/ Load(p) \/ Follow(p) \/ Add(p) PROVE IInv'
<1>1. /\ proc[p] \in ProcRec /\ proc[p].at \in Editing
      /\ proc[p].op = "edit" /\ proc[p].edit \in Edits
  BY DEF IInv, ProcsOK, Before, Load, Follow, Add, At, Local, Editing
<1>2. proc[p].at \notin Opened /\ UNCHANGED <<files, legacy, lock>>
  BY <1>1 DEF Editing, Opened, Before, Load, Follow, Add
<1>3. proc[p].cfg \in Configs /\ proc[p].cfg.channel \in Channels
  BY <1>1 DEF ProcRec, Configs
<1>4. CASE Before(p)
  <2> DEFINE s == Content("status")
             was == IF Unreadable(s) THEN Missing ELSE IF s = Missing THEN Default ELSE s.channel
             r == [proc[p] EXCEPT !.at = "load", !.was = was]
  <2>1. was \in Channels \cup {Missing}
    <3>1. s \in Configs \cup NoJson
      BY DEF IInv, FilesOK, Content
    <3> QED
      BY <3>1, BrokerAssumption DEF Unreadable, NoJson, Configs
  <2>2. r \in ProcRec /\ r.at = "load" /\ r.op = "edit" /\ r.edit \in Edits
    BY <1>1, <2>1, ZenonT(60) DEF ProcRec, Phases
  <2>3. proc' = [proc EXCEPT ![p] = r] /\ HostOK'
    BY <1>4 DEF Before, IInv, HostOK, bounds, host, history
  <2> HIDE DEF r
  <2> QED
    BY <1>2, <2>2, <2>3, Strolls DEF Editing, Rolling
<1>5. CASE Load(p)
  <2>1. HostOK'
    BY <1>5 DEF Load, IInv, HostOK, bounds, host, history
  <2>2. CASE ConfigBroken
    BY <1>2, <1>5, <2>1, <2>2, Ends DEF Load
  <2>3. CASE ~ConfigBroken
    <3> DEFINE c == Edited(LoadConfig, proc[p].edit)
    <3>1. c \in Configs
      <4>1. LoadConfig \in Configs
        BY <2>3, LoadedIsTyped
      <4> QED
        BY <1>1, <4>1, BrokerAssumption DEF Edited, Configs
    <3>2. proc' = [Saving(p, "config", c) EXCEPT ![p].cfg = c]
      BY <1>5, <2>3 DEF Load
    <3>3. proc' = [proc EXCEPT ![p] = [@ EXCEPT !.at = "create", !.file = "config",
                    !.save = c, !.cfg = c, !.release = None,
                    !.mark = None, !.build = None, !.digest = None]]
      BY <1>1, <3>2, ZenonT(60) DEF Saving, ProcRec
    <3> HIDE DEF c
    <3> QED
      BY <1>1, <1>2, <2>1, <3>1, <3>3, GoesToSave, BrokerAssumption DEF Files
  <2> QED
    BY <2>2, <2>3
<1>6. CASE Follow(p)
  <2>1. HostOK'
    BY <1>6 DEF Follow, IInv, HostOK, bounds, history
  <2>2. CASE Done(p)
    BY <1>2, <2>1, <2>2, Ends
  <2>3. CASE Move(p, "add")
    <3> DEFINE r == [proc[p] EXCEPT !.at = "add"]
    <3>1. r \in ProcRec /\ r.at = "add" /\ r.op = "edit" /\ r.edit \in Edits
      BY <1>1 DEF ProcRec, Phases
    <3>2. proc' = [proc EXCEPT ![p] = r]
      BY <2>3 DEF Move
    <3> HIDE DEF r
    <3> QED
      BY <1>2, <2>1, <3>1, <3>2, Strolls DEF Editing, Rolling
  <2> QED
    BY <1>6, <2>2, <2>3 DEF Follow
<1>7. CASE Add(p)
  <2>1. HostOK'
    BY <1>3, <1>7 DEF Add, IInv, HostOK, bounds, history
  <2> QED
    BY <1>2, <1>7, <2>1, Ends DEF Add
<1> QED
  BY <1>4, <1>5, <1>6, <1>7

\* The manual rollback, which writes no file of marks (lib.rs, rollback).
LEMMA RollingBack ==
  ASSUME IInv, NEW p \in Procs, Floor(p) \/ Entry(p) \/ Restore(p) \/ Reinstate(p)
  PROVE  IInv'
<1>1. proc[p] \in ProcRec /\ proc[p].at \in Rolling /\ proc[p].op = "rollback"
  BY DEF IInv, ProcsOK, Floor, Entry, Restore, Reinstate, At, Local, Rolling
<1>2. proc[p].at \notin Opened /\ UNCHANGED <<files, legacy, lock>>
  BY <1>1 DEF Rolling, Opened, Floor, Entry, Restore, Reinstate
<1>3. /\ proc[p].cfg \in Configs /\ proc[p].cfg.channel \in Channels
      /\ cache[proc[p].cfg.channel] \in [bytes : Nat, build : Nat, digest : Nat]
  BY <1>1 DEF ProcRec, Configs, IInv, HostOK
<1>4. HostOK'
  BY <1>3 DEF Floor, Entry, Restore, Reinstate, IInv, HostOK, bounds, host, history
<1>5. CASE Done(p)
  BY <1>2, <1>4, <1>5, Ends
<1>6. ASSUME NEW r \in ProcRec, proc' = [proc EXCEPT ![p] = r], r.at \in Rolling,
             r.op = "rollback"
      PROVE  IInv'
  BY <1>2, <1>4, <1>6, Strolls DEF Editing, Rolling
<1>7. CASE Floor(p) /\ ~Done(p)
  <2>1. LoadConfig \in Configs
    BY <1>7, LoadedIsTyped DEF Floor
  <2>2. LoadMark(LoadConfig.channel) \in Nat
    BY <2>1, MarksAreTyped DEF Configs
  <2> DEFINE r == [proc[p] EXCEPT !.at = "entry", !.cfg = LoadConfig,
                                  !.mark = LoadMark(LoadConfig.channel)]
  <2>3. r \in ProcRec /\ r.at = "entry" /\ r.op = "rollback"
    BY <1>1, <2>1, <2>2 DEF ProcRec, Phases
  <2>4. proc' = [proc EXCEPT ![p] = r]
    BY <1>7 DEF Floor
  <2> HIDE DEF r
  <2> QED
    BY <1>6, <2>3, <2>4 DEF Rolling
<1>8. CASE Entry(p) /\ ~Done(p)
  <2> DEFINE e == cache[proc[p].cfg.channel]
             r == [proc[p] EXCEPT !.at = "restore", !.build = e.build, !.digest = e.digest]
  <2>1. r \in ProcRec /\ r.at = "restore" /\ r.op = "rollback"
    BY <1>1, <1>3 DEF ProcRec, Phases
  <2>2. proc' = [proc EXCEPT ![p] = r]
    BY <1>8 DEF Entry
  <2> HIDE DEF r, e
  <2> QED
    BY <1>6, <2>1, <2>2 DEF Rolling
<1>9. CASE Restore(p) /\ ~Done(p)
  <2> DEFINE r == [proc[p] EXCEPT !.at = "reinstate"]
  <2>1. r \in ProcRec /\ r.at = "reinstate" /\ r.op = "rollback"
    BY <1>1 DEF ProcRec, Phases
  <2>2. proc' = [proc EXCEPT ![p] = r]
    BY <1>9 DEF Restore, Move
  <2> HIDE DEF r
  <2> QED
    BY <1>6, <2>1, <2>2 DEF Rolling
<1> QED
  BY <1>5, <1>7, <1>8, <1>9 DEF Reinstate

\* A step that touches files: what is left is to look at the files.
LEMMA Touches ==
  ASSUME IInv, NEW p \in Procs, NEW r \in ProcRec, proc' = [proc EXCEPT ![p] = r],
         Local(r), HostOK', FilesOK', Handles', Ahead',
         \/ lock' = lock /\ (PassingAt(r) => Passing(p))
         \/ lock' = lock \ {p} /\ ~PassingAt(r)
  PROVE  IInv'
<1>1. proc \in [Procs -> ProcRec] /\ \A q \in Procs : Local(proc[q])
  BY DEF IInv, ProcsOK
<1>2. proc' \in [Procs -> ProcRec] /\ proc'[p] = r /\ \A q \in Procs \ {p} : proc'[q] = proc[q]
  BY <1>1
<1>3. ProcsOK'
  BY <1>1, <1>2 DEF ProcsOK
<1>4. OnePass'
  <2>1. \A q \in Procs \ {p} : Passing(q)' <=> Passing(q)
    BY <1>2 DEF Passing, At
  <2>2. Passing(p)' <=> PassingAt(r)
    BY <1>2 DEF Passing, At, PassingAt
  <2> QED
    BY <2>1, <2>2 DEF IInv, OnePass
<1> QED
  BY <1>3, <1>4 DEF IInv

\* Whoever saves a channel's marks, or carries a release to be saved, is the one
\* running pass.
LEMMA OnlyThePassSaves ==
  ASSUME IInv, NEW p \in Procs, NEW q \in Procs,
         proc[p].at \in Saves /\ proc[p].file \in Channels,
         \/ proc[q].at \in Saves /\ proc[q].file \in Channels
         \/ proc[q].at \in Carrying
  PROVE  p = q
<1>1. Local(proc[p]) /\ Local(proc[q])
  BY DEF IInv, ProcsOK
<1>2. Passing(p) /\ Passing(q)
  BY <1>1 DEF Local, Passing, At, PassPhases, Saves, Carrying
<1> QED
  BY <1>2 DEF IInv, OnePass

\* Where no file changes but under its sibling's name, the marks stay.
LEMMA MarksStay ==
  ASSUME UNCHANGED legacy, \A c \in Channels : files'[c].target = files[c].target
  PROVE  Mark' = Mark
BY DEF Mark, LoadMark, Content

\* File::create truncates the sibling: the writer of a channel is alone at it.
LEMMA Creating == ASSUME IInv, NEW p \in Procs, Create(p) PROVE IInv'
<1> DEFINE x == proc[p].file
           r == [proc[p] EXCEPT !.at = "write"]
<1>1. /\ proc[p] \in ProcRec /\ Local(proc[p]) /\ AheadOf(proc[p], Mark)
      /\ proc[p].at = "create" /\ x \in Files
  BY DEF IInv, ProcsOK, Ahead, Create, At, ProcRec
<1>2. /\ r \in ProcRec /\ r.at = "write" /\ r.op = proc[p].op /\ r.edit = proc[p].edit
      /\ r.file = x /\ r.save = proc[p].save
  BY <1>1 DEF ProcRec, Phases, PassPhases
<1>3. /\ proc' = [proc EXCEPT ![p] = r] /\ lock' = lock /\ UNCHANGED legacy
      /\ files' = [files EXCEPT ![x] = Created(files[x], p)]
  BY DEF Create, Move
<1>4. HostOK'
  BY DEF Create, IInv, HostOK, bounds, host, history
<1>5. /\ files[x] \in FileRec /\ files'[x] = Created(files[x], p)
      /\ \A y \in Files \ {x} : files'[y] = files[y]
      /\ \A q \in Procs \ {p} : proc'[q] = proc[q]
      /\ proc'[p] = r
  BY <1>1, <1>3 DEF IInv, FilesOK, ProcsOK
<1> HIDE DEF r
<1>6. /\ Created(files[x], p) \in FileRec
      /\ files'[x].target = files[x].target /\ files'[x].tmp = Empty
      /\ files'[x].tmpBy = files[x].tmpBy \cup {p}
      /\ files'[x].targetBy = files[x].targetBy \ {p}
  BY <1>5 DEF Created, FileRec, Contents, NoJson
<1>7. FilesOK'
  <2>1. files' \in [Files -> FileRec]
    BY <1>3, <1>6 DEF IInv, FilesOK
  <2> QED
    BY <1>5, <1>6, <2>1, BrokerAssumption DEF IInv, FilesOK, Files, NoJson
<1>8. Local(r) /\ (PassingAt(r) => Passing(p))
  BY <1>1, <1>2 DEF Local, PassingAt, Passing, At, PassPhases, Saves, Carrying, Editing, Rolling
<1>9. Ahead'
  <2>1. Mark' = Mark
    BY <1>3, <1>5, <1>6, MarksStay DEF Files
  <2>2. AheadOf(r, Mark)
    BY <1>1, <1>2 DEF AheadOf, Saves, Carrying
  <2> QED
    BY <1>5, <2>1, <2>2 DEF IInv, Ahead
<1>10. Handles'
  <2> SUFFICES ASSUME NEW c \in Channels, NEW q \in Procs
               PROVE  LET its == proc'[q].at \in Opened /\ proc'[q].file = c IN
                      /\ q \in files'[c].tmpBy <=> its
                      /\ its /\ proc'[q].at = "write" => files'[c].tmp = Empty
                      /\ its /\ proc'[q].at = "rename" => files'[c].tmp = proc'[q].save
    BY DEF Handles
  <2>1. /\ q \in files[c].tmpBy <=> proc[q].at \in Opened /\ proc[q].file = c
        /\ proc[q].at \in Opened /\ proc[q].file = c /\ proc[q].at = "write" => files[c].tmp = Empty
        /\ proc[q].at \in Opened /\ proc[q].file = c /\ proc[q].at = "rename" => files[c].tmp = proc[q].save
    BY DEF IInv, Handles
  <2>2. CASE c # x
    BY <1>1, <1>2, <1>5, <2>1, <2>2 DEF Files, Opened
  <2>3. CASE c = x /\ q = p
    BY <1>2, <1>5, <1>6, <2>3 DEF Opened
  <2>4. CASE c = x /\ q # p
    <3>1. ~(proc[q].at \in Opened /\ proc[q].file = c)
      BY <1>1, <2>4, OnlyThePassSaves DEF Opened, Saves
    <3> QED
      BY <1>5, <1>6, <2>1, <2>4, <3>1
  <2> QED
    BY <2>2, <2>3, <2>4
<1> QED
  BY <1>2, <1>3, <1>4, <1>7, <1>8, <1>9, <1>10, Touches

\* The step of the one process that has a channel's file in hand: what it leaves
\* to be shown of the open handles is about that process and that file.
LEMMA HandlesKept ==
  ASSUME IInv, NEW p \in Procs, NEW x \in Files, proc[p].file = x, proc[p].at \in Saves,
         \A y \in Files \ {x} : files'[y] = files[y],
         \A q \in Procs \ {p} : proc'[q] = proc[q],
         \A q \in Procs \ {p} : q \in files'[x].tmpBy => q \in files[x].tmpBy,
         proc'[p].at \in Opened => proc'[p].file = x,
         x \in Channels => (p \in files'[x].tmpBy <=> proc'[p].at \in Opened),
         x \in Channels /\ proc'[p].at = "write" => files'[x].tmp = Empty,
         x \in Channels /\ proc'[p].at = "rename" => files'[x].tmp = proc'[p].save
  PROVE  Handles'
<1> SUFFICES ASSUME NEW c \in Channels, NEW q \in Procs
             PROVE  LET its == proc'[q].at \in Opened /\ proc'[q].file = c IN
                    /\ q \in files'[c].tmpBy <=> its
                    /\ its /\ proc'[q].at = "write" => files'[c].tmp = Empty
                    /\ its /\ proc'[q].at = "rename" => files'[c].tmp = proc'[q].save
  BY DEF Handles
<1>1. /\ q \in files[c].tmpBy <=> proc[q].at \in Opened /\ proc[q].file = c
      /\ proc[q].at \in Opened /\ proc[q].file = c /\ proc[q].at = "write" => files[c].tmp = Empty
      /\ proc[q].at \in Opened /\ proc[q].file = c /\ proc[q].at = "rename" => files[c].tmp = proc[q].save
  BY DEF IInv, Handles
<1>2. CASE c # x
  BY <1>1, <1>2 DEF Files
<1>3. CASE c = x /\ q = p
  BY <1>3
<1>4. CASE c = x /\ q # p
  <2>1. ~(proc[q].at \in Opened /\ proc[q].file = c)
    BY <1>4, OnlyThePassSaves DEF Opened, Saves
  <2> QED
    BY <1>1, <1>4, <2>1
<1> QED
  BY <1>2, <1>3, <1>4

\* What is saved is never taken for a file that is missing or broken.
LEMMA SavedIsWhole ==
  ASSUME IInv, NEW p \in Procs, proc[p].at \in Saves
  PROVE  /\ proc[p].save \in Contents \ NoJson
         /\ proc[p].file = "config" => proc[p].save \in RawConfigs
         /\ proc[p].file = "status" => proc[p].save \in Configs
         /\ proc[p].file \in Channels => proc[p].save \in Nat
<1>1. proc[p] \in ProcRec /\ Local(proc[p])
  BY DEF IInv, ProcsOK
<1>2. Configs \subseteq RawConfigs
  BY DEF Configs, RawConfigs
<1>3. "config" \notin Channels /\ "status" \notin Channels
  BY BrokerAssumption
<1>4. /\ proc[p].file \notin Channels => proc[p].save \in Configs
      /\ proc[p].file \in Channels => proc[p].save \in Nat
  BY <1>1, BrokerAssumption DEF Local
<1> QED
  BY <1>2, <1>3, <1>4, BrokerAssumption DEF Contents, NoJson

\* What a writer leaves in the sibling of a channel is what it means to save.
LEMMA Writing == ASSUME IInv, NEW p \in Procs, Write(p) PROVE IInv'
<1> DEFINE x == proc[p].file
           r == [proc[p] EXCEPT !.at = "rename"]
           data == proc[p].save
<1>1. /\ proc[p] \in ProcRec /\ Local(proc[p]) /\ AheadOf(proc[p], Mark)
      /\ proc[p].at = "write" /\ x \in Files
  BY DEF IInv, ProcsOK, Ahead, Write, At, ProcRec
<1>2. /\ r \in ProcRec /\ r.at = "rename" /\ r.op = proc[p].op /\ r.edit = proc[p].edit
      /\ r.file = x /\ r.save = data
  BY <1>1 DEF ProcRec, Phases, PassPhases
<1>3. PICK f \in Written(files[x], p, data) : files' = [files EXCEPT ![x] = f]
  BY DEF Write
<1>4. /\ proc' = [proc EXCEPT ![p] = r] /\ lock' = lock /\ UNCHANGED legacy
  BY DEF Write, Move
<1>5. HostOK'
  BY DEF Write, IInv, HostOK, bounds, host, history
<1>6. /\ files[x] \in FileRec /\ files'[x] = f
      /\ \A y \in Files \ {x} : files'[y] = files[y]
      /\ \A q \in Procs \ {p} : proc'[q] = proc[q]
      /\ proc'[p] = r
  BY <1>1, <1>3, <1>4 DEF IInv, FilesOK, ProcsOK
<1> HIDE DEF r, x, data
<1>7. data \in Contents \ NoJson
  BY <1>1, SavedIsWhole DEF data, Saves
<1>8. \/ /\ p \in files[x].tmpBy
         /\ \E c \in Over(files[x].tmp, data) : f = [files[x] EXCEPT !.tmp = c]
      \/ /\ p \notin files[x].tmpBy /\ p \in files[x].targetBy
         /\ \E c \in Over(files[x].target, data) : f = [files[x] EXCEPT !.target = c]
      \/ p \notin files[x].tmpBy /\ p \notin files[x].targetBy /\ f = files[x]
  BY <1>3 DEF Written
<1>9. /\ f \in FileRec /\ f.tmpBy = files[x].tmpBy /\ f.targetBy = files[x].targetBy
      /\ f.tmp \in {files[x].tmp, data, Mixed} /\ f.target \in {files[x].target, data, Mixed}
      /\ f.tmp = Missing => files[x].tmp = Missing
  <2>1. \A old : Over(old, data) \subseteq {data, Mixed} /\ data # Missing /\ Mixed # Missing
    BY <1>7, BrokerAssumption DEF Over, NoJson
  <2> QED
    BY <1>6, <1>7, <1>8, <2>1, BrokerAssumption DEF FileRec, Contents, NoJson
<1>10. x \in Channels => /\ p \in files[x].tmpBy /\ f.tmp = data /\ f.target = files[x].target
                         /\ data \in Nat
  <2> SUFFICES ASSUME x \in Channels PROVE /\ p \in files[x].tmpBy /\ f.tmp = data
                                           /\ f.target = files[x].target /\ data \in Nat
    OBVIOUS
  <2>1. p \in files[x].tmpBy /\ files[x].tmp = Empty
    BY <1>1 DEF IInv, Handles, Opened, x
  <2>2. data \in Nat
    BY <1>1, SavedIsWhole DEF data, x, Saves
  <2> QED
    BY <1>6, <1>8, <2>1, <2>2 DEF Over, FileRec
<1>11. FilesOK'
  <2>1. files' \in [Files -> FileRec]
    BY <1>1, <1>3, <1>9 DEF IInv, FilesOK
  <2>2. /\ x = "config" => data \in RawConfigs
        /\ x = "status" => data \in Configs
    BY <1>1, SavedIsWhole DEF data, x, Saves
  <2>3. "config" \notin Channels /\ "status" \notin Channels
    BY BrokerAssumption
  <2>4. \A c \in Channels : /\ files'[c].target \in Nat \cup {Missing}
                            /\ files'[c].tmp \in Nat \cup NoJson
                            /\ files'[c].targetBy = {}
    BY <1>6, <1>9, <1>10 DEF IInv, FilesOK, Files, NoJson
  <2>5. \A y \in Files : files'[y].tmp = Missing => files'[y].tmpBy = {}
    BY <1>6, <1>9 DEF IInv, FilesOK
  <2>6. /\ {files'["config"].target, files'["config"].tmp} \subseteq RawConfigs \cup NoJson
        /\ {files'["status"].target, files'["status"].tmp} \subseteq Configs \cup NoJson
    BY <1>6, <1>9, <2>2 DEF IInv, FilesOK, Files, NoJson
  <2> QED
    BY <2>1, <2>4, <2>5, <2>6 DEF FilesOK
<1>12. Local(r) /\ (PassingAt(r) => Passing(p))
  BY <1>1, <1>2 DEF x, data, Local, PassingAt, Passing, At, PassPhases, Saves, Carrying, Editing, Rolling
<1>13. Ahead'
  <2>1. Mark' = Mark
    BY <1>4, <1>6, <1>10, MarksStay DEF Files
  <2>2. AheadOf(r, Mark)
    BY <1>1, <1>2 DEF x, data, AheadOf, Saves, Carrying
  <2> QED
    BY <1>6, <2>1, <2>2 DEF IInv, Ahead
<1>14. Handles'
  <2>1. x \in Channels => (p \in files'[x].tmpBy <=> proc'[p].at \in Opened)
    BY <1>2, <1>6, <1>9, <1>10 DEF Opened
  <2> QED
    BY <1>1, <1>2, <1>6, <1>9, <1>10, <2>1, HandlesKept DEF x, Saves, Opened
<1> QED
  BY <1>2, <1>4, <1>5, <1>11, <1>12, <1>13, <1>14, Touches

\* Where a process goes after a save: nowhere it would save or carry marks.
LEMMA GoesOn ==
  ASSUME IInv, NEW p \in Procs, proc[p].at = "rename", GoOn(p) \/ Leave(p)
  PROVE  \E r \in ProcRec :
           /\ proc' = [proc EXCEPT ![p] = r]
           /\ Local(r) /\ r.at \in {"mirror", "follow", "idle"}
           /\ \/ lock' = lock /\ (PassingAt(r) => Passing(p))
              \/ lock' = lock \ {p} /\ ~PassingAt(r)
<1>1. proc[p] \in ProcRec /\ Local(proc[p])
  BY DEF IInv, ProcsOK
<1>2. CASE Leave(p)
  BY <1>2, IdleOK DEF Leave, Done
<1>3. CASE Move(p, "mirror") /\ UNCHANGED lock
  <2> DEFINE r == [proc[p] EXCEPT !.at = "mirror"]
  <2>1. /\ r \in ProcRec /\ r.at = "mirror" /\ r.op = proc[p].op /\ r.edit = proc[p].edit
    BY <1>1 DEF ProcRec, Phases, PassPhases
  <2>2. proc' = [proc EXCEPT ![p] = r]
    BY <1>3 DEF Move
  <2> HIDE DEF r
  <2>3. Local(r)
    BY <1>1, <2>1 DEF Local, Saves, Carrying, Editing, Rolling
  <2>4. PassingAt(r) => Passing(p)
    BY <2>1 DEF PassingAt, Passing, At, PassPhases
  <2> QED
    BY <1>3, <2>1, <2>2, <2>3, <2>4
<1>4. CASE Move(p, "follow") /\ UNCHANGED lock /\ proc[p].op = "edit"
  <2> DEFINE r == [proc[p] EXCEPT !.at = "follow"]
  <2>1. /\ r \in ProcRec /\ r.at = "follow" /\ r.op = "edit" /\ r.edit = proc[p].edit
    BY <1>1, <1>4 DEF ProcRec, Phases
  <2>2. proc' = [proc EXCEPT ![p] = r]
    BY <1>4 DEF Move
  <2> HIDE DEF r
  <2>3. Local(r) /\ ~PassingAt(r)
    BY <1>1, <1>4, <2>1 DEF Local, Saves, Carrying, Editing, Rolling, PassingAt
  <2> QED
    BY <1>4, <2>1, <2>2, <2>3
<1> QED
  BY <1>2, <1>3, <1>4 DEF GoOn

\* After such a step nobody else's hands are changed.
LEMMA AheadStays ==
  ASSUME IInv, NEW p \in Procs, \A q \in Procs \ {p} : proc'[q] = proc[q],
         proc'[p].at \in {"mirror", "follow", "idle"}, Mark' = Mark
  PROVE  Ahead'
<1>1. AheadOf(proc'[p], Mark)
  BY DEF AheadOf, Saves, Carrying
<1> QED
  BY <1>1 DEF IInv, Ahead

\* The rename puts over a channel what its one writer wrote (persist.rs).
LEMMA Renaming == ASSUME IInv, NEW p \in Procs, Rename(p) PROVE IInv'
<1> DEFINE x == proc[p].file
<1>1. /\ proc[p] \in ProcRec /\ Local(proc[p]) /\ AheadOf(proc[p], Mark)
      /\ proc[p].at = "rename" /\ x \in Files
  BY DEF IInv, ProcsOK, Ahead, Rename, At, ProcRec
<1>2. PICK r \in ProcRec :
        /\ proc' = [proc EXCEPT ![p] = r]
        /\ Local(r) /\ r.at \in {"mirror", "follow", "idle"}
        /\ \/ lock' = lock /\ (PassingAt(r) => Passing(p))
           \/ lock' = lock \ {p} /\ ~PassingAt(r)
  BY <1>1, GoesOn DEF Rename
<1>3. /\ files' = [files EXCEPT ![x] = Renamed(files[x], p)] /\ UNCHANGED legacy
      /\ files[x].tmp # Missing
  BY DEF Rename, CanRename
<1>4. HostOK'
  <2>1. proc[p].cfg \in Configs
    BY <1>1 DEF ProcRec
  <2> QED
    BY <2>1 DEF Rename, IInv, HostOK, bounds, host, history
<1>5. /\ files[x] \in FileRec /\ files'[x] = Renamed(files[x], p)
      /\ \A y \in Files \ {x} : files'[y] = files[y]
      /\ \A q \in Procs \ {p} : proc'[q] = proc[q]
      /\ proc'[p] = r
  BY <1>1, <1>2, <1>3 DEF IInv, FilesOK, ProcsOK
<1> HIDE DEF x
<1>6. /\ files'[x] \in FileRec /\ files'[x].target = files[x].tmp /\ files'[x].tmp = Missing
      /\ files'[x].tmpBy = {} /\ files'[x].targetBy = files[x].tmpBy \ {p}
  BY <1>5 DEF Renamed, FileRec, Contents, NoJson
<1>7. x \in Channels => /\ files[x].tmp = proc[p].save /\ proc[p].save \in Nat
                        /\ files[x].tmpBy \subseteq {p}
  <2> SUFFICES ASSUME x \in Channels
               PROVE  /\ files[x].tmp = proc[p].save /\ proc[p].save \in Nat
                      /\ files[x].tmpBy \subseteq {p}
    OBVIOUS
  <2>1. files[x].tmp = proc[p].save
    BY <1>1 DEF IInv, Handles, Opened, x
  <2>2. proc[p].save \in Nat
    BY <1>1, SavedIsWhole DEF x, Saves
  <2>3. ASSUME NEW q \in files[x].tmpBy PROVE q = p
    <3>1. q \in Procs
      BY <1>5 DEF FileRec
    <3>2. proc[q].at \in Opened /\ proc[q].file = x
      BY <3>1 DEF IInv, Handles
    <3> QED
      BY <1>1, <3>1, <3>2, OnlyThePassSaves DEF x, Saves, Opened
  <2> QED
    BY <2>1, <2>2, <2>3
<1>8. FilesOK'
  <2>1. files' \in [Files -> FileRec]
    BY <1>1, <1>3, <1>5, <1>6 DEF IInv, FilesOK
  <2>2. \A c \in Channels : /\ files'[c].target \in Nat \cup {Missing}
                            /\ files'[c].tmp \in Nat \cup NoJson
                            /\ files'[c].targetBy = {}
    BY <1>5, <1>6, <1>7 DEF IInv, FilesOK, Files, NoJson
  <2>3. \A y \in Files : files'[y].tmp = Missing => files'[y].tmpBy = {}
    BY <1>5, <1>6 DEF IInv, FilesOK
  <2>4. /\ {files'["config"].target, files'["config"].tmp} \subseteq RawConfigs \cup NoJson
        /\ {files'["status"].target, files'["status"].tmp} \subseteq Configs \cup NoJson
    BY <1>5, <1>6 DEF IInv, FilesOK, Files, NoJson
  <2> QED
    BY <2>1, <2>2, <2>3, <2>4 DEF FilesOK
<1>9. Ahead'
  <2>1. CASE x \in Channels
    <3>1. \A q \in Procs : /\ ~(proc'[q].at \in Saves /\ proc'[q].file \in Channels)
                           /\ proc'[q].at \notin Carrying
      <4>1. \A q \in Procs \ {p} : /\ ~(proc[q].at \in Saves /\ proc[q].file \in Channels)
                                   /\ proc[q].at \notin Carrying
        BY <1>1, <2>1, OnlyThePassSaves DEF x, Saves
      <4> QED
        BY <1>2, <1>5, <4>1 DEF Saves, Carrying
    <3> QED
      BY <3>1 DEF Ahead, AheadOf
  <2>2. CASE x \notin Channels
    <3>1. Mark' = Mark
      BY <1>3, <1>5, <2>2, MarksStay DEF Files
    <3> QED
      BY <1>2, <1>5, <3>1, AheadStays
  <2> QED
    BY <2>1, <2>2
<1>10. Handles'
  BY <1>1, <1>2, <1>5, <1>6, HandlesKept DEF x, Saves, Opened
<1> QED
  BY <1>2, <1>4, <1>8, <1>9, <1>10, Touches

\* Closing files leaves what is in them, and takes nobody else's handle.
LEMMA Closes ==
  ASSUME IInv, NEW p \in Procs, NEW some \in SUBSET Files,
         files' = [y \in Files |-> IF y \in some THEN Closed(files[y], p) ELSE files[y]],
         UNCHANGED legacy
  PROVE  /\ FilesOK' /\ Mark' = Mark
         /\ \A y \in Files : /\ files'[y].tmp = files[y].tmp
                             /\ files'[y].tmpBy \in {files[y].tmpBy, files[y].tmpBy \ {p}}
                             /\ y \in some => files'[y].tmpBy = files[y].tmpBy \ {p}
<1>1. \A y \in Files : files[y] \in FileRec
  BY DEF IInv, FilesOK
<1>2. \A y \in Files : /\ files'[y] \in FileRec
                       /\ files'[y].target = files[y].target /\ files'[y].tmp = files[y].tmp
                       /\ files'[y].tmpBy \in {files[y].tmpBy, files[y].tmpBy \ {p}}
                       /\ files'[y].targetBy \in {files[y].targetBy, files[y].targetBy \ {p}}
                       /\ y \in some => files'[y].tmpBy = files[y].tmpBy \ {p}
  BY <1>1 DEF Closed, FileRec
<1>3. files' \in [Files -> FileRec]
  BY <1>2
<1>4. Mark' = Mark
  BY <1>2, MarksStay DEF Files
<1>5. FilesOK'
  <2>1. \A y \in Files : files'[y].tmp = Missing => files'[y].tmpBy = {}
    BY <1>2 DEF IInv, FilesOK
  <2>2. \A c \in Channels : /\ files'[c].target \in Nat \cup {Missing}
                            /\ files'[c].tmp \in Nat \cup NoJson
                            /\ files'[c].targetBy = {}
    BY <1>2 DEF IInv, FilesOK, Files
  <2>3. /\ {files'["config"].target, files'["config"].tmp} \subseteq RawConfigs \cup NoJson
        /\ {files'["status"].target, files'["status"].tmp} \subseteq Configs \cup NoJson
    <3>1. \A y \in {"config", "status"} : /\ files'[y].target = files[y].target
                                          /\ files'[y].tmp = files[y].tmp
      BY <1>2 DEF Files
    <3> QED
      BY <3>1 DEF IInv, FilesOK
  <2> QED
    BY <1>3, <2>1, <2>2, <2>3 DEF FilesOK
<1> QED
  BY <1>2, <1>4, <1>5

\* A rename that fails leaves the target alone.
LEMMA RenameFailing == ASSUME IInv, NEW p \in Procs, RenameFails(p) PROVE IInv'
<1> DEFINE x == proc[p].file
<1>1. proc[p] \in ProcRec /\ Local(proc[p]) /\ proc[p].at = "rename" /\ x \in Files
  BY DEF IInv, ProcsOK, RenameFails, At, ProcRec
<1>2. PICK r \in ProcRec :
        /\ proc' = [proc EXCEPT ![p] = r]
        /\ Local(r) /\ r.at \in {"mirror", "follow", "idle"}
        /\ \/ lock' = lock /\ (PassingAt(r) => Passing(p))
           \/ lock' = lock \ {p} /\ ~PassingAt(r)
  BY <1>1, GoesOn DEF RenameFails
<1>3. files' = [files EXCEPT ![x] = Closed(files[x], p)] /\ UNCHANGED legacy
  BY DEF RenameFails
<1>4. HostOK'
  BY DEF RenameFails, IInv, HostOK, bounds, host, history
<1>5. /\ \A q \in Procs \ {p} : proc'[q] = proc[q]
      /\ proc'[p] = r
  BY <1>2 DEF IInv, ProcsOK
<1> HIDE DEF x
<1>6. files' = [y \in Files |-> IF y \in {x} THEN Closed(files[y], p) ELSE files[y]]
  BY <1>1, <1>3 DEF IInv, FilesOK
<1>7. /\ FilesOK' /\ Mark' = Mark
      /\ files'[x].tmpBy = files[x].tmpBy \ {p}
      /\ \A y \in Files \ {x} : files'[y] = files[y]
  <2>1. {x} \in SUBSET Files
    BY <1>1
  <2> QED
    BY <1>1, <1>3, <1>6, <2>1, Closes
<1>8. Ahead'
  BY <1>2, <1>5, <1>7, AheadStays
<1>9. Handles'
  BY <1>1, <1>2, <1>5, <1>7, HandlesKept DEF x, Saves, Opened
<1> QED
  BY <1>2, <1>4, <1>7, <1>8, <1>9, Touches

\* A kill at any step closes what was open and leaves the files as they are.
LEMMA Quitting == ASSUME IInv, NEW p \in Procs, Quit(p) PROVE IInv'
<1>1. /\ proc' = [proc EXCEPT ![p] = Idle] /\ lock' = lock \ {p} /\ UNCHANGED legacy
      /\ files' = [y \in DOMAIN files |-> Closed(files[y], p)]
  BY DEF Quit, Leave, Done
<1>2. HostOK'
  BY BrokerAssumption DEF Quit, IInv, HostOK, host, history
<1>3. /\ \A q \in Procs \ {p} : proc'[q] = proc[q]
      /\ proc'[p] = Idle
  BY <1>1 DEF IInv, ProcsOK
<1>4. files' = [y \in Files |-> IF y \in Files THEN Closed(files[y], p) ELSE files[y]]
  BY <1>1 DEF IInv, FilesOK
<1>5. /\ FilesOK' /\ Mark' = Mark
      /\ \A y \in Files : /\ files'[y].tmp = files[y].tmp
                          /\ files'[y].tmpBy = files[y].tmpBy \ {p}
  BY <1>1, <1>4, Closes
<1>6. Ahead'
  BY <1>3, <1>5, IdleOK, AheadStays
<1>7. Handles'
  BY <1>3, <1>5, IdleOK DEF Handles, IInv, Opened, Files
<1> QED
  BY <1>1, <1>2, <1>5, <1>6, <1>7, IdleOK, Touches

\* The passage of the deadline of a snooze, and steps of nobody.
LEMMA Standing ==
  ASSUME IInv, Lapse \/ UNCHANGED vars PROVE IInv'
<1>1. UNCHANGED <<files, legacy, lock, proc>> /\ HostOK'
  BY DEF Lapse, vars, IInv, HostOK, bounds, host, history
<1>2. FilesOK' /\ ProcsOK' /\ OnePass' /\ Handles'
  BY <1>1 DEF IInv, FilesOK, ProcsOK, OnePass, Passing, At, Handles
<1>3. Mark' = Mark
  BY <1>1 DEF Mark, LoadMark, Content
<1>4. Ahead'
  BY <1>1, <1>3 DEF IInv, Ahead
<1> QED
  BY <1>1, <1>2, <1>4 DEF IInv

\* The invariant is inductive: one lemma above per group of actions.
LEMMA Inductive == IInv /\ [Next]_vars => IInv'
<1> SUFFICES ASSUME IInv, [Next]_vars PROVE IInv'
  OBVIOUS
<1>1. ASSUME NEW p \in Procs, Step(p) PROVE IInv'
  BY <1>1, Locking, Gating, Fetching, Applying, Creating, Writing, Renaming, RenameFailing,
     Mirroring, DryChecking, Configuring, RollingBack DEF Step
<1>2. Daemon \in Procs
  BY DEF Procs
<1> QED
  BY <1>1, <1>2, Commands, Quitting, Standing DEF Next

\* TypeOK holds in every reachable state: the processes, the files and their
\* siblings, the lock and the cache keep the shapes Broker gives them.
THEOREM Typed == Spec => []TypeOK
<1>1. IInv /\ [Next]_vars => IInv'
  BY Inductive
<1> QED
  BY Initially, <1>1, Implied, PTL DEF Spec

\* Which steps move a mark: the rename of that channel's file, and only that.
LEMMA OnlyARenameMoves ==
  ASSUME IInv, [Next]_vars
  PROVE  \/ Mark' = Mark
         \/ \E p \in Procs : Rename(p) /\ proc[p].file \in Channels
<1>1. CASE UNCHANGED <<files, legacy>>
  BY <1>1 DEF Mark, LoadMark, Content
<1>2. CASE \E p \in Procs : Create(p)
  <2>1. PICK p \in Procs : Create(p)
    BY <1>2
  <2>2. \A c \in Channels : files'[c].target = files[c].target
    BY <2>1 DEF Create, Created, IInv, FilesOK, Files, FileRec
  <2> QED
    BY <2>1, <2>2, MarksStay DEF Create
<1>3. CASE \E p \in Procs : Write(p)
  <2>1. PICK p \in Procs : Write(p)
    BY <1>3
  <2>2. PICK f \in Written(files[proc[p].file], p, proc[p].save) :
          files' = [files EXCEPT ![proc[p].file] = f]
    BY <2>1 DEF Write
  <2>3. ASSUME NEW c \in Channels PROVE files'[c].target = files[c].target
    <3>1. CASE c # proc[p].file
      BY <2>2, <3>1 DEF IInv, FilesOK, Files
    <3>2. CASE c = proc[p].file
      <4>1. p \in files[c].tmpBy /\ files[c] \in FileRec
        BY <2>1, <3>2 DEF Write, At, IInv, Handles, Opened, FilesOK, Files
      <4> QED
        BY <2>2, <3>2, <4>1 DEF Written, IInv, FilesOK, Files, FileRec
    <3> QED
      BY <3>1, <3>2
  <2> QED
    BY <2>1, <2>3, MarksStay DEF Write
<1>4. CASE \E p \in Procs : Rename(p)
  <2>1. PICK p \in Procs : Rename(p)
    BY <1>4
  <2>2. CASE proc[p].file \notin Channels
    <3>1. \A c \in Channels : files'[c].target = files[c].target
      BY <2>1, <2>2 DEF Rename, IInv, FilesOK, Files
    <3> QED
      BY <2>1, <3>1, MarksStay DEF Rename
  <2> QED
    BY <2>1, <2>2
<1>5. CASE \E p \in Procs : RenameFails(p) \/ Quit(p)
  <2>1. PICK p \in Procs : RenameFails(p) \/ Quit(p)
    BY <1>5
  <2>2. \A c \in Channels : files'[c].target = files[c].target
    <3>1. \A y \in Files : files[y] \in FileRec
      BY DEF IInv, FilesOK
    <3>2. \A y \in Files : Closed(files[y], p).target = files[y].target
      BY <3>1 DEF Closed, FileRec
    <3>3. CASE RenameFails(p)
      BY <3>2, <3>3 DEF RenameFails, IInv, FilesOK, Files
    <3>4. CASE Quit(p)
      BY <3>2, <3>4 DEF Quit, IInv, FilesOK, Files
    <3> QED
      BY <2>1, <3>3, <3>4
  <2> QED
    BY <2>1, <2>2, MarksStay DEF RenameFails, Quit
<1>6. \/ UNCHANGED <<files, legacy>>
      \/ \E p \in Procs : Create(p) \/ Write(p) \/ Rename(p) \/ RenameFails(p) \/ Quit(p)
  <2>1. ASSUME NEW p \in Procs, Step(p)
        PROVE  \/ UNCHANGED <<files, legacy>>
               \/ Create(p) \/ Write(p) \/ Rename(p) \/ RenameFails(p)
    BY <2>1 DEF Step, Acquire, Refused, CloseHandle, Gate, Fetch, Snapshot, Record, Place,
                Mirror, Look, Before, Load, Follow, Add, Floor, Entry, Restore, Reinstate
  <2> QED
    BY <2>1 DEF Next, Command, Wake, Lapse, vars
<1> QED
  BY <1>1, <1>2, <1>3, <1>4, <1>5, <1>6

\* Broker implements ChannelMarks: whatever passes, commands, kills and channel
\* switches do to one another, the mark a pass reads for a channel only ever
\* moves, whole, to a release of that channel that is not older.
THEOREM Refinement == Spec => MarksOnlyAdvance
<1>1. Init => Marks!Init
  <2> SUFFICES ASSUME Init PROVE Marks!Init
    OBVIOUS
  <2>1. \A c \in Channels : LoadMark(c) \in Nat
    BY Initially, MarksAreTyped
  <2> QED
    BY <2>1 DEF Marks!Init
<1>2. IInv /\ [Next]_vars => [Marks!Next]_([c \in Channels |-> LoadMark(c)])
  <2> SUFFICES ASSUME IInv, [Next]_vars, Mark' # Mark PROVE Marks!Next
    BY DEF Mark
  <2>1. PICK p \in Procs : Rename(p) /\ proc[p].file \in Channels
    BY OnlyARenameMoves
  <2> DEFINE x == proc[p].file
             save == proc[p].save
  <2>2. /\ proc[p] \in ProcRec /\ Local(proc[p]) /\ AheadOf(proc[p], Mark)
        /\ proc[p].at = "rename"
    BY <2>1 DEF IInv, ProcsOK, Ahead, Rename, At
  <2>3. save \in Offers[x] /\ save >= Mark[x] /\ Mark[x] = LoadMark(x)
    BY <2>1, <2>2 DEF Local, AheadOf, Saves, Mark
  <2>4. files[x].tmp = save /\ save # Missing
    <3>1. save \in Contents \ NoJson
      BY <2>2, SavedIsWhole DEF Saves
    <3> QED
      BY <2>1, <2>2, <3>1 DEF IInv, Handles, Opened, NoJson
  <2>5. /\ files'[x].target = save
        /\ \A c \in Channels \ {x} : files'[c] = files[c]
        /\ UNCHANGED legacy
    BY <2>1, <2>4 DEF Rename, Renamed, IInv, FilesOK, Files
  <2>6. \A c \in Channels : LoadMark(c)' = IF c = x THEN save ELSE LoadMark(c)
    BY <2>4, <2>5 DEF LoadMark, Content
  <2>7. Mark' = [Mark EXCEPT ![x] = save]
    BY <2>6 DEF Mark
  <2> QED
    BY <2>1, <2>3, <2>7 DEF Marks!Next, Marks!Advance, Mark
<1>3. IInv /\ [Next]_vars => IInv'
  BY Inductive
<1> QED
  BY Initially, <1>1, <1>2, <1>3, PTL DEF Spec, MarksOnlyAdvance, Marks!Spec

-----------------------------------------------------------------------------
(* The configuration that was acknowledged.                                   *)

Editor(p) == proc[p].op = "edit"
InConfig(p) == proc[p].at \in Opened /\ proc[p].file = "config"
TheConfig == files["config"]

\* What was acknowledged is what a pass would load, and nobody can write into it
\* any more; only editors have the file or its sibling open; and an editor that
\* has been alone is alone now, and finds in the sibling what it wrote.
WordInv ==
  /\ word # Missing => ~ConfigBroken /\ LoadConfig = word /\ TheConfig.targetBy = {}
  /\ \A p \in Procs : p \in TheConfig.tmpBy \cup TheConfig.targetBy => Editor(p) /\ InConfig(p)
  /\ \A p \in Procs : proc[p].at \in Saves /\ proc[p].file = "config" =>
                        Editor(p) /\ proc[p].save = proc[p].cfg
  /\ \A p, q \in Procs : Editor(p) /\ Editor(q) /\ proc[p].alone => p = q
  /\ \A p \in Procs : Editor(p) /\ proc[p].alone /\ InConfig(p) =>
       /\ p \in TheConfig.tmpBy
       /\ TheConfig.tmp = IF proc[p].at = "write" THEN Empty ELSE proc[p].save

\* q's record is what it was, but that it may have ceased to be alone.
Alike(q) ==
  /\ proc'[q].op = proc[q].op /\ proc'[q].at = proc[q].at /\ proc'[q].file = proc[q].file
  /\ proc'[q].save = proc[q].save /\ proc'[q].cfg = proc[q].cfg
  /\ proc'[q].alone => proc[q].alone \/ ~Editor(q)

\* Nobody becomes alone who was not, and nobody begins to edit unnoticed.
NoneJoins(p) ==
  \A q, r \in Procs : Editor(q)' /\ Editor(r)' /\ proc'[q].alone /\ q # r =>
                        Editor(q) /\ Editor(r) /\ proc[q].alone

\* A step of p that leaves the configuration's file alone.
LEMMA WordStays ==
  ASSUME WordInv, NEW p \in Procs, UNCHANGED <<TheConfig, word>>, NoneJoins(p),
         \A q \in Procs \ {p} : Alike(q),
         ~InConfig(p), ~InConfig(p)',
         proc'[p].at \in Saves /\ proc'[p].file = "config" =>
           Editor(p)' /\ proc'[p].save = proc'[p].cfg
  PROVE  WordInv'
<1>1. ConfigBroken' = ConfigBroken /\ LoadConfig' = LoadConfig
  BY DEF ConfigBroken, LoadConfig, Content, TheConfig
<1>2. \A q \in Procs : q \in TheConfig.tmpBy \cup TheConfig.targetBy
                        => Editor(q)' /\ InConfig(q)'
  BY DEF WordInv, Alike, Editor, InConfig
<1>3. \A q, r \in Procs : Editor(q)' /\ Editor(r)' /\ proc'[q].alone => q = r
  BY DEF WordInv, NoneJoins
<1>4. ASSUME NEW q \in Procs, Editor(q)', proc'[q].alone, InConfig(q)'
      PROVE  /\ q \in TheConfig.tmpBy
             /\ TheConfig.tmp = IF proc'[q].at = "write" THEN Empty ELSE proc'[q].save
  <2>1. q # p /\ Alike(q)
    BY <1>4
  <2> QED  BY <1>4, <2>1 DEF WordInv, Alike, Editor, InConfig
<1>5. \A q \in Procs : proc'[q].at \in Saves /\ proc'[q].file = "config" =>
                         Editor(q)' /\ proc'[q].save = proc'[q].cfg
  BY DEF WordInv, Alike, Editor
<1> QED  BY <1>1, <1>2, <1>3, <1>4, <1>5 DEF WordInv

\* One record is put in the place of another, by a process that has not the
\* configuration open and is not about to save it.
LEMMA WordSteps ==
  ASSUME IInv, WordInv, NEW p \in Procs, NEW r, proc' = [proc EXCEPT ![p] = r],
         UNCHANGED <<TheConfig, word>>, ~InConfig(p),
         r.op \in {proc[p].op, "none"}, r.op = "edit" => r.alone = proc[p].alone,
         r.at \notin Saves \/ r.file # "config"
  PROVE  WordInv'
<1>1. \A q \in Procs : proc'[q] = IF q = p THEN r ELSE proc[q]
  BY DEF IInv, ProcsOK
<1>2. NoneJoins(p) /\ \A q \in Procs \ {p} : Alike(q)
  BY <1>1 DEF NoneJoins, Alike, Editor
<1>3. ~InConfig(p)'
  BY <1>1 DEF InConfig, Opened, Saves
<1> QED  BY <1>1, <1>2, <1>3, WordStays

LEMMA WordEnds ==
  ASSUME IInv, WordInv, NEW p \in Procs, Done(p), UNCHANGED <<TheConfig, word>>, ~InConfig(p)
  PROVE  WordInv'
BY IdleOK, WordSteps DEF Done, Saves

LEMMA WordMoves ==
  ASSUME IInv, WordInv, NEW p \in Procs, NEW phase, phase \notin Saves, Move(p, phase),
         UNCHANGED <<TheConfig, word>>, ~InConfig(p)
  PROVE  WordInv'
<1> DEFINE r == [proc[p] EXCEPT !.at = phase]
<1>1. proc[p] \in ProcRec
  BY DEF IInv, ProcsOK
<1>2. r.op = proc[p].op /\ r.alone = proc[p].alone /\ r.at = phase
  BY <1>1 DEF ProcRec
<1>3. proc' = [proc EXCEPT ![p] = r]
  BY DEF Move
<1> HIDE DEF r
<1> QED  BY <1>2, <1>3, WordSteps

\* Two commands under way together are not alone, neither of them.
LEMMA WordBegins ==
  ASSUME IInv, WordInv, NEW p \in Procs, NEW op, NEW edit, NEW first, first \notin Saves,
         At(p, "idle"), Begin(p, op, edit, first), UNCHANGED <<files, word>>
  PROVE  WordInv'
<1> DEFINE rivals == IF op # "edit" THEN {} ELSE {q \in Procs \ {p} : Editor(q)}
           r == [Idle EXCEPT !.op = op, !.at = first, !.edit = edit, !.alone = rivals = {}]
<1>1. proc \in [Procs -> ProcRec]
  BY DEF IInv, ProcsOK
<1>2. \A q \in Procs : proc'[q] = IF q = p THEN r
                                  ELSE IF q \in rivals THEN [proc[q] EXCEPT !.alone = FALSE]
                                  ELSE proc[q]
  BY DEF Begin, Editor
<1>3. /\ proc'[p].op = op /\ proc'[p].at = first /\ proc'[p].alone = (rivals = {})
  BY <1>2 DEF Idle
<1>4. ASSUME NEW q \in Procs \ {p}
      PROVE  Alike(q) /\ (q \in rivals => ~proc'[q].alone)
  <2> HIDE DEF rivals, r
  <2>1. CASE q \in rivals
    <3>1. proc'[q] = [proc[q] EXCEPT !.alone = FALSE] /\ proc[q] \in ProcRec
      BY <1>1, <1>2, <2>1
    <3> QED  BY <3>1 DEF Alike, ProcRec
  <2>2. CASE q \notin rivals
    BY <1>2, <2>2 DEF Alike
  <2> QED  BY <2>1, <2>2
<1>5. NoneJoins(p)
  <2> SUFFICES ASSUME NEW q \in Procs, NEW s \in Procs, Editor(q)', Editor(s)',
                      proc'[q].alone, q # s
               PROVE  Editor(q) /\ Editor(s) /\ proc[q].alone
    BY DEF NoneJoins
  <2>1. CASE q # p /\ s # p
    BY <1>4, <2>1 DEF Alike, Editor
  <2>2. CASE q = p \/ s = p
    <3>1. op = "edit"
      BY <1>3, <2>2 DEF Editor
    <3>2. q # p => q \in rivals
      BY <1>4, <3>1 DEF Alike, Editor
    <3>3. s # p => s \in rivals
      BY <1>4, <3>1 DEF Alike, Editor
    <3> QED  BY <1>3, <1>4, <2>2, <3>2, <3>3
  <2> QED  BY <2>1, <2>2
<1>6. ~InConfig(p) /\ ~InConfig(p)' /\ UNCHANGED TheConfig
  BY <1>3 DEF InConfig, At, Opened, Saves, TheConfig
<1> HIDE DEF rivals, r
<1> QED  BY <1>3, <1>4, <1>5, <1>6, WordStays

\* The commands typed and the daily wake.
LEMMA WordCommands ==
  ASSUME IInv, WordInv, NEW p \in Procs, Command(p) \/ Wake PROVE WordInv'
<1>1. CASE Command(p)
  <2>1. \A op \in Others : First[op] \notin Saves
    BY BrokerAssumption DEF First, Saves
  <2> QED  BY <1>1, <2>1, WordBegins DEF Command, Saves, history
<1>2. CASE Wake
  <2>1. Daemon \in Procs
    BY DEF Procs
  <2> QED  BY <1>2, <2>1, WordBegins DEF Wake, Saves, history
<1> QED  BY <1>1, <1>2

\* The steps that have nothing to do with a file.
LEMMA WordAside ==
  ASSUME IInv, WordInv, NEW p \in Procs,
         \/ Acquire(p) \/ Refused(p) \/ CloseHandle(p) \/ Gate(p) \/ Fetch(p)
         \/ Snapshot(p) \/ Record(p) \/ Place(p) \/ Mirror(p)
         \/ Look(p) \/ Before(p) \/ Load(p) \/ Follow(p) \/ Add(p)
         \/ Floor(p) \/ Entry(p) \/ Restore(p) \/ Reinstate(p)
  PROVE  WordInv'
<1>1. UNCHANGED <<TheConfig, word>>
  BY DEF TheConfig, Acquire, Refused, CloseHandle, Gate, Fetch, Snapshot, Record, Place, Mirror,
         Look, Before, Load, Follow, Add, Floor, Entry, Restore, Reinstate, history
<1>2. ~InConfig(p)
  BY DEF InConfig, Opened, At, Acquire, Refused, CloseHandle, Gate, Fetch, Snapshot, Record,
         Place, Mirror, Look, Before, Load, Follow, Add, Floor, Entry, Restore, Reinstate
<1>3. proc[p] \in ProcRec /\ Local(proc[p])
  BY DEF IInv, ProcsOK
<1>4. CASE Done(p)
  BY <1>1, <1>2, <1>4, WordEnds
<1>5. ASSUME NEW phase, phase \notin Saves, Move(p, phase) PROVE WordInv'
  BY <1>1, <1>2, <1>5, WordMoves
<1>6. ASSUME NEW r, proc' = [proc EXCEPT ![p] = r],
             r.op = proc[p].op, r.alone = proc[p].alone, r.at \notin Saves \/ r.file # "config"
      PROVE  WordInv'
  BY <1>1, <1>2, <1>6, WordSteps
<1>7. ASSUME NEW file, NEW data, file # "config", proc' = Saving(p, file, data) PROVE WordInv'
  <2> DEFINE r == [proc[p] EXCEPT !.at = "create", !.file = file, !.save = data,
                     !.release = None, !.mark = None, !.build = None, !.digest = None]
  <2>1. r.op = proc[p].op /\ r.alone = proc[p].alone /\ r.file = file
    BY <1>3 DEF ProcRec
  <2>2. proc' = [proc EXCEPT ![p] = r]
    BY <1>7 DEF Saving
  <2> HIDE DEF r
  <2> QED  BY <1>6, <1>7, <2>1, <2>2
<1>8. CASE Gate(p)
  <2> DEFINE r == [proc[p] EXCEPT !.cfg = LoadConfig,
                                  !.at = IF IsPaused(LoadConfig) THEN "mirror" ELSE "fetch"]
  <2>1. r.op = proc[p].op /\ r.alone = proc[p].alone /\ r.at \notin Saves
    BY <1>3 DEF ProcRec, Saves
  <2>2. Done(p) \/ proc' = [proc EXCEPT ![p] = r]
    BY <1>8 DEF Gate, Leave
  <2> HIDE DEF r
  <2> QED  BY <1>4, <1>6, <2>1, <2>2
<1>9. proc[p].cfg.channel # "config"
  BY <1>3, BrokerAssumption DEF ProcRec, Configs
<1>10. CASE Fetch(p)
  <2> DEFINE R(s) == [proc[p] EXCEPT !.at = IF installed = None THEN "place" ELSE "snapshot",
                                     !.release = s, !.build = installed]
  <2>1. ASSUME NEW s PROVE R(s).op = proc[p].op /\ R(s).alone = proc[p].alone /\ R(s).at \notin Saves
    BY <1>3 DEF ProcRec, Saves
  <2>2. \/ Done(p) \/ Move(p, "mirror")
        \/ \E s : proc' = Saving(p, proc[p].cfg.channel, s)
        \/ \E s : proc' = [proc EXCEPT ![p] = R(s)]
    BY <1>10 DEF Fetch, Leave
  <2> HIDE DEF R
  <2> QED  BY <1>4, <1>5, <1>6, <1>7, <1>9, <2>1, <2>2 DEF Saves
<1>11. CASE Snapshot(p) \/ Before(p) \/ Entry(p)
  <2> DEFINE e == cache[proc[p].cfg.channel]
             s == Content("status")
             w == IF Unreadable(s) THEN Missing ELSE IF s = Missing THEN Default ELSE s.channel
             r1 == [proc[p] EXCEPT !.at = "record", !.digest = installed]
             r2 == [proc[p] EXCEPT !.at = "load", !.was = w]
             r3 == [proc[p] EXCEPT !.at = "restore", !.build = e.build, !.digest = e.digest]
  <2>1. \A r \in {r1, r2, r3} : r.op = proc[p].op /\ r.alone = proc[p].alone /\ r.at \notin Saves
    BY <1>3, ZenonT(60) DEF ProcRec, Saves
  <2>2. Done(p) \/ \E r \in {r1, r2, r3} : proc' = [proc EXCEPT ![p] = r]
    BY <1>11 DEF Snapshot, Before, Entry
  <2> HIDE DEF r1, r2, r3
  <2> QED  BY <1>4, <1>6, <2>1, <2>2
<1>12. CASE Look(p) \/ Floor(p)
  <2> DEFINE c == IF ConfigBroken THEN Fresh ELSE LoadConfig
             r1 == [proc[p] EXCEPT !.at = "mirror", !.cfg = c]
             r2 == [proc[p] EXCEPT !.at = "entry", !.cfg = LoadConfig,
                                   !.mark = LoadMark(LoadConfig.channel)]
  <2>1. \A r \in {r1, r2} : r.op = proc[p].op /\ r.alone = proc[p].alone /\ r.at \notin Saves
    BY <1>3 DEF ProcRec, Saves
  <2>2. Done(p) \/ \E r \in {r1, r2} : proc' = [proc EXCEPT ![p] = r]
    BY <1>12 DEF Look, Floor
  <2> HIDE DEF r1, r2
  <2> QED  BY <1>4, <1>6, <2>1, <2>2
<1>13. CASE Load(p)
  <2>1. CASE ConfigBroken
    BY <1>4, <1>13, <2>1 DEF Load
  <2>2. CASE ~ConfigBroken
    <3> DEFINE c == Edited(LoadConfig, proc[p].edit)
               r == [proc[p] EXCEPT !.at = "create", !.file = "config", !.save = c, !.cfg = c,
                       !.release = None, !.mark = None, !.build = None, !.digest = None]
    <3>1. proc' = [Saving(p, "config", c) EXCEPT ![p].cfg = c] /\ proc[p].op = "edit"
      BY <1>3, <1>13, <2>2 DEF Load, At, Local, Editing
    <3>2. proc' = [proc EXCEPT ![p] = r]
      BY <1>3, <3>1 DEF Saving, ProcRec, IInv, ProcsOK
    <3>3. /\ r.op = "edit" /\ r.alone = proc[p].alone /\ r.at = "create"
          /\ r.save = c /\ r.cfg = c
      BY <1>3, <3>1 DEF ProcRec
    <3> HIDE DEF r, c
    <3>4. \A q \in Procs : proc'[q] = IF q = p THEN r ELSE proc[q]
      BY <3>2 DEF IInv, ProcsOK
    <3>5. NoneJoins(p) /\ \A q \in Procs \ {p} : Alike(q)
      BY <3>1, <3>3, <3>4 DEF NoneJoins, Alike, Editor
    <3>6. ~InConfig(p)'
      BY <3>3, <3>4 DEF InConfig, Opened
    <3> QED  BY <1>1, <1>2, <3>3, <3>4, <3>5, <3>6, WordStays DEF Editor
  <2> QED  BY <2>1, <2>2
<1>14. CASE Place(p) \/ Mirror(p)
  BY <1>5, <1>7, <1>9, <1>14 DEF Place, Mirror, Saves
<1>15. CASE \/ Acquire(p) \/ Refused(p) \/ CloseHandle(p) \/ Record(p)
            \/ Follow(p) \/ Add(p) \/ Restore(p) \/ Reinstate(p)
  <2>1. Done(p) \/ \E phase \in {"gate", "close", "place", "add", "reinstate"} : Move(p, phase)
    BY <1>15 DEF Acquire, Refused, CloseHandle, Leave, Record, Follow, Add, Restore, Reinstate
  <2> QED  BY <1>4, <1>5, <2>1 DEF Saves
<1> QED  BY <1>8, <1>10, <1>11, <1>12, <1>13, <1>14, <1>15

\* Whoever has a file open that is not the configuration does not touch it.
LEMMA WordElsewhere ==
  ASSUME IInv, WordInv, NEW p \in Procs, ~InConfig(p), UNCHANGED <<TheConfig, word>>,
         \/ Done(p)
         \/ \E phase \in Phases : /\ Move(p, phase)
                                  /\ phase \notin Saves \/ proc[p].file # "config"
  PROVE  WordInv'
<1>1. CASE Done(p)
  BY <1>1, WordEnds
<1>2. ASSUME NEW phase \in Phases, Move(p, phase),
             phase \notin Saves \/ proc[p].file # "config"
      PROVE  WordInv'
  <2> DEFINE r == [proc[p] EXCEPT !.at = phase]
  <2>1. proc[p] \in ProcRec /\ proc' = [proc EXCEPT ![p] = r]
    BY <1>2 DEF IInv, ProcsOK, Move
  <2>2. /\ r.op = proc[p].op /\ r.alone = proc[p].alone /\ r.at = phase
        /\ r.file = proc[p].file
    BY <2>1 DEF ProcRec
  <2> HIDE DEF r
  <2> QED  BY <1>2, <2>1, <2>2, WordSteps
<1> QED  BY <1>1, <1>2

\* Where an editor goes with the file; nobody else is alone with it.
LEMMA WordAlone ==
  ASSUME WordInv, NEW p \in Procs, NEW q \in Procs, Editor(p), Editor(q), proc[q].alone
  PROVE  q = p
BY DEF WordInv

\* An editor creates, writes or renames the configuration's sibling, or finds it
\* gone: what is known of the records after the step.
LEMMA WordRecords ==
  ASSUME IInv, WordInv, NEW p \in Procs, Editor(p),
         \/ Done(p)
         \/ \E phase \in Phases \ {"idle"} :
              Move(p, phase) /\ (proc[p].at \in Saves \/ phase \notin Saves)
  PROVE  /\ \A q, r \in Procs : (Editor(q) /\ Editor(r) /\ proc[q].alone)' => q = r
         /\ \A q \in Procs : proc'[q].at \in Saves /\ proc'[q].file = "config" =>
                               (Editor(q) /\ proc[q].save = proc[q].cfg)'
         /\ \A q \in Procs \ {p} : proc'[q] = proc[q]
<1>1. ASSUME NEW r, proc' = [proc EXCEPT ![p] = r], r.op = "edit" => r.alone = proc[p].alone,
             r.op \in {"edit", "none"},
             r.at \in Saves => /\ proc[p].at \in Saves /\ r.op = "edit"
                               /\ r.file = proc[p].file /\ r.save = proc[p].save
                               /\ r.cfg = proc[p].cfg
      PROVE  /\ \A q, s \in Procs : (Editor(q) /\ Editor(s) /\ proc[q].alone)' => q = s
             /\ \A q \in Procs : proc'[q].at \in Saves /\ proc'[q].file = "config" =>
                                   (Editor(q) /\ proc[q].save = proc[q].cfg)'
             /\ \A q \in Procs \ {p} : proc'[q] = proc[q]
  <2>1. \A q \in Procs : proc'[q] = IF q = p THEN r ELSE proc[q]
    BY <1>1 DEF IInv, ProcsOK
  <2> QED  BY <1>1, <2>1 DEF WordInv, Editor
<1>2. CASE Done(p)
  BY <1>1, <1>2, IdleOK DEF Done, Saves
<1>3. ASSUME NEW phase, Move(p, phase), proc[p].at \in Saves \/ phase \notin Saves
      PROVE  \E r : /\ proc' = [proc EXCEPT ![p] = r] /\ r.alone = proc[p].alone
                    /\ r.op = "edit" /\ r.file = proc[p].file /\ r.save = proc[p].save
                    /\ r.cfg = proc[p].cfg /\ (r.at \in Saves => proc[p].at \in Saves)
  <2> DEFINE r == [proc[p] EXCEPT !.at = phase]
  <2>1. proc[p] \in ProcRec
    BY DEF IInv, ProcsOK
  <2>2. /\ proc' = [proc EXCEPT ![p] = r] /\ r.alone = proc[p].alone
        /\ r.op = "edit" /\ r.file = proc[p].file /\ r.save = proc[p].save
        /\ r.cfg = proc[p].cfg /\ (r.at \in Saves => proc[p].at \in Saves)
    BY <1>3, <2>1 DEF Move, ProcRec, Editor
  <2> QED  BY <2>2
<1>4. CASE ~Done(p)
  <2>1. PICK r : /\ proc' = [proc EXCEPT ![p] = r] /\ r.alone = proc[p].alone
                 /\ r.op = "edit" /\ r.file = proc[p].file /\ r.save = proc[p].save
                 /\ r.cfg = proc[p].cfg /\ (r.at \in Saves => proc[p].at \in Saves)
    BY <1>3, <1>4
  <2> QED  BY <1>1, <2>1
<1> QED  BY <1>2, <1>4

\* An editor creates the sibling, truncating one that is there.
LEMMA WordCreates ==
  ASSUME IInv, WordInv, NEW p \in Procs, Create(p) PROVE WordInv'
<1>1. proc[p] \in ProcRec /\ At(p, "create") /\ files \in [Files -> FileRec]
  BY DEF IInv, ProcsOK, FilesOK, Create
<1>2. CASE proc[p].file # "config"
  <2>1. UNCHANGED <<TheConfig, word>> /\ ~InConfig(p) /\ Move(p, "write")
    BY <1>1, <1>2 DEF Create, TheConfig, InConfig, history, ProcRec
  <2> QED  BY <1>2, <2>1, WordElsewhere DEF Phases, PassPhases
<1>3. CASE proc[p].file = "config"
  <2>1. Editor(p) /\ Move(p, "write") /\ UNCHANGED word
    BY <1>1, <1>3 DEF WordInv, At, Saves, Create, history
  <2>2. TheConfig' = Created(TheConfig, p)
    BY <1>1, <1>3 DEF Create, TheConfig, Files
  <2>3. /\ TheConfig'.target = TheConfig.target /\ TheConfig'.tmp = Empty
        /\ TheConfig'.tmpBy = TheConfig.tmpBy \cup {p}
        /\ TheConfig'.targetBy = TheConfig.targetBy \ {p}
    BY <1>1, <2>2 DEF Created, TheConfig, Files, FileRec
  <2>4. proc'[p].at = "write" /\ proc'[p].file = "config" /\ proc'[p].op = "edit"
    BY <1>1, <1>3, <2>1 DEF Move, Editor, ProcRec, IInv, ProcsOK
  <2>5. /\ \A q, r \in Procs : (Editor(q) /\ Editor(r) /\ proc[q].alone)' => q = r
        /\ \A q \in Procs : proc'[q].at \in Saves /\ proc'[q].file = "config" =>
                              (Editor(q) /\ proc[q].save = proc[q].cfg)'
        /\ \A q \in Procs \ {p} : proc'[q] = proc[q]
    BY <1>1, <2>1, WordRecords DEF At, Saves, Phases, PassPhases
  <2>6. ConfigBroken' = ConfigBroken /\ LoadConfig' = LoadConfig
    BY <2>3 DEF ConfigBroken, LoadConfig, Content, TheConfig
  <2>7. \A q \in Procs : q \in TheConfig'.tmpBy \cup TheConfig'.targetBy
                         => Editor(q)' /\ InConfig(q)'
    BY <2>3, <2>4, <2>5 DEF WordInv, Editor, InConfig, Opened
  <2>8. \A q \in Procs : (Editor(q) /\ proc[q].alone)' => q = p
    BY <2>4, <2>5 DEF Editor
  <2> QED  BY <2>1, <2>3, <2>4, <2>5, <2>6, <2>7, <2>8 DEF WordInv
<1> QED  BY <1>2, <1>3

\* An editor writes: into the sibling, or, when it has lost that to a rename, into
\* what is now the target.
LEMMA WordWrites ==
  ASSUME IInv, WordInv, NEW p \in Procs, Write(p) PROVE WordInv'
<1>1. proc[p] \in ProcRec /\ At(p, "write") /\ files \in [Files -> FileRec]
  BY DEF IInv, ProcsOK, FilesOK, Write
<1>2. CASE proc[p].file # "config"
  <2>1. UNCHANGED <<TheConfig, word>> /\ ~InConfig(p) /\ Move(p, "rename")
    BY <1>1, <1>2 DEF Write, TheConfig, InConfig, history, ProcRec
  <2> QED  BY <1>2, <2>1, WordElsewhere DEF Phases, PassPhases
<1>3. CASE proc[p].file = "config"
  <2>1. Editor(p) /\ Move(p, "rename") /\ UNCHANGED word /\ InConfig(p)
    BY <1>1, <1>3 DEF WordInv, At, Saves, Write, history, InConfig, Opened
  <2>2. TheConfig' \in Written(TheConfig, p, proc[p].save) /\ TheConfig \in FileRec
    BY <1>1, <1>3 DEF Write, TheConfig, Files
  <2>3. /\ TheConfig'.tmpBy = TheConfig.tmpBy /\ TheConfig'.targetBy = TheConfig.targetBy
        /\ p \notin TheConfig.targetBy => TheConfig'.target = TheConfig.target
    BY <2>2 DEF Written, FileRec
  <2>4. /\ proc'[p].at = "rename" /\ proc'[p].file = "config" /\ proc'[p].op = "edit"
        /\ proc'[p].alone = proc[p].alone /\ proc'[p].save = proc[p].save
    BY <1>1, <1>3, <2>1 DEF Move, Editor, ProcRec, IInv, ProcsOK
  <2>5. /\ \A q, r \in Procs : (Editor(q) /\ Editor(r) /\ proc[q].alone)' => q = r
        /\ \A q \in Procs : proc'[q].at \in Saves /\ proc'[q].file = "config" =>
                              (Editor(q) /\ proc[q].save = proc[q].cfg)'
        /\ \A q \in Procs \ {p} : proc'[q] = proc[q]
    BY <1>1, <2>1, WordRecords DEF At, Saves, Phases, PassPhases
  <2>6. word # Missing => ~ConfigBroken' /\ LoadConfig' = word /\ TheConfig'.targetBy = {}
    BY <2>3 DEF WordInv, ConfigBroken, LoadConfig, Content, TheConfig
  <2>7. \A q \in Procs : q \in TheConfig'.tmpBy \cup TheConfig'.targetBy
                         => Editor(q)' /\ InConfig(q)'
    BY <2>3, <2>4, <2>5 DEF WordInv, Editor, InConfig, Opened
  <2>8. \A q \in Procs : (Editor(q) /\ proc[q].alone)' => q = p
    BY <2>4, <2>5 DEF Editor
  <2>9. proc[p].alone => p \in TheConfig'.tmpBy /\ TheConfig'.tmp = proc[p].save
    <3>1. proc[p].alone => p \in TheConfig.tmpBy /\ TheConfig.tmp = Empty
      BY <1>1, <2>1 DEF WordInv, At
    <3> QED  BY <2>2, <2>3, <3>1 DEF Written, Over, FileRec
  <2> QED  BY <2>1, <2>4, <2>5, <2>6, <2>7, <2>8, <2>9 DEF WordInv
<1> QED  BY <1>2, <1>3

\* Where a rename leads.
LEMMA WordGoesOn ==
  ASSUME NEW p \in Procs, GoOn(p) \/ Leave(p)
  PROVE  \/ Done(p)
         \/ \E phase \in {"mirror", "follow"} : Move(p, phase)
BY DEF GoOn, Leave

\* An editor renames the sibling over the configuration: what it saved is what it
\* acknowledges, when it was alone, and nothing is acknowledged when it was not.
LEMMA WordRenames ==
  ASSUME IInv, WordInv, NEW p \in Procs, Rename(p) PROVE WordInv'
<1>1. /\ proc[p] \in ProcRec /\ Local(proc[p]) /\ At(p, "rename")
      /\ files \in [Files -> FileRec]
  BY DEF IInv, ProcsOK, FilesOK, Rename
<1>2. CASE proc[p].file # "config"
  <2>1. UNCHANGED <<TheConfig, word>> /\ ~InConfig(p)
    BY <1>1, <1>2 DEF Rename, TheConfig, InConfig
  <2>2. \/ Done(p)
        \/ \E phase \in {"mirror", "follow"} : Move(p, phase)
    BY WordGoesOn DEF Rename
  <2> QED  BY <2>1, <2>2, WordElsewhere DEF Phases, PassPhases, Saves
<1>3. CASE proc[p].file = "config"
  <2>1. Editor(p) /\ InConfig(p) /\ proc[p].save = proc[p].cfg /\ Move(p, "mirror")
        /\ word' = IF proc[p].alone THEN proc[p].cfg ELSE Missing
    BY <1>1, <1>3 DEF WordInv, At, Saves, Rename, InConfig, Opened, GoOn
  <2>2. TheConfig' = Renamed(TheConfig, p) /\ TheConfig \in FileRec
    BY <1>1, <1>3 DEF Rename, TheConfig, Files
  <2>3. /\ TheConfig'.target = TheConfig.tmp /\ TheConfig'.tmpBy = {}
        /\ TheConfig'.targetBy = TheConfig.tmpBy \ {p}
    BY <2>2 DEF Renamed
  <2>4. proc'[p].at = "mirror"
    BY <1>1, <2>1 DEF Move, IInv, ProcsOK
  <2>5. /\ \A q, r \in Procs : (Editor(q) /\ Editor(r) /\ proc[q].alone)' => q = r
        /\ \A q \in Procs : proc'[q].at \in Saves /\ proc'[q].file = "config" =>
                              (Editor(q) /\ proc[q].save = proc[q].cfg)'
        /\ \A q \in Procs \ {p} : proc'[q] = proc[q]
    BY <1>1, <2>1, WordRecords DEF At, Saves, Phases, PassPhases
  <2>6. ASSUME proc[p].alone
        PROVE  ~ConfigBroken' /\ LoadConfig' = proc[p].cfg /\ TheConfig'.targetBy = {}
    <3>1. TheConfig.tmp = proc[p].cfg /\ proc[p].cfg \in Configs
      BY <1>1, <2>1, <2>6 DEF WordInv, At, ProcRec
    <3>2. proc[p].cfg \notin NoJson /\ proc[p].cfg.channel # Undeclared
      BY <3>1, BrokerAssumption DEF Configs, RawConfigs, NoJson
    <3>3. TheConfig.tmpBy \subseteq {p}
      BY <2>1, <2>2, <2>6 DEF WordInv, Editor, FileRec
    <3> QED  BY <2>3, <3>1, <3>2, <3>3
             DEF ConfigBroken, Unreadable, LoadConfig, Content, TheConfig, NoJson
  <2>7. \A q \in Procs : q \in TheConfig'.tmpBy \cup TheConfig'.targetBy
                         => Editor(q)' /\ InConfig(q)'
    BY <2>3, <2>5 DEF WordInv, Editor, InConfig
  <2>8. ASSUME NEW q \in Procs, Editor(q)', proc'[q].alone, InConfig(q)' PROVE FALSE
    <3>1. q # p /\ Editor(q) /\ proc[q].alone
      BY <2>4, <2>5, <2>8 DEF InConfig, Opened, Editor
    <3> QED  BY <2>1, <3>1, WordAlone
  <2> QED  BY <2>1, <2>5, <2>6, <2>7, <2>8 DEF WordInv
<1> QED  BY <1>2, <1>3

\* A process goes without a rename: killed, or because another has renamed the
\* sibling away.
LEMMA WordLeaves ==
  ASSUME IInv, WordInv, NEW p \in Procs, RenameFails(p) \/ Quit(p) PROVE WordInv'
<1>1. proc[p] \in ProcRec /\ files \in [Files -> FileRec] /\ UNCHANGED word
  BY DEF IInv, ProcsOK, FilesOK, RenameFails, Quit, history
<1>2. \/ Done(p)
      \/ proc[p].at = "rename" /\ proc[p].file # "config"
         /\ \E phase \in {"mirror", "follow"} : Move(p, phase)
  BY WordGoesOn, BrokerAssumption DEF RenameFails, Quit, Leave, At
<1>3. TheConfig' \in {TheConfig, Closed(TheConfig, p)}
      /\ (InConfig(p) => TheConfig' = Closed(TheConfig, p))
  BY <1>1 DEF RenameFails, Quit, TheConfig, Files, InConfig
<1>4. /\ TheConfig'.target = TheConfig.target /\ TheConfig'.tmp = TheConfig.tmp
      /\ TheConfig'.tmpBy \subseteq TheConfig.tmpBy
      /\ TheConfig.tmpBy \ {p} \subseteq TheConfig'.tmpBy
      /\ TheConfig'.targetBy \subseteq TheConfig.targetBy
      /\ InConfig(p) => p \notin TheConfig'.tmpBy \cup TheConfig'.targetBy
  <2>1. TheConfig \in FileRec
    BY <1>1 DEF TheConfig, Files
  <2> QED  BY <1>3, <2>1 DEF Closed, FileRec
<1>5. \A q \in Procs \ {p} : proc'[q] = proc[q]
  BY <1>2 DEF Done, Move, IInv, ProcsOK
<1>6. /\ ~InConfig(p)' /\ proc'[p].at \notin Saves
      /\ proc'[p].op = "none" \/ (proc'[p].op = proc[p].op /\ proc'[p].alone = proc[p].alone)
  BY <1>1, <1>2, IdleOK DEF Done, Move, IInv, ProcsOK, ProcRec, InConfig, Opened, Saves
<1>7. word # Missing => ~ConfigBroken' /\ LoadConfig' = word /\ TheConfig'.targetBy = {}
  BY <1>4 DEF WordInv, ConfigBroken, LoadConfig, Content, TheConfig
<1>8. ASSUME NEW q \in Procs, q \in TheConfig'.tmpBy \cup TheConfig'.targetBy
      PROVE  Editor(q)' /\ InConfig(q)'
  BY <1>4, <1>5, <1>8 DEF WordInv, Editor, InConfig
<1>9. \A q, r \in Procs : Editor(q)' /\ Editor(r)' /\ proc'[q].alone => q = r
  BY <1>5, <1>6 DEF WordInv, Editor
<1>10. ASSUME NEW q \in Procs, Editor(q)', proc'[q].alone, InConfig(q)'
       PROVE  /\ q \in TheConfig'.tmpBy
              /\ TheConfig'.tmp = IF proc'[q].at = "write" THEN Empty ELSE proc'[q].save
  <2>1. q # p /\ proc'[q] = proc[q]
    BY <1>5, <1>6, <1>10
  <2> QED  BY <1>4, <1>10, <2>1 DEF WordInv, Editor, InConfig
<1>11. \A q \in Procs : proc'[q].at \in Saves /\ proc'[q].file = "config" =>
                         Editor(q)' /\ proc'[q].save = proc'[q].cfg
  BY <1>5, <1>6 DEF WordInv, Editor
<1> QED  BY <1>1, <1>7, <1>8, <1>9, <1>10, <1>11 DEF WordInv

LEMMA WordInitially == Init => WordInv
<1> SUFFICES ASSUME Init PROVE WordInv
  OBVIOUS
<1>1. \A p \in Procs : proc[p] = Idle
  BY DEF Init
<1>2. \A p \in Procs : ~Editor(p) /\ ~InConfig(p) /\ proc[p].at \notin Saves
  BY <1>1, IdleOK DEF Editor, InConfig, Opened, Saves
<1>3. TheConfig.targetBy = {} /\ TheConfig.tmpBy = {}
  BY DEF Init, TheConfig, OnDisk
<1>4. ~ConfigBroken
  <2> DEFINE raw == [channel |-> Undeclared, paused |-> "no"]
  <2>1. raw \in RawConfigs
    BY DEF RawConfigs, Pauses
  <2>2. Content("config") \in {raw, Missing}
    BY DEF Init, Content, OnDisk
  <2> HIDE DEF raw
  <2> QED  BY <2>1, <2>2, BrokerAssumption DEF ConfigBroken, Unreadable
<1>5. word = LoadConfig
  BY DEF Init
<1> QED  BY <1>2, <1>3, <1>4, <1>5 DEF WordInv

LEMMA WordKept == ASSUME IInv, WordInv, [Next]_vars PROVE WordInv'
<1>1. ASSUME Lapse \/ UNCHANGED vars PROVE WordInv'
  <2>1. UNCHANGED <<files, word, proc>>
    BY <1>1 DEF Lapse, vars, history
  <2> QED  BY <2>1 DEF WordInv, Editor, InConfig, TheConfig, ConfigBroken, LoadConfig, Content
<1>2. ASSUME NEW p \in Procs, Step(p) PROVE WordInv'
  BY <1>2, WordAside, WordCreates, WordWrites, WordRenames, WordLeaves DEF Step
<1>3. Daemon \in Procs
  BY DEF Procs
<1> QED  BY <1>1, <1>2, <1>3, WordCommands, WordLeaves DEF Next

\* A pass at its gate is moved on by its gate alone.
LEMMA OnlyItsGate ==
  ASSUME IInv, [Next]_vars, NEW p \in Procs, At(p, "gate"), proc'[p].at = "fetch"
  PROVE  Gate(p)
<1>1. proc \in [Procs -> ProcRec] /\ proc[p].at = "gate"
  BY DEF IInv, ProcsOK, At
<1>2. ASSUME NEW q \in Procs, Command(q) \/ Wake PROVE FALSE
  <2>1. PICK r, op, edit, first :
             r \in Procs /\ At(r, "idle") /\ Begin(r, op, edit, first)
    BY <1>2 DEF Command, Wake, Procs
  <2>2. p # r
    BY <1>1, <2>1 DEF At
  <2>3. proc'[p].at = proc[p].at
    BY <1>1, <2>1, <2>2 DEF Begin, ProcRec
  <2> QED  BY <1>1, <2>3
<1>3. ASSUME Lapse \/ UNCHANGED vars PROVE FALSE
  BY <1>1, <1>3 DEF Lapse, vars
<1>4. ASSUME NEW q \in Procs, Quit(q) PROVE FALSE
  BY <1>1, <1>4, IdleOK DEF Quit, Leave, Done
<1>5. ASSUME NEW q \in Procs, NEW phase, phase # "fetch", Move(q, phase) \/ Done(q) PROVE FALSE
  BY <1>1, <1>5, IdleOK DEF Move, Done, ProcRec
<1>6. ASSUME NEW q \in Procs, NEW x, NEW data, proc' = Saving(q, x, data) PROVE FALSE
  BY <1>1, <1>6 DEF Saving, ProcRec
<1>8. ASSUME NEW q \in Procs, Step(q), ~Gate(q) PROVE FALSE
  <2>1. CASE \/ Acquire(q) \/ Refused(q) \/ CloseHandle(q) \/ Record(q) \/ Mirror(q)
             \/ Create(q) \/ Write(q) \/ Rename(q) \/ RenameFails(q)
             \/ Follow(q) \/ Add(q) \/ Restore(q) \/ Reinstate(q) \/ Place(q)
    BY <1>5, <1>6, <2>1, SMTT(20)
    DEF Acquire, Refused, CloseHandle, Leave, Record, Mirror, Create, Write, Rename, RenameFails,
        GoOn, Follow, Add, Restore, Reinstate, Place
  <2>2. CASE \/ Fetch(q) \/ Snapshot(q) \/ Look(q) \/ Before(q) \/ Load(q)
             \/ Floor(q) \/ Entry(q)
    <3>1. CASE Done(q) \/ Move(q, "mirror") \/ \E x, data : proc' = Saving(q, x, data)
      BY <1>5, <1>6, <3>1
    <3>2. CASE Load(q) /\ ~ConfigBroken
      BY <1>1, <3>2, ZenonT(60) DEF Load, Saving, ProcRec
    <3>3. CASE Snapshot(q) \/ Look(q) \/ Before(q) \/ Floor(q) \/ Entry(q)
      BY <1>1, <3>1, <3>3 DEF Snapshot, Look, Before, Floor, Entry, ProcRec
    <3>4. CASE Fetch(q)
      <4>1. CASE \E s : proc' = [proc EXCEPT
                   ![q].at = IF installed = None THEN "place" ELSE "snapshot",
                   ![q].release = s, ![q].build = installed]
        BY <1>1, <4>1 DEF ProcRec
      <4> QED  BY <3>1, <3>4, <4>1 DEF Fetch, Leave
    <3> QED  BY <2>2, <3>1, <3>2, <3>3, <3>4 DEF Load
  <2> QED  BY <1>8, <2>1, <2>2 DEF Step
<1>9. ASSUME NEW q \in Procs, Gate(q), q # p PROVE FALSE
  <2>1. proc'[p] = proc[p]
    BY <1>1, <1>9 DEF Gate, Leave, Done
  <2> QED  BY <1>1, <2>1
<1>10. p \in Procs /\ Daemon \in Procs
  BY DEF Procs
<1> QED  BY <1>2, <1>3, <1>4, <1>8, <1>9, <1>10 DEF Next

\* No pass goes past its gate against an acknowledged pause, whoever types what
\* meanwhile, and whatever is killed (run_once_with_feed, mutate_config).
THEOREM PauseHolds == Spec => PauseHonored
<1> DEFINE Honored ==
      \A p \in Procs :
        At(p, "gate") /\ proc'[p].at = "fetch" /\ word # Missing => ~IsPaused(word)
<1>1. IInv /\ WordInv /\ [Next]_vars => IInv' /\ WordInv'
  BY Inductive, WordKept
<1>2. IInv /\ WordInv /\ [Next]_vars => [Honored]_vars
  <2> SUFFICES ASSUME IInv, WordInv, [Next]_vars, NEW p \in Procs,
                      At(p, "gate"), proc'[p].at = "fetch", word # Missing
               PROVE  ~IsPaused(word)
    OBVIOUS
  <2>1. LoadConfig = word
    BY DEF WordInv
  <2>2. Gate(p) => ~IsPaused(LoadConfig)
    BY IdleOK DEF Gate, Leave, Done, IInv, ProcsOK, ProcRec
  <2> QED  BY <2>1, <2>2, OnlyItsGate
<1> QED  BY Initially, WordInitially, <1>1, <1>2, PTL DEF Spec, PauseHonored

-----------------------------------------------------------------------------
(* The manual rollback.                                                       *)

\* What a pass knows of the binary until it has captured it, and a rollback of
\* the record and the bytes, is so outside the windows.
Knows(p) ==
  /\ proc[p].at = "snapshot" => proc[p].build = installed
  /\ proc[p].at = "record" => proc[p].digest = proc[p].build
  /\ proc[p].at \in {"restore", "reinstate"} => proc[p].digest = proc[p].build
  /\ proc[p].at = "reinstate" =>
       /\ cache[proc[p].cfg.channel].bytes = proc[p].digest
       /\ proc[p].build >= FloorOf[proc[p].mark]

\* A record names the build of the bytes it digests.
RollInv ==
  ~tangled =>
    /\ \A c \in Channels : cache[c].digest = cache[c].build
    /\ \A p \in Procs : Knows(p)

\* The phases of which Knows says something.
Minds == {"snapshot", "record", "restore", "reinstate"}

Same(q) ==
  /\ proc'[q].at = proc[q].at /\ proc'[q].cfg = proc[q].cfg
  /\ proc'[q].mark = proc[q].mark /\ proc'[q].build = proc[q].build
  /\ proc'[q].digest = proc[q].digest

\* What p does to the binary and to the cache leaves q what it relies on.
Leaves(q) ==
  /\ proc[q].at = "snapshot" => UNCHANGED installed
  /\ proc[q].at = "reinstate" =>
       cache'[proc[q].cfg.channel].bytes = cache[proc[q].cfg.channel].bytes

LEMMA RollFrame ==
  ASSUME RollInv, ~tangled, NEW p \in Procs, \A q \in Procs \ {p} : Same(q) /\ Leaves(q),
         \A c \in Channels : cache'[c].digest = cache'[c].build, Knows(p)'
  PROVE  RollInv'
<1>1. ASSUME NEW q \in Procs \ {p} PROVE Knows(q)'
  BY DEF RollInv, Knows, Same, Leaves
<1> QED  BY <1>1 DEF RollInv

\* A step after which p has nothing to know, and that leaves the rest alone.
LEMMA RollRecord ==
  ASSUME IInv, RollInv, NEW p \in Procs, NEW r, proc' = [proc EXCEPT ![p] = r],
         r.at \notin Minds, UNCHANGED <<cache, installed, tangled>>
  PROVE  RollInv'
<1>1. \A q \in Procs : proc'[q] = IF q = p THEN r ELSE proc[q]
  BY DEF IInv, ProcsOK
<1>2. \A q \in Procs \ {p} : Same(q) /\ Leaves(q)
  BY <1>1 DEF Same, Leaves
<1>3. Knows(p)'
  BY <1>1 DEF Knows, Minds
<1> QED  BY <1>2, <1>3, RollFrame DEF RollInv

LEMMA RollEnds ==
  ASSUME IInv, RollInv, NEW p \in Procs, Done(p), UNCHANGED <<cache, installed, tangled>>
  PROVE  RollInv'
BY IdleOK, RollRecord DEF Done, Minds

\* What a move, a save and an end make of p's record.
LEMMA RecordMoves ==
  ASSUME IInv, NEW p \in Procs, NEW phase, Move(p, phase)
  PROVE  \E r : proc' = [proc EXCEPT ![p] = r] /\ r.at = phase
<1> DEFINE r == [proc[p] EXCEPT !.at = phase]
<1>1. proc[p] \in ProcRec /\ proc' = [proc EXCEPT ![p] = r]
  BY DEF IInv, ProcsOK, Move
<1>2. r.at = phase
  BY <1>1 DEF ProcRec
<1> HIDE DEF r
<1> QED  BY <1>1, <1>2

LEMMA RecordSaves ==
  ASSUME IInv, NEW p \in Procs, NEW file, NEW data, proc' = Saving(p, file, data)
  PROVE  \E r : proc' = [proc EXCEPT ![p] = r] /\ r.at = "create"
<1> DEFINE r == [proc[p] EXCEPT !.at = "create", !.file = file, !.save = data,
                   !.release = None, !.mark = None, !.build = None, !.digest = None]
<1>1. proc[p] \in ProcRec /\ proc' = [proc EXCEPT ![p] = r]
  BY DEF IInv, ProcsOK, Saving
<1>2. r.at = "create"
  BY <1>1 DEF ProcRec
<1> HIDE DEF r
<1> QED  BY <1>1, <1>2

LEMMA RollMoves ==
  ASSUME IInv, RollInv, NEW p \in Procs, NEW phase, phase \notin Minds, Move(p, phase),
         UNCHANGED <<cache, installed, tangled>>
  PROVE  RollInv'
<1>1. PICK r : proc' = [proc EXCEPT ![p] = r] /\ r.at = phase
  BY RecordMoves
<1> QED  BY <1>1, RollRecord

LEMMA RollSaves ==
  ASSUME IInv, RollInv, NEW p \in Procs, NEW file, NEW data, proc' = Saving(p, file, data),
         UNCHANGED <<cache, installed, tangled>>
  PROVE  RollInv'
<1>1. PICK r : proc' = [proc EXCEPT ![p] = r] /\ r.at = "create"
  BY RecordSaves
<1> QED  BY <1>1, RollRecord DEF Minds

LEMMA RollCommands ==
  ASSUME IInv, RollInv, NEW p \in Procs, Command(p) \/ Wake PROVE RollInv'
<1>1. PICK r, op, edit, first :
        /\ r \in Procs
        /\ Begin(r, op, edit, first) /\ At(r, "idle")
        /\ first \in {"lock", "look", "floor", "before", "load"}
  <2>1. \A op \in Others : First[op] \in {"lock", "look", "floor"}
    BY BrokerAssumption DEF First
  <2> QED  BY <2>1 DEF Command, Wake, Procs
<1>2. UNCHANGED <<cache, installed, tangled>>
  BY DEF Command, Wake, host, history
<1>3. \A q \in Procs \ {r} : Same(q) /\ Leaves(q)
  BY <1>1, <1>2 DEF Begin, Same, Leaves, IInv, ProcsOK, ProcRec
<1>4. proc'[r].at = first
  BY <1>1 DEF Begin, Idle
<1>5. Knows(r)'
  BY <1>1, <1>4 DEF Knows
<1> QED  BY <1>1, <1>2, <1>3, <1>5, RollFrame DEF RollInv

\* The pass detects a build, captures it, records it, and replaces the binary.
\* No other pass is between detection and capture meanwhile.
LEMMA RollPasses ==
  ASSUME IInv, RollInv, NEW p \in Procs, Fetch(p) \/ Snapshot(p) \/ Record(p) \/ Place(p)
  PROVE  RollInv'
<1>1. SUFFICES ASSUME ~tangled' PROVE RollInv'
  BY DEF RollInv
<1>2. ~tangled
  BY <1>1 DEF Fetch, Snapshot, Record, Place, history
<1>3. proc[p] \in ProcRec /\ Local(proc[p]) /\ proc \in [Procs -> ProcRec]
  BY DEF IInv, ProcsOK
<1>4. Passing(p) /\ proc[p].cfg.channel \in Channels
  BY <1>3 DEF Fetch, Snapshot, Record, Place, At, Local, Carrying, Passing, PassPhases,
              ProcRec, Configs
<1>5. \A q \in Procs \ {p} : proc[q].at # "snapshot"
  <2>1. \A q \in Procs : proc[q].at = "snapshot" => Passing(q)
    BY DEF IInv, ProcsOK, Local, Carrying, Passing, At, PassPhases
  <2> QED  BY <1>4, <2>1 DEF IInv, OnePass
<1>6. ASSUME NEW r, proc' = [proc EXCEPT ![p] = r], Knows(p)',
             \A q \in Procs \ {p} : proc[q].at = "reinstate" =>
               cache'[proc[q].cfg.channel].bytes = cache[proc[q].cfg.channel].bytes,
             \A c \in Channels : cache'[c].digest = cache'[c].build
      PROVE  RollInv'
  <2>1. \A q \in Procs \ {p} : Same(q) /\ Leaves(q)
    BY <1>3, <1>5, <1>6 DEF Same, Leaves
  <2> QED  BY <1>2, <1>6, <2>1, RollFrame
<1>7. /\ \A c \in Channels : cache[c].digest = cache[c].build
      /\ cache \in [Channels -> [bytes : Nat, build : Nat, digest : Nat]]
      /\ \A q \in Procs : proc[q].cfg.channel \in Channels
  BY <1>2 DEF RollInv, IInv, HostOK, ProcsOK, ProcRec, Configs
<1>8. CASE Snapshot(p)
  <2> DEFINE r == [proc[p] EXCEPT !.at = "record", !.digest = installed]
  <2>1. proc' = [proc EXCEPT ![p] = r] /\ proc[p].build = installed
    BY <1>2, <1>8 DEF Snapshot, RollInv, Knows, At
  <2>2. r.at = "record" /\ r.digest = r.build
    BY <1>3, <2>1 DEF ProcRec
  <2> HIDE DEF r
  <2>3. Knows(p)'
    BY <1>3, <2>1, <2>2 DEF Knows
  <2>4. \A c \in Channels : cache'[c].digest = cache'[c].build
    BY <1>7, <1>8 DEF Snapshot
  <2>5. \A q \in Procs : proc[q].at = "reinstate" => proc[q].cfg.channel # proc[p].cfg.channel
    BY <1>1, <1>8 DEF Snapshot, Copying, At
  <2>6. \A q \in Procs : proc[q].at = "reinstate" =>
          cache'[proc[q].cfg.channel].bytes = cache[proc[q].cfg.channel].bytes
    BY <1>7, <1>8, <2>5 DEF Snapshot
  <2> QED  BY <1>6, <2>1, <2>3, <2>4, <2>6
<1>9. CASE Record(p)
  <2> DEFINE r == [proc[p] EXCEPT !.at = "place"]
  <2>1. proc' = [proc EXCEPT ![p] = r] /\ proc[p].digest = proc[p].build
    BY <1>2, <1>9 DEF Record, Move, RollInv, Knows, At
  <2>2. r.at = "place"
    BY <1>3 DEF ProcRec
  <2> HIDE DEF r
  <2>3. Knows(p)'
    BY <1>3, <2>1, <2>2 DEF Knows
  <2>4. \A c \in Channels : cache'[c].digest = cache'[c].build /\ cache'[c].bytes = cache[c].bytes
    BY <1>7, <1>9, <2>1 DEF Record
  <2> QED  BY <1>6, <1>7, <2>1, <2>3, <2>4
<1>10. CASE Place(p)
  <2>1. \E r : proc' = [proc EXCEPT ![p] = r] /\ r.at \in {"create", "mirror"}
    <3>1. CASE Move(p, "mirror")
      <4>1. PICK r : proc' = [proc EXCEPT ![p] = r] /\ r.at = "mirror"
        BY <3>1, RecordMoves
      <4> QED  BY <4>1
    <3>2. CASE proc' = Saving(p, proc[p].cfg.channel, proc[p].release)
      <4>1. PICK r : proc' = [proc EXCEPT ![p] = r] /\ r.at = "create"
        BY <3>2, RecordSaves
      <4> QED  BY <4>1
    <3> QED  BY <1>10, <3>1, <3>2 DEF Place
  <2>2. Knows(p)' /\ UNCHANGED cache
    BY <1>3, <1>10, <2>1 DEF Knows, Place
  <2> QED  BY <1>6, <1>7, <2>1, <2>2
<1>11. CASE Fetch(p)
  <2>1. UNCHANGED <<cache, installed>>
    BY <1>11 DEF Fetch, host
  <2>2. \E r : /\ proc' = [proc EXCEPT ![p] = r]
               /\ r.at \in {"idle", "mirror", "create", "place", "snapshot"}
               /\ r.at = "snapshot" => r.build = installed
    <3>1. CASE Move(p, "mirror")
      <4>1. PICK r : proc' = [proc EXCEPT ![p] = r] /\ r.at = "mirror"
        BY <3>1, RecordMoves
      <4> QED  BY <4>1
    <3>4. CASE Done(p)
      <4>1. proc' = [proc EXCEPT ![p] = Idle] /\ Idle.at = "idle"
        BY <3>4 DEF Done, Idle
      <4> QED  BY <4>1
    <3>3. CASE \E s : proc' = Saving(p, proc[p].cfg.channel, s)
      <4>1. PICK s : proc' = Saving(p, proc[p].cfg.channel, s)
        BY <3>3
      <4>2. PICK r : proc' = [proc EXCEPT ![p] = r] /\ r.at = "create"
        BY <4>1, RecordSaves
      <4> QED  BY <4>2
    <3>2. CASE \E s : proc' = [proc EXCEPT
                 ![p].at = IF installed = None THEN "place" ELSE "snapshot",
                 ![p].release = s, ![p].build = installed]
      <4>1. PICK s : proc' = [proc EXCEPT
                 ![p].at = IF installed = None THEN "place" ELSE "snapshot",
                 ![p].release = s, ![p].build = installed]
        BY <3>2
      <4> DEFINE r == [proc[p] EXCEPT !.at = IF installed = None THEN "place" ELSE "snapshot",
                         !.release = s, !.build = installed]
      <4>2. proc' = [proc EXCEPT ![p] = r]
        BY <1>3, <4>1
      <4>3. r.at \in {"place", "snapshot"} /\ r.build = installed
        BY <1>3 DEF ProcRec
      <4> HIDE DEF r
      <4> QED  BY <4>2, <4>3
    <3> QED  BY <1>11, <3>1, <3>2, <3>3, <3>4 DEF Fetch, Leave
  <2>3. Knows(p)'
    BY <1>3, <2>1, <2>2 DEF Knows
  <2> QED  BY <1>6, <1>7, <2>1, <2>2, <2>3
<1> QED  BY <1>8, <1>9, <1>10, <1>11

\* The rollback reads the record, holds it against the floor and the bytes, and
\* reinstates while no pass is between detection and capture.
LEMMA RollRolls ==
  ASSUME IInv, RollInv, NEW p \in Procs, Entry(p) \/ Restore(p) \/ Reinstate(p)
  PROVE  RollInv'
<1>1. SUFFICES ASSUME ~tangled' PROVE RollInv'
  BY DEF RollInv
<1>2. ~tangled /\ UNCHANGED cache
  <2>1. CASE Entry(p) \/ Restore(p)
    BY <1>1, <2>1 DEF Entry, Restore, host, history
  <2>2. CASE Reinstate(p)
    BY <1>1, <2>2, Zenon DEF Reinstate
  <2> QED  BY <2>1, <2>2
<1>3. proc[p] \in ProcRec /\ proc \in [Procs -> ProcRec] /\ proc[p].cfg.channel \in Channels
  BY DEF IInv, ProcsOK, ProcRec, Configs
<1>4. \A q \in Procs : proc[q].at = "snapshot" => UNCHANGED installed
  <2>1. CASE Entry(p) \/ Restore(p)
    BY <2>1 DEF Entry, Restore, host
  <2>2. CASE Reinstate(p)
    BY <1>1, <2>2, Zenon DEF Reinstate, Detected, At
  <2> QED  BY <2>1, <2>2
<1>5. ASSUME NEW r, proc' = [proc EXCEPT ![p] = r], Knows(p)' PROVE RollInv'
  <2>1. \A q \in Procs \ {p} : Same(q) /\ Leaves(q)
    BY <1>2, <1>3, <1>4, <1>5 DEF Same, Leaves
  <2> QED  BY <1>2, <1>5, <2>1, RollFrame DEF RollInv
<1>6. CASE Done(p)
  <2>1. Knows(p)'
    BY <1>3, <1>6, IdleOK DEF Done, Knows
  <2> QED  BY <1>5, <1>6, <2>1 DEF Done
<1>7. CASE Entry(p) /\ ~Done(p)
  <2> DEFINE e == cache[proc[p].cfg.channel]
             r == [proc[p] EXCEPT !.at = "restore", !.build = e.build, !.digest = e.digest]
  <2>1. proc' = [proc EXCEPT ![p] = r]
    BY <1>7 DEF Entry
  <2>2. r.at = "restore" /\ r.build = e.build /\ r.digest = e.digest
    BY <1>3 DEF ProcRec
  <2>3. e.digest = e.build
    BY <1>2, <1>3 DEF RollInv
  <2> HIDE DEF r, e
  <2>4. Knows(p)'
    BY <1>3, <2>1, <2>2, <2>3 DEF Knows
  <2> QED  BY <1>5, <2>1, <2>4
<1>8. CASE Restore(p) /\ ~Done(p)
  <2> DEFINE r == [proc[p] EXCEPT !.at = "reinstate"]
  <2>1. proc' = [proc EXCEPT ![p] = r]
    BY <1>8 DEF Restore, Move
  <2>2. /\ r.at = "reinstate" /\ r.cfg = proc[p].cfg
        /\ r.mark = proc[p].mark /\ r.build = proc[p].build /\ r.digest = proc[p].digest
    BY <1>3 DEF ProcRec
  <2> HIDE DEF r
  <2>3. proc[p].digest = proc[p].build
    BY <1>2, <1>8 DEF Restore, At, RollInv, Knows
  <2>4. /\ proc[p].build >= FloorOf[proc[p].mark]
        /\ cache[proc[p].cfg.channel].bytes = proc[p].digest
    BY <1>8 DEF Restore
  <2>5. Knows(p)'
    BY <1>2, <1>3, <2>1, <2>2, <2>3, <2>4 DEF Knows
  <2> QED  BY <1>5, <2>1, <2>5
<1> QED  BY <1>6, <1>7, <1>8 DEF Reinstate

\* The steps that concern neither.
LEMMA RollAside ==
  ASSUME IInv, RollInv, NEW p \in Procs,
         \/ Acquire(p) \/ Refused(p) \/ CloseHandle(p) \/ Gate(p) \/ Mirror(p)
         \/ Create(p) \/ Write(p) \/ Rename(p) \/ RenameFails(p) \/ Floor(p)
         \/ Look(p) \/ Before(p) \/ Load(p) \/ Follow(p) \/ Add(p) \/ Quit(p)
  PROVE  RollInv'
<1>1. UNCHANGED <<cache, installed, tangled>>
  BY DEF Acquire, Refused, CloseHandle, Gate, Mirror, Create, Write, Rename, RenameFails,
         Floor, Look, Before, Load, Follow, Add, Quit, host, history
<1>2. proc[p] \in ProcRec
  BY DEF IInv, ProcsOK
<1>3. CASE Done(p)
  BY <1>1, <1>3, RollEnds
<1>4. CASE \/ Acquire(p) \/ Mirror(p) \/ Create(p) \/ Write(p) \/ Rename(p) \/ RenameFails(p)
           \/ Gate(p)
  <2>1. CASE Gate(p) /\ ~Done(p)
    <3> DEFINE r == [proc[p] EXCEPT !.cfg = LoadConfig,
                                    !.at = IF IsPaused(LoadConfig) THEN "mirror" ELSE "fetch"]
    <3>1. proc' = [proc EXCEPT ![p] = r]
      BY <2>1 DEF Gate, Leave
    <3>2. r.at \in {"mirror", "fetch"}
      BY <1>2 DEF ProcRec
    <3> HIDE DEF r
    <3> QED  BY <1>1, <3>1, <3>2, RollRecord DEF Minds
  <2>2. CASE Mirror(p)
    BY <1>1, <2>2, RollSaves DEF Mirror
  <2>3. CASE \E phase \in {"gate", "write", "rename", "mirror", "follow"} : Move(p, phase)
    BY <1>1, <2>3, RollMoves DEF Minds
  <2> QED
    BY <1>3, <1>4, <2>1, <2>2, <2>3
    DEF Acquire, Create, Write, Rename, RenameFails, GoOn, Leave
<1>5. CASE Refused(p) \/ CloseHandle(p) \/ Quit(p)
  <2>1. Done(p) \/ Move(p, "close")
    BY <1>5 DEF Refused, CloseHandle, Quit, Leave
  <2> QED  BY <1>1, <1>3, <2>1, RollMoves DEF Minds
<1>6. ASSUME NEW r, proc' = [proc EXCEPT ![p] = r], r.at \notin Minds PROVE RollInv'
  BY <1>1, <1>6, RollRecord
<1>7. CASE Look(p) \/ Before(p)
  <2> DEFINE c == IF ConfigBroken THEN Fresh ELSE LoadConfig
             s == Content("status")
             w == IF Unreadable(s) THEN Missing ELSE IF s = Missing THEN Default ELSE s.channel
             r1 == [proc[p] EXCEPT !.at = "mirror", !.cfg = c]
             r2 == [proc[p] EXCEPT !.at = "load", !.was = w]
  <2>1. \A r \in {r1, r2} : r.at \notin Minds
    BY <1>2, ZenonT(60) DEF ProcRec, Minds
  <2>2. Done(p) \/ \E r \in {r1, r2} : proc' = [proc EXCEPT ![p] = r]
    BY <1>7 DEF Look, Before
  <2> HIDE DEF r1, r2
  <2> QED  BY <1>3, <1>6, <2>1, <2>2
<1>8. CASE Load(p) /\ ~Done(p)
  <2> DEFINE c == Edited(LoadConfig, proc[p].edit)
             r == [proc[p] EXCEPT !.at = "create", !.file = "config", !.save = c, !.cfg = c,
                     !.release = None, !.mark = None, !.build = None, !.digest = None]
  <2>1. proc' = [Saving(p, "config", c) EXCEPT ![p].cfg = c]
    BY <1>8 DEF Load
  <2>2. proc' = [proc EXCEPT ![p] = r]
    BY <1>2, <2>1 DEF Saving, ProcRec, IInv, ProcsOK
  <2>3. r.at = "create"
    BY <1>2 DEF ProcRec
  <2> HIDE DEF r, c
  <2> QED  BY <1>6, <2>2, <2>3 DEF Minds
<1>9. CASE Follow(p) \/ Add(p)
  <2>1. Done(p) \/ Move(p, "add")
    BY <1>9 DEF Follow, Add
  <2> QED  BY <1>1, <1>3, <2>1, RollMoves DEF Minds
<1>10. CASE Floor(p) /\ ~Done(p)
  <2> DEFINE m == LoadMark(LoadConfig.channel)
             r == [proc[p] EXCEPT !.at = "entry", !.cfg = LoadConfig, !.mark = m]
  <2>1. proc' = [proc EXCEPT ![p] = r]
    BY <1>10 DEF Floor
  <2>2. r.at = "entry"
    BY <1>2 DEF ProcRec
  <2> HIDE DEF r, m
  <2> QED  BY <1>6, <2>1, <2>2 DEF Minds
<1> QED  BY <1>3, <1>4, <1>5, <1>7, <1>8, <1>9, <1>10

LEMMA RollKept == ASSUME IInv, RollInv, [Next]_vars PROVE RollInv'
<1>1. ASSUME Lapse \/ UNCHANGED vars PROVE RollInv'
  <2>1. UNCHANGED <<cache, installed, proc, tangled>>
    BY <1>1 DEF Lapse, vars, history, host
  <2> QED  BY <2>1 DEF RollInv, Knows
<1>2. ASSUME NEW p \in Procs, Step(p) \/ Quit(p) PROVE RollInv'
  BY <1>2, RollPasses, RollRolls, RollAside DEF Step
<1>3. Daemon \in Procs
  BY DEF Procs
<1> QED  BY <1>1, <1>2, <1>3, RollCommands DEF Next

LEMMA RollInitially == Init => RollInv
<1> SUFFICES ASSUME Init PROVE RollInv
  OBVIOUS
<1>1. \A p \in Procs : proc[p].at = "idle"
  BY IdleOK DEF Init
<1>2. \A c \in Channels : cache[c].digest = cache[c].build
  BY DEF Init
<1> QED  BY <1>1, <1>2 DEF RollInv, Knows

\* Who changes what is installed in a step of a rollback that is about to.
LEMMA WhoReinstates ==
  ASSUME IInv, [Next]_vars, NEW p \in Procs, At(p, "reinstate"),
         proc'[p] # proc[p], installed' # installed
  PROVE  Reinstate(p)
<1>1. proc \in [Procs -> ProcRec]
  BY DEF IInv, ProcsOK
<1>2. PICK q \in Procs : Place(q) \/ Reinstate(q)
  <2>1. ASSUME NEW q \in Procs, Step(q) PROVE Place(q) \/ Reinstate(q)
    BY <2>1 DEF Step, Acquire, Refused, CloseHandle, Gate, Fetch, Snapshot, Record, Mirror,
                Create, Write, Rename, RenameFails, Look, Before, Load, Follow, Add, Floor,
                Entry, Restore, host
  <2> QED  BY <2>1 DEF Next, Command, Wake, Quit, Lapse, vars, host
<1>3. ASSUME q # p PROVE FALSE
  <2>1. \E r : proc' = [proc EXCEPT ![q] = r]
    BY <1>2 DEF Place, Reinstate, Move, Done, Saving
  <2> QED  BY <1>1, <1>3, <2>1
<1>4. ~Place(p)
  BY DEF Place, At
<1> QED  BY <1>2, <1>3, <1>4

\* A manual rollback beside any number of passes, commands and kills reinstates
\* nothing below the floor it has read, unless a pass and a rollback have met in
\* one of the two windows: what it copies is what the record it held against the
\* floor is about (rollback, snapshot and restore).
THEOREM FloorKept == Spec => RollbackKeepsFloor
<1> DEFINE Kept ==
      \A p \in Procs :
        At(p, "reinstate") /\ proc'[p] # proc[p] /\ installed' # installed /\ ~tangled
        => installed' >= FloorOf[proc[p].mark]
<1>1. IInv /\ RollInv /\ [Next]_vars => IInv' /\ RollInv'
  BY Inductive, RollKept
<1>2. IInv /\ RollInv /\ [Next]_vars => [Kept]_vars
  <2> SUFFICES ASSUME IInv, RollInv, [Next]_vars, NEW p \in Procs, At(p, "reinstate"),
                      proc'[p] # proc[p], installed' # installed, ~tangled
               PROVE  installed' >= FloorOf[proc[p].mark]
    OBVIOUS
  <2>1. Reinstate(p)
    BY WhoReinstates
  <2>2. installed' = cache[proc[p].cfg.channel].bytes
    BY <2>1 DEF Reinstate
  <2> QED  BY <2>2 DEF RollInv, Knows, At
<1> QED  BY Initially, RollInitially, <1>1, <1>2, PTL DEF Spec, RollbackKeepsFloor
=============================================================================
