------------------------------- MODULE Broker --------------------------------
(***************************************************************************)
(* The broker's entry points side by side on one host: full passes (the      *)
(* daily one and those typed), dry checks, pause, resume, channel set and    *)
(* the manual rollback (lib.rs of dig-updater-broker, main.rs of the CLI).   *)
(* Only a pass takes the single-instance lock.  The state they share is the  *)
(* configuration, the world-readable status mirror, one trust-state file per *)
(* channel, one last-known-good cache per channel, and the binary itself.    *)
(*                                                                         *)
(* Of a release only its number is kept: it is its build and its sequence.   *)
(* One pass is UpdatePass's subject; here it is one component that is        *)
(* replaced, deferred or left alone, and then the marks and the mirror.      *)
(***************************************************************************)
EXTENDS Naturals, FiniteSets, PersistedFile

CONSTANTS
  Platform,     \* "windows" or "unix": how the lock is held
  Consoles,     \* where commands are typed
  Daemon,       \* the daily pass
  Channels,     \* "nightly", "stable" and the like
  Default,      \* the channel of a fresh install
  Adopts,       \* the channel that takes over the pre-channel state
  Offers,       \* channel -> the releases its feed can serve
  FloorOf,      \* release -> the rollback floor its manifest declares
  Legacies,     \* the marks a pre-channel state file may hold; 0 is no file
  Edits,        \* what the configuration commands typed set, and to what
  Others,       \* the other commands typed
  MaxCommands,  \* bound: commands typed
  MaxQuits      \* bound: processes killed, or ended by a failing call

Procs == Consoles \cup {Daemon}
None == 0
Releases == UNION {Offers[c] : c \in Channels}
Known == {None} \cup Releases \cup Legacies
Pauses == {"no", "snooze", "forever"}
Undeclared == "undeclared"   \* a configuration from before there were channels
Configs == [channel : Channels, paused : Pauses]
RawConfigs == [channel : Channels \cup {Undeclared}, paused : Pauses]

ASSUME BrokerAssumption ==
  /\ Platform \in {"windows", "unix"}
  /\ Daemon \notin Consoles
  /\ {Default, Adopts} \subseteq Channels
  /\ {"config", "status", Undeclared} \cap Channels = {}
  /\ Offers \in [Channels -> SUBSET (Nat \ {None})]
  /\ Legacies \subseteq Nat
  /\ FloorOf \in [Known -> Nat] /\ \A r \in Known : FloorOf[r] <= r
  /\ {Missing, Empty, Mixed} \cap (Nat \cup RawConfigs) = {}
  /\ Missing \notin {Empty, Mixed}
  /\ Edits \subseteq [set : {"channel"}, to : Channels] \cup [set : {"paused"}, to : Pauses]
  /\ Others \subseteq {"run", "dry", "rollback"}
  /\ MaxCommands \in Nat /\ MaxQuits \in Nat

VARIABLES
  files,      \* "config", "status" and every channel -> the file under that name
  legacy,     \* the mark in the pre-channel trust-state.json, or None
  installed,  \* the release whose bytes are installed
  cache,      \* channel -> the last-known-good bytes and what their record says
  lock,       \* the processes that have the lock open
  proc,       \* process -> what it is doing
  lapsed,     \* the snooze's deadline has passed
  ext,        \* the channel the force-installed extension follows, or Missing
  commands, quits,
  word,       \* history: the configuration last acknowledged, or Missing when
              \* commands that change it have crossed since
  tangled     \* history: a pass and a manual rollback have crossed where the one
              \* spoils what the other has just looked at

bounds == <<commands, quits>>
host == <<installed, cache, ext>>
history == <<word, tangled>>
vars == <<files, legacy, host, lock, proc, lapsed, bounds, history>>

Config(channel, paused) == [channel |-> channel, paused |-> paused]
Fresh == Config(Default, "no")

Content(x) == files[x].target

\* ConfigStore::load, of a file that parses: a fresh host has none, and one that
\* does not name its channel is from before there were any.
LoadConfig ==
  LET c == Content("config") IN
  IF c = Missing THEN Fresh
  ELSE IF c.channel = Undeclared THEN Config(Adopts, c.paused)
  ELSE c
ConfigBroken == Unreadable(Content("config"))

\* is_paused_at
IsPaused(c) == c.paused = "forever" \/ (c.paused = "snooze" /\ ~lapsed)

\* TrustStateStore::load: the adopting channel reads the pre-channel file for as
\* long as it has none of its own; nobody ever writes that one.
LoadMark(c) ==
  IF Content(c) # Missing THEN Content(c)
  ELSE IF c = Adopts THEN legacy ELSE None
MarkBroken(c) == Unreadable(Content(c))

Idle == [op |-> "none", at |-> "idle", edit |-> Missing, cfg |-> Fresh, was |-> Missing,
         file |-> "config", save |-> Missing, release |-> None, mark |-> None,
         build |-> None, digest |-> None, alone |-> TRUE]

PassPhases == {"gate", "fetch", "snapshot", "record", "place", "mirror",
               "create", "write", "rename"}
Phases == PassPhases \cup {"idle", "lock", "close", "look", "before", "load", "floor",
                           "entry", "restore", "reinstate", "follow", "add"}

At(p, phase) == proc[p].at = phase
Passing(p) == proc[p].op = "run" /\ proc[p].at \in PassPhases

TypeOK ==
  /\ files["config"] \in FileState(RawConfigs, Procs)
  /\ files["status"] \in FileState(Configs, Procs)
  /\ \A c \in Channels : files[c] \in FileState(Nat, Procs)
  /\ \A x \in DOMAIN files : files[x].tmp = Missing => files[x].tmpBy = {}
  /\ legacy \in Legacies /\ installed \in Nat /\ ext \in Channels \cup {Missing}
  /\ cache \in [Channels -> [bytes : Nat, build : Nat, digest : Nat]]
  /\ lock \subseteq Procs /\ lapsed \in BOOLEAN /\ tangled \in BOOLEAN
  /\ \A p \in Procs :
       /\ proc[p].at \in Phases /\ (proc[p].at = "idle" <=> proc[p] = Idle)
       /\ proc[p].op \in {"none", "run", "dry", "edit", "rollback"}
       /\ proc[p].cfg \in Configs /\ proc[p].alone \in BOOLEAN
       /\ {proc[p].release, proc[p].mark, proc[p].build, proc[p].digest} \subseteq Nat
       /\ proc[p].at \in {"write", "rename"} => proc[p].save # Missing
       /\ Passing(p) => p \in lock
  /\ commands \in 0..MaxCommands /\ quits \in 0..MaxQuits
  /\ word \in Configs \cup {Missing}

\* A host installed afresh, or brought over from before there were channels.
Init ==
  /\ legacy \in Legacies /\ installed = legacy
  /\ files = [x \in Channels \cup {"config", "status"} |->
               OnDisk(IF x = "config" /\ legacy # None
                        THEN [channel |-> Undeclared, paused |-> "no"] ELSE Missing)]
  /\ cache = [c \in Channels |-> [bytes |-> None, build |-> None, digest |-> None]]
  /\ lock = {} /\ lapsed = FALSE
  /\ proc = [p \in Procs |-> Idle]
  /\ commands = 0 /\ quits = 0
  /\ word = LoadConfig /\ ext = LoadConfig.channel /\ tangled = FALSE

-----------------------------------------------------------------------------
Move(p, phase) == proc' = [proc EXCEPT ![p].at = phase]
Done(p) == proc' = [proc EXCEPT ![p] = Idle]

\* A process begins.  Commands that change the configuration and are under way
\* together are not alone, neither of them.
Begin(p, op, edit, first) ==
  LET rivals == IF op # "edit" THEN {}
                ELSE {q \in Procs \ {p} : proc[q].op = "edit"}
  IN proc' = [q \in Procs |->
       IF q = p THEN [Idle EXCEPT !.op = op, !.at = first, !.edit = edit,
                                  !.alone = rivals = {}]
       ELSE IF q \in rivals THEN [proc[q] EXCEPT !.alone = FALSE]
       ELSE proc[q]]

First == [run |-> "lock", dry |-> "look", rollback |-> "floor"]

\* Only `channel set` looks at the mirror first.
Command(p) ==
  /\ p \in Consoles /\ At(p, "idle")
  /\ commands < MaxCommands /\ commands' = commands + 1
  /\ \/ \E op \in Others : Begin(p, op, Missing, First[op])
     \/ \E e \in Edits : Begin(p, "edit", e, IF e.set = "channel" THEN "before" ELSE "load")
  /\ UNCHANGED <<files, legacy, host, lock, lapsed, quits, history>>

Wake ==
  /\ At(Daemon, "idle") /\ Begin(Daemon, "run", Missing, "lock")
  /\ UNCHANGED <<files, legacy, host, lock, lapsed, bounds, history>>

-----------------------------------------------------------------------------
(* Saving a file: write_json_atomic.                                         *)

\* p goes on to save `data` in `file`, and is done with what it had read.
Saving(p, file, data) ==
  [proc EXCEPT ![p] = [@ EXCEPT !.at = "create", !.file = file, !.save = data,
     !.release = None, !.mark = None, !.build = None, !.digest = None]]

Create(p) ==
  /\ At(p, "create") /\ Move(p, "write")
  /\ files' = [files EXCEPT ![proc[p].file] = Created(@, p)]
  /\ UNCHANGED <<legacy, host, lock, lapsed, bounds, history>>

Write(p) ==
  /\ At(p, "write") /\ Move(p, "rename")
  /\ LET x == proc[p].file IN
     \E f \in Written(files[x], p, proc[p].save) : files' = [files EXCEPT ![x] = f]
  /\ UNCHANGED <<legacy, host, lock, lapsed, bounds, history>>

Leave(p) == Done(p) /\ lock' = lock \ {p}

\* The mirror is refreshed after a save of anything else; after the mirror comes
\* the extension, when the channel was set.
GoOn(p) ==
  IF proc[p].file # "status" THEN Move(p, "mirror") /\ UNCHANGED lock
  ELSE IF proc[p].op = "edit" /\ proc[p].edit.set = "channel"
    THEN Move(p, "follow") /\ UNCHANGED lock
  ELSE Leave(p)

Rename(p) ==
  LET x == proc[p].file IN
  /\ At(p, "rename") /\ CanRename(files[x])
  /\ files' = [files EXCEPT ![x] = Renamed(@, p)]
  /\ word' = IF x # "config" THEN word ELSE IF proc[p].alone THEN proc[p].cfg ELSE Missing
  /\ GoOn(p)
  /\ UNCHANGED <<legacy, host, lapsed, bounds, tangled>>

\* Another writer has renamed the sibling away: an error, except for the mirror.
RenameFails(p) ==
  /\ At(p, "rename") /\ ~CanRename(files[proc[p].file])
  /\ files' = [files EXCEPT ![proc[p].file] = Closed(@, p)]
  /\ IF proc[p].file = "status" THEN GoOn(p) ELSE Leave(p)
  /\ UNCHANGED <<legacy, host, lapsed, bounds, history>>

\* Mutated form: a paused pass does not report.
Mirror_NotWhenPaused(p) ==
  /\ At(p, "mirror")
  /\ IF proc[p].op = "run" /\ IsPaused(proc[p].cfg) THEN Leave(p)
     ELSE /\ proc' = Saving(p, "status", proc[p].cfg)
          /\ UNCHANGED lock
  /\ UNCHANGED <<files, legacy, host, lapsed, bounds, history>>

\* The mirror gets the configuration p has read or written; the rest of what it
\* shows is left out.
Mirror(p) ==
  /\ At(p, "mirror")
  /\ proc' = Saving(p, "status", proc[p].cfg)
  /\ UNCHANGED <<files, legacy, host, lock, lapsed, bounds, history>>

-----------------------------------------------------------------------------
(* A full pass: run_once_with_feed.                                          *)

\* try_acquire: the lock is whose file it is, or the mutex nobody has open yet.
Acquire(p) ==
  /\ At(p, "lock") /\ lock = {} /\ lock' = {p} /\ Move(p, "gate")
  /\ UNCHANGED <<files, legacy, host, lapsed, bounds, history>>

\* already_running.  On Windows the refused process has the mutex open for an
\* instant, and the mutex exists for as long as anybody has.
Refused(p) ==
  /\ At(p, "lock") /\ lock # {}
  /\ IF Platform = "windows" THEN lock' = lock \cup {p} /\ Move(p, "close")
                             ELSE UNCHANGED lock /\ Done(p)
  /\ UNCHANGED <<files, legacy, host, lapsed, bounds, history>>

CloseHandle(p) ==
  /\ At(p, "close") /\ Leave(p)
  /\ UNCHANGED <<files, legacy, host, lapsed, bounds, history>>

\* Mutated form: the gate trusts the mirror, which a pass may have put back.
Gate_FromMirror(p) ==
  LET c == IF Content("status") \in {Missing, Empty, Mixed} THEN LoadConfig
           ELSE Content("status") IN
  /\ At(p, "gate")
  /\ IF ConfigBroken THEN Leave(p)
     ELSE /\ proc' = [proc EXCEPT ![p].cfg = c, ![p].at = IF IsPaused(c) THEN "mirror" ELSE "fetch"]
          /\ UNCHANGED lock
  /\ UNCHANGED <<files, legacy, host, lapsed, bounds, history>>

\* A configuration that cannot be read stops the pass; a pause is reported.
Gate(p) ==
  /\ At(p, "gate")
  /\ IF ConfigBroken THEN Leave(p)
     ELSE /\ proc' = [proc EXCEPT ![p].cfg = LoadConfig,
                                  ![p].at = IF IsPaused(LoadConfig) THEN "mirror" ELSE "fetch"]
          /\ UNCHANGED lock
  /\ UNCHANGED <<files, legacy, host, lapsed, bounds, history>>

\* The marks, the feed and the plan: what is installed is replaced by something
\* newer and left alone otherwise.  Nothing is done about a feed that is
\* rejected.
Fetch(p) ==
  LET c == proc[p].cfg.channel IN
  /\ At(p, "fetch")
  /\ \/ /\ MarkBroken(c) /\ Leave(p)
     \/ ~MarkBroken(c) /\ Move(p, "mirror") /\ UNCHANGED lock
     \/ /\ ~MarkBroken(c) /\ UNCHANGED lock
        /\ \E r \in Offers[c] :
             /\ r >= LoadMark(c)
             /\ proc' = IF installed >= r THEN Saving(p, c, r)
                        ELSE [proc EXCEPT ![p].at = IF installed = None THEN "place" ELSE "snapshot",
                                          ![p].release = r, ![p].build = installed]
  /\ UNCHANGED <<files, legacy, host, lapsed, bounds, history>>

\* A rollback that has verified the cached bytes of a channel, and will now copy
\* them.
Copying(c) == \E q \in Procs : At(q, "reinstate") /\ proc[q].cfg.channel = c

\* LkgCache::snapshot: the bytes under their digest, then the record of that
\* digest and of the build the plan detected.
Snapshot(p) ==
  /\ At(p, "snapshot")
  /\ proc' = [proc EXCEPT ![p].at = "record", ![p].digest = installed]
  /\ cache' = [cache EXCEPT ![proc[p].cfg.channel].bytes = installed]
  /\ tangled' = (tangled \/ Copying(proc[p].cfg.channel))
  /\ UNCHANGED <<files, legacy, installed, ext, lock, lapsed, bounds, word>>

Record(p) ==
  /\ At(p, "record") /\ Move(p, "place")
  /\ cache' = [cache EXCEPT ![proc[p].cfg.channel].build = proc[p].build,
                            ![proc[p].cfg.channel].digest = proc[p].digest]
  /\ UNCHANGED <<files, legacy, installed, ext, lock, lapsed, bounds, history>>

\* Mutated form: the marks are saved for the channel tracked by now.
Place_ChannelNow(p) ==
  /\ At(p, "place") /\ ~ConfigBroken
  /\ \/ /\ installed' = proc[p].release
        /\ proc' = Saving(p, LoadConfig.channel, proc[p].release)
     \/ UNCHANGED installed /\ Move(p, "mirror")
  /\ UNCHANGED <<files, legacy, cache, ext, lock, lapsed, bounds, history>>

\* Replaced, and the marks move; or deferred, and they do not.
Place(p) ==
  /\ At(p, "place")
  /\ \/ /\ installed' = proc[p].release
        /\ proc' = Saving(p, proc[p].cfg.channel, proc[p].release)
     \/ UNCHANGED installed /\ Move(p, "mirror")
  /\ UNCHANGED <<files, legacy, cache, ext, lock, lapsed, bounds, history>>

-----------------------------------------------------------------------------
(* The commands that take no lock.                                           *)

\* dry_check: a configuration that cannot be read is taken for the default.
Look(p) ==
  LET c == IF ConfigBroken THEN Fresh ELSE LoadConfig IN
  /\ At(p, "look")
  /\ IF MarkBroken(c.channel) THEN Done(p)
     ELSE proc' = [proc EXCEPT ![p].at = "mirror", ![p].cfg = c]
  /\ UNCHANGED <<files, legacy, host, lock, lapsed, bounds, history>>

\* run_channel remembers what the mirror says the channel was.
Before(p) ==
  LET s == Content("status") IN
  /\ At(p, "before")
  /\ proc' = [proc EXCEPT ![p].at = "load",
                ![p].was = IF Unreadable(s) THEN Missing
                           ELSE IF s = Missing THEN Default ELSE s.channel]
  /\ UNCHANGED <<files, legacy, host, lock, lapsed, bounds, history>>

Edited(c, e) == IF e.set = "channel" THEN [c EXCEPT !.channel = e.to]
                                     ELSE [c EXCEPT !.paused = e.to]

\* mutate_config: load, edit, and on to the save.
Load(p) ==
  /\ At(p, "load")
  /\ IF ConfigBroken THEN Done(p)
     ELSE LET c == Edited(LoadConfig, proc[p].edit) IN
          proc' = [Saving(p, "config", c) EXCEPT ![p].cfg = c]
  /\ UNCHANGED <<files, legacy, host, lock, lapsed, bounds, history>>

\* follow_ext_channel: nothing to do unless the channel is known to have changed;
\* otherwise the extension is removed, and after a while put back.
Follow(p) ==
  /\ At(p, "follow")
  /\ IF proc[p].was \in {Missing, proc[p].cfg.channel}
       THEN Done(p) /\ UNCHANGED ext
       ELSE Move(p, "add") /\ ext' = Missing
  /\ UNCHANGED <<files, legacy, installed, cache, lock, lapsed, bounds, history>>

Add(p) ==
  /\ At(p, "add") /\ ext' = proc[p].cfg.channel /\ Done(p)
  /\ UNCHANGED <<files, legacy, installed, cache, lock, lapsed, bounds, history>>

\* The manual rollback: the floor of the tracked channel, the record in its
\* cache, the gate, and the bytes.
Floor(p) ==
  LET c == LoadConfig.channel IN
  /\ At(p, "floor")
  /\ IF ConfigBroken THEN Done(p)
     ELSE IF MarkBroken(c) THEN Done(p)
     ELSE proc' = [proc EXCEPT ![p].at = "entry", ![p].cfg = LoadConfig, ![p].mark = LoadMark(c)]
  /\ UNCHANGED <<files, legacy, host, lock, lapsed, bounds, history>>

Entry(p) ==
  LET e == cache[proc[p].cfg.channel] IN
  /\ At(p, "entry")
  /\ IF e.digest = None THEN Done(p)
     ELSE proc' = [proc EXCEPT ![p].at = "restore", ![p].build = e.build, ![p].digest = e.digest]
  /\ UNCHANGED <<files, legacy, host, lock, lapsed, bounds, history>>

\* Mutated form: the cached build is not held against the floor.
Restore_Ungated(p) ==
  /\ At(p, "restore")
  /\ IF cache[proc[p].cfg.channel].bytes = proc[p].digest THEN Move(p, "reinstate") ELSE Done(p)
  /\ UNCHANGED <<files, legacy, host, lock, lapsed, bounds, history>>

Restore(p) ==
  /\ At(p, "restore")
  /\ IF /\ proc[p].build >= FloorOf[proc[p].mark]
        /\ cache[proc[p].cfg.channel].bytes = proc[p].digest
       THEN Move(p, "reinstate") ELSE Done(p)
  /\ UNCHANGED <<files, legacy, host, lock, lapsed, bounds, history>>

\* A pass that has detected a build, and will now snapshot the bytes.
Detected == \E q \in Procs : At(q, "snapshot")

Reinstate(p) ==
  /\ At(p, "reinstate") /\ Done(p)
  /\ installed' = cache[proc[p].cfg.channel].bytes
  /\ tangled' = (tangled \/ Detected)
  /\ UNCHANGED <<files, legacy, cache, ext, lock, lapsed, bounds, word>>

-----------------------------------------------------------------------------
(* The world.                                                                *)

\* Killed, or ended by a call that fails: the OS closes what p had open.
Quit(p) ==
  /\ ~At(p, "idle") /\ quits < MaxQuits /\ quits' = quits + 1
  /\ Leave(p)
  /\ files' = [x \in DOMAIN files |-> Closed(files[x], p)]
  /\ UNCHANGED <<legacy, host, lapsed, commands, history>>

Lapse ==
  /\ ~ConfigBroken /\ LoadConfig.paused = "snooze" /\ ~lapsed /\ lapsed' = TRUE
  /\ UNCHANGED <<files, legacy, host, lock, proc, bounds, history>>

Step(p) ==
  \/ Acquire(p) \/ Refused(p) \/ CloseHandle(p) \/ Gate(p) \/ Fetch(p)
  \/ Snapshot(p) \/ Record(p) \/ Place(p)
  \/ Create(p) \/ Write(p) \/ Rename(p) \/ RenameFails(p) \/ Mirror(p)
  \/ Look(p) \/ Before(p) \/ Load(p) \/ Follow(p) \/ Add(p)
  \/ Floor(p) \/ Entry(p) \/ Restore(p) \/ Reinstate(p)

Next == \/ \E p \in Procs : Command(p) \/ Step(p) \/ Quit(p)
        \/ Wake \/ Lapse

Spec == Init /\ [][Next]_vars

\* The daily wake keeps coming (Schedule says when), and a process goes on.
FairSpec == Spec /\ WF_vars(Wake) /\ \A p \in Procs : WF_vars(Step(p))

-----------------------------------------------------------------------------
(* Properties.                                                               *)

\* However passes, commands, kills and channel switches interleave, what a pass
\* reads as a channel's mark is only ever moved, whole, to a newer release of
\* that channel: no pass undoes another's advance, no unreadable or forgotten
\* file resets one (lock.rs, state.rs, persist.rs).
Marks == INSTANCE ChannelMarks WITH mark <- [c \in Channels |-> LoadMark(c)]
MarksOnlyAdvance == Marks!Spec

\* A manual rollback takes no lock and may run beside a pass at any point of it;
\* it reinstates nothing below the floor it has read, whatever was killed or
\* switched before, and whatever the pass replaces, captures, records and saves
\* meanwhile.  The exceptions are two windows in which nothing protects it
\* (`tangled`): a pass captures other bytes between the check of the cached ones
\* and their copy, or a rollback reinstates between a pass's detection of the
\* build and its capture, and the record is wrong from then on (lib.rs, rollback;
\* rollback.rs, snapshot and restore).
RollbackKeepsFloor ==
  [][\A p \in Procs :
       At(p, "reinstate") /\ proc'[p] # proc[p] /\ installed' # installed /\ ~tangled
       => installed' >= FloorOf[proc[p].mark]]_vars

\* Once a pause has been acknowledged no pass goes past its gate, until a resume
\* or the deadline: not a pass that was waiting, nor one that finds the mirror
\* saying otherwise (lib.rs, run_once_with_feed and mutate_config).
PauseHonored ==
  [][\A p \in Procs :
       At(p, "gate") /\ proc'[p].at = "fetch" /\ word # Missing => ~IsPaused(word)]_vars

\* A pass or a dry check may put an old configuration back into the mirror; with
\* the wakes going on it comes to show the configuration in force for good, also
\* while the beacon is paused (lib.rs, refresh_status_after_pass).
MirrorCatchesUp == <>[](ConfigBroken \/ Content("status") = LoadConfig)

-----------------------------------------------------------------------------
(* What the documents say and the code does not do.                          *)

\* persist.rs: a reader never observes a partial write, and a crash never leaves a
\* truncated file.  For the configuration, which every pass reads and none goes on
\* without.  (Two commands save it through the same sibling.)
ConfigStaysReadable == ~ConfigBroken
=============================================================================
