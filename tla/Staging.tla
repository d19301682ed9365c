------------------------------- MODULE Staging --------------------------------
(***************************************************************************)
(* From the feed to the installed bytes: the unprivileged worker that        *)
(* fetches, verifies and stages (dig-updater-worker), the broker that spawns *)
(* it under a budget (spawn.rs, sandbox.rs), and the pass that copies what    *)
(* is staged into a private file, verifies the copy, picks the variant this  *)
(* host can load and installs it (pass.rs, install.rs of dig-updater-broker).*)
(*                                                                         *)
(* The staging directory has fixed file names, is written by processes the   *)
(* broker does not trust, and is shared: by a dry check, which takes no lock, *)
(* and by the worker of a pass that was killed, which lives on.  A file is a *)
(* sequence of chunks; several workers may have it open.                     *)
(***************************************************************************)
EXTENDS TrustChain, Sequences, FiniteSets, Functions

CONSTANTS
  Platform,     \* "unix" or "windows"
  Workers,      \* the worker processes that may be alive at once
  NoWorker,
  Manifests,    \* what a feed may serve: SignedManifest, and `artifacts`, below
  NoManifest,
  Newest,       \* what the feed goes on serving in the end
  Length,       \* digest -> how many chunks the artifact has
  Hosts,        \* the hosts to explore: digest -> its Loadability there
  Before,       \* component -> the digest installed at first
  Now,          \* the time of every check
  MaxTrouble    \* bound: dry checks, failing calls and downloads, brokers killed
                \* and acts of a compromised worker, taken together

Digests == DOMAIN Length
Whole(d) == [i \in 1..Length[d] |-> d]

\* m.artifacts: what m has for this platform, in the order of the manifest, a
\* component's default variant first; each with the name it is staged under.
Artifact(c, f, d) == [component |-> c, file |-> f, digest |-> d]
Variants(m, c) == SelectSeq(m.artifacts, LAMBDA a : a.component = c)
Files == UNION {{m.artifacts[i].file : i \in DOMAIN m.artifacts} : m \in Manifests}

ASSUME StagingAssumption ==
  /\ Platform \in {"unix", "windows"} /\ Workers \subseteq Nat \ {NoWorker}
  /\ Newest \in Manifests /\ NoManifest \notin Manifests
  /\ Length \in [Digests -> Nat \ {0}] /\ Before \in [Components -> Digests]
  /\ {"junk", "hole", "missing"} \cap Digests = {}
  /\ \A m \in Manifests :
       LET listed == Range(m.artifacts) IN
       /\ m.artifacts \in Seq([component : Components, file : Files, digest : Digests]) \ {<<>>}
       /\ \A a, b \in listed : a.file = b.file => a = b
       /\ \A c \in Components : Variants(m, c) \in Seq(listed)
       /\ {m.root_version, m.sequence, m.generated, m.floor} \subseteq Nat
  /\ Hosts \subseteq [Digests -> {"loadable", "unknown", "unloadable"}]
  /\ Now \in Nat
  /\ MaxTrouble \in Nat

\* What a file may hold where its bytes are not an artifact's.
Junk == "junk"
Hole == "hole"    \* skipped over by a writer that was further on
Missing == <<"missing">>

VARIABLES
  loads,      \* fixed: what this host can load
  dir,        \* the staging directory: "absent", its creator's, or the "worker"'s
  files,      \* name -> its chunks, and the workers that have it open
  worker,     \* worker -> what it is doing
  pass,       \* the full pass under way, if any: it has the lock
  dry,        \* the dry check under way, if any
  installed,  \* component -> chunks
  marks,
  trouble,
  disturbed   \* history: somebody else could write where this pass stages

vars == <<loads, dir, files, worker, pass, dry, installed, marks, trouble, disturbed>>

Resting == [at |-> "none", marks |-> Initial, man |-> NoManifest, todo |-> <<>>, got |-> <<>>,
            report |-> "rejected"]
IdlePass == [at |-> "idle", worker |-> NoWorker, man |-> NoManifest, todo |-> {}, cur |-> Missing,
             variant |-> 0, fallback |-> 0, final |-> FALSE, copy |-> <<>>, held |-> Missing,
             allOk |-> TRUE]
IdleDry == [at |-> "idle", worker |-> NoWorker]

Content == {Missing} \cup Seq(Digests \cup {Junk, Hole})

TypeOK ==
  /\ loads \in Hosts /\ dir \in {"absent", "creator", "worker"}
  /\ \A f \in Files :
       /\ files[f].content \in Content
       /\ files[f].by \subseteq {w \in Workers : worker[w].at \in {"chunk", "hang"}}
  /\ \A w \in Workers :
       /\ worker[w].at \in {"none", "feed", "create", "chunk", "hang", "report"}
       /\ worker[w].at = "none" <=> worker[w] = Resting
       /\ worker[w].report = "verified" => worker[w].man \in Manifests
  /\ pass.at \in {"idle", "make", "own", "spawn", "wait", "next", "open", "read", "check", "install"}
  /\ pass.at = "idle" <=> pass = IdlePass
  /\ pass.at \in {"open", "read", "check", "install"} => pass.variant \in DOMAIN Variants(pass.man, pass.cur)
  /\ dry.at \in {"idle", "spawn", "wait"}
  /\ \A c \in Components : installed[c] \in Content
  /\ marks \in TrustState /\ disturbed \in BOOLEAN
  /\ trouble \in 0..MaxTrouble

Init ==
  /\ loads \in Hosts /\ dir = "absent"
  /\ files = [f \in Files |-> [content |-> Missing, by |-> {}]]
  /\ worker = [w \in Workers |-> Resting]
  /\ pass = IdlePass /\ dry = IdleDry
  /\ installed = [c \in Components |-> Whole(Before[c])]
  /\ marks = Initial
  /\ trouble = 0
  /\ disturbed = FALSE

Source == Variants(pass.man, pass.cur)[pass.variant]
Alive == {w \in Workers : worker[w].at # "none"}
Trouble == trouble < MaxTrouble /\ trouble' = trouble + 1

\* A worker that is gone has nothing open; what it has written stays.
ClosedBy(w) == [f \in Files |-> [files[f] EXCEPT !.by = @ \ {w}]]

-----------------------------------------------------------------------------
(* The worker: run, of dig-updater-worker.                                   *)

WorkerAt(w, phase) == worker[w].at = phase
Target(w) == Head(worker[w].todo)
Reports(w, report, man) ==
  worker' = [worker EXCEPT ![w] = [Resting EXCEPT !.at = "report", !.report = report, !.man = man]]
Rejects(w) == Reports(w, "rejected", NoManifest)

\* ensure_staging_dir: the directory is there and can be written.
Usable == dir = "worker" \/ (Platform = "windows" /\ dir # "absent")

\* fetch_feed, verify_update_chain against the marks the broker sent, and the
\* directory (which nothing makes unusable once it is usable).
Feed(w, m) ==
  /\ WorkerAt(w, "feed")
  /\ IF Accepts(worker[w].marks, m, Now) /\ Usable
       THEN worker' = [worker EXCEPT ![w].at = "create", ![w].man = m,
                                     ![w].todo = m.artifacts]
       ELSE Rejects(w)
  /\ UNCHANGED <<loads, dir, files, pass, dry, installed, marks, trouble, disturbed>>

FeedUnavailable(w) ==
  /\ WorkerAt(w, "feed") /\ Trouble /\ Rejects(w)
  /\ UNCHANGED <<loads, dir, files, pass, dry, installed, marks, disturbed>>

\* Mutated form: what is there already is overwritten in place.
Opened_Kept(f, w) == [content |-> IF f.content = Missing THEN <<>> ELSE f.content, by |-> f.by \cup {w}]

\* File::create: whoever else has the file open now has it empty.
Opened(f, w) == [content |-> <<>>, by |-> f.by \cup {w}]

\* Mutated form: a file that is there already is refused.
Create_New(w) ==
  /\ WorkerAt(w, "create")
  /\ IF files[Target(w).file].content # Missing
       THEN Rejects(w) /\ UNCHANGED files
       ELSE /\ worker' = [worker EXCEPT ![w].at = "chunk"]
            /\ files' = [files EXCEPT ![Target(w).file] = Opened(@, w)]
  /\ UNCHANGED <<loads, dir, pass, dry, installed, marks, trouble, disturbed>>

Create(w) ==
  /\ WorkerAt(w, "create")
  /\ worker' = [worker EXCEPT ![w].at = "chunk"]
  /\ files' = [files EXCEPT ![Target(w).file] = Opened(@, w)]
  /\ UNCHANGED <<loads, dir, pass, dry, installed, marks, trouble, disturbed>>

\* A chunk goes where its writer is, whatever the file holds by now.
Put(content, at, chunk) ==
  [i \in 1..(IF at > Len(content) THEN at ELSE Len(content)) |->
     IF i = at THEN chunk ELSE IF i <= Len(content) THEN content[i] ELSE Hole]

\* The chunk is written, unless the file has meanwhile lost its name, and hashed.
Receive(w, chunk) ==
  LET f == Target(w).file IN
  /\ WorkerAt(w, "chunk") /\ Len(worker[w].got) < Length[Target(w).digest]
  /\ files' = IF w \notin files[f].by THEN files
              ELSE [files EXCEPT ![f].content = Put(@, Len(worker[w].got) + 1, chunk)]
  /\ worker' = [worker EXCEPT ![w].got = Append(@, chunk)]
  /\ UNCHANGED <<loads, dir, pass, dry, installed, marks, disturbed>>
Chunk(w) == Receive(w, Target(w).digest) /\ UNCHANGED trouble
WrongChunk(w) == Receive(w, Junk) /\ Trouble

\* A broker that is still there waits for its worker.
Awaited(w) == (pass.at = "wait" /\ pass.worker = w) \/ (dry.at = "wait" /\ dry.worker = w)

\* Verified: on to the next artifact; everything is staged in the end.
Staged(w) ==
  LET rest == Tail(worker[w].todo) IN
  /\ WorkerAt(w, "chunk") /\ worker[w].got = Whole(Target(w).digest)
  /\ files' = ClosedBy(w)
  /\ IF rest = <<>> THEN Reports(w, "verified", worker[w].man)
     ELSE worker' = [worker EXCEPT ![w].at = "create", ![w].todo = rest, ![w].got = <<>>]
  /\ UNCHANGED <<loads, dir, pass, dry, installed, marks, trouble, disturbed>>

\* The name goes; a broker that is reading keeps the file it has open.
Discard(w) ==
  LET f == Target(w).file IN
  /\ files' = [ClosedBy(w) EXCEPT ![f] = [content |-> Missing, by |-> {}]]
  /\ pass' = IF pass.at = "read" /\ Source.file = f /\ pass.held = Missing
               THEN [pass EXCEPT !.held = files[f].content] ELSE pass
  /\ Rejects(w)

\* The digest does not match; or the transfer fails, stalls or grows too long.
Mismatch(w) ==
  /\ WorkerAt(w, "chunk") /\ Len(worker[w].got) = Length[Target(w).digest]
  /\ worker[w].got # Whole(Target(w).digest) /\ Discard(w)
  /\ UNCHANGED <<loads, dir, dry, installed, marks, trouble, disturbed>>
TransferFails(w) ==
  /\ WorkerAt(w, "chunk") /\ Trouble /\ Discard(w)
  /\ UNCHANGED <<loads, dir, dry, installed, marks, disturbed>>

\* A compromised worker: it hangs, it reports what it likes, or it rewrites what
\* has been staged, by itself or by what it leaves behind.
Hang(w) ==
  /\ worker[w].at \in {"feed", "create", "chunk"} /\ Trouble
  /\ worker' = [worker EXCEPT ![w].at = "hang"]
  /\ UNCHANGED <<loads, dir, files, pass, dry, installed, marks, disturbed>>
Lie(w, m) ==
  /\ worker[w].at \in {"feed", "create", "chunk"} /\ Trouble
  /\ Reports(w, "verified", m) /\ files' = ClosedBy(w)
  /\ disturbed' = TRUE
  /\ UNCHANGED <<loads, dir, pass, dry, installed, marks>>
Rewrite(f) ==
  /\ dir = "worker" /\ Trouble /\ disturbed' = TRUE
  /\ files[f].content # Missing /\ files' = [files EXCEPT ![f].content = <<Junk>>]
  /\ UNCHANGED <<loads, dir, worker, pass, dry, installed, marks>>

\* Nobody waits for this worker any more: it writes to a broken pipe, and ends.
Orphaned(w) ==
  /\ WorkerAt(w, "report") /\ ~Awaited(w)
  /\ worker' = [worker EXCEPT ![w] = Resting]
  /\ UNCHANGED <<loads, dir, files, pass, dry, installed, marks, trouble, disturbed>>

-----------------------------------------------------------------------------
(* Spawning: what a full pass and a dry check do alike.                      *)

\* prepare_worker_writable_dir: create and harden, then give it to the worker.
Make == dir' = IF dir = "absent" THEN "creator" ELSE dir
Own == dir' = IF Platform = "unix" THEN "worker" ELSE dir

\* Which of the identities is free does not matter: the first is taken.
Spawned(w) ==
  /\ worker[w].at = "none" /\ \A v \in Workers : v < w => worker[v].at # "none"
  /\ worker' = [worker EXCEPT ![w] = [Resting EXCEPT !.at = "feed", !.marks = marks]]

\* A worker that hangs, or an honest one that is too slow, is killed when the
\* budget is spent.  On Windows stdout is drained first, and that ends only when
\* the worker closes it.
Deadline(w) ==
  /\ Platform = "unix"
  /\ \/ WorkerAt(w, "hang") /\ UNCHANGED trouble
     \/ worker[w].at \in {"feed", "create", "chunk"} /\ Trouble
  /\ worker' = [worker EXCEPT ![w] = Resting] /\ files' = ClosedBy(w)

\* Best effort: a dry check goes on whatever came of it.
PrepareDry ==
  /\ dry.at = "idle" /\ Trouble /\ dry' = [dry EXCEPT !.at = "spawn"]
  /\ \/ Make
     \/ Own
     \/ UNCHANGED dir
  /\ UNCHANGED <<loads, files, worker, pass, installed, marks, disturbed>>
SpawnDry(w) ==
  /\ dry.at = "spawn" /\ Spawned(w) /\ dry' = [at |-> "wait", worker |-> w]
  /\ disturbed' = TRUE
  /\ UNCHANGED <<loads, dir, files, pass, installed, marks, trouble>>
ReadDry(w) ==
  /\ dry.at = "wait" /\ dry.worker = w /\ WorkerAt(w, "report")
  /\ dry' = IdleDry /\ worker' = [worker EXCEPT ![w] = Resting]
  /\ UNCHANGED <<loads, dir, files, pass, installed, marks, trouble, disturbed>>
DeadlineDry(w) ==
  /\ dry.at = "wait" /\ dry.worker = w /\ Deadline(w) /\ dry' = IdleDry
  /\ UNCHANGED <<loads, dir, pass, installed, marks, disturbed>>

-----------------------------------------------------------------------------
(* The pass, under the single-instance lock: run_pass and what it calls.     *)

PassAt(phase) == pass.at = phase
Ends == pass' = IdlePass

Wake ==
  /\ PassAt("idle") /\ pass' = [pass EXCEPT !.at = "make"]
  /\ UNCHANGED <<loads, dir, files, worker, dry, installed, marks, trouble, disturbed>>
MakePass ==
  /\ PassAt("make") /\ Make /\ pass' = [pass EXCEPT !.at = "own"]
  /\ UNCHANGED <<loads, files, worker, dry, installed, marks, trouble, disturbed>>
OwnPass ==
  /\ PassAt("own") /\ Own /\ pass' = [pass EXCEPT !.at = "spawn"]
  /\ UNCHANGED <<loads, files, worker, dry, installed, marks, trouble, disturbed>>
SpawnPass(w) ==
  /\ PassAt("spawn") /\ Spawned(w) /\ pass' = [pass EXCEPT !.at = "wait", !.worker = w]
  /\ disturbed' = (Alive # {})
  /\ UNCHANGED <<loads, dir, files, dry, installed, marks, trouble>>
DeadlinePass(w) ==
  /\ PassAt("wait") /\ pass.worker = w /\ Deadline(w) /\ Ends
  /\ UNCHANGED <<loads, dir, dry, installed, marks, disturbed>>

Offered(m, c) == 1 \in DOMAIN Variants(m, c)

\* Current, by the digest of any variant.
Current(m, c) == \E a \in Range(Variants(m, c)) : installed[c] = Whole(a.digest)

\* The report is read; a verified one is verified again and planned from.
ReadReport(w) ==
  LET m == worker[w].man IN
  /\ PassAt("wait") /\ pass.worker = w /\ WorkerAt(w, "report")
  /\ worker' = [worker EXCEPT ![w] = Resting]
  /\ IF worker[w].report = "verified" /\ Accepts(marks, m, Now)
       THEN pass' = [pass EXCEPT !.at = "next", !.worker = NoWorker, !.man = m,
                       !.todo = {c \in Components : Offered(m, c) /\ ~Current(m, c)}]
       ELSE Ends
  /\ UNCHANGED <<loads, dir, files, dry, installed, marks, trouble, disturbed>>

Take(c) ==
  /\ PassAt("next") /\ c \in pass.todo
  /\ pass' = [pass EXCEPT !.at = "open", !.cur = c, !.variant = 1, !.fallback = 0, !.final = FALSE]
  /\ UNCHANGED <<loads, dir, files, worker, dry, installed, marks, trouble, disturbed>>

\* stage_and_verify_private: the staged file is opened once, and read once into
\* the private copy.
Open ==
  /\ PassAt("open")
  /\ IF files[Source.file].content = Missing THEN Ends
     ELSE pass' = [pass EXCEPT !.at = "read", !.copy = <<>>, !.held = Missing]
  /\ UNCHANGED <<loads, dir, files, worker, dry, installed, marks, trouble, disturbed>>
Read ==
  LET f == IF pass.held = Missing THEN files[Source.file].content ELSE pass.held
      n == Len(pass.copy) IN
  /\ PassAt("read")
  /\ pass' = IF n < Len(f) THEN [pass EXCEPT !.copy = Append(@, f[n + 1])]
             ELSE [pass EXCEPT !.at = "check", !.held = Missing]
  /\ UNCHANGED <<loads, dir, files, worker, dry, installed, marks, trouble, disturbed>>

\* Mutated form: it is the staged file that is hashed.
Matches_StagedFile == files[Source.file].content = Whole(Source.digest)

\* The copy itself is what is hashed, against the manifest verified again.
Matches == pass.copy = Whole(Source.digest)

\* select_loadable_variant: the first that loads; or else the first of which that
\* is not known, staged again if another's bytes are in its place; or none.
Candidates == Variants(pass.man, pass.cur)
More == pass.variant + 1 \in DOMAIN Candidates

\* Mutated form: one candidate too many.
NextVariant_PastTheEnd(fallback) ==
  IF pass.variant <= Len(Candidates)
    THEN [pass EXCEPT !.at = "open", !.variant = @ + 1, !.fallback = fallback]
  ELSE [pass EXCEPT !.at = "next", !.todo = @ \ {pass.cur}]

\* Mutated form: the fallback's bytes are taken to be in place still.
NextVariant_NoRestage(fallback) ==
  IF More
    THEN [pass EXCEPT !.at = "open", !.variant = @ + 1, !.fallback = fallback]
  ELSE IF fallback = 0 THEN [pass EXCEPT !.at = "next", !.todo = @ \ {pass.cur}]
  ELSE [pass EXCEPT !.at = "install", !.variant = fallback, !.fallback = fallback]

NextVariant(fallback) ==
  IF More
    THEN [pass EXCEPT !.at = "open", !.variant = @ + 1, !.fallback = fallback]
  ELSE IF fallback = 0 THEN [pass EXCEPT !.at = "next", !.todo = @ \ {pass.cur}]
  ELSE IF fallback = pass.variant THEN [pass EXCEPT !.at = "install", !.fallback = fallback]
  ELSE [pass EXCEPT !.at = "open", !.variant = fallback, !.fallback = fallback, !.final = TRUE]

Check ==
  LET load == loads[Source.digest] IN
  /\ PassAt("check")
  /\ pass' = IF ~Matches THEN IdlePass
             ELSE IF pass.final \/ load = "loadable" THEN [pass EXCEPT !.at = "install"]
             ELSE NextVariant(IF load = "unknown" /\ pass.fallback = 0 THEN pass.variant
                              ELSE pass.fallback)
  /\ UNCHANGED <<loads, dir, files, worker, dry, installed, marks, trouble, disturbed>>

Install ==
  /\ PassAt("install") /\ installed' = [installed EXCEPT ![pass.cur] = pass.copy]
  /\ pass' = [pass EXCEPT !.at = "next", !.todo = @ \ {pass.cur}]
  /\ UNCHANGED <<loads, dir, files, worker, dry, marks, trouble, disturbed>>

\* Deferred or rolled back: see UpdatePass.
NotInstalled ==
  /\ PassAt("install") /\ Trouble
  /\ pass' = [pass EXCEPT !.at = "next", !.todo = @ \ {pass.cur}, !.allOk = FALSE]
  /\ UNCHANGED <<loads, dir, files, worker, dry, installed, marks, disturbed>>

Finish ==
  /\ PassAt("next") /\ pass.todo = {} /\ Ends
  /\ marks' = IF pass.allOk THEN Advance(marks, pass.man) ELSE marks
  /\ UNCHANGED <<loads, dir, files, worker, dry, installed, trouble, disturbed>>

\* Any call of the broker's may fail: the pass ends.
PassFails ==
  /\ ~PassAt("idle") /\ ~PassAt("wait") /\ Trouble /\ Ends
  /\ UNCHANGED <<loads, dir, files, worker, dry, installed, marks, disturbed>>

\* The broker is killed; the worker it has spawned is not.
KillPass ==
  /\ ~PassAt("idle") /\ Trouble /\ Ends
  /\ UNCHANGED <<loads, dir, files, worker, dry, installed, marks, disturbed>>
KillDry ==
  /\ dry.at # "idle" /\ Trouble /\ dry' = IdleDry
  /\ UNCHANGED <<loads, dir, files, worker, pass, installed, marks, disturbed>>

WorkerStep(w) ==
  \/ \E m \in Manifests : Feed(w, m)
  \/ Create(w) \/ Chunk(w) \/ Staged(w) \/ Mismatch(w) \/ Orphaned(w)
DryStep == \E w \in Workers : SpawnDry(w) \/ ReadDry(w) \/ DeadlineDry(w)
PassStep ==
  \/ MakePass \/ OwnPass \/ Open \/ Read \/ Check \/ Install \/ Finish
  \/ \E c \in Components : Take(c)
  \/ \E w \in Workers : SpawnPass(w) \/ DeadlinePass(w) \/ ReadReport(w)

Steps == Wake \/ PassStep \/ DryStep \/ \E w \in Workers : WorkerStep(w)

Next ==
  \/ Steps \/ PrepareDry
  \/ \E w \in Workers : \/ FeedUnavailable(w) \/ WrongChunk(w)
                         \/ TransferFails(w) \/ Hang(w) \/ \E m \in Manifests : Lie(w, m)
  \/ \E f \in Files : Rewrite(f)
  \/ NotInstalled \/ PassFails \/ KillPass \/ KillDry

Spec == Init /\ [][Next]_vars

\* The host goes on, the schedule waking it again after each pass, and a feed
\* that is asked again and again serves the newest manifest again and again.
FairSpec ==
  /\ Spec /\ WF_vars(Steps)
  /\ SF_vars(\E w \in Workers : pass.worker = w /\ Feed(w, Newest))

-----------------------------------------------------------------------------
(* Properties.                                                               *)

\* Whatever the worker reports, whoever else writes into the staging directory
\* and whenever, what is installed is whole, and signed for that component by a
\* manifest the marks accept (install.rs, stage_and_verify_private).
InstallsWhatItVerified ==
  [][\A c \in Components : installed'[c] # installed[c] =>
       /\ Accepts(marks, pass.man, Now)
       /\ \E a \in Range(Variants(pass.man, c)) : installed'[c] = Whole(a.digest)]_vars

\* What is installed runs on this host as far as that can be told: one that is
\* known to load if there is one, and never one that is known not to
\* (pass.rs, select_loadable_variant).
InstallsWhatLoads ==
  [][\A c \in Components : installed'[c] # installed[c] =>
       LET verdicts == {loads[a.digest] : a \in Range(Variants(pass.man, c))}
           got == loads[installed'[c][1]]
       IN got # "unloadable" /\ ("loadable" \in verdicts => got = "loadable")]_vars

\* A pass nobody interferes with installs what its worker has verified: nothing
\* that an earlier pass, killed or failed, has left in the staging directory
\* makes it abort (net.rs, download_and_verify).
LeftoversAreHarmless ==
  [][pass.at \in {"open", "check"} /\ Ends /\ trouble' = trouble => disturbed]_vars

\* Once the dry checks, kills and faults are over, the host comes to what the
\* newest manifest has for it: no leftover, no lost owner of the directory and
\* no hung worker stands in the way for good (sandbox.rs, communicate_bounded).
Lands(c) ==
  LET offered == Range(Variants(Newest, c))
      fit == {a \in offered : loads[a.digest] # "unloadable"}
  IN fit = {} \/ \E a \in fit : installed[c] = Whole(a.digest)
UpdateLands == <>[](marks.sequence = Newest.sequence /\ \A c \in Components : Lands(c))
=============================================================================
