----------------------------- MODULE StagingProofs -----------------------------
(***************************************************************************)
(* What is installed is what was verified, whoever writes into the staging   *)
(* directory: for any number of workers, manifests, variants, chunks, dry     *)
(* checks and kills.  Nothing is assumed of the files, the workers or their   *)
(* reports, and nothing about them is needed: the pass acts on its own copy.  *)
(* Then: it is a variant that loads, if one is known to; and a pass that      *)
(* nobody disturbs is not made to abort by what earlier ones have left.       *)
(***************************************************************************)
EXTENDS Staging, TLAPS

PassFields == {"at", "worker", "man", "todo", "cur", "variant", "fallback", "final",
"copy",
               "held", "allOk"}
Applying == {"open", "read", "check", "install"}

\* A record of the pass's fields.
Shaped == pass = [x \in PassFields |-> pass[x]]

\* Once the report has been verified again, the manifest is acceptable, and the
\* marks do not move under it.
Reverified == pass.at \in {"next"} \cup Applying => Accepts(marks, pass.man, Now)

\* What is planned is offered: it has a first variant.
OnlyOffered ==
  pass.at \in {"next"} \cup Applying => \A c \in pass.todo : Offered(pass.man, c)

\* The candidate under examination is one the manifest has for the component.
OnACandidate == pass.at \in Applying => pass.variant \in DOMAIN Candidates

\* And so is the one that is fallen back to.
FallbackIsOne ==
  pass.at \in Applying => pass.fallback = 0 \/ pass.fallback \in DOMAIN Candidates

\* The private copy about to be installed is that candidate's, whole.
CopyIsIt == pass.at = "install" => pass.copy = Whole(Source.digest)

IInv ==
  /\ Shaped /\ Reverified /\ OnlyOffered /\ OnACandidate /\ FallbackIsOne /\ CopyIsIt
  /\ installed = [c \in Components |-> installed[c]]

LEMMA Idle ==
  /\ IdlePass = [x \in PassFields |-> IdlePass[x]]
  /\ IdlePass.at \notin {"next"} \cup Applying
BY DEF IdlePass, PassFields, Applying

LEMMA Start == Init => IInv
BY Idle DEF Init, IInv, Shaped, Reverified, OnlyOffered, OnACandidate, FallbackIsOne,
            CopyIsIt, Applying

\* Whatever ends a pass.
LEMMA Ended ==
  ASSUME pass' = IdlePass, IInv, installed' = installed PROVE IInv'
BY Idle DEF IInv, Shaped, Reverified, OnlyOffered, OnACandidate, FallbackIsOne, CopyIsIt,
            Applying

\* The steps of workers, dry checks and whoever rewrites files: they may only
\* make a reading pass keep the file it has open.
LEMMA Elsewhere ==
  ASSUME IInv, UNCHANGED <<installed, marks>>,
         \/ UNCHANGED pass
         \/ \E x : pass' = [pass EXCEPT !.held = x]
  PROVE  IInv'
<1>1. CASE UNCHANGED pass
  BY <1>1 DEF IInv, Shaped, Reverified, OnlyOffered, OnACandidate, FallbackIsOne,
              CopyIsIt, Candidates,
              Source
<1>2. CASE \E x : pass' = [pass EXCEPT !.held = x]
  <2>1. PICK x : pass' = [pass EXCEPT !.held = x]
    BY <1>2
  <2>2. /\ pass'.at = pass.at /\ pass'.man = pass.man /\ pass'.cur = pass.cur
        /\ pass'.variant = pass.variant /\ pass'.fallback = pass.fallback
        /\ pass'.copy = pass.copy /\ pass'.todo = pass.todo /\ Shaped'
    BY <2>1 DEF IInv, Shaped, PassFields, IdlePass
  <2> QED
    BY <2>2 DEF IInv, Reverified, OnlyOffered, OnACandidate, FallbackIsOne, CopyIsIt,
                Candidates, Source
<1> QED
  BY <1>1, <1>2

\* Every step of a worker, of a dry check, and of whoever rewrites what is staged.
LEMMA OthersKeep ==
  ASSUME IInv,
         \/ PrepareDry \/ DryStep \/ KillDry \/ \E f \in Files : Rewrite(f)
         \/ \E w \in Workers : WorkerStep(w) \/ FeedUnavailable(w) \/ WrongChunk(w)
                               \/ TransferFails(w) \/ Hang(w)
         \/ \E w \in Workers, m \in Manifests : Lie(w, m)
  PROVE  IInv' /\ UNCHANGED installed
<1> DEFINE Harmless == /\ UNCHANGED <<installed, marks>>
                       /\ \/ UNCHANGED pass
                          \/ \E x : pass' = [pass EXCEPT !.held = x]
<1>1. ASSUME PrepareDry \/ DryStep \/ KillDry \/ \E f \in Files : Rewrite(f)
      PROVE  Harmless
  BY <1>1 DEF PrepareDry, DryStep, SpawnDry, ReadDry, DeadlineDry, KillDry, Rewrite
<1>2. ASSUME NEW w \in Workers, Discard(w), UNCHANGED <<installed, marks>>
      PROVE  Harmless
  BY <1>2 DEF Discard
<1>3. ASSUME NEW w \in Workers, WorkerStep(w)
      PROVE  Harmless
  <2>1. CASE Mismatch(w)
    <3>1. Discard(w) /\ UNCHANGED <<installed, marks>>
      BY <2>1 DEF Mismatch
    <3> QED
      BY <3>1, <1>2
  <2>2. CASE \E m \in Manifests : Feed(w, m)
    BY <2>2 DEF Feed
  <2>3. CASE Create(w) \/ Chunk(w) \/ Staged(w) \/ Orphaned(w)
    BY <2>3 DEF Create, Chunk, Receive, Staged, Orphaned
  <2> QED
    BY <1>3, <2>1, <2>2, <2>3 DEF WorkerStep
<1>4. ASSUME NEW w \in Workers, FeedUnavailable(w) \/ WrongChunk(w) \/ Hang(w)
      PROVE  Harmless
  BY <1>4 DEF FeedUnavailable, WrongChunk, Receive, Hang
<1>5. ASSUME NEW w \in Workers, TransferFails(w)
      PROVE  Harmless
  <2>1. Discard(w) /\ UNCHANGED <<installed, marks>>
    BY <1>5 DEF TransferFails
  <2> QED
    BY <2>1, <1>2
<1>6. ASSUME NEW w \in Workers, NEW m \in Manifests, Lie(w, m)
      PROVE  Harmless
  BY <1>6 DEF Lie
<1>7. Harmless
  <2> HIDE DEF Harmless
  <2> QED
    BY <1>1, <1>3, <1>4, <1>5, <1>6
<1> QED
  BY <1>7, Elsewhere

\* The pass's steps up to the plan, and those that end it.
LEMMA PassBeginsOrEnds ==
  ASSUME IInv,
         \/ Wake \/ MakePass \/ OwnPass \/ Finish \/ PassFails \/ KillPass
         \/ \E w \in Workers : SpawnPass(w) \/ DeadlinePass(w) \/ ReadReport(w)
  PROVE  IInv' /\ UNCHANGED installed
<1>1. ASSUME Wake \/ MakePass \/ OwnPass \/ \E w \in Workers : SpawnPass(w)
      PROVE  IInv' /\ UNCHANGED installed
  <2>1. /\ Shaped' /\ pass'.at \in {"make", "own", "spawn", "wait"}
        /\ installed' = installed
    BY <1>1 DEF IInv, Shaped, PassFields, Wake, MakePass, OwnPass, SpawnPass, PassAt
  <2> QED
    BY <2>1 DEF IInv, Reverified, OnlyOffered, OnACandidate, FallbackIsOne, CopyIsIt,
                Applying
<1>2. ASSUME Finish \/ PassFails \/ KillPass \/ \E w \in Workers : DeadlinePass(w)
      PROVE  IInv' /\ UNCHANGED installed
  BY <1>2, Ended DEF Finish, PassFails, KillPass, DeadlinePass, Ends
<1>3. ASSUME NEW w \in Workers, ReadReport(w)
      PROVE  IInv' /\ UNCHANGED installed
  <2>1. CASE Ends
    BY <2>1, <1>3, Ended DEF ReadReport, Ends
  <2>2. CASE ~Ends
    <3> DEFINE m == worker[w].man
               plan == {c \in Components : Offered(m, c) /\ ~Current(m, c)}
    <3>0. /\ pass' = [pass EXCEPT !.at = "next", !.worker = NoWorker, !.man = m,
                                  !.todo = plan]
          /\ Accepts(marks, m, Now) /\ UNCHANGED <<marks, installed>>
      BY <2>2, <1>3 DEF ReadReport
    <3>2. \A c \in plan : Offered(m, c)
      OBVIOUS
    <3> HIDE DEF m, plan
    <3>3. /\ Shaped' /\ pass'.at = "next" /\ pass'.man = m /\ pass'.todo = plan
      BY <3>0 DEF IInv, Shaped, PassFields
    <3>1. /\ Accepts(marks', pass'.man, Now) /\ installed' = installed
          /\ Shaped' /\ pass'.at = "next" /\ \A c \in pass'.todo : Offered(pass'.man, c)
      BY <3>0, <3>2, <3>3
    <3> QED
      BY <3>1 DEF IInv, Reverified, OnlyOffered, OnACandidate, FallbackIsOne, CopyIsIt,
                  Applying
  <2> QED
    BY <2>1, <2>2
<1> QED
  BY <1>1, <1>2, <1>3

\* A component is taken with its first variant, which the plan has seen it to have.
LEMMA TakeKeeps ==
  ASSUME IInv, NEW c \in Components, Take(c) PROVE IInv' /\ UNCHANGED installed
<1>1. /\ Shaped' /\ pass'.at = "open" /\ pass'.man = pass.man /\ pass'.cur = c
      /\ pass'.variant = 1 /\ pass'.fallback = 0 /\ pass'.todo = pass.todo
      /\ pass.at = "next" /\ c \in pass.todo /\ UNCHANGED <<marks, installed>>
  BY DEF IInv, Shaped, PassFields, Take, PassAt
<1>2. Accepts(marks, pass.man, Now) /\ Offered(pass.man, c)
  BY <1>1 DEF IInv, Reverified, OnlyOffered
<1> QED
  BY <1>1, <1>2 DEF IInv, Reverified, OnlyOffered, OnACandidate, FallbackIsOne, CopyIsIt,
                    Applying, Candidates, Offered

\* A step within the examination of a candidate changes neither the manifest nor the
\* component, so its new candidate is still to be shown to be one, and nothing else.
LEMMA Examines ==
  ASSUME IInv, pass.at \in Applying, Shaped', pass'.at \in {"next"} \cup Applying,
         UNCHANGED <<marks, installed>>,
         pass'.man = pass.man, pass'.todo \subseteq pass.todo,
         pass'.at \in Applying =>
           /\ pass'.cur = pass.cur
           /\ pass'.variant \in DOMAIN Candidates
           /\ pass'.fallback = 0 \/ pass'.fallback \in DOMAIN Candidates,
         CopyIsIt'
  PROVE  IInv'
BY DEF IInv, Reverified, OnlyOffered, OnACandidate, FallbackIsOne, Candidates

LEMMA CopyKeeps ==
  ASSUME IInv, Open \/ Read PROVE IInv' /\ UNCHANGED installed
<1>1. CASE pass' = IdlePass
  BY <1>1, Ended DEF Open, Read
<1>2. CASE pass' # IdlePass
  <2>1. /\ pass.at \in Applying /\ Shaped' /\ pass'.at \in {"read", "check"}
        /\ UNCHANGED <<marks, installed>>
        /\ pass'.man = pass.man /\ pass'.todo = pass.todo /\ pass'.cur = pass.cur
        /\ pass'.variant = pass.variant /\ pass'.fallback = pass.fallback
    BY <1>2 DEF IInv, Shaped, PassFields, Applying, Open, Read, PassAt, Ends
  <2>2. CopyIsIt'
    BY <2>1 DEF CopyIsIt
  <2> QED
    BY <2>1, <2>2, Examines DEF IInv, OnACandidate, FallbackIsOne, Applying
<1> QED
  BY <1>1, <1>2

\* Where the choice of a variant goes after one that does not, or may not, load.
LEMMA NextKeeps ==
  ASSUME IInv, pass.at = "check", Matches, UNCHANGED <<marks, installed>>,
         NEW fallback, fallback = 0 \/ fallback \in DOMAIN Candidates,
         pass' = NextVariant(fallback)
  PROVE  IInv'
<1>1. CASE More
  <2>1. /\ Shaped' /\ pass'.at = "open" /\ pass'.variant = pass.variant + 1
        /\ pass'.fallback = fallback
        /\ pass'.man = pass.man /\ pass'.todo = pass.todo /\ pass'.cur = pass.cur
    BY <1>1 DEF NextVariant, IInv, Shaped, PassFields
  <2> QED
    BY <1>1, <2>1, Examines DEF More, CopyIsIt, Applying
<1>2. CASE ~More /\ fallback = 0
  <2>1. /\ Shaped' /\ pass'.at = "next" /\ pass'.man = pass.man
        /\ pass'.todo = pass.todo \ {pass.cur}
    BY <1>2 DEF NextVariant, IInv, Shaped, PassFields
  <2> QED
    BY <2>1, Examines DEF CopyIsIt, Applying
<1>3. CASE ~More /\ fallback # 0 /\ fallback = pass.variant
  <2>1. /\ Shaped' /\ pass'.at = "install" /\ pass'.variant = pass.variant
        /\ pass'.fallback = fallback /\ pass'.copy = pass.copy
        /\ pass'.man = pass.man /\ pass'.todo = pass.todo /\ pass'.cur = pass.cur
    BY <1>3 DEF NextVariant, IInv, Shaped, PassFields
  <2>2. CopyIsIt'
    BY <2>1 DEF CopyIsIt, Matches, Source
  <2> QED
    BY <1>3, <2>1, <2>2, Examines DEF Applying
<1>4. CASE ~More /\ fallback # 0 /\ fallback # pass.variant
  <2>1. /\ Shaped' /\ pass'.at = "open" /\ pass'.variant = fallback
        /\ pass'.fallback = fallback
        /\ pass'.man = pass.man /\ pass'.todo = pass.todo /\ pass'.cur = pass.cur
    BY <1>4 DEF NextVariant, IInv, Shaped, PassFields
  <2> QED
    BY <1>4, <2>1, Examines DEF CopyIsIt, Applying
<1> QED
  BY <1>1, <1>2, <1>3, <1>4

LEMMA CheckKeeps ==
  ASSUME IInv, Check PROVE IInv' /\ UNCHANGED installed
<1> DEFINE load == loads[Source.digest]
           fallback == IF load = "unknown" /\ pass.fallback = 0 THEN pass.variant
                                                              ELSE pass.fallback
<1>1. pass.at = "check" /\ UNCHANGED <<marks, installed>>
  BY DEF Check, PassAt
<1>2. /\ pass.variant \in DOMAIN Candidates
      /\ fallback = 0 \/ fallback \in DOMAIN Candidates
  BY <1>1 DEF IInv, OnACandidate, FallbackIsOne, Applying
<1>3. CASE ~Matches
  BY <1>1, <1>3, Ended DEF Check
<1>4. CASE Matches /\ (pass.final \/ load = "loadable")
  <2>1. pass' = [pass EXCEPT !.at = "install"]
    BY <1>4 DEF Check
  <2>2. /\ Shaped' /\ pass'.at = "install" /\ pass'.variant = pass.variant
        /\ pass'.fallback = pass.fallback /\ pass'.copy = pass.copy
        /\ pass'.man = pass.man /\ pass'.todo = pass.todo /\ pass'.cur = pass.cur
    BY <2>1 DEF IInv, Shaped, PassFields
  <2>3. CopyIsIt'
    BY <1>4, <2>2 DEF CopyIsIt, Matches, Source
  <2> QED
    BY <1>1, <1>2, <2>2, <2>3, Examines DEF IInv, FallbackIsOne, Applying
<1>5. CASE Matches /\ ~(pass.final \/ load = "loadable")
  <2>1. pass' = NextVariant(fallback)
    BY <1>5 DEF Check
  <2> HIDE DEF fallback
  <2> QED
    BY <1>1, <1>2, <1>5, <2>1, NextKeeps
<1> QED
  BY <1>3, <1>4, <1>5

LEMMA InstallKeeps ==
  ASSUME IInv, Install \/ NotInstalled PROVE IInv'
<1>1. /\ pass.at = "install" /\ Shaped' /\ pass'.at = "next" /\ pass'.man = pass.man
      /\ pass'.todo = pass.todo \ {pass.cur} /\ UNCHANGED marks
      /\ installed' = [c \in Components |-> installed'[c]]
  BY DEF IInv, Shaped, PassFields, Install, NotInstalled, PassAt
<1> QED
  BY <1>1 DEF IInv, Reverified, OnlyOffered, OnACandidate, FallbackIsOne, CopyIsIt,
              Applying

\* Each step keeps the invariant, and only Install changes what is installed.
LEMMA Inductive ==
  ASSUME IInv, [Next]_vars PROVE IInv' /\ (UNCHANGED installed \/ Install)
<1>1. CASE UNCHANGED vars
  BY <1>1, Elsewhere DEF vars
<1>2. CASE Next
  <2>1. CASE \/ PrepareDry \/ DryStep \/ KillDry \/ \E f \in Files : Rewrite(f)
             \/ \E w \in Workers : WorkerStep(w) \/ FeedUnavailable(w) \/ WrongChunk(w)
                                   \/ TransferFails(w) \/ Hang(w)
             \/ \E w \in Workers, m \in Manifests : Lie(w, m)
    BY <2>1, OthersKeep
  <2>2. CASE \/ Wake \/ MakePass \/ OwnPass \/ Finish \/ PassFails \/ KillPass
             \/ \E w \in Workers : SpawnPass(w) \/ DeadlinePass(w) \/ ReadReport(w)
    BY <2>2, PassBeginsOrEnds
  <2>3. CASE \E c \in Components : Take(c)
    BY <2>3, TakeKeeps
  <2>4. CASE Open \/ Read
    BY <2>4, CopyKeeps
  <2>5. CASE Check
    BY <2>5, CheckKeeps
  <2>6. CASE Install
    BY <2>6, InstallKeeps
  <2>7. CASE NotInstalled
    BY <2>7, InstallKeeps DEF NotInstalled
  <2> QED
    BY <1>2, <2>1, <2>2, <2>3, <2>4, <2>5, <2>6, <2>7 DEF Next, Steps, PassStep
<1> QED
  BY <1>1, <1>2

\* Whatever the worker reports, whoever else writes into the staging directory and
\* whenever, what is installed is whole, and signed for that component by a manifest
\* the marks accept (install.rs, stage_and_verify_private; pass.rs).
THEOREM VerifiedIsInstalled == Spec => InstallsWhatItVerified
<1>1. IInv /\ [Next]_vars => IInv'
  BY Inductive
<1>2. ASSUME IInv, [Next]_vars, NEW c \in Components, installed'[c] # installed[c]
      PROVE  /\ Accepts(marks, pass.man, Now)
             /\ \E a \in Range(Variants(pass.man, c)) : installed'[c] = Whole(a.digest)
  <2>1. Install
    BY <1>2, Inductive
  <2>2. pass.at = "install" /\ c = pass.cur /\ installed'[c] = pass.copy
    BY <1>2, <2>1 DEF Install, PassAt, IInv
  <2>3. pass.copy = Whole(Source.digest) /\ pass.variant \in DOMAIN Candidates
    BY <1>2, <2>2 DEF IInv, CopyIsIt, OnACandidate, Applying
  <2>4. Source \in Range(Candidates)
    BY <2>3 DEF Source, Candidates, Range
  <2>5. Accepts(marks, pass.man, Now)
    BY <1>2, <2>2 DEF IInv, Reverified, Applying
  <2> QED
    BY <2>2, <2>3, <2>4, <2>5 DEF Candidates
<1>3. IInv /\ [Next]_vars =>
        [\A c \in Components : installed'[c] # installed[c] =>
           /\ Accepts(marks, pass.man, Now)
           /\ \E a \in Range(Variants(pass.man, c)) :
                installed'[c] = Whole(a.digest)]_vars
  BY <1>2
<1> QED
  BY <1>1, <1>3, Start, PTL DEF Spec, InstallsWhatItVerified

-----------------------------------------------------------------------------
(* What the worker and the pass hold.                                         *)

WorkerFields == {"at", "marks", "man", "todo", "got", "report"}
OnFeed == {"create", "chunk"}

\* A worker that downloads has a manifest that was served, and so has one that
\* reports it as verified.
WorkerKnows(w) ==
  /\ worker[w] = [x \in WorkerFields |-> worker[w][x]]
  /\ worker[w].at \in OnFeed \/ worker[w].report = "verified" => worker[w].man \in Manifests
  /\ worker[w].report = "verified" => worker[w].at = "report"

PassKnows ==
  /\ pass.at \in {"next"} \cup Applying => pass.man \in Manifests
  /\ pass.at \in Applying => pass.cur \in Components

Known ==
  /\ worker = [w \in Workers |-> worker[w]]
  /\ \A w \in Workers : WorkerKnows(w)
  /\ PassKnows
  /\ loads \in Hosts /\ trouble \in Nat

\* What a worker does to its own record.
Works(w) ==
  /\ worker' = [worker EXCEPT ![w] = worker'[w]]
  /\ worker'[w] = [x \in WorkerFields |-> worker'[w][x]]
  /\ worker'[w].at \in OnFeed \/ worker'[w].report = "verified" => worker'[w].man \in Manifests
  /\ worker'[w].report = "verified" => worker'[w].at = "report"

\* The pass as it is, but for what it has open.
PassStays == UNCHANGED pass \/ \E x : pass' = [pass EXCEPT !.held = x]

LEMMA RestingKnows ==
  /\ Resting = [x \in WorkerFields |-> Resting[x]]
  /\ Resting.report = "rejected" /\ Resting.at = "none" /\ Resting.got = <<>>
BY DEF Resting, WorkerFields

LEMMA ReportWorks ==
  ASSUME NEW w \in Workers, Known, NEW m,
         \/ Rejects(w)
         \/ m \in Manifests /\ Reports(w, "verified", m)
  PROVE  Works(w)
<1>1. worker'[w] = [x \in WorkerFields |-> worker'[w][x]]
  BY RestingKnows DEF Rejects, Reports, Known, WorkerFields
<1>2. CASE Rejects(w)
  BY <1>1, <1>2, RestingKnows DEF Rejects, Reports, Known, Works, Resting, OnFeed
<1>3. CASE m \in Manifests /\ Reports(w, "verified", m)
  BY <1>1, <1>3, RestingKnows DEF Reports, Known, Works, Resting, OnFeed
<1> QED  BY <1>2, <1>3

LEMMA RestWorks ==
  ASSUME NEW w \in Workers, Known, NEW ms,
         \/ worker' = [worker EXCEPT ![w] = Resting]
         \/ worker' = [worker EXCEPT ![w] = [Resting EXCEPT !.at = "feed", !.marks = ms]]
  PROVE  Works(w)
<1>1. CASE worker' = [worker EXCEPT ![w] = Resting]
  BY <1>1, RestingKnows DEF Known, Works, OnFeed
<1>2. CASE worker' = [worker EXCEPT ![w] = [Resting EXCEPT !.at = "feed", !.marks = ms]]
  <2>1. worker'[w] = [Resting EXCEPT !.at = "feed", !.marks = ms]
    BY <1>2 DEF Known
  <2>2. /\ worker'[w] = [x \in WorkerFields |-> worker'[w][x]]
        /\ worker'[w].at = "feed" /\ worker'[w].report = "rejected"
    BY <2>1 DEF Resting, WorkerFields
  <2> QED  BY <1>2, <2>1, <2>2 DEF Known, Works, OnFeed
<1> QED  BY <1>1, <1>2

\* A download goes on, or begins with a manifest that was served.
LEMMA DownloadWorks ==
  ASSUME NEW w \in Workers, Known, NEW m \in Manifests,
         \/ Feed(w, m) \/ Create(w) \/ Chunk(w) \/ WrongChunk(w) \/ Staged(w) \/ Hang(w)
  PROVE  Works(w)
<1> USE DEF Known, WorkerKnows
<1>1. CASE Rejects(w)
  BY <1>1, ReportWorks
<1>2. CASE Feed(w, m) /\ ~Rejects(w)
  <2>1. worker' = [worker EXCEPT ![w].at = "create", ![w].man = m, ![w].todo = m.artifacts]
    BY <1>2 DEF Feed
  <2>2. worker'[w] = [worker[w] EXCEPT !.at = "create", !.man = m, !.todo = m.artifacts]
    BY <2>1
  <2>3. /\ worker'[w] = [x \in WorkerFields |-> worker'[w][x]]
        /\ worker'[w].at = "create" /\ worker'[w].man = m
        /\ worker'[w].report = worker[w].report
    BY <2>2 DEF WorkerFields
  <2> QED  BY <1>2, <2>1, <2>2, <2>3 DEF Feed, WorkerAt, Works
<1>3. CASE Create(w) \/ Chunk(w) \/ WrongChunk(w) \/ Hang(w)
  <2>1. /\ worker' = [worker EXCEPT ![w] = worker'[w]]
        /\ worker'[w] = [x \in WorkerFields |-> worker'[w][x]]
        /\ worker'[w].man = worker[w].man /\ worker'[w].report = worker[w].report
        /\ worker[w].at # "report"
        /\ worker'[w].at \in OnFeed => worker[w].at \in OnFeed
    BY <1>3 DEF Create, Chunk, WrongChunk, Receive, Hang, WorkerAt, WorkerFields, OnFeed
  <2> QED  BY <2>1 DEF Works
<1>4. CASE Staged(w)
  <2>1. worker[w].man \in Manifests /\ worker[w].report # "verified"
    BY <1>4 DEF Staged, WorkerAt, OnFeed
  <2>2. CASE Reports(w, "verified", worker[w].man)
    BY <2>1, <2>2, ReportWorks
  <2>3. CASE ~Reports(w, "verified", worker[w].man)
    <3>1. worker' = [worker EXCEPT ![w].at = "create", ![w].todo = Tail(worker[w].todo), ![w].got = <<>>]
      BY <1>4, <2>3 DEF Staged
    <3>2. /\ worker'[w] = [x \in WorkerFields |-> worker'[w][x]]
          /\ worker'[w].man = worker[w].man /\ worker'[w].report = worker[w].report
      BY <3>1, ZenonT(60) DEF WorkerFields
    <3> QED  BY <2>1, <3>1, <3>2 DEF Works
  <2> QED  BY <2>2, <2>3
<1> QED  BY <1>1, <1>2, <1>3, <1>4 DEF Feed

\* Any step of a worker, of a dry check, or of whoever rewrites what is staged.
Others ==
  \/ PrepareDry \/ DryStep \/ KillDry \/ \E f \in Files : Rewrite(f)
  \/ \E w \in Workers : WorkerStep(w) \/ FeedUnavailable(w) \/ WrongChunk(w)
                        \/ TransferFails(w) \/ Hang(w)
  \/ \E w \in Workers, m \in Manifests : Lie(w, m)

LEMMA OthersWork ==
  ASSUME Known, Others
  PROVE  /\ UNCHANGED worker \/ \E w \in Workers : Works(w)
         /\ PassStays /\ UNCHANGED <<loads, marks, installed>>
         /\ trouble' \in Nat
<1> USE DEF PassStays
<1>1. CASE PrepareDry \/ KillDry \/ \E f \in Files : Rewrite(f)
  BY <1>1 DEF PrepareDry, KillDry, Rewrite, Trouble, Known
<1>2. ASSUME NEW w \in Workers, SpawnDry(w) \/ ReadDry(w) \/ DeadlineDry(w) \/ Orphaned(w)
      PROVE  Works(w) /\ PassStays /\ UNCHANGED <<loads, marks, installed>> /\ trouble' \in Nat
  <2>1. \/ worker' = [worker EXCEPT ![w] = Resting]
        \/ worker' = [worker EXCEPT ![w] = [Resting EXCEPT !.at = "feed", !.marks = marks]]
    BY <1>2 DEF SpawnDry, Spawned, ReadDry, DeadlineDry, Deadline, Orphaned
  <2>2. PassStays /\ UNCHANGED <<loads, marks, installed>> /\ trouble' \in Nat
    BY <1>2 DEF SpawnDry, ReadDry, DeadlineDry, Deadline, Orphaned, Trouble, Known
  <2> QED  BY <2>1, <2>2, RestWorks
<1>3. ASSUME NEW w \in Workers, NEW m \in Manifests,
             Feed(w, m) \/ Create(w) \/ Chunk(w) \/ WrongChunk(w) \/ Staged(w) \/ Hang(w)
      PROVE  Works(w) /\ PassStays /\ UNCHANGED <<loads, marks, installed>> /\ trouble' \in Nat
  <2>1. Works(w)
    BY <1>3, DownloadWorks
  <2> QED
    BY <1>3, <2>1 DEF Feed, Create, Chunk, WrongChunk, Receive, Staged, Hang, Trouble, Known
<1>4. ASSUME NEW w \in Workers, FeedUnavailable(w) \/ Mismatch(w) \/ TransferFails(w)
      PROVE  Works(w) /\ PassStays /\ UNCHANGED <<loads, marks, installed>> /\ trouble' \in Nat
  <2>1. Works(w)
    BY <1>4, ReportWorks DEF FeedUnavailable, Mismatch, TransferFails, Discard
  <2> QED
    BY <1>4, <2>1 DEF FeedUnavailable, Mismatch, TransferFails, Discard, Trouble, Known
<1>5. ASSUME NEW w \in Workers, NEW m \in Manifests, Lie(w, m)
      PROVE  Works(w) /\ PassStays /\ UNCHANGED <<loads, marks, installed>> /\ trouble' \in Nat
  <2>1. Works(w)
    BY <1>5, ReportWorks DEF Lie
  <2> QED
    BY <1>5, <2>1 DEF Lie, Trouble, Known
<1>6. Manifests # {}
  BY StagingAssumption
<1> QED
  BY <1>1, <1>2, <1>3, <1>4, <1>5, <1>6 DEF Others, DryStep, WorkerStep

LEMMA WorksKeeps ==
  ASSUME Known, UNCHANGED worker \/ \E w \in Workers : Works(w), UNCHANGED loads,
         trouble' \in Nat, PassKnows'
  PROVE  Known'
BY ZenonT(60) DEF Known, WorkerKnows, Works

LEMMA PassStaysKnown ==
  ASSUME Known, Shaped, PassStays PROVE PassKnows'
<1>1. /\ pass'.at = pass.at /\ pass'.man = pass.man /\ pass'.cur = pass.cur
  BY DEF PassStays, Shaped, PassFields
<1> QED  BY <1>1 DEF Known, PassKnows

\* The steps of the pass: what it knows of the manifest it has from the report.
Passes ==
  \/ Wake \/ MakePass \/ OwnPass \/ Finish \/ PassFails \/ KillPass
  \/ \E w \in Workers : SpawnPass(w) \/ DeadlinePass(w) \/ ReadReport(w)
  \/ \E c \in Components : Take(c)
  \/ Open \/ Read \/ Check \/ Install \/ NotInstalled

LEMMA StepsSplit == Next => Others \/ Passes
BY DEF Next, Steps, PassStep, Others, Passes

LEMMA PassWorks ==
  ASSUME Known, Passes
  PROVE  /\ UNCHANGED worker \/ \E w \in Workers : Works(w)
         /\ UNCHANGED loads /\ trouble' \in Nat
<1>1. ASSUME NEW w \in Workers, SpawnPass(w) \/ DeadlinePass(w) \/ ReadReport(w)
      PROVE  Works(w) /\ UNCHANGED loads /\ trouble' \in Nat
  <2>1. \/ worker' = [worker EXCEPT ![w] = Resting]
        \/ worker' = [worker EXCEPT ![w] = [Resting EXCEPT !.at = "feed", !.marks = marks]]
    BY <1>1 DEF SpawnPass, Spawned, DeadlinePass, Deadline, ReadReport
  <2>2. UNCHANGED loads /\ trouble' \in Nat
    BY <1>1 DEF SpawnPass, DeadlinePass, Deadline, ReadReport, Trouble, Known
  <2> QED  BY <2>1, <2>2, RestWorks
<1>2. ASSUME \/ Wake \/ MakePass \/ OwnPass \/ Finish \/ PassFails \/ KillPass
             \/ \E c \in Components : Take(c)
             \/ Open \/ Read \/ Check \/ Install \/ NotInstalled
      PROVE  UNCHANGED worker /\ UNCHANGED loads /\ trouble' \in Nat
  <2>1. CASE Wake \/ MakePass \/ OwnPass \/ Finish \/ \E c \in Components : Take(c)
    BY <2>1 DEF Wake, MakePass, OwnPass, Finish, Take, Known
  <2>2. CASE Open \/ Read \/ Check \/ Install
    BY <2>2 DEF Open, Read, Check, Install, Known
  <2>3. CASE NotInstalled \/ PassFails \/ KillPass
    BY <2>3 DEF NotInstalled, PassFails, KillPass, Trouble, Known
  <2> QED  BY <1>2, <2>1, <2>2, <2>3
<1> QED
  BY <1>1, <1>2 DEF Passes

LEMMA PassLearns ==
  ASSUME Known, IInv, Passes PROVE PassKnows'
<1>1. ASSUME Ends PROVE PassKnows'
  BY <1>1, Idle DEF Ends, PassKnows
<1>2. ASSUME Wake \/ MakePass \/ OwnPass \/ \E w \in Workers : SpawnPass(w) PROVE PassKnows'
  <2>1. pass'.at \in {"make", "own", "spawn", "wait"}
    BY <1>2 DEF IInv, Shaped, PassFields, Wake, MakePass, OwnPass, SpawnPass, PassAt
  <2> QED  BY <2>1 DEF PassKnows, Applying
<1>3. ASSUME NEW w \in Workers, ReadReport(w) PROVE PassKnows'
  <2>1. CASE Ends
    BY <2>1, <1>1
  <2>2. CASE ~Ends
    <3>1. pass'.at = "next" /\ pass'.man = worker[w].man /\ worker[w].report = "verified"
      BY <1>3, <2>2 DEF ReadReport, IInv, Shaped, PassFields
    <3> QED  BY <3>1 DEF PassKnows, Known, WorkerKnows, Applying
  <2> QED  BY <2>1, <2>2
<1>4. ASSUME NEW c \in Components, Take(c) PROVE PassKnows'
  <2>1. pass.at = "next" /\ pass'.man = pass.man /\ pass'.cur = c
    BY <1>4 DEF Take, PassAt, IInv, Shaped, PassFields
  <2> QED  BY <2>1 DEF PassKnows, Known
<1>5. ASSUME Open \/ Read \/ Check \/ Install \/ NotInstalled, ~Ends PROVE PassKnows'
  <2>1. pass.at \in Applying /\ pass'.man = pass.man /\ pass'.cur = pass.cur
    <3>1. ASSUME Check PROVE pass'.man = pass.man /\ pass'.cur = pass.cur
      <4>1. ASSUME NEW fb, pass' = NextVariant(fb) PROVE pass'.man = pass.man /\ pass'.cur = pass.cur
        BY <4>1 DEF NextVariant, IInv, Shaped, PassFields
      <4> QED  BY <1>5, <3>1, <4>1 DEF Check, Ends, IInv, Shaped, PassFields
    <3> QED
      BY <1>5, <3>1 DEF Open, Read, Check, Install, NotInstalled, PassAt, IInv, Shaped, PassFields, Applying
  <2> QED  BY <2>1 DEF PassKnows, Known
<1> QED
  BY <1>1, <1>2, <1>3, <1>4, <1>5 DEF Passes, Finish, PassFails, KillPass, DeadlinePass

LEMMA KnownStays == ASSUME Known, IInv, [Next]_vars PROVE Known'
<1>1. CASE UNCHANGED vars
  BY <1>1 DEF vars, Known, WorkerKnows, PassKnows
<1>2. CASE Others
  BY <1>2, OthersWork, PassStaysKnown, WorksKeeps DEF IInv
<1>3. CASE Passes
  BY <1>3, PassWorks, PassLearns, WorksKeeps
<1> QED  BY <1>1, <1>2, <1>3, StepsSplit

LEMMA KnownInitially == Init => Known
BY Idle, RestingKnows DEF Init, Known, WorkerKnows, PassKnows, OnFeed

-----------------------------------------------------------------------------
(* The choice of a variant.                                                   *)

Verdict(j) == loads[Candidates[j].digest]
NoneLoads == \A j \in DOMAIN Candidates : Verdict(j) # "loadable"

\* None of the candidates before this one is known to load; the one fallen back
\* to is not known not to; and what is installed is known to load, or nothing is.
Searches ==
  /\ ~pass.final => \A j \in DOMAIN Candidates : j < pass.variant => Verdict(j) # "loadable"
  /\ pass.fallback # 0 => Verdict(pass.fallback) = "unknown"
  /\ pass.final => pass.fallback # 0 /\ pass.variant = pass.fallback /\ NoneLoads
  /\ pass.at = "install" =>
       \/ Verdict(pass.variant) = "loadable"
       \/ Verdict(pass.variant) = "unknown" /\ NoneLoads
SearchInv == pass.at \in Applying => Searches

\* What the assumption on the manifests says of the candidates.
LEMMA Numbered ==
  ASSUME Known, pass.at \in Applying
  PROVE  /\ Len(Candidates) \in Nat /\ DOMAIN Candidates = 1..Len(Candidates)
         /\ \A j \in DOMAIN Candidates :
              /\ Candidates[j].digest \in Digests
              /\ Verdict(j) \in {"loadable", "unknown", "unloadable"}
<1>1. pass.man \in Manifests /\ pass.cur \in Components
  BY DEF Known, PassKnows
<1>2. /\ Candidates \in Seq(Range(pass.man.artifacts))
      /\ pass.man.artifacts \in Seq([component : Components, file : Files, digest : Digests])
  BY <1>1, StagingAssumption DEF Candidates
<1>3. \A a \in Range(pass.man.artifacts) : a.digest \in Digests
  <2> DEFINE Listed == [component : Components, file : Files, digest : Digests]
             arts == pass.man.artifacts
  <2>1. \A a \in Listed : a.digest \in Digests
    OBVIOUS
  <2>2. arts \in Seq(Listed)
    BY <1>2
  <2> HIDE DEF Listed, arts
  <2>3. \A i \in DOMAIN arts : arts[i] \in Listed
    BY <2>2
  <2> QED  BY <2>1, <2>3 DEF Range, arts
<1>4. loads \in [Digests -> {"loadable", "unknown", "unloadable"}]
  BY StagingAssumption DEF Known
<1> QED  BY <1>2, <1>3, <1>4 DEF Verdict

LEMMA SearchStays ==
  ASSUME SearchInv, UNCHANGED loads, pass'.at = "install" => pass.at = "install",
         pass'.at \in Applying => pass.at \in Applying,
         pass'.man = pass.man, pass'.cur = pass.cur, pass'.variant = pass.variant,
         pass'.fallback = pass.fallback, pass'.final = pass.final
  PROVE  SearchInv'
BY DEF SearchInv, Searches, NoneLoads, Verdict, Candidates

LEMMA SearchGoesOn ==
  ASSUME SearchInv, IInv, Known, Check PROVE SearchInv'
<1> DEFINE load == loads[Source.digest]
           fallback == IF load = "unknown" /\ pass.fallback = 0 THEN pass.variant
                                                               ELSE pass.fallback
<1>1. pass.at = "check" /\ UNCHANGED loads /\ Searches
  BY DEF Check, PassAt, SearchInv, Applying
<1>2. /\ pass.variant \in DOMAIN Candidates
      /\ pass.fallback = 0 \/ pass.fallback \in DOMAIN Candidates
      /\ load = Verdict(pass.variant)
  BY <1>1 DEF IInv, OnACandidate, FallbackIsOne, Applying, Verdict, Source, Candidates
<1>3. /\ Len(Candidates) \in Nat /\ DOMAIN Candidates = 1..Len(Candidates)
      /\ load \in {"loadable", "unknown", "unloadable"}
  BY <1>1, <1>2, Numbered DEF Applying
<1>4. fallback # 0 => fallback \in DOMAIN Candidates /\ Verdict(fallback) = "unknown"
  BY <1>1, <1>2 DEF Searches
<1>5. CASE pass' = IdlePass
  BY <1>5, Idle DEF SearchInv
<1>6. CASE pass' = [pass EXCEPT !.at = "install"] /\ (pass.final \/ load = "loadable")
  <2>1. /\ pass'.man = pass.man /\ pass'.cur = pass.cur /\ pass'.variant = pass.variant
        /\ pass'.fallback = pass.fallback /\ pass'.final = pass.final
    BY <1>6 DEF IInv, Shaped, PassFields
  <2>2. Candidates' = Candidates /\ \A j : Verdict(j)' = Verdict(j)
    BY <1>1, <2>1 DEF Candidates, Verdict
  <2> QED  BY <1>1, <1>2, <1>6, <2>1, <2>2 DEF SearchInv, Searches, NoneLoads
<1>7. CASE pass' = NextVariant(fallback) /\ ~(pass.final \/ load = "loadable")
  <2> HIDE DEF load, fallback
  <2>1. \A j \in DOMAIN Candidates : j <= pass.variant => Verdict(j) # "loadable"
    BY <1>1, <1>2, <1>3, <1>7 DEF Searches
  <2>2. /\ pass'.man = pass.man /\ pass'.cur = pass.cur
    BY <1>7 DEF NextVariant, IInv, Shaped, PassFields
  <2>3. Candidates' = Candidates /\ \A j : Verdict(j)' = Verdict(j)
    BY <1>1, <2>2 DEF Candidates, Verdict
  <2>4. CASE More
    <3>1. /\ pass'.at = "open" /\ pass'.variant = pass.variant + 1
          /\ pass'.fallback = fallback /\ pass'.final = pass.final
      BY <1>7, <2>4 DEF NextVariant, IInv, Shaped, PassFields
    <3> QED
      BY <1>2, <1>3, <1>4, <1>7, <2>1, <2>3, <3>1 DEF SearchInv, Searches
  <2>5. ~More => NoneLoads
    BY <1>2, <1>3, <2>1 DEF More, NoneLoads
  <2>6. CASE ~More /\ fallback = 0
    <3>1. pass'.at = "next"
      BY <1>7, <2>6 DEF NextVariant, IInv, Shaped, PassFields
    <3> QED  BY <3>1 DEF SearchInv, Applying
  <2>7. CASE ~More /\ fallback # 0 /\ fallback = pass.variant
    <3>1. /\ pass'.at = "install" /\ pass'.variant = pass.variant
          /\ pass'.fallback = fallback /\ pass'.final = pass.final
      BY <1>7, <2>7 DEF NextVariant, IInv, Shaped, PassFields
    <3> QED
      BY <1>4, <1>7, <2>3, <2>5, <2>7, <3>1 DEF SearchInv, Searches, NoneLoads
  <2>8. CASE ~More /\ fallback # 0 /\ fallback # pass.variant
    <3>1. /\ pass'.at = "open" /\ pass'.variant = fallback
          /\ pass'.fallback = fallback /\ pass'.final = TRUE
      BY <1>7, <2>8 DEF NextVariant, IInv, Shaped, PassFields
    <3> QED
      BY <1>4, <2>3, <2>5, <2>8, <3>1 DEF SearchInv, Searches, NoneLoads
  <2> QED  BY <2>4, <2>6, <2>7, <2>8
<1> QED  BY <1>5, <1>6, <1>7 DEF Check

LEMMA SearchKept == ASSUME SearchInv, Known, IInv, [Next]_vars PROVE SearchInv'
<1> USE DEF IInv, Shaped, PassFields
<1>1. CASE UNCHANGED vars
  BY <1>1, SearchStays DEF vars
<1>2. CASE Others
  <2>1. PassStays /\ UNCHANGED loads
    BY <1>2, OthersWork
  <2>2. /\ pass'.at = pass.at /\ pass'.man = pass.man /\ pass'.cur = pass.cur
        /\ pass'.variant = pass.variant /\ pass'.fallback = pass.fallback
        /\ pass'.final = pass.final
    BY <2>1 DEF PassStays
  <2> QED  BY <2>1, <2>2, SearchStays
<1>3. CASE Passes
  <2>1. UNCHANGED loads
    BY <1>3, PassWorks
  <2>2. CASE pass'.at \notin Applying
    BY <2>2 DEF SearchInv
  <2>3. CASE \E c \in Components : Take(c)
    <3>1. PICK c \in Components : Take(c)
      BY <2>3
    <3>2. /\ pass.at = "next" /\ pass'.man = pass.man /\ pass'.cur = c /\ pass'.variant = 1
          /\ pass'.fallback = 0 /\ pass'.final = FALSE /\ pass'.at = "open"
      BY <3>1 DEF Take, PassAt
    <3>3. Candidates' \in Seq(Range(pass.man.artifacts))
      BY <3>2, StagingAssumption DEF Candidates, Known, PassKnows
    <3> QED  BY <3>2, <3>3 DEF SearchInv, Searches
  <2>4. CASE Check
    BY <2>4, SearchGoesOn
  <2>5. CASE (Open \/ Read) /\ pass'.at \in Applying
    <3>1. pass' # IdlePass
      BY <2>5, Idle
    <3>2. /\ pass.at \in Applying /\ pass'.man = pass.man /\ pass'.cur = pass.cur
          /\ pass'.variant = pass.variant /\ pass'.fallback = pass.fallback
          /\ pass'.final = pass.final /\ pass'.at # "install"
      BY <2>5, <3>1 DEF Open, Read, PassAt, Ends, Applying
    <3> QED  BY <2>1, <3>2, SearchStays
  <2>6. ASSUME pass'.at \in Applying, ~Check, ~\E c \in Components : Take(c)
        PROVE  Open \/ Read
    <3>1. ASSUME Wake \/ MakePass \/ OwnPass \/ \E w \in Workers : SpawnPass(w) PROVE FALSE
      BY <2>6, <3>1 DEF Wake, MakePass, OwnPass, SpawnPass, Applying
    <3>2. ASSUME Install \/ NotInstalled PROVE FALSE
      BY <2>6, <3>2 DEF Install, NotInstalled, Applying
    <3>3. ASSUME Finish \/ PassFails \/ KillPass \/ \E w \in Workers : DeadlinePass(w) PROVE FALSE
      BY <2>6, <3>3, Idle DEF Finish, PassFails, KillPass, DeadlinePass, Ends
    <3>4. ASSUME NEW w \in Workers, ReadReport(w) PROVE FALSE
      <4>1. pass'.at = "next" \/ pass' = IdlePass
        BY <3>4 DEF ReadReport, Ends
      <4> QED  BY <2>6, <4>1, Idle DEF Applying
    <3> QED  BY <1>3, <2>6, <3>1, <3>2, <3>3, <3>4 DEF Passes
  <2> QED  BY <2>2, <2>3, <2>4, <2>5, <2>6
<1> QED  BY <1>1, <1>2, <1>3, StepsSplit

\* What is installed runs on this host as far as that can be told, whoever writes
\* into the staging directory (pass.rs, select_loadable_variant).
THEOREM LoadableIsInstalled == Spec => InstallsWhatLoads
<1>1. IInv /\ Known /\ SearchInv /\ [Next]_vars => IInv' /\ Known' /\ SearchInv'
  BY Inductive, KnownStays, SearchKept
<1>2. ASSUME IInv, Known, SearchInv, [Next]_vars,
             NEW c \in Components, installed'[c] # installed[c]
      PROVE  LET verdicts == {loads[a.digest] : a \in Range(Variants(pass.man, c))}
                 got == loads[installed'[c][1]]
             IN got # "unloadable" /\ ("loadable" \in verdicts => got = "loadable")
  <2>1. Install
    BY <1>2, Inductive
  <2>2. pass.at = "install" /\ c = pass.cur /\ installed'[c] = pass.copy
    BY <1>2, <2>1 DEF Install, PassAt, IInv
  <2>3. pass.copy = Whole(Source.digest) /\ pass.variant \in DOMAIN Candidates
    BY <1>2, <2>2 DEF IInv, CopyIsIt, OnACandidate, Applying
  <2>4. Source.digest \in Digests
    BY <1>2, <2>2, <2>3, Numbered DEF Source, Candidates, Applying
  <2>5. installed'[c][1] = Source.digest
    <3>1. Length[Source.digest] \in Nat \ {0}
      BY <2>4, StagingAssumption
    <3> QED  BY <2>2, <2>3, <3>1 DEF Whole
  <2>6. loads[installed'[c][1]] = Verdict(pass.variant)
    BY <2>5 DEF Verdict, Source, Candidates
  <2>7. \A v \in {loads[a.digest] : a \in Range(Variants(pass.man, c))} :
          \E j \in DOMAIN Candidates : v = Verdict(j)
    BY <2>2 DEF Verdict, Candidates, Range
  <2> QED
    BY <1>2, <2>2, <2>6, <2>7 DEF SearchInv, Searches, NoneLoads, Applying
<1>3. IInv /\ Known /\ SearchInv /\ [Next]_vars =>
        [\A c \in Components : installed'[c] # installed[c] =>
           LET verdicts == {loads[a.digest] : a \in Range(Variants(pass.man, c))}
               got == loads[installed'[c][1]]
           IN got # "unloadable" /\ ("loadable" \in verdicts => got = "loadable")]_vars
  BY <1>2
<1>4. Init => SearchInv
  BY Idle DEF Init, SearchInv
<1> QED  BY <1>1, <1>3, <1>4, Start, KnownInitially, PTL DEF Spec, InstallsWhatLoads

-----------------------------------------------------------------------------
(* A pass nobody interferes with.                                             *)

Listed == [component : Components, file : Files, digest : Digests]
Stands(a) == files[a.file].content = Whole(a.digest)
AllStand(m) == \A a \in Range(m.artifacts) : Stands(a)

\* What a worker still has to fetch it has on its list, and all else is staged; and
\* what it has received is what the file holds that it is writing.
Downloading(w) ==
  /\ worker[w].todo \in Seq(Listed) \ {<<>>}
  /\ Range(worker[w].todo) \subseteq Range(worker[w].man.artifacts)
  /\ \A a \in Range(worker[w].man.artifacts) : a \in Range(worker[w].todo) \/ Stands(a)
  /\ worker[w].at = "create" => worker[w].got = <<>>
  /\ worker[w].at = "chunk" =>
       /\ w \in files[Target(w).file].by /\ files[Target(w).file].content = worker[w].got
       /\ worker[w].got \in Seq(Digests \cup {Junk})
Alone(w) ==
  /\ worker[w].at = "feed" => worker[w].got = <<>>
  /\ worker[w].at \in OnFeed => Downloading(w)
  /\ worker[w].report = "verified" => AllStand(worker[w].man)

\* The pass's own worker is the only one there is, and once it has reported there is
\* none: what the manifest lists is staged, and the private copy is a part of it.
CleanInv ==
  ~disturbed =>
    /\ pass.at = "wait" =>
         \A w \in Workers : worker[w].at # "none" => w = pass.worker /\ Alone(w)
    /\ pass.at \in {"next"} \cup Applying =>
         AllStand(pass.man) /\ \A w \in Workers : worker[w].at = "none"
    /\ pass.at = "read" =>
         /\ pass.held = Missing /\ Len(pass.copy) \in 0..Length[Source.digest]
         /\ pass.copy \in Seq({Source.digest})
    /\ pass.at = "check" => Matches

FilesShaped ==
  /\ files = [f \in Files |-> files[f]]
  /\ \A f \in Files : files[f] = [x \in {"content", "by"} |-> files[f][x]]

LEMMA ClosedKeeps ==
  ASSUME FilesShaped, NEW w, files' = ClosedBy(w)
  PROVE  FilesShaped' /\ \A f \in Files : files'[f].content = files[f].content
BY DEF FilesShaped, ClosedBy

LEMMA OneChanges ==
  ASSUME FilesShaped, NEW g, NEW c, NEW b, files' = [files EXCEPT ![g] = [content |-> c, by |-> b]]
  PROVE  /\ FilesShaped' /\ \A f \in Files \ {g} : files'[f] = files[f]
         /\ g \in Files => files'[g].content = c /\ files'[g].by = b
BY DEF FilesShaped

LEMMA DiscardShapes ==
  ASSUME FilesShaped, NEW w, Discard(w) PROVE FilesShaped'
<1> DEFINE f == Target(w).file
<1>1. files' = [ClosedBy(w) EXCEPT ![f] = [content |-> Missing, by |-> {}]]
  BY DEF Discard
<1>2. \A g \in Files : ClosedBy(w)[g] = [x \in {"content", "by"} |-> ClosedBy(w)[g][x]]
  BY DEF FilesShaped, ClosedBy
<1>3. ClosedBy(w) = [g \in Files |-> ClosedBy(w)[g]]
  BY DEF ClosedBy
<1> HIDE DEF f
<1> QED  BY <1>1, <1>2, <1>3 DEF FilesShaped

LEMMA ReceiveShapes ==
  ASSUME FilesShaped, NEW w, NEW chunk, Receive(w, chunk) PROVE FilesShaped'
<1> DEFINE f == Target(w).file
           new == Put(files[f].content, Len(worker[w].got) + 1, chunk)
<1>1. files' = files \/ files' = [files EXCEPT ![f].content = new]
  BY DEF Receive
<1> HIDE DEF f, new
<1> QED  BY <1>1 DEF FilesShaped

LEMMA FilesInitially == Init => FilesShaped
BY DEF Init, FilesShaped

LEMMA FilesKept == ASSUME FilesShaped, [Next]_vars PROVE FilesShaped'
<1> SUFFICES ASSUME files' # files PROVE FilesShaped'
  BY DEF FilesShaped
<1>1. ASSUME NEW w \in Workers, Staged(w) \/ DeadlineDry(w) \/ DeadlinePass(w) PROVE FilesShaped'
  BY <1>1, ClosedKeeps DEF Staged, DeadlineDry, DeadlinePass, Deadline
<1>2. ASSUME NEW w \in Workers, NEW m \in Manifests, Lie(w, m) PROVE FilesShaped'
  BY <1>2, ClosedKeeps DEF Lie
<1>3. ASSUME NEW w \in Workers, Create(w) PROVE FilesShaped'
  BY <1>3, OneChanges DEF Create, Opened
<1>4. ASSUME NEW w \in Workers, Chunk(w) \/ WrongChunk(w) PROVE FilesShaped'
  BY <1>4, ReceiveShapes DEF Chunk, WrongChunk
<1>5. ASSUME NEW w \in Workers, Mismatch(w) \/ TransferFails(w) PROVE FilesShaped'
  BY <1>5, DiscardShapes DEF Mismatch, TransferFails
<1>6. ASSUME NEW f \in Files, Rewrite(f) PROVE FilesShaped'
  BY <1>6 DEF Rewrite, FilesShaped
<1>7. ASSUME NEW w \in Workers, NEW m \in Manifests,
             \/ Feed(w, m) \/ Orphaned(w) \/ SpawnDry(w) \/ ReadDry(w) \/ FeedUnavailable(w)
             \/ Hang(w) \/ SpawnPass(w) \/ ReadReport(w)
      PROVE  FALSE
  BY <1>7 DEF Feed, Orphaned, SpawnDry, ReadDry, FeedUnavailable, Hang, SpawnPass, ReadReport
<1>8. ASSUME \/ PrepareDry \/ KillDry \/ Wake \/ MakePass \/ OwnPass \/ Finish \/ PassFails
             \/ KillPass \/ Open \/ Read \/ Check \/ Install \/ NotInstalled
             \/ \E c \in Components : Take(c)
      PROVE  FALSE
  BY <1>8 DEF PrepareDry, KillDry, Wake, MakePass, OwnPass, Finish, PassFails, KillPass, Open,
              Read, Check, Install, NotInstalled, Take
<1>9. Manifests # {}
  BY StagingAssumption
<1> QED
  BY <1>1, <1>2, <1>3, <1>4, <1>5, <1>6, <1>7, <1>8, <1>9
     DEF vars, Next, Steps, PassStep, DryStep, WorkerStep

-----------------------------------------------------------------------------
LEMMA Manifested ==
  ASSUME NEW m \in Manifests
  PROVE  /\ m.artifacts \in Seq(Listed) \ {<<>>}
         /\ \A a, b \in Range(m.artifacts) : a.file = b.file => a = b
         /\ \A a \in Range(m.artifacts) :
              /\ a.file \in Files /\ a.digest \in Digests
              /\ Whole(a.digest) # Missing
<1>1. /\ m.artifacts \in Seq(Listed) \ {<<>>}
      /\ \A a, b \in Range(m.artifacts) : a.file = b.file => a = b
  BY StagingAssumption DEF Listed
<1>2. ASSUME NEW a \in Range(m.artifacts) PROVE a \in Listed
  <2> HIDE DEF Listed
  <2>1. PICK i \in DOMAIN m.artifacts : a = m.artifacts[i]
    BY <1>2 DEF Range
  <2> QED  BY <1>1, <2>1
<1>3. ASSUME NEW d \in Digests PROVE Whole(d) # Missing
  <2>1. Length[d] \in Nat \ {0} /\ "missing" \notin Digests
    BY StagingAssumption
  <2>2. Whole(d)[1] = d
    BY <2>1 DEF Whole
  <2> QED  BY <2>1, <2>2 DEF Missing
<1> QED  BY <1>1, <1>2, <1>3 DEF Listed

LEMMA First ==
  ASSUME NEW w, worker[w].todo \in Seq(Listed) \ {<<>>}
  PROVE  /\ Target(w) \in Range(worker[w].todo)
         /\ Tail(worker[w].todo) \in Seq(Listed)
         /\ \A a \in Range(worker[w].todo) : a = Target(w) \/ a \in Range(Tail(worker[w].todo))
         /\ Range(Tail(worker[w].todo)) \subseteq Range(worker[w].todo)
<1> DEFINE s == worker[w].todo
<1> HIDE DEF Listed
<1>1. s \in Seq(Listed) /\ s # <<>> /\ Len(s) \in Nat /\ Len(s) > 0 /\ DOMAIN s = 1..Len(s)
  OBVIOUS
<1>2. /\ Tail(s) \in Seq(Listed) /\ Len(Tail(s)) = Len(s) - 1
      /\ DOMAIN Tail(s) = 1..(Len(s) - 1)
      /\ \A i \in 1..(Len(s) - 1) : Tail(s)[i] = s[i + 1]
  BY <1>1
<1>3. Target(w) = s[1]
  BY <1>1 DEF Target
<1> HIDE DEF s
<1>4. ASSUME NEW a \in Range(s) PROVE a = s[1] \/ a \in Range(Tail(s))
  <2>1. PICK i \in 1..Len(s) : a = s[i]
    BY <1>1 DEF Range
  <2>2. CASE i # 1
    <3>1. i - 1 \in DOMAIN Tail(s) /\ Tail(s)[i - 1] = s[i]
      BY <1>1, <1>2, <2>2
    <3> QED  BY <2>1, <3>1 DEF Range
  <2> QED  BY <2>1, <2>2
<1>5. ASSUME NEW a \in Range(Tail(s)) PROVE a \in Range(s)
  <2>1. PICK i \in 1..(Len(s) - 1) : a = s[i + 1]
    BY <1>2 DEF Range
  <2> QED  BY <1>1, <2>1 DEF Range
<1>6. s[1] \in Range(s)
  BY <1>1 DEF Range
<1> QED  BY <1>2, <1>3, <1>4, <1>5, <1>6 DEF s

\* The steps of a worker that is alone.
LEMMA FeedAlone ==
  ASSUME Known, NEW w \in Workers, NEW m \in Manifests, Feed(w, m), Alone(w)
  PROVE  Alone(w)'
<1>1. CASE Rejects(w)
  BY <1>1, RestingKnows DEF Rejects, Reports, Known, Alone, OnFeed, Resting
<1>2. CASE ~Rejects(w)
  <2>1. worker' = [worker EXCEPT ![w].at = "create", ![w].man = m, ![w].todo = m.artifacts]
    BY <1>2 DEF Feed
  <2>2. worker'[w] = [worker[w] EXCEPT !.at = "create", !.man = m, !.todo = m.artifacts]
    BY <2>1 DEF Known
  <2>3. /\ worker'[w].at = "create" /\ worker'[w].man = m /\ worker'[w].todo = m.artifacts
        /\ worker'[w].got = <<>> /\ worker'[w].report # "verified"
    BY <2>2 DEF Known, WorkerKnows, WorkerFields, Feed, WorkerAt, Alone
  <2> QED  BY <2>3, Manifested DEF Alone, Downloading
<1> QED  BY <1>1, <1>2

LEMMA CreateAlone ==
  ASSUME Known, FilesShaped, NEW w \in Workers, Create(w), Alone(w)
  PROVE  Alone(w)'
<1> DEFINE a == Target(w)
<1>1. /\ worker[w].at = "create" /\ Downloading(w) /\ worker[w].man \in Manifests
  BY DEF Create, WorkerAt, Alone, OnFeed, Known, WorkerKnows
<1>2. /\ worker'[w].at = "chunk" /\ worker'[w].man = worker[w].man
      /\ worker'[w].todo = worker[w].todo /\ worker'[w].got = <<>>
      /\ worker'[w].report # "verified"
  BY <1>1 DEF Create, Known, WorkerKnows, WorkerFields, Downloading
<1>3. a \in Range(worker[w].todo) /\ a \in Range(worker[w].man.artifacts) /\ a.file \in Files
  BY <1>1, First, Manifested DEF Downloading
<1>4. files' = [files EXCEPT ![a.file] = [content |-> <<>>, by |-> files[a.file].by \cup {w}]]
  BY DEF Create, Opened
<1>5. /\ \A f \in Files \ {a.file} : files'[f] = files[f]
      /\ files'[a.file].content = <<>> /\ w \in files'[a.file].by
  <2> DEFINE f == a.file
             by == files[f].by \cup {w}
  <2>1. f \in Files /\ files' = [files EXCEPT ![f] = [content |-> <<>>, by |-> by]] /\ w \in by
    BY <1>3, <1>4
  <2> HIDE DEF f, by
  <2>2. /\ \A g \in Files \ {f} : files'[g] = files[g]
        /\ files'[f].content = <<>> /\ w \in files'[f].by
    BY <2>1 DEF FilesShaped
  <2> QED  BY <2>2 DEF f
<1>6. Target(w)' = a
  BY <1>2 DEF Target
<1> HIDE DEF a
<1>7. ASSUME NEW b \in Range(worker[w].man.artifacts)
      PROVE  b \in Range(worker[w].todo) \/ Stands(b)'
  BY <1>1, <1>3, <1>5, Manifested DEF Downloading, Stands
<1> QED  BY <1>1, <1>2, <1>5, <1>6, <1>7 DEF Alone, Downloading

LEMMA PutsBehind ==
  ASSUME NEW s \in Seq(Digests \cup {Junk}), NEW c \in Digests \cup {Junk}
  PROVE  /\ Put(s, Len(s) + 1, c) = Append(s, c)
         /\ Append(s, c) \in Seq(Digests \cup {Junk})
<1>1. Len(s) \in Nat /\ DOMAIN s = 1..Len(s)
  OBVIOUS
<1>2. Put(s, Len(s) + 1, c) = [i \in 1..(Len(s) + 1) |-> IF i = Len(s) + 1 THEN c ELSE s[i]]
  BY <1>1 DEF Put
<1>3. /\ Append(s, c) \in Seq(Digests \cup {Junk}) /\ Len(Append(s, c)) = Len(s) + 1
      /\ \A i \in 1..(Len(s) + 1) : Append(s, c)[i] = IF i = Len(s) + 1 THEN c ELSE s[i]
  BY <1>1
<1>4. ASSUME NEW t \in Seq(Digests \cup {Junk}) PROVE t = [i \in 1..Len(t) |-> t[i]]
  OBVIOUS
<1>5. Append(s, c) = [i \in 1..(Len(s) + 1) |-> Append(s, c)[i]]
  BY <1>3, <1>4
<1> QED  BY <1>2, <1>3, <1>5

LEMMA ReceiveAlone ==
  ASSUME Known, FilesShaped, NEW w \in Workers, NEW c \in {Target(w).digest, Junk},
         Receive(w, c), Alone(w)
  PROVE  Alone(w)'
<1> DEFINE a == Target(w)
           got == worker[w].got
<1>1. /\ worker[w].at = "chunk" /\ Downloading(w) /\ worker[w].man \in Manifests
  BY DEF Receive, WorkerAt, Alone, OnFeed, Known, WorkerKnows
<1>2. /\ worker'[w].at = "chunk" /\ worker'[w].man = worker[w].man
      /\ worker'[w].todo = worker[w].todo /\ worker'[w].got = Append(got, c)
      /\ worker'[w].report # "verified"
  BY <1>1 DEF Receive, Known, WorkerKnows, WorkerFields
<1>3. a \in Range(worker[w].todo) /\ a \in Range(worker[w].man.artifacts) /\ a.file \in Files
      /\ a.digest \in Digests
  BY <1>1, First, Manifested DEF Downloading
<1>4. /\ w \in files[a.file].by /\ files[a.file].content = got
      /\ got \in Seq(Digests \cup {Junk})
  BY <1>1 DEF Downloading
<1>5. files' = [files EXCEPT ![a.file].content = Put(got, Len(got) + 1, c)]
  BY <1>4 DEF Receive
<1>6. Put(got, Len(got) + 1, c) = Append(got, c) /\ Append(got, c) \in Seq(Digests \cup {Junk})
  <2>1. c \in Digests \cup {Junk}
    BY <1>3
  <2> HIDE DEF got
  <2> QED  BY <1>4, <2>1, PutsBehind
<1>7. Target(w)' = a
  BY <1>2 DEF Target
<1> HIDE DEF a, got
<1>8. /\ \A f \in Files \ {a.file} : files'[f] = files[f]
      /\ files'[a.file].content = Append(got, c) /\ w \in files'[a.file].by
  BY <1>3, <1>4, <1>5, <1>6 DEF FilesShaped
<1>9. ASSUME NEW b \in Range(worker[w].man.artifacts)
      PROVE  b \in Range(worker[w].todo) \/ Stands(b)'
  BY <1>1, <1>3, <1>8, Manifested DEF Downloading, Stands
<1> QED  BY <1>1, <1>2, <1>6, <1>7, <1>8, <1>9 DEF Alone, Downloading

LEMMA StagedAlone ==
  ASSUME Known, FilesShaped, NEW w \in Workers, Staged(w), Alone(w)
  PROVE  Alone(w)'
<1> DEFINE a == Target(w)
           rest == Tail(worker[w].todo)
<1>1. /\ worker[w].at = "chunk" /\ Downloading(w) /\ worker[w].man \in Manifests
      /\ worker[w].got = Whole(a.digest) /\ worker[w].report # "verified"
  BY DEF Staged, WorkerAt, Alone, OnFeed, Known, WorkerKnows
<1>2. \A f \in Files : files'[f].content = files[f].content
  BY ClosedKeeps DEF Staged
<1>3. ASSUME NEW b \in Range(worker[w].man.artifacts)
      PROVE  b \in Range(rest) \/ Stands(b)'
  <2>1. b.file \in Files
    BY <1>1, Manifested
  <2>2. Stands(b) => Stands(b)'
    BY <1>2, <2>1 DEF Stands
  <2>3. b \in Range(worker[w].todo) \/ Stands(b)
    BY <1>1 DEF Downloading
  <2>4. b \in Range(worker[w].todo) => b = a \/ b \in Range(rest)
    BY <1>1, First DEF Downloading
  <2>5. Stands(a)
    BY <1>1 DEF Downloading, Stands
  <2> QED  BY <2>2, <2>3, <2>4, <2>5
<1>4. rest \in Seq(Listed) /\ Range(rest) \subseteq Range(worker[w].man.artifacts)
  BY <1>1, First DEF Downloading
<1> HIDE DEF rest
<1>5. CASE rest = <<>>
  <2>1. Reports(w, "verified", worker[w].man)
    BY <1>5 DEF Staged, rest
  <2>2. worker'[w].at = "report" /\ worker'[w].man = worker[w].man
    BY <2>1 DEF Reports, Known, Resting
  <2>3. Range(rest) = {}
    BY <1>5 DEF Range
  <2> QED  BY <1>3, <2>2, <2>3 DEF Alone, AllStand, OnFeed
<1>6. CASE rest # <<>>
  <2>1. worker' = [worker EXCEPT ![w].at = "create", ![w].todo = rest, ![w].got = <<>>]
    BY <1>6 DEF Staged, rest
  <2>2. /\ worker'[w].at = "create" /\ worker'[w].man = worker[w].man
        /\ worker'[w].todo = rest /\ worker'[w].got = <<>>
        /\ worker'[w].report # "verified"
    BY <1>1, <2>1 DEF Known, WorkerKnows, WorkerFields
  <2> QED  BY <1>3, <1>4, <1>6, <2>2 DEF Alone, Downloading
<1> QED  BY <1>5, <1>6

LEMMA StopAlone ==
  ASSUME Known, NEW w \in Workers,
         \/ FeedUnavailable(w) \/ Mismatch(w) \/ TransferFails(w) \/ Hang(w) \/ Orphaned(w)
         \/ worker' = [worker EXCEPT ![w] = Resting]
  PROVE  Alone(w)'
<1>1. CASE Rejects(w) \/ worker' = [worker EXCEPT ![w] = Resting]
  BY <1>1, RestingKnows DEF Rejects, Reports, Known, Alone, OnFeed, Resting
<1>2. CASE Hang(w)
  <2>1. worker'[w].at = "hang" /\ worker'[w].report # "verified"
    BY <1>2 DEF Hang, Known, WorkerKnows, WorkerFields
  <2> QED  BY <2>1 DEF Alone, OnFeed
<1> QED
  BY <1>1, <1>2 DEF FeedUnavailable, Mismatch, TransferFails, Discard, Orphaned

-----------------------------------------------------------------------------
LEMMA CleanElsewhere ==
  ASSUME pass'.at \notin {"wait", "next"} \cup Applying PROVE CleanInv'
BY DEF CleanInv, Applying

LEMMA CleanSame ==
  ASSUME CleanInv, UNCHANGED <<worker, files, pass, disturbed>> PROVE CleanInv'
BY DEF CleanInv, AllStand, Stands, Alone, Downloading, Target, Matches, Source

\* A step of a worker: of the pass's own, or somebody is disturbing it.
LEMMA WorkerClean ==
  ASSUME CleanInv, Known, IInv, NEW w \in Workers, worker[w].at # "none",
         Alone(w) => Alone(w)', worker' = [worker EXCEPT ![w] = worker'[w]],
         disturbed' = disturbed, PassStays, pass.at # "read" => UNCHANGED pass
  PROVE  CleanInv'
<1>1. pass'.at = pass.at
  BY DEF PassStays, IInv, Shaped, PassFields
<1>2. CASE disturbed
  BY <1>2 DEF CleanInv
<1>3. CASE ~disturbed /\ pass.at = "wait"
  <2>1. UNCHANGED pass /\ w = pass.worker /\ Alone(w)'
    BY <1>3 DEF CleanInv
  <2>2. \A v \in Workers : worker'[v].at # "none" => v = w
    BY <1>3, <2>1 DEF CleanInv, Known
  <2> QED  BY <1>3, <2>1, <2>2 DEF CleanInv, Applying
<1>4. CASE ~disturbed /\ pass.at \in {"next"} \cup Applying
  BY <1>4 DEF CleanInv
<1> QED  BY <1>1, <1>2, <1>3, <1>4, CleanElsewhere

LEMMA OthersClean ==
  ASSUME CleanInv, Known, IInv, FilesShaped, Others PROVE CleanInv'
<1> USE DEF PassStays
<1>1. CASE PrepareDry \/ KillDry
  BY <1>1, CleanSame DEF PrepareDry, KillDry
<1>2. ASSUME disturbed' = TRUE PROVE CleanInv'
  BY <1>2 DEF CleanInv
<1>3. ASSUME NEW w \in Workers, ReadDry(w) \/ DeadlineDry(w) \/ Orphaned(w) PROVE CleanInv'
  <2>1. worker' = [worker EXCEPT ![w] = Resting] /\ UNCHANGED <<pass, disturbed>>
    BY <1>3 DEF ReadDry, DeadlineDry, Deadline, Orphaned
  <2>2. worker[w].at # "none"
    BY <1>3 DEF ReadDry, DeadlineDry, Deadline, Orphaned, WorkerAt
  <2>3. Alone(w)'
    BY <2>1, StopAlone
  <2> QED  BY <2>1, <2>2, <2>3, WorkerClean DEF Known
<1>4. ASSUME NEW w \in Workers, NEW m \in Manifests,
             Feed(w, m) \/ Create(w) \/ Chunk(w) \/ WrongChunk(w) \/ Staged(w) \/ Hang(w)
      PROVE  CleanInv'
  <2>1. Works(w)
    BY <1>4, DownloadWorks
  <2>2. UNCHANGED <<pass, disturbed>> /\ worker[w].at # "none"
    BY <1>4 DEF Feed, Create, Chunk, WrongChunk, Receive, Staged, Hang, WorkerAt
  <2>3. Alone(w) => Alone(w)'
    BY <1>4, FeedAlone, CreateAlone, ReceiveAlone, StagedAlone, StopAlone DEF Chunk, WrongChunk
  <2> QED  BY <2>1, <2>2, <2>3, WorkerClean DEF Works
<1>5. ASSUME NEW w \in Workers, FeedUnavailable(w) \/ Mismatch(w) \/ TransferFails(w)
      PROVE  CleanInv'
  <2>1. Works(w)
    BY <1>5, ReportWorks DEF FeedUnavailable, Mismatch, TransferFails, Discard
  <2>2. /\ UNCHANGED disturbed /\ worker[w].at # "none" /\ PassStays
        /\ pass.at # "read" => UNCHANGED pass
    BY <1>5 DEF FeedUnavailable, Mismatch, TransferFails, Discard, WorkerAt, PassAt
  <2>3. Alone(w)'
    BY <1>5, StopAlone
  <2> QED  BY <2>1, <2>2, <2>3, WorkerClean DEF Works
<1>6. ASSUME NEW w \in Workers, NEW m \in Manifests, Lie(w, m) \/ SpawnDry(w) PROVE CleanInv'
  BY <1>6, <1>2 DEF Lie, SpawnDry
<1>7. ASSUME NEW f \in Files, Rewrite(f) PROVE CleanInv'
  BY <1>7, <1>2 DEF Rewrite
<1>8. Manifests # {}
  BY StagingAssumption
<1> QED
  BY <1>1, <1>3, <1>4, <1>5, <1>6, <1>7, <1>8 DEF Others, DryStep, WorkerStep

\* The worker is spawned where there is none, or the pass is disturbed.
LEMMA SpawnClean ==
  ASSUME Known, IInv, NEW w \in Workers, SpawnPass(w) PROVE CleanInv'
<1>1. /\ pass'.at = "wait" /\ pass'.worker = w
      /\ worker' = [worker EXCEPT ![w] = [Resting EXCEPT !.at = "feed", !.marks = marks]]
      /\ disturbed' = (Alive # {})
  BY DEF SpawnPass, Spawned, IInv, Shaped, PassFields
<1>2. CASE Alive = {}
  <2>1. \A v \in Workers : worker'[v].at # "none" => v = w
    BY <1>1, <1>2 DEF Alive, Known
  <2>2. worker'[w].at = "feed" /\ worker'[w].got = <<>> /\ worker'[w].report = "rejected"
    BY <1>1 DEF Known, Resting
  <2> QED  BY <1>1, <2>1, <2>2 DEF CleanInv, Alone, OnFeed, Applying
<1> QED  BY <1>1, <1>2 DEF CleanInv

LEMMA ReportClean ==
  ASSUME CleanInv, Known, IInv, NEW w \in Workers, ReadReport(w) PROVE CleanInv'
<1>1. CASE Ends
  BY <1>1, Idle, CleanElsewhere DEF Ends, IdlePass, Applying
<1>2. CASE ~Ends
  <2>1. /\ pass'.at = "next" /\ pass'.man = worker[w].man /\ worker[w].report = "verified"
    BY <1>2 DEF ReadReport, IInv, Shaped, PassFields
  <2>2. /\ pass.at = "wait" /\ pass.worker = w /\ worker[w].at = "report"
        /\ worker' = [worker EXCEPT ![w] = Resting] /\ UNCHANGED <<files, disturbed>>
    BY DEF ReadReport, PassAt, WorkerAt
  <2>3. ASSUME ~disturbed
        PROVE  AllStand(pass.man)' /\ \A v \in Workers : worker'[v].at = "none"
    <3>1. AllStand(worker[w].man) /\ \A v \in Workers : worker[v].at # "none" => v = w
      BY <2>1, <2>2, <2>3 DEF CleanInv, Alone
    <3> QED  BY <2>1, <2>2, <3>1, RestingKnows DEF AllStand, Stands, Known
  <2> QED  BY <2>1, <2>2, <2>3 DEF CleanInv, Applying
<1> QED  BY <1>1, <1>2

\* The candidate under examination is listed.
LEMMA SourceListed ==
  ASSUME Known, IInv, pass.at \in Applying
  PROVE  /\ Source \in Range(pass.man.artifacts) /\ Source.file \in Files
         /\ Source.digest \in Digests /\ Length[Source.digest] \in Nat \ {0}
         /\ Whole(Source.digest) # Missing
<1>1. /\ pass.man \in Manifests /\ pass.cur \in Components
      /\ pass.variant \in DOMAIN Variants(pass.man, pass.cur)
  BY DEF Known, PassKnows, IInv, OnACandidate, Candidates
<1>2. Variants(pass.man, pass.cur) \in Seq(Range(pass.man.artifacts))
  BY <1>1, StagingAssumption
<1>3. Source \in Range(pass.man.artifacts)
  BY <1>1, <1>2 DEF Source
<1> QED  BY <1>1, <1>3, Manifested, StagingAssumption

LEMMA ReadClean ==
  ASSUME CleanInv, Known, IInv, Read, ~disturbed PROVE CleanInv'
<1> DEFINE d == Source.digest
           f == IF pass.held = Missing THEN files[Source.file].content ELSE pass.held
           n == Len(pass.copy)
<1>1. pass.at = "read" /\ UNCHANGED <<files, worker, disturbed>>
  BY DEF Read, PassAt
<1>2. /\ Source \in Range(pass.man.artifacts) /\ Length[d] \in Nat \ {0}
  BY <1>1, SourceListed DEF Applying
<1>3. /\ AllStand(pass.man) /\ \A v \in Workers : worker[v].at = "none"
      /\ pass.held = Missing /\ n \in 0..Length[d] /\ pass.copy \in Seq({d})
  BY <1>1 DEF CleanInv, Applying
<1>4. f = [i \in 1..Length[d] |-> d] /\ Len(f) = Length[d]
  BY <1>2, <1>3 DEF AllStand, Stands, Whole
<1>5. /\ pass'.at \in {"read", "check"} /\ pass'.man = pass.man /\ pass'.cur = pass.cur
      /\ pass'.variant = pass.variant /\ pass'.held = Missing
      /\ pass'.at = "read" => n < Len(f) /\ pass'.copy = Append(pass.copy, f[n + 1])
      /\ pass'.at = "check" => ~(n < Len(f)) /\ pass'.copy = pass.copy
  <2>1. pass' = IF n < Len(f) THEN [pass EXCEPT !.copy = Append(@, f[n + 1])]
                ELSE [pass EXCEPT !.at = "check", !.held = Missing]
    BY DEF Read
  <2> HIDE DEF f, n
  <2> QED  BY <1>1, <1>3, <2>1 DEF IInv, Shaped, PassFields
<1>6. Source' = Source /\ AllStand(pass.man)'
  BY <1>1, <1>3, <1>5 DEF Source, AllStand, Stands
<1> HIDE DEF d, f, n
<1>7. CASE pass'.at = "check"
  <2>1. n = Length[d]
    BY <1>2, <1>3, <1>4, <1>5, <1>7
  <2>2. pass.copy = Whole(d)
    BY <1>2, <1>3, <2>1 DEF Whole, n
  <2>3. Matches'
    BY <1>5, <1>6, <1>7, <2>2 DEF Matches, d
  <2> QED  BY <1>1, <1>3, <1>6, <1>7, <2>3 DEF CleanInv
<1>8. CASE pass'.at = "read"
  <2>1. n < Length[d] /\ f[n + 1] = d
    BY <1>2, <1>3, <1>4, <1>5, <1>8
  <2>2. pass'.copy = Append(pass.copy, d)
    BY <1>5, <1>8, <2>1
  <2>3. Len(pass'.copy) \in 0..Length[d] /\ pass'.copy \in Seq({d})
    BY <1>2, <1>3, <2>1, <2>2 DEF n
  <2> QED  BY <1>1, <1>3, <1>5, <1>6, <1>8, <2>3 DEF CleanInv, d
<1> QED  BY <1>5, <1>7, <1>8

LEMMA PassesClean ==
  ASSUME CleanInv, Known, IInv, Passes PROVE CleanInv'
<1>1. ASSUME \/ Wake \/ MakePass \/ OwnPass \/ Finish \/ PassFails \/ KillPass
             \/ \E w \in Workers : DeadlinePass(w)
      PROVE  CleanInv'
  <2>1. pass'.at \notin {"wait", "next"} \cup Applying
    BY <1>1, Idle DEF Wake, MakePass, OwnPass, Finish, PassFails, KillPass, DeadlinePass, Ends,
       PassAt, IInv, Shaped, PassFields, Applying, IdlePass
  <2> QED  BY <2>1, CleanElsewhere
<1>2. ASSUME \/ Install \/ NotInstalled \/ Open \/ Check \/ \E c \in Components : Take(c),
             pass' # IdlePass
      PROVE  CleanInv'
  <2>1. pass.at \in {"next"} \cup Applying /\ UNCHANGED <<files, worker, disturbed>>
    BY <1>2 DEF Install, NotInstalled, Open, Check, Take, PassAt, Applying
  <2>2. pass'.man = pass.man /\ pass'.at \in {"next", "open", "read", "install"}
    <3>1. ASSUME NEW fb, pass' = NextVariant(fb)
          PROVE  pass'.man = pass.man /\ pass'.at \in {"next", "open", "read", "install"}
      BY <3>1 DEF NextVariant, IInv, Shaped, PassFields
    <3>2. CASE Check
      BY <1>2, <3>1, <3>2 DEF Check, IInv, Shaped, PassFields
    <3> QED
      BY <1>2, <3>2, ZenonT(60) DEF Install, NotInstalled, Open, Take, Ends, IInv, Shaped, PassFields
  <2>3. AllStand(pass.man) => AllStand(pass.man)'
    BY <2>1, <2>2 DEF AllStand, Stands
  <2>4. ASSUME pass'.at = "read"
        PROVE  /\ pass'.held = Missing /\ pass'.copy = <<>> /\ Source' = Source
               /\ Length[Source.digest] \in Nat \ {0}
    <3>1. Open
      <4>1. ASSUME NEW fb, pass' = NextVariant(fb) PROVE FALSE
        BY <2>4, <4>1 DEF NextVariant, IInv, Shaped, PassFields
      <4> QED
        BY <1>2, <2>4, <4>1 DEF Install, NotInstalled, Check, Take, IInv, Shaped, PassFields
    <3>2. /\ pass'.held = Missing /\ pass'.copy = <<>> /\ pass'.variant = pass.variant
          /\ pass'.cur = pass.cur /\ pass.at = "open"
      BY <1>2, <3>1 DEF Open, Ends, PassAt, IInv, Shaped, PassFields
    <3> QED  BY <2>2, <3>2, SourceListed DEF Source, Applying
  <2>5. ASSUME pass'.at = "read"
        PROVE  /\ Len(pass'.copy) \in 0..Length[Source.digest]'
               /\ pass'.copy \in Seq({Source.digest})'
    <3>1. pass'.copy = <<>> /\ Source' = Source /\ Length[Source.digest] \in Nat
      BY <2>4, <2>5
    <3>2. Len(pass'.copy) = 0 /\ Len(pass'.copy) \in 0..Length[Source.digest]'
      BY <3>1
    <3>3. pass'.copy \in Seq({Source.digest'})
      BY <3>1
    <3> QED  BY <3>2, <3>3
  <2> QED  BY <2>1, <2>2, <2>3, <2>4, <2>5 DEF CleanInv, Applying
<1>3. ASSUME Read, disturbed PROVE CleanInv'
  BY <1>3 DEF Read, CleanInv
<1>4. ASSUME pass' = IdlePass PROVE CleanInv'
  BY <1>4, Idle, CleanElsewhere DEF IdlePass, Applying
<1> QED
  BY <1>1, <1>2, <1>3, <1>4, SpawnClean, ReportClean, ReadClean DEF Passes

\* A pass nobody interferes with installs what its worker has verified: nothing that
\* an earlier pass, killed or failed, has left in the staging directory makes it abort
\* (net.rs, download_and_verify).
THEOREM LeftoversHarmless == Spec => LeftoversAreHarmless
<1> DEFINE All == IInv /\ Known /\ FilesShaped /\ CleanInv
<1>1. Init => All
  BY Start, KnownInitially, FilesInitially, Idle DEF Init, CleanInv, IdlePass, Applying
<1>2. All /\ [Next]_vars => All'
  <2>1. ASSUME All, UNCHANGED vars PROVE CleanInv'
    BY <2>1, CleanSame DEF vars
  <2> QED
    BY <2>1, Inductive, KnownStays, FilesKept, StepsSplit, OthersClean, PassesClean
<1>3. All /\ [Next]_vars =>
        [pass.at \in {"open", "check"} /\ Ends /\ trouble' = trouble => disturbed]_vars
  <2> SUFFICES ASSUME All, [Next]_vars, pass.at \in {"open", "check"}, Ends,
                      trouble' = trouble, ~disturbed
               PROVE  FALSE
    OBVIOUS
  <2>1. pass'.at = "idle" /\ pass' # pass
    BY DEF Ends, IdlePass
  <2>2. Passes
    <3>1. ASSUME Others PROVE pass'.at = pass.at
      BY <3>1, OthersWork DEF PassStays, IInv, Shaped, PassFields
    <3> QED  BY <2>1, <3>1, StepsSplit DEF vars
  <2>3. Open \/ Check
    <3>1. ASSUME PassFails \/ KillPass PROVE FALSE
      BY <3>1 DEF PassFails, KillPass, Trouble, Known
    <3>2. ASSUME NEW w \in Workers, SpawnPass(w) \/ DeadlinePass(w) \/ ReadReport(w) PROVE FALSE
      BY <3>2 DEF SpawnPass, DeadlinePass, ReadReport, PassAt
    <3> QED
      BY <2>2, <3>1, <3>2 DEF Passes, Wake, MakePass, OwnPass, Finish, Take, Read, Install,
                              NotInstalled, PassAt
  <2>4. Source \in Range(pass.man.artifacts) /\ Whole(Source.digest) # Missing
    BY SourceListed DEF Applying
  <2>5. CASE Open
    <3>1. files[Source.file].content # Missing
      BY <2>4 DEF CleanInv, AllStand, Stands, Applying
    <3> QED  BY <2>1, <2>5, <3>1 DEF Open, IInv, Shaped, PassFields
  <2>6. CASE Check
    <3>1. Matches
      BY <2>6 DEF Check, PassAt, CleanInv
    <3>2. ASSUME NEW fb, pass' = NextVariant(fb) PROVE FALSE
      BY <2>1, <3>2 DEF NextVariant, IInv, Shaped, PassFields
    <3> QED  BY <2>1, <2>6, <3>1, <3>2 DEF Check, IInv, Shaped, PassFields
  <2> QED  BY <2>3, <2>5, <2>6
<1> QED  BY <1>1, <1>2, <1>3, PTL DEF Spec, LeftoversAreHarmless

-----------------------------------------------------------------------------
(* Types.                                                                    *)

Bytes == Digests \cup {Junk, Hole}
Writing == {"chunk", "hang"}

FileTyped(f) ==
  /\ files[f].content \in Content
  /\ files[f].by \subseteq {w \in Workers : worker[w].at \in Writing}
  /\ files[f].content = Missing => files[f].by = {}

\* What a worker is at; while it downloads, it has something to download.
WorkerTyped(w) ==
  /\ worker[w].at \in {"none", "feed", "create", "chunk", "hang", "report"}
  /\ worker[w].at = "none" => worker[w] = Resting
  /\ worker[w].got \in Seq(Bytes)
  /\ worker[w].at \in OnFeed => worker[w].todo \in Seq(Listed) \ {<<>>}

PassTyped ==
  /\ pass.at \in {"idle", "make", "own", "spawn", "wait", "next"} \cup Applying
  /\ pass.at = "idle" => pass = IdlePass

HostTyped ==
  /\ dir \in {"absent", "creator", "worker"} /\ disturbed \in BOOLEAN
  /\ dry \in [at : {"idle", "spawn", "wait"}, worker : Workers \cup {NoWorker}]
  /\ \A c \in Components : installed[c] \in Content
  /\ marks \in TrustState /\ trouble \in 0..MaxTrouble

FilesTyped == \A f \in Files : FileTyped(f)
WorkersTyped == \A w \in Workers : WorkerTyped(w)
Typed == FilesTyped /\ WorkersTyped /\ PassTyped /\ HostTyped

LEMMA WholeTyped ==
  ASSUME NEW d \in Digests
  PROVE  Whole(d) \in Seq(Digests) /\ Whole(d) \in Content /\ Whole(d) \in Seq(Bytes)
<1>1. Length[d] \in Nat
  BY StagingAssumption
<1>2. Whole(d) \in Seq(Digests)
  BY <1>1 DEF Whole
<1> QED  BY <1>2 DEF Content, Bytes

\* A file that is there has no more than bytes in it.
LEMMA BytesOrMissing ==
  /\ Content = {Missing} \cup Seq(Bytes) /\ Missing \notin Seq(Bytes)
  /\ <<>> \in Seq(Bytes) /\ <<Junk>> \in Seq(Bytes)
BY StagingAssumption DEF Content, Missing, Bytes, Junk, Hole

LEMMA PutTyped ==
  ASSUME NEW s \in Seq(Bytes), NEW n \in Nat \ {0}, NEW b \in Bytes
  PROVE  Put(s, n, b) \in Seq(Bytes)
<1> DEFINE m == IF n > Len(s) THEN n ELSE Len(s)
<1>1. m \in Nat
  OBVIOUS
<1>2. Put(s, n, b) = [i \in 1..m |-> IF i = n THEN b ELSE IF i <= Len(s) THEN s[i] ELSE Hole]
  BY DEF Put
<1> HIDE DEF m
<1>3. \A i \in 1..m : (IF i = n THEN b ELSE IF i <= Len(s) THEN s[i] ELSE Hole) \in Bytes
  BY <1>1 DEF Bytes
<1> QED  BY <1>1, <1>2, <1>3

LEMMA TypedAtFirst == Init => Typed
<1> SUFFICES ASSUME Init PROVE Typed
  OBVIOUS
<1>1. FilesTyped
  BY DEF Init, FilesTyped, FileTyped, Content
<1>2. WorkersTyped
  BY RestingKnows, BytesOrMissing DEF Init, WorkersTyped, WorkerTyped, OnFeed
<1>3. PassTyped
  BY DEF Init, PassTyped, IdlePass
<1>4. \A c \in Components : installed[c] \in Content
  BY WholeTyped, StagingAssumption DEF Init
<1>5. marks \in TrustState
  BY DEF Init, Initial, TrustState
<1>6. trouble \in 0..MaxTrouble
  BY StagingAssumption DEF Init
<1>7. dry \in [at : {"idle", "spawn", "wait"}, worker : Workers \cup {NoWorker}]
  BY DEF Init, IdleDry
<1>8. HostTyped
  BY <1>4, <1>5, <1>6, <1>7 DEF Init, HostTyped
<1> QED  BY <1>1, <1>2, <1>3, <1>8 DEF Typed

\* One worker moves, and what it has open goes with it.
LEMMA OneMoves ==
  ASSUME Typed, Known, FilesShaped, NEW w \in Workers,
         \A v \in Workers \ {w} : worker'[v] = worker[v], WorkerTyped(w)',
         \/ files' = files /\ (worker[w].at \in Writing => worker'[w].at \in Writing)
         \/ files' = ClosedBy(w)
         \/ \E g : files' = [ClosedBy(w) EXCEPT ![g] = [content |-> Missing, by |-> {}]]
         \/ /\ worker'[w].at \in Writing
            /\ \E g : files' = [files EXCEPT ![g] = Opened(files[g], w)]
         \/ /\ worker'[w].at \in Writing
            /\ \E new \in Seq(Bytes) : \E g : files' = [files EXCEPT ![g].content = new]
  PROVE  WorkersTyped' /\ FilesTyped'
<1>1. WorkersTyped'
  BY DEF Typed, WorkersTyped, WorkerTyped
<1>2. ASSUME NEW f \in Files
      PROVE  /\ files'[f].content \in Content
             /\ files'[f].content = Missing => files'[f].by = {}
             /\ files'[f].by \subseteq files[f].by \cup {w}
             /\ w \in files'[f].by => worker'[w].at \in Writing
  <2>1. FileTyped(f) /\ files[f] = [x \in {"content", "by"} |-> files[f][x]]
    BY DEF Typed, FilesTyped, FilesShaped
  <2>2. CASE files' = files /\ (worker[w].at \in Writing => worker'[w].at \in Writing)
    BY <2>1, <2>2 DEF FileTyped
  <2>3. ClosedBy(w)[f].content = files[f].content /\ ClosedBy(w)[f].by = files[f].by \ {w}
    BY <2>1 DEF ClosedBy
  <2>4. CASE files' = ClosedBy(w)
    BY <2>1, <2>3, <2>4 DEF FileTyped
  <2>5. ASSUME NEW g, files' = [ClosedBy(w) EXCEPT ![g] = [content |-> Missing, by |-> {}]]
        PROVE  files'[f] = ClosedBy(w)[f] \/ files'[f] = [content |-> Missing, by |-> {}]
    BY <2>5 DEF ClosedBy
  <2>6. ASSUME NEW g, files' = [files EXCEPT ![g] = Opened(files[g], w)]
        PROVE  \/ files'[f] = files[f]
               \/ files'[f].content = <<>> /\ files'[f].by = files[f].by \cup {w}
    BY <2>6 DEF FilesShaped, Opened
  <2>7. ASSUME NEW g, NEW new \in Seq(Bytes), files' = [files EXCEPT ![g].content = new]
        PROVE  \/ files'[f] = files[f]
               \/ files'[f].content = new /\ files'[f].by = files[f].by
    BY <2>1, <2>7 DEF FilesShaped
  <2>8. CASE \E g : files' = [ClosedBy(w) EXCEPT ![g] = [content |-> Missing, by |-> {}]]
    BY <2>1, <2>3, <2>5, <2>8, BytesOrMissing DEF FileTyped
  <2>9. CASE /\ worker'[w].at \in Writing
             /\ \E g : files' = [files EXCEPT ![g] = Opened(files[g], w)]
    BY <2>1, <2>6, <2>9, BytesOrMissing DEF FileTyped
  <2>10. CASE /\ worker'[w].at \in Writing
              /\ \E new \in Seq(Bytes) : \E g : files' = [files EXCEPT ![g].content = new]
    BY <2>1, <2>7, <2>10, BytesOrMissing DEF FileTyped
  <2> QED  BY <2>2, <2>4, <2>8, <2>9, <2>10
<1>3. ASSUME NEW f \in Files PROVE FileTyped(f)'
  <2>1. \A v \in files[f].by : v \in Workers /\ worker[v].at \in Writing
    BY DEF Typed, FilesTyped, FileTyped
  <2> QED  BY <1>2, <2>1 DEF FileTyped
<1> QED  BY <1>1, <1>3 DEF FilesTyped

\* A worker that ends, that reports, or that is spawned.
LEMMA AnewTyped ==
  ASSUME Known, NEW w \in Workers, NEW m, NEW ms,
         \/ worker' = [worker EXCEPT ![w] = Resting]
         \/ worker' = [worker EXCEPT ![w] = [Resting EXCEPT !.at = "feed", !.marks = ms]]
         \/ Rejects(w) \/ Reports(w, "verified", m)
  PROVE  WorkerTyped(w)' /\ \A v \in Workers \ {w} : worker'[v] = worker[v]
<1>1. \/ worker'[w] = Resting
      \/ worker'[w].at \in {"feed", "report"} /\ worker'[w].got = <<>>
  BY ZenonT(60) DEF Known, Rejects, Reports, Resting
<1>2. \A v \in Workers \ {w} : worker'[v] = worker[v]
  BY DEF Known, Rejects, Reports
<1> QED  BY <1>1, <1>2, RestingKnows, BytesOrMissing DEF WorkerTyped, OnFeed

LEMMA TroubleTyped ==
  ASSUME HostTyped, Trouble PROVE trouble' \in 0..MaxTrouble
BY StagingAssumption DEF HostTyped, Trouble

\* A worker that downloads.
LEMMA DownloadTyped ==
  ASSUME Typed, Known, FilesShaped, NEW w \in Workers, NEW m \in Manifests,
         \/ Feed(w, m) \/ Create(w) \/ Chunk(w) \/ WrongChunk(w) \/ Staged(w) \/ Hang(w)
  PROVE  WorkersTyped' /\ FilesTyped'
<1> DEFINE r == worker[w]
<1>1. /\ r = [x \in WorkerFields |-> r[x]] /\ WorkerTyped(w)
      /\ r.at \in OnFeed => r.man \in Manifests
  BY DEF Known, WorkerKnows, Typed, WorkersTyped
<1>2. worker = [v \in Workers |-> worker[v]]
  BY DEF Known
<1>3. CASE Feed(w, m)
  <2>1. UNCHANGED files /\ r.at = "feed"
    BY <1>3 DEF Feed, WorkerAt
  <2>2. CASE Rejects(w)
    BY <2>1, <2>2, AnewTyped, OneMoves DEF Writing
  <2>3. CASE ~Rejects(w)
    <3>1. worker' = [worker EXCEPT ![w].at = "create", ![w].man = m, ![w].todo = m.artifacts]
      BY <1>3, <2>3 DEF Feed
    <3>2. /\ worker'[w].at = "create" /\ worker'[w].todo = m.artifacts /\ worker'[w].got = r.got
          /\ \A v \in Workers \ {w} : worker'[v] = worker[v]
      BY <1>1, <1>2, <3>1 DEF WorkerFields
    <3>3. WorkerTyped(w)'
      BY <1>1, <3>2, Manifested DEF WorkerTyped
    <3> QED  BY <2>1, <3>2, <3>3, OneMoves DEF Writing
  <2> QED  BY <2>2, <2>3
<1>4. CASE Create(w)
  <2>1. worker' = [worker EXCEPT ![w].at = "chunk"] /\ r.at = "create"
    BY <1>4 DEF Create, WorkerAt
  <2>2. /\ worker'[w].at = "chunk" /\ worker'[w].todo = r.todo /\ worker'[w].got = r.got
        /\ \A v \in Workers \ {w} : worker'[v] = worker[v]
    BY <1>1, <1>2, <2>1 DEF WorkerFields
  <2>3. WorkerTyped(w)'
    BY <1>1, <2>1, <2>2 DEF WorkerTyped, OnFeed
  <2>4. \E g : files' = [files EXCEPT ![g] = Opened(files[g], w)]
    BY <1>4 DEF Create
  <2> QED  BY <2>2, <2>3, <2>4, OneMoves DEF Writing
<1>5. ASSUME NEW b \in Bytes, Receive(w, b) PROVE WorkersTyped' /\ FilesTyped'
  <2> DEFINE f == Target(w).file
             new == Put(files[f].content, Len(r.got) + 1, b)
  <2>1. /\ worker' = [worker EXCEPT ![w].got = Append(@, b)] /\ r.at = "chunk"
        /\ \/ files' = files
           \/ (w \in files[f].by /\ files' = [files EXCEPT ![f].content = new])
    BY <1>5 DEF Receive, WorkerAt
  <2>2. /\ worker'[w].at = r.at /\ worker'[w].todo = r.todo /\ worker'[w].got = Append(r.got, b)
        /\ \A v \in Workers \ {w} : worker'[v] = worker[v]
    BY <1>1, <1>2, <2>1 DEF WorkerFields
  <2>3. WorkerTyped(w)'
    BY <1>1, <1>5, <2>1, <2>2 DEF WorkerTyped
  <2>4. f \in Files
    <3>1. r.todo \in Seq(Listed) \ {<<>>} /\ f = Head(r.todo).file
      BY <1>1, <2>1 DEF WorkerTyped, OnFeed, Target
    <3>2. Head(r.todo) \in Listed
      BY <3>1
    <3> QED  BY <3>1, <3>2 DEF Listed
  <2>5. w \in files[f].by => new \in Seq(Bytes)
    <3>1. files[f].content \in Content /\ (files[f].content = Missing => files[f].by = {})
      BY <2>4 DEF Typed, FilesTyped, FileTyped
    <3>2. Len(r.got) + 1 \in Nat \ {0}
      BY <1>1 DEF WorkerTyped
    <3> QED  BY <1>5, <3>1, <3>2, PutTyped, BytesOrMissing
  <2> HIDE DEF f, new
  <2>6. files' = files \/ \E x \in Seq(Bytes) : \E g : files' = [files EXCEPT ![g].content = x]
    BY <2>1, <2>5
  <2> QED  BY <2>1, <2>2, <2>3, <2>6, OneMoves DEF Writing
<1>6. CASE Chunk(w) \/ WrongChunk(w)
  <2>1. Chunk(w) => Target(w).digest \in Bytes
    <3>1. Chunk(w) => r.todo \in Seq(Listed) \ {<<>>}
      BY <1>1 DEF Chunk, Receive, WorkerAt, WorkerTyped, OnFeed
    <3>2. Chunk(w) => Head(r.todo) \in Listed
      BY <3>1
    <3> QED  BY <3>2 DEF Target, Listed, Bytes
  <2>2. Junk \in Bytes
    BY DEF Bytes
  <2> QED  BY <1>5, <1>6, <2>1, <2>2 DEF Chunk, WrongChunk
<1>7. CASE Staged(w)
  <2>1. files' = ClosedBy(w) /\ r.at = "chunk"
    BY <1>7 DEF Staged, WorkerAt
  <2>2. CASE Reports(w, "verified", r.man)
    BY <2>1, <2>2, AnewTyped, OneMoves
  <2>3. CASE ~Reports(w, "verified", r.man)
    <3>1. /\ Tail(r.todo) # <<>>
          /\ worker' = [worker EXCEPT ![w].at = "create", ![w].todo = Tail(r.todo), ![w].got = <<>>]
      BY <1>7, <2>3 DEF Staged
    <3>2. /\ worker'[w].at = "create" /\ worker'[w].todo = Tail(r.todo) /\ worker'[w].got = <<>>
          /\ \A v \in Workers \ {w} : worker'[v] = worker[v]
      BY <1>1, <1>2, <3>1 DEF WorkerFields
    <3>3. Tail(r.todo) \in Seq(Listed)
      <4>1. r.todo \in Seq(Listed) \ {<<>>}
        BY <1>1, <2>1 DEF WorkerTyped, OnFeed
      <4> HIDE DEF r
      <4> QED  BY <4>1
    <3>4. WorkerTyped(w)'
      BY <3>1, <3>2, <3>3, BytesOrMissing DEF WorkerTyped
    <3> QED  BY <2>1, <3>2, <3>4, OneMoves
  <2> QED  BY <2>2, <2>3
<1>8. CASE Hang(w)
  <2>1. worker' = [worker EXCEPT ![w].at = "hang"] /\ UNCHANGED files
    BY <1>8 DEF Hang
  <2>2. /\ worker'[w].at = "hang" /\ worker'[w].got = r.got
        /\ \A v \in Workers \ {w} : worker'[v] = worker[v]
    BY <1>1, <1>2, <2>1 DEF WorkerFields
  <2>3. WorkerTyped(w)'
    BY <1>1, <2>2 DEF WorkerTyped, OnFeed
  <2> QED  BY <2>1, <2>2, <2>3, OneMoves DEF Writing
<1> QED  BY <1>3, <1>4, <1>6, <1>7, <1>8

\* A worker that ends, is spawned, or reports.
LEMMA AnewStep ==
  ASSUME Typed, Known, FilesShaped, NEW w \in Workers,
         \/ FeedUnavailable(w) \/ Mismatch(w) \/ TransferFails(w) \/ Orphaned(w)
         \/ \E m \in Manifests : Lie(w, m)
         \/ SpawnDry(w) \/ ReadDry(w) \/ DeadlineDry(w)
         \/ SpawnPass(w) \/ DeadlinePass(w) \/ ReadReport(w)
  PROVE  WorkersTyped' /\ FilesTyped'
<1>1. CASE FeedUnavailable(w) \/ Orphaned(w) \/ ReadDry(w) \/ ReadReport(w)
  <2>1. UNCHANGED files /\ worker[w].at \notin Writing
    BY <1>1 DEF FeedUnavailable, Orphaned, ReadDry, ReadReport, WorkerAt, Writing
  <2>2. Rejects(w) \/ worker' = [worker EXCEPT ![w] = Resting]
    BY <1>1 DEF FeedUnavailable, Orphaned, ReadDry, ReadReport
  <2> QED  BY <2>1, <2>2, AnewTyped, OneMoves
<1>2. CASE SpawnDry(w) \/ SpawnPass(w)
  <2>1. UNCHANGED files /\ worker[w].at \notin Writing
    BY <1>2 DEF SpawnDry, SpawnPass, Spawned, Writing
  <2>2. worker' = [worker EXCEPT ![w] = [Resting EXCEPT !.at = "feed", !.marks = marks]]
    BY <1>2 DEF SpawnDry, SpawnPass, Spawned
  <2> QED  BY <2>1, <2>2, AnewTyped, OneMoves
<1>3. CASE DeadlineDry(w) \/ DeadlinePass(w)
  <2>1. files' = ClosedBy(w) /\ worker' = [worker EXCEPT ![w] = Resting]
    BY <1>3 DEF DeadlineDry, DeadlinePass, Deadline
  <2> QED  BY <2>1, AnewTyped, OneMoves
<1>4. ASSUME NEW m \in Manifests, Lie(w, m) PROVE WorkersTyped' /\ FilesTyped'
  BY <1>4, AnewTyped, OneMoves DEF Lie
<1>5. CASE Mismatch(w) \/ TransferFails(w)
  <2>1. Discard(w)
    BY <1>5 DEF Mismatch, TransferFails
  <2>2. /\ \E g : files' = [ClosedBy(w) EXCEPT ![g] = [content |-> Missing, by |-> {}]]
        /\ Rejects(w)
    BY <2>1 DEF Discard
  <2> QED  BY <2>2, AnewTyped, OneMoves
<1> QED  BY <1>1, <1>2, <1>3, <1>4, <1>5

\* What is left alone, and what is rewritten.
LEMMA RewriteTyped ==
  ASSUME Typed, FilesShaped, UNCHANGED worker,
         UNCHANGED files \/ \E f \in Files : Rewrite(f)
  PROVE  WorkersTyped' /\ FilesTyped'
<1>1. WorkersTyped'
  BY DEF Typed, WorkersTyped, WorkerTyped
<1>2. CASE UNCHANGED files
  BY <1>1, <1>2 DEF Typed, FilesTyped, FileTyped
<1>3. ASSUME NEW g \in Files, Rewrite(g) PROVE FilesTyped'
  <2>1. files' = [files EXCEPT ![g].content = <<Junk>>]
    BY <1>3 DEF Rewrite
  <2>2. ASSUME NEW f \in Files
        PROVE  \/ files'[f] = files[f]
               \/ files'[f].content = <<Junk>> /\ files'[f].by = files[f].by
    BY <2>1 DEF FilesShaped
  <2> QED  BY <2>2, BytesOrMissing DEF Typed, FilesTyped, FileTyped
<1> QED  BY <1>1, <1>2, <1>3

LEMMA WorkersFilesTyped ==
  ASSUME Typed, Known, FilesShaped, [Next]_vars
  PROVE  WorkersTyped' /\ FilesTyped'
<1>1. CASE \E w \in Workers : SpawnPass(w) \/ DeadlinePass(w) \/ ReadReport(w)
  BY <1>1, AnewStep
<1>2. CASE \/ UNCHANGED vars \/ PrepareDry \/ KillDry \/ \E f \in Files : Rewrite(f)
           \/ Wake \/ MakePass \/ OwnPass \/ Finish \/ PassFails \/ KillPass
           \/ \E c \in Components : Take(c)
           \/ Open \/ Read \/ Check \/ Install \/ NotInstalled
  <2>1. UNCHANGED worker /\ (UNCHANGED files \/ \E f \in Files : Rewrite(f))
    BY <1>2 DEF vars, PrepareDry, KillDry, Rewrite, Wake, MakePass, OwnPass, Finish, PassFails,
                KillPass, Take, Open, Read, Check, Install, NotInstalled
  <2> QED  BY <2>1, RewriteTyped
<1>3. CASE DryStep
  BY <1>3, AnewStep DEF DryStep
<1>4. ASSUME NEW w \in Workers,
             \/ WorkerStep(w) \/ FeedUnavailable(w) \/ WrongChunk(w) \/ TransferFails(w) \/ Hang(w)
             \/ \E m \in Manifests : Lie(w, m)
      PROVE  WorkersTyped' /\ FilesTyped'
  <2>1. Manifests # {}
    BY StagingAssumption
  <2> QED  BY <1>4, <2>1, AnewStep, DownloadTyped DEF WorkerStep
<1> QED  BY <1>1, <1>2, <1>3, <1>4, StepsSplit DEF Others, Passes

LEMMA PassTypedStays ==
  ASSUME Typed, Known, IInv, [Next]_vars PROVE PassTyped'
<1>1. pass = [x \in PassFields |-> pass[x]] /\ IdlePass.at = "idle"
  BY DEF IInv, Shaped, IdlePass
<1>2. CASE UNCHANGED pass
  BY <1>2 DEF Typed, PassTyped, Applying
<1>3. CASE Ends
  BY <1>1, <1>3 DEF Ends, PassTyped
<1>4. CASE Others
  <2>1. \/ UNCHANGED pass
        \/ pass.at = "read" /\ \E x : pass' = [pass EXCEPT !.held = x]
    <3>1. ASSUME NEW w \in Workers, Discard(w)
          PROVE  \/ UNCHANGED pass
                 \/ pass.at = "read" /\ \E x : pass' = [pass EXCEPT !.held = x]
      BY <3>1 DEF Discard
    <3>2. ASSUME PrepareDry \/ KillDry \/ DryStep \/ \E f \in Files : Rewrite(f)
          PROVE  UNCHANGED pass
      BY <3>2 DEF PrepareDry, KillDry, DryStep, SpawnDry, ReadDry, DeadlineDry, Rewrite
    <3>3. ASSUME NEW w \in Workers, NEW m \in Manifests,
                 \/ Feed(w, m) \/ Create(w) \/ Chunk(w) \/ Staged(w) \/ Orphaned(w)
                 \/ FeedUnavailable(w) \/ WrongChunk(w) \/ Hang(w) \/ Lie(w, m)
          PROVE  UNCHANGED pass
      BY <3>3 DEF Feed, Create, Chunk, Staged, Orphaned, FeedUnavailable, WrongChunk, Receive,
                  Hang, Lie
    <3>4. ASSUME NEW w \in Workers, Mismatch(w) \/ TransferFails(w) PROVE Discard(w)
      BY <3>4 DEF Mismatch, TransferFails
    <3>5. Manifests # {}
      BY StagingAssumption
    <3> QED  BY <1>4, <3>1, <3>2, <3>3, <3>4, <3>5 DEF Others, WorkerStep
  <2>2. ASSUME pass.at = "read", NEW x, pass' = [pass EXCEPT !.held = x]
        PROVE  PassTyped'
    <3>1. pass'.at = "read"
      BY <1>1, <2>2 DEF PassFields
    <3> QED  BY <3>1 DEF PassTyped, Applying
  <2> QED  BY <1>2, <2>1, <2>2
<1>5. ASSUME Passes, ~Ends PROVE pass'.at \in {"make", "own", "spawn", "wait", "next"} \cup Applying
  <2>1. CASE Wake \/ MakePass \/ OwnPass \/ \E w \in Workers : SpawnPass(w)
    BY <1>1, <2>1 DEF Wake, MakePass, OwnPass, SpawnPass, PassFields
  <2>2. ASSUME NEW w \in Workers, ReadReport(w) PROVE pass'.at = "next"
    BY <1>1, <1>5, <2>2 DEF ReadReport, PassFields
  <2>3. ASSUME NEW c \in Components, Take(c) PROVE pass'.at = "open"
    BY <1>1, <2>3 DEF Take, PassFields
  <2>4. CASE Open \/ Install \/ NotInstalled
    BY <1>1, <1>5, <2>4 DEF Open, Install, NotInstalled, PassFields, Applying
  <2>5. CASE Read
    BY <1>1, <2>5 DEF Read, PassAt, PassFields, Applying
  <2>6. CASE Check
    <3>1. ASSUME NEW fb, pass' = NextVariant(fb) PROVE pass'.at \in {"open", "next", "install"}
      BY <1>1, <3>1 DEF NextVariant, PassFields
    <3> QED  BY <1>1, <1>5, <2>6, <3>1 DEF Check, Ends, PassFields, Applying
  <2> QED  BY <1>5, <2>1, <2>2, <2>3, <2>4, <2>5, <2>6
           DEF Passes, Finish, PassFails, KillPass, DeadlinePass, Applying
<1>6. pass'.at \in {"make", "own", "spawn", "wait", "next"} \cup Applying => PassTyped'
  BY DEF PassTyped, Applying
<1> QED  BY <1>2, <1>3, <1>4, <1>5, <1>6, StepsSplit DEF vars

\* The marks move to those of a manifest.
LEMMA AdvanceTyped ==
  ASSUME NEW s \in TrustState, NEW m \in Manifests PROVE Advance(s, m) \in TrustState
<1>1. /\ m.root_version \in Nat /\ m.sequence \in Nat /\ m.generated \in Nat /\ m.floor \in Nat
  BY StagingAssumption
<1>2. \A a, b \in Nat : Larger(a, b) \in Nat
  BY DEF Larger
<1> QED  BY <1>1, <1>2 DEF Advance, TrustState

LEMMA HostTypedStays ==
  ASSUME Typed, Known, IInv, [Next]_vars PROVE HostTyped'
<1>1. dir' \in {"absent", "creator", "worker"}
  <2>1. CASE PrepareDry \/ MakePass \/ OwnPass
    BY <2>1 DEF PrepareDry, MakePass, OwnPass, Make, Own, Typed, HostTyped
  <2>2. ASSUME NEW w \in Workers, NEW m \in Manifests,
               \/ Feed(w, m) \/ Create(w) \/ Chunk(w) \/ Staged(w) \/ Orphaned(w) \/ Mismatch(w)
               \/ FeedUnavailable(w) \/ WrongChunk(w) \/ TransferFails(w) \/ Hang(w) \/ Lie(w, m)
        PROVE  UNCHANGED dir
    BY <2>2 DEF Feed, Create, Chunk, Staged, Orphaned, Mismatch, FeedUnavailable, WrongChunk,
                Receive, TransferFails, Hang, Lie
  <2>3. ASSUME NEW w \in Workers,
               \/ SpawnDry(w) \/ ReadDry(w) \/ DeadlineDry(w)
               \/ SpawnPass(w) \/ DeadlinePass(w) \/ ReadReport(w)
        PROVE  UNCHANGED dir
    BY <2>3 DEF SpawnDry, ReadDry, DeadlineDry, SpawnPass, DeadlinePass, ReadReport
  <2>4. ASSUME \/ KillDry \/ \E f \in Files : Rewrite(f)
               \/ Wake \/ Finish \/ PassFails \/ KillPass \/ \E c \in Components : Take(c)
               \/ Open \/ Read \/ Check \/ Install \/ NotInstalled \/ UNCHANGED vars
        PROVE  UNCHANGED dir
    BY <2>4 DEF KillDry, Rewrite, Wake, Finish, PassFails, KillPass, Take, Open, Read, Check,
                Install, NotInstalled, vars
  <2>5. Manifests # {} /\ dir \in {"absent", "creator", "worker"}
    BY StagingAssumption DEF Typed, HostTyped
  <2> QED  BY <2>1, <2>2, <2>3, <2>4, <2>5 DEF Next, Steps, PassStep, DryStep, WorkerStep
<1>2. dry' \in [at : {"idle", "spawn", "wait"}, worker : Workers \cup {NoWorker}]
  <2>1. dry \in [at : {"idle", "spawn", "wait"}, worker : Workers \cup {NoWorker}]
    BY DEF Typed, HostTyped
  <2>2. CASE PrepareDry \/ KillDry
    BY <2>1, <2>2 DEF PrepareDry, KillDry, IdleDry
  <2>3. CASE DryStep
    BY <2>3 DEF DryStep, SpawnDry, ReadDry, DeadlineDry, IdleDry
  <2>4. ASSUME NEW w \in Workers, NEW m \in Manifests,
               \/ Feed(w, m) \/ Create(w) \/ Chunk(w) \/ Staged(w) \/ Orphaned(w) \/ Mismatch(w)
               \/ FeedUnavailable(w) \/ WrongChunk(w) \/ TransferFails(w) \/ Hang(w) \/ Lie(w, m)
               \/ SpawnPass(w) \/ DeadlinePass(w) \/ ReadReport(w)
        PROVE  UNCHANGED dry
    BY <2>4 DEF Feed, Create, Chunk, Staged, Orphaned, Mismatch, FeedUnavailable, WrongChunk,
                Receive, TransferFails, Hang, Lie, SpawnPass, DeadlinePass, ReadReport
  <2>5. ASSUME \/ \E f \in Files : Rewrite(f)
               \/ Wake \/ MakePass \/ OwnPass \/ Finish \/ PassFails \/ KillPass
               \/ \E c \in Components : Take(c)
               \/ Open \/ Read \/ Check \/ Install \/ NotInstalled \/ UNCHANGED vars
        PROVE  UNCHANGED dry
    BY <2>5 DEF Rewrite, Wake, MakePass, OwnPass, Finish, PassFails, KillPass, Take, Open, Read,
                Check, Install, NotInstalled, vars
  <2>6. Manifests # {}
    BY StagingAssumption
  <2> QED  BY <2>1, <2>2, <2>3, <2>4, <2>5, <2>6 DEF Next, Steps, PassStep, WorkerStep
<1>3. trouble' \in 0..MaxTrouble /\ disturbed' \in BOOLEAN
  <2>1. trouble \in 0..MaxTrouble /\ disturbed \in BOOLEAN /\ HostTyped
    BY DEF Typed, HostTyped
  <2>2. \/ UNCHANGED trouble
        \/ Trouble
    <3>1. ASSUME NEW w \in Workers, NEW m \in Manifests,
                 \/ Feed(w, m) \/ Create(w) \/ Chunk(w) \/ Staged(w) \/ Orphaned(w) \/ Mismatch(w)
                 \/ FeedUnavailable(w) \/ WrongChunk(w) \/ TransferFails(w) \/ Hang(w) \/ Lie(w, m)
          PROVE  UNCHANGED trouble \/ Trouble
      BY <3>1 DEF Feed, Create, Chunk, Staged, Orphaned, Mismatch, FeedUnavailable, WrongChunk,
                  Receive, TransferFails, Hang, Lie
    <3>2. ASSUME NEW w \in Workers,
                 \/ SpawnDry(w) \/ ReadDry(w) \/ DeadlineDry(w)
                 \/ SpawnPass(w) \/ DeadlinePass(w) \/ ReadReport(w)
          PROVE  UNCHANGED trouble \/ Trouble
      BY <3>2 DEF SpawnDry, ReadDry, DeadlineDry, SpawnPass, DeadlinePass, Deadline, ReadReport
    <3>3. ASSUME \/ PrepareDry \/ KillDry \/ \E f \in Files : Rewrite(f)
                 \/ Wake \/ MakePass \/ OwnPass \/ Finish \/ PassFails \/ KillPass
                 \/ \E c \in Components : Take(c)
                 \/ Open \/ Read \/ Check \/ Install \/ NotInstalled \/ UNCHANGED vars
          PROVE  UNCHANGED trouble \/ Trouble
      BY <3>3 DEF PrepareDry, KillDry, Rewrite, Wake, MakePass, OwnPass, Finish, PassFails,
                  KillPass, Take, Open, Read, Check, Install, NotInstalled, vars
    <3>4. Manifests # {}
      BY StagingAssumption
    <3> QED  BY <3>1, <3>2, <3>3, <3>4 DEF Next, Steps, PassStep, DryStep, WorkerStep
  <2>3. disturbed' \in BOOLEAN
    <3>1. ASSUME NEW w \in Workers, NEW m \in Manifests,
                 \/ Feed(w, m) \/ Create(w) \/ Chunk(w) \/ Staged(w) \/ Orphaned(w) \/ Mismatch(w)
                 \/ FeedUnavailable(w) \/ WrongChunk(w) \/ TransferFails(w) \/ Hang(w) \/ Lie(w, m)
          PROVE  disturbed' = TRUE \/ UNCHANGED disturbed
      BY <3>1 DEF Feed, Create, Chunk, Staged, Orphaned, Mismatch, FeedUnavailable, WrongChunk,
                  Receive, TransferFails, Hang, Lie
    <3>2. ASSUME NEW w \in Workers,
                 \/ SpawnDry(w) \/ ReadDry(w) \/ DeadlineDry(w)
                 \/ SpawnPass(w) \/ DeadlinePass(w) \/ ReadReport(w)
          PROVE  disturbed' \in BOOLEAN
      BY <2>1, <3>2 DEF SpawnDry, ReadDry, DeadlineDry, SpawnPass, DeadlinePass, ReadReport
    <3>3. ASSUME \/ PrepareDry \/ KillDry \/ \E f \in Files : Rewrite(f)
                 \/ Wake \/ MakePass \/ OwnPass \/ Finish \/ PassFails \/ KillPass
                 \/ \E c \in Components : Take(c)
                 \/ Open \/ Read \/ Check \/ Install \/ NotInstalled \/ UNCHANGED vars
          PROVE  disturbed' = TRUE \/ UNCHANGED disturbed
      BY <3>3 DEF PrepareDry, KillDry, Rewrite, Wake, MakePass, OwnPass, Finish, PassFails,
                  KillPass, Take, Open, Read, Check, Install, NotInstalled, vars
    <3>4. Manifests # {}
      BY StagingAssumption
    <3> QED  BY <2>1, <3>1, <3>2, <3>3, <3>4 DEF Next, Steps, PassStep, DryStep, WorkerStep
  <2> QED  BY <2>1, <2>2, <2>3, TroubleTyped
<1>4. marks' \in TrustState /\ \A c \in Components : installed'[c] \in Content
  <2>1. marks \in TrustState /\ \A c \in Components : installed[c] \in Content
    BY DEF Typed, HostTyped
  <2>2. CASE Finish
    <3>1. pass.man \in Manifests
      BY <2>2 DEF Finish, PassAt, Known, PassKnows
    <3> QED  BY <2>1, <2>2, <3>1, AdvanceTyped DEF Finish
  <2>3. CASE Install
    <3>1. pass.copy = Whole(Source.digest) /\ pass.variant \in DOMAIN Candidates
      BY <2>3 DEF Install, PassAt, IInv, CopyIsIt, OnACandidate, Applying
    <3>2. Source.digest \in Digests
      BY <2>3, <3>1, Numbered DEF Install, PassAt, Source, Candidates, Applying
    <3>3. pass.copy \in Content
      BY <3>1, <3>2, WholeTyped
    <3> QED  BY <2>1, <2>3, <3>3 DEF Install, IInv
  <2>4. ASSUME ~Finish, ~Install PROVE UNCHANGED <<marks, installed>>
    <3>1. CASE Others
      BY <3>1, OthersWork
    <3>2. CASE \/ Wake \/ MakePass \/ OwnPass \/ PassFails \/ KillPass
               \/ \E w \in Workers : SpawnPass(w) \/ DeadlinePass(w) \/ ReadReport(w)
      BY <3>2 DEF Wake, MakePass, OwnPass, PassFails, KillPass, SpawnPass, DeadlinePass, ReadReport
    <3>3. CASE \/ \E c \in Components : Take(c)
               \/ Open \/ Read \/ Check \/ NotInstalled \/ UNCHANGED vars
      BY <3>3 DEF Take, Open, Read, Check, NotInstalled, vars
    <3> QED  BY <2>4, <3>1, <3>2, <3>3, StepsSplit DEF Passes
  <2> QED  BY <2>1, <2>2, <2>3, <2>4
<1> QED  BY <1>1, <1>2, <1>3, <1>4 DEF HostTyped

\* Whoever is alive, whatever is killed and whatever is rewritten: only a worker that
\* is still at it has a file open, a file holds chunks, and the candidate under
\* examination is one the manifest has (pass.rs, select_loadable_variant).
THEOREM StagingTyped == Spec => []TypeOK
<1> DEFINE All == IInv /\ Known /\ FilesShaped /\ Typed
<1>1. Init => All
  BY Start, KnownInitially, FilesInitially, TypedAtFirst
<1>2. All /\ [Next]_vars => All'
  <2>1. ASSUME IInv, UNCHANGED vars PROVE IInv'
    BY <2>1, Elsewhere DEF vars
  <2> QED
    BY <2>1, Inductive, KnownStays, FilesKept, WorkersFilesTyped, PassTypedStays, HostTypedStays
       DEF Typed
<1>3. All => TypeOK
  <2> SUFFICES ASSUME All PROVE TypeOK
    OBVIOUS
  <2>1. ASSUME NEW w \in Workers
        PROVE  /\ worker[w].at \in {"none", "feed", "create", "chunk", "hang", "report"}
               /\ worker[w].at = "none" <=> worker[w] = Resting
               /\ worker[w].report = "verified" => worker[w].man \in Manifests
    BY RestingKnows DEF Typed, WorkersTyped, WorkerTyped, Known, WorkerKnows
  <2>2. ASSUME NEW f \in Files
        PROVE  /\ files[f].content \in Content
               /\ files[f].by \subseteq {w \in Workers : worker[w].at \in {"chunk", "hang"}}
    BY DEF Typed, FilesTyped, FileTyped, Writing
  <2>3. /\ pass.at \in {"idle", "make", "own", "spawn", "wait", "next", "open", "read", "check", "install"}
        /\ pass.at = "idle" <=> pass = IdlePass
        /\ pass.at \in {"open", "read", "check", "install"} =>
             pass.variant \in DOMAIN Variants(pass.man, pass.cur)
    BY DEF Typed, PassTyped, IInv, OnACandidate, Candidates, Applying, IdlePass
  <2>4. /\ loads \in Hosts /\ dir \in {"absent", "creator", "worker"}
        /\ dry.at \in {"idle", "spawn", "wait"} /\ disturbed \in BOOLEAN
        /\ \A c \in Components : installed[c] \in Content
        /\ marks \in TrustState /\ trouble \in 0..MaxTrouble
    BY DEF Known, Typed, HostTyped
  <2> QED  BY <2>1, <2>2, <2>3, <2>4 DEF TypeOK
<1> QED  BY <1>1, <1>2, <1>3, PTL DEF Spec
=============================================================================
