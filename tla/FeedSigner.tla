------------------------------ MODULE FeedSigner ------------------------------
(***************************************************************************)
(* How a component's release becomes the feed a host reads: the release that *)
(* is being put up, file by file; the feed workflow, which resolves every     *)
(* component, signs and proves the result and publishes it to two bases       *)
(* (dig-updater-feedsign, .github/workflows/feed.yml); and a host that goes   *)
(* down its ladder of bases and holds the feed against its marks              *)
(* (dig-updater-worker, dig-updater-trust).  One channel's leg.               *)
(*                                                                         *)
(* Time.  Only differences of times matter, so a time is kept as what it     *)
(* would be if it were Now, and a Tick moves every time that is kept back by *)
(* one, to no less than 0, at which a feed has long expired.                 *)
(*                                                                         *)
(* External: a version's release at GitHub, whose files are put up one by     *)
(* one, and GitHub's rule for a concurrency group: one run at a time, and one *)
(* waiting, which a newer one displaces.                                      *)
(***************************************************************************)
EXTENDS TrustChain, Sequences, FiniteSets

CONSTANTS
  Channels,     \* the channels to explore: "stable", "nightly"
  Listed,       \* the components in the order of feed-config.json
  Last,         \* component -> the last version it releases
  Platforms,    \* PLATFORMS
  Variants,     \* the variants components declare
  Ships,        \* component -> the platforms and variants it releases
  Exempt,       \* component -> exempt_platforms
  Build,        \* version -> the build number its name is read as; versions are 1, 2, ...
  Runner,       \* the platform of the workflow's runner
  Floors,       \* the channel's floor in feed-config.json, edit after edit
  TTL,          \* manifest_ttl_secs
  Absent,       \* behind a URL that has no file
  Period,       \* between two heartbeats of the cron
  MaxRun,       \* how long a run may take
  MaxTrouble    \* bound: calls that fail, heartbeats GitHub drops and audit runs,
                \* taken together

Versions == DOMAIN Build
Kinds == Platforms \cup Variants
Bases == {"primary", "fallback"}
Slots == {1, 2}      \* of runs at the same time, were there to be any
Now == TTL + 1

\* What a base serves: a signed feed, or nothing.
Manifest == [generated : 0..Now, config : DOMAIN Floors, version : [Components -> Versions],
             kinds : [Components -> SUBSET Kinds]]

ASSUME FeedAssumption ==
  /\ Channels \subseteq {"stable", "nightly"} /\ Runner \in Platforms
  /\ Ships \in [Components -> SUBSET Kinds]
  /\ \A c \in Components : Exempt[c] \subseteq Platforms /\ Platforms \ Exempt[c] \subseteq Ships[c]
  /\ Listed \in Seq(Components) /\ {Listed[i] : i \in DOMAIN Listed} = Components
  /\ Build \in Seq(Nat \ {None}) /\ Last \in [Components -> Versions]
  /\ Floors \in Seq(Nat)
  /\ 1 \in Versions /\ 1 \in DOMAIN Floors /\ Build[1] >= Floors[1]
  /\ Period \in Nat \ {0} /\ TTL \in Nat /\ MaxRun \in Nat /\ MaxRun < Period
  /\ Absent \notin Manifest

VARIABLES
  channel,    \* fixed
  release,    \* component -> the version and the files of the release its channel names
  config,     \* how many of Floors' edits are merged
  since,      \* time since the last heartbeat was due
  pending,    \* the run that waits for the group
  runs,       \* slot -> the run under way
  served,     \* base -> what is behind its two URLs
  host,       \* a host that polls
  lost,       \* history: the signing runs lost since the one the primary serves
              \* and since the one that took its timestamp last, 2 for any more
  trouble

history == <<lost, trouble>>
vars == <<channel, release, config, since, pending, runs, served, host, history>>

IdleRun == [at |-> "idle", age |-> 0, config |-> 1, generated |-> 0, todo |-> Listed,
            got |-> [c \in Components |-> {}], version |-> [c \in Components |-> 1]]

TypeOK ==
  /\ channel \in Channels /\ config \in DOMAIN Floors /\ since \in 0..Period
  /\ \A c \in Components :
       /\ release[c].version \in Versions /\ release[c].next \in Versions
       /\ release[c].files \subseteq Versions \X Ships[c]
       /\ \E v \in Versions : release[c].files \subseteq {v} \X Ships[c]
  /\ pending \in {"none", "sign", "audit"}
  /\ \A s \in Slots :
       /\ runs[s].at \in {"idle", "doctor", "resolve", "download", "keystone", "s3", "clobber", "upload", "audit"}
       /\ runs[s].at = "idle" <=> runs[s] = IdleRun
       /\ runs[s].age \in 0..MaxRun /\ runs[s].generated \in 0..Now
       /\ runs[s].at \in {"s3", "clobber", "upload"} => runs[s].got \in [Components -> (SUBSET Kinds) \ {{}}]
  /\ served["primary"] \in Manifest /\ served["fallback"] \in Manifest \cup {Absent}
  /\ host.marks \in TrustState /\ host.base \in Bases
  /\ lost \in [served : 0..2, signed : 0..2]

\* The feed of version 1 of everything, just published; a host that has it.
First == [generated |-> Now, config |-> 1, version |-> [c \in Components |-> 1], kinds |-> Ships]

Init ==
  /\ channel \in Channels
  /\ release = [c \in Components |-> [version |-> 1, next |-> 1, files |-> {1} \X Ships[c]]]
  /\ config = 1 /\ since = 0 /\ pending = "none"
  /\ runs = [s \in Slots |-> IdleRun]
  /\ served = [b \in Bases |-> First]
  /\ host = [base |-> "primary", marks |-> Initial, has |-> First.version, from |-> "primary"]
  /\ lost = [served |-> 0, signed |-> 0] /\ trouble = 0

Trouble == trouble < MaxTrouble /\ trouble' = trouble + 1
Counted(n) == IF n = 2 THEN 2 ELSE n + 1
Lose == lost' = [served |-> Counted(lost.served), signed |-> Counted(lost.signed)]

-----------------------------------------------------------------------------
(* A component's release.  A stable one is a tag of its own; the nightly one  *)
(* is emptied and filled again under the one tag, and keeps its tag meanwhile. *)

Putting(c) == release[c].version # release[c].next
Complete(c) == ~Putting(c) /\ release[c].files = {release[c].version} \X Ships[c]

Cut(c) ==
  /\ Complete(c) /\ release[c].version < Last[c]
  /\ release' = [release EXCEPT ![c] =
       IF channel = "stable" THEN [version |-> @.version + 1, next |-> @.version + 1, files |-> {}]
       ELSE [release[c] EXCEPT !.next = @ + 1]]
  /\ UNCHANGED <<channel, config, since, pending, runs, served, host, history>>

\* refresh_release deletes what the nightly release has, then uploads.
Remove(c, k) ==
  LET files == release[c].files \ {<<release[c].version, k>>}
  IN /\ Putting(c) /\ <<release[c].version, k>> \in release[c].files
     /\ release' = [release EXCEPT ![c].files = files,
                                   ![c].version = IF files = {} THEN release[c].next ELSE @]
     /\ UNCHANGED <<channel, config, since, pending, runs, served, host, history>>

Uploading(c) == ~Putting(c) /\ ~Complete(c)

\* The group of the feed workflow: a run starts at once if nothing else is on,
\* and waits otherwise, in the place of what was waiting.

\* Mutated form: a run starts beside another.
Free_Beside == \E s \in Slots : runs[s].at = "idle"

Free == \A s \in Slots : runs[s].at = "idle"
Started(kind) ==
  [IdleRun EXCEPT !.at = IF kind = "sign" THEN "doctor" ELSE "audit", !.config = config]
IdleSlot == CHOOSE s \in Slots : runs[s].at = "idle"

\* Mutated form: a run that cannot start is dropped.
Trigger_OrNot(kind) ==
  /\ UNCHANGED pending
  /\ runs' = IF Free THEN [runs EXCEPT ![IdleSlot] = Started(kind)] ELSE runs

Trigger(kind) ==
  IF Free /\ pending = "none"
  THEN runs' = [runs EXCEPT ![IdleSlot] = Started(kind)] /\ UNCHANGED pending
  ELSE pending' = kind /\ UNCHANGED runs

\* The last file of a stable release wakes the feed, or, the dispatch being
\* fail-soft, does not.
Upload(c, k) ==
  LET files == release[c].files \cup {<<release[c].version, k>>}
  IN /\ Uploading(c) /\ k \in Ships[c] /\ <<release[c].version, k>> \notin release[c].files
     /\ release' = [release EXCEPT ![c].files = files]
     /\ \/ /\ channel = "stable" /\ files = {release[c].version} \X Ships[c]
           /\ Trigger("sign") /\ UNCHANGED trouble
        \/ /\ channel = "stable" /\ files = {release[c].version} \X Ships[c]
           /\ Trouble /\ UNCHANGED <<pending, runs>>
        \/ /\ channel = "nightly" \/ files # {release[c].version} \X Ships[c]
           /\ UNCHANGED <<pending, runs, trouble>>
     /\ UNCHANGED <<channel, config, since, served, host, lost>>

MergeConfig ==
  /\ config + 1 \in DOMAIN Floors /\ config' = config + 1
  /\ UNCHANGED <<channel, release, since, pending, runs, served, host, history>>

-----------------------------------------------------------------------------
(* The triggers, and the clock.                                             *)

\* A time that is kept, one tick later.
Earlier(t) == IF t = 0 THEN 0 ELSE t - 1
Aged(m) == IF m = Absent THEN Absent ELSE [m EXCEPT !.generated = Earlier(@)]

\* Time passes only as fast as runs take, and nothing that can start waits.
Tick ==
  /\ since < Period /\ (Free => pending = "none")
  /\ \A s \in Slots : runs[s].at # "idle" => runs[s].age < MaxRun
  /\ since' = since + 1
  /\ runs' = [s \in Slots |-> IF runs[s].at = "idle" THEN IdleRun
                              ELSE [runs[s] EXCEPT !.age = @ + 1, !.generated = Earlier(@)]]
  /\ served' = [b \in Bases |-> Aged(served[b])]
  /\ host' = [host EXCEPT !.marks.sequence = Earlier(@), !.marks.generated = Earlier(@)]
  /\ UNCHANGED <<channel, release, config, pending, history>>

Heartbeat ==
  /\ since = Period /\ since' = 0
  /\ \/ Trigger("sign") /\ UNCHANGED <<lost, trouble>>
     \/ Trouble /\ Lose /\ UNCHANGED <<pending, runs>>     \* GitHub drops a scheduled run
  /\ UNCHANGED <<channel, release, config, served, host>>

\* The daily cron's, or a pull request's that edits feed-config.json: only a
\* signing run that an audit displaces is lost.
Audit ==
  /\ Trouble /\ Trigger("audit")
  /\ IF pending = "sign" THEN Lose ELSE UNCHANGED lost
  /\ UNCHANGED <<channel, release, config, since, served, host>>

Begin(s) ==
  /\ Free /\ s = IdleSlot /\ pending # "none"
  /\ runs' = [runs EXCEPT ![s] = Started(pending)]
  /\ pending' = "none"
  /\ UNCHANGED <<channel, release, config, since, served, host, history>>

-----------------------------------------------------------------------------
(* resolve_component, of one component's release.                           *)

\* Mutated form: by the tag in either channel, and the nightly's has no version.
ResolvedVersions_ByTag(c) == IF channel = "stable" THEN {release[c].version} ELSE {}

\* The file names of the nightly release have the version, the tag of a stable
\* one.  Variants are not searched.
ResolvedVersions(c) ==
  IF channel = "stable" THEN {release[c].version}
  ELSE {f[1] : f \in {g \in release[c].files : g[2] \in Platforms}}

Named(c, v) == {k \in Kinds : <<v, k>> \in release[c].files}

\* The platforms that are neither there nor exempt.
MissingPlatforms(c, kinds) == Platforms \ (kinds \cup Exempt[c])

Selects(c, v) == Named(c, v) # {} /\ MissingPlatforms(c, Named(c, v)) = {}
Resolvable(c) == \E v \in ResolvedVersions(c) : Selects(c, v)

\* What was resolved can still be downloaded: an older tag keeps its files.
Downloads(c, v, kinds) == channel = "stable" \/ {v} \X kinds \subseteq release[c].files

-----------------------------------------------------------------------------
(* A run of the workflow.                                                   *)

Goto(s, phase) == runs' = [runs EXCEPT ![s].at = phase]
Ends(s) == runs' = [runs EXCEPT ![s] = IdleRun]
Stays == UNCHANGED <<channel, release, config, since, pending, host>>

\* A step that must succeed has failed: the leg ends without a feed.
Fails(s) == Ends(s) /\ Lose /\ UNCHANGED served

Stamp(s) ==
  /\ runs' = [runs EXCEPT ![s].at = "resolve", ![s].generated = Now]
  /\ lost' = [lost EXCEPT !.signed = 0]

\* The timestamp is taken when the doctor has found everything resolvable.
Doctor(s) ==
  /\ runs[s].at = "doctor"
  /\ \/ (\A c \in Components : Resolvable(c)) /\ Stamp(s) /\ UNCHANGED <<served, trouble>>
     \/ (\E c \in Components : ~Resolvable(c)) /\ Fails(s) /\ UNCHANGED trouble
     \/ Trouble /\ Fails(s)
  /\ Stays

\* resolve_all: each component in a call of its own, and the releases may not
\* be what the doctor saw.
Resolve(s, c) ==
  /\ runs[s].at = "resolve" /\ c = Head(runs[s].todo)
  /\ \/ \E v \in ResolvedVersions(c) :
          /\ Selects(c, v)
          /\ runs' = [runs EXCEPT
               ![s].version[c] = v, ![s].got[c] = Named(c, v),
               ![s].todo = IF Tail(@) = <<>> THEN Listed ELSE Tail(@),
               ![s].at = IF Tail(runs[s].todo) = <<>> THEN "download" ELSE @]
          /\ UNCHANGED <<served, lost, trouble>>
     \/ ~Resolvable(c) /\ Fails(s) /\ UNCHANGED trouble
     \/ Trouble /\ Fails(s)
  /\ Stays

\* produce_feed, once everything is resolved.
Download(s) ==
  LET whole == \A c \in Components : Downloads(c, runs[s].version[c], runs[s].got[c])
  IN /\ runs[s].at = "download"
     /\ \/ whole /\ Goto(s, "keystone") /\ UNCHANGED <<served, lost, trouble>>
        \/ ~whole /\ Fails(s) /\ UNCHANGED trouble
        \/ Trouble /\ Fails(s)
     /\ Stays

\* assemble_manifest
Signed(r) == [generated |-> r.generated, config |-> r.config, version |-> r.version, kinds |-> r.got]

\* What a manifest is to verify_update_chain.  One key signs delegation and
\* manifest, and the delegation beside a manifest outlives it.
Received(m) ==
  [delegation_signed |-> TRUE, delegation_expires |-> Now, delegation_root |-> 1,
   manifest_signed |-> TRUE, root_version |-> 1,
   sequence |-> m.generated, generated |-> m.generated, expires |-> m.generated + TTL,
   floor |-> Floors[m.config], build |-> [c \in Components |-> Build[m.version[c]]]]

\* Mutated form: what is signed is published unproved.
Proves_Unasked(r) == r.at = "keystone"

\* The beacon, built from the same tree, checks the feed from fresh marks, and
\* downloads what its own platform is offered.
Proves(r) ==
  /\ Accepts(Initial, Received(Signed(r)), Now)
  /\ \A c \in Components : Downloads(c, r.version[c], r.got[c] \cap {Runner})

Keystone(s) ==
  /\ runs[s].at = "keystone"
  /\ \/ Proves(runs[s]) /\ Goto(s, "s3") /\ UNCHANGED <<served, lost, trouble>>
     \/ ~Proves(runs[s]) /\ Fails(s) /\ UNCHANGED trouble
     \/ Trouble /\ Fails(s)
  /\ Stays

\* The primary first.  When a step of it fails the primary goes without, and
\* the fallback is published all the same.
PublishPrimary(s) ==
  /\ runs[s].at = "s3" /\ Goto(s, "clobber")
  /\ \/ /\ served' = [served EXCEPT !["primary"] = Signed(runs[s])]
        /\ lost' = [lost EXCEPT !.served = lost.signed]
        /\ UNCHANGED trouble
     \/ Trouble /\ Lose /\ UNCHANGED served
  /\ Stays

\* gh release upload --clobber deletes a file before it uploads it again.  When it
\* does not come to that, the release not to be found or the file not to be
\* deleted, the run ends and the fallback stays as it was.
Clobber(s) ==
  /\ runs[s].at = "clobber"
  /\ \/ Goto(s, "upload") /\ served' = [served EXCEPT !["fallback"] = Absent] /\ UNCHANGED trouble
     \/ Trouble /\ Ends(s) /\ UNCHANGED served
  /\ UNCHANGED lost /\ Stays

UploadFeed(s) ==
  /\ runs[s].at = "upload" /\ Ends(s)
  /\ \/ served' = [served EXCEPT !["fallback"] = Signed(runs[s])] /\ UNCHANGED trouble
     \/ Trouble /\ UNCHANGED served
  /\ UNCHANGED lost /\ Stays

\* The audits read and report.
AuditEnds(s) ==
  /\ runs[s].at = "audit" /\ Ends(s)
  /\ UNCHANGED <<served, lost, trouble>> /\ Stays

-----------------------------------------------------------------------------
(* A host's fetch_feed, and verify_update_chain over what it got.            *)

Polls == UNCHANGED <<channel, release, config, since, pending, runs, served, lost>>

\* The next base is tried only when this one does not answer, and the next poll
\* is from the top of the ladder again.
FetchFails ==
  /\ IF served[host.base] = Absent THEN UNCHANGED trouble ELSE Trouble
  /\ host' = [host EXCEPT !.base = IF @ = "primary" THEN "fallback" ELSE "primary"]
  /\ Polls

Answered == served[host.base] # Absent
Answer == Received(served[host.base])

Refuses == Answered /\ ~Accepts(host.marks, Answer, Now)

Accept ==
  /\ Answered /\ Accepts(host.marks, Answer, Now)
  /\ host' = [host EXCEPT !.base = "primary", !.from = host.base,
                          !.marks = Advance(@, Answer), !.has = served[host.base].version]
  /\ UNCHANGED trouble /\ Polls

Refuse ==
  /\ Refuses
  /\ host' = [host EXCEPT !.base = "primary"]
  /\ UNCHANGED trouble /\ Polls

-----------------------------------------------------------------------------
RunStep(s) ==
  \/ Doctor(s) \/ (\E c \in Components : Resolve(s, c)) \/ Download(s) \/ Keystone(s)
  \/ PublishPrimary(s) \/ Clobber(s) \/ UploadFeed(s) \/ AuditEnds(s) \/ Begin(s)

Releasing == \E c \in Components, k \in Kinds : Remove(c, k) \/ Upload(c, k)
HostStep == FetchFails \/ Accept \/ Refuse

Next ==
  \/ \E c \in Components : Cut(c)
  \/ Releasing \/ MergeConfig \/ Tick \/ Heartbeat \/ Audit \/ HostStep
  \/ \E s \in Slots : RunStep(s)

Spec == Init /\ [][Next]_vars

\* A release that is begun is finished, time and the runs it is bounded by go
\* on, and hosts poll.
FairSpec ==
  /\ Spec
  /\ WF_vars(Releasing)
  /\ WF_vars(Tick \/ Heartbeat \/ \E s \in Slots : RunStep(s))
  /\ WF_vars(HostStep)

-----------------------------------------------------------------------------
Expired(b) == served[b] # Absent /\ Now > served[b].generated + TTL

\* Whatever a base serves offers every component to every platform the
\* component does not exempt, at no build below the floor beside it: no feed is
\* made of a release that is still being put up.
ServedIsWhole ==
  \A b \in Bases : served[b] # Absent =>
    LET m == served[b]
    IN \A c \in Components :
         /\ Platforms \ Exempt[c] \subseteq m.kinds[c]
         /\ Build[m.version[c]] >= Floors[m.config]

\* The primary's feed expires only after a signing run was lost: the heartbeat
\* and the wait behind another run fit in the lifetime.
HeartbeatKeepsItFresh == Expired("primary") => lost.served >= 1

\* What a base serves never goes back: a host that is told of a rollback has its
\* marks from the other base.  The runs publish in the order in which they took
\* their timestamps.
NoBaseGoesBack ==
  Refuses /\ Answer.sequence < host.marks.sequence => host.from # host.base

\* A release reaches the hosts, with no wake and after lost runs too, unless the
\* floor that forbids it stays.
ReleaseReachesHost ==
  <>[](config = Len(Floors)) => <>[](\A c \in Components : Complete(c) /\ host.has[c] = release[c].version)
=============================================================================
