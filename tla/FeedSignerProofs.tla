--------------------------- MODULE FeedSignerProofs ---------------------------
(***************************************************************************)
(* What the feed workflow promises the hosts, for any components, releases,  *)
(* floors, periods and failures: no base serves a feed made of a release that *)
(* is still being put up, what a base serves never goes back, and the primary *)
(* does not let its feed expire unless a signing run was lost.                *)
(***************************************************************************)
EXTENDS FeedSigner, Functions, TLAPS

-----------------------------------------------------------------------------
(* What there is.                                                            *)

Phases == {"idle", "doctor", "resolve", "download", "keystone", "s3", "clobber", "upload", "audit"}

Releases == [version : Versions, next : Versions, files : SUBSET (Versions \X Kinds)]
RunRec == [at : Phases, age : 0..MaxRun, config : DOMAIN Floors, generated : 0..Now,
           todo : {t \in Seq(Components) : t = <<>> => Listed = <<>>}, got : [Components -> SUBSET Kinds],
           version : [Components -> Versions]]
Hosts == [base : Bases, marks : TrustState, has : [Components -> Versions], from : Bases]

\* What a release has is of the one version its channel names.
ReleasesOK ==
  /\ release \in [Components -> Releases]
  /\ \A c \in Components : release[c].files \subseteq {release[c].version} \X Ships[c]

Busy(s) == runs[s].at # "idle"

\* One run at a time; and where there is none, nothing is kept of one.
RunsOK ==
  /\ runs \in [Slots -> RunRec]
  /\ \A s \in Slots : ~Busy(s) => runs[s] = IdleRun
  /\ \A s, t \in Slots : Busy(s) /\ Busy(t) => s = t

ServedOK ==
  /\ served \in [Bases -> Manifest \cup {Absent}] /\ served["primary"] # Absent

Typed ==
  /\ channel \in Channels /\ config \in DOMAIN Floors /\ since \in 0..Period
  /\ pending \in {"none", "sign", "audit"}
  /\ ReleasesOK /\ RunsOK /\ ServedOK
  /\ host \in Hosts /\ lost \in [served : 0..2, signed : 0..2]

-----------------------------------------------------------------------------
(* What a run has gathered.                                                  *)

Covers(kinds, c) == kinds # {} /\ Platforms \ Exempt[c] \subseteq kinds

\* A component is still to be resolved, or what was found of it is complete.
Gathered(r) ==
  /\ r.at = "doctor" => r.todo = Listed
  /\ r.at = "resolve" =>
       \A c \in Components : c \in Range(r.todo) \/ Covers(r.got[c], c)
  /\ r.at \in {"download", "keystone", "s3", "clobber", "upload"} =>
       \A c \in Components : Covers(r.got[c], c)
  /\ r.at \in {"s3", "clobber", "upload"} =>
       \A c \in Components : Build[r.version[c]] >= Floors[r.config]

\* What a base serves, or will.
Whole(m) ==
  \A c \in Components :
    /\ Platforms \ Exempt[c] \subseteq m.kinds[c]
    /\ Build[m.version[c]] >= Floors[m.config]

GatherInv == \A s \in Slots : Gathered(runs[s])

WholeInv == GatherInv /\ ServedIsWhole

-----------------------------------------------------------------------------
(* The order of publication.                                                 *)

Stamped(s) == runs[s].at \in {"resolve", "download", "keystone", "s3", "clobber", "upload"}

\* A run that has its timestamp is the newest there is; and a host is not ahead
\* of the base it has its marks from.
OrderInv ==
  /\ host.marks.sequence <= Now
  /\ \A s \in Slots : Stamped(s) =>
       /\ host.marks.sequence <= runs[s].generated
       /\ \A b \in Bases : served[b] # Absent => served[b].generated <= runs[s].generated
  /\ served[host.from] # Absent => host.marks.sequence <= served[host.from].generated

-----------------------------------------------------------------------------
(* Time.                                                                     *)

Age(t) == Now - t

\* A run's timestamp was taken during the run; if a heartbeat was due since, the
\* run it has started waits, or was lost.
StampInv ==
  \A s \in Slots : Stamped(s) =>
    /\ Age(runs[s].generated) <= runs[s].age
    /\ lost.signed = 0 => Age(runs[s].generated) <= since \/ pending = "sign"

\* A feed of age a: no heartbeat was due since; or a signing run waits, behind
\* another at the most; or one is on its way to the primary.
Waits(a) ==
  /\ pending = "sign" /\ (Free => a <= Period + MaxRun)
  /\ \A s \in Slots : Busy(s) => a <= Period + runs[s].age
Signing(s) == runs[s].at \in {"doctor", "resolve", "download", "keystone", "s3"}
Signs(a) == \E s \in Slots : Signing(s) /\ a <= Period + MaxRun + runs[s].age
Fresh(a) == a <= since \/ Waits(a) \/ Signs(a)

PrimaryAge == Age(served["primary"].generated)

FreshInv == StampInv /\ (lost.served = 0 => Fresh(PrimaryAge))

-----------------------------------------------------------------------------
(* Facts about the constants and the operators.                              *)

LEMMA Constants ==
  /\ Now \in Nat /\ Now > 0 /\ MaxRun \in Nat /\ Period \in Nat /\ TTL \in Nat
  /\ 1 \in Versions /\ 1 \in DOMAIN Floors /\ First \in Manifest
  /\ Listed \in Seq(Components) /\ Range(Listed) = Components
  /\ Absent \notin Manifest
BY FeedAssumption DEF Now, First, Manifest, Range

LEMMA IdleRunOK ==
  /\ IdleRun \in RunRec /\ IdleRun.at = "idle" /\ IdleRun.age = 0 /\ IdleRun.todo = Listed
BY Constants DEF IdleRun, RunRec, Phases

LEMMA StartedOK ==
  ASSUME NEW kind, config \in DOMAIN Floors
  PROVE  /\ Started(kind) \in RunRec /\ Started(kind).age = 0 /\ Started(kind).todo = Listed
         /\ Started(kind).at = IF kind = "sign" THEN "doctor" ELSE "audit"
<1> DEFINE p == IF kind = "sign" THEN "doctor" ELSE "audit"
           r == [IdleRun EXCEPT !.at = p, !.config = config]
<1>1. p \in Phases
  BY DEF Phases
<1>2. Started(kind) = r
  BY DEF Started
<1>3. r \in RunRec /\ r.age = 0 /\ r.at = p /\ r.todo = Listed
  <2> HIDE DEF p
  <2> QED  BY <1>1, IdleRunOK DEF RunRec
<1> HIDE DEF r
<1> QED  BY <1>2, <1>3

LEMMA EarlierOK ==
  ASSUME NEW t \in 0..Now
  PROVE  /\ Earlier(t) \in 0..Now
         /\ Age(t) \in 0..Now /\ Age(Earlier(t)) \in 0..Now /\ Age(Earlier(t)) <= Age(t) + 1
         /\ \A u \in 0..Now : u <= t => Earlier(u) <= Earlier(t)
BY Constants DEF Earlier, Age

\* One run starts where there was none, or waits.
LEMMA Triggered ==
  ASSUME Typed, NEW kind \in {"sign", "audit"}, Trigger(kind)
  PROVE  \/ /\ Free /\ pending = "none" /\ pending' = pending
            /\ \E s \in Slots : runs' = [runs EXCEPT ![s] = Started(kind)]
         \/ /\ ~(Free /\ pending = "none") /\ pending' = kind /\ runs' = runs
<1>1. Free => IdleSlot \in Slots
  BY DEF Free, IdleSlot, Slots
<1> QED  BY <1>1 DEF Trigger

LEMMA TriggerTyped ==
  ASSUME Typed, NEW kind \in {"sign", "audit"}, Trigger(kind)
  PROVE  RunsOK' /\ pending' \in {"none", "sign", "audit"}
<1>1. CASE runs' = runs /\ pending' = kind
  BY <1>1 DEF Typed, RunsOK, Busy
<1>2. ASSUME Free, pending' = pending, NEW s \in Slots, runs' = [runs EXCEPT ![s] = Started(kind)]
      PROVE  RunsOK' /\ pending' \in {"none", "sign", "audit"}
  <2>1. /\ Started(kind) \in RunRec /\ Started(kind).at # "idle"
    BY StartedOK DEF Typed
  <2> QED  BY <1>2, <2>1 DEF Typed, RunsOK, Busy, Free
<1> QED  BY <1>1, <1>2, Triggered

\* A run goes on, or ends.
LEMMA RunGoesOn ==
  ASSUME Typed, NEW s \in Slots, Busy(s), NEW r \in RunRec, r.at = "idle" => r = IdleRun,
         runs' = [runs EXCEPT ![s] = r]
  PROVE  RunsOK' /\ runs'[s] = r /\ \A t \in Slots \ {s} : runs'[t] = IdleRun
BY DEF Typed, RunsOK, Busy

LEMMA LoseOK ==
  ASSUME Typed, Lose
  PROVE  /\ lost' \in [served : 0..2, signed : 0..2]
         /\ lost'.served # 0 /\ lost'.signed # 0
BY DEF Typed, Lose, Counted

-----------------------------------------------------------------------------
(* Typed.                                                                    *)

LEMMA TypedInitially == Init => Typed
<1> SUFFICES ASSUME Init PROVE Typed
  OBVIOUS
<1>1. ReleasesOK
  BY FeedAssumption DEF Init, ReleasesOK, Releases
<1>2. RunsOK
  BY IdleRunOK DEF Init, RunsOK, Busy
<1>3. ServedOK
  BY Constants DEF Init, ServedOK, Bases
<1>4. host \in Hosts
  BY Constants DEF Init, Hosts, Bases, Initial, TrustState, First
<1> QED  BY <1>1, <1>2, <1>3, <1>4, Constants DEF Init, Typed

LEMMA ReleasingTyped ==
  ASSUME Typed, NEW c \in Components,
         \/ Cut(c)
         \/ \E k \in Kinds : Remove(c, k) \/ Upload(c, k)
  PROVE  Typed'
<1>1. release[c] \in Releases /\ release[c].files \subseteq {release[c].version} \X Ships[c]
  BY DEF Typed, ReleasesOK
<1>2. ASSUME NEW r \in Releases, r.files \subseteq {r.version} \X Ships[c],
             release' = [release EXCEPT ![c] = r]
      PROVE  ReleasesOK'
  BY <1>2 DEF Typed, ReleasesOK
<1>3. CASE Cut(c)
  <2>1. release[c].version + 1 \in Versions
    <3>1. \A v, w \in Versions : v < w => v + 1 \in Versions
      BY FeedAssumption DEF Versions
    <3> QED  BY <1>1, <1>3, <3>1, FeedAssumption DEF Cut, Releases
  <2>2. CASE channel = "stable"
    <3> DEFINE r == [version |-> release[c].version + 1, next |-> release[c].version + 1, files |-> {}]
    <3>1. release' = [release EXCEPT ![c] = r]
      BY <1>1, <1>3, <2>2 DEF Cut, Typed, ReleasesOK
    <3>2. r \in Releases /\ r.files \subseteq {r.version} \X Ships[c]
      BY <2>1 DEF Releases
    <3> QED  BY <1>2, <1>3, <3>1, <3>2 DEF Cut, Typed, RunsOK, ServedOK, Busy, history
  <2>3. CASE channel # "stable"
    <3> DEFINE r == [release[c] EXCEPT !.next = release[c].next + 1]
    <3>1. release' = [release EXCEPT ![c] = r]
      BY <1>1, <1>3, <2>3 DEF Cut, Typed, ReleasesOK, Releases
    <3>2. r \in Releases /\ r.files \subseteq {r.version} \X Ships[c]
      BY <1>1, <1>3, <2>1 DEF Releases, Cut, Complete, Putting
    <3> QED  BY <1>2, <1>3, <3>1, <3>2 DEF Cut, Typed, RunsOK, ServedOK, Busy, history
  <2> QED  BY <2>2, <2>3
<1>4. ASSUME NEW k \in Kinds, Remove(c, k) PROVE Typed'
  <2> DEFINE files == release[c].files \ {<<release[c].version, k>>}
             r == [release[c] EXCEPT !.files = files,
                                     !.version = IF files = {} THEN release[c].next ELSE @]
  <2>1. release' = [release EXCEPT ![c] = r]
    BY <1>1, <1>4 DEF Remove, Typed, ReleasesOK, Releases
  <2>2. r \in Releases /\ r.files \subseteq {r.version} \X Ships[c]
    BY <1>1 DEF Releases
  <2> HIDE DEF r
  <2> QED  BY <1>2, <1>4, <2>1, <2>2 DEF Remove, Typed, RunsOK, ServedOK, Busy, history
<1>5. ASSUME NEW k \in Kinds, Upload(c, k) PROVE Typed'
  <2> DEFINE r == [release[c] EXCEPT !.files = @ \cup {<<release[c].version, k>>}]
  <2>1. release' = [release EXCEPT ![c] = r]
    BY <1>1, <1>5 DEF Upload
  <2>2. r \in Releases /\ r.files \subseteq {r.version} \X Ships[c]
    BY <1>1, <1>5 DEF Releases, Upload
  <2> HIDE DEF r
  <2>3. ReleasesOK'
    BY <1>2, <2>1, <2>2
  <2>4. RunsOK' /\ pending' \in {"none", "sign", "audit"}
    <3>1. CASE UNCHANGED <<pending, runs>>
      BY <3>1 DEF Typed, RunsOK, Busy
    <3> QED  BY <1>5, <3>1, TriggerTyped DEF Upload
  <2> QED  BY <1>5, <2>3, <2>4 DEF Upload, Typed, ServedOK
<1> QED  BY <1>3, <1>4, <1>5

LEMMA TriggersTyped ==
  ASSUME Typed, MergeConfig \/ Heartbeat \/ Audit \/ UNCHANGED vars
  PROVE  Typed'
<1>1. CASE MergeConfig \/ UNCHANGED vars
  BY <1>1 DEF MergeConfig, vars, history, Typed, ReleasesOK, RunsOK, ServedOK, Busy
<1>2. CASE Heartbeat
  <2>1. RunsOK' /\ pending' \in {"none", "sign", "audit"}
    <3>1. CASE UNCHANGED <<pending, runs>>
      BY <3>1 DEF Typed, RunsOK, Busy
    <3> QED  BY <1>2, <3>1, TriggerTyped DEF Heartbeat
  <2>2. lost' \in [served : 0..2, signed : 0..2]
    BY <1>2, LoseOK DEF Heartbeat, Typed
  <2> QED  BY <1>2, <2>1, <2>2, Constants DEF Heartbeat, Typed, ReleasesOK, ServedOK
<1>3. CASE Audit
  <2>1. RunsOK' /\ pending' \in {"none", "sign", "audit"}
    BY <1>3, TriggerTyped DEF Audit
  <2>2. lost' \in [served : 0..2, signed : 0..2]
    BY <1>3, LoseOK DEF Audit, Typed
  <2> QED  BY <1>3, <2>1, <2>2 DEF Audit, Typed, ReleasesOK, ServedOK
<1> QED  BY <1>1, <1>2, <1>3

LEMMA Ticked ==
  ASSUME Typed, Tick
  PROVE  /\ \A s \in Slots :
              /\ runs'[s].at = runs[s].at /\ runs'[s].todo = runs[s].todo
              /\ runs'[s].got = runs[s].got /\ runs'[s].version = runs[s].version
              /\ runs'[s].config = runs[s].config
              /\ Busy(s) => /\ runs'[s].age = runs[s].age + 1 /\ runs'[s].age <= MaxRun
                            /\ runs'[s].generated = Earlier(runs[s].generated)
              /\ ~Busy(s) => runs'[s] = IdleRun
         /\ RunsOK'
         /\ \A b \in Bases : served'[b] = Aged(served[b])
         /\ served' \in [Bases -> Manifest \cup {Absent}]
         /\ \A b \in Bases : served[b] # Absent =>
              served'[b] # Absent /\ served'[b] = [served[b] EXCEPT !.generated = Earlier(@)]
<1>1. \A s \in Slots : runs'[s] = IF runs[s].at = "idle" THEN IdleRun
                              ELSE [runs[s] EXCEPT !.age = @ + 1, !.generated = Earlier(@)]
  BY DEF Tick
<1>2. \A s \in Slots : runs[s] \in RunRec /\ (~Busy(s) => runs[s] = IdleRun)
  BY DEF Typed, RunsOK
<1>3. \A s \in Slots : runs[s].generated \in 0..Now /\ Earlier(runs[s].generated) \in 0..Now
  BY <1>2, EarlierOK DEF RunRec
<1>4. \A s \in Slots : Busy(s) => runs[s].age < MaxRun /\ runs[s].age + 1 \in 0..MaxRun
  <2>1. \A n \in 0..MaxRun : n < MaxRun => n + 1 \in 0..MaxRun
    BY Constants
  <2>2. \A s \in Slots : runs[s].age \in 0..MaxRun
    BY <1>2 DEF RunRec
  <2> QED  BY <2>1, <2>2 DEF Tick, Busy
<1>5. ASSUME NEW s \in Slots
      PROVE  /\ runs'[s].at = runs[s].at /\ runs'[s].todo = runs[s].todo
             /\ runs'[s].got = runs[s].got /\ runs'[s].version = runs[s].version
             /\ runs'[s].config = runs[s].config
             /\ Busy(s) => /\ runs'[s].age = runs[s].age + 1 /\ runs'[s].age <= MaxRun
                           /\ runs'[s].generated = Earlier(runs[s].generated)
             /\ ~Busy(s) => runs'[s] = IdleRun
             /\ runs'[s] \in RunRec
  <2>1. CASE Busy(s)
    <3> DEFINE r == [runs[s] EXCEPT !.age = @ + 1, !.generated = Earlier(@)]
    <3>1. runs'[s] = r
      BY <1>1, <2>1 DEF Busy
    <3>2. runs[s] \in RunRec
      BY <1>2
    <3>3. /\ r.at = runs[s].at /\ r.todo = runs[s].todo /\ r.got = runs[s].got
          /\ r.version = runs[s].version /\ r.config = runs[s].config
          /\ r.age = runs[s].age + 1 /\ r.generated = Earlier(runs[s].generated)
      BY <3>2 DEF RunRec
    <3>4. r \in RunRec
      BY <1>3, <1>4, <2>1, <3>2 DEF RunRec
    <3>5. r.age <= MaxRun
      BY <1>4, <2>1, <3>3, Constants
    <3> HIDE DEF r
    <3> QED  BY <2>1, <3>1, <3>3, <3>4, <3>5
  <2>2. CASE ~Busy(s)
    BY <1>1, <1>2, <2>2, IdleRunOK DEF Busy
  <2> QED  BY <2>1, <2>2
<1>6. runs' \in [Slots -> RunRec]
  BY <1>5 DEF Tick
<1>7. RunsOK'
  BY <1>5, <1>6 DEF Typed, RunsOK, Busy
<1>8. ASSUME NEW m \in Manifest
      PROVE  /\ Aged(m) \in Manifest /\ Aged(m) # Absent
             /\ Aged(m) = [m EXCEPT !.generated = Earlier(@)]
  BY <1>8, EarlierOK, Constants DEF Aged, Manifest
<1>9. \A b \in Bases : served'[b] = Aged(served[b])
  BY DEF Tick
<1>10. Aged(Absent) = Absent
  BY DEF Aged
<1>11. \A b \in Bases : served[b] \in Manifest \/ served[b] = Absent
  BY DEF Typed, ServedOK
<1>12. served' \in [Bases -> Manifest \cup {Absent}]
  BY <1>8, <1>9, <1>10, <1>11 DEF Tick
<1> QED  BY <1>5, <1>7, <1>8, <1>9, <1>11, <1>12

LEMMA TickTyped == ASSUME Typed, Tick PROVE Typed'
<1>1. RunsOK' /\ ServedOK'
  BY Ticked DEF ServedOK, Typed, Bases
<1>2. since' \in 0..Period
  <2>1. \A n \in 0..Period : n < Period => n + 1 \in 0..Period
    BY Constants
  <2> QED  BY <2>1 DEF Tick, Typed
<1>3. \A t \in Nat : Earlier(t) \in Nat
  BY DEF Earlier
<1>4. host' \in Hosts
  BY <1>3 DEF Tick, Typed, Hosts, TrustState
<1> QED  BY <1>1, <1>2, <1>4 DEF Tick, Typed, ReleasesOK, history

-----------------------------------------------------------------------------
(* The steps of a run.                                                       *)

Drops(s) == Busy(s) /\ Fails(s) /\ Stays

Stamps(s) == runs[s].at = "doctor" /\ Stamp(s) /\ UNCHANGED served /\ Stays

Finds(s, c, v) ==
  /\ runs[s].at = "resolve" /\ c = Head(runs[s].todo)
  /\ v \in ResolvedVersions(c) /\ Selects(c, v)
  /\ runs' = [runs EXCEPT
               ![s].version[c] = v, ![s].got[c] = Named(c, v),
               ![s].todo = IF Tail(@) = <<>> THEN Listed ELSE Tail(@),
               ![s].at = IF Tail(runs[s].todo) = <<>> THEN "download" ELSE @]
  /\ UNCHANGED <<served, lost>> /\ Stays

GoesOn(s) ==
  /\ \/ runs[s].at = "download" /\ Goto(s, "keystone")
     \/ runs[s].at = "keystone" /\ Proves(runs[s]) /\ Goto(s, "s3")
  /\ UNCHANGED <<served, lost>> /\ Stays

Clobbers(s) ==
  /\ runs[s].at = "clobber" /\ Goto(s, "upload")
  /\ served' = [served EXCEPT !["fallback"] = Absent]
  /\ UNCHANGED lost /\ Stays

\* A run that ends with nothing more published.
Stops(s) ==
  /\ runs[s].at \in {"clobber", "audit"} /\ Ends(s)
  /\ UNCHANGED <<served, lost>> /\ Stays

LEMMA RunSteps ==
  ASSUME NEW s \in Slots, RunStep(s)
  PROVE  \/ Drops(s) \/ Stamps(s) \/ GoesOn(s)
         \/ \E c \in Components : \E v \in ResolvedVersions(c) : Finds(s, c, v)
         \/ PublishPrimary(s) \/ Clobbers(s) \/ UploadFeed(s) \/ Stops(s) \/ Begin(s)
<1>1. CASE Doctor(s)
  BY <1>1 DEF Doctor, Drops, Stamps, Busy
<1>2. CASE \E c \in Components : Resolve(s, c)
  BY <1>2 DEF Resolve, Drops, Finds, Busy
<1>3. CASE Download(s)
  BY <1>3 DEF Download, Drops, GoesOn, Busy
<1>4. CASE Keystone(s)
  BY <1>4 DEF Keystone, Drops, GoesOn, Busy
<1>5. CASE Clobber(s) \/ AuditEnds(s)
  BY <1>5 DEF Clobber, AuditEnds, Clobbers, Stops
<1> QED  BY <1>1, <1>2, <1>3, <1>4, <1>5 DEF RunStep

\* A run that ends leaves nothing under way.
LEMMA EndsOK ==
  ASSUME Typed, NEW s \in Slots, Busy(s), Ends(s)
  PROVE  RunsOK' /\ \A t \in Slots : runs'[t] = IdleRun
<1>1. runs' = [runs EXCEPT ![s] = IdleRun]
  BY DEF Ends
<1> QED  BY <1>1, RunGoesOn, IdleRunOK

LEMMA GotoOK ==
  ASSUME Typed, NEW s \in Slots, Busy(s), NEW phase \in Phases, phase # "idle", Goto(s, phase)
  PROVE  /\ RunsOK' /\ \A t \in Slots \ {s} : runs'[t] = IdleRun
         /\ runs'[s].at = phase /\ runs'[s].age = runs[s].age
         /\ runs'[s].generated = runs[s].generated /\ runs'[s].config = runs[s].config
         /\ runs'[s].version = runs[s].version /\ runs'[s].got = runs[s].got
<1> DEFINE r == [runs[s] EXCEPT !.at = phase]
<1>1. runs' = [runs EXCEPT ![s] = r]
  BY DEF Goto
<1>2. runs[s] \in RunRec
  BY DEF Typed, RunsOK
<1>3. /\ r \in RunRec /\ r.at = phase /\ r.age = runs[s].age
      /\ r.generated = runs[s].generated /\ r.config = runs[s].config
      /\ r.version = runs[s].version /\ r.got = runs[s].got
  BY <1>2 DEF RunRec
<1> HIDE DEF r
<1> QED  BY <1>1, <1>3, RunGoesOn

LEMMA StampOK ==
  ASSUME Typed, NEW s \in Slots, Stamps(s)
  PROVE  /\ RunsOK' /\ \A t \in Slots \ {s} : runs'[t] = IdleRun
         /\ runs'[s].at = "resolve" /\ runs'[s].age = runs[s].age
         /\ runs'[s].generated = Now /\ runs'[s].todo = runs[s].todo
         /\ lost' = [lost EXCEPT !.signed = 0]
<1> DEFINE r == [runs[s] EXCEPT !.at = "resolve", !.generated = Now]
<1>1. runs' = [runs EXCEPT ![s] = r]
  BY DEF Stamps, Stamp
<1>2. runs[s] \in RunRec
  BY DEF Typed, RunsOK
<1>3. /\ r \in RunRec /\ r.at = "resolve" /\ r.age = runs[s].age
      /\ r.generated = Now /\ r.todo = runs[s].todo
  <2>1. "resolve" \in Phases /\ Now \in 0..Now
    BY Constants DEF Phases
  <2> HIDE DEF Phases
  <2> QED  BY <1>2, <2>1 DEF RunRec
<1>4. lost' = [lost EXCEPT !.signed = 0] /\ Busy(s)
  BY DEF Stamps, Stamp, Busy
<1> HIDE DEF r
<1> QED  BY <1>1, <1>3, <1>4, RunGoesOn

LEMMA VersionsResolved ==
  ASSUME Typed, NEW c \in Components, NEW v \in ResolvedVersions(c)
  PROVE  v \in Versions
BY DEF Typed, ReleasesOK, Releases, ResolvedVersions

LEMMA FindsOK ==
  ASSUME Typed, NEW s \in Slots, NEW c \in Components, NEW v \in ResolvedVersions(c),
         Finds(s, c, v)
  PROVE  /\ RunsOK' /\ \A t \in Slots \ {s} : runs'[t] = IdleRun
         /\ runs'[s].age = runs[s].age /\ runs'[s].generated = runs[s].generated
         /\ runs'[s].got = [runs[s].got EXCEPT ![c] = Named(c, v)]
         /\ \/ /\ Tail(runs[s].todo) # <<>> /\ runs'[s].todo = Tail(runs[s].todo)
               /\ runs'[s].at = "resolve"
            \/ Tail(runs[s].todo) = <<>> /\ runs'[s].at = "download"
<1> DEFINE rest == IF Tail(runs[s].todo) = <<>> THEN Listed ELSE Tail(runs[s].todo)
           phase == IF Tail(runs[s].todo) = <<>> THEN "download" ELSE "resolve"
           kinds == [runs[s].got EXCEPT ![c] = Named(c, v)]
           versions == [runs[s].version EXCEPT ![c] = v]
           r == [runs[s] EXCEPT !.version = versions, !.got = kinds, !.todo = rest, !.at = phase]
<1>1. runs[s] \in RunRec
  BY DEF Typed, RunsOK
<1>2. Listed # <<>>
  BY FeedAssumption
<1>3. runs[s].todo \in Seq(Components) /\ runs[s].todo # <<>>
  BY <1>1, <1>2 DEF RunRec
<1>4. rest \in {t \in Seq(Components) : t = <<>> => Listed = <<>>}
  BY <1>2, <1>3, Constants
<1>5. versions \in [Components -> Versions] /\ kinds \in [Components -> SUBSET Kinds]
  BY <1>1, VersionsResolved DEF RunRec, Named
<1>6. phase \in Phases /\ phase # "idle"
  BY DEF Phases
<1>7. runs' = [runs EXCEPT ![s] = r]
  BY <1>1 DEF Finds, Typed, RunsOK, RunRec
<1>8. /\ r \in RunRec /\ r.at = phase /\ r.age = runs[s].age /\ r.generated = runs[s].generated
      /\ r.got = kinds /\ r.todo = rest
  <2> HIDE DEF rest, phase, kinds, versions
  <2> QED  BY <1>1, <1>4, <1>5, <1>6 DEF RunRec
<1>9. Busy(s)
  BY DEF Finds, Busy
<1>10. /\ RunsOK' /\ \A t \in Slots \ {s} : runs'[t] = IdleRun
       /\ runs'[s] = r
  <2> HIDE DEF r
  <2> QED  BY <1>6, <1>7, <1>8, <1>9, RunGoesOn
<1> HIDE DEF r
<1> QED  BY <1>8, <1>10

LEMMA BeginOK ==
  ASSUME Typed, NEW s \in Slots, Begin(s)
  PROVE  /\ RunsOK' /\ \A t \in Slots \ {s} : runs'[t] = IdleRun
         /\ runs'[s] = Started(pending)
         /\ Free /\ pending # "none" /\ pending' = "none"
<1>1. Started(pending) \in RunRec /\ Started(pending).at # "idle"
  BY StartedOK DEF Typed
<1> QED  BY <1>1 DEF Begin, Typed, RunsOK, Busy, Free

\* What a run publishes is a manifest.
LEMMA SignedOK ==
  ASSUME Typed, NEW s \in Slots
  PROVE  /\ Signed(runs[s]) \in Manifest
         /\ Signed(runs[s]).generated = runs[s].generated
         /\ Signed(runs[s]).config = runs[s].config
         /\ Signed(runs[s]).version = runs[s].version
         /\ Signed(runs[s]).kinds = runs[s].got
<1>1. runs[s] \in RunRec
  BY DEF Typed, RunsOK
<1> QED  BY <1>1 DEF Signed, Manifest, RunRec

LEMMA RunStepTyped == ASSUME Typed, NEW s \in Slots, RunStep(s) PROVE Typed'
<1>1. CASE Drops(s)
  BY <1>1, EndsOK, LoseOK DEF Drops, Fails, Stays, Typed, ReleasesOK, ServedOK
<1>2. CASE Stamps(s)
  <2>1. lost' \in [served : 0..2, signed : 0..2]
    BY <1>2, StampOK DEF Typed
  <2> QED  BY <1>2, <2>1, StampOK DEF Stamps, Stays, Typed, ReleasesOK, ServedOK
<1>3. CASE GoesOn(s)
  <2>1. RunsOK'
    BY <1>3, GotoOK DEF GoesOn, Busy, Phases
  <2> QED  BY <1>3, <2>1 DEF GoesOn, Stays, Typed, ReleasesOK, ServedOK
<1>4. CASE \E c \in Components : \E v \in ResolvedVersions(c) : Finds(s, c, v)
  BY <1>4, FindsOK, ZenonT(60) DEF Finds, Stays, Typed, ReleasesOK, ServedOK
<1>5. CASE PublishPrimary(s)
  <2>1. RunsOK'
    BY <1>5, GotoOK DEF PublishPrimary, Busy, Phases
  <2>2. ServedOK' /\ lost' \in [served : 0..2, signed : 0..2]
    BY <1>5, SignedOK, LoseOK, Constants DEF PublishPrimary, Typed, ServedOK, Bases
  <2> QED  BY <1>5, <2>1, <2>2 DEF PublishPrimary, Stays, Typed, ReleasesOK
<1>6. CASE Clobbers(s)
  <2>1. RunsOK'
    BY <1>6, GotoOK DEF Clobbers, Busy, Phases
  <2>2. ServedOK'
    BY <1>6 DEF Clobbers, Typed, ServedOK, Bases
  <2> QED  BY <1>6, <2>1, <2>2 DEF Clobbers, Stays, Typed, ReleasesOK
<1>7. CASE UploadFeed(s)
  <2>1. RunsOK'
    BY <1>7, EndsOK DEF UploadFeed, Busy
  <2>2. ServedOK'
    BY <1>7, SignedOK, Constants DEF UploadFeed, Typed, ServedOK, Bases
  <2> QED  BY <1>7, <2>1, <2>2 DEF UploadFeed, Stays, Typed, ReleasesOK
<1>8. CASE Stops(s)
  BY <1>8, EndsOK DEF Stops, Busy, Stays, Typed, ReleasesOK, ServedOK
<1>9. CASE Begin(s)
  BY <1>9, BeginOK DEF Begin, Typed, ReleasesOK, ServedOK, history
<1> QED  BY <1>1, <1>2, <1>3, <1>4, <1>5, <1>6, <1>7, <1>8, <1>9, RunSteps

\* What a base answers, to a host.
LEMMA ReceivedOK ==
  ASSUME NEW m \in Manifest
  PROVE  /\ Received(m).sequence = m.generated /\ Received(m).generated = m.generated
         /\ Received(m).expires = m.generated + TTL
         /\ Received(m).floor = Floors[m.config] /\ Received(m).root_version = 1
         /\ \A c \in Components : Received(m).build[c] = Build[m.version[c]]
         /\ Received(m).floor \in Nat
         /\ \A c \in Components : Build[m.version[c]] \in Nat \ {None}
<1>1. m.generated \in Nat /\ m.config \in DOMAIN Floors /\ m.version \in [Components -> Versions]
  BY Constants DEF Manifest
<1>2. Floors[m.config] \in Nat /\ \A c \in Components : Build[m.version[c]] \in Nat \ {None}
  <2>1. \A i \in DOMAIN Floors : Floors[i] \in Nat
    BY FeedAssumption
  <2>2. \A v \in Versions : Build[v] \in Nat \ {None}
    BY FeedAssumption DEF Versions
  <2> QED  BY <1>1, <2>1, <2>2
<1> QED  BY <1>2 DEF Received

LEMMA ReceivedTyped ==
  ASSUME NEW m \in Manifest
  PROVE  /\ Received(m).root_version \in Nat /\ Received(m).sequence \in Nat
         /\ Received(m).generated \in Nat /\ Received(m).floor \in Nat
<1>1. m.generated \in Nat
  BY Constants DEF Manifest
<1>2. 1 \in Nat
  OBVIOUS
<1> QED  BY <1>1, <1>2, ReceivedOK

LEMMA HostTyped == ASSUME Typed, HostStep PROVE Typed'
<1>1. host.base \in Bases /\ host.marks \in TrustState /\ host \in Hosts
  BY DEF Typed, Hosts
<1>2. host' \in Hosts
  <2>1. CASE FetchFails \/ Refuse
    BY <1>1, <2>1 DEF FetchFails, Refuse, Hosts, Bases
  <2>2. CASE Accept
    <3>1. served[host.base] \in Manifest
      BY <1>1, <2>2 DEF Accept, Answered, Typed, ServedOK
    <3>2. Advance(host.marks, Answer) \in TrustState
      <4>1. \A a, b \in Nat : Larger(a, b) \in Nat
        BY DEF Larger
      <4>2. /\ Answer.root_version \in Nat /\ Answer.sequence \in Nat
            /\ Answer.generated \in Nat /\ Answer.floor \in Nat
        BY <3>1, ReceivedTyped DEF Answer
      <4> QED  BY <1>1, <4>1, <4>2 DEF Advance, TrustState
    <3>3. served[host.base].version \in [Components -> Versions]
      BY <3>1 DEF Manifest
    <3>4. host' = [host EXCEPT !.base = "primary", !.from = host.base,
                               !.marks = Advance(host.marks, Answer),
                               !.has = served[host.base].version]
      BY <2>2 DEF Accept
    <3> QED  BY <1>1, <3>2, <3>3, <3>4 DEF Hosts, Bases
  <2> QED  BY <2>1, <2>2 DEF HostStep
<1>3. Polls
  BY DEF HostStep, FetchFails, Accept, Refuse
<1> QED  BY <1>2, <1>3 DEF Polls, Typed, ReleasesOK, RunsOK, ServedOK, Busy

LEMMA TypedHolds == Spec => []Typed
<1>1. Typed /\ [Next]_vars => Typed'
  <2> SUFFICES ASSUME Typed, [Next]_vars PROVE Typed'
    OBVIOUS
  <2>1. CASE (\E c \in Components : Cut(c)) \/ Releasing
    BY <2>1, ReleasingTyped DEF Releasing
  <2>2. CASE MergeConfig \/ Heartbeat \/ Audit \/ UNCHANGED vars
    BY <2>2, TriggersTyped
  <2>3. CASE Tick
    BY <2>3, TickTyped
  <2>4. CASE HostStep
    BY <2>4, HostTyped
  <2>5. CASE \E s \in Slots : RunStep(s)
    BY <2>5, RunStepTyped
  <2> QED  BY <2>1, <2>2, <2>3, <2>4, <2>5 DEF Next
<1> QED  BY <1>1, TypedInitially, PTL DEF Spec

-----------------------------------------------------------------------------
(* WholeInv.                                                                 *)

LEMMA WholeInitially == Init => WholeInv
<1> SUFFICES ASSUME Init PROVE WholeInv
  OBVIOUS
<1>1. GatherInv
  BY IdleRunOK DEF Init, GatherInv, Gathered
<1>2. \A b \in Bases : served[b] = First
  BY DEF Init
<1>3. Whole(First)
  BY FeedAssumption DEF First, Whole
<1> QED  BY <1>1, <1>2, <1>3 DEF WholeInv, ServedIsWhole, Whole

\* What the signer takes from a release covers what it must.
LEMMA SelectsCovers ==
  ASSUME NEW c \in Components, NEW v, Selects(c, v)
  PROVE  Covers(Named(c, v), c)
BY DEF Selects, MissingPlatforms, Covers

\* What the beacon has checked is at no build below its floor.
LEMMA ProvesAboveFloor ==
  ASSUME Typed, NEW s \in Slots, Proves(runs[s])
  PROVE  \A c \in Components : Build[runs[s].version[c]] >= Floors[runs[s].config]
<1> DEFINE m == Signed(runs[s])
<1>1. m \in Manifest /\ m.config = runs[s].config /\ m.version = runs[s].version
  BY SignedOK
<1>2. VerifyRollbackFloor(Received(m))
  BY DEF Proves, Accepts
<1> HIDE DEF m
<1>3. /\ Received(m).floor = Floors[m.config]
      /\ \A c \in Components : Received(m).build[c] = Build[m.version[c]]
      /\ \A c \in Components : Build[m.version[c]] # None
  BY <1>1, ReceivedOK
<1>4. \A c \in Components : Received(m).build[c] >= Received(m).floor
  BY <1>2, <1>3 DEF VerifyRollbackFloor, Offers
<1> QED  BY <1>1, <1>3, <1>4

\* Where one run at the most is under way, GatherInv is about it.
LEMMA GatherOne ==
  ASSUME NEW s \in Slots, \A t \in Slots \ {s} : runs'[t] = IdleRun, Gathered(runs'[s])
  PROVE  GatherInv'
BY IdleRunOK DEF GatherInv, Gathered

LEMMA RunStepWhole ==
  ASSUME Typed, WholeInv, NEW s \in Slots, RunStep(s)
  PROVE  WholeInv'
<1>1. Gathered(runs[s]) /\ Gathered(IdleRun)
  BY IdleRunOK DEF WholeInv, GatherInv, Gathered
<1>2. UNCHANGED served => ServedIsWhole'
  BY DEF WholeInv, ServedIsWhole
<1>3. ASSUME runs[s].at \in {"s3", "upload"}, NEW b \in Bases,
             served' = [served EXCEPT ![b] = Signed(runs[s])]
      PROVE  ServedIsWhole'
  <2> DEFINE m == Signed(runs[s])
  <2>1. Whole(m)
    BY <1>1, <1>3, SignedOK DEF Gathered, Covers, Whole
  <2> HIDE DEF m
  <2>2. \A d \in Bases : served'[d] = m \/ served'[d] = served[d]
    BY <1>3 DEF Typed, ServedOK, m
  <2> QED  BY <2>1, <2>2 DEF WholeInv, ServedIsWhole, Whole
<1>4. CASE Drops(s)
  BY <1>1, <1>2, <1>4, EndsOK DEF Drops, Fails, WholeInv, GatherInv
<1>5. CASE Stamps(s)
  <2>1. Gathered(runs'[s])
    BY <1>1, <1>5, StampOK, Constants DEF Stamps, Gathered
  <2> QED  BY <1>2, <1>5, <2>1, StampOK, GatherOne DEF Stamps, WholeInv
<1>6. CASE GoesOn(s)
  <2>1. CASE runs[s].at = "download" /\ Goto(s, "keystone")
    <3>1. Gathered(runs'[s]) /\ \A t \in Slots \ {s} : runs'[t] = IdleRun
      BY <1>1, <2>1, GotoOK DEF Gathered, Busy, Phases
    <3> QED  BY <1>2, <1>6, <3>1, GatherOne DEF GoesOn, WholeInv
  <2>2. CASE runs[s].at = "keystone" /\ Proves(runs[s]) /\ Goto(s, "s3")
    <3>1. /\ Gathered(runs'[s]) /\ \A t \in Slots \ {s} : runs'[t] = IdleRun
      BY <1>1, <2>2, GotoOK, ProvesAboveFloor DEF Gathered, Busy, Phases
    <3> QED  BY <1>2, <1>6, <3>1, GatherOne DEF GoesOn, WholeInv
  <2> QED  BY <1>6, <2>1, <2>2 DEF GoesOn
<1>7. ASSUME NEW c \in Components, NEW v \in ResolvedVersions(c), Finds(s, c, v)
      PROVE  WholeInv'
  <2>1. /\ runs[s].todo \in Seq(Components) /\ runs[s].todo # <<>>
        /\ runs[s].got \in [Components -> SUBSET Kinds]
    <3>1. runs[s] \in RunRec /\ Listed # <<>>
      BY FeedAssumption DEF Typed, RunsOK
    <3> QED  BY <3>1 DEF RunRec
  <2>2. \A d \in Range(runs[s].todo) : d = c \/ d \in Range(Tail(runs[s].todo))
    <3>1. c = Head(runs[s].todo)
      BY <1>7 DEF Finds
    <3> SUFFICES ASSUME NEW i \in 1..Len(runs[s].todo), runs[s].todo[i] # c
                 PROVE  runs[s].todo[i] \in Range(Tail(runs[s].todo))
      BY <2>1 DEF Range
    <3>2. /\ i - 1 \in DOMAIN Tail(runs[s].todo)
          /\ Tail(runs[s].todo)[i - 1] = runs[s].todo[i]
      BY <2>1, <3>1
    <3> QED  BY <3>2 DEF Range
  <2>3. Covers(runs'[s].got[c], c)
    <3>1. runs'[s].got = [runs[s].got EXCEPT ![c] = Named(c, v)]
      BY <1>7, FindsOK
    <3>2. runs'[s].got[c] = Named(c, v)
      BY <2>1, <3>1
    <3> QED  BY <1>7, <3>2, SelectsCovers DEF Finds
  <2>4. \A d \in Components \ {c} : runs'[s].got[d] = runs[s].got[d]
    BY <1>7, <2>1, FindsOK, ZenonT(60)
  <2>5. \A d \in Components : d \in Range(Tail(runs[s].todo)) \/ Covers(runs'[s].got[d], d)
    BY <1>1, <1>7, <2>2, <2>3, <2>4 DEF Gathered, Finds
  <2>6. Tail(runs[s].todo) = <<>> => Range(Tail(runs[s].todo)) = {}
    BY DEF Range
  <2>7. Gathered(runs'[s])
    BY <1>7, <2>5, <2>6, FindsOK DEF Gathered
  <2> QED  BY <1>2, <1>7, <2>7, FindsOK, GatherOne DEF Finds, WholeInv
<1>8. CASE PublishPrimary(s)
  <2>1. Gathered(runs'[s]) /\ \A t \in Slots \ {s} : runs'[t] = IdleRun
    BY <1>1, <1>8, GotoOK DEF PublishPrimary, Gathered, Busy, Phases
  <2>2. ServedIsWhole'
    BY <1>2, <1>3, <1>8 DEF PublishPrimary, Bases
  <2> QED  BY <2>1, <2>2, GatherOne DEF WholeInv
<1>9. CASE Clobbers(s)
  <2>1. Gathered(runs'[s]) /\ \A t \in Slots \ {s} : runs'[t] = IdleRun
    BY <1>1, <1>9, GotoOK DEF Clobbers, Gathered, Busy, Phases
  <2>2. ServedIsWhole'
    BY <1>9 DEF Clobbers, WholeInv, ServedIsWhole, Typed, ServedOK
  <2> QED  BY <2>1, <2>2, GatherOne DEF WholeInv
<1>10. CASE UploadFeed(s)
  <2>1. ServedIsWhole'
    BY <1>2, <1>3, <1>10 DEF UploadFeed, Bases
  <2> QED  BY <1>1, <1>10, <2>1, EndsOK DEF UploadFeed, Busy, WholeInv, GatherInv
<1>11. CASE Stops(s)
  BY <1>1, <1>2, <1>11, EndsOK DEF Stops, Busy, WholeInv, GatherInv
<1>12. CASE Begin(s)
  <2>1. Gathered(Started(pending))
    BY StartedOK DEF Gathered, Typed
  <2> QED  BY <1>2, <1>12, <2>1, BeginOK, GatherOne DEF Begin, WholeInv
<1> QED  BY <1>4, <1>5, <1>6, <1>7, <1>8, <1>9, <1>10, <1>11, <1>12, RunSteps

LEMMA TriggerWhole ==
  ASSUME Typed, WholeInv, NEW kind \in {"sign", "audit"}, Trigger(kind), UNCHANGED served
  PROVE  WholeInv'
<1>1. Gathered(Started(kind))
  BY StartedOK DEF Gathered, Typed
<1> QED  BY <1>1, Triggered DEF WholeInv, GatherInv, ServedIsWhole, Typed, RunsOK

LEMMA TickWhole == ASSUME Typed, WholeInv, Tick PROVE WholeInv'
<1>1. GatherInv'
  BY Ticked DEF WholeInv, GatherInv, Gathered
<1>2. ASSUME NEW b \in Bases, served'[b] # Absent
      PROVE  Whole(served'[b])
  <2>1. served[b] \in Manifest
    BY <1>2, Ticked DEF Typed, ServedOK, Aged
  <2>2. /\ served'[b].kinds = served[b].kinds /\ served'[b].version = served[b].version
        /\ served'[b].config = served[b].config
    BY <2>1, Ticked, Constants DEF Manifest
  <2> QED  BY <2>1, <2>2, Constants DEF WholeInv, ServedIsWhole, Whole
<1> QED  BY <1>1, <1>2 DEF WholeInv, ServedIsWhole, Whole

LEMMA WholeHolds == Spec => []WholeInv
<1>1. Typed /\ WholeInv /\ [Next]_vars => WholeInv'
  <2> SUFFICES ASSUME Typed, WholeInv, [Next]_vars PROVE WholeInv'
    OBVIOUS
  <2>1. UNCHANGED <<runs, served>> => WholeInv'
    BY DEF WholeInv, GatherInv, ServedIsWhole
  <2>2. ASSUME NEW c \in Components, NEW k \in Kinds, Upload(c, k) PROVE WholeInv'
    BY <2>1, <2>2, TriggerWhole DEF Upload
  <2>3. CASE Heartbeat \/ Audit
    BY <2>1, <2>3, TriggerWhole DEF Heartbeat, Audit
  <2>4. CASE Tick
    BY <2>4, TickWhole
  <2>5. CASE \E s \in Slots : RunStep(s)
    BY <2>5, RunStepWhole
  <2> QED  BY <2>1, <2>2, <2>3, <2>4, <2>5
           DEF Next, Releasing, Cut, Remove, MergeConfig, HostStep, FetchFails, Accept, Refuse,
               Polls, vars
<1> QED  BY <1>1, WholeInitially, TypedHolds, PTL DEF Spec

\* The feed's type, for any components, floors and periods; a manifest that is
\* published has something of every component.
THEOREM FeedTyped == Spec => []TypeOK
<1>1. Typed /\ WholeInv => TypeOK
  <2> SUFFICES ASSUME Typed, WholeInv PROVE TypeOK
    OBVIOUS
  <2>1. ASSUME NEW c \in Components
        PROVE  /\ release[c].version \in Versions /\ release[c].next \in Versions
               /\ release[c].files \subseteq Versions \X Ships[c]
               /\ \E v \in Versions : release[c].files \subseteq {v} \X Ships[c]
    BY DEF Typed, ReleasesOK, Releases
  <2>2. ASSUME NEW s \in Slots
        PROVE  /\ runs[s].at \in Phases
               /\ runs[s].at = "idle" <=> runs[s] = IdleRun
               /\ runs[s].age \in 0..MaxRun /\ runs[s].generated \in 0..Now
               /\ runs[s].got \in [Components -> SUBSET Kinds]
    BY IdleRunOK DEF Typed, RunsOK, RunRec, Busy
  <2>3. ASSUME NEW s \in Slots, runs[s].at \in {"s3", "clobber", "upload"}
        PROVE  runs[s].got \in [Components -> (SUBSET Kinds) \ {{}}]
    BY <2>2, <2>3 DEF WholeInv, GatherInv, Gathered, Covers
  <2>4. served["primary"] \in Manifest /\ served["fallback"] \in Manifest \cup {Absent}
    BY DEF Typed, ServedOK, Bases
  <2>5. host.marks \in TrustState /\ host.base \in Bases
    BY DEF Typed, Hosts
  <2> QED  BY <2>1, <2>2, <2>3, <2>4, <2>5 DEF TypeOK, Typed, Phases
<1> QED  BY <1>1, TypedHolds, WholeHolds, PTL

\* No feed is made of a release that is still being put up, whatever fails and
\* whenever: what a base serves has every component for every platform it must,
\* at no build below the floor beside it.
THEOREM ServedWhole == Spec => []ServedIsWhole
BY WholeHolds, PTL DEF WholeInv

-----------------------------------------------------------------------------
(* OrderInv.                                                                 *)

LEMMA OrderInitially == Init => OrderInv
<1> SUFFICES ASSUME Init PROVE OrderInv
  OBVIOUS
<1>1. host.marks.sequence = 0 /\ \A s \in Slots : ~Stamped(s)
  BY IdleRunOK DEF Init, Initial, Stamped
<1>2. served[host.from].generated \in Nat
  BY Constants DEF Init, First, Bases
<1> QED  BY <1>1, <1>2, Constants DEF OrderInv

\* What is kept is kept as a number.
LEMMA Numbers ==
  ASSUME Typed
  PROVE  /\ host.marks.sequence \in Nat /\ host.from \in Bases /\ host.base \in Bases
         /\ \A s \in Slots : runs[s].generated \in 0..Now /\ runs[s].age \in 0..MaxRun
         /\ \A b \in Bases : served[b] # Absent =>
              served[b] \in Manifest /\ served[b].generated \in 0..Now
<1>1. host.marks \in TrustState /\ host.from \in Bases /\ host.base \in Bases
  BY DEF Typed, Hosts
<1>2. \A s \in Slots : runs[s] \in RunRec
  BY DEF Typed, RunsOK
<1>3. \A b \in Bases : served[b] # Absent => served[b] \in Manifest
  BY DEF Typed, ServedOK
<1> QED  BY <1>1, <1>2, <1>3 DEF TrustState, RunRec, Manifest

\* A run that is not at a timestamp yet, or any more, asks nothing.
LEMMA OrderUnstamped ==
  ASSUME OrderInv, UNCHANGED <<served, host>>,
         \A s \in Slots : runs'[s] = runs[s] \/ ~Stamped(s)'
  PROVE  OrderInv'
BY DEF OrderInv, Stamped

\* The one run under way keeps its timestamp; a base may publish its feed.
LEMMA OrderOne ==
  ASSUME Typed, OrderInv, UNCHANGED host, NEW s \in Slots, Stamped(s),
         \A t \in Slots \ {s} : runs'[t] = IdleRun,
         runs'[s].generated = runs[s].generated \/ runs'[s] = IdleRun,
         \A b \in Bases : \/ served'[b] = served[b] \/ served'[b] = Absent
                         \/ served'[b].generated = runs[s].generated
  PROVE  OrderInv'
<1>1. \A t \in Slots : Stamped(t)' => t = s /\ runs'[s].generated = runs[s].generated
  BY IdleRunOK DEF Stamped
<1>2. /\ host.marks.sequence <= runs[s].generated
      /\ \A b \in Bases : served[b] # Absent => served[b].generated <= runs[s].generated
  BY DEF OrderInv
<1>3. \A b \in Bases : served'[b] # Absent => served'[b].generated <= runs[s].generated
  BY <1>2, Numbers
<1>4. served'[host.from] # Absent => host.marks.sequence <= served'[host.from].generated
  BY <1>2, Numbers DEF OrderInv
<1> QED  BY <1>1, <1>2, <1>3, <1>4 DEF OrderInv

LEMMA RunStepOrder ==
  ASSUME Typed, OrderInv, NEW s \in Slots, RunStep(s)
  PROVE  OrderInv'
<1>1. CASE Drops(s)
  BY <1>1, EndsOK, IdleRunOK, OrderUnstamped DEF Drops, Fails, Stays, Stamped
<1>2. CASE Stamps(s)
  <2>1. /\ \A t \in Slots : Stamped(t)' => runs'[t].generated = Now
    BY <1>2, StampOK, IdleRunOK DEF Stamped
  <2>2. \A b \in Bases : served[b] # Absent => served[b].generated <= Now
    BY Numbers, Constants
  <2> QED  BY <1>2, <2>1, <2>2 DEF Stamps, Stays, OrderInv
<1>3. CASE GoesOn(s)
  BY <1>3, GotoOK, OrderOne DEF GoesOn, Stays, Stamped, Busy, Phases
<1>4. ASSUME NEW c \in Components, NEW v \in ResolvedVersions(c), Finds(s, c, v)
      PROVE  OrderInv'
  BY <1>4, FindsOK, OrderOne DEF Finds, Stays, Stamped
<1>5. CASE PublishPrimary(s)
  <2>1. Stamped(s) /\ Busy(s)
    BY <1>5 DEF PublishPrimary, Stamped, Busy
  <2>2. \A b \in Bases : served'[b] = served[b] \/ served'[b] = Signed(runs[s])
    BY <1>5 DEF PublishPrimary, Typed, ServedOK
  <2> QED  BY <1>5, <2>1, <2>2, SignedOK, GotoOK, OrderOne DEF PublishPrimary, Stays, Phases
<1>6. CASE Clobbers(s)
  <2>1. Stamped(s) /\ Busy(s)
    BY <1>6 DEF Clobbers, Stamped, Busy
  <2>2. \A b \in Bases : served'[b] = served[b] \/ served'[b] = Absent
    BY <1>6 DEF Clobbers, Typed, ServedOK
  <2> QED  BY <1>6, <2>1, <2>2, GotoOK, OrderOne DEF Clobbers, Stays, Phases
<1>7. CASE UploadFeed(s)
  <2>1. Stamped(s) /\ Busy(s)
    BY <1>7 DEF UploadFeed, Stamped, Busy
  <2>2. \A b \in Bases : served'[b] = served[b] \/ served'[b] = Signed(runs[s])
    BY <1>7 DEF UploadFeed, Typed, ServedOK
  <2> QED  BY <1>7, <2>1, <2>2, SignedOK, EndsOK, OrderOne DEF UploadFeed, Stays
<1>8. CASE Stops(s)
  <2>1. Busy(s)
    BY <1>8 DEF Stops, Busy
  <2> QED  BY <1>8, <2>1, EndsOK, IdleRunOK, OrderUnstamped DEF Stops, Stays, Stamped
<1>9. CASE Begin(s)
  <2>1. Started(pending).at \in {"doctor", "audit"}
    BY StartedOK DEF Typed
  <2> QED  BY <1>9, <2>1, BeginOK, IdleRunOK, OrderUnstamped DEF Begin, Stamped
<1> QED  BY <1>1, <1>2, <1>3, <1>4, <1>5, <1>6, <1>7, <1>8, <1>9, RunSteps

LEMMA TriggerOrder ==
  ASSUME Typed, OrderInv, NEW kind \in {"sign", "audit"}, Trigger(kind), UNCHANGED <<served, host>>
  PROVE  OrderInv'
<1>1. Started(kind).at \in {"doctor", "audit"}
  BY StartedOK DEF Typed
<1> QED  BY <1>1, Triggered, OrderUnstamped DEF Typed, RunsOK, Stamped

LEMMA TickOrder == ASSUME Typed, OrderInv, Tick PROVE OrderInv'
<1>1. host.marks.sequence \in 0..Now
  BY Numbers, Constants DEF OrderInv
<1>2. host'.marks.sequence = Earlier(host.marks.sequence) /\ host'.from = host.from
  BY DEF Tick, Typed, Hosts, TrustState
<1>3. \A b \in Bases : served'[b] # Absent =>
        served[b] # Absent /\ served'[b].generated = Earlier(served[b].generated)
  BY Ticked, Numbers DEF Aged, Manifest
<1>4. \A s \in Slots : Stamped(s)' =>
        Stamped(s) /\ runs'[s].generated = Earlier(runs[s].generated)
  BY Ticked DEF Stamped, Busy
<1>5. \A t, u \in 0..Now : t <= u => Earlier(t) <= Earlier(u)
  BY EarlierOK
<1>6. Earlier(host.marks.sequence) <= Now
  <2>1. Earlier(host.marks.sequence) \in 0..Now
    BY <1>1, EarlierOK
  <2> QED  BY <2>1, Constants
<1> QED  BY <1>1, <1>2, <1>3, <1>4, <1>5, <1>6, Numbers DEF OrderInv

LEMMA HostOrder == ASSUME Typed, OrderInv, HostStep PROVE OrderInv'
<1>1. CASE FetchFails \/ Refuse
  <2>1. host'.marks = host.marks /\ host'.from = host.from
    BY <1>1 DEF FetchFails, Refuse, Typed, Hosts
  <2> QED  BY <1>1, <2>1 DEF FetchFails, Refuse, Polls, OrderInv, Stamped
<1>2. CASE Accept
  <2>1. served[host.base] # Absent /\ served[host.base] \in Manifest
        /\ served[host.base].generated \in 0..Now
    BY <1>2, Numbers DEF Accept, Answered
  <2>2. host.marks.sequence <= served[host.base].generated
    BY <1>2, <2>1, Numbers, ReceivedOK DEF Accept, Answer, Accepts, VerifyFreshness
  <2>3. /\ host'.from = host.base
        /\ host'.marks.sequence = served[host.base].generated
    <3>1. host'.from = host.base /\ host'.marks = Advance(host.marks, Answer)
      BY <1>2 DEF Accept, Typed, Hosts
    <3>2. Advance(host.marks, Answer).sequence = Larger(host.marks.sequence, served[host.base].generated)
      BY <2>1, ReceivedOK DEF Advance, Answer
    <3> QED  BY <2>1, <2>2, <3>1, <3>2, Numbers, Constants DEF Larger
  <2> QED  BY <1>2, <2>1, <2>3, Numbers, Constants DEF Accept, Polls, OrderInv, Stamped
<1> QED  BY <1>1, <1>2 DEF HostStep

LEMMA OrderHolds == Spec => []OrderInv
<1>1. Typed /\ OrderInv /\ [Next]_vars => OrderInv'
  <2> SUFFICES ASSUME Typed, OrderInv, [Next]_vars PROVE OrderInv'
    OBVIOUS
  <2>1. UNCHANGED <<runs, served, host>> => OrderInv'
    BY DEF OrderInv, Stamped
  <2>2. ASSUME NEW c \in Components, NEW k \in Kinds, Upload(c, k) PROVE OrderInv'
    BY <2>1, <2>2, TriggerOrder DEF Upload
  <2>3. CASE Heartbeat \/ Audit
    BY <2>1, <2>3, TriggerOrder DEF Heartbeat, Audit
  <2>4. CASE Tick
    BY <2>4, TickOrder
  <2>5. CASE HostStep
    BY <2>5, HostOrder
  <2>6. CASE \E s \in Slots : RunStep(s)
    BY <2>6, RunStepOrder
  <2> QED  BY <2>1, <2>2, <2>3, <2>4, <2>5, <2>6
           DEF Next, Releasing, Cut, Remove, MergeConfig, vars
<1> QED  BY <1>1, OrderInitially, TypedHolds, PTL DEF Spec

\* A host is told of a rollback only by the base it does not have its marks
\* from: each base publishes in the order of the timestamps, whichever runs are
\* lost and whichever uploads fail.
THEOREM PublishedInOrder == Spec => []NoBaseGoesBack
<1>1. Typed /\ OrderInv => NoBaseGoesBack
  <2> SUFFICES ASSUME Typed, OrderInv, Refuses, Answer.sequence < host.marks.sequence,
                      host.from = host.base
               PROVE  FALSE
    BY DEF NoBaseGoesBack
  <2>1. served[host.base] # Absent /\ served[host.base] \in Manifest
    BY Numbers DEF Refuses, Answered
  <2>2. Answer.sequence = served[host.base].generated
    BY <2>1, ReceivedOK DEF Answer
  <2> QED  BY <2>1, <2>2, Numbers, Constants DEF OrderInv
<1> QED  BY <1>1, TypedHolds, OrderHolds, PTL

-----------------------------------------------------------------------------
(* FreshInv.                                                                 *)

LEMMA Ages ==
  ASSUME Typed
  PROVE  /\ since \in 0..Period /\ Period \in Nat /\ MaxRun \in Nat
         /\ PrimaryAge \in 0..Now
         /\ \A s \in Slots : Age(runs[s].generated) \in 0..Now /\ runs[s].age \in 0..MaxRun
<1>1. served["primary"].generated \in 0..Now
  BY Numbers DEF Typed, ServedOK, Bases
<1>2. \A t \in 0..Now : Age(t) \in 0..Now
  BY Constants DEF Age
<1> QED  BY <1>1, <1>2, Numbers, Constants DEF Typed, PrimaryAge

LEMMA FreshInitially == Init => FreshInv
<1> SUFFICES ASSUME Init PROVE FreshInv
  OBVIOUS
<1>1. \A s \in Slots : ~Stamped(s)
  BY IdleRunOK DEF Init, Stamped
<1>2. PrimaryAge = 0 /\ since = 0
  BY Constants DEF Init, First, Bases, PrimaryAge, Age
<1> QED  BY <1>1, <1>2 DEF FreshInv, StampInv, Fresh

LEMMA FreeMeans ==
  ASSUME Typed
  PROVE  /\ Free => \A s \in Slots : ~Busy(s) /\ ~Stamped(s) /\ ~Signing(s)
         /\ \A s, t \in Slots : Busy(s) /\ s # t => ~Busy(t) /\ ~Stamped(t) /\ ~Signing(t)
BY DEF Typed, RunsOK, Free, Busy, Stamped, Signing

\* A trigger that has no due heartbeat behind it: what waits is the same, or a
\* signing run.
LEMMA TriggerFresh ==
  ASSUME Typed, FreshInv, NEW kind \in {"sign", "audit"}, Trigger(kind),
         kind = "audit" => pending # "sign", UNCHANGED <<since, served, lost>>
  PROVE  FreshInv'
<1>1. ASSUME Free, pending = "none", pending' = pending,
             NEW s \in Slots, runs' = [runs EXCEPT ![s] = Started(kind)]
      PROVE  FreshInv'
  <2>1. \A t \in Slots : ~Stamped(t)'
    <3>1. Started(kind).at \in {"doctor", "audit"}
      BY StartedOK DEF Typed
    <3> QED  BY <1>1, <3>1, FreeMeans DEF Typed, RunsOK, Stamped
  <2>2. lost.served = 0 => PrimaryAge <= since
    BY <1>1, FreeMeans DEF FreshInv, Fresh, Waits, Signs
  <2> QED  BY <2>1, <2>2 DEF FreshInv, StampInv, Fresh, PrimaryAge
<1>2. ASSUME pending' = kind, runs' = runs
      PROVE  FreshInv'
  <2>1. Waits(PrimaryAge) => Waits(PrimaryAge)'
    BY <1>2 DEF Waits, Free, Busy, PrimaryAge
  <2>2. Signs(PrimaryAge) => Signs(PrimaryAge)'
    BY <1>2 DEF Signs, Signing, PrimaryAge
  <2>3. PrimaryAge <= since => (PrimaryAge <= since)'
    BY DEF PrimaryAge
  <2>4. StampInv'
    BY <1>2 DEF FreshInv, StampInv, Stamped
  <2> QED  BY <2>1, <2>2, <2>3, <2>4 DEF FreshInv, Fresh
<1> QED  BY <1>1, <1>2, Triggered

LEMMA LostFresh ==
  ASSUME Typed, FreshInv, Lose, \/ runs' = runs
                               \/ \A s \in Slots : runs'[s] = IdleRun
  PROVE  FreshInv'
<1>1. lost'.served # 0 /\ lost'.signed # 0
  BY LoseOK
<1>2. StampInv'
  <2>1. CASE runs' = runs
    BY <1>1, <2>1 DEF FreshInv, StampInv, Stamped
  <2>2. CASE \A s \in Slots : runs'[s] = IdleRun
    BY <2>2, IdleRunOK DEF StampInv, Stamped
  <2> QED  BY <2>1, <2>2
<1> QED  BY <1>1, <1>2 DEF FreshInv

LEMMA HeartbeatFreshStep == ASSUME Typed, FreshInv, Heartbeat PROVE FreshInv'
<1>1. CASE Lose /\ UNCHANGED runs
  BY <1>1, LostFresh
<1>2. CASE Trigger("sign") /\ UNCHANGED lost
  <2>1. since = Period /\ UNCHANGED served
    BY DEF Heartbeat
  <2>2. ASSUME Free, pending = "none",
               NEW s \in Slots, runs' = [runs EXCEPT ![s] = Started("sign")]
        PROVE  FreshInv'
    <3>1. runs'[s] = Started("sign") /\ \A t \in Slots \ {s} : runs'[t] = runs[t]
      BY <2>2 DEF Typed, RunsOK
    <3>2. Started("sign").at = "doctor" /\ Started("sign").age = 0
      BY StartedOK DEF Typed
    <3>3. \A t \in Slots : ~Stamped(t)'
      BY <2>2, <3>1, <3>2, FreeMeans DEF Stamped
    <3>4. lost.served = 0 => PrimaryAge <= Period
      BY <2>1, <2>2, FreeMeans DEF FreshInv, Fresh, Waits, Signs
    <3>5. lost.served = 0 => Signs(PrimaryAge)'
      BY <2>1, <3>1, <3>2, <3>4, Ages DEF Signs, Signing, PrimaryAge
    <3> QED  BY <1>2, <3>3, <3>5 DEF FreshInv, StampInv, Fresh
  <2>3. ASSUME pending' = "sign", runs' = runs
        PROVE  FreshInv'
    <3>1. PrimaryAge' = PrimaryAge
      BY <2>1 DEF PrimaryAge
    <3>2. PrimaryAge <= since \/ Waits(PrimaryAge) => Waits(PrimaryAge)'
      BY <2>1, <2>3, <3>1, Ages DEF Waits, Free, Busy
    <3>3. Signs(PrimaryAge) => Signs(PrimaryAge)'
      BY <2>3, <3>1 DEF Signs, Signing
    <3>4. StampInv'
      BY <2>3 DEF FreshInv, StampInv, Stamped
    <3> QED  BY <1>2, <3>2, <3>3, <3>4 DEF FreshInv, Fresh
  <2> QED  BY <1>2, <2>2, <2>3, Triggered
<1> QED  BY <1>1, <1>2 DEF Heartbeat

LEMMA AuditFresh == ASSUME Typed, FreshInv, Audit PROVE FreshInv'
<1>1. CASE pending = "sign"
  BY <1>1, Triggered, LostFresh DEF Audit
<1>2. CASE pending # "sign"
  BY <1>2, TriggerFresh DEF Audit
<1> QED  BY <1>1, <1>2

LEMMA TickFresh == ASSUME Typed, FreshInv, Tick PROVE FreshInv'
<1>1. since' = since + 1 /\ UNCHANGED <<pending, lost>> /\ (Free => pending = "none")
  BY DEF Tick, history
<1>2. PrimaryAge' <= PrimaryAge + 1 /\ PrimaryAge' \in Int
  <2>1. served["primary"] # Absent /\ served["primary"] \in Manifest /\ "primary" \in Bases
    BY Numbers DEF Typed, ServedOK, Bases
  <2>2. served'["primary"].generated = Earlier(served["primary"].generated)
    BY <2>1, Ticked DEF Manifest
  <2>3. \A t \in 0..Now : Age(Earlier(t)) <= Age(t) + 1 /\ Age(Earlier(t)) \in 0..Now
    BY EarlierOK
  <2> QED  BY <2>1, <2>2, <2>3, Numbers DEF PrimaryAge
<1>3. \A s \in Slots :
        /\ runs'[s].at = runs[s].at
        /\ Busy(s) => /\ runs'[s].age = runs[s].age + 1
                      /\ Age(runs'[s].generated) \in Int
                      /\ Age(runs'[s].generated) <= Age(runs[s].generated) + 1
  <2>1. \A t \in 0..Now : Age(Earlier(t)) <= Age(t) + 1 /\ Age(Earlier(t)) \in 0..Now
    BY EarlierOK
  <2> QED  BY <2>1, Ticked, Numbers
<1>4. StampInv'
  BY <1>1, <1>3, Ages DEF FreshInv, StampInv, Stamped, Busy
<1>5. PrimaryAge <= since => (PrimaryAge <= since)'
  BY <1>1, <1>2, Ages
<1>6. Waits(PrimaryAge) => Waits(PrimaryAge)'
  BY <1>1, <1>2, <1>3, Ages DEF Waits, Free, Busy
<1>7. Signs(PrimaryAge) => Signs(PrimaryAge)'
  BY <1>2, <1>3, Ages DEF Signs, Signing, Busy
<1> QED  BY <1>1, <1>4, <1>5, <1>6, <1>7 DEF FreshInv, Fresh

\* A run that goes on towards the primary keeps its promise.
LEMMA SigningFresh ==
  ASSUME Typed, FreshInv, UNCHANGED <<since, pending, served>>, lost'.served = lost.served,
         NEW s \in Slots, Signing(s), Signing(s)', runs'[s].age = runs[s].age,
         \A t \in Slots \ {s} : runs'[t] = IdleRun
  PROVE  lost'.served = 0 => Fresh(PrimaryAge)'
<1>1. PrimaryAge' = PrimaryAge /\ ~Free' /\ \A t \in Slots : Busy(t)' <=> t = s
  BY IdleRunOK DEF PrimaryAge, Free, Busy, Signing
<1>2. Waits(PrimaryAge) => Waits(PrimaryAge)'
  BY <1>1 DEF Waits, Busy, Signing
<1>3. Signs(PrimaryAge) => Signs(PrimaryAge)'
  BY <1>1, FreeMeans DEF Signs, Busy, Signing
<1> QED  BY <1>1, <1>2, <1>3 DEF FreshInv, Fresh

\* A timestamp that is kept stays what it was.
LEMMA StampKept ==
  ASSUME Typed, FreshInv, UNCHANGED <<since, pending>>, lost'.signed = 0 => lost.signed = 0,
         NEW s \in Slots, Stamped(s), runs'[s].age = runs[s].age,
         runs'[s].generated = runs[s].generated, \A t \in Slots \ {s} : runs'[t] = IdleRun
  PROVE  StampInv'
BY IdleRunOK DEF FreshInv, StampInv, Stamped

\* The end of a run that is not on its way to the primary.
LEMMA EndsFresh ==
  ASSUME Typed, FreshInv, UNCHANGED <<since, pending, lost>>, served'["primary"] = served["primary"],
         NEW s \in Slots, Busy(s), ~Signing(s), \A t \in Slots : runs'[t] = IdleRun
  PROVE  FreshInv'
<1>1. PrimaryAge' = PrimaryAge /\ \A t \in Slots : ~Stamped(t)' /\ ~Busy(t)'
  BY IdleRunOK DEF PrimaryAge, Stamped, Busy
<1>2. ~Signs(PrimaryAge)
  BY FreeMeans DEF Signs
<1>3. Waits(PrimaryAge) => Waits(PrimaryAge)'
  BY <1>1, Ages DEF Waits
<1> QED  BY <1>1, <1>2, <1>3 DEF FreshInv, StampInv, Fresh

LEMMA RunStepFresh ==
  ASSUME Typed, FreshInv, NEW s \in Slots, RunStep(s)
  PROVE  FreshInv'
<1>1. CASE Drops(s)
  BY <1>1, EndsOK, LostFresh DEF Drops, Fails
<1>2. CASE Stamps(s)
  <2>1. Signing(s) /\ Signing(s)' /\ lost'.served = lost.served
    BY <1>2, StampOK DEF Stamps, Signing, Typed
  <2>2. StampInv'
    <3>1. \A t \in Slots : Stamped(t)' => t = s
      BY <1>2, StampOK, IdleRunOK DEF Stamped
    <3>2. Age(runs'[s].generated) = 0 /\ runs'[s].age \in Nat /\ since' \in Nat
      BY <1>2, StampOK, Ages, Constants DEF Age, Stamps, Stays
    <3> QED  BY <3>1, <3>2 DEF StampInv
  <2> QED  BY <1>2, <2>1, <2>2, StampOK, SigningFresh DEF Stamps, Stays, FreshInv
<1>3. CASE GoesOn(s)
  <2>1. /\ Signing(s) /\ Signing(s)' /\ Stamped(s) /\ runs'[s].age = runs[s].age
        /\ runs'[s].generated = runs[s].generated /\ \A t \in Slots \ {s} : runs'[t] = IdleRun
    BY <1>3, GotoOK DEF GoesOn, Signing, Stamped, Busy, Phases
  <2> QED  BY <1>3, <2>1, SigningFresh, StampKept DEF GoesOn, Stays, FreshInv
<1>4. ASSUME NEW c \in Components, NEW v \in ResolvedVersions(c), Finds(s, c, v)
      PROVE  FreshInv'
  <2>1. Signing(s) /\ Signing(s)' /\ Stamped(s)
    BY <1>4, FindsOK DEF Finds, Signing, Stamped
  <2> QED  BY <1>4, <2>1, FindsOK, SigningFresh, StampKept DEF Finds, Stays, FreshInv
<1>5. CASE PublishPrimary(s)
  <2>1. /\ Stamped(s) /\ Busy(s) /\ runs'[s].age = runs[s].age /\ runs'[s].at = "clobber"
        /\ runs'[s].generated = runs[s].generated /\ \A t \in Slots \ {s} : runs'[t] = IdleRun
    BY <1>5, GotoOK DEF PublishPrimary, Stamped, Busy, Phases
  <2>2. CASE Lose
    <3>1. lost'.served # 0 /\ lost'.signed # 0
      BY <2>2, LoseOK
    <3> QED  BY <1>5, <2>1, <3>1, StampKept DEF PublishPrimary, Stays, FreshInv
  <2>3. CASE /\ served' = [served EXCEPT !["primary"] = Signed(runs[s])]
             /\ lost' = [lost EXCEPT !.served = lost.signed]
    <3>1. lost'.served = lost.signed /\ lost'.signed = lost.signed
      BY <2>3 DEF Typed
    <3>2. PrimaryAge' = Age(runs[s].generated)
      BY <2>3, SignedOK DEF PrimaryAge, Typed, ServedOK, Bases
    <3>3. UNCHANGED <<since, pending>>
      BY <1>5 DEF PublishPrimary, Stays
    <3>4. \A t \in Slots : Busy(t)' <=> t = s
      BY <2>1, IdleRunOK DEF Busy
    <3>5. pending = "sign" => Waits(PrimaryAge)'
      <4>1. Age(runs[s].generated) <= Period + runs[s].age
        BY <2>1, Ages DEF FreshInv, StampInv
      <4> QED  BY <2>1, <3>2, <3>3, <3>4, <4>1 DEF Waits, Free, Busy
    <3>6. lost'.served = 0 => Fresh(PrimaryAge)'
      BY <2>1, <3>1, <3>2, <3>3, <3>5 DEF FreshInv, StampInv, Fresh
    <3> QED  BY <2>1, <3>1, <3>3, <3>6, StampKept DEF FreshInv
  <2> QED  BY <1>5, <2>2, <2>3 DEF PublishPrimary
<1>6. CASE Clobbers(s)
  <2>1. /\ Stamped(s) /\ Busy(s) /\ ~Signing(s) /\ runs'[s].age = runs[s].age
        /\ runs'[s].at = "upload" /\ runs'[s].generated = runs[s].generated
        /\ \A t \in Slots \ {s} : runs'[t] = IdleRun
    BY <1>6, GotoOK DEF Clobbers, Stamped, Signing, Busy, Phases
  <2>2. PrimaryAge' = PrimaryAge /\ UNCHANGED <<since, pending, lost>>
    BY <1>6 DEF Clobbers, Stays, PrimaryAge, Typed, ServedOK
  <2>3. \A t \in Slots : Busy(t)' <=> t = s
    BY <2>1, IdleRunOK DEF Busy
  <2>4. ~Signs(PrimaryAge)
    BY <2>1, FreeMeans DEF Signs
  <2>5. Waits(PrimaryAge) => Waits(PrimaryAge)'
    BY <2>1, <2>2, <2>3 DEF Waits, Free, Busy
  <2> QED  BY <2>1, <2>2, <2>4, <2>5, StampKept DEF FreshInv, Fresh
<1>7. CASE UploadFeed(s)
  <2>1. Busy(s) /\ ~Signing(s) /\ served'["primary"] = served["primary"]
    BY <1>7 DEF UploadFeed, Busy, Signing, Typed, ServedOK, Bases
  <2> QED  BY <1>7, <2>1, EndsOK, EndsFresh DEF UploadFeed, Stays
<1>8. CASE Stops(s)
  BY <1>8, EndsOK, EndsFresh DEF Stops, Stays, Busy, Signing
<1>9. CASE Begin(s)
  <2>1. UNCHANGED <<since, served, lost>> /\ PrimaryAge' = PrimaryAge
    BY <1>9 DEF Begin, history, PrimaryAge
  <2>2. /\ runs'[s].at = IF pending = "sign" THEN "doctor" ELSE "audit"
        /\ runs'[s].age = 0
    BY <1>9, BeginOK, StartedOK DEF Typed
  <2>3. \A t \in Slots : ~Stamped(t)'
    BY <1>9, <2>2, BeginOK, IdleRunOK DEF Stamped
  <2>4. Waits(PrimaryAge) => Signs(PrimaryAge)'
    BY <1>9, <2>1, <2>2, BeginOK, Ages DEF Waits, Signs, Signing
  <2>5. ~Signs(PrimaryAge)
    BY <1>9, BeginOK, FreeMeans DEF Signs
  <2> QED  BY <2>1, <2>3, <2>4, <2>5 DEF FreshInv, StampInv, Fresh
<1> QED  BY <1>1, <1>2, <1>3, <1>4, <1>5, <1>6, <1>7, <1>8, <1>9, RunSteps

LEMMA FreshHolds == Spec => []FreshInv
<1>1. Typed /\ FreshInv /\ [Next]_vars => FreshInv'
  <2> SUFFICES ASSUME Typed, FreshInv, [Next]_vars PROVE FreshInv'
    OBVIOUS
  <2>1. UNCHANGED <<since, pending, runs, served, lost>> => FreshInv'
    BY DEF FreshInv, StampInv, Stamped, Fresh, Waits, Free, Busy, Signs, Signing, PrimaryAge
  <2>2. ASSUME NEW c \in Components, NEW k \in Kinds, Upload(c, k) PROVE FreshInv'
    BY <2>1, <2>2, TriggerFresh DEF Upload
  <2>3. CASE Heartbeat
    BY <2>3, HeartbeatFreshStep
  <2>4. CASE Audit
    BY <2>4, AuditFresh
  <2>5. CASE Tick
    BY <2>5, TickFresh
  <2>6. CASE \E s \in Slots : RunStep(s)
    BY <2>6, RunStepFresh
  <2> QED  BY <2>1, <2>2, <2>3, <2>4, <2>5, <2>6
           DEF Next, Releasing, Cut, Remove, MergeConfig, HostStep, FetchFails, Accept, Refuse,
               Polls, history, vars
<1> QED  BY <1>1, FreshInitially, TypedHolds, PTL DEF Spec

\* Where a period, and two runs one behind the other, fit in the lifetime of a
\* manifest, the primary's feed expires only after a signing run was lost.
THEOREM PrimaryFresh ==
  ASSUME Period + 2 * MaxRun <= TTL
  PROVE  Spec => []HeartbeatKeepsItFresh
<1>1. Typed /\ FreshInv => HeartbeatKeepsItFresh
  <2> SUFFICES ASSUME Typed, FreshInv, Expired("primary"), lost.served < 1
               PROVE  FALSE
    BY DEF HeartbeatKeepsItFresh, Typed
  <2>1. lost.served = 0
    BY DEF Typed
  <2>2. PrimaryAge > TTL
    BY Numbers, Constants DEF Expired, PrimaryAge, Age, Bases
  <2>3. PrimaryAge <= since => PrimaryAge <= Period
    BY Ages
  <2>4. Waits(PrimaryAge) => PrimaryAge <= Period + MaxRun
    BY Ages DEF Waits, Free, Busy
  <2>5. Signs(PrimaryAge) => PrimaryAge <= Period + 2 * MaxRun
    BY Ages DEF Signs
  <2> QED  BY <2>1, <2>2, <2>3, <2>4, <2>5, Ages, Constants DEF FreshInv, Fresh
<1> QED  BY <1>1, TypedHolds, FreshHolds, PTL
=============================================================================
