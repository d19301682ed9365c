--------------------------- MODULE UpdatePassProofs ---------------------------
(***************************************************************************)
(* What holds of UpdatePass for every catalog, feed, host and bound.  First  *)
(* its types and the floor; then what a pass comes to: what a result says of *)
(* the disk (a rollback puts the whole set back; a component reported        *)
(* skipped, held or refused has not been touched; one reported installed is  *)
(* whole, one deferred has lost nothing), what becomes of the services (one  *)
(* that was stopped is started again whatever becomes of the replace) and of *)
(* the last-known-good cache (what it holds is what a rollback needs, at its *)
(* true age), when the marks move, that a pass of another feed leaves no     *)
(* trace, and that the beacon replaces itself last.                          *)
(***************************************************************************)
EXTENDS UpdatePass, TLAPS

-----------------------------------------------------------------------------
(* Facts about the constants and the operators.                              *)

\* A manifest of any feed has the fields the pass reads.
LEMMA ManifestType ==
  ASSUME NEW m \in Manifests \cup Foreign
  PROVE  /\ m \in SignedManifest /\ m # NoManifest
         /\ m.build \in [Components -> Nat] /\ m.floor \in Nat
BY FeedAssumption DEF SignedManifest

LEMMA SlotType == 1 \in Slot /\ Slot \subseteq Nat \ {0}
BY CatalogAssumption DEF Slot

\* The empty values an idle host holds are of the right type.
LEMMA EmptyType ==
  /\ EmptySnap \in [Slot -> Nat] /\ NoBuilds \in [Components -> Nat]
  /\ Nothing \in [Components -> Outcomes] /\ InitDisk \in Disk
  /\ Beacon \in Components
BY CatalogAssumption, HostAssumption DEF EmptySnap, NoBuilds, Nothing, Outcomes, None

LEMMA PlanType ==
  ASSUME TypeOK, NEW m \in Manifests \cup Foreign
  PROVE  /\ [c \in Components |-> InstalledBuild(c, m.build[c])] \in [Components -> Nat]
         /\ Acting(m) \subseteq Components
         /\ Planning(m) \in [Components -> Outcomes]
<1>1. ASSUME NEW c \in Components PROVE InstalledBuild(c, m.build[c]) \in Nat
  BY <1>1, ManifestType, SlotType DEF InstalledBuild, TypeOK, HostOK, Disk, None
<1>2. Acting(m) \subseteq Components
  BY DEF Acting, Planned
<1>3. Planning(m) \in [Components -> Outcomes]
  BY DEF Planning, Outcomes
<1>. QED  BY <1>1, <1>2, <1>3

\* An advance keeps the marks marks.
LEMMA AdvanceType ==
  ASSUME NEW s \in TrustState, NEW m \in SignedManifest
  PROVE  Advance(s, m) \in TrustState
BY DEF Advance, Larger, TrustState, SignedManifest

\* The two ways a component or a pass ends keep the pass's variables typed.
LEMMA EndPassType == EndPass => PassOK'
BY EmptyType, SlotType DEF EndPass, PassOK, PCs, Outcomes

LEMMA SettleType ==
  ASSUME TypeOK, pc # "idle", NEW outcome \in Outcomes, Settle(outcome)
  PROVE  PassOK'
BY EmptyType, SlotType
   DEF Settle, KeepsAllSucceeded, TypeOK, PassOK, PCs, Outcomes, planState

\* The next binary of the set is a slot, and the step after it one of p and q.
LEMMA NextBinaryType ==
  ASSUME TypeOK, NEW p, NEW q, NextBinary(p, q)
  PROVE  slot' \in Slot /\ pc' \in {p, q}
<1>1. Width[cur] \in Slot  BY CatalogAssumption DEF TypeOK, PassOK
<1>. QED  BY <1>1, CatalogAssumption DEF NextBinary, TypeOK, PassOK, Slot

-----------------------------------------------------------------------------
(* Type correctness: one step per action.                                    *)

LEMMA TypeInit == Init => TypeOK
<1>. SUFFICES ASSUME Init PROVE TypeOK
  OBVIOUS
<1>1. lkg \in [Components -> [Slot -> LkgEntry]]
  <2>1. NoEntry \in LkgEntry  BY DEF NoEntry, LkgEntry, None
  <2>. QED  BY <2>1 DEF Init
<1>2. HostOK
  <2>1. marks \in TrustState  BY DEF Init, Initial, TrustState
  <2>. QED  BY <1>1, <2>1, EmptyType, HostAssumption DEF Init, HostOK, Disk
<1>3. PassOK
  BY EmptyType, SlotType DEF Init, PassOK, PCs, Outcomes
<1>4. BoundsOK
  BY HostAssumption DEF Init, BoundsOK
<1>. QED  BY <1>2, <1>3, <1>4 DEF TypeOK

\* Writing one entry of the cache leaves it a cache.
LEMMA LkgUpdate ==
  ASSUME lkg \in [Components -> [Slot -> LkgEntry]],
         NEW c \in Components, NEW k \in Slot,
         NEW b \in Nat, NEW d \in Nat, NEW n \in Nat
  PROVE  /\ [lkg EXCEPT ![c][k].bytes = b] \in [Components -> [Slot -> LkgEntry]]
         /\ [lkg EXCEPT ![c][k].digest = d, ![c][k].build = n]
              \in [Components -> [Slot -> LkgEntry]]
<1>1. ASSUME NEW l \in [Components -> [Slot -> LkgEntry]], NEW e \in LkgEntry
      PROVE  [l EXCEPT ![c][k] = e] \in [Components -> [Slot -> LkgEntry]]
  OBVIOUS
<1>2. ASSUME NEW e \in LkgEntry
      PROVE  /\ [e EXCEPT !.bytes = b] \in LkgEntry
             /\ [e EXCEPT !.digest = d] \in LkgEntry
             /\ [e EXCEPT !.build = n] \in LkgEntry
  BY DEF LkgEntry
<1>3. lkg[c][k] \in LkgEntry
  OBVIOUS
<1>4. [lkg EXCEPT ![c][k].bytes = b] = [lkg EXCEPT ![c][k] = [lkg[c][k] EXCEPT !.bytes = b]]
  OBVIOUS
<1>5. [lkg EXCEPT ![c][k].digest = d]
        = [lkg EXCEPT ![c][k] = [lkg[c][k] EXCEPT !.digest = d]]
  OBVIOUS
<1>6. ASSUME NEW l \in [Components -> [Slot -> LkgEntry]]
      PROVE  [l EXCEPT ![c][k].build = n] = [l EXCEPT ![c][k] = [l[c][k] EXCEPT !.build = n]]
  OBVIOUS
<1>. DEFINE l == [lkg EXCEPT ![c][k].digest = d]
<1>7. l \in [Components -> [Slot -> LkgEntry]]
  BY <1>1, <1>2, <1>3, <1>5
<1>8. l[c][k] \in LkgEntry
  BY <1>7
<1>9. [l EXCEPT ![c][k].build = n] \in [Components -> [Slot -> LkgEntry]]
  <2>. HIDE DEF l
  <2>. QED  BY <1>1, <1>2, <1>6, <1>7, <1>8
<1>10. [lkg EXCEPT ![c][k].digest = d, ![c][k].build = n] = [l EXCEPT ![c][k].build = n]
  OBVIOUS
<1>. QED  BY <1>1, <1>2, <1>3, <1>4, <1>9, <1>10

\* The steps of a pass that is not going wrong.
LEMMA TypePassStep == TypeOK /\ PassStep => TypeOK'
<1>. SUFFICES ASSUME TypeOK, PassStep PROVE TypeOK'
  OBVIOUS
<1>. USE SlotType DEF TypeOK, HostOK, PassOK, BoundsOK, hostState, planState,
                      workState, bounds, PCs
<1>1. CASE \E c \in Components : TakeComponent(c)
  BY <1>1 DEF TakeComponent, Take
<1>2. CASE TakeBeacon
  BY <1>2, EmptyType DEF TakeBeacon, Take
<1>3. CASE Stage
  BY <1>3 DEF Stage
<1>4. CASE Refuse
  BY <1>4, SettleType DEF Refuse, Outcomes
<1>5. CASE SnapshotAbsent
  BY <1>5, NextBinaryType DEF SnapshotAbsent, AfterSnapshot, InstallStep, None
<1>6. CASE SnapshotBytes
  <2>1. disk[cur][slot] \in Nat
    BY DEF Disk
  <2>2. lkg' = [lkg EXCEPT ![cur][slot].bytes = disk[cur][slot]]
    BY <1>6 DEF SnapshotBytes
  <2>3. lkg' \in [Components -> [Slot -> LkgEntry]]
    BY <2>1, <2>2, LkgUpdate
  <2>. QED  BY <1>6, <2>3 DEF SnapshotBytes
<1>7. CASE SnapshotRecord
  <2>1. disk[cur][slot] \in Nat /\ prior[cur] \in Nat
    BY DEF Disk
  <2>3. lkg' = [lkg EXCEPT ![cur][slot].digest = disk[cur][slot],
                           ![cur][slot].build = prior[cur]]
    BY <1>7 DEF SnapshotRecord
  <2>4. lkg' \in [Components -> [Slot -> LkgEntry]]
    BY <2>1, <2>3, LkgUpdate
  <2>2. slot' \in Slot /\ pc' \in PCs \ {"idle"}
    BY <1>7, NextBinaryType DEF SnapshotRecord, AfterSnapshot, InstallStep
  <2>. QED  BY <1>7, <2>1, <2>2, <2>4 DEF SnapshotRecord
<1>8. CASE StopService
  BY <1>8 DEF StopService, InstallStep
<1>9. CASE InstallPackage
  <2>1. man.build[cur] \in Nat /\ disk' \in Disk
    BY <1>9, ManifestType DEF InstallPackage, Disk
  <2>2. slot' \in Slot
    BY <1>9, CatalogAssumption DEF InstallPackage, Slot
  <2>. QED  BY <1>9, <2>1, <2>2 DEF InstallPackage
<1>10. CASE MoveAside
  BY <1>10 DEF MoveAside, Disk, None
<1>11. CASE Place
  BY <1>11, ManifestType, NextBinaryType DEF Place, NewBytes, Disk, None
<1>12. CASE UndoMoveAside
  BY <1>12 DEF UndoMoveAside, Disk, None, Outcomes
<1>13. CASE HealthPasses
  BY <1>13, NextBinaryType DEF HealthPasses, Outcomes
<1>14. CASE HealthFails
  BY <1>14 DEF HealthFails
<1>15. CASE RestoreBinary
  BY <1>15, NextBinaryType DEF RestoreBinary, Disk, Outcomes
<1>16. CASE RestartService
  BY <1>16, EndPassType DEF RestartService, Propagate
<1>17. CASE RecordInstalledBuild
  BY <1>17, SettleType, ManifestType DEF RecordInstalledBuild, BuildToRecord
<1>18. CASE AdvanceState
  <2>1. pc = "next" /\ pc' = "self"
    BY <1>18 DEF AdvanceState, Settled
  <2>2. HostOK' /\ BoundsOK'
    BY <1>18, <2>1, AdvanceType, ManifestType DEF AdvanceState
  <2>3. UNCHANGED <<planState, todo, cur, workState, results, allOk>>
    BY <1>18 DEF AdvanceState
  <2>. QED  BY <2>1, <2>2, <2>3, ManifestType
<1>19. CASE KeepState
  <2>1. pc = "next" /\ pc' = "self"
    BY <1>19 DEF KeepState, Settled
  <2>2. UNCHANGED <<hostState, planState, todo, cur, workState, results, allOk, bounds,
                    excused>>
    BY <1>19 DEF KeepState
  <2>. QED  BY <2>1, <2>2, ManifestType
<1>20. CASE Finish
  BY <1>20, EndPassType DEF Finish
<1>. QED
  BY <1>1, <1>2, <1>3, <1>4, <1>5, <1>6, <1>7, <1>8, <1>9, <1>10, <1>11, <1>12, <1>13, <1>14, <1>15, <1>16, <1>17, <1>18, <1>19, <1>20 DEF PassStep

\* The faults and the kill.
LEMMA TypeFaultStep == TypeOK /\ FaultStep => TypeOK'
<1>. SUFFICES ASSUME TypeOK, FaultStep PROVE TypeOK'
  OBVIOUS
<1>. USE SlotType, HostAssumption DEF TypeOK, HostOK, PassOK, BoundsOK, hostState, planState,
                      workState, bounds, PCs, Fault
<1>1. CASE StageFault
  BY <1>1, EndPassType DEF StageFault, Abort
<1>2. CASE SnapshotFault
  <2>1. lkg' \in [Components -> [Slot -> LkgEntry]]
    BY <1>2, LkgUpdate DEF SnapshotFault, None
  <2>. QED  BY <1>2, <2>1, EndPassType DEF SnapshotFault, Abort
<1>3. CASE StopFault
  BY <1>3, SettleType DEF StopFault, Outcomes
<1>4. CASE PackageLeftOld
  BY <1>4, CatalogAssumption DEF PackageLeftOld, Slot
<1>5. CASE PackageFails
  BY <1>5, ManifestType DEF PackageFails, Disk, None
<1>6. CASE TargetLocked
  BY <1>6 DEF TargetLocked, Disk, None, Outcomes
<1>7. CASE ReplaceFails
  BY <1>7 DEF ReplaceFails
<1>8. CASE PlaceFails
  BY <1>8 DEF PlaceFails, Outcomes
<1>9. CASE UndoFails
  BY <1>9 DEF UndoFails
<1>10. CASE ProbeFault
  BY <1>10 DEF ProbeFault
<1>11. CASE RestoreFault
  BY <1>11 DEF RestoreFault, Outcomes
<1>12. CASE StartFault
  BY <1>12, EndPassType DEF StartFault, Propagate
<1>13. CASE RecordFault
  BY <1>13, SettleType DEF RecordFault
<1>14. CASE AdvanceFault
  BY <1>14, EndPassType DEF AdvanceFault, Abort
<1>15. CASE Crash
  BY <1>15, EndPassType DEF Crash
<1>. QED
  BY <1>1, <1>2, <1>3, <1>4, <1>5, <1>6, <1>7, <1>8, <1>9, <1>10, <1>11, <1>12, <1>13, <1>14, <1>15 DEF FaultStep

\* Every variable keeps its type, whatever the feed, the faults and the kills.
THEOREM TypeCorrect == Spec => []TypeOK
<1>1. TypeOK /\ [Next]_vars => TypeOK'
  <2>. SUFFICES ASSUME TypeOK, [Next]_vars PROVE TypeOK'
    OBVIOUS
  <2>1. CASE \E o \in BOOLEAN, m \in Manifests \cup Foreign, now \in Times : Wake(m, o, now)
    <3>1. PICK o \in BOOLEAN, m \in Manifests \cup Foreign, now \in Times : Wake(m, o, now)
      BY <2>1
    <3>2. HostOK' /\ BoundsOK'
      BY <3>1 DEF Wake, TypeOK, HostOK, BoundsOK, hostState, bounds
    <3>3. PassOK'
      BY <3>1, PlanType, ManifestType DEF Wake, TypeOK, HostOK, PassOK, PCs, workState
    <3>. QED  BY <3>2, <3>3 DEF TypeOK
  <2>2. CASE PassStep
    BY <2>2, TypePassStep
  <2>3. CASE FaultStep
    BY <2>3, TypeFaultStep
  <2>4. CASE UNCHANGED vars
    BY <2>4 DEF TypeOK, HostOK, PassOK, BoundsOK, vars, pass, bounds
  <2>. QED  BY <2>1, <2>2, <2>3, <2>4 DEF Next
<1>. QED  BY TypeInit, <1>1, PTL DEF Spec

-----------------------------------------------------------------------------
(* The anti-downgrade floor.  What keeps an old build out is where bytes come *)
(* from: whatever a pass has at a destination, in its snapshot or in the      *)
(* sibling it moved aside is at the manifest's floor, or was in that          *)
(* component's own set when the pass began.                                   *)

\* No component is being applied.
Between == {"idle", "next", "self"}

Sound(c, b) == b = None \/ b >= man.floor \/ \E j \in Slot : b = start[c][j]

\* The strengthening of NeverBelowFloor that every step preserves.
FloorInv ==
  /\ pc \in Between => snap = EmptySnap
  /\ pc # "idle" =>
       /\ marks.floor <= man.floor
       /\ \A c \in Components : Offers(man, c) => man.build[c] >= man.floor
       /\ \A c \in todo : Offers(man, c)
       /\ pc \notin Between => Offers(man, cur)
       /\ \A c \in Components : \A k \in Slot : Sound(c, disk[c][k])
       /\ \A k \in Slot : Sound(cur, snap[k])
       /\ pc \in {"place", "undo"} => Sound(cur, aside[cur][slot])

-----------------------------------------------------------------------------
(* FloorInv is inductive.                                                    *)

LEMMA FloorInit == Init => FloorInv
BY DEF Init, FloorInv, Between

\* An accepted manifest is at or above the persisted floor, and so is every
\* build it offers.
LEMMA AcceptedAboveFloor ==
  ASSUME NEW s \in TrustState, NEW m \in Manifests \cup Foreign, NEW now \in Times,
         Accepts(s, m, now)
  PROVE  /\ s.floor <= m.floor
         /\ \A c \in Components : Offers(m, c) => m.build[c] >= m.floor
BY ManifestType DEF Accepts, VerifyFreshness, VerifyRollbackFloor, TrustState

\* The end of a pass forgets the manifest and everything known of it.
LEMMA FloorEnd == EndPass => FloorInv'
BY DEF EndPass, FloorInv, Between

\* The result of a component changes nothing on disk.
LEMMA FloorSettle ==
  ASSUME TypeOK, FloorInv, pc \notin Between, NEW outcome, Settle(outcome),
         UNCHANGED <<disk, marks>>
  PROVE  FloorInv'
<1>1. \A k \in Slot : snap'[k] = None
  BY DEF Settle, EmptySnap
<1>. QED
  BY <1>1 DEF Settle, FloorInv, Between, Sound, planState, EmptySnap

\* While one component is worked on, only what is on disk, in the snapshot and
\* moved aside has to be looked at.
LEMMA FloorWork ==
  ASSUME TypeOK, FloorInv, pc \notin Between, pc' \notin Between,
         UNCHANGED <<man, start, todo, cur, marks>>,
         \A k \in Slot : Sound(cur, disk'[cur][k]),
         \A c \in Components \ {cur} : disk'[c] = disk[c],
         \A k \in Slot : Sound(cur, snap'[k]),
         pc' \in {"place", "undo"} => Sound(cur, aside'[cur][slot'])
  PROVE  FloorInv'
BY DEF FloorInv, Between, Sound, TypeOK, PassOK

\* ... and a step that changes none of the three needs only its pc looked at.
LEMMA FloorFrame ==
  ASSUME TypeOK, FloorInv, pc \notin Between, pc' \notin Between \cup {"place", "undo"},
         UNCHANGED <<man, start, todo, cur, marks, disk, snap>>
  PROVE  FloorInv'
<1>1. cur \in Components
  BY DEF TypeOK, PassOK
<1>. QED  BY <1>1, FloorWork DEF FloorInv, Between

LEMMA FloorPassStep == TypeOK /\ TypeOK' /\ FloorInv /\ PassStep => FloorInv'
<1>. SUFFICES ASSUME TypeOK, TypeOK', FloorInv, PassStep PROVE FloorInv'
  OBVIOUS
<1>. USE DEF hostState, planState, workState, bounds, Between
<1>0. cur \in Components /\ slot \in Slot
  BY DEF TypeOK, PassOK
<1>1. ASSUME NEW c \in Components, pc \in {"next", "self"}, Take(c) PROVE FloorInv'
  <2>1. \A k \in Slot : Sound(c, snap[k])
    BY <1>1 DEF FloorInv, EmptySnap, Sound
  <2>. QED  BY <1>1, <2>1 DEF Take, FloorInv, Sound
<1>2. CASE \E c \in Components : TakeComponent(c)
  BY <1>1, <1>2 DEF TakeComponent
<1>3. CASE TakeBeacon
  BY <1>1, <1>3, EmptyType DEF TakeBeacon
<1>4. CASE Stage
  BY <1>4, FloorFrame DEF Stage
<1>5. CASE Refuse
  BY <1>5, FloorSettle DEF Refuse
<1>6. CASE SnapshotAbsent
  BY <1>0, <1>6, FloorWork DEF SnapshotAbsent, NextBinary, AfterSnapshot, InstallStep,
     FloorInv, Sound, TypeOK, PassOK
<1>7. CASE SnapshotBytes
  BY <1>7, FloorFrame DEF SnapshotBytes
<1>8. CASE SnapshotRecord
  BY <1>0, <1>8, FloorWork DEF SnapshotRecord, NextBinary, AfterSnapshot, InstallStep,
     FloorInv, Sound, TypeOK, PassOK
<1>9. CASE StopService
  BY <1>9, FloorFrame DEF StopService, InstallStep
<1>10. ASSUME pc \notin Between PROVE Sound(cur, man.build[cur])
  BY <1>0, <1>10 DEF FloorInv, Sound, TypeOK, PassOK, PCs
<1>11. CASE InstallPackage
  BY <1>0, <1>10, <1>11, FloorWork DEF InstallPackage, FloorInv, TypeOK, HostOK, Disk
<1>12. CASE MoveAside
  <2>1. Sound(cur, disk[cur][slot]) /\ \A k \in Slot : Sound(cur, snap[k])
    BY <1>0, <1>12 DEF MoveAside, FloorInv
  <2>2. ASSUME NEW k \in Slot PROVE Sound(cur, disk'[cur][k])
    <3>1. disk'[cur][k] = IF k = slot THEN None ELSE disk[cur][k]
      BY <1>0, <1>12 DEF MoveAside, TypeOK, HostOK, Disk
    <3>2. Sound(cur, disk[cur][k]) /\ Sound(cur, None)
      BY <1>0, <1>12 DEF MoveAside, FloorInv, Sound
    <3>. QED  BY <3>1, <3>2
  <2>3. aside'[cur][slot'] = disk[cur][slot]
    BY <1>0, <1>12 DEF MoveAside, TypeOK, HostOK, Disk
  <2>4. \A c \in Components \ {cur} : disk'[c] = disk[c]
    BY <1>0, <1>12 DEF MoveAside, TypeOK, HostOK, Disk
  <2>. QED  BY <1>12, <2>1, <2>2, <2>3, <2>4, FloorWork DEF MoveAside
<1>13. CASE Place
  <2>1. Sound(cur, NewBytes)
    BY <1>0, <1>10, <1>13, SlotType DEF Place, NewBytes, FloorInv
  <2>. QED
    BY <1>0, <1>13, <2>1, FloorWork
       DEF Place, NextBinary, FloorInv, TypeOK, HostOK, Disk
<1>14. CASE UndoMoveAside
  BY <1>0, <1>14, FloorWork DEF UndoMoveAside, FloorInv, TypeOK, HostOK, Disk
<1>15. CASE HealthPasses
  BY <1>15, FloorFrame DEF HealthPasses, NextBinary
<1>16. CASE HealthFails
  BY <1>16, FloorFrame DEF HealthFails
<1>17. CASE RestoreBinary
  BY <1>0, <1>17, FloorWork
     DEF RestoreBinary, NextBinary, FloorInv, TypeOK, HostOK, Disk
<1>18. CASE RestartService
  BY <1>18, FloorEnd, FloorFrame DEF RestartService, Propagate
<1>19. CASE RecordInstalledBuild
  BY <1>19, FloorSettle DEF RecordInstalledBuild
<1>20. CASE AdvanceState
  <2>1. marks'.floor = Larger(marks.floor, man.floor) /\ pc = "next" /\ pc' = "self"
    BY <1>20 DEF AdvanceState, Settled, Advance
  <2>2. man \in Manifests \cup Foreign /\ marks.floor <= man.floor
    BY <2>1 DEF TypeOK, PassOK, FloorInv
  <2>3. marks'.floor <= man.floor
    BY <2>1, <2>2, ManifestType DEF Larger
  <2>. QED  BY <1>20, <2>1, <2>3 DEF AdvanceState, FloorInv, Sound
<1>21. CASE KeepState
  BY <1>21 DEF KeepState, Settled, FloorInv, Sound
<1>22. CASE Finish
  BY <1>22, FloorEnd DEF Finish
<1>. QED
  BY <1>2, <1>3, <1>4, <1>5, <1>6, <1>7, <1>8, <1>9, <1>11, <1>12, <1>13, <1>14, <1>15,
     <1>16, <1>17, <1>18, <1>19, <1>20, <1>21, <1>22 DEF PassStep

LEMMA FloorFaultStep == TypeOK /\ TypeOK' /\ FloorInv /\ FaultStep => FloorInv'
<1>. SUFFICES ASSUME TypeOK, TypeOK', FloorInv, FaultStep PROVE FloorInv'
  OBVIOUS
<1>. USE DEF hostState, planState, workState, bounds, Between
<1>0. cur \in Components /\ slot \in Slot
  BY DEF TypeOK, PassOK
<1>1. CASE StageFault
  BY <1>1, FloorEnd DEF StageFault, Abort
<1>2. CASE SnapshotFault
  BY <1>2, FloorEnd DEF SnapshotFault, Abort
<1>3. CASE StopFault
  BY <1>3, FloorSettle DEF StopFault
<1>4. CASE PackageLeftOld
  BY <1>4, FloorFrame DEF PackageLeftOld
<1>5. CASE PackageFails
  <2>1. Sound(cur, man.build[cur])
    BY <1>0, <1>5 DEF PackageFails, FloorInv, Sound
  <2>2. PICK b \in {disk[cur][1], man.build[cur], None} :
          disk' = [disk EXCEPT ![cur][1] = b]
    BY <1>5 DEF PackageFails
  <2>3. Sound(cur, b)
    BY <1>0, <1>5, <2>1, SlotType DEF PackageFails, FloorInv, Sound
  <2>. QED
    BY <1>0, <1>5, <2>2, <2>3, FloorWork
       DEF PackageFails, FloorInv, TypeOK, HostOK, Disk
<1>6. CASE TargetLocked
  BY <1>6, FloorFrame DEF TargetLocked
<1>7. CASE ReplaceFails
  BY <1>7, FloorFrame DEF ReplaceFails
<1>8. CASE PlaceFails
  BY <1>0, <1>8, FloorWork DEF PlaceFails, FloorInv
<1>9. CASE UndoFails
  BY <1>9, FloorFrame DEF UndoFails
<1>10. CASE ProbeFault
  BY <1>10, FloorFrame DEF ProbeFault
<1>11. CASE RestoreFault
  BY <1>11, FloorFrame DEF RestoreFault
<1>12. CASE StartFault
  BY <1>12, FloorEnd, FloorFrame DEF StartFault, Propagate
<1>13. CASE RecordFault
  BY <1>13, FloorSettle DEF RecordFault
<1>14. CASE AdvanceFault
  BY <1>14, FloorEnd DEF AdvanceFault, Abort
<1>15. CASE Crash
  BY <1>15, FloorEnd DEF Crash
<1>. QED
  BY <1>1, <1>2, <1>3, <1>4, <1>5, <1>6, <1>7, <1>8, <1>9, <1>10, <1>11, <1>12, <1>13,
     <1>14, <1>15 DEF FaultStep

\* What is on disk when a pass begins is where its bytes come from.
LEMMA FloorWake ==
  ASSUME TypeOK, FloorInv, NEW o \in BOOLEAN, NEW m \in Manifests \cup Foreign,
         NEW now \in Times, Wake(m, o, now)
  PROVE  FloorInv'
<1>1. /\ marks.floor <= m.floor
      /\ \A c \in Components : Offers(m, c) => m.build[c] >= m.floor
  BY AcceptedAboveFloor DEF Wake, TypeOK, HostOK
<1>2. \A k \in Slot : snap[k] = None
  BY DEF Wake, FloorInv, Between, EmptySnap
<1>. QED
  BY <1>1, <1>2
     DEF Wake, FloorInv, Between, Sound, Acting, Planned, hostState, workState

\* Whatever a pass holds of a component is at the floor or was found in its set.
THEOREM FloorInvariance == Spec => []FloorInv
<1>1. TypeOK /\ TypeOK' /\ FloorInv /\ [Next]_vars => FloorInv'
  <2>. SUFFICES ASSUME TypeOK, TypeOK', FloorInv, [Next]_vars PROVE FloorInv'
    OBVIOUS
  <2>1. CASE \E o \in BOOLEAN, m \in Manifests \cup Foreign, now \in Times : Wake(m, o, now)
    BY <2>1, FloorWake
  <2>2. CASE PassStep
    BY <2>2, FloorPassStep
  <2>3. CASE FaultStep
    BY <2>3, FloorFaultStep
  <2>4. CASE UNCHANGED vars
    BY <2>4 DEF FloorInv, Sound, vars, pass
  <2>. QED  BY <2>1, <2>2, <2>3, <2>4 DEF Next
<1>. QED  BY FloorInit, TypeCorrect, <1>1, PTL DEF Spec

\* No destination comes to hold a build below the persisted floor that was not in
\* that component's own set when the pass began, whatever the feeds serve.
THEOREM FloorHolds == Spec => NeverBelowFloor
<1>. DEFINE Step == \A c \in Components : \A k \in Slot :
                      disk'[c][k] # disk[c][k] /\ disk'[c][k] # None =>
                        \/ disk'[c][k] >= marks.floor
                        \/ \E j \in Slot : disk'[c][k] = start[c][j]
<1>1. TypeOK /\ FloorInv /\ TypeOK' /\ FloorInv' /\ [Next]_vars => [Step]_vars
  <2>. SUFFICES ASSUME TypeOK, FloorInv, TypeOK', FloorInv', Next,
                       NEW c \in Components, NEW k \in Slot,
                       disk'[c][k] # disk[c][k], disk'[c][k] # None
                PROVE  \/ disk'[c][k] >= marks.floor
                       \/ \E j \in Slot : disk'[c][k] = start[c][j]
    OBVIOUS
  <2>1. pc # "idle" /\ pc' # "idle" /\ UNCHANGED <<man, start, marks>>
    <3>1. CASE \E o \in BOOLEAN, m \in Manifests \cup Foreign, now \in Times : Wake(m, o, now)
      BY <3>1 DEF Wake, hostState
    <3>2. CASE PassStep
      BY <3>2 DEF PassStep, hostState, planState,
         TakeComponent, TakeBeacon, Take, Stage, Refuse, SnapshotAbsent, SnapshotBytes,
         SnapshotRecord, StopService, InstallPackage, MoveAside, Place, UndoMoveAside,
         HealthPasses, HealthFails, RestoreBinary, NextBinary, RestartService,
         RecordInstalledBuild, AdvanceState, KeepState, Finish
    <3>3. CASE FaultStep
      BY <3>3 DEF FaultStep, hostState, planState,
         StageFault, SnapshotFault, StopFault, PackageLeftOld, PackageFails, TargetLocked,
         ReplaceFails, PlaceFails, UndoFails, ProbeFault, RestoreFault, StartFault,
         RecordFault, AdvanceFault, Crash
    <3>. QED  BY <3>1, <3>2, <3>3 DEF Next
  <2>2. Sound(c, disk[c][k])' /\ marks.floor <= man.floor
    BY <2>1 DEF FloorInv
  <2>3. man \in Manifests \cup Foreign /\ marks \in TrustState /\ disk'[c][k] \in Nat
    BY <2>1 DEF TypeOK, HostOK, PassOK, Disk
  <2>. QED  BY <2>1, <2>2, <2>3, ManifestType DEF Sound, TrustState
<1>. QED  BY <1>1, TypeCorrect, FloorInvariance, PTL DEF Spec, NeverBelowFloor

-----------------------------------------------------------------------------
(* What a result says of the disk.                                           *)

\* The results that promise the set is as the pass found it.
AsFound == {"RolledBack", "Skipped", "Held", "Refused"}

\* The pass is working on a component, and on a binary of its set.
WorkInv ==
  /\ pc \in Between => slot = 1 /\ snap = EmptySnap
  /\ pc \in {"stage", "stop", "package"} => slot = 1
  /\ pc \notin {"restart", "record"} => result = "none"
  /\ result \notin AsFound \ {"RolledBack"}
  /\ pc \notin Between =>
       /\ cur \notin todo /\ results[cur] = "none"
       /\ slot \in BinarySet(cur)
       /\ \A k \in Slot \ BinarySet(cur) : disk[cur][k] = start[cur][k]

\* The snapshot is what the pass found, and the rollback goes back to it.
SnapInv ==
  /\ pc \in {"stage", "snapBytes", "snapRecord", "stop"} => disk[cur] = start[cur]
  /\ pc \in {"snapBytes", "snapRecord"} =>
       \A j \in BinarySet(cur) : j < slot => snap[j] = start[cur][j]
  /\ pc \in {"stop", "package", "aside", "place", "undo", "health", "rollback"} =>
       \A j \in BinarySet(cur) : snap[j] = start[cur][j]
  /\ pc = "rollback" =>
       \A j \in BinarySet(cur) : j < slot => disk[cur][j] = start[cur][j]
  /\ result = "RolledBack" => disk[cur] = start[cur]

ResultsInv ==
  /\ pc = "idle" => results = Nothing /\ todo = {}
  /\ \A c \in todo : results[c] = "none" /\ disk[c] = start[c]
  /\ \A c \in Components : results[c] \in AsFound => disk[c] = start[c]

RestoreInv == WorkInv /\ SnapInv /\ ResultsInv

-----------------------------------------------------------------------------
(* RestoreInv is inductive.                                                  *)

LEMMA RestoreInit == Init => RestoreInv
BY SlotType, CatalogAssumption
   DEF Init, RestoreInv, WorkInv, SnapInv, ResultsInv, Between, AsFound, Nothing

LEMMA RestoreEnd == EndPass => RestoreInv'
BY DEF EndPass, RestoreInv, WorkInv, SnapInv, ResultsInv, Between, AsFound, Nothing

\* A component settles on a result the disk bears out.
LEMMA RestoreSettle ==
  ASSUME TypeOK, RestoreInv, pc \notin Between, NEW outcome \in Outcomes,
         Settle(outcome), UNCHANGED disk,
         outcome \in AsFound => disk[cur] = start[cur]
  PROVE  RestoreInv'
<1>. USE DEF Between, AsFound, planState
<1>1. pc' \in {"self", "next"} /\ UNCHANGED <<start, todo, cur>>
  BY DEF Settle
<1>2. WorkInv'
  BY <1>1 DEF Settle, WorkInv
<1>3. SnapInv'
  BY <1>1 DEF Settle, SnapInv
<1>4. ResultsInv'
  BY <1>1 DEF Settle, RestoreInv, WorkInv, ResultsInv, TypeOK, PassOK
<1>. QED  BY <1>2, <1>3, <1>4 DEF RestoreInv

\* A step of the work on one component leaves the other components and all results.
LEMMA RestoreWork ==
  ASSUME TypeOK, RestoreInv, pc \notin Between, pc' \notin Between,
         UNCHANGED <<start, todo, cur, results>>,
         \A c \in Components \ {cur} : disk'[c] = disk[c]
  PROVE  ResultsInv'
BY DEF RestoreInv, WorkInv, ResultsInv, Between, AsFound, TypeOK, PassOK

\* A step of the replace, its gate or its aftermath: within the set it may change
\* any binary, and it may go to any later step, to the rollback at its first.
LEMMA RestoreReplace ==
  ASSUME TypeOK, RestoreInv,
         \/ pc \in {"stop", "package", "aside", "place", "undo", "health"}
         \/ pc \in {"rollback", "restart"} /\ pc' \in {"restart", "record"},
         pc' \in {"package", "aside", "place", "undo", "health", "rollback", "restart", "record"},
         UNCHANGED <<start, todo, cur, results, snap>>,
         \A c \in Components \ {cur} : disk'[c] = disk[c],
         \A k \in Slot \ BinarySet(cur) : disk'[cur][k] = disk[cur][k],
         slot' \in BinarySet(cur), pc' \in {"package", "rollback"} => slot' = 1,
         pc' \notin {"restart", "record"} => result' = "none",
         \/ result' \in {"none", "Installed", "Deferred", "Error"}
         \/ result' = result /\ disk' = disk
  PROVE  RestoreInv'
<1>. USE DEF Between, AsFound
<1>1. cur \in Components
  BY DEF TypeOK, PassOK
<1>2. WorkInv'
  BY <1>1 DEF RestoreInv, WorkInv
<1>3. SnapInv'
  BY <1>1 DEF RestoreInv, WorkInv, SnapInv, BinarySet
<1>4. ResultsInv'
  BY RestoreWork
<1>. QED  BY <1>2, <1>3, <1>4 DEF RestoreInv

LEMMA SetFacts ==
  ASSUME TypeOK
  PROVE  /\ cur \in Components /\ slot \in Slot /\ Width[cur] \in Nat \ {0}
         /\ 1 \in BinarySet(cur) /\ BinarySet(cur) \subseteq Slot
         /\ Width[cur] > 1 => 2 \in BinarySet(cur)
         /\ disk[cur] \in [Slot -> Nat] /\ start[cur] \in [Slot -> Nat]
<1>1. cur \in Components /\ slot \in Slot /\ disk \in Disk /\ start \in Disk
  BY DEF TypeOK, HostOK, PassOK
<1>2. Width[cur] \in 1..MaxWidth /\ MaxWidth \in Nat
  BY <1>1, CatalogAssumption DEF Slot
<1>3. /\ 1 \in BinarySet(cur) /\ BinarySet(cur) \subseteq Slot
      /\ Width[cur] > 1 => 2 \in BinarySet(cur)
  BY <1>2 DEF BinarySet, Slot
<1>4. disk[cur] \in [Slot -> Nat] /\ start[cur] \in [Slot -> Nat]
  BY <1>1 DEF Disk
<1>. QED  BY <1>1, <1>2, <1>3, <1>4

\* Writing one binary of the set leaves every other binary on the host alone.
LEMMA SetWrite ==
  ASSUME TypeOK, NEW j \in BinarySet(cur), NEW b,
         disk' = [disk EXCEPT ![cur][j] = b]
  PROVE  /\ \A c \in Components \ {cur} : disk'[c] = disk[c]
         /\ \A k \in Slot \ BinarySet(cur) : disk'[cur][k] = disk[cur][k]
BY SetFacts DEF TypeOK, HostOK, Disk

\* Going on to the next binary of the set, or past the last one.
LEMMA NextBinaryInSet ==
  ASSUME TypeOK, slot \in BinarySet(cur), NEW p, NEW q, NextBinary(p, q)
  PROVE  /\ slot' \in BinarySet(cur)
         /\ \/ /\ pc' = p /\ slot < Width[cur]
               /\ \A j \in BinarySet(cur) : j < slot' => j < slot \/ j = slot
            \/ /\ pc' = q /\ slot' = 1
               /\ \A j \in BinarySet(cur) : j < slot \/ j = slot
BY SetFacts DEF NextBinary, BinarySet

\* The snapshot of one binary is what the pass found there.
LEMMA RestoreSnapshot ==
  ASSUME TypeOK, RestoreInv, pc \in {"snapBytes", "snapRecord"},
         snap' = [snap EXCEPT ![slot] = disk[cur][slot]],
         NextBinary("snapBytes", AfterSnapshot),
         UNCHANGED <<disk, start, todo, cur, results, result>>
  PROVE  RestoreInv'
<1>. USE DEF Between, AsFound
<1>1. /\ slot \in BinarySet(cur) /\ result = "none"
      /\ \A j \in BinarySet(cur) : j < slot \/ j = slot => snap'[j] = start[cur][j]
  BY SetFacts DEF RestoreInv, WorkInv, SnapInv, TypeOK, PassOK
<1>2. /\ pc' \in {"snapBytes", "stop", "package", "aside"} /\ slot' \in BinarySet(cur)
      /\ pc' # "snapBytes" => slot' = 1
  BY <1>1, NextBinaryInSet DEF AfterSnapshot, InstallStep
<1>3. WorkInv'
  BY <1>1, <1>2 DEF RestoreInv, WorkInv
<1>4. /\ pc' = "snapBytes" => \A j \in BinarySet(cur) : j < slot' => j < slot \/ j = slot
      /\ pc' # "snapBytes" => \A j \in BinarySet(cur) : j < slot \/ j = slot
  BY <1>1, NextBinaryInSet DEF AfterSnapshot, InstallStep
<1>5. SnapInv'
  BY <1>1, <1>2, <1>4 DEF RestoreInv, SnapInv, BinarySet
<1>6. ResultsInv'
  BY <1>2, SetFacts, RestoreWork
<1>. QED  BY <1>3, <1>5, <1>6 DEF RestoreInv

LEMMA RestorePassStep == TypeOK /\ TypeOK' /\ RestoreInv /\ PassStep => RestoreInv'
<1>. SUFFICES ASSUME TypeOK, TypeOK', RestoreInv, PassStep PROVE RestoreInv'
  OBVIOUS
<1>. USE SetFacts DEF hostState, planState, workState, bounds
<1>0. /\ pc \notin Between => slot \in BinarySet(cur)
      /\ pc \notin {"restart", "record"} => result = "none"
  BY DEF RestoreInv, WorkInv
<1>1. ASSUME NEW c \in Components, pc \in {"next", "self"}, Take(c) PROVE RestoreInv'
  <2>. USE DEF Between, AsFound
  <2>1. WorkInv'
    <3>1. /\ pc' = "stage" /\ cur' = c /\ c \in todo /\ todo' = todo \ {c}
          /\ UNCHANGED <<disk, start, slot, result, results>>
      BY <1>1 DEF Take
    <3>2. slot' = 1 /\ result' = "none"
      BY <1>0, <1>1, <3>1 DEF RestoreInv, WorkInv
    <3>3. 1 \in BinarySet(c)
      BY CatalogAssumption DEF BinarySet, Slot
    <3>4. results[c] = "none" /\ disk[c] = start[c]
      BY <3>1 DEF RestoreInv, ResultsInv
    <3>. QED  BY <3>1, <3>2, <3>3, <3>4 DEF WorkInv
  <2>2. SnapInv'
    BY <1>0, <1>1 DEF Take, RestoreInv, WorkInv, SnapInv, ResultsInv
  <2>3. ResultsInv'
    BY <1>1 DEF Take, RestoreInv, ResultsInv
  <2>. QED  BY <2>1, <2>2, <2>3 DEF RestoreInv
<1>2. CASE \E c \in Components : TakeComponent(c)
  BY <1>1, <1>2 DEF TakeComponent
<1>3. CASE TakeBeacon
  BY <1>1, <1>3, EmptyType DEF TakeBeacon
<1>4. CASE Stage
  BY <1>4 DEF Stage, RestoreInv, WorkInv, SnapInv, ResultsInv, Between, BinarySet
<1>5. CASE Refuse
  BY <1>5, RestoreSettle DEF Refuse, RestoreInv, SnapInv, Between, Outcomes
<1>6. CASE SnapshotAbsent
  BY <1>6, RestoreSnapshot DEF SnapshotAbsent
<1>7. CASE SnapshotBytes
  BY <1>7 DEF SnapshotBytes, RestoreInv, WorkInv, SnapInv, ResultsInv, Between
<1>8. CASE SnapshotRecord
  BY <1>8, RestoreSnapshot DEF SnapshotRecord
<1>9. CASE StopService
  BY <1>0, <1>9, RestoreReplace DEF StopService, InstallStep, RestoreInv, WorkInv
<1>10. CASE InstallPackage
  <2>1. disk' = [disk EXCEPT ![cur][1] = man.build[cur]]
    BY <1>10 DEF InstallPackage
  <2>. QED  BY <1>0, <1>10, <2>1, SetWrite, RestoreReplace DEF InstallPackage
<1>11. CASE MoveAside
  <2>1. slot \in BinarySet(cur) /\ disk' = [disk EXCEPT ![cur][slot] = None]
    BY <1>0, <1>11 DEF MoveAside, Between
  <2>. QED  BY <1>0, <1>11, <2>1, SetWrite, RestoreReplace DEF MoveAside
<1>12. CASE Place
  <2>1. slot \in BinarySet(cur) /\ disk' = [disk EXCEPT ![cur][slot] = NewBytes]
    BY <1>0, <1>12 DEF Place, Between
  <2>2. pc' \in {"aside", "health"} /\ slot' \in BinarySet(cur)
    BY <1>12, <2>1, NextBinaryInSet DEF Place
  <2>. QED  BY <1>0, <1>12, <2>1, <2>2, SetWrite, RestoreReplace DEF Place
<1>13. CASE UndoMoveAside
  <2>1. slot \in BinarySet(cur) /\ disk' = [disk EXCEPT ![cur][slot] = aside[cur][slot]]
    BY <1>0, <1>13 DEF UndoMoveAside, Between
  <2>. QED  BY <1>0, <1>13, <2>1, SetWrite, RestoreReplace DEF UndoMoveAside
<1>14. CASE HealthPasses
  <2>1. slot \in BinarySet(cur)
    BY <1>0, <1>14 DEF HealthPasses, Between
  <2>2. slot' \in BinarySet(cur) /\ result' \in {"none", "Installed"}
    BY <1>0, <1>14, <2>1, NextBinaryInSet DEF HealthPasses
  <2>3. \/ pc' = "health" /\ result' = "none"
        \/ pc' = "restart"
    BY <1>0, <1>14 DEF HealthPasses, NextBinary
  <2>. QED  BY <1>0, <1>14, <2>2, <2>3, RestoreReplace DEF HealthPasses
<1>15. CASE HealthFails
  BY <1>0, <1>15, RestoreReplace DEF HealthFails
<1>16. CASE RestoreBinary
  <2>. USE DEF Between, AsFound
  <2>1. /\ pc = "rollback" /\ pc' \in {"rollback", "restart"} /\ slot' \in BinarySet(cur)
        /\ UNCHANGED <<snap, start, todo, cur, results>>
    BY <1>0, <1>16, NextBinaryInSet DEF RestoreBinary
  <2>2. /\ \A c \in Components \ {cur} : disk'[c] = disk[c]
        /\ \A k \in Slot : disk'[cur][k] = IF k = slot THEN snap[slot] ELSE disk[cur][k]
    BY <1>16 DEF RestoreBinary, TypeOK, HostOK, Disk
  <2>3. \A j \in BinarySet(cur) : j < slot \/ j = slot => disk'[cur][j] = start[cur][j]
    BY <2>1, <2>2 DEF RestoreInv, SnapInv
  <2>4. \A k \in Slot \ BinarySet(cur) : disk'[cur][k] = start[cur][k]
    BY <1>0, <2>1, <2>2 DEF RestoreInv, WorkInv
  <2>5. CASE pc' = "rollback"
    <3>1. result' = "none" /\ \A j \in BinarySet(cur) : j < slot' => j < slot \/ j = slot
      BY <1>0, <1>16, <2>1, <2>5, NextBinaryInSet DEF RestoreBinary, NextBinary
    <3>2. WorkInv'
      BY <2>1, <2>4, <2>5, <3>1 DEF RestoreInv, WorkInv
    <3>3. SnapInv'
      BY <2>1, <2>3, <2>5, <3>1 DEF RestoreInv, SnapInv, BinarySet
    <3>. QED  BY <2>1, <2>2, <2>5, <3>2, <3>3, RestoreWork DEF RestoreInv
  <2>6. CASE pc' = "restart"
    <3>1. result' = "RolledBack" /\ \A j \in BinarySet(cur) : j < slot \/ j = slot
      BY <1>0, <1>16, <2>1, <2>6, NextBinaryInSet DEF RestoreBinary, NextBinary
    <3>2. disk'[cur] = start[cur]
      <4>1. \A k \in Slot : disk'[cur][k] = start[cur][k]
        BY <2>3, <2>4, <3>1
      <4>2. disk'[cur] \in [Slot -> Nat]
        BY DEF TypeOK, HostOK, Disk
      <4>. QED  BY <4>1, <4>2
    <3>3. WorkInv'
      BY <2>1, <2>4, <2>6, <3>1 DEF RestoreInv, WorkInv
    <3>4. SnapInv'
      BY <2>1, <2>6, <3>1, <3>2 DEF SnapInv
    <3>. QED  BY <2>1, <2>2, <2>6, <3>3, <3>4, RestoreWork DEF RestoreInv
  <2>. QED  BY <2>1, <2>5, <2>6
<1>17. CASE RestartService
  BY <1>0, <1>17, RestoreEnd, RestoreReplace DEF RestartService, Propagate, Between
<1>18. CASE RecordInstalledBuild
  BY <1>18, RestoreSettle
     DEF RecordInstalledBuild, RestoreInv, WorkInv, SnapInv, Between, TypeOK, PassOK
<1>19. CASE AdvanceState
  BY <1>19 DEF AdvanceState, Settled, RestoreInv, WorkInv, SnapInv, ResultsInv, Between
<1>20. CASE KeepState
  BY <1>20 DEF KeepState, Settled, RestoreInv, WorkInv, SnapInv, ResultsInv, Between
<1>21. CASE Finish
  BY <1>21, RestoreEnd DEF Finish
<1>. QED
  BY <1>2, <1>3, <1>4, <1>5, <1>6, <1>7, <1>8, <1>9, <1>10, <1>11, <1>12, <1>13, <1>14,
     <1>15, <1>16, <1>17, <1>18, <1>19, <1>20, <1>21 DEF PassStep

LEMMA RestoreFaultStep == TypeOK /\ TypeOK' /\ RestoreInv /\ FaultStep => RestoreInv'
<1>. SUFFICES ASSUME TypeOK, TypeOK', RestoreInv, FaultStep PROVE RestoreInv'
  OBVIOUS
<1>. USE SetFacts DEF hostState, planState, workState, bounds
<1>0. /\ pc \notin Between => slot \in BinarySet(cur)
      /\ pc \notin {"restart", "record"} => result = "none"
      /\ pc = "package" => slot = 1
  BY DEF RestoreInv, WorkInv
<1>1. CASE StageFault
  BY <1>1, RestoreEnd DEF StageFault, Abort
<1>2. CASE SnapshotFault
  BY <1>2, RestoreEnd DEF SnapshotFault, Abort
<1>3. CASE StopFault
  BY <1>3, RestoreSettle DEF StopFault, Between, AsFound, Outcomes
<1>4. CASE PackageLeftOld
  BY <1>0, <1>4, RestoreReplace DEF PackageLeftOld
<1>5. CASE PackageFails
  BY <1>0, <1>5, SetWrite, RestoreReplace DEF PackageFails
<1>6. CASE TargetLocked
  BY <1>0, <1>6, RestoreReplace DEF TargetLocked
<1>7. CASE ReplaceFails
  BY <1>0, <1>7, RestoreReplace DEF ReplaceFails
<1>8. CASE PlaceFails
  BY <1>0, <1>8, RestoreReplace DEF PlaceFails, Between
<1>9. CASE UndoFails
  BY <1>0, <1>9, RestoreReplace DEF UndoFails
<1>10. CASE ProbeFault
  BY <1>0, <1>10, RestoreReplace DEF ProbeFault
<1>11. CASE RestoreFault
  BY <1>0, <1>11, RestoreReplace DEF RestoreFault
<1>12. CASE StartFault
  BY <1>0, <1>12, RestoreEnd, RestoreReplace DEF StartFault, Propagate, Between
<1>13. CASE RecordFault
  BY <1>13, RestoreSettle
     DEF RecordFault, RestoreInv, WorkInv, SnapInv, Between, TypeOK, PassOK
<1>14. CASE AdvanceFault
  BY <1>14, RestoreEnd DEF AdvanceFault, Abort
<1>15. CASE Crash
  BY <1>15, RestoreEnd DEF Crash
<1>. QED
  BY <1>1, <1>2, <1>3, <1>4, <1>5, <1>6, <1>7, <1>8, <1>9, <1>10, <1>11, <1>12, <1>13,
     <1>14, <1>15 DEF FaultStep

\* A pass starts from what it finds: nothing it plans to act on has a result yet.
LEMMA RestoreWake ==
  ASSUME TypeOK, RestoreInv, NEW o \in BOOLEAN, NEW m \in Manifests \cup Foreign,
         NEW now \in Times, Wake(m, o, now)
  PROVE  RestoreInv'
<1>. USE DEF Between, AsFound
<1>1. pc = "idle" /\ pc' = "next" /\ UNCHANGED <<slot, snap, result, disk>>
  BY DEF Wake, workState, hostState
<1>2. start' = disk /\ todo' = Acting(m) /\ results' = Planning(m)
  BY DEF Wake
<1>3. WorkInv'
  BY <1>1 DEF RestoreInv, WorkInv
<1>4. SnapInv'
  BY <1>1 DEF RestoreInv, WorkInv, SnapInv
<1>5. ResultsInv'
  BY <1>1, <1>2 DEF ResultsInv, Planning, Acting, Planned
<1>. QED  BY <1>3, <1>4, <1>5 DEF RestoreInv

\* The snapshot, the set behind the rollback and the settled results keep saying
\* what the pass found.
THEOREM RestoreInvariance == Spec => []RestoreInv
<1>1. TypeOK /\ TypeOK' /\ RestoreInv /\ [Next]_vars => RestoreInv'
  <2>. SUFFICES ASSUME TypeOK, TypeOK', RestoreInv, [Next]_vars PROVE RestoreInv'
    OBVIOUS
  <2>1. CASE \E o \in BOOLEAN, m \in Manifests \cup Foreign, now \in Times : Wake(m, o, now)
    BY <2>1, RestoreWake
  <2>2. CASE PassStep
    BY <2>2, RestorePassStep
  <2>3. CASE FaultStep
    BY <2>3, RestoreFaultStep
  <2>4. CASE UNCHANGED vars
    BY <2>4 DEF RestoreInv, WorkInv, SnapInv, ResultsInv, vars, pass
  <2>. QED  BY <2>1, <2>2, <2>3, <2>4 DEF Next
<1>. QED  BY RestoreInit, TypeCorrect, <1>1, PTL DEF Spec

\* A component reported RolledBack has its whole set back as the pass found it.
THEOREM RollbackIsWhole == Spec => []RollbackRestoresSet
<1>1. RestoreInv => RollbackRestoresSet
  BY DEF RestoreInv, ResultsInv, AsFound, RollbackRestoresSet
<1>. QED  BY <1>1, RestoreInvariance, PTL

\* A component reported skipped, held or refused has not been touched.
THEOREM LeftAloneHolds == Spec => []LeftAlone
<1>1. RestoreInv => LeftAlone
  BY DEF RestoreInv, ResultsInv, AsFound, LeftAlone
<1>. QED  BY <1>1, RestoreInvariance, PTL

-----------------------------------------------------------------------------
(* Services.                                                                 *)

\* The steps between the stop of a service and its restart.
Stopped == {"package", "aside", "place", "undo", "health", "rollback", "restart"}

\* Only the service being replaced may be down without an excuse.
ServiceInv ==
  \A s \in Services :
    svc[s] = "down" => s \in excused \/ (s = cur /\ pc \in Stopped)

LEMMA ServiceFrame ==
  ASSUME ServiceInv, UNCHANGED <<svc, excused>>,
         pc \in Stopped => pc' \in Stopped /\ cur' = cur
  PROVE  ServiceInv'
BY DEF ServiceInv

LEMMA ServicePassStep == TypeOK /\ ServiceInv /\ PassStep => ServiceInv'
<1>. SUFFICES ASSUME TypeOK, ServiceInv, PassStep PROVE ServiceInv'
  OBVIOUS
<1>. USE DEF Stopped, hostState, planState, workState
<1>1. CASE (\E c \in Components : TakeComponent(c)) \/ TakeBeacon
  BY <1>1, ServiceFrame DEF TakeComponent, TakeBeacon, Take
<1>2. CASE Stage \/ Refuse
  BY <1>2, ServiceFrame DEF Stage, Refuse, Settle
<1>3. CASE SnapshotAbsent \/ SnapshotBytes \/ SnapshotRecord
  BY <1>3, ServiceFrame DEF SnapshotAbsent, SnapshotBytes, SnapshotRecord
<1>4. CASE StopService
  BY <1>4 DEF StopService, InstallStep, ServiceInv, TypeOK, HostOK
<1>5. CASE InstallPackage
  BY <1>5, ServiceFrame DEF InstallPackage
<1>6. CASE MoveAside \/ Place \/ UndoMoveAside
  BY <1>6, ServiceFrame DEF MoveAside, Place, UndoMoveAside, NextBinary
<1>7. CASE HealthPasses \/ HealthFails \/ RestoreBinary
  BY <1>7, ServiceFrame DEF HealthPasses, HealthFails, RestoreBinary, NextBinary
<1>8. CASE RestartService
  BY <1>8 DEF RestartService, ServiceInv, TypeOK, HostOK
<1>9. CASE RecordInstalledBuild
  BY <1>9, ServiceFrame DEF RecordInstalledBuild
<1>10. CASE AdvanceState \/ KeepState \/ Finish
  BY <1>10, ServiceFrame DEF AdvanceState, KeepState, Settled, Finish
<1>. QED
  BY <1>1, <1>2, <1>3, <1>4, <1>5, <1>6, <1>7, <1>8, <1>9, <1>10 DEF PassStep

LEMMA ServiceFaultStep == TypeOK /\ ServiceInv /\ FaultStep => ServiceInv'
<1>. SUFFICES ASSUME TypeOK, ServiceInv, FaultStep PROVE ServiceInv'
  OBVIOUS
<1>. USE DEF Stopped, hostState, planState, workState
<1>1. CASE StageFault \/ SnapshotFault \/ RecordFault \/ AdvanceFault
  BY <1>1, ServiceFrame DEF StageFault, SnapshotFault, RecordFault, AdvanceFault, Settled
<1>2. CASE StopFault
  BY <1>2, ServiceFrame DEF StopFault
<1>3. CASE PackageLeftOld \/ PackageFails
  BY <1>3, ServiceFrame DEF PackageLeftOld, PackageFails
<1>4. CASE TargetLocked \/ ReplaceFails \/ PlaceFails \/ UndoFails
  BY <1>4, ServiceFrame DEF TargetLocked, ReplaceFails, PlaceFails, UndoFails
<1>5. CASE ProbeFault \/ RestoreFault
  BY <1>5, ServiceFrame DEF ProbeFault, RestoreFault
<1>6. CASE StartFault
  BY <1>6 DEF StartFault, ServiceInv
<1>7. CASE Crash
  BY <1>7 DEF Crash, ServiceInv
<1>. QED  BY <1>1, <1>2, <1>3, <1>4, <1>5, <1>6, <1>7 DEF FaultStep

\* No path from the stop of a service goes round its restart.
THEOREM ServiceInvariance == Spec => []ServiceInv
<1>1. Init => ServiceInv
  BY DEF Init, ServiceInv
<1>2. TypeOK /\ ServiceInv /\ [Next]_vars => ServiceInv'
  <2>. SUFFICES ASSUME TypeOK, ServiceInv, [Next]_vars PROVE ServiceInv'
    OBVIOUS
  <2>1. CASE \E o \in BOOLEAN, m \in Manifests \cup Foreign, now \in Times : Wake(m, o, now)
    BY <2>1, ServiceFrame DEF Wake, Stopped, hostState
  <2>2. CASE UNCHANGED vars
    BY <2>2, ServiceFrame DEF vars, pass
  <2>. QED  BY <2>1, <2>2, ServicePassStep, ServiceFaultStep DEF Next
<1>. QED  BY <1>1, <1>2, TypeCorrect, PTL DEF Spec

\* Between components, and after any pass, a service is down only because its
\* start failed or the broker was killed (ServicesComeBack).
THEOREM ServicesRestarted == Spec => []ServicesComeBack
<1>1. ServiceInv => ServicesComeBack
  BY DEF ServiceInv, Stopped, ServicesComeBack
<1>. QED  BY <1>1, ServiceInvariance, PTL

-----------------------------------------------------------------------------
(* The beacon.                                                               *)

\* Every component the pass planned is accounted for, and the beacon is taken
\* only when no other is left.
BeaconInv ==
  /\ pc \in {"restart", "record"} => result # "none"
  /\ pc # "idle" =>
       \A c \in Planned(man) \ {Beacon} :
         results[c] # "none" \/ c \in todo \/ (c = cur /\ pc \notin Between)
  /\ pc = "self" => todo \subseteq {Beacon}
  /\ pc \notin Between /\ cur = Beacon => todo = {}

LEMMA BeaconEnd == EndPass => BeaconInv'
BY DEF EndPass, BeaconInv, Between

LEMMA BeaconSettle ==
  ASSUME TypeOK, BeaconInv, pc \notin Between, NEW outcome, outcome # "none",
         Settle(outcome)
  PROVE  BeaconInv'
<1>1. /\ pc' = (IF cur = Beacon THEN "self" ELSE "next")
      /\ UNCHANGED <<man, todo, cur>>
      /\ \A c \in Components : results'[c] = IF c = cur THEN outcome ELSE results[c]
  BY DEF Settle, planState, TypeOK, PassOK
<1>2. \A c \in Planned(man) \ {Beacon} : results'[c] # "none" \/ c \in todo
  BY <1>1 DEF BeaconInv, Planned, Between
<1>3. Planned(man') = Planned(man)
  BY <1>1
<1>. QED  BY <1>1, <1>2, <1>3 DEF BeaconInv, Between

\* A step of the work on one component.
LEMMA BeaconWork ==
  ASSUME BeaconInv, pc \notin Between, pc' \notin Between,
         UNCHANGED <<man, todo, cur, results>>,
         pc' \in {"restart", "record"} => result' # "none"
  PROVE  BeaconInv'
<1>1. Planned(man') = Planned(man)
  OBVIOUS
<1>. QED  BY <1>1 DEF BeaconInv, Between

LEMMA BeaconPassStep == TypeOK /\ BeaconInv /\ PassStep => BeaconInv'
<1>. SUFFICES ASSUME TypeOK, BeaconInv, PassStep PROVE BeaconInv'
  OBVIOUS
<1>. USE DEF Between, hostState, planState, workState
<1>1. ASSUME NEW c \in Components, pc \in {"next", "self"}, Take(c),
             c = Beacon => pc = "self"
      PROVE  BeaconInv'
  <2>1. /\ pc' = "stage" /\ cur' = c /\ todo' = todo \ {c}
        /\ UNCHANGED <<man, results>>
    BY <1>1 DEF Take
  <2>2. Planned(man') = Planned(man)
    BY <2>1
  <2>. QED  BY <1>1, <2>1, <2>2 DEF BeaconInv
<1>2. CASE \E c \in Components : TakeComponent(c)
  BY <1>1, <1>2 DEF TakeComponent
<1>3. CASE TakeBeacon
  BY <1>1, <1>3, CatalogAssumption DEF TakeBeacon
<1>4. CASE Stage
  BY <1>4, BeaconWork DEF Stage
<1>5. CASE Refuse
  BY <1>5, BeaconSettle DEF Refuse
<1>6. CASE SnapshotAbsent \/ SnapshotBytes \/ SnapshotRecord
  BY <1>6, BeaconWork DEF SnapshotAbsent, SnapshotBytes, SnapshotRecord, NextBinary,
                          AfterSnapshot, InstallStep
<1>7. CASE StopService
  BY <1>7, BeaconWork DEF StopService, InstallStep
<1>8. CASE InstallPackage
  BY <1>8, BeaconWork DEF InstallPackage
<1>9. CASE MoveAside \/ Place \/ UndoMoveAside
  BY <1>9, BeaconWork DEF MoveAside, Place, UndoMoveAside, NextBinary
<1>10. CASE HealthPasses \/ HealthFails \/ RestoreBinary
  BY <1>10, BeaconWork DEF HealthPasses, HealthFails, RestoreBinary, NextBinary
<1>11. CASE RestartService
  BY <1>11, BeaconEnd, BeaconWork DEF RestartService, Propagate, BeaconInv
<1>12. CASE RecordInstalledBuild
  BY <1>12, BeaconSettle DEF RecordInstalledBuild, BeaconInv
<1>13. CASE AdvanceState \/ KeepState
  <2>1. /\ pc = "next" /\ pc' = "self" /\ todo \subseteq {Beacon}
        /\ UNCHANGED <<man, todo, results>>
    BY <1>13 DEF AdvanceState, KeepState, Settled
  <2>2. Planned(man') = Planned(man)
    BY <2>1
  <2>. QED  BY <2>1, <2>2 DEF BeaconInv
<1>14. CASE Finish
  BY <1>14, BeaconEnd DEF Finish
<1>. QED
  BY <1>2, <1>3, <1>4, <1>5, <1>6, <1>7, <1>8, <1>9, <1>10, <1>11, <1>12, <1>13, <1>14
     DEF PassStep

LEMMA BeaconFaultStep == TypeOK /\ BeaconInv /\ FaultStep => BeaconInv'
<1>. SUFFICES ASSUME TypeOK, BeaconInv, FaultStep PROVE BeaconInv'
  OBVIOUS
<1>. USE DEF Between, hostState, planState, workState
<1>1. CASE StageFault \/ SnapshotFault \/ AdvanceFault
  BY <1>1, BeaconEnd DEF StageFault, SnapshotFault, AdvanceFault, Abort
<1>2. CASE StopFault
  BY <1>2, BeaconSettle DEF StopFault
<1>3. CASE PackageLeftOld \/ PackageFails
  BY <1>3, BeaconWork DEF PackageLeftOld, PackageFails
<1>4. CASE TargetLocked \/ ReplaceFails \/ PlaceFails \/ UndoFails
  BY <1>4, BeaconWork DEF TargetLocked, ReplaceFails, PlaceFails, UndoFails
<1>5. CASE ProbeFault \/ RestoreFault
  BY <1>5, BeaconWork DEF ProbeFault, RestoreFault
<1>6. CASE StartFault
  BY <1>6, BeaconEnd, BeaconWork DEF StartFault, Propagate, BeaconInv
<1>7. CASE RecordFault
  BY <1>7, BeaconSettle DEF RecordFault, BeaconInv
<1>8. CASE Crash
  BY <1>8, BeaconEnd DEF Crash
<1>. QED  BY <1>1, <1>2, <1>3, <1>4, <1>5, <1>6, <1>7, <1>8 DEF FaultStep

\* The loop of a pass forgets no planned component, and leaves the beacon for last.
THEOREM BeaconInvariance == Spec => []BeaconInv
<1>1. Init => BeaconInv
  BY DEF Init, BeaconInv, Between
<1>2. TypeOK /\ BeaconInv /\ [Next]_vars => BeaconInv'
  <2>. SUFFICES ASSUME TypeOK, BeaconInv, [Next]_vars PROVE BeaconInv'
    OBVIOUS
  <2>1. ASSUME NEW o \in BOOLEAN, NEW m \in Manifests \cup Foreign, NEW now \in Times,
               Wake(m, o, now)
        PROVE  BeaconInv'
    <3>1. pc' = "next" /\ man' = m /\ todo' = Acting(m) /\ results' = Planning(m)
      BY <2>1 DEF Wake
    <3>2. \A c \in Planned(m) : Planning(m)[c] # "none" \/ c \in Acting(m)
      BY DEF Planning, Planned, Acting
    <3>3. Planned(man') = Planned(m)
      BY <3>1
    <3>. QED  BY <3>1, <3>2, <3>3 DEF BeaconInv, Between
  <2>2. CASE UNCHANGED vars
    <3>1. Planned(man') = Planned(man)
      BY <2>2 DEF vars, pass
    <3>. QED  BY <2>2, <3>1 DEF BeaconInv, vars, pass
  <2>. QED  BY <2>1, <2>2, BeaconPassStep, BeaconFaultStep DEF Next
<1>. QED  BY <1>1, <1>2, TypeCorrect, PTL DEF Spec

\* A step changes the disk only while a component is being applied, and only at
\* that component's binaries.
LEMMA DiskChange ==
  ASSUME TypeOK, Next, NEW c \in Components, disk'[c] # disk[c]
  PROVE  pc \notin Between /\ c = cur
<1>. USE DEF Between, hostState
<1>. DEFINE Write == \E b, k : disk' = [disk EXCEPT ![cur][k] = b]
<1>1. disk' # disk
  OBVIOUS
<1>2. ASSUME Write PROVE c = cur
  BY <1>2 DEF TypeOK, HostOK, Disk
<1>3. CASE \E o \in BOOLEAN, m \in Manifests \cup Foreign, now \in Times : Wake(m, o, now)
  BY <1>1, <1>3 DEF Wake
<1>4. CASE PassStep
  <2>1. InstallPackage \/ MoveAside \/ Place \/ UndoMoveAside \/ RestoreBinary
    BY <1>1, <1>4
       DEF PassStep, TakeComponent, TakeBeacon, Take, Stage, Refuse, SnapshotAbsent,
           SnapshotBytes, SnapshotRecord, StopService, HealthPasses, HealthFails,
           RestartService, RecordInstalledBuild, AdvanceState, KeepState, Finish
  <2>2. pc \in {"package", "aside", "place", "undo", "rollback"} /\ Write
    BY <2>1 DEF InstallPackage, MoveAside, Place, UndoMoveAside, RestoreBinary
  <2>. QED  BY <1>2, <2>2
<1>5. CASE FaultStep
  <2>1. PackageFails
    BY <1>1, <1>5
       DEF FaultStep, StageFault, SnapshotFault, StopFault, PackageLeftOld, TargetLocked,
           ReplaceFails, PlaceFails, UndoFails, ProbeFault, RestoreFault, StartFault,
           RecordFault, AdvanceFault, Crash
  <2>2. pc = "package" /\ Write
    BY <2>1 DEF PackageFails
  <2>. QED  BY <1>2, <2>2
<1>. QED  BY <1>3, <1>4, <1>5 DEF Next

\* The beacon's own image moves last (BeaconLast).
THEOREM BeaconIsLast == Spec => BeaconLast
<1>1. TypeOK /\ BeaconInv /\ ServiceInv /\ [Next]_vars =>
        (disk'[Beacon] # disk[Beacon] =>
           /\ todo = {}
           /\ \A c \in Planned(man) \ {Beacon} : results[c] # "none"
           /\ \A s \in Services \ {Beacon} : svc[s] = "down" => s \in excused)
  <2>. SUFFICES ASSUME TypeOK, BeaconInv, ServiceInv, [Next]_vars,
                       disk'[Beacon] # disk[Beacon]
                PROVE  /\ todo = {}
                       /\ \A c \in Planned(man) \ {Beacon} : results[c] # "none"
                       /\ \A s \in Services \ {Beacon} : svc[s] = "down" => s \in excused
    OBVIOUS
  <2>1. pc \notin Between /\ cur = Beacon
    BY DiskChange, CatalogAssumption DEF vars
  <2>. QED  BY <2>1 DEF BeaconInv, ServiceInv, Between
<1>. QED  BY <1>1, TypeCorrect, BeaconInvariance, ServiceInvariance, PTL DEF Spec, BeaconLast

-----------------------------------------------------------------------------
(* The last-known-good cache.                                                *)

\* The steps at which the cache is written.
Caching == {"snapBytes", "snapRecord"}

\* What the snapshot holds is in the cache, under the binary's own key, until the
\* component is through; and a record names the build of the bytes it digests.
CacheInv ==
  /\ pc \notin Between => \A k \in Slot : snap[k] # None => lkg[cur][k].bytes = snap[k]
  /\ pc \in Caching => \A k \in Slot : snap[k] # None => snap[k] = disk[cur][k]
  /\ pc = "snapRecord" => lkg[cur][slot].bytes = disk[cur][slot]
  /\ pc = "stage" => snap = EmptySnap
  /\ pc # "idle" => \A c \in Components : prior[c] \in {None, start[c][1]}
  /\ \A c \in Components : lkg[c][1].build # None => lkg[c][1].build = lkg[c][1].digest

LEMMA CacheInit == Init => CacheInv
BY SlotType DEF Init, CacheInv, Between, Caching, NoEntry

LEMMA CacheEnd ==
  ASSUME EndPass, CacheInv, UNCHANGED lkg PROVE CacheInv'
BY DEF EndPass, CacheInv, Between, Caching

\* Away from the snapshot the cache is not touched, and neither is what it is
\* compared with.
LEMMA CacheFrame ==
  ASSUME CacheInv, UNCHANGED <<lkg, prior, start>>,
         pc \notin Between, pc' \notin {"idle", "stage"} \cup Caching,
         pc' \notin Between => UNCHANGED <<cur, snap>>
  PROVE  CacheInv'
BY DEF CacheInv, Between, Caching

\* Writing the bytes of one entry, or its record.
LEMMA CacheBytes ==
  ASSUME TypeOK, NEW b, lkg' = [lkg EXCEPT ![cur][slot].bytes = b]
  PROVE  \A c \in Components : \A k \in Slot :
           /\ lkg'[c][k].bytes = IF c = cur /\ k = slot THEN b ELSE lkg[c][k].bytes
           /\ lkg'[c][k].digest = lkg[c][k].digest
           /\ lkg'[c][k].build = lkg[c][k].build
<1>1. /\ lkg \in [Components -> [Slot -> LkgEntry]] /\ cur \in Components /\ slot \in Slot
      /\ DOMAIN lkg[cur][slot] = {"bytes", "digest", "build"}
  BY DEF TypeOK, HostOK, PassOK, LkgEntry
<1>2. ASSUME NEW c \in Components, NEW k \in Slot
      PROVE  lkg'[c][k] = IF c = cur /\ k = slot THEN [lkg[c][k] EXCEPT !.bytes = b]
                                                 ELSE lkg[c][k]
  BY <1>1
<1>. QED  BY <1>1, <1>2

WithRecord(d, n) == [lkg EXCEPT ![cur][slot].digest = d, ![cur][slot].build = n]

LEMMA CacheRecord ==
  ASSUME TypeOK, NEW d, NEW n, lkg' = WithRecord(d, n)
  PROVE  \A c \in Components : \A k \in Slot :
           /\ lkg'[c][k].bytes = lkg[c][k].bytes
           /\ lkg'[c][k].digest = IF c = cur /\ k = slot THEN d ELSE lkg[c][k].digest
           /\ lkg'[c][k].build = IF c = cur /\ k = slot THEN n ELSE lkg[c][k].build
<1>1. /\ lkg \in [Components -> [Slot -> LkgEntry]] /\ cur \in Components /\ slot \in Slot
      /\ DOMAIN lkg[cur][slot] = {"bytes", "digest", "build"}
  BY DEF TypeOK, HostOK, PassOK, LkgEntry
<1>. DEFINE l == [lkg EXCEPT ![cur][slot].digest = d]
<1>2. ASSUME NEW c \in Components, NEW k \in Slot
      PROVE  l[c][k] = IF c = cur /\ k = slot THEN [lkg[c][k] EXCEPT !.digest = d]
                                              ELSE lkg[c][k]
  BY <1>1
<1>3. lkg' = [l EXCEPT ![cur][slot].build = n]
  BY DEF WithRecord
<1>4. DOMAIN l = Components /\ \A c \in Components : DOMAIN l[c] = Slot
  BY <1>1
<1>5. DOMAIN l[cur][slot] = {"bytes", "digest", "build"}
  BY <1>1, <1>2
<1>. HIDE DEF l
<1>6. ASSUME NEW c \in Components, NEW k \in Slot
      PROVE  lkg'[c][k] = IF c = cur /\ k = slot THEN [l[c][k] EXCEPT !.build = n]
                                                 ELSE l[c][k]
  BY <1>1, <1>3, <1>4
<1>7. ASSUME NEW c \in Components, NEW k \in Slot
      PROVE  /\ lkg'[c][k].bytes = l[c][k].bytes
             /\ lkg'[c][k].digest = l[c][k].digest
             /\ lkg'[c][k].build = IF c = cur /\ k = slot THEN n ELSE l[c][k].build
  BY <1>5, <1>6
<1>8. ASSUME NEW c \in Components, NEW k \in Slot
      PROVE  /\ l[c][k].bytes = lkg[c][k].bytes
             /\ l[c][k].digest = IF c = cur /\ k = slot THEN d ELSE lkg[c][k].digest
             /\ l[c][k].build = lkg[c][k].build
  BY <1>1, <1>2, ZenonT(60)
<1>. QED  BY <1>7, <1>8

LEMMA CacheSnapshot ==
  ASSUME TypeOK, TypeOK', RestoreInv, CacheInv, SnapshotAbsent \/ SnapshotBytes \/ SnapshotRecord
  PROVE  CacheInv'
<1>. USE DEF Between, Caching, hostState, planState, workState
<1>1. /\ cur \in Components /\ slot \in Slot /\ snap \in [Slot -> Nat]
      /\ disk[cur] = start[cur] /\ UNCHANGED <<disk, cur, prior, start>> /\ pc \in Caching
  BY DEF TypeOK, PassOK, RestoreInv, SnapInv, SnapshotAbsent, SnapshotBytes, SnapshotRecord
<1>2. CASE SnapshotAbsent
  <2>1. /\ UNCHANGED lkg /\ pc' \in {"snapBytes", "stop", "package", "aside"}
        /\ snap' = [snap EXCEPT ![slot] = None]
    BY <1>2 DEF SnapshotAbsent, NextBinary, AfterSnapshot, InstallStep
  <2>. QED  BY <1>1, <2>1 DEF CacheInv
<1>3. CASE SnapshotBytes
  <2>1. /\ lkg' = [lkg EXCEPT ![cur][slot].bytes = disk[cur][slot]]
        /\ pc' = "snapRecord" /\ UNCHANGED <<slot, snap>>
    BY <1>3 DEF SnapshotBytes
  <2>2. \A c \in Components : \A k \in Slot :
          /\ lkg'[c][k].bytes = IF c = cur /\ k = slot THEN disk[cur][slot] ELSE lkg[c][k].bytes
          /\ lkg'[c][k].digest = lkg[c][k].digest
          /\ lkg'[c][k].build = lkg[c][k].build
    BY <2>1, CacheBytes
  <2>3. \A c \in Components : /\ lkg'[c][1].build = lkg[c][1].build
                              /\ lkg'[c][1].digest = lkg[c][1].digest
    BY <2>2, SlotType
  <2>. QED  BY <1>1, <2>1, <2>2, <2>3 DEF CacheInv
<1>4. CASE SnapshotRecord
  <2>1. /\ lkg' = WithRecord(disk[cur][slot], prior[cur])
        /\ snap' = [snap EXCEPT ![slot] = disk[cur][slot]] /\ pc = "snapRecord"
        /\ pc' \in {"snapBytes", "stop", "package", "aside"}
    BY <1>4 DEF SnapshotRecord, NextBinary, AfterSnapshot, InstallStep, WithRecord
  <2>2. \A c \in Components : \A k \in Slot :
          /\ lkg'[c][k].bytes = lkg[c][k].bytes
          /\ lkg'[c][k].digest = IF c = cur /\ k = slot THEN disk[cur][slot] ELSE lkg[c][k].digest
          /\ lkg'[c][k].build = IF c = cur /\ k = slot THEN prior[cur] ELSE lkg[c][k].build
    BY <2>1, CacheRecord
  <2>3. \A k \in Slot : snap'[k] = IF k = slot THEN disk[cur][slot] ELSE snap[k]
    BY <1>1, <2>1
  <2>4. \A c \in Components :
          lkg'[c][1].build # None => lkg'[c][1].build = lkg'[c][1].digest
    BY <1>1, <2>1, <2>2, SlotType DEF CacheInv
  <2>. QED  BY <1>1, <2>1, <2>2, <2>3, <2>4 DEF CacheInv
<1>. QED  BY <1>2, <1>3, <1>4

LEMMA CachePassStep ==
  ASSUME TypeOK, TypeOK', RestoreInv, CacheInv, PassStep PROVE CacheInv'
<1>. USE DEF Between, Caching, hostState, planState, workState
<1>1. CASE (\E c \in Components : TakeComponent(c)) \/ TakeBeacon
  <2>1. /\ pc \in {"next", "self"} /\ pc' = "stage"
        /\ UNCHANGED <<lkg, prior, start, snap>>
    BY <1>1 DEF TakeComponent, TakeBeacon, Take
  <2>2. snap = EmptySnap /\ \A k \in Slot : snap[k] = None
    BY <2>1 DEF RestoreInv, WorkInv, EmptySnap
  <2>. QED  BY <2>1, <2>2 DEF CacheInv
<1>2. CASE Stage
  <2>1. /\ pc = "stage" /\ pc' = "snapBytes" /\ UNCHANGED <<lkg, prior, start, snap, cur, disk>>
    BY <1>2 DEF Stage
  <2>2. \A k \in Slot : snap[k] # None => snap[k] = disk[cur][k]
    BY <2>1 DEF CacheInv, EmptySnap
  <2>. QED  BY <2>1, <2>2 DEF CacheInv
<1>3. CASE Refuse \/ RecordInstalledBuild
  BY <1>3, CacheFrame DEF Refuse, RecordInstalledBuild, Settle
<1>4. CASE SnapshotAbsent \/ SnapshotBytes \/ SnapshotRecord
  BY <1>4, CacheSnapshot
<1>5. CASE StopService \/ InstallPackage \/ MoveAside
  BY <1>5, CacheFrame DEF StopService, InstallPackage, MoveAside, InstallStep
<1>6. CASE Place \/ UndoMoveAside \/ HealthPasses \/ HealthFails \/ RestoreBinary
  BY <1>6, CacheFrame DEF Place, UndoMoveAside, HealthPasses, HealthFails, RestoreBinary,
                          NextBinary
<1>7. CASE RestartService
  BY <1>7, CacheEnd, CacheFrame DEF RestartService, Propagate
<1>8. CASE AdvanceState \/ KeepState
  BY <1>8 DEF AdvanceState, KeepState, Settled, CacheInv
<1>9. CASE Finish
  BY <1>9, CacheEnd DEF Finish
<1>. QED  BY <1>1, <1>2, <1>3, <1>4, <1>5, <1>6, <1>7, <1>8, <1>9 DEF PassStep

LEMMA CacheFaultStep ==
  ASSUME TypeOK, CacheInv, FaultStep PROVE CacheInv'
<1>. USE DEF Between, Caching, hostState, planState, workState
<1>1. CASE StageFault \/ AdvanceFault \/ Crash
  BY <1>1, CacheEnd DEF StageFault, AdvanceFault, Crash, Abort
<1>2. CASE SnapshotFault
  <2>1. EndPass /\ (UNCHANGED lkg \/ lkg' = WithRecord(None, None))
    BY <1>2 DEF SnapshotFault, Abort, WithRecord
  <2>2. ASSUME NEW c \in Components, lkg' # lkg
        PROVE  \/ lkg'[c][1].build = None
               \/ /\ lkg'[c][1].build = lkg[c][1].build
                  /\ lkg'[c][1].digest = lkg[c][1].digest
    BY <2>1, <2>2, CacheRecord, SlotType
  <2>3. \A c \in Components :
          lkg'[c][1].build # None => lkg'[c][1].build = lkg'[c][1].digest
    BY <2>2 DEF CacheInv
  <2>. QED  BY <2>1, <2>3 DEF EndPass, CacheInv
<1>3. CASE StopFault \/ RecordFault
  BY <1>3, CacheFrame DEF StopFault, RecordFault, Settle
<1>4. CASE PackageLeftOld \/ PackageFails \/ TargetLocked \/ ReplaceFails
  BY <1>4, CacheFrame DEF PackageLeftOld, PackageFails, TargetLocked, ReplaceFails
<1>5. CASE PlaceFails \/ UndoFails \/ ProbeFault \/ RestoreFault
  BY <1>5, CacheFrame DEF PlaceFails, UndoFails, ProbeFault, RestoreFault
<1>6. CASE StartFault
  BY <1>6, CacheEnd, CacheFrame DEF StartFault, Propagate
<1>. QED  BY <1>1, <1>2, <1>3, <1>4, <1>5, <1>6 DEF FaultStep

\* The cache keeps what the snapshot holds, and its records tell the truth.
THEOREM CacheInvariance == Spec => []CacheInv
<1>1. TypeOK /\ TypeOK' /\ RestoreInv /\ CacheInv /\ [Next]_vars => CacheInv'
  <2>. SUFFICES ASSUME TypeOK, TypeOK', RestoreInv, CacheInv, [Next]_vars PROVE CacheInv'
    OBVIOUS
  <2>1. ASSUME NEW o \in BOOLEAN, NEW m \in Manifests \cup Foreign, NEW now \in Times,
               Wake(m, o, now)
        PROVE  CacheInv'
    <3>1. /\ pc = "idle" /\ pc' = "next" /\ start' = disk /\ UNCHANGED lkg
          /\ prior' = [c \in Components |-> InstalledBuild(c, m.build[c])]
      BY <2>1 DEF Wake, hostState
    <3>2. \A c \in Components : prior'[c] \in {None, start'[c][1]}
      BY <3>1 DEF InstalledBuild
    <3>. QED  BY <3>1, <3>2 DEF CacheInv, Between, Caching
  <2>2. CASE UNCHANGED vars
    BY <2>2 DEF CacheInv, vars, pass
  <2>. QED  BY <2>1, <2>2, CachePassStep, CacheFaultStep DEF Next
<1>. QED  BY CacheInit, TypeCorrect, RestoreInvariance, <1>1, PTL DEF Spec

\* The rollback finds the bytes of its snapshot in the cache, so that it never
\* refuses them (RestoreNeverRefused).
THEOREM RestoreFindsItsBytes == Spec => []RestoreNeverRefused
<1>1. TypeOK /\ CacheInv => RestoreNeverRefused
  BY DEF CacheInv, RestoreNeverRefused, CacheIntact, Between, TypeOK, PassOK
<1>. QED  BY <1>1, TypeCorrect, CacheInvariance, PTL

\* A readable record beside matching bytes ages a primary truly (PrimaryAgedTruly).
THEOREM PrimaryAged == Spec => []PrimaryAgedTruly
<1>1. CacheInv => PrimaryAgedTruly
  BY DEF CacheInv, PrimaryAgedTruly
<1>. QED  BY <1>1, CacheInvariance, PTL

-----------------------------------------------------------------------------
(* Off-channel passes.                                                       *)

\* A pass of an overridden feed moves no mark and records no build.
THEOREM OverrideIsTraceless == Spec => OverrideLeavesNoTrace
<1>1. TypeOK /\ [Next]_vars => (override => UNCHANGED <<marks, recorded>>)
  <2>. SUFFICES ASSUME TypeOK, [Next]_vars, override PROVE UNCHANGED <<marks, recorded>>
    OBVIOUS
  <2>. USE DEF hostState
  <2>1. CASE \E o \in BOOLEAN, m \in Manifests \cup Foreign, now \in Times : Wake(m, o, now)
    BY <2>1 DEF Wake
  <2>2. CASE RecordInstalledBuild
    <3>1. BuildToRecord = recorded[cur]
      BY DEF BuildToRecord
    <3>2. recorded' = [recorded EXCEPT ![cur] = recorded[cur]] /\ UNCHANGED marks
      BY <2>2, <3>1 DEF RecordInstalledBuild
    <3>. QED  BY <3>2 DEF TypeOK, HostOK
  <2>3. CASE PassStep /\ ~RecordInstalledBuild
    BY <2>3
       DEF PassStep, TakeComponent, TakeBeacon, Take, Stage, Refuse, SnapshotAbsent,
           SnapshotBytes, SnapshotRecord, StopService, InstallPackage, MoveAside, Place,
           UndoMoveAside, HealthPasses, HealthFails, RestoreBinary, RestartService,
           AdvanceState, KeepState, Finish
  <2>4. CASE FaultStep
    BY <2>4
       DEF FaultStep, StageFault, SnapshotFault, StopFault, PackageLeftOld, PackageFails,
           TargetLocked, ReplaceFails, PlaceFails, UndoFails, ProbeFault, RestoreFault,
           StartFault, RecordFault, AdvanceFault, Crash
  <2>5. CASE UNCHANGED vars
    BY <2>5 DEF vars
  <2>. QED  BY <2>1, <2>2, <2>3, <2>4, <2>5 DEF Next
<1>. QED  BY <1>1, TypeCorrect, PTL DEF Spec, OverrideLeavesNoTrace

-----------------------------------------------------------------------------
(* What an installed and what a deferred component look like.                *)

\* The whole set is the primary's bytes, and they pass the gate.
Whole(c) ==
  \A k \in BinarySet(c) :
    /\ disk[c][k] = disk[c][1]
    /\ disk[c][k] >= man.build[c]
    /\ Evidence[c] = "probe" => <<c, disk[c][k]>> \notin Mute

\* Nothing of the set is lost, and nothing in it is from elsewhere.
Intact(c) ==
  /\ disk[c][1] \in {start[c][1], man.build[c]}
  /\ \A k \in BinarySet(c) :
       /\ disk[c][k] \in {start[c][k], disk[c][1]}
       /\ start[c][k] # None => disk[c][k] # None

\* The replace works its way up the set: behind it the binaries are the primary's
\* bytes, before it they are as found, and the one in work is moved aside or not.
ReplaceInv ==
  /\ pc = "package" => disk[cur] = start[cur]
  /\ pc \in {"aside", "place", "undo"} =>
       /\ \A j \in BinarySet(cur) : j < slot => disk[cur][j] = disk[cur][1]
       /\ \A j \in BinarySet(cur) : j > slot => disk[cur][j] = start[cur][j]
       /\ slot > 1 => disk[cur][1] \in {start[cur][1], man.build[cur]} \ {None}
  /\ pc = "aside" => disk[cur][slot] = start[cur][slot]
  /\ pc \in {"place", "undo"} =>
       /\ disk[cur][slot] = None /\ aside[cur][slot] = start[cur][slot]
       /\ moved = (start[cur][slot] # None)
  /\ pc = "health" =>
       /\ \A j \in BinarySet(cur) : disk[cur][j] = disk[cur][1]
       /\ \A j \in BinarySet(cur) : j < slot => Healthy(j)

\* What the result of the component in work, and of those settled, promises.
PromiseInv ==
  /\ result = "Installed" => Whole(cur)
  /\ result = "Deferred" => Intact(cur)
  /\ \A c \in Components : results[c] = "Installed" => Whole(c)
  /\ \A c \in Components : results[c] = "Deferred" => Intact(c)

GateInv == ReplaceInv /\ PromiseInv

\* What the steps of the replace may rely on.
Working == TypeOK /\ TypeOK' /\ FloorInv /\ RestoreInv /\ GateInv

LEMMA GateInit == Init => GateInv
BY DEF Init, GateInv, ReplaceInv, PromiseInv, Nothing

LEMMA GateEnd == EndPass => GateInv'
BY DEF EndPass, GateInv, ReplaceInv, PromiseInv, Nothing

LEMMA GateSettle ==
  ASSUME Working, pc \notin Between, NEW outcome \in Outcomes, Settle(outcome),
         UNCHANGED disk,
         outcome = "Installed" => Whole(cur), outcome = "Deferred" => Intact(cur)
  PROVE  GateInv'
<1>1. /\ pc' \in {"self", "next"} /\ result' = "none" /\ UNCHANGED <<man, start, cur>>
      /\ \A c \in Components : results'[c] = IF c = cur THEN outcome ELSE results[c]
  BY DEF Settle, planState, Working, TypeOK, PassOK
<1>2. \A c \in Components : (Whole(c))' = Whole(c) /\ (Intact(c))' = Intact(c)
  BY <1>1 DEF Whole, Intact
<1>3. PromiseInv'
  BY <1>1, <1>2 DEF Working, GateInv, PromiseInv
<1>. QED  BY <1>1, <1>3 DEF GateInv, ReplaceInv

\* A step of the work on one component disturbs no other component's promise.
LEMMA GateWorkOn ==
  ASSUME Working, pc \notin Between, pc' \notin Between,
         UNCHANGED <<man, start, cur, results>>,
         \A c \in Components \ {cur} : disk'[c] = disk[c],
         ReplaceInv',
         \/ result' = result /\ disk' = disk
         \/ result' = "Installed" /\ (Whole(cur))'
         \/ result' = "Deferred" /\ (Intact(cur))'
         \/ result' \notin {"Installed", "Deferred"}
  PROVE  GateInv'
<1>1. cur \in Components /\ results[cur] = "none"
  BY DEF Working, TypeOK, PassOK, RestoreInv, WorkInv
<1>2. \A c \in Components \ {cur} : (Whole(c))' = Whole(c) /\ (Intact(c))' = Intact(c)
  BY DEF Whole, Intact
<1>3. /\ \A c \in Components : results'[c] = "Installed" => (Whole(c))'
      /\ \A c \in Components : results'[c] = "Deferred" => (Intact(c))'
  BY <1>1, <1>2 DEF Working, GateInv, PromiseInv
<1>4. /\ result' = "Installed" => (Whole(cur))'
      /\ result' = "Deferred" => (Intact(cur))'
  BY DEF Working, GateInv, PromiseInv, Whole, Intact
<1>. QED  BY <1>3, <1>4 DEF GateInv, PromiseInv

\* The steps before the replace, its way to the rollback and the way out of it.
LEMMA GateElsewhere ==
  ASSUME Working, pc \notin Between,
         pc' \in {"stage", "snapBytes", "snapRecord", "stop", "rollback", "restart", "record"},
         UNCHANGED <<man, start, cur, results>>,
         \A c \in Components \ {cur} : disk'[c] = disk[c],
         \/ result' = result /\ disk' = disk
         \/ result' \notin {"Installed", "Deferred"}
  PROVE  GateInv'
BY GateWorkOn DEF ReplaceInv, Between

\* Facts about the component in work.
LEMMA AtWork ==
  ASSUME Working, pc \notin Between
  PROVE  /\ cur \in Components /\ slot \in BinarySet(cur) /\ slot \in Nat \ {0}
         /\ Width[cur] \in Nat \ {0} /\ BinarySet(cur) = 1..Width[cur]
         /\ disk[cur] \in [Slot -> Nat] /\ start[cur] \in [Slot -> Nat]
         /\ aside[cur] \in [Slot -> Nat] /\ BinarySet(cur) \subseteq Slot
         /\ man.build[cur] \in Nat \ {None}
         /\ pc \notin {"restart", "record"} => result = "none"
         /\ pc \in {"stage", "stop", "package"} => slot = 1
<1>1. man \in Manifests \cup Foreign
  BY DEF Working, TypeOK, PassOK, Between
<1>2. cur \in Components /\ Offers(man, cur)
  BY DEF Working, TypeOK, PassOK, FloorInv, Between
<1>3. man.build[cur] \in Nat \ {None}
  BY <1>1, <1>2, ManifestType DEF Offers
<1>4. disk[cur] \in [Slot -> Nat] /\ aside[cur] \in [Slot -> Nat]
  BY <1>2 DEF Working, TypeOK, HostOK, Disk
<1>. QED
  BY <1>2, <1>3, <1>4, SetFacts, SlotType
     DEF Working, RestoreInv, WorkInv, BinarySet, Between

\* Writing one binary of the set.
Written(j, b) == [disk EXCEPT ![cur][j] = b]

LEMMA WriteOne ==
  ASSUME Working, pc \notin Between, NEW j \in BinarySet(cur), NEW b,
         disk' = Written(j, b)
  PROVE  /\ \A c \in Components \ {cur} : disk'[c] = disk[c]
         /\ \A k \in BinarySet(cur) : disk'[cur][k] = IF k = j THEN b ELSE disk[cur][k]
BY AtWork DEF Working, TypeOK, HostOK, Disk, Written

\* Into the replace: of a set that is as it was found.
LEMMA GateEnter ==
  ASSUME Working, pc \in {"snapBytes", "snapRecord", "stop"}, pc' \in {"package", "aside"},
         slot' = 1, UNCHANGED <<man, start, cur, results, result, disk>>
  PROVE  GateInv'
<1>1. disk'[cur] = start[cur]
  BY DEF Working, RestoreInv, SnapInv
<1>3. pc \notin Between
  BY DEF Between
<1>4. \A j \in BinarySet(cur) : ~(j < 1)
  BY <1>3, AtWork
<1>2. ReplaceInv'
  BY <1>1, <1>4 DEF ReplaceInv, BinarySet
<1>. QED  BY <1>2, GateWorkOn DEF Between

LEMMA GateSnapshot ==
  ASSUME Working, SnapshotAbsent \/ SnapshotBytes \/ SnapshotRecord PROVE GateInv'
<1>. USE DEF hostState, planState, workState
<1>1. CASE SnapshotBytes
  BY <1>1, GateElsewhere DEF SnapshotBytes, Between
<1>2. CASE SnapshotAbsent \/ SnapshotRecord
  <2>1. /\ pc \in {"snapBytes", "snapRecord"}
        /\ UNCHANGED <<man, start, cur, results, result, disk>>
        /\ \/ pc' \in {"snapBytes", "stop"}
           \/ pc' \in {"package", "aside"} /\ slot' = 1
    BY <1>2 DEF SnapshotAbsent, SnapshotRecord, NextBinary, AfterSnapshot, InstallStep
  <2>. QED  BY <2>1, GateEnter, GateElsewhere DEF Between
<1>. QED  BY <1>1, <1>2

\* A package is in place, or left the old primary.
LEMMA GatePackage ==
  ASSUME Working, InstallPackage \/ PackageLeftOld \/ PackageFails PROVE GateInv'
<1>. USE DEF hostState, planState, workState
<1>1. /\ pc = "package" /\ pc \notin Between /\ disk[cur] = start[cur] /\ slot = 1
      /\ UNCHANGED <<man, start, cur, results, result>>
  BY AtWork DEF InstallPackage, PackageLeftOld, PackageFails, Between, Working, GateInv,
                ReplaceInv
<1>2. CASE PackageFails
  <2>1. PICK b : disk' = Written(1, b)
    BY <1>2 DEF PackageFails, Written
  <2>2. \A c \in Components \ {cur} : disk'[c] = disk[c]
    BY <1>1, <2>1, WriteOne, AtWork
  <2>. QED  BY <1>1, <1>2, <2>2, AtWork, GateElsewhere DEF PackageFails
<1>3. ASSUME NEW b, disk' = Written(1, b), b \in {start[cur][1], man.build[cur]},
             \/ pc' = "aside" /\ slot' = 2 /\ Width[cur] > 1 /\ b # None
             \/ pc' = "health" /\ slot' = 1 /\ Width[cur] = 1
      PROVE  GateInv'
  <2>1. /\ \A c \in Components \ {cur} : disk'[c] = disk[c]
        /\ \A k \in BinarySet(cur) : disk'[cur][k] = IF k = 1 THEN b ELSE start[cur][k]
    <3>1. 1 \in BinarySet(cur)
      BY <1>1, AtWork
    <3>. QED  BY <1>1, <1>3, <3>1, WriteOne
  <2>2. 1 \in BinarySet(cur) /\ (Width[cur] > 1 => 2 \in BinarySet(cur))
    BY <1>1, AtWork
  <2>3. CASE pc' = "aside"
    <3>1. \A j \in BinarySet(cur) : j < 2 => j = 1
      BY <1>1, AtWork
    <3>2. ReplaceInv'
      BY <1>1, <1>3, <2>1, <2>2, <2>3, <3>1 DEF ReplaceInv, BinarySet
    <3>. QED  BY <1>1, <2>1, <2>3, <3>2, AtWork, GateWorkOn DEF Between
  <2>4. CASE pc' = "health"
    <3>1. \A j \in BinarySet(cur) : j = 1
      BY <1>1, <1>3, <2>4, AtWork
    <3>2. ReplaceInv'
      BY <1>1, <1>3, <2>1, <2>4, <3>1 DEF ReplaceInv, BinarySet
    <3>. QED  BY <1>1, <2>1, <2>4, <3>2, AtWork, GateWorkOn DEF Between
  <2>. QED  BY <1>3, <2>3, <2>4
<1>4. CASE InstallPackage
  <2>1. disk' = Written(1, man.build[cur])
    BY <1>4 DEF InstallPackage, Written
  <2>2. \/ pc' = "aside" /\ slot' = 2 /\ Width[cur] > 1
        \/ pc' = "health" /\ slot' = 1 /\ Width[cur] = 1
    BY <1>1, <1>4, AtWork DEF InstallPackage
  <2>. QED  BY <1>1, <1>3, <2>1, <2>2, AtWork
<1>5. CASE PackageLeftOld
  <2>1. disk' = disk
    BY <1>5 DEF PackageLeftOld
  <2>2. disk' = Written(1, start[cur][1])
    BY <1>1, <2>1 DEF Working, TypeOK, HostOK, Disk, Written
  <2>3. CASE pc' = "rollback"
    BY <1>1, <2>1, <2>3, GateElsewhere
  <2>4. \/ pc' = "aside" /\ slot' = 2 /\ Width[cur] > 1 /\ start[cur][1] # None
        \/ pc' = "health" /\ slot' = 1 /\ Width[cur] = 1
        \/ pc' = "rollback"
    BY <1>1, <1>5, AtWork DEF PackageLeftOld
  <2>. QED  BY <1>3, <2>2, <2>3, <2>4
<1>. QED  BY <1>2, <1>4, <1>5

LEMMA GateMoveAside == ASSUME Working, MoveAside PROVE GateInv'
<1>1. /\ pc = "aside" /\ pc \notin Between /\ pc' = "place"
      /\ UNCHANGED <<man, start, cur, results, result, slot>>
      /\ moved' = (disk[cur][slot] # None) /\ disk[cur][slot] = start[cur][slot]
      /\ disk' = Written(slot, None)
      /\ aside' = [aside EXCEPT ![cur][slot] = disk[cur][slot]]
  BY DEF MoveAside, Written, planState, Between, Working, GateInv, ReplaceInv
<1>5. slot \in BinarySet(cur)
  BY <1>1, AtWork
<1>2. /\ \A c \in Components \ {cur} : disk'[c] = disk[c]
      /\ \A k \in BinarySet(cur) : disk'[cur][k] = IF k = slot THEN None ELSE disk[cur][k]
  BY <1>1, <1>5, WriteOne
<1>3. aside'[cur][slot] = start[cur][slot]
  BY <1>1, AtWork DEF Working, TypeOK, HostOK, Disk
<1>4. ReplaceInv'
  BY <1>1, <1>2, <1>3, AtWork DEF ReplaceInv, Working, GateInv, BinarySet
<1>. QED  BY <1>1, <1>2, <1>4, AtWork, GateWorkOn DEF Between

LEMMA GatePlace == ASSUME Working, Place PROVE GateInv'
<1>1. /\ pc = "place" /\ pc \notin Between /\ UNCHANGED <<man, start, cur, results, result>>
      /\ disk' = Written(slot, NewBytes)
  BY DEF Place, Written, planState, Between
<1>6. slot \in BinarySet(cur)
  BY <1>1, AtWork
<1>2. /\ \A c \in Components \ {cur} : disk'[c] = disk[c]
      /\ \A k \in BinarySet(cur) : disk'[cur][k] = IF k = slot THEN NewBytes ELSE disk[cur][k]
  BY <1>1, <1>6, WriteOne
<1>3. /\ \A j \in BinarySet(cur) : j <= slot => disk'[cur][j] = disk'[cur][1]
      /\ \A j \in BinarySet(cur) : j > slot => disk'[cur][j] = start[cur][j]
      /\ disk'[cur][1] \in {start[cur][1], man.build[cur]} \ {None}
  BY <1>1, <1>2, AtWork DEF NewBytes, Working, GateInv, ReplaceInv
<1>4. CASE slot < Width[cur]
  <2>1. pc' = "aside" /\ slot' = slot + 1 /\ slot' \in BinarySet(cur)
    BY <1>1, <1>4, AtWork DEF Place, NextBinary
  <2>2. \A j \in BinarySet(cur) : (j < slot + 1 <=> j <= slot) /\ (j > slot + 1 => j > slot)
    BY <1>1, AtWork
  <2>3. ReplaceInv'
    BY <1>1, <1>3, <2>1, <2>2, AtWork DEF ReplaceInv, BinarySet
  <2>. QED  BY <1>1, <1>2, <2>1, <2>3, GateWorkOn, AtWork DEF Between
<1>5. CASE ~(slot < Width[cur])
  <2>1. pc' = "health" /\ slot' = 1
    BY <1>1, <1>5 DEF Place, NextBinary
  <2>2. \A j \in BinarySet(cur) : j <= slot /\ ~(j < 1)
    BY <1>1, <1>5, AtWork
  <2>3. ReplaceInv'
    BY <1>1, <1>3, <2>1, <2>2, AtWork DEF ReplaceInv, BinarySet
  <2>. QED  BY <1>1, <1>2, <2>1, <2>3, GateWorkOn, AtWork DEF Between
<1>. QED  BY <1>4, <1>5

\* The ways into a deferral: the binary in work is as it was found, or put back.
LEMMA GateDefers ==
  ASSUME Working, pc \in {"aside", "place", "undo"}, pc' = "restart", result' = "Deferred",
         UNCHANGED <<man, start, cur, results>>,
         \A c \in Components \ {cur} : disk'[c] = disk[c],
         \A k \in BinarySet(cur) :
           disk'[cur][k] = IF k = slot THEN start[cur][k] ELSE disk[cur][k]
  PROVE  GateInv'
<1>1. pc \notin Between
  BY DEF Between
<1>2. (Intact(cur))'
  BY <1>1, AtWork DEF Intact, Working, GateInv, ReplaceInv, BinarySet
<1>3. ReplaceInv'
  BY DEF ReplaceInv
<1>. QED  BY <1>1, <1>2, <1>3, GateWorkOn DEF Between

LEMMA GateReplaceStops ==
  ASSUME Working, TargetLocked \/ ReplaceFails \/ PlaceFails \/ UndoMoveAside \/ UndoFails
  PROVE  GateInv'
<1>. USE DEF hostState, planState, workState, Between
<1>1. CASE TargetLocked
  <2>1. disk[cur][slot] = start[cur][slot]
    BY <1>1 DEF TargetLocked, Working, GateInv, ReplaceInv
  <2>. QED  BY <1>1, <2>1, GateDefers DEF TargetLocked
<1>2. CASE ReplaceFails \/ UndoFails
  BY <1>2, GateElsewhere DEF ReplaceFails, UndoFails
<1>3. CASE PlaceFails
  <2>1. /\ disk[cur][slot] = None /\ moved = (start[cur][slot] # None) /\ pc = "place"
        /\ UNCHANGED <<man, start, cur, results, disk, aside, moved>>
    BY <1>3 DEF PlaceFails, Working, GateInv, ReplaceInv
  <2>2. CASE moved
    <3>1. pc' = "undo" /\ UNCHANGED <<slot, result>>
      BY <1>3, <2>2 DEF PlaceFails
    <3>2. ReplaceInv'
      BY <2>1, <3>1 DEF Working, GateInv, ReplaceInv
    <3>. QED  BY <2>1, <3>1, <3>2, GateWorkOn
  <2>3. CASE ~moved
    BY <1>3, <2>1, <2>3, GateDefers DEF PlaceFails
  <2>. QED  BY <2>2, <2>3
<1>4. CASE UndoMoveAside
  <2>1. /\ pc = "undo" /\ aside[cur][slot] = start[cur][slot]
        /\ disk' = Written(slot, aside[cur][slot])
    BY <1>4 DEF UndoMoveAside, Written, Working, GateInv, ReplaceInv
  <2>2. /\ \A c \in Components \ {cur} : disk'[c] = disk[c]
        /\ \A k \in BinarySet(cur) :
             disk'[cur][k] = IF k = slot THEN start[cur][k] ELSE disk[cur][k]
    <3>1. slot \in BinarySet(cur)
      BY <2>1, AtWork
    <3>. QED  BY <2>1, <3>1, WriteOne
  <2>. QED  BY <1>4, <2>1, <2>2, GateDefers DEF UndoMoveAside
<1>. QED  BY <1>1, <1>2, <1>3, <1>4

\* The gate goes through the whole set.
LEMMA GateHealth ==
  ASSUME Working, HealthPasses \/ HealthFails \/ ProbeFault PROVE GateInv'
<1>. USE DEF hostState, planState, workState
<1>1. CASE HealthFails \/ ProbeFault
  BY <1>1, GateElsewhere DEF HealthFails, ProbeFault, Between
<1>2. CASE HealthPasses
  <2>1. /\ pc = "health" /\ pc \notin Between /\ Healthy(slot)
        /\ UNCHANGED <<man, start, cur, results, disk>>
        /\ \A j \in BinarySet(cur) : disk[cur][j] = disk[cur][1]
        /\ \A j \in BinarySet(cur) : j < slot => Healthy(j)
    BY <1>2 DEF HealthPasses, Between, Working, GateInv, ReplaceInv
  <2>2. \A j \in BinarySet(cur) : j <= slot => Healthy(j)
    BY <2>1, AtWork
  <2>3. \A j \in BinarySet(cur) : (Healthy(j))' = Healthy(j)
    BY <2>1 DEF Healthy
  <2>4. CASE slot < Width[cur]
    <3>1. pc' = "health" /\ slot' = slot + 1 /\ result' = result
      BY <1>2, <2>4 DEF HealthPasses, NextBinary
    <3>2. \A j \in BinarySet(cur) : j < slot + 1 => j <= slot
      BY <2>1, AtWork
    <3>3. ReplaceInv'
      BY <2>1, <2>2, <2>3, <3>1, <3>2 DEF ReplaceInv, BinarySet
    <3>. QED  BY <2>1, <3>1, <3>3, GateWorkOn DEF Between
  <2>5. CASE ~(slot < Width[cur])
    <3>1. pc' = "restart" /\ result' = "Installed"
      BY <1>2, <2>5 DEF HealthPasses, NextBinary
    <3>2. \A j \in BinarySet(cur) : Healthy(j)
      BY <2>1, <2>2, <2>5, AtWork
    <3>3. \A j \in BinarySet(cur) : disk[cur][j] \in Nat
      BY <2>1, AtWork
    <3>4. (Whole(cur))'
      BY <2>1, <3>2, <3>3, AtWork DEF Whole, Healthy, ProbedCurrent, BinarySet
    <3>5. ReplaceInv'
      BY <3>1 DEF ReplaceInv
    <3>. QED  BY <2>1, <3>1, <3>4, <3>5, GateWorkOn DEF Between
  <2>. QED  BY <2>4, <2>5
<1>. QED  BY <1>1, <1>2

LEMMA GatePassStep == ASSUME Working, PassStep PROVE GateInv'
<1>. USE DEF hostState, planState, workState, Between
<1>1. CASE (\E c \in Components : TakeComponent(c)) \/ TakeBeacon
  <2>1. /\ pc \in {"next", "self"} /\ pc' = "stage"
        /\ UNCHANGED <<man, start, disk, results, result>>
    BY <1>1 DEF TakeComponent, TakeBeacon, Take
  <2>2. result = "none"
    BY <2>1 DEF Working, RestoreInv, WorkInv
  <2>3. PromiseInv'
    BY <2>1, <2>2 DEF Working, GateInv, PromiseInv, Whole, Intact
  <2>. QED  BY <2>1, <2>3 DEF GateInv, ReplaceInv
<1>2. CASE Stage
  BY <1>2, GateElsewhere DEF Stage
<1>3. CASE Refuse
  BY <1>3, GateSettle DEF Refuse, Outcomes
<1>4. CASE SnapshotAbsent \/ SnapshotBytes \/ SnapshotRecord
  BY <1>4, GateSnapshot
<1>5. CASE StopService
  <2>1. slot = 1
    BY <1>5, AtWork DEF StopService
  <2>. QED  BY <1>5, <2>1, GateEnter DEF StopService, InstallStep
<1>6. CASE InstallPackage
  BY <1>6, GatePackage
<1>7. CASE MoveAside
  BY <1>7, GateMoveAside
<1>8. CASE Place
  BY <1>8, GatePlace
<1>9. CASE UndoMoveAside
  BY <1>9, GateReplaceStops
<1>10. CASE HealthPasses \/ HealthFails
  BY <1>10, GateHealth
<1>11. CASE RestoreBinary
  <2>1. \A c \in Components \ {cur} : disk'[c] = disk[c]
    <3>1. disk' = Written(slot, snap[slot]) /\ slot \in BinarySet(cur) /\ pc \notin Between
      BY <1>11, AtWork DEF RestoreBinary, Written
    <3>. QED  BY <3>1, WriteOne
  <2>2. result' \notin {"Installed", "Deferred"}
    BY <1>11, AtWork DEF RestoreBinary
  <2>. QED  BY <1>11, <2>1, <2>2, GateElsewhere DEF RestoreBinary, NextBinary
<1>12. CASE RestartService
  BY <1>12, GateEnd, GateElsewhere DEF RestartService, Propagate
<1>13. CASE RecordInstalledBuild
  BY <1>13, GateSettle DEF RecordInstalledBuild, Working, GateInv, PromiseInv, TypeOK, PassOK
<1>14. CASE AdvanceState \/ KeepState
  <2>1. pc = "next" /\ pc' = "self" /\ UNCHANGED <<man, start, disk, cur, results, result>>
    BY <1>14 DEF AdvanceState, KeepState, Settled
  <2>. QED  BY <2>1 DEF Working, GateInv, ReplaceInv, PromiseInv, Whole, Intact
<1>15. CASE Finish
  BY <1>15, GateEnd DEF Finish
<1>. QED
  BY <1>1, <1>2, <1>3, <1>4, <1>5, <1>6, <1>7, <1>8, <1>9, <1>10, <1>11, <1>12, <1>13, <1>14,
     <1>15 DEF PassStep

LEMMA GateFaultStep == ASSUME Working, FaultStep PROVE GateInv'
<1>. USE DEF hostState, planState, workState, Between
<1>1. CASE StageFault \/ SnapshotFault \/ AdvanceFault \/ Crash
  BY <1>1, GateEnd DEF StageFault, SnapshotFault, AdvanceFault, Crash, Abort
<1>2. CASE StopFault
  <2>1. pc = "stop" /\ disk[cur] = start[cur]
    BY <1>2 DEF StopFault, Working, RestoreInv, SnapInv
  <2>2. Intact(cur)
    BY <2>1 DEF Intact
  <2>. QED  BY <1>2, <2>1, <2>2, GateSettle DEF StopFault, Outcomes
<1>3. CASE PackageLeftOld \/ PackageFails
  BY <1>3, GatePackage
<1>4. CASE TargetLocked \/ ReplaceFails \/ PlaceFails \/ UndoFails
  BY <1>4, GateReplaceStops
<1>5. CASE ProbeFault
  BY <1>5, GateHealth
<1>6. CASE RestoreFault
  BY <1>6, GateElsewhere DEF RestoreFault
<1>7. CASE StartFault
  BY <1>7, GateEnd, GateElsewhere DEF StartFault, Propagate
<1>8. CASE RecordFault
  BY <1>8, GateSettle DEF RecordFault, Working, GateInv, PromiseInv, TypeOK, PassOK
<1>. QED  BY <1>1, <1>2, <1>3, <1>4, <1>5, <1>6, <1>7, <1>8 DEF FaultStep

\* The replace keeps its order, and what is reported of a component is so.
THEOREM GateInvariance == Spec => []GateInv
<1>1. TypeOK /\ TypeOK' /\ FloorInv /\ RestoreInv /\ GateInv /\ [Next]_vars => GateInv'
  <2>. SUFFICES ASSUME Working, [Next]_vars PROVE GateInv'
    BY DEF Working
  <2>1. ASSUME NEW o \in BOOLEAN, NEW m \in Manifests \cup Foreign, NEW now \in Times,
               Wake(m, o, now)
        PROVE  GateInv'
    <3>1. pc = "idle" /\ pc' = "next" /\ results' = Planning(m) /\ UNCHANGED result
      BY <2>1 DEF Wake, workState
    <3>2. result = "none"
      BY <3>1 DEF Working, RestoreInv, WorkInv
    <3>3. \A c \in Components : results'[c] \notin {"Installed", "Deferred"}
      BY <3>1 DEF Planning
    <3>. QED  BY <3>1, <3>2, <3>3 DEF GateInv, ReplaceInv, PromiseInv
  <2>2. CASE UNCHANGED vars
    BY <2>2 DEF Working, GateInv, ReplaceInv, PromiseInv, Whole, Intact, Healthy, vars, pass
  <2>. QED  BY <2>1, <2>2, GatePassStep, GateFaultStep DEF Next
<1>. QED
  BY GateInit, TypeCorrect, FloorInvariance, RestoreInvariance, <1>1, PTL DEF Spec

\* A component reported Installed has its whole set on the primary's bytes, each of
\* which passes the gate (InstalledIsWhole).
THEOREM InstalledWhole == Spec => []InstalledIsWhole
<1>1. GateInv => InstalledIsWhole
  BY DEF GateInv, PromiseInv, Whole, InstalledIsWhole
<1>. QED  BY <1>1, GateInvariance, PTL

\* A deferral leaves nothing missing and nothing strange (DeferralLosesNothing).
THEOREM DeferralIsIntact == Spec => []DeferralLosesNothing
<1>1. GateInv => DeferralLosesNothing
  BY DEF GateInv, PromiseInv, Intact, DeferralLosesNothing
<1>. QED  BY <1>1, GateInvariance, PTL

-----------------------------------------------------------------------------
(* The marks.                                                                *)

\* What a skipped component is: on every binary at the offered build or ahead of it,
\* or ahead by its record.
Current(c) ==
  \/ Evidence[c] = "digest" /\ recorded[c] > man.build[c]
  \/ \A k \in BinarySet(c) : disk[c][k] >= man.build[c]

\* What all_succeeded says of the results: no failure is forgotten.
MarksInv ==
  /\ \A c \in Components : results[c] = "Skipped" => Current(c)
  /\ \A c \in Components : results[c] = "Held" => HoldReason(c)
  /\ allOk => \A c \in Components : results[c] \notin {"Deferred", "RolledBack", "Error"}

LEMMA MarksEnd == EndPass => MarksInv'
BY DEF EndPass, MarksInv, Nothing

\* The component that settles is not among those that were skipped.
LEMMA MarksSettle ==
  ASSUME TypeOK, RestoreInv, MarksInv, pc \notin Between, NEW outcome \in Outcomes,
         outcome \notin {"Skipped", "Held"}, Settle(outcome), UNCHANGED disk,
         \A c \in Components \ {cur} : recorded'[c] = recorded[c]
  PROVE  MarksInv'
<1>1. /\ UNCHANGED man /\ cur \in Components
      /\ allOk' = (allOk /\ KeepsAllSucceeded(outcome))
      /\ \A c \in Components : results'[c] = IF c = cur THEN outcome ELSE results[c]
  BY DEF Settle, planState, TypeOK, PassOK
<1>2. \A c \in Components \ {cur} : (Current(c))' = Current(c)
  BY <1>1 DEF Current
<1>3. /\ \A c \in Components : results'[c] = "Skipped" => (Current(c))'
      /\ \A c \in Components : results'[c] = "Held" => HoldReason(c)
  BY <1>1, <1>2 DEF MarksInv
<1>4. allOk' => \A c \in Components : results'[c] \notin {"Deferred", "RolledBack", "Error"}
  BY <1>1 DEF MarksInv, KeepsAllSucceeded
<1>. QED  BY <1>3, <1>4 DEF MarksInv

\* Any other step of a pass changes no result, and of the disk only what belongs to
\* the component in work, which has none yet.
LEMMA MarksWork ==
  ASSUME TypeOK, RestoreInv, MarksInv, UNCHANGED <<man, results, allOk, recorded>>,
         \/ UNCHANGED disk
         \/ pc \notin Between /\ \A c \in Components \ {cur} : disk'[c] = disk[c]
  PROVE  MarksInv'
<1>1. \A c \in Components : results[c] = "Skipped" => (Current(c))' = Current(c)
  BY DEF RestoreInv, WorkInv, Current
<1>. QED  BY <1>1 DEF MarksInv

LEMMA MarksPassStep ==
  ASSUME TypeOK, RestoreInv, MarksInv, PassStep PROVE MarksInv'
<1>. USE DEF hostState, planState, workState, Between
<1>0. cur \in Components
  BY DEF TypeOK, PassOK
<1>1. CASE Refuse
  BY <1>1, MarksSettle DEF Refuse, Outcomes
<1>2. CASE RecordInstalledBuild
  <2>1. \A c \in Components \ {cur} : recorded'[c] = recorded[c]
    BY <1>2 DEF RecordInstalledBuild, TypeOK, HostOK
  <2>2. result \in Outcomes \ {"Skipped", "Held"}
    BY DEF TypeOK, PassOK, RestoreInv, WorkInv, AsFound
  <2>. QED  BY <1>2, <2>1, <2>2, MarksSettle DEF RecordInstalledBuild
<1>3. CASE RestartService \/ Finish
  BY <1>3, MarksEnd, MarksWork DEF RestartService, Propagate, Finish
<1>4. CASE InstallPackage \/ MoveAside \/ Place \/ UndoMoveAside \/ RestoreBinary
  <2>1. /\ UNCHANGED <<man, results, allOk, recorded>> /\ pc \notin Between
        /\ \E k, b : disk' = [disk EXCEPT ![cur][k] = b]
    BY <1>4 DEF InstallPackage, MoveAside, Place, UndoMoveAside, RestoreBinary
  <2>2. \A c \in Components \ {cur} : disk'[c] = disk[c]
    BY <2>1 DEF TypeOK, HostOK, Disk
  <2>. QED  BY <2>1, <2>2, MarksWork
<1>5. CASE (\E c \in Components : TakeComponent(c)) \/ TakeBeacon \/ AdvanceState \/ KeepState
  BY <1>5, MarksWork DEF TakeComponent, TakeBeacon, Take, AdvanceState, KeepState
<1>6. CASE Stage \/ SnapshotAbsent \/ SnapshotBytes \/ SnapshotRecord \/ StopService
  BY <1>6, MarksWork DEF Stage, SnapshotAbsent, SnapshotBytes, SnapshotRecord, StopService
<1>7. CASE HealthPasses \/ HealthFails
  BY <1>7, MarksWork DEF HealthPasses, HealthFails
<1>. QED  BY <1>1, <1>2, <1>3, <1>4, <1>5, <1>6, <1>7 DEF PassStep

LEMMA MarksFaultStep ==
  ASSUME TypeOK, RestoreInv, MarksInv, FaultStep PROVE MarksInv'
<1>. USE DEF hostState, planState, workState, Between
<1>1. CASE StageFault \/ SnapshotFault \/ AdvanceFault \/ Crash
  BY <1>1, MarksEnd DEF StageFault, SnapshotFault, AdvanceFault, Crash, Abort
<1>2. CASE StopFault
  BY <1>2, MarksSettle DEF StopFault, Outcomes
<1>3. CASE RecordFault
  <2>1. result \in Outcomes \ {"Skipped", "Held"}
    BY DEF TypeOK, PassOK, RestoreInv, WorkInv, AsFound
  <2>. QED  BY <1>3, <2>1, MarksSettle DEF RecordFault
<1>4. CASE PackageFails
  <2>1. \A c \in Components \ {cur} : disk'[c] = disk[c]
    BY <1>4 DEF PackageFails, TypeOK, HostOK, Disk
  <2>. QED  BY <1>4, <2>1, MarksWork DEF PackageFails
<1>5. CASE PackageLeftOld \/ TargetLocked \/ ReplaceFails \/ PlaceFails
  BY <1>5, MarksWork DEF PackageLeftOld, TargetLocked, ReplaceFails, PlaceFails
<1>6. CASE UndoFails \/ ProbeFault \/ RestoreFault
  BY <1>6, MarksWork DEF UndoFails, ProbeFault, RestoreFault
<1>7. CASE StartFault
  BY <1>7, MarksEnd, MarksWork DEF StartFault, Propagate
<1>. QED  BY <1>1, <1>2, <1>3, <1>4, <1>5, <1>6, <1>7 DEF FaultStep

\* What the planner skips is current: by its whole set, its digest or its record.
LEMMA SkippedIsCurrent ==
  ASSUME TypeOK, NEW m \in Manifests \cup Foreign, NEW c \in Components,
         Planning(m)[c] = "Skipped"
  PROVE  \/ Evidence[c] = "digest" /\ recorded[c] > m.build[c]
         \/ \A k \in BinarySet(c) : disk[c][k] >= m.build[c]
<1>1. ~HoldReason(c) /\ PlanSkips(c, m.build[c])
  BY DEF Planning, Acting, Planned
<1>2. CASE Evidence[c] = "probe"
  BY <1>1, <1>2 DEF PlanSkips, ProbedCurrent
<1>3. CASE Evidence[c] # "probe"
  <2>1. Evidence[c] = "digest" /\ Width[c] = 1
    BY <1>1, <1>3, CatalogAssumption, SlotType DEF HoldReason, Slot
  <2>2. \A k \in BinarySet(c) : k = 1
    BY <2>1 DEF BinarySet
  <2>3. disk[c][1] \in Nat /\ m.build[c] \in Nat
    BY ManifestType, SlotType DEF TypeOK, HostOK, Disk
  <2>. QED  BY <1>1, <1>3, <2>1, <2>2, <2>3 DEF PlanSkips, GuardNewerInstalled
<1>. QED  BY <1>2, <1>3

\* What was skipped stays current, and no failure is forgotten.
THEOREM MarksInvariance == Spec => []MarksInv
<1>1. Init => MarksInv
  BY DEF Init, MarksInv, Nothing
<1>2. TypeOK /\ RestoreInv /\ MarksInv /\ [Next]_vars => MarksInv'
  <2>. SUFFICES ASSUME TypeOK, RestoreInv, MarksInv, [Next]_vars PROVE MarksInv'
    OBVIOUS
  <2>1. ASSUME NEW o \in BOOLEAN, NEW m \in Manifests \cup Foreign, NEW now \in Times,
               Wake(m, o, now)
        PROVE  MarksInv'
    <3>1. man' = m /\ results' = Planning(m) /\ UNCHANGED <<disk, recorded>>
      BY <2>1 DEF Wake, hostState
    <3>2. \A c \in Components : results'[c] = "Skipped" => (Current(c))'
      BY <3>1, SkippedIsCurrent DEF Current
    <3>3. \A c \in Components : /\ results'[c] = "Held" => HoldReason(c)
                                /\ results'[c] \notin {"Deferred", "RolledBack", "Error"}
      BY <3>1 DEF Planning
    <3>. QED  BY <3>2, <3>3 DEF MarksInv
  <2>2. CASE UNCHANGED vars
    BY <2>2 DEF MarksInv, Current, vars, pass
  <2>. QED  BY <2>1, <2>2, MarksPassStep, MarksFaultStep DEF Next
<1>. QED
  BY <1>1, <1>2, TypeCorrect, RestoreInvariance, PTL DEF Spec

\* The marks move only when every planned component but the beacon is at the accepted
\* build or ahead of it, by its whole set (AdvanceMeansApplied).
THEOREM MarksMeanApplied == Spec => AdvanceMeansApplied
<1>. DEFINE Applied == \A c \in Planned(man) \ {Beacon} :
                         \/ results[c] = "Refused"
                         \/ Evidence[c] = "digest" /\ recorded[c] > man.build[c]
                         \/ \A k \in BinarySet(c) : disk[c][k] >= man.build[c]
<1>1. TypeOK /\ BeaconInv /\ GateInv /\ MarksInv /\ [Next]_vars => (marks' # marks => Applied)
  <2>. SUFFICES ASSUME TypeOK, BeaconInv, GateInv, MarksInv, [Next]_vars, marks' # marks
                PROVE  Applied
    OBVIOUS
  <2>. USE DEF hostState
  <2>1. AdvanceState
    <3>1. CASE \E o \in BOOLEAN, m \in Manifests \cup Foreign, now \in Times : Wake(m, o, now)
      BY <3>1 DEF Wake
    <3>2. CASE PassStep
      BY <3>2
         DEF PassStep, TakeComponent, TakeBeacon, Take, Stage, Refuse, SnapshotAbsent,
             SnapshotBytes, SnapshotRecord, StopService, InstallPackage, MoveAside, Place,
             UndoMoveAside, HealthPasses, HealthFails, RestoreBinary, RestartService,
             RecordInstalledBuild, KeepState, Finish
    <3>3. CASE FaultStep
      BY <3>3
         DEF FaultStep, StageFault, SnapshotFault, StopFault, PackageLeftOld, PackageFails,
             TargetLocked, ReplaceFails, PlaceFails, UndoFails, ProbeFault, RestoreFault,
             StartFault, RecordFault, AdvanceFault, Crash
    <3>4. CASE UNCHANGED vars
      BY <3>4 DEF vars
    <3>. QED  BY <3>1, <3>2, <3>3, <3>4 DEF Next
  <2>2. pc = "next" /\ todo \subseteq {Beacon} /\ allOk
    BY <2>1 DEF AdvanceState, Settled
  <2>3. ASSUME NEW c \in Planned(man) \ {Beacon}
        PROVE  \/ results[c] = "Refused"
               \/ Evidence[c] = "digest" /\ recorded[c] > man.build[c]
               \/ \A k \in BinarySet(c) : disk[c][k] >= man.build[c]
    <3>1. c \in Components /\ ~HoldReason(c) /\ results[c] # "none"
      BY <2>2 DEF BeaconInv, Planned, Between
    <3>2. results[c] \in {"Installed", "Skipped", "Refused"}
      BY <2>2, <3>1 DEF MarksInv, TypeOK, PassOK, Outcomes
    <3>. QED  BY <3>1, <3>2 DEF MarksInv, Current, GateInv, PromiseInv, Whole
  <2>. QED  BY <2>3
<1>. QED
  BY <1>1, TypeCorrect, BeaconInvariance, GateInvariance, MarksInvariance, PTL
     DEF Spec, AdvanceMeansApplied

=============================================================================
