----------------------------- MODULE MCUpdatePass -----------------------------
(***************************************************************************)
(* UpdatePass on one small host: dig-node (a service with an alias, from a  *)
(* native package), dig-app (digest-evidenced, no alias) and the beacon.    *)
(***************************************************************************)
EXTENDS UpdatePass, TLC

node == "dig-node"
app == "dig-app"
beacon == "dig-updater"

MCComponents == {node, app, beacon}
MCEvidence == [c \in MCComponents |-> IF c = app THEN "digest" ELSE "probe"]
MCWidth == [c \in MCComponents |-> IF c = node THEN 2 ELSE 1]

Feed(seq, floor, nodeBuild, appBuild, beaconBuild) ==
  [delegation_signed |-> TRUE, delegation_expires |-> 9, delegation_root |-> 1,
   manifest_signed |-> TRUE, root_version |-> 1, sequence |-> seq,
   generated |-> seq, expires |-> 9, floor |-> floor,
   build |-> (node :> nodeBuild) @@ (app :> appBuild) @@ (beacon :> beaconBuild)]

\* The second manifest takes dig-app back from build 3 to build 2, at a higher
\* floor; the third offers it below that floor, and must never be accepted.
MCManifests == {Feed(2, 1, 2, 3, 1), Feed(3, 2, 3, 2, 2), Feed(3, 2, 3, 1, 2)}
MCNewest == Feed(3, 2, 3, 2, 2)
MCForeign == {Feed(7, 2, 7, 2, 2)}
MCMute == {<<node, 2>>}
MCInitDisk ==
  [c \in MCComponents |-> [k \in 1..2 |-> IF k <= MCWidth[c] THEN 1 ELSE 0]]
MCInitRecorded == [c \in MCComponents |-> 1]

\* A host that never had dig-app, so that the first pass installs it afresh.
MCFreshDisk == [MCInitDisk EXCEPT ![app] = [k \in 1..2 |-> 0]]
MCFreshRecorded == [MCInitRecorded EXCEPT ![app] = 0]
=============================================================================
