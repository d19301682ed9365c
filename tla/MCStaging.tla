------------------------------ MODULE MCStaging -------------------------------
(***************************************************************************)
(* One component, in two variants, on a headless host and on one of which   *)
(* it cannot be told what it can load.                                      *)
(***************************************************************************)
EXTENDS Staging, TLC

app == "dig-app"
MCComponents == {app}

Served(seq, signed, artifacts) ==
  [delegation_signed |-> TRUE, delegation_expires |-> 9, delegation_root |-> 1,
   manifest_signed |-> signed, root_version |-> 1, sequence |-> seq,
   generated |-> seq, expires |-> 9, floor |-> 1,
   build |-> [c \in MCComponents |-> seq], artifacts |-> artifacts]

\* The second manifest republishes the version of the first, so that its files
\* are staged under the same names; the third is not signed.
MCNewest == Served(2, TRUE, <<Artifact(app, "app", "app2"),
                              Artifact(app, "app-headless", "headless2")>>)
MCManifests ==
  {MCNewest,
   Served(1, TRUE, <<Artifact(app, "app", "app1")>>),
   Served(3, FALSE, <<Artifact(app, "app", "app0")>>)}

MCLength == [app0 |-> 1, app1 |-> 2, app2 |-> 1, headless2 |-> 1]
MCBefore == (app :> "app0")

Host(default, headless) ==
  [d \in DOMAIN MCLength |-> CASE d = "app2" -> default [] d = "headless2" -> headless
                               [] OTHER -> "unknown"]
MCHosts == {Host("unloadable", "loadable"), Host("unknown", "unloadable")}
=============================================================================
