------------------------------ MODULE TrustChain ------------------------------
(***************************************************************************)
(* The trust chain of crates/dig-updater-trust: what a broker accepts as an *)
(* update, given the marks it has persisted, and how the marks move when it *)
(* does.  The unprivileged worker and the privileged broker evaluate the    *)
(* same chain; every module that accepts a feed does it through Accepts.    *)
(*                                                                         *)
(* Abstractions.  A signature is the fact that it verifies: the delegation  *)
(* under the pinned root key, the manifest under the delegated key, each    *)
(* over the received bytes.  A component's artifacts are its build number.  *)
(***************************************************************************)
EXTENDS Integers

CONSTANT Components     \* the component names a manifest may carry

\* The four monotonic marks, and the marks of a fresh install.
TrustState ==
  [root_version : Nat, sequence : Nat, generated : Nat, floor : Nat]

Initial == [root_version |-> 0, sequence |-> 0, generated |-> 0, floor |-> 0]

\* No build: a component the manifest does not offer to this platform, a path
\* with nothing installed at it, or a build number the code has as None.
None == 0

\* A delegation and the manifest served beside it.  build[c] = None says the
\* manifest has no artifact of c for this platform.
SignedManifest ==
  [delegation_signed  : BOOLEAN,
   delegation_expires : Nat,
   delegation_root    : Nat,
   manifest_signed    : BOOLEAN,
   root_version       : Nat,
   sequence           : Nat,
   generated          : Nat,
   expires            : Nat,
   floor              : Nat,
   build              : [Components -> Nat]]

Offers(m, c) == m.build[c] # None

-----------------------------------------------------------------------------
VerifyDelegation(m, now) ==
  m.delegation_signed /\ now <= m.delegation_expires

VerifyManifestSignature(m) == m.manifest_signed

\* Equal marks are accepted: the same manifest may be applied again.
VerifyFreshness(s, m, now) ==
  /\ now <= m.expires
  /\ m.root_version >= s.root_version
  /\ m.sequence >= s.sequence
  /\ m.generated >= s.generated
  /\ m.floor >= s.floor

\* Mutated form: the manifest's floor is not held against its own builds.
VerifyRollbackFloor_Unchecked(m) == m.floor \in Nat

VerifyRollbackFloor(m) ==
  \A c \in Components : Offers(m, c) => m.build[c] >= m.floor

\* verify_update_chain
Accepts(s, m, now) ==
  /\ VerifyDelegation(m, now)
  /\ VerifyManifestSignature(m)
  /\ m.root_version = m.delegation_root
  /\ VerifyFreshness(s, m, now)
  /\ VerifyRollbackFloor(m)

-----------------------------------------------------------------------------
Larger(a, b) == IF a >= b THEN a ELSE b

Advance(s, m) ==
  [root_version |-> Larger(s.root_version, m.root_version),
   sequence     |-> Larger(s.sequence, m.sequence),
   generated    |-> Larger(s.generated, m.generated),
   floor        |-> Larger(s.floor, m.floor)]
=============================================================================
