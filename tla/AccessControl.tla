----------------------------- MODULE AccessControl -----------------------------
(***************************************************************************)
(* Does a Windows access-control list let a non-privileged identity write    *)
(* what a privileged pass will trust?  dacl.rs reads every entry (entries)   *)
(* and judges the list in one walk (judge_grants), once for the object and   *)
(* once for the files that will be created in it.  The decision is pure; it  *)
(* is stated here beside what Windows itself grants to a token, the          *)
(* definition it has to agree with.                                          *)
(*                                                                         *)
(* An entry, as it lies on disk, has a type, the SID it truly names and      *)
(* whether that can be read, the write-equivalent rights of its mask         *)
(* (rights::WRITE_EQUIVALENT), and its two inheritance flags.                *)
(***************************************************************************)
EXTENDS Naturals, Sequences

CONSTANTS
  Sids,             \* the identities a list may name
  Everyone,         \* S-1-1-0
  WithoutEveryone,  \* SIDS_A_TOKEN_CAN_HOLD_WITHOUT_EVERYONE
  Privileged,       \* PRIVILEGED_SIDS and the administrator accounts
  Rights,           \* the write-equivalent rights
  NullDacl,         \* no list at all: Windows grants everybody everything
  Entries,          \* the entries an administrator puts into the list
  MaxEntries        \* bound: the longest list

Types == {"allow", "deny", "allowIf", "denyIf", "allowObject", "denyObject",
          "unknown", "undecodable"}
Entry == [type : Types, sid : Sids, readable : BOOLEAN, rights : SUBSET Rights,
          inheritOnly : BOOLEAN, objectInherit : BOOLEAN]

ASSUME AccessAssumption ==
  /\ Everyone \in Sids /\ Everyone \notin Privileged
  /\ WithoutEveryone \subseteq Sids \ {Everyone}
  /\ Entries \subseteq Entry /\ NullDacl \notin Seq(Entry)
  /\ MaxEntries \in Nat

VARIABLE dacl

Dacl == Seq(Entry) \cup {NullDacl}

-----------------------------------------------------------------------------
(* The list as dacl.rs reads it.                                             *)

\* What cannot be read counts as a grant of everything to a principal that
\* cannot be named, and is assumed to be inherited.
UnreadableGrant(raw) ==
  [kind |-> "Allow", named |-> FALSE, sid |-> raw.sid, rights |-> Rights,
   inheritOnly |-> raw.type # "undecodable" /\ raw.inheritOnly,
   objectInherit |-> TRUE]

As(kind, raw) ==
  [kind |-> kind, named |-> TRUE, sid |-> raw.sid, rights |-> raw.rights,
   inheritOnly |-> raw.inheritOnly, objectInherit |-> raw.objectInherit]

Unreadable(raw) ==
  \/ raw.type \in {"undecodable", "allowObject"}
  \/ raw.type \in {"allow", "allowIf"} /\ ~raw.readable

\* entries, one entry at a time.  A condition is assumed to hold where it
\* grants, and not to hold where it denies.
Read(raw) ==
  CASE Unreadable(raw) -> UnreadableGrant(raw)
    [] raw.type \in {"allow", "allowIf"} /\ raw.readable -> As("Allow", raw)
    [] raw.type = "deny" /\ raw.readable -> As("Deny", raw)
    [] OTHER -> As("Other", raw)

-----------------------------------------------------------------------------
(* The verdict of dacl.rs.                                                   *)

Questions == {"object", "files"}

\* The entries that bear on the object itself, and on the files created in it.
Applies(ace, question) ==
  IF question = "object" THEN ~ace.inheritOnly ELSE ace.objectInherit

IsPrivilegedTrustee(ace) == ace.named /\ ace.sid \in Privileged

\* Mutated form: only a deny of the very same identity is subtracted.
DenyReaches_SameSid(deny, grant) == grant.named /\ deny.sid = grant.sid

\* A deny counts against a grant that every holder of the grant meets it with.
DenyReaches(deny, grant) ==
  /\ grant.named
  /\ \/ deny.sid = grant.sid
     \/ deny.sid = Everyone /\ grant.sid \notin WithoutEveryone

\* Mutated form: a deny counts wherever it stands in the list.
DeniedMask_AnyOrder(list, i, question) ==
  {right \in Rights : \E j \in 1..Len(list) :
     LET deny == Read(list[j]) IN
       /\ deny.kind = "Deny" /\ Applies(deny, question)
       /\ right \in deny.rights /\ DenyReaches(deny, Read(list[i]))}

\* denied_mask_for: what the entries before the i-th take away from it.
DeniedMask(list, i, question) ==
  {right \in Rights : \E j \in 1..(i - 1) :
     LET deny == Read(list[j]) IN
       /\ deny.kind = "Deny" /\ Applies(deny, question)
       /\ right \in deny.rights /\ DenyReaches(deny, Read(list[i]))}

\* judge (of the object) and judge_files_created_in: UnprivilegedWrite.
UnprivilegedWrite(list, question) ==
  \/ list = NullDacl
  \/ /\ list # NullDacl
     /\ \E i \in 1..Len(list) :
          LET ace == Read(list[i]) IN
            /\ ace.kind = "Allow" /\ Applies(ace, question)
            /\ ~IsPrivilegedTrustee(ace)
            /\ ace.rights \ DeniedMask(list, i, question) # {}

-----------------------------------------------------------------------------
(* What Windows grants (external).  Entries are met in order: a right is     *)
(* granted by an allowing entry no denying one precedes.                     *)

\* A token of no privileged identity; only some can be without Everyone.
Tokens ==
  {token \in SUBSET (Sids \ Privileged) :
     token \subseteq WithoutEveryone \/ Everyone \in token}

\* An entry meets a token when it names one of its SIDs and its condition, if
\* it has one, evaluates to true (holds: the positions where it does).
Meets(raw, i, token, question, holds) ==
  /\ raw.sid \in token /\ Applies(raw, question)
  /\ raw.type \in {"allowIf", "denyIf"} => i \in holds

Granting == {"allow", "allowIf", "allowObject"}
Denying == {"deny", "denyIf", "denyObject"}

Granted(list, token, right, question, holds) ==
  \E i \in 1..Len(list) :
    /\ list[i].type \in Granting /\ right \in list[i].rights
    /\ Meets(list[i], i, token, question, holds)
    /\ \A j \in 1..(i - 1) :
         ~ /\ list[j].type \in Denying /\ right \in list[j].rights
           /\ Meets(list[j], j, token, question, holds)

-----------------------------------------------------------------------------
Init == dacl \in {NullDacl, <<>>}

\* An administrator appends an entry, in whatever order.
Append1(raw) ==
  /\ dacl # NullDacl /\ Len(dacl) < MaxEntries /\ dacl' = Append(dacl, raw)

\* Windows stores what it is given: also the null list.
Clear == dacl' \in {NullDacl, <<>>}

Next == Clear \/ \E raw \in Entries : Append1(raw)
Spec == Init /\ [][Next]_dacl

\* The list is always one Windows can store.
TypeOK == dacl \in Dacl

-----------------------------------------------------------------------------
(* Properties.                                                               *)

Positions == IF dacl = NullDacl THEN {} ELSE 1..Len(dacl)

\* A clean verdict is true: however its conditions evaluate, no token without a
\* privileged identity is granted a write-equivalent right (judge,
\* judge_files_created_in).
CleanMeansWithheld ==
  \A question \in Questions :
    ~UnprivilegedWrite(dacl, question) =>
      /\ dacl # NullDacl
      /\ \A token \in Tokens, right \in Rights, holds \in SUBSET Positions :
           ~Granted(dacl, token, right, question, holds)

\* A list that can be read in full.
Plain == \A i \in Positions : dacl[i].type \in {"allow", "deny", "unknown"} /\ dacl[i].readable

\* Of a list that can be read in full a finding is true as well: some token
\* without a privileged identity is granted a write (a host whose list is
\* sound is not refused its daily schedule: the availability dacl.rs protects).
FindingMeansGranted ==
  (dacl # NullDacl /\ Plain) =>
    \A question \in Questions :
      UnprivilegedWrite(dacl, question) =>
        \E token \in Tokens, right \in Rights : Granted(dacl, token, right, question, {})
=============================================================================
