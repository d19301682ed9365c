---------------------------- MODULE MCAccessControl ----------------------------
(***************************************************************************)
(* Four identities: Everyone, an ordinary group, the anonymous logon (which  *)
(* may be without Everyone) and an administrator; two rights; lists of up to *)
(* three entries: a grant, a deny that reaches it and one that does not fit. *)
(***************************************************************************)
EXTENDS AccessControl

CONSTANTS users, anonymous, admins, write, delete

\* Every type; a mask of one right or of both; directories' own entries, and
\* entries for files only.
SmallEntries ==
  {raw \in Entry :
     /\ raw.rights \in {{write}, {write, delete}}
     /\ raw.objectInherit = raw.inheritOnly
     /\ raw.type \notin {"allow", "allowIf", "deny"} => raw.readable
     /\ raw.type \notin {"allow", "deny"} =>
          /\ raw.rights = {write}
          /\ raw.sid \in {users, anonymous}
     /\ raw.type = "unknown" => raw.sid = users
     /\ ~raw.readable => raw.rights = {write} /\ raw.sid = users}
=============================================================================
