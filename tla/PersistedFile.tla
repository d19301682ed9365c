---------------------------- MODULE PersistedFile ----------------------------
(***************************************************************************)
(* write_json_atomic of dig-updater-broker (persist.rs): the file is         *)
(* written under a sibling name, synced, and renamed over the target.  The   *)
(* sibling has one fixed name, so two writers of the same file that hold no   *)
(* lock meet in it.                                                         *)
(*                                                                         *)
(* What a writer has open is a file, not a name: after another has renamed   *)
(* the sibling it goes on writing into what is now the target, and once that *)
(* is replaced in its turn, into nothing.                                    *)
(***************************************************************************)
CONSTANTS
  Missing,  \* no file under that name
  Empty,    \* a file just created or truncated: no JSON
  Mixed     \* what two writers leave when both have written: no JSON

\* A file and its sibling; tmpBy and targetBy are the writers that have the one
\* and the other open.
FileState(Contents, Writers) ==
  [target : Contents \cup {Missing, Empty, Mixed}, tmp : Contents \cup {Missing, Empty, Mixed},
   tmpBy : SUBSET Writers, targetBy : SUBSET Writers]

OnDisk(content) == [target |-> content, tmp |-> Missing, tmpBy |-> {}, targetBy |-> {}]

\* A reader sees the target, whatever it is.
Unreadable(content) == content \in {Empty, Mixed}

\* File::create truncates a sibling that is there, left over or in use.
Created(f, p) ==
  [f EXCEPT !.tmp = Empty, !.tmpBy = @ \cup {p}, !.targetBy = @ \ {p}]

\* Both writers begin at offset 0: the longer tail may show through.
Over(old, data) == IF old = Empty THEN {data} ELSE {data, Mixed}

Written(f, p, data) ==
  IF p \in f.tmpBy THEN {[f EXCEPT !.tmp = c] : c \in Over(f.tmp, data)}
  ELSE IF p \in f.targetBy THEN {[f EXCEPT !.target = c] : c \in Over(f.target, data)}
  ELSE {f}

CanRename(f) == f.tmp # Missing

\* The rename moves whatever the sibling holds; it fails when it is not there.
Renamed(f, p) ==
  [target |-> f.tmp, tmp |-> Missing, tmpBy |-> {}, targetBy |-> f.tmpBy \ {p}]

\* The writer is gone; what it wrote stays, under whatever name.
Closed(f, p) == [f EXCEPT !.tmpBy = @ \ {p}, !.targetBy = @ \ {p}]
=============================================================================
