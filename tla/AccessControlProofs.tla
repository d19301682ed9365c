-------------------------- MODULE AccessControlProofs --------------------------
(***************************************************************************)
(* The verdict of dacl.rs agrees with Windows for every list, every set of   *)
(* identities and every set of rights: a clean verdict is never wrong, and   *)
(* of a list that can be read in full a finding is never wrong either.       *)
(***************************************************************************)
EXTENDS AccessControl, SequenceTheorems, TLAPS

\* Every list is one Windows can store: the two it starts as, and what an
\* administrator appends to one.
THEOREM Storable == Spec => []TypeOK
<1> USE DEF TypeOK, Dacl
<1>1. <<>> \in Dacl
  BY EmptySeq
<1>2. Init => TypeOK
  BY <1>1 DEF Init
<1>3. TypeOK /\ [Next]_dacl => TypeOK'
  <2> SUFFICES ASSUME TypeOK, [Next]_dacl PROVE TypeOK'
    OBVIOUS
  <2>1. CASE Clear
    BY <2>1, <1>1 DEF Clear
  <2>2. ASSUME NEW raw \in Entries, Append1(raw) PROVE TypeOK'
    <3>1. raw \in Entry /\ dacl \in Seq(Entry)
      BY <2>2, AccessAssumption DEF Append1
    <3> QED
      BY <2>2, <3>1 DEF Append1
  <2>3. CASE UNCHANGED dacl
    BY <2>3
  <2> QED
    BY <2>1, <2>2, <2>3 DEF Next
<1> QED
  BY <1>2, <1>3, PTL DEF Spec

\* An entry that grants, in whatever way, is read as a grant of no less, to
\* nobody more privileged, and bearing on no less.
LEMMA ReadsEveryGrant ==
  ASSUME NEW raw \in Entry, raw.type \in Granting,
         NEW question \in Questions, Applies(raw, question)
  PROVE  /\ Read(raw).kind = "Allow" /\ Applies(Read(raw), question)
         /\ raw.rights \subseteq Read(raw).rights
         /\ Read(raw).named => Read(raw).sid = raw.sid
         /\ Read(raw).named => ~Unreadable(raw)
<1>1. raw.type \in Types /\ raw.rights \subseteq Rights
  BY DEF Entry
<1>2. CASE Unreadable(raw)
  <2>1. Read(raw) = UnreadableGrant(raw)
    BY <1>2 DEF Read, Unreadable
  <2>2. Applies(UnreadableGrant(raw), question)
    BY DEF UnreadableGrant, Applies
  <2> QED
    BY <1>1, <2>1, <2>2 DEF UnreadableGrant
<1>3. CASE ~Unreadable(raw)
  <2>1. Read(raw) = As("Allow", raw)
    BY <1>3 DEF Read, Unreadable, Granting
  <2>2. Applies(As("Allow", raw), question)
    BY DEF As, Applies
  <2> QED
    BY <1>3, <2>1, <2>2 DEF As
<1> QED
  BY <1>2, <1>3

\* What is read as a denial is one: unconditional, and naming whom it names.
LEMMA ReadsOnlyDenials ==
  ASSUME NEW raw \in Entry, Read(raw).kind = "Deny"
  PROVE  /\ raw.type = "deny" /\ Read(raw).sid = raw.sid
         /\ Read(raw).rights = raw.rights
         /\ \A question \in Questions :
              Applies(Read(raw), question) <=> Applies(raw, question)
<1>1. ~Unreadable(raw)
  <2> SUFFICES ASSUME Unreadable(raw) PROVE FALSE
    OBVIOUS
  <2>1. Read(raw) = UnreadableGrant(raw)
    BY DEF Read, Unreadable
  <2> QED
    BY <2>1 DEF UnreadableGrant
<1>2. raw.type = "deny" /\ Read(raw) = As("Deny", raw)
  BY <1>1 DEF Read, As
<1> QED
  BY <1>2 DEF As, Applies

\* A right granted to a token without privilege is a finding.
LEMMA GrantIsFound ==
  ASSUME NEW list \in Seq(Entry), NEW question \in Questions,
         NEW token \in Tokens, NEW right \in Rights, NEW holds,
         Granted(list, token, right, question, holds)
  PROVE  UnprivilegedWrite(list, question)
<1>1. PICK i \in 1..Len(list) :
        /\ list[i].type \in Granting /\ right \in list[i].rights
        /\ Meets(list[i], i, token, question, holds)
        /\ \A j \in 1..(i - 1) :
             ~ /\ list[j].type \in Denying /\ right \in list[j].rights
               /\ Meets(list[j], j, token, question, holds)
  BY DEF Granted
<1>2. list[i] \in Entry /\ Applies(list[i], question) /\ list[i].sid \in token
  BY <1>1 DEF Meets
<1>3. /\ Read(list[i]).kind = "Allow" /\ Applies(Read(list[i]), question)
      /\ right \in Read(list[i]).rights
      /\ Read(list[i]).named => Read(list[i]).sid = list[i].sid
  BY <1>1, <1>2, ReadsEveryGrant
<1>4. ~IsPrivilegedTrustee(Read(list[i]))
  BY <1>2, <1>3 DEF IsPrivilegedTrustee, Tokens
<1>5. right \notin DeniedMask(list, i, question)
  <2> SUFFICES ASSUME NEW j \in 1..(i - 1), Read(list[j]).kind = "Deny",
                      Applies(Read(list[j]), question),
                      right \in Read(list[j]).rights,
                      DenyReaches(Read(list[j]), Read(list[i]))
               PROVE  FALSE
    BY DEF DeniedMask
  <2>1. j \in 1..Len(list) /\ list[j] \in Entry
    OBVIOUS
  <2>2. /\ list[j].type = "deny" /\ Read(list[j]).sid = list[j].sid
        /\ right \in list[j].rights /\ Applies(list[j], question)
    BY <2>1, ReadsOnlyDenials
  <2>3. list[j].sid \in token
    <3>1. Read(list[i]).sid = list[i].sid
      BY <1>3 DEF DenyReaches
    <3>2. CASE list[j].sid = list[i].sid
      BY <3>2, <1>2
    <3>3. CASE list[j].sid = Everyone /\ list[i].sid \notin WithoutEveryone
      BY <3>3, <1>2 DEF Tokens
    <3> QED
      BY <3>1, <3>2, <3>3, <2>2 DEF DenyReaches
  <2>4. Meets(list[j], j, token, question, holds)
    BY <2>2, <2>3 DEF Meets
  <2> QED
    BY <1>1, <2>2, <2>4 DEF Denying
<1>6. list # NullDacl
  BY AccessAssumption
<1> QED
  BY <1>3, <1>4, <1>5, <1>6 DEF UnprivilegedWrite

\* A clean verdict of judge and of judge_files_created_in is true of every list,
\* whatever in it cannot be read or evaluated.
THEOREM CleanVerdictIsSound == Spec => []CleanMeansWithheld
<1>1. TypeOK => CleanMeansWithheld
  <2> SUFFICES ASSUME TypeOK, NEW question \in Questions,
                      ~UnprivilegedWrite(dacl, question)
               PROVE  /\ dacl # NullDacl
                      /\ \A token \in Tokens, right \in Rights, holds \in SUBSET Positions :
                           ~Granted(dacl, token, right, question, holds)
    BY DEF CleanMeansWithheld
  <2>1. dacl # NullDacl
    BY DEF UnprivilegedWrite
  <2>2. dacl \in Seq(Entry)
    BY <2>1 DEF TypeOK, Dacl
  <2> QED
    BY <2>1, <2>2, GrantIsFound
<1> QED
  BY <1>1, Storable, PTL

\* A finding about a list that can be read in full is true: the judge refuses
\* no host whose list withholds every write.
THEOREM FindingIsExact == Spec => []FindingMeansGranted
<1>1. TypeOK => FindingMeansGranted
  <2> SUFFICES ASSUME TypeOK, dacl # NullDacl, Plain, NEW question \in Questions,
                      UnprivilegedWrite(dacl, question)
               PROVE  \E token \in Tokens, right \in Rights :
                        Granted(dacl, token, right, question, {})
    BY DEF FindingMeansGranted
  <2>1. dacl \in Seq(Entry) /\ Positions = 1..Len(dacl)
    BY DEF TypeOK, Dacl, Positions
  <2>2. PICK i \in 1..Len(dacl) :
          /\ Read(dacl[i]).kind = "Allow" /\ Applies(Read(dacl[i]), question)
          /\ ~IsPrivilegedTrustee(Read(dacl[i]))
          /\ Read(dacl[i]).rights \ DeniedMask(dacl, i, question) # {}
    BY DEF UnprivilegedWrite
  <2>3. \A j \in 1..Len(dacl) :
          /\ dacl[j] \in Entry /\ ~Unreadable(dacl[j]) /\ dacl[j].readable
          /\ dacl[j].type \in {"allow", "deny", "unknown"}
    BY <2>1 DEF Plain, Unreadable
  <2>4. dacl[i].type = "allow" /\ Read(dacl[i]) = As("Allow", dacl[i])
    BY <2>2, <2>3 DEF Read, As
  <2>5. PICK right \in dacl[i].rights : right \notin DeniedMask(dacl, i, question)
    BY <2>2, <2>4 DEF As
  <2>6. /\ right \in Rights /\ dacl[i].sid \in Sids \ Privileged
        /\ Applies(dacl[i], question)
    <3>1. dacl[i].rights \subseteq Rights /\ dacl[i].sid \in Sids
      BY <2>3 DEF Entry
    <3>2. dacl[i].sid \notin Privileged
      BY <2>2, <2>4 DEF As, IsPrivilegedTrustee
    <3>3. Applies(dacl[i], question)
      BY <2>2, <2>4 DEF As, Applies
    <3> QED
      BY <2>5, <3>1, <3>2, <3>3
  <2> DEFINE token == {dacl[i].sid} \cup
                        (IF dacl[i].sid \in WithoutEveryone THEN {} ELSE {Everyone})
  <2>7. token \in Tokens
    BY <2>6, AccessAssumption DEF Tokens
  <2>8. Meets(dacl[i], i, token, question, {})
    BY <2>4, <2>6 DEF Meets
  <2>9. ASSUME NEW j \in 1..(i - 1), dacl[j].type \in Denying,
               right \in dacl[j].rights, Meets(dacl[j], j, token, question, {})
        PROVE  FALSE
    <3>1. /\ dacl[j] \in Entry /\ ~Unreadable(dacl[j]) /\ dacl[j].readable
          /\ dacl[j].type = "deny"
      <4>1. j \in 1..Len(dacl)
        OBVIOUS
      <4> QED
        BY <4>1, <2>3, <2>9 DEF Denying
    <3>2. Read(dacl[j]) = As("Deny", dacl[j])
      BY <3>1 DEF Read
    <3>3. dacl[j].sid \in token /\ Applies(dacl[j], question)
      BY <2>9 DEF Meets
    <3>4. Applies(As("Deny", dacl[j]), question)
      BY <3>3 DEF As, Applies
    <3>5. DenyReaches(Read(dacl[j]), Read(dacl[i]))
      BY <2>4, <3>2, <3>3 DEF As, DenyReaches
    <3>6. right \in DeniedMask(dacl, i, question)
      BY <2>6, <2>9, <3>2, <3>4, <3>5 DEF DeniedMask, As
    <3> QED
      BY <2>5, <3>6
  <2> HIDE DEF token
  <2>10. Granted(dacl, token, right, question, {})
    BY <2>4, <2>5, <2>8, <2>9 DEF Granted, Granting
  <2> QED
    BY <2>6, <2>7, <2>10
<1> QED
  BY <1>1, Storable, PTL
=============================================================================
