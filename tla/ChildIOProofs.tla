----------------------------- MODULE ChildIOProofs -----------------------------
(***************************************************************************)
(* What a call of ChildIO reports and leaves behind, for any capacity of a    *)
(* pipe, any cap and any amount of output.                                    *)
(***************************************************************************)
EXTENDS ChildIO, TLAPS

\* No unit is lost: what was written is in the pipe or with the broker.
Kept == wrote = pipe + got

\* Where a reading has ended the output had: a thread that stopped below its
\* limit, the restricted call's wait, an answer.
ReadOut ==
  /\ drain = "done" /\ got < ReadLimit => AtEnd
  /\ kind = "restricted" /\ at = "wait" => AtEnd
  /\ result = "answer" => AtEnd /\ at = "idle"

\* Only an IPC call has a thread, only the restricted one waits after its reading,
\* and that with no more than the cap.  The other two kinds read out, join and are
\* idle only when their child has ended.
Ended ==
  /\ at = "join" \/ drain # "off" => kind = "ipc"
  /\ at = "wait" => kind = "restricted"
  /\ kind = "restricted" /\ at # "idle" => got <= Cap
  /\ kind # "restricted" /\ at \in {"read", "join", "idle"} => child # "running"

\* The part of the type that is about numbers, which goes to the provers apart.
Counted ==
  /\ wrote \in 0..MaxOut /\ pipe \in 0..Pipe /\ got \in 0..MaxOut
  /\ kind # "probe" => got <= Cap + 1
  /\ kind = "restricted" /\ at # "idle" => got <= Cap

IInv == TypeOK /\ Kept /\ ReadOut /\ Ended

LEMMA InitHolds == Init => IInv
<1> SUFFICES ASSUME Init PROVE IInv
  OBVIOUS
<1>1. Counted /\ Kept
  BY ChildAssumption DEF Init, Counted, Kept
<1> QED
  BY <1>1 DEF Init, Counted, IInv, TypeOK, ReadOut, Ended

\* What the child and its heir do: they write only to an output that they have
\* open, and nobody opens one that is not.
LEMMA ChildKeeps ==
  ASSUME IInv, Child PROVE IInv'
<1> USE ChildAssumption DEF IInv, TypeOK, Kept, ReadOut, Ended, AtEnd, Outside
<1>1. CASE Write
  <2>1. Counted' /\ Kept'
    BY <1>1 DEF Write, childs, Counted
  <2> QED
    BY <1>1, <2>1, ZenonT(60) DEF Write, childs, Counted
<1>2. CASE CloseOutput
  BY <1>2 DEF CloseOutput
<1>3. CASE Fork
  BY <1>3 DEF Fork
<1>4. CASE HeirEnds
  BY <1>4 DEF HeirEnds
<1>5. CASE Exit
  BY <1>5 DEF Exit
<1> QED
  BY <1>1, <1>2, <1>3, <1>4, <1>5 DEF Child

\* The start of a call, with a child or without.
LEMMA CallKeeps ==
  ASSUME IInv, NEW k \in Kinds, Call(k) \/ CallFails(k) PROVE IInv'
<1> USE ChildAssumption DEF IInv, TypeOK, Kept, ReadOut, Ended, ReadLimit
<1>1. CASE Call(k)
  <2>1. Counted' /\ Kept'
    BY <1>1 DEF Call, Counted
  <2> QED
    BY <1>1, <2>1 DEF Call, Counted
<1>2. CASE CallFails(k)
  <2>1. Counted' /\ Kept'
    BY <1>2 DEF CallFails, Return, Counted
  <2> QED
    BY <1>2, <2>1 DEF CallFails, Return, Counted
<1> QED
  BY <1>1, <1>2

\* Reading, by the call or by its thread.
LEMMA ReadingKeeps ==
  ASSUME IInv, Drain \/ ReadAnswer \/ ReadAll PROVE IInv'
<1> USE ChildAssumption DEF IInv, TypeOK, Kept, ReadOut, Ended, AtEnd, ReadLimit, TakeUnit,
                            output, childs, Go, Return
<1>1. CASE Drain
  <2>1. CASE got < ReadLimit /\ TakeUnit /\ UNCHANGED drain
    <3>1. Counted' /\ Kept'
      BY <1>1, <2>1 DEF Drain, Counted
    <3> QED
      BY <1>1, <2>1, <3>1 DEF Drain, Counted
  <2>2. CASE (got = ReadLimit \/ AtEnd) /\ drain' = "done" /\ UNCHANGED output
    BY <1>1, <2>2 DEF Drain
  <2> QED
    BY <1>1, <2>1, <2>2 DEF Drain
<1>2. CASE ReadAnswer
  BY <1>2 DEF ReadAnswer
<1>3. CASE ReadAll
  <2>1. CASE TakeUnit /\ got + 1 <= Cap /\ UNCHANGED <<at, result>>
    BY <1>3, <2>1 DEF ReadAll
  <2>2. CASE TakeUnit /\ got + 1 > Cap /\ Return("Spawn")
    <3>1. Counted' /\ Kept'
      BY <1>3, <2>2 DEF ReadAll, Counted
    <3> QED
      BY <1>3, <2>2, <3>1 DEF ReadAll, Counted
  <2>3. CASE AtEnd /\ Go("wait") /\ UNCHANGED output
    BY <1>3, <2>3 DEF ReadAll
  <2> QED
    BY <1>3, <2>1, <2>2, <2>3 DEF ReadAll
<1> QED
  BY <1>1, <1>2, <1>3

\* The other steps of a call, and the clock.
LEMMA WaitingKeeps ==
  ASSUME IInv, Request \/ Poll \/ KillAndReap \/ Join \/ WaitForExit \/ Elapse PROVE IInv'
<1> USE ChildAssumption DEF IInv, TypeOK, Kept, ReadOut, Ended, AtEnd, ReadLimit,
                            output, childs, Go, Return, Killed
<1>1. CASE Request
  BY <1>1 DEF Request
<1>2. CASE Poll
  BY <1>2 DEF Poll
<1>3. CASE KillAndReap
  BY <1>3 DEF KillAndReap
<1>4. CASE Join
  BY <1>4 DEF Join
<1>5. CASE WaitForExit
  <2>1. /\ at = "wait" /\ at' = "idle" /\ result' = "answer" /\ child' # "running"
        /\ child' \in {child, "killed"} /\ holders' = holders \ {"child"}
        /\ UNCHANGED <<kind, wrote, pipe, got, drain, late>>
    BY <1>5 DEF WaitForExit
  <2>2. kind = "restricted" /\ AtEnd
    BY <2>1
  <2> QED
    BY <2>1, <2>2
<1>6. CASE Elapse
  BY <1>6 DEF Elapse
<1> QED
  BY <1>1, <1>2, <1>3, <1>4, <1>5, <1>6

LEMMA Inductive == IInv /\ [Next]_vars => IInv'
<1>1. ASSUME IInv, UNCHANGED vars PROVE IInv'
  BY <1>1 DEF IInv, TypeOK, Kept, ReadOut, Ended, AtEnd, vars, childs, output
<1> QED
  BY <1>1, ChildKeeps, CallKeeps, ReadingKeeps, WaitingKeeps DEF Next, Step

LEMMA Invariance == Spec => []IInv
BY InitHolds, Inductive, PTL DEF Spec

\* Every variable keeps its type; in particular the broker never buffers more than
\* one unit beyond the cap (communicate_bounded, read_all), whatever is written.
THEOREM CallTyped == Spec => []TypeOK
<1>1. IInv => TypeOK
  BY DEF IInv
<1> QED
  BY <1>1, Invariance, PTL

\* An answer is all that was ever written to the child's output (bounded_probe,
\* communicate_bounded, spawn_restricted).
THEOREM AnswerHolds == Spec => []AnswerIsWhole
<1>1. IInv => AnswerIsWhole
  BY ChildAssumption DEF IInv, TypeOK, Kept, ReadOut, AtEnd, AnswerIsWhole
<1> QED
  BY <1>1, Invariance, PTL

\* bounded_probe and communicate_bounded leave no child running, by any return.
THEOREM NoneLeft == Spec => []NoStray
<1>1. IInv => NoStray
  BY DEF IInv, Ended, NoStray
<1> QED
  BY <1>1, Invariance, PTL

================================================================================
