------------------------------- MODULE ChildIO -------------------------------
(***************************************************************************)
(* A call of the broker that starts a child, hears it out and must come back: *)
(* the version probe (probe.rs), the worker's IPC on Unix and for a broker    *)
(* without privileges (communicate_bounded of sandbox.rs), and the worker     *)
(* under a restricted token on Windows (spawn_restricted).  The child may do  *)
(* anything: never answer, never end, write without end, close its output and *)
(* go on, or leave a process of its own behind that holds the output open.    *)
(* UpdatePass and Staging take such a call as one step.                       *)
(*                                                                            *)
(* Output is counted, in units; a pipe keeps their order.  A request is       *)
(* smaller than what a pipe holds, so writing it never waits.                 *)
(***************************************************************************)
EXTENDS Naturals

CONSTANTS
  Kinds,   \* the calls to explore
  Pipe,    \* what a pipe holds while nobody reads it
  Cap,     \* WORKER_STDOUT_CAP
  MaxOut   \* bound: what is ever written to one child's output

ASSUME ChildAssumption ==
  /\ Kinds \subseteq {"probe", "ipc", "restricted"}
  /\ Pipe \in Nat \ {0} /\ Cap \in Nat /\ MaxOut \in Nat

VARIABLES
  kind,    \* the call under way, or the last one
  at,      \* its step
  child,   \* how the child is
  holders, \* who has its output open: the "child", an "heir" it has started
  wrote,   \* how much they have written
  pipe,    \* how much of it is in the pipe
  got,     \* how much of it the broker has
  drain,   \* the thread that reads beside the wait
  late,    \* the budget has elapsed
  result

output == <<wrote, pipe, got>>
childs == <<child, holders>>
vars == <<kind, at, childs, output, drain, late, result>>

\* The type of every variable.  The broker never buffers more than one unit
\* beyond the cap, whatever the child writes.
TypeOK ==
  /\ kind \in Kinds
  /\ at \in {"idle", "request", "poll", "kill", "join", "read", "wait"}
  /\ child \in {"none", "running", "ok", "bad", "killed"}
  /\ holders \subseteq {"child", "heir"}
  /\ "child" \in holders => child = "running"
  /\ wrote \in 0..MaxOut /\ pipe \in 0..Pipe /\ got \in 0..MaxOut
  /\ kind # "probe" => got <= Cap + 1
  /\ drain \in {"off", "on", "done"} /\ late \in BOOLEAN
  /\ result \in {"none", "answer", "unreadable", "TimedOut", "TooLarge",
                 "Spawn"}

Init ==
  /\ kind \in Kinds /\ at = "idle" /\ result = "none"
  /\ child = "none" /\ holders = {}
  /\ wrote = 0 /\ pipe = 0 /\ got = 0 /\ drain = "off" /\ late = FALSE

Go(step) == at' = step /\ UNCHANGED result
Return(r) == at' = "idle" /\ result' = r

-----------------------------------------------------------------------------
(* The child, and what it leaves behind.                                      *)

Outside == UNCHANGED <<kind, at, got, drain, late, result>>

Write ==
  /\ holders # {}
  /\ pipe < Pipe /\ wrote < MaxOut /\ drain # "done"
  /\ wrote' = wrote + 1 /\ pipe' = pipe + 1
  /\ Outside /\ UNCHANGED childs

CloseOutput ==
  /\ "child" \in holders /\ holders' = holders \ {"child"}
  /\ Outside /\ UNCHANGED <<child, wrote, pipe>>

Fork ==
  /\ holders = {"child"} /\ holders' = {"child", "heir"}
  /\ Outside /\ UNCHANGED <<child, wrote, pipe>>

HeirEnds ==
  /\ "heir" \in holders /\ holders' = holders \ {"heir"}
  /\ Outside /\ UNCHANGED <<child, wrote, pipe>>

Exit ==
  /\ child = "running" /\ child' \in {"ok", "bad"}
  /\ holders' = holders \ {"child"}
  /\ Outside /\ UNCHANGED <<wrote, pipe>>

-----------------------------------------------------------------------------
(* The start.                                                                 *)

\* The next call: nothing of the last one is used again.
Call(k) ==
  /\ at = "idle"
  /\ kind' = k /\ child' = "running" /\ holders' = {"child"}
  /\ wrote' = 0 /\ pipe' = 0 /\ got' = 0 /\ drain' = "off" /\ late' = FALSE
  /\ at' = (IF k = "probe" THEN "poll" ELSE "request") /\ result' = "none"

\* No child: the binary does not start, no pipe can be made, or the child could
\* not be made to give up its privileges and never runs.  On Windows a refused
\* restricted token is no failure: the child then starts without one.
CallFails(k) ==
  /\ at = "idle"
  /\ kind' = k /\ child' = "none" /\ holders' = {}
  /\ wrote' = 0 /\ pipe' = 0 /\ got' = 0 /\ drain' = "off" /\ late' = FALSE
  /\ Return(IF k = "probe" THEN "unreadable" ELSE "Spawn")

\* The request is written and the child's input closed, which a child that has
\* ended turns into an error; only spawn_restricted minds.
Request ==
  /\ at = "request"
  /\ \/ kind = "ipc" /\ Go("poll") /\ drain' = "on"
     \/ kind = "restricted" /\ Go("read") /\ UNCHANGED drain
     \/ /\ kind = "restricted" /\ child # "running"
        /\ Return("Spawn") /\ UNCHANGED drain
  /\ UNCHANGED <<kind, childs, output, late>>

-----------------------------------------------------------------------------
(* Reading.                                                                   *)

\* read_to_end, read_all: to the end of the output, which is where nobody has it
\* open any more.
AtEnd == pipe = 0 /\ holders = {}
TakeUnit == pipe > 0 /\ pipe' = pipe - 1 /\ got' = got + 1 /\ UNCHANGED wrote

\* Mutant: the thread reads no more than the cap.
ReadLimit_AtTheCap == Cap

\* What the thread reads at the most: one unit more than the cap, to tell a full
\* buffer from one that was cut.
ReadLimit == Cap + 1

\* The thread beside the wait; it goes on when the wait has ended without it.
Drain ==
  /\ drain = "on"
  /\ \/ got < ReadLimit /\ TakeUnit /\ UNCHANGED drain
     \/ (got = ReadLimit \/ AtEnd) /\ drain' = "done" /\ UNCHANGED output
  /\ UNCHANGED <<kind, at, childs, late, result>>

\* read_stdout, when the probed child has exited; what is no text is no version.
ReadAnswer ==
  /\ at = "read" /\ kind = "probe"
  /\ \/ TakeUnit /\ UNCHANGED <<at, result>>
     \/ AtEnd /\ (Return("answer") \/ Return("unreadable")) /\ UNCHANGED output
  /\ UNCHANGED <<kind, childs, drain, late>>

\* Mutant: the overflow is only noticed at the end of the output.
ReadAll_Unbounded ==
  /\ at = "read" /\ kind = "restricted"
  /\ \/ TakeUnit /\ UNCHANGED <<at, result>>
     \/ AtEnd /\ UNCHANGED output
        /\ IF got > Cap THEN Return("Spawn") ELSE Go("wait")
  /\ UNCHANGED <<kind, childs, drain, late>>

\* read_all, before the wait: above the cap it returns, with the child running.
ReadAll ==
  /\ at = "read" /\ kind = "restricted"
  /\ \/ got + 1 <= Cap /\ TakeUnit /\ UNCHANGED <<at, result>>
     \/ got + 1 > Cap /\ TakeUnit /\ Return("Spawn")
     \/ AtEnd /\ Go("wait") /\ UNCHANGED output
  /\ UNCHANGED <<kind, childs, drain, late>>

-----------------------------------------------------------------------------
(* Waiting.                                                                   *)

Elapse ==
  /\ at \in {"poll", "wait"} /\ ~late /\ late' = TRUE
  /\ UNCHANGED <<kind, at, childs, output, drain, result>>

\* Mutant: the clock is not looked at, as Command::output() does not.
Poll_Unbounded ==
  /\ at = "poll"
  /\ \/ child # "running" /\ kind = "ipc" /\ Go("join")
     \/ child = "ok" /\ kind = "probe" /\ Go("read")
     \/ child = "bad" /\ kind = "probe" /\ Return("unreadable")
  /\ UNCHANGED <<kind, childs, output, drain, late>>

\* wait_within: the child is looked at before the clock is.
Poll ==
  /\ at = "poll"
  /\ \/ child # "running" /\ kind = "ipc" /\ Go("join")
     \/ child = "ok" /\ kind = "probe" /\ Go("read")
     \/ child = "bad" /\ kind = "probe" /\ Return("unreadable")
     \/ child = "running" /\ late /\ Go("kill")
  /\ UNCHANGED <<kind, childs, output, drain, late>>

Killed ==
  /\ child' = IF child = "running" THEN "killed" ELSE child
  /\ holders' = holders \ {"child"}

\* Mutant: the child is dropped, which does not end it.
KillAndReap_Dropped ==
  /\ at = "kill"
  /\ Return(IF kind = "probe" THEN "unreadable" ELSE "TimedOut")
  /\ UNCHANGED <<kind, childs, output, drain, late>>

\* kill_and_reap: back when the child, which may have ended by itself, is gone.
\* Who the child has started is not.
KillAndReap ==
  /\ at = "kill" /\ Killed
  /\ Return(IF kind = "probe" THEN "unreadable" ELSE "TimedOut")
  /\ UNCHANGED <<kind, output, drain, late>>

Join ==
  /\ at = "join" /\ drain = "done"
  /\ Return(IF got > Cap THEN "TooLarge" ELSE "answer")
  /\ UNCHANGED <<kind, childs, output, drain, late>>

\* WaitForSingleObject: the budget begins here, and a child that outlasts it is
\* ended; what it wrote is the answer all the same.
WaitForExit ==
  /\ at = "wait"
  /\ child # "running" \/ late
  /\ Killed /\ Return("answer")
  /\ UNCHANGED <<kind, output, drain, late>>

-----------------------------------------------------------------------------

Child == Write \/ CloseOutput \/ Fork \/ HeirEnds \/ Exit

\* The steps of a call that is under way.
Step ==
  Request \/ ReadAnswer \/ ReadAll \/ Poll \/ KillAndReap \/ Join \/ WaitForExit

Next ==
  \/ \E k \in Kinds : Call(k) \/ CallFails(k)
  \/ Step \/ Drain \/ Elapse \/ Child

\* The broker's two threads run, and time passes; nothing is asked of the child.
Fairness == WF_vars(Step) /\ WF_vars(Drain) /\ WF_vars(Elapse)

Spec == Init /\ [][Next]_vars /\ Fairness

-----------------------------------------------------------------------------
(* Properties.                                                                *)

\* A call that reports an answer (Ok of communicate_bounded and of
\* spawn_restricted, a version of bounded_probe) reports all that was ever
\* written: it is not cut at the cap, at the child's exit with output still in
\* the pipe, or at the end of a wait.
AnswerIsWhole == result = "answer" => got = wrote

\* bounded_probe and communicate_bounded never come back, by any of their
\* returns, with the child still running ("leaves no orphan behind", probe.rs).
\* spawn_restricted does, when its child writes more than the cap.
NoStray == at = "idle" /\ kind # "restricted" => child # "running"

\* What a call may wait for without bound: a process that the child has started
\* and, under the restricted token, the child itself with its output open.
Held == "heir" \in holders \/ (kind = "restricted" /\ "child" \in holders)

\* Every call comes back, though the child neither answers nor ends nor stops
\* writing; only who is Held for ever can prevent it.
Returns == <>[]Held \/ []<>(at = "idle")

=============================================================================
