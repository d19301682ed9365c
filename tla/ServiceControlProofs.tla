------------------------- MODULE ServiceControlProofs -------------------------
(***************************************************************************)
(* ServiceControl reports no build Active that is not the one running, for   *)
(* any set of builds, any number of asks and any amount of trouble.          *)
(***************************************************************************)
EXTENDS ServiceControl, TLAPS

\* Nothing but Windows has a service that is still on its way down.
OnlyWindowsLingers == unit = "stopping" => platform = "windows"

\* What runs is what is installed: from the look on where a start that finds the
\* service up is reported as performed (Linux), from the start on elsewhere.
CurrentOrDown == image \in {dest, NoImage}

LookedAt == at = "start" /\ platform = "linux" /\ ~blind => CurrentOrDown
Started == at = "settle" /\ attempt = "Performed" /\ ~blind => CurrentOrDown

\* Every application asks anew, and while it asks it has asks left.
Asking == /\ at \in {"stop", "install", "health", "observe", "start"} => asks = 0
          /\ at = "settle" => asks < SettleAttempts

IInv == TypeOK /\ OnlyWindowsLingers /\ LookedAt /\ Started /\ Asking

LEMMA InitHolds == Init => IInv
<1> SUFFICES ASSUME Init PROVE IInv
  OBVIOUS
<1>1. image \in Builds \cup {NoImage} /\ (unit = "stopped" <=> image = NoImage)
  BY ServiceAssumption DEF Init
<1>2. 0 \in 0..SettleAttempts /\ 0 \in 0..MaxTrouble
  BY ServiceAssumption
<1>3. TypeOK
  BY <1>1, <1>2 DEF Init, TypeOK
<1> QED
  BY <1>3 DEF Init, IInv, OnlyWindowsLingers, LookedAt, Started, Asking

\* What the service manager and other people do.
LEMMA OthersKeep ==
  ASSUME IInv, ComesUp \/ GoesDown \/ Meddle \/ Revive PROVE IInv'
<1> USE DEF IInv, TypeOK, OnlyWindowsLingers, LookedAt, Started, Asking, CurrentOrDown,
            application, history
<1>1. CASE ComesUp
  BY <1>1 DEF ComesUp
<1>2. CASE GoesDown
  BY <1>2 DEF GoesDown, Down
<1>3. CASE Meddle
  <2>1. trouble' \in 0..MaxTrouble
    BY <1>3, ServiceAssumption DEF Meddle, Trouble
  <2>2. CASE Down
    BY <1>3, <2>1, <2>2 DEF Meddle, Down
  <2>3. CASE Halt
    BY <1>3, <2>1, <2>3 DEF Meddle, Halt, Down, Up
  <2> QED  BY <1>3, <2>2, <2>3 DEF Meddle
<1>4. CASE Revive
  <2>1. trouble' \in 0..MaxTrouble
    BY <1>4, ServiceAssumption DEF Revive, Trouble
  <2> QED  BY <1>4, <2>1, ServiceAssumption DEF Revive, Launch
<1> QED  BY <1>1, <1>2, <1>3, <1>4

\* The applier up to the look: nothing it does there is bound by the two claims.
LEMMA EarlyStepsKeep ==
  ASSUME IInv, NEW build \in Builds,
         Begin(build) \/ Stop \/ StopRefused \/ Install \/ InstallDeferred \/ Gate
  PROVE  IInv'
<1> USE DEF IInv, TypeOK, OnlyWindowsLingers, LookedAt, Started, Asking, application, history, Go
<1>1. CASE Begin(build)
  <2>1. 0 \in 0..SettleAttempts
    BY ServiceAssumption
  <2>2. TypeOK'
    BY <1>1, <2>1 DEF Begin
  <2> QED  BY <1>1, <2>2 DEF Begin
<1>2. CASE Stop
  BY <1>2 DEF Stop, Halt, Down
<1>3. CASE StopRefused
  BY <1>3, ServiceAssumption DEF StopRefused, Trouble, NoTrouble
<1>4. CASE Install
  BY <1>4, ServiceAssumption DEF Install, Launch
<1>5. CASE InstallDeferred
  BY <1>5, ServiceAssumption DEF InstallDeferred, Trouble, NoTrouble
<1>6. CASE Gate
  BY <1>6 DEF Gate
<1> QED  BY <1>1, <1>2, <1>3, <1>4, <1>5, <1>6

\* An answered look that sends the applier to the start has seen nothing running.
LEMMA ObserveKeeps == ASSUME IInv, Observe PROVE IInv'
<1> USE DEF IInv, TypeOK, OnlyWindowsLingers
<1>1. PICK answer \in {"Running", "NotRunning", "Unknown"} :
        /\ Look(answer)
        /\ blind' = (answer = "Unknown" /\ RunState # "Unknown")
        /\ attempt' = IF answer = "Running" THEN "AlreadyInState" ELSE "none"
        /\ at' = IF answer = "Running" THEN "settle" ELSE "start"
  BY DEF Observe, Go
<1>2. UNCHANGED <<platform, unit, image, dest, previous, wanted, outcome, asks,
                  verdict, raced, meddled>>
  BY DEF Observe
<1>3. trouble' \in 0..MaxTrouble
  BY <1>1, ServiceAssumption DEF Look, Trouble, NoTrouble
<1>4. TypeOK'
  BY <1>1, <1>2, <1>3
<1>5. ASSUME platform = "linux", at' = "start", ~blind' PROVE image = NoImage
  BY <1>1, <1>5 DEF Look, RunState
<1> QED  BY <1>1, <1>2, <1>4, <1>5, ServiceAssumption
         DEF Observe, LookedAt, Started, Asking, CurrentOrDown

\* A start reported as performed has launched the installed bytes, or, on Linux,
\* has found up what was down at the look.
LEMMA StartKeeps == ASSUME IInv, Start \/ StartRefused PROVE IInv'
<1> USE DEF IInv, TypeOK, OnlyWindowsLingers, LookedAt, Started, Asking, CurrentOrDown, Go
<1>1. CASE Start
  BY <1>1, ServiceAssumption DEF Start, Launch
<1>2. CASE StartRefused
  BY <1>2, ServiceAssumption DEF StartRefused, Trouble
<1> QED  BY <1>1, <1>2

LEMMA AskKeeps == ASSUME IInv, Ask PROVE IInv'
<1> USE DEF IInv, TypeOK, OnlyWindowsLingers, LookedAt, Started, Asking, CurrentOrDown, history
<1>1. PICK answer \in {"Running", "NotRunning", "Unknown"} :
        /\ Look(answer)
        /\ IF answer = "Running" \/ asks + 1 = SettleAttempts
             THEN verdict' = Judged(answer) /\ at' = "idle"
             ELSE UNCHANGED <<verdict, at>>
  BY DEF Ask, Go
<1>2. trouble' \in 0..MaxTrouble
  BY <1>1, ServiceAssumption DEF Look, Trouble, NoTrouble
<1>3. Judged(answer) \in {"none", "Active", "PendingRestart", "Unknown"}
  BY <1>1 DEF Judged
<1>4. asks' \in 0..SettleAttempts /\ (at' = "settle" => asks' < SettleAttempts)
  BY <1>1, ServiceAssumption DEF Ask
<1>5. UNCHANGED <<platform, unit, image, dest, previous, wanted, outcome, attempt, blind>>
  BY DEF Ask
<1> QED  BY <1>1, <1>2, <1>3, <1>4, <1>5 DEF Ask

LEMMA ApplierKeeps == ASSUME IInv, Applier PROVE IInv'
<1>1. Stop \/ StopRefused \/ Install \/ InstallDeferred \/ Gate => IInv'
  <2>1. dest \in Builds
    BY DEF IInv, TypeOK
  <2> QED  BY <2>1, EarlyStepsKeep
<1> QED  BY <1>1, ObserveKeeps, StartKeeps, AskKeeps DEF Applier

LEMMA NextKeeps == IInv /\ [Next]_vars => IInv'
<1> SUFFICES ASSUME IInv, [Next]_vars PROVE IInv'
  OBVIOUS
<1>1. CASE Manager \/ Meddle \/ Revive
  BY <1>1, OthersKeep DEF Manager
<1>2. CASE Applier
  BY <1>2, ApplierKeeps
<1>3. ASSUME NEW build \in Builds, Begin(build) PROVE IInv'
  BY <1>3, EarlyStepsKeep
<1>4. CASE UNCHANGED vars
  BY <1>4 DEF vars, application, history, IInv, TypeOK, OnlyWindowsLingers, LookedAt,
              Started, Asking, CurrentOrDown
<1> QED  BY <1>1, <1>2, <1>3, <1>4 DEF Next

LEMMA Inductive == Spec => []IInv
  BY InitHolds, NextKeeps, PTL DEF Spec

\* Every variable has its type, however often the applier asks (settled_run_state
\* stops asking after SETTLE_ATTEMPTS).
THEOREM ServiceTyped == Spec => []TypeOK
<1>1. IInv => TypeOK
  BY DEF IInv
<1> QED  BY <1>1, Inductive, PTL

\* A pass that reports a build Active speaks of a running process of the bytes at
\* the destination, or has had no answer when it looked (judge_restart).
THEOREM ActiveHolds == Spec => ActiveIsTrue
<1> DEFINE Told == (at = "settle" /\ at' = "idle" /\ verdict' = "Active")
                     => (blind \/ (image = dest /\ Up))
<1>1. IInv /\ [Next]_vars => [Told]_vars
  <2> SUFFICES ASSUME IInv, [Next]_vars, at = "settle", at' = "idle", verdict' = "Active",
                      ~blind
               PROVE  image = dest /\ Up
    OBVIOUS
  <2>1. Ask
    BY DEF Next, Manager, Applier, vars, application, history, Go, ComesUp, GoesDown, Meddle,
           Revive, Begin, Stop, StopRefused, Install, InstallDeferred, Gate, Observe, Start,
           StartRefused
  <2>2. PICK answer : Look(answer) /\ verdict' = Judged(answer)
    BY <2>1 DEF Ask, Go
  <2>3. answer = "Running" /\ attempt = "Performed"
    BY <2>2 DEF Judged
  <2>4. Up
    BY <2>2, <2>3 DEF Look, RunState, Up
  <2> QED  BY <2>3, <2>4 DEF IInv, TypeOK, Started, CurrentOrDown, Up
<1> QED  BY <1>1, Inductive, PTL DEF Spec, ActiveIsTrue
=============================================================================
