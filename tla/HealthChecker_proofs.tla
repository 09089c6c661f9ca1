------------------------ MODULE HealthChecker_proofs ------------------------
(***************************************************************************)
(* Theorems about HealthChecker, for every number of tasks and instances,  *)
(* every choice of Options and Ops and every value of the limits.          *)
(***************************************************************************)
EXTENDS HealthChecker, TLAPS

(***************************************************************************)
(* The restart limit.  An attempt under way is not yet counted, so within  *)
(* an open window the attempts are at most one ahead of restart_count.     *)
(***************************************************************************)
WithinLimit ==
    /\ attempts \in Nat
    /\ restarts \in Nat
    /\ window \in {"none", "open", "over"}
    /\ attempts <= MaxRestarts
    /\ window # "none" => 1 <= MaxRestarts
    /\ window = "open" /\ phase = "restarting" => attempts <= restarts + 1
    /\ window = "open" /\ phase # "restarting" => attempts <= restarts
    /\ phase = "restarting" => restarts < MaxRestarts

\* An attempt that begins finds the count below the maximum, or resets it.
LEMMA AttemptWithinLimit ==
    ASSUME WithinLimit, NEW p \in {"handle", "pending"}, Attempt(p)
    PROVE  WithinLimit'
  <1>1. phase # "restarting" /\ phase' = "restarting"
    BY DEF Attempt, Due, Enter
  <1>2. MaxRestarts \in Nat
    BY HealthAssumption
  <1>3. CASE window = "open"
    <2>1. attempts' = attempts + 1 /\ restarts' = restarts /\ window' = window
      BY <1>3 DEF Attempt
    <2>2. restarts < MaxRestarts
      BY <1>3 DEF Attempt, ShouldRestart
    <2> QED
      BY <1>1, <1>2, <1>3, <2>1, <2>2 DEF WithinLimit
  <1>4. CASE window # "open"
    <2>1. attempts' = 1 /\ restarts' = 0 /\ window' = "open"
      BY <1>4 DEF Attempt
    <2>2. 1 <= MaxRestarts
      BY <1>2, <1>4 DEF Attempt, ShouldRestart, WithinLimit
    <2> QED
      BY <1>1, <1>2, <2>1, <2>2 DEF WithinLimit
  <1> QED
    BY <1>3, <1>4

\* The loop counts an attempt when it returns, and never more than it began.
LEMMA LoopWithinLimit ==
    ASSUME WithinLimit, HealthStep
    PROVE  WithinLimit'
  <1> USE HealthAssumption
  <1>1. CASE \E p \in {"handle", "pending"} : Attempt(p)
    BY <1>1, AttemptWithinLimit
  <1>2. CASE Attempted
    BY <1>2 DEF Attempted, Count, Enter, WithinLimit
  <1>3. CASE \E p \in {"handle", "pending"} : PrerequisiteFails(p)
    BY <1>3 DEF PrerequisiteFails, Due, Count, Enter, After, WithinLimit
  <1>4. CASE \E p \in {"handle", "pending"} : GiveUp(p) \/ BackOff(p)
    BY <1>4 DEF GiveUp, BackOff, Skip, Due, Enter, After, WithinLimit
  <1>5. CASE Tick \/ SendPing \/ ApplyPing \/ SendProbe \/ ApplyProbe
    BY <1>5 DEF Tick, SendPing, SendProbe, Ping, ApplyPing, ApplyProbe, Enter, WithinLimit
  <1>6. CASE PassOver \/ CircuitOpen \/ Pending
    BY <1>6 DEF PassOver, CircuitOpen, Pending, Skip, Enter, WithinLimit
  <1>7. CASE OverLimit \/ MemoryRestart \/ EndOfCycle
    BY <1>7 DEF OverLimit, MemoryRestart, EndOfCycle, Skip, Enter, WithinLimit
  <1> QED
    BY <1>1, <1>2, <1>3, <1>4, <1>5, <1>6, <1>7 DEF HealthStep

\* Nobody else touches the counters, except that the window runs out.
LEMMA StepWithinLimit ==
    ASSUME WithinLimit, [Next]_vars
    PROVE  WithinLimit'
  <1>1. CASE HealthStep
    BY <1>1, LoopWithinLimit
  <1>2. CASE WindowOver
    BY <1>2 DEF WindowOver, WithinLimit
  <1>3. ASSUME NEW t \in Tasks, Shutdown(t)
        PROVE  WithinLimit'
    BY <1>3 DEF Shutdown, Enter, WithinLimit
  <1>4. CASE UNCHANGED healthVars
    BY <1>4 DEF healthVars, WithinLimit
  <1> QED
    BY <1>1, <1>2, <1>3, <1>4 DEF Next, RestartTimesOut, Client, vars

\* The restarts and starts begun within one restart window are at most
\* max_restarts, whatever clients, reapers and timeouts do meanwhile.
THEOREM LimitHolds == Spec => []AttemptsBounded
  <1>1. Init => WithinLimit
    BY HealthAssumption DEF Init, WithinLimit
  <1>2. WithinLimit /\ [Next]_vars => WithinLimit'
    BY StepWithinLimit
  <1>3. WithinLimit => AttemptsBounded
    BY DEF WithinLimit, AttemptsBounded
  <1> QED
    BY <1>1, <1>2, <1>3, PTL DEF Spec

(***************************************************************************)
(* Types, and what an operation holds.  An instance on its way into the    *)
(* map is fresh: nobody else starts it, it is not the one in the map, and  *)
(* nothing has judged it yet.                                              *)
(***************************************************************************)
OpsFit ==
    \A t \in Tasks :
        /\ pc[t] \in {"snapshot", "clear", "pools"} => op[t] = "stop_all"
        /\ pc[t] = "unpool_again" => op[t] = "remove"
        /\ pc[t] = "last_pool_stop" => op[t] \in {"remove", "stop_all"}
        /\ pc[t] \in {"prewarm", "reap"} => hand[t] \in Instances

Starting(t) == pc[t] \in {"handshake", "register", "publish"}

Fresh ==
    /\ \A t \in Tasks : Starting(t) =>
          /\ hand[t] \in Instances
          /\ state[hand[t]] \notin {"unused", "unhealthy"}
          /\ hand[t] # backends
    /\ \A t, u \in Tasks : Starting(t) /\ Starting(u) /\ t # u => hand[t] # hand[u]
    /\ backends # None => state[backends] # "unused"

Unwell == backends # None /\ state[backends] = "unhealthy"

ManagerInv == TypeOK /\ OpsFit /\ Fresh

\* A step of an operation: a start takes an instance nobody has, publishes its
\* own, and nothing becomes Unhealthy.
LEMMA OpKeepsManager ==
    ASSUME ManagerInv, NEW t \in Tasks, OpStep(t)
    PROVE  ManagerInv' /\ (Unwell' => Unwell)
  <1> USE ManagerAssumption DEF ManagerInv, TypeOK, OpPcs, OpsFit, Fresh, Starting, Unwell,
                                At, Goto, Hold, Keep, SetState, instanceVars
  <1>1. CASE Detach(t)
    BY <1>1 DEF Detach
  <1>2. CASE Stop(t)
    <2>1. TypeOK'
      BY <1>2 DEF Stop
    <2>2. OpsFit'
      BY <1>2 DEF Stop
    <2>3. Fresh'
      BY <1>2 DEF Stop
    <2>4. Unwell' => Unwell
      BY <1>2 DEF Stop
    <2> QED
      BY <2>1, <2>2, <2>3, <2>4
  <1>3. CASE Unpool(t)
    <2>1. TypeOK'
      BY <1>3, ZenonT(60) DEF Unpool, Return
    <2>2. OpsFit'
      BY <1>3 DEF Unpool, Return
    <2>3. Fresh'
      BY <1>3 DEF Unpool, Return
    <2>4. Unwell' => Unwell
      BY <1>3 DEF Unpool, Return
    <2> QED
      BY <2>1, <2>2, <2>3, <2>4
  <1>4. CASE PoolStopped(t)
    BY <1>4 DEF PoolStopped, Return
  <1>5. CASE Untool(t)
    BY <1>5, ZenonT(60) DEF Untool
  <1>6. CASE Configure(t)
    <2>1. TypeOK'
      BY <1>6, ZenonT(60) DEF Configure, Return
    <2>2. OpsFit'
      BY <1>6 DEF Configure, Return
    <2>3. Fresh'
      BY <1>6 DEF Configure, Return
    <2>4. Unwell' => Unwell
      BY <1>6 DEF Configure, Return
    <2> QED
      BY <2>1, <2>2, <2>3, <2>4
  <1>7. CASE SpawnProcess(t)
    BY <1>7 DEF SpawnProcess
  <1>8. CASE Connected(t)
    BY <1>8 DEF Connected
  <1>9. CASE ConnectFails(t)
    BY <1>9 DEF ConnectFails, Return
  <1>10. CASE Register(t)
    BY <1>10 DEF Register
  <1>11. CASE Publish(t)
    BY <1>11 DEF Publish
  <1>12. CASE Prewarmed(t)
    BY <1>12 DEF Prewarmed
  <1>13. CASE SpawnReaper(t)
    <2>1. TypeOK'
      BY <1>13 DEF SpawnReaper, Return
    <2>2. OpsFit'
      BY <1>13 DEF SpawnReaper, Return
    <2>3. Fresh'
      BY <1>13 DEF SpawnReaper, Return
    <2>4. Unwell' => Unwell
      BY <1>13 DEF SpawnReaper, Return
    <2> QED
      BY <2>1, <2>2, <2>3, <2>4
  <1>14. CASE Snapshot(t)
    BY <1>14 DEF Snapshot
  <1>15. CASE Clear(t)
    <2>1. TypeOK'
      BY <1>15 DEF Clear
    <2>2. OpsFit'
      BY <1>15 DEF Clear
    <2>3. Fresh'
      BY <1>15 DEF Clear
    <2>4. Unwell' => Unwell
      BY <1>15 DEF Clear
    <2> QED
      BY <2>1, <2>2, <2>3, <2>4
  <1>16. CASE StopTimesOut(t)
    <2>1. TypeOK'
      BY <1>16 DEF StopTimesOut
    <2>2. OpsFit'
      BY <1>16 DEF StopTimesOut
    <2>3. Fresh'
      BY <1>16 DEF StopTimesOut
    <2>4. Unwell' => Unwell
      BY <1>16 DEF StopTimesOut
    <2> QED
      BY <2>1, <2>2, <2>3, <2>4
  <1> QED
    BY <1>1, <1>2, <1>3, <1>4, <1>5, <1>6, <1>7, <1>8, <1>9, <1>10, <1>11, <1>12, <1>13,
       <1>14, <1>15, <1>16 DEF OpStep, CleanUp, Start, Halt

\* Crashes, hangs, reapers and drops: an instance that is dropped was nobody's.
LEMMA WorldKeepsManager ==
    ASSUME ManagerInv, NEW i \in Instances, World(i)
    PROVE  ManagerInv' /\ (Unwell' => Unwell)
  <1> USE ManagerAssumption DEF ManagerInv, TypeOK, OpsFit, Fresh, Starting, Unwell, taskVars
  <1>1. CASE Crash(i)
    BY <1>1 DEF Crash
  <1>2. CASE Hang(i)
    BY <1>2 DEF Hang, Alive
  <1>3. CASE Reap(i)
    BY <1>3 DEF Reap
  <1>4. CASE ReaperLeaves(i)
    BY <1>4 DEF ReaperLeaves
  <1>5. CASE DropInstance(i)
    BY <1>5 DEF DropInstance, Referenced
  <1> QED
    BY <1>1, <1>2, <1>3, <1>4, <1>5 DEF World


\* An operation that begins holds nothing.
LEMMA BeginKeepsManager ==
    ASSUME ManagerInv, NEW t \in Tasks,
           NEW o \in {"start", "boot", "add", "remove", "restart", "stop_all"},
           NEW label \in {"detach", "config", "spawn", "snapshot"},
           label = "snapshot" => o = "stop_all",
           Begin(t, o, label),
           configured' \in BOOLEAN, asked' \in {"booting", "none", "remove", "stop_all"}
    PROVE  ManagerInv' /\ (Unwell' => Unwell)
  <1> USE DEF ManagerInv, TypeOK, OpPcs, OpsFit, Fresh, Starting, Unwell, Begin, instanceVars
  <1>1. TypeOK'
    OBVIOUS
  <1>2. OpsFit'
    OBVIOUS
  <1>3. Fresh'
    OBVIOUS
  <1>4. Unwell' => Unwell
    OBVIOUS
  <1> QED
    BY <1>1, <1>2, <1>3, <1>4

\* Whoever asks for an operation only begins it.
LEMMA RequestKeepsManager ==
    ASSUME ManagerInv, NEW t \in Tasks, Request(t) \/ StopAll(t) \/ BeginRestart(t) \/ BeginStart(t)
    PROVE  ManagerInv' /\ (Unwell' => Unwell)
  <1>1. configured \in BOOLEAN /\ asked \in {"booting", "none", "remove", "stop_all"}
    BY DEF ManagerInv, TypeOK
  <1>2. CASE Boot(t)
    BY <1>2, BeginKeepsManager DEF Boot
  <1>3. ASSUME NEW o \in {"add", "remove", "restart"}, Change(t, o)
        PROVE  ManagerInv' /\ (Unwell' => Unwell)
    BY <1>1, <1>3, BeginKeepsManager DEF Change
  <1>4. CASE StopAll(t)
    BY <1>1, <1>4, BeginKeepsManager DEF StopAll
  <1>5. CASE BeginRestart(t)
    BY <1>1, <1>5, BeginKeepsManager DEF BeginRestart
  <1>6. CASE BeginStart(t)
    BY <1>1, <1>6, BeginKeepsManager DEF BeginStart
  <1> QED
    BY <1>2, <1>3, <1>4, <1>5, <1>6 DEF Request

\* A dropped operation lets go of what it held.
LEMMA DropKeepsManager ==
    ASSUME ManagerInv, NEW t \in Tasks, DropOperation(t)
    PROVE  ManagerInv' /\ (Unwell' => Unwell)
  <1> USE DEF ManagerInv, TypeOK, OpPcs, OpsFit, Fresh, Starting, Unwell, DropOperation, Return,
              instanceVars
  <1>1. TypeOK'
    OBVIOUS
  <1>2. OpsFit'
    OBVIOUS
  <1>3. Fresh'
    OBVIOUS
  <1>4. Unwell' => Unwell
    OBVIOUS
  <1> QED
    BY <1>1, <1>2, <1>3, <1>4

(***************************************************************************)
(* The loop.  What it knows of the backend while it goes on from its       *)
(* snapshot: only its own verdict makes the instance in the map Unhealthy, *)
(* so after another snapshot than Unhealthy none is.                       *)
(***************************************************************************)
LoopTypes ==
    /\ phase \in {"sleep", "ping", "apply", "handle", "probe", "probed",
                  "restarting", "pending", "memory", "over_limit", "memory_restart", "gone"}
    /\ snap \in Statuses
    /\ pinged \in Instances \cup {None}
    /\ answer \in {"none", "ok", "failed"}
    /\ failures \in 0..FailureThreshold
    /\ restarts \in 0..MaxRestarts
    /\ window \in {"none", "open", "over"}
    /\ attempts \in Nat

LoopKnows ==
    /\ Unwell => circuit
    /\ phase \in {"ping", "apply"} => snap = "healthy" /\ ~Unwell
    /\ phase = "handle" /\ snap = "unhealthy" => circuit
    /\ phase \notin {"sleep", "gone"} /\ snap \in {"absent", "starting", "stopped"} => ~Unwell
    /\ phase = "restarting" => snap \in {"absent", "stopped"}
    /\ phase = "pending" => snap = "absent"

LoopInv == LoopTypes /\ circuit \in BOOLEAN /\ LoopKnows

\* Steps of others change none of the loop's variables and make nothing
\* Unhealthy.
LEMMA OthersKeepLoop ==
    ASSUME LoopInv, UNCHANGED healthVars, Unwell' => Unwell
    PROVE  LoopInv'
  BY DEF LoopInv, LoopTypes, LoopKnows, healthVars

\* The loop's own steps on the manager.
LEMMA LoopKeepsManager ==
    ASSUME ManagerInv, LoopInv, HealthStep
    PROVE  ManagerInv'
  <1> USE ManagerAssumption
  <1>1. CASE UNCHANGED mgrVars
    BY <1>1 DEF mgrVars, instanceVars, taskVars, ManagerInv, TypeOK, OpsFit, Fresh, Starting
  <1>2. CASE ApplyPing
    BY <1>2 DEF ApplyPing, Trip, SetState, taskVars, ManagerInv, TypeOK, OpsFit, Fresh, Starting
  <1>3. CASE ApplyProbe
    BY <1>3 DEF ApplyProbe, SetState, taskVars, ManagerInv, TypeOK, OpsFit, Fresh, Starting
  <1>4. ASSUME NEW p \in {"handle", "pending"}, GiveUp(p)
        PROVE  ManagerInv'
    BY <1>4 DEF GiveUp, instanceVars, taskVars, ManagerInv, TypeOK, OpsFit, Fresh, Starting
  <1>5. ASSUME NEW p \in {"handle", "pending"}, Attempt(p)
        PROVE  ManagerInv'
    BY <1>5, RequestKeepsManager DEF Attempt
  <1>6. CASE MemoryRestart
    BY <1>6, RequestKeepsManager DEF MemoryRestart
  <1> QED
    BY <1>1, <1>2, <1>3, <1>4, <1>5, <1>6
       DEF HealthStep, Tick, SendPing, SendProbe, Ping, PassOver, CircuitOpen, Skip, BackOff,
           PrerequisiteFails, Attempted, Pending, OverLimit, EndOfCycle


\* The loop's own steps: the failure of a ping opens the circuit with the state,
\* and the circuit closes on snapshots only that exclude an Unhealthy instance.
LEMMA LoopKeepsLoop ==
    ASSUME ManagerInv, LoopInv, HealthStep
    PROVE  LoopInv'
  <1> USE HealthAssumption DEF LoopInv, LoopTypes, LoopKnows, Statuses, Enter, Unwell
  <1>1. CASE Tick
    BY <1>1 DEF Tick, mgrVars, instanceVars, ManagerInv, TypeOK, Fresh
  <1>2. CASE SendPing \/ SendProbe
    BY <1>2 DEF SendPing, SendProbe, Ping, mgrVars, instanceVars, ManagerInv, TypeOK
  <1>3. CASE ApplyPing
    <2>1. LoopTypes'
      BY <1>3 DEF ApplyPing, RecordSuccess, RecordFailure, Trip, TripsAt
    <2>2. LoopKnows'
      BY <1>3 DEF ApplyPing, RecordSuccess, RecordFailure, Trip, TripsAt
    <2>3. circuit' \in BOOLEAN
      BY <1>3 DEF ApplyPing, RecordSuccess, Trip
    <2> QED
      BY <2>1, <2>2, <2>3
  <1>4. CASE ApplyProbe
    <2>1. LoopTypes'
      BY <1>4 DEF ApplyProbe, RecordSuccess, SetState, ManagerInv, TypeOK
    <2>2. LoopKnows'
      BY <1>4 DEF ApplyProbe, RecordSuccess, SetState, ManagerInv, TypeOK
    <2>3. circuit' \in BOOLEAN
      BY <1>4 DEF ApplyProbe, RecordSuccess
    <2> QED
      BY <2>1, <2>2, <2>3
  <1>5. CASE PassOver \/ CircuitOpen
    BY <1>5 DEF PassOver, CircuitOpen, Skip, mgrVars, instanceVars
  <1>6. ASSUME NEW p \in {"handle", "pending"}, GiveUp(p) \/ BackOff(p) \/ PrerequisiteFails(p)
        PROVE  LoopInv'
    <2>1. LoopTypes'
      <3>1. CASE GiveUp(p)
        BY <3>1 DEF GiveUp, After
      <3>2. CASE BackOff(p)
        BY <3>2 DEF BackOff, After, Skip
      <3>3. CASE PrerequisiteFails(p)
        BY <3>3 DEF PrerequisiteFails, After, Count
      <3> QED
        BY <1>6, <3>1, <3>2, <3>3
    <2>2. LoopKnows'
      BY <1>6 DEF GiveUp, BackOff, PrerequisiteFails, Due, CloseCircuit, After, Skip,
                  mgrVars, instanceVars
    <2>3. circuit' \in BOOLEAN
      BY <1>6 DEF GiveUp, BackOff, PrerequisiteFails, CloseCircuit
    <2> QED
      BY <2>1, <2>2, <2>3
  <1>7. ASSUME NEW p \in {"handle", "pending"}, Attempt(p)
        PROVE  LoopInv'
    <2>1. Unwell' => Unwell
      BY <1>7, RequestKeepsManager, ManagerAssumption DEF Attempt
    <2>2. LoopTypes'
      BY <1>7 DEF Attempt, Due, CloseCircuit
    <2>3. LoopKnows'
      BY <1>7, <2>1 DEF Attempt, Due, CloseCircuit
    <2>4. circuit' \in BOOLEAN
      BY <1>7 DEF Attempt, CloseCircuit
    <2> QED
      BY <2>2, <2>3, <2>4
  <1>8. CASE Attempted
    <2>1. LoopTypes'
      BY <1>8 DEF Attempted, RecordSuccess, Count, mgrVars, instanceVars
    <2>2. LoopKnows'
      BY <1>8 DEF Attempted, RecordSuccess, Count, mgrVars, instanceVars
    <2>3. circuit' \in BOOLEAN
      BY <1>8 DEF Attempted, RecordSuccess
    <2> QED
      BY <2>1, <2>2, <2>3
  <1>9. CASE Pending
    <2>1. LoopTypes'
      BY <1>9 DEF Pending, Skip, mgrVars, instanceVars
    <2>2. LoopKnows'
      BY <1>9 DEF Pending, Skip, mgrVars, instanceVars
    <2>3. circuit' \in BOOLEAN
      BY <1>9 DEF Pending
    <2> QED
      BY <2>1, <2>2, <2>3
  <1>10. CASE OverLimit \/ EndOfCycle
    <2>1. LoopTypes'
      BY <1>10 DEF OverLimit, EndOfCycle, Skip, mgrVars, instanceVars
    <2>2. LoopKnows'
      BY <1>10 DEF OverLimit, EndOfCycle, Skip, mgrVars, instanceVars
    <2>3. circuit' \in BOOLEAN
      BY <1>10 DEF OverLimit, EndOfCycle, Skip
    <2> QED
      BY <2>1, <2>2, <2>3
  <1>11. CASE MemoryRestart
    <2>1. Unwell' => Unwell
      BY <1>11, RequestKeepsManager, ManagerAssumption DEF MemoryRestart
    <2> QED
      BY <1>11, <2>1 DEF MemoryRestart
  <1> QED
    BY <1>1, <1>2, <1>3, <1>4, <1>5, <1>6, <1>7, <1>8, <1>9, <1>10, <1>11 DEF HealthStep

Inv == ManagerInv /\ LoopInv

\* Nothing runs, nothing is known.
LEMMA InitInv == Init => Inv
  <1> SUFFICES ASSUME Init PROVE Inv
    OBVIOUS
  <1> USE ManagerAssumption, HealthAssumption DEF Init, MgrInit
  <1>1. TypeOK
    BY DEF TypeOK, OpPcs
  <1>2. OpsFit /\ Fresh
    BY DEF OpsFit, Fresh, Starting
  <1>3. LoopTypes
    BY DEF LoopTypes, Statuses
  <1>4. circuit \in BOOLEAN
    OBVIOUS
  <1>5. LoopKnows
    BY DEF LoopKnows, Unwell
  <1> QED
    BY <1>1, <1>2, <1>3, <1>4, <1>5 DEF Inv, ManagerInv, LoopInv

\* Every step keeps the invariant of the manager and of the loop.
LEMMA StepInv ==
    ASSUME Inv, [Next]_vars
    PROVE  Inv'
  <1> USE DEF Inv
  <1>1. CASE HealthStep
    BY <1>1, LoopKeepsManager, LoopKeepsLoop
  <1>2. CASE RestartTimesOut
    BY <1>2, ManagerAssumption, DropKeepsManager, OthersKeepLoop DEF RestartTimesOut
  <1>3. CASE WindowOver
    <2>1. ManagerInv'
      BY <1>3 DEF WindowOver, mgrVars, instanceVars, taskVars, ManagerInv, TypeOK, OpsFit,
                  Fresh, Starting
    <2>2. LoopInv'
      BY <1>3 DEF WindowOver, mgrVars, instanceVars, LoopInv, LoopTypes, LoopKnows, Unwell
    <2> QED
      BY <2>1, <2>2
  <1>4. ASSUME NEW t \in Tasks, Request(t), UNCHANGED healthVars
        PROVE  Inv'
    BY <1>4, RequestKeepsManager, OthersKeepLoop
  <1>5. ASSUME NEW t \in Tasks, Shutdown(t)
        PROVE  Inv'
    <2>1. ManagerInv' /\ (Unwell' => Unwell)
      BY <1>5, RequestKeepsManager DEF Shutdown
    <2>2. LoopInv'
      BY <1>5, <2>1 DEF Shutdown, Enter, LoopInv, LoopTypes, LoopKnows
    <2> QED
      BY <2>1, <2>2
  <1>6. ASSUME NEW t \in Tasks, OpStep(t), UNCHANGED healthVars
        PROVE  Inv'
    BY <1>6, OpKeepsManager, OthersKeepLoop
  <1>7. ASSUME NEW i \in Instances, World(i), UNCHANGED healthVars
        PROVE  Inv'
    BY <1>7, WorldKeepsManager, OthersKeepLoop
  <1>8. CASE UNCHANGED vars
    <2>1. ManagerInv'
      BY <1>8 DEF vars, mgrVars, instanceVars, taskVars, ManagerInv, TypeOK, OpsFit,
                  Fresh, Starting
    <2>2. LoopInv'
      BY <1>8, OthersKeepLoop DEF vars, mgrVars, instanceVars, Unwell
    <2> QED
      BY <2>1, <2>2
  <1> QED
    BY <1>1, <1>2, <1>3, <1>4, <1>5, <1>6, <1>7, <1>8 DEF Next, Client

\* The inductive invariant.
LEMMA InvHolds == Spec => []Inv
  BY InitInv, StepInv, PTL DEF Spec

\* Every variable of the manager and the loop keeps its type.
THEOREM HealthTypeCorrect == Spec => []HealthTypeOK
  <1>1. Inv => HealthTypeOK
    BY DEF Inv, ManagerInv, LoopInv, LoopTypes, HealthTypeOK
  <1> QED
    BY <1>1, InvHolds, PTL

\* An Unhealthy instance is in the map only while the circuit is open, whatever
\* operations overlap the loop: so the branch of phase 2 that restarts an
\* Unhealthy backend with a closed circuit is never taken.
THEOREM CircuitGuardsUnhealthy == Spec => []UnhealthyIsOpen
  <1>1. Inv => UnhealthyIsOpen
    BY DEF Inv, LoopInv, LoopKnows, Unwell, UnhealthyIsOpen
  <1> QED
    BY <1>1, InvHolds, PTL

(***************************************************************************)
(* A cycle that nobody disturbs.  While the loop is in a cycle nobody else *)
(* works on the backend, so what the snapshot says of a stopped or absent  *)
(* one is still so when the loop acts on it.                               *)
(***************************************************************************)
Alone ==
    phase \notin {"sleep", "gone"} =>
        /\ \A t \in Tasks \ {Health} : pc[t] = "none"
        /\ phase \notin {"restarting", "memory_restart"} => pc[Health] = "none"

StillSo ==
    /\ phase = "handle" /\ snap = "stopped" => backends # None /\ state[backends] = "stopped"
    /\ phase \in {"handle", "pending"} /\ snap = "absent" => backends = None
    /\ phase \in {"probe", "probed"} => snap = "unhealthy"
    /\ phase = "restarting" /\ pc[Health] = "detach" /\ backends # None => state[backends] = "stopped"

CycleInv == Alone /\ StillSo

(***************************************************************************)
(* One operation at a time, run to its end.                                *)
(***************************************************************************)
Undisturbed == Options \cap {"parallel", "midcycle", "timeout"} = {}

Serial ==
    /\ \A t, u \in Tasks : pc[t] # "none" /\ pc[u] # "none" => t = u
    /\ \A t \in Tasks : pc[t] = "none" => op[t] = "none" /\ hand[t] = None

Launching == {"spawn", "handshake", "register", "publish"}

\* From the moment the map is cleared to the moment it is filled again.
Vacant == {"stop", "unpool", "pool_stop", "last_pool_stop", "untool", "config", "unpool_again",
           "pools"} \cup Launching

\* What an operation has done so far.
Stages ==
    \A t \in Tasks :
        /\ pc[t] \in Vacant => backends = None
        /\ pc[t] \in (Vacant \ {"stop", "unpool", "pools"}) \cup {"prewarm"} => ~pool
        /\ pc[t] = "prewarm" => Dedicated
        /\ pc[t] \in {"clear", "prewarm", "reap"} => hand[t] = backends
        /\ pc[t] = "reap" => pool = Dedicated
        /\ pc[t] \in {"publish", "prewarm", "reap"} => listed
        /\ op[t] = "remove" /\ pc[t] \in {"config", "unpool_again", "last_pool_stop"} => ~listed
        /\ op[t] = "remove" /\ pc[t] \in {"unpool_again", "last_pool_stop"} => ~configured
        /\ Starting(t) => state[hand[t]] # "stopped" /\ hand[t] \notin reapers
        /\ pc[t] \in {"register", "publish"} => state[hand[t]] = "healthy"

Pooled ==
    (\A t \in Tasks : pc[t] \in {"none", "detach", "snapshot", "clear"}) =>
        pool = (Dedicated /\ backends # None)

\* A child that a reaper watches is in the map or about to be stopped; the one
\* in the map is watched or about to be.
Children ==
    /\ \A i \in reapers : state[i] # "unused"
    /\ \A i \in reapers : Alive(i) => i = backends \/ \E t \in Tasks : pc[t] = "stop" /\ hand[t] = i
    /\ backends # None /\ Alive(backends) =>
          /\ state[backends] # "stopped"
          /\ backends \in reapers \/ \E t \in Tasks : pc[t] \in {"prewarm", "reap"}

\* The tools of a backend in the map are registered until its restarts are used up.
Offered ==
    /\ backends # None /\ state[backends] \in {"healthy", "unhealthy"} => listed
    /\ phase \in {"ping", "apply", "handle", "probe", "probed"}
          /\ snap \in {"healthy", "unhealthy"} => listed

\* What the last operation asked for still holds.
Lasting ==
    /\ asked = "booting" => Idle /\ backends = None /\ ~pool /\ phase = "sleep"
    /\ asked = "remove" => /\ ~configured /\ backends = None /\ ~listed
                           /\ \A t \in Tasks : op[t] # "add" /\ pc[t] \notin Launching
    /\ asked = "stop_all" => backends = None /\ ~pool /\ \A i \in reapers : ~Alive(i)

TidyInv == Serial /\ Stages /\ Pooled /\ Children /\ Offered /\ Lasting

\* Where an operation's step leads.
LEMMA OpMoves ==
    ASSUME ManagerInv, NEW t \in Tasks, OpStep(t)
    PROVE  /\ pc[t] # "none"
           /\ pc'[t] # "detach"
           /\ \A u \in Tasks \ {t} : pc'[u] = pc[u]
<1> USE DEF ManagerInv, TypeOK, At, Goto, Return
<1>1. CASE CleanUp(t)
  BY <1>1 DEF CleanUp, Detach, Stop, Unpool, PoolStopped, Untool, Configure
<1>2. CASE Start(t)
  BY <1>2 DEF Start, SpawnProcess, Connected, ConnectFails, Register, Publish, Prewarmed,
              SpawnReaper
<1>3. CASE Halt(t)
  BY <1>3 DEF Halt, Snapshot, Clear, StopTimesOut
<1> QED
  BY <1>1, <1>2, <1>3 DEF OpStep

\* The surroundings do not touch the map, and an exit is recorded as a stop.
LEMMA WorldAround ==
    ASSUME ManagerInv, NEW i \in Instances, World(i)
    PROVE  /\ UNCHANGED <<backends, pc, op, hand, configured, listed, pool, asked>>
           /\ backends # None => state'[backends] = state[backends] \/ state'[backends] = "stopped"
BY DEF ManagerInv, TypeOK, World, Crash, Hang, Reap, ReaperLeaves, DropInstance, Referenced, taskVars

\* The loop's own steps.
LEMMA LoopKeepsCycle ==
    ASSUME "midcycle" \notin Options, Inv, CycleInv, HealthStep
    PROVE  CycleInv'
<1> USE ManagerAssumption DEF CycleInv, Alone, StillSo, Enter, mgrVars, instanceVars, taskVars
<1>0. /\ backends \in Instances \cup {None} /\ pc \in [Tasks -> OpPcs]
      /\ snap \in Statuses /\ state \in [Instances -> {"unused", "starting", "healthy", "unhealthy", "stopped"}]
      /\ phase = "handle" /\ snap = "unhealthy" => circuit
      /\ phase = "restarting" => snap \in {"absent", "stopped"}
  BY DEF Inv, ManagerInv, TypeOK, LoopInv, LoopTypes, LoopKnows
<1>1. CASE Tick
  BY <1>0, <1>1 DEF Tick, Idle
<1>2. CASE SendPing \/ SendProbe
  BY <1>0, <1>2 DEF SendPing, SendProbe, Ping
<1>3. CASE ApplyPing
  <2>1. snap = "healthy"
    BY <1>3 DEF ApplyPing, Inv, LoopInv, LoopKnows
  <2> QED BY <1>3, <2>1 DEF ApplyPing
<1>4. CASE ApplyProbe
  BY <1>4 DEF ApplyProbe
<1>5. CASE PassOver \/ CircuitOpen
  BY <1>5 DEF PassOver, CircuitOpen, Skip
<1>6. ASSUME NEW p \in {"handle", "pending"}, GiveUp(p) \/ BackOff(p) \/ PrerequisiteFails(p)
      PROVE  CycleInv'
  BY <1>6 DEF GiveUp, BackOff, PrerequisiteFails, Skip, Due, After
<1>7. ASSUME NEW p \in {"handle", "pending"}, Attempt(p)
      PROVE  CycleInv'
  <2>1. Due(p) /\ phase' = "restarting" /\ backends' = backends /\ state' = state
    BY <1>7 DEF Attempt, BeginRestart, BeginStart, Begin
  <2>2. \A u \in Tasks \ {Health} : pc'[u] = "none"
    BY <1>0, <1>7 DEF Attempt, BeginRestart, BeginStart, Begin, Due
  <2>3. pc'[Health] = "detach" => phase = "handle"
    BY <1>0, <1>7 DEF Attempt, BeginRestart, BeginStart, Begin, Due
  <2>4. phase = "handle" => snap = "stopped"
    BY <1>0, <2>1 DEF Due
  <2> QED BY <2>1, <2>2, <2>3, <2>4
<1>8. CASE Attempted
  BY <1>0, <1>8 DEF Attempted
<1>9. CASE Pending
  BY <1>9 DEF Pending, Skip
<1>10. CASE OverLimit \/ EndOfCycle
  BY <1>10 DEF OverLimit, EndOfCycle, Skip
<1>11. CASE MemoryRestart
  BY <1>0, <1>11 DEF MemoryRestart, BeginRestart, Begin
<1> QED
  BY <1>1, <1>2, <1>3, <1>4, <1>5, <1>6, <1>7, <1>8, <1>9, <1>10, <1>11 DEF HealthStep

\* Others act between two cycles, or do not touch what the snapshot is about.
LEMMA CycleStep ==
    ASSUME "midcycle" \notin Options, Inv, CycleInv, [Next]_vars
    PROVE  CycleInv'
<1> USE ManagerAssumption
<1>1. CASE HealthStep
  BY <1>1, LoopKeepsCycle
<1>2. CASE RestartTimesOut
  BY <1>2 DEF RestartTimesOut, DropOperation, Return, CycleInv, Alone, StillSo, healthVars,
              instanceVars, Inv, ManagerInv, TypeOK
<1>3. CASE WindowOver
  BY <1>3 DEF WindowOver, CycleInv, Alone, StillSo, mgrVars, instanceVars, taskVars
<1>4. ASSUME NEW t \in Tasks \ {Health}, Client(t)
      PROVE  CycleInv'
  <2>1. phase = "sleep" /\ phase' \in {"sleep", "gone"}
    BY <1>4 DEF Client, Shutdown, Enter, healthVars
  <2> QED BY <2>1 DEF CycleInv, Alone, StillSo
<1>5. ASSUME NEW t \in Tasks, OpStep(t), UNCHANGED healthVars
      PROVE  CycleInv'
  <2>1. /\ pc[t] # "none" /\ pc'[t] # "detach"
        /\ \A u \in Tasks \ {t} : pc'[u] = pc[u]
    BY <1>5, OpMoves DEF Inv
  <2>2. phase \notin {"sleep", "gone"} => t = Health /\ phase \in {"restarting", "memory_restart"}
    BY <2>1 DEF CycleInv, Alone
  <2> QED BY <1>5, <2>1, <2>2 DEF CycleInv, Alone, StillSo, healthVars
<1>6. ASSUME NEW i \in Instances, World(i), UNCHANGED healthVars
      PROVE  CycleInv'
  <2>1. /\ UNCHANGED <<backends, pc>>
        /\ backends # None => state'[backends] = state[backends] \/ state'[backends] = "stopped"
    BY <1>6, WorldAround DEF Inv
  <2> QED BY <1>6, <2>1 DEF CycleInv, Alone, StillSo, healthVars
<1>7. CASE UNCHANGED vars
  BY <1>7 DEF vars, mgrVars, instanceVars, taskVars, healthVars, CycleInv, Alone, StillSo
<1> QED
  BY <1>1, <1>2, <1>3, <1>4, <1>5, <1>6, <1>7 DEF Next

\* Nothing has been looked at yet.
LEMMA InitCycle == Init => CycleInv
BY DEF Init, CycleInv, Alone, StillSo

\* A restart that the loop begins because of a status takes down an instance
\* that is still stopped, however many operations overlap, as long as none of
\* them begins in the middle of a cycle (phases 1 and 2 of health.rs).
THEOREM HealthyAreSpared == "midcycle" \notin Options => (Spec => HealthyNotRestarted)
<1> SUFFICES ASSUME "midcycle" \notin Options PROVE Spec => HealthyNotRestarted
  OBVIOUS
<1>1. Init => CycleInv
  BY InitCycle
<1>2. Inv /\ CycleInv /\ [Next]_vars => CycleInv'
  BY CycleStep
<1>3. CycleInv /\ [Next]_vars
        => [phase = "restarting" /\ Detach(Health) /\ backends # None
              => state[backends] # "healthy"]_vars
  BY DEF CycleInv, StillSo, Detach, At
<1> QED BY <1>1, <1>2, <1>3, InvHolds, PTL DEF Spec, HealthyNotRestarted

\* The others rest while an operation takes a step.
LEMMA OthersRest ==
    ASSUME TidyInv, NEW t \in Tasks, pc[t] # "none"
    PROVE  \A u \in Tasks : u # t => pc[u] = "none" /\ op[u] = "none" /\ hand[u] = None
BY DEF TidyInv, Serial

\* An operation's step, one action at a time.
LEMMA OpKeepsTidy ==
    ASSUME Undisturbed, Inv, CycleInv, TidyInv, asked # "stop_all",
           NEW t \in Tasks, OpStep(t), UNCHANGED healthVars
    PROVE  TidyInv'
<1>0. /\ pc[t] # "none"
      /\ \A u \in Tasks : u # t => pc[u] = "none" /\ op[u] = "none" /\ hand[u] = None
  BY OpMoves, OthersRest DEF Inv
<1>1. ManagerInv
  BY DEF Inv
<1> USE <1>0, <1>1, ManagerAssumption
        DEF ManagerInv, TypeOK, OpPcs, OpsFit, Starting, At, Goto, Hold, Keep, Return, SetState,
            instanceVars, healthVars, Launching, Vacant, Alive, Idle
<1>2. CASE Detach(t)
  <2> USE <1>2 DEF Detach
  <2>1. Serial'    BY DEF TidyInv, Serial
  <2>2. Stages'    BY DEF TidyInv, Stages, Fresh
  <2>3. Pooled'    BY DEF TidyInv, Pooled
  <2>4. Children'  BY DEF TidyInv, Children, Fresh
  <2>5. Offered'   BY DEF TidyInv, Offered
  <2>6. Lasting'   BY DEF TidyInv, Lasting
  <2> QED BY <2>1, <2>2, <2>3, <2>4, <2>5, <2>6 DEF TidyInv
<1>3. CASE Stop(t)
  <2> USE <1>3 DEF Stop
  <2>1. Serial'    BY DEF TidyInv, Serial
  <2>2. Stages'    BY DEF TidyInv, Stages, Fresh
  <2>3. Pooled'    BY DEF TidyInv, Stages, Pooled
  <2>4. Children'  BY DEF TidyInv, Stages, Children, Fresh
  <2>5. Offered'   BY DEF TidyInv, Stages, Offered
  <2>6. Lasting'   BY DEF TidyInv, Stages, Children, Lasting
  <2> QED BY <2>1, <2>2, <2>3, <2>4, <2>5, <2>6 DEF TidyInv
<1>4. CASE Unpool(t)
  <2> USE <1>4 DEF Unpool
  <2>1. Serial'    BY DEF TidyInv, Serial
  <2>2. Stages'    BY DEF TidyInv, Stages, Fresh
  <2>3. Pooled'    BY DEF TidyInv, Stages, Pooled
  <2>4. Children'  BY DEF TidyInv, Stages, Children, Fresh
  <2>5. Offered'   BY DEF TidyInv, Stages, Offered
  <2>6. Lasting'   BY DEF TidyInv, Stages, Children, Lasting
  <2> QED BY <2>1, <2>2, <2>3, <2>4, <2>5, <2>6 DEF TidyInv
<1>5. CASE PoolStopped(t)
  <2> USE <1>5 DEF PoolStopped
  <2>1. Serial'    BY DEF TidyInv, Serial
  <2>2. Stages'    BY DEF TidyInv, Stages, Fresh
  <2>3. Pooled'    BY DEF TidyInv, Stages, Pooled
  <2>4. Children'  BY DEF TidyInv, Stages, Children, Fresh
  <2>5. Offered'   BY DEF TidyInv, Stages, Offered
  <2>6. Lasting'   BY DEF TidyInv, Stages, Children, Lasting
  <2> QED BY <2>1, <2>2, <2>3, <2>4, <2>5, <2>6 DEF TidyInv
<1>6. CASE Untool(t)
  <2> USE <1>6 DEF Untool
  <2>1. Serial'    BY DEF TidyInv, Serial
  <2>2. Stages'    BY DEF TidyInv, Stages, Fresh
  <2>3. Pooled'    BY DEF TidyInv, Stages, Pooled
  <2>4. Children'  BY DEF TidyInv, Stages, Children, Fresh
  <2>5. Offered'   BY DEF TidyInv, Stages, Offered, CycleInv, Alone
  <2>6. Lasting'   BY DEF TidyInv, Stages, Children, Lasting
  <2> QED BY <2>1, <2>2, <2>3, <2>4, <2>5, <2>6 DEF TidyInv
<1>7. CASE Configure(t)
  <2> USE <1>7 DEF Configure
  <2>1. Serial'    BY DEF TidyInv, Serial
  <2>2. Stages'    BY DEF TidyInv, Stages, Fresh
  <2>3. Pooled'    BY DEF TidyInv, Stages, Pooled
  <2>4. Children'  BY DEF TidyInv, Stages, Children, Fresh
  <2>5. Offered'   BY DEF TidyInv, Stages, Offered
  <2>6. Lasting'   BY DEF TidyInv, Stages, Children, Lasting
  <2> QED BY <2>1, <2>2, <2>3, <2>4, <2>5, <2>6 DEF TidyInv
<1>8. CASE SpawnProcess(t)
  <2> USE <1>8 DEF SpawnProcess
  <2>1. Serial'    BY DEF TidyInv, Serial
  <2>2. Stages'    BY DEF TidyInv, Stages, Children, Fresh
  <2>3. Pooled'    BY DEF TidyInv, Stages, Pooled
  <2>4. Children'  BY DEF TidyInv, Stages, Children, Fresh
  <2>5. Offered'   BY DEF TidyInv, Stages, Offered
  <2>6. Lasting'   BY DEF TidyInv, Stages, Children, Lasting
  <2> QED BY <2>1, <2>2, <2>3, <2>4, <2>5, <2>6 DEF TidyInv
<1>9. CASE Connected(t)
  <2> USE <1>9 DEF Connected
  <2>1. Serial'    BY DEF TidyInv, Serial
  <2>2. Stages'    BY DEF TidyInv, Stages, Fresh
  <2>3. Pooled'    BY DEF TidyInv, Stages, Pooled
  <2>4. Children'  BY DEF TidyInv, Stages, Children, Fresh
  <2>5. Offered'   BY DEF TidyInv, Stages, Offered
  <2>6. Lasting'   BY DEF TidyInv, Stages, Children, Lasting
  <2> QED BY <2>1, <2>2, <2>3, <2>4, <2>5, <2>6 DEF TidyInv
<1>10. CASE ConnectFails(t)
  <2> USE <1>10 DEF ConnectFails
  <2>1. Serial'    BY DEF TidyInv, Serial
  <2>2. Stages'    BY DEF TidyInv, Stages, Fresh
  <2>3. Pooled'    BY DEF TidyInv, Stages, Pooled
  <2>4. Children'  BY DEF TidyInv, Stages, Children, Fresh
  <2>5. Offered'   BY DEF TidyInv, Stages, Offered
  <2>6. Lasting'   BY DEF TidyInv, Stages, Children, Lasting
  <2> QED BY <2>1, <2>2, <2>3, <2>4, <2>5, <2>6 DEF TidyInv
<1>11. CASE Register(t)
  <2> USE <1>11 DEF Register
  <2>1. Serial'    BY DEF TidyInv, Serial
  <2>2. Stages'    BY DEF TidyInv, Stages, Fresh
  <2>3. Pooled'    BY DEF TidyInv, Stages, Pooled
  <2>4. Children'  BY DEF TidyInv, Stages, Children, Fresh
  <2>5. Offered'   BY DEF TidyInv, Stages, Offered
  <2>6. Lasting'   BY DEF TidyInv, Stages, Children, Lasting
  <2> QED BY <2>1, <2>2, <2>3, <2>4, <2>5, <2>6 DEF TidyInv
<1>12. CASE Publish(t)
  <2> USE <1>12 DEF Publish
  <2>1. Serial'    BY DEF TidyInv, Serial
  <2>2. Stages'    BY DEF TidyInv, Stages, Fresh
  <2>3. Pooled'    BY DEF TidyInv, Stages, Pooled
  <2>4. Children'  BY DEF TidyInv, Stages, Children, Fresh
  <2>5. Offered'   BY DEF TidyInv, Stages, Offered
  <2>6. Lasting'   BY DEF TidyInv, Stages, Children, Lasting
  <2> QED BY <2>1, <2>2, <2>3, <2>4, <2>5, <2>6 DEF TidyInv
<1>13. CASE Prewarmed(t)
  <2> USE <1>13 DEF Prewarmed
  <2>1. Serial'    BY DEF TidyInv, Serial
  <2>2. Stages'
    <3>1. pool' = Dedicated
      BY DEF TidyInv, Stages
    <3>2. /\ pc'[t] = "reap" /\ hand'[t] = backends' /\ listed'
          /\ \A u \in Tasks : u # t => pc'[u] = "none" /\ op'[u] = "none"
      BY DEF TidyInv, Stages
    <3> QED BY <3>1, <3>2 DEF Stages
  <2>3. Pooled'    BY DEF TidyInv, Stages, Pooled
  <2>4. Children'  BY DEF TidyInv, Stages, Children, Fresh
  <2>5. Offered'   BY DEF TidyInv, Stages, Offered
  <2>6. Lasting'   BY DEF TidyInv, Stages, Children, Lasting
  <2> QED BY <2>1, <2>2, <2>3, <2>4, <2>5, <2>6 DEF TidyInv
<1>14. CASE SpawnReaper(t)
  <2> USE <1>14 DEF SpawnReaper
  <2>1. Serial'    BY DEF TidyInv, Serial
  <2>2. Stages'    BY DEF TidyInv, Stages, Fresh
  <2>3. Pooled'    BY DEF TidyInv, Stages, Pooled
  <2>4. Children'  BY DEF TidyInv, Stages, Children, Fresh
  <2>5. Offered'   BY DEF TidyInv, Stages, Offered
  <2>6. Lasting'   BY DEF TidyInv, Stages, Children, Lasting
  <2> QED BY <2>1, <2>2, <2>3, <2>4, <2>5, <2>6 DEF TidyInv
<1>15. CASE Snapshot(t)
  <2> USE <1>15 DEF Snapshot
  <2>1. Serial'    BY DEF TidyInv, Serial
  <2>2. Stages'    BY DEF TidyInv, Stages, Fresh
  <2>3. Pooled'    BY DEF TidyInv, Stages, Pooled
  <2>4. Children'  BY DEF TidyInv, Stages, Children, Fresh
  <2>5. Offered'   BY DEF TidyInv, Stages, Offered
  <2>6. Lasting'   BY DEF TidyInv, Stages, Children, Lasting
  <2> QED BY <2>1, <2>2, <2>3, <2>4, <2>5, <2>6 DEF TidyInv
<1>16. CASE Clear(t)
  <2> USE <1>16 DEF Clear
  <2>1. Serial'    BY DEF TidyInv, Serial
  <2>2. Stages'    BY DEF TidyInv, Stages, Fresh
  <2>3. Pooled'    BY DEF TidyInv, Stages, Pooled
  <2>4. Children'  BY DEF TidyInv, Stages, Children, Fresh
  <2>5. Offered'   BY DEF TidyInv, Stages, Offered
  <2>6. Lasting'   BY DEF TidyInv, Stages, Children, Lasting
  <2> QED BY <2>1, <2>2, <2>3, <2>4, <2>5, <2>6 DEF TidyInv
<1>17. ~StopTimesOut(t)
  BY DEF StopTimesOut, Undisturbed
<1> QED
  BY <1>2, <1>3, <1>4, <1>5, <1>6, <1>7, <1>8, <1>9, <1>10, <1>11, <1>12, <1>13, <1>14, <1>15, <1>16, <1>17 DEF OpStep, CleanUp, Start, Halt

\* An operation that begins finds the backend at rest.
LEMMA BeginKeepsTidy ==
    ASSUME Undisturbed, Inv, TidyInv, NEW t \in Tasks,
           NEW o \in {"start", "boot", "add", "remove", "restart", "stop_all"},
           NEW label \in {"detach", "config", "spawn", "snapshot"},
           Begin(t, o, label),
           label = "detach" => o \in {"add", "remove", "restart"},
           label \in {"config", "spawn"} => backends = None,
           label = "spawn" => asked = "booting",
           label = "config" => o = "start" /\ asked # "booting",
           configured' = configured \/ o = "boot",
           asked' = asked \/ (o \in {"boot", "add", "remove"} /\ asked' = "none"),
           o \in {"boot", "add"} => asked' = "none",
           asked # "stop_all", asked = "booting" => o = "boot",
           Offered'
    PROVE  TidyInv'
<1> USE ManagerAssumption
        DEF Inv, ManagerInv, TypeOK, OpPcs, OpsFit, Starting, Begin, instanceVars, Launching, Vacant,
            Alive, Idle, Undisturbed
<1>1. \A u \in Tasks : pc[u] = "none" /\ op[u] = "none" /\ hand[u] = None
  BY DEF TidyInv, Serial
<1>2. pool = (Dedicated /\ backends # None)
  BY <1>1 DEF TidyInv, Pooled
<1> USE <1>1, <1>2
<1>3. Serial'    BY DEF TidyInv, Serial
<1>4. Stages'
  <2>1. /\ pc'[t] = label /\ op'[t] = o
        /\ \A u \in Tasks : u # t => pc'[u] = "none" /\ op'[u] = "none"
        /\ UNCHANGED <<backends, pool>>
    OBVIOUS
  <2>2. label \in {"config", "spawn"} => backends' = None /\ ~pool'
    BY <2>1
  <2> QED BY <2>1, <2>2 DEF Stages
<1>5. Pooled'    BY DEF TidyInv, Pooled
<1>6. Children'  BY DEF TidyInv, Children
<1>7. Lasting'   BY DEF TidyInv, Lasting
<1> QED BY <1>3, <1>4, <1>5, <1>6, <1>7 DEF TidyInv

\* Crashes, hangs, reapers and drops.
LEMMA WorldKeepsTidy ==
    ASSUME Inv, TidyInv, asked # "stop_all", NEW i \in Instances, World(i), UNCHANGED healthVars
    PROVE  TidyInv'
<1>1. ManagerInv
  BY DEF Inv
<1> USE <1>1, ManagerAssumption
        DEF ManagerInv, TypeOK, OpsFit, Starting, healthVars, taskVars, Launching, Vacant, Alive, Idle
<1>2. /\ UNCHANGED <<backends, pc, op, hand, configured, listed, pool, asked>>
      /\ backends # None => state'[backends] = state[backends] \/ state'[backends] = "stopped"
  BY WorldAround
<1>3. Serial'
  BY <1>2 DEF TidyInv, Serial
<1>4. Pooled'
  BY <1>2 DEF TidyInv, Pooled
<1>5. Offered'
  BY <1>2 DEF TidyInv, Offered
<1>6. Lasting'
  BY <1>2 DEF TidyInv, Lasting
<1>7. Stages'
  <2>1. CASE Crash(i)         BY <2>1 DEF Crash, TidyInv, Stages
  <2>2. CASE Hang(i)          BY <2>2 DEF Hang, TidyInv, Stages
  <2>3. CASE Reap(i)          BY <2>3 DEF Reap, TidyInv, Stages
  <2>4. CASE ReaperLeaves(i)  BY <2>4 DEF ReaperLeaves, TidyInv, Stages
  <2>5. CASE DropInstance(i)  BY <2>5 DEF DropInstance, Referenced, TidyInv, Stages
  <2> QED BY <2>1, <2>2, <2>3, <2>4, <2>5 DEF World
<1>8. Children'
  <2>1. CASE Crash(i)         BY <2>1 DEF Crash, TidyInv, Children
  <2>2. CASE Hang(i)          BY <2>2 DEF Hang, TidyInv, Children
  <2>3. CASE Reap(i)          BY <2>3 DEF Reap, TidyInv, Children
  <2>4. CASE ReaperLeaves(i)  BY <2>4 DEF ReaperLeaves, TidyInv, Children
  <2>5. CASE DropInstance(i)  BY <2>5 DEF DropInstance, Referenced, TidyInv, Children
  <2> QED BY <2>1, <2>2, <2>3, <2>4, <2>5 DEF World
<1> QED BY <1>3, <1>4, <1>5, <1>6, <1>7, <1>8 DEF TidyInv

\* The loop changes nothing but the state of what is in the map and the tools of
\* what it gives up.
LEMMA LoopKeepsTidy ==
    ASSUME Undisturbed, Inv, CycleInv, TidyInv, asked # "stop_all", HealthStep
    PROVE  TidyInv'
<1> USE ManagerAssumption DEF Enter
<1>0. /\ ManagerInv /\ LoopInv
      /\ phase \notin {"sleep", "gone", "restarting", "memory_restart"} =>
            \A t \in Tasks : pc[t] = "none" /\ op[t] = "none" /\ hand[t] = None
      /\ phase # "sleep" => asked # "booting"
  BY DEF Inv, CycleInv, Alone, TidyInv, Serial, Lasting
<1>1. ASSUME UNCHANGED mgrVars,
             phase' \in {"ping", "apply", "handle", "probe", "probed"} /\ snap' \in {"healthy", "unhealthy"}
                => listed,
             asked = "booting" => phase' = "sleep"
      PROVE  TidyInv'
  BY <1>1 DEF TidyInv, Serial, Stages, Starting, Pooled, Children, Alive, Offered, Lasting, Idle,
     mgrVars, instanceVars, taskVars
<1>2. CASE Tick
  BY <1>1, <1>2 DEF Tick, TidyInv, Offered
<1>3. CASE SendPing \/ SendProbe
  BY <1>0, <1>1, <1>3 DEF SendPing, SendProbe, Ping, TidyInv, Offered
<1>4. ASSUME \/ phase = "apply" /\ phase' = "handle"
             \/ phase = "probed" /\ phase' = "memory",
             snap' = snap, snap \in {"healthy", "unhealthy"},
             NEW s \in {"healthy", "unhealthy"}, state' = state \/ SetState(s),
             UNCHANGED <<backends, proc, reapers, configured, listed, pool, taskVars, asked>>
      PROVE  TidyInv'
  <2>1. /\ UNCHANGED <<backends, proc, reapers, configured, listed, pool, pc, op, hand, asked>>
        /\ \A t \in Tasks : pc[t] = "none" /\ op[t] = "none" /\ hand[t] = None
        /\ listed /\ asked # "booting"
        /\ \A i \in Instances : state'[i] = state[i] \/ (state'[i] = s /\ i = backends)
    BY <1>0, <1>4 DEF SetState, ManagerInv, TypeOK, TidyInv, Offered, taskVars
  <2> USE <1>4, <2>1
  <2>2. Serial'    BY DEF TidyInv, Serial
  <2>3. Stages'    BY DEF TidyInv, Stages, Starting, Vacant, Launching
  <2>4. Pooled'    BY DEF TidyInv, Pooled
  <2>5. Children'  BY <1>0 DEF TidyInv, Children, Alive, ManagerInv, TypeOK
  <2>6. Offered'   BY DEF Offered
  <2>7. Lasting'   BY DEF TidyInv, Lasting, Alive, Idle
  <2> QED BY <2>2, <2>3, <2>4, <2>5, <2>6, <2>7 DEF TidyInv
<1>5. CASE ApplyPing
  <2>1. snap = "healthy"
    BY <1>0, <1>5 DEF ApplyPing, LoopInv, LoopKnows
  <2> QED BY <1>4, <1>5, <2>1 DEF ApplyPing, Trip
<1>6. CASE ApplyProbe
  <2>1. snap = "unhealthy"
    BY <1>6 DEF ApplyProbe, CycleInv, StillSo
  <2> QED BY <1>4, <1>6, <2>1 DEF ApplyProbe
<1>7. CASE PassOver \/ CircuitOpen
  BY <1>0, <1>1, <1>7 DEF PassOver, CircuitOpen, Skip, TidyInv, Offered
<1>8. ASSUME NEW p \in {"handle", "pending"}, GiveUp(p)
      PROVE  TidyInv'
  <2>1. /\ phase = p /\ phase' \in {"sleep", "memory"} /\ ~listed'
        /\ UNCHANGED <<backends, state, proc, reapers, configured, pool, pc, op, hand, asked>>
        /\ backends # None => state[backends] = "stopped"
    BY <1>0, <1>8 DEF GiveUp, Due, After, LoopInv, LoopKnows, CycleInv, StillSo, instanceVars, taskVars
  <2>2. /\ \A t \in Tasks : pc[t] = "none" /\ op[t] = "none" /\ hand[t] = None
        /\ asked # "booting"
    BY <1>0, <2>1
  <2> USE <2>1, <2>2
  <2>3. Serial'    BY DEF TidyInv, Serial
  <2>4. Stages'    BY DEF TidyInv, Stages, Starting, Vacant, Launching
  <2>5. Pooled'    BY DEF TidyInv, Pooled
  <2>6. Children'  BY DEF TidyInv, Children, Alive
  <2>7. Offered'   BY DEF Offered
  <2>8. Lasting'   BY DEF TidyInv, Lasting, Alive, Idle
  <2> QED BY <2>3, <2>4, <2>5, <2>6, <2>7, <2>8 DEF TidyInv
<1>9. ASSUME NEW p \in {"handle", "pending"}, BackOff(p) \/ PrerequisiteFails(p)
      PROVE  TidyInv'
  BY <1>0, <1>1, <1>9 DEF BackOff, PrerequisiteFails, Due, After, Skip, TidyInv, Offered
<1>10. ASSUME NEW o \in {"restart", "start"}, NEW label \in {"detach", "config"},
              Begin(Health, o, label), o = "restart" <=> label = "detach",
              label = "config" => backends = None,
              UNCHANGED <<configured, asked>>, phase # "sleep",
              phase' \in {"restarting", "memory_restart"}
       PROVE  TidyInv'
  <2>1. Offered'
    BY <1>10 DEF Offered, TidyInv, Begin, instanceVars
  <2>2. Health \in Tasks
    OBVIOUS
  <2> QED BY <1>0, <1>10, <2>1, <2>2, BeginKeepsTidy
<1>11. ASSUME NEW p \in {"handle", "pending"}, Attempt(p)
       PROVE  TidyInv'
  <2>1. Due(p) /\ phase' = "restarting"
    BY <1>11 DEF Attempt
  <2>2. CASE p = "handle"
    BY <1>10, <1>11, <2>1, <2>2 DEF Attempt, BeginRestart, Due
  <2>3. CASE p = "pending"
    <3>1. backends = None
      BY <2>1, <2>3 DEF Due, CycleInv, StillSo
    <3> QED BY <1>10, <1>11, <2>1, <2>3, <3>1 DEF Attempt, BeginStart, Due
  <2> QED BY <2>2, <2>3
<1>12. CASE Attempted
  BY <1>0, <1>1, <1>12 DEF Attempted
<1>13. CASE Pending
  BY <1>0, <1>1, <1>13 DEF Pending, Skip
<1>14. CASE OverLimit \/ EndOfCycle
  BY <1>0, <1>1, <1>14 DEF OverLimit, EndOfCycle, Skip
<1>15. CASE MemoryRestart
  BY <1>10, <1>15 DEF MemoryRestart, BeginRestart
<1> QED
  BY <1>2, <1>3, <1>5, <1>6, <1>7, <1>8, <1>9, <1>11, <1>12, <1>13, <1>14, <1>15 DEF HealthStep

LEMMA TidyStep ==
    ASSUME Undisturbed, Inv, CycleInv, TidyInv, [Next]_vars
    PROVE  TidyInv'
<1>1. CASE UNCHANGED vars
  BY <1>1 DEF vars, mgrVars, instanceVars, taskVars, healthVars, TidyInv, Serial, Stages, Starting,
     Pooled, Children, Alive, Offered, Lasting, Idle
<1>2. CASE Next
  <2>1. asked # "stop_all"
    BY <1>2 DEF Next, Exited
  <2>2. CASE HealthStep
    BY <2>1, <2>2, LoopKeepsTidy
  <2>3. CASE RestartTimesOut
    BY <2>3 DEF RestartTimesOut, Undisturbed
  <2>4. CASE WindowOver
    BY <2>4 DEF WindowOver, mgrVars, instanceVars, taskVars, TidyInv, Serial, Stages, Starting,
       Pooled, Children, Alive, Offered, Lasting, Idle
  <2>5. ASSUME NEW t \in Tasks, Request(t), UNCHANGED healthVars, phase = "sleep"
        PROVE  TidyInv'
    <3>1. CASE Boot(t)
      <4>1. Begin(t, "boot", "spawn") /\ asked = "booting" /\ asked' = "none" /\ backends = None
        BY <3>1 DEF Boot, TidyInv, Lasting
      <4>2. Offered'
        BY <2>5, <4>1 DEF Offered, TidyInv, Begin, instanceVars, healthVars
      <4> QED BY <2>1, <2>5, <4>1, <4>2, BeginKeepsTidy DEF healthVars
    <3>2. ASSUME NEW o \in {"add", "remove", "restart"}, Change(t, o)
          PROVE  TidyInv'
      <4>1. Offered'
        BY <2>5, <3>2 DEF Change, Offered, TidyInv, Begin, instanceVars, healthVars
      <4> QED BY <2>1, <2>5, <3>2, <4>1, BeginKeepsTidy DEF Change, healthVars
    <3> QED BY <2>5, <3>1, <3>2 DEF Request
  <2>6. ASSUME NEW t \in Tasks, Shutdown(t), phase = "sleep"
        PROVE  TidyInv'
    <3>1. Offered'
      BY <2>6 DEF Shutdown, StopAll, Enter, Offered, TidyInv, Begin, instanceVars
    <3> QED BY <2>1, <2>6, <3>1, BeginKeepsTidy DEF Shutdown, StopAll
  <2>7. ASSUME NEW t \in Tasks, OpStep(t), UNCHANGED healthVars
        PROVE  TidyInv'
    BY <2>1, <2>7, OpKeepsTidy
  <2>8. ASSUME NEW i \in Instances, World(i), UNCHANGED healthVars
        PROVE  TidyInv'
    BY <2>1, <2>8, WorldKeepsTidy
  <2> QED BY <1>2, <2>2, <2>3, <2>4, <2>5, <2>6, <2>7, <2>8 DEF Next, Client, Undisturbed
<1> QED BY <1>1, <1>2

\* Nothing has been started.
LEMMA InitTidy == Init => TidyInv
BY ManagerAssumption
   DEF Init, MgrInit, TidyInv, Serial, Stages, Starting, Pooled, Children, Offered, Lasting, Idle,
       Vacant, Launching

\* Operations that run one at a time and to their end, between the cycles of the
\* health loop or begun by it, leave nothing behind that nobody knows of and
\* nothing out that belongs in, whatever crashes, hangs and exits happen at any
\* of their steps (start_backend(), remove_backend(), restart_backend() and
\* stop_all() of backend/mod.rs with the phases of health.rs).
THEOREM NothingIsLeftBehind == Undisturbed => (Spec => []NothingLeftBehind)
<1> SUFFICES ASSUME Undisturbed PROVE Spec => []NothingLeftBehind
  OBVIOUS
<1>1. Init => CycleInv /\ TidyInv
  BY InitCycle, InitTidy
<1>2. Inv /\ (CycleInv /\ TidyInv) /\ [Next]_vars => (CycleInv /\ TidyInv)'
  BY CycleStep, TidyStep DEF Undisturbed
<1>3. Inv /\ (CycleInv /\ TidyInv) => NothingLeftBehind
  <2> SUFFICES ASSUME Inv, CycleInv, TidyInv PROVE NothingLeftBehind
    OBVIOUS
  <2>1. HealthTypeOK
    BY DEF Inv, ManagerInv, LoopInv, LoopTypes, HealthTypeOK
  <2>2. NoOrphan /\ Watched
    BY DEF TidyInv, Children, NoOrphan, Watched, Idle
  <2>3. PoolFollows
    BY DEF TidyInv, Pooled, PoolFollows, Idle
  <2>4. RemovedStaysRemoved /\ ShutdownComplete
    BY DEF TidyInv, Lasting, RemovedStaysRemoved, ShutdownComplete, Exited
  <2>5. ToolsListed
    BY DEF TidyInv, Offered, ToolsListed
  <2> QED BY <2>1, <2>2, <2>3, <2>4, <2>5 DEF NothingLeftBehind
<1> QED BY <1>1, <1>2, <1>3, InvHolds, PTL DEF Spec
=============================================================================
