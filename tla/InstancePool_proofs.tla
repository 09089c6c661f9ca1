------------------------- MODULE InstancePool_proofs ------------------------
(***************************************************************************)
(* Proofs about InstancePool, for any number of sessions, tasks and        *)
(* instances and whatever the callers do.                                  *)
(***************************************************************************)
EXTENDS InstancePool, FiniteSetTheorems, TLAPS

\* What notify_one() and a dropped future leave behind is again a bell.
LEMMA BellType ==
    ASSUME NEW b \in Bells(Tasks), NEW t \in Tasks
    PROVE  /\ Enable(b, t) \in Bells(Tasks)
           /\ NotifyWaiters(b) \in Bells(Tasks)
           /\ NotifyOne(b) \subseteq Bells(Tasks)
           /\ DropFuture(b, t) \subseteq Bells(Tasks)
           /\ [b EXCEPT !.fut[t] = "none"] \in Bells(Tasks)
<1> USE DEF Bells, Futures
<1>1. ASSUME NEW c \in Bells(Tasks)
      PROVE  NotifyOne(c) \subseteq Bells(Tasks)
  <2>1. DOMAIN c.fut = Tasks
    OBVIOUS
  <2>2. [fut |-> c.fut, stored |-> TRUE] \in Bells(Tasks)
    OBVIOUS
  <2>3. ASSUME NEW w \in Tasks
        PROVE  [fut |-> [c.fut EXCEPT ![w] = "one"], stored |-> c.stored] \in Bells(Tasks)
    OBVIOUS
  <2>4. Waiting(c) \subseteq Tasks
    BY <2>1 DEF Waiting
  <2>5. CASE Waiting(c) = {}
    BY <2>2, <2>5 DEF NotifyOne
  <2>6. CASE Waiting(c) # {}
    <3> HIDE DEF Bells
    <3> QED BY <2>3, <2>4, <2>6, Zenon DEF NotifyOne
  <2> QED BY <2>5, <2>6
<1>2. [fut |-> [b.fut EXCEPT ![t] = "none"], stored |-> b.stored] \in Bells(Tasks)
  OBVIOUS
<1>3. DropFuture(b, t) \subseteq Bells(Tasks)
  BY <1>1, <1>2 DEF DropFuture
<1>4. Enable(b, t) \in Bells(Tasks)
  BY DEF Enable
<1>5. NotifyWaiters(b) \in Bells(Tasks)
  BY DEF NotifyWaiters
<1>6. [b EXCEPT !.fut[t] = "none"] \in Bells(Tasks)
  OBVIOUS
<1> QED BY <1>1, <1>3, <1>4, <1>5, <1>6

\* A step that changes the bell leaves one that tasks can wait at.
LEMMA BellStep ==
    ASSUME bell \in Bells(Tasks), NEW t \in Tasks
    PROVE  /\ Enable(bell, t) \in Bells(Tasks)
           /\ NotifyWaiters(bell) \in Bells(Tasks)
           /\ NotifyOne(bell) \subseteq Bells(Tasks)
           /\ DropFuture(bell, t) \subseteq Bells(Tasks)
           /\ DropFuture(Enable(bell, t), t) \subseteq Bells(Tasks)
           /\ DropFuture(NotifyWaiters(bell), t) \subseteq Bells(Tasks)
           /\ [bell EXCEPT !.fut[t] = "none"] \in Bells(Tasks)
BY BellType

\* The prewarmed pool is well typed.
LEMMA InitType == Init => TypeOK
<1> SUFFICES ASSUME Init PROVE TypeOK
  OBVIOUS
<1>1. PICK warm \in SUBSET Instances :
        /\ Cardinality(warm) <= MaxInstances
        /\ inst = [i \in Instances |-> IF i \in warm THEN "healthy" ELSE "free"]
        /\ idle = warm
        /\ permits = MaxInstances - Cardinality(warm)
  BY DEF Init
<1>2. Cardinality(warm) \in Nat
  BY <1>1, PoolAssumption, FS_Subset, FS_CardinalityType
<1>3. permits \in Nat
  BY <1>1, <1>2, PoolAssumption
<1>4. bell \in Bells(Tasks)
  BY DEF Init, SilentBell, Bells, Futures
<1> QED BY <1>1, <1>3, <1>4 DEF Init, TypeOK, InstStates

\* Giving back frees what was in the hand.
LEMMA GiveBackType ==
    ASSUME TypeOK, NEW t \in Tasks, NEW n \in Nat, GiveBack(t, n)
    PROVE  /\ inst' \in [Instances -> InstStates]
           /\ permits' \in Nat
           /\ UNCHANGED <<owner, idle, assigned>>
<1>1. "free" \in InstStates
  BY DEF InstStates
<1> QED BY <1>1 DEF TypeOK, GiveBack

\* Every step keeps the types, one action at a time.
LEMMA TypeStep ==
    ASSUME TypeOK, [Next]_vars
    PROVE  TypeOK'
<1> USE DEF TypeOK, InstStates, AcquirePcs, ReleasePcs, StopPcs, poolVars, callerVars
<1>1. ASSUME NEW t \in Tasks, AcquireStep(t)
      PROVE  TypeOK'
  <2> USE BellStep DEF Goto, Finish, BeginSpawn, Assign
  <2>1. CASE LookUp(t)        BY <2>1 DEF LookUp
  <2>2. CASE PopHealthy(t)    BY <2>2, ZenonT(60) DEF PopHealthy
  <2>3. CASE PopUnhealthy(t)  BY <2>3 DEF PopUnhealthy
  <2>4. CASE Reclaim(t)       BY <2>4, GiveBackType DEF Reclaim
  <2>5. CASE NoneIdle(t)      BY <2>5 DEF NoneIdle
  <2>6. CASE Reserve(t)       BY <2>6 DEF Reserve
  <2>7. CASE AtCapacity(t)    BY <2>7 DEF AtCapacity
  <2>8. CASE SpawnOk(t)
    <3>1. PICK i \in Instances :
             inst' = [inst EXCEPT ![i] = "healthy"] /\ Assign(t, i)
      BY <2>8 DEF SpawnOk
    <3>2. inst' \in [Instances -> InstStates]
      BY <3>1
    <3>3. assigned' \in [Sessions -> Instances \cup {None}]
      BY <3>1
    <3>4. owner' \in [Instances -> Sessions \cup {None}]
      BY <3>1
    <3> QED BY <2>8, <3>2, <3>3, <3>4 DEF SpawnOk
  <2>9. CASE SpawnErr(t)      BY <2>9, GiveBackType DEF SpawnErr
  <2>10. CASE Woken(t)        BY <2>10 DEF Woken
  <2> QED BY <1>1, <2>1, <2>2, <2>3, <2>4, <2>5, <2>6, <2>7, <2>8, <2>9, <2>10
          DEF AcquireStep
<1>2. ASSUME NEW t \in Tasks, ReleaseStep(t)
      PROVE  TypeOK'
  <2> USE BellStep DEF Goto, Finish, BeginSpawn
  <2>1. CASE Recycle(t)       BY <2>1, GiveBackType DEF Recycle
  <2>2. CASE CountIdle(t)     BY <2>2 DEF CountIdle
  <2>3. CASE TopUp(t)         BY <2>3 DEF TopUp
  <2>4. CASE WarmOk(t)        BY <2>4, ZenonT(60) DEF WarmOk
  <2>5. CASE WarmErr(t)       BY <2>5, GiveBackType DEF WarmErr
  <2> QED BY <1>2, <2>1, <2>2, <2>3, <2>4, <2>5 DEF ReleaseStep
<1>3. ASSUME NEW t \in Tasks, StopStep(t)
      PROVE  TypeOK'
  <2>1. CASE DrainAssigned(t)
    BY <2>1 DEF DrainAssigned, Goto
  <2>2. CASE StopOne(t)
    BY <2>2 DEF StopOne
  <2>3. CASE ReturnPermits(t)
    <3>1. Cardinality(hand[t]) \in Nat
      BY PoolAssumption, FS_Subset, FS_CardinalityType
    <3>2. Refunded(Cardinality(hand[t])) \in Nat
      BY <3>1, PoolAssumption DEF Refunded
    <3> QED BY <2>3, <3>2, BellStep, GiveBackType DEF ReturnPermits, Finish
  <2> QED BY <1>3, <2>1, <2>2, <2>3 DEF StopStep
<1>4. ASSUME NEW t \in Tasks, Call(t)
      PROVE  TypeOK'
  <2>1. ASSUME NEW s \in Sessions, StartAcquire(t, s)
        PROVE  TypeOK'
    BY <2>1 DEF StartAcquire
  <2>2. ASSUME NEW s \in Sessions, StartRelease(t, s)
        PROVE  TypeOK'
    BY <2>2 DEF StartRelease
  <2>3. CASE StartStopAll(t)
    BY <2>3 DEF StartStopAll, Goto
  <2> QED BY <1>4, <2>1, <2>2, <2>3 DEF Call
<1>5. ASSUME NEW t \in Tasks, TimedOut(t)
      PROVE  TypeOK'
  BY <1>5, BellStep DEF TimedOut, Finish
<1>6. ASSUME NEW t \in Tasks, StopAllDropped(t)
      PROVE  TypeOK'
  BY <1>6 DEF StopAllDropped, Finish
<1>7. ASSUME NEW i \in Instances, Degrade(i)
      PROVE  TypeOK'
  BY <1>7 DEF Degrade
<1>8. CASE UNCHANGED vars
  BY <1>8 DEF vars
<1> QED BY <1>1, <1>2, <1>3, <1>4, <1>5, <1>6, <1>7, <1>8 DEF Next, Step

\* Every variable keeps its type, for every number of sessions, tasks and
\* instances.
THEOREM TypeCorrect == Spec => []TypeOK
<1>1. Init => TypeOK
  BY InitType
<1>2. TypeOK /\ [Next]_vars => TypeOK'
  BY TypeStep
<1> QED BY <1>1, <1>2, PTL DEF Spec

-----------------------------------------------------------------------------
(* Isolation and Accounted: where the instances are. *)

Placed == Isolation /\ Accounted

\* Prewarmed instances are idle, and nobody holds any.
LEMMA InitPlaced == Init => Placed
BY PoolAssumption DEF Init, Placed, Isolation, Accounted, Held, AcquirePcs, StopPcs

\* Giving back what only t refers to removes it from the pool and takes it
\* from nobody else.
LEMMA GiveBackHeld ==
    ASSUME TypeOK, NEW t \in Tasks, NEW n, GiveBack(t, n)
    PROVE  Held' = Held \ hand[t]
BY DEF GiveBack, TypeOK, Held

\* What is given back was only in the hand of the task that gives it.
LEMMA GiveBackPlaced ==
    ASSUME TypeOK, Placed, NEW t \in Tasks, NEW n, GiveBack(t, n),
           NEW label \in {"none", "lookup", "count"},
           pc' = [pc EXCEPT ![t] = label],
           hand' = [hand EXCEPT ![t] = {}],
           \/ sess' = sess /\ (label = "lookup" => sess[t] \in Sessions)
           \/ sess' = [sess EXCEPT ![t] = None] /\ label = "none"
    PROVE  Placed'
<1>1. Held' = Held \ hand[t]
  BY GiveBackHeld
<1>2. UNCHANGED <<owner, idle, assigned>>
  BY DEF GiveBack
<1>3. Isolation'
  BY <1>2 DEF TypeOK, Placed, Isolation
<1>4. idle' \subseteq Held'
  BY <1>1, <1>2 DEF TypeOK, Placed, Isolation, Accounted
<1>5. \A s \in Sessions : assigned'[s] # None => assigned'[s] \in Held'
  BY <1>1, <1>2 DEF TypeOK, Placed, Isolation, Accounted
<1>6. ASSUME NEW u \in Tasks
      PROVE  /\ hand'[u] \subseteq Held'
             /\ pc'[u] \in AcquirePcs => sess'[u] \in Sessions
  BY <1>1 DEF TypeOK, Placed, Isolation, Accounted, AcquirePcs
<1>7. ASSUME NEW u \in Tasks
      PROVE  /\ pc'[u] \in {"reclaim", "spawn", "recycle", "warm"} =>
                    \E i \in Instances : hand'[u] = {i}
             /\ pc'[u] \in {"spawn", "warm"} => \A i \in hand'[u] : owner'[i] = None
             /\ pc'[u] \notin {"reclaim", "spawn", "recycle", "warm"} \cup StopPcs =>
                    hand'[u] = {}
  <2>1. CASE u = t
    BY <2>1 DEF TypeOK
  <2>2. CASE u # t
    BY <2>2, <1>2 DEF TypeOK, Placed, Accounted
  <2> QED BY <2>1, <2>2
<1>8. Accounted'
  BY <1>4, <1>5, <1>6, <1>7 DEF Accounted
<1> QED BY <1>3, <1>8 DEF Placed

\* acquire() moves an instance from one place to one other.
LEMMA AcquirePlaced ==
    ASSUME TypeOK, Placed, NEW t \in Tasks, AcquireStep(t)
    PROVE  Placed'
<1> USE DEF TypeOK, Placed, Isolation, Accounted, AcquirePcs, StopPcs, ReleasePcs,
            poolVars, callerVars, Goto, Finish
<1>1. CASE LookUp(t)        BY <1>1 DEF LookUp, Held
<1>2. CASE PopHealthy(t)
  <2>1. PICK i \in idle : idle' = idle \ {i} /\ Assign(t, i)
    BY <1>2 DEF PopHealthy
  <2>2. i \in Held /\ owner[i] = None /\ (\A u \in Tasks : i \notin hand[u])
    BY <2>1
  <2>3. sess[t] \in Sessions /\ hand[t] = {}
    BY <1>2 DEF PopHealthy
  <2>4. /\ assigned' = [assigned EXCEPT ![sess[t]] = i]
        /\ owner' = [owner EXCEPT ![i] = sess[t]]
        /\ pc' = [pc EXCEPT ![t] = "none"]
        /\ sess' = [sess EXCEPT ![t] = None]
        /\ hand' = [hand EXCEPT ![t] = {}]
        /\ Held' = Held
    BY <1>2, <2>1 DEF PopHealthy, Assign, Held
  <2>5. Isolation'
    BY <2>1, <2>2, <2>3, <2>4, PoolAssumption
  <2>6. Accounted'
    BY <2>1, <2>2, <2>3, <2>4, PoolAssumption
  <2> QED BY <2>5, <2>6
<1>3. CASE PopUnhealthy(t)  BY <1>3 DEF PopUnhealthy, Held
<1>4. CASE Reclaim(t)       BY <1>4, GiveBackPlaced DEF Reclaim
<1>5. CASE NoneIdle(t)      BY <1>5 DEF NoneIdle, Held
<1>6. CASE Reserve(t)       BY <1>6 DEF Reserve, BeginSpawn, Held
<1>7. CASE AtCapacity(t)    BY <1>7 DEF AtCapacity, Held
<1>8. CASE SpawnOk(t)
  <2>1. PICK i \in Instances : /\ hand[t] = {i}
                               /\ inst' = [inst EXCEPT ![i] = "healthy"]
                               /\ Assign(t, i)
    <3>1. PICK j \in Instances : hand[t] = {j}
      BY <1>8 DEF SpawnOk
    <3> QED BY <1>8, <3>1 DEF SpawnOk
  <2>2. i \in Held /\ i \notin idle /\ owner[i] = None
    BY <1>8, <2>1 DEF SpawnOk
  <2>3. \A u \in Tasks : u # t => i \notin hand[u]
    BY <2>1
  <2>4. /\ sess[t] \in Sessions
        /\ \A s \in Sessions : assigned[s] # i
    <3>1. i \in hand[t] /\ i # None
      BY <2>1, PoolAssumption
    <3> QED BY <1>8, <3>1 DEF SpawnOk
  <2>5. /\ assigned' = [assigned EXCEPT ![sess[t]] = i]
        /\ owner' = [owner EXCEPT ![i] = sess[t]]
        /\ pc' = [pc EXCEPT ![t] = "none"]
        /\ sess' = [sess EXCEPT ![t] = None]
        /\ hand' = [hand EXCEPT ![t] = {}]
        /\ idle' = idle
    BY <1>8, <2>1 DEF SpawnOk, Assign
  <2>6. Held' = Held
    BY <2>1, <2>2 DEF Held
  <2>7. Isolation'
    BY <2>1, <2>2, <2>3, <2>4, <2>5
  <2>8. Accounted'
    BY <2>1, <2>2, <2>3, <2>4, <2>5, <2>6
  <2> QED BY <2>7, <2>8
<1>9. CASE SpawnErr(t)      BY <1>9, GiveBackPlaced DEF SpawnErr
<1>10. CASE Woken(t)        BY <1>10 DEF Woken, Held
<1> QED BY <1>1, <1>2, <1>3, <1>4, <1>5, <1>6, <1>7, <1>8, <1>9, <1>10
        DEF AcquireStep

\* release() takes the instance out of the assignment before it stops it.
LEMMA ReleasePlaced ==
    ASSUME TypeOK, Placed, NEW t \in Tasks, ReleaseStep(t)
    PROVE  Placed'
<1> USE DEF TypeOK, Placed, Isolation, Accounted, AcquirePcs, StopPcs, ReleasePcs,
            poolVars, callerVars, Goto, Finish
<1>1. CASE Recycle(t)    BY <1>1, GiveBackPlaced DEF Recycle
<1>2. CASE CountIdle(t)  BY <1>2 DEF CountIdle, Held
<1>3. CASE TopUp(t)      BY <1>3 DEF TopUp, BeginSpawn, Held
<1>4. CASE WarmOk(t)     BY <1>4 DEF WarmOk, Held
<1>5. CASE WarmErr(t)    BY <1>5, GiveBackPlaced DEF WarmErr
<1> QED BY <1>1, <1>2, <1>3, <1>4, <1>5 DEF ReleaseStep

\* stop_all() takes everything into one hand.
LEMMA StopPlaced ==
    ASSUME TypeOK, Placed, NEW t \in Tasks, StopStep(t) \/ StopAllDropped(t)
    PROVE  Placed'
<1> USE DEF TypeOK, Placed, Isolation, Accounted, AcquirePcs, StopPcs, ReleasePcs,
            poolVars, callerVars, Goto, Finish
<1>1. CASE DrainAssigned(t)
  <2> DEFINE taken == {i \in Instances : \E s \in Sessions : assigned[s] = i}
  <2>1. /\ hand' = [hand EXCEPT ![t] = hand[t] \cup taken]
        /\ assigned' = [s \in Sessions |-> None]
        /\ pc' = [pc EXCEPT ![t] = "stop"]
        /\ Held' = Held
        /\ UNCHANGED <<owner, idle, sess>>
    BY <1>1 DEF DrainAssigned, Held
  <2>2. /\ taken \subseteq Held
        /\ taken \cap idle = {}
        /\ \A u \in Tasks : taken \cap hand[u] = {}
    BY PoolAssumption
  <2> HIDE DEF taken
  <2>3. Isolation'
    BY <2>1, <2>2
  <2>4. Accounted'
    BY <2>1, <2>2
  <2> QED BY <2>3, <2>4
<1>2. CASE StopOne(t)         BY <1>2 DEF StopOne, Held
<1>3. CASE ReturnPermits(t)   BY <1>3, GiveBackPlaced DEF ReturnPermits
<1>4. CASE StopAllDropped(t)  BY <1>4 DEF StopAllDropped, Held
<1> QED BY <1>1, <1>2, <1>3, <1>4 DEF StopStep

\* A call that starts moves what its first critical section takes.
LEMMA CallPlaced ==
    ASSUME TypeOK, Placed, NEW t \in Tasks, Call(t) \/ TimedOut(t)
    PROVE  Placed'
<1> USE DEF TypeOK, Placed, Isolation, Accounted, AcquirePcs, StopPcs, ReleasePcs,
            poolVars, callerVars, Goto, Finish
<1>1. ASSUME NEW s \in Sessions, StartAcquire(t, s)
      PROVE  Placed'
  BY <1>1 DEF StartAcquire, Held
<1>2. ASSUME NEW s \in Sessions, StartRelease(t, s)
      PROVE  Placed'
  BY <1>2 DEF StartRelease, Held
<1>3. CASE StartStopAll(t)  BY <1>3 DEF StartStopAll, Held
<1>4. CASE TimedOut(t)      BY <1>4 DEF TimedOut, Held
<1> QED BY <1>1, <1>2, <1>3, <1>4 DEF Call

\* Every step keeps every instance in one place.
LEMMA PlacedStep ==
    ASSUME TypeOK, Placed, [Next]_vars
    PROVE  Placed'
<1>1. ASSUME NEW i \in Instances, Degrade(i)
      PROVE  Placed'
  BY <1>1 DEF Degrade, TypeOK, Placed, Isolation, Accounted, Held
<1>2. CASE UNCHANGED vars
  BY <1>2 DEF vars, poolVars, callerVars, Placed, Isolation, Accounted, Held
<1> QED BY <1>1, <1>2, AcquirePlaced, ReleasePlaced, StopPlaced, CallPlaced
        DEF Next, Step

-----------------------------------------------------------------------------
(* Capacity: permits and instances. *)

\* Cardinalities of Held can be counted.
LEMMA HeldFinite ==
    ASSUME TypeOK
    PROVE  /\ IsFiniteSet(Held)
           /\ Cardinality(Held) \in Nat
           /\ \A S \in SUBSET Held : /\ IsFiniteSet(S)
                                     /\ Cardinality(S) \in Nat
                                     /\ Cardinality(S) <= Cardinality(Held)
<1>1. IsFiniteSet(Held)
  BY PoolAssumption, FS_Subset DEF Held
<1> QED BY <1>1, FS_Subset, FS_CardinalityType

\* new() takes one permit per prewarmed instance.
LEMMA InitCapacity == Init => CapacityConserved
<1> SUFFICES ASSUME Init PROVE CapacityConserved
  OBVIOUS
<1>1. PICK warm \in SUBSET Instances :
        /\ inst = [i \in Instances |-> IF i \in warm THEN "healthy" ELSE "free"]
        /\ permits = MaxInstances - Cardinality(warm)
  BY DEF Init
<1>2. Held = warm
  BY <1>1 DEF Held
<1>3. Cardinality(warm) \in Nat
  BY PoolAssumption, FS_Subset, FS_CardinalityType
<1> QED BY <1>1, <1>2, <1>3, PoolAssumption DEF CapacityConserved

\* A spawn takes one permit for one new instance.
LEMMA BeginSpawnHeld ==
    ASSUME TypeOK, NEW t \in Tasks, NEW label, BeginSpawn(t, label)
    PROVE  \E i \in Instances :
              /\ i \notin Held
              /\ Held' = Held \cup {i}
              /\ Cardinality(Held') = Cardinality(Held) + 1
              /\ permits > 0 /\ permits' = permits - 1
              /\ owner' = [owner EXCEPT ![i] = None]
<1>1. PICK i \in Instances :
        /\ inst[i] = "free"
        /\ inst' = [inst EXCEPT ![i] = "starting"]
        /\ owner' = [owner EXCEPT ![i] = None]
  BY DEF BeginSpawn
<1>2. i \notin Held /\ Held' = Held \cup {i}
  BY <1>1 DEF TypeOK, Held
<1>3. Cardinality(Held') = Cardinality(Held) + 1
  BY <1>2, HeldFinite, FS_AddElement
<1> QED BY <1>1, <1>2, <1>3 DEF BeginSpawn

\* What a task gives back leaves as many permits as instances it frees.
LEMMA GiveBackCapacity ==
    ASSUME TypeOK, Placed, CapacityConserved, NEW t \in Tasks,
           GiveBack(t, Cardinality(hand[t]))
    PROVE  CapacityConserved'
<1>1. Held' = Held \ hand[t] /\ hand[t] \in SUBSET Held
  BY GiveBackHeld DEF Placed, Accounted
<1>2. Cardinality(Held') = Cardinality(Held) - Cardinality(hand[t])
  <2>1. Held \cap hand[t] = hand[t]
    BY <1>1
  <2> QED BY <1>1, <2>1, HeldFinite, FS_Difference
<1>3. Cardinality(Held) \in Nat /\ Cardinality(hand[t]) \in Nat
  BY <1>1, HeldFinite
<1> QED BY <1>2, <1>3, PoolAssumption DEF CapacityConserved, GiveBack, TypeOK

\* A task between two steps of a spawn or a stop holds exactly one instance.
LEMMA OneInHand ==
    ASSUME Placed, NEW t \in Tasks,
           pc[t] \in {"reclaim", "spawn", "recycle", "warm"}
    PROVE  Cardinality(hand[t]) = 1
BY FS_Singleton DEF Placed, Accounted

\* stop_all() returns a permit for each instance it stopped: the bound on
\* permits_to_add never bites.
LEMMA RefundAll ==
    ASSUME TypeOK, Placed, CapacityConserved, NEW t \in Tasks
    PROVE  Refunded(Cardinality(hand[t])) = Cardinality(hand[t])
<1>1. hand[t] \in SUBSET Held
  BY DEF Placed, Accounted
<1>2. /\ Cardinality(hand[t]) \in Nat /\ Cardinality(Held) \in Nat
      /\ Cardinality(hand[t]) <= Cardinality(Held)
  BY <1>1, HeldFinite
<1> QED BY <1>2, PoolAssumption DEF Refunded, CapacityConserved, TypeOK

\* Nothing changes where neither permits nor Held do.
LEMMA SameCapacity ==
    ASSUME CapacityConserved, Held' = Held, permits' = permits
    PROVE  CapacityConserved'
BY DEF CapacityConserved

\* A spawn moves one from permits to Held.
LEMMA SpawnCapacity ==
    ASSUME TypeOK, CapacityConserved, NEW t \in Tasks, NEW label, BeginSpawn(t, label)
    PROVE  CapacityConserved'
BY BeginSpawnHeld, HeldFinite, PoolAssumption DEF CapacityConserved, TypeOK

\* Every step keeps the sum.
LEMMA CapacityStep ==
    ASSUME TypeOK, Placed, CapacityConserved, [Next]_vars
    PROVE  CapacityConserved'
<1> USE SameCapacity DEF TypeOK, poolVars
<1>1. ASSUME NEW t \in Tasks, AcquireStep(t)
      PROVE  CapacityConserved'
  <2>1. CASE LookUp(t)        BY <2>1 DEF LookUp, Held
  <2>2. CASE PopHealthy(t)    BY <2>2 DEF PopHealthy, Held
  <2>3. CASE PopUnhealthy(t)  BY <2>3 DEF PopUnhealthy, Held
  <2>4. CASE Reclaim(t)       BY <2>4, OneInHand, GiveBackCapacity DEF Reclaim
  <2>5. CASE NoneIdle(t)      BY <2>5 DEF NoneIdle, Held
  <2>6. CASE Reserve(t)       BY <2>6, SpawnCapacity DEF Reserve
  <2>7. CASE AtCapacity(t)    BY <2>7 DEF AtCapacity, Held
  <2>8. CASE SpawnOk(t)
    <3>1. PICK i \in hand[t] : inst' = [inst EXCEPT ![i] = "healthy"]
      BY <2>8 DEF SpawnOk
    <3>2. inst[i] # "free"
      BY <3>1 DEF Placed, Accounted, Held
    <3>3. Held' = Held
      BY <3>1, <3>2 DEF Held
    <3> QED BY <2>8, <3>3 DEF SpawnOk
  <2>9. CASE SpawnErr(t)      BY <2>9, OneInHand, GiveBackCapacity DEF SpawnErr
  <2>10. CASE Woken(t)        BY <2>10 DEF Woken, Held
  <2> QED BY <1>1, <2>1, <2>2, <2>3, <2>4, <2>5, <2>6, <2>7, <2>8, <2>9, <2>10
          DEF AcquireStep
<1>2. ASSUME NEW t \in Tasks, ReleaseStep(t)
      PROVE  CapacityConserved'
  <2>1. CASE Recycle(t)       BY <2>1, OneInHand, GiveBackCapacity DEF Recycle
  <2>2. CASE CountIdle(t)     BY <2>2 DEF CountIdle, Held
  <2>3. CASE TopUp(t)         BY <2>3, SpawnCapacity DEF TopUp, Held
  <2>4. CASE WarmOk(t)
    <3>1. PICK i \in hand[t] : inst' = [inst EXCEPT ![i] = "healthy"]
      BY <2>4 DEF WarmOk
    <3>2. inst[i] # "free"
      BY <3>1 DEF Placed, Accounted, Held
    <3>3. Held' = Held
      BY <3>1, <3>2 DEF Held
    <3> QED BY <2>4, <3>3 DEF WarmOk
  <2>5. CASE WarmErr(t)       BY <2>5, OneInHand, GiveBackCapacity DEF WarmErr
  <2> QED BY <1>2, <2>1, <2>2, <2>3, <2>4, <2>5 DEF ReleaseStep
<1>3. ASSUME NEW t \in Tasks, StopStep(t) \/ StopAllDropped(t)
      PROVE  CapacityConserved'
  <2>1. CASE DrainAssigned(t)   BY <2>1 DEF DrainAssigned, Held
  <2>2. CASE StopOne(t)
    <3>1. PICK i \in hand[t] : inst' = [inst EXCEPT ![i] = "stopped"]
      BY <2>2 DEF StopOne
    <3>2. inst[i] # "free"
      BY <3>1 DEF Placed, Accounted, Held
    <3>3. Held' = Held
      BY <3>1, <3>2 DEF Held
    <3> QED BY <2>2, <3>3 DEF StopOne
  <2>3. CASE ReturnPermits(t)
    BY <2>3, RefundAll, GiveBackCapacity DEF ReturnPermits
  <2>4. CASE StopAllDropped(t)  BY <2>4 DEF StopAllDropped, Held
  <2> QED BY <1>3, <2>1, <2>2, <2>3, <2>4 DEF StopStep
<1>4. ASSUME NEW t \in Tasks, Call(t) \/ TimedOut(t)
      PROVE  CapacityConserved'
  BY <1>4 DEF Call, StartAcquire, StartRelease, StartStopAll, TimedOut, Held
<1>5. ASSUME NEW i \in Instances, Degrade(i)
      PROVE  CapacityConserved'
  BY <1>5 DEF Degrade, Held
<1>6. CASE UNCHANGED vars
  BY <1>6 DEF vars, Held
<1> QED BY <1>1, <1>2, <1>3, <1>4, <1>5, <1>6 DEF Next, Step

-----------------------------------------------------------------------------
(* The invariants. *)

IInv == TypeOK /\ Placed /\ CapacityConserved

\* The inductive invariant.
LEMMA Inductive == Spec => []IInv
<1>1. Init => IInv
  BY InitType, InitPlaced, InitCapacity DEF IInv
<1>2. IInv /\ [Next]_vars => IInv'
  BY TypeStep, PlacedStep, CapacityStep DEF IInv
<1> QED BY <1>1, <1>2, PTL DEF Spec

\* An instance is in one place and belongs to one session at most.
THEOREM SessionsAreIsolated == Spec => []Isolation
<1>1. IInv => Isolation
  BY DEF IInv, Placed
<1> QED BY <1>1, Inductive, PTL

\* Permits and existing instances always add up to max_instances.
THEOREM CapacityIsConserved == Spec => []CapacityConserved
<1>1. IInv => CapacityConserved
  BY DEF IInv
<1> QED BY <1>1, Inductive, PTL

-----------------------------------------------------------------------------
(* The pool implements SessionIsolation. *)

\* The instance of SessionIsolation counts with its own copy of Cardinality.
LEMMA SameCardinality == Promise!Cardinality(Held) = Cardinality(Held)
  BY DEF Promise!Cardinality, Cardinality

\* A prewarmed pool is an initial state of the promise.
LEMMA InitPromise == Init => Promise!Init
<1> SUFFICES ASSUME Init PROVE Promise!Init
  OBVIOUS
<1>1. PICK warm \in SUBSET Instances :
        /\ Cardinality(warm) <= MaxInstances
        /\ inst = [i \in Instances |-> IF i \in warm THEN "healthy" ELSE "free"]
  BY DEF Init
<1>2. Held = warm
  BY <1>1 DEF Held
<1> QED BY <1>1, <1>2, SameCardinality DEF Init, Promise!Init

\* Spawning respects the abstract bound, because a permit was taken for it.
LEMMA SpawnPromise ==
    ASSUME IInv, NEW t \in Tasks, NEW label, BeginSpawn(t, label)
    PROVE  Promise!Next
<1>1. PICK i \in Instances :
        /\ i \notin Held
        /\ Held' = Held \cup {i}
        /\ permits > 0
        /\ owner' = [owner EXCEPT ![i] = None]
  BY BeginSpawnHeld DEF IInv
<1>2. Cardinality(Held) < MaxInstances
  BY <1>1, HeldFinite, PoolAssumption DEF IInv, TypeOK, CapacityConserved
<1>3. Promise!Spawn(i)
  BY <1>1, <1>2, SameCardinality DEF Promise!Spawn
<1> QED BY <1>3 DEF Promise!Next

\* Only a fresh instance is handed out.
LEMMA AssignPromise ==
    ASSUME IInv, NEW t \in Tasks, NEW i \in Held, owner[i] = None,
           pc[t] \in AcquirePcs, Assign(t, i), Held' = Held
    PROVE  Promise!Next
<1>1. sess[t] \in Sessions
  BY DEF IInv, Placed, Accounted
<1>2. Promise!Give(i, sess[t])
  BY DEF Promise!Give, Assign
<1> QED BY <1>1, <1>2 DEF Promise!Next, Held

LEMMA GiveBackPromise ==
    ASSUME IInv, NEW t \in Tasks, NEW n, GiveBack(t, n)
    PROVE  Promise!Next
<1>1. Held' = Held \ hand[t] /\ hand[t] \subseteq Held
  BY GiveBackHeld DEF IInv, Placed, Accounted
<1>2. Promise!Remove(hand[t])
  BY <1>1 DEF Promise!Remove, GiveBack
<1>3. hand[t] \in SUBSET Instances
  BY DEF IInv, TypeOK
<1> QED BY <1>2, <1>3 DEF Promise!Next

LEMMA StepPromise ==
    ASSUME IInv, [Next]_vars
    PROVE  [Promise!Next]_<<Held, owner>>
<1> USE DEF poolVars, AcquirePcs
<1>1. ASSUME NEW t \in Tasks, AcquireStep(t)
      PROVE  [Promise!Next]_<<Held, owner>>
  <2>1. CASE LookUp(t)        BY <2>1 DEF LookUp, Held
  <2>2. CASE PopHealthy(t)
    <3>1. PICK i \in idle : Assign(t, i)
      BY <2>2 DEF PopHealthy
    <3>2. i \in Held /\ owner[i] = None /\ Held' = Held
      BY <2>2 DEF IInv, Placed, Isolation, Accounted, PopHealthy, Held
    <3> QED BY <2>2, <3>1, <3>2, AssignPromise DEF PopHealthy
  <2>3. CASE PopUnhealthy(t)  BY <2>3 DEF PopUnhealthy, Held
  <2>4. CASE Reclaim(t)       BY <2>4, GiveBackPromise DEF Reclaim
  <2>5. CASE NoneIdle(t)      BY <2>5 DEF NoneIdle, Held
  <2>6. CASE Reserve(t)       BY <2>6, SpawnPromise DEF Reserve
  <2>7. CASE AtCapacity(t)    BY <2>7 DEF AtCapacity, Held
  <2>8. CASE SpawnOk(t)
    <3>1. PICK i \in hand[t] :
             inst' = [inst EXCEPT ![i] = "healthy"] /\ Assign(t, i)
      BY <2>8 DEF SpawnOk
    <3>2. i \in Held /\ owner[i] = None
      BY <2>8 DEF IInv, Placed, Accounted, SpawnOk
    <3>3. Held' = Held
      BY <3>1, <3>2 DEF IInv, TypeOK, Held
    <3> QED BY <2>8, <3>1, <3>2, <3>3, AssignPromise DEF SpawnOk
  <2>9. CASE SpawnErr(t)      BY <2>9, GiveBackPromise DEF SpawnErr
  <2>10. CASE Woken(t)        BY <2>10 DEF Woken, Held
  <2> QED BY <1>1, <2>1, <2>2, <2>3, <2>4, <2>5, <2>6, <2>7, <2>8, <2>9, <2>10
          DEF AcquireStep
<1>2. ASSUME NEW t \in Tasks, ReleaseStep(t)
      PROVE  [Promise!Next]_<<Held, owner>>
  <2>1. CASE Recycle(t)       BY <2>1, GiveBackPromise DEF Recycle
  <2>2. CASE CountIdle(t)     BY <2>2 DEF CountIdle, Held
  <2>3. CASE TopUp(t)         BY <2>3, SpawnPromise DEF TopUp, Held
  <2>4. CASE WarmOk(t)
    <3>1. PICK i \in hand[t] : inst' = [inst EXCEPT ![i] = "healthy"]
      BY <2>4 DEF WarmOk
    <3>2. Held' = Held
      BY <3>1 DEF IInv, TypeOK, Placed, Accounted, Held
    <3> QED BY <2>4, <3>2 DEF WarmOk
  <2>5. CASE WarmErr(t)       BY <2>5, GiveBackPromise DEF WarmErr
  <2> QED BY <1>2, <2>1, <2>2, <2>3, <2>4, <2>5 DEF ReleaseStep
<1>3. ASSUME NEW t \in Tasks, StopStep(t) \/ StopAllDropped(t)
      PROVE  [Promise!Next]_<<Held, owner>>
  <2>1. CASE DrainAssigned(t)   BY <2>1 DEF DrainAssigned, Held
  <2>2. CASE StopOne(t)
    <3>1. PICK i \in hand[t] : inst' = [inst EXCEPT ![i] = "stopped"]
      BY <2>2 DEF StopOne
    <3>2. Held' = Held
      BY <3>1 DEF IInv, TypeOK, Placed, Accounted, Held
    <3> QED BY <2>2, <3>2 DEF StopOne
  <2>3. CASE ReturnPermits(t)   BY <2>3, GiveBackPromise DEF ReturnPermits
  <2>4. CASE StopAllDropped(t)  BY <2>4 DEF StopAllDropped, Held
  <2> QED BY <1>3, <2>1, <2>2, <2>3, <2>4 DEF StopStep
<1>4. ASSUME NEW t \in Tasks, Call(t) \/ TimedOut(t)
      PROVE  [Promise!Next]_<<Held, owner>>
  BY <1>4 DEF Call, StartAcquire, StartRelease, StartStopAll, TimedOut, Held
<1>5. ASSUME NEW i \in Instances, Degrade(i)
      PROVE  [Promise!Next]_<<Held, owner>>
  BY <1>5 DEF Degrade, Held
<1>6. CASE UNCHANGED vars
  BY <1>6 DEF vars, Held
<1> QED BY <1>1, <1>2, <1>3, <1>4, <1>5, <1>6 DEF Next, Step

\* Every step of the pool is a step of the abstract promise or changes
\* nothing in it.
THEOREM PoolKeepsPromise == Spec => KeepsPromise
<1>1. Init => Promise!Init
  BY InitPromise
<1>2. IInv /\ [Next]_vars => [Promise!Next]_<<Held, owner>>
  BY StepPromise
<1> QED BY <1>1, <1>2, Inductive, PTL DEF Spec, KeepsPromise, Promise!Spec

-----------------------------------------------------------------------------
(* Callers that keep the order of a session's life: nothing outlives.      *)

OrderlyCallers == Callers \cap {"parallel", "late", "overlap", "timeout"} = {}

\* A session has one call at a time, and no instance while a call makes one for it.
OneCall ==
    /\ \A t, u \in Tasks :
          pc[t] \in AcquirePcs /\ pc[u] \in AcquirePcs /\ sess[t] = sess[u] => t = u
    /\ \A t \in Tasks : pc[t] \in {"pop", "reserve", "spawn"} => assigned[sess[t]] = None

\* The release that stops the instance i of session s.
Releases(t, i, s) == pc[t] = "recycle" /\ sess[t] = s /\ i \in hand[t]

\* An instance that was handed out is its session's, or is being stopped.
Handed ==
    \A i \in Held : owner[i] # None =>
        \/ assigned[owner[i]] = i
        \/ \E t \in Tasks : Releases(t, i, owner[i]) \/ (i \in hand[t] /\ pc[t] \in StopPcs)

\* A session that has ended has left at most the instance its release is stopping.
Over ==
    \A s \in ended :
        /\ assigned[s] = None
        /\ ~Busy(s, AcquirePcs)
        /\ \A i \in Held : owner[i] = s => \E t \in Tasks : Releases(t, i, s)

\* When the pool is out of the manager only stop_all() is left.
Closed ==
    /\ \A t \in Tasks : pc[t] \in StopPcs => ~open
    /\ ~open => /\ \A t \in Tasks : pc[t] \in {"none"} \cup StopPcs
                /\ idle = {}
                /\ (\A s \in Sessions : assigned[s] = None) \/ \E t \in Tasks : pc[t] = "drain"

OrderlyInv == NoOrphan /\ OneCall /\ Handed /\ Over /\ Closed

\* Nothing is handed out before the first call.
LEMMA InitOrderly == Init => OrderlyInv
BY PoolAssumption DEF Init, OrderlyInv, NoOrphan, Reachable, OneCall, Handed, Over,
   Closed, Held, Busy, AcquirePcs, StopPcs

\* The invariant is enough.
LEMMA OrderlyEnough ==
    ASSUME TypeOK, Placed, OrderlyInv
    PROVE  NothingOutlives
<1>1. DisconnectStops
  BY DEF OrderlyInv, Over, DisconnectStops, Releases
<1>2. StopAllStopsAll
  BY PoolAssumption DEF OrderlyInv, NoOrphan, Reachable, Closed, StopAllStopsAll, Placed,
     Accounted, StopPcs, Held, TypeOK
<1> QED BY <1>1, <1>2 DEF OrderlyInv, NothingOutlives

\* Giving back: only what t alone refers to is gone.
LEMMA GiveBackOrderly ==
    ASSUME TypeOK, Placed, OrderlyInv, NEW t \in Tasks, NEW n, GiveBack(t, n),
           NEW label \in {"none", "lookup", "count"},
           pc' = [pc EXCEPT ![t] = label],
           label = "lookup" => pc[t] \in AcquirePcs,
           hand' = [hand EXCEPT ![t] = {}],
           \/ sess' = sess
           \/ sess' = [sess EXCEPT ![t] = None] /\ label = "none",
           pc[t] = "drain" => FALSE,
           label \in {"lookup", "count"} => open,
           UNCHANGED callerVars
    PROVE  OrderlyInv'
<1>1. Held' = Held \ hand[t]
  BY GiveBackHeld
<1>2. UNCHANGED <<owner, idle, assigned, open, ended>>
  BY DEF GiveBack, callerVars
<1> USE DEF TypeOK, AcquirePcs, StopPcs
<1>3. NoOrphan'
  BY <1>1, <1>2 DEF OrderlyInv, NoOrphan, Reachable
<1>4. OneCall'
  BY <1>2 DEF OrderlyInv, OneCall
<1>5. Handed'
  BY <1>1, <1>2 DEF OrderlyInv, Handed, Releases
<1>6. Over'
  BY <1>1, <1>2 DEF OrderlyInv, Over, Releases, Busy
<1>7. Closed'
  BY <1>2 DEF OrderlyInv, Closed
<1> QED BY <1>3, <1>4, <1>5, <1>6, <1>7 DEF OrderlyInv

\* A spawn that begins makes an instance nobody owns, in the hand of its task.
LEMMA SpawnOrderly ==
    ASSUME TypeOK, Placed, OrderlyInv, NEW t \in Tasks,
           \/ pc[t] = "reserve" /\ BeginSpawn(t, "spawn")
           \/ pc[t] = "topup" /\ BeginSpawn(t, "warm"),
           UNCHANGED callerVars
    PROVE  OrderlyInv'
<1> USE DEF callerVars, Goto
<1>1. PICK i \in Instances : /\ inst[i] = "free"
                             /\ inst' = [inst EXCEPT ![i] = "starting"]
                             /\ owner' = [owner EXCEPT ![i] = None]
                             /\ hand' = [hand EXCEPT ![t] = {i}]
  BY DEF BeginSpawn
<1>2. PICK label \in {"spawn", "warm"} :
          /\ label = "spawn" <=> pc[t] = "reserve"
          /\ label = "warm" <=> pc[t] = "topup"
          /\ pc' = [pc EXCEPT ![t] = label]
  BY DEF BeginSpawn
<1>3. /\ hand[t] = {} /\ Held' = Held \cup {i} /\ i \notin Held
      /\ UNCHANGED <<idle, assigned, sess, open, ended>>
  BY <1>1 DEF BeginSpawn, Held, Placed, Accounted, StopPcs, TypeOK
<1>4. open /\ (pc[t] = "reserve" => assigned[sess[t]] = None)
  BY <1>2 DEF OrderlyInv, Closed, OneCall, StopPcs
<1> USE <1>1, <1>2, <1>3, <1>4 DEF TypeOK, AcquirePcs, StopPcs
<1>5. NoOrphan'   BY DEF OrderlyInv, NoOrphan, Reachable
<1>6. OneCall'    BY DEF OrderlyInv, OneCall
<1>7. Handed'     BY DEF OrderlyInv, Handed, Releases
<1>8. Over'       BY PoolAssumption DEF OrderlyInv, Over, Releases, Busy
<1>9. Closed'     BY DEF OrderlyInv, Closed
<1> QED BY <1>5, <1>6, <1>7, <1>8, <1>9 DEF OrderlyInv

\* acquire() works for a session that has not ended, in a pool that is open,
\* and hands an instance to a session that has none.
LEMMA AcquireOrderly ==
    ASSUME TypeOK, Placed, OrderlyInv, NEW t \in Tasks, AcquireStep(t) \/ TimedOut(t)
    PROVE  OrderlyInv'
<1> USE DEF poolVars, callerVars, Goto, Finish
<1>1. pc[t] \in AcquirePcs
  BY DEF AcquireStep, AcquirePcs, LookUp, PopHealthy, PopUnhealthy, Reclaim, NoneIdle,
     Reserve, AtCapacity, SpawnOk, SpawnErr, Woken, TimedOut
<1>2. open /\ sess[t] \in Sessions /\ sess[t] \notin ended
  BY <1>1 DEF OrderlyInv, Closed, Over, Busy, Placed, Accounted, AcquirePcs, StopPcs, TypeOK
<1>3. ASSUME Held' = Held, UNCHANGED <<owner, idle, assigned, open, ended>>,
             NEW label \in AcquirePcs \cup {"none"}, pc' = [pc EXCEPT ![t] = label],
             label \in {"reserve", "pop", "spawn"} => assigned[sess[t]] = None,
             hand' = hand,
             sess' = sess \/ (sess' = [sess EXCEPT ![t] = None] /\ label = "none")
      PROVE  OrderlyInv'
  <2> USE <1>1, <1>2, <1>3 DEF TypeOK, AcquirePcs, StopPcs
  <2>1. NoOrphan'   BY DEF OrderlyInv, NoOrphan, Reachable
  <2>2. OneCall'    BY DEF OrderlyInv, OneCall
  <2>3. Handed'     BY DEF OrderlyInv, Handed, Releases
  <2>4. Over'       BY DEF OrderlyInv, Over, Releases, Busy
  <2>5. Closed'     BY DEF OrderlyInv, Closed
  <2> QED BY <2>1, <2>2, <2>3, <2>4, <2>5 DEF OrderlyInv
<1>4. ASSUME NEW i \in Held, Assign(t, i), Held' = Held, owner[i] = None,
             idle' \in SUBSET idle, idle \ idle' \subseteq {i},
             pc' = [pc EXCEPT ![t] = "none"], sess' = [sess EXCEPT ![t] = None],
             hand' = [hand EXCEPT ![t] = {}], hand[t] \subseteq {i},
             UNCHANGED <<open, ended>>, pc[t] \in {"pop", "spawn"}
      PROVE  OrderlyInv'
  <2>0. assigned[sess[t]] = None /\ i \in Instances /\ i # None
    BY <1>4, PoolAssumption DEF OrderlyInv, OneCall, Held
  <2>1. /\ assigned' = [assigned EXCEPT ![sess[t]] = i]
        /\ owner' = [owner EXCEPT ![i] = sess[t]]
    BY <1>4 DEF Assign
  <2> USE <1>1, <1>2, <1>4, <2>0, <2>1 DEF TypeOK, AcquirePcs, StopPcs
  <2>2. ASSUME NEW j \in Held
        PROVE  /\ Reachable(j)'
               /\ owner'[j] # None =>
                     \/ assigned'[owner'[j]] = j
                     \/ \E u \in Tasks : \/ Releases(u, j, owner[j])'
                                         \/ j \in hand'[u] /\ pc'[u] \in StopPcs
    <3>1. CASE j = i
      BY <3>1 DEF Reachable
    <3>2. CASE j # i
      <4>1. j \in Instances /\ j # None /\ owner'[j] = owner[j]
        BY <3>2, PoolAssumption DEF Held
      <4>2. \A s \in Sessions : assigned[s] = j => assigned'[s] = j
        BY <3>2, <4>1
      <4>3. \A u \in Tasks : j \in hand[u] =>
               u # t /\ j \in hand'[u] /\ pc'[u] = pc[u] /\ sess'[u] = sess[u]
        BY <3>2
      <4>4. Reachable(j) /\ (j \in idle => j \in idle')
        BY <3>2 DEF OrderlyInv, NoOrphan
      <4>5. Reachable(j)'
        BY <4>2, <4>3, <4>4 DEF Reachable
      <4>6. owner[j] # None => owner[j] \in Sessions
        BY <4>1
      <4>7. ASSUME owner[j] # None, assigned[owner[j]] # j
            PROVE  \E u \in Tasks : \/ Releases(u, j, owner[j])'
                                    \/ j \in hand'[u] /\ pc'[u] \in StopPcs
        <5>1. PICK u \in Tasks : \/ Releases(u, j, owner[j])
                                 \/ j \in hand[u] /\ pc[u] \in StopPcs
          BY <4>7 DEF OrderlyInv, Handed
        <5>2. j \in hand[u]
          BY <5>1 DEF Releases
        <5> QED BY <4>1, <4>3, <5>1, <5>2 DEF Releases
      <4> HIDE DEF StopPcs
      <4> QED BY <4>1, <4>2, <4>5, <4>6, <4>7
    <3> QED BY <3>1, <3>2
  <2>3. OneCall'    BY DEF OrderlyInv, OneCall, Placed, Accounted
  <2>4. NoOrphan' /\ Handed'
    BY <2>2 DEF NoOrphan, Handed, Releases
  <2>5. Over'       BY DEF OrderlyInv, Over, Releases, Busy
  <2>6. Closed'     BY DEF OrderlyInv, Closed
  <2> QED BY <2>3, <2>4, <2>5, <2>6 DEF OrderlyInv
<1>5. CASE LookUp(t)
  <2>1. pc[t] = "lookup" /\ hand[t] = {} /\ Held' = Held
    BY <1>5 DEF LookUp, Held, Placed, Accounted, StopPcs
  <2>2. hand' = hand
    BY <1>5, <2>1 DEF LookUp, TypeOK
  <2>3. /\ UNCHANGED <<owner, idle, assigned, open, ended>>
        /\ \/ /\ pc' = [pc EXCEPT ![t] = "none"]
              /\ sess' = [sess EXCEPT ![t] = None]
           \/ /\ assigned[sess[t]] = None /\ pc' = [pc EXCEPT ![t] = "pop"]
              /\ sess' = sess
    BY <1>5 DEF LookUp
  <2> QED BY <1>3, <2>1, <2>2, <2>3 DEF AcquirePcs
<1>6. CASE PopHealthy(t)
  <2>1. PICK i \in idle : idle' = idle \ {i} /\ Assign(t, i)
    BY <1>6 DEF PopHealthy
  <2>2. i \in Held /\ owner[i] = None /\ hand[t] = {} /\ pc[t] = "pop"
    BY <1>6 DEF Placed, Isolation, Accounted, StopPcs, PopHealthy
  <2>3. Held' = Held
    BY <1>6 DEF PopHealthy, Held
  <2> QED BY <1>4, <1>6, <2>1, <2>2, <2>3 DEF PopHealthy
<1>7. CASE PopUnhealthy(t)
  <2>1. PICK i \in idle : idle' = idle \ {i} /\ hand' = [hand EXCEPT ![t] = {i}]
    BY <1>7 DEF PopUnhealthy
  <2>2. /\ hand[t] = {} /\ pc' = [pc EXCEPT ![t] = "reclaim"] /\ Held' = Held
        /\ UNCHANGED <<owner, assigned, sess, open, ended>>
    BY <1>7 DEF PopUnhealthy, Held, Placed, Accounted, StopPcs
  <2> USE <1>1, <1>2, <2>1, <2>2 DEF TypeOK, AcquirePcs, StopPcs
  <2>3. NoOrphan'   BY DEF OrderlyInv, NoOrphan, Reachable
  <2>4. OneCall'    BY DEF OrderlyInv, OneCall
  <2>5. Handed'     BY DEF OrderlyInv, Handed, Releases
  <2>6. Over'       BY DEF OrderlyInv, Over, Releases, Busy
  <2>7. Closed'     BY DEF OrderlyInv, Closed
  <2> QED BY <2>3, <2>4, <2>5, <2>6, <2>7 DEF OrderlyInv
<1>8. CASE Reclaim(t)
  BY <1>1, <1>2, <1>8, GiveBackOrderly DEF Reclaim, AcquirePcs
<1>9. CASE NoneIdle(t)
  BY <1>3, <1>9 DEF NoneIdle, Held, AcquirePcs, OrderlyInv, OneCall
<1>10. CASE Reserve(t)
  BY <1>1, <1>2, <1>10, SpawnOrderly DEF Reserve, OrderlyInv, OneCall
<1>11. CASE AtCapacity(t)
  BY <1>3, <1>11 DEF AtCapacity, Held, AcquirePcs
<1>12. CASE SpawnOk(t)
  <2>1. PICK i \in Instances : /\ hand[t] = {i}
                               /\ inst' = [inst EXCEPT ![i] = "healthy"]
                               /\ Assign(t, i)
    <3>1. PICK j \in Instances : hand[t] = {j}
      BY <1>12 DEF SpawnOk, Placed, Accounted
    <3> QED BY <1>12, <3>1 DEF SpawnOk
  <2>2. i \in Held /\ owner[i] = None /\ pc[t] = "spawn"
    BY <1>12, <2>1 DEF SpawnOk, Placed, Accounted
  <2>3. Held' = Held
    BY <2>1, <2>2 DEF Held, TypeOK
  <2> QED BY <1>4, <1>12, <2>1, <2>2, <2>3 DEF SpawnOk
<1>13. CASE SpawnErr(t)
  BY <1>1, <1>2, <1>13, GiveBackOrderly DEF SpawnErr
<1>14. CASE Woken(t)
  BY <1>3, <1>14 DEF Woken, Held, AcquirePcs
<1>15. CASE TimedOut(t)
  <2>1. hand[t] = {} /\ Held' = Held
    BY <1>15 DEF TimedOut, Held, Placed, Accounted, StopPcs
  <2>2. hand' = hand
    BY <1>15, <2>1 DEF TimedOut, TypeOK
  <2> QED BY <1>3, <1>15, <2>1, <2>2 DEF TimedOut
<1> QED BY <1>5, <1>6, <1>7, <1>8, <1>9, <1>10, <1>11, <1>12, <1>13, <1>14, <1>15
        DEF AcquireStep

\* release() stops what it took from the assignment.
LEMMA ReleaseOrderly ==
    ASSUME TypeOK, Placed, OrderlyInv, NEW t \in Tasks, ReleaseStep(t)
    PROVE  OrderlyInv'
<1> USE DEF poolVars, callerVars, Goto, Finish
<1>1. pc[t] \in ReleasePcs
  BY DEF ReleaseStep, ReleasePcs, Recycle, CountIdle, TopUp, WarmOk, WarmErr
<1>2. open
  BY <1>1 DEF OrderlyInv, Closed, ReleasePcs, StopPcs
<1>3. ASSUME Held' = Held, UNCHANGED <<owner, assigned, open, ended>>,
             idle' = idle \cup hand[t],
             NEW label \in {"none", "topup"}, pc' = [pc EXCEPT ![t] = label],
             pc[t] # "recycle",
             hand' = [hand EXCEPT ![t] = {}],
             sess' = sess \/ (sess' = [sess EXCEPT ![t] = None] /\ label = "none")
      PROVE  OrderlyInv'
  <2> USE <1>1, <1>2, <1>3 DEF TypeOK, AcquirePcs, StopPcs, ReleasePcs
  <2>1. NoOrphan'   BY DEF OrderlyInv, NoOrphan, Reachable
  <2>2. OneCall'    BY DEF OrderlyInv, OneCall
  <2>3. Handed'     BY DEF OrderlyInv, Handed, Releases
  <2>4. Over'       BY DEF OrderlyInv, Over, Releases, Busy
  <2>5. Closed'     BY DEF OrderlyInv, Closed
  <2> QED BY <2>1, <2>2, <2>3, <2>4, <2>5 DEF OrderlyInv
<1>4. CASE Recycle(t)
  BY <1>2, <1>4, GiveBackOrderly DEF Recycle
<1>5. CASE CountIdle(t)
  <2>1. hand[t] = {} /\ Held' = Held
    BY <1>5 DEF CountIdle, Placed, Accounted, StopPcs, Held
  <2>2. hand = [hand EXCEPT ![t] = {}] /\ idle = idle \cup hand[t]
    BY <2>1 DEF TypeOK
  <2> QED BY <1>3, <1>5, <2>1, <2>2 DEF CountIdle
<1>6. CASE TopUp(t)
  <2>1. hand[t] = {}
    BY <1>6 DEF TopUp, Placed, Accounted, StopPcs
  <2>2. CASE BeginSpawn(t, "warm")
    BY <1>6, <2>2, SpawnOrderly DEF TopUp
  <2>3. CASE ~BeginSpawn(t, "warm")
    <3>1. idle = idle \cup hand[t]
      BY <2>1
    <3> QED BY <1>3, <1>6, <2>3, <3>1 DEF TopUp, Held
  <2> QED BY <2>2, <2>3
<1>7. CASE WarmOk(t)
  <2>1. PICK i \in Instances : hand[t] = {i}
    BY <1>7 DEF WarmOk, Placed, Accounted
  <2>2. /\ inst' = [inst EXCEPT ![i] = "healthy"] /\ inst[i] # "free"
        /\ idle' = idle \cup hand[t]
    BY <1>7, <2>1 DEF WarmOk, Placed, Accounted, Held
  <2>3. Held' = Held
    BY <2>2 DEF Held, TypeOK
  <2> QED BY <1>3, <1>7, <2>2, <2>3 DEF WarmOk
<1>8. CASE WarmErr(t)
  BY <1>2, <1>8, GiveBackOrderly DEF WarmErr
<1> QED BY <1>4, <1>5, <1>6, <1>7, <1>8 DEF ReleaseStep

\* stop_all() takes all there is in one hand and is not dropped.
LEMMA StopOrderly ==
    ASSUME TypeOK, Placed, OrderlyInv, NEW t \in Tasks, StopStep(t)
    PROVE  OrderlyInv'
<1> USE DEF poolVars, callerVars, Goto, Finish
<1>1. ~open
  BY DEF StopStep, DrainAssigned, StopOne, ReturnPermits, OrderlyInv, Closed, StopPcs
<1>2. CASE DrainAssigned(t)
  <2> DEFINE taken == {i \in Instances : \E s \in Sessions : assigned[s] = i}
  <2>1. /\ hand' = [hand EXCEPT ![t] = hand[t] \cup taken]
        /\ assigned' = [s \in Sessions |-> None]
        /\ pc[t] = "drain" /\ pc' = [pc EXCEPT ![t] = "stop"]
        /\ Held' = Held
        /\ UNCHANGED <<owner, idle, sess, open, ended>>
    BY <1>2 DEF DrainAssigned, Held
  <2>2. \A i \in Held : (\E s \in Sessions : assigned[s] = i) => i \in taken
    BY DEF Held
  <2>3. \A u \in Tasks : pc[u] \in {"none"} \cup StopPcs
    BY <1>1 DEF OrderlyInv, Closed
  <2> HIDE DEF taken
  <2> USE <1>1, <2>1, <2>2, <2>3 DEF TypeOK, AcquirePcs, StopPcs
  <2>4. NoOrphan'   BY DEF OrderlyInv, NoOrphan, Reachable
  <2>5. OneCall'    BY DEF OrderlyInv, OneCall
  <2>6. Handed'     BY DEF OrderlyInv, Handed, Releases, Held
  <2>7. Over'       BY DEF OrderlyInv, Over, Releases, Busy
  <2>8. Closed'     BY DEF OrderlyInv, Closed
  <2> QED BY <2>4, <2>5, <2>6, <2>7, <2>8 DEF OrderlyInv
<1>3. CASE StopOne(t)
  <2>1. Held' = Held
    BY <1>3 DEF StopOne, Held, Placed, Accounted, TypeOK
  <2> QED BY <1>3, <2>1 DEF StopOne, OrderlyInv, NoOrphan, Reachable, OneCall, Handed,
             Releases, Over, Busy, Closed
<1>4. CASE ReturnPermits(t)
  BY <1>4, GiveBackOrderly DEF ReturnPermits
<1> QED BY <1>2, <1>3, <1>4 DEF StopStep

\* A call starts for a session that has not ended, a release when the session
\* has no call, a stop when nothing else runs.
LEMMA CallOrderly ==
    ASSUME OrderlyCallers, TypeOK, Placed, OrderlyInv, NEW t \in Tasks, Call(t)
    PROVE  OrderlyInv'
<1> USE DEF poolVars, callerVars, Goto, Finish
<1>1. ASSUME NEW s \in Sessions, StartAcquire(t, s)
      PROVE  OrderlyInv'
  <2>1. /\ pc[t] = "none" /\ open /\ s \notin ended /\ ~Busy(s, AcquirePcs)
        /\ pc' = [pc EXCEPT ![t] = "lookup"] /\ sess' = [sess EXCEPT ![t] = s]
        /\ Held' = Held
        /\ UNCHANGED <<owner, idle, assigned, hand, open, ended>>
    BY <1>1 DEF StartAcquire, OrderlyCallers, Held
  <2> USE <2>1 DEF TypeOK, AcquirePcs, StopPcs
  <2>2. NoOrphan'   BY DEF OrderlyInv, NoOrphan, Reachable
  <2>3. OneCall'    BY DEF OrderlyInv, OneCall, Busy
  <2>4. Handed'     BY DEF OrderlyInv, Handed, Releases
  <2>5. Over'       BY DEF OrderlyInv, Over, Releases, Busy
  <2>6. Closed'     BY DEF OrderlyInv, Closed
  <2> QED BY <2>2, <2>3, <2>4, <2>5, <2>6 DEF OrderlyInv
<1>2. ASSUME NEW s \in Sessions, StartRelease(t, s)
      PROVE  OrderlyInv'
  <2>1. /\ pc[t] = "none" /\ open /\ ~Busy(s, AcquirePcs) /\ s \notin ended
        /\ ended' = ended \cup {s} /\ Held' = Held
        /\ UNCHANGED <<owner, idle, open>>
    BY <1>2 DEF StartRelease, OrderlyCallers, Held
  <2>2. CASE assigned[s] = None
    <3> USE <2>1, <2>2 DEF TypeOK, AcquirePcs, StopPcs
    <3>1. UNCHANGED <<assigned, pc, sess, hand>>
      BY <1>2 DEF StartRelease
    <3>2. \A i \in Held : owner[i] = s => \E u \in Tasks : Releases(u, i, s)
      BY PoolAssumption DEF OrderlyInv, Handed, Closed, Held
    <3>3. Over'
      BY <3>1, <3>2 DEF OrderlyInv, Over, Releases, Busy
    <3> QED BY <3>1, <3>3 DEF OrderlyInv, NoOrphan, Reachable, OneCall, Handed, Releases, Closed
  <2>3. CASE assigned[s] # None
    <3>1. PICK i \in Held : assigned[s] = i /\ owner[i] = s
      BY <2>3 DEF Placed, Isolation, Accounted
    <3>2. /\ assigned' = [assigned EXCEPT ![s] = None]
          /\ hand' = [hand EXCEPT ![t] = {i}] /\ hand[t] = {}
          /\ sess' = [sess EXCEPT ![t] = s] /\ pc' = [pc EXCEPT ![t] = "recycle"]
      BY <1>2, <2>3, <3>1 DEF StartRelease, Placed, Accounted, StopPcs
    <3> USE <2>1, <2>3, <3>1, <3>2 DEF TypeOK, AcquirePcs, StopPcs
    <3>3. ASSUME NEW j \in Held, owner[j] = s
          PROVE  \E u \in Tasks : Releases(u, j, s)'
      <4>1. CASE j = i
        BY <4>1 DEF Releases
      <4>2. CASE j # i
        <5>1. PICK u \in Tasks : Releases(u, j, s)
          BY <3>3, <4>2, PoolAssumption DEF OrderlyInv, Handed, Closed, Held
        <5> QED BY <5>1 DEF Releases
      <4> QED BY <4>1, <4>2
    <3>4. NoOrphan'   BY DEF OrderlyInv, NoOrphan, Reachable
    <3>5. OneCall'    BY DEF OrderlyInv, OneCall, Placed, Accounted
    <3>6. Handed'     BY <3>3 DEF OrderlyInv, Handed, Releases
    <3>7. Over'       BY <3>3 DEF OrderlyInv, Over, Releases, Busy
    <3>8. Closed'     BY DEF OrderlyInv, Closed
    <3> QED BY <3>4, <3>5, <3>6, <3>7, <3>8 DEF OrderlyInv
  <2> QED BY <2>2, <2>3
<1>3. CASE StartStopAll(t)
  <2>1. /\ pc[t] = "none" /\ open /\ ~open' /\ idle' = {}
        /\ \A u \in Tasks : pc[u] \notin AcquirePcs \cup ReleasePcs
        /\ hand' = [hand EXCEPT ![t] = idle] /\ hand[t] = {}
        /\ pc' = [pc EXCEPT ![t] = "drain"] /\ Held' = Held
        /\ UNCHANGED <<owner, assigned, sess, ended>>
    BY <1>3 DEF StartStopAll, OrderlyCallers, Held, Placed, Accounted, StopPcs
  <2> USE <2>1 DEF TypeOK, AcquirePcs, StopPcs, ReleasePcs
  <2>2. NoOrphan'   BY DEF OrderlyInv, NoOrphan, Reachable
  <2>3. OneCall'    BY DEF OrderlyInv, OneCall
  <2>4. Handed'     BY DEF OrderlyInv, Handed, Releases
  <2>5. Over'       BY DEF OrderlyInv, Over, Releases, Busy
  <2>6. Closed'     BY DEF OrderlyInv, Closed
  <2> QED BY <2>2, <2>3, <2>4, <2>5, <2>6 DEF OrderlyInv
<1> QED BY <1>1, <1>2, <1>3 DEF Call

LEMMA OrderlyStep ==
    ASSUME OrderlyCallers, TypeOK, Placed, OrderlyInv, [Next]_vars
    PROVE  OrderlyInv'
<1>1. ASSUME NEW i \in Instances, Degrade(i)
      PROVE  OrderlyInv'
  <2>1. Held' = Held
    BY <1>1 DEF Degrade, Held, TypeOK
  <2> QED BY <1>1, <2>1 DEF Degrade, callerVars, OrderlyInv, NoOrphan, Reachable, OneCall,
             Handed, Releases, Over, Busy, Closed
<1>2. CASE UNCHANGED vars
  BY <1>2 DEF vars, poolVars, callerVars, Held, OrderlyInv, NoOrphan, Reachable, OneCall,
     Handed, Releases, Over, Busy, Closed
<1>3. \A t \in Tasks : ~StopAllDropped(t)
  BY DEF OrderlyCallers, StopAllDropped
<1> QED BY <1>1, <1>2, <1>3, AcquireOrderly, ReleaseOrderly, StopOrderly, CallOrderly
        DEF Next, Step

\* Callers with one call at a time in a session, none after its end, that stop
\* the pool when nothing else runs in it and wait for the stop to return, leave
\* no orphan, nothing of an ended session and nothing of a stopped pool
\* (acquire(), release() and stop_all() of pool.rs together).
THEOREM OrderlyCallersLeaveNothing == OrderlyCallers => (Spec => []NothingOutlives)
<1> SUFFICES ASSUME OrderlyCallers PROVE Spec => []NothingOutlives
  OBVIOUS
<1>1. Init => OrderlyInv
  BY InitOrderly
<1>2. IInv /\ OrderlyInv /\ [Next]_vars => OrderlyInv'
  BY OrderlyStep DEF IInv
<1>3. IInv /\ OrderlyInv => NothingOutlives
  BY OrderlyEnough DEF IInv
<1> QED BY <1>1, <1>2, <1>3, Inductive, PTL DEF Spec
=============================================================================
