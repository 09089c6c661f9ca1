----------------------------- MODULE InstancePool ---------------------------
(***************************************************************************)
(* The per-session instance pool of a dedicated backend                    *)
(* (src/src/backend/pool.rs): every acquire(), release() and stop_all() is *)
(* a task that other tasks interleave with wherever the code awaits or     *)
(* drops a lock.                                                           *)
(*                                                                         *)
(* Callers says which behaviours of the callers (BackendManager, the       *)
(* daemon's session tasks, the health checker) are included:               *)
(*   "parallel"  a session has several calls in flight;                    *)
(*   "late"      calls of a session run on, or start, after it ended or    *)
(*               after the pool was taken out of the manager;              *)
(*   "overlap"   the pool is stopped while a release() is still running;   *)
(*   "timeout"   the health checker's restart timeout drops stop_all().    *)
(* The idle deque is a set: instances are interchangeable.  An instance    *)
(* name is reused once its instance is gone.                               *)
(***************************************************************************)
EXTENDS Naturals, FiniteSets, Notify

CONSTANTS Sessions, Instances, Tasks, None, MinIdle, MaxInstances, Callers

ASSUME PoolAssumption ==
    /\ MinIdle \in Nat
    /\ MaxInstances \in Nat \ {0}
    /\ IsFiniteSet(Instances)
    /\ None \notin Sessions \cup Instances \cup Tasks

VARIABLES
    inst,      \* the state of every instance
    owner,     \* history: the session an instance was assigned to
    idle,      \* instances ready to be assigned
    assigned,  \* the instance of every session
    permits,   \* permits available in the capacity semaphore
    bell,      \* idle_notify
    pc,        \* where every task is
    sess,      \* the session a task works for
    hand,      \* the instances only this task refers to
    open,      \* the pool is in the manager's map
    ended      \* sessions whose connection is closed

poolVars   == <<inst, owner, idle, assigned, permits>>
callerVars == <<open, ended>>
vars == <<poolVars, bell, pc, sess, hand, callerVars>>

AcquirePcs == {"lookup", "pop", "reclaim", "reserve", "spawn", "wait"}
ReleasePcs == {"recycle", "count", "topup", "warm"}
StopPcs    == {"drain", "stop"}

\* Stopped instances of stop_all() wait for their permits to be returned.
InstStates == {"free", "starting", "healthy", "failed", "stopped"}

Held == {i \in Instances : inst[i] # "free"}

TypeOK ==
    /\ inst \in [Instances -> InstStates]
    /\ owner \in [Instances -> Sessions \cup {None}]
    /\ idle \in SUBSET Instances
    /\ assigned \in [Sessions -> Instances \cup {None}]
    /\ permits \in Nat
    /\ bell \in Bells(Tasks)
    /\ pc \in [Tasks -> {"none"} \cup AcquirePcs \cup ReleasePcs \cup StopPcs]
    /\ sess \in [Tasks -> Sessions \cup {None}]
    /\ hand \in [Tasks -> SUBSET Instances]
    /\ open \in BOOLEAN
    /\ ended \in SUBSET Sessions

\* new(): min_idle instances are prewarmed, fewer when capacity or a spawn
\* fails; the pool is published only afterwards.
Init ==
    \E warm \in SUBSET Instances :
        /\ Cardinality(warm) <= MinIdle
        /\ Cardinality(warm) <= MaxInstances
        /\ inst = [i \in Instances |-> IF i \in warm THEN "healthy" ELSE "free"]
        /\ idle = warm
        /\ permits = MaxInstances - Cardinality(warm)
        /\ owner = [i \in Instances |-> None]
        /\ assigned = [s \in Sessions |-> None]
        /\ bell = SilentBell(Tasks)
        /\ pc = [t \in Tasks |-> "none"]
        /\ sess = [t \in Tasks |-> None]
        /\ hand = [t \in Tasks |-> {}]
        /\ open = TRUE
        /\ ended = {}

-----------------------------------------------------------------------------
(* Steps shared by the operations *)

Goto(t, label) == pc' = [pc EXCEPT ![t] = label] /\ UNCHANGED sess

Finish(t) ==
    /\ pc' = [pc EXCEPT ![t] = "none"]
    /\ sess' = [sess EXCEPT ![t] = None]
    /\ hand' = [hand EXCEPT ![t] = {}]

\* try_acquire() + forget() and the beginning of spawn_instance().
BeginSpawn(t, label) ==
    /\ permits > 0
    /\ permits' = permits - 1
    /\ \E i \in Instances :
          /\ inst[i] = "free"
          /\ inst' = [inst EXCEPT ![i] = "starting"]
          /\ owner' = [owner EXCEPT ![i] = None]
          /\ hand' = [hand EXCEPT ![t] = {i}]
    /\ Goto(t, label)
    /\ UNCHANGED <<idle, assigned>>

\* The instances in t's hand are gone and their permits are returned.
GiveBack(t, n) ==
    /\ inst' = [i \in Instances |-> IF i \in hand[t] THEN "free" ELSE inst[i]]
    /\ permits' = permits + n
    /\ UNCHANGED <<owner, idle, assigned>>

\* assigned.insert(): whatever the session had is overwritten.
Assign(t, i) ==
    /\ assigned' = [assigned EXCEPT ![sess[t]] = i]
    /\ owner' = [owner EXCEPT ![i] = sess[t]]

Busy(s, labels) == \E t \in Tasks : sess[t] = s /\ pc[t] \in labels

-----------------------------------------------------------------------------
(* acquire(session) *)

StartAcquire(t, s) ==
    /\ pc[t] = "none"
    /\ open
    /\ "parallel" \in Callers \/ ~Busy(s, AcquirePcs)
    /\ "late" \in Callers \/ s \notin ended
    /\ pc' = [pc EXCEPT ![t] = "lookup"]
    /\ sess' = [sess EXCEPT ![t] = s]
    /\ UNCHANGED <<poolVars, bell, hand, callerVars>>

\* Register with idle_notify, then look for the session's instance.
LookUp(t) ==
    /\ pc[t] = "lookup"
    /\ \/ /\ assigned[sess[t]] # None
          /\ bell' \in DropFuture(Enable(bell, t), t)
          /\ Finish(t)
       \/ /\ assigned[sess[t]] = None
          /\ bell' = Enable(bell, t)
          /\ Goto(t, "pop")
          /\ UNCHANGED hand
    /\ UNCHANGED <<poolVars, callerVars>>

\* Mutant of PopHealthy: the deque is peeked, not popped.
PeekHealthy(t) ==
    /\ pc[t] = "pop"
    /\ \E i \in idle : inst[i] = "healthy" /\ Assign(t, i)
    /\ bell' \in DropFuture(bell, t)
    /\ Finish(t)
    /\ UNCHANGED <<inst, idle, permits, callerVars>>

PopHealthy(t) ==
    /\ pc[t] = "pop"
    /\ \E i \in idle :
          /\ inst[i] = "healthy"
          /\ idle' = idle \ {i}
          /\ Assign(t, i)
    /\ bell' \in DropFuture(bell, t)
    /\ Finish(t)
    /\ UNCHANGED <<inst, permits, callerVars>>

PopUnhealthy(t) ==
    /\ pc[t] = "pop"
    /\ \E i \in idle :
          /\ inst[i] = "failed"
          /\ idle' = idle \ {i}
          /\ hand' = [hand EXCEPT ![t] = {i}]
    /\ Goto(t, "reclaim")
    /\ UNCHANGED <<inst, owner, assigned, permits, bell, callerVars>>

\* add_permits(1), notify_waiters(), continue.
Reclaim(t) ==
    /\ pc[t] = "reclaim"
    /\ GiveBack(t, 1)
    /\ bell' \in DropFuture(NotifyWaiters(bell), t)
    /\ Goto(t, "lookup")
    /\ hand' = [hand EXCEPT ![t] = {}]
    /\ UNCHANGED callerVars

NoneIdle(t) ==
    /\ pc[t] = "pop"
    /\ idle = {}
    /\ Goto(t, "reserve")
    /\ UNCHANGED <<poolVars, bell, hand, callerVars>>

Reserve(t) ==
    /\ pc[t] = "reserve"
    /\ BeginSpawn(t, "spawn")
    /\ UNCHANGED <<bell, callerVars>>

AtCapacity(t) ==
    /\ pc[t] = "reserve"
    /\ permits = 0
    /\ Goto(t, "wait")
    /\ UNCHANGED <<poolVars, bell, hand, callerVars>>

SpawnOk(t) ==
    /\ pc[t] = "spawn"
    /\ \E i \in hand[t] :
          /\ inst' = [inst EXCEPT ![i] = "healthy"]
          /\ Assign(t, i)
    /\ bell' \in DropFuture(bell, t)
    /\ Finish(t)
    /\ UNCHANGED <<idle, permits, callerVars>>

\* Mutant of SpawnErr: the forgotten permit is not returned.
SpawnErrLeaks(t) ==
    /\ pc[t] = "spawn"
    /\ GiveBack(t, 0)
    /\ bell' \in DropFuture(NotifyWaiters(bell), t)
    /\ Finish(t)
    /\ UNCHANGED callerVars

SpawnErr(t) ==
    /\ pc[t] = "spawn"
    /\ GiveBack(t, 1)
    /\ bell' \in DropFuture(NotifyWaiters(bell), t)
    /\ Finish(t)
    /\ UNCHANGED callerVars

Woken(t) ==
    /\ pc[t] = "wait"
    /\ bell.fut[t] \in {"one", "ready"}
    /\ bell' = [bell EXCEPT !.fut[t] = "none"]
    /\ Goto(t, "lookup")
    /\ UNCHANGED <<poolVars, hand, callerVars>>

\* timeout_at() polls the notification before the deadline.
TimedOut(t) ==
    /\ pc[t] = "wait"
    /\ bell.fut[t] = "waiting"
    /\ bell' = [bell EXCEPT !.fut[t] = "none"]
    /\ Finish(t)
    /\ UNCHANGED <<poolVars, callerVars>>

-----------------------------------------------------------------------------
(* release(session), called once, when the session's connection ends *)

StartRelease(t, s) ==
    /\ pc[t] = "none"
    /\ open
    /\ s \notin ended
    /\ "late" \in Callers \/ ~Busy(s, AcquirePcs)
    /\ ended' = ended \cup {s}
    /\ \/ /\ assigned[s] = None
          /\ UNCHANGED <<assigned, pc, sess, hand>>
       \/ /\ assigned[s] # None
          /\ assigned' = [assigned EXCEPT ![s] = None]
          /\ hand' = [hand EXCEPT ![t] = {assigned[s]}]
          /\ sess' = [sess EXCEPT ![t] = s]
          /\ pc' = [pc EXCEPT ![t] = "recycle"]
    /\ UNCHANGED <<inst, owner, idle, permits, bell, open>>

\* Mutant of Recycle: the instance is put back instead of being stopped.
Reuse(t) ==
    /\ pc[t] = "recycle"
    /\ idle' = idle \cup hand[t]
    /\ bell' \in NotifyOne(bell)
    /\ Goto(t, "count")
    /\ hand' = [hand EXCEPT ![t] = {}]
    /\ UNCHANGED <<inst, owner, assigned, permits, callerVars>>

\* stop() returned (its error is only logged): add_permits(1), notify_one().
Recycle(t) ==
    /\ pc[t] = "recycle"
    /\ GiveBack(t, 1)
    /\ bell' \in NotifyOne(bell)
    /\ Goto(t, "count")
    /\ hand' = [hand EXCEPT ![t] = {}]
    /\ UNCHANGED callerVars

\* After replenish_delay.
CountIdle(t) ==
    /\ pc[t] = "count"
    /\ \/ Cardinality(idle) < MinIdle /\ Goto(t, "topup") /\ UNCHANGED hand
       \/ Cardinality(idle) >= MinIdle /\ Finish(t)
    /\ UNCHANGED <<poolVars, bell, callerVars>>

TopUp(t) ==
    /\ pc[t] = "topup"
    /\ \/ BeginSpawn(t, "warm")
       \/ permits = 0 /\ Finish(t) /\ UNCHANGED poolVars
    /\ UNCHANGED <<bell, callerVars>>

\* Mutant of WarmOk: nobody is told of the new idle instance.
WarmOkSilent(t) ==
    /\ pc[t] = "warm"
    /\ \E i \in hand[t] :
          /\ inst' = [inst EXCEPT ![i] = "healthy"]
          /\ idle' = idle \cup {i}
    /\ Finish(t)
    /\ UNCHANGED <<owner, assigned, permits, bell, callerVars>>

WarmOk(t) ==
    /\ pc[t] = "warm"
    /\ \E i \in hand[t] :
          /\ inst' = [inst EXCEPT ![i] = "healthy"]
          /\ idle' = idle \cup {i}
    /\ bell' \in NotifyOne(bell)
    /\ Finish(t)
    /\ UNCHANGED <<owner, assigned, permits, callerVars>>

WarmErr(t) ==
    /\ pc[t] = "warm"
    /\ GiveBack(t, 1)
    /\ bell' \in NotifyOne(bell)
    /\ Finish(t)
    /\ UNCHANGED callerVars

-----------------------------------------------------------------------------
(* stop_all(), by the caller that took the pool out of the manager's map *)

StartStopAll(t) ==
    /\ pc[t] = "none"
    /\ open
    /\ "late" \in Callers \/ \A u \in Tasks : pc[u] \notin AcquirePcs
    /\ "overlap" \in Callers \/ \A u \in Tasks : pc[u] \notin ReleasePcs
    /\ open' = FALSE
    /\ hand' = [hand EXCEPT ![t] = idle]
    /\ idle' = {}
    /\ Goto(t, "drain")
    /\ UNCHANGED <<inst, owner, assigned, permits, bell, ended>>

DrainAssigned(t) ==
    /\ pc[t] = "drain"
    /\ hand' = [hand EXCEPT ![t] = @ \cup {i \in Instances :
                                            \E s \in Sessions : assigned[s] = i}]
    /\ assigned' = [s \in Sessions |-> None]
    /\ Goto(t, "stop")
    /\ UNCHANGED <<inst, owner, idle, permits, bell, callerVars>>

StopOne(t) ==
    /\ pc[t] = "stop"
    /\ \E i \in hand[t] :
          /\ inst[i] # "stopped"
          /\ inst' = [inst EXCEPT ![i] = "stopped"]
    /\ UNCHANGED <<owner, idle, assigned, permits, bell, pc, sess, hand, callerVars>>

\* permits_to_add: never more than the semaphore lacks.
Refunded(n) ==
    LET room == IF permits < MaxInstances THEN MaxInstances - permits ELSE 0
    IN  IF n < room THEN n ELSE room

ReturnPermits(t) ==
    /\ pc[t] = "stop"
    /\ \A i \in hand[t] : inst[i] = "stopped"
    /\ LET n == Refunded(Cardinality(hand[t])) IN
          /\ GiveBack(t, n)
          /\ bell' = IF n > 0 THEN NotifyWaiters(bell) ELSE bell
    /\ Finish(t)
    /\ UNCHANGED callerVars

\* health.rs wraps restart_backend() in a timeout, which drops stop_all()
\* at the await of one of its stop() calls.
StopAllDropped(t) ==
    /\ "timeout" \in Callers
    /\ pc[t] = "stop"
    /\ \E i \in hand[t] : inst[i] # "stopped"
    /\ Finish(t)
    /\ UNCHANGED <<poolVars, bell, callerVars>>

-----------------------------------------------------------------------------

\* An instance leaves Healthy: Backend::set_state() by a holder of the Arc,
\* its process being gone.
Degrade(i) ==
    /\ inst[i] = "healthy"
    /\ inst' = [inst EXCEPT ![i] = "failed"]
    /\ UNCHANGED <<owner, idle, assigned, permits, bell, pc, sess, hand, callerVars>>

\* What a started task does by itself.
AcquireStep(t) ==
    \/ LookUp(t) \/ PopHealthy(t) \/ PopUnhealthy(t) \/ Reclaim(t) \/ NoneIdle(t)
    \/ Reserve(t) \/ AtCapacity(t) \/ SpawnOk(t) \/ SpawnErr(t) \/ Woken(t)

ReleaseStep(t) ==
    Recycle(t) \/ CountIdle(t) \/ TopUp(t) \/ WarmOk(t) \/ WarmErr(t)

StopStep(t) == DrainAssigned(t) \/ StopOne(t) \/ ReturnPermits(t)

Step(t) == AcquireStep(t) \/ ReleaseStep(t) \/ StopStep(t)

Call(t) ==
    \/ \E s \in Sessions : StartAcquire(t, s) \/ StartRelease(t, s)
    \/ StartStopAll(t)

Next ==
    \/ \E t \in Tasks : Step(t) \/ Call(t) \/ TimedOut(t) \/ StopAllDropped(t)
    \/ \E i \in Instances : Degrade(i)

Spec == Init /\ [][Next]_vars

\* A task that can run does: tokio polls every ready task, and a spawn or a
\* stop returns.  Nothing forces a call, a deadline or a failure to happen.
FairSpec == Spec /\ \A t \in Tasks : WF_vars(Step(t))

-----------------------------------------------------------------------------
(* Properties *)

\* Capacity: a permit stands for every instance that is not gone, so at most
\* max_instances exist, whatever the callers do; none is lost or made up
\* (the semaphore accounting of acquire, release and stop_all).
CapacityConserved == permits + Cardinality(Held) = MaxInstances

\* Isolation: an instance is in one place only, and the one a session holds
\* was never handed to another session ("its own isolated backend instance").
Isolation ==
    /\ \A i \in idle : owner[i] = None
    /\ \A s \in Sessions : assigned[s] # None =>
          /\ owner[assigned[s]] = s
          /\ assigned[s] \notin idle
          /\ \A t \in Tasks : assigned[s] \notin hand[t]
    /\ \A t \in Tasks : hand[t] \cap idle = {}
    /\ \A t, u \in Tasks : t # u => hand[t] \cap hand[u] = {}

\* Whatever refers to an instance refers to one that holds a permit, and a
\* task holds exactly the instance its next step gives back or hands out (the
\* strengthening that makes CapacityConserved and Isolation inductive).
Accounted ==
    /\ idle \subseteq Held
    /\ \A s \in Sessions : assigned[s] # None => assigned[s] \in Held
    /\ \A t \in Tasks :
          /\ hand[t] \subseteq Held
          /\ pc[t] \in AcquirePcs => sess[t] \in Sessions
          /\ pc[t] \in {"reclaim", "spawn", "recycle", "warm"} =>
                \E i \in Instances : hand[t] = {i}
          /\ pc[t] \in {"spawn", "warm"} => \A i \in hand[t] : owner[i] = None
          /\ pc[t] \notin {"reclaim", "spawn", "recycle", "warm"} \cup StopPcs =>
                hand[t] = {}

Reachable(i) ==
    \/ i \in idle
    \/ \E s \in Sessions : assigned[s] = i
    \/ \E t \in Tasks : i \in hand[t]

\* No orphans: an instance that exists can still be found by somebody who
\* will stop it.
NoOrphan == \A i \in Held : Reachable(i)

\* "on session disconnect, the assigned instance is stopped"
\* (docs/backend-management.md): nothing of an ended session outlives the
\* calls and the release that were running for it.
DisconnectStops ==
    \A s \in ended :
        (\A t \in Tasks : sess[t] # s) => \A i \in Held : owner[i] # s

\* "Stop all instances (idle + assigned)" (pool.rs): once the pool is out of
\* the manager and everything that was running in it has returned, no
\* instance is left.
StopAllStopsAll ==
    (~open /\ \A t \in Tasks : pc[t] = "none") => Held = {}

\* The three together, for callers that keep the order of a session's life.
NothingOutlives == NoOrphan /\ DisconnectStops /\ StopAllStopsAll

Asleep(t) == pc[t] = "wait" /\ bell.fut[t] = "waiting"
Available == permits > 0 \/ idle # {}

\* The pool implements the abstract promise of dedicated instance mode.
Promise == INSTANCE SessionIsolation WITH present <- Held, user <- owner
KeepsPromise == Promise!Spec

\* No lost wake-up: a sleeping acquire does not stay asleep while capacity or
\* an idle instance stays available ("a concurrent release/stop/restart cannot
\* notify between our check and wait, leaving this acquire asleep", pool.rs).
NoLostWakeup ==
    \A t \in Tasks : (Asleep(t) /\ Available) ~> (~Asleep(t) \/ ~Available)
=============================================================================
