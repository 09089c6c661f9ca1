--------------------------- MODULE BackendManager ---------------------------
(***************************************************************************)
(* The life of one backend in the BackendManager                           *)
(* (src/src/backend/mod.rs): start_all, add_backend, remove_backend,       *)
(* restart_backend, try_start_from_config and stop_all are operations that *)
(* other operations interleave with wherever the code awaits or lets go of *)
(* a map.  Every start makes a new instance: a Backend object with its     *)
(* child process and, from the end of the start, a reaper task that keeps  *)
(* the object alive (src/src/backend/stdio.rs).                            *)
(*                                                                         *)
(* Options says what the surroundings do:                                  *)
(*   "parallel"  operations on the backend overlap;                        *)
(*   "crash"     a process exits by itself;                                *)
(*   "hang"      a process stops answering, and may answer again;          *)
(*   "timeout"   the restart timeout of the health checker drops its       *)
(*               operation at an await.                                    *)
(***************************************************************************)
EXTENDS Naturals, FiniteSets

CONSTANTS Tasks, Health, Instances, None, Dedicated, Ops, Options

ASSUME ManagerAssumption ==
    /\ Health \in Tasks
    /\ None \notin Tasks \cup Instances
    /\ Dedicated \in BOOLEAN
    /\ Ops \subseteq {"add", "remove", "restart", "stop_all"}

VARIABLES
    backends,    \* the instance in the map
    state,       \* the state of every instance
    proc,        \* the child process of every instance
    reapers,     \* the instances a reaper task holds
    configured,  \* the backend has a configuration
    listed,      \* its tools are registered
    pool,        \* dedicated_pools has its pool
    pc,          \* where every operation is
    op,          \* what it is
    hand,        \* the instance it holds
    outcome,     \* what the last operation of the health checker returned
    asked        \* history: the last remove or stop_all that returned

instanceVars == <<backends, state, proc, reapers>>
taskVars == <<pc, op, hand, outcome>>
mgrVars == <<instanceVars, configured, listed, pool, taskVars, asked>>

OpPcs == {"none", "detach", "stop", "unpool", "pool_stop", "last_pool_stop", "untool", "config", "unpool_again",
          "spawn", "handshake", "register", "publish", "prewarm", "reap",
          "snapshot", "clear", "pools"}
Awaits == {"stop", "pool_stop", "last_pool_stop", "handshake", "prewarm"}

TypeOK ==
    /\ backends \in Instances \cup {None}
    /\ state \in [Instances -> {"unused", "starting", "healthy", "unhealthy", "stopped"}]
    /\ proc \in [Instances -> {"none", "up", "hung", "dead"}]
    /\ reapers \subseteq Instances
    /\ configured \in BOOLEAN /\ listed \in BOOLEAN /\ pool \in BOOLEAN
    /\ pc \in [Tasks -> OpPcs]
    /\ op \in [Tasks -> {"none", "start", "boot", "add", "remove", "restart", "stop_all"}]
    /\ hand \in [Tasks -> Instances \cup {None}]
    /\ outcome \in {"none", "ok", "err"}
    /\ asked \in {"booting", "none", "remove", "stop_all"}

MgrInit ==
    /\ backends = None
    /\ state = [i \in Instances |-> "unused"]
    /\ proc = [i \in Instances |-> "none"]
    /\ reapers = {}
    /\ configured = FALSE
    /\ listed \in BOOLEAN      \* the tool cache
    /\ pool = FALSE
    /\ pc = [t \in Tasks |-> "none"]
    /\ op = [t \in Tasks |-> "none"]
    /\ hand = [t \in Tasks |-> None]
    /\ outcome = "none"
    /\ asked = "booting"

-----------------------------------------------------------------------------

At(t, label) == pc[t] = label
Goto(t, label) == pc' = [pc EXCEPT ![t] = label] /\ UNCHANGED <<op, outcome>>
Hold(t, i) == hand' = [hand EXCEPT ![t] = i]
Keep == UNCHANGED hand

Return(t, result) ==
    /\ pc' = [pc EXCEPT ![t] = "none"]
    /\ op' = [op EXCEPT ![t] = "none"]
    /\ hand' = [hand EXCEPT ![t] = None]
    /\ outcome' = IF t = Health THEN result ELSE outcome

Idle == \A t \in Tasks : pc[t] = "none"

Begin(t, o, label) ==
    /\ pc[t] = "none"
    /\ "parallel" \in Options \/ Idle
    /\ pc' = [pc EXCEPT ![t] = label]
    /\ op' = [op EXCEPT ![t] = o]
    /\ outcome' = IF t = Health THEN "none" ELSE outcome
    /\ UNCHANGED <<instanceVars, listed, pool, hand>>

\* A set_state() by name: the instance in the map at that time.
SetState(s) ==
    state' = IF backends = None THEN state ELSE [state EXCEPT ![backends] = s]

-----------------------------------------------------------------------------
(* The operations as their callers start them *)

\* start_all(), once: the configuration is stored, the start runs in the
\* background.
Boot(t) ==
    /\ asked = "booting"
    /\ asked' = "none"
    /\ configured' = TRUE
    /\ Begin(t, "boot", "spawn")

\* add_backend() and remove_backend() of a reload or a client, a restart on
\* demand or by the admin API.
Change(t, o) ==
    /\ o \in Ops \cap {"add", "remove", "restart"}
    /\ asked \in {"none", "remove"}
    /\ Begin(t, o, "detach")
    /\ asked' = IF o = "restart" THEN asked ELSE "none"
    /\ UNCHANGED configured

\* stop_all(), once, before the process exits.
StopAll(t) ==
    /\ "stop_all" \in Ops
    /\ asked # "booting"
    /\ \A u \in Tasks : op[u] # "stop_all"
    /\ Begin(t, "stop_all", "snapshot")
    /\ UNCHANGED <<configured, asked>>

\* What the health checker starts.
BeginRestart(t) == Begin(t, "restart", "detach") /\ UNCHANGED <<configured, asked>>
BeginStart(t) == Begin(t, "start", "config") /\ UNCHANGED <<configured, asked>>

-----------------------------------------------------------------------------
(* cleanup_backend_components() *)

\* backends.remove(), and the beginning of stop().
Detach(t) ==
    /\ At(t, "detach")
    /\ backends' = None
    /\ SetState("stopped")
    /\ Hold(t, backends)
    /\ Goto(t, IF backends = None THEN "unpool" ELSE "stop")
    /\ UNCHANGED <<proc, reapers, configured, listed, pool, asked>>

\* The service is cancelled and the process group killed.
Stop(t) ==
    /\ At(t, "stop")
    /\ state' = [state EXCEPT ![hand[t]] = "stopped"]
    /\ proc' = [proc EXCEPT ![hand[t]] = "none"]
    /\ Hold(t, None)
    /\ Goto(t, IF op[t] = "stop_all" THEN "pools" ELSE "unpool")
    /\ UNCHANGED <<backends, reapers, configured, listed, pool, asked>>

\* dedicated_pools.remove(), which remove_backend() does once more at its end,
\* or dedicated_pools.clear() of stop_all().
Unpool(t) ==
    /\ pc[t] \in {"unpool", "unpool_again", "pools"}
    /\ pool' = FALSE
    /\ \/ pool /\ At(t, "unpool") /\ Goto(t, "pool_stop") /\ Keep /\ UNCHANGED asked
       \/ pool /\ ~At(t, "unpool") /\ Goto(t, "last_pool_stop") /\ Keep /\ UNCHANGED asked
       \/ ~pool /\ At(t, "unpool") /\ Goto(t, "untool") /\ Keep /\ UNCHANGED asked
       \/ ~pool /\ ~At(t, "unpool") /\ Return(t, "ok") /\ asked' = op[t]
    /\ UNCHANGED <<instanceVars, configured, listed>>

\* InstancePool::stop_all() returns.
PoolStopped(t) ==
    /\ \/ At(t, "pool_stop") /\ Goto(t, "untool") /\ Keep /\ UNCHANGED asked
       \/ At(t, "last_pool_stop") /\ Return(t, "ok") /\ asked' = op[t]
    /\ UNCHANGED <<instanceVars, configured, listed, pool>>

Untool(t) ==
    /\ At(t, "untool")
    /\ listed' = FALSE
    /\ Goto(t, "config") /\ Keep
    /\ UNCHANGED <<instanceVars, configured, pool, asked>>

\* Mutant of Configure: a restart starts what it was asked to.
ConfigureUnchecked(t) ==
    /\ At(t, "config")
    /\ \/ op[t] = "add" /\ configured' = TRUE /\ Goto(t, "spawn")
       \/ op[t] = "remove" /\ configured' = FALSE /\ Goto(t, "unpool_again")
       \/ op[t] \in {"restart", "start"} /\ UNCHANGED configured /\ Goto(t, "spawn")
    /\ Keep
    /\ UNCHANGED <<instanceVars, listed, pool, asked>>

\* The configuration is stored, removed or, by a restart, read.
Configure(t) ==
    /\ At(t, "config")
    /\ \/ op[t] = "add" /\ configured' = TRUE /\ Goto(t, "spawn") /\ Keep
       \/ op[t] = "remove" /\ configured' = FALSE /\ Goto(t, "unpool_again") /\ Keep
       \/ /\ op[t] \in {"restart", "start"}
          /\ UNCHANGED configured
          /\ \/ configured /\ Goto(t, "spawn") /\ Keep
             \/ ~configured /\ Return(t, "err")
    /\ UNCHANGED <<instanceVars, listed, pool, asked>>

-----------------------------------------------------------------------------
(* start_backend() *)

SpawnProcess(t) ==
    /\ At(t, "spawn")
    /\ \E i \in Instances :
          /\ state[i] = "unused"
          /\ state' = [state EXCEPT ![i] = "starting"]
          /\ proc' = [proc EXCEPT ![i] = "up"]
          /\ Hold(t, i)
    /\ Goto(t, "handshake")
    /\ UNCHANGED <<backends, reapers, configured, listed, pool, asked>>

\* The handshake is complete and the tools are discovered.
Connected(t) ==
    /\ At(t, "handshake")
    /\ proc[hand[t]] = "up"
    /\ state' = [state EXCEPT ![hand[t]] = "healthy"]
    /\ Goto(t, "register") /\ Keep
    /\ UNCHANGED <<backends, proc, reapers, configured, listed, pool, asked>>

ConnectFails(t) ==
    /\ At(t, "handshake")
    /\ Return(t, "err")
    /\ UNCHANGED <<instanceVars, configured, listed, pool, asked>>

Register(t) ==
    /\ At(t, "register")
    /\ listed' = TRUE
    /\ Goto(t, "publish") /\ Keep
    /\ UNCHANGED <<instanceVars, configured, pool, asked>>

\* backends.insert(): an instance that was there is overwritten.
Publish(t) ==
    /\ At(t, "publish")
    /\ backends' = hand[t]
    /\ Goto(t, IF Dedicated THEN "prewarm" ELSE "reap") /\ Keep
    /\ UNCHANGED <<state, proc, reapers, configured, listed, pool, asked>>

\* InstancePool::new() has prewarmed its instances.
Prewarmed(t) ==
    /\ At(t, "prewarm")
    /\ pool' = TRUE
    /\ Goto(t, "reap") /\ Keep
    /\ UNCHANGED <<instanceVars, configured, listed, asked>>

\* Semaphore, rate limiter and retry settings, then the reaper.
SpawnReaper(t) ==
    /\ At(t, "reap")
    /\ reapers' = reapers \cup {hand[t]}
    /\ Return(t, "ok")
    /\ UNCHANGED <<backends, state, proc, configured, listed, pool, asked>>

\* The future of an operation is dropped at an await.
DropOperation(t) ==
    /\ pc[t] \in Awaits
    /\ Return(t, "err")
    /\ UNCHANGED <<instanceVars, configured, listed, pool, asked>>

-----------------------------------------------------------------------------
(* stop_all() *)

Snapshot(t) ==
    /\ At(t, "snapshot")
    /\ Hold(t, backends)
    /\ Goto(t, "clear")
    /\ UNCHANGED <<instanceVars, configured, listed, pool, asked>>

\* backends.clear(), then the drain.
Clear(t) ==
    /\ At(t, "clear")
    /\ backends' = None
    /\ Goto(t, IF hand[t] = None THEN "pools" ELSE "stop") /\ Keep
    /\ UNCHANGED <<state, proc, reapers, configured, listed, pool, asked>>

\* timeout(stop_timeout, stop()): a call in flight holds the service.
StopTimesOut(t) ==
    /\ "timeout" \in Options
    /\ At(t, "stop")
    /\ op[t] = "stop_all"
    /\ state' = [state EXCEPT ![hand[t]] = "stopped"]
    /\ Hold(t, None)
    /\ Goto(t, "pools")
    /\ UNCHANGED <<backends, proc, reapers, configured, listed, pool, asked>>

-----------------------------------------------------------------------------
(* The processes, their reapers, and the end of an instance *)

Alive(i) == proc[i] \in {"up", "hung"}

Crash(i) ==
    /\ "crash" \in Options
    /\ Alive(i)
    /\ proc' = [proc EXCEPT ![i] = "dead"]
    /\ UNCHANGED <<backends, state, reapers, configured, listed, pool, taskVars, asked>>

Hang(i) ==
    /\ "hang" \in Options
    /\ Alive(i)
    /\ proc' = [proc EXCEPT ![i] = IF @ = "up" THEN "hung" ELSE "up"]
    /\ UNCHANGED <<backends, state, reapers, configured, listed, pool, taskVars, asked>>

\* Mutant of Reap: the exit is seen and not recorded.
ReapSilently(i) ==
    /\ i \in reapers
    /\ proc[i] = "dead"
    /\ proc' = [proc EXCEPT ![i] = "none"]
    /\ reapers' = reapers \ {i}
    /\ UNCHANGED <<backends, state, configured, listed, pool, taskVars, asked>>

\* wait_for_exit() returns the status; an instance that is being stopped is
\* Stopped already.
Reap(i) ==
    /\ i \in reapers
    /\ proc[i] = "dead"
    /\ proc' = [proc EXCEPT ![i] = "none"]
    /\ state' = [state EXCEPT ![i] = "stopped"]
    /\ reapers' = reapers \ {i}
    /\ UNCHANGED <<backends, configured, listed, pool, taskVars, asked>>

\* The reaper finds its instance stopped, or the child gone.
ReaperLeaves(i) ==
    /\ i \in reapers
    /\ state[i] = "stopped" \/ proc[i] = "none"
    /\ reapers' = reapers \ {i}
    /\ UNCHANGED <<backends, state, proc, configured, listed, pool, taskVars, asked>>

Referenced(i) == i = backends \/ i \in reapers \/ \E t \in Tasks : hand[t] = i

\* The last reference is dropped: the child's standard input closes, and it
\* exits.
DropInstance(i) ==
    /\ state[i] # "unused"
    /\ ~Referenced(i)
    /\ state' = [state EXCEPT ![i] = "unused"]
    /\ proc' = [proc EXCEPT ![i] = "none"]
    /\ UNCHANGED <<backends, reapers, configured, listed, pool, taskVars, asked>>

-----------------------------------------------------------------------------

CleanUp(t) == Detach(t) \/ Stop(t) \/ Unpool(t) \/ PoolStopped(t) \/ Untool(t) \/ Configure(t)

Start(t) ==
    \/ SpawnProcess(t) \/ Connected(t) \/ ConnectFails(t) \/ Register(t) \/ Publish(t)
    \/ Prewarmed(t) \/ SpawnReaper(t)

Halt(t) == Snapshot(t) \/ Clear(t) \/ StopTimesOut(t)

OpStep(t) == CleanUp(t) \/ Start(t) \/ Halt(t)

Request(t) == Boot(t) \/ \E o \in {"add", "remove", "restart"} : Change(t, o)

World(i) == Crash(i) \/ Hang(i) \/ Reap(i) \/ ReaperLeaves(i) \/ DropInstance(i)
=============================================================================
