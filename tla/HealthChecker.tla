---------------------------- MODULE HealthChecker ---------------------------
(***************************************************************************)
(* The health loop (src/src/backend/health.rs) over one backend of the     *)
(* manager: a cycle takes a snapshot of the status, pings, and acts on     *)
(* the snapshot in the later phases, while operations and reapers go on.   *)
(* The pings and restarts of other backends make a phase last.             *)
(*                                                                         *)
(* More of Options:                                                        *)
(*   "midcycle"  operations of others begin while a cycle is under way;    *)
(*   "prereq"    the backend has a prerequisite, which may fail to start;  *)
(*   "memory"    the process may exceed max_memory_mb.                     *)
(***************************************************************************)
EXTENDS BackendManager

CONSTANTS FailureThreshold, MaxRestarts

ASSUME HealthAssumption ==
    /\ FailureThreshold \in Nat \ {0}
    /\ MaxRestarts \in Nat

VARIABLES
    phase,     \* where the health loop is
    snap,      \* the status at the beginning of the cycle
    pinged,    \* the instance a ping was sent to
    answer,    \* what came of it
    failures,  \* consecutive_failures, counted up to the threshold
    circuit,   \* circuit_open_since is set
    restarts,  \* restart_count
    window,    \* restart_window_start: not set, running, or over
    attempts   \* history: restarts and starts begun in the restart window

healthVars == <<phase, snap, pinged, answer, failures, circuit, restarts, window, attempts>>
vars == <<mgrVars, healthVars>>

Statuses == {"absent", "starting", "healthy", "unhealthy", "stopped"}

HealthTypeOK ==
    /\ TypeOK
    /\ phase \in {"sleep", "ping", "apply", "handle", "probe", "probed",
                  "restarting", "pending", "memory", "over_limit", "memory_restart", "gone"}
    /\ snap \in Statuses
    /\ pinged \in Instances \cup {None}
    /\ answer \in {"none", "ok", "failed"}
    /\ failures \in 0..FailureThreshold
    /\ circuit \in BOOLEAN
    /\ restarts \in 0..MaxRestarts
    /\ window \in {"none", "open", "over"}
    /\ attempts \in Nat

Init ==
    /\ MgrInit
    /\ phase = "sleep"
    /\ snap = "absent"
    /\ pinged = None
    /\ answer = "none"
    /\ failures = 0
    /\ circuit = FALSE
    /\ restarts = 0
    /\ window = "none"
    /\ attempts = 0

-----------------------------------------------------------------------------

Enter(p) == phase' = p

RecordSuccess == failures' = 0 /\ circuit' = FALSE

RecordFailure == failures' = IF failures < FailureThreshold THEN failures + 1 ELSE failures

\* Mutant of Trip: the time is not recorded.
TripUnrecorded == SetState("unhealthy") /\ UNCHANGED circuit

\* The circuit breaker: the state is set by name.
Trip == circuit' = TRUE /\ SetState("unhealthy")
TripsAt(n) == n >= FailureThreshold

\* get_all_status(), an interval after the last cycle: a reaper looks every
\* 100 ms and has seen an exit by then.
Tick ==
    /\ phase = "sleep"
    /\ asked # "booting"      \* the interval comes first
    /\ "midcycle" \in Options \/ Idle
    /\ \A i \in reapers : proc[i] # "dead"
    /\ LET status == IF backends = None THEN "absent" ELSE state[backends] IN
          /\ snap' = status
          /\ Enter(IF status = "healthy" THEN "ping" ELSE "handle")
    /\ UNCHANGED <<mgrVars, pinged, answer, failures, circuit, restarts, window, attempts>>

\* ping_backend(): whatever is in the map when the ping's turn comes.
Ping(from, to) ==
    /\ phase = from
    /\ pinged' = backends
    /\ answer' = IF backends # None /\ proc[backends] = "up" THEN "ok" ELSE "failed"
    /\ Enter(to)
    /\ UNCHANGED <<mgrVars, snap, failures, circuit, restarts, window, attempts>>

SendPing == Ping("ping", "apply")

\* join_all() has every result.
ApplyPing ==
    /\ phase = "apply"
    /\ \/ answer = "ok" /\ RecordSuccess /\ UNCHANGED state
       \/ /\ answer = "failed"
          /\ RecordFailure
          /\ \/ TripsAt(failures') /\ Trip
             \/ ~TripsAt(failures') /\ UNCHANGED <<circuit, state>>
    /\ pinged' = None
    /\ answer' = "none"
    /\ Enter("handle")
    /\ UNCHANGED <<backends, proc, reapers, configured, listed, pool, taskVars, asked,
                   snap, restarts, window, attempts>>

-----------------------------------------------------------------------------
(* Phase 2, on the status of the snapshot *)

Skip(p) ==
    /\ Enter(p)
    /\ UNCHANGED <<mgrVars, snap, pinged, answer, failures, restarts, window, attempts>>

\* Nothing to do for a starting or healthy backend.
PassOver ==
    /\ phase = "handle"
    /\ snap \in {"starting", "healthy"}
    /\ Skip("memory") /\ UNCHANGED circuit

\* The recovery window of an open circuit is not over, or it is.
CircuitOpen ==
    /\ phase = "handle"
    /\ snap = "unhealthy" /\ circuit
    /\ \E p \in {"memory", "probe"} : Skip(p)
    /\ UNCHANGED circuit

SendProbe == Ping("probe", "probed")

ApplyProbe ==
    /\ phase = "probed"
    /\ \/ answer = "ok" /\ RecordSuccess /\ SetState("healthy")
       \/ answer = "failed" /\ UNCHANGED <<failures, circuit, state>>
    /\ pinged' = None
    /\ answer' = "none"
    /\ Enter("memory")
    /\ UNCHANGED <<backends, proc, reapers, configured, listed, pool, taskVars, asked,
                   snap, restarts, window, attempts>>

\* Mutant of Due: the status is not looked at.
DueUnlessStarting(p) ==
    /\ phase = p
    /\ p = "handle" => snap \in {"healthy", "stopped"} \/ (snap = "unhealthy" /\ ~circuit)
    /\ p = "pending" => snap = "absent"

\* Phase 2 for a stopped or unhealthy backend with a closed circuit, phase 3
\* for a configured one that is not in the map.
Due(p) ==
    /\ phase = p
    /\ p = "handle" => snap = "stopped" \/ (snap = "unhealthy" /\ ~circuit)
    /\ p = "pending" => snap = "absent"

After(p) == IF p = "handle" THEN "memory" ELSE "sleep"

\* "clearing circuit state for stopped backend"
CloseCircuit(p) == circuit' = IF p = "handle" THEN FALSE ELSE circuit

\* Mutant of ShouldRestart: an attempt that was used up counts as one left.
ShouldRestartOnceMore == window = "over" \/ restarts <= MaxRestarts

ShouldRestart == window = "over" \/ restarts < MaxRestarts

\* The maximum is exceeded: remove_backend_tools().
GiveUp(p) ==
    /\ Due(p)
    /\ ~ShouldRestart
    /\ listed' = FALSE
    /\ CloseCircuit(p)
    /\ Enter(After(p))
    /\ UNCHANGED <<instanceVars, configured, pool, taskVars, asked,
                   snap, pinged, answer, failures, restarts, window, attempts>>

BackOff(p) ==
    /\ Due(p)
    /\ ShouldRestart
    /\ CloseCircuit(p)
    /\ Skip(After(p))

Count == restarts' = IF restarts < MaxRestarts THEN restarts + 1 ELSE restarts

PrerequisiteFails(p) ==
    /\ "prereq" \in Options
    /\ Due(p)
    /\ ShouldRestart
    /\ Count
    /\ CloseCircuit(p)
    /\ Enter(After(p))
    /\ UNCHANGED <<mgrVars, snap, pinged, answer, failures, window, attempts>>

\* Mutant of Attempt: the window is not reset.
AttemptInWindow(p) ==
    /\ Due(p)
    /\ ShouldRestart
    /\ attempts' = attempts + 1
    /\ CloseCircuit(p)
    /\ IF p = "handle" THEN BeginRestart(Health) ELSE BeginStart(Health)
    /\ Enter("restarting")
    /\ UNCHANGED <<snap, pinged, answer, failures, restarts, window>>

\* The window is reset if it is over, then the operation begins.
Attempt(p) ==
    /\ Due(p)
    /\ ShouldRestart
    /\ IF window = "open"
       THEN attempts' = attempts + 1 /\ UNCHANGED <<restarts, window>>
       ELSE attempts' = 1 /\ restarts' = 0 /\ window' = "open"
    /\ CloseCircuit(p)
    /\ IF p = "handle" THEN BeginRestart(Health) ELSE BeginStart(Health)
    /\ Enter("restarting")
    /\ UNCHANGED <<snap, pinged, answer, failures>>

\* Mutant of Attempted: a failed attempt is repeated at once.
AttemptedAtOnce ==
    /\ phase = "restarting"
    /\ pc[Health] = "none"
    /\ \/ outcome = "ok" /\ RecordSuccess /\ Enter(IF snap = "absent" THEN "sleep" ELSE "memory")
       \/ outcome = "err" /\ UNCHANGED <<failures, circuit>>
          /\ Enter(IF snap = "absent" THEN "pending" ELSE "handle")
    /\ Count
    /\ UNCHANGED <<mgrVars, snap, pinged, answer, window, attempts>>

\* The operation returned; it counts whether it succeeded or not.
Attempted ==
    /\ phase = "restarting"
    /\ pc[Health] = "none"
    /\ \/ outcome = "ok" /\ RecordSuccess
       \/ outcome = "err" /\ UNCHANGED <<failures, circuit>>
    /\ Count
    /\ Enter(IF snap = "absent" THEN "sleep" ELSE "memory")
    /\ UNCHANGED <<mgrVars, snap, pinged, answer, window, attempts>>

\* timeout(restart_timeout, ...)
RestartTimesOut ==
    /\ "timeout" \in Options
    /\ phase = "restarting"
    /\ DropOperation(Health)
    /\ UNCHANGED healthVars

\* Phase 3 reads the configured names; a name that is neither running nor
\* configured loses its health entry.
Pending ==
    /\ phase = "handle"
    /\ snap = "absent"
    /\ \/ configured /\ Skip("pending") /\ UNCHANGED circuit
       \/ /\ ~configured
          /\ Enter("sleep")
          /\ failures' = 0 /\ circuit' = FALSE /\ restarts' = 0 /\ window' = "none" /\ attempts' = 0
          /\ UNCHANGED <<mgrVars, snap, pinged, answer>>

\* Phase 4: the process of what is in the map now is sampled.
OverLimit ==
    /\ "memory" \in Options
    /\ phase = "memory"
    /\ backends # None
    /\ Alive(backends)
    /\ configured
    /\ Skip("over_limit") /\ UNCHANGED circuit

\* The restart for memory is neither counted nor under a timeout.
MemoryRestart ==
    /\ phase = "over_limit"
    /\ BeginRestart(Health)
    /\ Enter("memory_restart")
    /\ UNCHANGED <<snap, pinged, answer, failures, circuit, restarts, window, attempts>>

EndOfCycle ==
    /\ phase \in {"memory", "memory_restart"}
    /\ pc[Health] = "none"
    /\ Skip("sleep") /\ UNCHANGED circuit

\* restart_window elapses.
WindowOver ==
    /\ window = "open"
    /\ window' = "over"
    /\ UNCHANGED <<mgrVars, phase, snap, pinged, answer, failures, circuit, restarts, attempts>>

\* notify_waiters() reaches a health loop that waits; stop_all() begins.
Shutdown(t) ==
    /\ StopAll(t)
    /\ Enter(IF phase = "sleep" THEN "gone" ELSE phase)
    /\ UNCHANGED <<snap, pinged, answer, failures, circuit, restarts, window, attempts>>

-----------------------------------------------------------------------------

HealthStep ==
    \/ Tick \/ SendPing \/ ApplyPing \/ PassOver \/ CircuitOpen \/ SendProbe \/ ApplyProbe
    \/ \E p \in {"handle", "pending"} :
          GiveUp(p) \/ BackOff(p) \/ PrerequisiteFails(p) \/ Attempt(p)
    \/ Attempted \/ Pending \/ OverLimit \/ MemoryRestart \/ EndOfCycle

Client(t) ==
    /\ "midcycle" \in Options \/ phase = "sleep"
    /\ \/ Request(t) /\ UNCHANGED healthVars
       \/ Shutdown(t)

\* The process exits when stop_all() has returned.
Exited == asked = "stop_all"

Next ==
    /\ ~Exited
    /\ \/ HealthStep
       \/ RestartTimesOut
       \/ WindowOver
       \/ \E t \in Tasks \ {Health} : Client(t)
       \/ \E t \in Tasks : OpStep(t) /\ UNCHANGED healthVars
       \/ \E i \in Instances : World(i) /\ UNCHANGED healthVars

Spec == Init /\ [][Next]_vars

\* What an operation does without help: a child that neither answers nor exits
\* keeps a handshake waiting.
Progress(t) ==
    /\ ~Exited
    /\ \/ CleanUp(t) \/ Snapshot(t) \/ Clear(t)
       \/ SpawnProcess(t) \/ Connected(t) \/ Register(t) \/ Publish(t) \/ Prewarmed(t) \/ SpawnReaper(t)
       \/ ConnectFails(t) /\ ~Alive(hand[t])
    /\ UNCHANGED healthVars

Housekeeping(i) == ~Exited /\ (Reap(i) \/ ReaperLeaves(i) \/ DropInstance(i)) /\ UNCHANGED healthVars

\* Timers elapse, tasks run, backoffs and recovery windows end; nothing makes a
\* process crash, hang or recover, and nothing makes a client ask.
Fairness ==
    /\ WF_vars(~Exited /\ HealthStep)
    /\ SF_vars(~Exited /\ \E p \in {"handle", "pending"} : Attempt(p))
    /\ SF_vars(~Exited /\ CircuitOpen /\ phase' = "probe")
    /\ WF_vars(~Exited /\ RestartTimesOut)
    /\ WF_vars(~Exited /\ WindowOver)
    /\ \A t \in Tasks : WF_vars(Progress(t))
    /\ \A i \in Instances : WF_vars(Housekeeping(i))

FairSpec == Spec /\ Fairness

-----------------------------------------------------------------------------
(* Properties *)

\* A child that its reaper still watches, when no operation is under way, is
\* the one in the map or is being stopped: no start leaves an earlier child
\* running behind it.
NoOrphan == Idle => \A i \in reapers : Alive(i) /\ state[i] # "stopped" => i = backends

\* A child in the map that runs is watched by a reaper, when no operation is
\* under way.
Watched == Idle /\ backends # None /\ Alive(backends) => backends \in reapers

\* The pool of a dedicated backend exists exactly as long as the backend is in
\* the map, when no operation is under way: calls never go to the primary
\* instance afterwards, and no pool outlives its backend.
PoolFollows == Idle => pool = (Dedicated /\ backends # None)

\* When remove_backend() has returned, the backend is gone until it is added
\* again: no restart brings it back.
RemovedStaysRemoved == asked = "remove" => ~configured /\ backends = None /\ ~listed

\* The tools of a healthy backend are registered, when no operation is under way.
ToolsListed ==
    Idle /\ backends # None /\ state[backends] = "healthy" => listed

\* The restarts and starts that the loop begins within one restart window are at
\* most max_restarts.
AttemptsBounded == attempts <= MaxRestarts

\* The loop never takes down a healthy instance for a restart that its status
\* called for.
HealthyNotRestarted ==
    [][phase = "restarting" /\ Detach(Health) /\ backends # None
          => state[backends] # "healthy"]_vars

\* An instance in the map is Unhealthy only while the circuit is open.
UnhealthyIsOpen == backends # None /\ state[backends] = "unhealthy" => circuit

\* When stop_all() returns, nothing is in the maps, and no child that a reaper
\* watches is left running.
ShutdownComplete ==
    Exited => backends = None /\ ~pool /\ \A i \in reapers : ~Alive(i)

\* Whatever operation ends, however the child and the loop interfere with it: it
\* leaves nothing behind that nobody knows of, and nothing out that belongs in.
NothingLeftBehind ==
    HealthTypeOK /\ NoOrphan /\ Watched /\ PoolFollows /\ RemovedStaysRemoved /\ ToolsListed /\ ShutdownComplete

\* A configured backend that is not in the map, or whose child has exited, and
\* that nobody works on, is worked on in the end.
Neglected ==
    /\ configured /\ ~Exited
    /\ Idle
    /\ backends = None \/ ~Alive(backends)
    /\ phase # "gone"
NeglectEnds == Neglected ~> ~Neglected

\* max_restarts holds for a window: a backend that has used its restarts up may
\* be restarted again.
LimitIsPerWindow == ~ShouldRestart ~> ShouldRestart \/ Exited

\* Every cycle of the loop ends.
CyclesEnd == phase # "sleep" ~> phase \in {"sleep", "gone"} \/ Exited

=============================================================================
