------------------------------- MODULE CallTool -------------------------------
(***************************************************************************)
(* Tool calls through the backend manager (src/src/backend/mod.rs):        *)
(* call_tool_with_fallback, call_tool with its guard, rate limiter,        *)
(* semaphore, retries and dispatch, while the health checker replaces a    *)
(* backend component by component and stop_all drains and stops them all.  *)
(*                                                                         *)
(* Every look into one of the manager's maps is a step; the maps change    *)
(* between the steps of a call.  The i-th start of a backend makes its     *)
(* instance i, semaphore i and rate limiter i.  A published instance is    *)
(* never Starting (its start has returned), so the retry branch of that    *)
(* state is the one of an absent backend.                                  *)
(***************************************************************************)
EXTENDS Naturals, Sequences, FiniteSets

CONSTANTS Calls,
          Primary,        \* the backend that is called
          Fallbacks,      \* its fallback_chain
          Dedicated,      \* backends with a pool of instances
          Rated,          \* backends with a rate limit
          MaxCalls,       \* max_concurrent_calls
          Rate,           \* rate_limit.max_calls
          MaxRetries,     \* retry.max_retries
          MaxStarts,      \* bound: starts of one backend
          Scenarios       \* what may happen beside the calls, one set per behaviour

Backends == {Primary} \cup {Fallbacks[k] : k \in DOMAIN Fallbacks}
Instances == 1..MaxStarts

ASSUME CallAssumption ==
    /\ MaxCalls \in Nat \ {0} /\ Rate \in Nat \ {0}
    /\ MaxRetries \in Nat /\ MaxStarts \in Nat \ {0}
    /\ Dedicated \subseteq Backends /\ Rated \subseteq Backends
    /\ Scenarios \subseteq SUBSET {"cancel", "falter", "replace", "shutdown"}
    /\ IsFiniteSet(Calls) /\ Fallbacks \in Seq(Backends)

VARIABLES
    may,         \* the scenario of this behaviour
    published,   \* the instance in `backends`, 0 when there is none
    pool,        \* the instances' pool in `dedicated_pools`, 0 when there is none
    limit,       \* the semaphore in `call_semaphores`, 0 when there is none
    bucket,      \* the limiter in `rate_limiters`, 0 when there is none
    made,        \* starts so far
    op,          \* the component the health checker replaces next
    state,       \* BackendState of every instance
    free,        \* permits of every semaphore
    tokens,      \* permits of every limiter
    missing,     \* what the replenishment task is about to add
    spent,       \* calls a limiter let through since it was filled
    call,        \* every call: where it is and what it holds
    inFlight,    \* in_flight_calls
    stopper      \* stop_all

mapVars == <<published, pool, limit, bucket, made, op, state>>
rateVars == <<tokens, missing, spent>>
callVars == <<mapVars, rateVars, free, call, inFlight, stopper, may>>

Labels == {"idle", "pool", "rate", "semaphore", "permit", "look", "execute", "chain", "done"}
Outcomes == {"ok", "transient", "permanent"}
Idle == [pc |-> "idle", at |-> Primary, rest |-> <<>>, tries |-> 0, gate |-> 0,
         permit |-> FALSE, on |-> 0, pooled |-> FALSE, ran |-> <<>>]

Inside(c) == call[c].pc \in {"pool", "rate", "semaphore", "permit", "look", "execute"}
Executing(c, b) == call[c].pc = "execute" /\ call[c].at = b

CallTypeOK ==
    /\ \A m \in {published, pool, limit, bucket, made} : m \in [Backends -> 0..MaxStarts]
    /\ op \in [Backends -> {"none", "stop", "unlimit", "start", "pool", "limit", "rate"}]
    /\ state \in [Backends \X Instances -> {"none", "healthy", "unhealthy", "stopped"}]
    /\ free \in [Backends \X Instances -> 0..MaxCalls]
    /\ tokens \in [Backends \X Instances -> 0..Rate]
    /\ missing \in [Backends \X Instances -> 0..Rate]
    /\ \A c \in Calls : call[c].pc \in Labels /\ call[c].at \in Backends
    /\ stopper.pc \in {"run", "copied", "cleared", "drain", "stop", "pools", "done"}

CallInit ==
    /\ published = [b \in Backends |-> 1]
    /\ pool = [b \in Backends |-> IF b \in Dedicated THEN 1 ELSE 0]
    /\ limit = [b \in Backends |-> 1]
    /\ bucket = [b \in Backends |-> IF b \in Rated THEN 1 ELSE 0]
    /\ made = [b \in Backends |-> 1]
    /\ op = [b \in Backends |-> "none"]
    /\ state = [x \in Backends \X Instances |-> IF x[2] = 1 THEN "healthy" ELSE "none"]
    /\ free = [x \in Backends \X Instances |-> MaxCalls]
    /\ tokens = [x \in Backends \X Instances |-> Rate]
    /\ missing = [x \in Backends \X Instances |-> 0]
    /\ spent = [x \in Backends \X Instances |-> 0]
    /\ call = [c \in Calls |-> Idle]
    /\ inFlight = 0
    /\ stopper = [pc |-> "run", copied |-> {}, stopped |-> {}, forced |-> FALSE]
    /\ may \in Scenarios

-----------------------------------------------------------------------------
(* call_tool.                                                              *)

\* The guard counts the call before it looks at anything.
Enter(c, b, rest) ==
    /\ inFlight' = inFlight + 1
    /\ call' = [call EXCEPT ![c] = [@ EXCEPT !.pc = "pool", !.at = b, !.rest = rest]]

Goto(c, label) == call' = [call EXCEPT ![c].pc = label]

\* Mutant: every error does.
FollowsAny(c, outcome) == outcome # "ok" /\ Fallbacks # <<>>

\* A call returns: permit and guard are dropped.  A transient error of the first
\* attempt (the chain is whole) leads to the fallbacks; any error of one to the next.
Follows(c, outcome) ==
    outcome # "ok" /\ (call[c].rest = Fallbacks => outcome = "transient" /\ Fallbacks # <<>>)

\* Mutant: the permit goes to the semaphore that is in the map now.
LeaveToCurrent(c, label, rest, ran) ==
    /\ inFlight' = inFlight - 1
    /\ free' = IF call[c].permit /\ limit[call[c].at] # 0
               THEN [free EXCEPT ![<<call[c].at, limit[call[c].at]>>] = @ + 1] ELSE free
    /\ call' = [call EXCEPT ![c] = [Idle EXCEPT !.pc = label, !.rest = rest, !.ran = ran]]

Leave(c, label, rest, ran) ==
    /\ inFlight' = inFlight - 1
    /\ free' = IF call[c].permit THEN [free EXCEPT ![<<call[c].at, call[c].gate>>] = @ + 1] ELSE free
    /\ call' = [call EXCEPT ![c] = [Idle EXCEPT !.pc = label, !.rest = rest, !.ran = ran]]

Return(c, outcome, ran) ==
    IF Follows(c, outcome) THEN Leave(c, "chain", call[c].rest, ran) ELSE Leave(c, "done", <<>>, ran)

Fail(c, outcome) == Return(c, outcome, call[c].ran)

Begin(c) ==
    /\ call[c].pc = "idle"
    /\ Enter(c, Primary, Fallbacks)
    /\ UNCHANGED <<mapVars, rateVars, free, stopper>>

\* Dedicated backends: an instance of the session's own, or an error.
LookUpPool(c) ==
    /\ call[c].pc = "pool"
    /\ \/ /\ pool[call[c].at] = 0
          /\ Goto(c, "rate")
          /\ UNCHANGED <<inFlight, free>>
       \/ /\ pool[call[c].at] # 0
          /\ call' = [call EXCEPT ![c] = [@ EXCEPT !.pc = "execute", !.on = pool[call[c].at], !.pooled = TRUE]]
          /\ UNCHANGED <<inFlight, free>>
       \/ /\ pool[call[c].at] # 0
          /\ \E outcome \in {"transient", "permanent"} : Fail(c, outcome)
    /\ UNCHANGED <<mapVars, rateVars, stopper>>

\* A token is consumed for good; without one the call fails.
TakeToken(c) ==
    /\ call[c].pc = "rate"
    /\ LET x == <<call[c].at, bucket[call[c].at]>> IN
       \/ /\ x[2] = 0
          /\ Goto(c, "semaphore")
          /\ UNCHANGED <<rateVars, inFlight, free>>
       \/ /\ x[2] # 0 /\ tokens[x] > 0
          /\ tokens' = [tokens EXCEPT ![x] = @ - 1]
          /\ spent' = [spent EXCEPT ![x] = @ + 1]
          /\ Goto(c, "semaphore")
          /\ UNCHANGED <<missing, inFlight, free>>
       \/ /\ x[2] # 0 /\ tokens[x] = 0
          /\ Fail(c, "transient")
          /\ UNCHANGED rateVars
    /\ UNCHANGED <<mapVars, stopper>>

\* The semaphore is cloned; the map may forget it while the call waits.
GetSemaphore(c) ==
    /\ call[c].pc = "semaphore"
    /\ call' = [call EXCEPT ![c] = [@ EXCEPT !.gate = limit[call[c].at],
                                              !.pc = IF limit[call[c].at] = 0 THEN "look" ELSE "permit"]]
    /\ UNCHANGED <<mapVars, rateVars, free, inFlight, stopper>>

AcquirePermit(c) ==
    /\ call[c].pc = "permit"
    /\ free[<<call[c].at, call[c].gate>>] > 0
    /\ free' = [free EXCEPT ![<<call[c].at, call[c].gate>>] = @ - 1]
    /\ call' = [call EXCEPT ![c] = [@ EXCEPT !.pc = "look", !.permit = TRUE]]
    /\ UNCHANGED <<mapVars, rateVars, inFlight, stopper>>

\* Mutant: the call goes on without a permit.
PermitTimesOutGoesOn(c) ==
    /\ call[c].pc = "permit"
    /\ Goto(c, "look")
    /\ UNCHANGED <<mapVars, rateVars, free, inFlight, stopper>>

\* The timer may win against a permit that has just become free.
PermitTimesOut(c) ==
    /\ call[c].pc = "permit"
    /\ Fail(c, "transient")
    /\ UNCHANGED <<mapVars, rateVars, stopper>>

\* Mutant: an absent backend is waited for without an end.
LookUpForever(c) ==
    /\ call[c].pc = "look"
    /\ LET b == call[c].at
           i == published[b] IN
       \/ /\ i # 0 /\ state[<<b, i>>] = "healthy"
          /\ call' = [call EXCEPT ![c] = [@ EXCEPT !.pc = "execute", !.on = i]]
          /\ UNCHANGED <<inFlight, free>>
       \/ /\ i = 0
          /\ call' = [call EXCEPT ![c].tries = 1 - @]
          /\ UNCHANGED <<inFlight, free>>
       \/ /\ i # 0 /\ state[<<b, i>>] # "healthy"
          /\ Fail(c, "permanent")
    /\ UNCHANGED <<mapVars, rateVars, stopper>>

\* Healthy: dispatch.  Unhealthy or Stopped: fail.  Absent: sleep and look again,
\* max_retries times at most.
LookUp(c) ==
    /\ call[c].pc = "look"
    /\ LET b == call[c].at
           i == published[b] IN
       \/ /\ call[c].tries < MaxRetries /\ i # 0 /\ state[<<b, i>>] = "healthy"
          /\ call' = [call EXCEPT ![c] = [@ EXCEPT !.pc = "execute", !.on = i]]
          /\ UNCHANGED <<inFlight, free>>
       \/ /\ call[c].tries < MaxRetries /\ i = 0
          /\ call' = [call EXCEPT ![c].tries = @ + 1]
          /\ UNCHANGED <<inFlight, free>>
       \/ /\ call[c].tries < MaxRetries => i # 0 /\ state[<<b, i>>] # "healthy"
          /\ Fail(c, "permanent")
    /\ UNCHANGED <<mapVars, rateVars, stopper>>

\* The backend answers, or the transport reports an error.
Answer(c) ==
    /\ call[c].pc = "execute"
    /\ \E outcome \in Outcomes :
         Return(c, outcome, Append(call[c].ran, [at |-> call[c].at, outcome |-> outcome]))
    /\ UNCHANGED <<mapVars, rateVars, stopper>>

\* The next backend of the chain that has an equivalent tool; a fallback's own chain
\* is not followed.
TryNext(c) ==
    /\ call[c].pc = "chain"
    /\ \/ /\ call[c].rest = <<>>
          /\ Goto(c, "done")
          /\ UNCHANGED inFlight
       \/ /\ call[c].rest # <<>>
          /\ Enter(c, Head(call[c].rest), Tail(call[c].rest))
       \/ /\ call[c].rest # <<>>
          /\ call' = [call EXCEPT ![c].rest = Tail(@)]
          /\ UNCHANGED inFlight
    /\ UNCHANGED <<mapVars, rateVars, free, stopper>>

\* The caller drops the call (a sandbox timeout, a client that is gone).
Cancel(c) ==
    /\ "cancel" \in may /\ Inside(c)
    /\ Leave(c, "done", <<>>, call[c].ran)
    /\ UNCHANGED <<mapVars, rateVars, stopper>>

-----------------------------------------------------------------------------
(* The replenishment task reads the bucket and then adds what was missing. *)

ReadLevel(b) ==
    LET x == <<b, bucket[b]>> IN
    /\ bucket[b] # 0 /\ missing[x] = 0 /\ tokens[x] < Rate
    /\ missing' = [missing EXCEPT ![x] = Rate - tokens[x]]
    /\ UNCHANGED <<mapVars, tokens, spent, free, call, inFlight, stopper>>

Replenish(x) ==
    /\ missing[x] > 0
    /\ tokens' = [tokens EXCEPT ![x] = @ + missing[x]]
    /\ missing' = [missing EXCEPT ![x] = 0]
    /\ spent' = [spent EXCEPT ![x] = 0]
    /\ UNCHANGED <<mapVars, free, call, inFlight, stopper>>

-----------------------------------------------------------------------------
(* The health checker and the reaper change states and replace a backend:   *)
(* cleanup_backend_components, then start_backend.                          *)

Falter(b) ==
    /\ "falter" \in may /\ published[b] # 0
    /\ \E s \in {"unhealthy", "stopped"} :
         /\ state[<<b, published[b]>>] = "healthy"
         /\ state' = [state EXCEPT ![<<b, published[b]>>] = s]
    /\ UNCHANGED <<published, pool, limit, bucket, made, op, rateVars, free, call, inFlight, stopper>>

Recover(b) ==
    /\ published[b] # 0 /\ state[<<b, published[b]>>] = "unhealthy"
    /\ state' = [state EXCEPT ![<<b, published[b]>>] = "healthy"]
    /\ UNCHANGED <<published, pool, limit, bucket, made, op, rateVars, free, call, inFlight, stopper>>

OpStep(b, from, to) == op[b] = from /\ op' = [op EXCEPT ![b] = to]
CallsAside == UNCHANGED <<rateVars, free, call, inFlight, stopper>>

\* The instance leaves the map and is stopped (bound: one backend is replaced) ...
Detach(b) ==
    /\ "replace" \in may /\ made[b] < MaxStarts
    /\ \A x \in Backends \ {b} : made[x] = 1 /\ op[x] = "none"
    /\ OpStep(b, "none", "stop")
    /\ published' = [published EXCEPT ![b] = 0]
    /\ state' = IF published[b] = 0 THEN state ELSE [state EXCEPT ![<<b, published[b]>>] = "stopped"]
    /\ UNCHANGED <<pool, limit, bucket, made>> /\ CallsAside

\* ... then the pool ...
DropPool(b) ==
    /\ OpStep(b, "stop", "unlimit")
    /\ pool' = [pool EXCEPT ![b] = 0]
    /\ UNCHANGED <<published, limit, bucket, made, state>> /\ CallsAside

\* ... then semaphore and limiter.
DropLimits(b) ==
    /\ OpStep(b, "unlimit", "start")
    /\ limit' = [limit EXCEPT ![b] = 0]
    /\ bucket' = [bucket EXCEPT ![b] = 0]
    /\ UNCHANGED <<published, pool, made, state>> /\ CallsAside

\* The new instance is published before its pool, semaphore and limiter.
Publish(b) ==
    /\ OpStep(b, "start", "pool")
    /\ made' = [made EXCEPT ![b] = @ + 1]
    /\ published' = [published EXCEPT ![b] = made[b] + 1]
    /\ state' = [state EXCEPT ![<<b, made[b] + 1>>] = "healthy"]
    /\ UNCHANGED <<pool, limit, bucket>> /\ CallsAside

StartFails(b) ==
    /\ OpStep(b, "start", "none")
    /\ UNCHANGED <<published, pool, limit, bucket, made, state>> /\ CallsAside

AddPool(b) ==
    /\ OpStep(b, "pool", "limit")
    /\ pool' = [pool EXCEPT ![b] = IF b \in Dedicated THEN made[b] ELSE 0]
    /\ UNCHANGED <<published, limit, bucket, made, state>> /\ CallsAside

AddSemaphore(b) ==
    /\ OpStep(b, "limit", "rate")
    /\ limit' = [limit EXCEPT ![b] = made[b]]
    /\ UNCHANGED <<published, pool, bucket, made, state>> /\ CallsAside

AddLimiter(b) ==
    /\ OpStep(b, "rate", "none")
    /\ bucket' = [bucket EXCEPT ![b] = IF b \in Rated THEN made[b] ELSE 0]
    /\ UNCHANGED <<published, pool, limit, made, state>> /\ CallsAside

-----------------------------------------------------------------------------
(* stop_all.                                                               *)

StopStep(from, to) == stopper.pc = from /\ stopper' = [stopper EXCEPT !.pc = to]
RestAside == UNCHANGED <<made, op, rateVars, free, call, inFlight>>

CopyBackends ==
    /\ "shutdown" \in may /\ stopper.pc = "run"
    /\ stopper' = [stopper EXCEPT !.pc = "copied",
                                  !.copied = {<<b, published[b]>> : b \in {x \in Backends : published[x] # 0}}]
    /\ UNCHANGED mapVars /\ RestAside

\* Mutant: the map is left as it is.
ClearBackendsNot ==
    /\ StopStep("copied", "cleared")
    /\ UNCHANGED mapVars /\ RestAside

ClearBackends ==
    /\ StopStep("copied", "cleared")
    /\ published' = [b \in Backends |-> 0]
    /\ UNCHANGED <<pool, limit, bucket, state>> /\ RestAside

ClearLimits ==
    /\ StopStep("cleared", "drain")
    /\ limit' = [b \in Backends |-> 0]
    /\ bucket' = [b \in Backends |-> 0]
    /\ UNCHANGED <<published, pool, state>> /\ RestAside

Drained ==
    /\ inFlight = 0
    /\ StopStep("drain", "stop")
    /\ UNCHANGED mapVars /\ RestAside

DrainTimesOut ==
    /\ stopper.pc = "drain" /\ inFlight > 0
    /\ stopper' = [stopper EXCEPT !.pc = "stop", !.forced = TRUE]
    /\ UNCHANGED mapVars /\ RestAside

StopCopied(x) ==
    /\ stopper.pc = "stop" /\ x \in stopper.copied
    /\ stopper' = [stopper EXCEPT !.copied = @ \ {x}, !.stopped = @ \cup {x}]
    /\ state' = [state EXCEPT ![x] = "stopped"]
    /\ UNCHANGED <<published, pool, limit, bucket>> /\ RestAside

AllStopped ==
    /\ stopper.copied = {}
    /\ StopStep("stop", "pools")
    /\ UNCHANGED mapVars /\ RestAside

StopPools ==
    /\ StopStep("pools", "done")
    /\ pool' = [b \in Backends |-> 0]
    /\ UNCHANGED <<published, limit, bucket, state>> /\ RestAside

-----------------------------------------------------------------------------

CallStep(c) ==
    \/ LookUpPool(c) \/ TakeToken(c) \/ GetSemaphore(c) \/ AcquirePermit(c)
    \/ PermitTimesOut(c) \/ LookUp(c) \/ Answer(c) \/ TryNext(c)

Replace(b) ==
    \/ DropPool(b) \/ DropLimits(b) \/ Publish(b) \/ StartFails(b)
    \/ AddPool(b) \/ AddSemaphore(b) \/ AddLimiter(b)

StopAll ==
    \/ ClearBackends \/ ClearLimits \/ Drained \/ DrainTimesOut
    \/ (\E x \in stopper.copied : StopCopied(x)) \/ AllStopped \/ StopPools

CallNext ==
    /\ \/ \E c \in Calls : Begin(c) \/ CallStep(c) \/ Cancel(c)
       \/ \E b \in Backends : ReadLevel(b) \/ Falter(b) \/ Recover(b) \/ Detach(b) \/ Replace(b)
       \/ \E x \in Backends \X Instances : Replenish(x)
       \/ CopyBackends \/ StopAll
    /\ UNCHANGED may

\* A call goes on (its waits and the transports have timeouts); nobody has to call,
\* cancel, restart or shut down.
CallFairness ==
    /\ \A c \in Calls : WF_callVars(CallStep(c) /\ UNCHANGED may)
    /\ WF_callVars(StopAll /\ UNCHANGED may)

CallSpec == CallInit /\ [][CallNext]_callVars /\ CallFairness

-----------------------------------------------------------------------------
(* Properties.                                                             *)

\* Whatever ends a call (an answer, a full backend, the timer, a cancellation), its
\* permit goes back to the semaphore it came from, even one the map has forgotten,
\* and the drain counts exactly the calls inside call_tool; a bucket is never filled
\* beyond its size, although the task reads and adds in two steps (438-441).
CallsAccounted ==
    /\ CallTypeOK
    /\ inFlight = Cardinality({c \in Calls : Inside(c)})
    /\ \A b \in Backends, i \in Instances :
         /\ free[<<b, i>>] + Cardinality({c \in Calls : call[c].at = b /\ call[c].gate = i /\ call[c].permit}) = MaxCalls
         /\ spent[<<b, i>>] <= Rate

\* A backend that was never replaced executes at most max_concurrent_calls calls,
\* also while stop_all clears semaphores under running and waiting calls: the
\* backends leave their map first (864-865).
LimitHolds ==
    \A b \in Backends :
        made[b] = 1 => Cardinality({c \in Calls : Executing(c, b) /\ ~call[c].pooled}) <= MaxCalls

\* The same for a backend that was replaced.  It does not hold (README).
ReplacedLimitHolds ==
    \A b \in Backends :
        Cardinality({c \in Calls : Executing(c, b) /\ ~call[c].pooled}) <= MaxCalls

\* stop_all stops no instance that executes a call, unless its drain timed out: a
\* call is counted before it looks for its instance (542), and the drain waits for
\* the count after the map was cleared (864, 881).
DrainedBeforeStop ==
    \A c \in Calls :
        call[c].pc = "execute" /\ ~call[c].pooled /\ <<call[c].at, call[c].on>> \in stopper.stopped
            => stopper.forced

\* A call is executed again only after an answer that is an error, the first time a
\* transient one, on the backends of the chain in their order, each at most once.
RepeatedOnlyAfterErrors ==
    \A c \in Calls :
        LET ran == call[c].ran
            order == <<Primary>> \o Fallbacks
            place(k) == CHOOSE j \in DOMAIN order : order[j] = ran[k].at IN
        \A k \in DOMAIN ran :
            /\ k < Len(ran) => ran[k].outcome # "ok" /\ place(k) < place(k + 1)
            /\ k < Len(ran) /\ ran[k].at = Primary => ran[k].outcome = "transient"

\* Every call ends, also when its backend is replaced or shut down under it, and
\* stop_all ends however long the calls take.
CallsEnd ==
    /\ \A c \in Calls : call[c].pc # "idle" ~> call[c].pc = "done"
    /\ stopper.pc = "copied" ~> stopper.pc = "done"

\* Once the drain is over no call is dispatched to a backend: "Clear the map first
\* so no new calls can be dispatched" (863).  It does not hold (README).
NoLateDispatch ==
    [][\A c \in Calls :
         call'[c].pc = "execute" /\ call[c].pc # "execute"
             => stopper.pc \notin {"stop", "pools"} \/ stopper.forced]_callVars

=============================================================================
