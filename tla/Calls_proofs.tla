---------------------------- MODULE Calls_proofs ----------------------------
(***************************************************************************)
(* Theorems about a call: its path (CallTool, Transport: the modules of    *)
(* the calls run) and what is shown of its result (Output).                *)
(***************************************************************************)
EXTENDS CallTool, Transport, Output, Induction, FiniteSetTheorems, SequenceTheorems, TLAPS

-----------------------------------------------------------------------------
(***************************************************************************)
(* Transport.  stop() is clean, for any number of tasks that use the       *)
(* instance.  The inductive invariant adds to StopIsClean what each part of *)
(* the instance is while start() and stop() are under way: a child nobody  *)
(* holds any more is a dead one, unless stop() has it in its hands.        *)
(***************************************************************************)

\* stop() goes to work only on an instance that start() has finished.
Phases ==
    /\ stopping # "no" => starting = "done"
    /\ kind # "http" => starting \notin {"token", "refresh"}
    /\ kind = "cli" => starting # "connect"

\* Only stdio has a child.  From the handshake on it is held, in the hands of stop(), or
\* dead: stop() or the reaper has taken it.
ChildFits ==
    /\ kind # "stdio" => child = "none" /\ process = "none"
    /\ kind = "stdio" /\ starting \in {"connect", "done"} => process # "none"
    /\ starting # "done" => child = "none"
    /\ stopping \in {"term", "wait", "done"} => child = "none"
    /\ stopping \in {"term", "wait"} => kind = "stdio"
    /\ kind = "stdio" /\ starting = "done" /\ child = "none" /\ stopping \in {"no", "lock", "take", "done"}
         => process = "dead"

\* A call that runs keeps the service; stop() has taken it before it takes the child.
ServiceFits ==
    /\ \A u \in Users : use[u] = "running" /\ kind # "cli" => service
    /\ stopping \in {"take", "term", "wait", "done"} => ~service

\* Only the commands of a cli have a process, from the moment the call begins.
CommandsFit ==
    /\ kind # "cli" => \A u \in Users : command[u] # "alive" /\ use[u] # "stdin"
    /\ kind = "cli" => ~service
    /\ \A u \in Users : command[u] = "alive" => use[u] \in {"stdin", "running", "cancelled"}

TransportInv == TransportTypeOK /\ Phases /\ ChildFits /\ ServiceFits /\ CommandsFit

LEMMA InitTransportInv == TransportInit => TransportInv
  BY TransportAssumption DEF TransportInit, TransportInv, TransportTypeOK, Phases, ChildFits,
     ServiceFits, CommandsFit

LEMMA StartKeepsInv == TransportInv /\ StartStep => TransportInv'
  <1> USE TransportAssumption DEF TransportInv, TransportTypeOK, Phases, ChildFits, ServiceFits, CommandsFit
  <1> SUFFICES ASSUME TransportInv, StartStep PROVE TransportInv'
    OBVIOUS
  <1>1. CASE EnsurePrerequisite
    BY <1>1 DEF EnsurePrerequisite
  <1>2. CASE StartStdio
    BY <1>2 DEF StartStdio
  <1>3. CASE StartHttp
    BY <1>3 DEF StartHttp
  <1>4. CASE RefreshToken
    BY <1>4 DEF RefreshToken
  <1>5. CASE Authenticate
    BY <1>5 DEF Authenticate
  <1>6. CASE Handshake
    <2>1. starting = "connect" /\ stopping = "no" /\ kind \in {"stdio", "http"}
      BY <1>6 DEF Handshake
    <2>2. CASE starting' = "failed"
      BY <1>6, <2>1, <2>2 DEF Handshake
    <2>3. CASE starting' = "done"
      <3>1. service' /\ process # "dead" /\ condition' = "healthy"
        BY <1>6, <2>3 DEF Handshake
      <3>2. child' = IF kind = "stdio" THEN "held" ELSE "none"
        BY <1>6, <2>3 DEF Handshake
      <3>3. UNCHANGED <<kind, stored, bearer, process, stopping, reaper, use, command, needs>>
        BY <1>6 DEF Handshake
      <3> QED BY <2>1, <2>3, <3>1, <3>2, <3>3
    <2> QED BY <1>6, <2>2, <2>3 DEF Handshake
  <1>7. CASE StartCli
    BY <1>7 DEF StartCli
  <1> QED
    BY <1>1, <1>2, <1>3, <1>4, <1>5, <1>6, <1>7 DEF StartStep

LEMMA UseKeepsInv ==
    ASSUME TransportInv, NEW u \in Users, UseStep(u) \/ BeginUse(u) \/ UseCancelled(u)
    PROVE  TransportInv'
  <1> USE TransportAssumption DEF TransportInv, TransportTypeOK, Phases, ChildFits, ServiceFits, CommandsFit
  <1>1. CASE BeginUse(u)
    BY <1>1 DEF BeginUse
  <1>2. CASE TakeService(u)
    BY <1>2 DEF TakeService
  <1>3. CASE WriteStdin(u)
    BY <1>3 DEF WriteStdin
  <1>4. CASE UseAnswered(u)
    BY <1>4 DEF UseAnswered
  <1>5. CASE UseTimesOut(u)
    BY <1>5 DEF UseTimesOut
  <1>6. CASE UseCancelled(u)
    BY <1>6 DEF UseCancelled
  <1> QED
    BY <1>1, <1>2, <1>3, <1>4, <1>5, <1>6 DEF UseStep, UseEnds

LEMMA HaltKeepsInv == TransportInv /\ (HaltStep \/ BeginHalt \/ HaltDropped) => TransportInv'
  <1> USE TransportAssumption DEF TransportInv, TransportTypeOK, Phases, ChildFits, ServiceFits, CommandsFit
  <1> SUFFICES ASSUME TransportInv, HaltStep \/ BeginHalt \/ HaltDropped PROVE TransportInv'
    OBVIOUS
  <1>1. CASE BeginHalt
    BY <1>1 DEF BeginHalt
  <1>2. CASE CancelService
    <2>1. \A u \in Users : ~(use[u] = "running" /\ kind # "cli")
      BY <1>2 DEF CancelService, Readers
    <2>2. stopping = "lock" /\ stopping' = "take" /\ service' = FALSE
      BY <1>2 DEF CancelService
    <2>3. UNCHANGED <<kind, stored, bearer, condition, child, process, starting, reaper, use, command, needs>>
      BY <1>2 DEF CancelService
    <2>4. TransportTypeOK'
      <3>1. service' \in BOOLEAN
        BY <2>2
      <3>2. stopping' \in {"no", "lock", "take", "term", "wait", "done", "dropped"}
        BY <2>2
      <3> QED BY <2>3, <3>1, <3>2
    <2>5. Phases' /\ ChildFits'
      BY <2>2, <2>3
    <2>6. ServiceFits'
      BY <2>1, <2>2, <2>3
    <2>7. CommandsFit'
      BY <2>2, <2>3
    <2> QED BY <2>4, <2>5, <2>6, <2>7
  <1>3. CASE TakeChild
    BY <1>3 DEF TakeChild
  <1>4. CASE TermChild
    BY <1>4 DEF TermChild
  <1>5. CASE KillChild
    BY <1>5 DEF KillChild
  <1>6. CASE HaltDropped
    BY <1>6 DEF HaltDropped
  <1>7. CASE StopPrerequisite
    BY <1>7 DEF StopPrerequisite
  <1> QED
    BY <1>1, <1>2, <1>3, <1>4, <1>5, <1>6, <1>7 DEF HaltStep

LEMMA ChildKeepsInv == TransportInv /\ (ChildExits \/ ReaperStep) => TransportInv'
  <1> USE TransportAssumption DEF TransportInv, TransportTypeOK, Phases, ChildFits, ServiceFits, CommandsFit
  <1> SUFFICES ASSUME TransportInv, ChildExits \/ ReaperStep PROVE TransportInv'
    OBVIOUS
  <1>1. CASE ChildExits
    BY <1>1 DEF ChildExits
  <1>2. CASE Watch
    BY <1>2 DEF Watch
  <1>3. CASE MarkStopped
    BY <1>3 DEF MarkStopped
  <1> QED
    BY <1>1, <1>2, <1>3 DEF ReaperStep

\* stop() never takes the service from under a call, and after it there is no service, no
\* child, no call of the service and no living process (stdio.rs:339-401); a command
\* outlives only a call that was dropped (cli_adapter.rs).
THEOREM HaltIsClean == TransportSpec => []StopIsClean
  <1>1. TransportInv /\ [TransportNext]_transportVars => TransportInv'
    <2> SUFFICES ASSUME TransportInv, [TransportNext]_transportVars PROVE TransportInv'
      OBVIOUS
    <2>1. CASE TransportNext
      BY <2>1, StartKeepsInv, UseKeepsInv, HaltKeepsInv, ChildKeepsInv DEF TransportNext
    <2>2. CASE UNCHANGED transportVars
      BY <2>2 DEF transportVars, TransportInv, TransportTypeOK, Phases, ChildFits, ServiceFits, CommandsFit
    <2> QED BY <2>1, <2>2
  <1>2. TransportInv => StopIsClean
    <2> SUFFICES ASSUME TransportInv PROVE StopIsClean
      OBVIOUS
    <2>1. Readers # {} => service
      BY DEF TransportInv, ServiceFits, Readers
    <2>2. ASSUME stopping = "done", kind # "cli"
          PROVE  ~service /\ child = "none" /\ Readers = {} /\ process \in {"none", "dead"}
      <3>1. ~service /\ child = "none" /\ starting = "done"
        BY <2>2 DEF TransportInv, ServiceFits, ChildFits, Phases
      <3>2. kind \in {"stdio", "http"} => process \in {"none", "dead"}
        BY <2>2, <3>1 DEF TransportInv, ChildFits
      <3> QED BY <2>1, <2>2, <3>1, <3>2, TransportAssumption DEF TransportInv, TransportTypeOK
    <2>3. \A u \in Users : command[u] = "alive" => use[u] \in {"stdin", "running", "cancelled"}
      BY DEF TransportInv, CommandsFit
    <2> QED BY <2>1, <2>2, <2>3 DEF TransportInv, StopIsClean
  <1> QED
    BY <1>1, <1>2, InitTransportInv, PTL DEF TransportSpec

-----------------------------------------------------------------------------
(***************************************************************************)
(* CallTool.  Any finite set of calls, any chain, any limits and any       *)
(* scenarios.                                                              *)
(***************************************************************************)

InsideCalls == {c \in Calls : Inside(c)}
Holders == [x \in Backends \X Instances |->
               {c \in Calls : call[c].permit /\ call[c].at = x[1] /\ call[c].gate = x[2]}]

Runs == Seq([at : Backends, outcome : Outcomes])
CallRecord ==
    [pc : Labels, at : Backends, rest : Seq(Backends), tries : Nat, gate : 0..MaxStarts,
     permit : BOOLEAN, on : 0..MaxStarts, pooled : BOOLEAN, ran : Runs]

(***************************************************************************)
(* The maps.  A backend that is being replaced has starts left.            *)
(***************************************************************************)
MapsFit ==
    /\ published \in [Backends -> 0..MaxStarts]
    /\ pool \in [Backends -> 0..MaxStarts]
    /\ limit \in [Backends -> 0..MaxStarts]
    /\ bucket \in [Backends -> 0..MaxStarts]
    /\ made \in [Backends -> Instances]
    /\ op \in [Backends -> {"none", "stop", "unlimit", "start", "pool", "limit", "rate"}]
    /\ state \in [Backends \X Instances -> {"none", "healthy", "unhealthy", "stopped"}]
    /\ \A b \in Backends : op[b] \in {"stop", "unlimit", "start"} => made[b] < MaxStarts

(***************************************************************************)
(* The buckets.  What a limiter let through was in it when it was filled,  *)
(* and what the task is about to add has room in it.                       *)
(***************************************************************************)
BucketsFit ==
    /\ tokens \in [Backends \X Instances -> Nat]
    /\ missing \in [Backends \X Instances -> Nat]
    /\ spent \in [Backends \X Instances -> Nat]
    /\ \A x \in Backends \X Instances :
         tokens[x] + missing[x] <= Rate /\ spent[x] + tokens[x] <= Rate

(***************************************************************************)
(* The calls.  A permit is of the semaphore that the call keeps (`gate`),  *)
(* and is held only where the call looks for its backend and executes.     *)
(***************************************************************************)
Holding(c) ==
    /\ call[c].permit => call[c].gate \in Instances /\ call[c].pc \in {"look", "execute"}
    /\ call[c].pc = "permit" => call[c].gate \in Instances

Counted ==
    /\ inFlight = Cardinality(InsideCalls)
    /\ \A x \in Backends \X Instances : free[x] + Cardinality(Holders[x]) = MaxCalls

CallsFit ==
    /\ call \in [Calls -> CallRecord]
    /\ free \in [Backends \X Instances -> Nat]
    /\ \A c \in Calls : Holding(c)
    /\ Counted

StopperFits ==
    stopper \in [pc : {"run", "copied", "cleared", "drain", "stop", "pools", "done"},
                 copied : SUBSET (Backends \X Instances),
                 stopped : SUBSET (Backends \X Instances), forced : BOOLEAN]

CallInv == MapsFit /\ BucketsFit /\ CallsFit /\ StopperFits

LEMMA Limits == MaxStarts \in Nat \ {0} /\ MaxCalls \in Nat \ {0} /\ Rate \in Nat \ {0}
  BY CallAssumption

\* A step of a call, of the replenishment, of a replacement or of stop_all.
CallAct(c) == Begin(c) \/ CallStep(c) \/ Cancel(c)
Refill == (\E b \in Backends : ReadLevel(b)) \/ (\E x \in Backends \X Instances : Replenish(x))
Maintain(b) == Falter(b) \/ Recover(b) \/ Detach(b) \/ Replace(b)
Stop == CopyBackends \/ StopAll

\* Every action belongs to one of the four.
LEMMA FourKinds ==
    ASSUME [CallNext]_callVars
    PROVE  \/ \E c \in Calls : CallAct(c)
           \/ Refill
           \/ \E b \in Backends : Maintain(b)
           \/ Stop
           \/ UNCHANGED callVars
  BY Zenon DEF CallNext, CallAct, Refill, Maintain, Stop

\* Each leaves alone what the other three own.
LEMMA CallsLeaveMaps ==
    ASSUME NEW c \in Calls, CallAct(c)
    PROVE  UNCHANGED <<mapVars, stopper>>
  <1>1. CASE Begin(c) \/ Cancel(c)
    BY <1>1 DEF Begin, Cancel
  <1>2. CASE CallStep(c)
    BY <1>2 DEF CallStep, LookUpPool, TakeToken, GetSemaphore, AcquirePermit, PermitTimesOut,
                LookUp, Answer, TryNext
  <1> QED
    BY <1>1, <1>2 DEF CallAct

LEMMA RefillLeavesRest ==
    ASSUME Refill
    PROVE  UNCHANGED <<mapVars, free, call, inFlight, stopper>>
  BY DEF Refill, ReadLevel, Replenish

LEMMA MaintenanceLeavesCalls ==
    ASSUME NEW b \in Backends, Maintain(b)
    PROVE  UNCHANGED <<rateVars, free, call, inFlight, stopper>>
  <1>1. CASE Falter(b) \/ Recover(b) \/ Detach(b)
    BY <1>1 DEF Falter, Recover, Detach, CallsAside
  <1>2. CASE Replace(b)
    BY <1>2 DEF Replace, DropPool, DropLimits, Publish, StartFails, AddPool, AddSemaphore,
                AddLimiter, CallsAside
  <1> QED
    BY <1>1, <1>2 DEF Maintain

LEMMA StopLeavesCalls ==
    ASSUME Stop
    PROVE  UNCHANGED <<made, op, rateVars, free, call, inFlight>>
  <1>1. CASE CopyBackends \/ ClearBackends \/ ClearLimits \/ Drained \/ DrainTimesOut
    BY <1>1 DEF CopyBackends, ClearBackends, ClearLimits, Drained, DrainTimesOut, RestAside
  <1>2. CASE (\E x \in stopper.copied : StopCopied(x)) \/ AllStopped \/ StopPools
    BY <1>2 DEF StopCopied, AllStopped, StopPools, RestAside
  <1> QED
    BY <1>1, <1>2 DEF Stop, StopAll

-----------------------------------------------------------------------------
(* The maps and the stopper.                                               *)

LEMMA MaintenanceKeepsMaps ==
    ASSUME MapsFit, NEW b \in Backends, Maintain(b)
    PROVE  MapsFit'
  <1> USE Limits DEF MapsFit, Instances
  <1>1. CASE Falter(b)
    BY <1>1 DEF Falter
  <1>2. CASE Recover(b)
    BY <1>2 DEF Recover
  <1>3. CASE Detach(b)
    BY <1>3 DEF Detach, OpStep
  <1>4. CASE DropPool(b) \/ DropLimits(b) \/ StartFails(b)
    BY <1>4 DEF DropPool, DropLimits, StartFails, OpStep
  <1>5. CASE Publish(b)
    BY <1>5 DEF Publish, OpStep
  <1>6. CASE AddPool(b) \/ AddSemaphore(b) \/ AddLimiter(b)
    BY <1>6 DEF AddPool, AddSemaphore, AddLimiter, OpStep
  <1> QED
    BY <1>1, <1>2, <1>3, <1>4, <1>5, <1>6 DEF Maintain, Replace

LEMMA StopKeepsMaps ==
    ASSUME MapsFit, StopperFits, Stop
    PROVE  MapsFit' /\ StopperFits'
  <1> USE Limits DEF MapsFit, StopperFits, Instances
  <1>1. CASE CopyBackends
    <2> DEFINE copied == {<<b, published[b]>> : b \in {x \in Backends : published[x] # 0}}
    <2>1. copied \subseteq Backends \X Instances
      OBVIOUS
    <2>2. stopper' = [stopper EXCEPT !.pc = "copied", !.copied = copied]
      BY <1>1 DEF CopyBackends
    <2>3. UNCHANGED mapVars
      BY <1>1 DEF CopyBackends
    <2> HIDE DEF copied
    <2>4. StopperFits'
      BY <2>1, <2>2
    <2> QED BY <2>3, <2>4 DEF mapVars
  <1>2. CASE ClearBackends \/ ClearLimits
    BY <1>2 DEF ClearBackends, ClearLimits, StopStep, RestAside
  <1>3. CASE Drained \/ DrainTimesOut \/ AllStopped
    BY <1>3 DEF Drained, DrainTimesOut, AllStopped, StopStep, RestAside, mapVars
  <1>4. ASSUME NEW x \in stopper.copied, StopCopied(x)
        PROVE  MapsFit' /\ StopperFits'
    <2>1. x \in Backends \X Instances
      OBVIOUS
    <2>2. MapsFit'
      BY <1>4, <2>1 DEF StopCopied, RestAside
    <2>3. StopperFits'
      BY <1>4, <2>1 DEF StopCopied
    <2> QED BY <2>2, <2>3
  <1>5. CASE StopPools
    BY <1>5 DEF StopPools, StopStep, RestAside
  <1> QED
    BY <1>1, <1>2, <1>3, <1>4, <1>5 DEF Stop, StopAll

-----------------------------------------------------------------------------
(* The buckets.                                                            *)

LEMMA CallsKeepBuckets ==
    ASSUME MapsFit, BucketsFit, CallsFit, NEW c \in Calls, CallAct(c)
    PROVE  BucketsFit'
  <1>1. CASE TakeToken(c)
    <2>1. call[c].at \in Backends
      BY DEF CallsFit, CallRecord
    <2> DEFINE x == <<call[c].at, bucket[call[c].at]>>
    <2>2. x[2] # 0 => x \in Backends \X Instances
      BY <2>1, Limits DEF MapsFit, Instances
    <2>3. CASE UNCHANGED rateVars
      BY <2>3 DEF rateVars, BucketsFit
    <2>4. CASE /\ x[2] # 0 /\ tokens[x] > 0
               /\ tokens' = [tokens EXCEPT ![x] = @ - 1]
               /\ spent' = [spent EXCEPT ![x] = @ + 1]
               /\ UNCHANGED missing
      <3> HIDE DEF x
      <3> QED BY <2>2, <2>4, Limits DEF BucketsFit
    <2> QED
      BY <1>1, <2>3, <2>4 DEF TakeToken
  <1>2. CASE ~TakeToken(c)
    <2>1. UNCHANGED rateVars
      BY <1>2 DEF CallAct, Begin, Cancel, CallStep, LookUpPool, GetSemaphore, AcquirePermit,
                  PermitTimesOut, LookUp, Answer, TryNext
    <2> QED
      BY <2>1 DEF rateVars, BucketsFit
  <1> QED
    BY <1>1, <1>2

LEMMA RefillKeepsBuckets ==
    ASSUME MapsFit, BucketsFit, Refill
    PROVE  BucketsFit'
  <1>1. ASSUME NEW b \in Backends, ReadLevel(b)
        PROVE  BucketsFit'
    <2> DEFINE x == <<b, bucket[b]>>
    <2>1. x \in Backends \X Instances
      BY <1>1, Limits DEF ReadLevel, MapsFit, Instances
    <2>2. /\ missing' = [missing EXCEPT ![x] = Rate - tokens[x]]
          /\ tokens[x] < Rate
          /\ UNCHANGED <<tokens, spent>>
      BY <1>1 DEF ReadLevel
    <2> HIDE DEF x
    <2> QED BY <2>1, <2>2, Limits DEF BucketsFit
  <1>2. ASSUME NEW x \in Backends \X Instances, Replenish(x)
        PROVE  BucketsFit'
    BY <1>2, Limits DEF Replenish, BucketsFit
  <1> QED
    BY <1>1, <1>2 DEF Refill

-----------------------------------------------------------------------------
(* The calls.                                                              *)

InsideLabels == {"pool", "rate", "semaphore", "permit", "look", "execute"}

\* Two finite sets that differ in one element at most.
LEMMA OneElement ==
    ASSUME NEW S, NEW T, NEW c, IsFiniteSet(S), S \ {c} = T \ {c}
    PROVE  /\ Cardinality(S) \in Nat
           /\ (c \in S <=> c \in T) => Cardinality(T) = Cardinality(S)
           /\ c \notin S /\ c \in T => Cardinality(T) = Cardinality(S) + 1
           /\ c \in S /\ c \notin T => Cardinality(S) > 0 /\ Cardinality(T) = Cardinality(S) - 1
  <1>1. Cardinality(S) \in Nat
    BY FS_CardinalityType
  <1>2. CASE c \in S <=> c \in T
    <2>1. S = T
      BY <1>2
    <2> QED BY <1>1, <1>2, <2>1
  <1>3. CASE c \notin S /\ c \in T
    <2>1. T = S \cup {c}
      BY <1>3
    <2> QED BY <1>1, <1>3, <2>1, FS_AddElement
  <1>4. CASE c \in S /\ c \notin T
    <2>1. T = S \ {c}
      BY <1>4
    <2>2. Cardinality(S) # 0
      BY <1>4, FS_EmptySet
    <2> QED BY <1>1, <1>4, <2>1, <2>2, FS_RemoveElement
  <1> QED
    BY <1>2, <1>3, <1>4

\* When one call moves, only its own part in the counts can change.
LEMMA OneCallMoves ==
    ASSUME call \in [Calls -> CallRecord], NEW c \in Calls, NEW r \in CallRecord,
           call' = [call EXCEPT ![c] = r]
    PROVE  /\ call' \in [Calls -> CallRecord]
           /\ call'[c] = r
           /\ \A d \in Calls \ {c} : call'[d] = call[d] /\ (Holding(d) => Holding(d)')
           /\ InsideCalls \ {c} = InsideCalls' \ {c}
           /\ c \in InsideCalls <=> call[c].pc \in InsideLabels
           /\ c \in InsideCalls' <=> r.pc \in InsideLabels
           /\ IsFiniteSet(InsideCalls)
  <1>1. call'[c] = r /\ \A d \in Calls \ {c} : call'[d] = call[d]
    OBVIOUS
  <1>2. \A d \in Calls \ {c} : Holding(d) => Holding(d)'
    BY <1>1 DEF Holding
  <1>3. call' \in [Calls -> CallRecord]
    OBVIOUS
  <1> USE DEF InsideCalls, Inside, InsideLabels
  <1>4. InsideCalls \ {c} = InsideCalls' \ {c}
    BY <1>1
  <1>5. /\ c \in InsideCalls <=> call[c].pc \in InsideLabels
        /\ c \in InsideCalls' <=> r.pc \in InsideLabels
    BY <1>1
  <1>6. IsFiniteSet(InsideCalls)
    BY CallAssumption, FS_Subset
  <1> HIDE DEF InsideCalls, Inside, InsideLabels
  <1> QED
    BY <1>1, <1>2, <1>3, <1>4, <1>5, <1>6

LEMMA HoldersMove ==
    ASSUME call \in [Calls -> CallRecord], NEW c \in Calls, NEW r \in CallRecord,
           call' = [call EXCEPT ![c] = r], NEW x \in Backends \X Instances
    PROVE  /\ IsFiniteSet(Holders[x]) /\ Holders[x] \ {c} = Holders'[x] \ {c}
           /\ c \in Holders[x] <=> call[c].permit /\ call[c].at = x[1] /\ call[c].gate = x[2]
           /\ c \in Holders'[x] <=> r.permit /\ r.at = x[1] /\ r.gate = x[2]
  <1>1. call'[c] = r /\ \A d \in Calls \ {c} : call'[d] = call[d]
    OBVIOUS
  <1>2. Holders[x] \ {c} = Holders'[x] \ {c}
    BY <1>1 DEF Holders
  <1>3. /\ c \in Holders[x] <=> call[c].permit /\ call[c].at = x[1] /\ call[c].gate = x[2]
        /\ c \in Holders'[x] <=> r.permit /\ r.at = x[1] /\ r.gate = x[2]
    BY <1>1 DEF Holders
  <1>4. IsFiniteSet(Holders[x])
    BY CallAssumption, FS_Subset DEF Holders
  <1> QED
    BY <1>2, <1>3, <1>4

LEMMA IdleFits == Idle \in CallRecord /\ Idle.permit = FALSE
  <1>1. Primary \in Backends /\ 0 \in 0..MaxStarts
    BY Limits DEF Backends
  <1>2. <<>> \in Seq(Backends) /\ <<>> \in Runs
    BY DEF Runs
  <1> QED
    BY <1>1, <1>2 DEF Idle, CallRecord, Labels

\* A call that stays inside, or outside, and keeps what it holds.
LEMMA CallGoesOn ==
    ASSUME CallsFit, NEW c \in Calls, NEW r \in CallRecord,
           call' = [call EXCEPT ![c] = r], UNCHANGED <<inFlight, free>>,
           r.pc \in InsideLabels <=> call[c].pc \in InsideLabels,
           r.permit = call[c].permit,
           r.permit => r.at = call[c].at /\ r.gate = call[c].gate /\ r.pc \in {"look", "execute"},
           r.pc = "permit" => r.gate \in Instances
    PROVE  CallsFit'
  <1>1. call \in [Calls -> CallRecord]
    BY DEF CallsFit
  <1>2. Cardinality(InsideCalls') = Cardinality(InsideCalls)
    <2>1. /\ IsFiniteSet(InsideCalls) /\ InsideCalls \ {c} = InsideCalls' \ {c}
          /\ c \in InsideCalls <=> c \in InsideCalls'
      BY <1>1, OneCallMoves
    <2> QED BY <2>1, OneElement
  <1>3. ASSUME NEW x \in Backends \X Instances
        PROVE  Cardinality(Holders'[x]) = Cardinality(Holders[x])
    <2>1. /\ IsFiniteSet(Holders[x]) /\ Holders[x] \ {c} = Holders'[x] \ {c}
          /\ c \in Holders[x] <=> call[c].permit /\ call[c].at = x[1] /\ call[c].gate = x[2]
          /\ c \in Holders'[x] <=> r.permit /\ r.at = x[1] /\ r.gate = x[2]
      BY <1>1, HoldersMove
    <2>2. c \in Holders[x] <=> c \in Holders'[x]
      BY <2>1
    <2> QED BY <2>1, <2>2, OneElement
  <1>4. Holding(c)'
    BY <1>1, OneCallMoves DEF Holding, CallsFit
  <1>5. \A d \in Calls : Holding(d)'
    BY <1>1, <1>4, OneCallMoves DEF CallsFit
  <1>6. Counted'
    BY <1>2, <1>3 DEF Counted, CallsFit
  <1> QED
    BY <1>1, <1>5, <1>6, OneCallMoves DEF CallsFit

\* The guard counts a call that comes in.
LEMMA CallEnters ==
    ASSUME CallsFit, NEW c \in Calls, NEW r \in CallRecord,
           call' = [call EXCEPT ![c] = r], inFlight' = inFlight + 1, UNCHANGED free,
           call[c].pc \notin InsideLabels, r.pc = "pool", ~r.permit
    PROVE  CallsFit'
  <1>1. call \in [Calls -> CallRecord]
    BY DEF CallsFit
  <1>2. Cardinality(InsideCalls') = Cardinality(InsideCalls) + 1
    <2>1. /\ IsFiniteSet(InsideCalls) /\ InsideCalls \ {c} = InsideCalls' \ {c}
          /\ c \notin InsideCalls /\ c \in InsideCalls'
      BY <1>1, OneCallMoves DEF InsideLabels
    <2> QED BY <2>1, OneElement
  <1>3. ~call[c].permit
    BY DEF CallsFit, Holding, InsideLabels
  <1>4. ASSUME NEW x \in Backends \X Instances
        PROVE  Cardinality(Holders'[x]) = Cardinality(Holders[x])
    <2>1. /\ IsFiniteSet(Holders[x]) /\ Holders[x] \ {c} = Holders'[x] \ {c}
          /\ c \in Holders[x] <=> c \in Holders'[x]
      BY <1>1, <1>3, HoldersMove
    <2> QED BY <2>1, OneElement
  <1>5. \A d \in Calls : Holding(d)'
    BY <1>1, OneCallMoves DEF CallsFit, Holding
  <1>6. Counted'
    BY <1>2, <1>4 DEF Counted, CallsFit
  <1> QED
    BY <1>1, <1>5, <1>6, OneCallMoves DEF CallsFit

\* A call that takes a permit of the semaphore it waits for.
LEMMA CallAcquires ==
    ASSUME CallsFit, NEW c \in Calls, AcquirePermit(c)
    PROVE  CallsFit'
  <1> DEFINE r == [call[c] EXCEPT !.pc = "look", !.permit = TRUE]
  <1> DEFINE y == <<call[c].at, call[c].gate>>
  <1>1. call \in [Calls -> CallRecord] /\ call[c] \in CallRecord
    BY DEF CallsFit
  <1>2. r \in CallRecord /\ r.pc = "look" /\ r.permit /\ r.at = y[1] /\ r.gate = y[2]
    BY <1>1 DEF CallRecord, Labels
  <1>3. call[c].pc = "permit" /\ call' = [call EXCEPT ![c] = r] /\ UNCHANGED inFlight
    BY DEF AcquirePermit
  <1>4. y \in Backends \X Instances /\ call[c].permit = FALSE
    BY <1>1, <1>3 DEF CallsFit, Holding, CallRecord
  <1>5. free[y] > 0 /\ free' = [free EXCEPT ![y] = @ - 1]
    BY DEF AcquirePermit
  <1> HIDE DEF r, y
  <1>6. Cardinality(InsideCalls') = Cardinality(InsideCalls)
    <2>1. /\ IsFiniteSet(InsideCalls) /\ InsideCalls \ {c} = InsideCalls' \ {c}
          /\ c \in InsideCalls /\ c \in InsideCalls'
      BY <1>1, <1>2, <1>3, OneCallMoves DEF InsideLabels
    <2> QED BY <2>1, OneElement
  <1>7. ASSUME NEW x \in Backends \X Instances
        PROVE  free'[x] + Cardinality(Holders'[x]) = MaxCalls
    <2>1. /\ IsFiniteSet(Holders[x]) /\ Holders[x] \ {c} = Holders'[x] \ {c}
          /\ c \notin Holders[x]
          /\ c \in Holders'[x] <=> r.at = x[1] /\ r.gate = x[2]
      BY <1>1, <1>2, <1>3, <1>4, HoldersMove, ZenonT(60)
    <2>2. free[x] + Cardinality(Holders[x]) = MaxCalls
      BY DEF CallsFit, Counted
    <2>3. free[x] \in Nat /\ Cardinality(Holders[x]) \in Nat
      BY <2>1, FS_CardinalityType DEF CallsFit
    <2>4. CASE x = y
      <3>1. Cardinality(Holders'[x]) = Cardinality(Holders[x]) + 1
        BY <1>2, <2>1, <2>4, OneElement
      <3>2. free'[x] = free[x] - 1
        BY <1>4, <1>5, <2>4 DEF CallsFit
      <3> QED BY <2>2, <2>3, <3>1, <3>2, Limits
    <2>5. CASE x # y
      <3>1. c \notin Holders'[x]
        BY <1>2, <1>4, <2>1, <2>5
      <3>2. Cardinality(Holders'[x]) = Cardinality(Holders[x])
        BY <2>1, <3>1, OneElement
      <3>3. free'[x] = free[x]
        BY <1>5, <2>5 DEF CallsFit
      <3> QED BY <2>2, <3>2, <3>3
    <2> QED BY <2>4, <2>5
  <1>8. \A d \in Calls : Holding(d)'
    BY <1>1, <1>2, <1>3, <1>4, OneCallMoves DEF CallsFit, Holding
  <1>9. free' \in [Backends \X Instances -> Nat]
    BY <1>4, <1>5 DEF CallsFit
  <1>10. Counted'
    BY <1>3, <1>6, <1>7 DEF CallsFit, Counted
  <1> QED
    BY <1>1, <1>2, <1>3, <1>8, <1>9, <1>10, OneCallMoves DEF CallsFit

\* A call that ends gives its permit back to the semaphore it came from.
LEMMA CallLeaves ==
    ASSUME CallsFit, NEW c \in Calls, call[c].pc \in InsideLabels, NEW label \in {"chain", "done"},
           NEW rest \in Seq(Backends), NEW ran \in Runs, Leave(c, label, rest, ran)
    PROVE  CallsFit'
  <1> DEFINE r == [Idle EXCEPT !.pc = label, !.rest = rest, !.ran = ran]
  <1> DEFINE y == <<call[c].at, call[c].gate>>
  <1>1. call \in [Calls -> CallRecord] /\ call[c] \in CallRecord
    BY DEF CallsFit
  <1>2. r \in CallRecord /\ r.pc = label /\ r.permit = FALSE
    <2>1. Idle \in CallRecord /\ Idle.permit = FALSE
      BY IdleFits
    <2>2. label \in Labels
      BY DEF Labels
    <2> QED BY <2>1, <2>2 DEF CallRecord
  <1>3. call' = [call EXCEPT ![c] = r] /\ inFlight' = inFlight - 1
    BY DEF Leave
  <1>4. call[c].permit => y \in Backends \X Instances
    BY <1>1 DEF CallsFit, Holding, CallRecord
  <1>5. free' = IF call[c].permit THEN [free EXCEPT ![y] = @ + 1] ELSE free
    BY DEF Leave
  <1>6. y[1] = call[c].at /\ y[2] = call[c].gate
    OBVIOUS
  <1> HIDE DEF r, y
  <1>7. Cardinality(InsideCalls') = Cardinality(InsideCalls) - 1
    <2>1. /\ IsFiniteSet(InsideCalls) /\ InsideCalls \ {c} = InsideCalls' \ {c}
          /\ c \in InsideCalls /\ c \notin InsideCalls'
      BY <1>1, <1>2, <1>3, OneCallMoves DEF InsideLabels
    <2> QED BY <2>1, OneElement
  <1>8. ASSUME NEW x \in Backends \X Instances
        PROVE  /\ free'[x] + Cardinality(Holders'[x]) = MaxCalls
               /\ free'[x] \in Nat
    <2>1. /\ IsFiniteSet(Holders[x]) /\ Holders[x] \ {c} = Holders'[x] \ {c}
          /\ c \in Holders[x] <=> call[c].permit /\ call[c].at = x[1] /\ call[c].gate = x[2]
          /\ c \notin Holders'[x]
      BY <1>1, <1>2, <1>3, HoldersMove
    <2>2. free[x] + Cardinality(Holders[x]) = MaxCalls
      BY DEF CallsFit, Counted
    <2>3. free[x] \in Nat /\ Cardinality(Holders[x]) \in Nat
      BY <2>1, FS_CardinalityType DEF CallsFit
    <2>4. CASE call[c].permit /\ x = y
      <3>1. Cardinality(Holders'[x]) = Cardinality(Holders[x]) - 1
        BY <1>6, <2>1, <2>4, OneElement
      <3>2. free'[x] = free[x] + 1
        BY <1>4, <1>5, <2>4 DEF CallsFit
      <3> QED BY <2>2, <2>3, <3>1, <3>2, Limits
    <2>5. CASE ~(call[c].permit /\ x = y)
      <3>1. c \notin Holders[x]
        BY <1>4, <1>6, <2>1, <2>5
      <3>2. Cardinality(Holders'[x]) = Cardinality(Holders[x])
        BY <2>1, <3>1, OneElement
      <3>3. free'[x] = free[x]
        BY <1>5, <2>5 DEF CallsFit
      <3> QED BY <2>2, <2>3, <3>2, <3>3
    <2> QED BY <2>4, <2>5
  <1>9. \A d \in Calls : Holding(d)'
    BY <1>1, <1>2, <1>3, OneCallMoves DEF CallsFit, Holding
  <1>10. free' \in [Backends \X Instances -> Nat]
    <2>1. DOMAIN free' = Backends \X Instances /\ free' = [x \in Backends \X Instances |-> free'[x]]
      BY <1>4, <1>5 DEF CallsFit
    <2> QED BY <1>8, <2>1
  <1>11. Counted'
    BY <1>3, <1>7, <1>8 DEF CallsFit, Counted
  <1> QED
    BY <1>1, <1>2, <1>3, <1>9, <1>10, <1>11, OneCallMoves DEF CallsFit

LEMMA CallReturns ==
    ASSUME CallsFit, NEW c \in Calls, call[c].pc \in InsideLabels, NEW outcome,
           NEW ran \in Runs, Return(c, outcome, ran)
    PROVE  CallsFit'
  <1>1. call[c].rest \in Seq(Backends) /\ <<>> \in Seq(Backends)
    BY DEF CallsFit, CallRecord
  <1> QED
    BY <1>1, CallLeaves DEF Return

LEMMA CallFails ==
    ASSUME CallsFit, NEW c \in Calls, call[c].pc \in InsideLabels, NEW outcome, Fail(c, outcome)
    PROVE  CallsFit'
  <1>1. call[c].ran \in Runs
    BY DEF CallsFit, CallRecord
  <1> QED
    BY <1>1, CallReturns DEF Fail

\* Every step of a call, whatever the maps say at that moment.
LEMMA CallsKeepCalls ==
    ASSUME MapsFit, CallsFit, NEW c \in Calls, CallAct(c)
    PROVE  CallsFit'
  <1>1. call[c] \in CallRecord /\ call[c].at \in Backends /\ Holding(c)
    BY DEF CallsFit, CallRecord
  <1>2. CASE Begin(c)
    <2> DEFINE r == [call[c] EXCEPT !.pc = "pool", !.at = Primary, !.rest = Fallbacks]
    <2>1. r \in CallRecord /\ r.pc = "pool" /\ r.permit = call[c].permit
      BY <1>1, CallAssumption DEF CallRecord, Labels, Backends
    <2>2. /\ call' = [call EXCEPT ![c] = r] /\ inFlight' = inFlight + 1 /\ UNCHANGED free
          /\ call[c].pc = "idle"
      BY <1>2 DEF Begin, Enter
    <2>3. ~r.permit
      BY <1>1, <2>1, <2>2 DEF Holding
    <2> HIDE DEF r
    <2> QED BY <2>1, <2>2, <2>3, CallEnters DEF InsideLabels
  <1>3. CASE LookUpPool(c)
    <2>1. CASE \E outcome \in {"transient", "permanent"} : Fail(c, outcome)
      BY <1>3, <2>1, CallFails DEF LookUpPool, InsideLabels
    <2>2. CASE Goto(c, "rate") /\ UNCHANGED <<inFlight, free>>
      <3> DEFINE r == [call[c] EXCEPT !.pc = "rate"]
      <3>1. r \in CallRecord /\ r.pc = "rate" /\ r.permit = call[c].permit /\ ~call[c].permit
        BY <1>1, <1>3 DEF CallRecord, Labels, Holding, LookUpPool
      <3>2. call' = [call EXCEPT ![c] = r] /\ call[c].pc = "pool"
        BY <1>3, <2>2 DEF Goto, LookUpPool
      <3> HIDE DEF r
      <3> QED BY <2>2, <3>1, <3>2, CallGoesOn DEF InsideLabels
    <2>3. CASE /\ call' = [call EXCEPT ![c] = [@ EXCEPT !.pc = "execute", !.on = pool[call[c].at], !.pooled = TRUE]]
               /\ UNCHANGED <<inFlight, free>>
      <3> DEFINE r == [call[c] EXCEPT !.pc = "execute", !.on = pool[call[c].at], !.pooled = TRUE]
      <3>1. r \in CallRecord /\ r.pc = "execute" /\ r.permit = call[c].permit /\ ~call[c].permit
        BY <1>1, <1>3 DEF CallRecord, Labels, Holding, LookUpPool, MapsFit
      <3>2. call' = [call EXCEPT ![c] = r] /\ call[c].pc = "pool"
        BY <1>3, <2>3 DEF LookUpPool
      <3> HIDE DEF r
      <3> QED BY <2>3, <3>1, <3>2, CallGoesOn DEF InsideLabels
    <2> QED BY <1>3, <2>1, <2>2, <2>3 DEF LookUpPool
  <1>4. CASE TakeToken(c)
    <2>1. CASE Fail(c, "transient")
      BY <1>4, <2>1, CallFails DEF TakeToken, InsideLabels
    <2>2. CASE Goto(c, "semaphore") /\ UNCHANGED <<inFlight, free>>
      <3> DEFINE r == [call[c] EXCEPT !.pc = "semaphore"]
      <3>1. r \in CallRecord /\ r.pc = "semaphore" /\ r.permit = call[c].permit /\ ~call[c].permit
        BY <1>1, <1>4 DEF CallRecord, Labels, Holding, TakeToken
      <3>2. call' = [call EXCEPT ![c] = r] /\ call[c].pc = "rate"
        BY <1>4, <2>2 DEF Goto, TakeToken
      <3> HIDE DEF r
      <3> QED BY <2>2, <3>1, <3>2, CallGoesOn DEF InsideLabels
    <2> QED BY <1>4, <2>1, <2>2 DEF TakeToken
  <1>5. CASE GetSemaphore(c)
    <2> DEFINE next == IF limit[call[c].at] = 0 THEN "look" ELSE "permit"
    <2> DEFINE r == [call[c] EXCEPT !.gate = limit[call[c].at], !.pc = next]
    <2>1. /\ r \in CallRecord /\ r.pc = next /\ r.gate = limit[call[c].at]
          /\ r.permit = call[c].permit /\ ~call[c].permit
      BY <1>1, <1>5 DEF CallRecord, Labels, Holding, GetSemaphore, MapsFit
    <2>2. /\ call' = [call EXCEPT ![c] = r] /\ call[c].pc = "semaphore"
          /\ UNCHANGED <<inFlight, free>>
      BY <1>5 DEF GetSemaphore
    <2>3. r.pc = "permit" => r.gate \in Instances
      BY <1>1, <2>1, Limits DEF MapsFit, Instances
    <2>4. r.pc \in {"look", "permit"}
      BY <2>1
    <2> HIDE DEF r, next
    <2> QED BY <2>1, <2>2, <2>3, <2>4, CallGoesOn DEF InsideLabels
  <1>6. CASE AcquirePermit(c)
    BY <1>6, CallAcquires
  <1>7. CASE PermitTimesOut(c)
    BY <1>7, CallFails DEF PermitTimesOut, InsideLabels
  <1>8. CASE LookUp(c)
    <2>1. CASE Fail(c, "permanent")
      BY <1>8, <2>1, CallFails DEF LookUp, InsideLabels
    <2>2. CASE /\ call' = [call EXCEPT ![c] = [@ EXCEPT !.pc = "execute", !.on = published[call[c].at]]]
               /\ UNCHANGED <<inFlight, free>>
      <3> DEFINE r == [call[c] EXCEPT !.pc = "execute", !.on = published[call[c].at]]
      <3>1. /\ r \in CallRecord /\ r.pc = "execute" /\ r.permit = call[c].permit
            /\ r.at = call[c].at /\ r.gate = call[c].gate
        BY <1>1 DEF CallRecord, Labels, MapsFit
      <3>2. call' = [call EXCEPT ![c] = r] /\ call[c].pc = "look"
        BY <1>8, <2>2 DEF LookUp
      <3> HIDE DEF r
      <3> QED BY <2>2, <3>1, <3>2, CallGoesOn DEF InsideLabels
    <2>3. CASE call' = [call EXCEPT ![c].tries = @ + 1] /\ UNCHANGED <<inFlight, free>>
      <3> DEFINE r == [call[c] EXCEPT !.tries = @ + 1]
      <3>1. /\ r \in CallRecord /\ r.pc = call[c].pc /\ r.permit = call[c].permit
            /\ r.at = call[c].at /\ r.gate = call[c].gate
        BY <1>1 DEF CallRecord
      <3>2. call' = [call EXCEPT ![c] = r] /\ call[c].pc = "look"
        BY <1>8, <2>3 DEF LookUp
      <3> HIDE DEF r
      <3> QED BY <2>3, <3>1, <3>2, CallGoesOn DEF InsideLabels
    <2> QED BY <1>8, <2>1, <2>2, <2>3 DEF LookUp
  <1>9. CASE Answer(c)
    <2>1. ASSUME NEW outcome \in Outcomes
          PROVE  Append(call[c].ran, [at |-> call[c].at, outcome |-> outcome]) \in Runs
      BY <1>1 DEF CallRecord, Runs
    <2>2. call[c].pc \in InsideLabels
      BY <1>9 DEF Answer, InsideLabels
    <2> QED BY <1>9, <2>1, <2>2, CallReturns DEF Answer
  <1>10. CASE TryNext(c)
    <2>1. call[c].pc = "chain" /\ ~call[c].permit /\ UNCHANGED free
      BY <1>1, <1>10 DEF TryNext, Holding
    <2>2. CASE Goto(c, "done") /\ UNCHANGED inFlight
      <3> DEFINE r == [call[c] EXCEPT !.pc = "done"]
      <3>1. r \in CallRecord /\ r.pc = "done" /\ r.permit = call[c].permit
        BY <1>1 DEF CallRecord, Labels
      <3>2. call' = [call EXCEPT ![c] = r]
        BY <2>2 DEF Goto
      <3> HIDE DEF r
      <3> QED BY <2>1, <2>2, <3>1, <3>2, CallGoesOn DEF InsideLabels
    <2>3. CASE call[c].rest # <<>> /\ Enter(c, Head(call[c].rest), Tail(call[c].rest))
      <3> DEFINE r == [call[c] EXCEPT !.pc = "pool", !.at = Head(call[c].rest), !.rest = Tail(call[c].rest)]
      <3>1. Head(call[c].rest) \in Backends /\ Tail(call[c].rest) \in Seq(Backends)
        BY <1>1, <2>3 DEF CallRecord
      <3>2. r \in CallRecord /\ r.pc = "pool" /\ r.permit = call[c].permit
        BY <1>1, <3>1 DEF CallRecord, Labels
      <3>3. call' = [call EXCEPT ![c] = r] /\ inFlight' = inFlight + 1
        BY <2>3 DEF Enter
      <3> HIDE DEF r
      <3> QED BY <2>1, <3>2, <3>3, CallEnters DEF InsideLabels
    <2>4. CASE call[c].rest # <<>> /\ call' = [call EXCEPT ![c].rest = Tail(@)] /\ UNCHANGED inFlight
      <3> DEFINE r == [call[c] EXCEPT !.rest = Tail(@)]
      <3>1. Tail(call[c].rest) \in Seq(Backends)
        BY <1>1, <2>4 DEF CallRecord
      <3>2. r \in CallRecord /\ r.pc = "chain" /\ r.permit = call[c].permit
        BY <1>1, <2>1, <3>1 DEF CallRecord
      <3>3. call' = [call EXCEPT ![c] = r]
        BY <2>4
      <3> HIDE DEF r
      <3> QED BY <2>1, <2>4, <3>2, <3>3, CallGoesOn DEF InsideLabels
    <2> QED BY <1>10, <2>2, <2>3, <2>4 DEF TryNext
  <1>11. CASE Cancel(c)
    <2>1. call[c].ran \in Runs /\ <<>> \in Seq(Backends)
      BY <1>1 DEF CallRecord
    <2>2. call[c].pc \in InsideLabels
      BY <1>11 DEF Cancel, Inside, InsideLabels
    <2> QED BY <1>11, <2>1, <2>2, CallLeaves DEF Cancel
  <1> QED
    BY <1>2, <1>3, <1>4, <1>5, <1>6, <1>7, <1>8, <1>9, <1>10, <1>11 DEF CallAct, CallStep

-----------------------------------------------------------------------------
(* The accounts of the call path.                                          *)

LEMMA InitCallInv == CallInit => CallInv
  <1> SUFFICES ASSUME CallInit PROVE CallInv
    OBVIOUS
  <1>1. 1 \in Instances /\ 1 \in 0..MaxStarts /\ 0 \in 0..MaxStarts
    BY Limits DEF Instances
  <1>2. MapsFit
    BY <1>1 DEF CallInit, MapsFit
  <1>3. BucketsFit
    BY Limits DEF CallInit, BucketsFit
  <1>4. StopperFits
    BY DEF CallInit, StopperFits
  <1>5. CallsFit
    <2>1. call \in [Calls -> CallRecord] /\ \A c \in Calls : Holding(c)
      BY IdleFits DEF CallInit, Holding, Idle
    <2>2. InsideCalls = {} /\ \A x \in Backends \X Instances : Holders[x] = {}
      <3>1. \A c \in Calls : call[c].pc = "idle" /\ call[c].permit = FALSE
        BY DEF CallInit, Idle
      <3>2. InsideCalls = {}
        BY <3>1 DEF InsideCalls, Inside
      <3>3. ASSUME NEW x \in Backends \X Instances
            PROVE  Holders[x] = {}
        <4>1. Holders[x] = {c \in Calls : call[c].permit /\ call[c].at = x[1] /\ call[c].gate = x[2]}
          BY DEF Holders
        <4> QED BY <3>1, <4>1, Zenon
      <3> QED BY <3>2, <3>3
    <2>3. Counted
      <3>1. Cardinality({}) = 0
        BY FS_EmptySet
      <3>2. inFlight = 0 /\ \A x \in Backends \X Instances : free[x] = MaxCalls
        BY DEF CallInit
      <3> QED BY <2>2, <3>1, <3>2, Limits DEF Counted
    <2>4. free \in [Backends \X Instances -> Nat]
      BY Limits DEF CallInit
    <2> QED BY <2>1, <2>3, <2>4 DEF CallsFit
  <1> QED
    BY <1>2, <1>3, <1>4, <1>5 DEF CallInv

LEMMA StepCallInv ==
    ASSUME CallInv, [CallNext]_callVars
    PROVE  CallInv'
  <1> USE DEF CallInv
  <1>1. ASSUME NEW c \in Calls, CallAct(c)
        PROVE  CallInv'
    <2>1. UNCHANGED <<mapVars, stopper>>
      BY <1>1, CallsLeaveMaps
    <2>2. MapsFit' /\ StopperFits'
      BY <2>1 DEF mapVars, MapsFit, StopperFits
    <2> QED BY <1>1, <2>2, CallsKeepCalls, CallsKeepBuckets
  <1>2. CASE Refill
    <2>1. MapsFit' /\ StopperFits' /\ CallsFit'
      BY <1>2, RefillLeavesRest
         DEF mapVars, MapsFit, StopperFits, CallsFit, Holding, Counted, InsideCalls, Inside, Holders
    <2> QED BY <1>2, <2>1, RefillKeepsBuckets
  <1>3. ASSUME NEW b \in Backends, Maintain(b)
        PROVE  CallInv'
    <2>1. BucketsFit' /\ StopperFits' /\ CallsFit'
      BY <1>3, MaintenanceLeavesCalls
         DEF rateVars, BucketsFit, StopperFits, CallsFit, Holding, Counted, InsideCalls, Inside, Holders
    <2> QED BY <1>3, <2>1, MaintenanceKeepsMaps
  <1>4. CASE Stop
    <2>1. BucketsFit' /\ CallsFit'
      BY <1>4, StopLeavesCalls
         DEF rateVars, BucketsFit, CallsFit, Holding, Counted, InsideCalls, Inside, Holders
    <2> QED BY <1>4, <2>1, StopKeepsMaps
  <1>5. CASE UNCHANGED callVars
    BY <1>5 DEF callVars, mapVars, rateVars, MapsFit, BucketsFit, StopperFits, CallsFit, Holding,
                Counted, InsideCalls, Inside, Holders
  <1> QED
    BY <1>1, <1>2, <1>3, <1>4, <1>5, FourKinds

LEMMA CallInvHolds == CallSpec => []CallInv
  <1>1. CallInit => CallInv
    BY InitCallInv
  <1>2. CallInv /\ [CallNext]_callVars => CallInv'
    BY StepCallInv
  <1> QED
    BY <1>1, <1>2, PTL DEF CallSpec

\* Whatever ends a call (an answer, a full backend, the timer, a cancellation), its
\* permit goes back to the semaphore it came from, even one the map has forgotten,
\* in_flight_calls is the number of calls inside call_tool, and a window lets at
\* most max_calls calls through the rate limiter (mod.rs:182-195, 425-445, 592).
THEOREM CallsAreAccounted == CallSpec => []CallsAccounted
  <1>1. ASSUME CallInv PROVE CallsAccounted
    <2> USE <1>1 DEF CallInv
    <2>1. inFlight = Cardinality({c \in Calls : Inside(c)})
      BY DEF CallsFit, Counted, InsideCalls
    <2>2. ASSUME NEW b \in Backends, NEW i \in Instances
          PROVE  /\ free[<<b, i>>] + Cardinality({c \in Calls :
                       call[c].at = b /\ call[c].gate = i /\ call[c].permit}) = MaxCalls
                 /\ spent[<<b, i>>] <= Rate
                 /\ free[<<b, i>>] <= MaxCalls
      <3> DEFINE x == <<b, i>>
      <3> DEFINE Mine == {c \in Calls : call[c].at = b /\ call[c].gate = i /\ call[c].permit}
      <3>1. x \in Backends \X Instances /\ x[1] = b /\ x[2] = i
        OBVIOUS
      <3>2. Holders[x] = {c \in Calls : call[c].permit /\ call[c].at = x[1] /\ call[c].gate = x[2]}
        BY <3>1 DEF Holders
      <3>3. Holders[x] = Mine
        BY <3>1, <3>2
      <3>4. free[x] + Cardinality(Mine) = MaxCalls /\ free[x] \in Nat
        BY <3>1, <3>3 DEF CallsFit, Counted
      <3>5. Mine \subseteq Calls
        OBVIOUS
      <3>6. Cardinality(Mine) \in Nat
        <4> HIDE DEF Mine
        <4> QED BY <3>5, CallAssumption, FS_Subset, FS_CardinalityType
      <3>7. spent[x] <= Rate
        <4> HIDE DEF x
        <4>1. spent[x] \in Nat /\ tokens[x] \in Nat /\ spent[x] + tokens[x] <= Rate
          BY <3>1 DEF BucketsFit
        <4> QED BY <4>1, Limits
      <3>8. free[x] <= MaxCalls
        <4> HIDE DEF Mine
        <4> QED BY <3>4, <3>6, Limits
      <3> QED BY <3>4, <3>7, <3>8
    <2>3. free \in [Backends \X Instances -> 0..MaxCalls]
      <3>1. ASSUME NEW x \in Backends \X Instances
            PROVE  free[x] \in 0..MaxCalls
        <4>1. x = <<x[1], x[2]>> /\ x[1] \in Backends /\ x[2] \in Instances
          OBVIOUS
        <4>2. free[x] \in Nat
          BY DEF CallsFit
        <4>3. free[<<x[1], x[2]>>] <= MaxCalls
          BY <2>2, <4>1
        <4> QED BY <4>1, <4>2, <4>3, Limits
      <3> QED BY <3>1 DEF CallsFit
    <2>4. /\ tokens \in [Backends \X Instances -> 0..Rate]
          /\ missing \in [Backends \X Instances -> 0..Rate]
      BY Limits DEF BucketsFit
    <2>5. \A m \in {published, pool, limit, bucket, made} : m \in [Backends -> 0..MaxStarts]
      <3>1. made \in [Backends -> 0..MaxStarts]
        BY Limits DEF MapsFit, Instances
      <3> QED BY <3>1 DEF MapsFit
    <2>6. \A c \in Calls : call[c].pc \in Labels /\ call[c].at \in Backends
      BY DEF CallsFit, CallRecord
    <2>7. CallTypeOK
      BY <2>3, <2>4, <2>5, <2>6 DEF CallTypeOK, MapsFit, StopperFits
    <2> QED BY <2>1, <2>2, <2>7 DEF CallsAccounted
  <1> QED
    BY <1>1, CallInvHolds, PTL

(***************************************************************************)
(* The limit of a backend that was never replaced: a call that found no    *)
(* semaphore finds no instance either, because both whoever replaces the   *)
(* backend and stop_all take the instance away first, and nobody puts it   *)
(* back without a start.                                                   *)
(***************************************************************************)
InstanceGoesFirst ==
    \A b \in Backends :
        /\ op[b] \in {"stop", "unlimit", "start"} => published[b] = 0
        /\ made[b] = 1 => /\ limit[b] <= 1
                          /\ op[b] \in {"none", "stop", "unlimit", "start"}
                          /\ limit[b] = 0 => published[b] = 0
                          /\ stopper.pc \notin {"run", "copied"} => published[b] = 0

Limited(c) ==
    /\ call[c].pc # "execute" => ~call[c].pooled
    /\ call[c].pc \notin {"permit", "look", "execute"} => call[c].gate = 0
    /\ made[call[c].at] = 1 =>
         /\ call[c].gate <= 1
         /\ call[c].pc = "look" => call[c].permit \/ published[call[c].at] = 0
         /\ call[c].pc = "execute" => call[c].permit \/ call[c].pooled

LimitInv == CallInv /\ InstanceGoesFirst /\ \A c \in Calls : Limited(c)

\* A step of a call moves that call only.
LEMMA OneCallAtATime ==
    ASSUME CallInv, NEW c \in Calls, CallAct(c)
    PROVE  \A d \in Calls \ {c} : call'[d] = call[d]
  <1>1. call \in [Calls -> CallRecord]
    BY DEF CallInv, CallsFit
  <1>2. CASE Begin(c)
    BY <1>1, <1>2 DEF Begin, Enter
  <1>3. CASE TryNext(c)
    BY <1>1, <1>3 DEF TryNext, Enter, Goto
  <1>4. CASE Cancel(c) \/ PermitTimesOut(c) \/ Answer(c)
    BY <1>1, <1>4 DEF Cancel, PermitTimesOut, Answer, Fail, Return, Leave
  <1>5. CASE LookUpPool(c) \/ TakeToken(c)
    BY <1>1, <1>5 DEF LookUpPool, TakeToken, Goto, Fail, Return, Leave
  <1>6. CASE GetSemaphore(c) \/ AcquirePermit(c)
    BY <1>1, <1>6 DEF GetSemaphore, AcquirePermit
  <1>7. CASE LookUp(c)
    BY <1>1, <1>7 DEF LookUp, Fail, Return, Leave
  <1> QED
    BY <1>2, <1>3, <1>4, <1>5, <1>6, <1>7 DEF CallAct, CallStep

\* A call that leaves keeps nothing but the rest of its chain and what was executed.
LEMMA NothingKept ==
    ASSUME CallInv, NEW c \in Calls, NEW label, NEW rest, NEW ran, Leave(c, label, rest, ran)
    PROVE  /\ call'[c].pc = label /\ call'[c].rest = rest /\ call'[c].ran = ran
           /\ call'[c].at = Primary /\ call'[c].gate = 0 /\ call'[c].pooled = FALSE
  <1>1. call'[c] = [Idle EXCEPT !.pc = label, !.rest = rest, !.ran = ran]
    BY DEF CallInv, CallsFit, Leave
  <1> QED
    BY <1>1 DEF Idle

LEMMA CallsKeepLimited ==
    ASSUME LimitInv, NEW c \in Calls, CallAct(c)
    PROVE  \A d \in Calls : Limited(d)'
  <1>1. UNCHANGED <<mapVars, stopper>>
    BY CallsLeaveMaps
  <1>2. \A d \in Calls \ {c} : call'[d] = call[d]
    BY OneCallAtATime DEF LimitInv
  <1>3. ASSUME NEW d \in Calls \ {c}
        PROVE  Limited(d)'
    BY <1>1, <1>2 DEF Limited, LimitInv, mapVars
  <1> SUFFICES Limited(c)'
    BY <1>3
  <1>4. call[c] \in CallRecord /\ call \in [Calls -> CallRecord] /\ call[c].at \in Backends
    BY DEF LimitInv, CallInv, CallsFit, CallRecord
  <1>5. Limited(c) /\ InstanceGoesFirst /\ CallInv /\ Holding(c)
    BY DEF LimitInv, CallInv, CallsFit
  <1>6. ASSUME NEW label \in {"chain", "done"}, NEW rest, NEW ran, Leave(c, label, rest, ran)
        PROVE  Limited(c)'
    <2>1. call'[c].pc = label /\ call'[c].gate = 0 /\ call'[c].pooled = FALSE
      BY <1>5, <1>6, NothingKept
    <2>2. ~call'[c].pooled /\ call'[c].pc \notin {"look", "execute"}
      BY <2>1
    <2> QED BY <2>1, <2>2 DEF Limited
  <1>7. ASSUME NEW outcome, NEW ran, Return(c, outcome, ran)
        PROVE  Limited(c)'
    BY <1>6, <1>7 DEF Return
  <1>8. CASE Begin(c)
    <2>1. /\ call'[c].pc = "pool" /\ ~call'[c].pooled /\ call'[c].gate = 0
      BY <1>4, <1>5, <1>8 DEF Begin, Enter, Limited, CallRecord
    <2> QED BY <2>1 DEF Limited
  <1>9. CASE LookUpPool(c)
    <2>1. CASE \E outcome \in {"transient", "permanent"} : Fail(c, outcome)
      BY <1>7, <2>1 DEF Fail
    <2>2. CASE Goto(c, "rate")
      BY <1>1, <1>4, <1>5, <1>9, <2>2 DEF LookUpPool, Goto, Limited, CallRecord, mapVars
    <2>3. CASE call' = [call EXCEPT ![c] = [@ EXCEPT !.pc = "execute", !.on = pool[call[c].at], !.pooled = TRUE]]
      BY <1>1, <1>4, <1>5, <1>9, <2>3 DEF LookUpPool, Limited, CallRecord, mapVars
    <2> QED BY <1>9, <2>1, <2>2, <2>3 DEF LookUpPool
  <1>10. CASE TakeToken(c)
    <2>1. CASE Fail(c, "transient")
      BY <1>7, <2>1 DEF Fail
    <2>2. CASE Goto(c, "semaphore")
      BY <1>1, <1>4, <1>5, <1>10, <2>2 DEF TakeToken, Goto, Limited, CallRecord, mapVars
    <2> QED BY <1>10, <2>1, <2>2 DEF TakeToken
  <1>11. CASE GetSemaphore(c)
    <2>1. /\ call'[c].pc = IF limit[call[c].at] = 0 THEN "look" ELSE "permit"
          /\ call'[c].gate = limit[call[c].at] /\ call'[c].at = call[c].at /\ call'[c].pooled = call[c].pooled
      BY <1>4, <1>11 DEF GetSemaphore, CallRecord
    <2>2. ~call[c].pooled /\ UNCHANGED <<made, published>>
      BY <1>1, <1>5, <1>11 DEF GetSemaphore, Limited, mapVars
    <2> QED BY <1>4, <1>5, <2>1, <2>2 DEF Limited, InstanceGoesFirst
  <1>12. CASE AcquirePermit(c)
    <2>1. /\ call'[c].pc = "look" /\ call'[c].permit
          /\ call'[c].gate = call[c].gate /\ call'[c].at = call[c].at /\ call'[c].pooled = call[c].pooled
      BY <1>4, <1>12 DEF AcquirePermit, CallRecord
    <2>2. ~call[c].pooled /\ UNCHANGED <<made, published>>
      BY <1>1, <1>5, <1>12 DEF AcquirePermit, Limited, mapVars
    <2> QED BY <1>5, <2>1, <2>2 DEF Limited
  <1>13. CASE PermitTimesOut(c) \/ Answer(c)
    BY <1>7, <1>13 DEF PermitTimesOut, Answer, Fail
  <1>14. CASE LookUp(c)
    <2>1. CASE Fail(c, "permanent")
      BY <1>7, <2>1 DEF Fail
    <2>2. CASE /\ call' = [call EXCEPT ![c] = [@ EXCEPT !.pc = "execute", !.on = published[call[c].at]]]
               /\ published[call[c].at] # 0
      <3>1. /\ call'[c].pc = "execute" /\ call'[c].permit = call[c].permit
            /\ call'[c].gate = call[c].gate /\ call'[c].at = call[c].at
        BY <1>4, <2>2 DEF CallRecord
      <3>2. UNCHANGED <<made, published>>
        BY <1>1 DEF mapVars
      <3>3. call[c].pc = "look"
        BY <1>14 DEF LookUp
      <3> QED BY <1>5, <2>2, <3>1, <3>2, <3>3 DEF Limited
    <2>3. CASE call' = [call EXCEPT ![c].tries = @ + 1]
      <3>1. /\ call'[c].pc = call[c].pc /\ call'[c].permit = call[c].permit
            /\ call'[c].gate = call[c].gate /\ call'[c].at = call[c].at /\ call'[c].pooled = call[c].pooled
        BY <1>4, <2>3 DEF CallRecord
      <3>2. UNCHANGED <<made, published>>
        BY <1>1 DEF mapVars
      <3> QED BY <1>5, <3>1, <3>2 DEF Limited
    <2> QED BY <1>14, <2>1, <2>2, <2>3 DEF LookUp
  <1>15. CASE TryNext(c)
    <2>1. /\ call'[c].pc \in {"done", "pool", "chain"}
          /\ call'[c].gate = call[c].gate /\ call'[c].pooled = call[c].pooled
      <3>1. CASE Goto(c, "done")
        BY <1>4, <3>1 DEF Goto, CallRecord
      <3>2. CASE Enter(c, Head(call[c].rest), Tail(call[c].rest))
        BY <1>4, <3>2 DEF Enter, CallRecord
      <3>3. CASE call' = [call EXCEPT ![c].rest = Tail(@)] /\ call[c].pc = "chain"
        BY <1>4, <3>3 DEF CallRecord
      <3> QED BY <1>15, <3>1, <3>2, <3>3 DEF TryNext
    <2>2. call[c].gate = 0 /\ ~call[c].pooled
      BY <1>5, <1>15 DEF TryNext, Limited
    <2> QED BY <2>1, <2>2 DEF Limited
  <1>16. CASE Cancel(c)
    BY <1>6, <1>16 DEF Cancel
  <1> QED
    BY <1>8, <1>9, <1>10, <1>11, <1>12, <1>13, <1>14, <1>15, <1>16 DEF CallAct, CallStep

LEMMA MaintenanceKeepsLimited ==
    ASSUME LimitInv, NEW b \in Backends, Maintain(b)
    PROVE  InstanceGoesFirst' /\ \A c \in Calls : Limited(c)'
  <1>1. UNCHANGED <<rateVars, free, call, inFlight, stopper>>
    BY MaintenanceLeavesCalls
  <1>2. \A c \in Calls : call[c].at \in Backends
    BY DEF LimitInv, CallInv, CallsFit, CallRecord
  <1>3. MapsFit
    BY DEF LimitInv, CallInv
  <1>4. /\ \A x \in Backends \ {b} : published'[x] = published[x] /\ limit'[x] = limit[x]
                                     /\ op'[x] = op[x] /\ made'[x] = made[x]
        /\ made[b] \in Nat \ {0} /\ limit[b] \in Nat
        /\ made'[b] = 1 => made[b] = 1 /\ limit'[b] <= 1
                           /\ (published'[b] = published[b] \/ published'[b] = 0)
                           /\ op'[b] \in {"none", "stop", "unlimit", "start"}
                           /\ (limit'[b] = 0 => published'[b] = 0)
                           /\ (published[b] = 0 => published'[b] = 0)
        /\ op'[b] \in {"stop", "unlimit", "start"} => published'[b] = 0
    <2> USE <1>3 DEF LimitInv, InstanceGoesFirst, MapsFit, Instances
    <2>1. CASE Falter(b) \/ Recover(b)
      BY <2>1 DEF Falter, Recover
    <2>2. CASE Detach(b)
      BY <2>2 DEF Detach, OpStep
    <2>3. CASE DropPool(b)
      BY <2>3 DEF DropPool, OpStep
    <2>4. CASE DropLimits(b)
      BY <2>4 DEF DropLimits, OpStep
    <2>5. CASE Publish(b)
      BY <2>5, Limits DEF Publish, OpStep
    <2>6. CASE StartFails(b)
      BY <2>6 DEF StartFails, OpStep
    <2>7. CASE AddPool(b) \/ AddSemaphore(b) \/ AddLimiter(b)
      BY <2>7 DEF AddPool, AddSemaphore, AddLimiter, OpStep
    <2> QED BY <2>1, <2>2, <2>3, <2>4, <2>5, <2>6, <2>7 DEF Maintain, Replace
  <1>5. InstanceGoesFirst'
    BY <1>1, <1>4 DEF InstanceGoesFirst, LimitInv
  <1>6. ASSUME NEW c \in Calls
        PROVE  Limited(c)'
    BY <1>1, <1>2, <1>4 DEF Limited, LimitInv
  <1> QED
    BY <1>5, <1>6

LEMMA StopKeepsLimited ==
    ASSUME LimitInv, Stop
    PROVE  InstanceGoesFirst' /\ \A c \in Calls : Limited(c)'
  <1>1. UNCHANGED <<made, op, rateVars, free, call, inFlight>>
    BY StopLeavesCalls
  <1>2. \A c \in Calls : call[c].at \in Backends
    BY DEF LimitInv, CallInv, CallsFit, CallRecord
  <1>3. \A b \in Backends :
          /\ published'[b] = published[b] \/ published'[b] = 0
          /\ limit'[b] = limit[b] \/ (limit'[b] = 0 /\ (made[b] = 1 => published'[b] = 0))
          /\ stopper'.pc \notin {"run", "copied"} /\ made[b] = 1 => published'[b] = 0
    <2> USE DEF LimitInv, InstanceGoesFirst, CallInv, MapsFit, StopperFits
    <2>1. CASE CopyBackends
      <3>1. UNCHANGED mapVars /\ stopper'.pc = "copied"
        BY <2>1 DEF CopyBackends
      <3> QED BY <3>1 DEF mapVars
    <2>2. CASE ClearBackends
      BY <2>2 DEF ClearBackends, StopStep
    <2>3. CASE ClearLimits
      BY <2>3 DEF ClearLimits, StopStep
    <2>4. CASE Drained \/ DrainTimesOut \/ AllStopped
      BY <2>4 DEF Drained, DrainTimesOut, AllStopped, StopStep, mapVars
    <2>5. CASE (\E x \in stopper.copied : StopCopied(x)) \/ StopPools
      BY <2>5 DEF StopCopied, StopPools, StopStep
    <2> QED BY <2>1, <2>2, <2>3, <2>4, <2>5 DEF Stop, StopAll
  <1>4. InstanceGoesFirst'
    BY <1>1, <1>3 DEF InstanceGoesFirst, LimitInv
  <1>5. ASSUME NEW c \in Calls
        PROVE  Limited(c)'
    BY <1>1, <1>2, <1>3 DEF Limited, LimitInv
  <1> QED
    BY <1>4, <1>5

LEMMA LimitInvHolds == CallSpec => []LimitInv
  <1>1. CallInit => LimitInv
    <2> SUFFICES ASSUME CallInit PROVE LimitInv
      OBVIOUS
    <2>1. InstanceGoesFirst
      <3>1. \A b \in Backends : op[b] = "none" /\ limit[b] = 1
        BY DEF CallInit
      <3>2. stopper.pc = "run"
        BY DEF CallInit
      <3> QED BY <3>1, <3>2 DEF InstanceGoesFirst
    <2>2. \A c \in Calls : Limited(c)
      <3>1. \A c \in Calls : call[c].pc = "idle" /\ call[c].pooled = FALSE /\ call[c].gate = 0
        BY DEF CallInit, Idle
      <3> QED BY <3>1 DEF Limited
    <2> QED BY <2>1, <2>2, InitCallInv DEF LimitInv
  <1>2. LimitInv /\ [CallNext]_callVars => LimitInv'
    <2> SUFFICES ASSUME LimitInv, [CallNext]_callVars PROVE LimitInv'
      OBVIOUS
    <2>1. CallInv'
      BY StepCallInv DEF LimitInv
    <2>2. ASSUME NEW c \in Calls, CallAct(c)
          PROVE  InstanceGoesFirst' /\ \A d \in Calls : Limited(d)'
      BY <2>2, CallsKeepLimited, CallsLeaveMaps DEF LimitInv, InstanceGoesFirst, mapVars
    <2>3. ASSUME Refill \/ UNCHANGED callVars
          PROVE  InstanceGoesFirst' /\ \A d \in Calls : Limited(d)'
      BY <2>3, RefillLeavesRest DEF callVars, mapVars, LimitInv, InstanceGoesFirst, Limited
    <2>4. InstanceGoesFirst' /\ \A c \in Calls : Limited(c)'
      BY <2>2, <2>3, FourKinds, MaintenanceKeepsLimited, StopKeepsLimited
    <2> QED BY <2>1, <2>4 DEF LimitInv
  <1> QED
    BY <1>1, <1>2, PTL DEF CallSpec

\* A backend that was never replaced executes at most max_concurrent_calls calls, also
\* while stop_all clears the semaphores under running and waiting calls (mod.rs:592,
\* 864-874): those who execute without a pool hold permits of its one semaphore.
THEOREM CallLimitHolds == CallSpec => []LimitHolds
  <1>1. ASSUME LimitInv PROVE LimitHolds
    <2> SUFFICES ASSUME NEW b \in Backends, made[b] = 1
                 PROVE  Cardinality({c \in Calls : Executing(c, b) /\ ~call[c].pooled}) <= MaxCalls
      BY DEF LimitHolds
    <2> DEFINE x == <<b, 1>>
    <2> DEFINE AtWork == {c \in Calls : Executing(c, b) /\ ~call[c].pooled}
    <2>1. x \in Backends \X Instances /\ x[1] = b /\ x[2] = 1
      BY Limits DEF Instances
    <2>2. Holders[x] = {c \in Calls : call[c].permit /\ call[c].at = x[1] /\ call[c].gate = x[2]}
      BY <2>1 DEF Holders
    <2>3. ASSUME NEW c \in Calls, Executing(c, b), ~call[c].pooled
          PROVE  call[c].permit /\ call[c].at = b /\ call[c].gate = 1
      BY <1>1, <2>3, Limits
         DEF LimitInv, Limited, Executing, CallInv, CallsFit, Holding, CallRecord, Instances
    <2>4. AtWork \subseteq Holders[x]
      BY <2>1, <2>2, <2>3
    <2>5. IsFiniteSet(Holders[x])
      BY <2>2, CallAssumption, FS_Subset
    <2>6. free[x] \in Nat /\ free[x] + Cardinality(Holders[x]) = MaxCalls
      BY <1>1, <2>1 DEF LimitInv, CallInv, CallsFit, Counted
    <2> HIDE DEF AtWork, x
    <2>7. /\ Cardinality(AtWork) \in Nat /\ Cardinality(Holders[x]) \in Nat
          /\ Cardinality(AtWork) <= Cardinality(Holders[x])
      BY <2>4, <2>5, FS_Subset, FS_CardinalityType
    <2> QED BY <2>6, <2>7, Limits DEF AtWork
  <1> QED
    BY <1>1, LimitInvHolds, PTL

(***************************************************************************)
(* The drain: what stop_all is going to stop has left the map for good,    *)
(* so only a call that was inside before the drain ended can execute on it.*)
(***************************************************************************)
Doomed == stopper.copied \cup stopper.stopped

StopperKnows ==
    /\ stopper.pc \in {"run", "copied", "cleared", "drain"} => stopper.stopped = {}
    /\ stopper.pc = "run" => stopper.copied = {}
    /\ \A b \in Backends : published[b] <= made[b]
    /\ \A x \in Doomed : /\ x[2] <= made[x[1]]
                         /\ stopper.pc \notin {"run", "copied"} => published[x[1]] # x[2]

Spared(c) ==
    call[c].pc = "execute" /\ ~call[c].pooled => <<call[c].at, call[c].on>> \notin Doomed

DrainInv ==
    /\ CallInv
    /\ StopperKnows
    /\ stopper.pc \in {"stop", "pools", "done"} /\ ~stopper.forced => \A c \in Calls : Spared(c)

\* Who executes without a pool was dispatched to the instance of the map.
LEMMA DispatchedToMap ==
    ASSUME CallInv, NEW c \in Calls, CallAct(c), call'[c].pc = "execute", call'[c].pooled = FALSE
    PROVE  call'[c].on = published[call'[c].at]
  <1>1. call[c] \in CallRecord /\ call \in [Calls -> CallRecord]
    BY DEF CallInv, CallsFit, CallRecord
  <1>2. ~(\E label \in {"chain", "done"} : \E rest, ran : Leave(c, label, rest, ran))
    <2> SUFFICES ASSUME NEW label \in {"chain", "done"}, NEW rest, NEW ran, Leave(c, label, rest, ran)
                 PROVE  FALSE
      OBVIOUS
    <2>1. call'[c].pc = label
      BY NothingKept
    <2> QED BY <2>1
  <1>3. ~(\E outcome, ran : Return(c, outcome, ran))
    BY <1>2 DEF Return
  <1>4. CASE LookUp(c)
    <2>1. CASE call' = [call EXCEPT ![c] = [@ EXCEPT !.pc = "execute", !.on = published[call[c].at]]]
      BY <1>1, <2>1 DEF CallRecord
    <2>2. CASE call' = [call EXCEPT ![c].tries = @ + 1] /\ call[c].pc = "look"
      BY <1>1, <2>2 DEF CallRecord
    <2> QED BY <1>3, <1>4, <2>1, <2>2 DEF LookUp, Fail
  <1>5. CASE LookUpPool(c)
    <2>1. CASE Goto(c, "rate")
      BY <1>1, <2>1 DEF Goto, CallRecord
    <2>2. CASE call' = [call EXCEPT ![c] = [@ EXCEPT !.pc = "execute", !.on = pool[call[c].at], !.pooled = TRUE]]
      BY <1>1, <2>2 DEF CallRecord
    <2> QED BY <1>3, <1>5, <2>1, <2>2 DEF LookUpPool, Fail
  <1>6. CASE TakeToken(c)
    <2>1. CASE Goto(c, "semaphore")
      BY <1>1, <2>1 DEF Goto, CallRecord
    <2> QED BY <1>3, <1>6, <2>1 DEF TakeToken, Fail
  <1>7. CASE GetSemaphore(c) \/ AcquirePermit(c)
    BY <1>1, <1>7, ZenonT(60) DEF GetSemaphore, AcquirePermit, CallRecord
  <1>8. CASE PermitTimesOut(c) \/ Answer(c) \/ Cancel(c)
    BY <1>2, <1>3, <1>8 DEF PermitTimesOut, Answer, Cancel, Fail
  <1>9. CASE TryNext(c)
    <2>1. CASE Goto(c, "done")
      BY <1>1, <2>1 DEF Goto, CallRecord
    <2>2. CASE Enter(c, Head(call[c].rest), Tail(call[c].rest))
      BY <1>1, <2>2 DEF Enter, CallRecord
    <2>3. CASE call' = [call EXCEPT ![c].rest = Tail(@)] /\ call[c].pc = "chain"
      BY <1>1, <2>3 DEF CallRecord
    <2> QED BY <1>9, <2>1, <2>2, <2>3 DEF TryNext
  <1>10. CASE Begin(c)
    BY <1>1, <1>10 DEF Begin, Enter, CallRecord
  <1> QED
    BY <1>4, <1>5, <1>6, <1>7, <1>8, <1>9, <1>10 DEF CallAct, CallStep

LEMMA CallsKeepDrain ==
    ASSUME DrainInv, NEW c \in Calls, CallAct(c)
    PROVE  DrainInv'
  <1>1. CallInv' /\ StopperKnows'
    <2>1. UNCHANGED <<published, made, stopper>>
      BY CallsLeaveMaps DEF mapVars
    <2>2. StopperKnows'
      BY <2>1 DEF DrainInv, StopperKnows, Doomed
    <2>3. CallInv'
      <3>1. UNCHANGED <<mapVars, stopper>>
        BY CallsLeaveMaps
      <3>2. MapsFit' /\ StopperFits'
        BY <3>1 DEF DrainInv, CallInv, mapVars, MapsFit, StopperFits
      <3> QED BY <3>2, CallsKeepCalls, CallsKeepBuckets DEF DrainInv, CallInv
    <2> QED BY <2>2, <2>3
  <1>2. ASSUME stopper'.pc \in {"stop", "pools", "done"}, ~stopper'.forced, NEW d \in Calls
        PROVE  Spared(d)'
    <2>1. UNCHANGED <<published, stopper>>
      BY CallsLeaveMaps DEF mapVars
    <2>2. CASE d # c
      <3>1. call'[d] = call[d]
        BY <2>2, OneCallAtATime DEF DrainInv
      <3>2. Spared(d)
        BY <1>2, <2>1 DEF DrainInv
      <3> QED BY <2>1, <3>1, <3>2 DEF Spared, Doomed
    <2>3. CASE d = c /\ call'[c].pc = "execute" /\ ~call'[c].pooled
      <3>1. call'[c].pooled = FALSE
        BY <1>1, <2>3 DEF CallInv, CallsFit, CallRecord
      <3>2. call'[c].on = published[call'[c].at]
        BY <2>3, <3>1, DispatchedToMap DEF DrainInv
      <3>3. \A x \in Doomed : published[x[1]] # x[2]
        BY <1>2, <2>1 DEF DrainInv, StopperKnows
      <3>4. <<call'[c].at, call'[c].on>> \notin Doomed
        BY <3>2, <3>3
      <3> QED BY <2>1, <2>3, <3>4 DEF Spared, Doomed
    <2> QED BY <2>2, <2>3 DEF Spared
  <1> QED
    BY <1>1, <1>2 DEF DrainInv

LEMMA MaintenanceKeepsDrain ==
    ASSUME DrainInv, NEW b \in Backends, Maintain(b)
    PROVE  StopperKnows'
  <1>1. UNCHANGED stopper
    BY MaintenanceLeavesCalls
  <1>2. \A x \in Doomed : x[1] \in Backends /\ x[2] \in Nat \ {0}
    BY Limits DEF DrainInv, CallInv, StopperFits, Doomed, Instances
  <1>3. made \in [Backends -> Nat] /\ published \in [Backends -> Nat]
    BY Limits DEF DrainInv, CallInv, MapsFit, Instances
  <1>4. /\ \A x \in Backends \ {b} : published'[x] = published[x] /\ made'[x] = made[x]
        /\ \/ published'[b] = published[b] /\ made'[b] = made[b]
           \/ published'[b] = 0 /\ made'[b] = made[b]
           \/ published'[b] = made[b] + 1 /\ made'[b] = made[b] + 1
    <2>1. CASE Falter(b) \/ Recover(b)
      BY <2>1 DEF Falter, Recover
    <2>2. CASE Detach(b) \/ Publish(b)
      BY <1>3, <2>2 DEF Detach, Publish, OpStep
    <2>3. CASE DropPool(b) \/ DropLimits(b) \/ StartFails(b)
      BY <2>3 DEF DropPool, DropLimits, StartFails, OpStep
    <2>4. CASE AddPool(b) \/ AddSemaphore(b) \/ AddLimiter(b)
      BY <2>4 DEF AddPool, AddSemaphore, AddLimiter, OpStep
    <2> QED BY <2>1, <2>2, <2>3, <2>4 DEF Maintain, Replace
  <1>5. StopperKnows
    BY DEF DrainInv
  <1>6. \A x \in Backends : published'[x] <= made'[x]
    BY <1>3, <1>4, <1>5 DEF StopperKnows
  <1>7. ASSUME NEW x \in Doomed
        PROVE  /\ x[2] <= made'[x[1]]
               /\ stopper.pc \notin {"run", "copied"} => published'[x[1]] # x[2]
    BY <1>2, <1>3, <1>4, <1>5, <1>7 DEF StopperKnows
  <1> QED
    BY <1>1, <1>5, <1>6, <1>7 DEF StopperKnows, Doomed

LEMMA StopKeepsDrain ==
    ASSUME DrainInv, Stop
    PROVE  /\ StopperKnows'
           /\ stopper'.pc \in {"stop", "pools", "done"} /\ ~stopper'.forced => \A c \in Calls : Spared(c)'
  <1>1. UNCHANGED <<made, inFlight, call>>
    BY StopLeavesCalls
  <1> USE <1>1 DEF StopperKnows, Doomed
  <1>2. StopperKnows /\ StopperFits /\ MapsFit /\ CallsFit
    BY DEF DrainInv, CallInv
  <1>3. \A x \in Doomed : x[1] \in Backends /\ x[2] \in Nat \ {0}
    BY <1>2, Limits DEF StopperFits, Instances
  <1>4. CASE CopyBackends
    <2> DEFINE copied == {<<b, published[b]>> : b \in {x \in Backends : published[x] # 0}}
    <2>1. /\ stopper'.pc = "copied" /\ stopper'.copied = copied /\ stopper'.stopped = {}
          /\ UNCHANGED published
      BY <1>2, <1>4 DEF CopyBackends, StopperFits, mapVars
    <2>2. \A x \in copied : x[2] <= made[x[1]]
      BY <1>2
    <2> HIDE DEF copied
    <2> QED BY <1>2, <2>1, <2>2
  <1>5. CASE ClearBackends
    <2>1. /\ stopper'.pc = "cleared" /\ UNCHANGED <<stopper.copied, stopper.stopped>>
          /\ stopper.pc = "copied" /\ published' = [b \in Backends |-> 0]
      BY <1>2, <1>5 DEF ClearBackends, StopStep, StopperFits
    <2>2. \A b \in Backends : 0 <= made[b]
      BY <1>2, Limits DEF MapsFit, Instances
    <2> QED BY <1>2, <1>3, <2>1, <2>2
  <1>6. CASE ClearLimits
    <2>1. /\ stopper'.pc = "drain" /\ UNCHANGED <<stopper.copied, stopper.stopped, published>>
          /\ stopper.pc = "cleared"
      BY <1>2, <1>6 DEF ClearLimits, StopStep, StopperFits
    <2> QED BY <1>2, <2>1
  <1>7. CASE Drained
    <2>1. /\ stopper'.pc = "stop" /\ UNCHANGED <<stopper.copied, stopper.stopped, published>>
          /\ stopper.pc = "drain" /\ inFlight = 0
      BY <1>2, <1>7 DEF Drained, StopStep, StopperFits, mapVars
    <2>2. InsideCalls = {}
      <3>1. IsFiniteSet(InsideCalls)
        BY CallAssumption, FS_Subset DEF InsideCalls
      <3> QED BY <1>2, <2>1, <3>1, FS_EmptySet DEF CallsFit, Counted
    <2>3. \A c \in Calls : Spared(c)'
      BY <2>2 DEF InsideCalls, Inside, Spared
    <2>4. StopperKnows'
      BY <1>2, <2>1
    <2> QED BY <2>3, <2>4
  <1>8. CASE DrainTimesOut
    <2>1. /\ stopper'.pc = "stop" /\ UNCHANGED <<stopper.copied, stopper.stopped, published>>
          /\ stopper.pc = "drain" /\ stopper'.forced = TRUE
      BY <1>2, <1>8 DEF DrainTimesOut, StopperFits, mapVars
    <2> QED BY <1>2, <2>1
  <1>9. CASE (\E x \in stopper.copied : StopCopied(x)) \/ AllStopped \/ StopPools
    <2>1. /\ stopper.pc \in {"stop", "pools"} /\ stopper'.pc \in {"stop", "pools", "done"}
          /\ UNCHANGED <<published, stopper.forced>>
      BY <1>2, <1>9 DEF StopCopied, AllStopped, StopPools, StopStep, StopperFits, mapVars
    <2>2. Doomed' = Doomed
      <3>1. ASSUME NEW x \in stopper.copied, StopCopied(x)
            PROVE  Doomed' = Doomed
        <4>1. /\ stopper'.copied = stopper.copied \ {x}
              /\ stopper'.stopped = stopper.stopped \cup {x}
          BY <1>2, <3>1 DEF StopCopied, StopperFits
        <4> QED BY <4>1
      <3>2. CASE AllStopped \/ StopPools
        <4>1. UNCHANGED <<stopper.copied, stopper.stopped>>
          BY <1>2, <3>2 DEF AllStopped, StopPools, StopStep, StopperFits
        <4> QED BY <4>1
      <3> QED BY <1>9, <3>1, <3>2
    <2>3. StopperKnows'
      <3> HIDE DEF Doomed
      <3> QED BY <1>2, <2>1, <2>2
    <2>4. ASSUME ~stopper'.forced, NEW c \in Calls PROVE Spared(c)'
      <3>1. Spared(c)
        BY <2>1, <2>4 DEF DrainInv
      <3> HIDE DEF Doomed
      <3> QED BY <2>2, <3>1 DEF Spared
    <2> QED BY <2>3, <2>4
  <1> QED
    BY <1>4, <1>5, <1>6, <1>7, <1>8, <1>9 DEF Stop, StopAll

LEMMA DrainInvHolds == CallSpec => []DrainInv
  <1>1. CallInit => DrainInv
    BY InitCallInv DEF CallInit, DrainInv, StopperKnows, Doomed
  <1>2. DrainInv /\ [CallNext]_callVars => DrainInv'
    <2> SUFFICES ASSUME DrainInv, [CallNext]_callVars PROVE DrainInv'
      OBVIOUS
    <2>1. CallInv'
      BY StepCallInv DEF DrainInv
    <2>2. ASSUME NEW c \in Calls, CallAct(c) PROVE DrainInv'
      BY <2>2, CallsKeepDrain
    <2>3. ASSUME Refill \/ UNCHANGED callVars PROVE DrainInv'
      BY <2>1, <2>3, RefillLeavesRest DEF callVars, mapVars, DrainInv, StopperKnows, Doomed, Spared
    <2>4. ASSUME NEW b \in Backends, Maintain(b) PROVE DrainInv'
      BY <2>1, <2>4, MaintenanceKeepsDrain, MaintenanceLeavesCalls DEF DrainInv, Doomed, Spared
    <2>5. CASE Stop
      BY <2>1, <2>5, StopKeepsDrain DEF DrainInv
    <2> QED BY <2>2, <2>3, <2>4, <2>5, FourKinds
  <1> QED
    BY <1>1, <1>2, PTL DEF CallSpec

\* stop_all stops no instance of its copy that executes a call, unless its drain timed
\* out: calls are counted before they look for an instance, and what is to be stopped
\* is out of the map before the drain begins (mod.rs:542, 852-912).
THEOREM DrainPrecedesStop == CallSpec => []DrainedBeforeStop
  <1>1. DrainInv => DrainedBeforeStop
    <2> SUFFICES ASSUME DrainInv, NEW c \in Calls, call[c].pc = "execute", ~call[c].pooled,
                        <<call[c].at, call[c].on>> \in stopper.stopped
                 PROVE  stopper.forced
      BY DEF DrainedBeforeStop
    <2>1. stopper.pc \in {"stop", "pools", "done"}
      BY DEF DrainInv, StopperKnows, CallInv, StopperFits
    <2> QED BY <2>1 DEF DrainInv, Spared, Doomed
  <1> QED
    BY <1>1, DrainInvHolds, PTL

(***************************************************************************)
(* The chain: what is left of it is its tail, the call is at the place     *)
(* before that tail, and what was executed came before it and failed in a  *)
(* way that lets the call go on.                                           *)
(***************************************************************************)
Order == <<Primary>> \o Fallbacks
Place(b) == CHOOSE j \in DOMAIN Order : Order[j] = b
Passed(q) == Len(Fallbacks) - Len(q.rest)

\* No backend is twice in the chain of another; nothing in the configuration says so.
NoRepeats == \A j, k \in DOMAIN Order : Order[j] = Order[k] => j = k

Goes(e) == e.outcome # "ok" /\ (e.at = Primary => e.outcome = "transient")

Ordered(ran) ==
    \A k \in DOMAIN ran :
        k < Len(ran) => Goes(ran[k]) /\ Place(ran[k].at) < Place(ran[k + 1].at)

InChain(q) ==
    /\ Len(q.rest) <= Len(Fallbacks)
    /\ \A k \in DOMAIN q.rest : q.rest[k] = Fallbacks[Passed(q) + k]
    /\ q.pc = "idle" => q.ran = <<>>
    /\ q.pc \in InsideLabels => q.at = Order[Passed(q) + 1]

Behind(q) ==
    /\ q.pc \in InsideLabels =>
         \A k \in DOMAIN q.ran : Goes(q.ran[k]) /\ Place(q.ran[k].at) \in 1..Passed(q)
    /\ q.pc = "chain" =>
         \A k \in DOMAIN q.ran : Goes(q.ran[k]) /\ Place(q.ran[k].at) \in 1..(Passed(q) + 1)

Placed(q) == InChain(q) /\ Ordered(q.ran) /\ Behind(q)

ChainInv == CallInv /\ \A c \in Calls : Placed(call[c])

LEMMA OrderFacts ==
    /\ Len(Fallbacks) \in Nat /\ DOMAIN Order = 1..(Len(Fallbacks) + 1)
    /\ Order[1] = Primary
    /\ \A k \in 1..Len(Fallbacks) : Order[k + 1] = Fallbacks[k]
    /\ NoRepeats => \A j \in DOMAIN Order : Place(Order[j]) = j
  <1>1. Fallbacks \in Seq(Backends) /\ Primary \in Backends
    BY CallAssumption DEF Backends
  <1>2. NoRepeats => \A j \in DOMAIN Order : Place(Order[j]) = j
    BY Zenon DEF NoRepeats, Place
  <1> QED
    BY <1>1, <1>2 DEF Order

\* A call that goes on inside, at the same backend.
LEMMA PlacedGoesOn ==
    ASSUME NEW q, Placed(q), NEW r, q.pc \in InsideLabels, r.pc \in InsideLabels,
           r.at = q.at, r.rest = q.rest, r.ran = q.ran
    PROVE  Placed(r)
  BY DEF Placed, InChain, Behind, Passed, InsideLabels

\* A call that is done.
LEMMA PlacedDone ==
    ASSUME NEW r, r.pc = "done", r.rest = <<>>, Ordered(r.ran)
    PROVE  Placed(r)
  BY OrderFacts DEF Placed, InChain, Behind, Passed, InsideLabels

\* A call that failed before it was executed, and goes on with the chain.
LEMMA PlacedFailed ==
    ASSUME NEW q \in CallRecord, Placed(q), NEW r, q.pc \in InsideLabels, r.pc = "chain",
           r.rest = q.rest, r.ran = q.ran
    PROVE  Placed(r)
  <1>1. Passed(q) \in Int /\ Passed(r) = Passed(q)
    BY OrderFacts DEF Passed, CallRecord
  <1>2. \A k \in DOMAIN q.ran : Goes(q.ran[k]) /\ Place(q.ran[k].at) \in 1..Passed(q)
    BY DEF Placed, Behind
  <1>3. \A p \in 1..Passed(q) : p \in 1..(Passed(q) + 1)
    BY <1>1
  <1>4. Behind(r)
    BY <1>1, <1>2, <1>3 DEF Behind, InsideLabels
  <1>5. InChain(r)
    BY <1>1 DEF Placed, InChain, InsideLabels
  <1> QED
    BY <1>4, <1>5 DEF Placed

\* An executed call adds its backend, which comes after all before it.
LEMMA PlacedAnswered ==
    ASSUME NoRepeats, NEW q \in CallRecord, Placed(q), q.pc \in InsideLabels, NEW o \in Outcomes
    PROVE  LET ran == Append(q.ran, [at |-> q.at, outcome |-> o]) IN
           /\ Ordered(ran)
           /\ \A r : /\ r.pc = "chain" /\ r.rest = q.rest /\ r.ran = ran
                     /\ o # "ok" /\ (q.rest = Fallbacks => o = "transient")
                     => Placed(r)
  <1> DEFINE e == [at |-> q.at, outcome |-> o]
  <1> DEFINE ran == Append(q.ran, e)
  <1>1. /\ q.ran \in Seq([at : Backends, outcome : Outcomes]) /\ q.rest \in Seq(Backends)
        /\ q.at \in Backends /\ e \in [at : Backends, outcome : Outcomes]
        /\ e.at = q.at /\ e.outcome = o
    BY DEF CallRecord, Runs
  <1>2. /\ Passed(q) \in Nat /\ Passed(q) + 1 \in DOMAIN Order
        /\ q.at = Order[Passed(q) + 1] /\ Place(q.at) = Passed(q) + 1
    <2>1. Len(q.rest) \in Nat /\ Len(q.rest) <= Len(Fallbacks)
      BY <1>1 DEF Placed, InChain
    <2>2. Passed(q) \in Nat /\ Passed(q) + 1 \in DOMAIN Order
      <3>1. Len(Fallbacks) \in Nat /\ DOMAIN Order = 1..(Len(Fallbacks) + 1)
        BY OrderFacts
      <3>2. Passed(q) = Len(Fallbacks) - Len(q.rest)
        BY DEF Passed
      <3>3. Passed(q) \in Nat /\ Passed(q) <= Len(Fallbacks)
        BY <2>1, <3>1, <3>2
      <3>4. Passed(q) + 1 \in 1..(Len(Fallbacks) + 1)
        BY <3>1, <3>3
      <3> QED BY <3>1, <3>3, <3>4
    <2>3. q.at = Order[Passed(q) + 1]
      BY DEF Placed, InChain
    <2>4. \A j \in DOMAIN Order : Place(Order[j]) = j
      BY OrderFacts
    <2>5. Place(Order[Passed(q) + 1]) = Passed(q) + 1
      BY <2>2, <2>4
    <2> QED BY <2>2, <2>3, <2>5
  <1>3. \A k \in DOMAIN q.ran : Goes(q.ran[k]) /\ Place(q.ran[k].at) \in 1..Passed(q)
    BY DEF Placed, Behind
  <1> HIDE DEF e
  <1>4. /\ DOMAIN ran = 1..(Len(q.ran) + 1) /\ DOMAIN q.ran = 1..Len(q.ran)
        /\ Len(q.ran) \in Nat /\ Len(ran) = Len(q.ran) + 1
        /\ \A k \in 1..Len(q.ran) : ran[k] = q.ran[k]
        /\ ran[Len(q.ran) + 1] = e
    BY <1>1
  <1> HIDE DEF ran
  <1>5. Ordered(ran)
    <2> SUFFICES ASSUME NEW k \in DOMAIN ran, k < Len(ran)
                 PROVE  Goes(ran[k]) /\ Place(ran[k].at) < Place(ran[k + 1].at)
      BY DEF Ordered
    <2>1. k \in 1..Len(q.ran) /\ ran[k] = q.ran[k]
      BY <1>4
    <2>2. CASE k < Len(q.ran)
      <3>1. k + 1 \in 1..Len(q.ran) /\ ran[k + 1] = q.ran[k + 1]
        BY <1>4, <2>1, <2>2
      <3>2. Place(q.ran[k].at) < Place(q.ran[k + 1].at)
        BY <1>4, <2>1, <2>2 DEF Placed, Ordered
      <3> QED BY <1>3, <1>4, <2>1, <3>1, <3>2
    <2>3. CASE k = Len(q.ran)
      <3>1. ran[k + 1].at = q.at
        BY <1>1, <1>4, <2>3
      <3>2. Place(ran[k].at) \in 1..Passed(q) /\ Goes(ran[k])
        BY <1>3, <1>4, <2>1
      <3>3. Place(ran[k].at) < Passed(q) + 1
        BY <1>2, <3>2
      <3> QED BY <1>2, <3>1, <3>2, <3>3
    <2> QED BY <1>4, <2>1, <2>2, <2>3
  <1>6. ASSUME NEW r, r.pc = "chain", r.rest = q.rest, r.ran = ran,
               o # "ok", q.rest = Fallbacks => o = "transient"
        PROVE  Placed(r)
    <2>1. Passed(r) = Passed(q)
      BY <1>6 DEF Passed
    <2>2. InChain(r)
      BY <1>6, <2>1 DEF Placed, InChain, InsideLabels
    <2>3. Goes(e)
      <3>1. CASE q.at # Primary
        BY <1>1, <1>6, <3>1 DEF Goes
      <3>2. CASE q.at = Primary
        <4>1. 1 \in DOMAIN Order /\ Place(Primary) = 1
          BY OrderFacts
        <4>2. Passed(q) = 0
          BY <1>2, <3>2, <4>1
        <4>3. Len(q.rest) = Len(Fallbacks) /\ Len(Fallbacks) \in Nat
          BY <1>1, <4>2, OrderFacts DEF Passed
        <4>4. \A k \in 1..Len(Fallbacks) : q.rest[k] = Fallbacks[k]
          BY <1>1, <4>2, <4>3 DEF Placed, InChain
        <4>5. q.rest = Fallbacks
          <5> DEFINE rest == q.rest
                     all == Fallbacks
          <5>1. /\ rest \in Seq(Backends) /\ all \in Seq(Backends) /\ Len(rest) = Len(all)
                /\ \A k \in 1..Len(all) : rest[k] = all[k]
            BY <1>1, <4>3, <4>4, CallAssumption
          <5> HIDE DEF rest, all
          <5>2. rest = all
            BY <5>1
          <5> QED BY <5>2 DEF rest, all
        <4> QED BY <1>1, <1>6, <4>5 DEF Goes
      <3> QED BY <3>1, <3>2
    <2>4. ASSUME NEW k \in DOMAIN ran
          PROVE  Goes(ran[k]) /\ Place(ran[k].at) \in 1..(Passed(q) + 1)
      <3>1. CASE k \in 1..Len(q.ran)
        <4>1. ran[k] = q.ran[k] /\ Goes(q.ran[k]) /\ Place(q.ran[k].at) \in 1..Passed(q)
          BY <1>3, <1>4, <3>1
        <4> QED BY <1>2, <4>1
      <3>2. CASE k = Len(q.ran) + 1
        <4>1. ran[k] = e
          BY <1>4, <3>2
        <4> QED BY <1>1, <1>2, <2>3, <4>1
      <3> QED BY <1>4, <3>1, <3>2
    <2>5. Behind(r)
      BY <1>6, <2>1, <2>4 DEF Behind, InsideLabels
    <2> QED BY <1>5, <1>6, <2>2, <2>5 DEF Placed
  <1> QED
    BY <1>5, <1>6 DEF ran, e

\* The next backend of the chain, or the one after it when it has no such tool.
LEMMA PlacedNext ==
    ASSUME NEW q \in CallRecord, Placed(q), q.pc = "chain", q.rest # <<>>,
           NEW r, r.rest = Tail(q.rest), r.ran = q.ran,
           \/ r.pc = "chain"
           \/ r.pc = "pool" /\ r.at = Head(q.rest)
    PROVE  Placed(r)
  <1>1. q.rest \in Seq(Backends) /\ Len(q.rest) \in Nat \ {0} /\ Len(Fallbacks) \in Nat
    BY OrderFacts DEF CallRecord
  <1>2. /\ Len(r.rest) = Len(q.rest) - 1 /\ DOMAIN r.rest = 1..(Len(q.rest) - 1)
        /\ \A k \in 1..(Len(q.rest) - 1) : r.rest[k] = q.rest[k + 1]
    BY <1>1
  <1>3. Passed(q) \in Nat /\ Passed(r) = Passed(q) + 1 /\ Len(r.rest) <= Len(Fallbacks)
    <2>1. Len(q.rest) <= Len(Fallbacks)
      BY DEF Placed, InChain
    <2>2. Len(r.rest) = Len(q.rest) - 1 /\ Len(q.rest) \in Nat \ {0} /\ Len(Fallbacks) \in Nat
      BY <1>1, <1>2
    <2>3. Passed(r) = Len(Fallbacks) - Len(r.rest) /\ Passed(q) = Len(Fallbacks) - Len(q.rest)
      BY DEF Passed
    <2> QED BY <2>1, <2>2, <2>3
  <1>4. ASSUME NEW k \in DOMAIN r.rest
        PROVE  r.rest[k] = Fallbacks[Passed(r) + k]
    <2>1. k + 1 \in DOMAIN q.rest /\ r.rest[k] = q.rest[k + 1] /\ k \in Nat
      BY <1>1, <1>2
    <2>2. q.rest[k + 1] = Fallbacks[Passed(q) + (k + 1)]
      BY <2>1 DEF Placed, InChain
    <2>3. Passed(q) + (k + 1) = Passed(r) + k
      BY <1>3, <2>1
    <2> QED BY <2>1, <2>2, <2>3
  <1>5. r.pc = "pool" => r.at = Order[Passed(r) + 1]
    <2> SUFFICES ASSUME r.pc = "pool" PROVE r.at = Order[Passed(r) + 1]
      OBVIOUS
    <2>1. r.at = q.rest[1] /\ 1 \in DOMAIN q.rest
      BY <1>1
    <2>2. q.rest[1] = Fallbacks[Passed(q) + 1]
      BY <2>1 DEF Placed, InChain
    <2>3. Passed(q) + 1 \in 1..Len(Fallbacks)
      BY <1>1, <1>3 DEF Passed, Placed, InChain
    <2>4. Order[Passed(q) + 1 + 1] = Fallbacks[Passed(q) + 1]
      BY <2>3, OrderFacts
    <2> QED BY <1>3, <2>1, <2>2, <2>4
  <1>6. \A k \in DOMAIN q.ran : Goes(q.ran[k]) /\ Place(q.ran[k].at) \in 1..(Passed(q) + 1)
    BY DEF Placed, Behind
  <1>7. \A p \in 1..(Passed(q) + 1) : p \in 1..Passed(r) /\ p \in 1..(Passed(r) + 1)
    BY <1>3
  <1>8. Behind(r)
    BY <1>6, <1>7 DEF Behind, InsideLabels
  <1>9. InChain(r)
    BY <1>3, <1>4, <1>5 DEF InChain, InsideLabels
  <1> QED
    BY <1>8, <1>9 DEF Placed

LEMMA CallsKeepChain ==
    ASSUME NoRepeats, ChainInv, NEW c \in Calls, CallAct(c)
    PROVE  \A d \in Calls : Placed(call'[d])
  <1> DEFINE q == call[c]
             r == call'[c]
  <1>1. \A d \in Calls \ {c} : Placed(call'[d])
    BY OneCallAtATime DEF ChainInv
  <1> SUFFICES Placed(r)
    BY <1>1
  <1>2. q \in CallRecord /\ call \in [Calls -> CallRecord] /\ Placed(q) /\ CallInv
    BY DEF ChainInv, CallInv, CallsFit
  <1>3. ASSUME q.pc \in InsideLabels, NEW outcome, Fail(c, outcome)
        PROVE  Placed(r)
    <2>1. CASE Leave(c, "chain", q.rest, q.ran)
      <3>1. r.pc = "chain" /\ r.rest = q.rest /\ r.ran = q.ran
        BY <1>2, <2>1, NothingKept, ZenonT(60)
      <3> HIDE DEF q, r
      <3> QED BY <1>2, <1>3, <3>1, PlacedFailed
    <2>2. CASE Leave(c, "done", <<>>, q.ran)
      <3>1. r.pc = "done" /\ r.rest = <<>> /\ r.ran = q.ran
        BY <1>2, <2>2, NothingKept, ZenonT(60)
      <3>2. Ordered(q.ran)
        BY <1>2 DEF Placed
      <3> HIDE DEF q, r
      <3> QED BY <3>1, <3>2, PlacedDone
    <2> QED BY <1>3, <2>1, <2>2 DEF Fail, Return
  <1>4. ASSUME q.pc \in InsideLabels, r.pc \in InsideLabels, r.at = q.at, r.rest = q.rest, r.ran = q.ran
        PROVE  Placed(r)
    <2> HIDE DEF q, r
    <2> QED BY <1>2, <1>4, PlacedGoesOn
  <1>5. CASE Begin(c)
    <2>1. /\ q.pc = "idle" /\ r.pc = "pool" /\ r.at = Primary /\ r.rest = Fallbacks /\ r.ran = q.ran
      BY <1>2, <1>5 DEF Begin, Enter, CallRecord
    <2>2. q.ran = <<>>
      BY <1>2, <2>1 DEF Placed, InChain
    <2>3. DOMAIN Fallbacks = 1..Len(Fallbacks) /\ Passed(r) = 0 /\ Order[Passed(r) + 1] = Primary
      BY <2>1, OrderFacts, CallAssumption DEF Passed
    <2> HIDE DEF q, r
    <2>4. InChain(r)
      BY <2>1, <2>3, OrderFacts DEF InChain
    <2> QED BY <2>1, <2>2, <2>4 DEF Placed, Ordered, Behind
  <1>6. CASE LookUpPool(c)
    <2>1. CASE \E outcome \in {"transient", "permanent"} : Fail(c, outcome)
      BY <1>3, <1>6, <2>1 DEF LookUpPool, InsideLabels
    <2>2. CASE Goto(c, "rate")
      BY <1>2, <1>4, <1>6, <2>2 DEF LookUpPool, Goto, InsideLabels, CallRecord
    <2>3. CASE call' = [call EXCEPT ![c] = [@ EXCEPT !.pc = "execute", !.on = pool[call[c].at], !.pooled = TRUE]]
      BY <1>2, <1>4, <1>6, <2>3 DEF LookUpPool, InsideLabels, CallRecord
    <2> QED BY <1>6, <2>1, <2>2, <2>3 DEF LookUpPool
  <1>7. CASE TakeToken(c)
    <2>1. CASE Fail(c, "transient")
      BY <1>3, <1>7, <2>1 DEF TakeToken, InsideLabels
    <2>2. CASE Goto(c, "semaphore")
      BY <1>2, <1>4, <1>7, <2>2 DEF TakeToken, Goto, InsideLabels, CallRecord
    <2> QED BY <1>7, <2>1, <2>2 DEF TakeToken
  <1>8. CASE GetSemaphore(c) \/ AcquirePermit(c)
    <2>1. CASE GetSemaphore(c)
      <3>1. q.pc = "semaphore" /\ r.pc \in {"look", "permit"}
        BY <1>2, <2>1 DEF GetSemaphore, CallRecord
      <3>2. r.at = q.at /\ r.rest = q.rest /\ r.ran = q.ran
        BY <1>2, <2>1 DEF GetSemaphore, CallRecord
      <3> HIDE DEF q, r
      <3> QED BY <1>4, <3>1, <3>2 DEF InsideLabels
    <2>2. CASE AcquirePermit(c)
      <3>1. q.pc = "permit" /\ r.pc = "look"
        BY <1>2, <2>2 DEF AcquirePermit, CallRecord
      <3>2. r.at = q.at /\ r.rest = q.rest /\ r.ran = q.ran
        BY <1>2, <2>2 DEF AcquirePermit, CallRecord
      <3> HIDE DEF q, r
      <3> QED BY <1>4, <3>1, <3>2 DEF InsideLabels
    <2> QED BY <1>8, <2>1, <2>2
  <1>9. CASE PermitTimesOut(c)
    BY <1>3, <1>9 DEF PermitTimesOut, InsideLabels
  <1>10. CASE LookUp(c)
    <2>1. CASE Fail(c, "permanent")
      BY <1>3, <1>10, <2>1 DEF LookUp, InsideLabels
    <2>2. CASE call' = [call EXCEPT ![c] = [@ EXCEPT !.pc = "execute", !.on = published[call[c].at]]]
      BY <1>2, <1>4, <1>10, <2>2 DEF LookUp, InsideLabels, CallRecord
    <2>3. CASE call' = [call EXCEPT ![c].tries = @ + 1]
      BY <1>2, <1>4, <1>10, <2>3 DEF LookUp, InsideLabels, CallRecord
    <2> QED BY <1>10, <2>1, <2>2, <2>3 DEF LookUp
  <1>11. CASE Answer(c)
    <2>1. q.pc \in InsideLabels
      BY <1>11 DEF Answer, InsideLabels
    <2>2. PICK o \in Outcomes : Return(c, o, Append(q.ran, [at |-> q.at, outcome |-> o]))
      BY <1>11 DEF Answer
    <2> DEFINE ran == Append(q.ran, [at |-> q.at, outcome |-> o])
    <2>3. CASE Follows(c, o)
      <3>0. Leave(c, "chain", q.rest, ran)
        BY <2>2, <2>3 DEF Return
      <3>1. r.pc = "chain" /\ r.rest = q.rest /\ r.ran = ran
        <4> HIDE DEF q, ran
        <4>1. call'[c].pc = "chain" /\ call'[c].rest = q.rest /\ call'[c].ran = ran
          BY <1>2, <3>0, NothingKept
        <4> QED BY <4>1
      <3>2. o # "ok" /\ (q.rest = Fallbacks => o = "transient")
        BY <2>3 DEF Follows
      <3> HIDE DEF q, r
      <3> QED BY <1>2, <2>1, <3>1, <3>2, PlacedAnswered
    <2>4. CASE ~Follows(c, o)
      <3>1. r.pc = "done" /\ r.rest = <<>> /\ r.ran = ran
        BY <1>2, <2>2, <2>4, NothingKept DEF Return
      <3> HIDE DEF q, r
      <3>2. Ordered(ran)
        BY <1>2, <2>1, PlacedAnswered
      <3> QED BY <3>1, <3>2, PlacedDone
    <2> QED BY <2>3, <2>4
  <1>12. CASE TryNext(c)
    <2>1. q.pc = "chain"
      BY <1>12 DEF TryNext
    <2>2. CASE q.rest = <<>> /\ Goto(c, "done")
      <3>1. r.pc = "done" /\ r.rest = <<>> /\ r.ran = q.ran
        BY <1>2, <2>2 DEF Goto, CallRecord
      <3>2. Ordered(q.ran)
        BY <1>2 DEF Placed
      <3> HIDE DEF q, r
      <3> QED BY <3>1, <3>2, PlacedDone
    <2>3. CASE q.rest # <<>> /\ Enter(c, Head(q.rest), Tail(q.rest))
      <3>1. r.pc = "pool" /\ r.at = Head(q.rest) /\ r.rest = Tail(q.rest) /\ r.ran = q.ran
        BY <1>2, <2>3 DEF Enter, CallRecord
      <3> HIDE DEF q, r
      <3> QED BY <1>2, <2>1, <2>3, <3>1, PlacedNext
    <2>4. CASE q.rest # <<>> /\ call' = [call EXCEPT ![c].rest = Tail(@)]
      <3>1. r.pc = "chain" /\ r.rest = Tail(q.rest) /\ r.ran = q.ran
        BY <1>2, <2>1, <2>4 DEF CallRecord
      <3> HIDE DEF q, r
      <3> QED BY <1>2, <2>1, <2>4, <3>1, PlacedNext
    <2> QED BY <1>12, <2>2, <2>3, <2>4 DEF TryNext
  <1>13. CASE Cancel(c)
    <2>1. r.pc = "done" /\ r.rest = <<>> /\ r.ran = q.ran
      BY <1>2, <1>13, NothingKept, ZenonT(60) DEF Cancel
    <2>2. Ordered(q.ran)
      BY <1>2 DEF Placed
    <2> HIDE DEF q, r
    <2> QED BY <2>1, <2>2, PlacedDone
  <1> QED
    BY <1>5, <1>6, <1>7, <1>8, <1>9, <1>10, <1>11, <1>12, <1>13 DEF CallAct, CallStep

LEMMA ChainInvHolds == ASSUME NoRepeats PROVE CallSpec => []ChainInv
  <1>1. CallInit => ChainInv
    <2> SUFFICES ASSUME CallInit PROVE ChainInv
      OBVIOUS
    <2>1. \A c \in Calls : call[c].pc = "idle" /\ call[c].rest = <<>> /\ call[c].ran = <<>>
      BY DEF CallInit, Idle
    <2>2. ASSUME NEW c \in Calls PROVE Placed(call[c])
      BY <2>1, OrderFacts DEF Placed, InChain, Ordered, Behind, InsideLabels
    <2> QED BY <2>2, InitCallInv DEF ChainInv
  <1>2. ChainInv /\ [CallNext]_callVars => ChainInv'
    <2> SUFFICES ASSUME ChainInv, [CallNext]_callVars PROVE ChainInv'
      OBVIOUS
    <2>1. CallInv'
      BY StepCallInv DEF ChainInv
    <2>2. ASSUME NEW c \in Calls, CallAct(c) PROVE ChainInv'
      BY <2>1, <2>2, CallsKeepChain DEF ChainInv
    <2>3. ASSUME UNCHANGED call PROVE ChainInv'
      BY <2>1, <2>3 DEF ChainInv
    <2> QED BY <2>2, <2>3, FourKinds, RefillLeavesRest, MaintenanceLeavesCalls, StopLeavesCalls
            DEF callVars
  <1> QED
    BY <1>1, <1>2, PTL DEF CallSpec

\* A call is executed again only after an answer that is an error, after the primary's
\* only when it is transient, and on the backends of the chain in their order, each at
\* most once (mod.rs:723-797); for a chain that names no backend twice.
THEOREM RepeatsFollowErrors == ASSUME NoRepeats PROVE CallSpec => []RepeatedOnlyAfterErrors
  <1>1. ChainInv => RepeatedOnlyAfterErrors
    BY Zenon DEF ChainInv, Placed, Ordered, Goes, RepeatedOnlyAfterErrors, Place, Order
  <1> QED
    BY <1>1, ChainInvHolds, PTL

-----------------------------------------------------------------------------
(***************************************************************************)
(* What is shown of a result, for any text and any JSON value.             *)
(***************************************************************************)

LEMMA ValueShape ==
  ASSUME NEW v \in Values
  PROVE  /\ v.t \in {"scalar", "array", "object"} /\ v.bytes \in Nat /\ v.depth \in 0..MaxDepth
         /\ MaxDepth \in Nat /\ v.parts \in Seq(Values) /\ DOMAIN v.parts = 1..Len(v.parts)
         /\ \A i \in DOMAIN v.parts : v.parts[i] \in Values /\ v.parts[i].depth < v.depth
  <1>1. v.parts \in Seq(Values) /\ \A i \in DOMAIN v.parts : v.parts[i].depth < v.depth
    BY OutputAssumption
  <1>2. DOMAIN v.parts = 1..Len(v.parts) /\ \A i \in DOMAIN v.parts : v.parts[i] \in Values
    BY <1>1
  <1> QED BY <1>1, <1>2, OutputAssumption

\* Induction on the depth of a value: what holds of a value whose parts have it holds of all.
LEMMA ByDepth ==
  ASSUME NEW G, \A v \in Values : (\A i \in DOMAIN v.parts : v.parts[i] \in G) => v \in G
  PROVE  Values \subseteq G
  <1> DEFINE T == {k \in 0..(MaxDepth + 1) : \A v \in Values : v.depth < k => v \in G}
  <1>1. 0 \in T
    <2>1. \A v \in Values : ~(v.depth < 0)
      BY ValueShape
    <2> QED BY <2>1, OutputAssumption
  <1>2. ASSUME NEW k \in 1..(MaxDepth + 1), k - 1 \in T PROVE k \in T
    <2>1. ASSUME NEW v \in Values, v.depth < k PROVE v \in G
      <3>1. ASSUME NEW i \in DOMAIN v.parts PROVE v.parts[i] \in G
        <4>1. v.parts[i] \in Values /\ v.parts[i].depth < v.depth
              /\ v.depth \in Int /\ v.parts[i].depth \in Int
          BY ValueShape
        <4>2. v.parts[i].depth < k - 1
          BY <2>1, <4>1
        <4> QED BY <1>2, <4>1, <4>2
      <3> QED BY <3>1
    <2> QED BY <2>1
  <1>3. MaxDepth + 1 \in T
    <2>1. MaxDepth + 1 \in Nat
      BY OutputAssumption
    <2> HIDE DEF T
    <2>2. 0..(MaxDepth + 1) \subseteq T
      BY <1>1, <1>2, <2>1, UpTo
    <2> QED BY <2>1, <2>2
  <1>4. \A v \in Values : v.depth < MaxDepth + 1
    BY ValueShape
  <1> QED BY <1>3, <1>4

-----------------------------------------------------------------------------
(* The leaves of a value and the chunks of its summary are well defined.   *)

Depths == [v \in Values |-> v.depth]

LEMMA DepthsFit ==
  /\ MaxDepth \in Nat /\ Depths \in [Values -> 0..MaxDepth]
  /\ \A v \in Values : \A i \in DOMAIN v.parts :
       v.parts[i] \in Values /\ Depths[v.parts[i]] < Depths[v]
  <1>1. MaxDepth \in Nat
    BY OutputAssumption
  <1>2. \A v \in Values : Depths[v] = v.depth /\ v.depth \in 0..MaxDepth
    BY ValueShape DEF Depths
  <1>3. Depths \in [Values -> 0..MaxDepth]
    BY <1>2 DEF Depths
  <1> QED BY <1>1, <1>2, <1>3, ValueShape

LeafStep(ctx, f, v) ==
  IF v.t = "scalar" THEN <<v.id>> ELSE FlattenSeq([i \in DOMAIN v.parts |-> f[v.parts[i]]])
Leafing == INSTANCE Induction WITH Op <- LeafStep

LEMMA LeavesUnfold == Leaves = [v \in Values |-> LeafStep(0, Leaves, v)]
  <1>1. ASSUME NEW v \in Values, NEW f, NEW g,
               \A w \in Values : Depths[w] < Depths[v] => f[w] = g[w]
        PROVE  LeafStep(0, f, v) = LeafStep(0, g, v)
    <2>1. \A i \in DOMAIN v.parts : f[v.parts[i]] = g[v.parts[i]]
      BY <1>1, DepthsFit
    <2>2. [i \in DOMAIN v.parts |-> f[v.parts[i]]] = [i \in DOMAIN v.parts |-> g[v.parts[i]]]
      BY <2>1
    <2> QED BY <2>2, Zenon DEF LeafStep
  <1>2. Leafing!LooksBelow(0, Values, Depths)
    BY <1>1 DEF Leafing!LooksBelow
  <1> DEFINE Is(f) == Leafing!IsSolution(f, 0, Values)
  <1>3. Leaves = CHOOSE f : Is(f)
    BY Zenon DEF Leaves, LeafStep, Leafing!IsSolution
  <1>4. Is(Leaves)
    <2>1. \E f : Is(f)
      BY <1>2, DepthsFit, Leafing!CourseOfValues
    <2> HIDE DEF Is
    <2> QED BY <1>3, <2>1, Zenon
  <1> QED BY <1>4 DEF Leafing!IsSolution

ChunkStep(ctx, f, v) ==
  IF v.t = "array" /\ v.parts # <<>> THEN Batches(v.parts)
  ELSE IF v.t = "object" /\ ~(v.bytes <= ChunkTarget /\ ~HasNestedContainers(v))
  THEN FlattenSeq([i \in DOMAIN v.parts |-> f[v.parts[i]]])
  ELSE <<SingleChunk(v)>>
Chunking == INSTANCE Induction WITH Op <- ChunkStep

LEMMA ChunksUnfold == ChunkJson = [v \in Values |-> ChunkStep(0, ChunkJson, v)]
  <1>1. ASSUME NEW v \in Values, NEW f, NEW g,
               \A w \in Values : Depths[w] < Depths[v] => f[w] = g[w]
        PROVE  ChunkStep(0, f, v) = ChunkStep(0, g, v)
    <2>1. \A i \in DOMAIN v.parts : f[v.parts[i]] = g[v.parts[i]]
      BY <1>1, DepthsFit
    <2>2. [i \in DOMAIN v.parts |-> f[v.parts[i]]] = [i \in DOMAIN v.parts |-> g[v.parts[i]]]
      BY <2>1
    <2> QED BY <2>2, Zenon DEF ChunkStep
  <1>2. Chunking!LooksBelow(0, Values, Depths)
    BY <1>1 DEF Chunking!LooksBelow
  <1> DEFINE Is(f) == Chunking!IsSolution(f, 0, Values)
  <1>3. ChunkJson = CHOOSE f : Is(f)
    BY Zenon DEF ChunkJson, ChunkStep, Chunking!IsSolution
  <1>4. Is(ChunkJson)
    <2>1. \E f : Is(f)
      BY <1>2, DepthsFit, Chunking!CourseOfValues
    <2> HIDE DEF Is
    <2> QED BY <1>3, <2>1, Zenon
  <1> QED BY <1>4 DEF Chunking!IsSolution

Ids == {v.id : v \in Values}

LEMMA LeavesMeaning == IsMeaning(Leaves, Values, Ids)
  <1> DEFINE G == {v \in Values : Leaves[v] \in Seq(Ids)}
  <1>1. ASSUME NEW v \in Values, \A i \in DOMAIN v.parts : v.parts[i] \in G PROVE v \in G
    <2>1. Leaves[v] = LeafStep(0, Leaves, v)
      BY LeavesUnfold
    <2>2. CASE v.t = "scalar"
      <3>1. <<v.id>> \in Seq(Ids)
        BY DEF Ids
      <3> QED BY <2>1, <2>2, <3>1 DEF LeafStep
    <2>3. CASE v.t # "scalar"
      <3> DEFINE ss == [i \in DOMAIN v.parts |-> Leaves[v.parts[i]]]
      <3>1. ss \in Seq(Seq(Ids))
        <4>1. DOMAIN v.parts = 1..Len(v.parts) /\ Len(v.parts) \in Nat
          BY ValueShape
        <4>2. \A i \in DOMAIN v.parts : Leaves[v.parts[i]] \in Seq(Ids)
          BY <1>1
        <4> QED BY <4>1, <4>2
      <3>2. Leaves[v] = FlattenSeq(ss)
        BY <2>1, <2>3 DEF LeafStep
      <3> HIDE DEF ss
      <3> QED BY <3>1, <3>2, FlattenType
    <2> QED BY <2>2, <2>3
  <1>2. \A v \in Values : Leaves[v] \in Seq(Ids)
    <2> HIDE DEF G
    <2>1. Values \subseteq G
      BY <1>1, ByDepth
    <2> QED BY <2>1 DEF G
  <1>3. Leaves = [v \in Values |-> Leaves[v]]
    BY LeavesUnfold
  <1> QED BY <1>2, <1>3 DEF IsMeaning

-----------------------------------------------------------------------------
(* Bytes: the sums over the first elements of a sequence.                  *)

AddBytes(ctx, sum, x) == sum + x.bytes
Summing == INSTANCE Induction WITH Op <- AddBytes

IsSized(D) == \A x \in D : x.bytes \in Nat
Totals(T, s) ==
  /\ T \in [0..Len(s) -> Int] /\ T[0] = 0
  /\ \A k \in 1..Len(s) : T[k] = T[k - 1] + s[k].bytes

LEMMA BytesTotal ==
  ASSUME NEW D, IsSized(D), NEW s \in Seq(D)
  PROVE  \E T : Totals(T, s) /\ Bytes(s) = T[Len(s)]
  <1> DEFINE n == Len(s)
             base == 0
  <1>1. n \in Nat /\ DOMAIN s = 1..n /\ \A k \in 1..n : s[k] \in D
    OBVIOUS
  <1>2. Bytes(s) = Summing!FoldOf(0, 0, s)
    BY Zenon DEF Bytes, Summing!FoldOf, FoldLeft, MapThenFoldSet, AddBytes,
                 Summing!FoldLeft, Summing!MapThenFoldSet, Max, Summing!Max
  <1>3. PICK f : Summing!Unrolled(f, 0, base, s, n) /\ Summing!FoldOf(0, base, s) = f[n]
    <2> HIDE DEF n, base
    <2> QED BY <1>1, Summing!FoldUnrolled
  <1>4. f[0] = 0 /\ \A k \in 1..n : f[k] = f[k - 1] + s[k].bytes
    BY <1>3 DEF Summing!Unrolled, AddBytes
  <1> DEFINE T == [k \in 0..n |-> f[k]]
             G == {k \in 0..n : f[k] \in Int}
  <1> HIDE DEF n
  <1>5. 0 \in G /\ \A k \in 1..n : k - 1 \in G => k \in G
    <2>1. 0 \in G
      BY <1>1, <1>4
    <2>2. ASSUME NEW k \in 1..n, k - 1 \in G PROVE k \in G
      <3>1. s[k].bytes \in Int /\ f[k - 1] \in Int /\ k \in 0..n
        BY <1>1, <2>2 DEF IsSized
      <3> QED BY <1>4, <3>1
    <2> QED BY <2>1, <2>2
  <1>6. \A k \in 0..n : f[k] \in Int
    <2> HIDE DEF G
    <2>1. 0..n \subseteq G
      BY <1>1, <1>5, UpTo
    <2> QED BY <2>1 DEF G
  <1>7. Totals(T, s)
    <2>1. T \in [0..n -> Int] /\ \A k \in 0..n : T[k] = f[k]
      BY <1>6
    <2>2. 0 \in 0..n /\ \A k \in 1..n : k \in 0..n /\ k - 1 \in 0..n
      BY <1>1
    <2> HIDE DEF T
    <2> QED BY <1>4, <2>1, <2>2 DEF Totals, n
  <1>8. Bytes(s) = T[n]
    <2>1. n \in 0..n
      BY <1>1
    <2> QED BY <1>2, <1>3, <2>1 DEF base
  <1> HIDE DEF T
  <1> QED BY <1>7, <1>8 DEF n

LEMMA BytesOf ==
  ASSUME NEW D, IsSized(D), NEW s \in Seq(D), NEW T, Totals(T, s)
  PROVE  Bytes(s) = T[Len(s)] /\ Bytes(s) \in Int
  <1> DEFINE n == Len(s)
  <1>1. PICK U : Totals(U, s) /\ Bytes(s) = U[n]
    BY BytesTotal
  <1> DEFINE G == {k \in 0..n : T[k] = U[k]}
  <1>2. n \in Nat /\ 0 \in G
    BY <1>1 DEF Totals
  <1>3. ASSUME NEW k \in 1..n, k - 1 \in G PROVE k \in G
    BY <1>1, <1>3 DEF Totals
  <1>4. n \in G
    <2> HIDE DEF G, n
    <2>1. 0..n \subseteq G
      BY <1>2, <1>3, UpTo
    <2> QED BY <1>2, <2>1
  <1>5. T[n] \in Int
    BY <1>2 DEF Totals
  <1> QED BY <1>1, <1>4, <1>5

\* The sums never fall, and rise with every element that is not empty.
LEMMA TotalsRise ==
  ASSUME NEW D, IsSized(D), NEW s \in Seq(D), NEW T, Totals(T, s),
         NEW b \in 0..Len(s), NEW a \in 0..b
  PROVE  /\ T[a] \in Int /\ T[b] \in Int /\ T[a] <= T[b]
         /\ (\A k \in 1..Len(s) : s[k].bytes > 0) => b - a <= T[b] - T[a]
  <1> DEFINE n == Len(s)
             up == IF \A k \in 1..n : s[k].bytes > 0 THEN 1 ELSE 0
             c == b - a
             G == {k \in 0..c : T[a + k] - T[a] >= (IF up = 1 THEN k ELSE 0)}
  <1>1. /\ n \in Nat /\ c \in Nat /\ b \in 0..n /\ a \in 0..n /\ a + c = b
        /\ \A k \in 0..n : T[k] \in Int
        /\ \A k \in 1..n : s[k].bytes \in Nat /\ T[k] = T[k - 1] + s[k].bytes
        /\ up \in {0, 1} /\ (up = 1 => \A k \in 1..n : s[k].bytes > 0)
    <2>1. n \in Nat /\ \A k \in 1..n : s[k] \in D
      OBVIOUS
    <2>2. \A k \in 1..n : s[k].bytes \in Nat
      BY <2>1 DEF IsSized
    <2>3. /\ \A k \in 0..n : T[k] \in Int
          /\ \A k \in 1..n : T[k] = T[k - 1] + s[k].bytes
      BY DEF Totals
    <2>4. c \in Nat /\ b \in 0..n /\ a \in 0..n /\ a + c = b
      OBVIOUS
    <2>5. up \in {0, 1} /\ (up = 1 => \A k \in 1..n : s[k].bytes > 0)
      OBVIOUS
    <2> HIDE DEF n, up, c
    <2> QED BY <2>1, <2>2, <2>3, <2>4, <2>5
  <1>2. 0 \in G
    BY <1>1
  <1>3. ASSUME NEW k \in 1..c, k - 1 \in G PROVE k \in G
    <2>1. a + k \in 1..n /\ (a + k) - 1 = a + (k - 1) /\ a + (k - 1) \in 0..n
      BY <1>1
    <2>2. T[a + k] = T[a + (k - 1)] + s[a + k].bytes
      BY <1>1, <2>1
    <2>3. s[a + k].bytes \in Nat /\ (up = 1 => s[a + k].bytes > 0)
      BY <1>1, <2>1
    <2>4. T[a + (k - 1)] - T[a] >= (IF up = 1 THEN k - 1 ELSE 0)
      BY <1>3
    <2>5. T[a + k] \in Int /\ T[a + (k - 1)] \in Int /\ T[a] \in Int
      BY <1>1, <2>1
    <2>6. k \in 0..c
      OBVIOUS
    <2> HIDE DEF up, c, n
    <2>7. T[a + k] - T[a] >= (IF up = 1 THEN k ELSE 0)
      <3> DEFINE x == s[a + k].bytes
                 p == T[a + k]
                 q == T[a + (k - 1)]
                 r == T[a]
      <3>1. p = q + x /\ x \in Nat /\ p \in Int /\ q \in Int /\ r \in Int
        BY <2>2, <2>3, <2>5
      <3>2. (up = 1 => x > 0) /\ q - r >= (IF up = 1 THEN k - 1 ELSE 0)
        BY <2>3, <2>4
      <3>3. k \in Int
        OBVIOUS
      <3> HIDE DEF x, p, q, r
      <3>4. p - r >= (IF up = 1 THEN k ELSE 0)
        BY <3>1, <3>2, <3>3
      <3> QED BY <3>4 DEF p, r
    <2> QED BY <2>6, <2>7
  <1>4. c \in G
    <2> HIDE DEF G, c
    <2>1. 0..c \subseteq G
      BY <1>1, <1>2, <1>3, UpTo
    <2> QED BY <1>1, <2>1
  <1>5. T[b] - T[a] >= (IF up = 1 THEN c ELSE 0)
    BY <1>1, <1>4
  <1> QED BY <1>1, <1>5

LEMMA BytesRange ==
  ASSUME NEW D, IsSized(D), NEW s \in Seq(D), NEW T, Totals(T, s),
         NEW b \in 0..Len(s), NEW a \in 0..b
  PROVE  Bytes(SubSeq(s, a + 1, b)) = T[b] - T[a]
  <1> DEFINE n == Len(s)
             t == SubSeq(s, a + 1, b)
             m == b - a
             U == [k \in 0..m |-> T[a + k] - T[a]]
  <1>1. n \in Nat /\ b \in 0..n /\ a \in 0..n /\ m \in Nat /\ a + m = b
    OBVIOUS
  <1>2. t \in Seq(D) /\ Len(t) = m /\ \A k \in 1..m : t[k] = s[a + k]
    OBVIOUS
  <1>3. /\ \A k \in 0..n : T[k] \in Int
        /\ \A k \in 1..n : T[k] = T[k - 1] + s[k].bytes /\ s[k].bytes \in Int
    <2>1. \A k \in 1..n : s[k] \in D
      OBVIOUS
    <2>2. \A k \in 1..n : s[k].bytes \in Int
      BY <2>1 DEF IsSized
    <2>3. /\ \A k \in 0..n : T[k] \in Int
          /\ \A k \in 1..n : T[k] = T[k - 1] + s[k].bytes
      BY DEF Totals
    <2> HIDE DEF n
    <2> QED BY <2>2, <2>3
  <1> HIDE DEF n, t, m
  <1>4. \A k \in 0..m : a + k \in 0..n /\ T[a + k] \in Int /\ T[a] \in Int
    <2>1. \A k \in 0..m : a + k \in 0..n
      BY <1>1
    <2>2. T[a] \in Int
      BY <1>1, <1>3
    <2> QED BY <1>3, <2>1, <2>2
  <1>5. U \in [0..m -> Int] /\ \A k \in 0..m : U[k] = T[a + k] - T[a]
    BY <1>4
  <1> HIDE DEF U
  <1>6. U[0] = 0
    <2>1. 0 \in 0..m /\ a + 0 = a
      BY <1>1
    <2>2. U[0] = T[a + 0] - T[a]
      BY <1>5, <2>1
    <2> QED BY <1>4, <2>1, <2>2
  <1>7. ASSUME NEW k \in 1..m PROVE U[k] = U[k - 1] + t[k].bytes
    <2>1. a + k \in 1..n /\ (a + k) - 1 = a + (k - 1) /\ k \in 0..m /\ k - 1 \in 0..m
      BY <1>1
    <2>2. T[a + k] = T[a + (k - 1)] + s[a + k].bytes /\ s[a + k].bytes \in Int
      BY <1>3, <2>1
    <2>3. U[k] = T[a + k] - T[a] /\ U[k - 1] = T[a + (k - 1)] - T[a]
      BY <1>5, <2>1
    <2>4. T[a + k] \in Int /\ T[a + (k - 1)] \in Int /\ T[a] \in Int /\ t[k] = s[a + k]
      BY <1>2, <1>4, <2>1
    <2> DEFINE p == T[a + k]
               q == T[a + (k - 1)]
               r == T[a]
               x == s[a + k].bytes
    <2>5. p \in Int /\ q \in Int /\ r \in Int /\ x \in Int /\ p = q + x
      BY <2>2, <2>4
    <2>6. U[k] = p - r /\ U[k - 1] = q - r /\ t[k].bytes = x
      BY <2>3, <2>4
    <2> HIDE DEF p, q, r, x
    <2>7. p - r = (q - r) + x
      BY <2>5
    <2> QED BY <2>6, <2>7
  <1>8. Totals(U, t)
    BY <1>2, <1>5, <1>6, <1>7 DEF Totals
  <1>9. Bytes(t) = U[m]
    BY <1>2, <1>8, BytesOf
  <1>10. U[m] = T[a + m] - T[a]
    <2>1. m \in 0..m
      BY <1>1
    <2> QED BY <1>5, <2>1
  <1> QED BY <1>1, <1>9, <1>10 DEF t

LEMMA BytesAppend ==
  ASSUME NEW D, IsSized(D), NEW s \in Seq(D), NEW x \in D
  PROVE  /\ Bytes(Append(s, x)) = Bytes(s) + x.bytes
         /\ Bytes(s) \in Nat /\ Bytes(<<>>) = 0 /\ Bytes(<<x>>) = x.bytes
  <1> DEFINE t == Append(s, x)
             n == Len(s)
  <1>1. PICK T : Totals(T, t) /\ Bytes(t) = T[Len(t)]
    <2>1. t \in Seq(D)
      OBVIOUS
    <2> HIDE DEF t
    <2> QED BY <2>1, BytesTotal
  <1>2. t \in Seq(D) /\ Len(t) = n + 1 /\ n \in Nat /\ t[n + 1] = x
        /\ SubSeq(t, 0 + 1, n) = s /\ SubSeq(t, 0 + 1, 0) = <<>> /\ SubSeq(t, n + 1, n + 1) = <<x>>
    <2>1. t \in Seq(D) /\ Len(t) = n + 1 /\ n \in Nat /\ t[n + 1] = x
          /\ \A k \in 1..n : t[k] = s[k]
      OBVIOUS
    <2>2. s = [k \in 1..n |-> s[k]]
      OBVIOUS
    <2> HIDE DEF t, n
    <2>3. SubSeq(t, 1, n) = s
      <3>1. SubSeq(t, 1, n) = [k \in 1..n |-> t[k]]
        BY <2>1
      <3> QED BY <2>1, <2>2, <3>1
    <2>4. SubSeq(t, 1, 0) = <<>>
      BY <2>1
    <2>5. SubSeq(t, n + 1, n + 1) = <<x>>
      <3> DEFINE u == SubSeq(t, n + 1, n + 1)
      <3>1. u \in Seq(D) /\ Len(u) = 1 /\ u[1] = x
        BY <2>1
      <3> HIDE DEF u
      <3>2. u = <<x>>
        BY <3>1
      <3> QED BY <3>2 DEF u
    <2>6. 0 + 1 = 1
      OBVIOUS
    <2> QED BY <2>1, <2>3, <2>4, <2>5, <2>6
  <1> HIDE DEF t, n
  <1>3. n \in 0..Len(t) /\ 0 \in 0..n /\ 0 \in 0..Len(t) /\ 0 \in 0..0 /\ n + 1 \in 0..Len(t) /\ n \in 0..(n + 1)
    BY <1>2
  <1>4. T[0] = 0 /\ T[n + 1] = T[n] + x.bytes /\ T[n] \in Int /\ x.bytes \in Nat
    <2>1. n + 1 \in 1..Len(t) /\ (n + 1) - 1 = n
      BY <1>2
    <2>2. T[n + 1] = T[n] + t[n + 1].bytes
      BY <1>1, <2>1 DEF Totals
    <2> QED BY <1>1, <1>2, <1>3, <2>2 DEF Totals, IsSized
  <1>5. Bytes(SubSeq(t, 0 + 1, n)) = T[n] - T[0]
    BY <1>1, <1>2, <1>3, BytesRange
  <1>6. Bytes(SubSeq(t, 0 + 1, 0)) = T[0] - T[0]
    BY <1>1, <1>2, <1>3, BytesRange
  <1>7. Bytes(SubSeq(t, n + 1, n + 1)) = T[n + 1] - T[n]
    BY <1>1, <1>2, <1>3, BytesRange
  <1>8. T[0] <= T[n]
    BY <1>1, <1>2, <1>3, TotalsRise
  <1>9. Bytes(s) = T[n] /\ Bytes(<<>>) = 0 /\ Bytes(<<x>>) = x.bytes
    <2>1. Bytes(s) = T[n] - T[0] /\ Bytes(<<>>) = T[0] - T[0] /\ Bytes(<<x>>) = T[n + 1] - T[n]
      BY <1>2, <1>5, <1>6, <1>7, Zenon
    <2> QED BY <1>4, <2>1
  <1>10. Bytes(t) = T[n] + x.bytes /\ T[n] \in Nat
    BY <1>1, <1>2, <1>4, <1>8
  <1> QED BY <1>9, <1>10 DEF t

-----------------------------------------------------------------------------
(* The chunks of a value: each one fits, and together they hold its leaves. *)

ChunkShape ==
  [identity : {ExtractIdentity(v) : v \in Values}, first : Int, last : Int,
   items : Seq(Values), bytes : Nat]
GoodChunks ==
  {c \in ChunkShape :
     /\ c.bytes = Bytes(c.items) /\ c.last - c.first + 1 = Len(c.items)
     /\ c.bytes <= ChunkTarget \/ Len(c.items) = 1}
ItemLeaves == [c \in GoodChunks |-> Standing(Leaves, c.items)]

LEMMA ChunkMeaning ==
  /\ IsSized(Values) /\ IsMeaning(Leaves, Values, Ids) /\ IsMeaning(ItemLeaves, GoodChunks, Ids)
  /\ \A c \in GoodChunks : ItemLeaves[c] = LeavesOf(c) /\ LeavesOf(c) = Standing(Leaves, c.items)
  /\ \A s : Standing(ItemLeaves, s) = FlattenSeq([i \in DOMAIN s |-> ItemLeaves[s[i]]])
  <1>1. IsSized(Values)
    BY ValueShape DEF IsSized
  <1>2. ASSUME NEW c \in GoodChunks PROVE Standing(Leaves, c.items) \in Seq(Ids)
    <2>1. c.items \in Seq(Values)
      BY DEF GoodChunks, ChunkShape
    <2> QED BY <2>1, LeavesMeaning, StandingJoin
  <1>3. IsMeaning(ItemLeaves, GoodChunks, Ids)
    BY <1>2 DEF IsMeaning, ItemLeaves
  <1>4. \A c : LeavesOf(c) = Standing(Leaves, c.items)
    BY Zenon DEF LeavesOf, Flattened, Standing
  <1>5. \A c \in GoodChunks : ItemLeaves[c] = LeavesOf(c)
    BY <1>4 DEF ItemLeaves
  <1>6. \A s : Standing(ItemLeaves, s) = FlattenSeq([i \in DOMAIN s |-> ItemLeaves[s[i]]])
    BY Zenon DEF Standing
  <1> QED BY <1>1, <1>3, <1>4, <1>5, <1>6, LeavesMeaning

\* The batch that is open, and what was flushed, after k items.
IsBatch(arr, P, acc, k) ==
  /\ acc.out \in Seq(GoodChunks) /\ acc.items \in Seq(Values) /\ acc.bytes = Bytes(acc.items)
  /\ acc.start \in Nat \ {0} /\ acc.start + Len(acc.items) = k + 1
  /\ acc.bytes <= ChunkTarget \/ Len(acc.items) <= 1
  /\ k > 0 => acc.items # <<>>
  /\ Standing(ItemLeaves, acc.out) \o Standing(Leaves, acc.items) = P[k]

LEMMA FlushKeeps ==
  ASSUME NEW arr \in Seq(Values), NEW P, NEW k \in 1..Len(arr), NEW acc, IsBatch(arr, P, acc, k)
  PROVE  /\ FlushBatch(arr, acc, k) \in Seq(GoodChunks)
         /\ Standing(ItemLeaves, FlushBatch(arr, acc, k)) = P[k]
  <1> DEFINE c == [identity |-> ExtractIdentity(arr[acc.start]), first |-> acc.start,
                   last |-> k, items |-> acc.items, bytes |-> acc.bytes]
             out == acc.out
             items == acc.items
  <1>1. /\ out \in Seq(GoodChunks) /\ items \in Seq(Values) /\ acc.bytes = Bytes(items)
        /\ acc.start \in Nat \ {0} /\ acc.start + Len(items) = k + 1 /\ items # <<>>
        /\ acc.bytes <= ChunkTarget \/ Len(items) <= 1
        /\ Standing(ItemLeaves, out) \o Standing(Leaves, items) = P[k]
    BY DEF IsBatch
  <1>2. Len(items) \in Nat \ {0} /\ Len(items) >= 1
    BY <1>1
  <1>3. acc.start \in 1..Len(arr) /\ acc.start \in Int
    BY <1>1, <1>2
  <1>4. arr[acc.start] \in Values
    BY <1>3
  <1>5. acc.bytes \in Nat
    BY <1>1, <1>4, BytesAppend, ChunkMeaning
  <1>6. c \in GoodChunks
    <2>1. k - acc.start + 1 = Len(items) /\ k \in Int
      BY <1>1, <1>2
    <2>2. acc.bytes <= ChunkTarget \/ Len(items) = 1
      <3> DEFINE n == Len(items)
      <3>1. n \in Nat /\ n >= 1 /\ (acc.bytes <= ChunkTarget \/ n <= 1)
        BY <1>1, <1>2
      <3> HIDE DEF n
      <3>2. n <= 1 => n = 1
        BY <3>1
      <3> QED BY <3>1, <3>2 DEF n
    <2>3. c.bytes = acc.bytes /\ c.items = items /\ c.last = k /\ c.first = acc.start
          /\ c.identity = ExtractIdentity(arr[acc.start])
      OBVIOUS
    <2>4. c \in ChunkShape
      BY <1>1, <1>3, <1>4, <1>5, <2>1 DEF ChunkShape
    <2> HIDE DEF c
    <2> QED BY <1>1, <2>1, <2>2, <2>3, <2>4 DEF GoodChunks
  <1>7. FlushBatch(arr, acc, k) = Append(out, c) /\ c.items = items
    BY DEF FlushBatch
  <1> HIDE DEF c, out, items
  <1>8. ItemLeaves[c] = Standing(Leaves, items)
    BY <1>6, <1>7 DEF ItemLeaves
  <1>9. Standing(ItemLeaves, Append(out, c)) = Standing(ItemLeaves, out) \o ItemLeaves[c]
    BY <1>1, <1>6, ChunkMeaning, StandingAppend
  <1>10. Append(out, c) \in Seq(GoodChunks)
    BY <1>1, <1>6
  <1> QED BY <1>1, <1>7, <1>8, <1>9, <1>10

LEMMA BatchKeeps ==
  ASSUME NEW arr \in Seq(Values), NEW P, Builds(P, Leaves, arr, Ids), NEW k \in 1..Len(arr),
         NEW acc, IsBatch(arr, P, acc, k - 1)
  PROVE  IsBatch(arr, P, BatchItem(arr, acc, k), k)
  <1> DEFINE x == arr[k]
             out == acc.out
             items == acc.items
             new == BatchItem(arr, acc, k)
  <1>1. /\ out \in Seq(GoodChunks) /\ items \in Seq(Values) /\ acc.bytes = Bytes(items)
        /\ acc.start \in Nat \ {0} /\ acc.start + Len(items) = k /\ Len(items) \in Nat
        /\ acc.bytes <= ChunkTarget \/ Len(items) <= 1
        /\ Standing(ItemLeaves, out) \o Standing(Leaves, items) = P[k - 1]
    BY DEF IsBatch
  <1>2. x \in Values /\ k \in Nat \ {0} /\ P[k] = P[k - 1] \o Leaves[x]
    <2>1. x \in Values /\ k \in Nat \ {0}
      OBVIOUS
    <2> QED BY <2>1 DEF Builds
  <1> HIDE DEF x, out, items, new
  <1>3. /\ Bytes(Append(items, x)) = acc.bytes + x.bytes /\ Bytes(<<x>>) = x.bytes
        /\ acc.bytes \in Nat /\ x.bytes \in Nat
    BY <1>1, <1>2, BytesAppend, ChunkMeaning, ValueShape
  <1>4. /\ Standing(Leaves, <<x>>) = Leaves[x] /\ Leaves[x] \in Seq(Ids)
        /\ Standing(Leaves, Append(items, x)) = Standing(Leaves, items) \o Leaves[x]
        /\ Standing(Leaves, items) \in Seq(Ids) /\ Standing(ItemLeaves, out) \in Seq(Ids)
    <2>1. Standing(Leaves, <<x>>) = Leaves[x]
      BY <1>2, ChunkMeaning, StandingFew
    <2>2. Standing(Leaves, Append(items, x)) = Standing(Leaves, items) \o Leaves[x]
      BY <1>1, <1>2, ChunkMeaning, StandingAppend
    <2>3. Standing(Leaves, items) \in Seq(Ids)
      BY <1>1, ChunkMeaning, StandingJoin
    <2>4. Standing(ItemLeaves, out) \in Seq(Ids)
      BY <1>1, ChunkMeaning, StandingJoin
    <2> QED BY <1>2, <2>1, <2>2, <2>3, <2>4, ChunkMeaning DEF IsMeaning
  <1>5. CASE items # <<>> /\ acc.bytes + x.bytes > ChunkTarget
    <2> DEFINE flushed == FlushBatch(arr, acc, k - 1)
    <2>1. /\ new.start = k /\ new.bytes = x.bytes /\ new.items = <<x>> /\ new.out = flushed
      BY <1>5, Zenon DEF BatchItem, new, x, items
    <2>2. k - 1 \in 1..Len(arr)
      <3>1. Len(items) # 0
        BY <1>1, <1>5
      <3> QED BY <1>1, <3>1
    <2>3. flushed \in Seq(GoodChunks) /\ Standing(ItemLeaves, flushed) = P[k - 1]
      BY <2>2, FlushKeeps
    <2>4. <<x>> \in Seq(Values) /\ Len(<<x>>) = 1 /\ <<x>> # <<>>
      BY <1>2
    <2> HIDE DEF flushed
    <2>5. new.bytes = Bytes(new.items) /\ new.start + Len(new.items) = k + 1
      BY <1>2, <1>3, <2>1, <2>4
    <2>6. Standing(ItemLeaves, new.out) \o Standing(Leaves, new.items) = P[k]
      BY <1>2, <1>4, <2>1, <2>3
    <2>7. new.start \in Nat \ {0} /\ Len(new.items) <= 1 /\ new.items # <<>>
      BY <1>2, <2>1, <2>4
    <2>8. new.out \in Seq(GoodChunks) /\ new.items \in Seq(Values)
      BY <2>1, <2>3, <2>4
    <2> QED BY <2>5, <2>6, <2>7, <2>8 DEF IsBatch, new
  <1>6. CASE ~(items # <<>> /\ acc.bytes + x.bytes > ChunkTarget)
    <2> DEFINE more == Append(items, x)
    <2>1. /\ new.start = acc.start /\ new.bytes = acc.bytes + x.bytes /\ new.items = more
          /\ new.out = out
      BY <1>6, Zenon DEF BatchItem, new, x, items, out
    <2>2. more \in Seq(Values) /\ Len(more) = Len(items) + 1 /\ more # <<>>
      <3>1. items \in Seq(Values) /\ x \in Values
        BY <1>1, <1>2
      <3>2. more \in Seq(Values) /\ Len(more) = Len(items) + 1 /\ Len(items) \in Nat
        BY <3>1
      <3> HIDE DEF more
      <3>3. Len(more) # 0
        BY <3>2
      <3>4. more # <<>>
        BY <3>3
      <3> QED BY <3>2, <3>4
    <2>3. Standing(ItemLeaves, out) \o Standing(Leaves, more) = P[k]
      <3> DEFINE p == Standing(ItemLeaves, out)
                 q == Standing(Leaves, items)
                 r == Leaves[x]
      <3>1. p \in Seq(Ids) /\ q \in Seq(Ids) /\ r \in Seq(Ids)
        BY <1>4
      <3> HIDE DEF p, q, r
      <3>2. (p \o q) \o r = p \o (q \o r)
        BY <3>1
      <3> QED BY <1>1, <1>2, <1>4, <3>2 DEF p, q, r
    <2>4. new.bytes <= ChunkTarget \/ Len(more) <= 1
      <3>1. CASE items = <<>>
        BY <2>2, <3>1
      <3>2. CASE items # <<>>
        <4>1. ChunkTarget \in Nat
          BY OutputAssumption
        <4> QED BY <1>3, <1>6, <2>1, <3>2, <4>1
      <3> QED BY <3>1, <3>2
    <2> HIDE DEF more
    <2>5. new.start + Len(new.items) = k + 1
      BY <1>1, <1>2, <2>1, <2>2
    <2>6. new.bytes = Bytes(new.items)
      BY <1>3, <2>1 DEF more
    <2> QED BY <1>1, <1>2, <2>1, <2>2, <2>3, <2>4, <2>5, <2>6 DEF IsBatch, new
  <1> QED BY <1>5, <1>6

Batching == INSTANCE Induction WITH Op <- BatchItem

LEMMA BatchesFit ==
  ASSUME NEW arr \in Seq(Values), arr # <<>>
  PROVE  /\ Batches(arr) \in Seq(GoodChunks)
         /\ Standing(ItemLeaves, Batches(arr)) = Standing(Leaves, arr)
  <1> DEFINE n == Len(arr)
             seq == [i \in DOMAIN arr |-> i]
             first == NoBatch
  <1>1. n \in Nat \ {0} /\ DOMAIN seq = 1..n /\ \A k \in 1..n : seq[k] = k
    OBVIOUS
  <1>2. PICK P : Builds(P, Leaves, arr, Ids) /\ Standing(Leaves, arr) = P[n]
    BY LeavesMeaning, StandingPrefixes
  <1>3. FilledBatches(arr) = Batching!FoldOf(arr, first, seq)
    BY Zenon DEF FilledBatches, Batching!FoldOf, FoldLeft, MapThenFoldSet,
                 Batching!FoldLeft, Batching!MapThenFoldSet, Max, Batching!Max
  <1> HIDE DEF n, seq, first
  <1>4. PICK f : Batching!Unrolled(f, arr, first, seq, n) /\ Batching!FoldOf(arr, first, seq) = f[n]
    <2>1. n \in Nat
      BY <1>1
    <2> QED BY <1>1, <2>1, Batching!FoldUnrolled
  <1>5. f[0] = first /\ \A k \in 1..n : f[k] = BatchItem(arr, f[k - 1], k)
    BY <1>1, <1>4 DEF Batching!Unrolled
  <1> DEFINE T == {k \in 0..n : IsBatch(arr, P, f[k], k)}
  <1>6. 0 \in T
    <2>1. first.out = <<>> /\ first.items = <<>> /\ first.bytes = 0 /\ first.start = 1
      BY DEF first, NoBatch
    <2>2. Standing(ItemLeaves, <<>>) = <<>> /\ Standing(Leaves, <<>>) = <<>>
      BY ChunkMeaning, StandingFew
    <2>3. Bytes(<<>>) = 0
      <3>1. arr \in Seq(Values) /\ arr[1] \in Values
        BY <1>1 DEF n
      <3> QED BY <3>1, BytesAppend, ChunkMeaning
    <2>4. P[0] = <<>> /\ <<>> \o <<>> = <<>> /\ 0 <= ChunkTarget
      BY <1>2, OutputAssumption DEF Builds
    <2>5. <<>> \in Seq(GoodChunks) /\ <<>> \in Seq(Values) /\ Len(<<>>) = 0
      OBVIOUS
    <2>6. IsBatch(arr, P, first, 0)
      BY <2>1, <2>2, <2>3, <2>4, <2>5 DEF IsBatch
    <2> QED BY <1>1, <1>5, <2>6
  <1>7. ASSUME NEW k \in 1..n, k - 1 \in T PROVE k \in T
    <2>1. IsBatch(arr, P, BatchItem(arr, f[k - 1], k), k)
      BY <1>2, <1>7, BatchKeeps DEF n
    <2> QED BY <1>5, <2>1
  <1>8. IsBatch(arr, P, f[n], n)
    <2> HIDE DEF T
    <2>1. 0..n \subseteq T
      BY <1>1, <1>6, <1>7, UpTo
    <2> QED BY <1>1, <2>1 DEF T
  <1>9. n \in 1..Len(arr)
    BY <1>1 DEF n
  <1>10. /\ FlushBatch(arr, f[n], n) \in Seq(GoodChunks)
         /\ Standing(ItemLeaves, FlushBatch(arr, f[n], n)) = P[n]
    BY <1>8, <1>9, FlushKeeps
  <1>11. Batches(arr) = FlushBatch(arr, f[n], n)
    BY <1>3, <1>4 DEF Batches, n
  <1> QED BY <1>2, <1>10, <1>11

\* Induction over the value.
LEMMA ChunksFit ==
  \A v \in Values : /\ ChunkJson[v] \in Seq(GoodChunks)
                    /\ Standing(ItemLeaves, ChunkJson[v]) = Leaves[v]
  <1> DEFINE G == {v \in Values : /\ ChunkJson[v] \in Seq(GoodChunks)
                                  /\ Standing(ItemLeaves, ChunkJson[v]) = Leaves[v]}
  <1>1. ASSUME NEW v \in Values, \A i \in DOMAIN v.parts : v.parts[i] \in G PROVE v \in G
    <2> DEFINE parts == v.parts
    <2>1. ChunkJson[v] = ChunkStep(0, ChunkJson, v) /\ Leaves[v] = LeafStep(0, Leaves, v)
      BY ChunksUnfold, LeavesUnfold
    <2>2. parts \in Seq(Values) /\ DOMAIN parts = 1..Len(parts) /\ Len(parts) \in Nat
      BY ValueShape
    <2>3. v.t # "scalar" => Leaves[v] = FlattenSeq([i \in DOMAIN parts |-> Leaves[parts[i]]])
      BY <2>1 DEF LeafStep
    <2>4. CASE v.t = "array" /\ parts # <<>>
      <3>1. ChunkJson[v] = Batches(parts)
        BY <2>1, <2>4 DEF ChunkStep
      <3>2. Leaves[v] = Standing(Leaves, parts)
        BY <2>3, <2>4 DEF Standing
      <3> HIDE DEF parts
      <3> QED BY <2>2, <2>4, <3>1, <3>2, BatchesFit
    <2>5. CASE v.t = "object" /\ ~(v.bytes <= ChunkTarget /\ ~HasNestedContainers(v))
      <3> DEFINE cs == [i \in DOMAIN parts |-> ChunkJson[parts[i]]]
      <3>1. ChunkJson[v] = FlattenSeq(cs)
        BY <2>1, <2>5 DEF ChunkStep
      <3>2. /\ cs \in Seq(Seq(GoodChunks)) /\ DOMAIN cs = DOMAIN parts
            /\ \A i \in DOMAIN parts : Standing(ItemLeaves, cs[i]) = Leaves[parts[i]]
        <4>1. \A i \in DOMAIN parts : /\ ChunkJson[parts[i]] \in Seq(GoodChunks)
                                      /\ Standing(ItemLeaves, ChunkJson[parts[i]]) = Leaves[parts[i]]
          BY <1>1
        <4> HIDE DEF parts
        <4> QED BY <2>2, <4>1
      <3> HIDE DEF cs
      <3>3. FlattenSeq(cs) \in Seq(GoodChunks)
        BY <3>2, FlattenType
      <3>4. Standing(ItemLeaves, FlattenSeq(cs)) = FlattenSeq([i \in DOMAIN cs |-> Standing(ItemLeaves, cs[i])])
        BY <3>2, ChunkMeaning, StandingFlatten
      <3>5. [i \in DOMAIN cs |-> Standing(ItemLeaves, cs[i])] = [i \in DOMAIN parts |-> Leaves[parts[i]]]
        BY <3>2
      <3> QED BY <2>3, <2>5, <3>1, <3>3, <3>4, <3>5
    <2>6. CASE ~(v.t = "array" /\ parts # <<>>)
               /\ ~(v.t = "object" /\ ~(v.bytes <= ChunkTarget /\ ~HasNestedContainers(v)))
      <3> DEFINE c == SingleChunk(v)
      <3>1. ChunkJson[v] = <<c>>
        BY <2>1, <2>6 DEF ChunkStep
      <3>2. c \in GoodChunks
        <4>1. c.items = <<v>> /\ c.bytes = v.bytes /\ c.first = 1 /\ c.last = 1
          BY DEF SingleChunk
        <4>2. Bytes(<<v>>) = v.bytes /\ <<v>> \in Seq(Values) /\ Len(<<v>>) = 1 /\ v.bytes \in Nat
          BY <2>2, BytesAppend, ChunkMeaning, ValueShape
        <4>3. c \in ChunkShape
          BY <4>2 DEF SingleChunk, ChunkShape
        <4> HIDE DEF c
        <4>4. c.last - c.first + 1 = Len(c.items) /\ Len(c.items) = 1 /\ c.bytes = Bytes(c.items)
          BY <4>1, <4>2
        <4> QED BY <4>3, <4>4 DEF GoodChunks
      <3>3. Standing(ItemLeaves, <<c>>) = ItemLeaves[c] /\ <<c>> \in Seq(GoodChunks)
        BY <3>2, ChunkMeaning, StandingFew
      <3>4. ItemLeaves[c] = Standing(Leaves, <<v>>)
        <4>1. c.items = <<v>>
          BY DEF SingleChunk
        <4> HIDE DEF c
        <4> QED BY <3>2, <4>1 DEF ItemLeaves
      <3>5. Standing(Leaves, <<v>>) = Leaves[v]
        BY LeavesMeaning, StandingFew
      <3> QED BY <3>1, <3>3, <3>4, <3>5
    <2> QED BY <2>4, <2>5, <2>6
  <1> HIDE DEF G
  <1>2. Values \subseteq G
    BY <1>1, ByDepth
  <1> QED BY <1>2 DEF G

-----------------------------------------------------------------------------
(* The sections of a text follow one another and leave out blank lines.    *)

LEMMA RunEnds ==
  ASSUME NEW lines \in Seq(TextLine), NEW i, IsText(lines, i)
  PROVE  \E j \in i..Len(lines) :
           (\A k \in i..j : IsText(lines, k)) /\ ~IsText(lines, j + 1)
  <1> DEFINE n == Len(lines)
             T == {d \in Nat : ~IsText(lines, i + d + 1)}
  <1>1. n \in Nat /\ i \in 1..n /\ \A k : IsText(lines, k) => k \in 1..n
    BY DEF IsText
  <1>2. n - i \in T
    <2>1. n - i \in Nat /\ i + (n - i) + 1 = n + 1 /\ n + 1 \notin 1..n
      BY <1>1
    <2> HIDE DEF n
    <2> QED BY <1>1, <2>1
  <1>3. PICK d \in T : \A e \in T : d <= e
    <2>1. T \in SUBSET Nat /\ T # {}
      BY <1>2
    <2> HIDE DEF T
    <2> QED BY <2>1, LeastNumber
  <1>4. d \in Nat /\ d <= n - i /\ ~IsText(lines, i + d + 1)
    BY <1>2, <1>3
  <1> HIDE DEF n
  <1>5. i + d \in i..n
    BY <1>1, <1>4
  <1>6. ASSUME NEW k \in i..(i + d) PROVE IsText(lines, k)
    <2>1. CASE k = i
      BY <2>1
    <2>2. CASE k # i
      <3>1. k - i - 1 \in Nat /\ k - i - 1 < d /\ i + (k - i - 1) + 1 = k
        BY <1>1, <1>4, <2>2
      <3>2. k - i - 1 \notin T
        BY <1>3, <1>4, <3>1
      <3> QED BY <3>1, <3>2
    <2> QED BY <2>1, <2>2
  <1> QED BY <1>4, <1>5, <1>6 DEF n

LEMMA RunStarts ==
  ASSUME NEW lines \in Seq(TextLine), NEW i, IsText(lines, i)
  PROVE  \E s \in 1..i : /\ IsText(lines, s) /\ ~IsText(lines, s - 1)
                         /\ \A k \in s..i : IsText(lines, k)
  <1> DEFINE n == Len(lines)
             T == {d \in Nat : ~IsText(lines, i - d - 1)}
  <1>1. n \in Nat /\ i \in 1..n /\ \A k : IsText(lines, k) => k \in 1..n
    BY DEF IsText
  <1>2. i - 1 \in T
    <2>1. i - 1 \in Nat /\ i - (i - 1) - 1 = 0 /\ 0 \notin 1..n
      BY <1>1
    <2> HIDE DEF n
    <2> QED BY <1>1, <2>1
  <1>3. PICK d \in T : \A e \in T : d <= e
    <2>1. T \in SUBSET Nat /\ T # {}
      BY <1>2
    <2> HIDE DEF T
    <2> QED BY <2>1, LeastNumber
  <1>4. d \in Nat /\ d <= i - 1 /\ ~IsText(lines, i - d - 1)
    BY <1>2, <1>3
  <1> HIDE DEF n
  <1>5. i - d \in 1..i
    BY <1>1, <1>4
  <1>6. ASSUME NEW k \in (i - d)..i PROVE IsText(lines, k)
    <2>1. CASE k = i
      BY <2>1
    <2>2. CASE k # i
      <3>1. i - k - 1 \in Nat /\ i - k - 1 < d /\ i - (i - k - 1) - 1 = k
        BY <1>1, <1>4, <2>2
      <3>2. i - k - 1 \notin T
        BY <1>3, <1>4, <3>1
      <3> QED BY <3>1, <3>2
    <2> QED BY <2>1, <2>2
  <1>7. i - d \in (i - d)..i
    BY <1>1, <1>4
  <1> QED BY <1>4, <1>5, <1>6, <1>7

AreSections(sections, lines) ==
  /\ \E m \in Nat : DOMAIN sections = 1..m
  /\ \A k \in DOMAIN sections : sections[k][1] \in 1..Len(lines) /\ sections[k][2] \in 1..Len(lines)
  /\ SectionsFollow(sections, lines)

LEMMA ParagraphsFollow ==
  ASSUME NEW lines \in Seq(TextLine)
  PROVE  AreSections(Paragraphs(lines), lines)
  <1> DEFINE n == Len(lines)
             S == {i \in DOMAIN lines : IsText(lines, i) /\ ~IsText(lines, i - 1)}
             m == Cardinality(S)
             starts == Sorted(S, <)
             stop(i) == CHOOSE j \in i..Len(lines) :
                          (\A k \in i..j : IsText(lines, k)) /\ ~IsText(lines, j + 1)
             sections == [k \in 1..m |-> <<starts[k], stop(starts[k])>>]
  <1>1. /\ n \in Nat /\ DOMAIN lines = 1..n /\ S \in SUBSET (1..n) /\ S \in SUBSET Nat
        /\ \A k : IsText(lines, k) => k \in 1..n
        /\ \A s \in S : IsText(lines, s) /\ ~IsText(lines, s - 1) /\ s \in 1..n
    BY DEF IsText
  <1>2. /\ m \in Nat /\ starts \in [1..m -> S]
        /\ \A i, j \in 1..m : i < j => starts[i] < starts[j]
        /\ \A x \in S : \E i \in 1..m : starts[i] = x
    <2>1. IsFiniteSet(S)
      <3>1. IsFiniteSet(1..n)
        BY <1>1, FS_Interval
      <3> HIDE DEF S, n
      <3> QED BY <1>1, <3>1, FS_Subset
    <2> HIDE DEF S
    <2> QED BY <1>1, <2>1, FromTheLeft
  <1>3. ASSUME NEW s \in S
        PROVE  /\ stop(s) \in s..n /\ \A k \in s..stop(s) : IsText(lines, k)
               /\ ~IsText(lines, stop(s) + 1)
    <2>1. IsText(lines, s)
      BY <1>1
    <2>2. \E j \in s..Len(lines) :
            (\A k \in s..j : IsText(lines, k)) /\ ~IsText(lines, j + 1)
      BY <2>1, RunEnds
    <2> HIDE DEF S
    <2> QED BY <2>2
  <1>4. Paragraphs(lines) = sections
    <2>1. DOMAIN starts = 1..m
      BY <1>2
    <2>2. Paragraphs(lines) = [k \in DOMAIN starts |-> <<starts[k], stop(starts[k])>>]
      BY Zenon DEF Paragraphs
    <2> HIDE DEF starts, m
    <2> QED BY <2>1, <2>2
  <1> HIDE DEF n, m, S, starts, stop
  <1>5. /\ DOMAIN sections = 1..m
        /\ \A k \in 1..m : /\ sections[k][1] = starts[k] /\ sections[k][2] = stop(starts[k])
                           /\ starts[k] \in S
    BY <1>2
  <1> HIDE DEF sections
  <1>6. ASSUME NEW k \in 1..m
        PROVE  /\ sections[k][1] \in 1..n /\ sections[k][2] \in 1..n
               /\ sections[k][1] \in 1..sections[k][2]
    <2> DEFINE s == starts[k]
    <2>1. s \in S /\ s \in 1..n /\ stop(s) \in s..n /\ sections[k][1] = s /\ sections[k][2] = stop(s)
      BY <1>1, <1>3, <1>5
    <2> HIDE DEF s
    <2> QED BY <1>1, <2>1
  <1>7. ASSUME NEW k \in 1..m, NEW l \in 1..m, k < l PROVE sections[k][2] < sections[l][1]
    <2> DEFINE s == starts[k]
               t == starts[l]
    <2>1. s \in S /\ t \in S /\ s < t /\ sections[k][2] = stop(s) /\ sections[l][1] = t
      BY <1>2, <1>5, <1>7
    <2> HIDE DEF s, t
    <2>2. s \in 1..n /\ t \in 1..n /\ stop(s) \in s..n /\ ~IsText(lines, t - 1)
      BY <1>1, <1>3, <2>1
    <2>3. t - 1 \notin s..stop(s)
      BY <1>3, <2>1, <2>2
    <2>4. stop(s) < t
      BY <1>1, <2>1, <2>2, <2>3
    <2> QED BY <2>1, <2>4
  <1>8. ASSUME NEW i \in DOMAIN lines, ~lines[i].blank
        PROVE  \E k \in 1..m : i \in sections[k][1]..sections[k][2]
    <2>1. IsText(lines, i)
      BY <1>8 DEF IsText
    <2>2. PICK s \in 1..i : /\ IsText(lines, s) /\ ~IsText(lines, s - 1)
                            /\ \A k \in s..i : IsText(lines, k)
      BY <2>1, RunStarts
    <2>3. s \in S
      BY <1>1, <2>2 DEF S
    <2>4. stop(s) \in s..n /\ ~IsText(lines, stop(s) + 1) /\ i \in 1..n /\ s \in 1..n
      BY <1>1, <1>3, <2>1, <2>3
    <2>5. i <= stop(s)
      <3>1. stop(s) + 1 \notin s..i
        BY <2>2, <2>4
      <3> QED BY <1>1, <2>4, <3>1
    <2>6. PICK k \in 1..m : starts[k] = s
      BY <1>2, <2>3
    <2>7. i \in sections[k][1]..sections[k][2]
      BY <1>1, <1>5, <2>2, <2>4, <2>5, <2>6
    <2> QED BY <2>7
  <1>9. SectionsFollow(sections, lines)
    BY <1>1, <1>5, <1>6, <1>7, <1>8 DEF SectionsFollow
  <1>10. \A k \in DOMAIN sections : sections[k][1] \in 1..Len(lines) /\ sections[k][2] \in 1..Len(lines)
    BY <1>5, <1>6 DEF n
  <1> QED BY <1>2, <1>4, <1>5, <1>9, <1>10 DEF AreSections

\* How many groups there are: the last one starts within the text.
LEMMA GroupCount ==
  ASSUME NEW n \in Nat, NEW g \in Nat \ {0}
  PROVE  /\ (n + g - 1) \div g \in Nat
         /\ \A k \in Nat \ {0} : k <= (n + g - 1) \div g <=> (k - 1) * g < n
  <1> DEFINE c == (n + g - 1) \div g
  <1>1. c \in Nat /\ c * g <= n + g - 1 /\ n - 1 < c * g
    OBVIOUS
  <1> HIDE DEF c
  <1>2. ASSUME NEW k \in Nat \ {0}, k <= c PROVE (k - 1) * g < n
    <2>1. k * g <= c * g
      BY <1>1, <1>2
    <2>2. (k - 1) * g = k * g - g
      OBVIOUS
    <2> QED BY <1>1, <2>1, <2>2
  <1>3. ASSUME NEW k \in Nat \ {0}, ~(k <= c) PROVE ~((k - 1) * g < n)
    <2>1. c * g <= (k - 1) * g
      BY <1>1, <1>3
    <2> QED BY <1>1, <2>1
  <1> QED BY <1>1, <1>2, <1>3 DEF c

LEMMA GroupOf ==
  ASSUME NEW a \in Nat, NEW g \in Nat \ {0}
  PROVE  \E d \in Nat : d * g \in Nat /\ d * g <= a /\ a < d * g + g /\ (d + 1) * g = d * g + g
  <1> DEFINE d == a \div g
  <1>1. d \in Nat /\ d * g <= a /\ a < d * g + g
    OBVIOUS
  <1> HIDE DEF d
  <1>2. d * g \in Nat /\ (d + 1) * g = d * g + g
    BY <1>1
  <1> QED BY <1>1, <1>2

LEMMA GroupsFollow ==
  ASSUME NEW lines \in Seq(TextLine)
  PROVE  AreSections(Groups(lines), lines)
  <1> DEFINE n == Len(lines)
             g == GroupLines
             c == (n + g - 1) \div g
             sections == Groups(lines)
  <1>1. n \in Nat /\ DOMAIN lines = 1..n /\ g \in Nat \ {0}
    BY OutputAssumption
  <1> HIDE DEF n, g
  <1>2. c \in Nat /\ \A k \in Nat \ {0} : k <= c <=> (k - 1) * g < n
    BY <1>1, GroupCount
  <1> HIDE DEF c
  <1>3. /\ DOMAIN sections = 1..c
        /\ \A k \in 1..c : sections[k][1] = (k - 1) * g + 1 /\ sections[k][2] = LeastOf(k * g, n)
    BY DEF Groups, n, g, c
  <1> HIDE DEF sections
  <1>4. ASSUME NEW k \in 1..c
        PROVE  /\ sections[k][1] \in 1..n /\ sections[k][2] \in 1..n
               /\ sections[k][1] \in 1..sections[k][2] /\ sections[k][2] <= k * g
    <2> DEFINE p == (k - 1) * g
               q == k * g
    <2>1. k \in Nat \ {0} /\ k <= c
      BY <1>2
    <2>2. p \in Nat /\ q = p + g /\ p < n
      BY <1>1, <1>2, <2>1
    <2>3. sections[k][1] = p + 1 /\ sections[k][2] = IF q <= n THEN q ELSE n
      BY <1>3 DEF LeastOf
    <2> HIDE DEF p, q
    <2>4. sections[k][2] <= q
      <3>1. CASE q <= n
        BY <1>1, <2>2, <2>3, <3>1
      <3>2. CASE ~(q <= n)
        BY <1>1, <2>2, <2>3, <3>2
      <3> QED BY <3>1, <3>2
    <2> QED BY <1>1, <2>2, <2>3, <2>4 DEF q
  <1>5. ASSUME NEW k \in 1..c, NEW l \in 1..c, k < l PROVE sections[k][2] < sections[l][1]
    <2>1. k * g <= (l - 1) * g /\ k * g \in Int /\ (l - 1) * g \in Int
      BY <1>1, <1>2, <1>5
    <2>2. sections[l][1] = (l - 1) * g + 1 /\ sections[k][2] <= k * g /\ sections[k][2] \in Int
      BY <1>3, <1>4
    <2> QED BY <2>1, <2>2
  <1>6. ASSUME NEW i \in DOMAIN lines PROVE \E k \in 1..c : i \in sections[k][1]..sections[k][2]
    <2>1. i \in 1..n /\ i - 1 \in Nat
      BY <1>1
    <2>2. PICK d \in Nat : d * g \in Nat /\ d * g <= i - 1 /\ i - 1 < d * g + g /\ (d + 1) * g = d * g + g
      BY <1>1, <2>1, GroupOf
    <2> DEFINE p == d * g
    <2>3. d + 1 \in 1..c
      <3>1. d + 1 \in Nat \ {0} /\ ((d + 1) - 1) * g < n
        <4>1. (d + 1) - 1 = d /\ p < n
          BY <1>1, <2>1, <2>2
        <4> QED BY <4>1
      <3>2. d + 1 <= c
        BY <1>2, <3>1
      <3> QED BY <1>2, <3>1, <3>2
    <2>4. sections[d + 1][1] = p + 1 /\ sections[d + 1][2] = LeastOf(p + g, n)
      <3>1. (d + 1) - 1 = d
        OBVIOUS
      <3> QED BY <1>3, <2>2, <2>3, <3>1
    <2>5. i \in sections[d + 1][1]..sections[d + 1][2]
      <3>1. p \in Nat /\ p <= i - 1 /\ i - 1 < p + g
        BY <2>2
      <3> HIDE DEF p
      <3>2. i >= p + 1 /\ i <= p + g /\ i <= n
        BY <1>1, <2>1, <3>1
      <3>3. i <= LeastOf(p + g, n) /\ LeastOf(p + g, n) \in Int
        BY <1>1, <3>1, <3>2 DEF LeastOf
      <3> QED BY <2>1, <2>4, <3>1, <3>2, <3>3
    <2> QED BY <2>3, <2>5
  <1>7. SectionsFollow(sections, lines)
    BY <1>1, <1>3, <1>4, <1>5, <1>6 DEF SectionsFollow
  <1>8. \A k \in DOMAIN sections : sections[k][1] \in 1..Len(lines) /\ sections[k][2] \in 1..Len(lines)
    BY <1>3, <1>4 DEF n
  <1> QED BY <1>2, <1>3, <1>7, <1>8 DEF AreSections, sections

LEMMA SplitFollows ==
  ASSUME NEW lines \in Seq(TextLine)
  PROVE  AreSections(SplitIntoChunks(lines), lines)
  BY ParagraphsFollow, GroupsFollow DEF SplitIntoChunks

\* A filtered text is a header and the relevant sections in their order.
LEMMA FilterKeeps ==
  ASSUME NEW lines \in Seq(TextLine), NEW intent
  PROVE  LET sections == SplitIntoChunks(lines)
             relevant == {k \in DOMAIN sections : Relevant(lines, sections[k], intent)}
             section(k) == SubSeq(lines, sections[k][1], sections[k][2])
             filtered == FilterByIntent(lines, intent)
         IN  /\ filtered \in Seq(TextLine)
             /\ Bytes(lines) < IntentThreshold => filtered = lines
             /\ filtered # lines =>
                  \E ks \in [1..Cardinality(relevant) -> relevant] :
                    /\ \A i, j \in DOMAIN ks : i < j => ks[i] < ks[j]
                    /\ Tail(filtered) = Flattened(ks, section)
  <1> DEFINE sections == SplitIntoChunks(lines)
             relevant == {k \in DOMAIN sections : Relevant(lines, sections[k], intent)}
             section(k) == SubSeq(lines, sections[k][1], sections[k][2])
             filtered == FilterByIntent(lines, intent)
             header == [bytes |-> 2, terms |-> {}, blank |-> FALSE]
             m == Cardinality(relevant)
             ks == RelevantAt(lines, intent)
             ss == [i \in DOMAIN ks |-> section(ks[i])]
  <1>1. AreSections(sections, lines)
    BY SplitFollows
  <1> HIDE DEF sections
  <1>2. PICK n \in Nat : DOMAIN sections = 1..n
    BY <1>1 DEF AreSections
  <1>3. /\ m \in Nat /\ ks \in [1..m -> relevant]
        /\ \A i, j \in 1..m : i < j => ks[i] < ks[j]
    <2>1. IsFiniteSet(relevant) /\ relevant \in SUBSET Nat
      <3>1. IsFiniteSet(1..n) /\ relevant \in SUBSET (1..n) /\ 1..n \subseteq Nat
        BY <1>2, FS_Interval
      <3> HIDE DEF relevant
      <3>2. IsFiniteSet(relevant)
        BY <3>1, FS_Subset
      <3> QED BY <3>1, <3>2
    <2>2. ks = Sorted(relevant, <)
      BY Zenon DEF RelevantAt, sections
    <2> HIDE DEF relevant, ks
    <2> QED BY <2>1, <2>2, FromTheLeft
  <1>4. FlattenSeq(ss) \in Seq(TextLine)
    <2>1. \A k \in relevant : section(k) \in Seq(TextLine)
      <3>1. \A k \in relevant : sections[k][1] \in 1..Len(lines) /\ sections[k][2] \in 1..Len(lines)
        BY <1>1 DEF AreSections
      <3> HIDE DEF relevant
      <3> QED BY <3>1
    <2>2. ss \in Seq(Seq(TextLine))
      <3> HIDE DEF relevant, ks, section
      <3>1. DOMAIN ks = 1..m /\ \A i \in 1..m : section(ks[i]) \in Seq(TextLine)
        BY <1>3, <2>1
      <3> HIDE DEF m
      <3> QED BY <1>3, <3>1
    <2> HIDE DEF ss
    <2> QED BY <2>2, FlattenType
  <1>5. Flattened(ks, section) = FlattenSeq(ss)
    BY Zenon DEF Flattened
  <1>6. /\ filtered = lines \/ filtered = <<header>> \o FlattenSeq(ss)
        /\ Bytes(lines) < IntentThreshold => filtered = lines
    <2>1. filtered = IF \/ Bytes(lines) < IntentThreshold \/ intent = {}
                        \/ Len(sections) <= 1 \/ ks = <<>>
                     THEN lines ELSE <<header>> \o Flattened(ks, section)
      BY Zenon DEF FilterByIntent, sections
    <2> HIDE DEF filtered, ks, section, header, ss
    <2> QED BY <1>5, <2>1, Zenon
  <1>7. header \in TextLine
    BY DEF TextLine
  <1>8. <<header>> \o FlattenSeq(ss) \in Seq(TextLine) /\ Tail(<<header>> \o FlattenSeq(ss)) = FlattenSeq(ss)
    <2> DEFINE rest == FlattenSeq(ss)
    <2> HIDE DEF rest, header
    <2>1. rest \in Seq(TextLine) /\ header \in TextLine
      BY <1>4, <1>7 DEF rest
    <2>2. <<header>> \o rest \in Seq(TextLine) /\ Tail(<<header>> \o rest) = rest
      BY <2>1
    <2> QED BY <2>2 DEF rest
  <1>9. filtered \in Seq(TextLine)
    <2> HIDE DEF filtered, ss, header
    <2> QED BY <1>6, <1>8
  <1>10. ASSUME filtered # lines
         PROVE  \E js \in [1..m -> relevant] :
                  /\ \A i, j \in DOMAIN js : i < j => js[i] < js[j]
                  /\ Tail(filtered) = Flattened(js, section)
    <2>1. Tail(filtered) = Flattened(ks, section)
      <3> HIDE DEF filtered, ss, header, ks, section
      <3> QED BY <1>5, <1>6, <1>8, <1>10
    <2>2. ks \in [1..m -> relevant] /\ \A i, j \in DOMAIN ks : i < j => ks[i] < ks[j]
      <3> HIDE DEF ks, m, relevant
      <3>1. DOMAIN ks = 1..m
        BY <1>3
      <3> QED BY <1>3, <3>1
    <2> HIDE DEF filtered, ks, m, relevant, section
    <2> QED BY <2>1, <2>2
  <1> QED BY <1>6, <1>9, <1>10, Zenon DEF sections

-----------------------------------------------------------------------------
(* Truncation: what is kept of the head and the tail fits the limit.       *)

LEMMA TextSized == IsSized(TextLine) /\ \A x \in TextLine : x.bytes \in Nat \ {0}
  BY DEF IsSized, TextLine

LEMMA FittingIn ==
  ASSUME NEW n \in Nat, NEW w \in [0..n -> Int], NEW budget \in Nat, w[0] <= budget
  PROVE  \E k \in 0..n : w[k] <= budget /\ (k < n => w[k + 1] > budget)
  <1> DEFINE T == {k \in Nat : k = n \/ (k < n /\ w[k + 1] > budget)}
  <1>1. PICK k \in T : \A j \in T : k <= j
    <2>1. T \in SUBSET Nat /\ n \in T
      OBVIOUS
    <2> HIDE DEF T
    <2> QED BY <2>1, LeastNumber
  <1>2. k \in 0..n /\ (k < n => w[k + 1] > budget)
    BY <1>1
  <1>3. w[k] <= budget
    <2>1. CASE k = 0
      BY <2>1
    <2>2. CASE k # 0
      <3>1. k - 1 \in Nat /\ k - 1 < n /\ (k - 1) + 1 = k /\ k - 1 \notin T
        BY <1>1, <1>2, <2>2
      <3>2. ~(w[(k - 1) + 1] > budget)
        BY <3>1
      <3>3. w[k] \in Int
        BY <1>2
      <3> QED BY <3>1, <3>2, <3>3
    <2> QED BY <2>1, <2>2
  <1> QED BY <1>2, <1>3

\* The bytes of what is taken from either end, by the sums over the first lines.
LEMMA EndsBytes ==
  ASSUME NEW lines \in Seq(TextLine), NEW T, Totals(T, lines), NEW k \in 0..Len(lines)
  PROVE  /\ Bytes(FirstLines(lines, k)) = T[k]
         /\ Bytes(LastLines(lines, k)) = T[Len(lines)] - T[Len(lines) - k]
         /\ T[k] \in Int /\ T[Len(lines)] \in Int /\ T[Len(lines) - k] \in Int /\ T[0] = 0
  <1> DEFINE n == Len(lines)
  <1>1. n \in Nat /\ n \in 0..n /\ k \in 0..n /\ 0 \in 0..k /\ n - k \in 0..n /\ 0 + 1 = 1
    OBVIOUS
  <1>2. T[0] = 0 /\ T[k] \in Int /\ T[n] \in Int /\ T[n - k] \in Int
    BY <1>1 DEF Totals
  <1>3. Bytes(SubSeq(lines, 0 + 1, k)) = T[k] - T[0]
    BY <1>1, TextSized, BytesRange
  <1> DEFINE a == n - k
  <1>4. a \in 0..n
    BY <1>1
  <1> HIDE DEF a
  <1>5. Bytes(SubSeq(lines, a + 1, n)) = T[n] - T[a]
    BY <1>1, <1>4, TextSized, BytesRange
  <1> QED BY <1>1, <1>2, <1>3, <1>5 DEF FirstLines, LastLines, a

LEMMA Fits ==
  ASSUME NEW lines \in Seq(TextLine), NEW T, Totals(T, lines), NEW budget \in Nat
  PROVE  LET n == Len(lines)
             first == Fitting(lines, FirstLines, budget)
             last == Fitting(lines, LastLines, budget)
         IN  /\ first \in 0..n /\ T[first] <= budget /\ (first < n => T[first + 1] > budget)
             /\ last \in 0..n /\ T[n] - T[n - last] <= budget
  <1> DEFINE n == Len(lines)
             first == Fitting(lines, FirstLines, budget)
             last == Fitting(lines, LastLines, budget)
             w == [k \in 0..n |-> T[k]]
             u == [k \in 0..n |-> T[n] - T[n - k]]
  <1>1. /\ n \in Nat
        /\ \A k \in 0..n : /\ Bytes(FirstLines(lines, k)) = T[k]
                           /\ Bytes(LastLines(lines, k)) = T[n] - T[n - k]
                           /\ T[k] \in Int /\ T[n] \in Int /\ T[n - k] \in Int /\ T[0] = 0
    BY EndsBytes
  <1> HIDE DEF n
  <1>2. \E k \in 0..n : Bytes(FirstLines(lines, k)) <= budget /\ (k < n => Bytes(FirstLines(lines, k + 1)) > budget)
    <2>1. w \in [0..n -> Int] /\ w[0] <= budget /\ \A k \in 0..n : w[k] = T[k]
      BY <1>1
    <2> HIDE DEF w
    <2>2. PICK k \in 0..n : w[k] <= budget /\ (k < n => w[k + 1] > budget)
      BY <1>1, <2>1, FittingIn
    <2>3. k < n => k + 1 \in 0..n
      BY <1>1
    <2> QED BY <1>1, <2>1, <2>2, <2>3
  <1>3. \E k \in 0..n : Bytes(LastLines(lines, k)) <= budget /\ (k < n => Bytes(LastLines(lines, k + 1)) > budget)
    <2>1. u \in [0..n -> Int] /\ u[0] <= budget /\ \A k \in 0..n : u[k] = T[n] - T[n - k]
      BY <1>1
    <2> HIDE DEF u
    <2>2. PICK k \in 0..n : u[k] <= budget /\ (k < n => u[k + 1] > budget)
      BY <1>1, <2>1, FittingIn
    <2>3. k < n => k + 1 \in 0..n
      BY <1>1
    <2> QED BY <1>1, <2>1, <2>2, <2>3
  <1>4. /\ first \in 0..n /\ Bytes(FirstLines(lines, first)) <= budget
        /\ first < n => Bytes(FirstLines(lines, first + 1)) > budget
    BY <1>2, Zenon DEF Fitting, n
  <1>5. last \in 0..n /\ Bytes(LastLines(lines, last)) <= budget
    BY <1>3, Zenon DEF Fitting, n
  <1> HIDE DEF first, last
  <1>6. first < n => first + 1 \in 0..n
    BY <1>1, <1>4
  <1> QED BY <1>1, <1>4, <1>5, <1>6 DEF first, last, n

CutShape == [head : Nat, tail : Nat, bytes : Int, 
             cut : {"no", "head", "middle", "lines"}]

LEMMA Budgets ==
  ASSUME NEW max \in Nat
  PROVE  /\ HeadBudget(max) \in Nat /\ max - HeadBudget(max) \in Nat /\ (max * 4) \div 10 \in Nat
         /\ HeadBudget(max) + (max * 4) \div 10 <= max
  BY DEF HeadBudget

CutFits(r, lines, max) ==
  /\ r \in CutShape /\ r.head + r.tail <= Len(lines)
  /\ r.bytes <= max \/ lines[1].bytes > HeadBudget(max)
  /\ r.bytes = Bytes(lines) => r.cut = "no"
  /\ Bytes(lines) <= max => r = Whole(lines)

LEMMA WholeFits ==
  ASSUME NEW lines \in Seq(TextLine), NEW max \in Nat, Bytes(lines) <= max
  PROVE  CutFits(Whole(lines), lines, max)
  <1> DEFINE r == Whole(lines)
  <1>1. Bytes(lines) \in Int
    BY TextSized, BytesTotal, BytesOf
  <1>2. r.head = Len(lines) /\ r.tail = 0 /\ r.bytes = Bytes(lines) /\ r.cut = "no" /\ r \in CutShape
    BY <1>1 DEF Whole, CutShape
  <1>3. Len(lines) \in Nat
    OBVIOUS
  <1> HIDE DEF r
  <1> QED BY <1>1, <1>2, <1>3 DEF CutFits, r

LEMMA OneLineFits ==
  ASSUME NEW lines \in Seq(TextLine), NEW max \in Nat, Bytes(lines) > max, Len(lines) <= 1
  PROVE  CutFits(OneLine(Bytes(lines), max), lines, max)
  <1> DEFINE b == Bytes(lines)
             h == HeadBudget(max)
             w == (max * 4) \div 10
             s == b - LeastOf(b, w)
             r == OneLine(b, max)
  <1>1. PICK T : Totals(T, lines) /\ b = T[Len(lines)]
    BY TextSized, BytesTotal
  <1>2. b \in Int /\ b > max /\ Len(lines) = 1
    <2>1. b \in Int /\ b > max
      BY <1>1, TextSized, BytesOf
    <2>2. Len(lines) # 0
      <3> HIDE DEF b
      <3> QED BY <1>1, <2>1 DEF Totals
    <2>3. Len(lines) = 1
      <3> DEFINE k == Len(lines)
      <3>1. k \in Nat /\ k <= 1 /\ k # 0
        BY <2>2
      <3> HIDE DEF k
      <3>2. k = 1
        BY <3>1
      <3> QED BY <3>2 DEF k
    <2> QED BY <2>1, <2>3
  <1>3. h \in Nat /\ w \in Nat /\ h + w <= max
    BY Budgets
  <1>4. r = IF s <= h THEN [head |-> 1, tail |-> 0, bytes |-> max, cut |-> "head"]
            ELSE [head |-> 1, tail |-> 0, bytes |-> h + b - s, cut |-> "middle"]
    BY Zenon DEF OneLine
  <1> HIDE DEF b, h, w, r
  <1>5. s \in Int /\ h + b - s <= max /\ h + b - s \in Int
    BY <1>2, <1>3 DEF LeastOf
  <1> HIDE DEF s
  <1>6. r \in CutShape /\ r.head = 1 /\ r.tail = 0 /\ r.bytes \in Int /\ r.bytes <= max
    <2>1. CASE s <= h
      BY <1>4, <2>1 DEF CutShape
    <2>2. CASE ~(s <= h)
      BY <1>4, <1>5, <2>2 DEF CutShape
    <2> QED BY <2>1, <2>2
  <1>7. r.bytes # Bytes(lines) /\ ~(Bytes(lines) <= max)
    BY <1>2, <1>6 DEF b
  <1> QED BY <1>2, <1>6, <1>7 DEF CutFits, r, b

LEMMA LinesFit ==
  ASSUME NEW lines \in Seq(TextLine), NEW max \in Nat, Bytes(lines) > max, Len(lines) > 1
  PROVE  CutFits(TruncateOutput(lines, max), lines, max)
  <1> DEFINE n == Len(lines)
             b == Bytes(lines)
             h == HeadBudget(max)
             rest == max - h
             fit == Fitting(lines, FirstLines, h)
             wanted == Fitting(lines, LastLines, rest)
             head == HeadCount(lines, max)
             tail == TailCount(lines, max)
             kept == Bytes(FirstLines(lines, head)) + Bytes(LastLines(lines, tail))
             r == TruncateOutput(lines, max)
  <1>1. PICK T : Totals(T, lines) /\ b = T[n]
    BY TextSized, BytesTotal
  <1>2. n \in Nat /\ n > 1 /\ b \in Int /\ b > max /\ h \in Nat /\ rest \in Nat /\ h + rest = max
    <2>1. b \in Int /\ b > max
      BY <1>1, TextSized, BytesOf
    <2>2. h \in Nat /\ rest \in Nat
      BY Budgets
    <2>3. n \in Nat /\ n > 1
      OBVIOUS
    <2>4. h + rest = max
      <3> HIDE DEF h
      <3> QED BY <2>2
    <2> QED BY <2>1, <2>2, <2>3, <2>4
  <1>3. /\ fit \in 0..n /\ T[fit] <= h /\ (fit < n => T[fit + 1] > h)
        /\ wanted \in 0..n /\ T[n] - T[n - wanted] <= rest
    <2>1. fit \in 0..n /\ T[fit] <= h /\ (fit < n => T[fit + 1] > h)
      <3> HIDE DEF h
      <3> QED BY <1>1, <1>2, Fits
    <2>2. wanted \in 0..n /\ T[n] - T[n - wanted] <= rest
      <3> HIDE DEF rest
      <3> QED BY <1>1, <1>2, Fits
    <2> QED BY <2>1, <2>2
  <1>4. /\ head = IF fit = 0 THEN 1 ELSE fit
        /\ tail = IF head + wanted > n THEN n - head ELSE wanted
    BY Zenon DEF HeadCount, TailCount
  <1>5. r = IF head + tail = n THEN Whole(lines)
            ELSE [head |-> head, tail |-> tail, cut |-> "lines", bytes |-> kept]
    <2>1. ~(b <= max) /\ ~(n <= 1)
      BY <1>2
    <2> QED BY <2>1, Zenon DEF TruncateOutput
  <1> HIDE DEF b, h, rest, fit, wanted, head, tail, r
  <1>6. /\ head \in 1..n /\ tail \in 0..n /\ head + tail <= n /\ tail <= wanted
        /\ n - tail \in 0..n /\ n - wanted \in 0..(n - tail) /\ head <= n - tail
    <2>1. head \in 1..n
      BY <1>2, <1>3, <1>4
    <2>2. tail \in 0..n /\ head + tail <= n /\ tail <= wanted
      <3>1. CASE head + wanted > n
        <4>1. tail = n - head
          BY <1>4, <3>1
        <4> QED BY <1>2, <1>3, <2>1, <3>1, <4>1
      <3>2. CASE ~(head + wanted > n)
        <4>1. tail = wanted
          BY <1>4, <3>2
        <4> QED BY <1>2, <1>3, <2>1, <3>2, <4>1
      <3> QED BY <3>1, <3>2
    <2> QED BY <1>2, <1>3, <2>1, <2>2
  <1>7. /\ T[head] \in Int /\ T[n] \in Int /\ T[n - tail] \in Int /\ T[n - wanted] \in Int
        /\ T[0] = 0 /\ T[fit] \in Int /\ T[1] = lines[1].bytes /\ T[1] \in Int
        /\ kept = T[head] + (T[n] - T[n - tail])
    <2>1. \A k \in 0..n : T[k] \in Int
      BY <1>1 DEF Totals, n
    <2>2. T[0] = 0 /\ T[1] = T[1 - 1] + lines[1].bytes /\ 1 - 1 = 0 /\ lines[1].bytes \in Int
      <3>1. 1 \in 1..n /\ lines[1] \in TextLine
        BY <1>2
      <3> QED BY <1>1, <3>1, TextSized DEF Totals
    <2>3. n \in 0..n /\ 1 \in 0..n /\ head \in 0..n /\ n - wanted \in 0..n
      BY <1>2, <1>3, <1>6
    <2>4. Bytes(FirstLines(lines, head)) = T[head] /\ Bytes(LastLines(lines, tail)) = T[n] - T[n - tail]
      BY <1>1, <1>6, <2>3, EndsBytes
    <2>5. T[head] \in Int /\ T[n] \in Int /\ T[n - tail] \in Int /\ T[n - wanted] \in Int
      BY <1>6, <2>1, <2>3
    <2>6. T[0] = 0 /\ T[fit] \in Int
      BY <1>3, <2>1, <2>2
    <2>7. T[1] = lines[1].bytes /\ T[1] \in Int
      <3> DEFINE p == lines[1].bytes
      <3>1. T[1] = T[0] + p /\ T[0] = 0 /\ p \in Int
        BY <2>2
      <3> HIDE DEF p
      <3>2. T[1] = p
        BY <3>1
      <3> QED BY <3>1, <3>2 DEF p
    <2>8. kept = T[head] + (T[n] - T[n - tail])
      BY <2>4
    <2> HIDE DEF kept
    <2> QED BY <2>5, <2>6, <2>7, <2>8
  <1>8. T[n - wanted] <= T[n - tail]
    <2> DEFINE p == n - wanted
               q == n - tail
    <2>1. q \in 0..n /\ p \in 0..q
      BY <1>6
    <2> HIDE DEF p, q
    <2>2. T[p] <= T[q]
      BY <1>1, <2>1, TextSized, TotalsRise
    <2> QED BY <2>2 DEF p, q
  <1>9. kept \in Int /\ (kept <= max \/ lines[1].bytes > h)
    <2>1. T[n] - T[n - tail] <= rest
      <3> DEFINE p == T[n - wanted]
                 q == T[n - tail]
                 t == T[n]
      <3>1. p \in Int /\ q \in Int /\ t \in Int
        BY <1>7
      <3>2. p <= q /\ t - p <= rest
        BY <1>3, <1>8
      <3>3. rest \in Int
        BY <1>2
      <3> HIDE DEF p, q, t
      <3>4. t - q <= rest
        BY <3>1, <3>2, <3>3
      <3> QED BY <3>4 DEF t, q
    <2>2. CASE fit = 0
      <3>1. T[0 + 1] > h
        BY <1>2, <1>3, <2>2
      <3> QED BY <1>7, <3>1
    <2>3. CASE fit # 0
      <3>1. T[head] <= h
        BY <1>3, <1>4, <2>3
      <3> QED BY <1>2, <1>7, <2>1, <3>1
    <2> QED BY <2>2, <2>3
  <1>10. CASE head + tail = n
    <2>1. r = Whole(lines) /\ r.head = n /\ r.tail = 0 /\ r.bytes = b /\ r.cut = "no" /\ r \in CutShape
      BY <1>2, <1>5, <1>10 DEF Whole, CutShape, n, b
    <2>2. kept = b
      <3>1. n - tail = head
        BY <1>6, <1>10
      <3> QED BY <1>1, <1>7, <3>1
    <2> QED BY <1>2, <1>9, <2>1, <2>2 DEF CutFits, n, b, h, r
  <1>11. CASE head + tail # n
    <2>1. r.head = head /\ r.tail = tail /\ r.bytes = kept /\ r \in CutShape
      <3> HIDE DEF kept
      <3> QED BY <1>5, <1>6, <1>9, <1>11 DEF CutShape
    <2>2. T[n - tail] - T[head] >= 1
      <3> DEFINE q == n - tail
      <3>1. q \in 0..n /\ head \in 0..q /\ q - head >= 1
        BY <1>6, <1>11
      <3> HIDE DEF q
      <3>2. \A k \in 1..n : lines[k].bytes > 0
        <4>1. \A k \in 1..n : lines[k] \in TextLine
          BY DEF n
        <4> QED BY <4>1, TextSized
      <3>3. q - head <= T[q] - T[head] /\ T[q] \in Int /\ T[head] \in Int
        BY <1>1, <3>1, <3>2, TextSized, TotalsRise DEF n
      <3>4. T[q] - T[head] >= 1
        BY <1>6, <3>1, <3>3
      <3> QED BY <3>4 DEF q
    <2>3. kept # b
      BY <1>1, <1>7, <2>2
    <2> HIDE DEF kept
    <2> QED BY <1>2, <1>6, <1>9, <2>1, <2>3 DEF CutFits, n, b, h, r
  <1> QED BY <1>10, <1>11

LEMMA TruncateFits ==
  ASSUME NEW lines \in Seq(TextLine), NEW max \in Nat
  PROVE  /\ CutFits(TruncateOutput(lines, max), lines, max)
         /\ CutFits(SimpleTruncate(lines, max), lines, max)
  <1>1. Bytes(lines) \in Int /\ Len(lines) \in Nat
    BY TextSized, BytesTotal, BytesOf
  <1>2. CASE Bytes(lines) <= max
    <2>1. TruncateOutput(lines, max) = Whole(lines) /\ SimpleTruncate(lines, max) = Whole(lines)
      BY <1>2, Zenon DEF TruncateOutput, SimpleTruncate
    <2> QED BY <1>2, <2>1, WholeFits
  <1>3. CASE ~(Bytes(lines) <= max)
    <2>1. Bytes(lines) > max
      BY <1>1, <1>3
    <2>2. CutFits(TruncateOutput(lines, max), lines, max)
      <3>1. CASE Len(lines) <= 1
        <4>1. TruncateOutput(lines, max) = OneLine(Bytes(lines), max)
          BY <1>3, <3>1, Zenon DEF TruncateOutput
        <4> QED BY <2>1, <3>1, <4>1, OneLineFits
      <3>2. CASE ~(Len(lines) <= 1)
        <4>1. Len(lines) > 1
          BY <1>1, <3>2
        <4> QED BY <2>1, <4>1, LinesFit
      <3> QED BY <3>1, <3>2
    <2>3. CutFits(SimpleTruncate(lines, max), lines, max)
      <3> DEFINE fit == Fitting(lines, FirstLines, max)
                 r == SimpleTruncate(lines, max)
      <3>1. PICK T : Totals(T, lines)
        BY TextSized, BytesTotal
      <3>2. fit \in 0..Len(lines)
        BY <3>1, Fits
      <3>3. r = [head |-> fit, tail |-> 0, bytes |-> max, cut |-> "head"]
        BY <1>3, Zenon DEF SimpleTruncate
      <3> HIDE DEF fit, r
      <3>4. r \in CutShape /\ r.head + r.tail <= Len(lines) /\ r.bytes = max
        BY <1>1, <3>2, <3>3 DEF CutShape
      <3>5. r.bytes # Bytes(lines) /\ r.bytes <= max
        BY <1>1, <2>1, <3>4
      <3> QED BY <1>3, <3>4, <3>5 DEF CutFits, r
    <2> QED BY <2>2, <2>3
  <1> QED BY <1>2, <1>3

-----------------------------------------------------------------------------
(***************************************************************************)
(* The stages of process_output: each leaves what the request determines.  *)
(***************************************************************************)

AsText(lines) == [kind |-> "text", lines |-> lines]
Filtered(r) == FilterByIntent(r.lines, r.intent)
Summarised(r) ==
  Collapsed(Filtered(r), IF Filtered(r) = r.lines THEN r.json ELSE NoJson, r.auto)
CutResult(r) == IF r.smart THEN TruncateOutput(LinesOf(Summarised(r)), r.max)
                       ELSE SimpleTruncate(LinesOf(Summarised(r)), r.max)
Ended(r) ==
  IF Bytes(r.lines) > CutResult(r).bytes + Footer /\ CutResult(r).cut = "no"
  THEN [CutResult(r) EXCEPT !.cut = "footer"] ELSE CutResult(r)

OutInv ==
  /\ request \in Inputs
  /\ outStage \in {"raw", "filtered", "chunked", "truncated", "returned"}
  /\ outStage = "raw" => shown = AsText(request.lines) /\ returned = Whole(request.lines)
  /\ outStage = "filtered" => shown = AsText(Filtered(request))
  /\ outStage \in {"chunked", "truncated", "returned"} => shown = Summarised(request)
  /\ outStage = "truncated" => returned = CutResult(request)
  /\ outStage = "returned" => returned = Ended(request)

LEMMA InputShape ==
  ASSUME NEW r \in Inputs
  PROVE  /\ r.lines \in Seq(TextLine) /\ r.json \in Values \cup {NoJson}
         /\ r.max \in Nat /\ Filtered(r) \in Seq(TextLine) /\ Bytes(r.lines) \in Int
  <1>1. r.lines \in Seq(TextLine) /\ r.json \in Values \cup {NoJson} /\ r.max \in Nat
    BY OutputAssumption
  <1>2. Bytes(r.lines) \in Int
    BY <1>1, TextSized, BytesTotal, BytesOf
  <1> QED BY <1>1, <1>2, FilterKeeps DEF Filtered

\* A summary is of the request's own value, which the filter left alone.
LEMMA SummaryKinds ==
  ASSUME NEW r \in Inputs
  PROVE  \/ Summarised(r) = AsText(Filtered(r))
         \/ /\ r.json \in Values
            /\ \/ /\ IsUniform(r.json)
                  /\ Summarised(r) = [kind |-> "uniform", sum |-> UniformSummary(r.json)]
               \/ Summarised(r) = [kind |-> "chunks", chunks |-> ChunkJson[r.json]]
  <1> DEFINE text == Filtered(r)
             json == IF text = r.lines THEN r.json ELSE NoJson
             s == Summarised(r)
  <1>1. s = IF ~r.auto \/ Bytes(text) <= ChunkThreshold \/ json.t \notin {"array", "object"}
            THEN AsText(text)
            ELSE IF IsUniform(json) THEN [kind |-> "uniform", sum |-> UniformSummary(json)]
            ELSE IF Len(ChunkJson[json]) > 1 THEN [kind |-> "chunks", chunks |-> ChunkJson[json]]
            ELSE AsText(text)
    BY Zenon DEF Summarised, Collapsed, AsText
  <1>2. json.t \in {"array", "object"} => json = r.json /\ r.json \in Values
    <2>1. NoJson.t \notin {"array", "object"}
      BY DEF NoJson
    <2> QED BY <2>1, InputShape
  <1> HIDE DEF text, json, s
  <1>3. \/ s = AsText(text)
        \/ /\ json.t \in {"array", "object"}
           /\ \/ IsUniform(json) /\ s = [kind |-> "uniform", sum |-> UniformSummary(json)]
              \/ s = [kind |-> "chunks", chunks |-> ChunkJson[json]]
    BY <1>1, Zenon
  <1> QED BY <1>2, <1>3 DEF s, text

\* What is shown is lines again, one for each chunk, item and identity of a summary.
LEMMA ShownLines ==
  ASSUME NEW r \in Inputs
  PROVE  LinesOf(Summarised(r)) \in Seq(TextLine)
  <1> DEFINE s == Summarised(r)
             line == [bytes |-> 2, terms |-> {}, blank |-> FALSE]
  <1>1. line \in TextLine
    BY DEF TextLine
  <1>2. LinesOf(s) = CASE s.kind = "text" -> s.lines
                       [] s.kind = "chunks" -> [i \in 1..(Len(s.chunks) + 2) |-> line]
                       [] s.kind = "uniform" -> [i \in 1..(Preview + 2 + Len(s.sum.identities)) |-> line]
    BY Zenon DEF LinesOf
  <1>3. ASSUME NEW n \in Nat PROVE [i \in 1..n |-> line] \in Seq(TextLine)
    <2> HIDE DEF line
    <2> QED BY <1>1
  <1> HIDE DEF s, line
  <1>4. CASE s = AsText(Filtered(r))
    <2>1. s.kind = "text" /\ s.lines = Filtered(r)
      BY <1>4 DEF AsText
    <2>2. LinesOf(s) = Filtered(r)
      BY <1>2, <2>1
    <2> QED BY <2>2, InputShape DEF s
  <1>5. CASE r.json \in Values /\ s = [kind |-> "chunks", chunks |-> ChunkJson[r.json]]
    <2>1. s.kind = "chunks" /\ s.chunks = ChunkJson[r.json] /\ s.chunks \in Seq(GoodChunks)
      BY <1>5, ChunksFit
    <2>2. Len(s.chunks) + 2 \in Nat
      BY <2>1
    <2>3. LinesOf(s) = [i \in 1..(Len(s.chunks) + 2) |-> line]
      BY <1>2, <2>1
    <2> QED BY <1>3, <2>2, <2>3 DEF s
  <1>6. CASE /\ r.json \in Values /\ IsUniform(r.json)
             /\ s = [kind |-> "uniform", sum |-> UniformSummary(r.json)]
    <2> DEFINE v == r.json
               S == {i \in Preview + 1..Len(v.parts) : ExtractIdentity(v.parts[i]) # <<>>}
               named == Sorted(S, <)
               m == LeastOf(Shown, Len(named))
    <2>1. m \in Nat
      <3>1. Len(v.parts) \in Nat /\ Preview \in Nat /\ Shown \in Nat
        BY <1>6, ValueShape, OutputAssumption
      <3>2. Preview + 1..Len(v.parts) \subseteq Nat /\ IsFiniteSet(Preview + 1..Len(v.parts))
        <4> DEFINE first == Preview + 1
                   last == Len(v.parts)
        <4>1. first \in Nat /\ last \in Nat
          BY <3>1
        <4> HIDE DEF first, last
        <4>2. first..last \subseteq Nat /\ IsFiniteSet(first..last)
          BY <4>1, FS_Interval
        <4> QED BY <4>2 DEF first, last
      <3>3. S \in SUBSET Nat /\ IsFiniteSet(S)
        BY <3>2, FS_Subset
      <3> HIDE DEF S
      <3>4. Cardinality(S) \in Nat /\ named \in [1..Cardinality(S) -> S]
        BY <3>3, FromTheLeft
      <3>5. Len(named) \in Nat
        <4> DEFINE k == Cardinality(S)
        <4> HIDE DEF named, k
        <4>1. named \in Seq(S)
          BY <3>4 DEF k
        <4> QED BY <4>1
      <3> HIDE DEF named
      <3> QED BY <3>1, <3>5 DEF LeastOf
    <2>2. s.kind = "uniform" /\ s.sum = UniformSummary(v)
      BY <1>6
    <2>3. UniformSummary(v).identities = [k \in 1..m |-> ExtractIdentity(v.parts[named[k]])]
      BY Zenon DEF UniformSummary
    <2> HIDE DEF m, named, v
    <2>4. Len(s.sum.identities) = m
      BY <2>1, <2>2, <2>3
    <2>5. Preview + 2 + m \in Nat
      BY <2>1, OutputAssumption
    <2>6. LinesOf(s) = [i \in 1..(Preview + 2 + m) |-> line]
      BY <1>2, <2>2, <2>4
    <2> QED BY <1>3, <2>5, <2>6 DEF s
  <1> QED BY <1>4, <1>5, <1>6, SummaryKinds DEF s

LEMMA ResultIsCut ==
  ASSUME NEW r \in Inputs
  PROVE  /\ CutFits(CutResult(r), LinesOf(Summarised(r)), r.max)
         /\ Ended(r).head = CutResult(r).head /\ Ended(r).tail = CutResult(r).tail
         /\ Ended(r).bytes = CutResult(r).bytes
         /\ Ended(r).cut = CutResult(r).cut \/ Ended(r).cut = "footer"
         /\ Bytes(r.lines) <= CutResult(r).bytes + Footer => Ended(r) = CutResult(r)
  <1> DEFINE c == CutResult(r)
             long == Bytes(r.lines) > c.bytes + Footer /\ c.cut = "no"
  <1>1. CutFits(c, LinesOf(Summarised(r)), r.max)
    BY ShownLines, InputShape, TruncateFits DEF CutResult
  <1>2. c \in CutShape
    BY <1>1 DEF CutFits
  <1>3. Ended(r) = IF long THEN [c EXCEPT !.cut = "footer"] ELSE c
    BY Zenon DEF Ended
  <1>4. Bytes(r.lines) <= c.bytes + Footer => ~long
    <2>1. Bytes(r.lines) \in Int /\ c.bytes \in Int /\ Footer \in Int
      BY <1>2, InputShape, OutputAssumption DEF CutShape
    <2> HIDE DEF c
    <2> QED BY <2>1
  <1> HIDE DEF c, long
  <1>5. /\ [c EXCEPT !.cut = "footer"].head = c.head /\ [c EXCEPT !.cut = "footer"].tail = c.tail
        /\ [c EXCEPT !.cut = "footer"].bytes = c.bytes /\ [c EXCEPT !.cut = "footer"].cut = "footer"
    BY <1>2 DEF CutShape
  <1> QED BY <1>1, <1>3, <1>4, <1>5 DEF c

-----------------------------------------------------------------------------

LEMMA CoverFollows == OutInv => ChunksCover
  <1> SUFFICES ASSUME OutInv, shown.kind = "chunks" PROVE ChunksCover
    BY DEF ChunksCover
  <1> DEFINE r == request
             cs == ChunkJson[r.json]
  <1>1. r \in Inputs
    BY DEF OutInv
  <1>2. r.json \in Values /\ shown.chunks = cs
    <2>1. \A lines : AsText(lines).kind # "chunks"
      BY DEF AsText
    <2>2. shown = Summarised(r) /\ shown # AsText(Filtered(r))
      BY <2>1 DEF OutInv
    <2> HIDE DEF r
    <2>3. r.json \in Values /\ shown = [kind |-> "chunks", chunks |-> ChunkJson[r.json]]
      BY <1>1, <2>2, SummaryKinds
    <2> QED BY <2>3
  <1>3. cs \in Seq(GoodChunks) /\ Standing(ItemLeaves, cs) = Leaves[r.json]
    BY <1>2, ChunksFit
  <1> HIDE DEF cs
  <1>4. \A i \in DOMAIN cs : cs[i] \in GoodChunks
    BY <1>3
  <1>5. Flattened(cs, LeavesOf) = Standing(ItemLeaves, cs)
    <2>1. [i \in DOMAIN cs |-> LeavesOf(cs[i])] = [i \in DOMAIN cs |-> ItemLeaves[cs[i]]]
      BY <1>4, ChunkMeaning
    <2> QED BY <2>1, Zenon DEF Flattened, Standing
  <1>6. \A i \in DOMAIN cs :
          /\ cs[i].bytes = Bytes(cs[i].items) /\ cs[i].last - cs[i].first + 1 = Len(cs[i].items)
          /\ cs[i].bytes <= ChunkTarget \/ Len(cs[i].items) = 1
    BY <1>4 DEF GoodChunks
  <1> QED BY <1>2, <1>3, <1>5, <1>6 DEF ChunksCover

LEMMA CutsFollow == OutInv => CutsApart
  <1> SUFFICES ASSUME OutInv, outStage \in {"truncated", "returned"} PROVE CutsApart
    BY DEF CutsApart
  <1> DEFINE r == request
             lines == LinesOf(Summarised(r))
             c == CutResult(r)
  <1>1. r \in Inputs /\ shown = Summarised(r) /\ (returned = c \/ returned = Ended(r))
    BY DEF OutInv
  <1>2. CutFits(c, lines, r.max)
    BY <1>1, ResultIsCut
  <1>3. /\ returned.head = c.head /\ returned.tail = c.tail /\ returned.bytes = c.bytes
        /\ returned.cut = c.cut \/ returned.cut = "footer"
    BY <1>1, ResultIsCut
  <1>4. LinesOf(shown) = lines
    BY <1>1
  <1> HIDE DEF lines, c
  <1> QED BY <1>2, <1>3, <1>4 DEF CutFits, CutsApart

LEMMA KeepsFollow == OutInv => FilterKeepsSections
  <1> SUFFICES ASSUME OutInv PROVE FilterKeepsSections
    OBVIOUS
  <1> DEFINE sections == SplitIntoChunks(request.lines)
             relevant == {k \in DOMAIN sections : Relevant(request.lines, sections[k], request.intent)}
             section(k) == SubSeq(request.lines, sections[k][1], sections[k][2])
             KeptBy(text) == \E ks \in [1..Cardinality(relevant) -> relevant] :
                             /\ \A i, j \in DOMAIN ks : i < j => ks[i] < ks[j]
                             /\ Tail(text) = Flattened(ks, section)
  <1>1. request \in Inputs /\ request.lines \in Seq(TextLine)
    BY InputShape DEF OutInv
  <1>2. SectionsFollow(sections, request.lines)
    BY <1>1, SplitFollows DEF AreSections
  <1>3. FilterByIntent(request.lines, request.intent) # request.lines =>
          KeptBy(FilterByIntent(request.lines, request.intent))
    BY <1>1, FilterKeeps, Zenon
  <1>4. outStage = "filtered" => shown.lines = FilterByIntent(request.lines, request.intent)
    BY DEF OutInv, AsText, Filtered
  <1> HIDE DEF KeptBy
  <1>5. outStage = "filtered" /\ shown.lines # request.lines => KeptBy(shown.lines)
    BY <1>3, <1>4
  <1> QED BY <1>2, <1>5, Zenon DEF FilterKeepsSections, KeptBy

LEMMA SmallFollows == OutInv => SmallUntouched
  <1> DEFINE r == request
             b == Bytes(r.lines)
             bound == LeastOf(r.max, LeastOf(ChunkThreshold, IntentThreshold - 1))
  <1> SUFFICES ASSUME OutInv, outStage = "returned", b <= bound
               PROVE  shown.kind = "text" /\ shown.lines = r.lines /\ returned = Whole(r.lines)
    BY DEF SmallUntouched
  <1>1. r \in Inputs /\ shown = Summarised(r) /\ returned = Ended(r)
    BY DEF OutInv
  <1>2. b <= r.max /\ b <= ChunkThreshold /\ b < IntentThreshold /\ b \in Int
    <2>1. b \in Int /\ r.max \in Int /\ ChunkThreshold \in Int /\ IntentThreshold \in Int
      BY <1>1, InputShape, OutputAssumption
    <2> DEFINE max == r.max
    <2> HIDE DEF b, max
    <2> QED BY <2>1 DEF LeastOf, max
  <1>3. Filtered(r) = r.lines
    BY <1>1, <1>2, InputShape, FilterKeeps DEF Filtered
  <1>4. Summarised(r) = AsText(r.lines)
    BY <1>2, <1>3, Zenon DEF Summarised, Collapsed, AsText
  <1>5. LinesOf(Summarised(r)) = r.lines
    BY <1>4 DEF LinesOf, AsText
  <1>6. CutResult(r) = Whole(r.lines)
    BY <1>1, <1>2, <1>5, ResultIsCut DEF CutFits
  <1>7. Ended(r) = CutResult(r)
    <2>1. CutResult(r).bytes = b
      BY <1>6 DEF Whole
    <2>2. b <= b + Footer
      BY <1>2, OutputAssumption
    <2> HIDE DEF r
    <2> QED BY <1>1, <2>1, <2>2, ResultIsCut DEF b
  <1> QED BY <1>1, <1>4, <1>6, <1>7 DEF AsText

\* Nothing of a result is invented, repeated or lost silently, whatever the text, the JSON
\* value, the intent and the thresholds: process_output and the chunker.
THEOREM OutputIsFaithful == OutSpec => []OutputFaithful
  <1>1. OutInit => OutInv
    BY DEF OutInit, OutInv, AsText
  <1>2. OutInv /\ [OutNext]_outVars => OutInv'
    <2> SUFFICES ASSUME OutInv, [OutNext]_outVars PROVE OutInv'
      OBVIOUS
    <2>1. CASE FilterStage
      BY <2>1 DEF FilterStage, OutInv, AsText, Filtered
    <2>2. CASE ChunkStage
      <3>1. shown.lines = Filtered(request)
        BY <2>2 DEF ChunkStage, OutInv, AsText
      <3>2. shown' = Summarised(request)
        BY <2>2, <3>1 DEF ChunkStage, Summarised
      <3> QED BY <2>2, <3>2 DEF ChunkStage, OutInv
    <2>3. CASE TruncateStage
      <3>1. returned' = CutResult(request)
        BY <2>3 DEF TruncateStage, OutInv, CutResult
      <3> QED BY <2>3, <3>1 DEF TruncateStage, OutInv
    <2>4. CASE FooterStage
      <3>1. returned' = Ended(request)
        BY <2>4 DEF FooterStage, OutInv, Ended
      <3> QED BY <2>4, <3>1 DEF FooterStage, OutInv
    <2>5. CASE UNCHANGED outVars
      BY <2>5 DEF outVars, OutInv
    <2> QED BY <2>1, <2>2, <2>3, <2>4, <2>5 DEF OutNext
  <1>3. OutInv => OutputFaithful
    BY CoverFollows, CutsFollow, KeepsFollow, SmallFollows DEF OutputFaithful
  <1> QED BY <1>1, <1>2, <1>3, PTL DEF OutSpec
=============================================================================
