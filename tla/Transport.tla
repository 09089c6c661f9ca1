------------------------------ MODULE Transport ------------------------------
(***************************************************************************)
(* One backend instance behind the Backend trait: a child process spoken   *)
(* to over stdio (src/src/backend/stdio.rs), an MCP server over HTTP       *)
(* (http.rs) or commands run for each call (cli_adapter.rs), with the      *)
(* prerequisite process it may need (prerequisite.rs).                     *)
(*                                                                         *)
(* The running service is guarded by a fair lock: calls hold it to read,   *)
(* stop() takes it to write, so stop() waits for running calls and calls   *)
(* that come later wait for stop().  The manager starts an instance before *)
(* it publishes it, so start() and stop() do not overlap.                  *)
(***************************************************************************)
EXTENDS Naturals, FiniteSets

CONSTANTS Users,      \* the tasks that call the instance
          Kinds       \* the transports to look at

ASSUME TransportAssumption == Kinds \subseteq {"stdio", "http", "cli"}

VARIABLES
    kind,       \* the transport of this instance
    stored,     \* http: what the token store has for it; else "none"
    bearer,     \* http: what authorizes its requests
    condition,  \* BackendState
    service,    \* the running MCP service is there
    child,      \* the field `child`: "none" or "held"
    process,    \* the child process, or the last answer of a remote server
    starting,   \* where start() is
    stopping,   \* where stop() is
    reaper,     \* where wait_for_exit() is
    use,        \* where every call is
    command,    \* cli: the process of every call
    needs       \* the prerequisite process

transportVars == <<kind, stored, bearer, condition, service, child, process,
                   starting, stopping, reaper, use, command, needs>>

Readers == {u \in Users : use[u] = "running" /\ kind # "cli"}

TransportTypeOK ==
    /\ kind \in Kinds
    /\ stored \in {"none", "valid", "expired", "refreshable"}
    /\ bearer \in {"none", "static", "cached", "refreshed", "new"}
    /\ condition \in {"starting", "healthy", "unhealthy", "stopped"}
    /\ service \in BOOLEAN /\ child \in {"none", "held"}
    /\ process \in {"none", "alive", "ending", "dead"}
    /\ starting \in {"need", "begin", "token", "refresh", "connect", "done", "failed"}
    /\ stopping \in {"no", "lock", "take", "term", "wait", "done", "dropped"}
    /\ reaper \in {"no", "watch", "exited", "left"}
    /\ use \in [Users -> {"idle", "lock", "stdin", "running", "answered", "failed", "cancelled"}]
    /\ command \in [Users -> {"none", "alive", "dead"}]
    /\ needs \in {"none", "spawned", "found", "ending", "gone"}

TransportInit ==
    /\ kind \in Kinds
    /\ stored \in IF kind = "http" THEN {"none", "valid", "expired", "refreshable"} ELSE {"none"}
    /\ bearer = "none" /\ condition = "starting"
    /\ service = FALSE /\ child = "none" /\ process = "none"
    /\ starting = "need" /\ stopping = "no" /\ reaper = "no"
    /\ use = [u \in Users |-> "idle"]
    /\ command = [u \in Users |-> "none"]
    /\ needs = "none"

-----------------------------------------------------------------------------
(* start() *)

\* ensure_prerequisite: one that matches is used, else one is spawned and owned.
EnsurePrerequisite ==
    /\ starting = "need"
    /\ needs' \in {"none", "found", "spawned"}
    /\ starting' = "begin"
    /\ UNCHANGED <<kind, stored, bearer, condition, service, child, process, stopping, reaper, use, command>>

StartStdio ==
    /\ starting = "begin" /\ kind = "stdio"
    /\ \/ process' = "alive" /\ starting' = "connect"
       \/ process' = "none" /\ starting' = "failed"
    /\ UNCHANGED <<kind, stored, bearer, condition, service, child, stopping, reaper, use, command, needs>>

\* OAuth goes before the static header; a token in the store is used while it is valid.
StartHttp ==
    /\ starting = "begin" /\ kind = "http"
    /\ \/ /\ stored = "none"
          /\ bearer' = "static" /\ starting' = "connect"
       \/ /\ stored = "valid"
          /\ bearer' = "cached" /\ starting' = "connect"
       \/ /\ stored = "refreshable"
          /\ starting' = "refresh" /\ UNCHANGED bearer
       \/ /\ stored \in {"none", "expired"}
          /\ starting' = "token" /\ UNCHANGED bearer
    /\ UNCHANGED <<kind, stored, condition, service, child, process, stopping, reaper, use, command, needs>>

RefreshToken ==
    /\ starting = "refresh"
    /\ \/ bearer' = "refreshed" /\ starting' = "connect"
       \/ starting' = "token" /\ UNCHANGED bearer
    /\ UNCHANGED <<kind, stored, condition, service, child, process, stopping, reaper, use, command, needs>>

Authenticate ==
    /\ starting = "token"
    /\ \/ bearer' = "new" /\ starting' = "connect"
       \/ starting' = "failed" /\ UNCHANGED bearer
    /\ UNCHANGED <<kind, stored, condition, service, child, process, stopping, reaper, use, command, needs>>

\* The MCP handshake; without it the child is dropped and not killed.
Handshake ==
    /\ starting = "connect"
    /\ \/ /\ process # "dead"
          /\ service' = TRUE
          /\ child' = IF kind = "stdio" THEN "held" ELSE "none"
          /\ condition' = "healthy"
          /\ starting' = "done"
       \/ starting' = "failed" /\ UNCHANGED <<service, child, condition>>
    /\ UNCHANGED <<kind, stored, bearer, process, stopping, reaper, use, command, needs>>

\* cli: the health check command decides.
StartCli ==
    /\ starting = "begin" /\ kind = "cli"
    /\ \/ condition' = "healthy" /\ starting' = "done"
       \/ condition' = "unhealthy" /\ starting' = "failed"
    /\ UNCHANGED <<kind, stored, bearer, service, child, process, stopping, reaper, use, command, needs>>

-----------------------------------------------------------------------------
(* call_tool *)

Running(u) == use[u] \in {"stdin", "running"}

BeginUse(u) ==
    /\ starting = "done" /\ use[u] = "idle"
    /\ use' = [use EXCEPT ![u] = IF kind = "cli" THEN "stdin" ELSE "lock"]
    /\ command' = IF kind = "cli" THEN [command EXCEPT ![u] = "alive"] ELSE command
    /\ UNCHANGED <<kind, stored, bearer, condition, service, child, process, starting, stopping, reaper, needs>>

\* The read lock: behind a stop() that waits or works.
TakeService(u) ==
    /\ use[u] = "lock" /\ stopping # "lock"
    /\ use' = [use EXCEPT ![u] = IF service THEN "running" ELSE "failed"]
    /\ UNCHANGED <<kind, stored, bearer, condition, service, child, process, starting, stopping, reaper, command, needs>>

\* The input is written before the timeout is set.
WriteStdin(u) ==
    /\ use[u] = "stdin"
    /\ use' = [use EXCEPT ![u] = "running"]
    /\ UNCHANGED <<kind, stored, bearer, condition, service, child, process, starting, stopping, reaper, command, needs>>

\* An answer or an error; of a command, its exit.
UseAnswered(u) ==
    /\ use[u] = "running"
    /\ \/ use' = [use EXCEPT ![u] = "answered"] /\ process # "dead"
       \/ use' = [use EXCEPT ![u] = "failed"]
    /\ command' = [command EXCEPT ![u] = IF @ = "alive" THEN "dead" ELSE @]
    /\ UNCHANGED <<kind, stored, bearer, condition, service, child, process, starting, stopping, reaper, needs>>

\* The call's timeout; a command's process group is killed.
UseTimesOut(u) ==
    /\ use[u] = "running"
    /\ use' = [use EXCEPT ![u] = "failed"]
    /\ command' = [command EXCEPT ![u] = IF @ = "alive" THEN "dead" ELSE @]
    /\ UNCHANGED <<kind, stored, bearer, condition, service, child, process, starting, stopping, reaper, needs>>

\* The caller drops the call; its command runs on.
UseCancelled(u) ==
    /\ use[u] \in {"lock", "stdin", "running"}
    /\ use' = [use EXCEPT ![u] = "cancelled"]
    /\ UNCHANGED <<kind, stored, bearer, condition, service, child, process, starting, stopping, reaper, command, needs>>

-----------------------------------------------------------------------------
(* stop(), kill_child(), wait_for_exit() and stop_prerequisite() *)

BeginHalt ==
    /\ starting = "done" /\ stopping = "no"
    /\ condition' = "stopped"
    /\ stopping' = IF kind = "cli" THEN "done" ELSE "lock"
    /\ UNCHANGED <<kind, stored, bearer, service, child, process, starting, reaper, use, command, needs>>

\* Mutant: the service is taken from under the calls that use it.
CancelServiceAtOnce ==
    /\ stopping = "lock"
    /\ service' = FALSE
    /\ stopping' = "take"
    /\ UNCHANGED <<kind, stored, bearer, condition, child, process, starting, reaper, use, command, needs>>

\* The write lock: the last running call has ended.
CancelService ==
    /\ stopping = "lock" /\ Readers = {}
    /\ service' = FALSE
    /\ stopping' = "take"
    /\ UNCHANGED <<kind, stored, bearer, condition, child, process, starting, reaper, use, command, needs>>

\* The child, unless the reaper took it when it exited.
TakeChild ==
    /\ stopping = "take"
    /\ child' = "none"
    /\ stopping' = IF child = "held" THEN "term" ELSE "done"
    /\ UNCHANGED <<kind, stored, bearer, condition, service, process, starting, reaper, use, command, needs>>

\* SIGTERM to the process group ...
TermChild ==
    /\ stopping = "term"
    /\ process' = IF process = "alive" THEN "ending" ELSE process
    /\ stopping' = "wait"
    /\ UNCHANGED <<kind, stored, bearer, condition, service, child, starting, reaper, use, command, needs>>

\* ... it is gone within the grace period, or is killed.
KillChild ==
    /\ stopping = "wait"
    /\ process' = "dead"
    /\ stopping' = "done"
    /\ UNCHANGED <<kind, stored, bearer, condition, service, child, starting, reaper, use, command, needs>>

\* stop_all drops a stop() that takes longer than stop_timeout(): nobody is left to
\* kill the child.
HaltDropped ==
    /\ stopping \in {"lock", "take", "term", "wait"}
    /\ stopping' = "dropped"
    /\ UNCHANGED <<kind, stored, bearer, condition, service, child, process, starting, reaper, use, command, needs>>

ChildExits ==
    /\ process \in {"alive", "ending"}
    /\ process' = "dead"
    /\ UNCHANGED <<kind, stored, bearer, condition, service, child, starting, stopping, reaper, use, command, needs>>

\* Mutant: the reaper looks once.
WatchOnce ==
    /\ starting = "done" /\ kind = "stdio" /\ reaper = "no"
    /\ \/ /\ child = "held" /\ process = "dead"
          /\ child' = "none" /\ reaper' = "exited"
       \/ /\ child = "none" \/ process # "dead"
          /\ reaper' = "left" /\ UNCHANGED child
    /\ UNCHANGED <<kind, stored, bearer, condition, service, process, starting, stopping, use, command, needs>>

\* The reaper polls the child under its lock, until it has exited, was taken by
\* stop() or the backend is Stopped.
Watch ==
    /\ starting = "done" /\ kind = "stdio" /\ reaper \in {"no", "watch"}
    /\ \/ /\ child = "held" /\ process = "dead"
          /\ child' = "none" /\ reaper' = "exited"
       \/ /\ child = "held" /\ process # "dead" /\ condition # "stopped" /\ reaper = "no"
          /\ reaper' = "watch" /\ UNCHANGED child
       \/ /\ child = "none" \/ (condition = "stopped" /\ process # "dead")
          /\ reaper' = "left" /\ UNCHANGED child
    /\ UNCHANGED <<kind, stored, bearer, condition, service, process, starting, stopping, use, command, needs>>

\* It marks an instance that nobody stopped.
MarkStopped ==
    /\ reaper = "exited"
    /\ condition' = "stopped"
    /\ reaper' = "left"
    /\ UNCHANGED <<kind, stored, bearer, service, child, process, starting, stopping, use, command, needs>>

\* Only a prerequisite the gateway spawned is stopped: SIGTERM, 5 s, SIGKILL.
StopPrerequisite ==
    /\ starting = "failed" \/ stopping \in {"done", "dropped"}
    /\ \/ needs = "spawned" /\ needs' \in {"ending", "gone"}
       \/ needs = "ending" /\ needs' = "gone"
    /\ UNCHANGED <<kind, stored, bearer, condition, service, child, process, starting, stopping, reaper, use, command>>

-----------------------------------------------------------------------------

StartStep ==
    \/ EnsurePrerequisite \/ StartStdio \/ StartHttp \/ RefreshToken
    \/ Authenticate \/ Handshake \/ StartCli
UseEnds(u) == TakeService(u) \/ UseAnswered(u) \/ UseTimesOut(u)
UseStep(u) == UseEnds(u) \/ WriteStdin(u)
HaltStep == CancelService \/ TakeChild \/ TermChild \/ KillChild \/ StopPrerequisite
ReaperStep == Watch \/ MarkStopped

TransportNext ==
    \/ StartStep \/ HaltStep \/ ReaperStep \/ BeginHalt \/ HaltDropped \/ ChildExits
    \/ \E u \in Users : UseStep(u) \/ BeginUse(u) \/ UseCancelled(u)

\* start, stop and the reaper go on; a call is answered or times out once its input
\* is written; nobody has to call, stop, cancel or exit.
TransportFairness ==
    /\ WF_transportVars(StartStep)
    /\ WF_transportVars(HaltStep)
    /\ WF_transportVars(ReaperStep)
    /\ \A u \in Users : WF_transportVars(UseEnds(u))

TransportSpec == TransportInit /\ [][TransportNext]_transportVars /\ TransportFairness

-----------------------------------------------------------------------------
(* Properties. *)

\* stop() never takes the service from under a call, and when it has returned there
\* is no service, no child, no running call of the service and no living process;
\* a command outlives only a call that was dropped.
StopIsClean ==
    /\ TransportTypeOK
    /\ Readers # {} => service
    /\ stopping = "done" /\ kind # "cli" => ~service /\ child = "none" /\ Readers = {} /\ process \in {"none", "dead"}
    /\ \A u \in Users : command[u] = "alive" => use[u] \in {"stdin", "running", "cancelled"}

\* An exit nobody asked for is noticed, whatever stop() and calls do meanwhile, and
\* stop() returns however long the calls take.
ExitNoticed ==
    /\ starting = "done" /\ kind = "stdio" /\ process = "dead" ~> condition = "stopped"
    /\ stopping = "lock" ~> stopping \in {"done", "dropped"}

=============================================================================
