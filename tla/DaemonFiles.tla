----------------------------- MODULE DaemonFiles -----------------------------
(***************************************************************************)
(* The daemons of one user, the files through which they are found and the *)
(* processes that create, move and remove those files: proxies             *)
(* (src/src/ipc/proxy.rs), daemons (daemon.rs, upgrade.rs, main.rs) and    *)
(* the commands stop, restart, upgrade and status.  Every file operation   *)
(* is a step of its own, so everything between a check and the operation   *)
(* that relies on it can happen.                                           *)
(*                                                                         *)
(* A socket file leads to a listener <<d, g>>: the g-th socket daemon d    *)
(* bound.  A connection to it is first in the backlog of d and becomes a   *)
(* session when d accepts it.                                              *)
(*                                                                         *)
(* Options says what may happen:                                           *)
(*   "crash"  a process is killed between two steps;                       *)
(*   "fail"   the gateway does not initialize;                             *)
(*   "io"     the second rename of a promotion fails;                      *)
(*   "idle"   the idle timer of a daemon fires;                            *)
(*   "leave"  a client ends its session;                                   *)
(*   "delay"  other processes run between two file operations and before   *)
(*            a signal is handled, and not only where a process awaits;    *)
(*   "stop", "upgrade", "status"  the operator gives that command.         *)
(***************************************************************************)
EXTENDS Naturals, Sequences

CONSTANTS MaxDaemons,   \* daemons are numbered in the order they are spawned
          Proxies,
          Operator,     \* the process of a command
          None,
          MaxBinds,     \* bound: sockets one daemon binds
          MaxCommands,  \* bound: commands
          MaxCrashes,   \* bound: crashes and failures
          Options

Daemons == 1..MaxDaemons
Clients == Proxies \cup {Operator}

ASSUME DaemonAssumption ==
    /\ MaxDaemons \in Nat \ {0} /\ MaxBinds \in Nat \ {0}
    /\ MaxCommands \in Nat /\ MaxCrashes \in Nat
    /\ Operator \notin Proxies /\ None \notin Clients
    /\ (Clients \cup {None}) \cap Nat = {} /\ None \notin Daemons \X (1..MaxBinds)
    /\ Options \subseteq {"crash", "fail", "io", "idle", "leave", "delay", "stop", "upgrade", "status"}

VARIABLES
    sock,      \* where the socket file of a place leads to
    pid,       \* the pid file of a place
    info,      \* whose generation info stands at the public place
    lock,      \* who holds the flock
    pc,        \* where every process is
    script,    \* the file operations it is about to make
    gen,       \* the sockets a daemon has bound
    home,      \* the place of a daemon's socket_path
    old,       \* --old-pid of a staged daemon
    signal,    \* the signals a daemon got; "kill" when it ended at once
    sessions,  \* the connections a daemon has accepted
    backlog,   \* the connections it has not accepted
    drained,   \* a leaving daemon is in drain mode
    noted,     \* a staged daemon found the info file of the old one
    target,    \* the daemon a command is about, and how it was answered
    commands,  \* commands given so far
    crashes    \* crashes and failures so far

fileVars == <<sock, pid, info>>
daemonVars == <<gen, home, old, signal, drained, noted>>
connVars == <<sessions, backlog>>
opVars == <<target, commands>>
vars == <<fileVars, lock, pc, script, daemonVars, connVars, opVars, crashes>>

Public == <<"public", None>>
Staged == <<"staged", None>>
Drain(d) == <<"drain", d>>
Places == {Public, Staged} \cup {Drain(d) : d \in Daemons}
Processes == Daemons \cup Clients

DaemonPcs == {"none", "start", "unlink", "bind", "init", "promote", "rename", "signal",
              "serve", "rebind", "stopping", "leave", "dead"}
ClientPcs == {"idle", "try", "lock", "again", "wait", "connected", "gone",
              "stopping", "waitstop", "staging", "smoke", "spawning"}

DaemonTypeOK ==
    /\ sock \in [Places -> (Daemons \X (1..MaxBinds)) \cup {None}]
    /\ pid \in [Places -> Daemons \cup {None}]
    /\ info \in Daemons \cup {None}
    /\ lock \in Processes \cup {None}
    /\ pc \in [Processes -> DaemonPcs \cup ClientPcs]
    /\ \A d \in Daemons : pc[d] \in DaemonPcs
    /\ \A c \in Clients : pc[c] \in ClientPcs
    /\ DOMAIN script = Processes
    /\ gen \in [Daemons -> 0..MaxBinds]
    /\ home \in [Daemons -> {Public, Staged}]
    /\ old \in [Daemons -> Daemons \cup {None}]
    /\ signal \in [Daemons -> SUBSET {"term", "usr2", "kill"}]
    /\ drained \in [Daemons -> BOOLEAN] /\ noted \in [Daemons -> BOOLEAN]
    /\ sessions \in [Daemons -> SUBSET Clients]
    /\ backlog \in [Daemons -> SUBSET Clients]
    /\ target \in [daemon : Daemons \cup {None}, by : Daemons \cup {None}]
    /\ commands \in 0..MaxCommands /\ crashes \in 0..MaxCrashes

DaemonInit ==
    /\ sock = [x \in Places |-> None]
    /\ pid = [x \in Places |-> None]
    /\ info = None
    /\ lock = None
    /\ pc = [x \in Processes |-> IF x \in Daemons THEN "none" ELSE "idle"]
    /\ script = [x \in Processes |-> <<>>]
    /\ gen = [d \in Daemons |-> 0]
    /\ home = [d \in Daemons |-> Public]
    /\ old = [d \in Daemons |-> None]
    /\ signal = [d \in Daemons |-> {}]
    /\ drained = [d \in Daemons |-> FALSE]
    /\ noted = [d \in Daemons |-> FALSE]
    /\ sessions = [d \in Daemons |-> {}]
    /\ backlog = [d \in Daemons |-> {}]
    /\ target = [daemon |-> None, by |-> None]
    /\ commands = 0 /\ crashes = 0

-----------------------------------------------------------------------------
(* File operations.                                                        *)

Rm(kind, place) == [kind |-> kind, place |-> place, value |-> None]
Put(kind, place, d) == [kind |-> kind, place |-> place, value |-> d]

\* The pid and the info file a daemon writes when it has bound a socket.
WriteIdentity(d) ==
    IF home[d] = Public THEN <<Put("pid", Public, d), Put("info", Public, d)>>
    ELSE <<Put("pid", Staged, d)>>

CleanupFiles == <<Rm("sock", Public), Rm("pid", Public), Rm("info", Public)>>

CleanupDrain(d) == <<Rm("sock", Drain(d)), Rm("pid", Drain(d))>>

\* Mutant: the files are left to the next start.
CleanupNothing(d) == <<>>

\* Files of a generation, only while the pid file names it.
CleanupOwned(d) ==
    IF pid[home[d]] # d THEN <<>>
    ELSE IF home[d] = Public THEN CleanupFiles
    ELSE <<Rm("sock", Staged), Rm("pid", Staged)>>

Ready(x) == script[x] = <<>>

\* A process between two file operations, between a check and what it decides, or
\* with a signal to handle.
Busy(x) ==
    \/ ~Ready(x)
    \/ pc[x] \in {"unlink", "bind", "rename", "signal", "rebind"}
    \/ pc[x] = "serve" /\ signal[x] # {}

\* Without "delay" it is not overtaken.
Turn(x) == "delay" \in Options \/ \A y \in Processes \ {x} : ~Busy(y)

\* The next file operation of a process.  Removing what is not there is no error.
Execute(x) ==
    /\ ~Ready(x)
    /\ LET o == Head(script[x]) IN
       /\ sock' = IF o.kind = "sock" THEN [sock EXCEPT ![o.place] = None] ELSE sock
       /\ pid' = IF o.kind = "pid" THEN [pid EXCEPT ![o.place] = o.value] ELSE pid
       /\ info' = IF o.kind = "info" THEN o.value ELSE info
    /\ script' = [script EXCEPT ![x] = Tail(@)]
    /\ UNCHANGED <<lock, pc, daemonVars, connVars, opVars, crashes>>

Alive(d) == d # None /\ pc[d] \notin {"none", "dead"}
DaemonAlive(place) == Alive(pid[place])

Connectable(place) ==
    /\ sock[place] # None
    /\ Alive(sock[place][1])
    /\ gen[sock[place][1]] = sock[place][2]

Goto(x, label) == pc' = [pc EXCEPT ![x] = label]
Plan(x, todo) == script' = [script EXCEPT ![x] = todo]
Unlock(x) == lock' = IF lock = x THEN None ELSE lock

\* Client c connects to the public socket: its connection waits to be accepted.
Connect(c) ==
    /\ Connectable(Public)
    /\ backlog' = [backlog EXCEPT ![sock[Public][1]] = @ \cup {c}]
    /\ UNCHANGED sessions

Connected(c) == \E d \in Daemons : c \in sessions[d] \cup backlog[d]

\* A new process; the staged one is given the socket it is to replace.
Spawn(d, label, replaces) ==
    /\ pc[d] = "none" /\ \A e \in Daemons : e < d => pc[e] # "none"
    /\ old' = [old EXCEPT ![d] = replaces]
    /\ home' = [home EXCEPT ![d] = IF replaces = None THEN Public ELSE Staged]
    /\ UNCHANGED <<gen, signal, drained, noted>>

\* The end of a process: its connections break, its flock is released.
Ends(x) ==
    /\ Unlock(x)
    /\ Plan(x, <<>>)
    /\ IF x \in Daemons
       THEN /\ sessions' = [sessions EXCEPT ![x] = {}]
            /\ backlog' = [backlog EXCEPT ![x] = {}]
       ELSE /\ sessions' = [d \in Daemons |-> sessions[d] \ {x}]
            /\ backlog' = [d \in Daemons |-> backlog[d] \ {x}]

Exit(d) == Goto(d, "dead") /\ Ends(d)

-----------------------------------------------------------------------------
(* A daemon starts: bind_early, initialize, promote_staged.                *)

\* Is another daemon serving the socket?  A file nobody listens to is removed.
CheckSocket(d) ==
    /\ pc[d] = "start"
    /\ IF Connectable(home[d]) THEN Exit(d)
       ELSE /\ Goto(d, IF sock[home[d]] = None THEN "bind" ELSE "unlink")
            /\ UNCHANGED <<lock, script, connVars>>
    /\ UNCHANGED <<fileVars, daemonVars, opVars, crashes>>

Unlink(d) ==
    /\ pc[d] = "unlink"
    /\ IF sock[home[d]] = None THEN Exit(d) /\ UNCHANGED fileVars
       ELSE /\ sock' = [sock EXCEPT ![home[d]] = None]
            /\ Goto(d, "bind")
            /\ UNCHANGED <<pid, info, lock, script, connVars>>
    /\ UNCHANGED <<daemonVars, opVars, crashes>>

Bind(d) ==
    /\ pc[d] = "bind"
    /\ IF sock[home[d]] # None THEN Exit(d) /\ UNCHANGED <<fileVars, gen>>
       ELSE /\ sock' = [sock EXCEPT ![home[d]] = <<d, 1>>]
            /\ gen' = [gen EXCEPT ![d] = 1]
            /\ Plan(d, WriteIdentity(d))
            /\ Goto(d, "init")
            /\ UNCHANGED <<pid, info, lock, connVars>>
    /\ UNCHANGED <<home, old, signal, drained, noted, opVars, crashes>>

Initialized(d) ==
    /\ pc[d] = "init" /\ Ready(d)
    /\ Goto(d, IF old[d] = None THEN "serve" ELSE "promote")
    /\ UNCHANGED <<fileVars, lock, script, daemonVars, connVars, opVars, crashes>>

InitializeFails(d) ==
    /\ "fail" \in Options /\ crashes < MaxCrashes
    /\ pc[d] = "init" /\ Ready(d)
    /\ crashes' = crashes + 1
    /\ Goto(d, "leave")
    /\ Plan(d, CleanupOwned(d))
    /\ UNCHANGED <<fileVars, lock, daemonVars, connVars, opVars>>

\* Mutant: the pid file is not compared with --old-pid.
BeginPromotionUnchecked(d) ==
    /\ pc[d] = "promote"
    /\ IF lock = None /\ Alive(old[d])
       THEN /\ lock' = d
            /\ Plan(d, CleanupDrain(old[d]))
            /\ noted' = [noted EXCEPT ![d] = info # None]
            /\ Goto(d, "rename")
            /\ UNCHANGED connVars
       ELSE Exit(d) /\ UNCHANGED noted
    /\ UNCHANGED <<fileVars, gen, home, old, signal, drained, opVars, crashes>>

\* The staged daemon takes the lock and finds the old daemon as it left it, or
\* exits; its staged files stay behind.
BeginPromotion(d) ==
    /\ pc[d] = "promote"
    /\ IF lock = None /\ pid[Public] = old[d] /\ Alive(old[d])
       THEN /\ lock' = d
            /\ Plan(d, CleanupDrain(old[d]))
            /\ noted' = [noted EXCEPT ![d] = info # None]
            /\ Goto(d, "rename")
            /\ UNCHANGED connVars
       ELSE Exit(d) /\ UNCHANGED noted
    /\ UNCHANGED <<fileVars, gen, home, old, signal, drained, opVars, crashes>>

\* The public socket becomes the drain socket of the old daemon.
RetireSocket(d) ==
    /\ pc[d] = "rename" /\ Ready(d)
    /\ IF sock[Public] = None THEN Exit(d) /\ UNCHANGED fileVars
       ELSE /\ sock' = [sock EXCEPT ![Drain(old[d])] = sock[Public], ![Public] = None]
            /\ Plan(d, <<Put("pid", Drain(old[d]), old[d])>>)
            /\ Goto(d, "signal")
            /\ UNCHANGED <<pid, info, lock, connVars>>
    /\ UNCHANGED <<daemonVars, opVars, crashes>>

\* The staged socket becomes the public one, whatever stands there.
PromoteSocket(d) ==
    /\ pc[d] = "signal" /\ Ready(d) /\ home[d] = Staged
    /\ sock' = [sock EXCEPT ![Public] = sock[Staged], ![Staged] = None]
    /\ home' = [home EXCEPT ![d] = Public]
    /\ Plan(d, <<Put("pid", Public, d), Put("info", Public, d), Rm("pid", Staged)>>)
    /\ UNCHANGED <<pid, info, lock, pc, gen, old, signal, drained, noted, connVars, opVars, crashes>>

\* The second rename fails: the first one is undone.
PromoteFails(d) ==
    /\ "io" \in Options /\ crashes < MaxCrashes
    /\ pc[d] = "signal" /\ Ready(d) /\ home[d] = Staged
    /\ crashes' = crashes + 1
    /\ LET drain == Drain(old[d]) IN
       sock' = IF sock[drain] = None THEN sock
               ELSE [sock EXCEPT ![Public] = sock[drain], ![drain] = None]
    /\ Goto(d, "leave")
    /\ Plan(d, <<Put("pid", Public, old[d])>>)
    /\ UNCHANGED <<pid, info, lock, daemonVars, connVars, opVars>>

\* A daemon that has not reached its accept loop has no handler: a signal ends it.
Handles(d) == pc[d] \in {"serve", "rebind", "stopping", "leave"}

\* SIGUSR2 to the old daemon, the lock is released and the accept loop starts.
SignalOld(d) ==
    /\ pc[d] = "signal" /\ Ready(d) /\ home[d] = Public
    /\ LET o == old[d]
           sent == noted[d] /\ Alive(o)
           killed == sent /\ ~Handles(o) IN
       /\ signal' = IF sent THEN [signal EXCEPT ![o] = @ \cup {IF killed THEN "kill" ELSE "usr2"}] ELSE signal
       /\ pc' = [pc EXCEPT ![d] = "serve", ![o] = IF killed THEN "dead" ELSE @]
       /\ script' = [script EXCEPT ![o] = IF killed THEN <<>> ELSE @]
       /\ sessions' = [sessions EXCEPT ![o] = IF killed THEN {} ELSE @]
       /\ backlog' = [backlog EXCEPT ![o] = IF killed THEN {} ELSE @]
    /\ lock' = None
    /\ UNCHANGED <<fileVars, gen, home, old, drained, noted, opVars, crashes>>

-----------------------------------------------------------------------------
(* The accept loop and the shutdown of a daemon.                           *)

InLoop(d) == pc[d] = "serve" /\ Ready(d)

Accept(d, c) ==
    /\ InLoop(d) /\ c \in backlog[d]
    /\ backlog' = [backlog EXCEPT ![d] = @ \ {c}]
    /\ sessions' = [sessions EXCEPT ![d] = @ \cup {c}]
    /\ UNCHANGED <<fileVars, lock, pc, script, daemonVars, opVars, crashes>>

\* The repair tick: identity files that are gone are written again ...
RepairIdentity(d) ==
    /\ InLoop(d)
    /\ sock[Public] # None /\ pid[Public] = None
    /\ Plan(d, WriteIdentity(d))
    /\ UNCHANGED <<fileVars, lock, pc, daemonVars, connVars, opVars, crashes>>

\* ... and a socket that is gone is bound again, unless somebody is faster.
FindSocketMissing(d) ==
    /\ InLoop(d)
    /\ sock[Public] = None /\ gen[d] < MaxBinds
    /\ Goto(d, "rebind")
    /\ UNCHANGED <<fileVars, lock, script, daemonVars, connVars, opVars, crashes>>

\* The new listener replaces the old one, with what waited in its backlog.
Rebind(d) ==
    /\ pc[d] = "rebind"
    /\ Goto(d, "serve")
    /\ IF sock[Public] # None THEN UNCHANGED <<sock, gen, script, backlog>>
       ELSE /\ sock' = [sock EXCEPT ![Public] = <<d, gen[d] + 1>>]
            /\ gen' = [gen EXCEPT ![d] = @ + 1]
            /\ Plan(d, WriteIdentity(d))
            /\ backlog' = [backlog EXCEPT ![d] = {}]
    /\ UNCHANGED <<pid, info, lock, home, old, signal, drained, noted, sessions, opVars, crashes>>

Leaves(d) ==
    /\ Goto(d, "stopping")
    /\ UNCHANGED <<fileVars, lock, script, gen, home, old, noted, connVars, opVars, crashes>>

\* Mutant: the idle branch does not look at the sessions.
IdleExitBusy(d) ==
    /\ "idle" \in Options
    /\ InLoop(d)
    /\ Leaves(d) /\ UNCHANGED <<signal, drained>>

IdleExit(d) ==
    /\ "idle" \in Options
    /\ InLoop(d) /\ sessions[d] = {}
    /\ Leaves(d) /\ UNCHANGED <<signal, drained>>

HandleTerm(d) ==
    /\ InLoop(d) /\ "term" \in signal[d]
    /\ Leaves(d) /\ UNCHANGED <<signal, drained>>

HandleUsr2(d) ==
    /\ InLoop(d) /\ "usr2" \in signal[d]
    /\ drained' = [drained EXCEPT ![d] = TRUE]
    /\ Leaves(d) /\ UNCHANGED signal

\* The sessions have ended, or, unless they are drained, the drain timeout is over;
\* the backends are stopped and the guard removes the files of the generation.
FinishStop(d) ==
    /\ pc[d] = "stopping"
    /\ drained[d] => sessions[d] = {}
    /\ Goto(d, "leave")
    /\ Plan(d, IF drained[d] THEN CleanupDrain(d) ELSE CleanupOwned(d))
    /\ UNCHANGED <<fileVars, lock, daemonVars, connVars, opVars, crashes>>

Leave(d) ==
    /\ pc[d] = "leave" /\ Ready(d)
    /\ Exit(d)
    /\ UNCHANGED <<fileVars, daemonVars, opVars, crashes>>

-----------------------------------------------------------------------------
(* A proxy: cleanup_stale_socket, then connect_or_spawn.                   *)

Stale == sock[Public] # None /\ ~DaemonAlive(Public)

CheckStale(p) ==
    /\ pc[p] = "idle"
    /\ Goto(p, "try")
    /\ Plan(p, IF Stale THEN <<Rm("sock", Public), Rm("pid", Public)>> ELSE <<>>)
    /\ UNCHANGED <<fileVars, lock, daemonVars, connVars, opVars, crashes>>

\* try_connect without the lock, with it, and wait_for_socket.
ConnectTo(p) ==
    /\ pc[p] \in {"try", "again", "wait"} /\ Ready(p)
    /\ Connect(p)
    /\ Goto(p, "connected")
    /\ Unlock(p)
    /\ UNCHANGED <<fileVars, script, daemonVars, opVars, crashes>>

NotConnectable(p) ==
    /\ pc[p] = "try" /\ Ready(p) /\ ~Connectable(Public)
    /\ Goto(p, "lock")
    /\ UNCHANGED <<fileVars, lock, script, daemonVars, connVars, opVars, crashes>>

TryLock(p) ==
    /\ pc[p] = "lock"
    /\ IF lock = None THEN lock' = p /\ Goto(p, "again")
                      ELSE UNCHANGED lock /\ Goto(p, "wait")
    /\ UNCHANGED <<fileVars, script, daemonVars, connVars, opVars, crashes>>

SpawnDaemon(p) ==
    /\ pc[p] = "again" /\ ~Connectable(Public)
    /\ \E d \in Daemons :
         /\ Spawn(d, "start", None)
         /\ pc' = [pc EXCEPT ![d] = "start", ![p] = "wait"]
    /\ UNCHANGED <<fileVars, lock, script, connVars, opVars, crashes>>

\* A daemon needs less than the 30 s of wait_for_socket to bind its socket, and its
\* repair tick less than that to bind it again.
Binding(d) ==
    \/ pc[d] \in {"start", "unlink", "bind"}
    \/ pc[d] \in {"serve", "rebind"} /\ sock[Public] = None /\ gen[d] < MaxBinds

\* Mutant: wait_for_socket has no deadline.
GiveUpNever(p) ==
    /\ pc[p] = "wait" /\ FALSE
    /\ UNCHANGED vars

GiveUp(p) ==
    /\ pc[p] = "wait" /\ ~Connectable(Public) /\ ~\E d \in Daemons : Binding(d)
    /\ Goto(p, "idle")
    /\ Unlock(p)
    /\ UNCHANGED <<fileVars, script, daemonVars, connVars, opVars, crashes>>

\* The connection broke: the proxy reconnects.
Lost(p) ==
    /\ pc[p] = "connected" /\ ~Connected(p)
    /\ Goto(p, "idle")
    /\ UNCHANGED <<fileVars, lock, script, daemonVars, connVars, opVars, crashes>>

\* The client closes its end: the session's task sees it, or the accept does.
Disconnect(p) ==
    /\ "leave" \in Options
    /\ pc[p] = "connected"
    /\ Goto(p, "gone")
    /\ Ends(p)
    /\ UNCHANGED <<fileVars, daemonVars, opVars, crashes>>

-----------------------------------------------------------------------------
(* Commands.                                                               *)

\* stop and restart: SIGTERM to the daemon of the pid file, or its files removed.
BeginStop ==
    /\ "stop" \in Options /\ commands < MaxCommands
    /\ pc[Operator] = "idle" /\ Ready(Operator) /\ pid[Public] # None
    /\ commands' = commands + 1
    /\ IF DaemonAlive(Public)
       THEN /\ Goto(Operator, "stopping")
            /\ target' = [daemon |-> pid[Public], by |-> None]
            /\ UNCHANGED script
       ELSE Plan(Operator, CleanupFiles) /\ UNCHANGED <<pc, target>>
    /\ UNCHANGED <<fileVars, lock, daemonVars, connVars, crashes>>

SendTerm ==
    /\ pc[Operator] = "stopping"
    /\ LET d == target.daemon
           killed == Alive(d) /\ ~Handles(d) IN
       /\ signal' = IF Alive(d) THEN [signal EXCEPT ![d] = @ \cup {IF killed THEN "kill" ELSE "term"}] ELSE signal
       /\ pc' = [pc EXCEPT ![Operator] = IF Alive(d) THEN "waitstop" ELSE "idle",
                           ![d] = IF killed THEN "dead" ELSE @]
       /\ script' = [script EXCEPT ![d] = IF killed THEN <<>> ELSE @]
       /\ sessions' = [sessions EXCEPT ![d] = IF killed THEN {} ELSE @]
       /\ backlog' = [backlog EXCEPT ![d] = IF killed THEN {} ELSE @]
       /\ lock' = IF killed /\ lock = d THEN None ELSE lock
    /\ UNCHANGED <<fileVars, gen, home, old, drained, noted, opVars, crashes>>

\* The pid file no longer names a live daemon.  Whose files are there now is not asked.
StopSeesEnd ==
    /\ pc[Operator] = "waitstop" /\ ~DaemonAlive(Public)
    /\ Goto(Operator, "idle")
    /\ Plan(Operator, CleanupFiles)
    /\ UNCHANGED <<fileVars, lock, daemonVars, connVars, opVars, crashes>>

StopTimesOut ==
    /\ pc[Operator] = "waitstop" /\ DaemonAlive(Public)
    /\ Goto(Operator, "idle")
    /\ UNCHANGED <<fileVars, lock, script, daemonVars, connVars, opVars, crashes>>

\* upgrade: a staged daemon beside a live one, else a normal one.
BeginUpgrade ==
    /\ "upgrade" \in Options /\ commands < MaxCommands
    /\ pc[Operator] = "idle" /\ Ready(Operator)
    /\ commands' = commands + 1
    /\ IF DaemonAlive(Public)
       THEN /\ \E d \in Daemons :
                 /\ Spawn(d, "start", pid[Public])
                 /\ pc' = [pc EXCEPT ![d] = "start", ![Operator] = "staging"]
            /\ target' = [daemon |-> pid[Public], by |-> None]
            /\ UNCHANGED script
       ELSE /\ Goto(Operator, "spawning")
            /\ target' = [daemon |-> None, by |-> None]
            /\ Plan(Operator, IF pid[Public] # None \/ sock[Public] # None THEN CleanupFiles ELSE <<>>)
            /\ UNCHANGED daemonVars
    /\ UNCHANGED <<fileVars, lock, connVars, crashes>>

SpawnNormal ==
    /\ pc[Operator] = "spawning" /\ Ready(Operator)
    /\ \E d \in Daemons :
         /\ Spawn(d, "start", None)
         /\ pc' = [pc EXCEPT ![d] = "start", ![Operator] = "staging"]
    /\ UNCHANGED <<fileVars, lock, script, connVars, opVars, crashes>>

\* Another daemon in the pid file, alive and connectable: the handshake begins.
BeginSmoke ==
    /\ pc[Operator] = "staging"
    /\ pid[Public] # target.daemon /\ DaemonAlive(Public)
    /\ Connect(Operator)
    /\ Goto(Operator, "smoke")
    /\ UNCHANGED <<fileVars, lock, script, daemonVars, opVars, crashes>>

\* The initialize is answered: the upgrade is reported as done.
SmokeAnswered ==
    /\ pc[Operator] = "smoke"
    /\ \E d \in Daemons : Operator \in sessions[d] /\ target' = [target EXCEPT !.by = d]
    /\ Goto(Operator, "idle")
    /\ Ends(Operator)
    /\ UNCHANGED <<fileVars, daemonVars, commands, crashes>>

SmokeFails ==
    /\ pc[Operator] = "smoke" /\ ~Connected(Operator)
    /\ Goto(Operator, "staging")
    /\ UNCHANGED <<fileVars, lock, script, daemonVars, connVars, opVars, crashes>>

\* The staged daemon has exited, or the deadline is over.
UpgradeFails ==
    /\ pc[Operator] = "staging"
    /\ Goto(Operator, "idle")
    /\ UNCHANGED <<fileVars, lock, script, daemonVars, connVars, opVars, crashes>>

\* status removes the drain files of daemons that are dead.
SweepDrains ==
    /\ "status" \in Options
    /\ pc[Operator] = "idle" /\ Ready(Operator)
    /\ \E d \in Daemons :
         /\ pid[Drain(d)] = d /\ ~Alive(d)
         /\ Plan(Operator, CleanupDrain(d))
    /\ UNCHANGED <<fileVars, lock, pc, daemonVars, connVars, opVars, crashes>>

Crash(x) ==
    /\ "crash" \in Options /\ crashes < MaxCrashes
    /\ crashes' = crashes + 1
    /\ \/ /\ x \in Daemons /\ Alive(x) /\ Goto(x, "dead")
          /\ signal' = [signal EXCEPT ![x] = @ \cup {"kill"}]
       \/ x \in Proxies /\ pc[x] # "gone" /\ Goto(x, "gone") /\ UNCHANGED signal
    /\ Ends(x)
    /\ UNCHANGED <<fileVars, gen, home, old, drained, noted, opVars>>

-----------------------------------------------------------------------------

DaemonStep(d) ==
    \/ CheckSocket(d) \/ Unlink(d) \/ Bind(d) \/ Initialized(d)
    \/ BeginPromotion(d) \/ RetireSocket(d) \/ PromoteSocket(d) \/ SignalOld(d)
    \/ RepairIdentity(d) \/ FindSocketMissing(d) \/ Rebind(d)
    \/ HandleTerm(d) \/ HandleUsr2(d) \/ FinishStop(d) \/ Leave(d)

ProxyStep(p) ==
    \/ CheckStale(p) \/ ConnectTo(p) \/ NotConnectable(p) \/ TryLock(p)
    \/ SpawnDaemon(p) \/ GiveUp(p) \/ Lost(p)

OperatorStep ==
    \/ SendTerm \/ StopSeesEnd \/ StopTimesOut
    \/ SpawnNormal \/ BeginSmoke \/ SmokeAnswered \/ SmokeFails \/ UpgradeFails

DaemonNext ==
    \/ \E x \in Processes : Turn(x) /\ (Execute(x) \/ Crash(x))
    \/ \E d \in Daemons : Turn(d) /\ (DaemonStep(d) \/ InitializeFails(d) \/ PromoteFails(d) \/ IdleExit(d))
    \/ \E d \in Daemons, c \in Clients : Turn(d) /\ Accept(d, c)
    \/ \E p \in Proxies : Turn(p) /\ (ProxyStep(p) \/ Disconnect(p))
    \/ Turn(Operator) /\ (OperatorStep \/ BeginStop \/ BeginUpgrade \/ SweepDrains)

\* Every running process goes on and a daemon accepts; nobody is made to leave,
\* to crash or to give a command.
DaemonFairness ==
    /\ \A x \in Processes : WF_vars(Execute(x))
    /\ \A d \in Daemons : WF_vars(DaemonStep(d)) /\ WF_vars(\E c \in Clients : Accept(d, c))
    /\ \A p \in Proxies : WF_vars(ProxyStep(p))
    /\ WF_vars(OperatorStep)

DaemonSpec == DaemonInit /\ [][DaemonNext]_vars /\ DaemonFairness

-----------------------------------------------------------------------------
(* Properties.                                                             *)

Exiting(d) == pc[d] # "dead" /\ pc'[d] = "dead"

\* Neither the idle timer nor an upgrade costs a client its session: a daemon that
\* is not killed and was not told to terminate leaves when it has no session left
\* (the guard of the idle branch, 247, and the wait without a limit, 326).
SessionsSpared ==
    [][\A d \in Daemons :
         Exiting(d) /\ sessions[d] # {} => signal'[d] \cap {"term", "kill"} # {}]_vars

\* A daemon that left by itself is not named by the public pid file, so stop does
\* not signal a pid that may be another process by then (cleanup_owned_generation_files).
CleanExit ==
    DaemonTypeOK /\ \A d \in Daemons : pid[Public] = d /\ pc[d] = "dead" => "kill" \in signal[d]

\* The upgrade reports success only when a daemon other than the one it replaces
\* has answered at the public socket (46-52: three reads, one after the other).
UpgradeReplaces == target.by # None => target.by # target.daemon

\* A promotion retires the socket of the daemon it was staged against, not that of
\* a third one (the pid check at 131, four file operations before the rename at 142).
RetiresTheOld ==
    \A d \in Daemons :
        sock[Drain(d)] # None => sock[Drain(d)][1] = d \/ \E e \in Daemons : "kill" \in signal[e]

UpgradeSound == UpgradeReplaces /\ RetiresTheOld

\* A proxy would have to spawn more daemons than the bound allows.
Exhausted == \E p \in Proxies : pc[p] = "again" /\ \A d \in Daemons : pc[d] # "none"

\* Whatever happened to the files, a proxy that needs a daemon gets a connection.
ProxiesServed ==
    \A p \in Proxies : pc[p] = "idle" ~> (pc[p] \in {"connected", "gone"} \/ Exhausted)

\* The flock avoids a duplicate start of the daemon (connect_or_spawn, 986-1023).
OneDaemon ==
    \A d, e \in Daemons : InLoop(d) /\ InLoop(e) => d = e

\* A connection that waits in the backlog is accepted, or broken so that the proxy
\* connects again.  It does not hold (README).
BacklogServed ==
    \A p \in Proxies : (pc[p] = "connected") ~> (pc[p] # "connected" \/ \E d \in Daemons : p \in sessions[d])

=============================================================================
