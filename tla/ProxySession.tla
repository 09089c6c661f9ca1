---------------------------- MODULE ProxySession ----------------------------
(***************************************************************************)
(* The proxy (src/src/ipc/proxy.rs) between one client on stdio and the    *)
(* daemon on the socket, which may go away and be replaced.  One process;  *)
(* an action is a branch of a select! or a write of the flush.             *)
(* A generation is a connection to a daemon.  Lines carry what the tracker *)
(* looks at: kind and id; handshake lines never enter the queues.          *)
(*                                                                         *)
(* A behaviour is of one of the Scenarios, which say what the surroundings *)
(* do:                                                                     *)
(*   "hang"   the client may stop responding, or leave;                    *)
(*   "fail"   the new daemon may be gone again, or not come up, before     *)
(*            the reconnect is complete;                                   *)
(*   "split"  a line may arrive in two parts, up to the last connection.   *)
(* Bounds: MaxGen connections, of which the last one stays; one request of *)
(* the daemon, with the same id, on each of the first MaxAsks; MaxPings    *)
(* pings per bridge phase, one more for a client that hangs when all it    *)
(* wrote has been read.                                                    *)
(***************************************************************************)
EXTENDS Naturals, Sequences

CONSTANTS NumRequests, MaxGen, MaxAsks, MaxPings, Scenarios

ASSUME ProxyAssumption ==
    /\ NumRequests \in Nat
    /\ MaxGen \in Nat \ {0}
    /\ MaxAsks \in Nat
    /\ MaxPings \in Nat

VARIABLES
    may,             \* the scenario of this behaviour
    stage,           \* where the proxy is
    stream,          \* the connection the bridge uses
    fresh,           \* the latest connection
    client_pending, server_pending,   \* JsonRpcTracker
    queue,           \* queued_client_messages
    flushed,         \* how many of them have been written to fresh
    seq, ping, ignored,   \* proxy_ping_sequence, pending_proxy_ping, ignored ids
    half,            \* the inputs of which a part of a line has been read
    up,              \* connections whose daemon is there
    toDaemon, toProxy,    \* lines in each connection
    running,         \* the requests the daemon is working on
    mayAsk,          \* connections on which the daemon may send a request
    client,          \* "live", "hung" or "gone"
    next,            \* the next request of the client
    stdin,           \* lines written by the client
    owed,            \* requests of daemon and proxy the client has not answered
    ran,             \* history: requests daemons have received
    result           \* history: what the client got for each request

pingVars   == <<seq, ping, ignored>>
queueVars  == <<queue, flushed>>
tracker    == <<client_pending, server_pending>>
proxyVars  == <<may, stage, stream, fresh, tracker, queueVars, pingVars, half>>
daemonVars == <<up, toDaemon, toProxy, running, mayAsk, ran>>
clientVars == <<client, next, stdin, owed, result>>
vars == <<proxyVars, daemonVars, clientVars>>

Requests == 1..NumRequests
Gens == 1..MaxGen

Line(kind, id, gen) == [kind |-> kind, id |-> id, gen |-> gen]
Cut == Line("cut", 0, 0)     \* the rest of a line whose beginning was lost
AskId == 0

TypeOK ==
    /\ stage \in {"handshake", "bridge", "reconnect", "replay", "flush", "exited"}
    /\ fresh \in Gens
    /\ stream \in 1..fresh
    /\ client_pending \subseteq Requests
    /\ server_pending \subseteq {AskId}
    /\ \A i \in 1..Len(queue) : queue[i].kind \in {"request", "cut"}
    /\ flushed \in 0..Len(queue)
    /\ seq \in 0..(MaxPings + 1)
    /\ ping \in 0..seq
    /\ ignored \subseteq 1..seq
    /\ half \subseteq {"client", "daemon"}
    /\ up \subseteq Gens
    /\ running \in [Gens -> SUBSET Requests]
    /\ mayAsk \subseteq Gens
    /\ client \in {"live", "hung", "gone"}
    /\ next \in 1..(NumRequests + 1)
    /\ result \in [Requests -> {"none", "done", "failed", "twice"}]

Init ==
    /\ may \in Scenarios
    /\ stage = "handshake"
    /\ stream = 1
    /\ fresh = 1
    /\ client_pending = {}
    /\ server_pending = {}
    /\ queue = << >>
    /\ flushed = 0
    /\ seq = 0
    /\ ping = 0
    /\ ignored = {}
    /\ half = {}
    /\ up = {1}
    /\ toDaemon = [g \in Gens |-> << >>]
    /\ toProxy = [g \in Gens |-> << >>]
    /\ running = [g \in Gens |-> {}]
    /\ mayAsk = {}
    /\ client = "live"
    /\ next = 1
    /\ stdin = << >>
    /\ owed = {}
    /\ ran = << >>
    /\ result = [r \in Requests |-> "none"]

-----------------------------------------------------------------------------
(* The client *)

SendRequest ==
    /\ client = "live"
    /\ stage \notin {"handshake", "exited"}
    /\ next <= NumRequests
    /\ stdin' = Append(stdin, Line("request", next, 0))
    /\ next' = next + 1
    /\ UNCHANGED <<proxyVars, daemonVars, client, owed, result>>

\* It answers pings and requests of the daemon in any order.
AnswerOwed ==
    /\ client = "live"
    /\ stage # "exited"
    /\ \E line \in owed :
          /\ stdin' = Append(stdin, line)
          /\ owed' = owed \ {line}
    /\ UNCHANGED <<proxyVars, daemonVars, client, next, result>>

Silence ==
    /\ "hang" \in may
    /\ client = "live"
    /\ client' \in {"hung", "gone"}
    /\ UNCHANGED <<proxyVars, daemonVars, next, stdin, owed, result>>

-----------------------------------------------------------------------------
(* The daemon *)

Receive(g) ==
    /\ g \in up
    /\ toDaemon[g] # << >>
    /\ toDaemon' = [toDaemon EXCEPT ![g] = Tail(@)]
    /\ LET line == Head(toDaemon[g]) IN
          IF line.kind = "request"
          THEN /\ running' = [running EXCEPT ![g] = @ \cup {line.id}]
               /\ ran' = Append(ran, line.id)
          ELSE UNCHANGED <<running, ran>>
    /\ UNCHANGED <<proxyVars, up, toProxy, mayAsk, clientVars>>

\* Requests are worked on concurrently.
Respond(g) ==
    /\ g \in up
    /\ \E r \in running[g] :
          /\ running' = [running EXCEPT ![g] = @ \ {r}]
          /\ toProxy' = [toProxy EXCEPT ![g] = Append(@, Line("response", r, g))]
    /\ UNCHANGED <<proxyVars, up, toDaemon, mayAsk, ran, clientVars>>

Ask(g) ==
    /\ g \in up \cap mayAsk
    /\ mayAsk' = mayAsk \ {g}
    /\ toProxy' = [toProxy EXCEPT ![g] = Append(@, Line("ask", AskId, g))]
    /\ UNCHANGED <<proxyVars, up, toDaemon, running, ran, clientVars>>

\* What it has written can still be read.
Die(g) ==
    /\ g \in up
    /\ g < MaxGen
    /\ "fail" \in may \/ (g = stream /\ stage \in {"handshake", "bridge"})
    /\ up' = up \ {g}
    /\ toDaemon' = [toDaemon EXCEPT ![g] = << >>]
    /\ running' = [running EXCEPT ![g] = {}]
    /\ mayAsk' = mayAsk \ {g}
    /\ UNCHANGED <<proxyVars, toProxy, ran, clientVars>>

-----------------------------------------------------------------------------
(* read_line() is dropped when another branch of its select! completes; what *)
(* it had read of a line is lost.                                            *)

ReadPart(from) ==
    /\ "split" \in may /\ fresh < MaxGen
    /\ from \notin half
    /\ half' = half \cup {from}

ReadPartOfClient ==
    /\ stage \in {"bridge", "reconnect", "replay"}
    /\ stdin # << >>
    /\ ReadPart("client")
    /\ UNCHANGED <<may, stage, stream, fresh, tracker, queueVars, pingVars, daemonVars, clientVars>>

ReadPartOfDaemon ==
    /\ stage = "bridge"
    /\ toProxy[stream] # << >>
    /\ ReadPart("daemon")
    /\ UNCHANGED <<may, stage, stream, fresh, tracker, queueVars, pingVars, daemonVars, clientVars>>

CutHead(lines, from) == IF from \in half THEN [lines EXCEPT ![1] = Cut] ELSE lines

DropClientPart == stdin' = CutHead(stdin, "client")
DropDaemonPart == toProxy' = [toProxy EXCEPT ![stream] = CutHead(@, "daemon")]

\* The tick of orphan_check; nothing else happens while the parent lives.
OrphanTick ==
    /\ stage \in {"bridge", "reconnect", "replay"}
    /\ half # {}
    /\ half' = {}
    /\ DropClientPart
    /\ DropDaemonPart
    /\ UNCHANGED <<may, stage, stream, fresh, tracker, queueVars, pingVars,
                   up, toDaemon, running, mayAsk, ran, client, next, owed, result>>

-----------------------------------------------------------------------------
(* Handshake and bridge *)

Askers(g) == IF g <= MaxAsks THEN {g} ELSE {}

\* handshake_phase(): initialize, its answer, initialized.
Handshake ==
    /\ stage = "handshake"
    /\ stream \in up
    /\ client # "gone"
    /\ stage' = "bridge"
    /\ mayAsk' = mayAsk \cup Askers(stream)
    /\ UNCHANGED <<may, stream, fresh, tracker, queueVars, pingVars, half,
                   up, toDaemon, toProxy, running, ran, clientVars>>

HandshakeFails ==
    /\ stage = "handshake"
    /\ stream \notin up \/ client = "gone"
    /\ stage' = "exited"
    /\ UNCHANGED <<may, stream, fresh, tracker, queueVars, pingVars, half, daemonVars, clientVars>>

Got(r, what) == IF result[r] = "none" THEN what ELSE "twice"

\* observe_daemon_message()
ObserveDaemon(line) ==
    /\ client_pending' = IF line.kind = "response" THEN client_pending \ {line.id} ELSE client_pending
    /\ server_pending' = IF line.kind = "ask" THEN server_pending \cup {line.id} ELSE server_pending

\* What the client makes of it.
Deliver(line) ==
    /\ result' = IF line.kind = "response"
                 THEN [result EXCEPT ![line.id] = Got(line.id, "done")] ELSE result
    /\ owed' = IF line.kind = "ask" THEN owed \cup {line} ELSE owed

ForwardToClient ==
    /\ stage = "bridge"
    /\ client # "gone"
    /\ toProxy[stream] # << >>
    /\ ObserveDaemon(Head(toProxy[stream]))
    /\ Deliver(Head(toProxy[stream]))
    /\ toProxy' = [toProxy EXCEPT ![stream] = Tail(@)]
    /\ half' = {}
    /\ DropClientPart
    /\ UNCHANGED <<may, stage, stream, fresh, queueVars, pingVars,
                   up, toDaemon, running, mayAsk, ran, client, next>>

\* Mutant of Errors: the tracker is drained without a word to the client.
NoErrors(pending) == result

Errors(pending) == [r \in Requests |-> IF r \in pending THEN Got(r, "failed") ELSE result[r]]

\* The ping state is local to bridge_phase().
EndPings == seq' = 0 /\ ping' = 0 /\ ignored' = {}

\* fail_pending_client_requests(), on leaving the bridge.
FailPending(pending) ==
    /\ result' = Errors(pending)
    /\ client_pending' = {}
    /\ server_pending' = {}
    /\ stage' = IF client = "gone" /\ pending # {} THEN "exited" ELSE "reconnect"
    /\ EndPings
    /\ half' = {}

\* The end of the stream, after everything the daemon wrote.
DaemonGone ==
    /\ stage = "bridge"
    /\ stream \notin up
    /\ toProxy[stream] = << >>
    /\ FailPending(client_pending)
    /\ DropClientPart
    /\ UNCHANGED <<may, stream, fresh, queueVars, daemonVars, client, next, owed>>

TakeLine ==
    /\ stdin # << >>
    /\ stdin' = Tail(stdin)
    /\ half' = {}
    /\ DropDaemonPart

OurPong(line) == line.kind = "pong" /\ (line.id = ping \/ line.id \in ignored)

\* consume_proxy_ping_response()
ConsumePong ==
    /\ stage = "bridge"
    /\ TakeLine
    /\ LET line == Head(stdin) IN
          /\ OurPong(line)
          /\ ping' = IF line.id = ping THEN 0 ELSE ping
          /\ ignored' = IF line.id = ping THEN ignored ELSE ignored \ {line.id}
    /\ UNCHANGED <<may, stage, stream, fresh, tracker, queueVars, seq,
                   up, toDaemon, running, mayAsk, ran, client, next, owed, result>>

\* observe_client_message(): an answer to a request of an earlier generation,
\* or of the proxy, is dropped.
Forwards(line) ==
    \/ line.kind \in {"request", "cut"}
    \/ line.kind = "ask" /\ line.id \in server_pending

\* Mutant of Pending: answers are taken for requests.
PendingAnswers(line) == client_pending \cup {line.id}

Pending(line) ==
    IF line.kind = "request" THEN client_pending \cup {line.id} ELSE client_pending

\* Mutant of Observe: requests are not recorded.
ObserveAnswers(line) ==
    /\ UNCHANGED client_pending
    /\ server_pending' = IF line.kind = "ask" THEN server_pending \ {line.id} ELSE server_pending

Observe(line) ==
    /\ client_pending' = Pending(line)
    /\ server_pending' = IF line.kind = "ask" THEN server_pending \ {line.id} ELSE server_pending

\* Any other line shows that the client is alive; its pong may come later.
Supersede ==
    /\ ping' = 0
    /\ ignored' = IF ping = 0 THEN ignored ELSE ignored \cup {ping}
    /\ UNCHANGED seq

DropAnswer ==
    /\ stage = "bridge"
    /\ TakeLine
    /\ LET line == Head(stdin) IN ~OurPong(line) /\ ~Forwards(line)
    /\ Supersede
    /\ UNCHANGED <<may, stage, stream, fresh, tracker, queueVars,
                   up, toDaemon, running, mayAsk, ran, client, next, owed, result>>

ForwardToDaemon ==
    /\ stage = "bridge"
    /\ TakeLine
    /\ LET line == Head(stdin) IN
          /\ Forwards(line)
          /\ Observe(line)
          /\ toDaemon' = [toDaemon EXCEPT ![stream] = Append(@, line)]
    /\ stream \in up
    /\ Supersede
    /\ UNCHANGED <<may, stage, stream, fresh, queueVars,
                   up, running, mayAsk, ran, client, next, owed, result>>

\* The write fails; whatever the daemon wrote last stays unread.
WriteFails ==
    /\ stage = "bridge"
    /\ TakeLine
    /\ LET line == Head(stdin) IN
          /\ Forwards(line)
          /\ FailPending(Pending(line))
    /\ stream \notin up
    /\ UNCHANGED <<may, stream, fresh, queueVars,
                   up, toDaemon, running, mayAsk, ran, client, next, owed>>

InFlight == client_pending # {} \/ server_pending # {}

\* idle_sleep: nothing has come in for idle_probe_after, the end of the stream
\* included.
IdleProbe ==
    /\ stage = "bridge"
    /\ stream \in up
    /\ ping = 0
    /\ ~InFlight
    /\ client # "gone"
    /\ seq < MaxPings \/ (seq = MaxPings /\ client = "hung" /\ stdin = << >>)
    /\ seq' = seq + 1
    /\ ping' = seq + 1
    /\ owed' = owed \cup {Line("pong", seq + 1, stream)}
    /\ half' = {}
    /\ DropClientPart
    /\ DropDaemonPart
    /\ UNCHANGED <<may, stage, stream, fresh, tracker, queueVars, ignored,
                   up, toDaemon, running, mayAsk, ran, client, next, result>>

Exit ==
    /\ stage' = "exited"
    /\ UNCHANGED <<may, stream, fresh, tracker, queueVars, pingVars, half, daemonVars, clientVars>>

\* A live client answers within ping_timeout.
PingTimeout == stage = "bridge" /\ ping # 0 /\ client = "hung" /\ Exit

\* The end of stdin, a broken stdout, or a new parent process.
ClientGone == stage \in {"bridge", "reconnect", "replay"} /\ client = "gone" /\ Exit

-----------------------------------------------------------------------------
(* Reconnect, while the client is monitored *)

ReadWhileReconnecting ==
    /\ stage \in {"reconnect", "replay"}
    /\ TakeLine
    /\ LET line == Head(stdin) IN
          /\ Observe(line)
          /\ queue' = IF Forwards(line) THEN Append(queue, line) ELSE queue
    /\ UNCHANGED <<may, stage, stream, fresh, flushed, pingVars,
                   up, toDaemon, running, mayAsk, ran, client, next, owed, result>>

\* connect_or_spawn(), after the backoff.
Connect ==
    /\ stage = "reconnect"
    /\ fresh < MaxGen
    /\ fresh' = fresh + 1
    /\ up' = up \cup {fresh'}
    /\ stage' = "replay"
    /\ UNCHANGED <<may, stream, tracker, queueVars, pingVars, half,
                   toDaemon, toProxy, running, mayAsk, ran, clientVars>>

\* replay_handshake()
Replay ==
    /\ stage = "replay"
    /\ fresh \in up
    /\ stage' = "flush"
    /\ mayAsk' = mayAsk \cup Askers(fresh)
    /\ half' = {}
    /\ DropClientPart
    /\ UNCHANGED <<may, stream, fresh, tracker, queueVars, pingVars,
                   up, toDaemon, toProxy, running, ran, client, next, owed, result>>

\* ReconnectOutcome::Failed: the loop goes on with the bridge over the old
\* stream.
Failed ==
    /\ stage' = "bridge"
    /\ half' = {}
    /\ DropClientPart
    /\ UNCHANGED <<may, stream, fresh, tracker, queueVars, pingVars,
                   daemonVars, client, next, owed, result>>

ConnectFails == "fail" \in may /\ stage = "reconnect" /\ Failed

ReplayFails == stage = "replay" /\ fresh \notin up /\ Failed

\* flush_queued_client_messages(), one write.
FlushLine ==
    /\ stage = "flush"
    /\ flushed < Len(queue)
    /\ fresh \in up
    /\ toDaemon' = [toDaemon EXCEPT ![fresh] = Append(@, queue[flushed + 1])]
    /\ flushed' = flushed + 1
    /\ UNCHANGED <<may, stage, stream, fresh, tracker, queue, pingVars, half,
                   up, toProxy, running, mayAsk, ran, clientVars>>

\* The queue stays as it is.
FlushFails ==
    /\ stage = "flush"
    /\ flushed < Len(queue)
    /\ fresh \notin up
    /\ flushed' = 0
    /\ stage' = "bridge"
    /\ UNCHANGED <<may, stream, fresh, tracker, queue, pingVars, half, daemonVars, clientVars>>

\* Mutant of ClearQueue: the queue is flushed again after the next reconnect.
KeepQueue == UNCHANGED queue

ClearQueue == queue' = << >>

FlushDone ==
    /\ stage = "flush"
    /\ flushed = Len(queue)
    /\ ClearQueue
    /\ flushed' = 0
    /\ stream' = fresh
    /\ stage' = "bridge"
    /\ toProxy' = [toProxy EXCEPT ![stream] = << >>]
    /\ UNCHANGED <<may, fresh, tracker, pingVars, half,
                   up, toDaemon, running, mayAsk, ran, clientVars>>

-----------------------------------------------------------------------------

Client == SendRequest \/ AnswerOwed \/ Silence
Daemon == \E g \in Gens : Receive(g) \/ Respond(g) \/ Ask(g) \/ Die(g)
Partial == ReadPartOfClient \/ ReadPartOfDaemon \/ OrphanTick

Proxy ==
    \/ Handshake \/ HandshakeFails
    \/ ForwardToClient \/ DaemonGone
    \/ ConsumePong \/ DropAnswer \/ ForwardToDaemon \/ WriteFails
    \/ IdleProbe \/ PingTimeout \/ ClientGone
    \/ ReadWhileReconnecting \/ Connect \/ ConnectFails \/ Replay \/ ReplayFails
    \/ FlushLine \/ FlushFails \/ FlushDone

Next == Client \/ Daemon \/ Partial \/ Proxy

Spec == Init /\ [][Next]_vars

\* The daemon reads and answers; the proxy's branches, which tokio polls in a
\* fixed or random order, all get their turn; its timers run out; of many
\* attempts to reach or spawn a daemon one succeeds.  No client acts, no
\* daemon dies and no attempt fails by force.
FairSpec ==
    /\ Spec
    /\ \A g \in Gens : WF_vars(Receive(g)) /\ WF_vars(Respond(g))
    /\ WF_vars(Handshake) /\ WF_vars(HandshakeFails)
    /\ WF_vars(ForwardToClient) /\ WF_vars(DaemonGone)
    /\ WF_vars(ConsumePong) /\ WF_vars(DropAnswer)
    /\ WF_vars(ForwardToDaemon) /\ WF_vars(WriteFails)
    /\ WF_vars(IdleProbe) /\ WF_vars(PingTimeout) /\ WF_vars(ClientGone)
    /\ WF_vars(ReadWhileReconnecting) /\ SF_vars(Connect)
    /\ WF_vars(Replay) /\ WF_vars(ReplayFails)
    /\ WF_vars(FlushLine) /\ WF_vars(FlushFails) /\ WF_vars(FlushDone)

-----------------------------------------------------------------------------
(* Properties *)

Sent(g, r) ==
    \/ \E i \in 1..Len(toDaemon[g]) : toDaemon[g][i] = Line("request", r, 0)
    \/ r \in running[g]
    \/ \E i \in 1..Len(toProxy[g]) : toProxy[g][i] = Line("response", r, g)

Queued(r) == \E i \in (flushed + 1)..Len(queue) : queue[i] = Line("request", r, 0)

\* The tracker accounts for the client's requests: those it holds are the ones
\* read and not answered, and each of them is where its answer comes from: on a
\* connection, in the daemon, or in the queue; otherwise the bridge is about to
\* find that the daemon is gone (proxy.rs, JsonRpcTracker).
Accounted ==
    TypeOK /\ (stage # "exited" /\ "split" \notin may =>
        /\ client_pending = {r \in 1..(next - 1) :
              result[r] = "none" /\ ~ \E i \in 1..Len(stdin) : stdin[i] = Line("request", r, 0)}
        /\ \A r \in client_pending :
              CASE stage = "bridge" -> stream \in up => Sent(stream, r)
                [] stage \in {"reconnect", "replay"} -> Queued(r)
                [] stage = "flush" -> fresh \in up => Queued(r) \/ Sent(fresh, r)
                [] OTHER -> FALSE)

\* Across reconnects a request reaches one daemon, in order, before it is
\* answered, and is answered once: the proxy implements RequestSession, unless
\* an attempt to reconnect fails half-way.
Seen(what, nothing) == IF "fail" \in may THEN nothing ELSE what
Session == INSTANCE RequestSession
               WITH ran <- Seen(ran, << >>), result <- Seen(result, [r \in Requests |-> "none"])
KeepsSession == Session!Spec

\* Every request is answered while the proxy is there ("daemon restarts become
\* retryable request errors instead of transport loss", src/README.md).
RequestsAnswered ==
    \A r \in Requests : (next > r /\ "split" \notin may) ~> (result[r] # "none" \/ stage = "exited")

\* A client that has gone silent is noticed, unless the daemon waits for an
\* answer of it ("clients that keep stdio open but do not answer the probe are
\* reaped", architecture.md).
SilentNoticed ==
    (client # "live" /\ "split" \notin may) ~> (stage = "exited" \/ server_pending # {})
=============================================================================
