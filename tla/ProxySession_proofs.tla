------------------------ MODULE ProxySession_proofs ------------------------
(***************************************************************************)
(* What becomes of the requests of a client while its daemons come and go, *)
(* for any number of requests, connections, pings and in every scenario.   *)
(*                                                                         *)
(* A queue or a connection matters by the ids of the requests or responses *)
(* in it and by their order.                                               *)
(***************************************************************************)
EXTENDS ProxySession, TLAPS

Kinds == {"request", "response", "ask", "pong", "cut"}
Lines ==
    {l \in [kind : Kinds, id : Nat, gen : Nat] :
        /\ l.kind \in {"request", "response"} => l.id \in Requests
        /\ l.kind = "request" => l.gen = 0
        /\ l.kind = "ask" => l.id = AskId}

\* The requests among the lines s, and the order in which the client sent them.
Asked(s) == {s[i].id : i \in {j \in 1..Len(s) : s[j].kind = "request"}}
InOrder(s) ==
    \A i, j \in 1..Len(s) :
        i < j /\ s[i].kind = "request" /\ s[j].kind = "request" => s[i].id < s[j].id

\* The responses among the lines s, and that none is there twice.
Answered(s) == {s[i].id : i \in {j \in 1..Len(s) : s[j].kind = "response"}}
Distinct(s) ==
    \A i, j \in 1..Len(s) :
        s[i].kind = "response" /\ s[j].kind = "response" /\ s[i].id = s[j].id => i = j

\* The responses are of connection g.
Of(s, g) == \A i \in 1..Len(s) : s[i].kind = "response" => s[i].gen = g

\* The requests of the queue that have not been flushed.
Waiting == {queue[i].id : i \in {j \in (flushed + 1)..Len(queue) : queue[j].kind = "request"}}

\* The requests the proxy has read.
Read == {r \in Requests : r < next /\ \A u \in Asked(stdin) : r < u}
Fresh == {r \in Requests : result[r] = "none"}
Begun == {ran[i] : i \in 1..Len(ran)}

-----------------------------------------------------------------------------

Typed ==
    /\ TypeOK
    /\ may \in Scenarios
    /\ stdin \in Seq(Lines)
    /\ queue \in Seq(Lines)
    /\ toDaemon \in [Gens -> Seq(Lines)]
    /\ toProxy \in [Gens -> Seq(Lines)]
    /\ \A g \in Gens : Of(toProxy[g], g)
    /\ owed \subseteq {l \in Lines : l.kind \in {"ask", "pong"}}
    /\ ran \in Seq(Requests)

\* While the proxy looks for a daemon the bridge's is gone, and asks nothing.
Stages ==
    /\ "split" \notin may => half = {}
    /\ stage # "flush" => flushed = 0
    /\ stage \in {"reconnect", "replay"} => server_pending = {}
    /\ stage \in {"reconnect", "replay", "flush"} => stream \notin up
    /\ up \subseteq 1..fresh
    /\ stage = "handshake" => client_pending = {}

\* What is on its way, or answered, has been read, and what is still to be read comes later.
Unread == InOrder(stdin) /\ \A u \in Asked(stdin) : u < next
OnTheWay ==
    /\ Unread
    /\ client_pending \subseteq Read \cap Fresh
    /\ Asked(queue) \subseteq Read
    /\ \A g \in Gens : Asked(toDaemon[g]) \cup running[g] \cup Answered(toProxy[g]) \subseteq Read
    /\ Requests \ Fresh \subseteq Read

\* Each request that has been read and not answered is pending, and where its answer comes from.
Complete == \A r \in Fresh : r < next => r \in client_pending \cup Asked(stdin)
OnItsWay(g) == Asked(toDaemon[g]) \cup running[g] \cup Answered(toProxy[g])
Located ==
    /\ stage = "bridge" /\ stream \in up => client_pending \subseteq OnItsWay(stream)
    /\ stage \in {"reconnect", "replay"} => client_pending \subseteq Waiting
    /\ stage = "flush" /\ fresh \in up => client_pending \subseteq Waiting \cup OnItsWay(fresh)
Whole == stage # "exited" /\ "split" \notin may => Complete /\ Located

AccountInv == Typed /\ Stages /\ OnTheWay /\ Whole

\* No attempt to reconnect fails half-way.  Then there is one live connection, the latest.
OneConnection ==
    /\ stage \in {"handshake", "bridge", "reconnect"} => stream = fresh
    /\ stage \in {"replay", "flush"} => fresh \in up
    /\ stage \in {"handshake", "bridge"} => queue = << >>
    /\ up \subseteq {fresh}
    /\ \A g \in Gens : g \notin up => toDaemon[g] = << >> /\ running[g] = {}
    /\ \A g \in Gens : g > fresh => toProxy[g] = << >>

\* Every request is at one place on the way to it, and the earlier ones are further.
Ordered == \A i, j \in 1..Len(ran) : i < j => ran[i] < ran[j]
Stream ==
    /\ Ordered
    /\ Begun \subseteq Read
    /\ InOrder(toDaemon[fresh])
    /\ InOrder(queue)
    /\ \A b \in Begun : \A d \in Asked(toDaemon[fresh]) : b < d
    /\ \A w \in Waiting : \A d \in Begun \cup Asked(toDaemon[fresh]) : d < w
    /\ Asked(toDaemon[fresh]) \cup running[fresh] \cup Waiting \subseteq Fresh

\* Each answer is of a request that was run, and comes once.
Once ==
    /\ running[fresh] \cup Answered(toProxy[fresh]) \subseteq Begun
    /\ running[fresh] \cap Answered(toProxy[fresh]) = {}
    /\ Distinct(toProxy[fresh])
    /\ stage \notin {"reconnect", "exited"} => Answered(toProxy[fresh]) \subseteq Fresh

SessionInv ==
    AccountInv /\ ("fail" \notin may => OneConnection /\ Stream /\ Once)

-----------------------------------------------------------------------------
(* Lines that come and go *)

\* The rest of a line is a line.
LEMMA CutIsLine == Cut \in Lines /\ Cut.kind = "cut"
  BY DEF Cut, Line, Lines, Kinds

\* What a line at the end adds.
LEMMA Adding ==
    ASSUME NEW s \in Seq(Lines), NEW l \in Lines
    PROVE  /\ Append(s, l) \in Seq(Lines)
           /\ Asked(Append(s, l)) = Asked(s) \cup (IF l.kind = "request" THEN {l.id} ELSE {})
           /\ Answered(Append(s, l)) = Answered(s) \cup (IF l.kind = "response" THEN {l.id} ELSE {})
           /\ InOrder(s) /\ (l.kind = "request" => \A a \in Asked(s) : a < l.id) => InOrder(Append(s, l))
           /\ Distinct(s) /\ (l.kind = "response" => l.id \notin Answered(s)) => Distinct(Append(s, l))
  <1>1. /\ Append(s, l) \in Seq(Lines)
        /\ Len(Append(s, l)) = Len(s) + 1
        /\ \A i \in 1..Len(s) : Append(s, l)[i] = s[i]
        /\ Append(s, l)[Len(s) + 1] = l
        /\ Len(s) \in Nat
    OBVIOUS
  <1> DEFINE t == Append(s, l)
  <1> HIDE DEF t
  <1>t. /\ t \in Seq(Lines)
        /\ Len(t) = Len(s) + 1
        /\ \A i \in 1..Len(s) : t[i] = s[i]
        /\ t[Len(s) + 1] = l
    BY <1>1 DEF t
  <1>2. Asked(t) = Asked(s) \cup (IF l.kind = "request" THEN {l.id} ELSE {})
    BY <1>1, <1>t DEF Asked
  <1>3. Answered(t) = Answered(s) \cup (IF l.kind = "response" THEN {l.id} ELSE {})
    BY <1>1, <1>t DEF Answered
  <1>4. ASSUME InOrder(s), l.kind = "request" => \A a \in Asked(s) : a < l.id PROVE InOrder(t)
    <2>1. \A i \in 1..Len(s) : s[i].kind = "request" /\ l.kind = "request" => s[i].id < l.id
      BY <1>4 DEF Asked
    <2> QED BY <1>1, <1>t, <1>4, <2>1 DEF InOrder
  <1>5. ASSUME Distinct(s), l.kind = "response" => l.id \notin Answered(s) PROVE Distinct(t)
    <2>1. \A i \in 1..Len(s) : s[i].kind = "response" /\ l.kind = "response" => s[i].id # l.id
      BY <1>5 DEF Answered
    <2> QED BY <1>1, <1>t, <1>5, <2>1 DEF Distinct
  <1> QED BY <1>1, <1>2, <1>3, <1>4, <1>5 DEF t

\* What the first line leaves when it is taken.
LEMMA Taking ==
    ASSUME NEW s \in Seq(Lines), s # << >>
    PROVE  /\ Tail(s) \in Seq(Lines) /\ Head(s) \in Lines
           /\ Asked(s) = Asked(Tail(s)) \cup (IF Head(s).kind = "request" THEN {Head(s).id} ELSE {})
           /\ Answered(s) = Answered(Tail(s)) \cup (IF Head(s).kind = "response" THEN {Head(s).id} ELSE {})
           /\ InOrder(s) => /\ InOrder(Tail(s))
                            /\ Head(s).kind = "request" => \A a \in Asked(Tail(s)) : Head(s).id < a
           /\ Distinct(s) => /\ Distinct(Tail(s))
                             /\ Head(s).kind = "response" => Head(s).id \notin Answered(Tail(s))
  <1> DEFINE t == Tail(s)
             l == Head(s)
  <1>1. /\ t \in Seq(Lines) /\ l \in Lines
        /\ Len(s) \in Nat /\ Len(s) = Len(t) + 1 /\ Len(t) \in Nat
        /\ \A i \in 1..Len(t) : t[i] = s[i + 1]
        /\ s[1] = l
    OBVIOUS
  <1> HIDE DEF t, l
  <1>2. \A i \in 1..Len(s) : i # 1 => i - 1 \in 1..Len(t) /\ s[i] = t[i - 1]
    BY <1>1
  <1>3. Asked(s) = Asked(t) \cup (IF l.kind = "request" THEN {l.id} ELSE {})
    <2>1. ASSUME NEW i \in 1..Len(s), s[i].kind = "request"
          PROVE  s[i].id \in Asked(t) \cup (IF l.kind = "request" THEN {l.id} ELSE {})
      <3>1. CASE i = 1
        BY <1>1, <2>1, <3>1
      <3>2. CASE i # 1
        BY <1>2, <2>1, <3>2 DEF Asked
      <3> QED BY <3>1, <3>2
    <2>2. ASSUME NEW i \in 1..Len(t), t[i].kind = "request"
          PROVE  s[i + 1].kind = "request" /\ i + 1 \in 1..Len(s) /\ s[i + 1].id = t[i].id
      BY <1>1, <2>2
    <2>3. l.kind = "request" => 1 \in 1..Len(s) /\ s[1].kind = "request" /\ s[1].id = l.id
      BY <1>1
    <2> QED BY <2>1, <2>2, <2>3 DEF Asked
  <1>4. Answered(s) = Answered(t) \cup (IF l.kind = "response" THEN {l.id} ELSE {})
    <2>1. ASSUME NEW i \in 1..Len(s), s[i].kind = "response"
          PROVE  s[i].id \in Answered(t) \cup (IF l.kind = "response" THEN {l.id} ELSE {})
      <3>1. CASE i = 1
        BY <1>1, <2>1, <3>1
      <3>2. CASE i # 1
        BY <1>2, <2>1, <3>2 DEF Answered
      <3> QED BY <3>1, <3>2
    <2>2. ASSUME NEW i \in 1..Len(t), t[i].kind = "response"
          PROVE  s[i + 1].kind = "response" /\ i + 1 \in 1..Len(s) /\ s[i + 1].id = t[i].id
      BY <1>1, <2>2
    <2>3. l.kind = "response" => 1 \in 1..Len(s) /\ s[1].kind = "response" /\ s[1].id = l.id
      BY <1>1
    <2> QED BY <2>1, <2>2, <2>3 DEF Answered
  <1>5. ASSUME InOrder(s)
        PROVE  InOrder(t) /\ (l.kind = "request" => \A a \in Asked(t) : l.id < a)
    <2>1. InOrder(t)
      BY <1>1, <1>5 DEF InOrder
    <2>2. \A i \in 1..Len(t) : l.kind = "request" /\ t[i].kind = "request" => l.id < t[i].id
      BY <1>1, <1>5 DEF InOrder
    <2> QED BY <2>1, <2>2 DEF Asked
  <1>6. ASSUME Distinct(s)
        PROVE  Distinct(t) /\ (l.kind = "response" => l.id \notin Answered(t))
    <2>1. Distinct(t)
      BY <1>1, <1>6 DEF Distinct
    <2>2. \A i \in 1..Len(t) : l.kind = "response" /\ t[i].kind = "response" => l.id # t[i].id
      BY <1>1, <1>6 DEF Distinct
    <2> QED BY <2>1, <2>2 DEF Answered
  <1> QED BY <1>1, <1>3, <1>4, <1>5, <1>6 DEF t, l

\* What is lost with the beginning of a line.
LEMMA Cutting ==
    ASSUME NEW s \in Seq(Lines), NEW from
    PROVE  /\ CutHead(s, from) \in Seq(Lines)
           /\ Asked(CutHead(s, from)) \subseteq Asked(s)
           /\ Answered(CutHead(s, from)) \subseteq Answered(s)
           /\ InOrder(s) => InOrder(CutHead(s, from))
           /\ Distinct(s) => Distinct(CutHead(s, from))
           /\ half = {} => CutHead(s, from) = s
           /\ s = << >> => CutHead(s, from) = << >>
           /\ \A i \in 1..Len(CutHead(s, from)) :
                 CutHead(s, from)[i].kind = "response" => i \in 1..Len(s) /\ CutHead(s, from)[i] = s[i]
  <1> DEFINE t == CutHead(s, from)
  <1>1. /\ t \in Seq(Lines) /\ Len(t) = Len(s) /\ Len(s) \in Nat
        /\ \A i \in 1..Len(t) : t[i] = s[i] \/ t[i] = Cut
        /\ half = {} => t = s
        /\ s = << >> => t = << >>
    <2>1. CASE from \notin half
      BY <2>1 DEF CutHead
    <2>2. CASE from \in half
      <3>1. t = [s EXCEPT ![1] = Cut]
        BY <2>2 DEF CutHead
      <3>2. /\ \A i \in 1..Len(s) : t[i] = (IF i = 1 THEN Cut ELSE s[i])
            /\ DOMAIN t = 1..Len(s) /\ Len(s) \in Nat
        BY <3>1
      <3>3. \A i \in 1..Len(s) : t[i] \in Lines
        BY <3>2, CutIsLine
      <3>4. t \in [1..Len(s) -> Lines]
        BY <3>1, <3>2, <3>3
      <3>5. t \in Seq(Lines) /\ Len(t) = Len(s)
        BY <3>2, <3>4
      <3>6. s = << >> => t = << >>
        BY <3>5
      <3> QED BY <2>2, <3>2, <3>5, <3>6
    <2> QED BY <2>1, <2>2
  <1> HIDE DEF t
  <1>2. \A i \in 1..Len(t) : t[i].kind # "cut" => t[i] = s[i]
    BY <1>1, CutIsLine
  <1>3. Asked(t) \subseteq Asked(s)
    BY <1>1, <1>2 DEF Asked
  <1>4. Answered(t) \subseteq Answered(s)
    BY <1>1, <1>2 DEF Answered
  <1>5. InOrder(s) => InOrder(t)
    BY <1>1, <1>2 DEF InOrder
  <1>6. Distinct(s) => Distinct(t)
    BY <1>1, <1>2 DEF Distinct
  <1> QED BY <1>1, <1>2, <1>3, <1>4, <1>5, <1>6 DEF t

\* There is nothing in no lines.
LEMMA Nothing ==
    /\ << >> \in Seq(Lines) /\ Asked(<< >>) = {} /\ Answered(<< >>) = {}
    /\ InOrder(<< >>) /\ Distinct(<< >>)
  <1>1. Len(<< >>) = 0 /\ << >> \in Seq(Lines)
    OBVIOUS
  <1> QED BY <1>1 DEF Asked, Answered, InOrder, Distinct

-----------------------------------------------------------------------------
(* Types *)

LEMMA Constants ==
    /\ NumRequests \in Nat /\ MaxGen \in Nat /\ MaxAsks \in Nat /\ MaxPings \in Nat
    /\ Requests \subseteq Nat /\ Gens \subseteq Nat /\ 1 \in Gens
  BY ProxyAssumption DEF Requests, Gens

\* Reading a line, and losing the beginning of one.
LEMMA Reading ==
    ASSUME Typed, TakeLine
    PROVE  Head(stdin) \in Lines /\ stdin' = Tail(stdin) /\ stdin' \in Seq(Lines)
  BY Taking DEF Typed, TakeLine

LEMMA Losing ==
    ASSUME Typed
    PROVE  /\ DropClientPart => stdin' \in Seq(Lines)
           /\ DropDaemonPart =>
                 /\ toProxy' \in [Gens -> Seq(Lines)]
                 /\ \A g \in Gens :
                       /\ Answered(toProxy'[g]) \subseteq Answered(toProxy[g])
                       /\ Distinct(toProxy[g]) => Distinct(toProxy'[g])
                       /\ toProxy[g] = << >> => toProxy'[g] = << >>
                       /\ Of(toProxy'[g], g)
                 /\ half = {} => toProxy' = toProxy
  <1>1. DropClientPart => stdin' \in Seq(Lines)
    BY Cutting DEF Typed, DropClientPart
  <1>2. ASSUME DropDaemonPart
        PROVE  /\ toProxy' \in [Gens -> Seq(Lines)]
               /\ \A g \in Gens :
                     /\ Answered(toProxy'[g]) \subseteq Answered(toProxy[g])
                     /\ Distinct(toProxy[g]) => Distinct(toProxy'[g])
                     /\ toProxy[g] = << >> => toProxy'[g] = << >>
                     /\ Of(toProxy'[g], g)
               /\ half = {} => toProxy' = toProxy
    <2> DEFINE t == CutHead(toProxy[stream], "daemon")
    <2>1. /\ stream \in Gens /\ toProxy \in [Gens -> Seq(Lines)] /\ toProxy[stream] \in Seq(Lines)
          /\ \A g \in Gens : Of(toProxy[g], g)
      BY Constants DEF Typed, TypeOK, Gens
    <2>2. /\ t \in Seq(Lines)
          /\ Answered(t) \subseteq Answered(toProxy[stream])
          /\ Distinct(toProxy[stream]) => Distinct(t)
          /\ half = {} => t = toProxy[stream]
          /\ toProxy[stream] = << >> => t = << >>
          /\ \A i \in 1..Len(t) :
                t[i].kind = "response" => i \in 1..Len(toProxy[stream]) /\ t[i] = toProxy[stream][i]
      BY <2>1, Cutting
    <2>3. Of(t, stream)
      BY <2>1, <2>2 DEF Of
    <2>4. toProxy' = [toProxy EXCEPT ![stream] = t]
      BY <1>2 DEF DropDaemonPart
    <2> HIDE DEF t
    <2>5. half = {} => toProxy' = toProxy
      BY <2>1, <2>2, <2>4
    <2> QED BY <2>1, <2>2, <2>3, <2>4, <2>5
  <1> QED BY <1>1, <1>2

\* What may be added to a connection or to the queue.
LEMMA LinesOf ==
    /\ \A r \in Requests : Line("request", r, 0) \in Lines /\ Line("request", r, 0).kind = "request"
                           /\ Line("request", r, 0).id = r
    /\ \A r \in Requests, g \in Gens :
          /\ Line("response", r, g) \in Lines /\ Line("response", r, g).kind = "response"
          /\ Line("response", r, g).id = r /\ Line("response", r, g).gen = g
    /\ \A g \in Gens : Line("ask", AskId, g) \in Lines /\ Line("ask", AskId, g).kind = "ask"
    /\ \A n \in Nat, g \in Gens : Line("pong", n, g) \in Lines /\ Line("pong", n, g).kind = "pong"
  BY Constants DEF Line, Lines, Kinds, AskId

LEMMA HeadTypes ==
    ASSUME Typed
    PROVE  /\ stream \in Gens /\ fresh \in Gens
           /\ \A g \in Gens : /\ toDaemon[g] \in Seq(Lines) /\ toProxy[g] \in Seq(Lines)
                              /\ toDaemon[g] # << >> => Head(toDaemon[g]) \in Lines
                              /\ toProxy[g] # << >> => Head(toProxy[g]) \in Lines
  BY Constants DEF Typed, TypeOK, Gens

\* The control state.
ControlOK ==
    /\ stage \in {"handshake", "bridge", "reconnect", "replay", "flush", "exited"}
    /\ fresh \in Gens
    /\ stream \in 1..fresh
    /\ seq \in 0..(MaxPings + 1)
    /\ ping \in 0..seq
    /\ ignored \subseteq 1..seq
    /\ half \subseteq {"client", "daemon"}
    /\ up \subseteq Gens
    /\ mayAsk \subseteq Gens
    /\ client \in {"live", "hung", "gone"}
    /\ next \in 1..(NumRequests + 1)
    /\ may \in Scenarios

LEMMA ControlStep ==
    ASSUME ControlOK, [Next]_vars
    PROVE  ControlOK'
  <1> USE Constants DEF ControlOK
  <1>d. CASE Daemon
    BY <1>d DEF Daemon, Receive, Respond, Ask, Die, proxyVars, clientVars, pingVars, queueVars, tracker
  <1>p. CASE Partial
    BY <1>p DEF Partial, ReadPartOfClient, ReadPartOfDaemon, ReadPart, OrphanTick, clientVars,
                daemonVars, pingVars, queueVars, tracker
  <1>u. CASE UNCHANGED vars
    BY <1>u DEF vars, proxyVars, daemonVars, clientVars, pingVars
  <1>1. ASSUME SendRequest PROVE ControlOK'
    BY <1>1 DEF SendRequest, proxyVars, daemonVars, pingVars, queueVars, tracker
  <1>2. ASSUME AnswerOwed PROVE ControlOK'
    BY <1>2 DEF AnswerOwed, proxyVars, daemonVars, pingVars, queueVars, tracker
  <1>3. ASSUME Silence PROVE ControlOK'
    BY <1>3 DEF Silence, proxyVars, daemonVars, pingVars, queueVars, tracker
  <1>4. ASSUME HandshakeFails PROVE ControlOK'
    BY <1>4 DEF HandshakeFails, daemonVars, clientVars, pingVars, queueVars, tracker
  <1>5. ASSUME Exit PROVE ControlOK'
    BY <1>5 DEF Exit, daemonVars, clientVars, pingVars, queueVars, tracker
  <1>6. ASSUME FlushLine PROVE ControlOK'
    BY <1>6 DEF FlushLine, clientVars, pingVars, tracker
  <1>7. ASSUME FlushFails PROVE ControlOK'
    BY <1>7 DEF FlushFails, daemonVars, clientVars, pingVars, tracker
  <1>8. ASSUME FlushDone PROVE ControlOK'
    BY <1>8 DEF FlushDone, ClearQueue, clientVars, pingVars, tracker
  <1>9. ASSUME Handshake PROVE ControlOK'
    BY <1>9 DEF Handshake, Askers, clientVars, pingVars, queueVars, tracker
  <1>10. ASSUME Replay PROVE ControlOK'
    BY <1>10 DEF Replay, Askers, pingVars, queueVars, tracker
  <1>11. ASSUME Connect PROVE ControlOK'
    BY <1>11 DEF Connect, clientVars, pingVars, queueVars, tracker, Gens
  <1>12. ASSUME ConnectFails PROVE ControlOK'
    BY <1>12 DEF ConnectFails, Failed, daemonVars, pingVars, queueVars, tracker
  <1>13. ASSUME ReplayFails PROVE ControlOK'
    BY <1>13 DEF ReplayFails, Failed, daemonVars, pingVars, queueVars, tracker
  <1>14. ASSUME ForwardToClient PROVE ControlOK'
    BY <1>14 DEF ForwardToClient, pingVars, queueVars
  <1>15. ASSUME DaemonGone PROVE ControlOK'
    BY <1>15 DEF DaemonGone, FailPending, daemonVars, queueVars, EndPings
  <1>16. ASSUME WriteFails PROVE ControlOK'
    BY <1>16 DEF WriteFails, FailPending, TakeLine, queueVars, EndPings
  <1>17. ASSUME ReadWhileReconnecting PROVE ControlOK'
    BY <1>17 DEF ReadWhileReconnecting, TakeLine, pingVars
  <1>18. ASSUME ConsumePong PROVE ControlOK'
    <2>1. /\ ping' \in {0, ping} /\ ignored' \subseteq ignored /\ half' = {}
          /\ UNCHANGED <<may, stage, stream, fresh, seq, up, mayAsk, client, next>>
      BY <1>18 DEF ConsumePong, TakeLine
    <2> QED BY <2>1
  <1>19. ASSUME DropAnswer PROVE ControlOK'
    BY <1>19 DEF DropAnswer, TakeLine, OurPong, Supersede, queueVars, tracker
  <1>20. ASSUME ForwardToDaemon PROVE ControlOK'
    BY <1>20 DEF ForwardToDaemon, TakeLine, Supersede, queueVars
  <1>21. ASSUME IdleProbe PROVE ControlOK'
    BY <1>21 DEF IdleProbe, queueVars, tracker
  <1> QED BY <1>d, <1>p, <1>u, <1>1, <1>2, <1>3, <1>4, <1>5, <1>6, <1>7, <1>8, <1>9, <1>10, <1>11, <1>12, <1>13, <1>14, <1>15, <1>16, <1>17, <1>18, <1>19, <1>20, <1>21
          DEF Next, Client, Proxy, PingTimeout, ClientGone

\* Who changes what.
LEMMA Frames ==
    ASSUME [Next]_vars
    PROVE  /\ UNCHANGED queueVars \/ ReadWhileReconnecting \/ FlushLine \/ FlushFails \/ FlushDone
           /\ UNCHANGED toDaemon \/ (\E g \in Gens : Receive(g) \/ Die(g)) \/ ForwardToDaemon \/ FlushLine
           /\ UNCHANGED running \/ \E g \in Gens : Receive(g) \/ Respond(g) \/ Die(g)
           /\ UNCHANGED ran \/ \E g \in Gens : Receive(g)
           /\ UNCHANGED result \/ ForwardToClient \/ DaemonGone \/ WriteFails
           /\ \/ UNCHANGED tracker
              \/ ForwardToClient \/ DaemonGone \/ ForwardToDaemon \/ WriteFails \/ ReadWhileReconnecting
           /\ UNCHANGED owed \/ AnswerOwed \/ ForwardToClient \/ IdleProbe
           /\ \/ UNCHANGED toProxy \/ DropDaemonPart
              \/ (\E g \in Gens : Respond(g) \/ Ask(g)) \/ FlushDone \/ ForwardToClient
  <1> USE DEF Next, Client, Daemon, Partial, Proxy, PingTimeout, ClientGone, vars, proxyVars,
              daemonVars, clientVars, pingVars, queueVars, tracker,
              SendRequest, AnswerOwed, Silence, Receive, Respond, Ask, Die,
              ReadPart, ReadPartOfClient, ReadPartOfDaemon, OrphanTick, Handshake, HandshakeFails,
              ForwardToClient, DaemonGone, FailPending, EndPings, TakeLine, ConsumePong, DropAnswer,
              Supersede, ForwardToDaemon, WriteFails, IdleProbe, Exit, ReadWhileReconnecting,
              Connect, ConnectFails, Failed, Replay, ReplayFails, FlushLine, FlushFails, FlushDone
  <1>1. UNCHANGED queueVars \/ ReadWhileReconnecting \/ FlushLine \/ FlushFails \/ FlushDone
    OBVIOUS
  <1>2. UNCHANGED toDaemon \/ (\E g \in Gens : Receive(g) \/ Die(g)) \/ ForwardToDaemon \/ FlushLine
    OBVIOUS
  <1>3. UNCHANGED running \/ \E g \in Gens : Receive(g) \/ Respond(g) \/ Die(g)
    OBVIOUS
  <1>4. UNCHANGED ran \/ \E g \in Gens : Receive(g)
    OBVIOUS
  <1>5. UNCHANGED result \/ ForwardToClient \/ DaemonGone \/ WriteFails
    OBVIOUS
  <1>6. \/ UNCHANGED tracker
        \/ ForwardToClient \/ DaemonGone \/ ForwardToDaemon \/ WriteFails \/ ReadWhileReconnecting
    OBVIOUS
  <1>7. UNCHANGED owed \/ AnswerOwed \/ ForwardToClient \/ IdleProbe
    OBVIOUS
  <1>8. \/ UNCHANGED toProxy \/ DropDaemonPart
        \/ (\E g \in Gens : Respond(g) \/ Ask(g)) \/ FlushDone \/ ForwardToClient
    OBVIOUS
  <1> HIDE DEF Next, ReadWhileReconnecting, FlushLine, FlushFails, FlushDone, Receive, Respond, Die,
               ForwardToDaemon, ForwardToClient, DaemonGone, WriteFails, AnswerOwed, IdleProbe, Ask,
               queueVars, tracker
  <1> QED BY <1>1, <1>2, <1>3, <1>4, <1>5, <1>6, <1>7, <1>8

LEMMA ClientFrame ==
    ASSUME [Next]_vars
    PROVE  \/ SendRequest
           \/ /\ UNCHANGED next
              /\ \/ UNCHANGED stdin \/ TakeLine \/ DropClientPart
                 \/ \E line \in owed : stdin' = Append(stdin, line)
  BY DEF Next, Client, Daemon, Partial, Proxy, PingTimeout, ClientGone, vars, proxyVars,
         daemonVars, clientVars, pingVars, queueVars, tracker,
         SendRequest, AnswerOwed, Silence, Receive, Respond, Ask, Die,
         ReadPart, ReadPartOfClient, ReadPartOfDaemon, OrphanTick, Handshake, HandshakeFails,
         ForwardToClient, DaemonGone, FailPending, EndPings, ConsumePong, DropAnswer,
         Supersede, ForwardToDaemon, WriteFails, IdleProbe, Exit, ReadWhileReconnecting,
         Connect, ConnectFails, Failed, Replay, ReplayFails, FlushLine, FlushFails, FlushDone

\* The ids are requests of the client.
LEMMA Ids ==
    ASSUME NEW s \in Seq(Lines)
    PROVE  Asked(s) \subseteq Requests /\ Answered(s) \subseteq Requests
  BY DEF Asked, Answered, Lines

-----------------------------------------------------------------------------
(* Reading the client: what has been read stays read *)

LEMMA ReadGrows ==
    ASSUME Typed, Unread, [Next]_vars
    PROVE  stdin' \in Seq(Lines) /\ Unread' /\ Read \subseteq Read'
  <1>t. stdin \in Seq(Lines) /\ owed \subseteq {l \in Lines : l.kind \in {"ask", "pong"}}
        /\ next \in Nat /\ Requests \subseteq Nat
    BY Constants DEF Typed, TypeOK
  <1>1. CASE SendRequest
    <2>1. next \in Requests /\ next' = next + 1 /\ stdin' = Append(stdin, Line("request", next, 0))
      BY <1>1, <1>t DEF SendRequest, Requests, Typed, TypeOK
    <2> DEFINE l == Line("request", next, 0)
    <2>2. l \in Lines /\ l.kind = "request" /\ l.id = next
      BY <2>1, LinesOf
    <2>s. stdin' = Append(stdin, l)
      BY <2>1
    <2> HIDE DEF l
    <2>3. /\ stdin' \in Seq(Lines) /\ Asked(stdin') = Asked(stdin) \cup {next} /\ InOrder(stdin')
      BY <1>t, <2>2, <2>s, Adding DEF Unread
    <2>4. \A u \in Asked(stdin) : u \in Nat /\ u < next
      BY <1>t, Ids DEF Unread
    <2> QED BY <1>t, <2>1, <2>3, <2>4 DEF Unread, Read
  <1>2. ASSUME UNCHANGED next, NEW line \in owed, stdin' = Append(stdin, line)
        PROVE  stdin' \in Seq(Lines) /\ Unread' /\ Read \subseteq Read'
    <2>1. line \in Lines /\ line.kind # "request"
      BY <1>t
    <2>2. stdin' \in Seq(Lines) /\ Asked(stdin') = Asked(stdin) /\ InOrder(stdin')
      BY <1>t, <1>2, <2>1, Adding DEF Unread
    <2> QED BY <1>2, <2>2 DEF Unread, Read
  <1>3. ASSUME UNCHANGED next, TakeLine
        PROVE  stdin' \in Seq(Lines) /\ Unread' /\ Read \subseteq Read'
    <2>1. stdin' \in Seq(Lines) /\ Asked(stdin') \subseteq Asked(stdin) /\ InOrder(stdin')
      BY <1>t, <1>3, Taking DEF Unread, TakeLine
    <2> QED BY <1>3, <2>1 DEF Unread, Read
  <1>4. ASSUME UNCHANGED next, DropClientPart
        PROVE  stdin' \in Seq(Lines) /\ Unread' /\ Read \subseteq Read'
    <2>1. stdin' \in Seq(Lines) /\ Asked(stdin') \subseteq Asked(stdin) /\ InOrder(stdin')
      BY <1>t, <1>4, Cutting DEF Unread, DropClientPart
    <2> QED BY <1>4, <2>1 DEF Unread, Read
  <1>5. ASSUME UNCHANGED <<next, stdin>>
        PROVE  stdin' \in Seq(Lines) /\ Unread' /\ Read \subseteq Read'
    BY <1>t, <1>5 DEF Unread, Read
  <1> QED BY <1>1, <1>2, <1>3, <1>4, <1>5, ClientFrame

\* A request that is taken has just been read, after all that was read before, and before all
\* that remains.
LEMMA ReadNow ==
    ASSUME Typed, Unread, TakeLine, UNCHANGED next, Head(stdin).kind = "request"
    PROVE  /\ Head(stdin).id \in Asked(stdin) /\ Head(stdin).id \in Read'
           /\ Head(stdin).id \notin Asked(stdin')
           /\ Head(stdin) = Line("request", Head(stdin).id, 0)
           /\ \A r \in Read : r < Head(stdin).id
  <1>1. stdin \in Seq(Lines) /\ stdin # << >> /\ stdin' = Tail(stdin)
    BY DEF Typed, TakeLine
  <1> DEFINE h == Head(stdin)
  <1>2. /\ h \in Lines /\ InOrder(stdin)
        /\ Asked(stdin) = Asked(stdin') \cup {h.id}
        /\ \A a \in Asked(stdin') : h.id < a
    BY <1>1, Taking DEF Unread
  <1>3. h.id \in Requests /\ h.id < next /\ h.id \in Nat /\ h.gen = 0
    BY <1>2 DEF Lines, Unread
  <1>4. h = Line("request", h.id, 0)
    BY <1>2, <1>3 DEF Lines, Line
  <1> HIDE DEF h
  <1>5. h.id \in Read' /\ h.id \notin Asked(stdin')
    BY <1>2, <1>3 DEF Read
  <1>6. \A r \in Read : r < h.id
    BY <1>2 DEF Read
  <1> QED BY <1>2, <1>4, <1>5, <1>6 DEF h

\* Otherwise the requests that remain are those that were there.
LEMMA ReadOther ==
    ASSUME Typed, TakeLine
    PROVE  Asked(stdin) = Asked(stdin') \cup (IF Head(stdin).kind = "request" THEN {Head(stdin).id} ELSE {})
  BY Taking DEF Typed, TakeLine

-----------------------------------------------------------------------------
(* What is on the way has been read *)

LEMMA QueueStep ==
    ASSUME Typed, Stages, OnTheWay, [Next]_vars
    PROVE  /\ queue' \in Seq(Lines)
           /\ \A i \in 1..Len(queue') : queue'[i].kind \in {"request", "cut"}
           /\ flushed' \in 0..Len(queue')
           /\ Asked(queue') \subseteq Read'
  <1>t. /\ queue \in Seq(Lines) /\ flushed \in 0..Len(queue)
        /\ \A i \in 1..Len(queue) : queue[i].kind \in {"request", "cut"}
        /\ Asked(queue) \subseteq Read' /\ Len(queue) \in Nat
    BY ReadGrows DEF Typed, TypeOK, OnTheWay
  <1>1. CASE ReadWhileReconnecting
    <2>1. TakeLine /\ UNCHANGED <<next, flushed>> /\ server_pending = {}
      BY <1>1 DEF ReadWhileReconnecting, Stages
    <2> DEFINE h == Head(stdin)
    <2>2. h \in Lines /\ (h.kind = "request" => h.id \in Read')
      BY <2>1, Reading, ReadNow DEF OnTheWay
    <2>3. \/ queue' = queue
          \/ queue' = Append(queue, h) /\ h.kind \in {"request", "cut"}
      BY <1>1, <2>1 DEF ReadWhileReconnecting, Forwards
    <2> HIDE DEF h
    <2>4. CASE queue' = queue
      BY <1>t, <2>1, <2>4
    <2>5. CASE queue' = Append(queue, h) /\ h.kind \in {"request", "cut"}
      <3>1. queue' \in Seq(Lines) /\ Asked(queue') = Asked(queue)
                    \cup (IF h.kind = "request" THEN {h.id} ELSE {})
        BY <1>t, <2>2, <2>5, Adding
      <3>2. Len(queue') = Len(queue) + 1 /\ \A i \in 1..Len(queue')
                    : queue'[i] = IF i <= Len(queue) THEN queue[i] ELSE h
        BY <1>t, <2>5
      <3>3. \A i \in 1..Len(queue') : queue'[i].kind \in {"request", "cut"}
        BY <1>t, <2>5, <3>2
      <3>4. flushed' \in 0..Len(queue')
        BY <1>t, <2>1, <3>2
      <3> QED BY <1>t, <2>2, <3>1, <3>3, <3>4
    <2> QED BY <2>3, <2>4, <2>5
  <1>2. CASE FlushDone
    BY <1>2, Nothing DEF FlushDone, ClearQueue
  <1>3. ASSUME FlushLine \/ FlushFails \/ UNCHANGED queueVars
        PROVE  queue' = queue /\ flushed' \in 0..Len(queue)
    BY <1>t, <1>3 DEF FlushLine, FlushFails, queueVars
  <1> QED BY <1>t, <1>1, <1>2, <1>3, Frames

LEMMA DaemonStep ==
    ASSUME Typed, OnTheWay, [Next]_vars
    PROVE  /\ toDaemon' \in [Gens -> Seq(Lines)]
           /\ running' \in [Gens -> SUBSET Requests]
           /\ ran' \in Seq(Requests)
           /\ \A g \in Gens : Asked(toDaemon'[g]) \cup running'[g] \subseteq Read'
  <1>t. /\ toDaemon \in [Gens -> Seq(Lines)] /\ running \in [Gens -> SUBSET Requests] /\ ran \in Seq(Requests)
        /\ stream \in Gens /\ fresh \in Gens
        /\ \A g \in Gens : Asked(toDaemon[g]) \cup running[g] \subseteq Read'
    BY ReadGrows, HeadTypes DEF Typed, TypeOK, OnTheWay
  <1>1. ASSUME NEW g \in Gens, Receive(g)
        PROVE  /\ toDaemon' \in [Gens -> Seq(Lines)] /\ running' \in [Gens -> SUBSET Requests]
               /\ ran' \in Seq(Requests)
               /\ \A x \in Gens : Asked(toDaemon'[x]) \cup running'[x] \subseteq Read'
    <2> DEFINE h == Head(toDaemon[g])
    <2>1. /\ toDaemon[g] # << >> /\ toDaemon' = [toDaemon EXCEPT ![g] = Tail(toDaemon[g])]
          /\ \/ h.kind = "request" /\ running' = [running EXCEPT ![g] = running[g] \cup {h.id}]
                        /\ ran' = Append(ran, h.id)
             \/ UNCHANGED <<running, ran>>
      BY <1>1 DEF Receive
    <2>2. /\ Tail(toDaemon[g]) \in Seq(Lines) /\ h \in Lines
          /\ Asked(Tail(toDaemon[g])) \subseteq Read'
          /\ h.kind = "request" => h.id \in Read' /\ h.id \in Requests
      <3>1. Tail(toDaemon[g]) \in Seq(Lines) /\ h \in Lines
            /\ Asked(toDaemon[g]) = Asked(Tail(toDaemon[g])) \cup (IF h.kind = "request" THEN {h.id} ELSE {})
        BY <1>t, <2>1, Taking
      <3> QED BY <1>t, <3>1 DEF Lines
    <2> HIDE DEF h
    <2>3. toDaemon' \in [Gens -> Seq(Lines)] /\ \A x \in Gens : Asked(toDaemon'[x]) \subseteq Read'
      BY <1>t, <2>1, <2>2
    <2>4. /\ running' \in [Gens -> SUBSET Requests] /\ ran' \in Seq(Requests)
          /\ \A x \in Gens : running'[x] \subseteq Read'
      <3>1. CASE UNCHANGED <<running, ran>>
        BY <1>t, <3>1
      <3>2. CASE h.kind = "request" /\ running' = [running EXCEPT ![g] = running[g] \cup {h.id}]
                    /\ ran' = Append(ran, h.id)
        <4>1. ran' \in Seq(Requests)
          BY <1>t, <2>2, <3>2
        <4> QED BY <1>t, <2>2, <3>2, <4>1
      <3> QED BY <2>1, <3>1, <3>2
    <2> QED BY <2>3, <2>4
  <1>2. ASSUME NEW g \in Gens, Respond(g) \/ Die(g)
        PROVE  /\ toDaemon' \in [Gens -> Seq(Lines)] /\ running' \in [Gens -> SUBSET Requests]
               /\ ran' \in Seq(Requests)
               /\ \A x \in Gens : Asked(toDaemon'[x]) \cup running'[x] \subseteq Read'
    <2>1. /\ UNCHANGED ran
          /\ toDaemon' = toDaemon \/ toDaemon' = [toDaemon EXCEPT ![g] = << >>]
          /\ \E s \in SUBSET running[g] : running' = [running EXCEPT ![g] = s]
      BY <1>2 DEF Respond, Die
    <2>2. toDaemon' \in [Gens -> Seq(Lines)] /\ \A x \in Gens : Asked(toDaemon'[x]) \subseteq Read'
      BY <1>t, <2>1, Nothing
    <2>3. running' \in [Gens -> SUBSET Requests] /\ \A x \in Gens : running'[x] \subseteq Read'
      BY <1>t, <2>1
    <2> QED BY <1>t, <2>1, <2>2, <2>3
  <1>3. CASE ForwardToDaemon
    <2>1. TakeLine /\ UNCHANGED <<next, running, ran>> /\ toDaemon' = [toDaemon EXCEPT ![stream] = Append(toDaemon[stream], Head(stdin))]
      BY <1>3 DEF ForwardToDaemon
    <2>2. Head(stdin) \in Lines /\ (Head(stdin).kind = "request" => Head(stdin).id \in Read')
      BY <2>1, Reading, ReadNow DEF OnTheWay
    <2>3. /\ Append(toDaemon[stream], Head(stdin)) \in Seq(Lines)
          /\ Asked(Append(toDaemon[stream], Head(stdin))) \subseteq Read'
      BY <1>t, <2>2, Adding
    <2> QED BY <1>t, <2>1, <2>3
  <1>4. CASE FlushLine
    <2> DEFINE l == queue[flushed + 1]
    <2>1. UNCHANGED <<running, ran>> /\ toDaemon' = [toDaemon EXCEPT ![fresh] = Append(toDaemon[fresh], l)]
          /\ flushed + 1 \in 1..Len(queue) /\ queue \in Seq(Lines)
      BY <1>4 DEF FlushLine, Typed, TypeOK
    <2>2. l \in Lines /\ (l.kind = "request" => l.id \in Read')
      <3>1. l.kind = "request" => l.id \in Asked(queue)
        BY <2>1 DEF Asked
      <3> QED BY <2>1, <3>1, ReadGrows DEF OnTheWay
    <2> HIDE DEF l
    <2>3. Append(toDaemon[fresh], l) \in Seq(Lines) /\ Asked(Append(toDaemon[fresh], l)) \subseteq Read'
      BY <1>t, <2>2, Adding
    <2> QED BY <1>t, <2>1, <2>3
  <1>5. CASE UNCHANGED <<toDaemon, running, ran>>
    BY <1>t, <1>5
  <1>6. (UNCHANGED ran /\ UNCHANGED running) \/ \E g \in Gens : Receive(g) \/ Respond(g) \/ Die(g)
    BY Frames DEF Receive
  <1> QED BY <1>1, <1>2, <1>3, <1>4, <1>5, <1>6, Frames

LEMMA ProxyStep ==
    ASSUME Typed, OnTheWay, [Next]_vars
    PROVE  /\ toProxy' \in [Gens -> Seq(Lines)]
           /\ \A g \in Gens : Of(toProxy'[g], g)
           /\ \A g \in Gens : Answered(toProxy'[g]) \subseteq Read'
  <1>t. /\ toProxy \in [Gens -> Seq(Lines)] /\ running \in [Gens -> SUBSET Requests]
        /\ stream \in Gens
        /\ \A g \in Gens : Of(toProxy[g], g)
        /\ \A g \in Gens : running[g] \cup Answered(toProxy[g]) \subseteq Read'
    BY ReadGrows, HeadTypes DEF Typed, TypeOK, OnTheWay
  <1>1. ASSUME NEW g \in Gens, NEW l \in Lines, l.kind = "response" => l.id \in Read' /\ l.gen = g,
               toProxy' = [toProxy EXCEPT ![g] = Append(toProxy[g], l)]
        PROVE  /\ toProxy' \in [Gens -> Seq(Lines)]
               /\ \A x \in Gens : Of(toProxy'[x], x)
               /\ \A x \in Gens : Answered(toProxy'[x]) \subseteq Read'
    <2>1. /\ Append(toProxy[g], l) \in Seq(Lines)
          /\ Answered(Append(toProxy[g], l)) \subseteq Read'
      BY <1>t, <1>1, Adding
    <2>2. Of(Append(toProxy[g], l), g)
      BY <1>t, <1>1 DEF Of
    <2> QED BY <1>t, <1>1, <2>1, <2>2
  <1>2. ASSUME NEW g \in Gens, NEW s \in Seq(Lines), Of(s, g), Answered(s) \subseteq Answered(toProxy[g]),
               toProxy' = [toProxy EXCEPT ![g] = s]
        PROVE  /\ toProxy' \in [Gens -> Seq(Lines)]
               /\ \A x \in Gens : Of(toProxy'[x], x)
               /\ \A x \in Gens : Answered(toProxy'[x]) \subseteq Read'
    BY <1>t, <1>2
  <1>3. ASSUME NEW g \in Gens, Respond(g)
        PROVE  \E l \in Lines : /\ l.kind = "response" => l.id \in Read' /\ l.gen = g
                                /\ toProxy' = [toProxy EXCEPT ![g] = Append(toProxy[g], l)]
    <2>1. PICK r \in running[g] : toProxy' = [toProxy EXCEPT ![g] = Append(@, Line("response", r, g))]
      BY <1>3 DEF Respond
    <2>2. r \in Requests /\ r \in Read'
      BY <1>t
    <2>3. /\ Line("response", r, g) \in Lines /\ Line("response", r, g).id = r
          /\ Line("response", r, g).gen = g
      BY <2>2, LinesOf
    <2> QED BY <2>1, <2>2, <2>3, ZenonT(60)
  <1>4. ASSUME NEW g \in Gens, Ask(g)
        PROVE  \E l \in Lines : /\ l.kind = "response" => l.id \in Read' /\ l.gen = g
                                /\ toProxy' = [toProxy EXCEPT ![g] = Append(toProxy[g], l)]
    BY <1>4, LinesOf DEF Ask
  <1>5. ASSUME ForwardToClient
        PROVE  /\ Tail(toProxy[stream]) \in Seq(Lines) /\ Of(Tail(toProxy[stream]), stream)
               /\ Answered(Tail(toProxy[stream])) \subseteq Answered(toProxy[stream])
               /\ toProxy' = [toProxy EXCEPT ![stream] = Tail(toProxy[stream])]
    <2>1. toProxy[stream] # << >> /\ toProxy[stream] \in Seq(Lines) /\ Of(toProxy[stream], stream)
      BY <1>t, <1>5 DEF ForwardToClient
    <2>2. Of(Tail(toProxy[stream]), stream)
      BY <2>1 DEF Of
    <2> QED BY <1>5, <2>1, <2>2, Taking DEF ForwardToClient
  <1>6. ASSUME FlushDone
        PROVE  toProxy' = [toProxy EXCEPT ![stream] = << >>] /\ Of(<< >>, stream)
    BY <1>6 DEF FlushDone, Of
  <1>7. ASSUME DropDaemonPart
        PROVE  /\ toProxy' \in [Gens -> Seq(Lines)]
               /\ \A x \in Gens : Of(toProxy'[x], x)
               /\ \A x \in Gens : Answered(toProxy'[x]) \subseteq Read'
    BY <1>t, <1>7, Losing
  <1>8. ASSUME (\E g \in Gens : Respond(g) \/ Ask(g)) \/ ForwardToClient \/ FlushDone
        PROVE  /\ toProxy' \in [Gens -> Seq(Lines)]
               /\ \A x \in Gens : Of(toProxy'[x], x)
               /\ \A x \in Gens : Answered(toProxy'[x]) \subseteq Read'
    <2>1. ASSUME NEW g \in Gens, Respond(g) \/ Ask(g)
          PROVE  /\ toProxy' \in [Gens -> Seq(Lines)]
                 /\ \A x \in Gens : Of(toProxy'[x], x)
                 /\ \A x \in Gens : Answered(toProxy'[x]) \subseteq Read'
      BY <2>1, <1>1, <1>3, <1>4
    <2>2. CASE ForwardToClient
      BY <2>2, <1>t, <1>2, <1>5
    <2>3. CASE FlushDone
      BY <2>3, <1>t, <1>2, <1>6, Nothing
    <2> QED BY <1>8, <2>1, <2>2, <2>3
  <1> QED BY <1>t, <1>7, <1>8, Frames

\* A line of the bridge's daemon, and one of the client.
LEMMA TrackerStep ==
    ASSUME Typed, Stages, OnTheWay, [Next]_vars
    PROVE  /\ client_pending' \subseteq Read' \cap Fresh'
           /\ server_pending' \subseteq {AskId}
           /\ result' \in [Requests -> {"none", "done", "failed", "twice"}]
           /\ Requests \ Fresh' \subseteq Read'
  <1>t. /\ client_pending \subseteq Read' \cap Fresh /\ server_pending \subseteq {AskId}
        /\ result \in [Requests -> {"none", "done", "failed", "twice"}]
        /\ Requests \ Fresh \subseteq Read' /\ Requests \ Fresh \subseteq Read
        /\ Read \subseteq Requests /\ Read' \subseteq Requests
    BY ReadGrows DEF Typed, TypeOK, OnTheWay, Read
  <1> DEFINE h == Head(stdin)
             p == Head(toProxy[stream])
  <1>h. ASSUME TakeLine, UNCHANGED next
        PROVE  /\ h.kind = "request" => h.id \in Read' \cap Fresh
               /\ h.kind = "ask" => h.id = AskId
    <2>1. h.kind = "request" => h.id \in Read' /\ h.id \in Requests /\ \A r \in Read : r < h.id
      BY <1>h, ReadNow, Reading DEF OnTheWay, Lines
    <2>2. ASSUME h.kind = "request", h.id \in Read PROVE FALSE
      <3>1. h.id \in Nat
        BY <2>1, <2>2, Constants
      <3>2. h.id < h.id
        BY <2>1, <2>2
      <3> QED BY <3>1, <3>2
    <2> QED BY <1>h, <1>t, <2>1, <2>2, Reading DEF Lines
  <1>p. ASSUME toProxy[stream] # << >>
        PROVE  p \in Lines /\ (p.kind = "response" => p.id \in Read')
    <2>1. toProxy[stream] \in Seq(Lines) /\ Answered(toProxy[stream]) \subseteq Read' /\ p \in Lines
      BY <1>p, HeadTypes, ReadGrows DEF OnTheWay
    <2> QED BY <1>p, <2>1, Taking
  <1> HIDE DEF h, p
  <1>1. CASE ForwardToClient
    <2>1. /\ client_pending' = IF p.kind = "response" THEN client_pending \ {p.id} ELSE client_pending
          /\ server_pending' = IF p.kind = "ask" THEN server_pending \cup {p.id} ELSE server_pending
          /\ result' = IF p.kind = "response" THEN [result EXCEPT ![p.id] = Got(p.id, "done")] ELSE result
          /\ p \in Lines /\ (p.kind = "response" => p.id \in Read')
      BY <1>1, <1>p DEF ForwardToClient, ObserveDaemon, Deliver, p
    <2>2. server_pending' \subseteq {AskId}
      BY <1>t, <2>1 DEF Lines
    <2>3. CASE p.kind = "response"
      <3>1. p.id \in Requests /\ Got(p.id, "done") \in {"done", "twice"}
        BY <1>t, <2>1, <2>3 DEF Got
      <3>2. /\ result' \in [Requests -> {"none", "done", "failed", "twice"}]
            /\ Fresh' = Fresh \ {p.id}
        BY <1>t, <2>1, <2>3, <3>1 DEF Fresh
      <3> QED BY <1>t, <2>1, <2>2, <2>3, <3>1, <3>2
    <2>4. CASE p.kind # "response"
      BY <1>t, <2>1, <2>2, <2>4 DEF Fresh
    <2> QED BY <2>3, <2>4
  <1>2. ASSUME NEW s \in SUBSET Read', result' = Errors(s), client_pending' = {}, server_pending' = {}
        PROVE  /\ client_pending' \subseteq Read' \cap Fresh' /\ server_pending' \subseteq {AskId}
               /\ result' \in [Requests -> {"none", "done", "failed", "twice"}]
               /\ Requests \ Fresh' \subseteq Read'
    <2>1. result' \in [Requests -> {"none", "done", "failed", "twice"}]
      BY <1>t, <1>2 DEF Errors, Got
    <2>2. \A r \in Requests : r \notin s => result'[r] = result[r]
      BY <1>2 DEF Errors
    <2>3. Requests \ Fresh' \subseteq Read'
      BY <1>t, <2>2 DEF Fresh
    <2> QED BY <1>2, <2>1, <2>3
  <1>3. CASE DaemonGone
    BY <1>t, <1>2, <1>3 DEF DaemonGone, FailPending
  <1>4. CASE WriteFails
    <2>1. TakeLine /\ UNCHANGED next /\ result' = Errors(Pending(h)) /\ client_pending' = {} /\ server_pending' = {}
      BY <1>4 DEF WriteFails, FailPending, h
    <2>2. Pending(h) \subseteq Read'
      BY <1>t, <1>h, <2>1 DEF Pending
    <2> QED BY <1>2, <2>1, <2>2
  <1>5. CASE ForwardToDaemon \/ ReadWhileReconnecting
    <2>1. /\ TakeLine /\ UNCHANGED <<next, result>>
          /\ client_pending' = Pending(h) /\ server_pending' \subseteq server_pending
      BY <1>5 DEF ForwardToDaemon, ReadWhileReconnecting, Observe, h
    <2>2. Fresh' = Fresh
      BY <2>1 DEF Fresh
    <2> QED BY <1>t, <1>h, <2>1, <2>2 DEF Pending
  <1>6. CASE UNCHANGED <<tracker, result>>
    BY <1>t, <1>6 DEF tracker, Fresh
  <1> QED BY <1>1, <1>3, <1>4, <1>5, <1>6, Frames

LEMMA OwedStep ==
    ASSUME Typed, [Next]_vars
    PROVE  (owed \subseteq {l \in Lines : l.kind \in {"ask", "pong"}})'
  <1>t. owed \subseteq {l \in Lines : l.kind \in {"ask", "pong"}} /\ stream \in Gens /\ seq + 1 \in Nat
    <2>1. owed \subseteq {l \in Lines : l.kind \in {"ask", "pong"}}
      BY DEF Typed
    <2>2. stream \in Gens
      BY HeadTypes
    <2>3. seq \in 0..(MaxPings + 1)
      BY DEF Typed, TypeOK
    <2> QED BY <2>1, <2>2, <2>3
  <1>1. CASE ForwardToClient
    <2>1. toProxy[stream] # << >> /\ Head(toProxy[stream]) \in Lines
      BY <1>1, <1>t, HeadTypes DEF ForwardToClient
    <2> QED BY <1>1, <1>t, <2>1 DEF ForwardToClient, Deliver
  <1>2. CASE IdleProbe
    BY <1>2, <1>t, LinesOf DEF IdleProbe
  <1>3. ASSUME AnswerOwed \/ UNCHANGED owed
        PROVE  owed' \subseteq owed
    BY <1>3 DEF AnswerOwed
  <1> QED BY <1>t, <1>1, <1>2, <1>3, Frames

LEMMA TypedStep ==
    ASSUME Typed, Stages, OnTheWay, [Next]_vars
    PROVE  Typed' /\ OnTheWay'
  <1>1. ControlOK'
    <2>1. ControlOK
      BY HeadTypes DEF ControlOK, Typed, TypeOK
    <2> QED BY <2>1, ControlStep
  <1>2. stdin' \in Seq(Lines) /\ Unread' /\ (\A r \in Read' : r \in Requests)
    BY ReadGrows DEF OnTheWay, Read
  <1>3. /\ client_pending' \subseteq Read' \cap Fresh' /\ server_pending' \subseteq {AskId}
        /\ result' \in [Requests -> {"none", "done", "failed", "twice"}]
        /\ Requests \ Fresh' \subseteq Read'
    BY TrackerStep
  <1>4. /\ toDaemon' \in [Gens -> Seq(Lines)] /\ running' \in [Gens -> SUBSET Requests]
        /\ ran' \in Seq(Requests)
        /\ \A g \in Gens : Asked(toDaemon'[g]) \cup running'[g] \subseteq Read'
    BY DaemonStep
  <1>5. /\ toProxy' \in [Gens -> Seq(Lines)]
        /\ \A g \in Gens : Of(toProxy'[g], g) /\ Answered(toProxy'[g]) \subseteq Read'
    BY ProxyStep
  <1>6. /\ queue' \in Seq(Lines) /\ flushed' \in 0..Len(queue') /\ Asked(queue') \subseteq Read'
        /\ \A i \in 1..Len(queue') : queue'[i].kind \in {"request", "cut"}
    BY QueueStep
  <1>7. (owed \subseteq {l \in Lines : l.kind \in {"ask", "pong"}})'
    BY OwedStep
  <1>8. TypeOK'
    BY <1>1, <1>2, <1>3, <1>4, <1>6 DEF ControlOK, TypeOK
  <1>9. Typed'
    BY <1>1, <1>2, <1>4, <1>5, <1>6, <1>7, <1>8 DEF ControlOK, Typed
  <1>10. OnTheWay'
    BY <1>2, <1>3, <1>4, <1>5, <1>6 DEF OnTheWay
  <1> QED BY <1>9, <1>10

-----------------------------------------------------------------------------
(* The stages of the bridge and the reconnect *)

LEMMA StagesStep ==
    ASSUME Typed, Stages, [Next]_vars
    PROVE  Stages'
  <1> USE Constants DEF Stages
  <1>t. stream \in Gens /\ fresh \in Gens /\ stream <= fresh /\ up \subseteq Gens /\ server_pending \subseteq {AskId}
    <2>1. stream \in Gens /\ fresh \in Gens
      BY HeadTypes
    <2>2. stream \in 1..fresh
      BY DEF Typed, TypeOK
    <2>3. up \subseteq Gens
      BY DEF Typed, TypeOK
    <2>4. server_pending \subseteq {AskId}
      BY DEF Typed, TypeOK
    <2> QED BY <2>1, <2>2, <2>3, <2>4 DEF Gens
  <1>d. CASE Daemon
    <2>1. PICK g \in Gens : Receive(g) \/ Respond(g) \/ Ask(g) \/ Die(g)
      BY <1>d DEF Daemon
    <2>2. UNCHANGED proxyVars
      BY <2>1 DEF Receive, Respond, Ask, Die
    <2>3. up' \subseteq up
      BY <2>1 DEF Receive, Respond, Ask, Die
    <2> QED BY <2>2, <2>3 DEF proxyVars, queueVars, tracker
  <1>c. CASE Client \/ UNCHANGED vars
    BY <1>c DEF Client, SendRequest, AnswerOwed, Silence, vars, daemonVars, proxyVars, queueVars, tracker
  <1>p. CASE Partial
    BY <1>p DEF Partial, ReadPartOfClient, ReadPartOfDaemon, ReadPart, OrphanTick, daemonVars, queueVars, tracker
  <1>1. CASE FlushLine \/ FlushFails \/ FlushDone
    BY <1>1, <1>t DEF FlushLine, FlushFails, FlushDone, daemonVars, tracker
  <1>2. CASE Handshake \/ HandshakeFails \/ PingTimeout \/ ClientGone
    BY <1>2 DEF Handshake, HandshakeFails, PingTimeout, ClientGone, Exit, daemonVars, queueVars, tracker
  <1>3. CASE Connect
    <2>1. stream <= fresh /\ fresh' = fresh + 1 /\ up' = up \cup {fresh + 1} /\ up \subseteq 1..fresh /\ stream \in Nat /\ fresh \in Nat
      BY <1>3, <1>t DEF Connect, Gens
    <2>2. stream \notin up'
      BY <1>3, <2>1 DEF Connect
    <2>3. up' \subseteq 1..fresh'
      BY <2>1
    <2> QED BY <1>3, <2>2, <2>3 DEF Connect, queueVars, tracker
  <1>4. CASE Replay \/ ConnectFails \/ ReplayFails
    BY <1>4 DEF Replay, ConnectFails, ReplayFails, Failed, daemonVars, queueVars, tracker
  <1>5. CASE ForwardToClient \/ ConsumePong \/ DropAnswer \/ ForwardToDaemon \/ IdleProbe
    BY <1>5 DEF ForwardToClient, ConsumePong, DropAnswer, ForwardToDaemon, IdleProbe, TakeLine, queueVars, tracker
  <1>6. CASE DaemonGone \/ WriteFails
    BY <1>6 DEF DaemonGone, WriteFails, FailPending, daemonVars, queueVars
  <1>7. CASE ReadWhileReconnecting
    BY <1>7 DEF ReadWhileReconnecting, TakeLine, Observe
  <1> QED BY <1>d, <1>c, <1>p, <1>1, <1>2, <1>3, <1>4, <1>5, <1>6, <1>7 DEF Next, Proxy

-----------------------------------------------------------------------------
(* No request is forgotten, when no line is lost *)

LEMMA WaitingStep ==
    ASSUME Typed
    PROVE  /\ UNCHANGED queueVars => Waiting' = Waiting
           /\ \A l \in Lines : UNCHANGED flushed /\ queue' = Append(queue, l) =>
                 Waiting' = Waiting \cup (IF l.kind = "request" THEN {l.id} ELSE {})
           /\ UNCHANGED queue /\ flushed < Len(queue) /\ flushed' = flushed + 1 =>
                 LET l == queue[flushed + 1] IN
                    /\ l \in Lines
                    /\ Waiting = Waiting' \cup (IF l.kind = "request" THEN {l.id} ELSE {})
                    /\ InOrder(queue) /\ l.kind = "request" => \A w \in Waiting' : l.id < w
           /\ flushed = Len(queue) => Waiting = {}
           /\ Waiting \subseteq Asked(queue)
  <1>t. queue \in Seq(Lines) /\ flushed \in 0..Len(queue) /\ Len(queue) \in Nat
    BY DEF Typed, TypeOK
  <1>1. UNCHANGED queueVars => Waiting' = Waiting
    BY DEF queueVars, Waiting
  <1>2. ASSUME NEW l \in Lines, UNCHANGED flushed, queue' = Append(queue, l)
        PROVE  Waiting' = Waiting \cup (IF l.kind = "request" THEN {l.id} ELSE {})
    <2>1. /\ Len(queue') = Len(queue) + 1 /\ queue'[Len(queue) + 1] = l
          /\ \A i \in 1..Len(queue) : queue'[i] = queue[i]
      BY <1>t, <1>2
    <2>2. \A i : i \in (flushed' + 1)..Len(queue') <=> i \in (flushed + 1)..Len(queue) \/ i = Len(queue) + 1
      BY <1>t, <1>2, <2>1
    <2>3. \A i \in (flushed + 1)..Len(queue) : queue'[i] = queue[i]
      BY <1>t, <2>1
    <2> QED BY <2>1, <2>2, <2>3 DEF Waiting
  <1>3. ASSUME UNCHANGED queue, flushed < Len(queue), flushed' = flushed + 1
        PROVE  /\ queue[flushed + 1] \in Lines
               /\ Waiting = Waiting'
                             \cup (IF queue[flushed + 1].kind = "request" THEN {queue[flushed + 1].id} ELSE {})
               /\ InOrder(queue) /\ queue[flushed + 1].kind = "request"
                             => \A w \in Waiting' : queue[flushed + 1].id < w
    <2>1. \A i : i \in (flushed + 1)..Len(queue) <=> i = flushed + 1 \/ i \in (flushed' + 1)..Len(queue)
      BY <1>t, <1>3
    <2>2. queue[flushed + 1] \in Lines
      BY <1>t, <1>3
    <2>3. ASSUME InOrder(queue), queue[flushed + 1].kind = "request", NEW i \in (flushed' + 1)..Len(queue), queue[i].kind = "request"
          PROVE  queue[flushed + 1].id < queue[i].id
      BY <1>t, <1>3, <2>3 DEF InOrder
    <2>4. Waiting = Waiting' \cup (IF queue[flushed + 1].kind = "request" THEN {queue[flushed + 1].id} ELSE {})
      BY <1>3, <2>1 DEF Waiting
    <2>5. InOrder(queue) /\ queue[flushed + 1].kind = "request" => \A w \in Waiting' : queue[flushed + 1].id < w
      BY <1>3, <2>3 DEF Waiting
    <2> QED BY <2>2, <2>4, <2>5
  <1>4. flushed = Len(queue) => Waiting = {}
    BY <1>t DEF Waiting
  <1>5. Waiting \subseteq Asked(queue)
    BY <1>t DEF Waiting, Asked
  <1> QED BY <1>1, <1>2, <1>3, <1>4, <1>5

\* With nothing read in part, nothing is cut.
LEMMA Uncut ==
    ASSUME Typed, half = {}
    PROVE  /\ DropClientPart => UNCHANGED stdin
           /\ DropDaemonPart => UNCHANGED toProxy
           /\ ~OrphanTick
  BY Losing, Cutting DEF Typed, DropClientPart, OrphanTick

LEMMA CompleteStep ==
    ASSUME Typed, OnTheWay, Complete, half = {}, [Next]_vars
    PROVE  Complete'
  <1> DEFINE h == Head(stdin)
             p == Head(toProxy[stream])
  <1>t. stdin \in Seq(Lines) /\ next \in Nat /\ Requests \subseteq Nat /\ Fresh \subseteq Requests
    BY Constants DEF Typed, TypeOK, Fresh
  <1>1. CASE SendRequest
    <2>1. /\ next \in Requests /\ next' = next + 1 /\ UNCHANGED <<client_pending, result>>
          /\ stdin' = Append(stdin, Line("request", next, 0))
      BY <1>1, <1>t DEF SendRequest, Requests, Typed, TypeOK, proxyVars, tracker
    <2>2. Asked(stdin') = Asked(stdin) \cup {next}
      BY <1>t, <2>1, LinesOf, Adding
    <2>3. \A r \in Fresh : r < next' => r < next \/ r = next
      BY <1>t, <2>1
    <2> QED BY <2>1, <2>2, <2>3 DEF Complete, Fresh
  <1>2. CASE AnswerOwed
    <2>1. PICK line \in owed : stdin' = Append(stdin, line)
      BY <1>2 DEF AnswerOwed
    <2>2. line \in Lines /\ line.kind # "request"
      BY DEF Typed
    <2>3. Asked(stdin') = Asked(stdin)
      BY <1>t, <2>1, <2>2, Adding
    <2> QED BY <1>2, <2>3 DEF Complete, Fresh, AnswerOwed, proxyVars, tracker
  <1>3. CASE ForwardToClient
    <2>1. /\ UNCHANGED <<stdin, next>>
          /\ client_pending' = IF p.kind = "response" THEN client_pending \ {p.id} ELSE client_pending
          /\ result' = IF p.kind = "response" THEN [result EXCEPT ![p.id] = Got(p.id, "done")] ELSE result
          /\ p.kind = "response" => p.id \in Requests
      <3>1. p \in Lines
        BY <1>3, HeadTypes DEF ForwardToClient
      <3> QED BY <1>3, <3>1, Uncut DEF ForwardToClient, ObserveDaemon, Deliver, Lines
    <2> HIDE DEF p
    <2>2. Got(p.id, "done") # "none"
      BY DEF Got
    <2>3. p.kind = "response" => Fresh' = Fresh \ {p.id}
      BY <2>1, <2>2 DEF Fresh, Typed, TypeOK
    <2>4. CASE p.kind = "response"
      BY <2>1, <2>3, <2>4 DEF Complete
    <2>5. CASE p.kind # "response"
      BY <2>1, <2>5 DEF Complete, Fresh
    <2> QED BY <2>4, <2>5
  <1>4. ASSUME NEW s, result' = Errors(s)
        PROVE  Fresh' \subseteq Fresh \ s
    BY <1>4 DEF Errors, Got, Fresh
  <1>5. CASE DaemonGone
    <2>1. UNCHANGED <<stdin, next>> /\ result' = Errors(client_pending) /\ client_pending' = {}
      BY <1>5, Uncut DEF DaemonGone, FailPending
    <2> QED BY <2>1, <1>4 DEF Complete
  <1>6. CASE WriteFails
    <2>1. TakeLine /\ UNCHANGED next /\ result' = Errors(Pending(h)) /\ client_pending' = {}
      BY <1>6 DEF WriteFails, FailPending
    <2>2. Fresh' \subseteq Fresh \ Pending(h)
      BY <1>4, <2>1
    <2> QED BY <2>1, <2>2, ReadOther DEF Complete, Pending
  <1>7. CASE ForwardToDaemon \/ ReadWhileReconnecting
    <2>1. TakeLine /\ UNCHANGED <<next, result>> /\ client_pending' = Pending(h)
      BY <1>7 DEF ForwardToDaemon, ReadWhileReconnecting, Observe
    <2> QED BY <2>1, ReadOther DEF Complete, Pending, Fresh
  <1>8. CASE ConsumePong \/ DropAnswer
    <2>1. TakeLine /\ UNCHANGED <<next, result, client_pending>> /\ h.kind # "request"
      BY <1>8 DEF ConsumePong, DropAnswer, OurPong, Forwards, tracker
    <2> QED BY <2>1, ReadOther DEF Complete, Fresh
  <1>9. CASE UNCHANGED <<stdin, next, result, client_pending>>
    BY <1>9 DEF Complete, Fresh
  <1>10. CASE OrphanTick \/ IdleProbe \/ Replay \/ ReplayFails \/ ConnectFails
    BY <1>10, <1>9, Uncut DEF IdleProbe, Replay, ReplayFails, ConnectFails, Failed, tracker
  <1>11. \/ SendRequest \/ AnswerOwed \/ ForwardToClient \/ DaemonGone \/ WriteFails \/ ForwardToDaemon
         \/ ReadWhileReconnecting \/ ConsumePong \/ DropAnswer \/ OrphanTick \/ IdleProbe
         \/ Replay \/ ReplayFails \/ ConnectFails \/ UNCHANGED <<stdin, next, result, client_pending>>
    BY DEF Next, Client, Daemon, Partial, Proxy, PingTimeout, ClientGone, Exit, vars, proxyVars,
           daemonVars, clientVars, tracker, Silence, Receive, Respond, Ask, Die,
           ReadPartOfClient, ReadPartOfDaemon, Handshake, HandshakeFails,
           Connect, FlushLine, FlushFails, FlushDone
  <1> QED BY <1>1, <1>2, <1>3, <1>5, <1>6, <1>7, <1>8, <1>9, <1>10, <1>11

\* What a daemon does keeps a request on its way, while it lives.
LEMMA WayStep ==
    ASSUME Typed, NEW g \in Gens, Receive(g) \/ Respond(g) \/ Ask(g) \/ Die(g),
           NEW x \in Gens, x \in up'
    PROVE  OnItsWay(x) \subseteq OnItsWay(x)'
  <1>t. /\ toDaemon \in [Gens -> Seq(Lines)] /\ running \in [Gens -> SUBSET Requests]
        /\ toProxy \in [Gens -> Seq(Lines)]
    BY DEF Typed, TypeOK
  <1>1. CASE Receive(g)
    <2>1. /\ toDaemon[g] # << >> /\ toDaemon' = [toDaemon EXCEPT ![g] = Tail(toDaemon[g])] /\ UNCHANGED toProxy
          /\ running' = IF Head(toDaemon[g]).kind = "request"
                        THEN [running EXCEPT ![g] = running[g] \cup {Head(toDaemon[g]).id}] ELSE running
      BY <1>1 DEF Receive
    <2>2. Asked(toDaemon[g]) = Asked(Tail(toDaemon[g]))
                  \cup (IF Head(toDaemon[g]).kind = "request" THEN {Head(toDaemon[g]).id} ELSE {})
      BY <1>t, <2>1, Taking
    <2>3. CASE x = g
      <3>1. toDaemon'[x] = Tail(toDaemon[x]) /\ toProxy'[x] = toProxy[x]
        BY <1>t, <2>1, <2>3
      <3>2. running'[x] = running[x]
                    \cup (IF Head(toDaemon[g]).kind = "request" THEN {Head(toDaemon[g]).id} ELSE {})
        BY <1>t, <2>1, <2>3
      <3> QED BY <2>2, <2>3, <3>1, <3>2 DEF OnItsWay
    <2>4. CASE x # g
      BY <1>t, <2>1, <2>4 DEF OnItsWay
    <2> QED BY <2>3, <2>4
  <1>2. CASE Respond(g)
    <2>1. PICK r \in running[g] : /\ running' = [running EXCEPT ![g] = @ \ {r}] /\ UNCHANGED toDaemon
                                  /\ toProxy' = [toProxy EXCEPT ![g] = Append(@, Line("response", r, g))]
      BY <1>2 DEF Respond
    <2>2. Answered(Append(toProxy[g], Line("response", r, g))) = Answered(toProxy[g]) \cup {r}
      <3>1. r \in Requests /\ toProxy[g] \in Seq(Lines)
        BY <1>t
      <3>2. /\ Line("response", r, g) \in Lines /\ Line("response", r, g).kind = "response"
            /\ Line("response", r, g).id = r
        BY <3>1, LinesOf
      <3> QED BY <3>1, <3>2, Adding
    <2> QED BY <1>t, <2>1, <2>2 DEF OnItsWay
  <1>3. CASE Ask(g)
    <2>1. /\ UNCHANGED <<running, toDaemon>>
          /\ toProxy' = [toProxy EXCEPT ![g] = Append(@, Line("ask", AskId, g))]
      BY <1>3 DEF Ask
    <2>2. Answered(Append(toProxy[g], Line("ask", AskId, g))) = Answered(toProxy[g])
      <3>1. Line("ask", AskId, g) \in Lines /\ Line("ask", AskId, g).kind = "ask" /\ toProxy[g] \in Seq(Lines)
        BY <1>t, LinesOf
      <3> QED BY <3>1, Adding
    <2> QED BY <1>t, <2>1, <2>2 DEF OnItsWay
  <1>4. CASE Die(g)
    <2>1. x # g
      BY <1>4 DEF Die
    <2> QED BY <1>4, <1>t, <2>1 DEF Die, OnItsWay
  <1> QED BY <1>1, <1>2, <1>3, <1>4

LEMMA LocatedStep ==
    ASSUME Typed, Stages, OnTheWay, Located, "split" \notin may, stage # "exited", [Next]_vars
    PROVE  Located'
  <1> DEFINE h == Head(stdin)
             Way == <<stage, stream, fresh, up, client_pending>>
  <1>t. /\ toDaemon \in [Gens -> Seq(Lines)] /\ toProxy \in [Gens -> Seq(Lines)]
        /\ running \in [Gens -> SUBSET Requests]
        /\ stream \in Gens /\ fresh \in Gens /\ half = {}
    BY HeadTypes DEF Typed, TypeOK, Stages
  <1>s. ASSUME UNCHANGED <<toDaemon, running, toProxy>>
        PROVE  \A x \in Gens : OnItsWay(x)' = OnItsWay(x)
    BY <1>s DEF OnItsWay
  <1>w. UNCHANGED queueVars => Waiting' = Waiting
    BY WaitingStep
  <1>1. ASSUME NEW g \in Gens, Receive(g) \/ Respond(g) \/ Ask(g) \/ Die(g)
        PROVE  Located'
    <2>1. UNCHANGED <<stage, stream, fresh, client_pending, queueVars>> /\ up' \subseteq up
      BY <1>1 DEF Receive, Respond, Ask, Die, proxyVars, tracker
    <2>2. \A x \in Gens : x \in up' => OnItsWay(x) \subseteq OnItsWay(x)'
      BY <1>1, WayStep
    <2> QED BY <1>t, <1>w, <2>1, <2>2 DEF Located
  <1>2. CASE UNCHANGED <<Way, queueVars, toDaemon, running, toProxy>>
    BY <1>2, <1>t, <1>s, <1>w DEF Located
  <1>3. CASE ForwardToClient
    <2> DEFINE p == Head(toProxy[stream])
    <2>1. /\ UNCHANGED <<stage, stream, up, fresh, toDaemon, running>> /\ stage = "bridge"
          /\ client_pending' = IF p.kind = "response" THEN client_pending \ {p.id} ELSE client_pending
          /\ toProxy' = [toProxy EXCEPT ![stream] = Tail(toProxy[stream])] /\ toProxy[stream] # << >>
      BY <1>3 DEF ForwardToClient, ObserveDaemon
    <2>2. Answered(toProxy[stream]) = Answered(Tail(toProxy[stream]))
                  \cup (IF p.kind = "response" THEN {p.id} ELSE {})
      BY <1>t, <2>1, Taking
    <2>3. OnItsWay(stream) \subseteq OnItsWay(stream)' \cup (IF p.kind = "response" THEN {p.id} ELSE {})
      BY <1>t, <2>1, <2>2 DEF OnItsWay
    <2> HIDE DEF p
    <2> QED BY <2>1, <2>3 DEF Located
  <1>4. CASE DaemonGone \/ WriteFails
    BY <1>4 DEF DaemonGone, WriteFails, FailPending, Located
  <1>5. CASE ForwardToDaemon
    <2>1. /\ UNCHANGED <<stage, stream, up, fresh, running, toProxy>> /\ stage = "bridge" /\ stream \in up
          /\ client_pending' = Pending(h) /\ TakeLine
          /\ toDaemon' = [toDaemon EXCEPT ![stream] = Append(toDaemon[stream], h)]
      BY <1>5, <1>t, Uncut DEF ForwardToDaemon, Observe, TakeLine
    <2>2. Asked(Append(toDaemon[stream], h)) = Asked(toDaemon[stream])
                  \cup (IF h.kind = "request" THEN {h.id} ELSE {})
      BY <1>t, <2>1, Reading, Adding
    <2>3. OnItsWay(stream)' = OnItsWay(stream) \cup (IF h.kind = "request" THEN {h.id} ELSE {})
      BY <1>t, <2>1, <2>2 DEF OnItsWay
    <2> HIDE DEF h
    <2> QED BY <2>1, <2>3 DEF Located, Pending
  <1>6. CASE ReadWhileReconnecting
    <2>1. /\ UNCHANGED <<stage, flushed>> /\ stage \in {"reconnect", "replay"} /\ client_pending' = Pending(h) /\ TakeLine
          /\ \/ queue' = queue /\ h.kind # "request"
             \/ queue' = Append(queue, h)
      BY <1>6 DEF ReadWhileReconnecting, Observe, Forwards
    <2>2. h \in Lines
      BY <2>1, Reading
    <2>3. Waiting \cup (IF h.kind = "request" THEN {h.id} ELSE {}) = Waiting'
      BY <1>w, <2>1, <2>2, WaitingStep DEF queueVars
    <2> QED BY <2>1, <2>3 DEF Located, Pending
  <1>7. CASE Connect
    BY <1>7, <1>w DEF Connect, Located, tracker
  <1>8. CASE Replay
    BY <1>8, <1>w DEF Replay, Located, tracker
  <1>9. CASE ConnectFails \/ ReplayFails \/ FlushFails
    <2>1. stream' \notin up' /\ stage' = "bridge"
      BY <1>9 DEF ConnectFails, ReplayFails, FlushFails, Failed, Stages, daemonVars
    <2> QED BY <2>1 DEF Located
  <1>10. CASE FlushLine
    <2> DEFINE l == queue[flushed + 1]
    <2>1. /\ UNCHANGED <<stage, stream, up, fresh, client_pending, running, toProxy, queue>> /\ stage = "flush"
          /\ toDaemon' = [toDaemon EXCEPT ![fresh] = Append(toDaemon[fresh], l)]
          /\ flushed' = flushed + 1 /\ flushed < Len(queue)
      BY <1>10 DEF FlushLine, tracker
    <2>2. l \in Lines /\ Waiting = Waiting' \cup (IF l.kind = "request" THEN {l.id} ELSE {})
      BY <2>1, WaitingStep
    <2>3. Asked(Append(toDaemon[fresh], l)) = Asked(toDaemon[fresh])
                  \cup (IF l.kind = "request" THEN {l.id} ELSE {})
      BY <1>t, <2>2, Adding
    <2>4. OnItsWay(fresh)' = OnItsWay(fresh) \cup (IF l.kind = "request" THEN {l.id} ELSE {})
      BY <1>t, <2>1, <2>3 DEF OnItsWay
    <2> HIDE DEF l
    <2> QED BY <2>1, <2>2, <2>4 DEF Located
  <1>11. CASE FlushDone
    <2>1. /\ stage = "flush" /\ stage' = "bridge" /\ stream' = fresh
          /\ UNCHANGED <<fresh, up, client_pending, running, toDaemon>>
          /\ toProxy' = [toProxy EXCEPT ![stream] = << >>] /\ Waiting = {} /\ stream \notin up
      BY <1>11, WaitingStep DEF FlushDone, Stages, tracker
    <2>2. CASE fresh \in up
      <3>1. OnItsWay(fresh)' = OnItsWay(fresh)
        BY <1>t, <2>1, <2>2 DEF OnItsWay
      <3> QED BY <2>1, <2>2, <3>1 DEF Located, OnItsWay
    <2>3. CASE fresh \notin up
      BY <2>1, <2>3 DEF Located
    <2> QED BY <2>2, <2>3
  <1>12. CASE Handshake
    BY <1>12 DEF Handshake, Stages, Located, tracker
  <1>13. CASE HandshakeFails \/ PingTimeout \/ ClientGone
    BY <1>13 DEF HandshakeFails, PingTimeout, ClientGone, Exit, Located
  <1>14. CASE ConsumePong \/ DropAnswer \/ IdleProbe \/ Client \/ Partial
    <2>1. UNCHANGED <<Way, queueVars, toDaemon, running>> /\ (UNCHANGED toProxy \/ DropDaemonPart)
      BY <1>14 DEF ConsumePong, DropAnswer, TakeLine, IdleProbe, Client, SendRequest, AnswerOwed, Silence, Partial,
                   ReadPartOfClient, ReadPartOfDaemon, OrphanTick, daemonVars, proxyVars, tracker, queueVars
    <2> QED BY <1>2, <1>t, <2>1, Uncut
  <1>15. CASE UNCHANGED vars
    BY <1>2, <1>15 DEF vars, proxyVars, daemonVars, tracker, queueVars
  <1> QED BY <1>1, <1>3, <1>4, <1>5, <1>6, <1>7, <1>8, <1>9, <1>10, <1>11, <1>12, <1>13, <1>14, <1>15
          DEF Next, Daemon, Proxy

\* An id stands for its line.
LEMMA Places ==
    ASSUME NEW s \in Seq(Lines), NEW r \in Requests
    PROVE  /\ r \in Asked(s) <=> \E i \in 1..Len(s) : s[i] = Line("request", r, 0)
           /\ \A g : Of(s, g) => (r \in Answered(s) <=> \E i \in 1..Len(s) : s[i] = Line("response", r, g))
  <1>1. \A i \in 1..Len(s) : s[i].kind = "request" /\ s[i].id = r <=> s[i] = Line("request", r, 0)
    BY DEF Lines, Line
  <1>2. \A g : Of(s, g) => \A i \in 1..Len(s) :
           s[i].kind = "response" /\ s[i].id = r <=> s[i] = Line("response", r, g)
    BY DEF Of, Lines, Line
  <1>3. r \in Asked(s) <=> \E i \in 1..Len(s) : s[i] = Line("request", r, 0)
    BY <1>1 DEF Asked
  <1>4. ASSUME NEW g, Of(s, g)
        PROVE  r \in Answered(s) <=> \E i \in 1..Len(s) : s[i] = Line("response", r, g)
    BY <1>2, <1>4 DEF Answered
  <1> QED BY <1>3, <1>4

LEMMA PlacesOfRequests ==
    ASSUME Typed, NEW r \in Requests
    PROVE  /\ r \in Waiting <=> Queued(r)
           /\ \A g \in Gens : r \in OnItsWay(g) <=> Sent(g, r)
  <1>1. /\ queue \in Seq(Lines) /\ flushed \in 0..Len(queue)
        /\ \A g \in Gens : toDaemon[g] \in Seq(Lines) /\ toProxy[g] \in Seq(Lines) /\ Of(toProxy[g], g)
    BY DEF Typed, TypeOK
  <1>2. \A i \in (flushed + 1)..Len(queue) : queue[i].kind = "request" /\ queue[i].id = r
                <=> queue[i] = Line("request", r, 0)
    <2>1. \A i \in (flushed + 1)..Len(queue) : queue[i] \in Lines
      BY <1>1
    <2> QED BY <2>1 DEF Lines, Line
  <1>3. r \in Waiting <=> Queued(r)
    BY <1>2 DEF Waiting, Queued
  <1>4. ASSUME NEW g \in Gens
        PROVE  r \in OnItsWay(g) <=> Sent(g, r)
    <2>1. /\ r \in Asked(toDaemon[g]) <=> \E i \in 1..Len(toDaemon[g]) : toDaemon[g][i] = Line("request", r, 0)
          /\ r \in Answered(toProxy[g]) <=> \E i \in 1..Len(toProxy[g]) : toProxy[g][i] = Line("response", r, g)
      BY <1>1, Places
    <2> QED BY <2>1 DEF OnItsWay, Sent
  <1> QED BY <1>3, <1>4

LEMMA InvAccounts == AccountInv => Accounted
  <1> SUFFICES ASSUME AccountInv, stage # "exited", "split" \notin may
               PROVE  /\ client_pending = {r \in 1..(next - 1) :
                            result[r] = "none" /\ ~ \E i \in 1..Len(stdin) : stdin[i] = Line("request", r, 0)}
                      /\ \A r \in client_pending :
                            CASE stage = "bridge" -> stream \in up => Sent(stream, r)
                              [] stage \in {"reconnect", "replay"} -> Queued(r)
                              [] stage = "flush" -> fresh \in up => Queued(r) \/ Sent(fresh, r)
                              [] OTHER -> FALSE
    BY DEF Accounted, AccountInv, Typed
  <1>t. /\ Typed /\ Complete /\ Located /\ client_pending \subseteq Read \cap Fresh
        /\ stage = "handshake" => client_pending = {}
        /\ stream \in Gens /\ fresh \in Gens
        /\ next \in 1..(NumRequests + 1) /\ NumRequests \in Nat
        /\ stage \in {"handshake", "bridge", "reconnect", "replay", "flush"}
    BY HeadTypes, Constants DEF AccountInv, Whole, OnTheWay, Stages, Typed, TypeOK
  <1>1. \A r : r \in 1..(next - 1) <=> r \in Requests /\ r < next
    BY <1>t DEF Requests
  <1>2. \A r \in Requests : r \in Asked(stdin) <=> \E i \in 1..Len(stdin) : stdin[i] = Line("request", r, 0)
    BY <1>t, Places DEF Typed
  <1>3. \A r \in Requests : r < next /\ r \in Fresh /\ r \notin Asked(stdin) <=> r \in client_pending
    <2>1. \A r \in Read : r \notin Asked(stdin) /\ r < next /\ r \in Requests
      BY Constants DEF Read
    <2> QED BY <1>t, <2>1 DEF Complete
  <1>4. client_pending = {r \in 1..(next - 1) :
                            result[r] = "none" /\ ~ \E i \in 1..Len(stdin) : stdin[i] = Line("request", r, 0)}
    BY <1>t, <1>1, <1>2, <1>3 DEF Fresh
  <1>5. ASSUME NEW r \in client_pending
        PROVE  CASE stage = "bridge" -> stream \in up => Sent(stream, r)
                 [] stage \in {"reconnect", "replay"} -> Queued(r)
                 [] stage = "flush" -> fresh \in up => Queued(r) \/ Sent(fresh, r)
                 [] OTHER -> FALSE
    <2>1. r \in Requests
      BY <1>t DEF Fresh
    <2>2. (r \in Waiting <=> Queued(r)) /\ \A g \in Gens : r \in OnItsWay(g) <=> Sent(g, r)
      BY <1>t, <2>1, PlacesOfRequests
    <2>3. CASE stage = "bridge"
      BY <1>t, <2>2, <2>3 DEF Located
    <2>4. CASE stage \in {"reconnect", "replay"}
      BY <1>t, <2>2, <2>4 DEF Located
    <2>5. CASE stage = "flush"
      BY <1>t, <2>2, <2>5 DEF Located
    <2>6. CASE stage = "handshake"
      BY <1>t, <2>6
    <2> QED BY <1>t, <2>3, <2>4, <2>5, <2>6
  <1> QED BY <1>4, <1>5

LEMMA SameScenario == [Next]_vars => UNCHANGED may
  BY DEF Next, Client, Daemon, Partial, Proxy, PingTimeout, ClientGone, Exit, vars, proxyVars,
         SendRequest, AnswerOwed, Silence, Receive, Respond, Ask, Die,
         ReadPartOfClient, ReadPartOfDaemon, OrphanTick, Handshake, HandshakeFails,
         ForwardToClient, DaemonGone, ConsumePong, DropAnswer, ForwardToDaemon, WriteFails,
         IdleProbe, ReadWhileReconnecting, Connect, ConnectFails, Failed, Replay, ReplayFails,
         FlushLine, FlushFails, FlushDone

LEMMA AccountInit == Init => AccountInv
  <1> SUFFICES ASSUME Init PROVE AccountInv
    OBVIOUS
  <1> USE Constants DEF Init
  <1>1. Typed
    <2>1. TypeOK
      BY DEF TypeOK, Gens
    <2>2. \A g \in Gens : Of(toProxy[g], g)
      BY DEF Of
    <2> QED BY <2>1, <2>2, Nothing DEF Typed
  <1>2. Stages
    BY DEF Stages, Gens
  <1>3. OnTheWay
    BY Nothing DEF OnTheWay, Unread, Fresh
  <1>4. Complete /\ Located
    BY DEF Complete, Fresh, Requests, Located
  <1> QED BY <1>1, <1>2, <1>3, <1>4 DEF AccountInv, Whole

LEMMA AccountNext == AccountInv /\ [Next]_vars => AccountInv'
  <1> SUFFICES ASSUME AccountInv, [Next]_vars PROVE AccountInv'
    OBVIOUS
  <1>1. Typed' /\ OnTheWay' /\ Stages'
    BY TypedStep, StagesStep DEF AccountInv
  <1>2. stage = "exited" => stage' = "exited"
    BY DEF Next, Client, Daemon, Partial, Proxy, PingTimeout, ClientGone, Exit, vars, proxyVars,
           SendRequest, AnswerOwed, Silence, Receive, Respond, Ask, Die,
           ReadPartOfClient, ReadPartOfDaemon, OrphanTick, Handshake, HandshakeFails,
           ForwardToClient, DaemonGone, FailPending, ConsumePong, DropAnswer, ForwardToDaemon, WriteFails,
           IdleProbe, ReadWhileReconnecting, Connect, ConnectFails, Failed, Replay, ReplayFails,
           FlushLine, FlushFails, FlushDone
  <1>3. UNCHANGED may
    BY SameScenario
  <1>4. ASSUME stage' # "exited", "split" \notin may' PROVE Complete' /\ Located'
    <2>1. Complete /\ Located /\ half = {} /\ stage # "exited" /\ "split" \notin may
      BY <1>2, <1>3, <1>4 DEF AccountInv, Whole, Stages
    <2> QED BY <2>1, CompleteStep, LocatedStep DEF AccountInv
  <1> QED BY <1>1, <1>4 DEF AccountInv, Whole

\* The tracker accounts for the requests of the client, in every scenario in which no line is
\* lost (proxy.rs, JsonRpcTracker): it holds those that were read and not answered, and each of
\* them is where its answer comes from.
THEOREM RequestsAreAccounted == Spec => []Accounted
  <1>1. Spec => []AccountInv
    BY AccountInit, AccountNext, PTL DEF Spec
  <1> QED BY <1>1, InvAccounts, PTL

-----------------------------------------------------------------------------
(* When no attempt to reconnect fails half-way, the one live connection is *)
(* the latest.                                                             *)

LEMMA OneConnectionStep ==
    ASSUME Typed, Stages, OneConnection, "fail" \notin may, [Next]_vars
    PROVE  OneConnection'
  <1> USE DEF OneConnection
  <1>t. /\ toDaemon \in [Gens -> Seq(Lines)] /\ toProxy \in [Gens -> Seq(Lines)]
        /\ running \in [Gens -> SUBSET Requests]
        /\ stream \in Gens /\ fresh \in Gens /\ Gens \subseteq Nat
        /\ stage \in {"handshake", "bridge", "reconnect", "replay", "flush", "exited"}
    BY HeadTypes, Constants DEF Typed, TypeOK
  <1>d. ASSUME NEW g \in Gens, Receive(g) \/ Respond(g) \/ Ask(g) \/ Die(g)
        PROVE  OneConnection'
    <2>1. g = fresh /\ UNCHANGED <<stage, stream, fresh, queue>>
      BY <1>d DEF Receive, Respond, Ask, Die, proxyVars, queueVars
    <2>2. CASE Die(g)
      BY <1>t, <2>1, <2>2 DEF Die, Stages
    <2>3. CASE Receive(g) \/ Respond(g) \/ Ask(g)
      <3>1. g \in up /\ UNCHANGED up
        BY <2>3 DEF Receive, Respond, Ask
      <3>2. \A x \in Gens : x # g
                    => toDaemon'[x] = toDaemon[x] /\ running'[x] = running[x] /\ toProxy'[x] = toProxy[x]
        BY <1>t, <2>3 DEF Receive, Respond, Ask
      <3> QED BY <1>t, <2>1, <3>1, <3>2
    <2> QED BY <1>d, <2>2, <2>3
  <1>q. ASSUME UNCHANGED <<stage, stream, fresh, queue, up, toDaemon, running>>,
               UNCHANGED toProxy \/ DropDaemonPart
        PROVE  OneConnection'
    BY <1>t, <1>q, Losing
  <1>1. CASE Client \/ Partial \/ UNCHANGED vars
    <2>1. UNCHANGED <<stage, stream, fresh, queue, up, toDaemon, running>> /\ (UNCHANGED toProxy \/ DropDaemonPart)
      BY <1>1 DEF Client, SendRequest, AnswerOwed, Silence, Partial, ReadPartOfClient, ReadPartOfDaemon,
                  OrphanTick, vars, daemonVars, proxyVars, queueVars
    <2> QED BY <2>1, <1>q
  <1>2. CASE ConsumePong \/ DropAnswer \/ IdleProbe
    <2>1. UNCHANGED <<stage, stream, fresh, queue, up, toDaemon, running>> /\ DropDaemonPart
      BY <1>2 DEF ConsumePong, DropAnswer, IdleProbe, TakeLine, queueVars
    <2> QED BY <2>1, <1>q
  <1>3. CASE Handshake \/ HandshakeFails \/ PingTimeout \/ ClientGone \/ Replay
    BY <1>3 DEF Handshake, HandshakeFails, PingTimeout, ClientGone, Exit, Replay, daemonVars, queueVars
  <1>4. ASSUME ConnectFails \/ ReplayFails \/ FlushFails
        PROVE  FALSE
    BY <1>4 DEF ConnectFails, ReplayFails, FlushFails
  <1>5. CASE ForwardToClient
    <2>1. /\ stream = fresh /\ toProxy' = [toProxy EXCEPT ![stream] = Tail(@)]
          /\ UNCHANGED <<stage, stream, fresh, queue, up, toDaemon, running>>
      BY <1>5 DEF ForwardToClient, queueVars
    <2> QED BY <1>t, <2>1
  <1>6. CASE DaemonGone \/ WriteFails
    <2>1. /\ stream = fresh /\ stage' \in {"reconnect", "exited"} /\ (UNCHANGED toProxy \/ DropDaemonPart)
          /\ UNCHANGED <<stream, fresh, queue, up, toDaemon, running>>
      BY <1>6 DEF DaemonGone, WriteFails, FailPending, TakeLine, queueVars, daemonVars
    <2> QED BY <1>t, <2>1, Losing
  <1>7. CASE ForwardToDaemon
    <2>1. /\ stream = fresh /\ stream \in up /\ DropDaemonPart
          /\ UNCHANGED <<stage, stream, fresh, queue, up, running>>
          /\ toDaemon' = [toDaemon EXCEPT ![stream] = Append(@, Head(stdin))]
      BY <1>7 DEF ForwardToDaemon, TakeLine, queueVars
    <2>2. \A g \in Gens : g \notin up => toDaemon'[g] = toDaemon[g]
      BY <1>t, <2>1
    <2> QED BY <1>t, <2>1, <2>2, Losing
  <1>8. CASE ReadWhileReconnecting
    <2>1. DropDaemonPart /\ UNCHANGED <<stage, stream, fresh, up, toDaemon, running>>
          /\ stage \in {"reconnect", "replay"}
      BY <1>8 DEF ReadWhileReconnecting, TakeLine
    <2> QED BY <1>t, <2>1, Losing
  <1>9. CASE Connect
    <2>1. /\ UNCHANGED <<stream, queue, toDaemon, running, toProxy>> /\ stage' = "replay"
          /\ stage = "reconnect" /\ fresh' = fresh + 1 /\ up' = up \cup {fresh + 1}
      BY <1>9 DEF Connect, queueVars
    <2>2. up = {}
      BY <2>1 DEF Stages
    <2> QED BY <1>t, <2>1, <2>2
  <1>10. CASE FlushLine
    <2>1. /\ UNCHANGED <<stage, stream, fresh, queue, up, running, toProxy>> /\ fresh \in up
          /\ toDaemon' = [toDaemon EXCEPT ![fresh] = Append(@, queue[flushed + 1])]
      BY <1>10 DEF FlushLine
    <2>2. \A g \in Gens : g \notin up => toDaemon'[g] = toDaemon[g]
      BY <1>t, <2>1
    <2> QED BY <1>t, <2>1, <2>2
  <1>11. CASE FlushDone
    BY <1>t, <1>11 DEF FlushDone, ClearQueue
  <1> QED BY <1>d, <1>1, <1>2, <1>3, <1>4, <1>5, <1>6, <1>7, <1>8, <1>9, <1>10, <1>11 DEF Next, Daemon, Proxy

\* What daemons have begun.
LEMMA Beginning ==
    ASSUME ran \in Seq(Requests), NEW r \in Requests, ran' = Append(ran, r)
    PROVE  /\ Begun' = Begun \cup {r}
           /\ Ordered /\ (\A b \in Begun : b < r) => Ordered'
  <1>1. /\ Len(ran) \in Nat /\ Len(ran') = Len(ran) + 1 /\ ran'[Len(ran) + 1] = r
        /\ \A i \in 1..Len(ran) : ran'[i] = ran[i]
    OBVIOUS
  <1>2. Begun' = Begun \cup {r}
    BY <1>1 DEF Begun
  <1>3. ASSUME Ordered, \A b \in Begun : b < r,
               NEW i \in 1..Len(ran'), NEW j \in 1..Len(ran'), i < j
        PROVE  ran'[i] < ran'[j]
    <2>1. i \in 1..Len(ran)
      BY <1>1, <1>3
    <2>2. ran[i] < r
      BY <1>3, <2>1 DEF Begun
    <2>3. CASE j \in 1..Len(ran)
      BY <1>1, <1>3, <2>1, <2>3 DEF Ordered
    <2>4. CASE j = Len(ran) + 1
      BY <1>1, <2>1, <2>2, <2>4
    <2> QED BY <1>1, <2>3, <2>4
  <1> QED BY <1>2, <1>3 DEF Ordered

\* What does not touch the requests of the live connection.
LEMMA Elsewhere ==
    ASSUME Typed, Stream, Once, Read \subseteq Read',
           UNCHANGED <<fresh, toDaemon, running, ran, result>>,
           /\ Waiting' \subseteq Waiting
           /\ InOrder(queue)'
           /\ Answered(toProxy'[fresh]) \subseteq Answered(toProxy[fresh])
           /\ Distinct(toProxy[fresh]) => Distinct(toProxy'[fresh]),
           stage' \in {"reconnect", "exited"} \/ stage \notin {"reconnect", "exited"}
    PROVE  Stream' /\ Once'
  <1>1. Begun' = Begun /\ Fresh' = Fresh
    BY DEF Begun, Fresh
  <1>2. Stream'
    BY <1>1 DEF Stream, Ordered
  <1>3. Once'
    BY <1>1 DEF Once
  <1> QED BY <1>2, <1>3

LEMMA DaemonStream ==
    ASSUME SessionInv, "fail" \notin may, Read \subseteq Read',
           NEW g \in Gens, Receive(g) \/ Respond(g) \/ Ask(g) \/ Die(g)
    PROVE  Stream' /\ Once'
  <1>t. /\ toDaemon \in [Gens -> Seq(Lines)] /\ toProxy \in [Gens -> Seq(Lines)]
        /\ running \in [Gens -> SUBSET Requests] /\ fresh \in Gens /\ ran \in Seq(Requests)
        /\ Typed /\ Stream /\ Once
    BY HeadTypes DEF SessionInv, AccountInv, Typed, TypeOK
  <1>g. g = fresh /\ UNCHANGED <<stage, fresh, queueVars, result>>
    BY DEF SessionInv, OneConnection, Receive, Respond, Ask, Die, proxyVars, clientVars
  <1>w. Waiting' = Waiting /\ Fresh' = Fresh /\ InOrder(queue)' /\ Waiting \subseteq Requests
    BY <1>t, <1>g, WaitingStep, Ids DEF Fresh, queueVars, Stream, Typed
  <1>1. CASE Receive(g)
    <2> DEFINE h == Head(toDaemon[fresh])
               s == Tail(toDaemon[fresh])
    <2>1. /\ toDaemon[fresh] # << >> /\ toDaemon' = [toDaemon EXCEPT ![fresh] = s] /\ UNCHANGED toProxy
          /\ \/ /\ h.kind = "request" /\ ran' = Append(ran, h.id)
                /\ running' = [running EXCEPT ![fresh] = running[fresh] \cup {h.id}]
             \/ h.kind # "request" /\ UNCHANGED <<running, ran>>
      BY <1>1, <1>g DEF Receive
    <2>2. /\ h \in Lines /\ InOrder(s) /\ s \in Seq(Lines)
          /\ Asked(toDaemon[fresh]) = Asked(s) \cup (IF h.kind = "request" THEN {h.id} ELSE {})
          /\ h.kind = "request" => \A a \in Asked(s) : h.id < a
      BY <1>t, <2>1, Taking DEF Stream
    <2>3. toDaemon'[fresh'] = s /\ toProxy'[fresh'] = toProxy[fresh]
      BY <1>t, <1>g, <2>1
    <2>4. CASE h.kind # "request"
      <3>1. Begun' = Begun /\ running'[fresh'] = running[fresh] /\ UNCHANGED ran
        BY <1>g, <2>1, <2>4 DEF Begun
      <3>2. Stream'
        BY <1>t, <1>w, <2>2, <2>3, <2>4, <3>1 DEF Stream, Ordered
      <3>3. Once'
        BY <1>t, <1>g, <1>w, <2>3, <3>1 DEF Once
      <3> QED BY <3>2, <3>3
    <2>5. CASE h.kind = "request"
      <3>1. h.id \in Requests /\ h.id \in Asked(toDaemon[fresh]) /\ h.id \in Fresh /\ h.id \in Nat
        BY <1>t, <2>2, <2>5, Constants DEF Lines, Stream
      <3>2. Begun' = Begun \cup {h.id} /\ (\A b \in Begun : b < h.id) /\ Ordered'
        BY <1>t, <2>1, <2>5, <3>1, Beginning DEF Stream
      <3>3. running'[fresh'] = running[fresh] \cup {h.id}
        BY <1>t, <1>g, <2>1, <2>5
      <3>4. h.id \in Read'
        BY <1>t, <3>1 DEF SessionInv, AccountInv, OnTheWay
      <3>5. h.id \notin Begun
        <4>1. ASSUME h.id \in Begun PROVE FALSE
          BY <3>1, <3>2, <4>1
        <4> QED BY <4>1
      <3> HIDE DEF h, s
      <3>6. \A w \in Waiting : h.id < w
        BY <1>t, <3>1 DEF Stream
      <3>7. Stream'
        BY <1>t, <1>w, <2>2, <2>3, <2>5, <3>1, <3>2, <3>3, <3>4, <3>6 DEF Stream
      <3>8. Once'
        BY <1>t, <1>g, <1>w, <2>3, <3>1, <3>2, <3>3, <3>5 DEF Once
      <3> QED BY <3>7, <3>8
    <2> QED BY <2>4, <2>5
  <1>2. CASE Respond(g)
    <2>1. PICK r \in running[fresh] :
             /\ running' = [running EXCEPT ![fresh] = running[fresh] \ {r}] /\ UNCHANGED <<toDaemon, ran>>
             /\ toProxy' = [toProxy EXCEPT ![fresh] = Append(toProxy[fresh], Line("response", r, fresh))]
      BY <1>2, <1>g DEF Respond
    <2>2. r \in Requests /\ r \notin Answered(toProxy[fresh]) /\ r \in Fresh /\ toProxy[fresh] \in Seq(Lines)
      BY <1>t DEF Once, Stream
    <2>3. /\ Line("response", r, fresh) \in Lines /\ Line("response", r, fresh).kind = "response"
          /\ Line("response", r, fresh).id = r
      BY <1>t, <2>2, LinesOf
    <2> DEFINE l == Line("response", r, fresh)
    <2> HIDE DEF l
    <2>4. /\ Answered(Append(toProxy[fresh], l)) = Answered(toProxy[fresh]) \cup {r}
          /\ Distinct(Append(toProxy[fresh], l))
      <3>1. l \in Lines /\ l.kind = "response" /\ l.id = r
        BY <2>3 DEF l
      <3>2. Distinct(toProxy[fresh]) /\ l.id \notin Answered(toProxy[fresh])
        BY <1>t, <2>2, <3>1 DEF Once
      <3>3. Distinct(Append(toProxy[fresh], l))
        BY <2>2, <3>1, <3>2, Adding
      <3> QED BY <2>2, <3>1, <3>3, Adding
    <2>5. /\ Answered(toProxy'[fresh']) = Answered(toProxy[fresh]) \cup {r} /\ Distinct(toProxy'[fresh'])
          /\ running'[fresh'] = running[fresh] \ {r} /\ toDaemon'[fresh'] = toDaemon[fresh]
          /\ Begun' = Begun
      BY <1>t, <1>g, <2>1, <2>4 DEF Begun, l
    <2>6. Stream'
      BY <1>t, <1>w, <2>1, <2>5 DEF Stream, Ordered
    <2>7. Once'
      BY <1>t, <1>g, <1>w, <2>2, <2>5 DEF Once
    <2> QED BY <2>6, <2>7
  <1>3. CASE Ask(g)
    <2> DEFINE l == Line("ask", AskId, fresh)
    <2>1. /\ UNCHANGED <<toDaemon, running, ran>> /\ toProxy' = [toProxy EXCEPT ![fresh] = Append(toProxy[fresh], l)]
      BY <1>3, <1>g DEF Ask
    <2>2. l \in Lines /\ l.kind = "ask" /\ toProxy[fresh] \in Seq(Lines)
      BY <1>t, LinesOf
    <2> HIDE DEF l
    <2>3. /\ Answered(Append(toProxy[fresh], l)) = Answered(toProxy[fresh])
          /\ Distinct(toProxy[fresh]) => Distinct(Append(toProxy[fresh], l))
      BY <2>2, Adding
    <2>4. toProxy'[fresh] = Append(toProxy[fresh], l)
      BY <1>t, <2>1
    <2>5. stage' \in {"reconnect", "exited"} \/ stage \notin {"reconnect", "exited"}
      BY <1>g
    <2> QED BY <1>t, <1>g, <1>w, <2>1, <2>3, <2>4, <2>5, Elsewhere
  <1>4. CASE Die(g)
    <2>1. /\ toDaemon'[fresh'] = << >> /\ running'[fresh'] = {} /\ toProxy'[fresh'] = toProxy[fresh]
          /\ UNCHANGED ran /\ Begun' = Begun
      BY <1>t, <1>g, <1>4 DEF Die, Begun
    <2>2. Stream'
      BY <1>t, <1>w, <2>1, Nothing DEF Stream, Ordered
    <2>3. Once'
      BY <1>t, <1>g, <1>w, <2>1 DEF Once
    <2> QED BY <2>2, <2>3
  <1> QED BY <1>1, <1>2, <1>3, <1>4

\* A request that is taken has no answer yet.
LEMMA TakenIsFresh ==
    ASSUME Typed, OnTheWay, TakeLine, UNCHANGED next, Head(stdin).kind = "request"
    PROVE  /\ Head(stdin).id \in Read' \cap Fresh
           /\ \A r \in Read : r < Head(stdin).id
  <1>1. /\ Head(stdin).id \in Read' /\ Head(stdin).id \in Requests /\ \A r \in Read : r < Head(stdin).id
    BY ReadNow, Reading DEF OnTheWay, Lines
  <1>2. ASSUME Head(stdin).id \in Read PROVE FALSE
    <2>1. Head(stdin).id \in Nat /\ Head(stdin).id < Head(stdin).id
      BY <1>1, <1>2, Constants
    <2> QED BY <2>1
  <1> QED BY <1>1, <1>2 DEF OnTheWay

LEMMA ProxyStream ==
    ASSUME SessionInv, "fail" \notin may, Read \subseteq Read', [Next]_vars,
           ForwardToClient \/ DaemonGone \/ WriteFails \/ ForwardToDaemon \/ ReadWhileReconnecting
    PROVE  Stream' /\ Once'
  <1> DEFINE h == Head(stdin)
  <1>t. /\ toDaemon \in [Gens -> Seq(Lines)] /\ toProxy \in [Gens -> Seq(Lines)]
        /\ running \in [Gens -> SUBSET Requests] /\ fresh \in Gens /\ ran \in Seq(Requests)
        /\ queue \in Seq(Lines)
        /\ Typed /\ Stages /\ OnTheWay /\ OneConnection /\ Stream /\ Once
    BY HeadTypes DEF SessionInv, AccountInv, Typed, TypeOK
  <1>b. UNCHANGED ran => Begun' = Begun
    BY DEF Begun
  <1>q. queue = << >> => Waiting = {}
    <2>1. queue = << >> => Waiting \subseteq Asked(<< >>)
      BY <1>t, WaitingStep
    <2> QED BY <2>1, Nothing
  <1>w. UNCHANGED queueVars => Waiting' = Waiting
    BY <1>t, WaitingStep
  <1>1. CASE ForwardToClient
    <2> DEFINE p == Head(toProxy[fresh])
               s == Tail(toProxy[fresh])
    <2>1. /\ stream = fresh /\ stage = "bridge" /\ queue = << >> /\ toProxy[fresh] # << >>
          /\ UNCHANGED <<stage, fresh, queueVars, toDaemon, running, ran>>
          /\ toProxy' = [toProxy EXCEPT ![fresh] = s]
          /\ result' = IF p.kind = "response" THEN [result EXCEPT ![p.id] = Got(p.id, "done")] ELSE result
      BY <1>1, <1>t DEF ForwardToClient, Deliver, OneConnection
    <2>2. /\ p \in Lines /\ (Distinct(s))
          /\ Answered(toProxy[fresh]) = Answered(s) \cup (IF p.kind = "response" THEN {p.id} ELSE {})
          /\ p.kind = "response" => p.id \notin Answered(s)
      BY <1>t, <2>1, Taking DEF Once
    <2>3. toProxy'[fresh] = s /\ Waiting' = {} /\ Waiting = {} /\ Begun' = Begun
      BY <1>t, <1>b, <1>q, <1>w, <2>1
    <2>4. CASE p.kind # "response"
      <3>1. UNCHANGED result /\ InOrder(queue)'
        BY <1>t, <2>1, <2>4, Nothing DEF queueVars
      <3> QED BY <1>t, <2>1, <2>2, <2>3, <2>4, <3>1, Elsewhere
    <2>5. CASE p.kind = "response"
      <3>1. p.id \in Requests /\ p.id \in Nat /\ p.id \in Begun /\ p.id \notin running[fresh]
        BY <1>t, <2>2, <2>5, Constants DEF Lines, Once
      <3>2. p.id \notin Asked(toDaemon[fresh])
        <4>1. ASSUME p.id \in Asked(toDaemon[fresh]) PROVE FALSE
          <5>1. p.id < p.id
            BY <1>t, <3>1, <4>1 DEF Stream
          <5> QED BY <3>1, <5>1
        <4> QED BY <4>1
      <3>3. Got(p.id, "done") # "none"
        BY DEF Got
      <3>4. Fresh' = Fresh \ {p.id}
        BY <1>t, <2>1, <2>5, <3>1, <3>3 DEF Fresh, Typed, TypeOK
      <3> HIDE DEF p, s
      <3>5. Stream'
        BY <1>t, <2>1, <2>3, <3>1, <3>2, <3>4 DEF Stream, Ordered, queueVars
      <3>6. Once'
        BY <1>t, <2>1, <2>2, <2>3, <2>5, <3>1, <3>4 DEF Once
      <3> QED BY <3>5, <3>6
    <2> QED BY <2>4, <2>5
  <1>2. CASE DaemonGone \/ WriteFails
    <2>1. /\ stream = fresh /\ stream \notin up /\ queue = << >> /\ stage' \in {"reconnect", "exited"}
          /\ UNCHANGED <<fresh, queueVars, toDaemon, running, ran>> /\ (UNCHANGED toProxy \/ DropDaemonPart)
      BY <1>2, <1>t DEF DaemonGone, WriteFails, FailPending, TakeLine, daemonVars, OneConnection
    <2>2. /\ toDaemon'[fresh'] = << >> /\ running'[fresh'] = {} /\ Waiting' = {} /\ Begun' = Begun
          /\ queue' = << >>
      BY <1>t, <1>b, <1>q, <1>w, <2>1 DEF OneConnection, queueVars
    <2>3. /\ Answered(toProxy'[fresh]) \subseteq Answered(toProxy[fresh])
          /\ Distinct(toProxy'[fresh])
      BY <1>t, <2>1, Losing DEF Once
    <2>4. Stream'
      BY <1>t, <2>1, <2>2, Nothing DEF Stream, Ordered
    <2>5. Once'
      BY <1>t, <2>1, <2>2, <2>3 DEF Once
    <2> QED BY <2>4, <2>5
  <1>3. CASE ForwardToDaemon
    <2>1. /\ stream = fresh /\ queue = << >> /\ stage = "bridge"
          /\ UNCHANGED <<stage, fresh, queueVars, running, ran, result, next>> /\ DropDaemonPart /\ TakeLine
          /\ toDaemon' = [toDaemon EXCEPT ![fresh] = Append(toDaemon[fresh], h)]
      BY <1>3, <1>t DEF ForwardToDaemon, TakeLine, OneConnection
    <2>2. /\ h \in Lines
          /\ h.kind = "request" => h.id \in Read' \cap Fresh /\ \A r \in Read : r < h.id
      BY <1>t, <2>1, Reading, TakenIsFresh
    <2> HIDE DEF h
    <2>3. Asked(toDaemon[fresh]) \subseteq Read /\ Begun \subseteq Read
      BY <1>t DEF OnTheWay, Stream
    <2>4. /\ Asked(Append(toDaemon[fresh], h)) = Asked(toDaemon[fresh])
                  \cup (IF h.kind = "request" THEN {h.id} ELSE {})
          /\ InOrder(Append(toDaemon[fresh], h))
      <3>1. toDaemon[fresh] \in Seq(Lines) /\ InOrder(toDaemon[fresh])
            /\ (h.kind = "request" => \A a \in Asked(toDaemon[fresh]) : a < h.id)
        BY <1>t, <2>2, <2>3 DEF Stream
      <3> QED BY <2>2, <3>1, Adding
    <2>5. /\ toDaemon'[fresh'] = Append(toDaemon[fresh], h) /\ running'[fresh'] = running[fresh]
          /\ Waiting' = {} /\ Begun' = Begun /\ Fresh' = Fresh /\ queue' = << >>
      BY <1>t, <1>b, <1>q, <1>w, <2>1 DEF Fresh, queueVars
    <2>6. /\ Answered(toProxy'[fresh]) \subseteq Answered(toProxy[fresh])
          /\ Distinct(toProxy'[fresh])
      BY <1>t, <2>1, Losing DEF Once
    <2>7. Stream'
      BY <1>t, <2>1, <2>2, <2>3, <2>4, <2>5, Nothing DEF Stream, Ordered
    <2>8. Once'
      BY <1>t, <2>1, <2>5, <2>6 DEF Once
    <2> QED BY <2>7, <2>8
  <1>4. CASE ReadWhileReconnecting
    <2>1. /\ UNCHANGED <<stage, fresh, flushed, toDaemon, running, ran, result, next>> /\ DropDaemonPart /\ TakeLine
          /\ queue' = queue \/ queue' = Append(queue, h)
      BY <1>4 DEF ReadWhileReconnecting, TakeLine
    <2>2. /\ h \in Lines
          /\ h.kind = "request" => h.id \in Read' \cap Fresh /\ \A r \in Read : r < h.id
      BY <1>t, <2>1, Reading, TakenIsFresh
    <2> HIDE DEF h
    <2>3. /\ Asked(toDaemon[fresh]) \subseteq Read /\ Begun \subseteq Read /\ Asked(queue) \subseteq Read
          /\ InOrder(queue)
      BY <1>t DEF OnTheWay, Stream
    <2>4. /\ Waiting' \subseteq Waiting \cup (IF h.kind = "request" THEN {h.id} ELSE {}) /\ InOrder(queue')
      <3>1. CASE queue' = queue
        BY <1>w, <2>1, <2>3, <3>1 DEF queueVars
      <3>2. CASE queue' = Append(queue, h)
        <4>1. h.kind = "request" => \A a \in Asked(queue) : a < h.id
          BY <2>2, <2>3
        <4>2. InOrder(Append(queue, h))
          BY <1>t, <2>2, <2>3, <4>1, Adding
        <4> QED BY <1>t, <2>1, <2>2, <3>2, <4>2, WaitingStep
      <3> QED BY <2>1, <3>1, <3>2
    <2>5. Begun' = Begun /\ Fresh' = Fresh
      BY <1>b, <2>1 DEF Fresh
    <2>6. /\ Answered(toProxy'[fresh]) \subseteq Answered(toProxy[fresh])
          /\ Distinct(toProxy'[fresh])
      BY <1>t, <2>1, Losing DEF Once
    <2>7. Stream'
      BY <1>t, <2>1, <2>2, <2>3, <2>4, <2>5 DEF Stream, Ordered
    <2>8. Once'
      BY <1>t, <2>1, <2>5, <2>6 DEF Once
    <2> QED BY <2>7, <2>8
  <1> QED BY <1>1, <1>2, <1>3, <1>4

LEMMA StreamStep ==
    ASSUME SessionInv, "fail" \notin may, [Next]_vars
    PROVE  Stream' /\ Once'
  <1>t. /\ toDaemon \in [Gens -> Seq(Lines)] /\ toProxy \in [Gens -> Seq(Lines)]
        /\ running \in [Gens -> SUBSET Requests] /\ fresh \in Gens /\ queue \in Seq(Lines)
        /\ Typed /\ Stages /\ OneConnection /\ Stream /\ Once /\ Read \subseteq Read'
    BY HeadTypes, ReadGrows DEF SessionInv, AccountInv, OnTheWay, Typed, TypeOK
  <1>w. UNCHANGED queueVars => Waiting' = Waiting /\ InOrder(queue)'
    BY <1>t, WaitingStep DEF Stream, queueVars
  <1>1. ASSUME UNCHANGED <<fresh, queueVars, toDaemon, running, ran, result>>,
               UNCHANGED toProxy \/ DropDaemonPart,
               stage' \in {"reconnect", "exited"} \/ stage \notin {"reconnect", "exited"}
        PROVE  Stream' /\ Once'
    <2>1. /\ Answered(toProxy'[fresh]) \subseteq Answered(toProxy[fresh])
          /\ Distinct(toProxy[fresh]) => Distinct(toProxy'[fresh])
      BY <1>t, <1>1, Losing
    <2> QED BY <1>t, <1>w, <1>1, <2>1, Elsewhere
  <1>2. CASE Client \/ Partial \/ UNCHANGED vars
    <2>1. /\ UNCHANGED <<stage, fresh, queueVars, toDaemon, running, ran, result>>
          /\ UNCHANGED toProxy \/ DropDaemonPart
      BY <1>2 DEF Client, SendRequest, AnswerOwed, Silence, Partial, ReadPartOfClient, ReadPartOfDaemon,
                  OrphanTick, vars, daemonVars, clientVars, proxyVars
    <2> QED BY <1>1, <2>1
  <1>3. CASE ConsumePong \/ DropAnswer \/ IdleProbe
    <2>1. /\ UNCHANGED <<stage, fresh, queueVars, toDaemon, running, ran, result>>
          /\ DropDaemonPart
      BY <1>3 DEF ConsumePong, DropAnswer, IdleProbe, TakeLine
    <2> QED BY <1>1, <2>1
  <1>4. CASE Handshake \/ HandshakeFails \/ PingTimeout \/ ClientGone \/ Replay
    <2>1. /\ UNCHANGED <<fresh, queueVars, toDaemon, running, ran, result, toProxy>>
          /\ stage' = "exited" \/ stage \notin {"reconnect", "exited"}
      BY <1>4 DEF Handshake, HandshakeFails, PingTimeout, ClientGone, Exit, Replay, daemonVars, clientVars
    <2> QED BY <1>1, <2>1
  <1>5. ASSUME ConnectFails \/ ReplayFails \/ FlushFails
        PROVE  FALSE
    BY <1>t, <1>5 DEF ConnectFails, ReplayFails, FlushFails, OneConnection
  <1>6. CASE Connect
    <2>1. /\ UNCHANGED <<queueVars, toDaemon, running, ran, result, toProxy>>
          /\ stage = "reconnect" /\ fresh < MaxGen /\ fresh' = fresh + 1
      BY <1>6 DEF Connect, clientVars
    <2>2. fresh' \in Gens /\ fresh' > fresh /\ fresh' \notin up
      BY <1>t, <2>1, Constants DEF Gens, OneConnection
    <2>3. toDaemon'[fresh'] = << >> /\ running'[fresh'] = {} /\ toProxy'[fresh'] = << >>
      BY <1>t, <2>1, <2>2 DEF OneConnection
    <2>4. Begun' = Begun /\ Fresh' = Fresh
      BY <2>1 DEF Begun, Fresh
    <2>5. Stream'
      BY <1>t, <1>w, <2>1, <2>3, <2>4, Nothing DEF Stream, Ordered
    <2>6. Once'
      BY <1>t, <2>3, <2>4, Nothing DEF Once
    <2> QED BY <2>5, <2>6
  <1>7. CASE FlushLine
    <2> DEFINE l == queue[flushed + 1]
    <2>1. /\ UNCHANGED <<stage, fresh, queue, running, ran, result, toProxy>> /\ stage = "flush"
          /\ toDaemon' = [toDaemon EXCEPT ![fresh] = Append(toDaemon[fresh], l)]
          /\ flushed' = flushed + 1 /\ flushed < Len(queue)
      BY <1>7 DEF FlushLine, clientVars
    <2>2. /\ l \in Lines /\ Waiting = Waiting' \cup (IF l.kind = "request" THEN {l.id} ELSE {})
          /\ l.kind = "request" => \A w \in Waiting' : l.id < w
      BY <1>t, <2>1, WaitingStep DEF Stream
    <2> HIDE DEF l
    <2>3. /\ Asked(Append(toDaemon[fresh], l)) = Asked(toDaemon[fresh])
                  \cup (IF l.kind = "request" THEN {l.id} ELSE {})
          /\ InOrder(Append(toDaemon[fresh], l))
      <3>1. toDaemon[fresh] \in Seq(Lines) /\ InOrder(toDaemon[fresh])
            /\ (l.kind = "request" => \A a \in Asked(toDaemon[fresh]) : a < l.id)
        BY <1>t, <2>2 DEF Stream
      <3> QED BY <2>2, <3>1, Adding
    <2>4. /\ toDaemon'[fresh'] = Append(toDaemon[fresh], l) /\ running'[fresh'] = running[fresh]
          /\ toProxy'[fresh'] = toProxy[fresh] /\ Begun' = Begun /\ Fresh' = Fresh
      BY <1>t, <2>1 DEF Begun, Fresh
    <2>5. Stream'
      BY <1>t, <2>1, <2>2, <2>3, <2>4 DEF Stream, Ordered
    <2>6. Once'
      BY <1>t, <2>1, <2>4 DEF Once
    <2> QED BY <2>5, <2>6
  <1>8. CASE FlushDone
    <2>1. /\ UNCHANGED <<fresh, toDaemon, running, ran, result>> /\ stage = "flush"
          /\ queue' = << >> /\ flushed' = 0 /\ stream \notin up /\ fresh \in up
          /\ toProxy' = [toProxy EXCEPT ![stream] = << >>]
      BY <1>t, <1>8 DEF FlushDone, ClearQueue, clientVars, Stages, OneConnection
    <2>2. toProxy'[fresh] = toProxy[fresh]
      BY <1>t, <2>1
    <2>3. Waiting' = {} /\ InOrder(queue)'
      BY <2>1, Nothing DEF Waiting
    <2> QED BY <1>t, <2>1, <2>2, <2>3, Elsewhere DEF Once
  <1>9. ASSUME NEW g \in Gens, Receive(g) \/ Respond(g) \/ Ask(g) \/ Die(g)
        PROVE  Stream' /\ Once'
    BY <1>t, <1>9, DaemonStream
  <1>10. CASE ForwardToClient \/ DaemonGone \/ WriteFails \/ ForwardToDaemon \/ ReadWhileReconnecting
    BY <1>t, <1>10, ProxyStream
  <1> QED BY <1>2, <1>3, <1>4, <1>5, <1>6, <1>7, <1>8, <1>9, <1>10 DEF Next, Daemon, Proxy

LEMMA SessionInit == Init => SessionInv
  <1> SUFFICES ASSUME Init PROVE SessionInv
    OBVIOUS
  <1>1. /\ stage = "handshake" /\ stream = 1 /\ fresh = 1 /\ up = {1} /\ queue = << >> /\ ran = << >>
        /\ flushed = 0 /\ toDaemon = [g \in Gens |-> << >>] /\ toProxy = [g \in Gens |-> << >>]
        /\ running = [g \in Gens |-> {}] /\ 1 \in Gens
    BY Constants DEF Init
  <1>2. OneConnection
    BY <1>1 DEF OneConnection
  <1>3. Begun = {} /\ Waiting = {} /\ Ordered
    BY <1>1 DEF Begun, Waiting, Ordered
  <1>4. toDaemon[fresh] = << >> /\ toProxy[fresh] = << >> /\ running[fresh] = {}
    BY <1>1
  <1>5. Stream
    BY <1>1, <1>3, <1>4, Nothing DEF Stream
  <1>6. Once
    BY <1>3, <1>4, Nothing DEF Once
  <1> QED BY <1>2, <1>5, <1>6, AccountInit DEF SessionInv

LEMMA SessionNext == SessionInv /\ [Next]_vars => SessionInv'
  <1> SUFFICES ASSUME SessionInv, [Next]_vars PROVE SessionInv'
    OBVIOUS
  <1>1. AccountInv'
    BY AccountNext DEF SessionInv
  <1>2. ASSUME "fail" \notin may' PROVE OneConnection' /\ Stream' /\ Once'
    <2>1. "fail" \notin may
      BY <1>2, SameScenario
    <2> QED BY <2>1, OneConnectionStep, StreamStep DEF SessionInv, AccountInv
  <1> QED BY <1>1, <1>2 DEF SessionInv

-----------------------------------------------------------------------------
(* The proxy implements RequestSession *)

LEMMA SessionBegins == Init => Session!Init
  <1> SUFFICES ASSUME Init PROVE Session!Init
    OBVIOUS
  <1>1. ran = << >> /\ result = [r \in Requests |-> "none"]
    BY DEF Init
  <1> QED BY <1>1 DEF Session!Init, Seen

\* What a daemon receives has no answer and comes after all that was received.
LEMMA SessionReceives ==
    ASSUME SessionInv, "fail" \notin may, NEW g \in Gens, Receive(g)
    PROVE  UNCHANGED <<ran, result>> \/ \E r \in Requests :
              /\ result[r] = "none" /\ (\A i \in 1..Len(ran) : ran[i] < r)
              /\ ran' = Append(ran, r) /\ UNCHANGED result
  <1> DEFINE h == Head(toDaemon[fresh])
  <1>1. /\ g = fresh /\ toDaemon[fresh] # << >> /\ UNCHANGED result
        /\ (h.kind = "request" /\ ran' = Append(ran, h.id)) \/ UNCHANGED ran
    BY DEF Receive, SessionInv, OneConnection, clientVars
  <1>2. /\ h \in Lines /\ (h.kind = "request" => h.id \in Asked(toDaemon[fresh]))
    BY <1>1, HeadTypes, Taking DEF SessionInv, AccountInv
  <1>3. h.kind = "request" => h.id \in Requests /\ result[h.id] = "none" /\ \A b \in Begun : b < h.id
    BY <1>2 DEF Lines, SessionInv, Stream, Fresh
  <1> HIDE DEF h
  <1>4. h.kind = "request" => \A i \in 1..Len(ran) : ran[i] < h.id
    BY <1>3 DEF Begun
  <1> QED BY <1>1, <1>3, <1>4

\* What the client receives was run and had no answer.
LEMMA SessionAnswers ==
    ASSUME SessionInv, "fail" \notin may, ForwardToClient
    PROVE  UNCHANGED <<ran, result>> \/ \E r \in Requests :
              /\ result[r] = "none" /\ (\E i \in 1..Len(ran) : ran[i] = r)
              /\ result' = [result EXCEPT ![r] = "done"] /\ UNCHANGED ran
  <1> DEFINE p == Head(toProxy[fresh])
  <1>1. /\ stream = fresh /\ stage = "bridge" /\ toProxy[fresh] # << >> /\ UNCHANGED ran
        /\ result' = IF p.kind = "response" THEN [result EXCEPT ![p.id] = Got(p.id, "done")] ELSE result
    BY DEF ForwardToClient, Deliver, SessionInv, OneConnection
  <1>2. p \in Lines /\ (p.kind = "response" => p.id \in Answered(toProxy[fresh]))
    BY <1>1, HeadTypes, Taking DEF SessionInv, AccountInv
  <1>3. p.kind = "response" => p.id \in Requests /\ result[p.id] = "none" /\ p.id \in Begun
    BY <1>1, <1>2 DEF Lines, SessionInv, Once, Fresh
  <1> HIDE DEF p
  <1>4. p.kind = "response" => \E i \in 1..Len(ran) : ran[i] = p.id
    BY <1>3 DEF Begun
  <1> QED BY <1>1, <1>3, <1>4 DEF Got

\* The errors go to requests that had no answer.
LEMMA SessionFails ==
    ASSUME SessionInv, [Next]_vars, DaemonGone \/ WriteFails
    PROVE  \E lost \in SUBSET Requests :
              /\ \A r \in lost : result[r] = "none"
              /\ result' = [r \in Requests |-> IF r \in lost THEN "failed" ELSE result[r]]
              /\ UNCHANGED ran
  <1>t. Typed /\ OnTheWay /\ client_pending \subseteq Fresh
    BY DEF SessionInv, AccountInv, OnTheWay
  <1>1. ASSUME NEW lost \in SUBSET Fresh, result' = Errors(lost), UNCHANGED ran
        PROVE  /\ lost \in SUBSET Requests
               /\ \A r \in lost : result[r] = "none"
               /\ result' = [r \in Requests |-> IF r \in lost THEN "failed" ELSE result[r]]
               /\ UNCHANGED ran
    BY <1>1 DEF Fresh, Errors, Got
  <1>2. CASE DaemonGone
    <2>1. result' = Errors(client_pending) /\ UNCHANGED ran
      BY <1>2 DEF DaemonGone, FailPending, daemonVars
    <2> QED BY <1>t, <1>1, <2>1
  <1>3. CASE WriteFails
    <2>1. TakeLine /\ UNCHANGED <<next, ran>> /\ result' = Errors(Pending(Head(stdin)))
      BY <1>3 DEF WriteFails, FailPending
    <2>2. Pending(Head(stdin)) \subseteq Fresh
      BY <1>t, <2>1, TakenIsFresh DEF Pending
    <2> QED BY <1>1, <2>1, <2>2
  <1> QED BY <1>2, <1>3

LEMMA SessionContinues == SessionInv /\ [Next]_vars
              => [Session!Next]_<<Seen(ran, << >>), Seen(result, [r \in Requests |-> "none"])>>
  <1> SUFFICES ASSUME SessionInv, [Next]_vars
               PROVE  \/ Session!Next
                      \/ UNCHANGED <<Seen(ran, << >>), Seen(result, [r \in Requests |-> "none"])>>
    OBVIOUS
  <1>m. UNCHANGED may
    BY SameScenario
  <1>1. CASE "fail" \in may
    BY <1>1, <1>m DEF Seen
  <1>2. CASE "fail" \notin may
    <2>1. /\ Seen(ran, << >>) = ran /\ Seen(result, [r \in Requests |-> "none"]) = result
          /\ Seen(ran, << >>)' = ran' /\ Seen(result, [r \in Requests |-> "none"])' = result'
      BY <1>2, <1>m DEF Seen
    <2>2. CASE \E g \in Gens : Receive(g)
      BY <1>2, <2>1, <2>2, SessionReceives DEF Session!Next, Session!Receive
    <2>3. CASE ForwardToClient
      BY <1>2, <2>1, <2>3, SessionAnswers DEF Session!Next, Session!Complete
    <2>4. CASE DaemonGone \/ WriteFails
      BY <2>1, <2>4, SessionFails DEF Session!Next, Session!Fail
    <2>5. CASE UNCHANGED <<ran, result>>
      BY <2>1, <2>5
    <2> QED BY <2>2, <2>3, <2>4, <2>5, Frames
  <1> QED BY <1>1, <1>2

\* The proxy implements RequestSession: while no attempt to reconnect fails half-way, a request
\* reaches at most one daemon, in the order of sending and before it is answered, and gets one
\* answer, however many daemons go (proxy.rs, bridge_phase(), reconnect_phase(),
\* flush_queued_client_messages()).
THEOREM ProxyKeepsSession == Spec => KeepsSession
  <1>1. Spec => []SessionInv
    BY SessionInit, SessionNext, PTL DEF Spec
  <1> QED BY <1>1, SessionBegins, SessionContinues, PTL DEF Spec, KeepsSession, Session!Spec
=============================================================================
