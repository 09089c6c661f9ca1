--------------------------- MODULE DaemonFiles_proofs ---------------------------
(***************************************************************************)
(* What the daemons of a user owe each other, their clients and the files, *)
(* for any number of daemons, proxies, binds, commands and crashes.        *)
(***************************************************************************)
EXTENDS DaemonFiles, TLAPS

Kinds == {"sock", "pid", "info"}
Operation == [kind : Kinds, place : Places, value : Daemons \cup {None}]

\* A daemon that promotes itself was staged against another; one that binds again may.
Targeted ==
    \A d \in Daemons :
        /\ pc[d] \in {"promote", "rename", "signal"} => old[d] # None
        /\ pc[d] = "rebind" => gen[d] < MaxBinds
Free == DaemonPcs \ {"promote", "rename", "signal", "rebind"}

DaemonsFit ==
    /\ DaemonTypeOK /\ Targeted
    /\ script \in [Processes -> Seq(Operation)]

\* Before its accept loop a daemon has no session, and it leaves with one only when it was
\* told to terminate.
Outside == {"none", "start", "unlink", "bind", "init", "promote", "rename", "signal", "dead"}
Departure(d) ==
    /\ pc[d] \in Outside => sessions[d] = {}
    /\ pc[d] = "stopping" => sessions[d] = {} \/ drained[d] \/ "term" \in signal[d]
    /\ pc[d] = "leave" => sessions[d] = {} \/ "term" \in signal[d]
Departures == \A d \in Daemons : Departure(d)

SparedInv == DaemonsFit /\ Departures

-----------------------------------------------------------------------------
(* Processes that are not overtaken between two file operations: no        *)
(* "delay", and no promotion that is undone: no "io".                      *)

Ops(s) == {s[i] : i \in 1..Len(s)}
Todo(x) == Ops(script[x])

Alone == \A x, y \in Processes : Busy(x) /\ Busy(y) => x = y

Before == {"start", "unlink", "bind", "init"}
Promoting == {"promote", "rename", "signal"}

\* A staged daemon, and no other, becomes public before it serves; no signal waits for a
\* daemon without a handler; a daemon drains only when it leaves.
Career(d) ==
    /\ home[d] = Staged => pc[d] \in Before \cup Promoting \cup {"leave", "dead"}
    /\ home[d] = Public => pc[d] \notin {"promote", "rename"}
    /\ pc[d] \in Before => (home[d] = Public <=> old[d] = None)
    /\ pc[d] \in Before \cup Promoting \cup {"none"} => signal[d] = {}
    /\ drained[d] => pc[d] \in {"stopping", "leave", "dead"}

\* What a process is about to do to the files: only a public daemon writes its own pid.
Intention(x) ==
    /\ x \in Daemons /\ script[x] # <<>> => pc[x] \in {"init", "rename", "signal", "serve", "leave"}
    /\ x = Operator /\ pc[x] = "stopping" => script[x] = <<>>
    /\ \A o \in Todo(x) : o.kind = "pid" /\ o.place = Public /\ o.value # None =>
          x \in Daemons /\ o.value = x /\ home[x] = Public /\ pc[x] \in {"init", "signal", "serve"}

\* A daemon of the public pid file has written it and removes it before it ends.
Named(d) ==
    pid[Public] = d =>
        /\ home[d] = Public /\ ~drained[d]
        /\ pc[d] \in {"init", "signal", "serve", "rebind", "stopping", "leave", "dead"}
        /\ pc[d] = "leave" => Rm("pid", Public) \in Todo(d)
        /\ pc[d] = "dead" => "kill" \in signal[d]

\* A daemon that was told to drain is named no more, and finds the public socket in place.
Relieved(d) ==
    "usr2" \in signal[d] /\ pc[d] \in {"serve", "rebind"} =>
        /\ pc[d] = "serve" /\ script[d] = <<>>
        /\ pid[Public] \notin {d, None} /\ sock[Public] # None

Promoted(d) ==
    pc[d] = "signal" /\ home[d] = Public =>
        /\ sock[Public] # None
        /\ pid[Public] = d \/ Put("pid", Public, d) \in Todo(d)
        /\ \A o \in Todo(d) : o.kind # "sock" /\ (o.kind = "pid" /\ o.place = Public => o.value = d)

\* The staged socket is that of the one daemon that is staged.
Staging(d) == home[d] = Staged /\ pc[d] \in {"init"} \cup Promoting
OwnSocket(d) == Staging(d) => sock[Staged] = <<d, 1>> /\ gen[d] = 1
Clearing(x) ==
    \/ \E o \in Todo(x) : o.kind = "sock" /\ o.place = Staged
    \/ x \in Daemons /\ pc[x] \in {"unlink", "bind"} /\ home[x] = Staged

Settled(x) ==
    /\ Intention(x)
    /\ Clearing(x) => \A d \in Daemons : ~Staging(d)
    /\ x \in Daemons => Career(x) /\ Named(x) /\ Relieved(x) /\ Promoted(x) /\ OwnSocket(x)

CleanInv == DaemonsFit /\ Alone /\ \A x \in Processes : Settled(x)

-----------------------------------------------------------------------------
(* Who moves.                                                              *)

DaemonMove(d) ==
    DaemonStep(d) \/ InitializeFails(d) \/ PromoteFails(d) \/ IdleExit(d) \/ \E c \in Clients : Accept(d, c)
ProxyMove(p) == ProxyStep(p) \/ Disconnect(p)
OperatorMove == OperatorStep \/ BeginStop \/ BeginUpgrade \/ SweepDrains

LEMMA EveryStep ==
    ASSUME DaemonNext
    PROVE  \E x \in Processes :
              /\ Turn(x)
              /\ \/ Execute(x) \/ Crash(x)
                 \/ x \in Daemons /\ DaemonMove(x)
                 \/ x \in Proxies /\ ProxyMove(x)
                 \/ x = Operator /\ OperatorMove
  BY DEF DaemonNext, DaemonMove, ProxyMove, OperatorMove, Processes, Clients

\* Daemons, clients and None are told apart, and so are the places.
LEMMA Apart ==
    /\ Daemons \subseteq Nat /\ Daemons \cap Clients = {} /\ None \notin Processes /\ None \notin Daemons
    /\ Operator \in Clients /\ Proxies \subseteq Clients /\ Operator \notin Proxies
    /\ Processes = Daemons \cup Clients
  BY DaemonAssumption DEF Daemons, Clients, Processes

LEMMA PlacesApart ==
    /\ Public \in Places /\ Staged \in Places /\ Public # Staged
    /\ \A d \in Daemons : Drain(d) \in Places /\ Drain(d) # Public /\ Drain(d) # Staged
    /\ \A d, e \in Daemons : Drain(d) = Drain(e) => d = e
  BY DEF Public, Staged, Drain, Places

LEMMA OperationsFit ==
    /\ \A kind \in Kinds, place \in Places : Rm(kind, place) \in Operation
    /\ \A kind \in Kinds, place \in Places, d \in Daemons : Put(kind, place, d) \in Operation
  BY DEF Rm, Put, Operation

LEMMA PlansFit ==
    ASSUME NEW d \in Daemons
    PROVE  /\ WriteIdentity(d) \in Seq(Operation) /\ CleanupFiles \in Seq(Operation)
           /\ CleanupDrain(d) \in Seq(Operation) /\ CleanupOwned(d) \in Seq(Operation)
           /\ <<Put("pid", Drain(d), d)>> \in Seq(Operation) /\ <<Put("pid", Public, d)>> \in Seq(Operation)
           /\ <<Put("pid", Public, d), Put("info", Public, d), Rm("pid", Staged)>> \in Seq(Operation)
  BY OperationsFit, PlacesApart DEF WriteIdentity, CleanupFiles, CleanupDrain, CleanupOwned, Kinds

LEMMA InitFits == DaemonInit => DaemonsFit
  <1> SUFFICES ASSUME DaemonInit PROVE DaemonsFit
    OBVIOUS
  <1>1. script \in [Processes -> Seq(Operation)] /\ DOMAIN script = Processes
    BY DEF DaemonInit
  <1>2. /\ pc \in [Processes -> DaemonPcs \cup ClientPcs]
        /\ (\A d \in Daemons : pc[d] \in DaemonPcs) /\ \A c \in Clients : pc[c] \in ClientPcs
    BY Apart DEF DaemonInit, DaemonPcs, ClientPcs
  <1>3. /\ gen \in [Daemons -> 0..MaxBinds] /\ commands \in 0..MaxCommands /\ crashes \in 0..MaxCrashes
    BY DaemonAssumption DEF DaemonInit
  <1>4. Targeted
    BY Apart DEF DaemonInit, Targeted
  <1>5. /\ sock \in [Places -> (Daemons \X (1..MaxBinds)) \cup {None}] /\ pid \in [Places -> Daemons \cup {None}]
        /\ info \in Daemons \cup {None} /\ lock \in Processes \cup {None}
        /\ home \in [Daemons -> {Public, Staged}] /\ old \in [Daemons -> Daemons \cup {None}]
        /\ target \in [daemon : Daemons \cup {None}, by : Daemons \cup {None}]
    BY DEF DaemonInit
  <1>6. /\ signal \in [Daemons -> SUBSET {"term", "usr2", "kill"}]
        /\ drained \in [Daemons -> BOOLEAN] /\ noted \in [Daemons -> BOOLEAN]
        /\ sessions \in [Daemons -> SUBSET Clients] /\ backlog \in [Daemons -> SUBSET Clients]
    BY DEF DaemonInit
  <1> QED
    BY <1>1, <1>2, <1>3, <1>4, <1>5, <1>6 DEF DaemonsFit, DaemonTypeOK

LEMMA ExecuteFits == ASSUME DaemonsFit, NEW x \in Processes, Execute(x) PROVE DaemonsFit'
  <1> DEFINE o == Head(script[x])
  <1>1. script[x] \in Seq(Operation) /\ script[x] # <<>>
    BY DEF DaemonsFit, Execute, Ready
  <1>2. o \in Operation /\ Tail(script[x]) \in Seq(Operation)
    BY <1>1
  <1>3. /\ sock' = IF o.kind = "sock" THEN [sock EXCEPT ![o.place] = None] ELSE sock
        /\ pid' = IF o.kind = "pid" THEN [pid EXCEPT ![o.place] = o.value] ELSE pid
        /\ info' = IF o.kind = "info" THEN o.value ELSE info
        /\ script' = [script EXCEPT ![x] = Tail(@)]
        /\ UNCHANGED <<lock, pc, daemonVars, connVars, opVars, crashes>>
    BY DEF Execute
  <1> HIDE DEF o
  <1>4. /\ sock' \in [Places -> (Daemons \X (1..MaxBinds)) \cup {None}]
        /\ pid' \in [Places -> Daemons \cup {None}] /\ info' \in Daemons \cup {None}
    BY <1>2, <1>3 DEF DaemonsFit, DaemonTypeOK, Operation
  <1>5. script' \in [Processes -> Seq(Operation)] /\ DOMAIN script' = Processes
    BY <1>2, <1>3 DEF DaemonsFit
  <1> QED
    BY <1>3, <1>4, <1>5 DEF DaemonsFit, DaemonTypeOK, Targeted, daemonVars, connVars, opVars

LEMMA Bounds == MaxBinds \in Nat /\ 1 \in 1..MaxBinds /\ 1 \in 0..MaxBinds /\ 0 \in 0..MaxBinds
  BY DaemonAssumption

LEMMA ListenersFit == \A l \in Daemons \X (1..MaxBinds) : l # None
  BY DaemonAssumption

\* The end of a process.
LEMMA EndsFits ==
    ASSUME DaemonsFit, NEW x \in Processes, Ends(x)
    PROVE  /\ lock' \in Processes \cup {None}
           /\ script' \in [Processes -> Seq(Operation)] /\ DOMAIN script' = Processes
           /\ sessions' \in [Daemons -> SUBSET Clients] /\ backlog' \in [Daemons -> SUBSET Clients]
           /\ \A d \in Daemons : sessions'[d] \subseteq sessions[d]
           /\ x \in Daemons => sessions'[x] = {}
  <1>1. lock' \in Processes \cup {None}
    BY DEF DaemonsFit, DaemonTypeOK, Ends, Unlock
  <1>2. script' \in [Processes -> Seq(Operation)] /\ DOMAIN script' = Processes
    BY DEF DaemonsFit, Ends, Plan
  <1>3. /\ sessions \in [Daemons -> SUBSET Clients] /\ backlog \in [Daemons -> SUBSET Clients]
    BY DEF DaemonsFit, DaemonTypeOK
  <1>4. CASE x \in Daemons
    BY <1>1, <1>2, <1>3, <1>4 DEF Ends
  <1>5. CASE x \notin Daemons
    BY <1>1, <1>2, <1>3, <1>5 DEF Ends
  <1> QED
    BY <1>4, <1>5

LEMMA GoesTo ==
    ASSUME DaemonsFit, NEW x \in Processes, NEW label, Goto(x, label),
           label \in IF x \in Daemons THEN DaemonPcs ELSE ClientPcs,
           UNCHANGED old, \A d \in Daemons \ {x} : gen'[d] = gen[d],
           x \in Daemons /\ label \in {"promote", "rename", "signal"} => old[x] # None,
           x \in Daemons /\ label = "rebind" => gen'[x] < MaxBinds
    PROVE  /\ Targeted'
           /\ pc' \in [Processes -> DaemonPcs \cup ClientPcs]
           /\ (\A d \in Daemons : pc'[d] \in DaemonPcs) /\ \A c \in Clients : pc'[c] \in ClientPcs
  BY Apart DEF DaemonsFit, DaemonTypeOK, Targeted, Goto

LEMMA CrashFits == ASSUME DaemonsFit, NEW x \in Processes, Crash(x) PROVE DaemonsFit'
  <1>1. crashes' \in 0..MaxCrashes
    BY DaemonAssumption DEF DaemonsFit, DaemonTypeOK, Crash
  <1>2. PICK label \in {"dead", "gone"} :
          Goto(x, label) /\ label \in IF x \in Daemons THEN DaemonPcs ELSE ClientPcs
    BY Apart DEF Crash, DaemonPcs, ClientPcs
  <1>3. signal' \in [Daemons -> SUBSET {"term", "usr2", "kill"}]
    <2>1. signal \in [Daemons -> SUBSET {"term", "usr2", "kill"}]
      BY DEF DaemonsFit, DaemonTypeOK
    <2>2. signal' = signal \/ (x \in Daemons /\ signal' = [signal EXCEPT ![x] = @ \cup {"kill"}])
      BY DEF Crash
    <2> QED BY <2>1, <2>2
  <1> QED
    BY <1>1, <1>2, <1>3, GoesTo, EndsFits DEF Crash, DaemonsFit, DaemonTypeOK, fileVars, opVars

LEMMA StartingFits ==
    ASSUME DaemonsFit, NEW d \in Daemons,
           CheckSocket(d) \/ Unlink(d) \/ Bind(d) \/ Initialized(d) \/ InitializeFails(d)
    PROVE  DaemonsFit'
  <1>1. CASE CheckSocket(d)
    <2>1. PICK label \in Free : Goto(d, label)
      BY <1>1 DEF CheckSocket, Exit, DaemonPcs, Free
    <2> QED BY <1>1, <2>1, Apart, GoesTo, EndsFits
            DEF CheckSocket, Exit, Free, DaemonsFit, DaemonTypeOK, fileVars, daemonVars, opVars, connVars
  <1>2. CASE Unlink(d)
    <2>1. PICK label \in Free : Goto(d, label)
      BY <1>2 DEF Unlink, Exit, DaemonPcs, Free
    <2>2. sock' \in [Places -> (Daemons \X (1..MaxBinds)) \cup {None}] /\ UNCHANGED <<pid, info>>
      BY <1>2 DEF Unlink, DaemonsFit, DaemonTypeOK, fileVars
    <2> QED BY <1>2, <2>1, <2>2, Apart, GoesTo, EndsFits
            DEF Unlink, Exit, Free, DaemonsFit, DaemonTypeOK, daemonVars, opVars, connVars
  <1>3. CASE Bind(d)
    <2>1. PICK label \in Free : Goto(d, label)
      BY <1>3 DEF Bind, Exit, DaemonPcs, Free
    <2>2. sock' \in [Places -> (Daemons \X (1..MaxBinds)) \cup {None}] /\ UNCHANGED <<pid, info>>
      <3>1. <<d, 1>> \in Daemons \X (1..MaxBinds) /\ sock \in [Places -> (Daemons \X (1..MaxBinds)) \cup {None}]
        BY Bounds DEF DaemonsFit, DaemonTypeOK
      <3>2. sock' \in {sock, [sock EXCEPT ![home[d]] = <<d, 1>>]} /\ UNCHANGED <<pid, info>>
        BY <1>3 DEF Bind, fileVars
      <3> QED BY <3>1, <3>2
    <2>3. gen' \in [Daemons -> 0..MaxBinds]
      BY <1>3, Bounds DEF Bind, DaemonsFit, DaemonTypeOK
    <2>4. /\ script' \in [Processes -> Seq(Operation)] /\ DOMAIN script' = Processes
          /\ lock' \in Processes \cup {None}
          /\ sessions' \in [Daemons -> SUBSET Clients] /\ backlog' \in [Daemons -> SUBSET Clients]
      <3>1. CASE sock[home[d]] # None
        BY <1>3, <3>1, Apart, EndsFits DEF Bind, Exit
      <3>2. CASE sock[home[d]] = None
        <4>1. script \in [Processes -> Seq(Operation)] /\ d \in Processes
          BY Apart DEF DaemonsFit
        <4>2. script' = [script EXCEPT ![d] = WriteIdentity(d)] /\ UNCHANGED <<lock, connVars>>
          BY <1>3, <3>2 DEF Bind, Plan
        <4>3. script' \in [Processes -> Seq(Operation)] /\ DOMAIN script' = Processes
          BY <4>1, <4>2, PlansFit
        <4> QED BY <4>2, <4>3 DEF DaemonsFit, DaemonTypeOK, connVars
      <3> QED BY <3>1, <3>2
    <2>5. \A e \in Daemons \ {d} : gen'[e] = gen[e]
      BY <1>3 DEF Bind, DaemonsFit, DaemonTypeOK
    <2> QED BY <1>3, <2>1, <2>2, <2>3, <2>4, <2>5, Apart, GoesTo DEF Bind, Free, DaemonsFit, DaemonTypeOK, opVars
  <1>4. CASE Initialized(d)
    <2>1. PICK label \in DaemonPcs : Goto(d, label) /\ (label = "promote" \/ label = "serve") /\ (label = "promote" => old[d] # None)
      BY <1>4 DEF Initialized, DaemonPcs
    <2> QED BY <1>4, <2>1, Apart, GoesTo
            DEF Initialized, DaemonsFit, DaemonTypeOK, fileVars, daemonVars, opVars, connVars
  <1>5. CASE InitializeFails(d)
    <2>1. Goto(d, "leave") /\ "leave" \in DaemonPcs
      BY <1>5 DEF InitializeFails, DaemonPcs
    <2>2. script' \in [Processes -> Seq(Operation)] /\ DOMAIN script' = Processes
      BY <1>5, PlansFit DEF InitializeFails, Plan, DaemonsFit
    <2>3. crashes' \in 0..MaxCrashes
      BY <1>5, DaemonAssumption DEF InitializeFails, DaemonsFit, DaemonTypeOK
    <2> QED BY <1>5, <2>1, <2>2, <2>3, Apart, GoesTo
            DEF InitializeFails, DaemonsFit, DaemonTypeOK, fileVars, daemonVars, opVars, connVars
  <1> QED
    BY <1>1, <1>2, <1>3, <1>4, <1>5

LEMMA PromotingFits ==
    ASSUME DaemonsFit, NEW d \in Daemons,
           BeginPromotion(d) \/ RetireSocket(d) \/ PromoteSocket(d) \/ PromoteFails(d)
    PROVE  DaemonsFit'
  <1>0. /\ sock \in [Places -> (Daemons \X (1..MaxBinds)) \cup {None}]
        /\ script \in [Processes -> Seq(Operation)]
    BY DEF DaemonsFit, DaemonTypeOK
  <1>1. CASE BeginPromotion(d)
    <2>1. old[d] # None /\ old[d] \in Daemons \cup {None}
      BY <1>1 DEF BeginPromotion, DaemonsFit, DaemonTypeOK, Targeted
    <2>2. PICK label \in {"rename", "dead"} : Goto(d, label) /\ label \in DaemonPcs
      BY <1>1 DEF BeginPromotion, Exit, DaemonPcs
    <2>3. noted' \in [Daemons -> BOOLEAN]
      BY <1>1 DEF BeginPromotion, DaemonsFit, DaemonTypeOK
    <2>4. /\ script' \in [Processes -> Seq(Operation)] /\ DOMAIN script' = Processes
          /\ lock' \in Processes \cup {None}
          /\ sessions' \in [Daemons -> SUBSET Clients] /\ backlog' \in [Daemons -> SUBSET Clients]
      <3>1. CASE Exit(d)
        BY <3>1, Apart, EndsFits DEF Exit
      <3>2. CASE lock' = d /\ Plan(d, CleanupDrain(old[d])) /\ UNCHANGED connVars
        BY <1>0, <2>1, <3>2, Apart, PlansFit DEF Plan, DaemonsFit, DaemonTypeOK, connVars
      <3> QED BY <1>1, <3>1, <3>2 DEF BeginPromotion
    <2> QED BY <1>1, <2>1, <2>2, <2>3, <2>4, Apart, GoesTo
            DEF BeginPromotion, DaemonsFit, DaemonTypeOK, fileVars, opVars
  <1>2. CASE RetireSocket(d)
    <2>1. old[d] \in Daemons
      BY <1>2 DEF RetireSocket, DaemonsFit, DaemonTypeOK, Targeted
    <2>2. PICK label \in {"signal", "dead"} : Goto(d, label) /\ label \in DaemonPcs
      BY <1>2 DEF RetireSocket, Exit, DaemonPcs
    <2>3. sock' \in [Places -> (Daemons \X (1..MaxBinds)) \cup {None}] /\ UNCHANGED <<pid, info>>
      BY <1>0, <1>2, PlacesApart DEF RetireSocket, fileVars
    <2>4. /\ script' \in [Processes -> Seq(Operation)] /\ DOMAIN script' = Processes
          /\ lock' \in Processes \cup {None}
          /\ sessions' \in [Daemons -> SUBSET Clients] /\ backlog' \in [Daemons -> SUBSET Clients]
      <3>1. CASE Exit(d)
        BY <3>1, Apart, EndsFits DEF Exit
      <3>2. CASE Plan(d, <<Put("pid", Drain(old[d]), old[d])>>) /\ UNCHANGED <<lock, connVars>>
        BY <1>0, <2>1, <3>2, Apart, PlansFit DEF Plan, DaemonsFit, DaemonTypeOK, connVars
      <3> QED BY <1>2, <3>1, <3>2 DEF RetireSocket
    <2> QED BY <1>2, <2>1, <2>2, <2>3, <2>4, Apart, GoesTo
            DEF RetireSocket, DaemonsFit, DaemonTypeOK, daemonVars, opVars
  <1>3. CASE PromoteSocket(d)
    <2>1. sock' \in [Places -> (Daemons \X (1..MaxBinds)) \cup {None}]
      BY <1>0, <1>3, PlacesApart DEF PromoteSocket
    <2>2. script' \in [Processes -> Seq(Operation)] /\ DOMAIN script' = Processes
      BY <1>0, <1>3, Apart, PlansFit DEF PromoteSocket, Plan
    <2>3. home' \in [Daemons -> {Public, Staged}]
      BY <1>3 DEF PromoteSocket, DaemonsFit, DaemonTypeOK
    <2> QED BY <1>3, <2>1, <2>2, <2>3
            DEF PromoteSocket, DaemonsFit, DaemonTypeOK, Targeted, connVars, opVars
  <1>4. CASE PromoteFails(d)
    <2>1. old[d] \in Daemons
      BY <1>4 DEF PromoteFails, DaemonsFit, DaemonTypeOK, Targeted
    <2>2. sock' \in [Places -> (Daemons \X (1..MaxBinds)) \cup {None}]
      <3>1. sock[Drain(old[d])] \in (Daemons \X (1..MaxBinds)) \cup {None}
        BY <1>0, <2>1, PlacesApart
      <3> QED BY <1>0, <1>4, <3>1 DEF PromoteFails
    <2>3. script' \in [Processes -> Seq(Operation)] /\ DOMAIN script' = Processes
      BY <1>0, <1>4, <2>1, Apart, PlansFit DEF PromoteFails, Plan
    <2>4. Goto(d, "leave") /\ "leave" \in DaemonPcs
      BY <1>4 DEF PromoteFails, DaemonPcs
    <2>5. crashes' \in 0..MaxCrashes
      BY <1>4, DaemonAssumption DEF PromoteFails, DaemonsFit, DaemonTypeOK
    <2> QED BY <1>4, <2>2, <2>3, <2>4, <2>5, Apart, GoesTo
            DEF PromoteFails, DaemonsFit, DaemonTypeOK, daemonVars, connVars, opVars
  <1> QED
    BY <1>1, <1>2, <1>3, <1>4

\* A signal reaches a daemon, whose handler takes it or which ends.
Signalled(o, kind, sent) ==
    LET killed == sent /\ ~Handles(o) IN
    /\ signal' = IF sent THEN [signal EXCEPT ![o] = @ \cup {IF killed THEN "kill" ELSE kind}] ELSE signal
    /\ script' = [script EXCEPT ![o] = IF killed THEN <<>> ELSE @]
    /\ sessions' = [sessions EXCEPT ![o] = IF killed THEN {} ELSE @]
    /\ backlog' = [backlog EXCEPT ![o] = IF killed THEN {} ELSE @]

LEMMA SignalFits ==
    ASSUME DaemonsFit, NEW o \in Daemons \cup {None}, NEW kind \in {"term", "usr2"}, NEW sent \in BOOLEAN,
           Signalled(o, kind, sent)
    PROVE  /\ signal' \in [Daemons -> SUBSET {"term", "usr2", "kill"}]
           /\ script' \in [Processes -> Seq(Operation)] /\ DOMAIN script' = Processes
           /\ sessions' \in [Daemons -> SUBSET Clients] /\ backlog' \in [Daemons -> SUBSET Clients]
  <1>1. /\ signal \in [Daemons -> SUBSET {"term", "usr2", "kill"}]
        /\ script \in [Processes -> Seq(Operation)] /\ DOMAIN script = Processes
        /\ sessions \in [Daemons -> SUBSET Clients] /\ backlog \in [Daemons -> SUBSET Clients]
    BY DEF DaemonsFit, DaemonTypeOK
  <1>2. signal' \in [Daemons -> SUBSET {"term", "usr2", "kill"}]
    <2>1. PICK k \in {"term", "usr2", "kill"} : signal' = signal \/ signal' = [signal EXCEPT ![o] = @ \cup {k}]
      BY DEF Signalled
    <2>2. CASE o \in Daemons
      <3>1. signal[o] \cup {k} \in SUBSET {"term", "usr2", "kill"}
        BY <1>1, <2>2
      <3> QED BY <1>1, <2>1, <3>1
    <2>3. CASE o \notin Daemons
      BY <1>1, <2>1, <2>3
    <2> QED BY <2>2, <2>3
  <1>3. script' \in [Processes -> Seq(Operation)] /\ DOMAIN script' = Processes
    <2>1. script' = script \/ script' = [script EXCEPT ![o] = <<>>]
      <3>1. (sent /\ ~Handles(o)) \/ ~(sent /\ ~Handles(o))
        OBVIOUS
      <3>2. [script EXCEPT ![o] = script[o]] = script
        BY <1>1
      <3> QED BY <3>1, <3>2 DEF Signalled
    <2>2. <<>> \in Seq(Operation)
      OBVIOUS
    <2> QED BY <1>1, <2>1, <2>2
  <1>4. sessions' \in [Daemons -> SUBSET Clients] /\ backlog' \in [Daemons -> SUBSET Clients]
    BY <1>1 DEF Signalled
  <1> QED
    BY <1>2, <1>3, <1>4

LEMMA SignalOldFits == ASSUME DaemonsFit, NEW d \in Daemons, SignalOld(d) PROVE DaemonsFit'
  <1> DEFINE o == old[d]
             sent == noted[d] /\ Alive(o)
  <1>1. o \in Daemons \cup {None} /\ sent \in BOOLEAN
    BY DEF DaemonsFit, DaemonTypeOK, Alive
  <1>2. /\ Signalled(o, "usr2", sent)
        /\ pc' = [pc EXCEPT ![d] = "serve", ![o] = IF sent /\ ~Handles(o) THEN "dead" ELSE @]
        /\ lock' = None
        /\ UNCHANGED <<fileVars, gen, home, old, drained, noted, opVars, crashes>>
    BY DEF SignalOld, Signalled
  <1> HIDE DEF o, sent
  <1>3. /\ pc \in [Processes -> DaemonPcs \cup ClientPcs]
        /\ (\A e \in Daemons : pc[e] \in DaemonPcs) /\ \A c \in Clients : pc[c] \in ClientPcs
        /\ "serve" \in DaemonPcs /\ "dead" \in DaemonPcs
    BY DEF DaemonsFit, DaemonTypeOK, DaemonPcs
  <1>4. \A y \in Processes : \/ pc'[y] = pc[y]
                             \/ y \in Daemons /\ pc'[y] \in {"serve", "dead"}
    BY <1>1, <1>2, <1>3, Apart
  <1>5. DOMAIN pc' = Processes
    BY <1>2, <1>3
  <1>6. /\ pc' \in [Processes -> DaemonPcs \cup ClientPcs]
        /\ (\A e \in Daemons : pc'[e] \in DaemonPcs) /\ \A c \in Clients : pc'[c] \in ClientPcs
    <2>1. pc' = [y \in Processes |-> pc'[y]]
      BY <1>2, <1>3
    <2> QED BY <1>3, <1>4, <2>1, Apart
  <1>7. Targeted'
    BY <1>2, <1>4, Apart DEF DaemonsFit, Targeted
  <1>8. /\ signal' \in [Daemons -> SUBSET {"term", "usr2", "kill"}]
        /\ script' \in [Processes -> Seq(Operation)] /\ DOMAIN script' = Processes
        /\ sessions' \in [Daemons -> SUBSET Clients] /\ backlog' \in [Daemons -> SUBSET Clients]
    BY <1>1, <1>2, SignalFits
  <1> QED
    BY <1>2, <1>6, <1>7, <1>8 DEF DaemonsFit, DaemonTypeOK, fileVars, opVars

LEMMA LoopFits ==
    ASSUME DaemonsFit, NEW d \in Daemons,
           \/ RepairIdentity(d) \/ FindSocketMissing(d) \/ Rebind(d) \/ HandleTerm(d) \/ HandleUsr2(d)
           \/ IdleExit(d) \/ FinishStop(d) \/ Leave(d) \/ \E c \in Clients : Accept(d, c)
    PROVE  DaemonsFit'
  <1>0. /\ sock \in [Places -> (Daemons \X (1..MaxBinds)) \cup {None}]
        /\ script \in [Processes -> Seq(Operation)]
    BY DEF DaemonsFit, DaemonTypeOK
  <1>1. CASE RepairIdentity(d)
    <2>1. script' \in [Processes -> Seq(Operation)] /\ DOMAIN script' = Processes
      BY <1>0, <1>1, Apart, PlansFit DEF RepairIdentity, Plan
    <2> QED BY <1>1, <2>1 DEF RepairIdentity, DaemonsFit, DaemonTypeOK, Targeted, fileVars, daemonVars, connVars, opVars
  <1>2. CASE FindSocketMissing(d)
    <2>1. Goto(d, "rebind") /\ "rebind" \in DaemonPcs /\ gen[d] < MaxBinds
      BY <1>2 DEF FindSocketMissing, DaemonPcs
    <2> QED BY <1>2, <2>1, Apart, GoesTo
            DEF FindSocketMissing, DaemonsFit, DaemonTypeOK, fileVars, daemonVars, connVars, opVars
  <1>3. CASE Rebind(d)
    <2>1. Goto(d, "serve") /\ "serve" \in DaemonPcs
      BY <1>3 DEF Rebind, DaemonPcs
    <2>2. gen[d] + 1 \in 1..MaxBinds /\ gen[d] + 1 \in 0..MaxBinds
      BY <1>3, Bounds DEF Rebind, DaemonsFit, DaemonTypeOK, Targeted
    <2>3. gen \in [Daemons -> 0..MaxBinds] /\ backlog \in [Daemons -> SUBSET Clients] /\ DOMAIN script = Processes
      BY DEF DaemonsFit, DaemonTypeOK
    <2>4. CASE sock[Public] # None
      BY <1>3, <2>1, <2>4, Apart, GoesTo DEF Rebind, DaemonsFit, DaemonTypeOK, opVars
    <2>5. CASE sock[Public] = None
      <3>1. sock' \in [Places -> (Daemons \X (1..MaxBinds)) \cup {None}]
        <4>1. <<d, gen[d] + 1>> \in Daemons \X (1..MaxBinds)
          BY <2>2
        <4>2. sock' = [sock EXCEPT ![Public] = <<d, gen[d] + 1>>]
          BY <1>3, <2>5 DEF Rebind
        <4> QED BY <1>0, <4>1, <4>2
      <3>2. gen' \in [Daemons -> 0..MaxBinds] /\ \A e \in Daemons \ {d} : gen'[e] = gen[e]
        BY <1>3, <2>2, <2>3, <2>5 DEF Rebind
      <3>3. script' \in [Processes -> Seq(Operation)] /\ DOMAIN script' = Processes
        <4>1. script' = [script EXCEPT ![d] = WriteIdentity(d)]
          BY <1>3, <2>5 DEF Rebind, Plan
        <4> QED BY <1>0, <2>3, <4>1, PlansFit
      <3>4. backlog' \in [Daemons -> SUBSET Clients]
        BY <1>3, <2>3, <2>5 DEF Rebind
      <3> QED BY <1>3, <2>1, <3>1, <3>2, <3>3, <3>4, Apart, GoesTo DEF Rebind, DaemonsFit, DaemonTypeOK, opVars
    <2> QED BY <2>4, <2>5
  <1>4. CASE HandleTerm(d) \/ HandleUsr2(d) \/ IdleExit(d)
    <2>1. Goto(d, "stopping") /\ "stopping" \in DaemonPcs
      BY <1>4 DEF HandleTerm, HandleUsr2, IdleExit, Leaves, DaemonPcs
    <2>2. drained' \in [Daemons -> BOOLEAN] /\ UNCHANGED <<fileVars, lock, script, gen, home, old, noted, signal,
                                                          connVars, opVars, crashes>>
      BY <1>4 DEF HandleTerm, HandleUsr2, IdleExit, Leaves, DaemonsFit, DaemonTypeOK
    <2> QED BY <2>1, <2>2, Apart, GoesTo DEF DaemonsFit, DaemonTypeOK, fileVars, connVars, opVars
  <1>5. CASE FinishStop(d)
    <2>1. Goto(d, "leave") /\ "leave" \in DaemonPcs
      BY <1>5 DEF FinishStop, DaemonPcs
    <2>2. script' \in [Processes -> Seq(Operation)] /\ DOMAIN script' = Processes
      BY <1>0, <1>5, Apart, PlansFit DEF FinishStop, Plan
    <2> QED BY <1>5, <2>1, <2>2, Apart, GoesTo
            DEF FinishStop, DaemonsFit, DaemonTypeOK, fileVars, daemonVars, connVars, opVars
  <1>6. CASE Leave(d)
    <2>1. Goto(d, "dead") /\ Ends(d) /\ "dead" \in DaemonPcs
      BY <1>6 DEF Leave, Exit, DaemonPcs
    <2> QED BY <1>6, <2>1, Apart, GoesTo, EndsFits
            DEF Leave, DaemonsFit, DaemonTypeOK, fileVars, daemonVars, opVars
  <1>7. CASE \E c \in Clients : Accept(d, c)
    <2>1. sessions' \in [Daemons -> SUBSET Clients] /\ backlog' \in [Daemons -> SUBSET Clients]
      BY <1>7 DEF Accept, DaemonsFit, DaemonTypeOK
    <2> QED BY <1>7, <2>1 DEF Accept, DaemonsFit, DaemonTypeOK, Targeted, fileVars, daemonVars, opVars
  <1> QED
    BY <1>1, <1>2, <1>3, <1>4, <1>5, <1>6, <1>7

\* A new daemon.
LEMMA SpawnFits ==
    ASSUME DaemonsFit, NEW c \in Clients, NEW d \in Daemons, NEW label \in {"wait", "staging"},
           NEW replaces \in Daemons \cup {None}, Spawn(d, "start", replaces),
           pc' = [pc EXCEPT ![d] = "start", ![c] = label]
    PROVE  /\ Targeted'
           /\ pc' \in [Processes -> DaemonPcs \cup ClientPcs]
           /\ (\A e \in Daemons : pc'[e] \in DaemonPcs) /\ \A e \in Clients : pc'[e] \in ClientPcs
           /\ old' \in [Daemons -> Daemons \cup {None}] /\ home' \in [Daemons -> {Public, Staged}]
           /\ UNCHANGED <<gen, signal, drained, noted>>
  <1>1. /\ pc \in [Processes -> DaemonPcs \cup ClientPcs]
        /\ (\A e \in Daemons : pc[e] \in DaemonPcs) /\ \A e \in Clients : pc[e] \in ClientPcs
        /\ "start" \in DaemonPcs /\ label \in ClientPcs
    BY DEF DaemonsFit, DaemonTypeOK, DaemonPcs, ClientPcs
  <1>2. /\ c \in Processes /\ d \in Processes /\ c # d
    BY Apart
  <1>3. /\ pc'[d] = "start" /\ pc'[c] = label /\ \A y \in Processes \ {c, d} : pc'[y] = pc[y]
        /\ pc' = [y \in Processes |-> pc'[y]]
    BY <1>1, <1>2
  <1>4. /\ pc' \in [Processes -> DaemonPcs \cup ClientPcs]
        /\ (\A e \in Daemons : pc'[e] \in DaemonPcs) /\ \A e \in Clients : pc'[e] \in ClientPcs
    BY <1>1, <1>2, <1>3, Apart
  <1>5. /\ old' \in [Daemons -> Daemons \cup {None}] /\ home' \in [Daemons -> {Public, Staged}]
        /\ UNCHANGED <<gen, signal, drained, noted>> /\ \A e \in Daemons \ {d} : old'[e] = old[e]
    BY DEF Spawn, DaemonsFit, DaemonTypeOK
  <1>6. Targeted'
    <2> SUFFICES ASSUME NEW e \in Daemons
                 PROVE  /\ pc'[e] \in {"promote", "rename", "signal"} => old'[e] # None
                        /\ pc'[e] = "rebind" => gen'[e] < MaxBinds
      BY DEF Targeted
    <2>1. CASE e = d
      BY <1>3, <2>1
    <2>2. CASE e # d
      BY <1>2, <1>3, <1>5, <2>2, Apart DEF DaemonsFit, Targeted
    <2> QED BY <2>1, <2>2
  <1> QED
    BY <1>4, <1>5, <1>6

LEMMA ProxyFits == ASSUME DaemonsFit, NEW p \in Proxies, ProxyMove(p) PROVE DaemonsFit'
  <1>0. p \in Clients /\ p \in Processes /\ p \notin Daemons
    BY Apart
  <1>1. CASE CheckStale(p)
    <2>1. Goto(p, "try") /\ "try" \in ClientPcs
      BY <1>1 DEF CheckStale, ClientPcs
    <2>2. script' \in [Processes -> Seq(Operation)] /\ DOMAIN script' = Processes
      <3>1. <<Rm("sock", Public), Rm("pid", Public)>> \in Seq(Operation) /\ <<>> \in Seq(Operation)
        BY OperationsFit, PlacesApart DEF Kinds
      <3> QED BY <1>1, <3>1 DEF CheckStale, Plan, DaemonsFit
    <2> QED BY <1>0, <1>1, <2>1, <2>2, GoesTo
            DEF CheckStale, DaemonsFit, DaemonTypeOK, fileVars, daemonVars, connVars, opVars
  <1>2. CASE ConnectTo(p)
    <2>1. Goto(p, "connected") /\ "connected" \in ClientPcs
      BY <1>2 DEF ConnectTo, ClientPcs
    <2>2. lock' \in Processes \cup {None}
      BY <1>2 DEF ConnectTo, Unlock, DaemonsFit, DaemonTypeOK
    <2>3. backlog' \in [Daemons -> SUBSET Clients] /\ UNCHANGED sessions
      BY <1>0, <1>2 DEF ConnectTo, Connect, DaemonsFit, DaemonTypeOK
    <2> QED BY <1>0, <1>2, <2>1, <2>2, <2>3, GoesTo
            DEF ConnectTo, DaemonsFit, DaemonTypeOK, fileVars, daemonVars, opVars
  <1>3. CASE NotConnectable(p) \/ Lost(p)
    <2>1. PICK label \in {"lock", "idle"} : Goto(p, label) /\ label \in ClientPcs
      BY <1>3 DEF NotConnectable, Lost, ClientPcs
    <2>2. UNCHANGED <<fileVars, lock, script, daemonVars, connVars, opVars, crashes>>
      BY <1>3 DEF NotConnectable, Lost
    <2> QED BY <1>0, <2>1, <2>2, GoesTo DEF DaemonsFit, DaemonTypeOK, fileVars, daemonVars, connVars, opVars
  <1>4. CASE TryLock(p) \/ GiveUp(p)
    <2>1. PICK label \in {"again", "wait", "idle"} : Goto(p, label) /\ label \in ClientPcs
      BY <1>4 DEF TryLock, GiveUp, ClientPcs
    <2>2. /\ UNCHANGED <<fileVars, script, daemonVars, connVars, opVars, crashes>>
          /\ lock' \in Processes \cup {None}
      BY <1>0, <1>4 DEF TryLock, GiveUp, Unlock, DaemonsFit, DaemonTypeOK
    <2> QED BY <1>0, <2>1, <2>2, GoesTo DEF DaemonsFit, DaemonTypeOK, fileVars, daemonVars, connVars, opVars
  <1>5. CASE SpawnDaemon(p)
    <2>1. PICK d \in Daemons : Spawn(d, "start", None) /\ pc' = [pc EXCEPT ![d] = "start", ![p] = "wait"]
      BY <1>5 DEF SpawnDaemon
    <2> QED BY <1>0, <1>5, <2>1, SpawnFits
            DEF SpawnDaemon, DaemonsFit, DaemonTypeOK, fileVars, connVars, opVars
  <1>6. CASE Disconnect(p)
    <2>1. Goto(p, "gone") /\ "gone" \in ClientPcs /\ Ends(p)
      BY <1>6 DEF Disconnect, ClientPcs
    <2> QED BY <1>0, <1>6, <2>1, GoesTo, EndsFits
            DEF Disconnect, DaemonsFit, DaemonTypeOK, fileVars, daemonVars, opVars
  <1> QED
    BY <1>1, <1>2, <1>3, <1>4, <1>5, <1>6 DEF ProxyMove, ProxyStep

LEMMA SendTermFits == ASSUME DaemonsFit, SendTerm PROVE DaemonsFit'
  <1> DEFINE d == target.daemon
             sent == Alive(d)
             label == IF sent THEN "waitstop" ELSE "idle"
  <1>1. d \in Daemons \cup {None} /\ sent \in BOOLEAN /\ label \in ClientPcs
    BY DEF DaemonsFit, DaemonTypeOK, Alive, ClientPcs
  <1>2. /\ Signalled(d, "term", sent)
        /\ pc' = [pc EXCEPT ![Operator] = label, ![d] = IF sent /\ ~Handles(d) THEN "dead" ELSE @]
        /\ lock' = IF sent /\ ~Handles(d) /\ lock = d THEN None ELSE lock
        /\ UNCHANGED <<fileVars, gen, home, old, drained, noted, opVars, crashes>>
    BY DEF SendTerm, Signalled
  <1> HIDE DEF d, sent, label
  <1>3. /\ pc \in [Processes -> DaemonPcs \cup ClientPcs]
        /\ (\A e \in Daemons : pc[e] \in DaemonPcs) /\ \A c \in Clients : pc[c] \in ClientPcs
        /\ "dead" \in DaemonPcs /\ Operator \in Processes /\ Operator \in Clients /\ lock \in Processes \cup {None}
    BY Apart DEF DaemonsFit, DaemonTypeOK, DaemonPcs
  <1>4. \A y \in Processes : \/ pc'[y] = pc[y]
                             \/ y = Operator /\ pc'[y] = label
                             \/ y \in Daemons /\ pc'[y] = "dead"
    BY <1>1, <1>2, <1>3, Apart
  <1>5. /\ pc' \in [Processes -> DaemonPcs \cup ClientPcs]
        /\ (\A e \in Daemons : pc'[e] \in DaemonPcs) /\ \A c \in Clients : pc'[c] \in ClientPcs
    <2>1. pc' = [y \in Processes |-> pc'[y]]
      BY <1>2, <1>3
    <2> QED BY <1>1, <1>3, <1>4, <2>1, Apart
  <1>6. Targeted'
    BY <1>2, <1>4, Apart DEF DaemonsFit, Targeted
  <1>7. /\ signal' \in [Daemons -> SUBSET {"term", "usr2", "kill"}]
        /\ script' \in [Processes -> Seq(Operation)] /\ DOMAIN script' = Processes
        /\ sessions' \in [Daemons -> SUBSET Clients] /\ backlog' \in [Daemons -> SUBSET Clients]
    BY <1>1, <1>2, SignalFits
  <1>8. lock' \in Processes \cup {None}
    BY <1>2, <1>3
  <1> QED
    BY <1>2, <1>5, <1>6, <1>7, <1>8 DEF DaemonsFit, DaemonTypeOK, fileVars, opVars

LEMMA OperatorFits == ASSUME DaemonsFit, OperatorMove PROVE DaemonsFit'
  <1>0. /\ Operator \in Clients /\ Operator \in Processes /\ Operator \notin Daemons
        /\ CleanupFiles \in Seq(Operation) /\ <<>> \in Seq(Operation)
    BY Apart, OperationsFit, PlacesApart DEF CleanupFiles, Kinds
  <1>1. CASE SendTerm
    BY <1>1, SendTermFits
  <1>2. CASE StopSeesEnd
    <2>1. Goto(Operator, "idle") /\ "idle" \in ClientPcs
      BY <1>2 DEF StopSeesEnd, ClientPcs
    <2>2. script' \in [Processes -> Seq(Operation)] /\ DOMAIN script' = Processes
      BY <1>0, <1>2 DEF StopSeesEnd, Plan, DaemonsFit
    <2> QED BY <1>0, <1>2, <2>1, <2>2, GoesTo
            DEF StopSeesEnd, DaemonsFit, DaemonTypeOK, fileVars, daemonVars, connVars, opVars
  <1>3. CASE StopTimesOut \/ SmokeFails \/ UpgradeFails
    <2>1. PICK label \in {"idle", "staging"} : Goto(Operator, label) /\ label \in ClientPcs
      BY <1>3 DEF StopTimesOut, SmokeFails, UpgradeFails, ClientPcs
    <2>2. UNCHANGED <<fileVars, lock, script, daemonVars, connVars, opVars, crashes>>
      BY <1>3 DEF StopTimesOut, SmokeFails, UpgradeFails
    <2> QED BY <1>0, <2>1, <2>2, GoesTo DEF DaemonsFit, DaemonTypeOK, fileVars, daemonVars, connVars, opVars
  <1>4. CASE SpawnNormal
    <2>1. PICK d \in Daemons : Spawn(d, "start", None) /\ pc' = [pc EXCEPT ![d] = "start", ![Operator] = "staging"]
      BY <1>4 DEF SpawnNormal
    <2> QED BY <1>0, <1>4, <2>1, SpawnFits
            DEF SpawnNormal, DaemonsFit, DaemonTypeOK, fileVars, connVars, opVars
  <1>5. CASE BeginSmoke
    <2>1. Goto(Operator, "smoke") /\ "smoke" \in ClientPcs
      BY <1>5 DEF BeginSmoke, ClientPcs
    <2>2. backlog' \in [Daemons -> SUBSET Clients] /\ UNCHANGED sessions
      BY <1>0, <1>5 DEF BeginSmoke, Connect, DaemonsFit, DaemonTypeOK
    <2> QED BY <1>0, <1>5, <2>1, <2>2, GoesTo
            DEF BeginSmoke, DaemonsFit, DaemonTypeOK, fileVars, daemonVars, opVars
  <1>6. CASE SmokeAnswered
    <2>1. Goto(Operator, "idle") /\ "idle" \in ClientPcs /\ Ends(Operator)
      BY <1>6 DEF SmokeAnswered, ClientPcs
    <2>2. target' \in [daemon : Daemons \cup {None}, by : Daemons \cup {None}]
      BY <1>6 DEF SmokeAnswered, DaemonsFit, DaemonTypeOK
    <2> QED BY <1>0, <1>6, <2>1, <2>2, GoesTo, EndsFits
            DEF SmokeAnswered, DaemonsFit, DaemonTypeOK, fileVars, daemonVars
  <1>7. CASE BeginStop
    <2>0. /\ pid[Public] \in Daemons \cup {None} /\ commands' \in 0..MaxCommands
          /\ UNCHANGED <<fileVars, lock, daemonVars, connVars, crashes>>
      BY <1>7, DaemonAssumption, PlacesApart DEF BeginStop, DaemonsFit, DaemonTypeOK
    <2>1. CASE DaemonAlive(Public)
      <3>1. Goto(Operator, "stopping") /\ "stopping" \in ClientPcs
        BY <1>7, <2>1 DEF BeginStop, ClientPcs
      <3>2. target' \in [daemon : Daemons \cup {None}, by : Daemons \cup {None}] /\ UNCHANGED script
        BY <1>7, <2>0, <2>1 DEF BeginStop
      <3> QED BY <1>0, <2>0, <3>1, <3>2, GoesTo DEF DaemonsFit, DaemonTypeOK, fileVars, daemonVars, connVars
    <2>2. CASE ~DaemonAlive(Public)
      <3>1. script' \in [Processes -> Seq(Operation)] /\ DOMAIN script' = Processes /\ UNCHANGED <<pc, target>>
        BY <1>0, <1>7, <2>2 DEF BeginStop, Plan, DaemonsFit
      <3> QED BY <2>0, <3>1 DEF DaemonsFit, DaemonTypeOK, Targeted, fileVars, daemonVars, connVars
    <2> QED BY <2>1, <2>2
  <1>8. CASE BeginUpgrade
    <2>0. /\ pid[Public] \in Daemons \cup {None} /\ commands' \in 0..MaxCommands
          /\ UNCHANGED <<fileVars, lock, connVars, crashes>>
      BY <1>8, DaemonAssumption, PlacesApart DEF BeginUpgrade, DaemonsFit, DaemonTypeOK
    <2>1. CASE DaemonAlive(Public)
      <3>1. PICK d \in Daemons : /\ Spawn(d, "start", pid[Public])
                                 /\ pc' = [pc EXCEPT ![d] = "start", ![Operator] = "staging"]
        BY <1>8, <2>1 DEF BeginUpgrade
      <3>2. target' \in [daemon : Daemons \cup {None}, by : Daemons \cup {None}] /\ UNCHANGED script
        BY <1>8, <2>0, <2>1 DEF BeginUpgrade
      <3> QED BY <1>0, <2>0, <3>1, <3>2, SpawnFits DEF DaemonsFit, DaemonTypeOK, fileVars, connVars
    <2>2. CASE ~DaemonAlive(Public)
      <3>1. Goto(Operator, "spawning") /\ "spawning" \in ClientPcs
        BY <1>8, <2>2 DEF BeginUpgrade, ClientPcs
      <3>2. /\ target' \in [daemon : Daemons \cup {None}, by : Daemons \cup {None}] /\ UNCHANGED daemonVars
        BY <1>8, <2>2 DEF BeginUpgrade
      <3>3. script' \in [Processes -> Seq(Operation)] /\ DOMAIN script' = Processes
        BY <1>0, <1>8, <2>2 DEF BeginUpgrade, Plan, DaemonsFit
      <3> QED BY <1>0, <2>0, <3>1, <3>2, <3>3, GoesTo DEF DaemonsFit, DaemonTypeOK, fileVars, daemonVars, connVars
    <2> QED BY <2>1, <2>2
  <1>9. CASE SweepDrains
    <2>1. PICK d \in Daemons : Plan(Operator, CleanupDrain(d))
      BY <1>9 DEF SweepDrains
    <2>2. script' \in [Processes -> Seq(Operation)] /\ DOMAIN script' = Processes
      BY <1>0, <2>1, PlansFit DEF Plan, DaemonsFit
    <2> QED BY <1>9, <2>2
            DEF SweepDrains, DaemonsFit, DaemonTypeOK, Targeted, fileVars, daemonVars, connVars, opVars
  <1> QED
    BY <1>1, <1>2, <1>3, <1>4, <1>5, <1>6, <1>7, <1>8, <1>9 DEF OperatorMove, OperatorStep

LEMMA StepFits == ASSUME DaemonsFit, [DaemonNext]_vars PROVE DaemonsFit'
  <1>1. CASE UNCHANGED vars
    BY <1>1 DEF DaemonsFit, DaemonTypeOK, Targeted, vars, fileVars, daemonVars, connVars, opVars
  <1>2. CASE DaemonNext
    <2>1. PICK x \in Processes : \/ Execute(x) \/ Crash(x)
                                 \/ x \in Daemons /\ DaemonMove(x)
                                 \/ x \in Proxies /\ ProxyMove(x)
                                 \/ x = Operator /\ OperatorMove
      BY <1>2, EveryStep
    <2>2. CASE x \in Daemons /\ DaemonMove(x)
      BY <2>2, StartingFits, PromotingFits, SignalOldFits, LoopFits DEF DaemonMove, DaemonStep
    <2> QED BY <2>1, <2>2, ExecuteFits, CrashFits, ProxyFits, OperatorFits
  <1> QED
    BY <1>1, <1>2

-----------------------------------------------------------------------------
(* Whom an idle daemon or an upgrade may cost a session.                   *)

Spared(d) == Exiting(d) /\ sessions[d] # {} => signal'[d] \cap {"term", "kill"} # {}

\* The actions of one process leave the others where they are.
Undisturbed(e) ==
    /\ pc'[e] = pc[e] /\ sessions'[e] \subseteq sessions[e]
    /\ signal[e] \subseteq signal'[e] /\ drained'[e] = drained[e]

LEMMA UndisturbedStays ==
    ASSUME NEW e \in Daemons, Departure(e), Undisturbed(e)
    PROVE  Departure(e)' /\ Spared(e)
  <1>1. pc'[e] = pc[e] /\ (sessions[e] = {} => sessions'[e] = {})
        /\ ("term" \in signal[e] => "term" \in signal'[e]) /\ drained'[e] = drained[e]
    BY DEF Undisturbed
  <1>2. Spared(e)
    BY <1>1 DEF Spared, Exiting
  <1>3. Departure(e)'
    BY <1>1 DEF Departure
  <1> QED
    BY <1>2, <1>3

LEMMA DaemonDeparts ==
    ASSUME SparedInv, NEW d \in Daemons, DaemonMove(d), ~SignalOld(d), NEW e \in Daemons
    PROVE  Departure(e)' /\ Spared(e)
  <1>0. /\ pc \in [Processes -> DaemonPcs \cup ClientPcs] /\ signal \in [Daemons -> SUBSET {"term", "usr2", "kill"}]
        /\ sessions \in [Daemons -> SUBSET Clients] /\ drained \in [Daemons -> BOOLEAN]
        /\ d \in Processes /\ e \in Processes /\ Departure(d) /\ Departure(e)
    BY Apart DEF SparedInv, DaemonsFit, DaemonTypeOK, Departures
  <1>1. CASE e # d
    <2>1. Undisturbed(e)
      <3>1. CASE CheckSocket(d) \/ Unlink(d) \/ Bind(d) \/ BeginPromotion(d) \/ RetireSocket(d) \/ Leave(d)
        <4>1. UNCHANGED <<signal, drained>> /\ pc'[e] = pc[e]
          BY <1>0, <1>1, <3>1
             DEF CheckSocket, Unlink, Bind, BeginPromotion, RetireSocket, Leave, Exit, Goto, daemonVars
        <4>2. sessions'[e] = sessions[e]
          BY <1>0, <1>1, <3>1
             DEF CheckSocket, Unlink, Bind, BeginPromotion, RetireSocket, Leave, Exit, Ends, connVars
        <4> QED BY <4>1, <4>2 DEF Undisturbed
      <3>2. CASE Initialized(d) \/ InitializeFails(d) \/ PromoteSocket(d) \/ PromoteFails(d) \/ RepairIdentity(d)
                 \/ FindSocketMissing(d) \/ Rebind(d) \/ FinishStop(d) \/ HandleTerm(d) \/ IdleExit(d)
        BY <1>0, <1>1, <3>2
           DEF Undisturbed, Initialized, InitializeFails, PromoteSocket, PromoteFails, RepairIdentity,
               FindSocketMissing, Rebind, FinishStop, HandleTerm, IdleExit, Leaves, Goto, daemonVars, connVars
      <3>3. CASE HandleUsr2(d) \/ \E c \in Clients : Accept(d, c)
        BY <1>0, <1>1, <3>3 DEF Undisturbed, HandleUsr2, Leaves, Accept, Goto, daemonVars, connVars
      <3> QED BY <3>1, <3>2, <3>3 DEF DaemonMove, DaemonStep
    <2> QED BY <1>0, <2>1, UndisturbedStays
  <1>2. CASE e = d
    <2>1. CASE CheckSocket(d) \/ Unlink(d) \/ Bind(d) \/ BeginPromotion(d) \/ RetireSocket(d)
      <3>1. sessions[d] = {}
        BY <1>0, <2>1 DEF CheckSocket, Unlink, Bind, BeginPromotion, RetireSocket, Departure, Outside
      <3>2. sessions'[d] = {}
        BY <1>0, <2>1, <3>1
           DEF CheckSocket, Unlink, Bind, BeginPromotion, RetireSocket, Exit, Ends, connVars
      <3> QED BY <1>2, <3>1, <3>2 DEF Spared, Departure
    <2>2. CASE Initialized(d) \/ InitializeFails(d) \/ PromoteFails(d) \/ PromoteSocket(d)
      <3>1. sessions[d] = {} /\ UNCHANGED sessions
        BY <2>2, <1>0 DEF Initialized, InitializeFails, PromoteFails, PromoteSocket, Departure, Outside, connVars
      <3> QED BY <1>2, <3>1 DEF Spared, Departure
    <2>3. CASE RepairIdentity(d) \/ FindSocketMissing(d) \/ Rebind(d) \/ \E c \in Clients : Accept(d, c)
      <3>1. pc'[d] \in {"serve", "rebind"}
        BY <2>3, <1>0 DEF RepairIdentity, FindSocketMissing, Rebind, Accept, InLoop, Goto
      <3> QED BY <1>2, <3>1 DEF Spared, Departure, Exiting, Outside
    <2>4. CASE HandleTerm(d) \/ HandleUsr2(d) \/ IdleExit(d)
      <3>1. pc'[d] = "stopping"
        BY <2>4, <1>0 DEF HandleTerm, HandleUsr2, IdleExit, Leaves, Goto
      <3>2. sessions'[d] = {} \/ drained'[d] \/ "term" \in signal'[d]
        BY <2>4, <1>0 DEF HandleTerm, HandleUsr2, IdleExit, Leaves, connVars
      <3> QED BY <1>2, <3>1, <3>2 DEF Spared, Departure, Exiting, Outside
    <2>5. CASE FinishStop(d)
      <3>1. pc[d] = "stopping" /\ pc'[d] = "leave" /\ UNCHANGED <<signal, sessions>> /\ (drained[d] => sessions[d] = {})
        BY <2>5, <1>0 DEF FinishStop, Goto, daemonVars, connVars
      <3>2. sessions[d] = {} \/ "term" \in signal[d]
        BY <1>0, <3>1 DEF Departure
      <3> QED BY <1>2, <3>1, <3>2 DEF Spared, Departure, Exiting, Outside
    <2>6. CASE Leave(d)
      <3>1. pc[d] = "leave" /\ pc'[d] = "dead" /\ UNCHANGED signal /\ sessions'[d] = {}
        BY <2>6, <1>0 DEF Leave, Exit, Ends, Goto, daemonVars
      <3>2. sessions[d] = {} \/ "term" \in signal[d]
        BY <1>0, <3>1 DEF Departure
      <3>3. Spared(d)
        BY <3>1, <3>2 DEF Spared
      <3>4. Departure(d)'
        BY <3>1 DEF Departure
      <3> QED BY <1>2, <3>3, <3>4
    <2> QED BY <2>1, <2>2, <2>3, <2>4, <2>5, <2>6 DEF DaemonMove, DaemonStep
  <1> QED
    BY <1>1, <1>2

\* A signal: a daemon without a handler ends, and had it been serving it would have one.
LEMMA SignalDeparts ==
    ASSUME SparedInv, NEW o \in Daemons \cup {None}, NEW kind \in {"term", "usr2"}, NEW sent \in BOOLEAN,
           Signalled(o, kind, sent), UNCHANGED drained, NEW e \in Daemons,
           \/ pc'[e] = pc[e]
           \/ pc'[e] = "serve"
           \/ e = o /\ sent /\ ~Handles(o) /\ pc'[e] = "dead",
           e = o /\ sent /\ ~Handles(o) => pc'[e] = "dead"
    PROVE  Departure(e)' /\ Spared(e)
  <1>0. /\ signal \in [Daemons -> SUBSET {"term", "usr2", "kill"}] /\ sessions \in [Daemons -> SUBSET Clients]
        /\ Departure(e)
    BY DEF SparedInv, DaemonsFit, DaemonTypeOK, Departures
  <1>1. signal[e] \subseteq signal'[e] /\ sessions'[e] \subseteq sessions[e]
    BY <1>0 DEF Signalled
  <1>2. CASE e = o /\ sent /\ ~Handles(o)
    <2>1. "kill" \in signal'[e] /\ sessions'[e] = {}
      BY <1>0, <1>2 DEF Signalled
    <2>2. pc'[e] = "dead"
      BY <1>2
    <2>3. Spared(e)
      BY <2>1 DEF Spared
    <2>4. Departure(e)'
      BY <2>1, <2>2 DEF Departure
    <2> QED BY <2>3, <2>4
  <1>3. CASE pc'[e] = pc[e]
    BY <1>0, <1>1, <1>3, UndisturbedStays DEF Undisturbed
  <1>4. CASE pc'[e] = "serve"
    BY <1>4 DEF Spared, Exiting, Departure, Outside
  <1> QED
    BY <1>2, <1>3, <1>4

LEMMA StepDeparts ==
    ASSUME SparedInv, [DaemonNext]_vars, NEW e \in Daemons
    PROVE  Departure(e)' /\ Spared(e)
  <1>0. /\ pc \in [Processes -> DaemonPcs \cup ClientPcs] /\ signal \in [Daemons -> SUBSET {"term", "usr2", "kill"}]
        /\ sessions \in [Daemons -> SUBSET Clients] /\ drained \in [Daemons -> BOOLEAN]
        /\ old \in [Daemons -> Daemons \cup {None}] /\ target.daemon \in Daemons \cup {None}
        /\ e \in Processes /\ Departure(e) /\ DaemonsFit
    BY Apart DEF SparedInv, DaemonsFit, DaemonTypeOK, Departures
  <1>1. CASE UNCHANGED vars
    BY <1>0, <1>1, UndisturbedStays DEF Undisturbed, vars, daemonVars, connVars
  <1>2. CASE DaemonNext
    <2>1. PICK x \in Processes : \/ Execute(x) \/ Crash(x)
                                 \/ x \in Daemons /\ DaemonMove(x)
                                 \/ x \in Proxies /\ ProxyMove(x)
                                 \/ x = Operator /\ OperatorMove
      BY <1>2, EveryStep
    <2>2. CASE Execute(x)
      BY <1>0, <2>2, UndisturbedStays DEF Undisturbed, Execute, daemonVars, connVars
    <2>3. CASE Crash(x)
      <3>1. sessions'[e] \subseteq sessions[e] /\ UNCHANGED drained /\ (x = e => sessions'[e] = {})
        BY <1>0, <2>3, EndsFits DEF Crash
      <3>2. CASE x = e
        <4>1. pc'[e] = "dead" /\ "kill" \in signal'[e]
          BY <1>0, <2>3, <3>2, Apart DEF Crash, Goto
        <4>2. Spared(e)
          BY <4>1 DEF Spared
        <4>3. Departure(e)'
          BY <3>1, <3>2, <4>1 DEF Departure
        <4> QED BY <4>2, <4>3
      <3>3. CASE x # e
        <4>1. pc'[e] = pc[e] /\ signal[e] \subseteq signal'[e]
          BY <1>0, <2>3, <3>3, Apart DEF Crash, Goto
        <4> QED BY <1>0, <3>1, <4>1, UndisturbedStays DEF Undisturbed
      <3> QED BY <3>2, <3>3
    <2>4. CASE x \in Daemons /\ SignalOld(x)
      <3> DEFINE o == old[x]
                 sent == noted[x] /\ Alive(o)
      <3>2. o \in Daemons \cup {None} /\ sent \in BOOLEAN
        BY <1>0, <2>4 DEF DaemonsFit, DaemonTypeOK, Alive
      <3>3. /\ Signalled(o, "usr2", sent)
            /\ pc' = [pc EXCEPT ![x] = "serve", ![o] = IF sent /\ ~Handles(o) THEN "dead" ELSE @]
            /\ UNCHANGED drained
        BY <2>4 DEF SignalOld, Signalled
      <3> HIDE DEF o, sent
      <3>4. /\ \/ pc'[e] = pc[e] \/ pc'[e] = "serve"
               \/ e = o /\ sent /\ ~Handles(o) /\ pc'[e] = "dead"
            /\ e = o /\ sent /\ ~Handles(o) => pc'[e] = "dead"
        BY <1>0, <3>3
      <3> QED BY <3>2, <3>3, <3>4, SignalDeparts
    <2>5. CASE x \in Daemons /\ DaemonMove(x) /\ ~SignalOld(x)
      BY <2>5, DaemonDeparts
    <2>6. CASE x \in Proxies /\ ProxyMove(x)
      <3>0. x # e /\ x \in Clients
        BY <2>6, Apart
      <3>1. UNCHANGED <<signal, drained>> /\ sessions'[e] \subseteq sessions[e]
        <4>1. CASE Disconnect(x)
          BY <1>0, <4>1, EndsFits DEF Disconnect, daemonVars
        <4>2. CASE ProxyStep(x)
          BY <4>2 DEF ProxyStep, CheckStale, ConnectTo, Connect, NotConnectable, TryLock, SpawnDaemon, Spawn,
                      GiveUp, Lost, daemonVars, connVars
        <4> QED BY <2>6, <4>1, <4>2 DEF ProxyMove
      <3>2. CASE pc'[e] = pc[e]
        BY <1>0, <3>1, <3>2, UndisturbedStays DEF Undisturbed
      <3>3. CASE pc'[e] # pc[e]
        <4>1. pc[e] = "none" /\ pc'[e] = "start"
          BY <1>0, <2>6, <3>0, <3>3
             DEF ProxyMove, ProxyStep, CheckStale, ConnectTo, NotConnectable, TryLock, SpawnDaemon, Spawn,
                 GiveUp, Lost, Disconnect, Goto
        <4>2. sessions'[e] = {}
          BY <1>0, <3>1, <4>1 DEF Departure, Outside
        <4> QED BY <4>1, <4>2 DEF Spared, Exiting, Departure
      <3> QED BY <3>2, <3>3
    <2>7. CASE x = Operator /\ SendTerm
      <3> DEFINE d == target.daemon
                 sent == Alive(d)
      <3>2. d \in Daemons \cup {None} /\ sent \in BOOLEAN /\ e # Operator
        BY <1>0, Apart DEF DaemonsFit, DaemonTypeOK, Alive
      <3>3. /\ Signalled(d, "term", sent)
            /\ pc' = [pc EXCEPT ![Operator] = IF sent THEN "waitstop" ELSE "idle",
                                ![d] = IF sent /\ ~Handles(d) THEN "dead" ELSE @]
            /\ UNCHANGED drained
        BY <2>7 DEF SendTerm, Signalled
      <3> HIDE DEF d, sent
      <3>4. /\ \/ pc'[e] = pc[e] \/ pc'[e] = "serve"
               \/ e = d /\ sent /\ ~Handles(d) /\ pc'[e] = "dead"
            /\ e = d /\ sent /\ ~Handles(d) => pc'[e] = "dead"
        BY <1>0, <3>2, <3>3
      <3> QED BY <3>2, <3>3, <3>4, SignalDeparts
    <2>8. CASE x = Operator /\ OperatorMove /\ ~SendTerm
      <3>0. Operator # e /\ Operator \in Processes
        BY Apart
      <3>1. UNCHANGED <<signal, drained>> /\ sessions'[e] \subseteq sessions[e]
        <4>1. CASE SmokeAnswered
          BY <1>0, <3>0, <4>1, EndsFits DEF SmokeAnswered, daemonVars
        <4>2. CASE ~SmokeAnswered
          BY <2>8, <4>2 DEF OperatorMove, OperatorStep, StopSeesEnd, StopTimesOut, SpawnNormal, BeginSmoke,
                      SmokeFails, UpgradeFails, BeginStop, BeginUpgrade, SweepDrains, Spawn, Connect,
                      daemonVars, connVars
        <4> QED BY <4>1, <4>2
      <3>2. CASE pc'[e] = pc[e]
        BY <1>0, <3>1, <3>2, UndisturbedStays DEF Undisturbed
      <3>3. CASE pc'[e] # pc[e]
        <4>1. pc[e] = "none" /\ pc'[e] = "start"
          BY <1>0, <2>8, <3>0, <3>3
             DEF OperatorMove, OperatorStep, StopSeesEnd, StopTimesOut, SpawnNormal, BeginSmoke, SmokeAnswered,
                 SmokeFails, UpgradeFails, BeginStop, BeginUpgrade, SweepDrains, Spawn, Goto
        <4>2. sessions'[e] = {}
          BY <1>0, <3>1, <4>1 DEF Departure, Outside
        <4> QED BY <4>1, <4>2 DEF Spared, Exiting, Departure
      <3> QED BY <3>2, <3>3
    <2> QED BY <2>1, <2>2, <2>3, <2>4, <2>5, <2>6, <2>7, <2>8
  <1> QED
    BY <1>1, <1>2

LEMMA SparedInvHolds == DaemonSpec => []SparedInv
  <1>1. DaemonInit => SparedInv
    BY InitFits DEF SparedInv, Departures, Departure, DaemonInit
  <1>2. ASSUME SparedInv, [DaemonNext]_vars PROVE SparedInv'
    <2>1. DaemonsFit'
      BY <1>2, StepFits DEF SparedInv
    <2>2. Departures'
      BY <1>2, StepDeparts DEF Departures
    <2> QED BY <2>1, <2>2 DEF SparedInv
  <1> QED
    BY <1>1, <1>2, PTL DEF DaemonSpec

\* Neither the idle timer nor an upgrade costs a client its session: a daemon ends with
\* sessions only when a signal told it to (serve, daemon.rs; whatever Options allows).
THEOREM SessionsAreSpared == DaemonSpec => SessionsSpared
  <1>1. ASSUME SparedInv, [DaemonNext]_vars PROVE \A d \in Daemons : Spared(d)
    BY <1>1, StepDeparts
  <1>2. (\A d \in Daemons : Spared(d)) =>
          [\A d \in Daemons : Exiting(d) /\ sessions[d] # {} => signal'[d] \cap {"term", "kill"} # {}]_vars
    BY DEF Spared
  <1> QED
    BY <1>1, <1>2, SparedInvHolds, PTL DEF DaemonSpec, SessionsSpared

-----------------------------------------------------------------------------
(* What becomes of the public pid file.                                    *)

LEMMA OpsOf ==
    /\ Ops(<<>>) = {} /\ \A a : Ops(<<a>>) = {a} /\ \A b : Ops(<<a, b>>) = {a, b} /\ \A c : Ops(<<a, b, c>>) = {a, b, c}
  <1>1. Ops(<<>>) = {}
    BY DEF Ops
  <1>2. ASSUME NEW a PROVE Ops(<<a>>) = {a}
    BY DEF Ops
  <1>3. ASSUME NEW a, NEW b PROVE Ops(<<a, b>>) = {a, b}
    <2>1. 1..Len(<<a, b>>) = {1, 2}
      OBVIOUS
    <2> QED BY <2>1 DEF Ops
  <1>4. ASSUME NEW a, NEW b, NEW c PROVE Ops(<<a, b, c>>) = {a, b, c}
    <2>1. 1..Len(<<a, b, c>>) = {1, 2, 3}
      OBVIOUS
    <2> QED BY <2>1 DEF Ops
  <1> QED
    BY <1>1, <1>2, <1>3, <1>4

LEMMA OpsOfTail ==
    ASSUME NEW s \in Seq(Operation), s # <<>>
    PROVE  Ops(s) = {Head(s)} \cup Ops(Tail(s)) /\ Ops(s) \subseteq Operation
  <1>1. Ops(s) \subseteq Operation
    BY DEF Ops
  <1>2. Head(s) = s[1] /\ 1 \in 1..Len(s)
    OBVIOUS
  <1>3. /\ Len(Tail(s)) = Len(s) - 1
        /\ \A i \in 1..Len(Tail(s)) : Tail(s)[i] = s[i + 1] /\ i + 1 \in 1..Len(s)
    OBVIOUS
  <1>4. \A i \in 1..Len(s) : i # 1 => i - 1 \in 1..Len(Tail(s)) /\ s[i] = Tail(s)[i - 1]
    BY <1>3
  <1>5. Ops(s) \subseteq {Head(s)} \cup Ops(Tail(s))
    BY <1>2, <1>4 DEF Ops
  <1>6. {Head(s)} \cup Ops(Tail(s)) \subseteq Ops(s)
    BY <1>2, <1>3 DEF Ops
  <1> QED
    BY <1>1, <1>5, <1>6

LEMMA OpsOfPlans ==
    ASSUME NEW d \in Daemons
    PROVE  /\ Ops(WriteIdentity(d)) = IF home[d] = Public THEN {Put("pid", Public, d), Put("info", Public, d)}
                                      ELSE {Put("pid", Staged, d)}
           /\ Ops(CleanupFiles) = {Rm("sock", Public), Rm("pid", Public), Rm("info", Public)}
           /\ Ops(CleanupDrain(d)) = {Rm("sock", Drain(d)), Rm("pid", Drain(d))}
           /\ Ops(CleanupOwned(d)) = IF pid[home[d]] # d THEN {}
                                     ELSE IF home[d] = Public THEN Ops(CleanupFiles)
                                     ELSE {Rm("sock", Staged), Rm("pid", Staged)}
           /\ Ops(<<Put("pid", Public, d), Put("info", Public, d), Rm("pid", Staged)>>)
                = {Put("pid", Public, d), Put("info", Public, d), Rm("pid", Staged)}
  BY OpsOf, ZenonT(60) DEF WriteIdentity, CleanupFiles, CleanupDrain, CleanupOwned

LEMMA OpFields ==
    \A kind, place, d :
        /\ Rm(kind, place).kind = kind /\ Rm(kind, place).place = place /\ Rm(kind, place).value = None
        /\ Put(kind, place, d).kind = kind /\ Put(kind, place, d).place = place /\ Put(kind, place, d).value = d
  BY DEF Rm, Put

\* The others: a process that is not the one between two operations.
Same(y) ==
    /\ pc'[y] = pc[y] /\ script'[y] = script[y]
    /\ y \in Daemons => /\ signal'[y] = signal[y] /\ drained'[y] = drained[y]
                        /\ home'[y] = home[y] /\ old'[y] = old[y] /\ gen'[y] = gen[y]

\* What one step may do to the public pid file and to the staged socket.
Touches(x) ==
    /\ pid'[Public] \in {pid[Public], x, None}
    /\ sock'[Staged] # sock[Staged] => \A e \in Daemons \ {x} : ~Staging(e)

LEMMA OtherStays ==
    ASSUME CleanInv, NEW x \in Processes, NEW y \in Processes \ {x}, ~Busy(y), Same(y), Touches(x)
    PROVE  Settled(y)' /\ ~Busy(y)'
  <1>0. Settled(y) /\ script[y] = <<>> /\ pc[y] \notin {"unlink", "bind", "rename", "signal", "rebind"}
        /\ (pc[y] = "serve" => signal[y] = {}) /\ Todo(y) = {} /\ None \notin Processes
    BY OpsOf, Apart DEF CleanInv, Busy, Ready, Todo
  <1>1. ~Busy(y)'
    <2>1. pc'[y] = "serve" => signal'[y] = {}
      <3>1. CASE y \in Daemons
        BY <1>0, <3>1 DEF Same
      <3>2. CASE y \notin Daemons
        BY <1>0, <3>2, Apart DEF Same, CleanInv, DaemonsFit, DaemonTypeOK, ClientPcs
      <3> QED BY <3>1, <3>2
    <2> QED BY <1>0, <2>1 DEF Same, Busy, Ready
  <1>2. Todo(y)' = {}
    BY <1>0, OpsOf DEF Same, Todo
  <1>3. Intention(y)' /\ ~Clearing(y)'
    BY <1>0, <1>2 DEF Same, Intention, Clearing
  <1>4. ASSUME y \in Daemons PROVE (Career(y) /\ Named(y) /\ Relieved(y) /\ Promoted(y) /\ OwnSocket(y))'
    <2>0. /\ Career(y) /\ Named(y) /\ OwnSocket(y)
          /\ pc'[y] = pc[y] /\ script'[y] = script[y] /\ signal'[y] = signal[y] /\ drained'[y] = drained[y]
          /\ home'[y] = home[y] /\ old'[y] = old[y] /\ gen'[y] = gen[y]
      BY <1>0, <1>4 DEF Settled, Same
    <2>1. Career(y)'
      BY <2>0 DEF Career
    <2>2. pid'[Public] = y => pid[Public] = y
      BY <1>0 DEF Touches
    <2>3. Named(y)'
      BY <1>0, <2>0, <2>2 DEF Named
    <2>4. Relieved(y)'
      BY <1>0, <2>0 DEF Relieved
    <2>5. Promoted(y)'
      BY <1>0, <2>0 DEF Promoted
    <2>6. OwnSocket(y)'
      BY <1>4, <2>0 DEF OwnSocket, Staging, Touches
    <2> QED BY <2>1, <2>3, <2>4, <2>5, <2>6
  <1> QED
    BY <1>1, <1>3, <1>4 DEF Settled

\* Nobody but the last to move, or the one it signalled, is between two operations.
LEMMA Closing ==
    ASSUME DaemonsFit', NEW z \in Processes, \A y \in Processes \ {z} : ~Busy(y)',
           \A y \in Processes : Settled(y)'
    PROVE  CleanInv'
  <1>1. Alone'
    BY DEF Alone
  <1> QED
    BY <1>1 DEF CleanInv

LEMMA OneMoves ==
    ASSUME CleanInv, DaemonsFit', NEW x \in Processes, \A y \in Processes \ {x} : ~Busy(y) /\ Same(y),
           Touches(x), Settled(x)'
    PROVE  CleanInv'
  <1>1. \A y \in Processes \ {x} : Settled(y)' /\ ~Busy(y)'
    BY OtherStays
  <1> QED
    BY <1>1, Closing

LEMMA ExecuteClean ==
    ASSUME CleanInv, NEW x \in Processes, \A y \in Processes \ {x} : ~Busy(y), Execute(x)
    PROVE  CleanInv'
  <1> DEFINE o == Head(script[x])
  <1>0. DaemonsFit /\ DaemonsFit' /\ Settled(x) /\ None \notin Processes
    BY ExecuteFits, Apart DEF CleanInv
  <1>1. script[x] \in Seq(Operation) /\ script[x] # <<>> /\ Todo(x) = Ops(script[x])
    BY <1>0 DEF DaemonsFit, Execute, Ready, Todo
  <1>2. Ops(script[x]) = {o} \cup Ops(Tail(script[x])) /\ o \in Operation
    BY <1>1, OpsOfTail
  <1>3. /\ sock' = IF o.kind = "sock" THEN [sock EXCEPT ![o.place] = None] ELSE sock
        /\ pid' = IF o.kind = "pid" THEN [pid EXCEPT ![o.place] = o.value] ELSE pid
        /\ script' = [script EXCEPT ![x] = Tail(@)]
        /\ UNCHANGED <<pc, gen, home, old, signal, drained>>
    BY DEF Execute, daemonVars
  <1>4. script'[x] = Tail(script[x]) /\ \A y \in Processes \ {x} : script'[y] = script[y]
    BY <1>0, <1>3 DEF DaemonsFit
  <1>5. Todo(x)' = Ops(Tail(script[x]))
    BY <1>4 DEF Todo
  <1>6. Todo(x) = {o} \cup Todo(x)'
    BY <1>1, <1>2, <1>5
  <1>7. /\ o.kind \in Kinds /\ o.place \in Places /\ Public \in Places /\ Staged \in Places
        /\ sock \in [Places -> (Daemons \X (1..MaxBinds)) \cup {None}] /\ pid \in [Places -> Daemons \cup {None}]
    BY <1>0, <1>2, PlacesApart DEF Operation, DaemonsFit, DaemonTypeOK
  <1> HIDE DEF o
  <1>8. Intention(x) /\ o \in Todo(x)
    BY <1>0, <1>6 DEF Settled
  <1>9. pid'[Public] = IF o.kind = "pid" /\ o.place = Public THEN o.value ELSE pid[Public]
    BY <1>3, <1>7
  <1>10. sock'[Public] = IF o.kind = "sock" /\ o.place = Public THEN None ELSE sock[Public]
    BY <1>3, <1>7
  <1>11. sock'[Staged] = IF o.kind = "sock" /\ o.place = Staged THEN None ELSE sock[Staged]
    BY <1>3, <1>7
  <1>12. o.kind = "pid" /\ o.place = Public /\ o.value # None =>
            x \in Daemons /\ o.value = x /\ home[x] = Public /\ pc[x] \in {"init", "signal", "serve"}
    BY <1>8 DEF Intention
  <1>13. o.kind = "sock" /\ o.place = Staged => \A d \in Daemons : ~Staging(d)
    BY <1>0, <1>8 DEF Settled, Clearing
  <1>14. Touches(x)
    BY <1>9, <1>11, <1>12, <1>13 DEF Touches
  <1>15. \A y \in Processes \ {x} : Same(y)
    BY <1>3, <1>4 DEF Same
  <1>16. Intention(x)'
    <2>1. x \in Daemons /\ script'[x] # <<>> => pc'[x] \in {"init", "rename", "signal", "serve", "leave"}
      BY <1>1, <1>3, <1>8 DEF Intention
    <2>2. x = Operator /\ pc'[x] = "stopping" => script'[x] = <<>>
      BY <1>1, <1>3, <1>8 DEF Intention
    <2> QED BY <1>3, <1>6, <1>8, <2>1, <2>2 DEF Intention
  <1>17. Clearing(x)' => \A d \in Daemons : ~Staging(d)'
    <2>1. Clearing(x)' => Clearing(x)
      BY <1>3, <1>6 DEF Clearing
    <2>2. \A d \in Daemons : Staging(d)' => Staging(d)
      BY <1>3 DEF Staging
    <2> QED BY <1>0, <2>1, <2>2 DEF Settled
  <1>18. ASSUME x \in Daemons PROVE (Career(x) /\ Named(x) /\ Relieved(x) /\ Promoted(x) /\ OwnSocket(x))'
    <2>0. Career(x) /\ Named(x) /\ Relieved(x) /\ Promoted(x) /\ OwnSocket(x)
      BY <1>0, <1>18 DEF Settled
    <2>1. Career(x)'
      BY <1>3, <2>0 DEF Career
    <2>2. Named(x)'
      <3>1. CASE o.kind = "pid" /\ o.place = Public
        <4>1. pid'[Public] = x => home[x] = Public /\ pc[x] \in {"init", "signal", "serve"}
          BY <1>0, <1>9, <1>12, <3>1
        <4>2. pid'[Public] = x => ~drained[x]
          BY <4>1, <2>0 DEF Career
        <4> QED BY <1>3, <4>1, <4>2 DEF Named
      <3>2. CASE ~(o.kind = "pid" /\ o.place = Public)
        <4>1. pid'[Public] = pid[Public]
          BY <1>9, <3>2
        <4>2. Rm("pid", Public) \in Todo(x) => Rm("pid", Public) \in Todo(x)'
          BY <1>6, <3>2, OpFields
        <4> QED BY <1>3, <2>0, <4>1, <4>2 DEF Named
      <3> QED BY <3>1, <3>2
    <2>3. Relieved(x)'
      BY <1>1, <1>3, <2>0 DEF Relieved
    <2>4. Promoted(x)'
      <3> SUFFICES ASSUME pc[x] = "signal", home[x] = Public
                   PROVE  /\ sock'[Public] # None
                          /\ pid'[Public] = x \/ Put("pid", Public, x) \in Todo(x)'
                          /\ \A q \in Todo(x)' : q.kind # "sock" /\ (q.kind = "pid" /\ q.place = Public => q.value = x)
        BY <1>3 DEF Promoted
      <3>1. /\ sock[Public] # None
            /\ pid[Public] = x \/ Put("pid", Public, x) \in Todo(x)
            /\ \A q \in Todo(x) : q.kind # "sock" /\ (q.kind = "pid" /\ q.place = Public => q.value = x)
        BY <2>0 DEF Promoted
      <3>2. o.kind # "sock" /\ (o.kind = "pid" /\ o.place = Public => o.value = x)
        BY <1>8, <3>1
      <3>3. pid'[Public] = x \/ Put("pid", Public, x) \in Todo(x)'
        BY <1>6, <1>9, <3>1, <3>2, OpFields
      <3> QED BY <1>6, <1>10, <3>1, <3>2, <3>3
    <2>5. OwnSocket(x)'
      BY <1>3, <1>11, <1>13, <1>18, <2>0 DEF OwnSocket, Staging
    <2> QED BY <2>1, <2>2, <2>3, <2>4, <2>5
  <1>19. Settled(x)'
    BY <1>16, <1>17, <1>18 DEF Settled
  <1> QED
    BY <1>0, <1>14, <1>15, <1>19, OneMoves

\* What an action of daemon d leaves alone.
LEMMA OnlyMe ==
    ASSUME DaemonsFit, NEW d \in Daemons, DaemonMove(d), ~SignalOld(d), NEW y \in Processes \ {d}
    PROVE  Same(y)
  <1>0. /\ pc \in [Processes -> DaemonPcs \cup ClientPcs] /\ script \in [Processes -> Seq(Operation)]
        /\ signal \in [Daemons -> SUBSET {"term", "usr2", "kill"}]
        /\ drained \in [Daemons -> BOOLEAN] /\ gen \in [Daemons -> 0..MaxBinds]
        /\ home \in [Daemons -> {Public, Staged}] /\ d \in Processes
    BY Apart DEF DaemonsFit, DaemonTypeOK
  <1>1. pc'[y] = pc[y]
    BY <1>0 DEF DaemonMove, DaemonStep, CheckSocket, Unlink, Bind, Initialized, InitializeFails, BeginPromotion,
                RetireSocket, PromoteSocket, PromoteFails, RepairIdentity, FindSocketMissing, Rebind, HandleTerm,
                HandleUsr2, IdleExit, Leaves, FinishStop, Leave, Accept, Exit, Goto
  <1>2. script'[y] = script[y]
    BY <1>0 DEF DaemonMove, DaemonStep, CheckSocket, Unlink, Bind, Initialized, InitializeFails, BeginPromotion,
                RetireSocket, PromoteSocket, PromoteFails, RepairIdentity, FindSocketMissing, Rebind, HandleTerm,
                HandleUsr2, IdleExit, Leaves, FinishStop, Leave, Accept, Exit, Ends, Plan
  <1>3. ASSUME y \in Daemons
        PROVE  /\ signal'[y] = signal[y] /\ drained'[y] = drained[y]
               /\ home'[y] = home[y] /\ old'[y] = old[y] /\ gen'[y] = gen[y]
    BY <1>0, <1>3
       DEF DaemonMove, DaemonStep, CheckSocket, Unlink, Bind, Initialized, InitializeFails, BeginPromotion,
           RetireSocket, PromoteSocket, PromoteFails, RepairIdentity, FindSocketMissing, Rebind, HandleTerm,
           HandleUsr2, IdleExit, Leaves, FinishStop, Leave, Accept, daemonVars
  <1> QED
    BY <1>1, <1>2, <1>3 DEF Same

\* A daemon that ends before it serves is not the one of the public pid file.
LEMMA ExitSettles ==
    ASSUME CleanInv, NEW d \in Daemons, Exit(d), UNCHANGED <<pid, signal, drained, home>>,
           pid[Public] = d => pc[d] = "leave" /\ script[d] = <<>>
    PROVE  Settled(d)'
  <1>0. pc'[d] = "dead" /\ script'[d] = <<>> /\ Career(d) /\ Named(d) /\ d \in Processes /\ d # Operator
    BY Apart DEF Exit, Ends, Plan, Goto, CleanInv, DaemonsFit, DaemonTypeOK, Settled
  <1>1. Todo(d)' = {}
    BY <1>0, OpsOf DEF Todo
  <1>2. Intention(d)' /\ ~Clearing(d)'
    BY <1>0, <1>1 DEF Intention, Clearing
  <1>3. Career(d)'
    BY <1>0 DEF Career, Before, Promoting
  <1>4. pid'[Public] # d
    BY <1>0, OpsOf DEF Named, Todo
  <1>5. Named(d)' /\ Relieved(d)' /\ Promoted(d)' /\ OwnSocket(d)'
    BY <1>0, <1>4 DEF Named, Relieved, Promoted, OwnSocket, Staging, Promoting
  <1> QED
    BY <1>2, <1>3, <1>5 DEF Settled

LEMMA StartingClean ==
    ASSUME CleanInv, NEW d \in Daemons, \A y \in Processes \ {d} : ~Busy(y),
           CheckSocket(d) \/ Unlink(d) \/ Bind(d) \/ Initialized(d) \/ InitializeFails(d)
    PROVE  CleanInv'
  <1>0. /\ DaemonsFit /\ DaemonsFit' /\ Settled(d) /\ d \in Processes /\ d # Operator /\ d # None
        /\ Career(d) /\ Named(d) /\ OwnSocket(d) /\ Intention(d)
        /\ \A e \in Daemons : OwnSocket(e)
    BY StartingFits, Apart DEF CleanInv, Settled
  <1>1. \A y \in Processes \ {d} : Same(y)
    BY <1>0, OnlyMe DEF DaemonMove, DaemonStep, CheckSocket, Unlink, Bind, Initialized, InitializeFails, SignalOld
  <1>2. /\ pc \in [Processes -> DaemonPcs \cup ClientPcs] /\ script \in [Processes -> Seq(Operation)]
        /\ gen \in [Daemons -> 0..MaxBinds] /\ home[d] \in {Public, Staged} /\ Public # Staged
        /\ sock \in [Places -> (Daemons \X (1..MaxBinds)) \cup {None}] /\ Public \in Places /\ Staged \in Places
    BY <1>0, PlacesApart DEF DaemonsFit, DaemonTypeOK
  <1>3. \A e \in Daemons \ {d} : Staging(e)' <=> Staging(e)
    BY <1>1, Apart DEF Same, Staging
  <1>4. CASE CheckSocket(d)
    <2>1. UNCHANGED <<sock, pid, signal, drained, home, gen, old>> /\ pc[d] = "start"
      BY <1>4 DEF CheckSocket, fileVars, daemonVars
    <2>2. pid[Public] # d
      BY <1>0, <2>1 DEF Named
    <2>3. Touches(d)
      BY <2>1 DEF Touches
    <2>4. CASE Connectable(home[d])
      BY <1>0, <1>1, <1>4, <2>1, <2>2, <2>3, <2>4, ExitSettles, OneMoves DEF CheckSocket
    <2>5. CASE ~Connectable(home[d])
      <3>1. pc'[d] \in {"bind", "unlink"} /\ script'[d] = script[d] /\ script[d] = <<>>
        BY <1>0, <1>2, <1>4, <2>1, <2>5 DEF CheckSocket, Goto, Intention
      <3>2. Todo(d)' = {}
        BY <3>1, OpsOf DEF Todo
      <3>3. Intention(d)'
        BY <1>0, <3>1, <3>2 DEF Intention
      <3>4. home[d] = Staged => \A e \in Daemons : ~Staging(e)
        <4> SUFFICES ASSUME home[d] = Staged, NEW e \in Daemons, Staging(e) PROVE FALSE
          OBVIOUS
        <4>1. sock[Staged] = <<e, 1>> /\ gen[e] = 1 /\ pc[e] \in {"init", "promote", "rename", "signal"}
          BY <1>0 DEF OwnSocket, Staging, Promoting
        <4>2. Alive(e) /\ sock[Staged] # None /\ sock[Staged][1] = e /\ sock[Staged][2] = 1
          <5>1. <<e, 1>> # None
            BY Bounds, ListenersFit
          <5> QED BY <4>1, <5>1, Apart DEF Alive
        <4> QED BY <2>5, <4>1, <4>2 DEF Connectable
      <3>5. Clearing(d)' => \A e \in Daemons : ~Staging(e)'
        BY <1>3, <2>1, <3>1, <3>2, <3>4 DEF Clearing, Staging, Promoting
      <3>6. Career(d)'
        BY <1>0, <2>1, <3>1 DEF Career, Before
      <3>7. Named(d)' /\ Relieved(d)' /\ Promoted(d)' /\ OwnSocket(d)'
        BY <2>1, <2>2, <3>1 DEF Named, Relieved, Promoted, OwnSocket, Staging, Promoting
      <3>8. Settled(d)'
        BY <3>3, <3>5, <3>6, <3>7 DEF Settled
      <3> QED BY <1>0, <1>1, <2>3, <3>8, OneMoves
    <2> QED BY <2>4, <2>5
  <1>5. CASE Unlink(d)
    <2>1. UNCHANGED <<pid, signal, drained, home, gen, old>> /\ pc[d] = "unlink"
      BY <1>5 DEF Unlink, fileVars, daemonVars
    <2>2. pid[Public] # d
      BY <1>0, <2>1 DEF Named
    <2>3. home[d] = Staged => \A e \in Daemons : ~Staging(e)
      BY <1>0, <2>1 DEF Settled, Clearing
    <2>4. home[d] # Staged => sock'[Staged] = sock[Staged]
      BY <1>2, <1>5 DEF Unlink, fileVars
    <2>5. Touches(d)
      BY <2>1, <2>3, <2>4 DEF Touches
    <2>6. CASE Exit(d)
      BY <1>0, <1>1, <2>1, <2>2, <2>5, <2>6, ExitSettles, OneMoves
    <2>7. CASE Goto(d, "bind") /\ UNCHANGED script
      <3>1. pc'[d] = "bind" /\ script'[d] = script[d] /\ script[d] = <<>>
        BY <1>0, <1>2, <2>1, <2>7 DEF Goto, Intention
      <3>2. Todo(d)' = {}
        BY <3>1, OpsOf DEF Todo
      <3>3. Intention(d)'
        BY <1>0, <3>1, <3>2 DEF Intention
      <3>5. Clearing(d)' => \A e \in Daemons : ~Staging(e)'
        BY <1>3, <2>1, <2>3, <3>1, <3>2 DEF Clearing, Staging, Promoting
      <3>6. Career(d)'
        BY <1>0, <2>1, <3>1 DEF Career, Before
      <3>7. Named(d)' /\ Relieved(d)' /\ Promoted(d)' /\ OwnSocket(d)'
        BY <2>1, <2>2, <3>1 DEF Named, Relieved, Promoted, OwnSocket, Staging, Promoting
      <3>8. Settled(d)'
        BY <3>3, <3>5, <3>6, <3>7 DEF Settled
      <3> QED BY <1>0, <1>1, <2>5, <3>8, OneMoves
    <2> QED BY <1>5, <2>6, <2>7 DEF Unlink
  <1>6. CASE Bind(d)
    <2>1. UNCHANGED <<pid, signal, drained, home, old>> /\ pc[d] = "bind"
      BY <1>6 DEF Bind, fileVars
    <2>2. pid[Public] # d
      BY <1>0, <2>1 DEF Named
    <2>3. home[d] = Staged => \A e \in Daemons : ~Staging(e)
      BY <1>0, <2>1 DEF Settled, Clearing
    <2>4. home[d] # Staged => sock'[Staged] = sock[Staged]
      BY <1>2, <1>6 DEF Bind, fileVars
    <2>5. Touches(d)
      BY <2>1, <2>3, <2>4 DEF Touches
    <2>6. CASE sock[home[d]] # None
      BY <1>0, <1>1, <1>6, <2>1, <2>2, <2>5, <2>6, ExitSettles, OneMoves DEF Bind
    <2>7. CASE sock[home[d]] = None
      <3>1. /\ pc'[d] = "init" /\ script'[d] = WriteIdentity(d) /\ gen'[d] = 1
            /\ sock'[home[d]] = <<d, 1>>
        BY <1>0, <1>2, <1>6, <2>7 DEF Bind, Plan, Goto
      <3>2. Todo(d)' = Ops(WriteIdentity(d))
        BY <3>1 DEF Todo
      <3>3. Todo(d)' = IF home[d] = Public THEN {Put("pid", Public, d), Put("info", Public, d)}
                       ELSE {Put("pid", Staged, d)}
        BY <3>2, OpsOfPlans
      <3>4. Intention(d)'
        BY <1>0, <1>2, <2>1, <3>1, <3>3, OpFields DEF Intention
      <3>5. ~Clearing(d)'
        BY <3>1, <3>3, OpFields DEF Clearing
      <3>6. Career(d)'
        BY <1>0, <2>1, <3>1 DEF Career, Before, Promoting
      <3>7. Named(d)' /\ Relieved(d)' /\ Promoted(d)'
        BY <2>1, <2>2, <3>1 DEF Named, Relieved, Promoted
      <3>8. OwnSocket(d)'
        BY <2>1, <3>1 DEF OwnSocket, Staging
      <3>9. Settled(d)'
        BY <3>4, <3>5, <3>6, <3>7, <3>8 DEF Settled
      <3> QED BY <1>0, <1>1, <2>5, <3>9, OneMoves
    <2> QED BY <2>6, <2>7
  <1>7. CASE Initialized(d)
    <2>1. UNCHANGED <<sock, pid, script, signal, drained, home, gen, old>> /\ pc[d] = "init" /\ script[d] = <<>>
      BY <1>7 DEF Initialized, Ready, fileVars, daemonVars
    <2>2. pc'[d] = IF home[d] = Public THEN "serve" ELSE "promote"
      BY <1>0, <1>2, <1>7, <2>1 DEF Initialized, Goto, Career, Before
    <2>3. Todo(d)' = {} /\ script'[d] = <<>>
      BY <2>1, OpsOf DEF Todo
    <2>4. signal[d] = {} /\ ~drained[d]
      BY <1>0, <2>1 DEF Career, Before
    <2>5. Intention(d)' /\ ~Clearing(d)'
      BY <1>0, <2>2, <2>3 DEF Intention, Clearing
    <2>6. Career(d)'
      BY <1>2, <2>1, <2>2, <2>4 DEF Career, Before, Promoting
    <2>7. Named(d)' /\ Relieved(d)' /\ Promoted(d)'
      BY <1>0, <1>2, <2>1, <2>2, <2>3, <2>4 DEF Named, Relieved, Promoted
    <2>8. OwnSocket(d)'
      BY <1>0, <2>1 DEF OwnSocket, Staging
    <2>9. Settled(d)' /\ Touches(d)
      BY <2>1, <2>5, <2>6, <2>7, <2>8 DEF Settled, Touches
    <2> QED BY <1>0, <1>1, <2>9, OneMoves
  <1>8. CASE InitializeFails(d)
    <2>1. UNCHANGED <<sock, pid, signal, drained, home, gen, old>> /\ pc[d] = "init"
      BY <1>8 DEF InitializeFails, fileVars, daemonVars
    <2>2. pc'[d] = "leave" /\ script'[d] = CleanupOwned(d)
      BY <1>0, <1>2, <1>8 DEF InitializeFails, Goto, Plan
    <2>3. Todo(d)' = IF pid[home[d]] # d THEN {}
                     ELSE IF home[d] = Public THEN {Rm("sock", Public), Rm("pid", Public), Rm("info", Public)}
                     ELSE {Rm("sock", Staged), Rm("pid", Staged)}
      <3>1. Todo(d)' = Ops(CleanupOwned(d))
        BY <2>2 DEF Todo
      <3> QED BY <3>1, OpsOfPlans
    <2>4. ~drained[d]
      BY <1>0, <2>1 DEF Career
    <2>5. Intention(d)'
      <3>1. \A o \in Todo(d)' : o.value = None
        BY <2>3, OpFields
      <3> QED BY <1>0, <2>2, <3>1 DEF Intention
    <2>6. Clearing(d)' => \A e \in Daemons : ~Staging(e)'
      <3>1. Clearing(d)' => home[d] = Staged
        BY <1>2, <2>1, <2>2, <2>3, OpFields DEF Clearing
      <3>2. home[d] = Staged => sock[Staged] = <<d, 1>>
        BY <1>0, <2>1 DEF OwnSocket, Staging
      <3>3. ~Staging(d)'
        BY <2>2 DEF Staging, Promoting
      <3>4. ASSUME NEW e \in Daemons \ {d}, home[d] = Staged PROVE ~Staging(e)
        BY <1>0, <3>2, <3>4 DEF OwnSocket
      <3> QED BY <1>3, <3>1, <3>3, <3>4
    <2>7. Career(d)'
      BY <2>1, <2>2, <2>4 DEF Career, Before, Promoting
    <2>8. Named(d)'
      BY <1>0, <2>1, <2>2, <2>3 DEF Named
    <2>9. Relieved(d)' /\ Promoted(d)' /\ OwnSocket(d)'
      BY <2>2 DEF Relieved, Promoted, OwnSocket, Staging, Promoting
    <2>10. Settled(d)' /\ Touches(d)
      BY <2>1, <2>5, <2>6, <2>7, <2>8, <2>9 DEF Settled, Touches
    <2> QED BY <1>0, <1>1, <2>10, OneMoves
  <1> QED
    BY <1>4, <1>5, <1>6, <1>7, <1>8

LEMMA PromotingClean ==
    ASSUME CleanInv, NEW d \in Daemons, \A y \in Processes \ {d} : ~Busy(y),
           BeginPromotion(d) \/ RetireSocket(d) \/ PromoteSocket(d)
    PROVE  CleanInv'
  <1>0. /\ DaemonsFit /\ DaemonsFit' /\ Settled(d) /\ d \in Processes /\ d # Operator /\ d # None
        /\ Career(d) /\ Named(d) /\ OwnSocket(d) /\ Intention(d)
        /\ \A e \in Daemons : OwnSocket(e)
    BY PromotingFits, Apart DEF CleanInv, Settled
  <1>1. \A y \in Processes \ {d} : Same(y)
    <2>1. ~SignalOld(d)
      BY PlacesApart DEF BeginPromotion, RetireSocket, PromoteSocket, SignalOld
    <2>2. DaemonMove(d)
      BY DEF DaemonMove, DaemonStep
    <2> QED BY <1>0, <2>1, <2>2, OnlyMe
  <1>2. /\ pc \in [Processes -> DaemonPcs \cup ClientPcs] /\ script \in [Processes -> Seq(Operation)]
        /\ home \in [Daemons -> {Public, Staged}] /\ Public # Staged
        /\ sock \in [Places -> (Daemons \X (1..MaxBinds)) \cup {None}] /\ Public \in Places /\ Staged \in Places
    BY <1>0, PlacesApart DEF DaemonsFit, DaemonTypeOK
  <1>3. pc[d] \in Promoting => old[d] \in Daemons
    BY <1>0 DEF DaemonsFit, DaemonTypeOK, Targeted, Promoting
  <1>4. CASE BeginPromotion(d)
    <2>1. UNCHANGED <<sock, pid, signal, drained, home, gen, old>> /\ pc[d] = "promote"
      BY <1>4 DEF BeginPromotion, fileVars
    <2>2. pid[Public] # d /\ Touches(d)
      BY <1>0, <2>1 DEF Named, Touches
    <2>3. CASE Exit(d)
      BY <1>0, <1>1, <2>1, <2>2, <2>3, ExitSettles, OneMoves
    <2>4. CASE Goto(d, "rename") /\ Plan(d, CleanupDrain(old[d]))
      <3>1. pc'[d] = "rename" /\ script'[d] = CleanupDrain(old[d])
        BY <1>0, <1>2, <2>4 DEF Goto, Plan
      <3>2. Todo(d)' = {Rm("sock", Drain(old[d])), Rm("pid", Drain(old[d]))}
        <4>1. Todo(d)' = Ops(CleanupDrain(old[d])) /\ old[d] \in Daemons
          BY <1>3, <2>1, <3>1 DEF Todo, Promoting
        <4> QED BY <4>1, OpsOfPlans
      <3>3. Intention(d)'
        BY <1>0, <3>1, <3>2, OpFields DEF Intention
      <3>4. ~Clearing(d)'
        BY <1>3, <2>1, <3>1, <3>2, OpFields, PlacesApart DEF Clearing, Promoting
      <3>5. Career(d)'
        BY <1>0, <2>1, <3>1 DEF Career, Before, Promoting
      <3>6. Named(d)' /\ Relieved(d)' /\ Promoted(d)'
        BY <2>1, <2>2, <3>1 DEF Named, Relieved, Promoted
      <3>7. OwnSocket(d)'
        BY <1>0, <2>1 DEF OwnSocket, Staging, Promoting
      <3>8. Settled(d)'
        BY <3>3, <3>4, <3>5, <3>6, <3>7 DEF Settled
      <3> QED BY <1>0, <1>1, <2>2, <3>8, OneMoves
    <2> QED BY <1>4, <2>3, <2>4 DEF BeginPromotion
  <1>5. CASE RetireSocket(d)
    <2>1. UNCHANGED <<pid, signal, drained, home, gen, old>> /\ pc[d] = "rename"
      BY <1>5 DEF RetireSocket, fileVars, daemonVars
    <2>2. pid[Public] # d
      BY <1>0, <2>1 DEF Named
    <2>3. sock'[Staged] = sock[Staged]
      <3>1. old[d] \in Daemons
        BY <1>3, <2>1 DEF Promoting
      <3> QED BY <1>2, <1>5, <3>1, PlacesApart DEF RetireSocket, fileVars
    <2>4. Touches(d)
      BY <2>1, <2>3 DEF Touches
    <2>5. CASE Exit(d)
      BY <1>0, <1>1, <2>1, <2>2, <2>4, <2>5, ExitSettles, OneMoves
    <2>6. CASE Goto(d, "signal") /\ Plan(d, <<Put("pid", Drain(old[d]), old[d])>>)
      <3>1. pc'[d] = "signal" /\ script'[d] = <<Put("pid", Drain(old[d]), old[d])>>
        BY <1>0, <1>2, <2>6 DEF Goto, Plan
      <3>2. Todo(d)' = {Put("pid", Drain(old[d]), old[d])}
        BY <3>1, OpsOf DEF Todo
      <3>3. old[d] \in Daemons
        BY <1>3, <2>1 DEF Promoting
      <3>4. Intention(d)'
        BY <1>0, <3>1, <3>2, <3>3, OpFields, PlacesApart DEF Intention
      <3>5. ~Clearing(d)'
        BY <3>1, <3>2, OpFields DEF Clearing
      <3>6. home[d] = Staged
        BY <1>0, <1>2, <2>1 DEF Career
      <3>7. Career(d)'
        BY <1>0, <2>1, <3>1 DEF Career, Before, Promoting
      <3>8. Named(d)' /\ Relieved(d)' /\ Promoted(d)'
        BY <1>2, <2>1, <2>2, <3>1, <3>6 DEF Named, Relieved, Promoted
      <3>9. OwnSocket(d)'
        BY <1>0, <2>1, <2>3, <3>6 DEF OwnSocket, Staging, Promoting
      <3>10. Settled(d)'
        BY <3>4, <3>5, <3>7, <3>8, <3>9 DEF Settled
      <3> QED BY <1>0, <1>1, <2>4, <3>10, OneMoves
    <2> QED BY <1>5, <2>5, <2>6 DEF RetireSocket
  <1>6. CASE PromoteSocket(d)
    <2>1. UNCHANGED <<pid, pc, signal, drained, gen, old>> /\ pc[d] = "signal" /\ home[d] = Staged
      BY <1>6 DEF PromoteSocket
    <2>2. pid[Public] # d
      BY <1>0, <1>2, <2>1 DEF Named
    <2>3. sock[Staged] = <<d, 1>>
      BY <1>0, <2>1 DEF OwnSocket, Staging, Promoting
    <2>4. /\ sock'[Public] = <<d, 1>> /\ home'[d] = Public
          /\ script'[d] = <<Put("pid", Public, d), Put("info", Public, d), Rm("pid", Staged)>>
      BY <1>0, <1>2, <1>6, <2>3 DEF PromoteSocket, Plan
    <2>5. sock'[Public] # None
      BY <2>4, Bounds, ListenersFit
    <2>6. \A e \in Daemons \ {d} : ~Staging(e)
      <3> SUFFICES ASSUME NEW e \in Daemons \ {d}, Staging(e) PROVE FALSE
        OBVIOUS
      <3>1. <<e, 1>> = <<d, 1>>
        BY <1>0, <2>3 DEF OwnSocket
      <3> QED BY <3>1
    <2>7. Touches(d)
      BY <2>1, <2>6 DEF Touches
    <2>8. Todo(d)' = {Put("pid", Public, d), Put("info", Public, d), Rm("pid", Staged)}
      BY <2>4, OpsOfPlans DEF Todo
    <2>9. Intention(d)'
      BY <1>0, <2>1, <2>4, <2>8, OpFields DEF Intention
    <2>10. ~Clearing(d)'
      BY <2>1, <2>8, OpFields DEF Clearing
    <2>11. Career(d)'
      BY <1>0, <1>2, <2>1, <2>4 DEF Career, Before, Promoting
    <2>12. Named(d)' /\ Relieved(d)'
      BY <2>1, <2>2 DEF Named, Relieved
    <2>13. Promoted(d)'
      BY <1>2, <2>1, <2>4, <2>5, <2>8, OpFields DEF Promoted
    <2>14. OwnSocket(d)'
      BY <1>2, <2>4 DEF OwnSocket, Staging
    <2>15. Settled(d)'
      BY <2>9, <2>10, <2>11, <2>12, <2>13, <2>14 DEF Settled
    <2> QED BY <1>0, <1>1, <2>7, <2>15, OneMoves
  <1> QED
    BY <1>4, <1>5, <1>6

LEMMA LoopClean ==
    ASSUME CleanInv, NEW d \in Daemons, \A y \in Processes \ {d} : ~Busy(y),
           \/ RepairIdentity(d) \/ FindSocketMissing(d) \/ Rebind(d) \/ HandleTerm(d) \/ HandleUsr2(d)
           \/ IdleExit(d) \/ FinishStop(d) \/ Leave(d) \/ \E c \in Clients : Accept(d, c)
    PROVE  CleanInv'
  <1>0. /\ DaemonsFit /\ DaemonsFit' /\ Settled(d) /\ d \in Processes /\ d # Operator /\ d # None
        /\ Career(d) /\ Named(d) /\ OwnSocket(d) /\ Intention(d) /\ Relieved(d)
    BY LoopFits, Apart DEF CleanInv, Settled
  <1>1. \A y \in Processes \ {d} : Same(y)
    BY <1>0, OnlyMe DEF DaemonMove, DaemonStep, RepairIdentity, FindSocketMissing, Rebind, HandleTerm, HandleUsr2,
                        IdleExit, FinishStop, Leave, Accept, InLoop, SignalOld
  <1>2. /\ pc \in [Processes -> DaemonPcs \cup ClientPcs] /\ script \in [Processes -> Seq(Operation)]
        /\ home \in [Daemons -> {Public, Staged}] /\ Public # Staged /\ drained \in [Daemons -> BOOLEAN]
        /\ sock \in [Places -> (Daemons \X (1..MaxBinds)) \cup {None}] /\ Public \in Places /\ Staged \in Places
    BY <1>0, PlacesApart DEF DaemonsFit, DaemonTypeOK
  <1>3. pc[d] \in {"serve", "rebind", "stopping"} => home[d] = Public
    BY <1>0, <1>2 DEF Career, Before, Promoting
  <1>4. CASE RepairIdentity(d)
    <2>1. /\ UNCHANGED <<sock, pid, pc, signal, drained, home, gen, old>> /\ pc[d] = "serve" /\ pid[Public] = None
          /\ script'[d] = WriteIdentity(d)
      BY <1>0, <1>2, <1>4 DEF RepairIdentity, InLoop, Plan, fileVars, daemonVars
    <2>2. home[d] = Public /\ "usr2" \notin signal[d]
      BY <1>0, <1>3, <2>1 DEF Relieved
    <2>3. Todo(d)' = {Put("pid", Public, d), Put("info", Public, d)}
      BY <2>1, <2>2, OpsOfPlans DEF Todo
    <2>4. Intention(d)' /\ ~Clearing(d)'
      BY <1>0, <2>1, <2>2, <2>3, OpFields DEF Intention, Clearing
    <2>5. Career(d)' /\ Named(d)' /\ Relieved(d)' /\ Promoted(d)'
      BY <1>0, <2>1, <2>2 DEF Career, Named, Relieved, Promoted
    <2>6. OwnSocket(d)' /\ Touches(d)
      BY <1>0, <2>1 DEF OwnSocket, Staging, Touches
    <2>7. Settled(d)'
      BY <2>4, <2>5, <2>6 DEF Settled
    <2> QED BY <1>0, <1>1, <2>6, <2>7, OneMoves
  <1>5. CASE FindSocketMissing(d)
    <2>1. /\ UNCHANGED <<sock, pid, script, signal, drained, home, gen, old>> /\ pc[d] = "serve" /\ sock[Public] = None
          /\ script[d] = <<>> /\ pc'[d] = "rebind"
      BY <1>0, <1>2, <1>5 DEF FindSocketMissing, InLoop, Ready, Goto, fileVars, daemonVars
    <2>2. home[d] = Public /\ "usr2" \notin signal[d]
      BY <1>0, <1>3, <2>1 DEF Relieved
    <2>3. Todo(d)' = {} /\ script'[d] = <<>>
      BY <2>1, OpsOf DEF Todo
    <2>4. Intention(d)' /\ ~Clearing(d)'
      BY <1>0, <2>1, <2>3 DEF Intention, Clearing
    <2>5. Career(d)'
      BY <1>0, <1>2, <2>1, <2>2 DEF Career, Before, Promoting
    <2>6. Named(d)' /\ Relieved(d)' /\ Promoted(d)'
      BY <1>0, <2>1, <2>2 DEF Named, Relieved, Promoted
    <2>7. OwnSocket(d)' /\ Touches(d)
      BY <2>1 DEF OwnSocket, Staging, Touches, Promoting
    <2>8. Settled(d)'
      BY <2>4, <2>5, <2>6, <2>7 DEF Settled
    <2> QED BY <1>0, <1>1, <2>7, <2>8, OneMoves
  <1>6. CASE Rebind(d)
    <2>1. UNCHANGED <<pid, signal, drained, home, old>> /\ pc[d] = "rebind" /\ pc'[d] = "serve"
      BY <1>0, <1>2, <1>6 DEF Rebind, Goto
    <2>2. home[d] = Public /\ "usr2" \notin signal[d] /\ sock'[Staged] = sock[Staged]
      BY <1>0, <1>2, <1>3, <1>6, <2>1 DEF Relieved, Rebind
    <2>3. script'[d] = <<>> \/ script'[d] = WriteIdentity(d)
      <3>1. script[d] = <<>>
        BY <1>0, <2>1 DEF Intention
      <3> QED BY <1>0, <1>2, <1>6, <3>1 DEF Rebind, Plan
    <2>4. Todo(d)' \subseteq {Put("pid", Public, d), Put("info", Public, d)}
      BY <2>2, <2>3, OpsOf, OpsOfPlans DEF Todo
    <2>5. Intention(d)' /\ ~Clearing(d)'
      BY <1>0, <2>1, <2>2, <2>4, OpFields DEF Intention, Clearing
    <2>6. Career(d)'
      BY <1>0, <1>2, <2>1, <2>2 DEF Career, Before, Promoting
    <2>7. Named(d)' /\ Relieved(d)' /\ Promoted(d)'
      BY <1>0, <2>1, <2>2 DEF Named, Relieved, Promoted
    <2>8. OwnSocket(d)' /\ Touches(d)
      BY <2>1, <2>2 DEF OwnSocket, Staging, Touches, Promoting
    <2>9. Settled(d)'
      BY <2>5, <2>6, <2>7, <2>8 DEF Settled
    <2> QED BY <1>0, <1>1, <2>8, <2>9, OneMoves
  <1>7. CASE HandleTerm(d) \/ HandleUsr2(d) \/ IdleExit(d)
    <2>1. /\ UNCHANGED <<sock, pid, script, signal, home, gen, old>> /\ pc[d] = "serve" /\ script[d] = <<>>
          /\ pc'[d] = "stopping"
      BY <1>0, <1>2, <1>7 DEF HandleTerm, HandleUsr2, IdleExit, Leaves, InLoop, Ready, Goto, fileVars
    <2>2. drained'[d] => drained[d] \/ "usr2" \in signal[d]
      BY <1>0, <1>7 DEF HandleTerm, HandleUsr2, IdleExit
    <2>3. pid[Public] = d => ~drained'[d]
      BY <1>0, <2>1, <2>2 DEF Relieved, Named
    <2>4. Todo(d)' = {} /\ script'[d] = <<>> /\ home[d] = Public
      BY <1>3, <2>1, OpsOf DEF Todo
    <2>5. Intention(d)' /\ ~Clearing(d)'
      BY <1>0, <2>1, <2>4 DEF Intention, Clearing
    <2>6. Career(d)'
      BY <1>0, <1>2, <2>1, <2>4 DEF Career, Before, Promoting
    <2>7. Named(d)' /\ Relieved(d)' /\ Promoted(d)'
      BY <1>0, <2>1, <2>3, <2>4 DEF Named, Relieved, Promoted
    <2>8. OwnSocket(d)' /\ Touches(d)
      BY <2>1 DEF OwnSocket, Staging, Touches, Promoting
    <2>9. Settled(d)'
      BY <2>5, <2>6, <2>7, <2>8 DEF Settled
    <2> QED BY <1>0, <1>1, <2>8, <2>9, OneMoves
  <1>8. CASE FinishStop(d)
    <2>1. UNCHANGED <<sock, pid, signal, drained, home, gen, old>> /\ pc[d] = "stopping" /\ pc'[d] = "leave"
      BY <1>0, <1>2, <1>8 DEF FinishStop, Goto, fileVars, daemonVars
    <2>2. script'[d] = IF drained[d] THEN CleanupDrain(d) ELSE CleanupOwned(d)
      BY <1>0, <1>2, <1>8 DEF FinishStop, Plan
    <2>3. home[d] = Public
      BY <1>3, <2>1
    <2>4. Todo(d)' = IF drained[d] THEN {Rm("sock", Drain(d)), Rm("pid", Drain(d))}
                     ELSE IF pid[Public] # d THEN {}
                     ELSE {Rm("sock", Public), Rm("pid", Public), Rm("info", Public)}
      BY <2>2, <2>3, OpsOfPlans DEF Todo
    <2>5. \A o \in Todo(d)' : o.value = None /\ (o.kind = "sock" => o.place # Staged)
      BY <1>2, <2>4, OpFields, PlacesApart
    <2>6. Intention(d)' /\ ~Clearing(d)'
      BY <1>0, <2>1, <2>5 DEF Intention, Clearing
    <2>7. Career(d)'
      BY <1>0, <1>2, <2>1, <2>3 DEF Career, Before, Promoting
    <2>8. Named(d)' /\ Relieved(d)' /\ Promoted(d)'
      BY <1>0, <2>1, <2>3, <2>4 DEF Named, Relieved, Promoted
    <2>9. OwnSocket(d)' /\ Touches(d)
      BY <2>1 DEF OwnSocket, Staging, Touches, Promoting
    <2>10. Settled(d)'
      BY <2>6, <2>7, <2>8, <2>9 DEF Settled
    <2> QED BY <1>0, <1>1, <2>9, <2>10, OneMoves
  <1>9. CASE Leave(d)
    <2>1. UNCHANGED <<sock, pid, signal, drained, home>> /\ pc[d] = "leave" /\ script[d] = <<>> /\ Exit(d)
      BY <1>9 DEF Leave, Ready, fileVars, daemonVars
    <2>2. Touches(d)
      BY <2>1 DEF Touches
    <2> QED BY <1>0, <1>1, <2>1, <2>2, ExitSettles, OneMoves
  <1>10. CASE \E c \in Clients : Accept(d, c)
    <2>1. UNCHANGED <<sock, pid, pc, script, signal, drained, home, gen, old>>
      BY <1>10 DEF Accept, fileVars, daemonVars
    <2>2. Settled(d)'
      BY <1>0, <2>1
         DEF Settled, Intention, Clearing, Staging, Career, Named, Relieved, Promoted, OwnSocket, Todo
    <2> QED BY <1>0, <1>1, <2>1, <2>2, OneMoves DEF Touches
  <1> QED
    BY <1>4, <1>5, <1>6, <1>7, <1>8, <1>9, <1>10

\* A daemon is killed, told something it has a handler for, or spawned; a client moves.
LEMMA KilledSettles ==
    ASSUME CleanInv, NEW d \in Daemons, pc'[d] = "dead", script'[d] = <<>>, "kill" \in signal'[d],
           UNCHANGED <<pid, home, drained>>
    PROVE  Settled(d)' /\ ~Busy(d)'
  <1>0. Career(d) /\ Named(d) /\ d # Operator
    BY Apart DEF CleanInv, Settled
  <1>1. Todo(d)' = {}
    BY OpsOf DEF Todo
  <1>2. Intention(d)' /\ ~Clearing(d)' /\ ~Busy(d)'
    BY <1>0, <1>1 DEF Intention, Clearing, Busy, Ready
  <1>3. Career(d)'
    BY <1>0 DEF Career, Before, Promoting
  <1>4. Named(d)' /\ Relieved(d)' /\ Promoted(d)' /\ OwnSocket(d)'
    BY <1>0 DEF Named, Relieved, Promoted, OwnSocket, Staging, Promoting
  <1> QED
    BY <1>2, <1>3, <1>4 DEF Settled

LEMMA ToldSettles ==
    ASSUME CleanInv, NEW d \in Daemons, ~Busy(d), Handles(d), NEW kind, signal'[d] = signal[d] \cup {kind},
           \/ kind = "term"
           \/ kind = "usr2" /\ pid[Public] \notin {d, None} /\ sock[Public] # None,
           pc'[d] = pc[d], script'[d] = script[d], UNCHANGED <<sock, pid, home, drained, old, gen>>
    PROVE  Settled(d)'
  <1>0. /\ Career(d) /\ Named(d) /\ OwnSocket(d) /\ d # Operator /\ script[d] = <<>>
        /\ pc[d] \in {"serve", "stopping", "leave"} /\ (pc[d] = "serve" => signal[d] = {})
    BY Apart DEF CleanInv, Settled, Busy, Handles, Ready
  <1>1. Todo(d)' = {} /\ Todo(d) = {}
    BY <1>0, OpsOf DEF Todo
  <1>2. Intention(d)' /\ ~Clearing(d)'
    BY <1>0, <1>1 DEF Intention, Clearing
  <1>3. Career(d)'
    BY <1>0 DEF Career, Before, Promoting
  <1>4. Named(d)'
    BY <1>0, <1>1 DEF Named
  <1>5. Relieved(d)'
    BY <1>0 DEF Relieved
  <1>6. Promoted(d)' /\ OwnSocket(d)'
    BY <1>0 DEF Promoted, OwnSocket, Staging, Promoting
  <1> QED
    BY <1>2, <1>3, <1>4, <1>5, <1>6 DEF Settled

LEMMA SpawnSettles ==
    ASSUME CleanInv, NEW d \in Daemons, ~Busy(d), NEW replaces, Spawn(d, "start", replaces),
           pc'[d] = "start", script'[d] = script[d], UNCHANGED <<sock, pid>>
    PROVE  Settled(d)' /\ ~Busy(d)'
  <1>0. /\ Career(d) /\ Named(d) /\ d # Operator /\ script[d] = <<>> /\ pc[d] = "none" /\ Public # Staged
        /\ home \in [Daemons -> {Public, Staged}] /\ old \in [Daemons -> Daemons \cup {None}]
    BY Apart, PlacesApart DEF CleanInv, Settled, Busy, Ready, Spawn, DaemonsFit, DaemonTypeOK
  <1>1. Todo(d)' = {}
    BY <1>0, OpsOf DEF Todo
  <1>2. /\ old'[d] = replaces /\ home'[d] = IF replaces = None THEN Public ELSE Staged
        /\ UNCHANGED <<signal, drained>>
    BY <1>0 DEF Spawn
  <1>3. pid[Public] # d
    BY <1>0 DEF Named
  <1>4. Intention(d)' /\ ~Clearing(d)' /\ ~Busy(d)'
    BY <1>0, <1>1 DEF Intention, Clearing, Busy, Ready
  <1>5. Career(d)'
    BY <1>0, <1>2 DEF Career, Before, Promoting
  <1>6. Named(d)' /\ Relieved(d)' /\ Promoted(d)' /\ OwnSocket(d)'
    BY <1>3 DEF Named, Relieved, Promoted, OwnSocket, Staging, Promoting
  <1> QED
    BY <1>4, <1>5, <1>6 DEF Settled

LEMMA ClientSettles ==
    ASSUME CleanInv, NEW c \in Clients, \A d \in Daemons : Staging(d)' => Staging(d),
           script'[c] = script[c] \/ \A o \in Todo(c)' : o.value = None /\ o.place # Staged,
           c = Operator /\ pc'[c] = "stopping" => script'[c] = <<>>
    PROVE  Settled(c)'
  <1>0. Settled(c) /\ c \notin Daemons
    BY Apart DEF CleanInv
  <1>1. CASE script'[c] = script[c]
    <2>1. Todo(c)' = Todo(c)
      BY <1>1 DEF Todo
    <2> QED BY <1>0, <2>1 DEF Settled, Intention, Clearing
  <1>2. CASE \A o \in Todo(c)' : o.value = None /\ o.place # Staged
    BY <1>0, <1>2 DEF Settled, Intention, Clearing
  <1> QED
    BY <1>1, <1>2

LEMMA CrashClean ==
    ASSUME CleanInv, NEW x \in Processes, \A y \in Processes \ {x} : ~Busy(y), Crash(x)
    PROVE  CleanInv'
  <1>0. /\ DaemonsFit /\ DaemonsFit' /\ signal \in [Daemons -> SUBSET {"term", "usr2", "kill"}]
        /\ pc \in [Processes -> DaemonPcs \cup ClientPcs] /\ script \in [Processes -> Seq(Operation)]
    BY CrashFits DEF CleanInv, DaemonsFit, DaemonTypeOK
  <1>1. UNCHANGED <<sock, pid, home, old, gen, drained>> /\ script'[x] = <<>>
    BY <1>0 DEF Crash, Ends, Plan, fileVars
  <1>2. \A y \in Processes \ {x} : Same(y)
    <2> SUFFICES ASSUME NEW y \in Processes \ {x} PROVE Same(y)
      OBVIOUS
    <2>1. pc'[y] = pc[y] /\ script'[y] = script[y]
      BY <1>0 DEF Crash, Goto, Ends, Plan
    <2>2. y \in Daemons => signal'[y] = signal[y]
      BY <1>0 DEF Crash
    <2> QED BY <1>1, <2>1, <2>2 DEF Same
  <1>3. Touches(x)
    BY <1>1 DEF Touches
  <1>4. CASE x \in Daemons
    <2>1. pc'[x] = "dead" /\ "kill" \in signal'[x]
      BY <1>0, <1>4, Apart DEF Crash, Goto
    <2> QED BY <1>0, <1>1, <1>2, <1>3, <1>4, <2>1, KilledSettles, OneMoves
  <1>5. CASE x \in Proxies
    <2>1. \A d \in Daemons : Staging(d)' <=> Staging(d)
      BY <1>2, <1>5, Apart DEF Same, Staging
    <2>2. Todo(x)' = {} /\ x \in Clients /\ x # Operator
      BY <1>1, <1>5, OpsOf, Apart DEF Todo
    <2>3. Settled(x)'
      BY <2>1, <2>2, ClientSettles
    <2> QED BY <1>0, <1>2, <1>3, <2>3, OneMoves
  <1> QED
    BY <1>4, <1>5 DEF Crash

LEMMA SignalOldClean ==
    ASSUME CleanInv, NEW d \in Daemons, \A y \in Processes \ {d} : ~Busy(y), SignalOld(d)
    PROVE  CleanInv'
  <1>00. PICK o \in Daemons : o = old[d]
    BY DEF CleanInv, SignalOld, DaemonsFit, DaemonTypeOK, Targeted
  <1> DEFINE sent == noted[d] /\ Alive(o)
             killed == sent /\ ~Handles(o)
  <1>0. /\ DaemonsFit /\ DaemonsFit' /\ Settled(d) /\ d \in Processes /\ d # Operator /\ d # None
        /\ Career(d) /\ Named(d) /\ OwnSocket(d) /\ Intention(d) /\ Promoted(d)
        /\ pc \in [Processes -> DaemonPcs \cup ClientPcs] /\ script \in [Processes -> Seq(Operation)]
        /\ signal \in [Daemons -> SUBSET {"term", "usr2", "kill"}] /\ Public # Staged
    <2>1. DaemonsFit /\ DaemonsFit' /\ d \in Processes /\ d # Operator /\ d # None /\ Public # Staged
      BY SignalOldFits, Apart, PlacesApart DEF CleanInv
    <2>2. Settled(d)
      BY <2>1 DEF CleanInv
    <2> QED BY <2>1, <2>2 DEF Settled, DaemonsFit, DaemonTypeOK
  <1>1. o \in Daemons /\ o \in Processes
    BY Apart
  <1>2. /\ pc[d] = "signal" /\ home[d] = Public /\ script[d] = <<>>
        /\ signal' = IF sent THEN [signal EXCEPT ![o] = @ \cup {IF killed THEN "kill" ELSE "usr2"}] ELSE signal
        /\ pc' = [pc EXCEPT ![d] = "serve", ![o] = IF killed THEN "dead" ELSE @]
        /\ script' = [script EXCEPT ![o] = IF killed THEN <<>> ELSE @]
        /\ UNCHANGED <<sock, pid, gen, home, old, drained>>
    BY <1>00 DEF SignalOld, Ready, fileVars
  <1>3. o = d => ~Handles(o)
    BY <1>2 DEF Handles
  <1>4. sent /\ ~killed => Handles(o)
    OBVIOUS
  <1>5. ~sent => ~killed
    OBVIOUS
  <1> HIDE DEF sent, killed
  <1>6. \A y \in Processes \ {d, o} : Same(y)
    BY <1>0, <1>1, <1>2 DEF Same
  <1>7. Touches(d)
    BY <1>2 DEF Touches
  <1>8. \A y \in Processes \ {d, o} : Settled(y)' /\ ~Busy(y)'
    BY <1>0, <1>6, <1>7, OtherStays
  <1>9. signal[d] = {} /\ ~drained[d] /\ Todo(d) = {}
    BY <1>0, <1>2, OpsOf DEF Career, Before, Promoting, Todo
  <1>10. pid[Public] = d /\ sock[Public] # None
    BY <1>0, <1>2, <1>9 DEF Promoted
  <1>11. ASSUME pc'[d] = "serve", script'[d] = <<>>, signal'[d] = {} PROVE Settled(d)' /\ ~Busy(d)'
    <2>1. Todo(d)' = {}
      BY <1>11, OpsOf DEF Todo
    <2>2. Intention(d)' /\ ~Clearing(d)' /\ ~Busy(d)'
      BY <1>0, <1>11, <2>1 DEF Intention, Clearing, Busy, Ready
    <2>3. Career(d)'
      BY <1>0, <1>2, <1>9, <1>11 DEF Career, Before, Promoting
    <2>4. Named(d)' /\ Relieved(d)' /\ Promoted(d)' /\ OwnSocket(d)'
      BY <1>0, <1>2, <1>9, <1>11 DEF Named, Relieved, Promoted, OwnSocket, Staging, Promoting
    <2> QED BY <2>2, <2>3, <2>4 DEF Settled
  <1>12. CASE killed
    <2>1. pc'[o] = "dead" /\ script'[o] = <<>> /\ "kill" \in signal'[o]
      BY <1>0, <1>1, <1>2, <1>5, <1>12
    <2>2. Settled(o)' /\ ~Busy(o)'
      BY <1>1, <1>2, <2>1, KilledSettles
    <2>3. d # o => pc'[d] = "serve" /\ script'[d] = <<>> /\ signal'[d] = {}
      BY <1>0, <1>1, <1>2, <1>9
    <2>4. \A y \in Processes : Settled(y)' /\ ~Busy(y)'
      BY <1>8, <1>11, <2>2, <2>3
    <2> QED BY <1>0, <2>4, Closing
  <1>13. CASE ~sent
    <2>1. pc'[d] = "serve" /\ script'[d] = <<>> /\ signal'[d] = {}
      BY <1>0, <1>1, <1>2, <1>5, <1>9, <1>13
    <2>2. o # d => Same(o)
      BY <1>0, <1>1, <1>2, <1>5, <1>13 DEF Same
    <2>3. o # d => Settled(o)' /\ ~Busy(o)'
      BY <1>0, <1>1, <1>7, <2>2, OtherStays
    <2>4. \A y \in Processes : Settled(y)' /\ ~Busy(y)'
      BY <1>8, <1>11, <2>1, <2>3
    <2> QED BY <1>0, <2>4, Closing
  <1>14. CASE sent /\ ~killed
    <2>1. Handles(o) /\ o # d /\ ~Busy(o)
      BY <1>1, <1>3, <1>4, <1>14
    <2>2. pc'[d] = "serve" /\ script'[d] = <<>> /\ signal'[d] = {}
      BY <1>0, <1>1, <1>2, <1>9, <1>14, <2>1
    <2>3. pc'[o] = pc[o] /\ script'[o] = script[o] /\ signal'[o] = signal[o] \cup {"usr2"}
      BY <1>0, <1>1, <1>2, <1>14, <2>1
    <2>4. Settled(o)'
      BY <1>0, <1>1, <1>2, <1>10, <2>1, <2>3, ToldSettles
    <2>5. \A y \in Processes : Settled(y)'
      BY <1>8, <1>11, <2>2, <2>4
    <2>6. \A y \in Processes \ {o} : ~Busy(y)'
      BY <1>8, <1>11, <2>2
    <2> QED BY <1>0, <1>1, <2>5, <2>6, Closing
  <1> QED
    BY <1>12, <1>13, <1>14

\* A client moves alone, or spawns a daemon.
LEMMA ClientMoves ==
    ASSUME CleanInv, DaemonsFit', NEW c \in Clients, \A y \in Processes \ {c} : ~Busy(y),
           UNCHANGED <<sock, pid, signal, drained, gen>>, \A y \in Processes \ {c} : script'[y] = script[y],
           script'[c] = script[c] \/ \A o \in Todo(c)' : o.value = None /\ o.place # Staged,
           c = Operator /\ pc'[c] = "stopping" => script'[c] = <<>>,
           \/ UNCHANGED <<home, old>> /\ \A y \in Processes \ {c} : pc'[y] = pc[y]
           \/ \E d \in Daemons, replaces \in Daemons \cup {None}, label \in ClientPcs :
                Spawn(d, "start", replaces) /\ pc' = [pc EXCEPT ![d] = "start", ![c] = label]
    PROVE  CleanInv'
  <1>0. /\ c \in Processes /\ c \notin Daemons /\ Touches(c)
        /\ pc \in [Processes -> DaemonPcs \cup ClientPcs]
        /\ old \in [Daemons -> Daemons \cup {None}] /\ home \in [Daemons -> {Public, Staged}]
    BY Apart DEF Touches, CleanInv, DaemonsFit, DaemonTypeOK
  <1>1. CASE UNCHANGED <<home, old>> /\ \A y \in Processes \ {c} : pc'[y] = pc[y]
    <2>1. \A y \in Processes \ {c} : Same(y)
      BY <1>1 DEF Same
    <2>2. \A d \in Daemons : Staging(d)' => Staging(d)
      BY <1>0, <1>1, Apart DEF Staging
    <2>3. Settled(c)'
      BY <2>2, ClientSettles
    <2> QED BY <1>0, <2>1, <2>3, OneMoves
  <1>2. ASSUME NEW d \in Daemons, NEW replaces \in Daemons \cup {None}, NEW label \in ClientPcs,
               Spawn(d, "start", replaces), pc' = [pc EXCEPT ![d] = "start", ![c] = label]
        PROVE  CleanInv'
    <2>1. d \in Processes /\ d # c /\ ~Busy(d) /\ pc'[d] = "start" /\ script'[d] = script[d]
      BY <1>0, <1>2, Apart
    <2>2. Settled(d)' /\ ~Busy(d)'
      BY <1>2, <2>1, SpawnSettles
    <2>3. \A y \in Processes \ {c, d} : Same(y)
      BY <1>0, <1>2 DEF Same, Spawn
    <2>4. \A y \in Processes \ {c, d} : Settled(y)' /\ ~Busy(y)'
      BY <1>0, <2>3, OtherStays
    <2>5. \A e \in Daemons : Staging(e)' => Staging(e)
      <3> SUFFICES ASSUME NEW e \in Daemons, Staging(e)' PROVE Staging(e)
        OBVIOUS
      <3>1. e # d
        BY <2>1 DEF Staging, Promoting
      <3> QED BY <1>0, <2>3, <3>1, Apart DEF Staging, Same
    <2>6. Settled(c)'
      BY <2>5, ClientSettles
    <2>7. \A y \in Processes : Settled(y)'
      BY <2>2, <2>4, <2>6
    <2> QED BY <1>0, <2>2, <2>4, <2>7, Closing
  <1> QED
    BY <1>1, <1>2

LEMMA ProxyClean ==
    ASSUME CleanInv, NEW p \in Proxies, \A y \in Processes \ {p} : ~Busy(y), ProxyMove(p)
    PROVE  CleanInv'
  <1>0. /\ DaemonsFit' /\ p \in Clients /\ p \in Processes /\ p # Operator /\ p \notin Daemons /\ Public # Staged
        /\ pc \in [Processes -> DaemonPcs \cup ClientPcs] /\ script \in [Processes -> Seq(Operation)]
    BY ProxyFits, Apart, PlacesApart DEF CleanInv, DaemonsFit, DaemonTypeOK
  <1>1. CASE SpawnDaemon(p)
    <2>1. /\ UNCHANGED <<sock, pid, script>>
          /\ \E d \in Daemons : Spawn(d, "start", None) /\ pc' = [pc EXCEPT ![d] = "start", ![p] = "wait"]
      BY <1>1 DEF SpawnDaemon, fileVars
    <2>2. UNCHANGED <<signal, drained, gen>> /\ "wait" \in ClientPcs
      BY <2>1 DEF Spawn, ClientPcs
    <2> QED BY <1>0, <2>1, <2>2, ClientMoves
  <1>2. CASE CheckStale(p)
    <2>1. /\ UNCHANGED <<sock, pid, signal, drained, gen, home, old>>
          /\ script' = [script EXCEPT ![p] = IF Stale THEN <<Rm("sock", Public), Rm("pid", Public)>> ELSE <<>>]
          /\ \A y \in Processes \ {p} : pc'[y] = pc[y]
      BY <1>0, <1>2 DEF CheckStale, Goto, Plan, fileVars, daemonVars
    <2>2. script'[p] \in {<<Rm("sock", Public), Rm("pid", Public)>>, <<>>} /\ \A y \in Processes \ {p} : script'[y] = script[y]
      BY <1>0, <2>1
    <2>3. Todo(p)' \subseteq {Rm("sock", Public), Rm("pid", Public)}
      BY <2>2, OpsOf DEF Todo
    <2>4. \A o \in Todo(p)' : o.value = None /\ o.place # Staged
      BY <1>0, <2>3, OpFields
    <2> QED BY <1>0, <2>1, <2>2, <2>4, ClientMoves
  <1>3. CASE Disconnect(p)
    <2>1. /\ UNCHANGED <<sock, pid, signal, drained, gen, home, old>>
          /\ script'[p] = <<>> /\ \A y \in Processes \ {p} : pc'[y] = pc[y] /\ script'[y] = script[y]
      BY <1>0, <1>3 DEF Disconnect, Goto, Ends, Plan, fileVars, daemonVars
    <2>2. Todo(p)' = {}
      BY <2>1, OpsOf DEF Todo
    <2> QED BY <1>0, <2>1, <2>2, ClientMoves
  <1>4. CASE ConnectTo(p) \/ NotConnectable(p) \/ TryLock(p) \/ GiveUp(p) \/ Lost(p)
    <2>1. /\ UNCHANGED <<sock, pid, signal, drained, gen, home, old, script>>
          /\ \A y \in Processes \ {p} : pc'[y] = pc[y]
      BY <1>0, <1>4 DEF ConnectTo, NotConnectable, TryLock, GiveUp, Lost, Goto, fileVars, daemonVars
    <2> QED BY <1>0, <2>1, ClientMoves
  <1> QED
    BY <1>1, <1>2, <1>3, <1>4 DEF ProxyMove, ProxyStep

LEMMA SendTermClean ==
    ASSUME CleanInv, \A y \in Processes \ {Operator} : ~Busy(y), SendTerm
    PROVE  CleanInv'
  <1>00. PICK d \in Daemons \cup {None} : d = target.daemon
    BY DEF CleanInv, DaemonsFit, DaemonTypeOK
  <1> DEFINE sent == Alive(d)
             killed == sent /\ ~Handles(d)
  <1>0. /\ DaemonsFit' /\ Operator \in Processes /\ Operator \in Clients /\ Operator \notin Daemons /\ None \notin Processes
    BY SendTermFits, Apart DEF CleanInv
  <1>1. /\ pc \in [Processes -> DaemonPcs \cup ClientPcs] /\ script \in [Processes -> Seq(Operation)]
        /\ signal \in [Daemons -> SUBSET {"term", "usr2", "kill"}] /\ Settled(Operator)
    BY <1>0 DEF CleanInv, DaemonsFit, DaemonTypeOK
  <1>2. /\ pc[Operator] = "stopping"
        /\ signal' = IF sent THEN [signal EXCEPT ![d] = @ \cup {IF killed THEN "kill" ELSE "term"}] ELSE signal
        /\ pc' = [pc EXCEPT ![Operator] = IF sent THEN "waitstop" ELSE "idle", ![d] = IF killed THEN "dead" ELSE @]
        /\ script' = [script EXCEPT ![d] = IF killed THEN <<>> ELSE @]
        /\ UNCHANGED <<sock, pid, gen, home, old, drained>>
    BY <1>00 DEF SendTerm, fileVars
  <1>3. sent => d \in Daemons
    BY DEF Alive
  <1>4. sent /\ ~killed => Handles(d)
    OBVIOUS
  <1>5. killed => sent
    OBVIOUS
  <1> HIDE DEF sent, killed
  <1>6. script[Operator] = <<>>
    BY <1>1, <1>2 DEF Settled, Intention
  <1>7. pc'[Operator] \in {"waitstop", "idle"} /\ script'[Operator] = <<>>
    BY <1>0, <1>1, <1>2, <1>6, Apart
  <1>8. Todo(Operator)' = {}
    BY <1>7, OpsOf DEF Todo
  <1>9. ~Busy(Operator)'
    BY <1>7 DEF Busy, Ready
  <1>10. Touches(Operator)
    BY <1>2 DEF Touches
  <1>11. \A y \in Processes \ {Operator, d} : Same(y)
    BY <1>0, <1>1, <1>2 DEF Same
  <1>12. \A y \in Processes \ {Operator, d} : Settled(y)' /\ ~Busy(y)'
    BY <1>0, <1>10, <1>11, OtherStays
  <1>13. d \in Daemons => /\ pc'[d] = IF killed THEN "dead" ELSE pc[d]
                          /\ script'[d] = IF killed THEN <<>> ELSE script[d]
                          /\ signal'[d] = IF sent THEN signal[d] \cup {IF killed THEN "kill" ELSE "term"} ELSE signal[d]
    BY <1>0, <1>1, <1>2, Apart
  <1>14. d \in Daemons => Settled(d)'
    <2> SUFFICES ASSUME d \in Daemons PROVE Settled(d)'
      OBVIOUS
    <2>0. d \in Processes \ {Operator} /\ ~Busy(d)
      BY Apart
    <2>1. CASE killed
      <3>1. pc'[d] = "dead" /\ script'[d] = <<>> /\ "kill" \in signal'[d]
        BY <1>5, <1>13, <2>1
      <3> QED BY <1>2, <3>1, KilledSettles
    <2>2. CASE sent /\ ~killed
      BY <1>2, <1>4, <1>13, <2>0, <2>2, ToldSettles
    <2>3. CASE ~sent
      <3>1. Same(d)
        BY <1>2, <1>5, <1>13, <2>3 DEF Same
      <3> QED BY <1>0, <1>10, <2>0, <3>1, OtherStays
    <2> QED BY <2>1, <2>2, <2>3
  <1>15. Settled(Operator)'
    <2>1. \A e \in Daemons : Staging(e)' => Staging(e)
      <3> SUFFICES ASSUME NEW e \in Daemons, Staging(e)' PROVE Staging(e)
        OBVIOUS
      <3>1. e \in Processes /\ e # Operator
        BY Apart
      <3>2. pc'[e] = pc[e] \/ pc'[e] = "dead"
        BY <1>1, <1>2, <1>11, <1>13, <3>1 DEF Same
      <3> QED BY <1>2, <3>2 DEF Staging, Promoting
    <2> QED BY <1>0, <1>7, <1>8, <2>1, ClientSettles
  <1>16. \A y \in Processes : Settled(y)'
    BY <1>0, <1>12, <1>14, <1>15
  <1>17. CASE d \in Daemons
    <2>1. d \in Processes /\ \A y \in Processes \ {d} : ~Busy(y)'
      BY <1>9, <1>12, <1>17, Apart
    <2> QED BY <1>0, <1>16, <2>1, Closing
  <1>18. CASE d \notin Daemons
    <2>1. \A y \in Processes \ {Operator} : ~Busy(y)'
      BY <1>0, <1>12, <1>18
    <2> QED BY <1>0, <1>16, <2>1, Closing
  <1> QED
    BY <1>17, <1>18

LEMMA OperatorClean ==
    ASSUME CleanInv, \A y \in Processes \ {Operator} : ~Busy(y), OperatorMove
    PROVE  CleanInv'
  <1>0. /\ DaemonsFit' /\ Operator \in Clients /\ Operator \in Processes /\ Operator \notin Daemons
        /\ pc \in [Processes -> DaemonPcs \cup ClientPcs] /\ script \in [Processes -> Seq(Operation)]
        /\ Public # Staged /\ pid[Public] \in Daemons \cup {None}
    BY OperatorFits, Apart, PlacesApart DEF CleanInv, DaemonsFit, DaemonTypeOK
  <1>1. \A o \in Ops(CleanupFiles) : o.value = None /\ o.place # Staged
    BY <1>0, OpsOf, OpFields DEF CleanupFiles
  <1>2. CASE SendTerm
    BY <1>2, SendTermClean
  <1>3. CASE StopSeesEnd
    <2>1. /\ UNCHANGED <<sock, pid, signal, drained, gen, home, old>> /\ pc'[Operator] = "idle"
          /\ \A y \in Processes \ {Operator} : pc'[y] = pc[y] /\ script'[y] = script[y]
          /\ script'[Operator] = CleanupFiles
      BY <1>0, <1>3 DEF StopSeesEnd, Goto, Plan, fileVars, daemonVars
    <2>2. Todo(Operator)' = Ops(CleanupFiles)
      BY <2>1 DEF Todo
    <2> QED BY <1>0, <1>1, <2>1, <2>2, ClientMoves
  <1>4. CASE StopTimesOut \/ SmokeFails \/ UpgradeFails \/ BeginSmoke
    <2>1. /\ UNCHANGED <<sock, pid, signal, drained, gen, home, old, script>> /\ pc'[Operator] # "stopping"
          /\ \A y \in Processes \ {Operator} : pc'[y] = pc[y]
      BY <1>0, <1>4 DEF StopTimesOut, SmokeFails, UpgradeFails, BeginSmoke, Goto, fileVars, daemonVars
    <2> QED BY <1>0, <2>1, ClientMoves
  <1>5. CASE SpawnNormal
    <2>1. /\ UNCHANGED <<sock, pid, script>>
          /\ \E d \in Daemons : Spawn(d, "start", None) /\ pc' = [pc EXCEPT ![d] = "start", ![Operator] = "staging"]
      BY <1>5 DEF SpawnNormal, fileVars
    <2>2. UNCHANGED <<signal, drained, gen>> /\ "staging" \in ClientPcs /\ pc'[Operator] # "stopping"
      BY <1>0, <2>1 DEF Spawn, ClientPcs
    <2> QED BY <1>0, <2>1, <2>2, ClientMoves
  <1>6. CASE SmokeAnswered
    <2>1. /\ UNCHANGED <<sock, pid, signal, drained, gen, home, old>> /\ pc'[Operator] = "idle"
          /\ \A y \in Processes \ {Operator} : pc'[y] = pc[y] /\ script'[y] = script[y]
          /\ script'[Operator] = <<>>
      BY <1>0, <1>6 DEF SmokeAnswered, Goto, Ends, Plan, fileVars, daemonVars
    <2>2. Todo(Operator)' = {}
      BY <2>1, OpsOf DEF Todo
    <2> QED BY <1>0, <2>1, <2>2, ClientMoves
  <1>7. CASE BeginStop
    <2>1. UNCHANGED <<sock, pid, signal, drained, gen, home, old>> /\ script[Operator] = <<>> /\ pc[Operator] = "idle"
      BY <1>7 DEF BeginStop, Ready, fileVars, daemonVars
    <2>2. CASE DaemonAlive(Public)
      <3>1. UNCHANGED script /\ \A y \in Processes \ {Operator} : pc'[y] = pc[y]
        BY <1>0, <1>7, <2>2 DEF BeginStop, Goto
      <3> QED BY <1>0, <2>1, <3>1, ClientMoves
    <2>3. CASE ~DaemonAlive(Public)
      <3>1. /\ UNCHANGED pc /\ \A y \in Processes \ {Operator} : script'[y] = script[y]
            /\ script'[Operator] = CleanupFiles
        BY <1>0, <1>7, <2>3 DEF BeginStop, Plan
      <3>2. Todo(Operator)' = Ops(CleanupFiles)
        BY <3>1 DEF Todo
      <3> QED BY <1>0, <1>1, <2>1, <3>1, <3>2, ClientMoves
    <2> QED BY <2>2, <2>3
  <1>8. CASE BeginUpgrade
    <2>1. UNCHANGED <<sock, pid>>
      BY <1>8 DEF BeginUpgrade, fileVars
    <2>2. CASE DaemonAlive(Public)
      <3>1. /\ UNCHANGED script
            /\ \E d \in Daemons : /\ Spawn(d, "start", pid[Public])
                                  /\ pc' = [pc EXCEPT ![d] = "start", ![Operator] = "staging"]
        BY <1>8, <2>2 DEF BeginUpgrade
      <3>2. UNCHANGED <<signal, drained, gen>> /\ "staging" \in ClientPcs /\ pc'[Operator] # "stopping"
        BY <1>0, <3>1 DEF Spawn, ClientPcs
      <3> QED BY <1>0, <2>1, <3>1, <3>2, ClientMoves
    <2>3. CASE ~DaemonAlive(Public)
      <3>1. UNCHANGED <<signal, drained, gen, home, old>> /\ pc'[Operator] = "spawning"
            /\ \A y \in Processes \ {Operator} : pc'[y] = pc[y]
        BY <1>0, <1>8, <2>3 DEF BeginUpgrade, Goto, daemonVars
      <3>2. script' = [script EXCEPT ![Operator] = IF pid[Public] # None \/ sock[Public] # None THEN CleanupFiles ELSE <<>>]
        BY <1>8, <2>3 DEF BeginUpgrade, Plan
      <3>3. script'[Operator] \in {CleanupFiles, <<>>} /\ \A y \in Processes \ {Operator} : script'[y] = script[y]
        BY <1>0, <3>2
      <3>4. \A o \in Todo(Operator)' : o.value = None /\ o.place # Staged
        <4>1. CASE script'[Operator] = CleanupFiles
          BY <1>1, <4>1 DEF Todo
        <4>2. CASE script'[Operator] = <<>>
          BY <4>2, OpsOf DEF Todo
        <4> QED BY <3>3, <4>1, <4>2
      <3> QED BY <1>0, <2>1, <3>1, <3>3, <3>4, ClientMoves
    <2> QED BY <2>2, <2>3
  <1>9. CASE SweepDrains
    <2>1. PICK d \in Daemons : Plan(Operator, CleanupDrain(d))
      BY <1>9 DEF SweepDrains
    <2>2. /\ UNCHANGED <<sock, pid, pc, signal, drained, gen, home, old>> /\ pc[Operator] = "idle"
          /\ \A y \in Processes \ {Operator} : script'[y] = script[y]
          /\ script'[Operator] = CleanupDrain(d)
      BY <1>0, <1>9, <2>1 DEF SweepDrains, Plan, fileVars, daemonVars
    <2>3. Todo(Operator)' = {Rm("sock", Drain(d)), Rm("pid", Drain(d))}
      BY <2>2, OpsOfPlans DEF Todo
    <2>4. \A o \in Todo(Operator)' : o.value = None /\ o.place # Staged
      BY <2>3, OpFields, PlacesApart
    <2> QED BY <1>0, <2>2, <2>4, ClientMoves
  <1> QED
    BY <1>2, <1>3, <1>4, <1>5, <1>6, <1>7, <1>8, <1>9 DEF OperatorMove, OperatorStep

LEMMA InitClean == DaemonInit => CleanInv
  <1> SUFFICES ASSUME DaemonInit PROVE CleanInv
    OBVIOUS
  <1>1. DaemonsFit
    BY InitFits
  <1>2. /\ \A x \in Processes : script[x] = <<>> /\ pc[x] \in {"none", "idle"}
        /\ pid[Public] = None /\ None \notin Daemons /\ Operator \notin Daemons /\ Operator \in Processes
        /\ \A d \in Daemons : d \in Processes /\ pc[d] = "none" /\ home[d] = Public /\ signal[d] = {} /\ ~drained[d]
    BY Apart, PlacesApart DEF DaemonInit
  <1>3. \A x \in Processes : ~Busy(x) /\ Todo(x) = {}
    BY <1>2, OpsOf DEF Busy, Ready, Todo
  <1>4. \A x \in Processes : Intention(x) /\ ~Clearing(x)
    BY <1>2, <1>3 DEF Intention, Clearing
  <1>5. ASSUME NEW d \in Daemons PROVE Career(d) /\ Named(d) /\ Relieved(d) /\ Promoted(d) /\ OwnSocket(d)
    BY <1>2, PlacesApart DEF Career, Named, Relieved, Promoted, OwnSocket, Staging, Before, Promoting
  <1> QED
    BY <1>1, <1>3, <1>4, <1>5 DEF CleanInv, Alone, Settled

LEMMA StepClean ==
    ASSUME Options \cap {"delay", "io"} = {}, CleanInv, [DaemonNext]_vars
    PROVE  CleanInv'
  <1>1. CASE UNCHANGED vars
    <2>1. DaemonsFit'
      BY StepFits DEF CleanInv
    <2> QED BY <1>1, <2>1
            DEF CleanInv, Alone, Settled, Intention, Clearing, Staging, Career, Named, Relieved, Promoted, OwnSocket,
                Todo, Busy, Ready, vars, fileVars, daemonVars
  <1>2. CASE DaemonNext
    <2>1. PICK x \in Processes :
              /\ Turn(x)
              /\ \/ Execute(x) \/ Crash(x)
                 \/ x \in Daemons /\ DaemonMove(x)
                 \/ x \in Proxies /\ ProxyMove(x)
                 \/ x = Operator /\ OperatorMove
      BY <1>2, EveryStep
    <2>2. \A y \in Processes \ {x} : ~Busy(y)
      BY <2>1 DEF Turn
    <2>3. CASE x \in Daemons /\ DaemonMove(x)
      <3>1. ~PromoteFails(x)
        BY DEF PromoteFails
      <3> QED BY <2>2, <2>3, <3>1, StartingClean, PromotingClean, SignalOldClean, LoopClean DEF DaemonMove, DaemonStep
    <2> QED BY <2>1, <2>2, <2>3, ExecuteClean, CrashClean, ProxyClean, OperatorClean
  <1> QED
    BY <1>1, <1>2

\* A daemon that left by itself is not named by the public pid file: whoever removes the files
\* of a generation and whoever writes them do not overtake each other, as processes that run
\* undisturbed between two awaits do (cleanup_owned_generation_files, promote_staged).
THEOREM ExitIsClean ==
    ASSUME Options \cap {"delay", "io"} = {}
    PROVE  DaemonSpec => []CleanExit
  <1>1. CleanInv => CleanExit
    <2> SUFFICES ASSUME CleanInv PROVE CleanExit
      OBVIOUS
    <2>1. \A d \in Daemons : Named(d)
      BY Apart DEF CleanInv, Settled
    <2> QED BY <2>1 DEF CleanExit, Named, CleanInv, DaemonsFit
  <1> QED
    BY <1>1, InitClean, StepClean, PTL DEF DaemonSpec

-----------------------------------------------------------------------------
(* The public socket and the public pid file name the same daemon.         *)

Killed == \E e \in Daemons : "kill" \in signal[e]

Owner == sock[Public][1]

\* Where nobody was killed a socket file is as good as a listener.
Trusted == sock[Public] # None /\ (Killed => Connectable(Public))

\* The owner of the public socket is in the pid file, or about to write it.
Paired == Trusted => pid[Public] = Owner \/ Put("pid", Public, Owner) \in Todo(Owner)
Bound == sock[Public] # None => gen[Owner] # 0

\* The pid file is removed after the socket, and written by the owner of the socket.
PublicPid(o) == o.kind = "pid" /\ o.place = Public
Orderly(x) ==
    \A o \in Todo(x) : PublicPid(o) =>
        IF o.value = None THEN sock[Public] = None \/ Head(script[x]) = Rm("sock", Public)
        ELSE Trusted => Owner = o.value

Fresh(d) == pc[d] \in {"none", "start", "unlink", "bind"} => gen[d] = 0
Retiring(d) == pc[d] = "rename" => pid[Public] = old[d] /\ \A o \in Todo(d) : o.place # Public
DrainOwn(d) == sock[Drain(d)] # None => Killed \/ sock[Drain(d)][1] = d

\* The operator is connected only for a smoke test, and not to the daemon that is replaced.
Smoking(d) == Operator \in sessions[d] \cup backlog[d] => pc[Operator] = "smoke" /\ d # target.daemon

PairInv == Paired /\ Bound /\ \A x \in Processes : Orderly(x)
UpgradeInv ==
    /\ CleanInv /\ PairInv /\ UpgradeReplaces
    /\ \A d \in Daemons : Fresh(d) /\ Retiring(d) /\ DrainOwn(d) /\ Smoking(d)

LEMMA OwnerFits ==
    ASSUME DaemonsFit, sock[Public] # None
    PROVE  Owner \in Daemons /\ Owner \in Processes /\ Owner # None
  BY Apart, PlacesApart DEF DaemonsFit, DaemonTypeOK, Owner

\* The public socket is gone.
LEMMA Emptied ==
    ASSUME sock'[Public] = None
    PROVE  PairInv'
  <1>1. ~Trusted'
    BY DEF Trusted
  <1> QED
    BY <1>1 DEF PairInv, Paired, Bound, Orderly

\* The public socket is that of a daemon that is about to write the pid file.
LEMMA Claimed ==
    ASSUME NEW d \in Daemons, sock'[Public] # None, sock'[Public][1] = d, gen'[d] # 0,
           Put("pid", Public, d) \in Todo(d)', \A o \in Todo(d)' : PublicPid(o) => o.value = d,
           \A y \in Processes \ {d} : Todo(y)' = {}
    PROVE  PairInv'
  <1>1. Paired' /\ Bound'
    BY DEF Paired, Bound, Owner
  <1>2. d # None
    BY Apart
  <1>3. \A y \in Processes : Orderly(y)'
    BY <1>2 DEF Orderly, Owner
  <1> QED
    BY <1>1, <1>3 DEF PairInv

\* What a step may do to a daemon, and what a process may plan.
Onward(d) ==
    /\ signal[d] \subseteq signal'[d]
    /\ gen'[d] = gen[d] \/ gen[d] = 0
    /\ pc'[d] \in {"none", "dead"} \/ pc[d] \notin {"none", "dead"} \/ gen[d] = 0
Plans(x) ==
    \/ script'[x] = script[x]
    \/ /\ x \in Daemons => script[x] = <<>> \/ (pc'[x] = "dead" /\ "kill" \in signal'[x])
       /\ \A o \in Todo(x)' : PublicPid(o) =>
             IF o.value = None THEN sock[Public] = None \/ Head(script'[x]) = Rm("sock", Public)
             ELSE Trusted => Owner = o.value

\* Neither the public socket nor the public pid file has changed.
LEMMA Unmoved ==
    ASSUME DaemonsFit, DaemonsFit', PairInv, NEW x \in Processes, Plans(x), \A d \in Daemons : Onward(d),
           sock'[Public] = sock[Public], pid'[Public] = pid[Public],
           \A y \in Processes \ {x} : script'[y] = script[y]
    PROVE  PairInv'
  <1>1. Killed => Killed'
    BY DEF Killed, Onward
  <1>2. Bound'
    BY OwnerFits DEF PairInv, Bound, Owner, Onward
  <1>3. sock[Public] # None /\ Connectable(Public)' => Connectable(Public)
    BY OwnerFits DEF PairInv, Bound, Owner, Connectable, Alive, Onward
  <1>4. Trusted' => Trusted
    BY <1>1, <1>3 DEF Trusted
  <1>5. \A y \in Processes : script'[y] = script[y] => Todo(y)' = Todo(y)
    BY DEF Todo
  <1>6. ASSUME NEW y \in Processes PROVE Orderly(y)'
    <2>1. CASE script'[y] = script[y]
      BY <1>4, <1>5, <2>1 DEF PairInv, Orderly, Owner
    <2>2. CASE script'[y] # script[y]
      BY <1>4, <2>2 DEF Orderly, Owner, Plans
    <2> QED BY <2>1, <2>2
  <1>7. Paired'
    <2> SUFFICES ASSUME Trusted', pid'[Public] # Owner' PROVE Put("pid", Public, Owner') \in Todo(Owner)'
      BY DEF Paired
    <2>1. sock[Public] # None /\ Owner' = Owner /\ Owner \in Daemons /\ Owner \in Processes
      BY <1>4, OwnerFits DEF Trusted, Owner
    <2>2. Put("pid", Public, Owner) \in Todo(Owner)
      BY <1>4, <2>1 DEF PairInv, Paired
    <2>3. script[Owner] # <<>>
      BY <2>2, OpsOf DEF Todo
    <2>4. ~(pc'[Owner] = "dead" /\ "kill" \in signal'[Owner])
      BY <2>1 DEF Trusted, Killed, Connectable, Alive, Owner
    <2>5. script'[Owner] = script[Owner]
      BY <2>1, <2>3, <2>4 DEF Plans
    <2> QED BY <1>5, <2>1, <2>2, <2>5
  <1> QED
    BY <1>2, <1>6, <1>7 DEF PairInv

\* The next file operation.
LEMMA ExecutePairs ==
    ASSUME UpgradeInv, CleanInv', NEW x \in Processes, \A y \in Processes \ {x} : ~Busy(y), Execute(x)
    PROVE  PairInv' /\ \A d \in Daemons : Fresh(d)' /\ Retiring(d)' /\ DrainOwn(d)'
  <1> DEFINE o == Head(script[x])
  <1>0. DaemonsFit /\ DaemonsFit' /\ PairInv /\ Orderly(x)
    BY DEF UpgradeInv, CleanInv, PairInv
  <1>1. script[x] \in Seq(Operation) /\ script[x] # <<>> /\ Todo(x) = Ops(script[x])
    BY <1>0 DEF DaemonsFit, Execute, Ready, Todo
  <1>2. Ops(script[x]) = {o} \cup Ops(Tail(script[x])) /\ o \in Operation
    BY <1>1, OpsOfTail
  <1>3. /\ sock' = IF o.kind = "sock" THEN [sock EXCEPT ![o.place] = None] ELSE sock
        /\ pid' = IF o.kind = "pid" THEN [pid EXCEPT ![o.place] = o.value] ELSE pid
        /\ script' = [script EXCEPT ![x] = Tail(@)]
        /\ UNCHANGED <<pc, gen, old, signal>>
    BY DEF Execute, daemonVars
  <1>4. script'[x] = Tail(script[x]) /\ \A y \in Processes \ {x} : script'[y] = script[y]
    BY <1>0, <1>3 DEF DaemonsFit
  <1>5. Todo(x) = {o} \cup Todo(x)' /\ o \in Todo(x)
    <2>1. Todo(x)' = Ops(Tail(script[x]))
      BY <1>4 DEF Todo
    <2> QED BY <1>1, <1>2, <2>1
  <1>6. \A y \in Processes \ {x} : Todo(y) = {} /\ Todo(y)' = {}
    BY <1>4, OpsOf DEF Todo, Busy, Ready
  <1>7. /\ sock \in [Places -> (Daemons \X (1..MaxBinds)) \cup {None}] /\ pid \in [Places -> Daemons \cup {None}]
        /\ o.place \in Places /\ Public \in Places /\ \A d \in Daemons : Drain(d) \in Places
    BY <1>0, <1>2, PlacesApart DEF Operation, DaemonsFit, DaemonTypeOK
  <1> HIDE DEF o
  <1>8. pid'[Public] = IF PublicPid(o) THEN o.value ELSE pid[Public]
    BY <1>3, <1>7 DEF PublicPid
  <1>9. \A p \in Places : sock'[p] = sock[p] \/ sock'[p] = None
    BY <1>3, <1>7
  <1>10. ASSUME NEW d \in Daemons PROVE Fresh(d)' /\ DrainOwn(d)'
    <2>1. Fresh(d) /\ DrainOwn(d)
      BY DEF UpgradeInv
    <2>2. Fresh(d)'
      BY <1>3, <2>1 DEF Fresh
    <2>3. DrainOwn(d)'
      BY <1>3, <1>7, <1>9, <2>1 DEF DrainOwn, Killed
    <2> QED BY <2>2, <2>3
  <1>11. ASSUME NEW d \in Daemons PROVE Retiring(d)'
    <2> SUFFICES ASSUME pc[d] = "rename" PROVE pid'[Public] = old[d] /\ \A q \in Todo(d)' : q.place # Public
      BY <1>3 DEF Retiring
    <2>1. d = x
      BY Apart DEF Busy
    <2>2. pid[Public] = old[d] /\ \A q \in Todo(d) : q.place # Public
      BY DEF UpgradeInv, Retiring
    <2> QED BY <1>5, <1>8, <2>1, <2>2 DEF PublicPid
  <1>12. CASE sock'[Public] # sock[Public]
    BY <1>7, <1>9, <1>10, <1>11, <1>12, Emptied
  <1>13. CASE sock'[Public] = sock[Public]
    <2>1. Trusted' = Trusted
      BY <1>3, <1>13 DEF Trusted, Killed, Connectable, Alive
    <2>2. o # Rm("sock", Public) \/ sock[Public] = None
      BY <1>3, <1>7, <1>13, OpFields
    <2>3. ASSUME NEW y \in Processes PROVE Orderly(y)'
      <3>1. CASE y = x
        BY <1>0, <1>5, <1>13, <2>1, <2>2, <3>1 DEF Orderly, o, Owner
      <3> QED BY <1>6, <3>1 DEF Orderly
    <2>4. Paired'
      <3> SUFFICES ASSUME Trusted PROVE pid'[Public] = Owner \/ Put("pid", Public, Owner) \in Todo(Owner)'
        BY <1>13, <2>1 DEF Paired, Owner
      <3>1. sock[Public] # None /\ Owner \in Processes /\ Owner' = Owner
        BY <1>0, <1>13, OwnerFits DEF Trusted, Owner
      <3>2. CASE PublicPid(o)
        <4>1. o.value # None /\ o.value = Owner
          BY <1>0, <1>5, <2>2, <3>1, <3>2 DEF Orderly, o
        <4> QED BY <1>8, <3>2, <4>1
      <3>3. CASE ~PublicPid(o)
        <4>1. pid[Public] = Owner \/ Put("pid", Public, Owner) \in Todo(Owner)
          BY <1>0 DEF PairInv, Paired
        <4>2. PublicPid(Put("pid", Public, Owner))
          BY OpFields DEF PublicPid
        <4>3. CASE Owner = x
          BY <1>5, <1>8, <3>1, <3>3, <4>1, <4>2, <4>3
        <4>4. CASE Owner # x
          BY <1>6, <1>8, <3>1, <3>3, <4>1, <4>4
        <4> QED BY <4>3, <4>4
      <3> QED BY <3>2, <3>3
    <2>5. Bound'
      BY <1>0, <1>3, <1>13 DEF PairInv, Bound, Owner
    <2> QED BY <1>10, <1>11, <2>3, <2>4, <2>5 DEF PairInv
  <1> QED
    BY <1>12, <1>13

-----------------------------------------------------------------------------

LEMMA FreshStep ==
    ASSUME DaemonsFit, NEW d \in Daemons, DaemonMove(d), ~SignalOld(d), Fresh(d)
    PROVE  Fresh(d)'
  <1>1. pc \in [Processes -> DaemonPcs \cup ClientPcs] /\ gen \in [Daemons -> 0..MaxBinds] /\ d \in Processes
    BY Apart DEF DaemonsFit, DaemonTypeOK
  <1>2. CASE CheckSocket(d) \/ Unlink(d)
    BY <1>1, <1>2 DEF CheckSocket, Unlink, Exit, Goto, Fresh, daemonVars
  <1>3. CASE \E c \in Clients : Accept(d, c)
    BY <1>1, <1>3 DEF Accept, Fresh, daemonVars
  <1>4. CASE PromoteSocket(d) \/ RepairIdentity(d)
    BY <1>1, <1>4 DEF PromoteSocket, RepairIdentity, Fresh, daemonVars
  <1>5. CASE ~(CheckSocket(d) \/ Unlink(d) \/ (\E c \in Clients : Accept(d, c)) \/ PromoteSocket(d) \/ RepairIdentity(d))
    <2>1. pc'[d] \notin {"none", "start", "unlink", "bind"}
      BY <1>1, <1>5
         DEF DaemonMove, DaemonStep, Bind, Initialized, InitializeFails, BeginPromotion, RetireSocket, PromoteFails,
             FindSocketMissing, Rebind, HandleTerm, HandleUsr2, IdleExit, Leaves, FinishStop, Leave, Exit, Goto
    <2> QED BY <2>1 DEF Fresh
  <1> QED
    BY <1>2, <1>3, <1>4, <1>5

\* The move of a daemon that leaves the public socket alone.
LEMMA QuietPairs ==
    ASSUME UpgradeInv, CleanInv', NEW d \in Daemons, DaemonMove(d), ~SignalOld(d), Plans(d), pid'[Public] = pid[Public],
           sock'[Public] = sock[Public], signal[d] \subseteq signal'[d], gen'[d] = gen[d] \/ gen[d] = 0
    PROVE  PairInv'
  <1>0. DaemonsFit /\ DaemonsFit' /\ PairInv /\ d \in Processes
    BY Apart DEF UpgradeInv, CleanInv
  <1>1. \A y \in Processes \ {d} : Same(y)
    BY <1>0, OnlyMe
  <1>2. \A y \in Processes \ {d} : script'[y] = script[y]
    BY <1>1 DEF Same
  <1>3. pc[d] # "none"
    BY DEF DaemonMove, DaemonStep, CheckSocket, Unlink, Bind, Initialized, InitializeFails, BeginPromotion,
           RetireSocket, PromoteSocket, PromoteFails, RepairIdentity, FindSocketMissing, Rebind, HandleTerm,
           HandleUsr2, IdleExit, FinishStop, Leave, Accept, InLoop
  <1>4. pc[d] # "dead"
    BY DEF DaemonMove, DaemonStep, CheckSocket, Unlink, Bind, Initialized, InitializeFails, BeginPromotion,
           RetireSocket, PromoteSocket, PromoteFails, RepairIdentity, FindSocketMissing, Rebind, HandleTerm,
           HandleUsr2, IdleExit, FinishStop, Leave, Accept, InLoop
  <1>5. \A e \in Daemons : Onward(e)
    <2>1. Onward(d)
      BY <1>3, <1>4 DEF Onward
    <2>2. \A e \in Daemons \ {d} : Onward(e)
      BY <1>0, <1>1, Apart DEF Same, Onward
    <2> QED BY <2>1, <2>2
  <1> QED
    BY <1>0, <1>2, <1>5, Unmoved

\* The plans of a daemon are orderly.
LEMMA PlansOrderly ==
    ASSUME CleanInv, NEW d \in Daemons, script[d] = <<>>,
           \/ script'[d] = <<>>
           \/ script'[d] = CleanupOwned(d)
           \/ \E e \in Daemons : script'[d] = CleanupDrain(e)
           \/ \E e \in Daemons : script'[d] = <<Put("pid", Drain(e), e)>>
    PROVE  Plans(d)
  <1>1. CASE script'[d] = <<>>
    BY <1>1 DEF Plans
  <1>2. CASE \E e \in Daemons : script'[d] = CleanupDrain(e)
    <2>1. PICK e \in Daemons : script'[d] = CleanupDrain(e)
      BY <1>2
    <2>2. Todo(d)' = {Rm("sock", Drain(e)), Rm("pid", Drain(e))}
      BY <2>1, OpsOf DEF Todo, CleanupDrain
    <2>3. \A o \in Todo(d)' : ~PublicPid(o)
      BY <2>2, OpFields, PlacesApart DEF PublicPid
    <2> QED BY <2>3 DEF Plans
  <1>3. CASE \E e \in Daemons : script'[d] = <<Put("pid", Drain(e), e)>>
    <2>1. PICK e \in Daemons : script'[d] = <<Put("pid", Drain(e), e)>>
      BY <1>3
    <2>2. Todo(d)' = {Put("pid", Drain(e), e)}
      BY <2>1, OpsOf DEF Todo
    <2>3. \A o \in Todo(d)' : ~PublicPid(o)
      BY <2>2, OpFields, PlacesApart DEF PublicPid
    <2> QED BY <2>3 DEF Plans
  <1>4. CASE script'[d] = CleanupOwned(d) /\ script'[d] # <<>>
    <2>1. CASE script'[d] = CleanupFiles
      <3>1. Head(script'[d]) = Rm("sock", Public)
        BY <2>1 DEF CleanupFiles
      <3>2. Todo(d)' = {Rm("sock", Public), Rm("pid", Public), Rm("info", Public)}
        BY <2>1, OpsOf DEF Todo, CleanupFiles
      <3>3. \A o \in Todo(d)' : o.value = None
        BY <3>2, OpFields
      <3> QED BY <3>1, <3>3 DEF Plans
    <2>2. CASE script'[d] = <<Rm("sock", Staged), Rm("pid", Staged)>>
      <3>1. Todo(d)' = {Rm("sock", Staged), Rm("pid", Staged)}
        BY <2>2, OpsOf DEF Todo
      <3>2. \A o \in Todo(d)' : ~PublicPid(o)
        BY <3>1, OpFields, PlacesApart DEF PublicPid
      <3> QED BY <3>2 DEF Plans
    <2> QED BY <1>4, <2>1, <2>2 DEF CleanupOwned
  <1> QED
    BY <1>1, <1>2, <1>3, <1>4

LEMMA Untroubled ==
    ASSUME CleanInv, NEW d \in Daemons, pc[d] \notin {"init", "rename", "signal", "serve", "leave"}
    PROVE  script[d] = <<>> /\ d \in Processes
  BY Apart DEF CleanInv, Settled, Intention

LEMMA StartingPairs ==
    ASSUME UpgradeInv, CleanInv', NEW d \in Daemons, \A y \in Processes \ {d} : ~Busy(y),
           CheckSocket(d) \/ Unlink(d) \/ Bind(d) \/ Initialized(d) \/ InitializeFails(d)
    PROVE  /\ PairInv' /\ pc'[d] # "rename" /\ signal' = signal
           /\ \A e \in Daemons : sock'[Drain(e)] = sock[Drain(e)]
  <1>0. /\ CleanInv /\ DaemonsFit /\ PairInv /\ Fresh(d) /\ d \in Processes
        /\ pc \in [Processes -> DaemonPcs \cup ClientPcs] /\ script \in [Processes -> Seq(Operation)]
        /\ sock \in [Places -> (Daemons \X (1..MaxBinds)) \cup {None}] /\ home[d] \in {Public, Staged}
    BY Apart DEF UpgradeInv, CleanInv, DaemonsFit, DaemonTypeOK
  <1>1. /\ DaemonMove(d) /\ ~SignalOld(d) /\ pid' = pid /\ signal' = signal /\ pc'[d] # "rename"
    BY <1>0 DEF DaemonMove, DaemonStep, CheckSocket, Unlink, Bind, Initialized, InitializeFails, SignalOld, Exit, Goto,
                fileVars, daemonVars
  <1>2. \A e \in Daemons : sock'[Drain(e)] = sock[Drain(e)]
    BY <1>0, PlacesApart DEF CheckSocket, Unlink, Bind, Initialized, InitializeFails, fileVars
  <1>3. CASE CheckSocket(d)
    <2>1. script[d] = <<>> /\ script'[d] = <<>>
      BY <1>0, <1>3, Untroubled DEF CheckSocket, Exit, Ends, Plan
    <2>2. sock' = sock /\ gen' = gen
      BY <1>3 DEF CheckSocket, fileVars, daemonVars
    <2> QED BY <1>0, <1>1, <1>2, <2>1, <2>2, PlansOrderly, QuietPairs
  <1>4. CASE Unlink(d)
    <2>1. script[d] = <<>> /\ script'[d] = <<>>
      BY <1>0, <1>4, Untroubled DEF Unlink, Exit, Ends, Plan
    <2>2. gen' = gen /\ (sock'[Public] = sock[Public] \/ sock'[Public] = None)
      BY <1>0, <1>4, PlacesApart DEF Unlink, fileVars, daemonVars
    <2> QED BY <1>0, <1>1, <1>2, <2>1, <2>2, PlansOrderly, QuietPairs, Emptied
  <1>5. CASE Bind(d)
    <2>1. script[d] = <<>> /\ gen[d] = 0 /\ gen \in [Daemons -> 0..MaxBinds]
      BY <1>0, <1>5, Untroubled DEF Bind, Fresh, DaemonsFit, DaemonTypeOK
    <2>2. CASE sock[home[d]] # None
      <3>1. script'[d] = <<>> /\ sock' = sock /\ gen' = gen
        BY <1>0, <1>5, <2>2 DEF Bind, Exit, Ends, Plan, fileVars
      <3> QED BY <1>0, <1>1, <1>2, <2>1, <3>1, PlansOrderly, QuietPairs
    <2>3. CASE sock[home[d]] = None
      <3>1. /\ sock' = [sock EXCEPT ![home[d]] = <<d, 1>>] /\ gen'[d] = 1 /\ script' = [script EXCEPT ![d] = WriteIdentity(d)]
        BY <1>5, <2>1, <2>3 DEF Bind, Plan
      <3>2. Todo(d)' = Ops(WriteIdentity(d)) /\ \A y \in Processes \ {d} : Todo(y)' = {} /\ script'[y] = script[y]
        BY <1>0, <3>1, OpsOf DEF Todo, Busy, Ready
      <3>3. CASE home[d] = Public
        <4>1. Todo(d)' = {Put("pid", Public, d), Put("info", Public, d)}
          BY <3>2, <3>3, OpsOfPlans
        <4>2. \A o \in Todo(d)' : PublicPid(o) => o.value = d
          BY <4>1, OpFields DEF PublicPid
        <4>3. sock'[Public] = <<d, 1>> /\ sock'[Public] # None
          BY <1>0, <3>1, <3>3, PlacesApart, Bounds, ListenersFit
        <4>4. sock'[Public][1] = d /\ gen'[d] # 0 /\ Put("pid", Public, d) \in Todo(d)'
          BY <3>1, <4>1, <4>3
        <4>5. PairInv'
          BY <3>2, <4>2, <4>3, <4>4, Claimed
        <4> QED BY <1>1, <1>2, <4>5
      <3>4. CASE home[d] = Staged
        <4>1. Todo(d)' = {Put("pid", Staged, d)}
          BY <3>2, <3>4, OpsOfPlans, PlacesApart
        <4>2. \A o \in Todo(d)' : ~PublicPid(o)
          BY <4>1, OpFields, PlacesApart DEF PublicPid
        <4>3. sock'[Public] = sock[Public] /\ Plans(d)
          BY <1>0, <2>1, <3>1, <3>4, <4>2, PlacesApart DEF Plans
        <4> QED BY <1>1, <1>2, <2>1, <4>3, QuietPairs
      <3> QED BY <1>0, <3>3, <3>4
    <2> QED BY <2>2, <2>3
  <1>6. CASE Initialized(d) \/ InitializeFails(d)
    <2>1. script[d] = <<>> /\ script'[d] \in {<<>>, CleanupOwned(d)}
      BY <1>0, <1>6 DEF Initialized, InitializeFails, Ready, Plan
    <2>2. sock' = sock /\ gen' = gen
      BY <1>6 DEF Initialized, InitializeFails, fileVars, daemonVars
    <2> QED BY <1>0, <1>1, <1>2, <2>1, <2>2, PlansOrderly, QuietPairs
  <1> QED
    BY <1>3, <1>4, <1>5, <1>6

\* The daemon that is retired is the one in the pid file.
LEMMA OwnerRetires ==
    ASSUME UpgradeInv, NEW d \in Daemons, \A y \in Processes \ {d} : ~Busy(y),
           pc[d] = "rename", Ready(d), sock[Public] # None
    PROVE  Killed \/ Owner = old[d]
  <1>1. DaemonsFit /\ PairInv /\ Retiring(d)
    BY DEF UpgradeInv, CleanInv
  <1>2. Owner \in Processes
    BY <1>1, OwnerFits
  <1>3. Todo(Owner) = {}
    BY <1>2, OpsOf DEF Todo, Ready, Busy
  <1>4. Killed \/ pid[Public] = Owner
    BY <1>1, <1>3 DEF PairInv, Paired, Trusted
  <1> QED
    BY <1>1, <1>4 DEF Retiring

LEMMA PromotingPairs ==
    ASSUME UpgradeInv, CleanInv', NEW d \in Daemons, \A y \in Processes \ {d} : ~Busy(y),
           BeginPromotion(d) \/ RetireSocket(d) \/ PromoteSocket(d)
    PROVE  /\ PairInv' /\ Retiring(d)' /\ signal' = signal
           /\ \A e \in Daemons : DrainOwn(e)'
  <1>0. /\ CleanInv /\ DaemonsFit /\ PairInv /\ d \in Processes /\ Public \in Places /\ Staged \in Places
        /\ pc \in [Processes -> DaemonPcs \cup ClientPcs] /\ script \in [Processes -> Seq(Operation)]
        /\ sock \in [Places -> (Daemons \X (1..MaxBinds)) \cup {None}]
        /\ \A e \in Daemons : DrainOwn(e)
    BY Apart, PlacesApart DEF UpgradeInv, CleanInv, DaemonsFit, DaemonTypeOK
  <1>1. /\ DaemonMove(d) /\ ~SignalOld(d) /\ pid' = pid /\ signal' = signal /\ gen' = gen /\ old' = old
    <2>1. DaemonMove(d)
      BY DEF DaemonMove, DaemonStep
    <2>2. ~SignalOld(d)
      BY PlacesApart DEF BeginPromotion, RetireSocket, PromoteSocket, SignalOld
    <2>3. pid' = pid /\ signal' = signal /\ gen' = gen /\ old' = old
      BY DEF BeginPromotion, RetireSocket, PromoteSocket, fileVars, daemonVars
    <2> QED BY <2>1, <2>2, <2>3
  <1>2. old[d] \in Daemons
    BY <1>0 DEF BeginPromotion, RetireSocket, PromoteSocket, DaemonsFit, DaemonTypeOK, Targeted
  <1>3. CASE BeginPromotion(d)
    <2>1. script[d] = <<>> /\ sock' = sock
      BY <1>0, <1>3, Untroubled DEF BeginPromotion, fileVars
    <2>2. script'[d] = <<>> \/ script'[d] = CleanupDrain(old[d])
      BY <1>0, <1>3 DEF BeginPromotion, Exit, Ends, Plan
    <2>3. PairInv'
      BY <1>0, <1>1, <1>2, <2>1, <2>2, PlansOrderly, QuietPairs
    <2>4. Retiring(d)'
      <3> SUFFICES ASSUME pc'[d] = "rename" PROVE pid'[Public] = old'[d] /\ \A o \in Todo(d)' : o.place # Public
        BY DEF Retiring
      <3>1. pid[Public] = old[d] /\ script'[d] = CleanupDrain(old[d])
        BY <1>0, <1>3 DEF BeginPromotion, Exit, Goto, Plan
      <3>2. Todo(d)' = {Rm("sock", Drain(old[d])), Rm("pid", Drain(old[d]))}
        BY <3>1, OpsOf DEF Todo, CleanupDrain
      <3> QED BY <1>1, <1>2, <3>1, <3>2, OpFields, PlacesApart
    <2>5. \A e \in Daemons : DrainOwn(e)'
      BY <1>0, <1>1, <2>1 DEF DrainOwn, Killed
    <2> QED BY <1>1, <2>3, <2>4, <2>5
  <1>4. CASE RetireSocket(d)
    <2>1. pc'[d] # "rename" /\ script[d] = <<>>
      BY <1>0, <1>4 DEF RetireSocket, Exit, Goto, Ready
    <2>2. CASE sock[Public] = None
      <3>1. script'[d] = <<>> /\ sock' = sock
        BY <1>0, <1>4, <2>2 DEF RetireSocket, Exit, Ends, Plan, fileVars
      <3>2. PairInv'
        BY <1>0, <1>1, <2>1, <3>1, PlansOrderly, QuietPairs
      <3> QED BY <1>0, <1>1, <2>1, <3>1, <3>2 DEF DrainOwn, Killed, Retiring
    <2>3. CASE sock[Public] # None
      <3>1. sock' = [sock EXCEPT ![Drain(old[d])] = sock[Public], ![Public] = None]
        BY <1>4, <2>3 DEF RetireSocket
      <3>2. PairInv'
        BY <1>0, <3>1, Emptied
      <3>3. Killed \/ Owner = old[d]
        BY <1>4, <2>3, OwnerRetires DEF RetireSocket
      <3>4. ASSUME NEW e \in Daemons PROVE DrainOwn(e)'
        <4>1. Drain(e) \in Places /\ Drain(e) # Public /\ DrainOwn(e)
          BY <1>0, PlacesApart
        <4>2. CASE e = old[d]
          BY <1>0, <1>1, <3>1, <3>3, <4>1, <4>2 DEF DrainOwn, Killed, Owner
        <4>3. CASE e # old[d]
          <5>1. sock'[Drain(e)] = sock[Drain(e)]
            BY <1>0, <1>2, <3>1, <4>1, <4>3, PlacesApart
          <5> QED BY <1>1, <4>1, <5>1 DEF DrainOwn, Killed
        <4> QED BY <4>2, <4>3
      <3> QED BY <1>1, <2>1, <3>2, <3>4 DEF Retiring
    <2> QED BY <2>2, <2>3
  <1>5. CASE PromoteSocket(d)
    <2>1. /\ pc[d] = "signal" /\ home[d] = Staged /\ pc'[d] = "signal"
          /\ sock' = [sock EXCEPT ![Public] = sock[Staged], ![Staged] = None]
          /\ script' = [script EXCEPT ![d] = <<Put("pid", Public, d), Put("info", Public, d), Rm("pid", Staged)>>]
      BY <1>5 DEF PromoteSocket, Plan
    <2>2. sock[Staged] = <<d, 1>> /\ gen[d] = 1
      BY <1>0, <2>1 DEF CleanInv, Settled, OwnSocket, Staging, Promoting
    <2>3. sock'[Public] # None /\ sock'[Public][1] = d /\ gen'[d] # 0
      BY <1>0, <1>1, <2>1, <2>2, PlacesApart, Bounds, ListenersFit
    <2>4. Todo(d)' = {Put("pid", Public, d), Put("info", Public, d), Rm("pid", Staged)}
      BY <1>0, <2>1, OpsOf DEF Todo
    <2>5. \A o \in Todo(d)' : PublicPid(o) => o.value = d
      BY <2>4, OpFields, PlacesApart DEF PublicPid
    <2>6. \A y \in Processes \ {d} : Todo(y)' = {}
      BY <1>0, <2>1, OpsOf DEF Todo, Busy, Ready
    <2>7. PairInv'
      BY <2>3, <2>4, <2>5, <2>6, Claimed
    <2>8. \A e \in Daemons : sock'[Drain(e)] = sock[Drain(e)]
      BY <1>0, <2>1, PlacesApart
    <2> QED BY <1>0, <1>1, <2>1, <2>7, <2>8 DEF DrainOwn, Killed, Retiring
  <1> QED
    BY <1>3, <1>4, <1>5

LEMMA LoopPairs ==
    ASSUME UpgradeInv, CleanInv', NEW d \in Daemons, \A y \in Processes \ {d} : ~Busy(y),
           \/ RepairIdentity(d) \/ FindSocketMissing(d) \/ Rebind(d) \/ HandleTerm(d) \/ HandleUsr2(d)
           \/ IdleExit(d) \/ FinishStop(d) \/ Leave(d) \/ \E c \in Clients : Accept(d, c)
    PROVE  /\ PairInv' /\ pc'[d] # "rename" /\ signal' = signal
           /\ \A e \in Daemons : sock'[Drain(e)] = sock[Drain(e)]
  <1>0. /\ CleanInv /\ DaemonsFit /\ PairInv /\ d \in Processes /\ Public \in Places
        /\ pc \in [Processes -> DaemonPcs \cup ClientPcs] /\ script \in [Processes -> Seq(Operation)]
        /\ sock \in [Places -> (Daemons \X (1..MaxBinds)) \cup {None}]
    BY Apart, PlacesApart DEF UpgradeInv, CleanInv, DaemonsFit, DaemonTypeOK
  <1>1. /\ DaemonMove(d) /\ ~SignalOld(d) /\ pid' = pid /\ signal' = signal /\ pc'[d] # "rename"
    BY <1>0 DEF DaemonMove, DaemonStep, RepairIdentity, FindSocketMissing, Rebind, HandleTerm, HandleUsr2, IdleExit,
                Leaves, FinishStop, Leave, Accept, InLoop, SignalOld, Exit, Goto, fileVars, daemonVars
  <1>2. CASE \/ FindSocketMissing(d) \/ HandleTerm(d) \/ HandleUsr2(d)
             \/ IdleExit(d) \/ \E c \in Clients : Accept(d, c)
    <2>1. sock' = sock /\ gen' = gen /\ script' = script
      BY <1>2 DEF FindSocketMissing, HandleTerm, HandleUsr2, IdleExit, Leaves, Accept, fileVars, daemonVars
    <2>2. Plans(d)
      BY <2>1 DEF Plans
    <2> QED BY <1>1, <2>1, <2>2, QuietPairs
  <1>3. CASE FinishStop(d) \/ Leave(d)
    <2>1. sock' = sock /\ gen' = gen
      BY <1>3 DEF FinishStop, Leave, fileVars, daemonVars
    <2>2. script[d] = <<>>
      BY <1>0, <1>3, Untroubled DEF FinishStop, Leave, Ready
    <2>3. script'[d] \in {<<>>, CleanupDrain(d), CleanupOwned(d)}
      BY <1>0, <1>3 DEF FinishStop, Leave, Exit, Ends, Plan
    <2> QED BY <1>0, <1>1, <2>1, <2>2, <2>3, PlansOrderly, QuietPairs
  <1>4. ASSUME RepairIdentity(d) \/ Rebind(d)
        PROVE  home[d] = Public /\ Ops(WriteIdentity(d)) = {Put("pid", Public, d), Put("info", Public, d)}
    <2>1. home[d] \in {Public, Staged} /\ Career(d)
      BY <1>0 DEF CleanInv, Settled, DaemonsFit, DaemonTypeOK
    <2>2. pc[d] \in {"serve", "rebind"}
      BY <1>4 DEF RepairIdentity, Rebind, InLoop
    <2>3. home[d] = Public
      BY <2>1, <2>2 DEF Career, Before, Promoting
    <2> QED BY <2>3, OpsOfPlans
  <1>5. CASE RepairIdentity(d)
    <2>1. sock' = sock /\ gen' = gen /\ script[d] = <<>> /\ script'[d] = WriteIdentity(d) /\ sock[Public] # None /\ pid[Public] = None
      BY <1>0, <1>5 DEF RepairIdentity, InLoop, Ready, Plan, fileVars, daemonVars
    <2>2. Owner \in Processes /\ Owner # None
      BY <1>0, <2>1, OwnerFits
    <2>3. Todo(Owner) = {}
      BY <2>1, <2>2, OpsOf DEF Todo, Busy, Ready
    <2>4. ~Trusted
      BY <1>0, <2>1, <2>2, <2>3 DEF PairInv, Paired
    <2>5. Todo(d)' = {Put("pid", Public, d), Put("info", Public, d)}
      BY <1>4, <1>5, <2>1 DEF Todo
    <2>6. \A o \in Todo(d)' : o.value # None
      BY <2>5, OpFields, Apart
    <2>7. Plans(d)
      BY <2>1, <2>4, <2>6 DEF Plans
    <2> QED BY <1>1, <2>1, <2>7, QuietPairs
  <1>6. CASE Rebind(d)
    <2>1. CASE sock[Public] # None
      <3>1. sock' = sock /\ gen' = gen /\ script' = script
        BY <1>6, <2>1 DEF Rebind
      <3>2. Plans(d)
        BY <3>1 DEF Plans
      <3> QED BY <1>1, <3>1, <3>2, QuietPairs
    <2>2. CASE sock[Public] = None
      <3>1. /\ sock' = [sock EXCEPT ![Public] = <<d, gen[d] + 1>>] /\ gen' = [gen EXCEPT ![d] = @ + 1]
            /\ script' = [script EXCEPT ![d] = WriteIdentity(d)]
        BY <1>6, <2>2 DEF Rebind, Plan
      <3>2. gen \in [Daemons -> 0..MaxBinds] /\ MaxBinds \in Nat /\ gen[d] < MaxBinds
        BY <1>0, <1>6, Bounds DEF Rebind, DaemonsFit, DaemonTypeOK, Targeted
      <3>3. sock'[Public] # None /\ sock'[Public][1] = d /\ gen'[d] # 0
        <4>1. sock'[Public] = <<d, gen[d] + 1>> /\ gen'[d] = gen[d] + 1 /\ gen[d] + 1 \in 1..MaxBinds
          BY <1>0, <3>1, <3>2
        <4> QED BY <4>1, ListenersFit
      <3>4. Todo(d)' = {Put("pid", Public, d), Put("info", Public, d)}
        BY <1>0, <1>4, <1>6, <3>1 DEF Todo
      <3>5. \A o \in Todo(d)' : PublicPid(o) => o.value = d
        BY <3>4, OpFields DEF PublicPid
      <3>6. \A y \in Processes \ {d} : Todo(y)' = {}
        BY <1>0, <3>1, OpsOf DEF Todo, Busy, Ready
      <3>7. PairInv'
        BY <3>3, <3>4, <3>5, <3>6, Claimed
      <3>8. \A e \in Daemons : sock'[Drain(e)] = sock[Drain(e)]
        BY <1>0, <3>1, PlacesApart
      <3> QED BY <1>1, <3>7, <3>8
    <2> QED BY <2>1, <2>2
  <1> QED
    BY <1>2, <1>3, <1>5, <1>6

Forward(d) ==
    /\ signal[d] \subseteq signal'[d]
    /\ \/ pc'[d] = pc[d] \/ pc'[d] = "dead"
       \/ pc[d] = "none" /\ pc'[d] = "start"
       \/ pc[d] = "signal" /\ pc'[d] = "serve"

\* A step that leaves every file alone.
LEMMA Aside ==
    ASSUME UpgradeInv, CleanInv', NEW x \in Processes, \A y \in Processes \ {x} : ~Busy(y), Plans(x),
           UNCHANGED <<sock, pid, gen>>, \A y \in Processes \ {x} : script'[y] = script[y],
           \A d \in Daemons : Forward(d),
           x \in Daemons => pc'[x] # "rename"
    PROVE  PairInv' /\ \A d \in Daemons : Fresh(d)' /\ Retiring(d)' /\ DrainOwn(d)'
  <1>0. DaemonsFit /\ DaemonsFit' /\ PairInv /\ \A d \in Daemons : Fresh(d) /\ DrainOwn(d)
    BY DEF UpgradeInv, CleanInv
  <1>1. \A d \in Daemons : Onward(d)
    BY <1>0 DEF Onward, Fresh, Forward
  <1>2. PairInv'
    BY <1>0, <1>1, Unmoved
  <1>3. ASSUME NEW d \in Daemons PROVE Fresh(d)' /\ Retiring(d)' /\ DrainOwn(d)'
    <2>1. Fresh(d)'
      BY <1>0 DEF Fresh, Forward
    <2>2. pc'[d] # "rename"
      BY Apart DEF Busy, Forward
    <2>3. DrainOwn(d)'
      BY <1>0 DEF DrainOwn, Killed, Forward
    <2> QED BY <2>1, <2>2, <2>3 DEF Retiring
  <1> QED
    BY <1>2, <1>3

LEMMA CrashPairs ==
    ASSUME UpgradeInv, CleanInv', NEW x \in Processes, \A y \in Processes \ {x} : ~Busy(y), Crash(x)
    PROVE  PairInv' /\ \A d \in Daemons : Fresh(d)' /\ Retiring(d)' /\ DrainOwn(d)'
  <1>0. /\ DaemonsFit /\ signal \in [Daemons -> SUBSET {"term", "usr2", "kill"}]
        /\ pc \in [Processes -> DaemonPcs \cup ClientPcs] /\ script \in [Processes -> Seq(Operation)]
    BY DEF UpgradeInv, CleanInv, DaemonsFit, DaemonTypeOK
  <1>1. /\ UNCHANGED <<sock, pid, gen>> /\ script'[x] = <<>> /\ \A y \in Processes \ {x} : script'[y] = script[y]
    BY <1>0 DEF Crash, Ends, Plan, fileVars
  <1>2. x \in Daemons => pc'[x] = "dead" /\ "kill" \in signal'[x]
    BY <1>0, Apart DEF Crash, Goto
  <1>3. \A d \in Daemons : Forward(d)
    BY <1>0, Apart DEF Crash, Goto, Forward
  <1>4. Plans(x)
    BY <1>1, <1>2, OpsOf DEF Plans, Todo
  <1> QED
    BY <1>1, <1>2, <1>3, <1>4, Aside

LEMMA SignalOldPairs ==
    ASSUME UpgradeInv, CleanInv', NEW d \in Daemons, \A y \in Processes \ {d} : ~Busy(y), SignalOld(d)
    PROVE  PairInv' /\ \A e \in Daemons : Fresh(e)' /\ Retiring(e)' /\ DrainOwn(e)'
  <1>0. /\ DaemonsFit /\ d \in Processes /\ signal \in [Daemons -> SUBSET {"term", "usr2", "kill"}]
        /\ pc \in [Processes -> DaemonPcs \cup ClientPcs] /\ script \in [Processes -> Seq(Operation)]
    BY Apart DEF UpgradeInv, CleanInv, DaemonsFit, DaemonTypeOK
  <1>1. UNCHANGED <<sock, pid, gen>> /\ pc[d] = "signal" /\ script[d] = <<>>
    BY DEF SignalOld, fileVars, Ready
  <1>2. PICK o : o = old[d]
    OBVIOUS
  <1>3. \A y \in Processes : script'[y] = script[y]
    <2>1. script' = [script EXCEPT ![o] = <<>>] \/ script' = [script EXCEPT ![o] = script[o]]
      BY <1>2 DEF SignalOld
    <2>2. o \in Processes => script[o] = <<>>
      BY <1>1 DEF Busy, Ready
    <2> QED BY <1>0, <2>1, <2>2
  <1>4. \A e \in Daemons : signal[e] \subseteq signal'[e]
    BY <1>0, <1>2 DEF SignalOld
  <1>5. \A e \in Processes : pc'[e] \in {pc[e], "dead"} \/ (e = d /\ pc'[e] = "serve")
    <2>1. pc' = [pc EXCEPT ![d] = "serve", ![o] = "dead"] \/ pc' = [pc EXCEPT ![d] = "serve", ![o] = @]
      BY <1>2 DEF SignalOld
    <2> QED BY <1>0, <2>1
  <1>6. Plans(d)
    BY <1>0, <1>3 DEF Plans
  <1>7. \A e \in Daemons : Forward(e)
    BY <1>1, <1>4, <1>5, Apart DEF Forward
  <1>8. pc'[d] # "rename"
    BY <1>0, <1>1, <1>5
  <1> QED
    BY <1>0, <1>1, <1>3, <1>6, <1>7, <1>8, Aside

\* A client that removes files removes the socket before the pid file.
LEMMA ClientPlans ==
    ASSUME DaemonsFit, NEW c \in Clients,
           \/ script'[c] \in {<<>>, script[c], CleanupFiles, <<Rm("sock", Public), Rm("pid", Public)>>}
           \/ \E d \in Daemons : script'[c] = CleanupDrain(d)
    PROVE  Plans(c)
  <1>0. c \notin Daemons /\ None \notin Daemons
    BY Apart
  <1>1. CASE script'[c] \in {<<>>, script[c]}
    BY <1>0, <1>1, OpsOf DEF Plans, Todo
  <1>2. CASE script'[c] = CleanupFiles
    <2>1. Todo(c)' = {Rm("sock", Public), Rm("pid", Public), Rm("info", Public)} /\ Head(script'[c]) = Rm("sock", Public)
      BY <1>2, OpsOf DEF Todo, CleanupFiles
    <2>2. \A o \in Todo(c)' : o.value = None
      BY <2>1, OpFields
    <2> QED BY <1>0, <2>1, <2>2 DEF Plans
  <1>3. CASE script'[c] = <<Rm("sock", Public), Rm("pid", Public)>>
    <2>1. Todo(c)' = {Rm("sock", Public), Rm("pid", Public)} /\ Head(script'[c]) = Rm("sock", Public)
      BY <1>3, OpsOf DEF Todo
    <2>2. \A o \in Todo(c)' : o.value = None
      BY <2>1, OpFields
    <2> QED BY <1>0, <2>1, <2>2 DEF Plans
  <1>4. CASE \E d \in Daemons : script'[c] = CleanupDrain(d)
    <2>1. PICK d \in Daemons : script'[c] = CleanupDrain(d)
      BY <1>4
    <2>2. Todo(c)' = {Rm("sock", Drain(d)), Rm("pid", Drain(d))}
      BY <2>1, OpsOf DEF Todo, CleanupDrain
    <2>3. \A o \in Todo(c)' : ~PublicPid(o)
      BY <2>2, OpFields, PlacesApart DEF PublicPid
    <2> QED BY <1>0, <2>3 DEF Plans
  <1> QED
    BY <1>1, <1>2, <1>3, <1>4

LEMMA ProxyPairs ==
    ASSUME UpgradeInv, CleanInv', NEW p \in Proxies, \A y \in Processes \ {p} : ~Busy(y), ProxyMove(p)
    PROVE  PairInv' /\ \A d \in Daemons : Fresh(d)' /\ Retiring(d)' /\ DrainOwn(d)'
  <1>0. /\ DaemonsFit /\ p \in Clients /\ p \in Processes /\ p \notin Daemons
        /\ pc \in [Processes -> DaemonPcs \cup ClientPcs] /\ script \in [Processes -> Seq(Operation)]
    BY Apart DEF UpgradeInv, CleanInv, DaemonsFit, DaemonTypeOK
  <1>1. CASE SpawnDaemon(p)
    <2>1. PICK d \in Daemons : Spawn(d, "start", None) /\ pc' = [pc EXCEPT ![d] = "start", ![p] = "wait"]
      BY <1>1 DEF SpawnDaemon
    <2>2. UNCHANGED <<sock, pid, gen, script, signal>> /\ pc[d] = "none"
      BY <1>1, <2>1 DEF SpawnDaemon, Spawn, fileVars
    <2>3. \A e \in Daemons : Forward(e)
      BY <1>0, <2>1, <2>2, Apart DEF Forward
    <2>4. Plans(p)
      BY <2>2 DEF Plans
    <2> QED BY <1>0, <2>2, <2>3, <2>4, Aside
  <1>2. CASE ~SpawnDaemon(p)
    <2>1. UNCHANGED <<sock, pid, gen, signal>>
      BY <1>2 DEF ProxyMove, ProxyStep, CheckStale, ConnectTo, NotConnectable, TryLock, GiveUp, Lost, Disconnect,
                  fileVars, daemonVars
    <2>2. \A y \in Processes \ {p} : pc'[y] = pc[y]
      BY <1>0, <1>2 DEF ProxyMove, ProxyStep, CheckStale, ConnectTo, NotConnectable, TryLock, GiveUp, Lost, Disconnect, Goto
    <2>3. \A y \in Processes \ {p} : script'[y] = script[y]
      BY <1>0, <1>2 DEF ProxyMove, ProxyStep, CheckStale, ConnectTo, NotConnectable, TryLock, GiveUp, Lost, Disconnect,
                        Ends, Plan
    <2>4. script'[p] \in {<<>>, script[p], <<Rm("sock", Public), Rm("pid", Public)>>}
      BY <1>0, <1>2 DEF ProxyMove, ProxyStep, CheckStale, ConnectTo, NotConnectable, TryLock, GiveUp, Lost, Disconnect,
                        Ends, Plan
    <2>5. Plans(p)
      BY <1>0, <2>4, ClientPlans
    <2>6. \A e \in Daemons : Forward(e)
      BY <1>0, <2>1, <2>2, Apart DEF Forward
    <2> QED BY <1>0, <2>1, <2>3, <2>5, <2>6, Aside
  <1> QED
    BY <1>1, <1>2

LEMMA SendTermPairs ==
    ASSUME UpgradeInv, CleanInv', \A y \in Processes \ {Operator} : ~Busy(y), SendTerm
    PROVE  PairInv' /\ \A d \in Daemons : Fresh(d)' /\ Retiring(d)' /\ DrainOwn(d)'
  <1>0. /\ DaemonsFit /\ Operator \in Processes /\ Operator \notin Daemons
        /\ signal \in [Daemons -> SUBSET {"term", "usr2", "kill"}]
        /\ pc \in [Processes -> DaemonPcs \cup ClientPcs] /\ script \in [Processes -> Seq(Operation)]
    BY Apart DEF UpgradeInv, CleanInv, DaemonsFit, DaemonTypeOK
  <1>1. PICK o \in Daemons \cup {None} : o = target.daemon
    BY <1>0 DEF DaemonsFit, DaemonTypeOK
  <1>2. UNCHANGED <<sock, pid, gen>>
    BY DEF SendTerm, fileVars
  <1>3. \A y \in Processes : script'[y] = script[y]
    <2>1. script' = [script EXCEPT ![o] = <<>>] \/ script' = [script EXCEPT ![o] = script[o]]
      BY <1>1 DEF SendTerm
    <2>2. o \in Processes => script[o] = <<>>
      BY <1>0, Apart DEF Busy, Ready
    <2> QED BY <1>0, <2>1, <2>2
  <1>4. \A e \in Daemons : Forward(e)
    <2>1. \A e \in Daemons : signal[e] \subseteq signal'[e]
      BY <1>0, <1>1 DEF SendTerm
    <2>2. \E label : pc' = [pc EXCEPT ![Operator] = label, ![o] = "dead"] \/ pc' = [pc EXCEPT ![Operator] = label, ![o] = @]
      BY <1>1 DEF SendTerm
    <2>3. \A e \in Daemons : pc'[e] \in {pc[e], "dead"}
      BY <1>0, <2>2, Apart
    <2> QED BY <2>1, <2>3 DEF Forward
  <1>5. Plans(Operator)
    BY <1>0, <1>3 DEF Plans
  <1> QED
    BY <1>0, <1>2, <1>3, <1>4, <1>5, Aside

LEMMA OperatorPairs ==
    ASSUME UpgradeInv, CleanInv', \A y \in Processes \ {Operator} : ~Busy(y), OperatorMove
    PROVE  PairInv' /\ \A d \in Daemons : Fresh(d)' /\ Retiring(d)' /\ DrainOwn(d)'
  <1>0. /\ DaemonsFit /\ Operator \in Clients /\ Operator \in Processes /\ Operator \notin Daemons
        /\ pc \in [Processes -> DaemonPcs \cup ClientPcs] /\ script \in [Processes -> Seq(Operation)]
    BY Apart DEF UpgradeInv, CleanInv, DaemonsFit, DaemonTypeOK
  <1>1. CASE SpawnNormal \/ (BeginUpgrade /\ DaemonAlive(Public))
    <2>1. PICK d \in Daemons : /\ Spawn(d, "start", pid[Public]) \/ Spawn(d, "start", None)
                               /\ pc' = [pc EXCEPT ![d] = "start", ![Operator] = "staging"]
      BY <1>1 DEF SpawnNormal, BeginUpgrade
    <2>2. UNCHANGED <<sock, pid, gen, script, signal>> /\ pc[d] = "none"
      BY <1>1, <2>1 DEF SpawnNormal, BeginUpgrade, Spawn, fileVars
    <2>3. \A e \in Daemons : Forward(e)
      BY <1>0, <2>1, <2>2, Apart DEF Forward
    <2>4. Plans(Operator)
      BY <2>2 DEF Plans
    <2> QED BY <1>0, <2>2, <2>3, <2>4, Aside
  <1>2. CASE SendTerm
    BY <1>2, SendTermPairs
  <1>3. CASE \/ StopSeesEnd \/ StopTimesOut \/ BeginSmoke \/ SmokeAnswered \/ SmokeFails \/ UpgradeFails
             \/ BeginStop \/ SweepDrains \/ (BeginUpgrade /\ ~DaemonAlive(Public))
    <2>1. UNCHANGED <<sock, pid, gen, signal>>
      BY <1>3 DEF StopSeesEnd, StopTimesOut, BeginSmoke, SmokeAnswered, SmokeFails, UpgradeFails, BeginStop, SweepDrains,
                  BeginUpgrade, fileVars, daemonVars
    <2>2. \A y \in Processes \ {Operator} : pc'[y] = pc[y]
      BY <1>0, <1>3 DEF StopSeesEnd, StopTimesOut, BeginSmoke, SmokeAnswered, SmokeFails, UpgradeFails, BeginStop,
                        SweepDrains, BeginUpgrade, Goto
    <2>3. \A y \in Processes \ {Operator} : script'[y] = script[y]
      BY <1>0, <1>3 DEF StopSeesEnd, StopTimesOut, BeginSmoke, SmokeAnswered, SmokeFails, UpgradeFails, BeginStop,
                        SweepDrains, BeginUpgrade, Ends, Plan
    <2>4. \/ script'[Operator] \in {<<>>, script[Operator], CleanupFiles}
          \/ \E d \in Daemons : script'[Operator] = CleanupDrain(d)
      BY <1>0, <1>3 DEF StopSeesEnd, StopTimesOut, BeginSmoke, SmokeAnswered, SmokeFails, UpgradeFails, BeginStop,
                        SweepDrains, BeginUpgrade, Ends, Plan
    <2>5. Plans(Operator)
      BY <1>0, <2>4, ClientPlans
    <2>6. \A e \in Daemons : Forward(e)
      BY <1>0, <2>1, <2>2, Apart DEF Forward
    <2> QED BY <1>0, <2>1, <2>3, <2>5, <2>6, Aside
  <1> QED
    BY <1>1, <1>2, <1>3 DEF OperatorMove, OperatorStep

-----------------------------------------------------------------------------
(* Whom the smoke test of an upgrade reaches.                              *)

\* No connection of the operator is new.
NoneNew == \A d \in Daemons : Operator \in sessions'[d] \cup backlog'[d] => Operator \in sessions[d] \cup backlog[d]

LEMMA ConnectionsEnd ==
    ASSUME DaemonsFit, NEW x \in Processes,
           \/ Execute(x) \/ Crash(x)
           \/ x \in Daemons /\ DaemonMove(x)
           \/ x \in Proxies /\ ProxyMove(x)
    PROVE  NoneNew /\ target' = target /\ (pc'[Operator] = pc[Operator] \/ pc'[Operator] = "dead")
  <1>0. /\ Operator \in Processes /\ Operator \notin Daemons /\ Operator \notin Proxies
        /\ pc \in [Processes -> DaemonPcs \cup ClientPcs]
        /\ sessions \in [Daemons -> SUBSET Clients] /\ backlog \in [Daemons -> SUBSET Clients]
    BY Apart DEF DaemonsFit, DaemonTypeOK
  <1>1. CASE Execute(x)
    BY <1>1 DEF Execute, NoneNew, connVars, opVars
  <1>2. CASE Crash(x)
    BY <1>0, <1>2 DEF Crash, Ends, Goto, NoneNew, opVars
  <1>3. CASE x \in Daemons /\ DaemonMove(x) /\ ~SignalOld(x)
    <2>1. target' = target
      BY <1>3 DEF DaemonMove, DaemonStep, CheckSocket, Unlink, Bind, Initialized, InitializeFails, BeginPromotion,
                RetireSocket, PromoteSocket, PromoteFails, RepairIdentity, FindSocketMissing, Rebind, HandleTerm,
                HandleUsr2, IdleExit, Leaves, FinishStop, Leave, Accept, opVars
    <2>2. Same(Operator)
      BY <1>0, <1>3, OnlyMe
    <2>3. CASE \E c \in Clients : Accept(x, c)
      BY <1>0, <2>1, <2>2, <2>3 DEF Accept, NoneNew, Same
    <2>4. CASE ~\E c \in Clients : Accept(x, c)
      <3>1. \A d \in Daemons : sessions'[d] \subseteq sessions[d] /\ backlog'[d] \subseteq backlog[d]
        BY <1>0, <1>3, <2>4
           DEF DaemonMove, DaemonStep, CheckSocket, Unlink, Bind, Initialized, InitializeFails, BeginPromotion,
               RetireSocket, PromoteSocket, PromoteFails, RepairIdentity, FindSocketMissing, Rebind, HandleTerm,
               HandleUsr2, IdleExit, Leaves, FinishStop, Leave, Exit, Ends, connVars
      <3> QED BY <2>1, <2>2, <3>1 DEF NoneNew, Same
    <2> QED BY <2>3, <2>4
  <1>4. CASE x \in Daemons /\ SignalOld(x)
    <2>1. PICK o : o = old[x]
      OBVIOUS
    <2>2. target' = target
      BY <1>4 DEF SignalOld, opVars
    <2>3. \/ sessions' = [sessions EXCEPT ![o] = {}] /\ backlog' = [backlog EXCEPT ![o] = {}]
          \/ sessions' = [sessions EXCEPT ![o] = @] /\ backlog' = [backlog EXCEPT ![o] = @]
      BY <1>4, <2>1 DEF SignalOld
    <2>4. pc' = [pc EXCEPT ![x] = "serve", ![o] = "dead"] \/ pc' = [pc EXCEPT ![x] = "serve", ![o] = @]
      BY <1>4, <2>1 DEF SignalOld
    <2>5. pc'[Operator] = pc[Operator] \/ pc'[Operator] = "dead"
      BY <1>0, <1>4, <2>4
    <2> QED BY <1>0, <2>2, <2>3, <2>5 DEF NoneNew
  <1>5. CASE x \in Proxies /\ ProxyMove(x)
    <2>1. target' = target
      BY <1>5 DEF ProxyMove, ProxyStep, CheckStale, ConnectTo, NotConnectable, TryLock, SpawnDaemon, GiveUp, Lost,
                Disconnect, opVars
    <2>2. pc'[Operator] = pc[Operator]
      BY <1>0, <1>5 DEF ProxyMove, ProxyStep, CheckStale, ConnectTo, NotConnectable, TryLock, SpawnDaemon, GiveUp, Lost,
                Disconnect, Goto
    <2>3. NoneNew
      BY <1>0, <1>5, <2>1 DEF ProxyMove, ProxyStep, CheckStale, ConnectTo, Connect, NotConnectable, TryLock, SpawnDaemon,
                GiveUp, Lost, Disconnect, Ends, NoneNew, connVars
    <2> QED BY <2>1, <2>2, <2>3
  <1> QED
    BY <1>1, <1>2, <1>3, <1>4, <1>5

LEMMA OtherSmokes ==
    ASSUME UpgradeInv, CleanInv', NEW x \in Processes,
           \/ Execute(x) \/ Crash(x)
           \/ x \in Daemons /\ DaemonMove(x)
           \/ x \in Proxies /\ ProxyMove(x)
    PROVE  UpgradeReplaces' /\ \A d \in Daemons : Smoking(d)'
  <1>1. NoneNew /\ target' = target /\ (pc'[Operator] = pc[Operator] \/ pc'[Operator] = "dead")
    BY ConnectionsEnd DEF UpgradeInv, CleanInv
  <1>2. pc'[Operator] # "dead"
    BY Apart DEF CleanInv, DaemonsFit, DaemonTypeOK, ClientPcs
  <1> QED
    BY <1>1, <1>2 DEF UpgradeInv, UpgradeReplaces, Smoking, NoneNew

\* What connects in BeginSmoke is the daemon of the pid file, and not the old one.
LEMMA SmokesTheNew ==
    ASSUME UpgradeInv, \A y \in Processes \ {Operator} : ~Busy(y), BeginSmoke
    PROVE  Owner \in Daemons /\ Owner # target.daemon /\ backlog' = [backlog EXCEPT ![Owner] = @ \cup {Operator}]
  <1>1. Connectable(Public) /\ backlog' = [backlog EXCEPT ![Owner] = @ \cup {Operator}] /\ pid[Public] # target.daemon
    BY DEF BeginSmoke, Connect, Owner
  <1>2. DaemonsFit /\ PairInv /\ sock[Public] # None
    BY <1>1 DEF UpgradeInv, CleanInv, Connectable
  <1>3. Owner \in Daemons /\ Owner \in Processes /\ Owner # Operator
    BY <1>2, OwnerFits, Apart
  <1>4. Todo(Owner) = {}
    BY <1>3, OpsOf DEF Todo, Busy, Ready
  <1>5. pid[Public] = Owner
    BY <1>1, <1>2, <1>4 DEF PairInv, Paired, Trusted
  <1> QED
    BY <1>1, <1>3, <1>5

LEMMA OperatorSmokes ==
    ASSUME UpgradeInv, CleanInv', \A y \in Processes \ {Operator} : ~Busy(y), OperatorMove
    PROVE  UpgradeReplaces' /\ \A d \in Daemons : Smoking(d)'
  <1>0. /\ Operator \in Processes /\ Operator \notin Daemons /\ UpgradeReplaces
        /\ pc \in [Processes -> DaemonPcs \cup ClientPcs] /\ target \in [daemon : Daemons \cup {None}, by : Daemons \cup {None}]
        /\ sessions \in [Daemons -> SUBSET Clients] /\ backlog \in [Daemons -> SUBSET Clients]
        /\ \A d \in Daemons : Smoking(d)
    BY Apart DEF UpgradeInv, CleanInv, DaemonsFit, DaemonTypeOK
  <1>1. CASE BeginSmoke
    <2>1. pc[Operator] = "staging" /\ pc'[Operator] = "smoke" /\ UNCHANGED <<target, sessions>>
      BY <1>0, <1>1 DEF BeginSmoke, Connect, Goto, opVars
    <2>2. Owner \in Daemons /\ Owner # target.daemon /\ backlog' = [backlog EXCEPT ![Owner] = @ \cup {Operator}]
      BY <1>1, SmokesTheNew
    <2>3. \A d \in Daemons : Operator \in sessions'[d] \cup backlog'[d] => d = Owner
      BY <1>0, <2>1, <2>2 DEF Smoking
    <2> QED BY <1>0, <2>1, <2>2, <2>3 DEF Smoking, UpgradeReplaces
  <1>2. CASE SmokeAnswered
    <2>1. PICK d \in Daemons : Operator \in sessions[d] /\ target' = [target EXCEPT !.by = d]
      BY <1>2 DEF SmokeAnswered
    <2>2. target'.by = d /\ target'.daemon = target.daemon
      BY <1>0, <2>1
    <2>3. UpgradeReplaces'
      BY <1>0, <2>1, <2>2 DEF Smoking, UpgradeReplaces
    <2>4. \A e \in Daemons : Operator \notin sessions'[e] \cup backlog'[e]
      BY <1>0, <1>2 DEF SmokeAnswered, Ends
    <2> QED BY <2>3, <2>4 DEF Smoking
  <1>3. CASE SmokeFails
    <2>1. ~Connected(Operator) /\ UNCHANGED <<target, sessions, backlog>>
      BY <1>3 DEF SmokeFails, connVars, opVars
    <2> QED BY <1>0, <2>1 DEF Connected, Smoking, UpgradeReplaces
  <1>4. CASE SendTerm
    <2>1. PICK o : o = target.daemon
      OBVIOUS
    <2>2. target' = target /\ pc[Operator] # "smoke"
      BY <1>4 DEF SendTerm, opVars
    <2>3. \/ sessions' = [sessions EXCEPT ![o] = {}] /\ backlog' = [backlog EXCEPT ![o] = {}]
          \/ sessions' = [sessions EXCEPT ![o] = @] /\ backlog' = [backlog EXCEPT ![o] = @]
      BY <1>4, <2>1 DEF SendTerm
    <2>4. \A d \in Daemons : Operator \notin sessions'[d] \cup backlog'[d]
      BY <1>0, <2>2, <2>3 DEF Smoking
    <2> QED BY <1>0, <2>2, <2>4 DEF Smoking, UpgradeReplaces
  <1>5. CASE StopSeesEnd \/ StopTimesOut \/ SpawnNormal \/ UpgradeFails \/ BeginStop \/ BeginUpgrade \/ SweepDrains
    <2>1. pc[Operator] # "smoke" /\ UNCHANGED <<sessions, backlog>>
      BY <1>5 DEF StopSeesEnd, StopTimesOut, SpawnNormal, UpgradeFails, BeginStop, BeginUpgrade, SweepDrains, connVars
    <2>2. target' = target \/ target'.by = None
      BY <1>5 DEF StopSeesEnd, StopTimesOut, SpawnNormal, UpgradeFails, BeginStop, BeginUpgrade, SweepDrains, opVars
    <2> QED BY <1>0, <2>1, <2>2 DEF Smoking, UpgradeReplaces
  <1> QED
    BY <1>1, <1>2, <1>3, <1>4, <1>5 DEF OperatorMove, OperatorStep

-----------------------------------------------------------------------------

LEMMA DaemonUpgrades ==
    ASSUME "io" \notin Options, UpgradeInv, CleanInv', NEW d \in Daemons, \A y \in Processes \ {d} : ~Busy(y), DaemonMove(d)
    PROVE  PairInv' /\ \A e \in Daemons : Fresh(e)' /\ Retiring(e)' /\ DrainOwn(e)'
  <1>0. DaemonsFit /\ ~PromoteFails(d) /\ \A e \in Daemons : Fresh(e) /\ DrainOwn(e)
    BY DEF UpgradeInv, CleanInv, PromoteFails
  <1>1. CASE SignalOld(d)
    BY <1>1, SignalOldPairs
  <1>2. CASE ~SignalOld(d)
    <2>1. PairInv' /\ Retiring(d)' /\ signal' = signal /\ \A e \in Daemons : DrainOwn(e)'
      <3>1. CASE BeginPromotion(d) \/ RetireSocket(d) \/ PromoteSocket(d)
        BY <3>1, PromotingPairs
      <3>2. CASE ~(BeginPromotion(d) \/ RetireSocket(d) \/ PromoteSocket(d))
        <4>1. /\ PairInv' /\ pc'[d] # "rename" /\ signal' = signal
              /\ \A e \in Daemons : sock'[Drain(e)] = sock[Drain(e)]
          BY <1>0, <1>2, <3>2, StartingPairs, LoopPairs DEF DaemonMove, DaemonStep
        <4> QED BY <1>0, <4>1 DEF Retiring, DrainOwn, Killed
      <3> QED BY <3>1, <3>2
    <2>2. Fresh(d)'
      BY <1>0, <1>2, FreshStep
    <2>3. ASSUME NEW e \in Daemons \ {d} PROVE Fresh(e)' /\ Retiring(e)'
      <3>1. Same(e) /\ ~Busy(e)
        BY <1>0, <1>2, OnlyMe, Apart
      <3>2. pc'[e] = pc[e] /\ gen'[e] = gen[e] /\ pc[e] # "rename"
        BY <3>1 DEF Same, Busy
      <3> QED BY <1>0, <3>2 DEF Fresh, Retiring
    <2> QED BY <2>1, <2>2, <2>3
  <1> QED
    BY <1>1, <1>2

LEMMA InitUpgrades == DaemonInit => UpgradeInv
  <1> SUFFICES ASSUME DaemonInit PROVE UpgradeInv
    OBVIOUS
  <1>1. CleanInv
    BY InitClean
  <1>2. /\ sock[Public] = None /\ (\A d \in Daemons : sock[Drain(d)] = None) /\ target.by = None
        /\ \A x \in Processes : Todo(x) = {}
    BY PlacesApart, OpsOf DEF DaemonInit, Todo
  <1>3. \A d \in Daemons : pc[d] = "none" /\ gen[d] = 0 /\ sessions[d] = {} /\ backlog[d] = {}
    BY Apart DEF DaemonInit
  <1> QED
    BY <1>1, <1>2, <1>3
       DEF UpgradeInv, PairInv, Paired, Trusted, Bound, Orderly, UpgradeReplaces, Fresh, Retiring, DrainOwn, Smoking

LEMMA StepUpgrades ==
    ASSUME Options \cap {"delay", "io"} = {}, UpgradeInv, [DaemonNext]_vars
    PROVE  UpgradeInv'
  <1>0. CleanInv'
    BY StepClean DEF UpgradeInv
  <1>1. CASE UNCHANGED vars
    BY <1>0, <1>1
       DEF UpgradeInv, PairInv, Paired, Trusted, Bound, Orderly, UpgradeReplaces, Fresh, Retiring, DrainOwn, Smoking,
           Killed, Owner, Todo, Connectable, Alive, vars, fileVars, daemonVars, connVars, opVars
  <1>2. CASE DaemonNext
    <2>1. PICK x \in Processes :
              /\ Turn(x)
              /\ \/ Execute(x) \/ Crash(x)
                 \/ x \in Daemons /\ DaemonMove(x)
                 \/ x \in Proxies /\ ProxyMove(x)
                 \/ x = Operator /\ OperatorMove
      BY <1>2, EveryStep
    <2>2. \A y \in Processes \ {x} : ~Busy(y)
      BY <2>1 DEF Turn
    <2>3. PairInv' /\ \A d \in Daemons : Fresh(d)' /\ Retiring(d)' /\ DrainOwn(d)'
      BY <1>0, <2>1, <2>2, ExecutePairs, CrashPairs, DaemonUpgrades, ProxyPairs, OperatorPairs
    <2>4. UpgradeReplaces' /\ \A d \in Daemons : Smoking(d)'
      BY <1>0, <2>1, <2>2, OtherSmokes, OperatorSmokes
    <2> QED BY <1>0, <2>3, <2>4 DEF UpgradeInv
  <1> QED
    BY <1>1, <1>2

\* An upgrade is reported as done only when a daemon other than the replaced one has
\* answered, and unless a daemon was killed a promotion retires the socket of the daemon it
\* was staged against: the pid file and the socket at the public place are those of the same
\* daemon wherever a process that runs undisturbed between two awaits looks at them
\* (promote_staged, wait_for_promoted_daemon).
THEOREM UpgradeIsSound ==
    ASSUME Options \cap {"delay", "io"} = {}
    PROVE  DaemonSpec => []UpgradeSound
  <1>1. UpgradeInv => UpgradeSound
    BY DEF UpgradeInv, UpgradeSound, UpgradeReplaces, RetiresTheOld, DrainOwn, Killed
  <1> QED
    BY <1>1, InitUpgrades, StepUpgrades, PTL DEF DaemonSpec
=============================================================================
