----------------------------- MODULE Tools_proofs ----------------------------
(***************************************************************************)
(* Theorems about the tools: the sandbox that calls them (SandboxChain),   *)
(* the registry that finds them (ToolRegistry) and the search for them     *)
(* (Search).                                                               *)
(***************************************************************************)
EXTENDS SandboxChain, ToolRegistry, Search, Induction, FiniteSetTheorems, TLAPS

-----------------------------------------------------------------------------
(***************************************************************************)
(* The sandbox, for any finite set of chains, any codes, any registered    *)
(* tools and any number of permits and outages: no permit leaks, a tool    *)
(* call is tried at most twice, and an accessor calls the tool it names.   *)
(***************************************************************************)

Asked == UNION {Codes[c] : c \in Chains}
Answers == {"none", "ok", "error", "value", "busy", "timeout", "shadowed", "did you mean",
            "check the backend", "meta tool", "not defined"}
ChainRecord ==
  [pc : {"new", "direct", "waiting", "loading", "running", "answered"},
   code : Asked \cup {<<>>}, tools : {{}, Tools},
   answer : Answers]
ToolCall ==
  [b : Hosts, tries : Nat, runs : Nat, result : {"none", "ok", "error"},
   pc : {"todo", "sent", "runs", "cut", "stopped", "restart", "bringup", "again", "done"}]

ChainsFit ==
  /\ host \in [Hosts -> {"up", "stopped", "down", "starting"}]
  /\ outages \in Nat /\ permits \in Nat
  /\ chain \in [Chains -> ChainRecord]
  /\ \A c \in Chains : chain[c].pc = "direct" => 1 \in DOMAIN calls[c]

(* A call is dispatched once before anything may bring it back to "again",  *)
(* and is brought back only when it has been dispatched just once.          *)
Tried(k) ==
  /\ k \in ToolCall
  /\ k.runs <= k.tries /\ k.tries <= 2
  /\ k.pc = "todo" => k.tries = 0
  /\ k.pc = "sent" => k.runs < k.tries
  /\ k.pc \in {"again", "restart", "bringup"} => k.tries = 1

CallsTried ==
  /\ calls = [c \in Chains |-> calls[c]]
  /\ \A c \in Chains : calls[c] = [i \in DOMAIN calls[c] |-> calls[c][i]]
  /\ \A c \in Chains : \A i \in DOMAIN calls[c] : Tried(calls[c][i])

ChainsInv == ChainsFit /\ CallsTried /\ PermitsConserved /\ AccessorsAgree

-----------------------------------------------------------------------------

Scripts == {c \in Chains : chain[c].pc \in {"loading", "running"}}

LEMMA InitChainsInv == ChainInit => ChainsInv
  <1> SUFFICES ASSUME ChainInit PROVE ChainsInv
    OBVIOUS
  <1>1. ChainsFit
    BY ChainAssumption DEF ChainInit, ChainsFit, ChainRecord, Answers, Fresh
  <1>2. \A c \in Chains : DOMAIN calls[c] = {} /\ chain[c].pc = "new" /\ calls[c] = <<>>
    BY DEF ChainInit, Fresh
  <1>3. CallsTried
    BY <1>2 DEF ChainInit, CallsTried
  <1>4. PermitsConserved
    <2>1. {c \in Chains : chain[c].pc \in {"loading", "running"}} = {}
      BY <1>2
    <2>2. permits = Permits /\ Permits + 0 = Permits
      BY ChainAssumption DEF ChainInit
    <2> QED BY <2>1, <2>2, FS_EmptySet DEF PermitsConserved
  <1> QED
    BY <1>1, <1>2, <1>3, <1>4 DEF ChainsInv, AccessorsAgree

(* One chain takes its permit, gives it back, or does neither.              *)
LEMMA ScriptsChange ==
  ASSUME ChainsInv, NEW c \in Chains, \A d \in Chains \ {c} : chain'[d] = chain[d],
         \/ c \in Scripts /\ c \notin Scripts' /\ permits' = permits + 1
         \/ c \notin Scripts /\ c \in Scripts' /\ permits > 0 /\ permits' = permits - 1
         \/ (c \in Scripts <=> c \in Scripts') /\ permits' = permits
  PROVE  PermitsConserved' /\ permits' \in Nat
  <1>1. IsFiniteSet(Scripts) /\ permits \in Nat /\ permits + Cardinality(Scripts) = Permits
    <2>1. IsFiniteSet(Scripts)
      BY ChainAssumption, FS_Subset DEF Scripts
    <2> QED BY <2>1 DEF ChainsInv, ChainsFit, PermitsConserved, Scripts
  <1>2. Cardinality(Scripts) \in Nat
    BY <1>1, FS_CardinalityType
  <1>3. CASE c \in Scripts /\ c \notin Scripts' /\ permits' = permits + 1
    <2>1. Scripts' = Scripts \ {c}
      BY <1>3 DEF Scripts
    <2>2. Cardinality(Scripts') = Cardinality(Scripts) - 1
      BY <1>1, <1>3, <2>1, FS_RemoveElement
    <2> QED BY <1>1, <1>2, <1>3, <2>2 DEF PermitsConserved, Scripts
  <1>4. CASE c \notin Scripts /\ c \in Scripts' /\ permits > 0 /\ permits' = permits - 1
    <2>1. Scripts' = Scripts \cup {c}
      BY <1>4 DEF Scripts
    <2>2. Cardinality(Scripts') = Cardinality(Scripts) + 1
      BY <1>1, <1>4, <2>1, FS_AddElement
    <2> QED BY <1>1, <1>2, <1>4, <2>2 DEF PermitsConserved, Scripts
  <1>5. CASE (c \in Scripts <=> c \in Scripts') /\ permits' = permits
    <2>1. Scripts' = Scripts
      BY <1>5 DEF Scripts
    <2> QED BY <1>1, <1>5, <2>1 DEF PermitsConserved, Scripts
  <1> QED
    BY <1>3, <1>4, <1>5

(* A step of the calls alone.                                               *)
LEMMA CallsMove ==
  ASSUME ChainsInv,
         calls' = [d \in Chains |-> calls'[d]],
         \A d \in Chains : calls'[d] = [j \in DOMAIN calls[d] |-> calls'[d][j]],
         \A d \in Chains : \A j \in DOMAIN calls[d] :
            Tried(calls'[d][j]) /\ calls'[d][j].b = calls[d][j].b,
         UNCHANGED <<permits, chain>>,
         host' \in [Hosts -> {"up", "stopped", "down", "starting"}], outages' \in Nat
  PROVE  ChainsInv'
  <1>1. \A d \in Chains : DOMAIN calls'[d] = DOMAIN calls[d]
    OBVIOUS
  <1>2. ChainsFit'
    BY <1>1 DEF ChainsInv, ChainsFit
  <1>3. CallsTried'
    BY <1>1 DEF CallsTried
  <1>4. AccessorsAgree'
    BY <1>1 DEF ChainsInv, AccessorsAgree
  <1> QED
    BY <1>2, <1>3, <1>4 DEF ChainsInv, PermitsConserved

LEMMA SetKeepsInv ==
  ASSUME ChainsInv, NEW c \in Chains, NEW i \in DOMAIN calls[c], NEW k,
         Tried(k), k.b = calls[c][i].b, Set(c, i, k), UNCHANGED <<permits, chain>>,
         host' \in [Hosts -> {"up", "stopped", "down", "starting"}], outages' \in Nat
  PROVE  ChainsInv'
  <1>1. CallsTried
    BY DEF ChainsInv
  <1>2. calls' = [d \in Chains |-> IF d = c THEN [calls[c] EXCEPT ![i] = k] ELSE calls[d]]
    BY <1>1 DEF Set, CallsTried
  <1>3. [calls[c] EXCEPT ![i] = k] = [j \in DOMAIN calls[c] |-> IF j = i THEN k ELSE calls[c][j]]
    BY <1>1 DEF CallsTried
  <1>4. \A d \in Chains : calls'[d] = [j \in DOMAIN calls[d] |-> calls'[d][j]]
    BY <1>1, <1>2, <1>3 DEF CallsTried
  <1>5. \A d \in Chains : \A j \in DOMAIN calls[d] :
          calls'[d][j] = IF d = c /\ j = i THEN k ELSE calls[d][j]
    BY <1>2, <1>3
  <1>6. \A d \in Chains : \A j \in DOMAIN calls[d] :
          Tried(calls'[d][j]) /\ calls'[d][j].b = calls[d][j].b
    BY <1>1, <1>5 DEF CallsTried
  <1> QED
    BY <1>2, <1>4, <1>6, CallsMove

(* A backend that ends cuts the calls it executes.                          *)
LEMMA CutTried ==
  ASSUME ChainsInv, NEW b \in Hosts, NEW d \in Chains
  PROVE  /\ CutCalls(b)[d] = [j \in DOMAIN calls[d] |-> CutCalls(b)[d][j]]
         /\ \A j \in DOMAIN calls[d] : /\ Tried(CutCalls(b)[d][j])
                                       /\ CutCalls(b)[d][j].b = calls[d][j].b
                                       /\ CutCalls(b)[d][j].tries = calls[d][j].tries
                                       /\ CutCalls(b)[d][j].runs = calls[d][j].runs
                                       /\ calls[d][j].pc # "runs" => CutCalls(b)[d][j] = calls[d][j]
  <1>1. CutCalls(b)[d] = [j \in DOMAIN calls[d] |->
                            IF calls[d][j].b = b /\ calls[d][j].pc = "runs"
                            THEN [calls[d][j] EXCEPT !.pc = "cut"] ELSE calls[d][j]]
    BY DEF CutCalls
  <1>2. ASSUME NEW j \in DOMAIN calls[d]
        PROVE  /\ Tried(CutCalls(b)[d][j])
               /\ CutCalls(b)[d][j].b = calls[d][j].b
               /\ CutCalls(b)[d][j].tries = calls[d][j].tries
               /\ CutCalls(b)[d][j].runs = calls[d][j].runs
               /\ calls[d][j].pc # "runs" => CutCalls(b)[d][j] = calls[d][j]
    <2> DEFINE k == calls[d][j]
    <2>1. Tried(k)
      BY DEF ChainsInv, CallsTried
    <2>2. CASE k.b = b /\ k.pc = "runs"
      <3>1. CutCalls(b)[d][j] = [k EXCEPT !.pc = "cut"]
        BY <1>1, <2>2
      <3> HIDE DEF k
      <3>2. Tried([k EXCEPT !.pc = "cut"]) /\ [k EXCEPT !.pc = "cut"].b = k.b
            /\ [k EXCEPT !.pc = "cut"].tries = k.tries /\ [k EXCEPT !.pc = "cut"].runs = k.runs
        BY <2>1 DEF Tried, ToolCall
      <3> QED BY <2>2, <3>1, <3>2 DEF k
    <2>3. CASE ~(k.b = b /\ k.pc = "runs")
      <3>1. CutCalls(b)[d][j] = k
        BY <1>1, <2>3
      <3> QED BY <2>1, <3>1
    <2> QED BY <2>2, <2>3
  <1> QED
    BY <1>1, <1>2

LEMMA CallStepKeepsInv ==
  ASSUME ChainsInv, NEW c \in Chains, CallStep(c)
  PROVE  ChainsInv'
  <1>1. PICK i \in DOMAIN calls[c] : \/ Send(c, i) \/ Reach(c, i) \/ Return(c, i)
                                   \/ Refused(c, i) \/ TearDown(c, i) \/ BringUp(c, i)
    BY DEF CallStep
  <1> DEFINE k == calls[c][i]
  <1>2. Tried(k) /\ k.b \in Hosts
    BY DEF ChainsInv, CallsTried, Tried, ToolCall
  <1>3. host \in [Hosts -> {"up", "stopped", "down", "starting"}] /\ outages \in Nat
    BY DEF ChainsInv, ChainsFit
  <1>4. ASSUME NEW r, Tried(r), r.b = k.b, Set(c, i, r), UNCHANGED <<permits, chain>>,
               host' \in [Hosts -> {"up", "stopped", "down", "starting"}], outages' \in Nat
        PROVE  ChainsInv'
    BY <1>4, SetKeepsInv
  <1>5. CASE Send(c, i)
    <2>0. PICK r : r = [k EXCEPT !.pc = "sent", !.tries = @ + 1] /\ Set(c, i, r)
      BY <1>5 DEF Send
    <2>1. UNCHANGED <<permits, chain>> /\ UNCHANGED <<host, outages>> /\ k.pc \in {"todo", "again"}
      BY <1>5 DEF Send, KeepHosts
    <2> HIDE DEF k
    <2>2. Tried(r) /\ r.b = k.b
      <3>1. k \in ToolCall /\ k.tries \in Nat /\ k.runs \in Nat
        BY <1>2 DEF Tried, ToolCall
      <3>2. k.tries <= 1 /\ k.runs <= k.tries
        BY <1>2, <2>1 DEF Tried
      <3>3. r.tries = k.tries + 1 /\ r.runs = k.runs /\ r.pc = "sent" /\ r.b = k.b
        BY <2>0, <3>1 DEF ToolCall
      <3>4. r \in ToolCall
        <4>1. r = [b |-> k.b, tries |-> k.tries + 1, runs |-> k.runs, result |-> k.result, pc |-> "sent"]
          BY <2>0, <3>1 DEF ToolCall
        <4> QED BY <3>1, <4>1 DEF ToolCall
      <3> QED BY <3>1, <3>2, <3>3, <3>4 DEF Tried
    <2> QED BY <1>3, <1>4, <2>0, <2>1, <2>2
  <1>6. CASE Reach(c, i)
    <2>1. UNCHANGED <<permits, chain>> /\ UNCHANGED <<host, outages>> /\ k.pc = "sent"
      BY <1>6 DEF Reach, KeepHosts
    <2>2. PICK r : /\ Set(c, i, r)
                   /\ r \in {[k EXCEPT !.pc = "runs", !.runs = @ + 1], [k EXCEPT !.pc = "stopped"],
                             [k EXCEPT !.pc = "done", !.result = "error"]}
      <3>1. host[k.b] \in {"up", "stopped", "down", "starting"}
        BY <1>2, <1>3
      <3> QED BY <1>6, <3>1 DEF Reach
    <2> HIDE DEF k
    <2>3. Tried(r) /\ r.b = k.b
      <3>1. k \in ToolCall /\ k.tries \in Nat /\ k.runs \in Nat
        BY <1>2 DEF Tried, ToolCall
      <3>2. r \in ToolCall
        <4>1. CASE r = [k EXCEPT !.pc = "runs", !.runs = @ + 1]
          <5>1. r = [b |-> k.b, tries |-> k.tries, runs |-> k.runs + 1, result |-> k.result, pc |-> "runs"]
            BY <3>1, <4>1 DEF ToolCall
          <5> QED BY <3>1, <5>1 DEF ToolCall
        <4>2. CASE r = [k EXCEPT !.pc = "stopped"]
          BY <3>1, <4>2 DEF ToolCall
        <4>3. CASE r = [k EXCEPT !.pc = "done", !.result = "error"]
          BY <3>1, <4>3 DEF ToolCall
        <4> QED BY <2>2, <4>1, <4>2, <4>3
      <3>4. r.tries = k.tries /\ r.b = k.b /\ r.pc \in {"runs", "stopped", "done"}
        BY <2>2, <3>1 DEF ToolCall
      <3>3. r.runs \in {k.runs, k.runs + 1}
        BY <2>2, <3>1 DEF ToolCall
      <3> QED BY <1>2, <2>1, <3>1, <3>2, <3>3, <3>4 DEF Tried
    <2> QED BY <1>3, <1>4, <2>1, <2>2, <2>3
  <1>7. CASE Return(c, i)
    <2>1. UNCHANGED <<permits, chain>> /\ UNCHANGED <<host, outages>> /\ k.pc \in {"runs", "cut"}
      BY <1>7 DEF Return, KeepHosts
    <2>2. PICK a \in {"ok", "error", "reads stopped"} :
            Set(c, i, IF a = "reads stopped" THEN [k EXCEPT !.pc = "stopped"]
                      ELSE [k EXCEPT !.pc = "done", !.result = a])
      BY <1>7 DEF Return
    <2> DEFINE r == IF a = "reads stopped" THEN [k EXCEPT !.pc = "stopped"]
                    ELSE [k EXCEPT !.pc = "done", !.result = a]
    <2> HIDE DEF k
    <2>3. Tried(r) /\ r.b = k.b
      BY <1>2, <2>1 DEF Tried, ToolCall
    <2> QED BY <1>3, <1>4, <2>1, <2>2, <2>3
  <1>8. CASE Refused(c, i)
    <2> DEFINE r == IF k.tries = 1 THEN [k EXCEPT !.pc = "restart"]
                    ELSE [k EXCEPT !.pc = "done", !.result = "error"]
    <2>1. Set(c, i, r) /\ UNCHANGED <<permits, chain>> /\ UNCHANGED <<host, outages>> /\ k.pc = "stopped"
      BY <1>8 DEF Refused, KeepHosts
    <2> HIDE DEF k
    <2>2. Tried(r) /\ r.b = k.b
      BY <1>2, <2>1 DEF Tried, ToolCall
    <2> QED BY <1>3, <1>4, <2>1, <2>2
  <1>9. CASE BringUp(c, i)
    <2>1. UNCHANGED <<permits, chain>> /\ outages' = outages /\ k.pc = "bringup"
      BY <1>9 DEF BringUp
    <2>2. host' \in [Hosts -> {"up", "stopped", "down", "starting"}]
      BY <1>3, <1>9 DEF BringUp
    <2>3. PICK r \in {[k EXCEPT !.pc = "again"], [k EXCEPT !.pc = "done", !.result = "error"]} :
            Set(c, i, r)
      BY <1>9 DEF BringUp
    <2> HIDE DEF k
    <2>4. Tried(r) /\ r.b = k.b
      BY <1>2, <2>1 DEF Tried, ToolCall
    <2> QED BY <1>3, <1>4, <2>1, <2>2, <2>3, <2>4
  <1>10. CASE TearDown(c, i)
    <2>1. UNCHANGED <<permits, chain>> /\ outages' = outages /\ k.pc = "restart"
      BY <1>10 DEF TearDown
    <2>2. host' \in [Hosts -> {"up", "stopped", "down", "starting"}]
      BY <1>3, <1>10 DEF TearDown
    <2> DEFINE cutt == CutCalls(k.b)
    <2>3. calls' = [cutt EXCEPT ![c] = [cutt[c] EXCEPT ![i] = [cutt[c][i] EXCEPT !.pc = "bringup"]]]
      BY <1>10 DEF TearDown
    <2>4. cutt = [d \in Chains |-> cutt[d]]
      BY DEF CutCalls
    <2>5. \A d \in Chains : /\ cutt[d] = [j \in DOMAIN calls[d] |-> cutt[d][j]]
                            /\ \A j \in DOMAIN calls[d] : Tried(cutt[d][j]) /\ cutt[d][j].b = calls[d][j].b
      BY <1>2, CutTried
    <2>6. cutt[c][i] = k
      BY <1>2, <2>1, CutTried
    <2>7. Tried([cutt[c][i] EXCEPT !.pc = "bringup"]) /\ [cutt[c][i] EXCEPT !.pc = "bringup"].b = k.b
      <3> HIDE DEF k, cutt
      <3> QED BY <1>2, <2>1, <2>6 DEF Tried, ToolCall
    <2> HIDE DEF cutt
    <2>8. calls' = [d \in Chains |-> calls'[d]]
      BY <2>3, <2>4
    <2>9. \A d \in Chains : calls'[d] = [j \in DOMAIN calls[d] |-> calls'[d][j]]
      BY <2>3, <2>4, <2>5
    <2>10. \A d \in Chains : \A j \in DOMAIN calls[d] :
             calls'[d][j] = IF d = c /\ j = i THEN [cutt[c][i] EXCEPT !.pc = "bringup"] ELSE cutt[d][j]
      BY <2>3, <2>4, <2>5
    <2>11. \A d \in Chains : \A j \in DOMAIN calls[d] :
             Tried(calls'[d][j]) /\ calls'[d][j].b = calls[d][j].b
      <3> TAKE d \in Chains
      <3> TAKE j \in DOMAIN calls[d]
      <3>1. CASE d = c /\ j = i
        BY <2>7, <2>10, <3>1
      <3>2. CASE ~(d = c /\ j = i)
        BY <2>5, <2>10, <3>2, ZenonT(60)
      <3> QED BY <3>1, <3>2
    <2> QED BY <1>3, <2>1, <2>2, <2>8, <2>9, <2>11, CallsMove
  <1> QED
    BY <1>1, <1>5, <1>6, <1>7, <1>8, <1>9, <1>10

LEMMA OutageKeepsInv ==
  ASSUME ChainsInv, NEW b \in Hosts, Outage(b)
  PROVE  ChainsInv'
  <1>1. host' \in [Hosts -> {"up", "stopped", "down", "starting"}] /\ outages' \in Nat
    BY DEF Outage, ChainsInv, ChainsFit
  <1>2. calls' = CutCalls(b) /\ UNCHANGED <<permits, chain>>
    BY DEF Outage
  <1>3. calls' = [d \in Chains |-> calls'[d]]
    BY <1>2 DEF CutCalls
  <1> QED
    BY <1>1, <1>2, <1>3, CutTried, CallsMove

(* A step of one chain, which may also make its calls anew.                 *)
Holds(r) == r.pc \in {"loading", "running"}
Agrees(r, s) ==
  \A i \in DOMAIN s : LET js == r.code.calls[i].js
                      IN  \E t \in r.tools : /\ t.backend = s[i].b
                                             /\ SanitizeIdentifier(t.backend) = js.backend
                                             /\ SanitizeIdentifier(t.tool) = js.tool

LEMMA ChainMoves ==
  ASSUME ChainsInv, NEW c \in Chains, NEW r \in ChainRecord, chain' = [chain EXCEPT ![c] = r],
         NEW s, calls' = [calls EXCEPT ![c] = s],
         s = [i \in DOMAIN s |-> s[i]], \A i \in DOMAIN s : Tried(s[i]),
         r.pc = "direct" => 1 \in DOMAIN s,
         r.pc = "running" => Agrees(r, s),
         \/ Holds(chain[c]) /\ ~Holds(r) /\ permits' = permits + 1
         \/ ~Holds(chain[c]) /\ Holds(r) /\ permits > 0 /\ permits' = permits - 1
         \/ (Holds(chain[c]) <=> Holds(r)) /\ permits' = permits,
         UNCHANGED <<host, outages>>
  PROVE  ChainsInv'
  <1>1. chain \in [Chains -> ChainRecord] /\ CallsTried
    BY DEF ChainsInv, ChainsFit
  <1>2. chain'[c] = r /\ \A d \in Chains \ {c} : chain'[d] = chain[d]
    BY <1>1
  <1>3. calls'[c] = s /\ (\A d \in Chains \ {c} : calls'[d] = calls[d])
        /\ calls' = [d \in Chains |-> calls'[d]]
    BY <1>1 DEF CallsTried
  <1>4. (c \in Scripts <=> Holds(chain[c])) /\ (c \in Scripts' <=> Holds(r))
    BY <1>2 DEF Scripts, Holds
  <1>5. PermitsConserved' /\ permits' \in Nat
    BY <1>2, <1>4, ScriptsChange
  <1>6. ChainsFit'
    <2>1. chain' \in [Chains -> ChainRecord]
      BY <1>1
    <2>2. host' \in [Hosts -> {"up", "stopped", "down", "starting"}] /\ outages' \in Nat
      BY DEF ChainsInv, ChainsFit
    <2>3. \A d \in Chains : chain'[d].pc = "direct" => 1 \in DOMAIN calls'[d]
      BY <1>2, <1>3 DEF ChainsInv, ChainsFit
    <2> QED BY <1>5, <2>1, <2>2, <2>3 DEF ChainsFit
  <1>7. CallsTried'
    <2>1. ASSUME NEW d \in Chains
          PROVE  /\ calls'[d] = [i \in DOMAIN calls'[d] |-> calls'[d][i]]
                 /\ \A i \in DOMAIN calls'[d] : Tried(calls'[d][i])
      <3>1. CASE d = c
        BY <1>3, <3>1
      <3>2. CASE d # c
        BY <1>1, <1>3, <3>2 DEF CallsTried
      <3> QED BY <3>1, <3>2
    <2>2. CallsTried' <=> /\ calls' = [d \in Chains |-> calls'[d]]
                          /\ \A d \in Chains : calls'[d] = [i \in DOMAIN calls'[d] |-> calls'[d][i]]
                          /\ \A d \in Chains : \A i \in DOMAIN calls'[d] : Tried(calls'[d][i])
      BY Zenon DEF CallsTried, Tried
    <2> QED BY <1>3, <2>1, <2>2
  <1>8. AccessorsAgree'
    BY <1>2, <1>3 DEF ChainsInv, AccessorsAgree, Agrees
  <1> QED
    BY <1>5, <1>6, <1>7, <1>8 DEF ChainsInv

(* A chain moves and its calls stay.                                        *)
LEMMA CallsStay ==
  ASSUME ChainsInv, NEW c \in Chains, NEW r \in ChainRecord, chain' = [chain EXCEPT ![c] = r],
         r.pc \notin {"direct", "running"}, UNCHANGED calls,
         \/ Holds(chain[c]) /\ ~Holds(r) /\ permits' = permits + 1
         \/ ~Holds(chain[c]) /\ Holds(r) /\ permits > 0 /\ permits' = permits - 1
         \/ (Holds(chain[c]) <=> Holds(r)) /\ permits' = permits,
         UNCHANGED <<host, outages>>
  PROVE  ChainsInv'
  <1>1. CallsTried
    BY DEF ChainsInv
  <1>2. calls' = [calls EXCEPT ![c] = calls[c]] /\ calls[c] = [i \in DOMAIN calls[c] |-> calls[c][i]]
    BY <1>1 DEF CallsTried
  <1>3. \A i \in DOMAIN calls[c] : Tried(calls[c][i])
    BY <1>1 DEF CallsTried
  <1> QED
    BY <1>2, <1>3, ChainMoves

LEMMA AnswerKeepsInv ==
  ASSUME ChainsInv, NEW c \in Chains, NEW a \in Answers, Answer(c, a),
         permits' = IF Holds(chain[c]) THEN permits + 1 ELSE permits,
         UNCHANGED <<calls, host, outages>>
  PROVE  ChainsInv'
  <1> DEFINE q == chain[c]
  <1>1. q \in ChainRecord
    BY DEF ChainsInv, ChainsFit
  <1>2. PICK r : r = [q EXCEPT !.pc = "answered", !.answer = a] /\ chain' = [chain EXCEPT ![c] = r]
    BY DEF Answer
  <1> HIDE DEF q
  <1>3. r \in ChainRecord /\ r.pc = "answered"
    BY <1>1, <1>2 DEF ChainRecord
  <1>4. ~Holds(r) /\ (Holds(q) => permits' = permits + 1) /\ (~Holds(q) => permits' = permits)
    BY <1>3 DEF Holds, q
  <1> QED
    BY <1>2, <1>3, <1>4, CallsStay DEF q

LEMMA HintIsAnswer == \A err : Hint(err, Tools) \in Answers
  BY DEF Hint, Answers

LEMMA LoadKeepsInv ==
  ASSUME ChainsInv, NEW c \in Chains, LoadModule(c)
  PROVE  ChainsInv'
  <1> DEFINE q == chain[c]
             known == \A i \in DOMAIN q.code.calls : Accessors(Tools, q.code.calls[i].js) # {}
  <1>1. q \in ChainRecord /\ q.pc = "loading" /\ Holds(q) /\ UNCHANGED <<host, outages>>
    BY DEF ChainsInv, ChainsFit, LoadModule, Holds
  <1>2. CASE PreambleLoads(Tools) /\ known
    <2> DEFINE picked(i) == CHOOSE t \in Accessors(Tools, q.code.calls[i].js) : TRUE
               s == [i \in DOMAIN q.code.calls |-> ACall(picked(i).backend)]
    <2>1. calls' = [calls EXCEPT ![c] = s] /\ permits' = permits
      BY <1>2 DEF LoadModule
    <2>2. PICK r : r = [q EXCEPT !.pc = "running", !.tools = Tools] /\ chain' = [chain EXCEPT ![c] = r]
      BY <1>2 DEF LoadModule
    <2>3. \A i \in DOMAIN s : picked(i) \in Accessors(Tools, q.code.calls[i].js)
      BY <1>2
    <2>4. \A i \in DOMAIN s : /\ picked(i) \in Tools /\ picked(i).backend \in Hosts
                              /\ SanitizeIdentifier(picked(i).backend) = q.code.calls[i].js.backend
                              /\ SanitizeIdentifier(picked(i).tool) = q.code.calls[i].js.tool
      BY <2>3 DEF Accessors, Hosts
    <2> HIDE DEF q, picked
    <2>5. r \in ChainRecord /\ r.pc = "running" /\ r.code = q.code /\ r.tools = Tools
      BY <1>1, <2>2 DEF ChainRecord
    <2>6. \A i \in DOMAIN s : Tried(s[i]) /\ s[i].b = picked(i).backend
      BY <2>4 DEF ACall, Tried, ToolCall
    <2>7. Agrees(r, s)
      BY <2>4, <2>5, <2>6 DEF Agrees
    <2>8. Holds(r) /\ s = [i \in DOMAIN s |-> s[i]]
      BY <2>5 DEF Holds
    <2> HIDE DEF s
    <2> QED BY <1>1, <2>1, <2>2, <2>5, <2>6, <2>7, <2>8, ChainMoves DEF q
  <1>3. CASE ~(PreambleLoads(Tools) /\ known)
    <2>1. PICK a : a \in Answers /\ Answer(c, a)
      BY <1>3, HintIsAnswer DEF LoadModule
    <2>2. permits' = permits + 1 /\ UNCHANGED calls
      BY <1>3 DEF LoadModule
    <2> QED BY <1>1, <2>1, <2>2, AnswerKeepsInv
  <1> QED
    BY <1>2, <1>3

LEMMA SubmitKeepsInv ==
  ASSUME ChainsInv, NEW c \in Chains, Submit(c)
  PROVE  ChainsInv'
  <1>1. PICK code \in Codes[c] :
          LET route == Route(code, Tools)
              found == route = "direct" /\ Registered(code)
          IN  /\ chain' = [chain EXCEPT ![c] =
                   [pc |-> CASE found -> "direct"
                             [] route = "v8" -> "waiting"
                             [] OTHER -> "answered",
                    code |-> code, tools |-> {},
                    answer |-> CASE route = "introspect" -> "ok"
                                 [] route = "direct" /\ ~found -> "error"
                                 [] OTHER -> "none"]]
              /\ calls' = [calls EXCEPT ![c] = IF found THEN <<ACall(code.calls[1].backend)>> ELSE <<>>]
    BY DEF Submit
  <1> DEFINE route == Route(code, Tools)
             found == route = "direct" /\ Registered(code)
             r == [pc |-> CASE found -> "direct"
                            [] route = "v8" -> "waiting"
                            [] OTHER -> "answered",
                   code |-> code, tools |-> {},
                   answer |-> CASE route = "introspect" -> "ok"
                                [] route = "direct" /\ ~found -> "error"
                                [] OTHER -> "none"]
             s == IF found THEN <<ACall(code.calls[1].backend)>> ELSE <<>>
  <1>2. chain' = [chain EXCEPT ![c] = r] /\ calls' = [calls EXCEPT ![c] = s]
    BY <1>1
  <1>3. UNCHANGED <<host, outages, permits>> /\ ~Holds(chain[c])
    BY DEF Submit, Holds
  <1>4. code \in Asked
    BY DEF Asked
  <1> HIDE DEF route
  <1>5. r \in ChainRecord /\ r.pc \in {"direct", "waiting", "answered"} /\ (r.pc = "direct" <=> found)
    BY <1>4 DEF ChainRecord, Answers
  <1>6. s = [i \in DOMAIN s |-> s[i]] /\ (found => DOMAIN s = {1}) /\ (~found => DOMAIN s = {})
    OBVIOUS
  <1>7. \A i \in DOMAIN s : Tried(s[i])
    <2>1. CASE found
      <3>1. ACall(code.calls[1].backend) \in ToolCall
        BY <2>1 DEF Registered, ACall, ToolCall
      <3>2. Tried(ACall(code.calls[1].backend))
        BY <3>1 DEF Tried, ACall
      <3> QED BY <1>6, <2>1, <3>2
    <2> QED BY <1>6, <2>1
  <1>8. ~Holds(r) /\ r.pc # "running"
    BY <1>5 DEF Holds
  <1> HIDE DEF found, r, s
  <1> QED
    BY <1>2, <1>3, <1>5, <1>6, <1>7, <1>8, ChainMoves

LEMMA ChainStepKeepsInv ==
  ASSUME ChainsInv, NEW c \in Chains, ChainStep(c) \/ PermitTimeout(c) \/ ScriptTimeout(c)
  PROVE  ChainsInv'
  <1>1. CASE TakePermit(c)
    <2> DEFINE q == chain[c]
    <2>1. q \in ChainRecord
      BY DEF ChainsInv, ChainsFit
    <2>2. PICK r : r = [q EXCEPT !.pc = "loading"] /\ chain' = [chain EXCEPT ![c] = r]
      BY <1>1 DEF TakePermit
    <2>3. q.pc = "waiting" /\ permits > 0 /\ permits' = permits - 1 /\ UNCHANGED <<host, outages, calls>>
      BY <1>1 DEF TakePermit
    <2> HIDE DEF q
    <2>4. r \in ChainRecord /\ r.pc = "loading"
      BY <2>1, <2>2 DEF ChainRecord
    <2>5. Holds(r) /\ ~Holds(q)
      BY <2>3, <2>4 DEF Holds
    <2> QED BY <2>2, <2>3, <2>4, <2>5, CallsStay DEF q
  <1>2. CASE PermitTimeout(c)
    BY <1>2, AnswerKeepsInv DEF PermitTimeout, Holds, Answers
  <1>3. CASE ScriptTimeout(c)
    BY <1>3, AnswerKeepsInv DEF ScriptTimeout, Holds, Answers, KeepHosts
  <1>4. CASE Finish(c)
    <2>1. PICK a : a = (IF chain[c].pc = "direct" THEN calls[c][1].result ELSE "value") /\ Answer(c, a)
      BY <1>4 DEF Finish
    <2>2. a \in Answers
      <3>1. ASSUME chain[c].pc = "direct" PROVE calls[c][1].result \in {"none", "ok", "error"}
        BY <3>1 DEF ChainsInv, ChainsFit, CallsTried, Tried, ToolCall
      <3> QED BY <2>1, <3>1 DEF Answers
    <2>3. permits' = IF Holds(chain[c]) THEN permits + 1 ELSE permits
      BY <1>4 DEF Finish, Active, Holds
    <2>4. UNCHANGED <<calls, host, outages>>
      BY <1>4 DEF Finish, KeepHosts
    <2> QED BY <2>1, <2>2, <2>3, <2>4, AnswerKeepsInv
  <1> QED
    BY <1>1, <1>2, <1>3, <1>4, SubmitKeepsInv, LoadKeepsInv, CallStepKeepsInv DEF ChainStep

(* Every permit is free or held by one script that has not been answered,   *)
(* a tool call is tried at most twice and never executed more often than it *)
(* was dispatched, and a script calls the tool its accessor names           *)
(* (sandbox.rs:18-60, sandbox/mod.rs:134-266, bridge.rs:45-68).             *)
THEOREM ChainsAreSafe == ChainSpec => []ChainsSafe
  <1>1. ChainsInv /\ [ChainNext]_chainVars => ChainsInv'
    <2> SUFFICES ASSUME ChainsInv, [ChainNext]_chainVars PROVE ChainsInv'
      OBVIOUS
    <2>1. CASE ChainNext
      BY <2>1, ChainStepKeepsInv, OutageKeepsInv DEF ChainNext
    <2>2. CASE UNCHANGED chainVars
      BY <2>2 DEF chainVars, ChainsInv, ChainsFit, CallsTried, PermitsConserved, AccessorsAgree
    <2> QED BY <2>1, <2>2
  <1>2. ChainsInv => ChainsSafe
    BY DEF ChainsInv, CallsTried, Tried, ChainsSafe, AtMostOneRetry
  <1> QED
    BY <1>1, <1>2, InitChainsInv, PTL DEF ChainSpec

-----------------------------------------------------------------------------
(***************************************************************************)
(* The registry.  While no operation runs on a backend the two indexes     *)
(* agree with what it registered last; while one runs, each stage of it    *)
(* says what they hold.  A step of an operation leaves every other backend *)
(* untouched, because no two share a namespace.                            *)
(***************************************************************************)

\* No two operations run on one backend, and no two backends share a namespace.
Separate ==
    /\ "overlap" \notin Callers
    /\ \A b, c \in Backends : b # c => Spaces(b) \cap Spaces(c) = {}

\* The namespaced keys of what a backend registered last.
LastKeys(b) == IF b \in listed THEN {SpaceOf(b)} \X offers[b] ELSE {}

HasTools(b, S) ==
    \A s \in Spaces(b), n \in Names : /\ <<s, n>> \in S => tools[<<s, n>>] = b
                                      /\ <<s, n>> \notin S => tools[<<s, n>>] = None
\* The same of the owners, but for the names of a set, which have none.
HasOwnersBut(b, S, N) ==
    \A s \in Spaces(b), n \in Names : /\ <<s, n>> \in S /\ n \notin N => owners[n][<<b, s>>] = 1
                                      /\ <<s, n>> \notin S \/ n \in N => owners[n][<<b, s>>] = 0
HasOwners(b, S) == HasOwnersBut(b, S, {})
KeysOf(b) == (Spaces(b) \cup {None}) \X Names

\* What is recorded as a backend's keys is what it registered last, and aliases.
Recorded(b) ==
    /\ keys[b] \subseteq KeysOf(b)
    /\ \A s \in Spaces(b), n \in Names : <<s, n>> \in keys[b] <=> <<s, n>> \in LastKeys(b)

Exact(b) == HasTools(b, LastKeys(b)) /\ HasOwners(b, LastKeys(b))

\* A registration purges the owners, drops the old keys and has then made the keys of
\* the names it is done with, and of the one it is at.
Purging(t, b) ==
    /\ todo[t] \subseteq Names /\ made[t] = {}
    /\ HasTools(b, LastKeys(b))
    /\ HasOwnersBut(b, LastKeys(b), Names \ todo[t])

Made(t, b, s0) ==
    /\ todo[t] \subseteq job[t].names
    /\ made[t] \subseteq KeysOf(b)
    /\ \A s \in Spaces(b), n \in Names : <<s, n>> \in made[t] => s = s0 /\ n \in job[t].names
    /\ \A n \in job[t].names \ todo[t] : <<s0, n>> \in made[t]
    /\ HasTools(b, made[t])

\* A removal takes the record first, then the tools, then the owners, name by name.
Dropping(t, b) ==
    /\ todo[t] \subseteq KeysOf(b) /\ made[t] = {}
    /\ HasTools(b, todo[t])
    /\ job[t].kind = "remove" => b \notin listed
    /\ job[t].kind # "remove" => HasOwners(b, {})

Dropped(t, b) ==
    /\ b \notin listed
    /\ HasTools(b, {})
    /\ made[t] \subseteq Names \X Owners

Disowning(t, b) ==
    /\ todo[t] \subseteq Names
    /\ \A s \in Spaces(b), n \in Names \ todo[t] : owners[n][<<b, s>>] = 0

KindFits(t) ==
    /\ pc[t] = "none" <=> job[t].backend = None
    /\ pc[t] = "none" => made[t] = {}
    /\ pc[t] # "none" => job[t].kind # "none"
    /\ pc[t] \in {"purge", "insert", "own", "alias"} => job[t].kind \in {"cached", "live"}
    /\ pc[t] \in {"unlist", "disown", "restore", "put"} => job[t].kind = "remove"

Stage(t, b) ==
    /\ pc[t] = "purge" => Purging(t, b)
    /\ pc[t] \in {"insert", "own", "alias"} => Made(t, b, Space(job[t]))
    /\ pc[t] = "insert" => Current(t) = {}
    /\ pc[t] \in {"own", "alias"} => \E n \in todo[t] : Current(t) = {n}
    /\ pc[t] \in {"insert", "own"} => HasOwnersBut(b, made[t], todo[t])
    /\ pc[t] = "alias" => HasOwners(b, made[t])
    /\ pc[t] = "unlist" => Exact(b) /\ made[t] = {}
    /\ pc[t] = "drop" => Dropping(t, b)
    /\ pc[t] \in {"disown", "restore", "put"} => Dropped(t, b)
    /\ pc[t] = "disown" => Disowning(t, b)
    /\ pc[t] \in {"restore", "put"} => HasOwners(b, {})
    /\ pc[t] = "put" => todo[t] \subseteq Names \X Owners

AtWork(t) == KindFits(t) /\ Stage(t, job[t].backend)

Alone == \A t, u \in Tasks : job[t].backend = job[u].backend /\ job[t].backend # None => t = u

RegistryInv ==
    /\ TypeOK
    /\ DOMAIN todo = Tasks /\ DOMAIN made = Tasks
    /\ \A b \in Backends : Recorded(b)
    /\ \A b \in Backends : Settled(b) => Exact(b)
    /\ Alone
    /\ \A t \in Tasks : AtWork(t)

-----------------------------------------------------------------------------

LEMMA SpacesOf ==
    ASSUME NEW b \in Backends
    PROVE  /\ b \in Spaces(b) /\ Namespace[b] \in Spaces(b) /\ None \notin Spaces(b) /\ b # None
           /\ SpaceOf(b) \in Spaces(b)
           /\ \A s \in Spaces(b), n \in Names : <<s, n>> \in Keys /\ <<b, s>> \in Owners
           /\ KeysOf(b) \subseteq Keys
           /\ \A n \in Names : Bare(n) \in Keys
  <1>1. b \in Spaces(b) /\ Namespace[b] \in Spaces(b) /\ None \notin Spaces(b) /\ b # None
    BY RegistryAssumption DEF Spaces
  <1>2. SpaceOf(b) \in Spaces(b)
    BY <1>1 DEF SpaceOf
  <1>3. \A s \in Spaces(b), n \in Names : <<s, n>> \in Keys
    BY DEF Keys
  <1>4. \A s \in Spaces(b) : <<b, s>> \in Owners
    BY DEF Owners
  <1>5. \A n \in Names : Bare(n) \in Keys
    BY DEF Keys, Bare
  <1>6. KeysOf(b) \subseteq Keys
    BY <1>3 DEF Keys, KeysOf
  <1> QED
    BY <1>1, <1>2, <1>3, <1>4, <1>5, <1>6

LEMMA SpaceOfJob ==
    ASSUME NEW j \in Jobs, j.backend \in Backends
    PROVE  Space(j) \in Spaces(j.backend) /\ Owner(j) \in Owners /\ Owner(j) = <<j.backend, Space(j)>>
  <1>1. Space(j) \in Spaces(j.backend)
    BY SpacesOf DEF Space
  <1>2. Owner(j) = <<j.backend, Space(j)>>
    BY DEF Owner
  <1>3. <<j.backend, Space(j)>> \in Owners
    BY <1>1 DEF Owners
  <1> QED
    BY <1>1, <1>2, <1>3

\* What a step on one backend leaves alone of another.
Untouched(c) ==
    /\ \A s \in Spaces(c), n \in Names : /\ tools'[<<s, n>>] = tools[<<s, n>>]
                                         /\ owners'[n][<<c, s>>] = owners[n][<<c, s>>]
    /\ keys'[c] = keys[c] /\ offers'[c] = offers[c]
    /\ c \in listed' <=> c \in listed
    /\ c \in live' <=> c \in live

Waiting(u) == pc'[u] = pc[u] /\ job'[u] = job[u] /\ todo'[u] = todo[u] /\ made'[u] = made[u]

LEMMA UntouchedKeepsExact ==
    ASSUME NEW c \in Backends, Untouched(c)
    PROVE  /\ LastKeys(c)' = LastKeys(c)
           /\ Recorded(c) => Recorded(c)'
           /\ Exact(c) => Exact(c)'
  <1>1. SpaceOf(c)' = SpaceOf(c)
    BY DEF Untouched, SpaceOf
  <1>2. LastKeys(c)' = LastKeys(c)
    BY <1>1 DEF Untouched, LastKeys
  <1>3. Recorded(c) => Recorded(c)'
    BY <1>2 DEF Untouched, Recorded, KeysOf
  <1>4. ASSUME Exact(c) PROVE Exact(c)'
    <2>1. HasTools(c, LastKeys(c))'
      BY <1>2, <1>4 DEF Untouched, Exact, HasTools
    <2>2. HasOwners(c, LastKeys(c))'
      BY <1>2, <1>4 DEF Untouched, Exact, HasOwners, HasOwnersBut
    <2> QED
      BY <2>1, <2>2 DEF Exact
  <1> QED
    BY <1>2, <1>3, <1>4

LEMMA UntouchedKeepsStage ==
    ASSUME NEW u \in Tasks, NEW b \in Backends, Waiting(u), Untouched(b), Stage(u, b)
    PROVE  Stage(u, b)'
  <1>1. LastKeys(b)' = LastKeys(b) /\ (Exact(b) => Exact(b)')
    BY UntouchedKeepsExact
  <1>2. \A s \in Spaces(b), n \in Names : tools'[<<s, n>>] = tools[<<s, n>>]
    BY DEF Untouched
  <1>13. \A s \in Spaces(b), n \in Names : owners'[n][<<b, s>>] = owners[n][<<b, s>>]
    BY DEF Untouched
  <1>3. Current(u)' = Current(u) /\ Space(job[u])' = Space(job[u])
    BY DEF Current, Space, Waiting
  <1>4. todo'[u] = todo[u] /\ made'[u] = made[u] /\ job'[u] = job[u]
    BY DEF Waiting
  <1>5. /\ HasOwners(b, {}) => HasOwners(b, {})'
        /\ HasTools(b, {}) => HasTools(b, {})'
        /\ HasTools(b, LastKeys(b)) => HasTools(b, LastKeys(b))'
    <2>1. HasOwners(b, {}) => HasOwners(b, {})'
      BY <1>13 DEF HasOwners, HasOwnersBut
    <2>2. HasTools(b, {}) => HasTools(b, {})'
      BY <1>2 DEF HasTools
    <2>3. HasTools(b, LastKeys(b)) => HasTools(b, LastKeys(b))'
      BY <1>1, <1>2 DEF HasTools
    <2> QED
      BY <2>1, <2>2, <2>3
  <1>6. /\ HasTools(b, made[u]) => HasTools(b, made[u])'
        /\ HasTools(b, todo[u]) => HasTools(b, todo[u])'
        /\ HasOwners(b, made[u]) => HasOwners(b, made[u])'
    <2>1. HasTools(b, made[u]) => HasTools(b, made[u])'
      BY <1>2, <1>4 DEF HasTools
    <2>2. HasTools(b, todo[u]) => HasTools(b, todo[u])'
      BY <1>2, <1>4 DEF HasTools
    <2>3. ASSUME HasOwners(b, made[u]) PROVE HasOwners(b, made[u])'
      <3>1. ASSUME NEW s \in Spaces(b), NEW n \in Names, <<s, n>> \in made'[u]
            PROVE  owners'[n][<<b, s>>] = 1
        BY <1>13, <1>4, <2>3, <3>1 DEF HasOwners, HasOwnersBut
      <3>2. ASSUME NEW s \in Spaces(b), NEW n \in Names, <<s, n>> \notin made'[u]
            PROVE  owners'[n][<<b, s>>] = 0
        BY <1>13, <1>4, <2>3, <3>2 DEF HasOwners, HasOwnersBut
      <3> QED
        BY <3>1, <3>2 DEF HasOwners, HasOwnersBut
    <2> QED
      BY <2>1, <2>2, <2>3
  <1>7. /\ HasOwnersBut(b, made[u], todo[u]) => HasOwnersBut(b, made[u], todo[u])'
        /\ HasOwnersBut(b, LastKeys(b), Names \ todo[u]) => HasOwnersBut(b, LastKeys(b), Names \ todo[u])'
    BY <1>1, <1>13, <1>4 DEF HasOwnersBut
  <1>11. Purging(u, b) => Purging(u, b)'
    BY <1>1, <1>4, <1>5, <1>7 DEF Purging
  <1>12. Made(u, b, Space(job[u])) => Made(u, b, Space(job[u]))'
    BY <1>3, <1>4, <1>6 DEF Made, KeysOf
  <1>8. Dropping(u, b) => Dropping(u, b)'
    BY <1>5, <1>6 DEF Dropping, Waiting, Untouched, KeysOf
  <1>9. Dropped(u, b) => Dropped(u, b)'
    BY <1>5 DEF Dropped, Waiting, Untouched
  <1>10. Disowning(u, b) => Disowning(u, b)'
    BY <1>13, <1>4 DEF Disowning, Waiting
  <1> QED
    BY <1>1, <1>3, <1>4, <1>5, <1>6, <1>7, <1>8, <1>9, <1>10, <1>11, <1>12 DEF Stage, Waiting

LEMMA WaitingStaysAtWork ==
    ASSUME NEW u \in Tasks, Waiting(u), AtWork(u), job[u] \in Jobs,
           \A b \in Backends : job[u].backend = b => Untouched(b)
    PROVE  AtWork(u)'
  <1>1. KindFits(u)'
    BY DEF AtWork, KindFits, Waiting
  <1>2. CASE job[u].backend = None
    <2>1. pc[u] = "none"
      BY <1>2 DEF AtWork, KindFits
    <2>2. Stage(u, job[u].backend)'
      BY <2>1 DEF Stage, Waiting
    <2> QED
      BY <1>1, <2>2 DEF AtWork
  <1>3. ASSUME NEW b \in Backends, job[u].backend = b PROVE AtWork(u)'
    <2>1. Stage(u, b)'
      BY <1>3, UntouchedKeepsStage DEF AtWork
    <2>2. job'[u].backend = b
      BY <1>3 DEF Waiting
    <2> QED
      BY <1>1, <2>1, <2>2 DEF AtWork
  <1> QED
    BY <1>2, <1>3 DEF Jobs

\* A step of one task on one backend, which leaves every other task and backend alone.
LEMMA StepElsewhere ==
    ASSUME RegistryInv, NEW t \in Tasks, NEW b \in Backends,
           TypeOK', DOMAIN todo' = Tasks, DOMAIN made' = Tasks,
           job[t].backend \in {b, None}, job'[t].backend \in {b, None},
           \A u \in Tasks \ {t} : Waiting(u) /\ job[u].backend # b,
           \A c \in Backends \ {b} : Untouched(c),
           Recorded(b)', AtWork(t)',
           job'[t].backend = None => Exact(b)'
    PROVE  RegistryInv'
  <1>1. \A u \in Tasks : AtWork(u)'
    BY WaitingStaysAtWork DEF RegistryInv, TypeOK
  <1>2. \A c \in Backends : Recorded(c)'
    BY UntouchedKeepsExact DEF RegistryInv
  <1>3. ASSUME NEW c \in Backends, Settled(c)' PROVE Exact(c)'
    <2>1. CASE c = b
      BY <2>1, <1>3 DEF Settled, Busy
    <2>2. CASE c # b
      <3>1. Settled(c)
        BY <1>3, <2>2, SpacesOf DEF Settled, Busy, Waiting
      <3> QED
        BY <3>1, <2>2, UntouchedKeepsExact DEF RegistryInv
    <2> QED
      BY <2>1, <2>2
  <1>4. Alone'
    BY DEF Alone, RegistryInv, Waiting
  <1> QED
    BY <1>1, <1>2, <1>3, <1>4 DEF RegistryInv

-----------------------------------------------------------------------------

\* A task that is under way works on one backend, and nobody else does.
LEMMA OwnBackend ==
    ASSUME RegistryInv, NEW t \in Tasks, pc[t] # "none"
    PROVE  \E b \in Backends :
              /\ job[t].backend = b /\ KindFits(t) /\ Stage(t, b)
              /\ \A u \in Tasks \ {t} : job[u].backend # b
  <1>1. job[t].backend \in Backends
    BY DEF RegistryInv, TypeOK, AtWork, KindFits, Jobs
  <1>2. \A u \in Tasks \ {t} : job[u].backend # job[t].backend
    BY <1>1, SpacesOf DEF RegistryInv, Alone
  <1> QED
    BY <1>1, <1>2 DEF RegistryInv, AtWork

LEMMA GotoMoves ==
    ASSUME RegistryInv, NEW t \in Tasks, NEW l \in Steps, NEW w, Goto(t, l, w)
    PROVE  /\ pc' \in [Tasks -> Steps] /\ pc'[t] = l /\ DOMAIN todo' = Tasks /\ todo'[t] = w
           /\ \A u \in Tasks \ {t} : pc'[u] = pc[u] /\ todo'[u] = todo[u]
  BY DEF RegistryInv, TypeOK, Goto

LEMMA AtWorkOn ==
    ASSUME NEW t \in Tasks, NEW b \in Backends, job'[t].backend = b, KindFits(t)', Stage(t, b)'
    PROVE  AtWork(t)'
  BY DEF AtWork

\* What is written under a backend's keys, or as its owner, is nothing to another backend.
LEMMA ToolElsewhere ==
    ASSUME Separate, NEW b \in Backends, NEW c \in Backends \ {b}, NEW k \in KeysOf(b), NEW v,
           tools' = [tools EXCEPT ![k] = v]
    PROVE  \A s \in Spaces(c), n \in Names : tools'[<<s, n>>] = tools[<<s, n>>]
  <1> SUFFICES ASSUME NEW s \in Spaces(c), NEW n \in Names PROVE tools'[<<s, n>>] = tools[<<s, n>>]
    OBVIOUS
  <1>1. s \notin Spaces(b) /\ s # None
    BY SpacesOf DEF Separate
  <1>2. k # <<s, n>>
    BY <1>1 DEF KeysOf
  <1> QED
    BY <1>2

LEMMA OwnerElsewhere ==
    ASSUME TypeOK, NEW b \in Backends, NEW c \in Backends \ {b}, NEW m \in Names, NEW o \in Owners, o[1] = b,
           \/ owners' = [owners EXCEPT ![m] = Purge(@, b)]
           \/ owners' = [owners EXCEPT ![m] = Push(@, o)]
    PROVE  \A s \in Spaces(c), n \in Names : owners'[n][<<c, s>>] = owners[n][<<c, s>>]
  <1> SUFFICES ASSUME NEW s \in Spaces(c), NEW n \in Names PROVE owners'[n][<<c, s>>] = owners[n][<<c, s>>]
    OBVIOUS
  <1>1. <<c, s>> \in Owners /\ <<c, s>> # o
    <2>1. <<c, s>>[1] # o[1]
      OBVIOUS
    <2> QED
      BY <2>1 DEF Owners
  <1>2. owners[n] \in [Owners -> Nat]
    BY DEF TypeOK
  <1>3. CASE n # m
    BY <1>3 DEF TypeOK
  <1>4. CASE n = m
    <2>1. Purge(owners[n], b)[<<c, s>>] = owners[n][<<c, s>>]
      BY <1>1 DEF Purge
    <2>2. Push(owners[n], o)[<<c, s>>] = owners[n][<<c, s>>]
      BY <1>1, <1>2 DEF Push
    <2> QED
      BY <1>4, <2>1, <2>2 DEF TypeOK
  <1> QED
    BY <1>3, <1>4

LEMMA OwnersTyped ==
    ASSUME TypeOK, NEW b \in Backends, NEW m \in Names, NEW o \in Owners,
           \/ owners' = [owners EXCEPT ![m] = Purge(@, b)]
           \/ owners' = [owners EXCEPT ![m] = Push(@, o)]
    PROVE  owners' \in [Names -> [Owners -> Nat]]
  <1>1. Purge(owners[m], b) \in [Owners -> Nat]
    BY DEF TypeOK, Purge
  <1>2. Push(owners[m], o) \in [Owners -> Nat]
    BY DEF TypeOK, Push
  <1> QED
    BY <1>1, <1>2 DEF TypeOK

LEMMA PurgeOwnerKeepsInv ==
    ASSUME Separate, RegistryInv, NEW t \in Tasks, PurgeOwner(t)
    PROVE  RegistryInv'
  <1>1. PICK b \in Backends :
              /\ job[t].backend = b /\ KindFits(t) /\ Stage(t, b)
              /\ \A u \in Tasks \ {t} : job[u].backend # b
    BY OwnBackend DEF PurgeOwner
  <1>2. PICK m \in todo[t] :
              /\ owners' = [owners EXCEPT ![m] = Purge(@, b)]
              /\ IF todo[t] = {m} THEN Goto(t, "drop", keys[b]) ELSE Goto(t, "purge", todo[t] \ {m})
    BY <1>1 DEF PurgeOwner
  <1> USE DEF Steps
  <1>3. UNCHANGED <<tools, keys, listed, booting, offers, live, job, made>>
    BY DEF PurgeOwner, history
  <1>4. Purging(t, b) /\ m \in Names /\ <<b, b>> \in Owners
    BY <1>1, SpacesOf DEF Stage, PurgeOwner, Purging
  <1>5. \A s \in Spaces(b), n \in Names :
           /\ n = m => owners'[n][<<b, s>>] = 0
           /\ n # m => owners'[n][<<b, s>>] = owners[n][<<b, s>>]
    BY <1>2, <1>4, SpacesOf DEF RegistryInv, TypeOK, Purge
  <1>6. TypeOK' /\ DOMAIN todo' = Tasks
    BY <1>2, <1>3, <1>4, OwnersTyped, GotoMoves DEF RegistryInv, TypeOK
  <1>7. ASSUME NEW c \in Backends \ {b} PROVE Untouched(c)
    <2>1. <<b, b>>[1] = b
      OBVIOUS
    <2>2. \A s \in Spaces(c), n \in Names : owners'[n][<<c, s>>] = owners[n][<<c, s>>]
      BY <1>2, <1>4, <2>1, OwnerElsewhere DEF RegistryInv
    <2> QED
      BY <1>3, <2>2 DEF Untouched
  <1>8. LastKeys(b)' = LastKeys(b) /\ Recorded(b)'
    BY <1>3 DEF LastKeys, SpaceOf, Recorded, KeysOf, RegistryInv
  <1>9. Stage(t, b)'
    <2>1. CASE todo[t] = {m}
      <3>1. pc'[t] = "drop" /\ todo'[t] = keys[b]
        BY <1>2, <2>1, GotoMoves
      <3>2. HasTools(b, keys[b])'
        BY <1>3, <1>4 DEF Purging, HasTools, RegistryInv, Recorded
      <3>3. HasOwners(b, {})'
        BY <1>4, <1>5, <2>1 DEF Purging, HasOwners, HasOwnersBut
      <3>4. Dropping(t, b)'
        BY <1>1, <1>3, <1>4, <3>1, <3>2, <3>3
           DEF Dropping, Purging, RegistryInv, Recorded, KeysOf, KindFits, PurgeOwner
      <3> QED
        BY <3>1, <3>4 DEF Stage
    <2>2. CASE todo[t] # {m}
      <3>1. pc'[t] = "purge" /\ todo'[t] = todo[t] \ {m}
        BY <1>2, <2>2, GotoMoves
      <3>2. HasTools(b, LastKeys(b))'
        BY <1>3, <1>4, <1>8 DEF Purging, HasTools
      <3>3. HasOwnersBut(b, LastKeys(b), Names \ todo[t])'
        <4>1. ASSUME NEW s \in Spaces(b), NEW n \in Names, <<s, n>> \in LastKeys(b)', n \in todo'[t]
              PROVE  owners'[n][<<b, s>>] = 1
          BY <1>4, <1>5, <1>8, <3>1, <4>1 DEF Purging, HasOwnersBut
        <4>2. ASSUME NEW s \in Spaces(b), NEW n \in Names, <<s, n>> \notin LastKeys(b)' \/ n \notin todo'[t]
              PROVE  owners'[n][<<b, s>>] = 0
          BY <1>4, <1>5, <1>8, <3>1, <4>2 DEF Purging, HasOwnersBut
        <4> QED
          BY <4>1, <4>2 DEF HasOwnersBut
      <3> QED
        BY <1>3, <1>4, <3>1, <3>2, <3>3 DEF Stage, Purging
    <2> QED
      BY <2>1, <2>2
  <1>10. AtWork(t)'
    BY <1>1, <1>2, <1>3, <1>9, GotoMoves DEF AtWork, KindFits, PurgeOwner
  <1>11. \A u \in Tasks \ {t} : Waiting(u)
    BY <1>2, <1>3, GotoMoves DEF Waiting
  <1> QED
    BY <1>1, <1>3, <1>6, <1>7, <1>8, <1>10, <1>11, SpacesOf, StepElsewhere DEF RegistryInv

LEMMA DropKeepsInv ==
    ASSUME Separate, RegistryInv, NEW t \in Tasks, DropOld(t) \/ DropRemoved(t)
    PROVE  RegistryInv'
  <1>0. pc[t] = "drop" /\ UNCHANGED <<keys, listed, owners, booting, offers, live, job, made>>
    BY DEF DropOld, DropRemoved, Drop, history
  <1>1. PICK b \in Backends :
              /\ job[t].backend = b /\ KindFits(t) /\ Stage(t, b)
              /\ \A u \in Tasks \ {t} : job[u].backend # b
    BY <1>0, OwnBackend
  <1> USE DEF Steps
  <1>2. Dropping(t, b) /\ KeysOf(b) \subseteq Keys
    BY <1>0, <1>1, SpacesOf DEF Stage
  <1>3. LastKeys(b)' = LastKeys(b) /\ Recorded(b)'
    BY <1>0 DEF LastKeys, SpaceOf, Recorded, KeysOf, RegistryInv
  <1>4. job[t].names \subseteq Names
    BY DEF RegistryInv, TypeOK, Jobs
  <1>5. ASSUME NEW k \in todo[t], tools' = [tools EXCEPT ![k] = None], Goto(t, "drop", todo[t] \ {k})
        PROVE  RegistryInv'
    <2>1. k \in KeysOf(b) /\ k \in Keys
      BY <1>2, <1>5 DEF Dropping
    <2>2. TypeOK' /\ DOMAIN todo' = Tasks
      BY <1>0, <1>5, <2>1, GotoMoves DEF RegistryInv, TypeOK
    <2>3. ASSUME NEW c \in Backends \ {b} PROVE Untouched(c)
      <3>1. \A s \in Spaces(c), n \in Names : tools'[<<s, n>>] = tools[<<s, n>>]
        BY <1>5, <2>1, ToolElsewhere
      <3> QED
        BY <1>0, <3>1 DEF Untouched
    <2>4. pc'[t] = "drop" /\ todo'[t] = todo[t] \ {k}
      BY <1>5, GotoMoves
    <2>5. HasTools(b, todo[t])'
      <3>1. tools \in [Keys -> Backends \cup {None}]
        BY DEF RegistryInv, TypeOK
      <3>2. ASSUME NEW s \in Spaces(b), NEW n \in Names
            PROVE  /\ <<s, n>> \in todo'[t] => tools'[<<s, n>>] = b
                   /\ <<s, n>> \notin todo'[t] => tools'[<<s, n>>] = None
        <4>1. <<s, n>> \in Keys
          BY SpacesOf
        <4> QED
          BY <1>2, <1>5, <2>4, <3>1, <4>1 DEF Dropping, HasTools
      <3> QED
        BY <3>2 DEF HasTools
    <2>6. (job[t].kind # "remove" => HasOwners(b, {})) => (job[t].kind # "remove" => HasOwners(b, {}))'
      BY <1>0 DEF HasOwners, HasOwnersBut
    <2>7. Dropping(t, b)'
      BY <1>0, <1>2, <2>4, <2>5, <2>6 DEF Dropping, KeysOf
    <2>8. AtWork(t)'
      BY <1>0, <1>1, <2>4, <2>7 DEF AtWork, KindFits, Stage
    <2>9. \A u \in Tasks \ {t} : Waiting(u)
      BY <1>0, <1>5, GotoMoves DEF Waiting
    <2> QED
      BY <1>0, <1>1, <1>3, <2>2, <2>3, <2>8, <2>9, SpacesOf, StepElsewhere DEF RegistryInv
  <1>6. ASSUME todo[t] = {}, UNCHANGED tools, NEW l \in {"insert", "disown"}, NEW w,
               Goto(t, l, w), (l = "insert" /\ w = job[t].names /\ job[t].kind # "remove")
                              \/ (l = "disown" /\ w = Names /\ job[t].kind = "remove")
        PROVE  RegistryInv'
    <2>1. TypeOK' /\ DOMAIN todo' = Tasks /\ pc'[t] = l /\ todo'[t] = w
      BY <1>0, <1>6, GotoMoves DEF RegistryInv, TypeOK
    <2>2. \A c \in Backends \ {b} : Untouched(c)
      BY <1>0, <1>6 DEF Untouched
    <2>3. HasTools(b, {})' /\ made'[t] = {}
      BY <1>0, <1>2, <1>6 DEF Dropping, HasTools
    <2>4. ASSUME l = "insert" PROVE AtWork(t)'
      <3>1. Made(t, b, Space(job[t]))'
        BY <1>0, <1>6, <2>1, <2>3, <2>4 DEF Made
      <3>2. HasOwnersBut(b, made[t], todo[t])'
        <4>1. HasOwners(b, {})
          BY <1>2, <1>6, <2>4 DEF Dropping
        <4> QED
          BY <1>0, <2>3, <4>1 DEF HasOwners, HasOwnersBut
      <3>3. Current(t)' = {}
        BY <2>3 DEF Current
      <3>4. job[t].kind \in {"cached", "live"}
        BY <1>0, <1>1, <1>6, <2>4 DEF RegistryInv, TypeOK, Jobs, Kinds, KindFits
      <3>5. Stage(t, b)'
        BY <2>1, <2>4, <3>1, <3>2, <3>3 DEF Stage
      <3>6. KindFits(t)'
        BY <1>0, <1>1, <2>1, <2>4, <3>4 DEF KindFits
      <3>7. job'[t].backend = b
        BY <1>0, <1>1
      <3> QED
        BY <3>5, <3>6, <3>7, AtWorkOn
    <2>5. ASSUME l = "disown" PROVE AtWork(t)'
      <3>1. Dropped(t, b)' /\ Disowning(t, b)'
        BY <1>0, <1>2, <1>6, <2>1, <2>3, <2>5 DEF Dropped, Disowning, Dropping
      <3>5. Stage(t, b)'
        BY <2>1, <2>5, <3>1 DEF Stage
      <3>6. KindFits(t)'
        BY <1>0, <1>1, <1>6, <2>1, <2>5 DEF KindFits
      <3>7. job'[t].backend = b
        BY <1>0, <1>1
      <3> QED
        BY <3>5, <3>6, <3>7, AtWorkOn
    <2>6. AtWork(t)'
      <3>1. l = "insert" \/ l = "disown"
        BY <1>6
      <3> QED
        BY <2>4, <2>5, <3>1
    <2>7. \A u \in Tasks \ {t} : Waiting(u)
      BY <1>0, <1>6, GotoMoves DEF Waiting
    <2> QED
      BY <1>0, <1>1, <1>3, <2>1, <2>2, <2>6, <2>7, SpacesOf, StepElsewhere DEF RegistryInv
  <1> QED
    BY <1>5, <1>6 DEF DropOld, DropRemoved, Drop

\* Where a registration stands while it makes its keys.
LEMMA KeysBeingMade ==
    ASSUME RegistryInv, NEW t \in Tasks, NEW b \in Backends, job[t].backend = b, KindFits(t), Stage(t, b),
           pc[t] \in {"insert", "own", "alias"}
    PROVE  /\ Made(t, b, Space(job[t])) /\ Space(job[t]) \in Spaces(b) /\ job[t].names \subseteq Names
           /\ Owner(job[t]) = <<b, Space(job[t])>> /\ Owner(job[t]) \in Owners
           /\ job[t].kind \in {"cached", "live"}
           /\ \A n \in Names : n \in Current(t) <=> n \in todo[t] /\ <<Space(job[t]), n>> \in made[t]
           /\ tools \in [Keys -> Backends \cup {None}] /\ KeysOf(b) \subseteq Keys
  <1>1. job[t] \in Jobs /\ tools \in [Keys -> Backends \cup {None}]
    BY DEF RegistryInv, TypeOK
  <1>2. Made(t, b, Space(job[t])) /\ job[t].kind \in {"cached", "live"}
    BY DEF Stage, KindFits
  <1> QED
    BY <1>1, <1>2, SpaceOfJob, SpacesOf DEF Jobs, Current

LEMMA InsertKeepsInv ==
    ASSUME Separate, RegistryInv, NEW t \in Tasks, Insert(t)
    PROVE  RegistryInv'
  <1>0. pc[t] = "insert" /\ UNCHANGED <<keys, listed, owners, booting, offers, live, job>>
    BY DEF Insert, history
  <1>1. PICK b \in Backends :
              /\ job[t].backend = b /\ KindFits(t) /\ Stage(t, b)
              /\ \A u \in Tasks \ {t} : job[u].backend # b
    BY <1>0, OwnBackend
  <1> USE DEF Steps
  <1> DEFINE s0 == Space(job[t])
  <1>2. /\ Made(t, b, s0) /\ s0 \in Spaces(b) /\ job[t].names \subseteq Names
        /\ Current(t) = {} /\ HasOwnersBut(b, made[t], todo[t])
        /\ tools \in [Keys -> Backends \cup {None}] /\ KeysOf(b) \subseteq Keys
        /\ job[t].kind \in {"cached", "live"}
    BY <1>0, <1>1, KeysBeingMade DEF Stage
  <1>3. PICK m \in todo[t] :
              /\ tools' = [tools EXCEPT ![<<s0, m>>] = b]
              /\ made' = [made EXCEPT ![t] = @ \cup {<<s0, m>>}]
              /\ Goto(t, "own", todo[t])
    BY <1>1 DEF Insert
  <1>4. m \in Names /\ <<s0, m>> \in KeysOf(b) /\ m \in job[t].names
    BY <1>2 DEF Made, KeysOf
  <1>5. TypeOK' /\ DOMAIN todo' = Tasks /\ DOMAIN made' = Tasks
    BY <1>0, <1>2, <1>3, <1>4, GotoMoves DEF RegistryInv, TypeOK
  <1>6. ASSUME NEW c \in Backends \ {b} PROVE Untouched(c)
    <2>1. \A s \in Spaces(c), n \in Names : tools'[<<s, n>>] = tools[<<s, n>>]
      BY <1>3, <1>4, ToolElsewhere
    <2> QED
      BY <1>0, <2>1 DEF Untouched
  <1>7. Recorded(b)'
    BY <1>0 DEF LastKeys, SpaceOf, Recorded, KeysOf, RegistryInv
  <1>8. pc'[t] = "own" /\ todo'[t] = todo[t] /\ made'[t] = made[t] \cup {<<s0, m>>} /\ job'[t] = job[t]
    BY <1>0, <1>3, GotoMoves DEF RegistryInv
  <1>9. Stage(t, b)'
    <2>1. HasTools(b, made[t])'
      <3>1. ASSUME NEW s \in Spaces(b), NEW n \in Names
            PROVE  /\ <<s, n>> \in made'[t] => tools'[<<s, n>>] = b
                   /\ <<s, n>> \notin made'[t] => tools'[<<s, n>>] = None
        <4>1. <<s, n>> \in Keys
          BY SpacesOf
        <4> QED
          BY <1>2, <1>3, <1>8, <4>1 DEF Made, HasTools
      <3> QED
        BY <3>1 DEF HasTools
    <2>2. Made(t, b, Space(job[t]))'
      <3>1. made'[t] \subseteq KeysOf(b) /\ Space(job'[t]) = s0
        BY <1>2, <1>4, <1>8 DEF Made
      <3>2. \A s \in Spaces(b), n \in Names : <<s, n>> \in made'[t] => s = s0 /\ n \in job[t].names
        BY <1>2, <1>4, <1>8 DEF Made
      <3>3. \A n \in job[t].names \ todo[t] : <<s0, n>> \in made'[t]
        BY <1>2, <1>8 DEF Made
      <3> QED
        BY <1>2, <1>8, <2>1, <3>1, <3>2, <3>3 DEF Made, KeysOf, Space
    <2>3. Current(t)' = {m}
      BY <1>2, <1>8 DEF Current, Space
    <2>4. HasOwnersBut(b, made[t], todo[t])'
      <3>1. ASSUME NEW s \in Spaces(b), NEW n \in Names, <<s, n>> \in made'[t], n \notin todo'[t]
            PROVE  owners'[n][<<b, s>>] = 1
        BY <1>0, <1>2, <1>8, <3>1 DEF HasOwnersBut
      <3>2. ASSUME NEW s \in Spaces(b), NEW n \in Names, <<s, n>> \notin made'[t] \/ n \in todo'[t]
            PROVE  owners'[n][<<b, s>>] = 0
        BY <1>0, <1>2, <1>8, <3>2 DEF HasOwnersBut
      <3> QED
        BY <3>1, <3>2 DEF HasOwnersBut
    <2> QED
      BY <1>8, <2>2, <2>3, <2>4 DEF Stage
  <1>10. AtWork(t)'
    <2>1. KindFits(t)'
      BY <1>0, <1>1, <1>2, <1>8 DEF KindFits
    <2> QED
      BY <1>1, <1>8, <1>9, <2>1, AtWorkOn
  <1>11. \A u \in Tasks \ {t} : Waiting(u)
    BY <1>0, <1>3, GotoMoves DEF Waiting, RegistryInv
  <1> QED
    BY <1>1, <1>5, <1>6, <1>7, <1>8, <1>10, <1>11, SpacesOf, StepElsewhere DEF RegistryInv

LEMMA OwnKeepsInv ==
    ASSUME Separate, RegistryInv, NEW t \in Tasks, Own(t)
    PROVE  RegistryInv'
  <1>0. pc[t] = "own" /\ UNCHANGED <<tools, keys, listed, booting, offers, live, job, made>>
    BY DEF Own, history
  <1>1. PICK b \in Backends :
              /\ job[t].backend = b /\ KindFits(t) /\ Stage(t, b)
              /\ \A u \in Tasks \ {t} : job[u].backend # b
    BY <1>0, OwnBackend
  <1> USE DEF Steps
  <1> DEFINE s0 == Space(job[t])
  <1>2. /\ Made(t, b, s0) /\ s0 \in Spaces(b) /\ job[t].names \subseteq Names
        /\ HasOwnersBut(b, made[t], todo[t])
        /\ job[t].kind \in {"cached", "live"} /\ Owner(job[t]) = <<b, s0>> /\ Owner(job[t]) \in Owners
    BY <1>0, <1>1, KeysBeingMade DEF Stage
  <1>3. PICK m \in Current(t) :
              /\ owners' = [owners EXCEPT ![m] = Push(@, Owner(job[t]))]
              /\ IF job[t].kind = "cached" THEN Goto(t, "insert", todo[t] \ {m}) ELSE Goto(t, "alias", todo[t])
    BY DEF Own
  <1>4. m \in Names /\ m \in todo[t] /\ <<s0, m>> \in made[t] /\ Current(t) = {m}
    BY <1>0, <1>1, <1>2 DEF Stage, Made, Current
  <1>5. TypeOK' /\ DOMAIN todo' = Tasks /\ DOMAIN made' = Tasks
    <2>1. owners' \in [Names -> [Owners -> Nat]]
      BY <1>2, <1>3, <1>4, OwnersTyped DEF RegistryInv
    <2> QED
      BY <1>0, <1>3, <2>1, GotoMoves DEF RegistryInv, TypeOK
  <1>6. ASSUME NEW c \in Backends \ {b} PROVE Untouched(c)
    <2>1. Owner(job[t])[1] = b
      BY <1>2
    <2>2. \A s \in Spaces(c), n \in Names : owners'[n][<<c, s>>] = owners[n][<<c, s>>]
      <3>1. ASSUME NEW o \in Owners, o[1] = b, owners' = [owners EXCEPT ![m] = Push(@, o)]
            PROVE  \A s \in Spaces(c), n \in Names : owners'[n][<<c, s>>] = owners[n][<<c, s>>]
        BY <1>4, <3>1, OwnerElsewhere DEF RegistryInv
      <3> QED
        BY <1>2, <1>3, <2>1, <3>1
    <2> QED
      BY <1>0, <2>2 DEF Untouched
  <1>7. Recorded(b)'
    BY <1>0 DEF LastKeys, SpaceOf, Recorded, KeysOf, RegistryInv
  <1>8. /\ made'[t] = made[t] /\ job'[t] = job[t] /\ Space(job'[t]) = s0
        /\ \/ job[t].kind = "cached" /\ pc'[t] = "insert" /\ todo'[t] = todo[t] \ {m}
           \/ job[t].kind = "live" /\ pc'[t] = "alias" /\ todo'[t] = todo[t]
    BY <1>0, <1>2, <1>3, GotoMoves
  <1>9. \A s \in Spaces(b), n \in Names :
           /\ n = m /\ s = s0 => owners'[n][<<b, s>>] = 1
           /\ n # m \/ s # s0 => owners'[n][<<b, s>>] = owners[n][<<b, s>>]
    <2> SUFFICES ASSUME NEW s \in Spaces(b), NEW n \in Names
                 PROVE  /\ n = m /\ s = s0 => owners'[n][<<b, s>>] = 1
                        /\ n # m \/ s # s0 => owners'[n][<<b, s>>] = owners[n][<<b, s>>]
      OBVIOUS
    <2>1. <<b, s>> \in Owners /\ owners \in [Names -> [Owners -> Nat]]
      BY SpacesOf DEF RegistryInv, TypeOK
    <2>2. owners[m][<<b, s0>>] = 0
      BY <1>2, <1>4 DEF HasOwnersBut
    <2>3. Push(owners[m], <<b, s0>>)[<<b, s>>] = IF s = s0 THEN 1 ELSE owners[m][<<b, s>>]
      BY <1>4, <2>1, <2>2 DEF Push
    <2> QED
      BY <1>2, <1>3, <1>4, <2>1, <2>3
  <1>10. HasTools(b, made[t])'
    BY <1>0, <1>2, <1>8 DEF Made, HasTools
  <1>11. Made(t, b, Space(job[t]))'
    BY <1>2, <1>4, <1>8, <1>10 DEF Made, KeysOf
  <1>12. Stage(t, b)'
    <2>1. CASE job[t].kind = "cached"
      <3>1. Current(t)' = {}
        BY <1>4, <1>8, <2>1 DEF Current
      <3>2. HasOwnersBut(b, made[t], todo[t])'
        <4>1. ASSUME NEW s \in Spaces(b), NEW n \in Names, <<s, n>> \in made'[t], n \notin todo'[t]
              PROVE  owners'[n][<<b, s>>] = 1
          <5>1. s = s0
            BY <1>2, <1>8, <4>1 DEF Made
          <5> QED
            BY <1>2, <1>8, <1>9, <2>1, <4>1, <5>1 DEF HasOwnersBut
        <4>2. ASSUME NEW s \in Spaces(b), NEW n \in Names, <<s, n>> \notin made'[t] \/ n \in todo'[t]
              PROVE  owners'[n][<<b, s>>] = 0
          BY <1>2, <1>4, <1>8, <1>9, <2>1, <4>2 DEF HasOwnersBut
        <4> QED
          BY <4>1, <4>2 DEF HasOwnersBut
      <3> QED
        BY <1>8, <1>11, <2>1, <3>1, <3>2 DEF Stage
    <2>2. CASE job[t].kind = "live"
      <3>1. Current(t)' = {m} /\ m \in todo'[t]
        BY <1>4, <1>8, <2>2 DEF Current
      <3>2. HasOwners(b, made[t])'
        <4>1. ASSUME NEW s \in Spaces(b), NEW n \in Names, <<s, n>> \in made'[t]
              PROVE  owners'[n][<<b, s>>] = 1
          <5>1. s = s0 /\ (n \in todo[t] => n \in Current(t))
            BY <1>2, <1>8, <4>1 DEF Made, Current
          <5> QED
            BY <1>2, <1>4, <1>8, <1>9, <2>2, <4>1, <5>1 DEF HasOwnersBut
        <4>2. ASSUME NEW s \in Spaces(b), NEW n \in Names, <<s, n>> \notin made'[t]
              PROVE  owners'[n][<<b, s>>] = 0
          BY <1>2, <1>4, <1>8, <1>9, <2>2, <4>2 DEF HasOwnersBut
        <4> QED
          BY <4>1, <4>2 DEF HasOwners, HasOwnersBut
      <3> QED
        BY <1>8, <1>11, <2>2, <3>1, <3>2 DEF Stage
    <2> QED
      BY <1>2, <2>1, <2>2
  <1>13. AtWork(t)'
    <2>1. KindFits(t)'
      BY <1>0, <1>1, <1>2, <1>8 DEF KindFits
    <2> QED
      BY <1>1, <1>8, <1>12, <2>1, AtWorkOn
  <1>14. \A u \in Tasks \ {t} : Waiting(u)
    BY <1>0, <1>3, GotoMoves DEF Waiting, RegistryInv
  <1> QED
    BY <1>1, <1>5, <1>6, <1>7, <1>8, <1>13, <1>14, SpacesOf, StepElsewhere DEF RegistryInv

LEMMA AliasKeepsInv ==
    ASSUME Separate, RegistryInv, NEW t \in Tasks, Alias(t)
    PROVE  RegistryInv'
  <1>0. pc[t] = "alias" /\ UNCHANGED <<keys, listed, owners, booting, offers, live, job>>
    BY DEF Alias, history
  <1>1. PICK b \in Backends :
              /\ job[t].backend = b /\ KindFits(t) /\ Stage(t, b)
              /\ \A u \in Tasks \ {t} : job[u].backend # b
    BY <1>0, OwnBackend
  <1> USE DEF Steps
  <1> DEFINE s0 == Space(job[t])
  <1>2. /\ Made(t, b, s0) /\ s0 \in Spaces(b) /\ job[t].names \subseteq Names
        /\ HasOwners(b, made[t]) /\ job[t].kind \in {"cached", "live"}
        /\ tools \in [Keys -> Backends \cup {None}] /\ KeysOf(b) \subseteq Keys
        /\ None \notin Spaces(b)
    BY <1>0, <1>1, KeysBeingMade, SpacesOf DEF Stage
  <1>3. PICK m \in Current(t) :
              /\ \/ \E v \in {b, None} : tools' = [tools EXCEPT ![Bare(m)] = v]
                 \/ tools' = tools
              /\ \/ made' = [made EXCEPT ![t] = @ \cup {Bare(m)}]
                 \/ made' = made
              /\ Goto(t, "insert", todo[t] \ {m})
    BY <1>1 DEF Alias
  <1>4. m \in Names /\ m \in todo[t] /\ Current(t) = {m}
    BY <1>0, <1>1, <1>2 DEF Stage, Made, Current
  <1>18. Bare(m) \in KeysOf(b) /\ Bare(m) = <<None, m>>
    BY <1>4 DEF Bare, KeysOf
  <1>19. /\ DOMAIN made' = Tasks /\ \A u \in Tasks \ {t} : made'[u] = made[u]
         /\ made[t] \subseteq made'[t] /\ made'[t] \subseteq made[t] \cup {<<None, m>>}
    BY <1>3, <1>18 DEF RegistryInv
  <1>5. TypeOK' /\ DOMAIN todo' = Tasks
    <2>1. tools' \in [Keys -> Backends \cup {None}]
      BY <1>2, <1>3, <1>18
    <2> QED
      BY <1>0, <1>3, <2>1, GotoMoves DEF RegistryInv, TypeOK
  <1>6. \A s \in UNION {Spaces(c) : c \in Backends}, n \in Names : tools'[<<s, n>>] = tools[<<s, n>>]
    <2> SUFFICES ASSUME NEW c \in Backends, NEW s \in Spaces(c), NEW n \in Names
                 PROVE  tools'[<<s, n>>] = tools[<<s, n>>]
      OBVIOUS
    <2>1. s # None
      BY SpacesOf
    <2>2. <<s, n>> # Bare(m)
      BY <2>1, <1>18
    <2>3. <<s, n>> \in Keys
      BY SpacesOf
    <2> QED
      BY <1>2, <1>3, <2>2, <2>3
  <1>7. \A c \in Backends \ {b} : Untouched(c)
    BY <1>0, <1>6 DEF Untouched
  <1>8. Recorded(b)'
    BY <1>0 DEF LastKeys, SpaceOf, Recorded, KeysOf, RegistryInv
  <1>9. /\ pc'[t] = "insert" /\ todo'[t] = todo[t] \ {m}
        /\ job'[t] = job[t] /\ Space(job'[t]) = s0
    BY <1>0, <1>3, GotoMoves
  <1>10. \A s \in Spaces(b), n \in Names : <<s, n>> \in made'[t] <=> <<s, n>> \in made[t]
    BY <1>2, <1>19
  <1>11. HasTools(b, made[t])'
    BY <1>2, <1>6, <1>10 DEF Made, HasTools
  <1>12. Made(t, b, Space(job[t]))'
    <2>1. made'[t] \subseteq KeysOf(b)
      BY <1>2, <1>18, <1>19 DEF Made
    <2>2. \A s \in Spaces(b), n \in Names : <<s, n>> \in made'[t] => s = s0 /\ n \in job[t].names
      BY <1>2, <1>10 DEF Made
    <2>3. \A n \in job[t].names \ todo'[t] : <<s0, n>> \in made'[t]
      BY <1>2, <1>4, <1>9, <1>19 DEF Made, Current
    <2> QED
      BY <1>2, <1>9, <1>11, <2>1, <2>2, <2>3 DEF Made, KeysOf
  <1>13. Current(t)' = {}
    <2>1. ASSUME NEW n \in todo'[t], <<s0, n>> \in made'[t] PROVE FALSE
      <3>1. n \in Names /\ n \in todo[t] /\ n # m
        BY <1>2, <1>9 DEF Made
      <3>2. n \in Current(t)
        BY <1>2, <1>10, <2>1, <3>1 DEF Current
      <3> QED
        BY <1>4, <3>1, <3>2
    <2> QED
      BY <1>9, <2>1 DEF Current
  <1>14. HasOwnersBut(b, made[t], todo[t])'
    <2>1. ASSUME NEW s \in Spaces(b), NEW n \in Names, <<s, n>> \in made'[t], n \notin todo'[t]
          PROVE  owners'[n][<<b, s>>] = 1
      BY <1>0, <1>2, <1>10, <2>1 DEF HasOwners, HasOwnersBut
    <2>2. ASSUME NEW s \in Spaces(b), NEW n \in Names, <<s, n>> \notin made'[t] \/ n \in todo'[t]
          PROVE  owners'[n][<<b, s>>] = 0
      <3>1. <<s, n>> \notin made[t]
        BY <1>2, <1>9, <1>10, <1>13, <2>2 DEF Made, Current
      <3> QED
        BY <1>0, <1>2, <3>1 DEF HasOwners, HasOwnersBut
    <2> QED
      BY <2>1, <2>2 DEF HasOwnersBut
  <1>15. Stage(t, b)'
    BY <1>9, <1>12, <1>13, <1>14 DEF Stage
  <1>16. AtWork(t)'
    <2>1. KindFits(t)'
      BY <1>0, <1>1, <1>2, <1>9 DEF KindFits
    <2> QED
      BY <1>1, <1>9, <1>15, <2>1, AtWorkOn
  <1>17. \A u \in Tasks \ {t} : Waiting(u)
    BY <1>0, <1>3, <1>19, GotoMoves DEF Waiting
  <1> QED
    BY <1>1, <1>19, <1>5, <1>7, <1>8, <1>9, <1>16, <1>17, SpacesOf, StepElsewhere DEF RegistryInv

LEMMA EndMoves ==
    ASSUME RegistryInv, NEW t \in Tasks, EndJob(t)
    PROVE  /\ pc' \in [Tasks -> Steps] /\ job' \in [Tasks -> Jobs]
           /\ DOMAIN todo' = Tasks /\ DOMAIN made' = Tasks
           /\ job'[t].backend = None /\ AtWork(t)'
           /\ \A u \in Tasks \ {t} : Waiting(u)
  <1>1. NoJob \in Jobs /\ NoJob.backend = None
    BY DEF NoJob, Jobs, Kinds
  <1>2. "none" \in Steps /\ Goto(t, "none", {})
    BY DEF Steps, EndJob
  <1>3. pc' \in [Tasks -> Steps] /\ pc'[t] = "none" /\ job' \in [Tasks -> Jobs] /\ job'[t] = NoJob
    BY <1>1, <1>2, GotoMoves DEF EndJob, RegistryInv, TypeOK
  <1>4. AtWork(t)'
    <2>1. made'[t] = {}
      BY DEF EndJob, RegistryInv
    <2> QED
      BY <1>1, <1>3, <2>1 DEF AtWork, KindFits, Stage
  <1>5. \A u \in Tasks \ {t} : Waiting(u)
    BY <1>2, GotoMoves DEF Waiting, EndJob, RegistryInv
  <1> QED
    BY <1>1, <1>2, <1>3, <1>4, <1>5, GotoMoves DEF EndJob, RegistryInv

LEMMA ListKeepsInv ==
    ASSUME Separate, RegistryInv, NEW t \in Tasks, List(t)
    PROVE  RegistryInv'
  <1>0. /\ pc[t] = "insert" /\ todo[t] = {} /\ EndJob(t)
        /\ UNCHANGED <<tools, owners, booting>>
    BY DEF List
  <1>1. PICK b \in Backends :
              /\ job[t].backend = b /\ KindFits(t) /\ Stage(t, b)
              /\ \A u \in Tasks \ {t} : job[u].backend # b
    BY <1>0, OwnBackend
  <1> DEFINE s0 == Space(job[t])
  <1>2. /\ Made(t, b, s0) /\ s0 \in Spaces(b) /\ job[t].names \subseteq Names
        /\ HasOwnersBut(b, made[t], todo[t]) /\ KeysOf(b) \subseteq Keys
        /\ job[t].kind \in {"cached", "live"}
    BY <1>0, <1>1, KeysBeingMade DEF Stage
  <1>3. /\ keys' = [keys EXCEPT ![b] = made[t]]
        /\ listed' = listed \cup {b}
        /\ offers' = [offers EXCEPT ![b] = job[t].names]
        /\ live' = IF job[t].kind = "live" THEN live \cup {b} ELSE live \ {b}
    BY <1>1 DEF List
  <1>4. TypeOK'
    BY <1>0, <1>2, <1>3, EndMoves DEF RegistryInv, TypeOK, Made
  <1>5. \A c \in Backends \ {b} : Untouched(c)
    BY <1>0, <1>3 DEF Untouched, RegistryInv, TypeOK
  <1>6. keys'[b] = made[t] /\ offers'[b] = job[t].names /\ b \in listed'
    BY <1>3 DEF RegistryInv, TypeOK
  <1>7. SpaceOf(b)' = s0
    BY <1>1, <1>2, <1>3 DEF SpaceOf, Space
  <1>8. LastKeys(b)' = {s0} \X job[t].names
    BY <1>6, <1>7 DEF LastKeys
  <1>9. \A s \in Spaces(b), n \in Names : <<s, n>> \in LastKeys(b)' <=> <<s, n>> \in made[t]
    <2>1. \A s \in Spaces(b), n \in Names : <<s, n>> \in made[t] => s = s0 /\ n \in job[t].names
      BY <1>2 DEF Made
    <2>2. \A n \in job[t].names : <<s0, n>> \in made[t]
      BY <1>0, <1>2 DEF Made
    <2> QED
      BY <1>8, <2>1, <2>2
  <1>10. Recorded(b)'
    <2>1. keys'[b] \subseteq KeysOf(b)
      BY <1>2, <1>6 DEF Made
    <2> QED
      BY <1>6, <1>9, <2>1 DEF Recorded, KeysOf
  <1>11. HasTools(b, LastKeys(b))'
    BY <1>0, <1>2, <1>9 DEF Made, HasTools
  <1>12. HasOwners(b, LastKeys(b))'
    <2>1. ASSUME NEW s \in Spaces(b), NEW n \in Names, <<s, n>> \in LastKeys(b)'
          PROVE  owners'[n][<<b, s>>] = 1
      BY <1>0, <1>2, <1>9, <2>1 DEF HasOwnersBut
    <2>2. ASSUME NEW s \in Spaces(b), NEW n \in Names, <<s, n>> \notin LastKeys(b)'
          PROVE  owners'[n][<<b, s>>] = 0
      BY <1>0, <1>2, <1>9, <2>2 DEF HasOwnersBut
    <2> QED
      BY <2>1, <2>2 DEF HasOwners, HasOwnersBut
  <1>13. Exact(b)'
    BY <1>11, <1>12 DEF Exact
  <1> QED
    BY <1>0, <1>1, <1>4, <1>5, <1>10, <1>13, EndMoves, StepElsewhere

LEMMA BeginRegisterKeepsInv ==
    ASSUME Separate, RegistryInv, NEW t \in Tasks, NEW b \in Backends, NEW names \in SUBSET Names,
           NEW kind \in {"cached", "live"}, BeginRegister(t, kind, b, names), booting' \in BOOLEAN
    PROVE  RegistryInv'
  <1> DEFINE j == [kind |-> kind, backend |-> b, names |-> names]
  <1>0. /\ pc[t] = "none" /\ ~Busy(b) /\ job' = [job EXCEPT ![t] = j]
        /\ UNCHANGED <<tools, keys, listed, owners, offers, live, made>>
    BY DEF BeginRegister, Begin, Separate, maps
  <1>1. j \in Jobs /\ j.backend = b /\ j.kind = kind /\ j.names = names
    BY DEF Jobs, Kinds
  <1>2. job' \in [Tasks -> Jobs] /\ job'[t] = j /\ \A u \in Tasks \ {t} : job'[u] = job[u]
    BY <1>0, <1>1 DEF RegistryInv, TypeOK
  <1>3. Exact(b) /\ Recorded(b) /\ \A u \in Tasks : job[u].backend # b
    BY <1>0 DEF RegistryInv, Settled, Busy
  <1>4. made[t] = {} /\ job[t].backend = None
    BY <1>0 DEF RegistryInv, AtWork, KindFits
  <1>5. LastKeys(b)' = LastKeys(b) /\ Recorded(b)'
    BY <1>0, <1>3 DEF LastKeys, SpaceOf, Recorded, KeysOf
  <1>6. \A c \in Backends \ {b} : Untouched(c)
    BY <1>0 DEF Untouched
  <1>7. ASSUME b \in listed, Goto(t, "purge", Names)
        PROVE  /\ AtWork(t)' /\ pc' \in [Tasks -> Steps] /\ DOMAIN todo' = Tasks
               /\ \A u \in Tasks \ {t} : Waiting(u)
    <2>1. /\ pc' \in [Tasks -> Steps] /\ pc'[t] = "purge" /\ DOMAIN todo' = Tasks /\ todo'[t] = Names
          /\ \A u \in Tasks \ {t} : pc'[u] = pc[u] /\ todo'[u] = todo[u]
      BY <1>7, GotoMoves DEF Steps
    <2>2. HasTools(b, LastKeys(b))'
      BY <1>0, <1>3, <1>5 DEF Exact, HasTools
    <2>3. HasOwnersBut(b, LastKeys(b), Names \ todo[t])'
      <3>1. HasOwnersBut(b, LastKeys(b), {})
        BY <1>3 DEF Exact, HasOwners
      <3>2. ASSUME NEW s \in Spaces(b), NEW n \in Names, <<s, n>> \in LastKeys(b)', n \notin Names \ todo'[t]
            PROVE  owners'[n][<<b, s>>] = 1
        BY <1>0, <1>5, <2>1, <3>1, <3>2 DEF HasOwnersBut
      <3>3. ASSUME NEW s \in Spaces(b), NEW n \in Names,
                   <<s, n>> \notin LastKeys(b)' \/ n \in Names \ todo'[t]
            PROVE  owners'[n][<<b, s>>] = 0
        BY <1>0, <1>5, <2>1, <3>1, <3>3 DEF HasOwnersBut
      <3> QED
        BY <3>2, <3>3 DEF HasOwnersBut
    <2>4. Purging(t, b)'
      BY <1>0, <1>4, <2>1, <2>2, <2>3 DEF Purging
    <2>5. Stage(t, b)' /\ KindFits(t)'
      BY <1>1, <1>2, <2>1, <2>4, SpacesOf DEF Stage, KindFits
    <2>6. AtWork(t)'
      BY <1>1, <1>2, <2>5, AtWorkOn
    <2> QED
      BY <1>0, <1>2, <2>1, <2>6 DEF Waiting
  <1>8. ASSUME b \notin listed, Goto(t, "insert", names)
        PROVE  /\ AtWork(t)' /\ pc' \in [Tasks -> Steps] /\ DOMAIN todo' = Tasks
               /\ \A u \in Tasks \ {t} : Waiting(u)
    <2>1. /\ pc' \in [Tasks -> Steps] /\ pc'[t] = "insert" /\ DOMAIN todo' = Tasks /\ todo'[t] = names
          /\ \A u \in Tasks \ {t} : pc'[u] = pc[u] /\ todo'[u] = todo[u]
      BY <1>8, GotoMoves DEF Steps
    <2>2. LastKeys(b) = {} /\ made'[t] = {}
      BY <1>0, <1>4, <1>8 DEF LastKeys
    <2>3. HasTools(b, made[t])'
      BY <1>0, <1>3, <2>2 DEF Exact, HasTools
    <2>4. HasOwnersBut(b, made[t], todo[t])'
      BY <1>0, <1>3, <2>2 DEF Exact, HasOwners, HasOwnersBut
    <2>5. Made(t, b, Space(job[t]))' /\ Current(t)' = {}
      BY <1>1, <1>2, <2>1, <2>2, <2>3 DEF Made, Current
    <2>6. Stage(t, b)' /\ KindFits(t)'
      BY <1>1, <1>2, <2>1, <2>4, <2>5, SpacesOf DEF Stage, KindFits
    <2>7. AtWork(t)'
      BY <1>1, <1>2, <2>6, AtWorkOn
    <2> QED
      BY <1>0, <1>2, <2>1, <2>7 DEF Waiting
  <1>9. /\ AtWork(t)' /\ pc' \in [Tasks -> Steps] /\ DOMAIN todo' = Tasks
        /\ \A u \in Tasks \ {t} : Waiting(u)
    BY <1>7, <1>8 DEF BeginRegister
  <1>10. TypeOK' /\ DOMAIN made' = Tasks
    BY <1>0, <1>2, <1>9 DEF RegistryInv, TypeOK
  <1>11. job[t].backend \in {b, None} /\ job'[t].backend \in {b, None} /\ job'[t].backend # None
    BY <1>1, <1>2, <1>4, SpacesOf
  <1> QED
    BY <1>3, <1>5, <1>6, <1>9, <1>10, <1>11, StepElsewhere

LEMMA BeginRemoveKeepsInv ==
    ASSUME Separate, RegistryInv, NEW t \in Tasks, NEW b \in Backends, BeginRemove(t, b)
    PROVE  RegistryInv'
  <1> DEFINE j == [kind |-> "remove", backend |-> b, names |-> {}]
  <1>0. /\ pc[t] = "none" /\ ~Busy(b) /\ job' = [job EXCEPT ![t] = j] /\ Goto(t, "unlist", {})
        /\ UNCHANGED <<tools, keys, listed, owners, offers, live, made, booting>>
    BY DEF BeginRemove, Begin, Separate, maps
  <1>1. j \in Jobs /\ j.backend = b /\ j.kind = "remove"
    BY DEF Jobs, Kinds
  <1>2. job' \in [Tasks -> Jobs] /\ job'[t] = j /\ \A u \in Tasks \ {t} : job'[u] = job[u]
    BY <1>0, <1>1 DEF RegistryInv, TypeOK
  <1>3. Exact(b) /\ Recorded(b) /\ \A u \in Tasks : job[u].backend # b
    BY <1>0 DEF RegistryInv, Settled, Busy
  <1>4. made[t] = {} /\ job[t].backend = None
    BY <1>0 DEF RegistryInv, AtWork, KindFits
  <1>5. Untouched(b) /\ \A c \in Backends \ {b} : Untouched(c)
    BY <1>0 DEF Untouched
  <1>6. Exact(b)' /\ Recorded(b)'
    BY <1>3, <1>5, UntouchedKeepsExact
  <1>7. /\ pc' \in [Tasks -> Steps] /\ pc'[t] = "unlist" /\ DOMAIN todo' = Tasks
        /\ \A u \in Tasks \ {t} : Waiting(u)
    BY <1>0, <1>2, GotoMoves DEF Steps, Waiting
  <1>8. Stage(t, b)' /\ KindFits(t)'
    BY <1>0, <1>1, <1>2, <1>4, <1>6, <1>7, SpacesOf DEF Stage, KindFits
  <1>9. AtWork(t)'
    BY <1>1, <1>2, <1>8, AtWorkOn
  <1>10. TypeOK' /\ DOMAIN made' = Tasks
    BY <1>0, <1>2, <1>7 DEF RegistryInv, TypeOK
  <1>11. job[t].backend \in {b, None} /\ job'[t].backend \in {b, None} /\ job'[t].backend # None
    BY <1>1, <1>2, <1>4, SpacesOf
  <1> QED
    BY <1>3, <1>5, <1>6, <1>7, <1>9, <1>10, <1>11, StepElsewhere

LEMMA UnlistKeepsInv ==
    ASSUME Separate, RegistryInv, NEW t \in Tasks, Unlist(t)
    PROVE  RegistryInv'
  <1>0. pc[t] = "unlist" /\ UNCHANGED <<tools, owners, booting>>
    BY DEF Unlist
  <1>1. PICK b \in Backends :
              /\ job[t].backend = b /\ KindFits(t) /\ Stage(t, b)
              /\ \A u \in Tasks \ {t} : job[u].backend # b
    BY <1>0, OwnBackend
  <1>2. Exact(b) /\ made[t] = {} /\ Recorded(b) /\ KeysOf(b) \subseteq Keys
    BY <1>0, <1>1, SpacesOf DEF Stage, RegistryInv
  <1>3. ASSUME EndJob(t), UNCHANGED <<keys, listed, offers, live>> PROVE RegistryInv'
    <2>1. Untouched(b) /\ \A c \in Backends \ {b} : Untouched(c)
      BY <1>0, <1>3 DEF Untouched
    <2>2. Exact(b)' /\ Recorded(b)'
      BY <1>2, <2>1, UntouchedKeepsExact
    <2>3. TypeOK'
      BY <1>0, <1>3, EndMoves DEF RegistryInv, TypeOK
    <2> QED
      BY <1>1, <1>3, <2>1, <2>2, <2>3, EndMoves, StepElsewhere
  <1>4. ASSUME listed' = listed \ {b}, keys' = [keys EXCEPT ![b] = {}], offers' = [offers EXCEPT ![b] = {}],
               live' = live \ {b}, Goto(t, "drop", keys[b]), UNCHANGED <<job, made>>
        PROVE  RegistryInv'
    <2>1. \A c \in Backends \ {b} : Untouched(c)
      BY <1>0, <1>4 DEF Untouched, RegistryInv, TypeOK
    <2>2. /\ pc' \in [Tasks -> Steps] /\ pc'[t] = "drop" /\ DOMAIN todo' = Tasks /\ todo'[t] = keys[b]
          /\ \A u \in Tasks \ {t} : Waiting(u)
      BY <1>4, GotoMoves DEF Steps, Waiting
    <2>3. TypeOK'
      BY <1>0, <1>4, <2>2 DEF RegistryInv, TypeOK
    <2>4. Recorded(b)'
      <3>1. LastKeys(b)' = {} /\ keys'[b] = {}
        BY <1>4 DEF LastKeys, RegistryInv, TypeOK
      <3> QED
        BY <3>1 DEF Recorded
    <2>5. HasTools(b, todo[t])'
      BY <1>0, <1>2, <2>2 DEF Exact, HasTools, Recorded
    <2>6. Dropping(t, b)'
      <3>1. job'[t].kind = "remove"
        BY <1>0, <1>1, <1>4 DEF KindFits
      <3>2. todo'[t] \subseteq KeysOf(b) /\ made'[t] = {} /\ b \notin listed'
        BY <1>2, <1>4, <2>2 DEF Recorded
      <3> QED
        BY <2>5, <3>1, <3>2 DEF Dropping, KeysOf
    <2>7. Stage(t, b)' /\ KindFits(t)'
      BY <1>0, <1>1, <1>4, <2>2, <2>6 DEF Stage, KindFits
    <2>8. AtWork(t)'
      BY <1>1, <1>4, <2>7, AtWorkOn
    <2>9. job'[t].backend = b /\ b # None /\ DOMAIN made' = Tasks
      BY <1>1, <1>4, SpacesOf DEF RegistryInv
    <2> QED
      BY <1>1, <2>1, <2>2, <2>3, <2>4, <2>8, <2>9, StepElsewhere
  <1> QED
    BY <1>1, <1>3, <1>4 DEF Unlist

LEMMA DisownKeepsInv ==
    ASSUME Separate, RegistryInv, NEW t \in Tasks, Disown(t)
    PROVE  RegistryInv'
  <1>0. pc[t] = "disown" /\ UNCHANGED <<tools, keys, listed, booting, offers, live, job>>
    BY DEF Disown, history
  <1>1. PICK b \in Backends :
              /\ job[t].backend = b /\ KindFits(t) /\ Stage(t, b)
              /\ \A u \in Tasks \ {t} : job[u].backend # b
    BY <1>0, OwnBackend
  <1> USE DEF Steps
  <1>2. Dropped(t, b) /\ Disowning(t, b) /\ <<b, b>> \in Owners
    <2>1. b \in Spaces(b)
      BY DEF Spaces
    <2>2. <<b, b>> \in Owners
      BY <2>1 DEF Owners
    <2> QED
      BY <1>0, <1>1, <2>2 DEF Stage
  <1>3. PICK m \in todo[t] :
              /\ owners' = [owners EXCEPT ![m] = Purge(owners[m], b)]
              /\ made' = [made EXCEPT ![t] = @ \cup
                              IF Crowded(owners[m]) THEN {m} \X Sole(Purge(owners[m], b)) ELSE {}]
              /\ IF todo[t] = {m} THEN Goto(t, "restore", {}) ELSE Goto(t, "disown", todo[t] \ {m})
    BY <1>1 DEF Disown
  <1>4. m \in Names
    BY <1>2 DEF Disowning
  <1>5. \A s \in Spaces(b), n \in Names :
           /\ n = m => owners'[n][<<b, s>>] = 0
           /\ n # m => owners'[n][<<b, s>>] = owners[n][<<b, s>>]
    BY <1>3, <1>4, SpacesOf DEF RegistryInv, TypeOK, Purge
  <1>6. TypeOK' /\ DOMAIN todo' = Tasks /\ DOMAIN made' = Tasks
    BY <1>0, <1>2, <1>3, <1>4, OwnersTyped, GotoMoves DEF RegistryInv, TypeOK
  <1>7. ASSUME NEW c \in Backends \ {b} PROVE Untouched(c)
    <2>1. <<b, b>>[1] = b
      OBVIOUS
    <2>2. \A s \in Spaces(c), n \in Names : owners'[n][<<c, s>>] = owners[n][<<c, s>>]
      BY <1>2, <1>3, <1>4, <2>1, OwnerElsewhere DEF RegistryInv
    <2> QED
      BY <1>0, <2>2 DEF Untouched
  <1>8. Recorded(b)'
    BY <1>0 DEF LastKeys, SpaceOf, Recorded, KeysOf, RegistryInv
  <1>9. Dropped(t, b)'
    <2>1. Sole(Purge(owners[m], b)) \subseteq Owners
      BY DEF Sole
    <2>2. made'[t] \subseteq Names \X Owners
      BY <1>2, <1>3, <1>4, <2>1 DEF Dropped, RegistryInv
    <2>3. HasTools(b, {})'
      BY <1>0, <1>2 DEF Dropped, HasTools
    <2> QED
      BY <1>0, <1>2, <2>2, <2>3 DEF Dropped
  <1>10. Stage(t, b)' /\ KindFits(t)'
    <2>1. CASE todo[t] = {m}
      <3>1. pc'[t] = "restore" /\ todo'[t] = {}
        BY <1>3, <2>1, GotoMoves
      <3>2. HasOwners(b, {})'
        BY <1>2, <1>5, <2>1 DEF Disowning, HasOwners, HasOwnersBut
      <3> QED
        BY <1>0, <1>1, <1>9, <3>1, <3>2 DEF Stage, KindFits
    <2>2. CASE todo[t] # {m}
      <3>1. pc'[t] = "disown" /\ todo'[t] = todo[t] \ {m}
        BY <1>3, <2>2, GotoMoves
      <3>2. Disowning(t, b)'
        BY <1>2, <1>5, <3>1 DEF Disowning
      <3> QED
        BY <1>0, <1>1, <1>9, <3>1, <3>2 DEF Stage, KindFits
    <2> QED
      BY <2>1, <2>2
  <1>11. AtWork(t)'
    BY <1>0, <1>1, <1>10, AtWorkOn
  <1>12. \A u \in Tasks \ {t} : Waiting(u)
    BY <1>0, <1>3, GotoMoves DEF Waiting, RegistryInv
  <1> QED
    BY <1>0, <1>1, <1>6, <1>7, <1>8, <1>11, <1>12, SpacesOf, StepElsewhere

\* The rest of a removal touches aliases only.
LEMMA RestoreKeepsInv ==
    ASSUME Separate, RegistryInv, NEW t \in Tasks, ReadEntry(t) \/ PutAlias(t)
    PROVE  RegistryInv'
  <1>0. pc[t] \in {"restore", "put"} /\ UNCHANGED <<keys, listed, owners, booting, offers, live, job>>
    BY DEF ReadEntry, PutAlias, history, maps
  <1>1. PICK b \in Backends :
              /\ job[t].backend = b /\ KindFits(t) /\ Stage(t, b)
              /\ \A u \in Tasks \ {t} : job[u].backend # b
    BY <1>0, OwnBackend
  <1> USE DEF Steps
  <1>2. /\ Dropped(t, b) /\ HasOwners(b, {}) /\ job[t].kind = "remove"
        /\ pc[t] = "put" => todo[t] \subseteq Names \X Owners
    BY <1>0, <1>1 DEF Stage, KindFits
  <1>3. /\ tools' \in [Keys -> Backends \cup {None}]
        /\ \A c \in Backends : \A s \in Spaces(c), n \in Names : tools'[<<s, n>>] = tools[<<s, n>>]
    <2>1. CASE ReadEntry(t)
      BY <2>1 DEF ReadEntry, maps, RegistryInv, TypeOK
    <2>2. CASE PutAlias(t)
      <3>1. PICK m \in todo[t] : tools' = [tools EXCEPT ![Bare(m[1])] = m[2][1]]
        BY <2>2 DEF PutAlias
      <3>2. m \in Names \X Owners
        BY <1>2, <2>2, <3>1 DEF PutAlias
      <3>3. m[1] \in Names /\ m[2] \in Owners /\ m[2][1] \in Backends
        BY <3>2 DEF Owners
      <3>4. Bare(m[1]) = <<None, m[1]>> /\ tools \in [Keys -> Backends \cup {None}]
        BY DEF Bare, RegistryInv, TypeOK
      <3>5. ASSUME NEW c \in Backends, NEW s \in Spaces(c), NEW n \in Names
            PROVE  tools'[<<s, n>>] = tools[<<s, n>>]
        <4>1. s # None /\ <<s, n>> \in Keys
          BY SpacesOf
        <4>2. <<s, n>> # <<None, m[1]>>
          BY <4>1
        <4> QED
          BY <3>1, <3>4, <4>1, <4>2
      <3> QED
        BY <3>1, <3>3, <3>4, <3>5
    <2> QED
      BY <2>1, <2>2
  <1>4. /\ pc' \in [Tasks -> Steps] /\ pc'[t] \in {"restore", "put"} /\ DOMAIN todo' = Tasks
        /\ pc'[t] = "put" => todo'[t] \subseteq Names \X Owners
        /\ DOMAIN made' = Tasks /\ made'[t] \subseteq made[t]
        /\ \A u \in Tasks \ {t} : Waiting(u)
    <2>1. CASE ReadEntry(t)
      <3>1. PICK m \in made[t] :
                /\ \/ Goto(t, "put", {m})
                   \/ Goto(t, "restore", {})
                /\ made' = [made EXCEPT ![t] = @ \ {m}]
        BY <2>1 DEF ReadEntry
      <3>2. m \in Names \X Owners
        BY <1>2 DEF Dropped
      <3>3. /\ pc' \in [Tasks -> Steps] /\ DOMAIN todo' = Tasks
            /\ \/ pc'[t] = "put" /\ todo'[t] = {m}
               \/ pc'[t] = "restore"
            /\ \A u \in Tasks \ {t} : pc'[u] = pc[u] /\ todo'[u] = todo[u]
        BY <3>1, GotoMoves
      <3>4. DOMAIN made' = Tasks /\ made'[t] \subseteq made[t] /\ \A u \in Tasks \ {t} : made'[u] = made[u]
        BY <3>1 DEF RegistryInv
      <3> QED
        BY <1>0, <3>2, <3>3, <3>4 DEF Waiting
    <2>2. CASE PutAlias(t)
      BY <1>0, <2>2, GotoMoves DEF PutAlias, Waiting, RegistryInv
    <2> QED
      BY <2>1, <2>2
  <1>5. TypeOK'
    BY <1>0, <1>3, <1>4 DEF RegistryInv, TypeOK
  <1>6. Untouched(b) /\ \A c \in Backends \ {b} : Untouched(c)
    BY <1>0, <1>3 DEF Untouched
  <1>7. Recorded(b)'
    BY <1>6, UntouchedKeepsExact DEF RegistryInv
  <1>8. HasTools(b, {})'
    BY <1>2, <1>3 DEF Dropped, HasTools
  <1>9. HasOwners(b, {})'
    BY <1>0, <1>2 DEF HasOwners, HasOwnersBut
  <1>10. Dropped(t, b)'
    BY <1>0, <1>2, <1>4, <1>8 DEF Dropped
  <1>11. Stage(t, b)' /\ KindFits(t)'
    BY <1>0, <1>1, <1>2, <1>4, <1>9, <1>10, SpacesOf DEF Stage, KindFits
  <1>12. AtWork(t)'
    BY <1>0, <1>1, <1>11, AtWorkOn
  <1> QED
    BY <1>0, <1>1, <1>4, <1>5, <1>6, <1>7, <1>12, SpacesOf, StepElsewhere

LEMMA RemovedKeepsInv ==
    ASSUME Separate, RegistryInv, NEW t \in Tasks, Removed(t)
    PROVE  RegistryInv'
  <1>0. pc[t] = "restore" /\ EndJob(t) /\ UNCHANGED <<tools, keys, listed, owners, booting, offers, live>>
    BY DEF Removed, history, maps
  <1>1. PICK b \in Backends :
              /\ job[t].backend = b /\ KindFits(t) /\ Stage(t, b)
              /\ \A u \in Tasks \ {t} : job[u].backend # b
    BY <1>0, OwnBackend
  <1>2. Dropped(t, b) /\ HasOwners(b, {})
    BY <1>0, <1>1 DEF Stage
  <1>3. LastKeys(b) = {}
    BY <1>2 DEF LastKeys, Dropped
  <1>4. Exact(b) /\ Recorded(b)
    BY <1>2, <1>3 DEF Exact, Dropped, RegistryInv
  <1>5. Untouched(b) /\ \A c \in Backends \ {b} : Untouched(c)
    BY <1>0 DEF Untouched
  <1>6. Exact(b)' /\ Recorded(b)'
    BY <1>4, <1>5, UntouchedKeepsExact
  <1>7. TypeOK'
    BY <1>0, EndMoves DEF RegistryInv, TypeOK
  <1> QED
    BY <1>0, <1>1, <1>5, <1>6, <1>7, EndMoves, StepElsewhere

-----------------------------------------------------------------------------

LEMMA InitRegistryInv == Init => RegistryInv
  <1> SUFFICES ASSUME Init PROVE RegistryInv
    OBVIOUS
  <1>1. NoJob \in Jobs /\ NoJob.backend = None
    BY DEF NoJob, Jobs, Kinds
  <1>2. NoOwner \in [Owners -> Nat]
    BY DEF NoOwner
  <1>3. TypeOK
    BY <1>1, <1>2 DEF Init, TypeOK, Steps
  <1>4. ASSUME NEW b \in Backends PROVE Recorded(b) /\ Exact(b)
    <2>1. LastKeys(b) = {}
      BY DEF Init, LastKeys
    <2>2. Recorded(b)
      BY <2>1 DEF Init, Recorded
    <2>3. HasTools(b, LastKeys(b))
      BY <2>1, SpacesOf DEF Init, HasTools
    <2>4. HasOwners(b, LastKeys(b))
      BY <2>1, SpacesOf DEF Init, HasOwners, HasOwnersBut, NoOwner
    <2> QED
      BY <2>2, <2>3, <2>4 DEF Exact
  <1>5. Alone
    BY <1>1 DEF Init, Alone
  <1>6. \A t \in Tasks : AtWork(t)
    BY <1>1 DEF Init, AtWork, KindFits, Stage
  <1> QED
    BY <1>3, <1>4, <1>5, <1>6 DEF Init, RegistryInv

LEMMA NextKeepsRegistryInv == Separate /\ RegistryInv /\ [Next]_vars => RegistryInv'
  <1> SUFFICES ASSUME Separate, RegistryInv, [Next]_vars PROVE RegistryInv'
    OBVIOUS
  <1>1. CASE UNCHANGED vars
    <2>1. \A b \in Backends : Untouched(b)
      BY <1>1 DEF vars, maps, history, Untouched
    <2>2. \A u \in Tasks : Waiting(u)
      BY <1>1 DEF vars, Waiting
    <2>3. \A b \in Backends : Recorded(b)' /\ (Settled(b)' => Exact(b)')
      <3>1. \A b \in Backends : Settled(b)' => Settled(b)
        BY <1>1 DEF vars, Settled, Busy
      <3> QED
        BY <2>1, <3>1, UntouchedKeepsExact DEF RegistryInv
    <2>4. \A u \in Tasks : AtWork(u)'
      BY <2>1, <2>2, WaitingStaysAtWork DEF RegistryInv, TypeOK
    <2>5. TypeOK' /\ Alone' /\ DOMAIN todo' = Tasks /\ DOMAIN made' = Tasks
      BY <1>1 DEF vars, maps, history, RegistryInv, TypeOK, Alone
    <2> QED
      BY <2>3, <2>4, <2>5 DEF RegistryInv
  <1>2. ASSUME NEW t \in Tasks, Register(t) PROVE RegistryInv'
    BY <1>2, PurgeOwnerKeepsInv, DropKeepsInv, InsertKeepsInv, OwnKeepsInv, AliasKeepsInv, ListKeepsInv
       DEF Register
  <1>3. ASSUME NEW t \in Tasks, Deregister(t) PROVE RegistryInv'
    BY <1>3, UnlistKeepsInv, DropKeepsInv, DisownKeepsInv, RestoreKeepsInv, RemovedKeepsInv DEF Deregister
  <1>4. ASSUME NEW t \in Tasks, NEW b \in Backends, Call(t, b) PROVE RegistryInv'
    <2>1. ASSUME NEW names \in SUBSET Names, RegisterCached(t, b, names) PROVE RegistryInv'
      BY <2>1, BeginRegisterKeepsInv DEF RegisterCached, RegistryInv, TypeOK
    <2>2. ASSUME NEW names \in SUBSET Names, RegisterLive(t, b, names) PROVE RegistryInv'
      BY <2>2, BeginRegisterKeepsInv DEF RegisterLive
    <2> QED
      BY <1>4, <2>1, <2>2, BeginRemoveKeepsInv DEF Call
  <1> QED
    BY <1>1, <1>2, <1>3, <1>4 DEF Next

LEMMA RegistryInvIsExact == RegistryInv => IndexesExact
  <1> SUFFICES ASSUME RegistryInv PROVE IndexesExact
    OBVIOUS
  <1>1. \A b \in Backends : \A s \in Spaces(b), n \in Names :
           <<s, n>> \in LastKeys(b) <=> Offers(b, n) /\ s = SpaceOf(b)
    BY DEF LastKeys, Offers
  <1>2. NamespacedExact
    <2> SUFFICES ASSUME NEW b \in Backends, Settled(b), NEW s \in Spaces(b), NEW n \in Names
                 PROVE  tools[<<s, n>>] = b <=> Offers(b, n) /\ s = SpaceOf(b)
      BY DEF NamespacedExact
    <2>1. b # None /\ HasTools(b, LastKeys(b))
      BY SpacesOf DEF RegistryInv, Exact
    <2> QED
      BY <1>1, <2>1 DEF HasTools
  <1>3. OwnersExact
    <2> SUFFICES ASSUME NEW b \in Backends, Settled(b), NEW s \in Spaces(b), NEW n \in Names
                 PROVE  owners[n][<<b, s>>] = IF Offers(b, n) /\ s = SpaceOf(b) THEN 1 ELSE 0
      BY DEF OwnersExact
    <2>1. HasOwners(b, LastKeys(b))
      BY DEF RegistryInv, Exact
    <2> QED
      BY <1>1, <2>1 DEF HasOwners, HasOwnersBut
  <1>4. UnwrapHolds
    <2> SUFFICES ASSUME NEW t \in Tasks, pc[t] = "alias", NEW n \in Current(t) PROVE owners[n] # NoOwner
      BY DEF UnwrapHolds
    <2>1. PICK b \in Backends : job[t].backend = b /\ KindFits(t) /\ Stage(t, b)
      BY OwnBackend
    <2>2. /\ HasOwners(b, made[t]) /\ Space(job[t]) \in Spaces(b) /\ n \in Names
          /\ <<Space(job[t]), n>> \in made[t]
      BY <2>1, KeysBeingMade DEF Stage, Made, Current
    <2>3. owners[n][<<b, Space(job[t])>>] = 1 /\ <<b, Space(job[t])>> \in Owners
      BY <2>2, SpacesOf DEF HasOwners, HasOwnersBut
    <2> QED
      BY <2>3 DEF NoOwner
  <1> QED
    BY <1>2, <1>3, <1>4 DEF RegistryInv, IndexesExact

\* While nothing changes a backend, its namespaced keys and its owner counts are those of
\* its last registration, however many operations on other backends run, and the unwrap()
\* finds the owner it has just pushed (register_backend_tools_inner, remove_backend_tools).
THEOREM RegistryIsExact == Separate => (Spec => []IndexesExact)
  <1> SUFFICES ASSUME Separate PROVE Spec => []IndexesExact
    OBVIOUS
  <1>1. RegistryInv /\ [Next]_vars => RegistryInv'
    BY NextKeepsRegistryInv
  <1> QED
    BY <1>1, InitRegistryInv, RegistryInvIsExact, PTL DEF Spec

-----------------------------------------------------------------------------
(* Bare names.                                                               *)

\* One operation at a time, or two backends.
Few == (\A t, u \in Tasks : t = u) \/ (\E b, c \in Backends : Backends \subseteq {b, c})

\* A backend owns a name once, under one namespace.
OwnedOnce ==
    \A n \in Names, o, p \in Owners :
        /\ owners[n][o] \in {0, 1}
        /\ o[1] = p[1] /\ owners[n][o] = 1 /\ owners[n][p] = 1 => o = p

\* There is no alias until the cache is loaded.
CacheComesFirst ==
    /\ \A t \in Tasks : job[t].kind # "none" => (booting <=> job[t].kind = "cached")
    /\ \A t \in Tasks : pc[t] = "alias" => job[t].kind = "live"
    /\ booting => \A n \in Names : tools[Bare(n)] = None

\* An alias that a second owner has put in doubt is about to be looked at.
DoubtIsSeen ==
    \A n \in Names : Crowded(owners[n]) /\ tools[Bare(n)] # None =>
        \E t \in Tasks : pc[t] = "alias" /\ n \in Current(t) /\ Pair(owners[n])

\* What a removal restores is not its own, and with nobody beside it the owner it saw
\* is still the only one.
RestoreFits(t, m) ==
    /\ m[2][1] # job[t].backend
    /\ (\A u \in Tasks : u = t) => m[2] \in Sole(owners[m[1]])
RestoresFit ==
    \A t \in Tasks :
        /\ pc[t] \in {"disown", "restore", "put"} => \A m \in made[t] : RestoreFits(t, m)
        /\ pc[t] = "disown" => \A m \in made[t] : m[1] \notin todo[t]
        /\ pc[t] = "put" => \A m \in todo[t] : RestoreFits(t, m)

BareInv == OwnedOnce /\ CacheComesFirst /\ DoubtIsSeen /\ RestoresFit

LEMMA OwnerShape ==
    ASSUME NEW o \in Owners
    PROVE  o[1] \in Backends /\ o[2] \in Spaces(o[1]) /\ o = <<o[1], o[2]>>
  BY DEF Owners

LEMMA PurgeMoves ==
    ASSUME TypeOK, NEW m \in Names, NEW b \in Backends, owners' = [owners EXCEPT ![m] = Purge(@, b)]
    PROVE  \A n \in Names, o \in Owners :
              owners'[n][o] = IF n = m /\ o[1] = b THEN 0 ELSE owners[n][o]
  BY DEF TypeOK, Purge

LEMMA PushMoves ==
    ASSUME TypeOK, NEW m \in Names, NEW p \in Owners, owners' = [owners EXCEPT ![m] = Push(@, p)]
    PROVE  \A n \in Names, o \in Owners :
              owners'[n][o] = IF n = m /\ o = p THEN owners[n][o] + 1 ELSE owners[n][o]
  <1>1. owners[m] \in [Owners -> Nat]
    BY DEF TypeOK
  <1>2. \A o \in Owners : Push(owners[m], p)[o] = IF o = p THEN owners[m][o] + 1 ELSE owners[m][o]
    BY <1>1 DEF Push
  <1> QED
    BY <1>2 DEF TypeOK

\* The list after a purge is the list, or the list of nobody, unless it was crowded.
LEMMA PurgedIsNotMoreCrowded ==
    ASSUME NEW list \in [Owners -> Nat], NEW b \in Backends, ~Crowded(list)
    PROVE  ~Crowded(Purge(list, b))
  <1>1. CASE list = NoOwner
    <2>1. Purge(list, b) = NoOwner
      BY <1>1 DEF Purge, NoOwner
    <2> QED
      BY <2>1 DEF Crowded
  <1>2. ASSUME NEW o \in Owners, list = Push(NoOwner, o) PROVE ~Crowded(Purge(list, b))
    <2>1. list = [p \in Owners |-> IF p = o THEN 1 ELSE 0]
      BY <1>2 DEF Push, NoOwner
    <2>2. CASE o[1] = b
      <3>1. Purge(list, b) = NoOwner
        BY <2>1, <2>2 DEF Purge, NoOwner
      <3> QED
        BY <3>1 DEF Crowded
    <2>3. CASE o[1] # b
      <3>1. Purge(list, b) = list
        BY <2>1, <2>3 DEF Purge
      <3> QED
        BY <3>1
    <2> QED
      BY <2>2, <2>3
  <1> QED
    BY <1>1, <1>2 DEF Crowded, Sole

Once(list) ==
    \A o, p \in Owners : /\ list[o] \in {0, 1}
                         /\ o[1] = p[1] /\ list[o] = 1 /\ list[p] = 1 => o = p

\* Among two backends, a list without one of them is not crowded, and a crowded one is a pair.
LEMMA OneOfTwoIsNoCrowd ==
    ASSUME NEW list \in [Owners -> Nat], Once(list), NEW b \in Backends,
           \E c, d \in Backends : Backends \subseteq {c, d},
           \A o \in Owners : o[1] = b => list[o] = 0
    PROVE  ~Crowded(list)
  <1> SUFFICES ASSUME list # NoOwner PROVE Sole(list) # {}
    BY DEF Crowded
  <1>1. PICK o \in Owners : list[o] # 0
    BY DEF NoOwner
  <1>2. \A p \in Owners : list[p] = IF p = o THEN 1 ELSE 0
    <2> SUFFICES ASSUME NEW p \in Owners, p # o PROVE list[p] = 0 /\ list[o] = 1
      BY <1>1 DEF Once
    <2>1. list[o] = 1 /\ list[p] \in {0, 1}
      BY <1>1 DEF Once
    <2>2. o[1] # b /\ o[1] \in Backends /\ p[1] \in Backends
      BY <1>1, OwnerShape
    <2>3. p[1] = b \/ p[1] = o[1]
      BY <2>2
    <2> QED
      BY <2>1, <2>3 DEF Once
  <1>3. list = Push(NoOwner, o)
    BY <1>2 DEF Push, NoOwner
  <1> QED
    BY <1>3 DEF Sole

LEMMA CrowdOfTwoIsPair ==
    ASSUME NEW list \in [Owners -> Nat], Once(list), \E c, d \in Backends : Backends \subseteq {c, d},
           Crowded(list)
    PROVE  Pair(list)
  <1>1. PICK o \in Owners : list[o] = 1
    BY DEF Crowded, NoOwner, Once
  <1>2. list # Push(NoOwner, o)
    BY DEF Crowded, Sole
  <1>3. PICK p \in Owners : list[p] = 1 /\ p # o
    BY <1>1, <1>2 DEF Push, NoOwner, Once
  <1>4. o[1] # p[1] /\ o[1] \in Backends /\ p[1] \in Backends
    BY <1>1, <1>3, OwnerShape DEF Once
  <1>5. \A q \in Owners : list[q] = IF q = o \/ q = p THEN 1 ELSE 0
    <2> SUFFICES ASSUME NEW q \in Owners, q # o, q # p PROVE list[q] = 0
      BY <1>1, <1>3
    <2>1. q[1] \in Backends
      BY OwnerShape
    <2>2. q[1] = o[1] \/ q[1] = p[1]
      BY <1>4, <2>1
    <2> QED
      BY <1>1, <1>3, <2>2 DEF Once
  <1>6. list = Push(Push(NoOwner, o), p)
    BY <1>3, <1>5 DEF Push, NoOwner
  <1> QED
    BY <1>6 DEF Pair

-----------------------------------------------------------------------------

Step(t) == Register(t) \/ Deregister(t) \/ \E b \in Backends : Call(t, b)

\* The owners of a name change in three steps, each on one name.
LEMMA OwnersChange ==
    ASSUME RegistryInv, NEW t \in Tasks, Step(t)
    PROVE  \/ UNCHANGED owners
           \/ \E m \in Names, b \in Backends :
                 /\ job[t].backend = b /\ pc[t] \in {"purge", "disown"}
                 /\ owners' = [owners EXCEPT ![m] = Purge(@, b)]
           \/ \E m \in Names, b \in Backends :
                 /\ job[t].backend = b /\ Own(t) /\ pc[t] = "own" /\ m \in Current(t)
                 /\ owners' = [owners EXCEPT ![m] = Push(@, Owner(job[t]))]
                 /\ Owner(job[t]) \in Owners /\ Owner(job[t])[1] = b
                 /\ \A o \in Owners : o[1] = b => owners[m][o] = 0
  <1>1. CASE PurgeOwner(t) \/ Disown(t)
    <2>1. pc[t] \in {"purge", "disown"}
      BY <1>1 DEF PurgeOwner, Disown
    <2>2. PICK b \in Backends : job[t].backend = b /\ Stage(t, b)
      BY <2>1, OwnBackend
    <2>3. todo[t] \subseteq Names
      BY <2>1, <2>2 DEF Stage, Purging, Disowning
    <2>4. \E m \in todo[t] : owners' = [owners EXCEPT ![m] = Purge(@, b)]
      BY <1>1, <2>2 DEF PurgeOwner, Disown
    <2> QED
      BY <1>1, <2>1, <2>2, <2>3, <2>4
  <1>2. CASE Own(t)
    <2>1. pc[t] = "own"
      BY <1>2 DEF Own
    <2>2. PICK b \in Backends : job[t].backend = b /\ KindFits(t) /\ Stage(t, b)
      BY <2>1, OwnBackend
    <2>3. /\ Made(t, b, Space(job[t])) /\ job[t].names \subseteq Names
          /\ Owner(job[t]) = <<b, Space(job[t])>> /\ Owner(job[t]) \in Owners
          /\ HasOwnersBut(b, made[t], todo[t])
      BY <2>1, <2>2, KeysBeingMade DEF Stage
    <2>4. PICK m \in Current(t) : owners' = [owners EXCEPT ![m] = Push(@, Owner(job[t]))]
      BY <1>2 DEF Own
    <2>5. m \in todo[t] /\ m \in Names
      BY <2>3, <2>4 DEF Current, Made
    <2>6. \A o \in Owners : o[1] = b => owners[m][o] = 0
      <3> SUFFICES ASSUME NEW o \in Owners, o[1] = b PROVE owners[m][o] = 0
        OBVIOUS
      <3>1. o[2] \in Spaces(b) /\ o = <<b, o[2]>>
        BY OwnerShape
      <3>2. owners[m][<<b, o[2]>>] = 0
        BY <2>3, <2>5, <3>1 DEF HasOwnersBut
      <3> QED
        BY <3>1, <3>2
    <2>7. Owner(job[t])[1] = b
      BY <2>3
    <2> QED
      BY <1>2, <2>1, <2>2, <2>3, <2>4, <2>5, <2>6, <2>7
  <1>3. CASE ~(PurgeOwner(t) \/ Disown(t)) /\ ~Own(t)
    BY <1>3 DEF Step, Register, Deregister, Call, DropOld, DropRemoved, Drop, Insert, Alias, List, Unlist,
       ReadEntry, PutAlias, Removed, RegisterCached, RegisterLive, BeginRegister, BeginRemove, Begin, maps
  <1> QED
    BY <1>1, <1>2, <1>3

LEMMA StepKeepsOwnedOnce ==
    ASSUME RegistryInv, OwnedOnce, NEW t \in Tasks, Step(t)
    PROVE  OwnedOnce'
  <1>1. CASE UNCHANGED owners
    BY <1>1 DEF OwnedOnce
  <1>2. ASSUME NEW m \in Names, NEW b \in Backends, owners' = [owners EXCEPT ![m] = Purge(@, b)]
        PROVE  OwnedOnce'
    <2>1. \A n \in Names, o \in Owners : owners'[n][o] = IF n = m /\ o[1] = b THEN 0 ELSE owners[n][o]
      BY <1>2, PurgeMoves DEF RegistryInv
    <2> QED
      BY <2>1 DEF OwnedOnce
  <1>3. ASSUME NEW m \in Names, NEW b \in Backends, NEW p \in Owners, p[1] = b,
               owners' = [owners EXCEPT ![m] = Push(@, p)],
               \A o \in Owners : o[1] = b => owners[m][o] = 0
        PROVE  OwnedOnce'
    <2>1. \A n \in Names, o \in Owners :
             owners'[n][o] = IF n = m /\ o = p THEN owners[n][o] + 1 ELSE owners[n][o]
      BY <1>3, PushMoves DEF RegistryInv
    <2>2. \A n \in Names, o \in Owners : owners'[n][o] = IF n = m /\ o = p THEN 1 ELSE owners[n][o]
      BY <1>3, <2>1
    <2> SUFFICES ASSUME NEW n \in Names, NEW o \in Owners, NEW q \in Owners
                 PROVE  /\ owners'[n][o] \in {0, 1}
                        /\ o[1] = q[1] /\ owners'[n][o] = 1 /\ owners'[n][q] = 1 => o = q
      BY DEF OwnedOnce
    <2> QED
      BY <1>3, <2>2 DEF OwnedOnce
  <1> QED
    BY <1>1, <1>2, <1>3, OwnersChange

\* A bare name changes in three steps: it is dropped, looked at, or restored.
LEMMA AliasesChange ==
    ASSUME RegistryInv, NEW t \in Tasks, Step(t)
    PROVE  \/ \A n \in Names : tools'[Bare(n)] \in {tools[Bare(n)], None}
           \/ /\ Alias(t) /\ pc[t] = "alias"
              /\ \A n \in Names : n \notin Current(t) => tools'[Bare(n)] = tools[Bare(n)]
              /\ \A n \in Names \cap Current(t) :
                    \/ Sole(owners[n]) # {} /\ tools'[Bare(n)] = job[t].backend
                    \/ Pair(owners[n]) /\ tools'[Bare(n)] = None
                    \/ Sole(owners[n]) = {} /\ ~Pair(owners[n]) /\ tools'[Bare(n)] = tools[Bare(n)]
           \/ /\ PutAlias(t) /\ pc[t] = "put"
              /\ \E m \in todo[t] : /\ tools'[Bare(m[1])] = m[2][1]
                                    /\ \A n \in Names : n # m[1] => tools'[Bare(n)] = tools[Bare(n)]
  <1>0. /\ tools \in [Keys -> Backends \cup {None}] /\ \A n \in Names : Bare(n) = <<None, n>>
    BY DEF RegistryInv, TypeOK, Bare
  <1>1. CASE DropOld(t) \/ DropRemoved(t)
    <2>1. tools' = tools \/ \E k \in todo[t] : tools' = [tools EXCEPT ![k] = None]
      BY <1>1 DEF DropOld, DropRemoved, Drop
    <2>2. \A n \in Names : Bare(n) \in Keys \/ tools[Bare(n)] = tools[Bare(n)]
      OBVIOUS
    <2>3. \A n \in Names : tools'[Bare(n)] \in {tools[Bare(n)], None}
      <3>1. CASE tools' = tools
        BY <3>1
      <3>2. ASSUME NEW k \in todo[t], tools' = [tools EXCEPT ![k] = None], NEW n \in Names
            PROVE  tools'[Bare(n)] \in {tools[Bare(n)], None}
        <4>1. PICK b \in Backends : job[t].backend = b
          BY <1>1, OwnBackend DEF DropOld, DropRemoved, Drop
        <4>2. Bare(n) \in Keys
          BY SpacesOf
        <4> QED
          BY <1>0, <3>2, <4>2
      <3> QED
        BY <2>1, <3>1, <3>2
    <2> QED
      BY <2>3
  <1>2. CASE Insert(t)
    <2>1. pc[t] = "insert"
      BY <1>2 DEF Insert
    <2>2. PICK b \in Backends : job[t].backend = b /\ KindFits(t) /\ Stage(t, b)
      BY <2>1, OwnBackend
    <2>3. Space(job[t]) # None
      BY <2>1, <2>2, KeysBeingMade, SpacesOf
    <2>4. PICK m \in todo[t] : tools' = [tools EXCEPT ![<<Space(job[t]), m>>] = job[t].backend]
      BY <1>2 DEF Insert
    <2>5. ASSUME NEW n \in Names PROVE tools'[Bare(n)] = tools[Bare(n)]
      <3>1. Bare(n) # <<Space(job[t]), m>> /\ Bare(n) \in Keys
        BY <1>0, <2>2, <2>3, SpacesOf
      <3> QED
        BY <1>0, <2>4, <3>1
    <2> QED
      BY <2>5
  <1>3. CASE Alias(t)
    <2>1. pc[t] = "alias"
      BY <1>3 DEF Alias
    <2>2. PICK b \in Backends : job[t].backend = b /\ KindFits(t) /\ Stage(t, b)
      BY <2>1, OwnBackend
    <2>3. PICK m \in Current(t) :
             \/ Sole(owners[m]) # {} /\ tools' = [tools EXCEPT ![Bare(m)] = job[t].backend]
             \/ Pair(owners[m]) /\ tools' = [tools EXCEPT ![Bare(m)] = None]
             \/ Sole(owners[m]) = {} /\ ~Pair(owners[m]) /\ tools' = tools
      BY <1>3 DEF Alias
    <2>4. Current(t) = {m} /\ m \in Names
      BY <2>1, <2>2, <2>3, KeysBeingMade DEF Stage, Made, Current
    <2>5. \A n \in Names : Bare(n) \in Keys /\ (n # m => Bare(n) # Bare(m))
      <3>1. \A n \in Names : Bare(n) \in Keys
        BY <2>2, SpacesOf
      <3> QED
        BY <2>4, <3>1 DEF Bare
    <2>6. \A n \in Names : n # m => tools'[Bare(n)] = tools[Bare(n)]
      BY <1>0, <2>3, <2>5
    <2>7. \/ Sole(owners[m]) # {} /\ tools'[Bare(m)] = job[t].backend
          \/ Pair(owners[m]) /\ tools'[Bare(m)] = None
          \/ Sole(owners[m]) = {} /\ ~Pair(owners[m]) /\ tools'[Bare(m)] = tools[Bare(m)]
      BY <1>0, <2>3, <2>4, <2>5
    <2> QED
      BY <1>3, <2>1, <2>4, <2>6, <2>7
  <1>4. CASE PutAlias(t)
    <2>1. pc[t] = "put"
      BY <1>4 DEF PutAlias
    <2>2. PICK b \in Backends : job[t].backend = b /\ KindFits(t) /\ Stage(t, b)
      BY <2>1, OwnBackend
    <2>3. PICK m \in todo[t] : tools' = [tools EXCEPT ![Bare(m[1])] = m[2][1]]
      BY <1>4 DEF PutAlias
    <2>4. m[1] \in Names
      BY <2>1, <2>2, <2>3 DEF Stage
    <2>5. \A n \in Names : Bare(n) \in Keys /\ (n # m[1] => Bare(n) # Bare(m[1]))
      BY <1>0, <2>2, <2>4, SpacesOf
    <2>6. /\ tools'[Bare(m[1])] = m[2][1]
          /\ \A n \in Names : n # m[1] => tools'[Bare(n)] = tools[Bare(n)]
      BY <1>0, <2>3, <2>4, <2>5
    <2> QED
      BY <1>4, <2>1, <2>6
  <1>5. CASE ~(DropOld(t) \/ DropRemoved(t)) /\ ~Insert(t) /\ ~Alias(t) /\ ~PutAlias(t)
    <2>1. UNCHANGED tools
      BY <1>5 DEF Step, Register, Deregister, Call, PurgeOwner, Own, Disown, List, Unlist,
         ReadEntry, Removed, RegisterCached, RegisterLive, BeginRegister, BeginRemove, Begin, maps
    <2> QED
      BY <2>1
  <1> QED
    BY <1>1, <1>2, <1>3, <1>4, <1>5

\* What a step does to the jobs and the labels of the tasks.
LEMMA TasksChange ==
    ASSUME RegistryInv, CacheComesFirst, NEW t \in Tasks, Step(t)
    PROVE  /\ \A u \in Tasks \ {t} : Waiting(u)
           /\ \/ /\ booting' = booting
                 /\ job'[t] = job[t] \/ job'[t] = NoJob
                 /\ pc'[t] = "alias" => Own(t) /\ job[t].kind # "cached"
                 /\ pc'[t] = "own" => Insert(t)
              \/ /\ booting /\ booting' /\ job'[t].kind = "cached" /\ pc'[t] \notin {"alias", "own"}
                 /\ UNCHANGED <<tools, owners>>
              \/ /\ ~booting' /\ (\A u \in Tasks : job[u].kind # "cached") /\ job'[t].kind # "cached"
                 /\ pc'[t] \notin {"alias", "own"} /\ UNCHANGED <<tools, owners>>
  <1>1. DOMAIN todo = Tasks /\ DOMAIN made = Tasks /\ DOMAIN pc = Tasks /\ DOMAIN job = Tasks
    BY DEF RegistryInv, TypeOK
  <1> USE <1>1 DEF Goto, Waiting, history, maps
  <1>2. CASE PurgeOwner(t)
    BY <1>2 DEF PurgeOwner
  <1>3. CASE DropOld(t) \/ DropRemoved(t)
    BY <1>3 DEF DropOld, DropRemoved, Drop
  <1>4. CASE Insert(t)
    BY <1>4 DEF Insert
  <1>5. CASE Own(t)
    BY <1>5 DEF Own
  <1>6. CASE Alias(t)
    BY <1>6 DEF Alias
  <1>7. CASE List(t)
    BY <1>7 DEF List, EndJob
  <1>8. CASE Unlist(t)
    BY <1>8 DEF Unlist, EndJob
  <1>9. CASE Disown(t)
    BY <1>9 DEF Disown
  <1>10. CASE ReadEntry(t)
    BY <1>10 DEF ReadEntry
  <1>11. CASE PutAlias(t)
    BY <1>11 DEF PutAlias
  <1>12. CASE Removed(t)
    BY <1>12 DEF Removed, EndJob
  <1>13. ASSUME NEW b \in Backends, NEW names \in SUBSET Names, RegisterCached(t, b, names)
         PROVE  /\ \A u \in Tasks \ {t} : Waiting(u)
                /\ booting /\ booting' /\ job'[t].kind = "cached" /\ pc'[t] \notin {"alias", "own"}
                /\ UNCHANGED <<tools, owners>>
    BY <1>13 DEF RegisterCached, BeginRegister, Begin
  <1>14. ASSUME NEW b \in Backends, NEW names \in SUBSET Names, RegisterLive(t, b, names)
         PROVE  /\ \A u \in Tasks \ {t} : Waiting(u)
                /\ ~booting' /\ (\A u \in Tasks : job[u].kind # "cached") /\ job'[t].kind # "cached"
                /\ pc'[t] \notin {"alias", "own"} /\ UNCHANGED <<tools, owners>>
    BY <1>14 DEF RegisterLive, BeginRegister, Begin
  <1>15. ASSUME NEW b \in Backends, BeginRemove(t, b)
         PROVE  /\ \A u \in Tasks \ {t} : Waiting(u)
                /\ ~booting' /\ (\A u \in Tasks : job[u].kind # "cached") /\ job'[t].kind # "cached"
                /\ pc'[t] \notin {"alias", "own"} /\ UNCHANGED <<tools, owners>>
    BY <1>15 DEF BeginRemove, Begin, CacheComesFirst
  <1>16. CASE Register(t) \/ Deregister(t)
    BY <1>2, <1>3, <1>4, <1>5, <1>6, <1>7, <1>8, <1>9, <1>10, <1>11, <1>12, <1>16 DEF Register, Deregister
  <1>17. CASE \E b \in Backends : Call(t, b)
    BY <1>13, <1>14, <1>15, <1>17 DEF Call
  <1> QED
    BY <1>16, <1>17 DEF Step

LEMMA StepKeepsCacheFirst ==
    ASSUME RegistryInv, CacheComesFirst, NEW t \in Tasks, Step(t)
    PROVE  CacheComesFirst'
  <1>1. NoJob.kind = "none"
    BY DEF NoJob
  <1>2. \A u \in Tasks : job'[u].kind # "none" => (booting' <=> job'[u].kind = "cached")
    BY <1>1, TasksChange DEF CacheComesFirst, Waiting
  <1>3. \A u \in Tasks : pc'[u] = "alias" => job'[u].kind = "live"
    <2>1. \A u \in Tasks \ {t} : pc'[u] = "alias" => job'[u].kind = "live"
      BY TasksChange DEF CacheComesFirst, Waiting
    <2>2. ASSUME pc'[t] = "alias" PROVE job'[t].kind = "live"
      <3>1. Own(t) /\ job[t].kind # "cached"
        BY <2>2, TasksChange
      <3>2. job' = job /\ pc[t] = "own"
        BY <3>1 DEF Own
      <3> QED
        BY <3>1, <3>2 DEF RegistryInv, AtWork, KindFits
    <2> QED
      BY <2>1, <2>2
  <1>4. ASSUME booting' PROVE \A n \in Names : tools'[Bare(n)] = None
    <2>1. booting
      BY <1>4, TasksChange
    <2>2. \A n \in Names : tools[Bare(n)] = None
      BY <2>1 DEF CacheComesFirst
    <2>3. pc[t] # "alias"
      BY <2>1 DEF CacheComesFirst
    <2>4. pc[t] # "put"
      BY <2>1 DEF CacheComesFirst, RegistryInv, AtWork, KindFits
    <2> QED
      BY <2>2, <2>3, <2>4, AliasesChange
  <1> QED
    BY <1>2, <1>3, <1>4 DEF CacheComesFirst

LEMMA StepKeepsRestores ==
    ASSUME RegistryInv, CacheComesFirst, RestoresFit, NEW t \in Tasks, Step(t)
    PROVE  RestoresFit'
  <1> DEFINE Fits(u) ==
                /\ pc[u] \in {"disown", "restore", "put"} => \A m \in made[u] : RestoreFits(u, m)
                /\ pc[u] = "disown" => \A m \in made[u] : m[1] \notin todo[u]
                /\ pc[u] = "put" => \A m \in todo[u] : RestoreFits(u, m)
  <1>1. ASSUME NEW u \in Tasks \ {t} PROVE Fits(u)'
    <2>1. Waiting(u) /\ ~(\A v \in Tasks : v = u)
      BY TasksChange
    <2>2. \A m : RestoreFits(u, m) => RestoreFits(u, m)'
      BY <2>1 DEF RestoreFits, Waiting
    <2>3. Fits(u)
      BY DEF RestoresFit
    <2> QED
      BY <2>1, <2>2, <2>3 DEF Waiting
  <1>2. Fits(t)'
    <2>1. CASE Disown(t)
      <3>1. pc[t] = "disown" /\ job' = job
        BY <2>1 DEF Disown
      <3>2. PICK b \in Backends : job[t].backend = b /\ Stage(t, b)
        BY <3>1, OwnBackend
      <3>3. PICK n \in todo[t] :
               /\ owners' = [owners EXCEPT ![n] = Purge(owners[n], b)]
               /\ made' = [made EXCEPT ![t] = @ \cup
                               IF Crowded(owners[n]) THEN {n} \X Sole(Purge(owners[n], b)) ELSE {}]
               /\ IF todo[t] = {n} THEN Goto(t, "restore", {}) ELSE Goto(t, "disown", todo[t] \ {n})
        BY <2>1, <3>2 DEF Disown
      <3>4. n \in Names /\ made[t] \subseteq Names \X Owners
        BY <3>1, <3>2 DEF Stage, Disowning, Dropped
      <3>5. \/ pc'[t] = "restore" /\ todo'[t] = {}
            \/ pc'[t] = "disown" /\ todo'[t] = todo[t] \ {n}
        BY <3>3, GotoMoves DEF Steps
      <3>6. /\ owners'[n] = Purge(owners[n], b)
            /\ \A x \in Names : x # n => owners'[x] = owners[x]
        BY <3>3, <3>4 DEF RegistryInv, TypeOK
      <3>7. ASSUME NEW m \in made[t] PROVE RestoreFits(t, m)' /\ m[1] \notin todo'[t]
        <4>1. RestoreFits(t, m) /\ m[1] \notin todo[t] /\ m[1] \in Names
          BY <3>1, <3>4 DEF RestoresFit
        <4>2. m[1] # n /\ owners'[m[1]] = owners[m[1]]
          BY <3>6, <4>1
        <4>3. RestoreFits(t, m)'
          BY <3>1, <4>1, <4>2 DEF RestoreFits
        <4> QED
          BY <3>5, <4>1, <4>3
      <3>8. ASSUME NEW o \in Sole(Purge(owners[n], b)) PROVE RestoreFits(t, <<n, o>>)' /\ n \notin todo'[t]
        <4>1. o \in Owners /\ Purge(owners[n], b) = Push(NoOwner, o)
          BY DEF Sole
        <4>2. o[1] # b
          <5>1. Push(NoOwner, o)[o] = 1
            BY <4>1 DEF Push, NoOwner
          <5>2. o[1] = b => Purge(owners[n], b)[o] = 0
            BY <4>1 DEF Purge
          <5> QED
            BY <4>1, <5>1, <5>2
        <4>3. o \in Sole(owners'[n])
          BY <3>6
        <4> QED
          BY <3>1, <3>2, <3>5, <4>2, <4>3 DEF RestoreFits
      <3>9. made'[t] \subseteq made[t] \cup {n} \X Sole(Purge(owners[n], b))
        BY <3>3 DEF RegistryInv
      <3> QED
        BY <3>5, <3>7, <3>8, <3>9
    <2>2. CASE DropRemoved(t)
      <3>1. pc[t] = "drop" /\ made' = made
        BY <2>2 DEF DropRemoved, Drop
      <3>2. PICK b \in Backends : job[t].backend = b /\ Stage(t, b)
        BY <3>1, OwnBackend
      <3>3. made[t] = {}
        BY <3>1, <3>2 DEF Stage, Dropping
      <3>4. pc'[t] \in {"drop", "disown"}
        BY <2>2, GotoMoves DEF DropRemoved, Drop, Steps
      <3> QED
        BY <3>1, <3>3, <3>4
    <2>3. CASE ReadEntry(t) \/ PutAlias(t)
      <3>1. pc[t] \in {"restore", "put"} /\ job' = job /\ owners' = owners
        BY <2>3 DEF ReadEntry, PutAlias, maps
      <3>2. /\ pc'[t] \in {"restore", "put"} /\ made'[t] \subseteq made[t]
            /\ pc'[t] = "put" => todo'[t] \subseteq made[t]
        <4>1. CASE ReadEntry(t)
          <5>1. PICK m \in made[t] :
                    /\ \/ Goto(t, "put", {m})
                       \/ Goto(t, "restore", {})
                    /\ made' = [made EXCEPT ![t] = @ \ {m}]
            BY <4>1 DEF ReadEntry
          <5>2. \/ pc'[t] = "put" /\ todo'[t] = {m}
                \/ pc'[t] = "restore"
            BY <5>1, GotoMoves DEF Steps
          <5>3. made'[t] \subseteq made[t]
            BY <5>1 DEF RegistryInv
          <5> QED
            BY <5>2, <5>3
        <4>2. CASE PutAlias(t)
          BY <4>2, GotoMoves DEF PutAlias, Steps
        <4> QED
          BY <2>3, <4>1, <4>2
      <3>3. \A m \in made[t] : RestoreFits(t, m)
        BY <3>1 DEF RestoresFit
      <3>4. \A m \in made[t] : RestoreFits(t, m)'
        BY <3>1, <3>3 DEF RestoreFits
      <3> QED
        BY <3>2, <3>4
    <2>4. CASE ~Disown(t) /\ ~DropRemoved(t) /\ ~ReadEntry(t) /\ ~PutAlias(t)
      <3>1. pc'[t] \notin {"disown", "restore", "put"}
        <4> USE DEF Steps, EndJob
        <4>1. CASE Register(t)
          <5>1. CASE PurgeOwner(t)
            BY <5>1, GotoMoves DEF PurgeOwner
          <5>2. CASE DropOld(t)
            BY <5>2, GotoMoves DEF DropOld, Drop
          <5>3. CASE Insert(t)
            BY <5>3, GotoMoves DEF Insert
          <5>4. CASE Own(t)
            BY <5>4, GotoMoves DEF Own
          <5>5. CASE Alias(t)
            BY <5>5, GotoMoves DEF Alias
          <5>6. CASE List(t)
            BY <5>6, GotoMoves DEF List
          <5> QED
            BY <4>1, <5>1, <5>2, <5>3, <5>4, <5>5, <5>6 DEF Register
        <4>2. CASE Deregister(t)
          BY <2>4, <4>2, GotoMoves DEF Deregister, Unlist, Removed
        <4>3. CASE \E b \in Backends : Call(t, b)
          BY <4>3, GotoMoves DEF Call, RegisterCached, RegisterLive, BeginRegister, BeginRemove
        <4> QED
          BY <4>1, <4>2, <4>3 DEF Step
      <3> QED
        BY <3>1
    <2> QED
      BY <2>1, <2>2, <2>3, <2>4
  <1> QED
    BY <1>1, <1>2 DEF RestoresFit

\* Nothing that another task has put in doubt leaves its sight.
LEMMA DoubtStaysSeen ==
    ASSUME RegistryInv, BareInv, NEW t \in Tasks, Step(t), pc[t] # "alias", NEW n \in Names,
           Crowded(owners[n]), tools[Bare(n)] # None, owners'[n] = owners[n]
    PROVE  \E u \in Tasks : pc'[u] = "alias" /\ n \in Current(u)' /\ Pair(owners'[n])
  <1>1. PICK u \in Tasks : pc[u] = "alias" /\ n \in Current(u) /\ Pair(owners[n])
    BY DEF BareInv, DoubtIsSeen
  <1>2. Waiting(u)
    BY <1>1, TasksChange DEF BareInv
  <1>3. Current(u)' = Current(u)
    BY <1>2 DEF Waiting, Current, Space
  <1> QED
    BY <1>1, <1>2, <1>3 DEF Waiting

LEMMA AliasStepIsAlias ==
    ASSUME NEW t \in Tasks, Step(t), pc[t] = "alias"
    PROVE  Alias(t)
  BY DEF Step, Register, Deregister, Call, PurgeOwner, DropOld, DropRemoved, Drop, Insert, Own, List, Unlist,
     Disown, ReadEntry, PutAlias, Removed, RegisterCached, RegisterLive, BeginRegister, BeginRemove, Begin

LEMMA AliasKeepsDoubtSeen ==
    ASSUME RegistryInv, BareInv, NEW t \in Tasks, Step(t), pc[t] = "alias"
    PROVE  DoubtIsSeen'
  <1>0. Alias(t) /\ owners' = owners
    BY AliasStepIsAlias DEF Alias
  <1> SUFFICES ASSUME NEW n \in Names, Crowded(owners[n]), tools'[Bare(n)] # None
               PROVE  \E u \in Tasks : pc'[u] = "alias" /\ n \in Current(u)' /\ Pair(owners'[n])
    BY <1>0 DEF DoubtIsSeen
  <1>1. PICK b \in Backends : job[t].backend = b /\ KindFits(t) /\ Stage(t, b)
    BY OwnBackend
  <1>2. PICK m \in Current(t) :
           /\ \/ Sole(owners[m]) # {} /\ tools' = [tools EXCEPT ![Bare(m)] = job[t].backend]
              \/ Pair(owners[m]) /\ tools' = [tools EXCEPT ![Bare(m)] = None]
              \/ Sole(owners[m]) = {} /\ ~Pair(owners[m]) /\ tools' = tools
    BY <1>0 DEF Alias
  <1>3. Current(t) = {m} /\ m \in Names
    BY <1>1, <1>2, KeysBeingMade DEF Stage, Made, Current
  <1>4. Bare(n) \in Keys /\ Bare(m) \in Keys /\ (n # m => Bare(n) # Bare(m))
    <2>1. Bare(n) \in Keys /\ Bare(m) \in Keys
      BY <1>1, <1>3, SpacesOf
    <2> QED
      BY <2>1 DEF Bare
  <1>5. tools \in [Keys -> Backends \cup {None}]
    BY DEF RegistryInv, TypeOK
  <1>6. tools[Bare(n)] # None
    <2>1. CASE n = m
      BY <1>2, <1>4, <1>5, <2>1 DEF Crowded
    <2>2. CASE n # m
      BY <1>2, <1>4, <1>5, <2>2
    <2> QED
      BY <2>1, <2>2
  <1>7. PICK u \in Tasks : pc[u] = "alias" /\ n \in Current(u) /\ Pair(owners[n])
    BY <1>6 DEF BareInv, DoubtIsSeen
  <1>8. u # t
    <2> SUFFICES ASSUME u = t PROVE FALSE
      OBVIOUS
    <2>1. n = m
      BY <1>3, <1>7
    <2>2. Sole(owners[m]) = {} /\ Pair(owners[m])
      BY <1>7, <2>1 DEF Crowded
    <2> QED
      BY <1>2, <1>4, <1>5, <2>1, <2>2
  <1>9. Waiting(u)
    BY <1>8, TasksChange DEF BareInv
  <1>10. Current(u)' = Current(u)
    BY <1>9 DEF Waiting, Current, Space
  <1> QED
    BY <1>0, <1>7, <1>9, <1>10 DEF Waiting

LEMMA StepKeepsDoubtSeen ==
    ASSUME Few, RegistryInv, BareInv, OwnedOnce', NEW t \in Tasks, Step(t)
    PROVE  DoubtIsSeen'
  <1>1. CASE pc[t] = "alias"
    BY <1>1, AliasKeepsDoubtSeen
  <1>2. ASSUME pc[t] # "alias", NEW n \in Names, Crowded(owners'[n]), tools'[Bare(n)] # None
        PROVE  \E u \in Tasks : pc'[u] = "alias" /\ n \in Current(u)' /\ Pair(owners'[n])
    <2>0. /\ owners[n] \in [Owners -> Nat] /\ Once(owners[n]) /\ Once(owners'[n])
          /\ owners \in [Names -> [Owners -> Nat]]
      BY DEF RegistryInv, TypeOK, BareInv, OwnedOnce, Once
    <2>1. CASE pc[t] = "put"
      <3>1. owners' = owners
        BY <2>1, OwnersChange
      <3>2. CASE tools'[Bare(n)] \in {tools[Bare(n)], None}
        BY <1>2, <3>1, <3>2, DoubtStaysSeen
      <3>3. ASSUME NEW m \in todo[t], n = m[1] PROVE FALSE
        <4>1. PICK b \in Backends : job[t].backend = b /\ Stage(t, b)
          BY <2>1, OwnBackend
        <4>2. CASE \A x, y \in Tasks : x = y
          <5>1. m[2] \in Sole(owners[n])
            BY <2>1, <3>3, <4>2 DEF BareInv, RestoresFit, RestoreFits
          <5> QED
            BY <1>2, <3>1, <5>1 DEF Crowded
        <4>3. CASE \E c, d \in Backends : Backends \subseteq {c, d}
          <5>1. \A o \in Owners : o[1] = b => owners[n][o] = 0
            <6>1. HasOwners(b, {})
              BY <2>1, <4>1 DEF Stage
            <6> SUFFICES ASSUME NEW o \in Owners, o[1] = b PROVE owners[n][o] = 0
              OBVIOUS
            <6>2. o[2] \in Spaces(b) /\ o = <<b, o[2]>>
              BY OwnerShape
            <6>3. owners[n][<<b, o[2]>>] = 0
              BY <6>1, <6>2 DEF HasOwners, HasOwnersBut
            <6> QED
              BY <6>2, <6>3
          <5>2. ~Crowded(owners[n])
            BY <2>0, <4>3, <5>1, OneOfTwoIsNoCrowd
          <5> QED
            BY <1>2, <3>1, <5>2
        <4> QED
          BY <4>2, <4>3 DEF Few
      <3>4. \/ tools'[Bare(n)] \in {tools[Bare(n)], None}
            \/ \E m \in todo[t] : n = m[1]
            \/ tools'[Bare(n)] = tools[Bare(n)]
        BY <2>1, AliasesChange
      <3> QED
        BY <3>2, <3>3, <3>4
    <2>2. CASE pc[t] # "put"
      <3>1. tools'[Bare(n)] = tools[Bare(n)] /\ tools[Bare(n)] # None
        BY <1>2, <2>2, AliasesChange
      <3>2. CASE owners'[n] = owners[n]
        BY <1>2, <3>1, <3>2, DoubtStaysSeen
      <3>3. ASSUME NEW b \in Backends, job[t].backend = b, pc[t] \in {"purge", "disown"},
                   owners'[n] = Purge(owners[n], b)
            PROVE  FALSE
        <4>1. CASE \A x, y \in Tasks : x = y
          <5>1. Crowded(owners[n])
            BY <1>2, <2>0, <3>3, PurgedIsNotMoreCrowded
          <5>2. PICK u \in Tasks : pc[u] = "alias"
            BY <3>1, <5>1 DEF BareInv, DoubtIsSeen
          <5> QED
            BY <3>3, <4>1, <5>2
        <4>2. CASE \E c, d \in Backends : Backends \subseteq {c, d}
          <5>1. Purge(owners[n], b) \in [Owners -> Nat]
            BY <2>0 DEF Purge
          <5>2. \A o \in Owners : o[1] = b => Purge(owners[n], b)[o] = 0
            BY DEF Purge
          <5> DEFINE list == Purge(owners[n], b)
          <5>3. Once(list)
            BY <2>0, <3>3
          <5> HIDE DEF list
          <5>4. list \in [Owners -> Nat] /\ \A o \in Owners : o[1] = b => list[o] = 0
            BY <5>1, <5>2 DEF list
          <5>5. ~Crowded(list)
            BY <4>2, <5>3, <5>4, OneOfTwoIsNoCrowd
          <5> QED
            BY <1>2, <3>3, <5>5 DEF list
        <4> QED
          BY <4>1, <4>2 DEF Few
      <3>4. ASSUME Own(t), pc[t] = "own", n \in Current(t), NEW p \in Owners,
                   owners'[n] = Push(owners[n], p)
            PROVE  \E u \in Tasks : pc'[u] = "alias" /\ n \in Current(u)' /\ Pair(owners'[n])
        <4>1. ~booting
          BY <3>1 DEF BareInv, CacheComesFirst
        <4>2. job[t].kind # "cached"
          BY <4>1 DEF BareInv, CacheComesFirst
        <4>3. Goto(t, "alias", todo[t]) /\ job' = job /\ made' = made
          BY <3>4, <4>2 DEF Own
        <4>4. pc'[t] = "alias" /\ n \in Current(t)'
          BY <3>4, <4>3, GotoMoves DEF Steps, Current
        <4>5. Pair(owners'[n])
          <5>1. CASE \A x, y \in Tasks : x = y
            <6>1. CASE owners[n] = NoOwner
              <7>1. p \in Sole(owners'[n])
                BY <3>4, <6>1 DEF Sole
              <7> QED
                BY <1>2, <7>1 DEF Crowded
            <6>2. CASE Sole(owners[n]) # {}
              BY <3>4, <6>2 DEF Sole, Pair
            <6>3. CASE Crowded(owners[n])
              <7>1. PICK u \in Tasks : pc[u] = "alias"
                BY <3>1, <6>3 DEF BareInv, DoubtIsSeen
              <7> QED
                BY <3>4, <5>1, <7>1
            <6> QED
              BY <6>1, <6>2, <6>3 DEF Crowded
          <5>2. CASE \E c, d \in Backends : Backends \subseteq {c, d}
            <6>1. Push(owners[n], p) \in [Owners -> Nat]
              BY <2>0 DEF Push
            <6> DEFINE list == Push(owners[n], p)
            <6>2. Once(list) /\ list \in [Owners -> Nat] /\ Crowded(list)
              BY <1>2, <2>0, <3>4, <6>1
            <6> HIDE DEF list
            <6>3. Pair(list)
              BY <5>2, <6>2, CrowdOfTwoIsPair
            <6> QED
              BY <3>4, <6>3 DEF list
          <5> QED
            BY <5>1, <5>2 DEF Few
        <4> QED
          BY <4>4, <4>5
      <3>5. \/ owners'[n] = owners[n]
            \/ \E b \in Backends : /\ job[t].backend = b /\ pc[t] \in {"purge", "disown"}
                                   /\ owners'[n] = Purge(owners[n], b)
            \/ /\ Own(t) /\ pc[t] = "own" /\ n \in Current(t)
               /\ Owner(job[t]) \in Owners /\ owners'[n] = Push(owners[n], Owner(job[t]))
        BY <2>0, OwnersChange
      <3> QED
        BY <3>2, <3>3, <3>4, <3>5
    <2> QED
      BY <2>1, <2>2
  <1> QED
    BY <1>1, <1>2 DEF DoubtIsSeen

LEMMA InitBareInv == Init => BareInv
  <1> SUFFICES ASSUME Init PROVE BareInv
    OBVIOUS
  <1>1. OwnedOnce
    BY DEF Init, OwnedOnce, NoOwner
  <1>2. \A n \in Names : Bare(n) \in Keys
    BY DEF Keys, Bare
  <1>3. CacheComesFirst
    BY <1>2 DEF Init, CacheComesFirst, NoJob
  <1>4. DoubtIsSeen
    BY <1>2 DEF Init, DoubtIsSeen
  <1>5. RestoresFit
    BY DEF Init, RestoresFit
  <1> QED
    BY <1>1, <1>3, <1>4, <1>5 DEF BareInv

LEMMA NextKeepsBareInv == Few /\ RegistryInv /\ BareInv /\ [Next]_vars => BareInv'
  <1> SUFFICES ASSUME Few, RegistryInv, BareInv, [Next]_vars PROVE BareInv'
    OBVIOUS
  <1>1. CASE UNCHANGED vars
    <2> USE <1>1 DEF vars, maps, history, BareInv
    <2>1. OwnedOnce'
      BY DEF OwnedOnce
    <2>2. CacheComesFirst'
      BY DEF CacheComesFirst
    <2>3. DoubtIsSeen'
      BY DEF DoubtIsSeen, Current, Space
    <2>4. RestoresFit'
      BY DEF RestoresFit, RestoreFits
    <2> QED
      BY <2>1, <2>2, <2>3, <2>4
  <1>2. ASSUME NEW t \in Tasks, Step(t) PROVE BareInv'
    <2>1. OwnedOnce'
      BY <1>2, StepKeepsOwnedOnce DEF BareInv
    <2>2. CacheComesFirst'
      BY <1>2, StepKeepsCacheFirst DEF BareInv
    <2>3. DoubtIsSeen'
      BY <1>2, <2>1, StepKeepsDoubtSeen
    <2>4. RestoresFit'
      BY <1>2, StepKeepsRestores DEF BareInv
    <2> QED
      BY <2>1, <2>2, <2>3, <2>4 DEF BareInv
  <1> QED
    BY <1>1, <1>2 DEF Next, Step

\* With nothing running, nobody is about to look at a name in doubt.
LEMMA QuietIsUnambiguous == RegistryInv /\ BareInv => BareNamesUnambiguous
  <1> SUFFICES ASSUME RegistryInv, BareInv, Quiet, NEW n \in Names, Crowded(owners[n]), tools[Bare(n)] # None
               PROVE  FALSE
    BY DEF BareNamesUnambiguous
  <1>1. PICK t \in Tasks : pc[t] = "alias"
    BY DEF BareInv, DoubtIsSeen
  <1>2. PICK b \in Backends : job[t].backend = b
    BY <1>1, OwnBackend
  <1> QED
    BY <1>2 DEF Quiet, Settled, Busy

LEMMA SoleCounts ==
    ASSUME NEW list, NEW o \in Sole(list)
    PROVE  o \in Owners /\ \A p \in Owners : list[p] = IF p = o THEN 1 ELSE 0
  <1>1. o \in Owners /\ list = Push(NoOwner, o)
    BY DEF Sole
  <1>2. \A p \in Owners : Push(NoOwner, o)[p] = IF p = o THEN 1 ELSE 0
    BY DEF Push, NoOwner
  <1> QED
    BY <1>1, <1>2

LEMMA SettledOwns ==
    ASSUME RegistryInv, NEW b \in Backends, NEW n \in Names, Offers(b, n), Settled(b)
    PROVE  <<b, SpaceOf(b)>> \in Owners /\ owners[n][<<b, SpaceOf(b)>>] = 1
  <1>1. HasOwners(b, LastKeys(b)) /\ SpaceOf(b) \in Spaces(b)
    BY SpacesOf DEF RegistryInv, Exact
  <1>2. <<SpaceOf(b), n>> \in LastKeys(b)
    BY DEF LastKeys, Offers
  <1> QED
    BY <1>1, <1>2, SpacesOf DEF HasOwners, HasOwnersBut

LEMMA StepKeepsRoutes ==
    ASSUME Few, RegistryInv, BareInv, NEW t \in Tasks, Step(t)
    PROVE  KeepsRoutes
  <1> SUFFICES ASSUME NEW n \in Names, NEW b \in Backends,
                      tools[Bare(n)] = b, Offers(b, n), Settled(b), tools'[Bare(n)] \notin {b, None}
               PROVE  FALSE
    BY DEF KeepsRoutes
  <1>1. <<b, SpaceOf(b)>> \in Owners /\ owners[n][<<b, SpaceOf(b)>>] = 1
    BY SettledOwns
  <1>2. CASE pc[t] = "alias" /\ n \in Current(t) /\ Sole(owners[n]) # {}
    <2>1. PICK c \in Backends : job[t].backend = c /\ KindFits(t) /\ Stage(t, c)
      BY <1>2, OwnBackend
    <2>2. /\ HasOwners(c, made[t]) /\ Space(job[t]) \in Spaces(c)
          /\ <<Space(job[t]), n>> \in made[t]
      BY <1>2, <2>1, KeysBeingMade DEF Stage, Made, Current
    <2>3. owners[n][<<c, Space(job[t])>>] = 1 /\ <<c, Space(job[t])>> \in Owners
      BY <2>2, SpacesOf DEF HasOwners, HasOwnersBut
    <2>4. c # b
      BY <2>1 DEF Settled, Busy
    <2>5. PICK o \in Owners : \A p \in Owners : owners[n][p] = IF p = o THEN 1 ELSE 0
      BY <1>2, SoleCounts
    <2>6. <<c, Space(job[t])>> = o /\ <<b, SpaceOf(b)>> = o
      BY <1>1, <2>3, <2>5
    <2> QED
      BY <2>4, <2>6
  <1>3. ASSUME pc[t] = "put", NEW m \in todo[t], n = m[1], tools'[Bare(n)] = m[2][1] PROVE FALSE
    <2>1. PICK c \in Backends : job[t].backend = c /\ Stage(t, c)
      BY <1>3, OwnBackend
    <2>2. m[2] \in Owners /\ m[2][1] \in Backends
      BY <1>3, <2>1, OwnerShape DEF Stage
    <2>3. RestoreFits(t, m)
      BY <1>3 DEF BareInv, RestoresFit
    <2>4. CASE \A x, y \in Tasks : x = y
      <3>1. \A p \in Owners : owners[n][p] = IF p = m[2] THEN 1 ELSE 0
        <4>1. m[2] \in Sole(owners[n])
          BY <1>3, <2>3, <2>4 DEF RestoreFits
        <4> QED
          BY <4>1, SoleCounts
      <3>2. m[2] = <<b, SpaceOf(b)>>
        BY <1>1, <3>1
      <3> QED
        BY <1>3, <3>2
    <2>5. CASE \E c1, d1 \in Backends : Backends \subseteq {c1, d1}
      <3>1. c # b
        BY <2>1 DEF Settled, Busy
      <3>2. m[2][1] # c
        BY <2>1, <2>3 DEF RestoreFits
      <3> QED
        BY <1>3, <2>2, <2>5, <3>1, <3>2
    <2> QED
      BY <2>4, <2>5 DEF Few
  <1> QED
    BY <1>2, <1>3, AliasesChange

\* A bare name that two backends offer does not resolve once nothing runs, and one that a
\* backend still offers is not rerouted to another (registry.rs:173-200, 225-270): with one
\* operation at a time for any number of backends, with any number at once for two.
THEOREM AliasesStayHonest == Separate /\ Few => (Spec => AliasesHonest)
  <1> SUFFICES ASSUME Separate, Few PROVE Spec => AliasesHonest
    OBVIOUS
  <1> DEFINE Inv == RegistryInv /\ BareInv
  <1>1. Init => Inv
    BY InitRegistryInv, InitBareInv
  <1>2. Inv /\ [Next]_vars => Inv'
    BY NextKeepsRegistryInv, NextKeepsBareInv
  <1>3. Inv /\ Inv' /\ [Next]_vars => [KeepsRoutes /\ BareNamesUnambiguous']_vars
    <2> SUFFICES ASSUME Inv, Inv', Next PROVE KeepsRoutes /\ BareNamesUnambiguous'
      OBVIOUS
    <2>1. BareNamesUnambiguous'
      BY QuietIsUnambiguous, PTL
    <2>2. KeepsRoutes
      BY StepKeepsRoutes DEF Next, Step
    <2> QED
      BY <2>1, <2>2
  <1> HIDE DEF Inv
  <1> QED
    BY <1>1, <1>2, <1>3, PTL DEF Spec, AliasesHonest

-----------------------------------------------------------------------------
(***************************************************************************)
(* The search, for any catalog: its fusion sorts by fractions, its         *)
(* corrections fill a table row by row, and the registry may change        *)
(* between two of its steps.                                               *)
(***************************************************************************)

\* What is kept of a list is in it and in the set, at different places, and is all of that.
LEMMA KeptElements ==
  ASSUME NEW list, NEW n \in Nat, DOMAIN list = 1..n, NEW set
  PROVE  LET kept == Kept(list, set) IN
         \E m \in 0..n : /\ DOMAIN kept = 1..m /\ Len(kept) = m
                         /\ \A k \in 1..m : kept[k] \in set /\ \E i \in 1..n : kept[k] = list[i]
                         /\ IsInjective(list) => IsInjective(kept)
                         /\ (\E i \in 1..n : list[i] \in set) => m > 0
  <1> DEFINE P == {i \in DOMAIN list : list[i] \in set}
             at == Sorted(P, <)
             m == Cardinality(P)
             kept == Kept(list, set)
  <1>1. P \in SUBSET (1..n) /\ P \in SUBSET Nat
    OBVIOUS
  <1>2. IsFiniteSet(P) /\ m \in 0..n
    <2>1. IsFiniteSet(1..n) /\ Cardinality(1..n) = n
      <3>1. 0 <= n /\ n - 1 + 1 = n
        OBVIOUS
      <3> QED BY FS_Interval
    <2> HIDE DEF P
    <2>2. IsFiniteSet(P) /\ Cardinality(P) <= Cardinality(1..n)
      BY <1>1, <2>1, FS_Subset, Zenon
    <2>3. Cardinality(P) \in Nat
      BY <2>2, FS_CardinalityType
    <2> QED BY <2>1, <2>2, <2>3
  <1>3. /\ m \in Nat /\ at \in [1..m -> P]
        /\ \A i, j \in 1..m : i < j => at[i] < at[j]
        /\ \A x \in P : \E i \in 1..m : at[i] = x
    <2> HIDE DEF P
    <2> QED BY <1>1, <1>2, FromTheLeft
  <1>4. kept = [k \in 1..m |-> list[at[k]]]
    <2>1. DOMAIN at = 1..m
      BY <1>3
    <2>2. kept = [k \in DOMAIN at |-> list[at[k]]]
      BY Zenon DEF Kept
    <2> QED BY <2>1, <2>2
  <1> HIDE DEF at, m, kept
  <1>5. DOMAIN kept = 1..m /\ Len(kept) = m
    BY <1>2, <1>4
  <1>6. \A k \in 1..m : kept[k] \in set /\ \E i \in 1..n : kept[k] = list[i]
    BY <1>1, <1>3, <1>4
  <1>7. IsInjective(list) => IsInjective(kept)
    <2> SUFFICES ASSUME IsInjective(list), NEW i \in 1..m, NEW j \in 1..m, kept[i] = kept[j]
                 PROVE  i = j
      BY <1>5 DEF IsInjective
    <2>1. list[at[i]] = list[at[j]] /\ at[i] \in DOMAIN list /\ at[j] \in DOMAIN list
      BY <1>3, <1>4
    <2>2. at[i] = at[j] /\ at[i] \in Nat
      BY <1>1, <1>3, <2>1 DEF IsInjective
    <2>3. i \in Int /\ j \in Int /\ ~(i < j) /\ ~(j < i)
      BY <1>3, <2>2
    <2> QED BY <2>3
  <1>8. (\E i \in 1..n : list[i] \in set) => m > 0
    <2> SUFFICES ASSUME NEW i \in 1..n, list[i] \in set PROVE m > 0
      OBVIOUS
    <2>1. i \in P
      OBVIOUS
    <2> HIDE DEF P
    <2> QED BY <1>3, <2>1
  <1> HIDE DEF P
  <1> QED BY <1>2, <1>5, <1>6, <1>7, <1>8 DEF kept

\* Fractions with denominators that are not 0 are ordered by their cross products.
Fraction(x) == x[1] \in Nat /\ x[2] \in Nat \ {0}

LEMMA Scaling ==
  ASSUME NEW a \in Nat, NEW b \in Nat, NEW k \in Nat \ {0}
  PROVE  (a > b => a * k > b * k) /\ (a * k > b * k => a > b)
  OBVIOUS

LEMMA Fractions ==
  ASSUME NEW x, NEW y, NEW z, Fraction(x), Fraction(y), Fraction(z)
  PROVE  /\ ~Above(x, x) /\ ~(Above(x, y) /\ Above(y, x))
         /\ ~Above(y, x) /\ ~Above(z, y) => ~Above(z, x)
         /\ Above(x, y) /\ ~Above(z, y) => Above(x, z)
         /\ ~Above(y, x) /\ Above(y, z) => Above(x, z)
  <1> DEFINE a == x[1]
             b == x[2]
             c == y[1]
             d == y[2]
             e == z[1]
             f == z[2]
  <1>1. /\ a \in Nat /\ c \in Nat /\ e \in Nat
        /\ b \in Nat \ {0} /\ d \in Nat \ {0} /\ f \in Nat \ {0}
    BY DEF Fraction
  <1>2. /\ Above(x, x) <=> a * b > a * b
        /\ Above(x, y) <=> a * d > c * b
        /\ Above(y, x) <=> c * b > a * d
        /\ Above(y, z) <=> c * f > e * d
        /\ Above(z, y) <=> e * d > c * f
        /\ Above(x, z) <=> a * f > e * b
        /\ Above(z, x) <=> e * b > a * f
    BY DEF Above
  <1> HIDE DEF a, b, c, d, e, f
  <1> DEFINE ad == a * d
             cb == c * b
             cf == c * f
             ed == e * d
             af == a * f
             eb == e * b
  <1>3. /\ ad \in Nat /\ cb \in Nat /\ cf \in Nat /\ ed \in Nat /\ af \in Nat /\ eb \in Nat
        /\ a * b \in Nat
    BY <1>1
  <1>4. ad * f = af * d /\ cb * f = cf * b /\ ed * b = eb * d
    BY <1>1
  <1>5. /\ ad * f \in Nat /\ cb * f \in Nat /\ ed * b \in Nat
        /\ (ad > cb <=> ad * f > cb * f)
        /\ (cb > ad <=> cb * f > ad * f)
        /\ (cf > ed <=> cf * b > ed * b)
        /\ (ed > cf <=> ed * b > cf * b)
        /\ (af > eb <=> af * d > eb * d)
        /\ (eb > af <=> eb * d > af * d)
    <2> HIDE DEF ad, cb, cf, ed, af, eb
    <2>1. ad * f \in Nat /\ cb * f \in Nat /\ ed * b \in Nat
      BY <1>1, <1>3
    <2> QED BY <1>1, <1>3, <2>1, Scaling
  <1> DEFINE X == ad * f
             Y == cb * f
             Z == ed * b
  <1>6. /\ X \in Nat /\ Y \in Nat /\ Z \in Nat
        /\ Above(x, y) <=> X > Y
        /\ Above(y, x) <=> Y > X
        /\ Above(y, z) <=> Y > Z
        /\ Above(z, y) <=> Z > Y
        /\ Above(x, z) <=> X > Z
        /\ Above(z, x) <=> Z > X
    <2>1. /\ Above(x, y) <=> ad > cb
          /\ Above(y, x) <=> cb > ad
          /\ Above(y, z) <=> cf > ed
          /\ Above(z, y) <=> ed > cf
          /\ Above(x, z) <=> af > eb
          /\ Above(z, x) <=> eb > af
      BY <1>2
    <2> HIDE DEF ad, cb, cf, ed, af, eb
    <2> QED BY <1>4, <1>5, <2>1
  <1>7. ~Above(x, x)
    <2> DEFINE ab == a * b
    <2>1. ab \in Nat /\ (Above(x, x) <=> ab > ab)
      BY <1>2, <1>3
    <2> HIDE DEF ab
    <2> QED BY <2>1
  <1> HIDE DEF X, Y, Z
  <1> QED BY <1>6, <1>7

LEMMA FiniteList ==
  ASSUME NEW list, NEW n \in Nat, DOMAIN list = 1..n
  PROVE  IsFiniteSet(ToSet(list))
  <1> DEFINE f == [i \in 1..n |-> list[i]]
  <1>1. IsFiniteSet(1..n)
    BY FS_Interval
  <1>2. f \in Surjection(1..n, ToSet(list))
    BY DEF ToSet, Surjection
  <1> QED BY <1>1, <1>2, FS_Surjection

\* What is fused: different names of the two lists, at most as many as asked for, and some if
\* there are any.
LEMMA Shares ==
  ASSUME NEW name, NEW list, NEW n \in Nat, DOMAIN list = 1..n
  PROVE  Fraction(Share(name, list))
  <1>1. CASE \E i \in DOMAIN list : list[i] = name
    <2> DEFINE p == CHOOSE i \in DOMAIN list : list[i] = name
    <2>1. p \in DOMAIN list
      BY <1>1
    <2>2. Share(name, list) = <<1, 60 + p>>
      BY <1>1 DEF Share
    <2> HIDE DEF p
    <2> QED BY <2>1, <2>2 DEF Fraction
  <1>2. CASE ~\E i \in DOMAIN list : list[i] = name
    BY <1>2 DEF Share, Fraction
  <1> QED BY <1>1, <1>2

LEMMA Scores ==
  ASSUME NEW name, NEW text, NEW semantic, NEW n \in Nat, NEW m \in Nat,
         DOMAIN text = 1..n, DOMAIN semantic = 1..m
  PROVE  Fraction(Score(name, text, semantic))
  <1> DEFINE s == Share(name, text)
             r == Share(name, semantic)
  <1>1. Fraction(s) /\ Fraction(r)
    BY Shares
  <1>2. Score(name, text, semantic) = <<s[1] * r[2] + r[1] * s[2], s[2] * r[2]>>
    BY Zenon DEF Score
  <1> HIDE DEF s, r
  <1> DEFINE a == s[1]
             b == s[2]
             c == r[1]
             d == r[2]
  <1>3. a \in Nat /\ b \in Nat \ {0} /\ c \in Nat /\ d \in Nat \ {0}
    BY <1>1 DEF Fraction
  <1>4. Score(name, text, semantic) = <<a * d + c * b, b * d>>
    BY <1>2
  <1> HIDE DEF a, b, c, d
  <1>5. a * d + c * b \in Nat /\ b * d \in Nat \ {0}
    BY <1>3
  <1> QED BY <1>4, <1>5 DEF Fraction

\* The first k of a list of n.
IsCut(cut, k, list, n, limit) ==
  /\ DOMAIN cut = 1..k /\ Len(cut) = k
  /\ k <= limit /\ \A i \in 1..k : cut[i] = list[i]
  /\ IsInjective(list) => IsInjective(cut)
  /\ n > 0 /\ limit > 0 => k > 0

LEMMA CutOf ==
  ASSUME NEW list, NEW n \in Nat, DOMAIN list = 1..n, Len(list) = n, NEW limit \in Nat
  PROVE  \E k \in 0..n : IsCut(Cut(list, limit), k, list, n, limit)
  <1> DEFINE k == IF n <= limit THEN n ELSE limit
             cut == Cut(list, limit)
  <1>1. cut = [i \in 1..k |-> list[i]]
    BY DEF Cut
  <1>2. k \in 0..n /\ k <= limit /\ (n > 0 /\ limit > 0 => k > 0)
    OBVIOUS
  <1> HIDE DEF k, cut
  <1>3. DOMAIN cut = 1..k /\ Len(cut) = k /\ \A i \in 1..k : cut[i] = list[i]
    BY <1>1, <1>2
  <1>4. IsInjective(list) => IsInjective(cut)
    BY <1>2, <1>3 DEF IsInjective
  <1> QED BY <1>2, <1>3, <1>4 DEF cut, IsCut

\* At most `limit` different names of the two lists, and some if there are any.
IsFusion(all, text, semantic, n, limit) ==
  \E k \in 0..limit :
    /\ DOMAIN all = 1..k /\ Len(all) = k /\ IsInjective(all)
    /\ \A i \in 1..k : all[i] \in ToSet(text) \cup ToSet(semantic)
    /\ n > 0 /\ limit > 0 => k > 0

LEMMA Fused ==
  ASSUME NEW text, NEW semantic, NEW n \in Nat, NEW m \in Nat,
         DOMAIN text = 1..n, DOMAIN semantic = 1..m,
         ToSet(text) \cup ToSet(semantic) \subseteq Nat, NEW limit \in Nat
  PROVE  IsFusion(Fuse(text, semantic, limit), text, semantic, n, limit)
  <1> DEFINE S == ToSet(text) \cup ToSet(semantic)
             score == [x \in S |-> Score(x, text, semantic)]
             before(x, y) == Above(score[x], score[y]) \/ (~Above(score[y], score[x]) /\ x < y)
             above == {w \in S \X S : before(w[1], w[2])}
             s == Sorted(S, before)
             N == Cardinality(S)
  <1>1. \A x \in S : Fraction(score[x]) /\ x \in Nat
    BY Scores
  <1>2. IsFiniteSet(S)
    <2>1. IsFiniteSet(ToSet(text)) /\ IsFiniteSet(ToSet(semantic))
      BY FiniteList
    <2> QED BY <2>1, FS_Union
  <1>3. Fuse(text, semantic, limit) = Cut(s, limit)
    <2>1. DOMAIN score = S
      OBVIOUS
    <2> QED BY <2>1, Zenon DEF Fuse
  <1> HIDE DEF score, S
  <1>4. \A x, y \in S : <<x, y>> \in above <=> before(x, y)
    OBVIOUS
  <1>5. IsOrder(above, S)
    <2>1. \A x \in S : <<x, x>> \notin above
      <3> SUFFICES ASSUME NEW x \in S PROVE ~before(x, x)
        BY <1>4
      <3>1. ~Above(score[x], score[x])
        BY <1>1, Fractions
      <3> QED BY <1>1, <3>1
    <2>2. ASSUME NEW x \in S, NEW y \in S, x # y PROVE <<x, y>> \in above \/ <<y, x>> \in above
      <3>1. x < y \/ y < x
        BY <1>1, <2>2
      <3> QED BY <1>4, <3>1
    <2>3. ASSUME NEW x \in S, NEW y \in S, NEW z \in S, before(x, y), before(y, z)
          PROVE  before(x, z)
      <3> DEFINE a == score[x]
                 b == score[y]
                 c == score[z]
      <3>1. Fraction(a) /\ Fraction(b) /\ Fraction(c)
        BY <1>1
      <3>2. x < y /\ y < z => x < z
        BY <1>1
      <3> HIDE DEF a, b, c
      <3>3. /\ ~(Above(a, b) /\ Above(b, a)) /\ ~(Above(b, c) /\ Above(c, b))
            /\ ~Above(b, a) /\ ~Above(c, b) => ~Above(c, a)
            /\ Above(a, b) /\ ~Above(c, b) => Above(a, c)
            /\ ~Above(b, a) /\ Above(b, c) => Above(a, c)
        BY <3>1, Fractions
      <3>4. /\ Above(a, b) \/ (~Above(b, a) /\ x < y)
            /\ Above(b, c) \/ (~Above(c, b) /\ y < z)
        BY <2>3 DEF a, b, c
      <3>5. Above(a, c) \/ (~Above(c, a) /\ x < z)
        BY <3>2, <3>3, <3>4
      <3> QED BY <3>5 DEF a, b, c
    <2> HIDE DEF above, before
    <2> QED BY <1>4, <2>1, <2>2, <2>3 DEF IsOrder
  <1>6. PICK t : Enumerates(t, above, S)
    <2> HIDE DEF above
    <2> QED BY <1>2, <1>5, Sortable
  <1>7. \A r : Enumerates(r, above, S) <=>
          r \in [1..N -> S] /\ \A i, j \in 1..N : i < j => before(r[i], r[j])
    <2>1. \A r \in [1..N -> S] : \A i, j \in 1..N :
            <<r[i], r[j]>> \in above <=> before(r[i], r[j])
      <3> SUFFICES ASSUME NEW r \in [1..N -> S], NEW i \in 1..N, NEW j \in 1..N
                   PROVE  <<r[i], r[j]>> \in above <=> before(r[i], r[j])
        OBVIOUS
      <3>1. r[i] \in S /\ r[j] \in S
        OBVIOUS
      <3> HIDE DEF above, before
      <3> QED BY <1>4, <3>1
    <2> HIDE DEF above, before
    <2> QED BY <2>1 DEF Enumerates
  <1>8. Enumerates(s, above, S)
    <2>1. \E r \in [1..N -> S] : \A i, j \in 1..N : i < j => before(r[i], r[j])
      <3> HIDE DEF above, before
      <3> QED BY <1>6, <1>7
    <2>2. s \in [1..N -> S] /\ \A i, j \in 1..N : i < j => before(s[i], s[j])
      <3> HIDE DEF before
      <3> QED BY <2>1, Zenon DEF Sorted
    <2> HIDE DEF above, before, s
    <2> QED BY <1>7, <2>2
  <1> HIDE DEF above, before, s
  <1>9. /\ N \in Nat /\ s \in [1..N -> S] /\ IsInjective(s)
        /\ \A x \in S : \E i \in 1..N : s[i] = x
    <2>1. /\ N \in Nat /\ s \in [1..N -> S]
          /\ \A i, j \in 1..N : s[i] = s[j] => i = j
          /\ \A x \in S : \E i \in 1..N : s[i] = x
      BY <1>2, <1>5, <1>8, Enumeration
    <2> QED BY <2>1 DEF IsInjective
  <1>10. n > 0 => N > 0
    <2> SUFFICES ASSUME n > 0 PROVE N > 0
      OBVIOUS
    <2>1. text[1] \in S
      BY DEF S, ToSet
    <2> QED BY <1>9, <2>1
  <1> HIDE DEF N
  <1>11. DOMAIN s = 1..N /\ Len(s) = N
    BY <1>9
  <1>12. PICK k \in 0..N : IsCut(Cut(s, limit), k, s, N, limit)
    <2>1. N \in Nat
      BY <1>9
    <2>2. \E k \in 0..N : IsCut(Cut(s, limit), k, s, N, limit)
      BY <1>11, <2>1, CutOf
    <2> QED BY <2>2
  <1>13. \A i \in 1..k : Cut(s, limit)[i] \in S
    BY <1>9, <1>12 DEF IsCut
  <1>14. k \in 0..limit /\ (n > 0 /\ limit > 0 => k > 0)
    BY <1>9, <1>10, <1>12 DEF IsCut
  <1> DEFINE all == Cut(s, limit)
  <1>15. DOMAIN all = 1..k /\ Len(all) = k /\ IsInjective(all)
    BY <1>9, <1>12 DEF IsCut
  <1>16. \A i \in 1..k : all[i] \in ToSet(text) \cup ToSet(semantic)
    BY <1>13 DEF S
  <1> HIDE DEF all
  <1>17. IsFusion(all, text, semantic, n, limit)
    BY <1>14, <1>15, <1>16 DEF IsFusion
  <1> QED BY <1>3, <1>17 DEF all

-----------------------------------------------------------------------------
(* A word of i letters becomes one of j letters with k edits.              *)
Changed(a, b, f, i) == {x \in 1..i : f[x] = 0 \/ a[x] # b[f[x]]}
Added(f, j) == (1..j) \ Range(f)
Cost(a, b, f, i, j) == Cardinality(Changed(a, b, f, i)) + Cardinality(Added(f, j))
Reaches(a, b, i, j, k) == \E f \in Alignments(i, j) : k = Cost(a, b, f, i, j)
Needs(a, b, i, j, k) == \A f \in Alignments(i, j) : k <= Cost(a, b, f, i, j)

LEMMA EditsFit ==
  ASSUME NEW a, NEW b, NEW f, NEW i \in Nat, NEW j \in Nat
  PROVE  /\ IsFiniteSet(Changed(a, b, f, i)) /\ Cardinality(Changed(a, b, f, i)) \in Nat
         /\ IsFiniteSet(Added(f, j)) /\ Cardinality(Added(f, j)) \in Nat
  <1> DEFINE S == Changed(a, b, f, i)
             T == Added(f, j)
  <1>1. IsFiniteSet(1..i) /\ IsFiniteSet(1..j)
    BY FS_Interval
  <1>2. S \in SUBSET (1..i) /\ T \in SUBSET (1..j)
    BY DEF Changed, Added
  <1> HIDE DEF S, T
  <1>3. IsFiniteSet(S) /\ IsFiniteSet(T)
    BY <1>1, <1>2, FS_Subset
  <1>4. Cardinality(S) \in Nat /\ Cardinality(T) \in Nat
    BY <1>3, FS_CardinalityType
  <1> QED BY <1>3, <1>4 DEF S, T

LEMMA EditsStart ==
  ASSUME NEW a, NEW b, NEW j \in Nat
  PROVE  Reaches(a, b, 0, j, j)
  <1> DEFINE f == [x \in 1..0 |-> 0]
  <1>1. f \in Alignments(0, j)
    BY DEF Alignments
  <1>2. Changed(a, b, f, 0) = {} /\ Range(f) = {}
    BY DEF Changed, Range
  <1>3. Added(f, j) = 1..j
    BY <1>2 DEF Added
  <1>4. Cardinality({}) = 0 /\ Cardinality(1..j) = j
    BY FS_EmptySet, FS_Interval
  <1>5. j = Cardinality(Changed(a, b, f, 0)) + Cardinality(Added(f, j))
    BY <1>2, <1>3, <1>4
  <1> QED BY <1>1, <1>5 DEF Reaches, Cost

\* A letter more that stands for none.
LEMMA EditsDelete ==
  ASSUME NEW a, NEW b, NEW i \in Nat \ {0}, NEW j \in Nat, NEW k, Reaches(a, b, i - 1, j, k)
  PROVE  Reaches(a, b, i, j, k + 1)
  <1>1. PICK f \in Alignments(i - 1, j) :
          k = Cardinality(Changed(a, b, f, i - 1)) + Cardinality(Added(f, j))
    BY DEF Reaches, Cost
  <1> DEFINE g == [x \in 1..i |-> IF x = i THEN 0 ELSE f[x]]
             S == Changed(a, b, f, i - 1)
             T == Added(f, j)
  <1>2. f \in [1..(i - 1) -> 0..j]
    BY DEF Alignments
  <1>3. g \in Alignments(i, j)
    <2>1. g \in [1..i -> 0..j]
      BY <1>2
    <2>2. \A x, y \in 1..i : x < y /\ g[y] # 0 => g[x] < g[y]
      BY DEF Alignments
    <2> HIDE DEF g
    <2> QED BY <2>1, <2>2 DEF Alignments
  <1>4. Changed(a, b, g, i) = S \cup {i} /\ i \notin S
    BY DEF Changed
  <1>5. Added(g, j) = T
    <2>1. DOMAIN f = 1..(i - 1) /\ DOMAIN g = 1..i
      BY <1>2
    <2>2. \A y \in 1..j : y \in Range(g) <=> y \in Range(f)
      BY <2>1 DEF Range
    <2> QED BY <2>2 DEF Added
  <1> HIDE DEF S, T, g
  <1>6. IsFiniteSet(S) /\ Cardinality(S) \in Nat /\ Cardinality(T) \in Nat
    <2>1. i - 1 \in Nat
      OBVIOUS
    <2> QED BY <2>1, EditsFit DEF S, T
  <1>7. Cardinality(S \cup {i}) = Cardinality(S) + 1
    BY <1>4, <1>6, FS_AddElement
  <1>8. k + 1 = Cardinality(Changed(a, b, g, i)) + Cardinality(Added(g, j))
    BY <1>1, <1>4, <1>5, <1>6, <1>7 DEF S, T
  <1> QED BY <1>3, <1>8 DEF Reaches, Cost

\* A letter more for which none stands.
LEMMA EditsInsert ==
  ASSUME NEW a, NEW b, NEW i \in Nat, NEW j \in Nat \ {0}, NEW k, Reaches(a, b, i, j - 1, k)
  PROVE  Reaches(a, b, i, j, k + 1)
  <1>1. PICK f \in Alignments(i, j - 1) :
          k = Cardinality(Changed(a, b, f, i)) + Cardinality(Added(f, j - 1))
    BY DEF Reaches, Cost
  <1> DEFINE S == Changed(a, b, f, i)
             T == Added(f, j - 1)
  <1>2. f \in [1..i -> 0..(j - 1)]
    BY DEF Alignments
  <1>3. f \in Alignments(i, j)
    <2>1. f \in [1..i -> 0..j]
      BY <1>2
    <2> QED BY <2>1 DEF Alignments
  <1>4. Added(f, j) = T \cup {j} /\ j \notin T
    <2>1. j \notin Range(f)
      BY <1>2 DEF Range
    <2> QED BY <2>1 DEF Added
  <1> HIDE DEF S, T
  <1>5. IsFiniteSet(T) /\ Cardinality(S) \in Nat /\ Cardinality(T) \in Nat
    <2>1. j - 1 \in Nat
      OBVIOUS
    <2> QED BY <2>1, EditsFit DEF S, T
  <1>6. Cardinality(T \cup {j}) = Cardinality(T) + 1
    BY <1>4, <1>5, FS_AddElement
  <1>7. k + 1 = Cardinality(Changed(a, b, f, i)) + Cardinality(Added(f, j))
    BY <1>1, <1>4, <1>5, <1>6 DEF S, T
  <1> QED BY <1>3, <1>7 DEF Reaches, Cost

\* A letter more in each, the one for the other.
LEMMA EditsMatch ==
  ASSUME NEW a, NEW b, NEW i \in Nat \ {0}, NEW j \in Nat \ {0}, NEW k,
         Reaches(a, b, i - 1, j - 1, k)
  PROVE  Reaches(a, b, i, j, k + (IF a[i] = b[j] THEN 0 ELSE 1))
  <1>1. PICK f \in Alignments(i - 1, j - 1) :
          k = Cardinality(Changed(a, b, f, i - 1)) + Cardinality(Added(f, j - 1))
    BY DEF Reaches, Cost
  <1> DEFINE g == [x \in 1..i |-> IF x = i THEN j ELSE f[x]]
             S == Changed(a, b, f, i - 1)
             T == Added(f, j - 1)
             cost == IF a[i] = b[j] THEN 0 ELSE 1
  <1>2. f \in [1..(i - 1) -> 0..(j - 1)]
    BY DEF Alignments
  <1>3. g \in Alignments(i, j)
    <2>1. g \in [1..i -> 0..j]
      BY <1>2
    <2>2. ASSUME NEW x \in 1..i, NEW y \in 1..i, x < y, g[y] # 0 PROVE g[x] < g[y]
      <3>1. x \in 1..(i - 1) /\ g[x] = f[x] /\ f[x] \in 0..(j - 1)
        BY <1>2, <2>2
      <3>2. CASE y = i
        <4>1. g[y] = j
          BY <3>2
        <4> QED BY <3>1, <4>1
      <3>3. CASE y # i
        <4>1. y \in 1..(i - 1) /\ g[y] = f[y]
          BY <3>3
        <4> QED BY <2>2, <3>1, <4>1 DEF Alignments
      <3> QED BY <3>2, <3>3
    <2> HIDE DEF g
    <2> QED BY <2>1, <2>2 DEF Alignments
  <1>4. /\ i \notin S
        /\ Changed(a, b, g, i) = IF a[i] = b[j] THEN S ELSE S \cup {i}
    BY DEF Changed
  <1>5. Added(g, j) = T
    <2>1. DOMAIN f = 1..(i - 1) /\ DOMAIN g = 1..i
      BY <1>2
    <2>2. j \in Range(g)
      BY <2>1 DEF Range
    <2>3. \A y \in 1..(j - 1) : y \in Range(g) <=> y \in Range(f)
      BY <2>1 DEF Range
    <2> HIDE DEF g
    <2> QED BY <2>2, <2>3 DEF Added
  <1> HIDE DEF S, T, g
  <1>6. IsFiniteSet(S) /\ Cardinality(S) \in Nat /\ Cardinality(T) \in Nat
    <2>1. i - 1 \in Nat /\ j - 1 \in Nat
      OBVIOUS
    <2> QED BY <2>1, EditsFit DEF S, T
  <1>7. Cardinality(S \cup {i}) = Cardinality(S) + 1
    BY <1>4, <1>6, FS_AddElement
  <1>8. k + cost = Cardinality(Changed(a, b, g, i)) + Cardinality(Added(g, j))
    BY <1>1, <1>4, <1>5, <1>6, <1>7 DEF S, T
  <1> QED BY <1>3, <1>8 DEF Reaches, Cost

\* What a word of i letters needs at least, from shorter words.
LEMMA NeedsStart ==
  ASSUME NEW a, NEW b, NEW j \in Nat
  PROVE  Needs(a, b, 0, j, j)
  <1> SUFFICES ASSUME NEW f \in Alignments(0, j) PROVE Cost(a, b, f, 0, j) = j
    BY DEF Needs
  <1>1. Changed(a, b, f, 0) = {} /\ Range(f) = {}
    BY DEF Changed, Range, Alignments
  <1>2. Added(f, j) = 1..j
    BY <1>1 DEF Added
  <1>3. Cardinality({}) = 0 /\ Cardinality(1..j) = j
    BY FS_EmptySet, FS_Interval
  <1>4. Cost(a, b, f, 0, j) = Cardinality({}) + Cardinality(1..j)
    BY <1>1, <1>2, Zenon DEF Cost
  <1> QED BY <1>3, <1>4

\* A cost is that of some alignment of i letters with j, and one more edit or none.
After(a, b, cost, i, j, edit) ==
  \E g \in Alignments(i, j) : Cost(a, b, g, i, j) \in Nat /\ cost = Cost(a, b, g, i, j) + edit

\* The last letter of the first word stands for none.
LEMMA CostDelete ==
  ASSUME NEW a, NEW b, NEW i \in Nat \ {0}, NEW j \in Nat, NEW f \in Alignments(i, j), f[i] = 0
  PROVE  After(a, b, Cost(a, b, f, i, j), i - 1, j, 1)
  <1> DEFINE g == [x \in 1..(i - 1) |-> f[x]]
             S == Changed(a, b, g, i - 1)
             T == Added(g, j)
  <1>1. f \in [1..i -> 0..j]
    BY DEF Alignments
  <1>2. g \in Alignments(i - 1, j)
    <2>1. g \in [1..(i - 1) -> 0..j]
      BY <1>1
    <2>2. \A x, y \in 1..(i - 1) : x < y /\ g[y] # 0 => g[x] < g[y]
      BY DEF Alignments
    <2> HIDE DEF g
    <2> QED BY <2>1, <2>2 DEF Alignments
  <1>3. Changed(a, b, f, i) = S \cup {i} /\ i \notin S
    BY DEF Changed
  <1>4. Added(f, j) = T
    <2>1. DOMAIN f = 1..i /\ DOMAIN g = 1..(i - 1)
      BY <1>1
    <2>2. \A y \in 1..j : y \in Range(f) <=> y \in Range(g)
      BY <2>1 DEF Range
    <2> HIDE DEF g
    <2> QED BY <2>2 DEF Added
  <1> HIDE DEF S, T, g
  <1>5. IsFiniteSet(S) /\ Cardinality(S) \in Nat /\ Cardinality(T) \in Nat
    <2>1. i - 1 \in Nat
      OBVIOUS
    <2> QED BY <2>1, EditsFit DEF S, T
  <1>6. Cardinality(S \cup {i}) = Cardinality(S) + 1
    BY <1>3, <1>5, FS_AddElement
  <1>7. Cost(a, b, g, i - 1, j) = Cardinality(S) + Cardinality(T)
    BY DEF Cost, S, T
  <1>8. Cost(a, b, f, i, j) = Cardinality(S) + 1 + Cardinality(T)
    BY <1>3, <1>4, <1>6 DEF Cost
  <1> QED BY <1>2, <1>5, <1>7, <1>8 DEF After

\* No letter of the first word stands for the last one of the second.
LEMMA CostInsert ==
  ASSUME NEW a, NEW b, NEW i \in Nat, NEW j \in Nat \ {0}, NEW f \in Alignments(i, j),
         i = 0 \/ f[i] \in 1..(j - 1)
  PROVE  After(a, b, Cost(a, b, f, i, j), i, j - 1, 1)
  <1> DEFINE S == Changed(a, b, f, i)
             T == Added(f, j - 1)
  <1>1. f \in [1..i -> 0..j]
    BY DEF Alignments
  <1>2. \A x \in 1..i : f[x] \in 0..(j - 1)
    <2> SUFFICES ASSUME NEW x \in 1..i PROVE f[x] \in 0..(j - 1)
      OBVIOUS
    <2>1. x = i \/ (x < i /\ i \in 1..i /\ f[i] # 0 /\ f[i] \in 1..(j - 1))
      OBVIOUS
    <2>2. x < i => f[x] < f[i]
      BY <2>1 DEF Alignments
    <2>3. f[x] \in 0..j /\ i # 0
      BY <1>1
    <2> QED BY <2>1, <2>2, <2>3
  <1>3. f \in Alignments(i, j - 1)
    <2>1. f \in [1..i -> 0..(j - 1)]
      BY <1>1, <1>2
    <2> QED BY <2>1 DEF Alignments
  <1>4. Added(f, j) = T \cup {j} /\ j \notin T
    <2>1. j \notin Range(f)
      BY <1>1, <1>2 DEF Range
    <2> QED BY <2>1 DEF Added
  <1> HIDE DEF S, T
  <1>5. IsFiniteSet(T) /\ Cardinality(S) \in Nat /\ Cardinality(T) \in Nat
    <2>1. j - 1 \in Nat
      OBVIOUS
    <2> QED BY <2>1, EditsFit DEF S, T
  <1>6. Cardinality(T \cup {j}) = Cardinality(T) + 1
    BY <1>4, <1>5, FS_AddElement
  <1>7. Cost(a, b, f, i, j - 1) = Cardinality(S) + Cardinality(T)
    BY DEF Cost, S, T
  <1>8. Cost(a, b, f, i, j) = Cardinality(S) + (Cardinality(T) + 1)
    BY <1>4, <1>6 DEF Cost, S
  <1> QED BY <1>3, <1>5, <1>7, <1>8 DEF After

\* The last letters stand for each other.
LEMMA CostMatch ==
  ASSUME NEW a, NEW b, NEW i \in Nat \ {0}, NEW j \in Nat \ {0}, NEW f \in Alignments(i, j), f[i] = j
  PROVE  After(a, b, Cost(a, b, f, i, j), i - 1, j - 1, IF a[i] = b[j] THEN 0 ELSE 1)
  <1> DEFINE g == [x \in 1..(i - 1) |-> f[x]]
             S == Changed(a, b, g, i - 1)
             T == Added(g, j - 1)
             cost == IF a[i] = b[j] THEN 0 ELSE 1
  <1>1. f \in [1..i -> 0..j]
    BY DEF Alignments
  <1>2. g \in Alignments(i - 1, j - 1)
    <2>1. \A x \in 1..(i - 1) : f[x] \in 0..j /\ f[x] < j
      BY <1>1 DEF Alignments
    <2>2. g \in [1..(i - 1) -> 0..(j - 1)]
      BY <2>1
    <2>3. \A x, y \in 1..(i - 1) : x < y /\ g[y] # 0 => g[x] < g[y]
      BY DEF Alignments
    <2> HIDE DEF g
    <2> QED BY <2>2, <2>3 DEF Alignments
  <1>3. /\ i \notin S
        /\ Changed(a, b, f, i) = IF a[i] = b[j] THEN S ELSE S \cup {i}
    BY DEF Changed
  <1>4. Added(f, j) = T
    <2>1. DOMAIN f = 1..i /\ DOMAIN g = 1..(i - 1)
      BY <1>1
    <2>2. j \in Range(f)
      BY <2>1 DEF Range
    <2>3. \A y \in 1..(j - 1) : y \in Range(f) <=> y \in Range(g)
      BY <2>1 DEF Range
    <2> HIDE DEF g
    <2> QED BY <2>2, <2>3 DEF Added
  <1> HIDE DEF S, T, g
  <1>5. IsFiniteSet(S) /\ Cardinality(S) \in Nat /\ Cardinality(T) \in Nat
    <2>1. i - 1 \in Nat /\ j - 1 \in Nat
      OBVIOUS
    <2> QED BY <2>1, EditsFit DEF S, T
  <1>6. Cardinality(S \cup {i}) = Cardinality(S) + 1
    BY <1>3, <1>5, FS_AddElement
  <1>7. Cost(a, b, g, i - 1, j - 1) = Cardinality(S) + Cardinality(T)
    BY DEF Cost, S, T
  <1>8. Cost(a, b, f, i, j) = Cardinality(Changed(a, b, f, i)) + Cardinality(T)
    BY <1>4 DEF Cost
  <1>9. Cardinality(Changed(a, b, f, i)) = Cardinality(S) + cost
    BY <1>3, <1>5, <1>6
  <1>10. Cost(a, b, f, i, j) = Cost(a, b, g, i - 1, j - 1) + cost
    BY <1>5, <1>7, <1>8, <1>9
  <1> HIDE DEF cost
  <1>11. After(a, b, Cost(a, b, f, i, j), i - 1, j - 1, cost)
    BY <1>2, <1>5, <1>7, <1>10 DEF After
  <1> QED BY <1>11 DEF cost

LEMMA Least ==
  ASSUME NEW x \in Nat, NEW y \in Nat, NEW z \in Nat
  PROVE  LET least == LeastOf3(x, y, z)
         IN  least \in {x, y, z} /\ least <= x /\ least <= y /\ least <= z
  <1>1. \E m \in {x, y, z} : m <= x /\ m <= y /\ m <= z
    <2>1. CASE x <= y /\ x <= z
      BY <2>1
    <2>2. CASE y <= x /\ y <= z
      BY <2>2
    <2>3. CASE z <= x /\ z <= y
      BY <2>3
    <2> QED BY <2>1, <2>2, <2>3
  <1> QED BY <1>1 DEF LeastOf3

\* What the table has for i letters of one word and j of the other: the least number of
\* edits, which is at least the difference of the lengths, and 0 for the same letters only.
Needed(a, b, i, j, k) ==
  /\ k \in Nat /\ k >= i - j /\ k >= j - i
  /\ k = 0 => \A x \in 1..i : a[x] = b[x]
  /\ Reaches(a, b, i, j, k) /\ Needs(a, b, i, j, k)

LEMMA ExactStart ==
  ASSUME NEW a, NEW b, NEW j \in Nat
  PROVE  Needed(a, b, 0, j, j)
  BY EditsStart, NeedsStart DEF Needed

LEMMA ExactFirst ==
  ASSUME NEW a, NEW b, NEW i \in Nat \ {0}, NEW j \in Nat, j = 0, NEW k, Needed(a, b, i - 1, j, k)
  PROVE  Needed(a, b, i, j, k + 1)
  <1>1. k \in Nat /\ k >= i - 1 - j /\ Reaches(a, b, i - 1, j, k) /\ Needs(a, b, i - 1, j, k)
    BY DEF Needed
  <1>2. Reaches(a, b, i, j, k + 1)
    BY <1>1, EditsDelete
  <1>3. Needs(a, b, i, j, k + 1)
    <2> SUFFICES ASSUME NEW f \in Alignments(i, j) PROVE k + 1 <= Cost(a, b, f, i, j)
      BY DEF Needs
    <2>1. f[i] = 0
      BY DEF Alignments
    <2>0. After(a, b, Cost(a, b, f, i, j), i - 1, j, 1)
      BY <2>1, CostDelete
    <2>2. PICK g \in Alignments(i - 1, j) : /\ Cost(a, b, g, i - 1, j) \in Nat
                                            /\ Cost(a, b, f, i, j) = Cost(a, b, g, i - 1, j) + 1
      BY <2>0 DEF After
    <2>3. k <= Cost(a, b, g, i - 1, j)
      BY <1>1 DEF Needs
    <2> QED BY <1>1, <2>2, <2>3
  <1>4. k + 1 >= i - j /\ k + 1 >= j - i /\ k + 1 \in Nat /\ k + 1 # 0
    BY <1>1
  <1> QED BY <1>2, <1>3, <1>4 DEF Needed

LEMMA ExactStep ==
  ASSUME NEW a, NEW b, NEW i \in Nat \ {0}, NEW j \in Nat \ {0}, NEW above, NEW before, NEW both,
         Needed(a, b, i - 1, j, above), Needed(a, b, i, j - 1, before),
         Needed(a, b, i - 1, j - 1, both)
  PROVE  Needed(a, b, i, j, LeastOf3(above + 1, before + 1,
                                    both + (IF a[i] = b[j] THEN 0 ELSE 1)))
  <1> DEFINE cost == IF a[i] = b[j] THEN 0 ELSE 1
             x == above + 1
             y == before + 1
             z == both + cost
             k == LeastOf3(x, y, z)
  <1>1. /\ above \in Nat /\ above >= i - 1 - j /\ above >= j - (i - 1)
        /\ Reaches(a, b, i - 1, j, above) /\ Needs(a, b, i - 1, j, above)
    BY DEF Needed
  <1>2. /\ before \in Nat /\ before >= i - (j - 1) /\ before >= j - 1 - i
        /\ Reaches(a, b, i, j - 1, before) /\ Needs(a, b, i, j - 1, before)
    BY DEF Needed
  <1>3. /\ both \in Nat /\ both >= i - j /\ both >= j - i
        /\ both = 0 => \A u \in 1..(i - 1) : a[u] = b[u]
        /\ Reaches(a, b, i - 1, j - 1, both) /\ Needs(a, b, i - 1, j - 1, both)
    BY DEF Needed
  <1>4. cost \in {0, 1}
    OBVIOUS
  <1>5. /\ x \in Nat /\ x > 0 /\ x >= i - j /\ x >= j - i
        /\ y \in Nat /\ y > 0 /\ y >= i - j /\ y >= j - i
        /\ z \in Nat /\ z >= i - j /\ z >= j - i
        /\ z = 0 => both = 0 /\ cost = 0
    <2> HIDE DEF cost
    <2> QED BY <1>1, <1>2, <1>3, <1>4
  <1>6. Reaches(a, b, i, j, x) /\ Reaches(a, b, i, j, y) /\ Reaches(a, b, i, j, z)
    <2>1. Reaches(a, b, i, j, x)
      BY <1>1, EditsDelete
    <2>2. Reaches(a, b, i, j, y)
      BY <1>2, EditsInsert
    <2>3. Reaches(a, b, i, j, z)
      BY <1>3, EditsMatch
    <2> QED BY <2>1, <2>2, <2>3
  <1>7. k \in {x, y, z} /\ k <= x /\ k <= y /\ k <= z
    <2> HIDE DEF x, y, z
    <2> QED BY <1>5, Least
  <1> HIDE DEF k
  <1>8. Needs(a, b, i, j, k)
    <2> SUFFICES ASSUME NEW f \in Alignments(i, j) PROVE k <= Cost(a, b, f, i, j)
      BY DEF Needs
    <2>1. f[i] \in 0..j
      BY DEF Alignments
    <2>2. CASE f[i] = 0
      <3>0. After(a, b, Cost(a, b, f, i, j), i - 1, j, 1)
        <4>1. j \in Nat
          OBVIOUS
        <4> QED BY <2>2, <4>1, CostDelete
      <3>1. PICK g \in Alignments(i - 1, j) : /\ Cost(a, b, g, i - 1, j) \in Nat
                                              /\ Cost(a, b, f, i, j) = Cost(a, b, g, i - 1, j) + 1
        BY <3>0 DEF After
      <3>2. above <= Cost(a, b, g, i - 1, j)
        BY <1>1 DEF Needs
      <3>3. x <= Cost(a, b, f, i, j)
        BY <1>1, <3>1, <3>2
      <3> HIDE DEF x
      <3>4. Cost(a, b, f, i, j) \in Nat /\ k \in Nat
        BY <1>5, <1>7, <3>1
      <3> QED BY <1>5, <1>7, <3>3, <3>4
    <2>3. CASE f[i] \in 1..(j - 1)
      <3>0. After(a, b, Cost(a, b, f, i, j), i, j - 1, 1)
        <4>1. i \in Nat
          OBVIOUS
        <4> QED BY <2>3, <4>1, CostInsert
      <3>1. PICK g \in Alignments(i, j - 1) : /\ Cost(a, b, g, i, j - 1) \in Nat
                                              /\ Cost(a, b, f, i, j) = Cost(a, b, g, i, j - 1) + 1
        BY <3>0 DEF After
      <3>2. before <= Cost(a, b, g, i, j - 1)
        BY <1>2 DEF Needs
      <3>3. y <= Cost(a, b, f, i, j)
        BY <1>2, <3>1, <3>2
      <3> HIDE DEF y
      <3>4. Cost(a, b, f, i, j) \in Nat /\ k \in Nat
        BY <1>5, <1>7, <3>1
      <3> QED BY <1>5, <1>7, <3>3, <3>4
    <2>4. CASE f[i] = j
      <3>0. After(a, b, Cost(a, b, f, i, j), i - 1, j - 1, cost)
        BY <2>4, CostMatch
      <3>1. PICK g \in Alignments(i - 1, j - 1) :
              /\ Cost(a, b, g, i - 1, j - 1) \in Nat
              /\ Cost(a, b, f, i, j) = Cost(a, b, g, i - 1, j - 1) + cost
        BY <3>0 DEF After
      <3>2. both <= Cost(a, b, g, i - 1, j - 1)
        BY <1>3 DEF Needs
      <3> HIDE DEF cost
      <3>3. z <= Cost(a, b, f, i, j)
        BY <1>3, <1>4, <3>1, <3>2
      <3>4. Cost(a, b, f, i, j) \in Nat /\ k \in Nat
        BY <1>4, <1>5, <1>7, <3>1
      <3> HIDE DEF z
      <3> QED BY <1>5, <1>7, <3>3, <3>4
    <2> QED BY <2>1, <2>2, <2>3, <2>4
  <1>9. k = 0 => \A u \in 1..i : a[u] = b[u]
    <2> SUFFICES ASSUME k = 0, NEW u \in 1..i PROVE a[u] = b[u]
      OBVIOUS
    <2>1. both = 0 /\ cost = 0
      <3> HIDE DEF x, y, z, cost
      <3> QED BY <1>5, <1>7
    <2>2. a[i] = b[j] /\ i = j
      BY <1>3, <2>1
    <2>3. u \in 1..(i - 1) \/ u = i
      OBVIOUS
    <2> QED BY <1>3, <2>1, <2>2, <2>3
  <1>10. k \in Nat /\ k >= i - j /\ k >= j - i /\ Reaches(a, b, i, j, k)
    <2> HIDE DEF x, y, z
    <2> QED BY <1>5, <1>6, <1>7
  <1>11. Needed(a, b, i, j, k)
    BY <1>8, <1>9, <1>10 DEF Needed
  <1> QED BY <1>11 DEF k

-----------------------------------------------------------------------------
(* The rows of the table: one cell after the other, one row after the      *)
(* other.                                                                  *)

AddCell(ctx, row, j) ==
  Append(row, LeastOf3(ctx[1][j + 1] + 1, row[j] + 1,
                       ctx[1][j] + (IF ctx[2] = ctx[3][j] THEN 0 ELSE 1)))
Filling == INSTANCE Induction WITH Op <- AddCell

AddRow(b, prev, c) == NextRow(prev, c, b)
Stacking == INSTANCE Induction WITH Op <- AddRow

\* A row after i letters of a.
IsRow(a, b, row, i) ==
  /\ row \in Seq(Nat) /\ Len(row) = Len(b) + 1
  /\ \A j \in 0..Len(b) : Needed(a, b, i, j, row[j + 1])

LEMMA NextRowExact ==
  ASSUME NEW C, NEW a \in Seq(C), NEW b \in Seq(C), NEW i \in 1..Len(a), NEW prev, IsRow(a, b, prev, i - 1)
  PROVE  IsRow(a, b, NextRow(prev, a[i], b), i)
  <1> DEFINE n == Len(b)
             c == a[i]
             ctx == <<prev, c, b>>
             seq == [j \in DOMAIN b |-> j]
             first == <<prev[1] + 1>>
  <1>1. n \in Nat /\ DOMAIN b = 1..n /\ i \in Nat \ {0} /\ DOMAIN seq = 1..n
    OBVIOUS
  <1>2. /\ prev \in Seq(Nat) /\ Len(prev) = n + 1 /\ DOMAIN prev = 1..(n + 1)
        /\ \A j \in 0..n : prev[j + 1] \in Nat /\ Needed(a, b, i - 1, j, prev[j + 1])
    BY DEF IsRow
  <1>3. PICK f : /\ f[0] = first /\ \A k \in 1..n : f[k] = AddCell(ctx, f[k - 1], seq[k])
                 /\ Filling!FoldOf(ctx, first, seq) = f[n]
    <2> HIDE DEF n, ctx, seq, first
    <2>1. \E f : Filling!Unrolled(f, ctx, first, seq, n) /\ Filling!FoldOf(ctx, first, seq) = f[n]
      BY <1>1, Filling!FoldUnrolled
    <2> QED BY <2>1 DEF Filling!Unrolled
  <1>4. NextRow(prev, c, b) = Filling!FoldOf(ctx, first, seq)
    <2>1. ctx[1] = prev /\ ctx[2] = c /\ ctx[3] = b
      OBVIOUS
    <2> HIDE DEF ctx, c
    <2>2. NextRow(ctx[1], ctx[2], ctx[3]) =
            Filling!FoldOf(ctx, <<ctx[1][1] + 1>>, [j \in DOMAIN ctx[3] |-> j])
      BY Zenon DEF NextRow, Filling!FoldOf, FoldLeft, MapThenFoldSet, AddCell,
                   Filling!FoldLeft, Filling!MapThenFoldSet, Max, Filling!Max
    <2> QED BY <2>1, <2>2
  <1>5. \A k \in 1..n : f[k] = Append(f[k - 1], LeastOf3(prev[k + 1] + 1, f[k - 1][k] + 1,
                                                prev[k] + (IF c = b[k] THEN 0 ELSE 1)))
    <2>1. \A k \in 1..n : seq[k] = k
      BY <1>1
    <2>2. ctx[1] = prev /\ ctx[2] = c /\ ctx[3] = b
      OBVIOUS
    <2> HIDE DEF ctx, c, seq
    <2> QED BY <1>3, <2>1, <2>2 DEF AddCell
  <1> DEFINE T == {k \in 0..n : /\ f[k] \in Seq(Nat) /\ Len(f[k]) = k + 1
                                /\ \A j \in 0..k : Needed(a, b, i, j, f[k][j + 1])}
  <1> HIDE DEF n, c, ctx, seq
  <1>6. 0 \in T
    <2>1. prev[1] \in Nat /\ Needed(a, b, i - 1, 0, prev[1])
      <3>1. 0 \in 0..n /\ 0 + 1 = 1
        BY <1>1
      <3> QED BY <1>2, <3>1
    <2>2. Needed(a, b, i, 0, prev[1] + 1)
      BY <1>1, <2>1, ExactFirst
    <2>3. f[0] \in Seq(Nat) /\ Len(f[0]) = 1 /\ f[0][1] = prev[1] + 1
      BY <1>3, <2>1
    <2>4. 0 \in 0..n /\ \A j \in 0..0 : j = 0 /\ j + 1 = 1
      BY <1>1
    <2> QED BY <2>2, <2>3, <2>4
  <1>7. ASSUME NEW k \in 1..n, k - 1 \in T PROVE k \in T
    <2> DEFINE row == f[k - 1]
               above == prev[k + 1]
               before == row[k]
               both == prev[k]
               least == LeastOf3(above + 1, before + 1, both + (IF c = b[k] THEN 0 ELSE 1))
    <2>1. k \in Nat \ {0} /\ k \in 0..n /\ k - 1 \in 0..n /\ k - 1 \in 0..(k - 1) /\ (k - 1) + 1 = k
      BY <1>1
    <2>2. row \in Seq(Nat) /\ Len(row) = k /\ \A j \in 0..(k - 1) : Needed(a, b, i, j, row[j + 1])
      BY <1>7, <2>1
    <2>3. Needed(a, b, i - 1, k, above) /\ Needed(a, b, i - 1, k - 1, both)
      BY <1>2, <2>1
    <2>4. Needed(a, b, i, k - 1, before)
      BY <2>1, <2>2
    <2>5. f[k] = Append(row, least)
      BY <1>5
    <2> HIDE DEF row, above, before, both
    <2>6. Needed(a, b, i, k, least)
      BY <1>1, <2>1, <2>3, <2>4, ExactStep DEF c
    <2>9. least \in Nat /\ Needed(a, b, i, k, least)
      BY <2>6 DEF Needed
    <2> HIDE DEF least
    <2>10. /\ f[k] \in Seq(Nat) /\ Len(f[k]) = k + 1 /\ f[k][k + 1] = least
           /\ \A j \in 1..k : f[k][j] = row[j]
      BY <2>1, <2>2, <2>5, <2>9
    <2>11. \A j \in 0..k : Needed(a, b, i, j, f[k][j + 1])
      <3> SUFFICES ASSUME NEW j \in 0..k PROVE Needed(a, b, i, j, f[k][j + 1])
        OBVIOUS
      <3>1. CASE j = k
        BY <2>9, <2>10, <3>1
      <3>2. CASE j # k
        <4>1. j \in 0..(k - 1) /\ j + 1 \in 1..k
          BY <2>1, <3>2
        <4> QED BY <2>2, <2>10, <4>1
      <3> QED BY <3>1, <3>2
    <2> QED BY <2>1, <2>10, <2>11
  <1>8. n \in T
    <2> HIDE DEF T
    <2>1. 0..n \subseteq T
      BY <1>1, <1>6, <1>7, UpTo
    <2> QED BY <1>1, <2>1
  <1> QED BY <1>3, <1>4, <1>8 DEF IsRow, n, c

LEMMA LevenshteinExact ==
  ASSUME NEW C, NEW a \in Seq(C), NEW b \in Seq(C)
  PROVE  Needed(a, b, Len(a), Len(b), Levenshtein(a, b))
  <1> DEFINE n == Len(b)
             m == Len(a)
             first == [j \in 1..(n + 1) |-> j - 1]
  <1>1. n \in Nat /\ m \in Nat /\ DOMAIN a = 1..m
    OBVIOUS
  <1>2. PICK f : /\ f[0] = first /\ \A k \in 1..m : f[k] = AddRow(b, f[k - 1], a[k])
                 /\ Stacking!FoldOf(b, first, a) = f[m]
    <2> HIDE DEF first, m
    <2>1. \E f : Stacking!Unrolled(f, b, first, a, m) /\ Stacking!FoldOf(b, first, a) = f[m]
      BY <1>1, Stacking!FoldUnrolled
    <2> QED BY <2>1 DEF Stacking!Unrolled
  <1>3. Levenshtein(a, b) = Last(f[m])
    <2> HIDE DEF m
    <2>1. Levenshtein(a, b) = Last(Stacking!FoldOf(b, first, a))
      BY Zenon DEF Levenshtein, Stacking!FoldOf, FoldLeft, MapThenFoldSet, AddRow, Stacking!FoldLeft, Stacking!MapThenFoldSet, Max, Stacking!Max
    <2> QED BY <1>2, <2>1
  <1> DEFINE T == {k \in 0..m : IsRow(a, b, f[k], k)}
  <1>4. 0 \in T
    <2>1. first \in Seq(Nat) /\ Len(first) = n + 1 /\ \A j \in 0..n : first[j + 1] = j
      BY <1>1
    <2>2. \A j \in 0..n : Needed(a, b, 0, j, first[j + 1])
      BY <2>1, ExactStart
    <2> HIDE DEF first
    <2> QED BY <1>1, <1>2, <2>1, <2>2 DEF IsRow
  <1>5. ASSUME NEW k \in 1..m, k - 1 \in T PROVE k \in T
    <2>1. IsRow(a, b, f[k - 1], k - 1)
      BY <1>5
    <2>2. IsRow(a, b, NextRow(f[k - 1], a[k], b), k)
      BY <2>1, NextRowExact
    <2>3. f[k] = NextRow(f[k - 1], a[k], b)
      BY <1>2 DEF AddRow
    <2> QED BY <1>1, <2>2, <2>3
  <1>6. IsRow(a, b, f[m], m)
    <2> HIDE DEF T, m
    <2>1. 0..m \subseteq T
      BY <1>1, <1>4, <1>5, UpTo
    <2>2. m \in T
      BY <1>1, <2>1
    <2> QED BY <2>2 DEF T
  <1>7. Last(f[m]) = f[m][n + 1]
    BY <1>6 DEF IsRow, Last
  <1> QED BY <1>1, <1>3, <1>6, <1>7 DEF IsRow

\* The table of levenshtein() gives the least number of edits, whatever the words are.
THEOREM DistanceIsLeast ==
  ASSUME NEW C, NEW a \in Seq(C), NEW b \in Seq(C)
  PROVE  Levenshtein(a, b) = Distance(a, b)
  <1> DEFINE n == Len(a)
             m == Len(b)
             S == {Edits(a, b, f) : f \in Alignments(n, m)}
             k == Levenshtein(a, b)
  <1>1. k \in Nat /\ Reaches(a, b, n, m, k) /\ Needs(a, b, n, m, k)
    BY LevenshteinExact DEF Needed
  <1>2. \A f : Edits(a, b, f) = Cost(a, b, f, n, m)
    <2>1. DOMAIN a = 1..n /\ DOMAIN b = 1..m
      OBVIOUS
    <2> QED BY <2>1, Zenon DEF Edits, Cost, Changed, Added
  <1>3. \A f : Edits(a, b, f) \in Nat
    <2>1. n \in Nat /\ m \in Nat
      OBVIOUS
    <2> HIDE DEF n, m
    <2> QED BY <1>2, <2>1, EditsFit DEF Cost
  <1>4. k \in S /\ S \in SUBSET Nat /\ \A x \in S : k <= x
    <2> HIDE DEF n, m, k
    <2> QED BY <1>1, <1>2, <1>3 DEF Reaches, Needs
  <1>5. Distance(a, b) = Min(S)
    BY Zenon DEF Distance
  <1> HIDE DEF S, k
  <1>6. Min(S) \in S /\ \A x \in S : Min(S) <= x
    BY <1>4, Zenon DEF Min
  <1>7. Min(S) <= k /\ k <= Min(S) /\ Min(S) \in Nat /\ k \in Nat
    BY <1>4, <1>6
  <1> QED BY <1>5, <1>7 DEF k

\* Only a word itself is at distance 0, and no word is nearer than the difference of the
\* lengths.
LEMMA DistanceBounds ==
  ASSUME NEW C, NEW a \in Seq(C), NEW b \in Seq(C)
  PROVE  LET k == Levenshtein(a, b)
         IN  k \in Nat /\ k >= Len(a) - Len(b) /\ k >= Len(b) - Len(a) /\ (k = 0 => a = b)
  <1> DEFINE n == Len(a)
             m == Len(b)
             k == Levenshtein(a, b)
  <1>1. /\ k \in Nat /\ k >= n - m /\ k >= m - n
        /\ k = 0 => \A x \in 1..n : a[x] = b[x]
    BY LevenshteinExact DEF Needed
  <1>2. n \in Nat /\ m \in Nat
    OBVIOUS
  <1>3. k = 0 => n = m
    <2> HIDE DEF n, m, k
    <2> QED BY <1>1, <1>2
  <1>4. k = 0 => a = b
    BY <1>1, <1>3
  <1> QED BY <1>1, <1>4

\* A word is at distance 0 from itself.
LEMMA DistanceToItself ==
  ASSUME NEW C, NEW a \in Seq(C)
  PROVE  Levenshtein(a, a) = 0
  <1> DEFINE n == Len(a)
             f == [x \in 1..n |-> x]
             k == Levenshtein(a, a)
  <1>1. n \in Nat /\ k \in Nat /\ Needs(a, a, n, n, k)
    BY LevenshteinExact DEF Needed
  <1>2. f \in Alignments(n, n)
    BY <1>1 DEF Alignments
  <1>3. Changed(a, a, f, n) = {}
    BY <1>1 DEF Changed
  <1>4. Added(f, n) = {}
    <2>1. \A y \in 1..n : y \in Range(f)
      BY DEF Range
    <2> HIDE DEF f
    <2> QED BY <2>1 DEF Added
  <1>5. Cost(a, a, f, n, n) = 0
    <2>1. Cost(a, a, f, n, n) = Cardinality({}) + Cardinality({})
      BY <1>3, <1>4, Zenon DEF Cost
    <2> QED BY <2>1, FS_EmptySet
  <1> HIDE DEF f, n, k
  <1>6. k <= 0
    BY <1>2, <1>5, <1>1 DEF Needs
  <1>7. k = 0
    BY <1>1, <1>6
  <1> QED BY <1>7 DEF k

-----------------------------------------------------------------------------
(* The invariant: types, unique names, and what the search and the walk     *)
(* have found so far.                                                       *)

Asking ==
  [pc : {"text", "semantic", "answered"}, q : Queries, text : Seq(Nat), semantic : Seq(Nat),
   steady : BOOLEAN, results : Seq(Nat), seen : SUBSET Catalog]
Walking == [pc : {"walking", "complete"}, cursor : Nat, listed : Seq(Nat), steady : BOOLEAN]

SearchFits ==
  /\ registry \in SUBSET Catalog /\ IsFiniteSet(registry)
  /\ index \in SUBSET Nat /\ IsFiniteSet(index)
  /\ query = NoQuery \/ query \in Asking
  /\ walk = NoWalk \/ walk \in Walking

\* A name is the key of one tool.
NamesDiffer == \A t, u \in registry : t.name = u.name => t = u

\* What a search is sure to find.
Promising(q) ==
  q.steady /\ q.q.tags = {} /\ q.q.limit > 0 /\ Bm25Matches(q.q.words, q.seen, {}) # {}

\* A search that is not over has found names that were registered, and some if it had to.
Found(q) ==
  /\ ToSet(q.text) \subseteq NamesOf(q.seen)
  /\ Promising(q) => q.text # <<>>
  /\ q.steady => q.seen = registry
SearchFound == query.pc \in {"text", "semantic"} => Found(query)

SoundResults(q) ==
  /\ IsInjective(q.results) /\ Len(q.results) <= q.q.limit
  /\ \A i \in DOMAIN q.results : \E t \in q.seen :
       /\ t.name = q.results[i]
       /\ q.q.tags = {} \/ t.tags \cap q.q.tags # {}
  /\ Promising(q) /\ ToSet(q.semantic) \subseteq NamesOf(q.seen) => q.results # <<>>

LEMMA SoundAnswer == SearchSound <=> (query.pc = "answered" => SoundResults(query))
  BY DEF SearchSound, SoundResults, Promising

\* A walk during which nothing changed has listed the names up to its cursor.
PagesSoFar ==
  walk # NoWalk /\ walk.steady =>
    LET all == SortedNames(registry)
    IN  CASE walk.pc = "walking" -> /\ walk.cursor \in 0..Len(all)
                                    /\ walk.listed = SubSeq(all, 1, walk.cursor)
          [] OTHER -> walk.listed = all

SearchInv == SearchFits /\ NamesDiffer /\ SearchFound /\ SearchSound /\ PagesSoFar

-----------------------------------------------------------------------------
LEMMA InitSearchInv == SearchInit => SearchInv
  <1> SUFFICES ASSUME SearchInit PROVE SearchInv
    OBVIOUS
  <1>1. registry = {} /\ index = {} /\ query = NoQuery /\ walk = NoWalk
    BY DEF SearchInit
  <1>2. query.pc = "none"
    BY <1>1 DEF NoQuery
  <1>3. SearchFits
    BY <1>1, FS_EmptySet DEF SearchFits
  <1> QED BY <1>1, <1>2, <1>3 DEF SearchInv, NamesDiffer, SearchFound, SearchSound, PagesSoFar

LEMMA NamesFit ==
  ASSUME NEW found \in SUBSET Catalog, IsFiniteSet(found)
  PROVE  /\ NamesOf(found) \in SUBSET Nat /\ IsFiniteSet(NamesOf(found))
         /\ NamesOf(found) = {} <=> found = {}
  <1> DEFINE f == [t \in found |-> t.name]
             S == NamesOf(found)
  <1>1. f \in Surjection(found, S)
    BY DEF NamesOf, Surjection
  <1>2. IsFiniteSet(S)
    <2> HIDE DEF f, S
    <2> QED BY <1>1, FS_Surjection
  <1>3. S \in SUBSET Nat
    BY SearchAssumption DEF NamesOf
  <1>4. S = {} <=> found = {}
    BY DEF NamesOf
  <1> HIDE DEF S
  <1>5. NamesOf(found) = S
    BY DEF S
  <1> QED BY <1>2, <1>3, <1>4, <1>5

LEMMA RankedNames ==
  ASSUME NEW names \in SUBSET Nat, IsFiniteSet(names), NEW limit \in Nat,
         NEW s \in Ranked(names, limit)
  PROVE  /\ s \in Seq(Nat) /\ IsInjective(s) /\ Len(s) <= limit /\ ToSet(s) \subseteq names
         /\ names # {} /\ limit > 0 => s # <<>>
  <1> DEFINE N == Cardinality(names)
  <1>1. N \in Nat /\ (names # {} => N > 0)
    <2>1. N \in Nat /\ (N = 0 <=> names = {})
      <3>1. IsFiniteSet(names) => N \in Nat
        BY FS_CardinalityType
      <3>2. IsFiniteSet(names) => (N = 0 <=> names = {})
        BY FS_EmptySet
      <3> QED BY <3>1, <3>2
    <2> HIDE DEF N
    <2>2. names # {} => N # 0
      BY <2>1, Zenon
    <2> QED BY <2>1, <2>2
  <1>2. PICK r \in SetToSeqs(names) : s = Cut(r, limit)
    BY DEF Ranked
  <1>3. r \in [1..N -> names] /\ \A i, j \in 1..N : i # j => r[i] # r[j]
    BY <1>2 DEF SetToSeqs
  <1> HIDE DEF N
  <1>4. DOMAIN r = 1..N /\ Len(r) = N /\ IsInjective(r)
    BY <1>1, <1>3 DEF IsInjective
  <1>5. PICK k \in 0..N : IsCut(s, k, r, N, limit)
    <2>1. \E k \in 0..N : IsCut(Cut(r, limit), k, r, N, limit)
      BY <1>1, <1>4, CutOf
    <2> QED BY <1>2, <2>1
  <1>6. s \in Seq(Nat) /\ \A i \in DOMAIN s : s[i] \in names
    <2>1. s = [i \in 1..k |-> r[i]]
      <3>1. s = SubSeq(r, 1, IF Len(r) <= limit THEN Len(r) ELSE limit)
        BY <1>2 DEF Cut
      <3>2. k = IF Len(r) <= limit THEN Len(r) ELSE limit
        BY <1>1, <1>4, <1>5, <3>1 DEF IsCut
      <3> QED BY <1>1, <1>4, <3>1, <3>2
    <2>2. \A i \in 1..k : r[i] \in names
      BY <1>1, <1>3
    <2>3. \A i \in 1..k : r[i] \in Nat
      BY <2>2
    <2>4. s \in Seq(Nat)
      BY <2>1, <2>3
    <2>5. \A i \in DOMAIN s : s[i] \in names
      BY <1>5, <2>2 DEF IsCut
    <2> QED BY <2>4, <2>5
  <1>7. ToSet(s) \subseteq names
    BY <1>6 DEF ToSet
  <1>8. names # {} /\ limit > 0 => s # <<>>
    BY <1>1, <1>5 DEF IsCut
  <1>9. IsInjective(s) /\ Len(s) <= limit
    BY <1>4, <1>5 DEF IsCut
  <1> QED BY <1>6, <1>7, <1>8, <1>9

LEMMA MatchesFound ==
  ASSUME NEW q, NEW found, NEW matches \in SearchMatches(q, found)
  PROVE  /\ matches \subseteq Corpus(found, q.tags)
         /\ q.tags = {} /\ Bm25Matches(q.words, found, {}) # {} => matches # {}
  <1> DEFINE first == Bm25Matches(q.words, found, q.tags)
             second == TrigramMatches(q.words, found, q.tags)
  <1>1. \A words : Bm25Matches(words, found, q.tags) \subseteq Corpus(found, q.tags)
    BY DEF Bm25Matches
  <1>2. second \subseteq Corpus(found, q.tags)
    BY DEF TrigramMatches
  <1>3. q.words = {} => Bm25Matches(q.words, found, {}) = {}
    BY DEF Bm25Matches
  <1>4. \/ q.words = {} /\ matches = {}
        \/ q.words # {} /\ first # {} /\ matches = first
        \/ q.words # {} /\ first = {} /\ matches = second
        \/ q.words # {} /\ first = {} /\ matches = {}
        \/ q.words # {} /\ first = {} /\ \E c : matches = Bm25Matches(c, found, q.tags)
    BY Zenon DEF SearchMatches
  <1> HIDE DEF first, second
  <1>5. q.tags = {} => first = Bm25Matches(q.words, found, {})
    BY DEF first
  <1>6. first \subseteq Corpus(found, q.tags)
    BY <1>1 DEF first
  <1> QED BY <1>1, <1>2, <1>3, <1>4, <1>5, <1>6
\* A change that is noted.
LEMMA NotedChange ==
  ASSUME SearchInv, NoteChange, NamesDiffer',
         registry' \in SUBSET Catalog, IsFiniteSet(registry'),
         index' \in SUBSET Nat, IsFiniteSet(index')
  PROVE  SearchInv'
  <1>1. /\ query = NoQuery \/ query \in Asking
        /\ walk = NoWalk \/ walk \in Walking
    BY DEF SearchInv, SearchFits
  <1>2. \/ query = NoQuery /\ query' = NoQuery
        \/ query \in Asking /\ query' = [query EXCEPT !.steady = FALSE]
    BY <1>1 DEF NoteChange, NoQuery, Asking
  <1>3. \/ walk = NoWalk /\ walk' = NoWalk
        \/ walk \in Walking /\ walk' \in Walking /\ ~walk'.steady
    BY <1>1 DEF NoteChange, NoWalk, Walking
  <1>4. CASE query = NoQuery /\ query' = NoQuery
    <2>1. query'.pc = "none"
      BY <1>4 DEF NoQuery
    <2> QED BY <1>3, <1>4, <2>1 DEF SearchInv, SearchFits, SearchFound, SearchSound, PagesSoFar
  <1>5. CASE query \in Asking /\ query' = [query EXCEPT !.steady = FALSE]
    <2>1. query' \in Asking
      BY <1>5 DEF Asking
    <2>2. /\ query'.pc = query.pc /\ query'.q = query.q /\ query'.text = query.text
          /\ query'.results = query.results /\ query'.seen = query.seen /\ query'.steady = FALSE
      BY <1>5 DEF Asking
    <2>3. SearchFound'
      BY <2>2 DEF SearchInv, SearchFound, Found, Promising
    <2>4. SearchSound'
      <3>1. query.pc = "answered" => SoundResults(query)
        BY SoundAnswer DEF SearchInv
      <3>2. query'.pc = "answered" => SoundResults(query')
        BY <2>2, <3>1 DEF SoundResults, Promising
      <3> QED BY <3>2 DEF SearchSound, SoundResults, Promising
    <2> QED BY <1>3, <2>1, <2>3, <2>4 DEF SearchInv, SearchFits, PagesSoFar
  <1> QED BY <1>2, <1>4, <1>5

LEMMA AddToolInv == SearchInv /\ AddTool => SearchInv'
  <1> SUFFICES ASSUME SearchInv, AddTool PROVE SearchInv'
    OBVIOUS
  <1>1. PICK t \in Catalog \ registry : registry' = {u \in registry : u.name # t.name} \cup {t}
    BY DEF AddTool
  <1> DEFINE others == {u \in registry : u.name # t.name}
  <1>2. registry \in SUBSET Catalog /\ IsFiniteSet(registry)
    BY DEF SearchInv, SearchFits
  <1>3. others \in SUBSET registry /\ registry' = others \cup {t}
    BY <1>1
  <1>4. IsFiniteSet(registry')
    <2> HIDE DEF others
    <2>1. IsFiniteSet(others)
      BY <1>2, <1>3, FS_Subset
    <2> QED BY <1>3, <2>1, FS_AddElement
  <1>5. registry' \in SUBSET Catalog
    BY <1>2, <1>3
  <1>6. NamesDiffer'
    BY <1>3 DEF SearchInv, NamesDiffer
  <1>7. NoteChange /\ index' \in SUBSET Nat /\ IsFiniteSet(index')
    BY DEF AddTool, SearchInv, SearchFits
  <1> QED BY <1>4, <1>5, <1>6, <1>7, NotedChange

LEMMA RemoveEmbeddingInv == SearchInv /\ RemoveEmbedding => SearchInv'
  <1> SUFFICES ASSUME SearchInv, RemoveEmbedding PROVE SearchInv'
    OBVIOUS
  <1>1. index \in SUBSET Nat /\ IsFiniteSet(index) /\ index' \in SUBSET index
    BY DEF SearchInv, SearchFits, RemoveEmbedding
  <1>2. IsFiniteSet(index')
    BY <1>1, FS_Subset
  <1>3. NamesDiffer' /\ registry' \in SUBSET Catalog /\ IsFiniteSet(registry') /\ NoteChange
    BY DEF SearchInv, SearchFits, NamesDiffer, RemoveEmbedding
  <1> QED BY <1>1, <1>2, <1>3, NotedChange

LEMMA RemoveToolInv == SearchInv /\ RemoveTool => SearchInv'
  <1> SUFFICES ASSUME SearchInv, RemoveTool PROVE SearchInv'
    OBVIOUS
  <1>1. registry \in SUBSET Catalog /\ IsFiniteSet(registry) /\ registry' \in SUBSET registry
    BY DEF SearchInv, SearchFits, RemoveTool
  <1>2. IsFiniteSet(registry')
    BY <1>1, FS_Subset
  <1>3. NamesDiffer' /\ index' \in SUBSET Nat /\ IsFiniteSet(index') /\ NoteChange
    BY <1>1 DEF SearchInv, SearchFits, NamesDiffer, RemoveTool
  <1> QED BY <1>1, <1>2, <1>3, NotedChange

LEMMA AddEmbeddingInv == SearchInv /\ AddEmbedding => SearchInv'
  <1> SUFFICES ASSUME SearchInv, AddEmbedding PROVE SearchInv'
    OBVIOUS
  <1>1. index \in SUBSET Nat /\ IsFiniteSet(index) /\ registry \in SUBSET Catalog
    BY DEF SearchInv, SearchFits
  <1>2. PICK t \in registry : index' = index \cup {t.name}
    BY DEF AddEmbedding
  <1>3. IsFiniteSet(index') /\ index' \in SUBSET Nat
    <2>1. IsFiniteSet(index')
      BY <1>1, <1>2, FS_AddElement
    <2>2. t.name \in Nat
      BY <1>1, SearchAssumption
    <2> QED BY <1>1, <1>2, <2>1, <2>2
  <1>4. UNCHANGED <<registry, query, walk>>
    BY DEF AddEmbedding
  <1>5. NamesDiffer' /\ SearchFound' /\ SearchSound' /\ PagesSoFar'
    BY <1>4 DEF SearchInv, NamesDiffer, SearchFound, SearchSound, PagesSoFar, Found
  <1>6. SearchFits'
    BY <1>3, <1>4 DEF SearchInv, SearchFits
  <1> QED BY <1>5, <1>6 DEF SearchInv

\* A search changes nothing but itself.
LEMMA QueryStep ==
  ASSUME SearchInv, UNCHANGED <<registry, index, walk>>, query' = NoQuery \/ query' \in Asking,
         SearchFound', SearchSound'
  PROVE  SearchInv'
  <1>1. SearchFits' /\ NamesDiffer' /\ PagesSoFar'
    BY DEF SearchInv, SearchFits, NamesDiffer, PagesSoFar
  <1> QED BY <1>1 DEF SearchInv

LEMMA FetchFits == ASSUME NEW limit \in Nat PROVE Fetch(limit) \in Nat /\ Fetch(limit) > 0
  BY DEF Fetch

LEMMA AskInv == SearchInv /\ Ask => SearchInv'
  <1> SUFFICES ASSUME SearchInv, Ask PROVE SearchInv'
    OBVIOUS
  <1>1. PICK q \in Queries, matches \in SUBSET registry :
          /\ matches \in SearchMatches(q, registry)
          /\ \E text \in Ranked(NamesOf(matches), IF index = {} THEN q.limit ELSE Fetch(q.limit)) :
               query' = [pc |-> IF index = {} THEN "answered" ELSE "text", q |-> q,
                         text |-> text, semantic |-> <<>>, steady |-> TRUE,
                         results |-> IF index = {} THEN text ELSE <<>>, seen |-> registry]
    BY DEF Ask
  <1> DEFINE limit == IF index = {} THEN q.limit ELSE Fetch(q.limit)
  <1>2. PICK text \in Ranked(NamesOf(matches), limit) :
            query' = [pc |-> IF index = {} THEN "answered" ELSE "text", q |-> q,
                      text |-> text, semantic |-> <<>>, steady |-> TRUE,
                      results |-> IF index = {} THEN text ELSE <<>>, seen |-> registry]
    BY <1>1
  <1>3. /\ registry \in SUBSET Catalog /\ IsFiniteSet(registry)
        /\ matches \subseteq Corpus(registry, q.tags)
        /\ q.tags = {} /\ Bm25Matches(q.words, registry, {}) # {} => matches # {}
    BY <1>1, MatchesFound DEF SearchInv, SearchFits
  <1>4. matches \in SUBSET registry /\ matches \in SUBSET Catalog /\ IsFiniteSet(matches)
    <2>1. matches \in SUBSET registry /\ matches \in SUBSET Catalog
      BY <1>3 DEF Corpus
    <2> QED BY <1>3, <2>1, FS_Subset
  <1>5. q.limit \in Nat /\ limit \in Nat /\ (q.limit > 0 => limit > 0)
    BY SearchAssumption, FetchFits
  <1> HIDE DEF limit
  <1>6. /\ text \in Seq(Nat) /\ IsInjective(text) /\ Len(text) <= limit
        /\ ToSet(text) \subseteq NamesOf(matches)
        /\ matches # {} /\ limit > 0 => text # <<>>
    <2>1. /\ NamesOf(matches) \in SUBSET Nat /\ IsFiniteSet(NamesOf(matches))
          /\ NamesOf(matches) = {} <=> matches = {}
      BY <1>4, NamesFit
    <2> HIDE DEF limit
    <2> QED BY <1>2, <1>5, <2>1, RankedNames
  <1>7. /\ query'.pc = IF index = {} THEN "answered" ELSE "text"
        /\ query'.q = q /\ query'.text = text /\ query'.semantic = <<>>
        /\ query'.results = IF index = {} THEN text ELSE <<>>
        /\ query'.seen = registry /\ query'.steady = TRUE
    BY <1>2
  <1>8. query' \in Asking
    <2>1. <<>> \in Seq(Nat)
      OBVIOUS
    <2> QED BY <1>2, <1>3, <1>6, <2>1 DEF Asking
  <1>9. UNCHANGED <<registry, index, walk>>
    BY DEF Ask
  <1>10. Promising(query') => text # <<>>
    <2>1. Promising(query') =>
            q.tags = {} /\ q.limit > 0 /\ Bm25Matches(q.words, registry, {}) # {}
      BY <1>7, Zenon DEF Promising
    <2> QED BY <1>3, <1>5, <1>6, <2>1
  <1>11. SearchFound'
    <2>1. ToSet(text) \subseteq NamesOf(registry)
      BY <1>4, <1>6 DEF NamesOf
    <2> QED BY <1>7, <1>9, <1>10, <2>1 DEF SearchFound, Found
  <1>12. query'.pc = "answered" => SoundResults(query')
    <2> SUFFICES ASSUME query'.pc = "answered" PROVE SoundResults(query')
      OBVIOUS
    <2>1. index = {} /\ query'.results = text /\ limit = q.limit
      BY <1>7 DEF limit
    <2>2. \A i \in DOMAIN text : \E t \in registry :
            t.name = text[i] /\ (q.tags = {} \/ t.tags \cap q.tags # {})
      <3> SUFFICES ASSUME NEW i \in DOMAIN text
                   PROVE  \E t \in registry :
                            t.name = text[i] /\ (q.tags = {} \/ t.tags \cap q.tags # {})
        OBVIOUS
      <3>1. text[i] \in NamesOf(matches)
        BY <1>6 DEF ToSet
      <3> QED BY <1>3, <3>1 DEF NamesOf, Corpus
    <2> QED BY <1>6, <1>7, <1>10, <2>1, <2>2 DEF SoundResults
  <1>13. SearchSound'
    BY <1>12 DEF SearchSound, SoundResults, Promising
  <1> QED BY <1>8, <1>9, <1>11, <1>13, QueryStep
LEMMA AskIndexInv == SearchInv /\ AskIndex => SearchInv'
  <1> SUFFICES ASSUME SearchInv, AskIndex PROVE SearchInv'
    OBVIOUS
  <1>1. query.pc = "text" /\ query \in Asking /\ Found(query)
    BY DEF AskIndex, SearchInv, SearchFits, SearchFound, NoQuery
  <1>2. PICK semantic \in Ranked(index, Fetch(query.q.limit)) :
          query' = [query EXCEPT !.pc = "semantic", !.semantic = semantic]
    BY DEF AskIndex
  <1>3. semantic \in Seq(Nat)
    <2> DEFINE limit == Fetch(query.q.limit)
    <2>1. index \in SUBSET Nat /\ IsFiniteSet(index) /\ query.q.limit \in Nat
      BY <1>1, SearchAssumption DEF SearchInv, SearchFits, Asking
    <2>2. limit \in Nat
      BY <2>1, FetchFits
    <2> HIDE DEF limit
    <2>3. semantic \in Ranked(index, limit)
      BY DEF limit
    <2> QED BY <2>1, <2>2, <2>3, RankedNames
  <1>4. query' \in Asking
    BY <1>1, <1>2, <1>3 DEF Asking
  <1>5. /\ query'.pc = "semantic" /\ query'.q = query.q /\ query'.text = query.text
        /\ query'.seen = query.seen /\ query'.steady = query.steady
    BY <1>1, <1>2 DEF Asking
  <1>6. UNCHANGED <<registry, index, walk>>
    BY DEF AskIndex
  <1>7. SearchFound'
    BY <1>1, <1>5, <1>6 DEF SearchFound, Found, Promising
  <1>8. SearchSound'
    BY <1>5 DEF SearchSound
  <1> QED BY <1>4, <1>6, <1>7, <1>8, QueryStep

LEMMA LookupInv == SearchInv /\ Lookup => SearchInv'
  <1> SUFFICES ASSUME SearchInv, Lookup PROVE SearchInv'
    OBVIOUS
  <1>1. query.pc = "semantic" /\ query \in Asking /\ Found(query)
    BY DEF Lookup, SearchInv, SearchFits, SearchFound, NoQuery
  <1> DEFINE q == query.q
             all == Fuse(query.text, query.semantic, q.limit)
             wanted == NamesOf(Corpus(registry, q.tags))
             kept == Kept(all, wanted)
  <1>2. /\ query' = [query EXCEPT !.pc = "answered", !.seen = registry, !.results = kept]
        /\ UNCHANGED <<registry, index, walk>>
    BY DEF Lookup
  <1>3. registry \in SUBSET Catalog /\ q \in Queries /\ q.limit \in Nat
    BY <1>1, SearchAssumption DEF SearchInv, SearchFits, Asking
  <1>4. PICK k \in 0..q.limit :
           /\ DOMAIN all = 1..k /\ Len(all) = k /\ IsInjective(all)
           /\ \A i \in 1..k : all[i] \in ToSet(query.text) \cup ToSet(query.semantic)
           /\ query.text # <<>> /\ q.limit > 0 => k > 0
    <2> DEFINE text == query.text
               semantic == query.semantic
               n == Len(text)
               m == Len(semantic)
    <2>1. text \in Seq(Nat) /\ semantic \in Seq(Nat)
      BY <1>1 DEF Asking
    <2> HIDE DEF text, semantic
    <2>2. /\ n \in Nat /\ m \in Nat /\ DOMAIN text = 1..n /\ DOMAIN semantic = 1..m
          /\ text # <<>> => n > 0
      BY <2>1
    <2>3. ToSet(text) \cup ToSet(semantic) \subseteq Nat
      BY <2>1 DEF ToSet
    <2> DEFINE limit == q.limit
    <2>4. limit \in Nat
      BY <1>3
    <2> HIDE DEF limit, n, m
    <2>5. IsFusion(Fuse(text, semantic, limit), text, semantic, n, limit)
      BY <2>2, <2>3, <2>4, Fused
    <2>6. all = Fuse(text, semantic, limit)
      BY DEF text, semantic, limit
    <2> HIDE DEF all
    <2>7. \E k \in 0..limit :
            /\ DOMAIN all = 1..k /\ Len(all) = k /\ IsInjective(all)
            /\ \A i \in 1..k : all[i] \in ToSet(text) \cup ToSet(semantic)
            /\ text # <<>> /\ limit > 0 => k > 0
      BY <2>2, <2>5, <2>6 DEF IsFusion
    <2> QED BY <2>7 DEF text, semantic, limit
  <1> HIDE DEF all
  <1>5. PICK m \in 0..k : /\ DOMAIN kept = 1..m /\ Len(kept) = m
                          /\ \A j \in 1..m : kept[j] \in wanted /\ \E i \in 1..k : kept[j] = all[i]
                          /\ IsInjective(all) => IsInjective(kept)
                          /\ (\E i \in 1..k : all[i] \in wanted) => m > 0
    <2> HIDE DEF wanted
    <2>1. k \in Nat
      BY <1>3, <1>4
    <2> QED BY <1>4, <2>1, KeptElements
  <1>6. wanted \in SUBSET Nat
    BY <1>3, SearchAssumption DEF NamesOf, Corpus
  <1>7. kept \in Seq(Nat)
    <2>1. kept = [j \in 1..m |-> kept[j]] /\ m \in Nat
      <3>1. m \in Nat
        BY <1>3, <1>4, <1>5
      <3>2. kept = [j \in DOMAIN kept |-> kept[j]]
        BY Zenon DEF Kept
      <3> QED BY <1>5, <3>1, <3>2
    <2>2. \A j \in 1..m : kept[j] \in Nat
      BY <1>5, <1>6
    <2> HIDE DEF kept
    <2> QED BY <2>1, <2>2
  <1> HIDE DEF kept
  <1>8. query' \in Asking
    BY <1>1, <1>2, <1>3, <1>7 DEF Asking
  <1>9. /\ query'.pc = "answered" /\ query'.q = q /\ query'.text = query.text
        /\ query'.semantic = query.semantic /\ query'.results = kept
        /\ query'.seen = registry /\ query'.steady = query.steady
    BY <1>1, <1>2 DEF Asking
  <1>10. \A i \in DOMAIN kept : \E t \in registry :
           t.name = kept[i] /\ (q.tags = {} \/ t.tags \cap q.tags # {})
    <2>1. \A x \in wanted : \E t \in registry :
            t.name = x /\ (q.tags = {} \/ t.tags \cap q.tags # {})
      BY DEF NamesOf, Corpus
    <2> HIDE DEF wanted
    <2> QED BY <1>5, <2>1
  <1>11. Promising(query') /\ ToSet(query.semantic) \subseteq NamesOf(registry) => kept # <<>>
    <2> SUFFICES ASSUME Promising(query'), ToSet(query.semantic) \subseteq NamesOf(registry)
                 PROVE  kept # <<>>
      OBVIOUS
    <2>1. query.steady /\ query.seen = registry
      BY <1>1, <1>9 DEF Promising, Found
    <2>2. q.tags = {} /\ q.limit > 0 /\ Promising(query)
      BY <1>9, <2>1 DEF Promising
    <2>3. query.text # <<>> /\ k > 0
      BY <1>1, <1>4, <2>2 DEF Found
    <2>4. wanted = NamesOf(registry)
      BY <2>2 DEF Corpus
    <2>5. all[1] \in wanted
      <3>1. 1 \in 1..k
        BY <1>3, <1>4, <2>3
      <3>2. ToSet(query.text) \subseteq NamesOf(registry)
        BY <1>1, <2>1 DEF Found
      <3> HIDE DEF wanted
      <3> QED BY <1>4, <2>4, <3>1, <3>2
    <2>6. m > 0
      <3>1. 1 \in 1..k
        BY <1>3, <1>4, <2>3
      <3> HIDE DEF wanted
      <3> QED BY <1>5, <2>5, <3>1
    <2> QED BY <1>5, <2>6
  <1>12. SoundResults(query')
    <2>1. IsInjective(kept) /\ Len(kept) <= q.limit
      BY <1>3, <1>4, <1>5
    <2> HIDE DEF q
    <2> QED BY <1>9, <1>10, <1>11, <2>1 DEF SoundResults
  <1>13. SearchSound'
    BY <1>12 DEF SearchSound, SoundResults, Promising
  <1>14. SearchFound'
    BY <1>9 DEF SearchFound
  <1> QED BY <1>2, <1>8, <1>13, <1>14, QueryStep

LEMMA ForgetInv == SearchInv /\ Forget => SearchInv'
  <1> SUFFICES ASSUME SearchInv, Forget PROVE SearchInv'
    OBVIOUS
  <1>1. query' = NoQuery /\ query'.pc = "none" /\ UNCHANGED <<registry, index, walk>>
    BY DEF Forget, NoQuery
  <1>2. SearchFound' /\ SearchSound'
    BY <1>1 DEF SearchFound, SearchSound
  <1> QED BY <1>1, <1>2, QueryStep
\* A walk changes nothing but itself.
LEMMA WalkStep ==
  ASSUME SearchInv, UNCHANGED <<registry, index, query>>, walk' = NoWalk \/ walk' \in Walking,
         PagesSoFar'
  PROVE  SearchInv'
  <1>1. SearchFits' /\ NamesDiffer' /\ SearchFound' /\ SearchSound'
    BY DEF SearchInv, SearchFits, NamesDiffer, SearchFound, SearchSound, Found
  <1> QED BY <1>1 DEF SearchInv

\* The names in their order.
LEMMA NamesSorted ==
  ASSUME NEW found \in SUBSET Catalog, IsFiniteSet(found)
  PROVE  SortedNames(found) \in Seq(Nat)
  <1> DEFINE S == NamesOf(found)
             s == Sorted(S, <)
  <1>1. S \in SUBSET Nat /\ IsFiniteSet(S)
    BY NamesFit
  <1> HIDE DEF S
  <1>2. Cardinality(S) \in Nat /\ s \in [1..Cardinality(S) -> S]
    BY <1>1, FromTheLeft
  <1>3. SortedNames(found) = s
    BY Zenon DEF SortedNames, S
  <1> HIDE DEF s
  <1>4. s \in [1..Cardinality(S) -> Nat]
    BY <1>1, <1>2
  <1> QED BY <1>2, <1>3, <1>4

LEMMA Pages ==
  ASSUME NEW C, NEW all \in Seq(C), NEW from \in 0..Len(all), NEW to \in from..Len(all)
  PROVE  /\ SubSeq(all, 1, from) \o SubSeq(all, from + 1, to) = SubSeq(all, 1, to)
         /\ Len(SubSeq(all, from + 1, to)) = to - from
         /\ SubSeq(all, 1, to) \in Seq(C)
  OBVIOUS

LEMMA StartWalkInv == SearchInv /\ StartWalk => SearchInv'
  <1> SUFFICES ASSUME SearchInv, StartWalk PROVE SearchInv'
    OBVIOUS
  <1>1. /\ walk' = [pc |-> "walking", cursor |-> 0, listed |-> <<>>, steady |-> TRUE]
        /\ UNCHANGED <<registry, index, query>>
    BY DEF StartWalk
  <1>2. walk' \in Walking
    BY <1>1 DEF Walking
  <1> DEFINE all == SortedNames(registry)
  <1>3. all \in Seq(Nat)
    BY NamesSorted DEF SearchInv, SearchFits
  <1> HIDE DEF all
  <1>4. 0 \in 0..Len(all) /\ SubSeq(all, 1, 0) = <<>>
    BY <1>3
  <1>5. all' = all
    BY <1>1 DEF all
  <1>6. PagesSoFar'
    BY <1>1, <1>4, <1>5 DEF PagesSoFar, all
  <1> QED BY <1>1, <1>2, <1>6, WalkStep

LEMMA NextPageInv == SearchInv /\ NextPage => SearchInv'
  <1> SUFFICES ASSUME SearchInv, NextPage PROVE SearchInv'
    OBVIOUS
  <1> DEFINE all == SortedNames(registry)
             from == walk.cursor
             to == IF from + PageSize <= Len(all) THEN from + PageSize ELSE Len(all)
             page == SubSeq(all, from + 1, to)
  <1>1. walk \in Walking /\ walk.pc = "walking" /\ walk # NoWalk
    BY DEF NextPage, SearchInv, SearchFits, NoWalk
  <1>2. page = Page(registry, walk.cursor)
    BY Zenon DEF Page
  <1>3. all \in Seq(Nat) /\ from \in Nat /\ PageSize \in Nat \ {0} /\ Len(all) \in Nat
    <2>1. all \in Seq(Nat)
      BY NamesSorted DEF SearchInv, SearchFits
    <2> HIDE DEF all
    <2> QED BY <1>1, <2>1, SearchAssumption DEF Walking
  <1>4. /\ walk' = [walk EXCEPT !.listed = @ \o page, !.cursor = @ + PageSize,
                                !.pc = IF Len(page) = PageSize THEN "walking" ELSE "complete"]
        /\ UNCHANGED <<registry, index, query>>
    <2> HIDE DEF page
    <2> QED BY <1>2 DEF NextPage
  <1> HIDE DEF all
  <1>5. page \in Seq(Nat) /\ to \in Nat
    <2>1. to \in Nat /\ to <= Len(all)
      BY <1>3
    <2> HIDE DEF to, from
    <2>2. \A i \in (from + 1)..to : all[i] \in Nat
      BY <1>3, <2>1
    <2> QED BY <1>3, <2>1, <2>2
  <1> HIDE DEF page
  <1>6. walk' \in Walking
    <2>1. walk.listed \o page \in Seq(Nat) /\ walk.cursor + PageSize \in Nat
      BY <1>1, <1>3, <1>5 DEF Walking
    <2> QED BY <1>1, <1>4, <2>1 DEF Walking
  <1>7. /\ walk'.listed = walk.listed \o page /\ walk'.cursor = from + PageSize
        /\ walk'.pc = IF Len(page) = PageSize THEN "walking" ELSE "complete"
        /\ walk'.steady = walk.steady
    BY <1>1, <1>4 DEF Walking
  <1>8. SortedNames(registry') = all
    BY <1>4 DEF all
  <1>9. ASSUME walk.steady
        PROVE  IF walk'.pc = "walking" THEN /\ walk'.cursor \in 0..Len(all)
                                            /\ walk'.listed = SubSeq(all, 1, walk'.cursor)
               ELSE walk'.listed = all
    <2>1. from \in 0..Len(all) /\ walk.listed = SubSeq(all, 1, from)
      BY <1>1, <1>9 DEF SearchInv, PagesSoFar, all
    <2> HIDE DEF from
    <2>2. to \in from..Len(all)
      BY <1>3, <2>1
    <2>3. (to - from = PageSize <=> from + PageSize <= Len(all))
      BY <1>3, <2>1
    <2> HIDE DEF to
    <2>4. walk'.listed = SubSeq(all, 1, to) /\ Len(page) = to - from
      BY <1>3, <1>7, <2>1, <2>2, Pages DEF page
    <2>5. CASE from + PageSize <= Len(all)
      <3>1. to = from + PageSize /\ walk'.pc = "walking"
        BY <1>7, <2>3, <2>4, <2>5 DEF to
      <3>2. walk'.cursor = from + PageSize /\ from + PageSize \in 0..Len(all)
        BY <1>3, <1>7, <2>1, <2>5 DEF from
      <3>3. walk'.listed = SubSeq(all, 1, walk'.cursor)
        BY <2>4, <3>1, <3>2
      <3> QED BY <3>1, <3>2, <3>3
    <2>6. CASE ~(from + PageSize <= Len(all))
      <3>1. to = Len(all) /\ walk'.pc = "complete"
        BY <1>7, <2>3, <2>4, <2>6 DEF to
      <3>2. SubSeq(all, 1, Len(all)) = all
        BY <1>3
      <3> QED BY <2>4, <3>1, <3>2
    <2> QED BY <2>5, <2>6
  <1>10. PagesSoFar'
    <2>1. walk'.pc \in {"walking", "complete"}
      BY <1>7
    <2> QED BY <1>7, <1>8, <1>9, <2>1 DEF PagesSoFar
  <1> QED BY <1>4, <1>6, <1>10, WalkStep

LEMMA EndWalkInv == SearchInv /\ EndWalk => SearchInv'
  <1> SUFFICES ASSUME SearchInv, EndWalk PROVE SearchInv'
    OBVIOUS
  <1>1. walk' = NoWalk /\ UNCHANGED <<registry, index, query>>
    BY DEF EndWalk
  <1>2. PagesSoFar'
    BY <1>1 DEF PagesSoFar
  <1> QED BY <1>1, <1>2, WalkStep

LEMMA NextSearchInv == SearchInv /\ [SearchNext]_searchVars => SearchInv'
  <1> SUFFICES ASSUME SearchInv, [SearchNext]_searchVars PROVE SearchInv'
    OBVIOUS
  <1>1. CASE UNCHANGED searchVars
    BY <1>1 DEF searchVars, SearchInv, SearchFits, NamesDiffer, SearchFound, Found, SearchSound, PagesSoFar
  <1> QED
    BY <1>1, AddToolInv, AddEmbeddingInv, RemoveEmbeddingInv, RemoveToolInv, AskInv, AskIndexInv,
       LookupInv, ForgetInv, StartWalkInv, NextPageInv, EndWalkInv DEF SearchNext

LEMMA SnapshotsOnce == SearchInv => SnapshotOnce
  <1> SUFFICES ASSUME SearchInv, NEW t \in registry
               PROVE  Cardinality({u \in Snapshot(registry) :
                                     u.backend = t.backend /\ u.orig = t.orig}) = 1
    BY DEF SnapshotOnce
  <1> DEFINE same == {u \in Snapshot(registry) : u.backend = t.backend /\ u.orig = t.orig}
             twins == {u \in registry : u.backend = t.backend /\ u.orig = t.orig}
  <1>1. registry \in SUBSET Catalog /\ NamesDiffer
    BY DEF SearchInv, SearchFits
  <1>2. \E x : same = {x}
    <2>1. CASE \E x \in twins : Namespaced(x)
      <3>1. PICK x \in twins : Namespaced(x)
        BY <2>1
      <3>2. x \in same
        BY <3>1 DEF Snapshot
      <3>3. \A u \in same : Namespaced(u)
        BY <3>1 DEF Snapshot
      <3>4. \A u \in same : u = x
        BY <1>1, <3>1, <3>3, SearchAssumption DEF Snapshot, NamesDiffer
      <3> QED BY <3>2, <3>4
    <2>2. CASE \A x \in twins : ~Namespaced(x)
      <3>1. t \in same
        BY <2>2 DEF Snapshot
      <3>2. \A u \in same : u = t
        BY <1>1, <2>2 DEF Snapshot, NamesDiffer, Namespaced
      <3> QED BY <3>1, <3>2
    <2> QED BY <2>1, <2>2
  <1> HIDE DEF same
  <1>3. Cardinality(same) = 1
    BY <1>2, FS_Singleton
  <1> QED BY <1>3 DEF same

LEMMA CorrectionsOk == SearchInv => CorrectionsNear
  <1> SUFFICES ASSUME SearchInv, query.pc = "answered", NEW w \in query.q.words
               PROVE  Corrections(w, query.seen) = NearestWords(w, query.seen)
    BY DEF CorrectionsNear
  <1> DEFINE words == UNION {t.words : t \in query.seen}
             most == MaxEditDistance(Len(w))
             near == {v \in {u \in words : Len(u) >= 3} : /\ Len(v) - Len(w) \in (-most)..most
                                                         /\ Levenshtein(w, v) \in 1..most}
             nearest == {v \in near : \A u \in near : Levenshtein(w, v) <= Levenshtein(w, u)}
             around == {v \in words : Len(v) >= 3 /\ v # w /\ Distance(w, v) <= most}
  <1>1. query \in Asking
    BY DEF SearchInv, SearchFits, NoQuery
  <1>2. w \in Seq(Alphabet) /\ \A v \in words : v \in Seq(Alphabet)
    <2>1. query.seen \in SUBSET Catalog
      BY <1>1 DEF Asking
    <2> QED BY <1>1, <2>1, SearchAssumption DEF Asking
  <1>3. most \in Nat
    BY DEF MaxEditDistance
  <1>4. Corrections(w, query.seen) = IF Len(w) < 3 \/ nearest = {} THEN {w} ELSE nearest
    BY Zenon DEF Corrections
  <1>5. NearestWords(w, query.seen) =
          IF Len(w) < 3 \/ around = {} THEN {w}
          ELSE {v \in around : \A u \in around : Distance(w, v) <= Distance(w, u)}
    BY Zenon DEF NearestWords
  <1> HIDE DEF words, most
  <1>6. \A v \in words : /\ Levenshtein(w, v) = Distance(w, v) /\ Levenshtein(w, v) \in Nat
                         /\ Levenshtein(w, v) >= Len(w) - Len(v)
                         /\ Levenshtein(w, v) >= Len(v) - Len(w)
                         /\ Levenshtein(w, v) = 0 <=> v = w
                         /\ Len(v) \in Nat
    <2> SUFFICES ASSUME NEW v \in words
                 PROVE  /\ Levenshtein(w, v) = Distance(w, v) /\ Levenshtein(w, v) \in Nat
                        /\ Levenshtein(w, v) >= Len(w) - Len(v)
                        /\ Levenshtein(w, v) >= Len(v) - Len(w)
                        /\ Levenshtein(w, v) = 0 <=> v = w
                        /\ Len(v) \in Nat
      OBVIOUS
    <2>1. v \in Seq(Alphabet)
      BY <1>2
    <2>2. Levenshtein(w, v) = Distance(w, v)
      BY <1>2, <2>1, DistanceIsLeast
    <2>3. /\ Levenshtein(w, v) \in Nat
          /\ Levenshtein(w, v) >= Len(w) - Len(v)
          /\ Levenshtein(w, v) >= Len(v) - Len(w)
          /\ Levenshtein(w, v) = 0 => w = v
      BY <1>2, <2>1, DistanceBounds
    <2>4. v = w => Levenshtein(w, v) = 0
      BY <1>2, DistanceToItself
    <2>5. Len(v) \in Nat
      BY <2>1
    <2> QED BY <2>2, <2>3, <2>4, <2>5
  <1>7. near = around
    <2> SUFFICES ASSUME NEW v \in words
                 PROVE  (Len(v) - Len(w) \in (-most)..most /\ Levenshtein(w, v) \in 1..most)
                        <=> (v # w /\ Distance(w, v) <= most)
      OBVIOUS
    <2> DEFINE k == Levenshtein(w, v)
               n == Len(w)
               m == Len(v)
    <2>1. /\ k = Distance(w, v) /\ k \in Nat /\ k >= n - m /\ k >= m - n
          /\ k = 0 <=> v = w
          /\ m \in Nat
      BY <1>6
    <2>2. n \in Nat
      BY <1>2
    <2> HIDE DEF k, n, m
    <2> DEFINE d == m - n
    <2>3. d \in Int /\ k >= d /\ k >= -d
      BY <2>1, <2>2
    <2>4. (d \in (-most)..most /\ k \in 1..most) <=> (k # 0 /\ k <= most)
      <3> HIDE DEF d
      <3>1. -most \in Int /\ (k <= most => d <= most /\ -most <= d)
        BY <1>3, <2>1, <2>3
      <3>2. k \in 1..most <=> k # 0 /\ k <= most
        BY <1>3, <2>1
      <3> QED BY <1>3, <2>3, <3>1, <3>2
    <2>5. (Len(v) - Len(w) \in (-most)..most /\ Levenshtein(w, v) \in 1..most)
          <=> (k # 0 /\ k <= most)
      BY <2>4 DEF k, n, m
    <2>6. (v # w /\ Distance(w, v) <= most) <=> (k # 0 /\ k <= most)
      BY <2>1
    <2> QED BY <2>5, <2>6
  <1>8. \A v \in around : Levenshtein(w, v) = Distance(w, v) /\ Distance(w, v) \in Nat
    BY <1>6
  <1>9. nearest = {v \in around : \A u \in around : Distance(w, v) <= Distance(w, u)}
    <2> HIDE DEF around, near
    <2> QED BY <1>7, <1>8
  <1>10. nearest = {} <=> around = {}
    <2>1. ASSUME around # {} PROVE nearest # {}
      <3> DEFINE D == {Distance(w, v) : v \in around}
      <3>1. D \in SUBSET Nat /\ D # {}
        BY <1>8, <2>1
      <3> HIDE DEF D
      <3>2. PICK d \in D : \A e \in D : d <= e
        BY <3>1, LeastNumber
      <3>3. PICK v \in around : d = Distance(w, v)
        BY <3>2 DEF D
      <3>4. \A u \in around : Distance(w, v) <= Distance(w, u)
        BY <3>2, <3>3 DEF D
      <3> HIDE DEF nearest
      <3> QED BY <1>9, <3>3, <3>4
    <2>2. around = {} => nearest = {}
      <3> HIDE DEF nearest
      <3> QED BY <1>9
    <2> QED BY <2>1, <2>2
  <1> HIDE DEF nearest, around
  <1> QED BY <1>4, <1>5, <1>9, <1>10

(* What a search answers is sound whatever happens to the registry between  *)
(* its steps, a walk over the pages during which nothing changes lists      *)
(* every name once, the corrections are the nearest words by edit distance, *)
(* and the snapshot has each tool of a backend once: for any catalog,       *)
(* queries, page size and number of changes and uses.                       *)
THEOREM DiscoveryIsSound == SearchSpec => []DiscoverySound
  <1>1. SearchInv => DiscoverySound
    <2> SUFFICES ASSUME SearchInv PROVE DiscoverySound
      OBVIOUS
    <2>1. PagesComplete
      <3> SUFFICES ASSUME walk.pc = "complete", walk.steady
                   PROVE  walk.listed = SortedNames(registry)
        BY DEF PagesComplete
      <3>1. walk # NoWalk
        BY DEF NoWalk
      <3> QED BY <3>1 DEF SearchInv, PagesSoFar
    <2> QED BY <2>1, CorrectionsOk, SnapshotsOnce DEF SearchInv, DiscoverySound
  <1> QED BY <1>1, InitSearchInv, NextSearchInv, PTL DEF SearchSpec
=============================================================================
