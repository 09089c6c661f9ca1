----------------------------- MODULE SandboxChain ---------------------------
(***************************************************************************)
(* call_tool_chain: the fast path for a single call, the V8 sandbox behind *)
(* its semaphore, the bridge from JavaScript to the backends, and the      *)
(* on-demand restart of a stopped backend (src/src/tools/sandbox.rs,       *)
(* src/src/sandbox).  A script calls its tools in any order and overlap;   *)
(* each call runs as a task of the main runtime, which the end of the      *)
(* script does not cancel.                                                 *)
(***************************************************************************)
EXTENDS Integers, Sequences, FiniteSets

CONSTANTS
  Chains,       \* the calls of call_tool_chain
  Codes,        \* [c -> what it may be asked to run (see Route)]
  Tools,        \* registered at the start: [backend, tool], names as sequences of characters
  Permits,      \* max_concurrent_sandboxes
  MaxOutages    \* how often a backend stops

Hosts == {t.backend : t \in Tools}      \* the backends

ASSUME ChainAssumption ==
  /\ Permits \in Nat /\ MaxOutages \in Nat
  /\ IsFiniteSet(Chains)

----------------------------------------------------------------------------
(* The bridge: names become JavaScript identifiers.                        *)

Letters == {"a", "b", "_", "$"}
Digits == {"1"}

SanitizeIdentifier(name) ==
  LET plain == [i \in DOMAIN name |-> IF name[i] \in Letters \cup Digits THEN name[i] ELSE "_"]
  IN  IF plain = <<>> THEN <<"_", "u", "n">>
      ELSE IF plain[1] \in Digits THEN <<"_">> \o plain ELSE plain

(* generate_preamble: one constant per backend, so that two backends with  *)
(* one identifier make the module fail to load; in it one method per tool, *)
(* of two with one identifier the later counts.                            *)
PreambleLoads(tools) ==
  \A t, u \in tools : t.backend # u.backend =>
    SanitizeIdentifier(t.backend) # SanitizeIdentifier(u.backend)

Accessors(tools, js) ==
  {t \in tools : /\ SanitizeIdentifier(t.backend) = js.backend
                 /\ SanitizeIdentifier(t.tool) = js.tool}

(* __getToolInterface looks a tool up by the identifier of its backend and *)
(* its original name, or by its bare name in every backend.                *)
ToolInterface(tools, dotted) ==
  IF Len(dotted) = 2
  THEN {t \in tools : SanitizeIdentifier(t.backend) = dotted[1] /\ t.tool = dotted[2]}
  ELSE {t \in tools : <<t.tool>> = dotted}

----------------------------------------------------------------------------
(* Which path a code takes.  A code is [form, lines, statements, result,   *)
(* args, calls]: form "json" is {"tool": ...}, "introspect" is             *)
(* __getToolInterface("..."), "call" is one expression `backend.tool(...)` *)
(* with optional declaration, await and return, "script" is anything else; *)
(* result "ident" is a trailing `return <identifier>`; args is "json" when *)
(* they parse as JSON, "none" when empty.                                  *)

NormalizeSimpleCall(code) ==
  /\ code.form = "call" /\ code.lines = 1
  /\ code.statements = 1 \/ (code.statements = 2 /\ code.result = "ident")

Route(code, tools) ==
  CASE code.form = "json" -> "direct"
    [] code.form = "introspect"
         /\ ToolInterface(tools, code.dotted) # {} -> "introspect"
    [] NormalizeSimpleCall(code) /\ code.args \in {"json", "none"} -> "direct"
    [] OTHER -> "v8"

(* enhance_sandbox_error: the hint that is added to an error of V8, the    *)
(* first pattern that matches.  An error is [pattern, name].               *)
MetaTools == {"gatemini", "search_tools", "tool_info", "list_tools_meta"}

Hint(err, tools) ==
  LET names == {t.backend : t \in tools}
                 \cup {SanitizeIdentifier(t.backend) : t \in tools}
      dashed(n) == [i \in DOMAIN n |-> IF n[i] = "_" THEN "-" ELSE n[i]]
      lined(n) == [i \in DOMAIN n |-> IF n[i] = "-" THEN "_" ELSE n[i]]
  IN  CASE err.pattern = "uninitialized" /\ err.name \in names -> "shadowed"
        [] err.pattern = "undefined"
             /\ \E n \in names : err.name \in {n, dashed(n), lined(n)} -> "did you mean"
        [] err.pattern = "unavailable" -> "check the backend"
        [] err.pattern = "undefined" /\ err.name \in MetaTools -> "meta tool"
        [] err.pattern = "undefined" /\ err.name \notin names -> "not defined"
        [] OTHER -> "none"

----------------------------------------------------------------------------
VARIABLES
  host,        \* [b -> "up", "stopped", "down" (not registered), "starting"]
  outages,
  permits,     \* free permits of the sandbox semaphore
  chain,       \* [c -> record, see Fresh]
  calls        \* [c -> sequence of its tool calls, see ACall]
chainVars == <<host, outages, permits, chain, calls>>

Fresh == [pc |-> "new", code |-> <<>>, tools |-> {}, answer |-> "none"]

(* A tool call: pc is "todo", "sent" (call_tool has been spawned), "runs"  *)
(* (the backend executes it), "cut" (its backend has gone), "stopped" (it  *)
(* was refused), "restart", "bringup", "again" (the retry is sent) and     *)
(* "done"; tries counts dispatches, runs executions.                       *)
ACall(b) == [b |-> b, pc |-> "todo", tries |-> 0, runs |-> 0, result |-> "none"]

ChainInit ==
  /\ host = [b \in Hosts |-> "up"] /\ outages = 0
  /\ permits = Permits
  /\ chain = [c \in Chains |-> Fresh] /\ calls = [c \in Chains |-> <<>>]

Answered(c) == chain[c].pc = "answered"
Answer(c, a) == chain' = [chain EXCEPT ![c] = [@ EXCEPT !.pc = "answered", !.answer = a]]

(* The registry is asked for the tool of a direct call.                    *)
Registered(code) == code.calls[1].backend \in Hosts

(* handle_call_tool_chain: the direct path needs no permit.                *)
Submit(c) ==
  /\ chain[c].pc = "new"
  /\ \E code \in Codes[c] :
       LET route == Route(code, Tools)
           found == route = "direct" /\ Registered(code)
       IN
       /\ chain' = [chain EXCEPT ![c] =
            [pc |-> CASE found -> "direct"
                      [] route = "v8" -> "waiting"
                      [] OTHER -> "answered",
             code |-> code, tools |-> {},
             answer |-> CASE route = "introspect" -> "ok"
                          [] route = "direct" /\ ~found -> "error"
                          [] OTHER -> "none"]]
       /\ calls' = [calls EXCEPT ![c] = IF found THEN <<ACall(code.calls[1].backend)>> ELSE <<>>]
  /\ UNCHANGED <<host, outages, permits>>

(* The wait for a permit ends with the permit or with the call's timeout.  *)
TakePermit(c) ==
  /\ chain[c].pc = "waiting" /\ permits > 0
  /\ permits' = permits - 1
  /\ chain' = [chain EXCEPT ![c].pc = "loading"]
  /\ UNCHANGED <<host, outages, calls>>

PermitTimeout(c) ==
  /\ chain[c].pc = "waiting"
  /\ Answer(c, "busy")
  /\ UNCHANGED <<host, outages, permits, calls>>

(* execute() snapshots the registry; the thread builds the module from it: *)
(* a call of an accessor that does not exist ends the script.              *)
LoadModule(c) ==
  LET code == chain[c].code
      known == \A i \in DOMAIN code.calls : Accessors(Tools, code.calls[i].js) # {}
  IN  /\ chain[c].pc = "loading"
      /\ IF PreambleLoads(Tools) /\ known
         THEN /\ chain' = [chain EXCEPT ![c] = [@ EXCEPT !.pc = "running", !.tools = Tools]]
              /\ calls' = [calls EXCEPT ![c] = [i \in DOMAIN code.calls |->
                     ACall((CHOOSE t \in Accessors(Tools, code.calls[i].js) : TRUE).backend)]]
              /\ UNCHANGED permits
         ELSE /\ Answer(c, Hint([pattern |-> "undefined",
                                 name |-> code.calls[1].js.backend], Tools))
              /\ permits' = permits + 1
              /\ UNCHANGED calls
      /\ UNCHANGED <<host, outages>>

Active(c) == chain[c].pc \in {"direct", "running"}
Set(c, i, r) == calls' = [calls EXCEPT ![c][i] = r]
KeepHosts == UNCHANGED <<host, outages>>

(* __call_tool spawns call_tool on the main runtime.                       *)
Send(c, i) ==
  /\ Active(c) /\ calls[c][i].pc \in {"todo", "again"}
  /\ Set(c, i, [calls[c][i] EXCEPT !.pc = "sent", !.tries = @ + 1])
  /\ UNCHANGED <<permits, chain>> /\ KeepHosts

(* The spawned task goes on when the script has ended.                     *)
Reach(c, i) ==
  LET k == calls[c][i]
      s == host[k.b]
  IN  /\ k.pc = "sent"
      /\ Set(c, i, CASE s = "up" -> [k EXCEPT !.pc = "runs", !.runs = @ + 1]
                     [] s = "stopped" -> [k EXCEPT !.pc = "stopped"]
                     [] s \in {"down", "starting"} -> [k EXCEPT !.pc = "done", !.result = "error"])
      /\ UNCHANGED <<permits, chain>> /\ KeepHosts

(* The backend's result; an error text may itself read like the one of a   *)
(* stopped backend.  A call whose instance is gone fails.                  *)
Return(c, i) ==
  LET k == calls[c][i]
      results == IF k.pc = "runs" THEN {"ok", "error", "reads stopped"} ELSE {"error"}
  IN  /\ k.pc \in {"runs", "cut"}
      /\ \E r \in results :
           Set(c, i, IF r = "reads stopped" THEN [k EXCEPT !.pc = "stopped"]
                     ELSE [k EXCEPT !.pc = "done", !.result = r])
      /\ UNCHANGED <<permits, chain>> /\ KeepHosts

(* The first refusal restarts the backend, the second one is the result.   *)
Refused(c, i) ==
  LET k == calls[c][i]
  IN  /\ Active(c) /\ k.pc = "stopped"
      /\ Set(c, i, IF k.tries = 1 THEN [k EXCEPT !.pc = "restart"]
                   ELSE [k EXCEPT !.pc = "done", !.result = "error"])
      /\ UNCHANGED <<permits, chain>> /\ KeepHosts

(* The calls a backend executes end with it.                               *)
CutCalls(b) ==
  [d \in Chains |-> [j \in DOMAIN calls[d] |->
     IF calls[d][j].b = b /\ calls[d][j].pc = "runs"
     THEN [calls[d][j] EXCEPT !.pc = "cut"] ELSE calls[d][j]]]

(* Mutant: only a backend that is still stopped is torn down.              *)
TearDownStopped(c, i) ==
  LET k == calls[c][i]
  IN  /\ k.pc = "restart" /\ host[k.b] = "stopped"
      /\ host' = [host EXCEPT ![k.b] = "starting"]
      /\ calls' = [CutCalls(k.b) EXCEPT ![c][i].pc = "bringup"]
      /\ UNCHANGED <<outages, permits, chain>>

(* restart_backend removes what runs under the name and starts anew, also  *)
(* when another call has just done so.                                     *)
TearDown(c, i) ==
  LET k == calls[c][i]
  IN  /\ k.pc = "restart"
      /\ host' = [host EXCEPT ![k.b] = "starting"]
      /\ calls' = [CutCalls(k.b) EXCEPT ![c][i].pc = "bringup"]
      /\ UNCHANGED <<outages, permits, chain>>

BringUp(c, i) ==
  LET k == calls[c][i]
  IN  /\ k.pc = "bringup"
      /\ \/ /\ host' = [host EXCEPT ![k.b] = "up"]
            /\ Set(c, i, [k EXCEPT !.pc = "again"])
         \/ /\ host' = [host EXCEPT ![k.b] = "down"]
            /\ Set(c, i, [k EXCEPT !.pc = "done", !.result = "error"])
      /\ UNCHANGED <<outages, permits, chain>>

(* The result of the chain: the call's on the direct path, the value the   *)
(* script makes of its calls otherwise (a thrown error is a value too).    *)
Finish(c) ==
  /\ Active(c)
  /\ \A i \in DOMAIN calls[c] : calls[c][i].pc = "done"
  /\ Answer(c, IF chain[c].pc = "direct" THEN calls[c][1].result ELSE "value")
  /\ permits' = IF chain[c].pc = "running" THEN permits + 1 ELSE permits
  /\ UNCHANGED calls /\ KeepHosts

(* Mutant: the permit is not given back.                                   *)
ScriptTimeoutLeaks(c) ==
  /\ chain[c].pc = "running"
  /\ Answer(c, "timeout")
  /\ UNCHANGED <<permits, calls>> /\ KeepHosts

(* V8 ends a script that takes too long; the thread and the permit go, the *)
(* tasks it has spawned do not.                                            *)
ScriptTimeout(c) ==
  /\ chain[c].pc = "running"
  /\ Answer(c, "timeout")
  /\ permits' = permits + 1
  /\ UNCHANGED calls /\ KeepHosts

(* External: a backend stops, by itself or by the health checker.          *)
Outage(b) ==
  /\ host[b] = "up" /\ outages < MaxOutages
  /\ host' = [host EXCEPT ![b] = "stopped"] /\ outages' = outages + 1
  /\ calls' = CutCalls(b)
  /\ UNCHANGED <<permits, chain>>

CallStep(c) ==
  \E i \in DOMAIN calls[c] : \/ Send(c, i) \/ Reach(c, i) \/ Return(c, i) \/ Refused(c, i)
                             \/ TearDown(c, i) \/ BringUp(c, i)

ChainStep(c) == Submit(c) \/ TakePermit(c) \/ LoadModule(c) \/ CallStep(c) \/ Finish(c)

ChainNext ==
  \/ \E c \in Chains : ChainStep(c) \/ PermitTimeout(c) \/ ScriptTimeout(c)
  \/ \E b \in Hosts : Outage(b)

(* The tasks run; both timeouts of a chain elapse.                         *)
ChainFairness ==
  \A c \in Chains :
    /\ WF_chainVars(TakePermit(c) \/ LoadModule(c) \/ CallStep(c) \/ Finish(c))
    /\ WF_chainVars(PermitTimeout(c)) /\ WF_chainVars(ScriptTimeout(c))

ChainSpec == ChainInit /\ [][ChainNext]_chainVars /\ ChainFairness

----------------------------------------------------------------------------
(* Every permit is free or held by exactly one script that has not been    *)
(* answered, so that at most Permits isolates run and none leaks.  A tool  *)
(* call is executed again only after an execution that ended in an error,  *)
(* never after one that may still run, and at most twice.                  *)
PermitsConserved ==
  permits + Cardinality({c \in Chains : chain[c].pc \in {"loading", "running"}}) = Permits

AtMostOneRetry ==
  \A c \in Chains : \A i \in DOMAIN calls[c] :
    LET k == calls[c][i] IN k.tries <= 2 /\ k.runs <= k.tries

(* A script calls the tool its accessor names, whatever the names are.     *)
AccessorsAgree ==
  \A c \in Chains : chain[c].pc = "running" =>
    \A i \in DOMAIN calls[c] :
      LET js == chain[c].code.calls[i].js
      IN  \E t \in chain[c].tools : /\ t.backend = calls[c][i].b
                                    /\ SanitizeIdentifier(t.backend) = js.backend
                                    /\ SanitizeIdentifier(t.tool) = js.tool

ChainsSafe == PermitsConserved /\ AtMostOneRetry /\ AccessorsAgree

(* Every chain is answered: no chain waits for ever for a permit, for a    *)
(* backend that has been torn down, or for a restart.                      *)
ChainsAnswered == \A c \in Chains : chain[c].pc # "new" ~> Answered(c)
=============================================================================
