-------------------------------- MODULE Reload --------------------------------
(***************************************************************************)
(* The set of backends while the gateway runs: the watcher of the          *)
(* configuration file (src/src/config.rs), the meta tools register_manual  *)
(* and deregister_manual (src/src/tools/register.rs, src/src/server.rs)    *)
(* and the operations of the manager they call (src/src/backend/mod.rs).   *)
(*                                                                         *)
(* A backend's configuration is a version of it, 0 when it is absent;      *)
(* Template is the one a client registers.  A file that does not parse, is *)
(* not valid or has secrets that cannot be resolved is an invalid file.    *)
(***************************************************************************)
EXTENDS Naturals, FiniteSets

CONSTANTS Names,         \* names of backends
          Static,        \* those in the file at the start
          Listed,        \* those an edit of the file is about
          Versions,      \* versions of a backend's configuration in the file
          Wanted,        \* the names clients register
          Clients,       \* tasks that call the meta tools
          MaxDynamic,    \* max_dynamic_backends
          MaxEdits,      \* bound: changes of the file
          MaxCalls       \* bound: calls of the meta tools

ASSUME ReloadAssumption ==
    /\ Static \subseteq Names /\ Listed \subseteq Names /\ Wanted \subseteq Names
    /\ Versions \subseteq Nat \ {0} /\ 1 \in Versions
    /\ MaxDynamic \in Nat /\ MaxEdits \in Nat /\ MaxCalls \in Nat
    /\ IsFiniteSet(Names) /\ IsFiniteSet(Clients) /\ Clients # {}

Template == 99
Idle == [pc |-> "wait", new |-> [valid |-> FALSE], todo |-> [remove |-> {}, change |-> {}, add |-> {}],
         name |-> "none"]

VARIABLES
    file,       \* the file: valid or not, the backends in it, its aliases
    event,      \* the channel of the file watcher, which holds one message
    watch,      \* the watcher
    current,    \* the shared configuration
    configs,    \* the manager's configurations
    tools,      \* the registered tools of every backend, by version
    aliases,    \* the registry's aliases
    dynamic,    \* dynamic_backends
    client,     \* every client: where it is, and the backend it is about
    edits, calls,
    down        \* shutdown_notify was used

reloadVars == <<file, event, watch, current, configs, tools, aliases, dynamic, client, edits, calls, down>>
managerVars == <<configs, tools, dynamic>>

Files == [valid : BOOLEAN, of : [Names -> Versions \cup {0}], aliases : 0..1]

ReloadTypeOK ==
    /\ file \in Files /\ current \in Files /\ event \in BOOLEAN
    /\ watch.pc \in {"wait", "settle", "load", "apply", "adding", "removing", "readding", "finish", "stopped"}
    /\ configs \in [Names -> Versions \cup {0, Template}] /\ tools \in [Names -> Versions \cup {0, Template}]
    /\ aliases \in 0..1 /\ dynamic \subseteq Names

ReloadInit ==
    /\ file = [valid |-> TRUE, of |-> [n \in Names |-> IF n \in Static THEN 1 ELSE 0], aliases |-> 0]
    /\ current = file /\ event = FALSE /\ watch = Idle
    /\ configs = file.of /\ tools = file.of /\ aliases = 0 /\ dynamic = {}
    /\ client = [c \in Clients |-> [pc |-> "idle", name |-> "none"]]
    /\ edits = 0 /\ calls = 0 /\ down = FALSE

-----------------------------------------------------------------------------
(* The manager.                                                            *)

\* add_backend: what was there goes, the configuration is stored, and the start
\* takes its time.
BeginAdd(n, v) ==
    /\ configs' = [configs EXCEPT ![n] = v]
    /\ tools' = [tools EXCEPT ![n] = 0]
    /\ UNCHANGED dynamic

\* It registers the tools, or fails and leaves the configuration.
EndAdd(n, v) ==
    /\ tools' \in {tools, [tools EXCEPT ![n] = v]}
    /\ UNCHANGED <<configs, dynamic>>

\* remove_backend: instance and tools, then the configuration and the dynamic mark.
BeginRemove(n) ==
    /\ tools' = [tools EXCEPT ![n] = 0]
    /\ UNCHANGED <<configs, dynamic>>

EndRemove(n) ==
    /\ configs' = [configs EXCEPT ![n] = 0]
    /\ dynamic' = dynamic \ {n}
    /\ UNCHANGED tools

-----------------------------------------------------------------------------
(* The file and its watcher.                                               *)

\* The message is dropped when one is already waiting.
Edit ==
    /\ edits < MaxEdits
    /\ \/ \E n \in Listed, v \in Versions \cup {0} : file' = [file EXCEPT !.of[n] = v, !.valid = TRUE]
       \/ \E a \in 0..1 : file' = [file EXCEPT !.aliases = a, !.valid = TRUE]
       \/ file' = [file EXCEPT !.valid = FALSE]
    /\ event' = TRUE /\ edits' = edits + 1
    /\ UNCHANGED <<watch, current, managerVars, aliases, client, calls, down>>

WatchStep(from, to) == watch.pc = from /\ watch' = [watch EXCEPT !.pc = to]
Outside == UNCHANGED <<file, client, edits, calls, down>>

Notice ==
    /\ event /\ WatchStep("wait", "settle") /\ event' = FALSE
    /\ UNCHANGED <<current, managerVars, aliases>> /\ Outside

\* After 500 ms the messages of the same change are thrown away.
Settle ==
    /\ WatchStep("settle", "load") /\ event' = FALSE
    /\ UNCHANGED <<current, managerVars, aliases>> /\ Outside

\* Mutant: only the names are compared.
DiffNames(old, new) ==
    [remove |-> {n \in Names : old[n] # 0 /\ new[n] = 0}, change |-> {},
     add    |-> {n \in Names : old[n] = 0 /\ new[n] # 0}]

\* diff_backends
Diff(old, new) ==
    [remove |-> {n \in Names : old[n] # 0 /\ new[n] = 0},
     change |-> {n \in Names : old[n] # 0 /\ new[n] # 0 /\ old[n] # new[n]},
     add    |-> {n \in Names : old[n] = 0 /\ new[n] # 0}]

Nothing == [remove |-> {}, change |-> {}, add |-> {}]

\* An invalid file changes nothing.
Load ==
    /\ watch.pc = "load"
    /\ watch' = IF file.valid THEN [watch EXCEPT !.pc = "apply", !.new = file, !.todo = Diff(current.of, file.of)]
                              ELSE Idle
    /\ UNCHANGED <<event, current, managerVars, aliases>> /\ Outside

\* Backends that left the file go first, then the changed ones are replaced, then the
\* new ones are added, one at a time.
ApplyNext ==
    /\ watch.pc = "apply"
    /\ UNCHANGED <<event, current, aliases>> /\ Outside
    /\ \/ \E n \in watch.todo.remove :
            /\ watch' = [watch EXCEPT !.pc = "removing", !.name = n, !.todo.remove = @ \ {n}]
            /\ BeginRemove(n)
       \/ /\ watch.todo.remove = {}
          /\ \E n \in watch.todo.change :
               /\ watch' = [watch EXCEPT !.pc = "readding", !.name = n, !.todo.change = @ \ {n}]
               /\ BeginRemove(n)
       \/ /\ watch.todo.remove = {} /\ watch.todo.change = {}
          /\ \E n \in watch.todo.add :
               /\ watch' = [watch EXCEPT !.pc = "adding", !.name = n, !.todo.add = @ \ {n}]
               /\ BeginAdd(n, watch.new.of[n])
       \/ /\ watch.todo = Nothing
          /\ watch' = [watch EXCEPT !.pc = "finish"]
          /\ UNCHANGED managerVars

WatcherRemoved ==
    /\ WatchStep("removing", "apply") /\ EndRemove(watch.name)
    /\ UNCHANGED <<event, current, aliases>> /\ Outside

\* The second half of a replacement.
WatcherReadds ==
    /\ watch.pc = "readding"
    /\ watch' = [watch EXCEPT !.pc = "adding"]
    /\ configs' = [configs EXCEPT ![watch.name] = watch.new.of[watch.name]]
    /\ tools' = [tools EXCEPT ![watch.name] = 0]
    /\ dynamic' = dynamic \ {watch.name}
    /\ UNCHANGED <<event, current, aliases>> /\ Outside

WatcherAdded ==
    /\ WatchStep("adding", "apply") /\ EndAdd(watch.name, watch.new.of[watch.name])
    /\ UNCHANGED <<event, current, aliases>> /\ Outside

\* Mutant: what arrived during the reload is taken for the same change.
FinishDrained ==
    /\ watch.pc = "finish" /\ event' = FALSE
    /\ aliases' = IF watch.new.aliases # current.aliases THEN watch.new.aliases ELSE aliases
    /\ current' = watch.new
    /\ watch' = Idle
    /\ UNCHANGED managerVars /\ Outside

\* Aliases come last; the new configuration is stored even if a backend did not start.
Finish ==
    /\ watch.pc = "finish"
    /\ aliases' = IF watch.new.aliases # current.aliases THEN watch.new.aliases ELSE aliases
    /\ current' = watch.new
    /\ watch' = Idle
    /\ UNCHANGED <<event, managerVars>> /\ Outside

\* notify_waiters() wakes the watcher only while it waits; nothing is remembered.
Shutdown ==
    /\ ~down /\ down' = TRUE
    /\ watch' = IF watch.pc = "wait" THEN [Idle EXCEPT !.pc = "stopped"] ELSE watch
    /\ UNCHANGED <<file, event, current, managerVars, aliases, client, edits, calls>>

-----------------------------------------------------------------------------
(* The meta tools.                                                         *)

ClientStep(c, from, to) == client[c].pc = from /\ client' = [client EXCEPT ![c].pc = to]
Inside(c) == UNCHANGED <<file, event, watch, current, aliases, edits, calls, down>>

Call(c, to) ==
    /\ client[c].pc = "idle" /\ calls < MaxCalls /\ calls' = calls + 1
    /\ \E n \in Wanted : client' = [client EXCEPT ![c] = [pc |-> to, name |-> n]]
    /\ UNCHANGED <<file, event, watch, current, managerVars, aliases, edits, down>>

\* Mutant: the limit is not looked at.
CheckNothing(c) ==
    /\ client[c].pc = "check"
    /\ client' = [client EXCEPT ![c].pc = "register"]
    /\ UNCHANGED managerVars /\ Inside(c)

\* A known dynamic backend may be registered again; else the limit decides.
CheckLimit(c) ==
    /\ client[c].pc = "check"
    /\ client' = [client EXCEPT ![c].pc =
         IF client[c].name \notin dynamic /\ Cardinality(dynamic) >= MaxDynamic THEN "idle" ELSE "register"]
    /\ UNCHANGED managerVars /\ Inside(c)

Register(c) == ClientStep(c, "register", "starting") /\ BeginAdd(client[c].name, Template) /\ Inside(c)

\* An error of the start ends the call before the mark.
Registered(c) ==
    /\ client[c].pc = "starting"
    /\ \/ /\ client' = [client EXCEPT ![c].pc = "mark"]
          /\ tools' = [tools EXCEPT ![client[c].name] = Template]
       \/ /\ client' = [client EXCEPT ![c].pc = "idle"]
          /\ UNCHANGED tools
    /\ UNCHANGED <<configs, dynamic>> /\ Inside(c)

Mark(c) ==
    /\ ClientStep(c, "mark", "idle")
    /\ dynamic' = dynamic \cup {client[c].name}
    /\ UNCHANGED <<configs, tools>> /\ Inside(c)

\* Only what is marked dynamic can be deregistered.
CheckDynamic(c) ==
    /\ client[c].pc = "ask"
    /\ client' = [client EXCEPT ![c].pc = IF client[c].name \in dynamic THEN "remove" ELSE "idle"]
    /\ UNCHANGED managerVars /\ Inside(c)

Deregister(c) == ClientStep(c, "remove", "removing") /\ BeginRemove(client[c].name) /\ Inside(c)
Deregistered(c) == ClientStep(c, "removing", "idle") /\ EndRemove(client[c].name) /\ Inside(c)

-----------------------------------------------------------------------------

WatcherStep ==
    \/ Notice \/ Settle \/ Load \/ ApplyNext \/ WatcherRemoved \/ WatcherReadds \/ WatcherAdded \/ Finish

ClientNext(c) ==
    \/ Call(c, "check") \/ Call(c, "ask") \/ CheckLimit(c) \/ Register(c) \/ Registered(c) \/ Mark(c)
    \/ CheckDynamic(c) \/ Deregister(c) \/ Deregistered(c)

ReloadNext == Edit \/ WatcherStep \/ Shutdown \/ \E c \in Clients : ClientNext(c)

\* The watcher's task goes on.
ReloadFairness == WF_reloadVars(WatcherStep)
ReloadSpec == ReloadInit /\ [][ReloadNext]_reloadVars /\ ReloadFairness

-----------------------------------------------------------------------------
(* Properties.                                                             *)

\* Once the watcher has nothing to do, every backend no client asked for has the
\* configuration of the file, and only tools of that configuration are listed; the
\* aliases are the file's.  An invalid file leaves all of it as it was.
FileApplied ==
    /\ ReloadTypeOK
    /\ watch.pc = "wait" =>
         /\ aliases = current.aliases
         /\ \A n \in Names \ Wanted : configs[n] = current.of[n] /\ tools[n] \in {0, configs[n]}

\* The last edit of the file is applied, also when it came while an earlier one was
\* being applied and its message was dropped or taken for the same change.
EditsApplied == <>[](down \/ ~file.valid \/ current = file)

\* One client after another: never more than max_dynamic_backends, whatever is
\* registered again, deregistered or taken over by the file.
DynamicLimit == Cardinality(dynamic) <= MaxDynamic

\* "Statically configured backends (from the config file) are protected"
\* (register.rs:190-191): deregister_manual removes no backend of the file.  It does
\* not hold (README).
StaticProtected ==
    [][\A c \in Clients : client[c].pc = "remove" /\ client'[c].pc = "removing"
            => current.of[client[c].name] = 0]_reloadVars

=============================================================================
