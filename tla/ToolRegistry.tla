---------------------------- MODULE ToolRegistry ----------------------------
(***************************************************************************)
(* The tool registry (src/src/registry.rs): four concurrent maps that a    *)
(* registration or a removal changes one entry at a time, each entry under *)
(* its own lock only, while the registrations and removals of other        *)
(* backends do the same.                                                   *)
(*                                                                         *)
(* A key of the tools map is <<namespace, name>>, or <<None, name>> for a  *)
(* bare alias; an entry is the backend it sends calls to.  The owners of a *)
(* bare name are counted per <<backend, namespace>>: the code asks for the *)
(* length of that list, and for its element when there is one.             *)
(*                                                                         *)
(* Callers says what the callers of the registry may do:                   *)
(*   "boot"      tools were registered from the cache at start-up;         *)
(*   "reload"    a backend that is registered registers again;             *)
(*   "overlap"   operations on one backend run at the same time (two       *)
(*               restarts of it do).                                       *)
(***************************************************************************)
EXTENDS Integers, FiniteSets

CONSTANTS Backends, Namespace, Names, Tasks, None, Callers

ASSUME RegistryAssumption ==
    /\ DOMAIN Namespace = Backends
    /\ None \notin Backends \cup Names
    /\ None \notin {Namespace[b] : b \in Backends}

VARIABLES
    tools,     \* the backend every key resolves to
    keys,      \* backend_tools: the keys recorded for every listed backend
    listed,    \* the backends that have an entry in backend_tools
    owners,    \* bare_name_owners
    booting,   \* start-up has not begun to start backends
    offers,    \* history: the names a backend registered last
    live,      \* history: the backends whose last registration was not cached
    pc,        \* where every task is
    job,       \* the registration or removal a task carries out
    todo,      \* what the loop a task is in has left
    made       \* registered_keys, or the entry a restore has read

maps == <<tools, keys, listed, owners>>
history == <<booting, offers, live>>
vars == <<maps, history, pc, job, todo, made>>

\* The namespaces a backend registers under: cached tools use its own name.
Spaces(b) == {b, Namespace[b]}
Owners == UNION {{b} \X Spaces(b) : b \in Backends}
Keys == ((UNION {Spaces(b) : b \in Backends}) \cup {None}) \X Names
Bare(n) == <<None, n>>

\* A job registers the names of a set, from the cache or live, or removes.
Kinds == {"none", "cached", "live", "remove"}
Jobs == [kind : Kinds, backend : Backends \cup {None}, names : SUBSET Names]
NoJob == [kind |-> "none", backend |-> None, names |-> {}]
Space(j) == IF j.kind = "cached" THEN j.backend ELSE Namespace[j.backend]
Owner(j) == <<j.backend, Space(j)>>

NoOwner == [o \in Owners |-> 0]
Push(list, o) == [list EXCEPT ![o] = @ + 1]

\* Mutant of Purge: an owner that came from the cache stays.
PurgeLive(list, b) == [o \in Owners |-> IF o = <<b, Namespace[b]>> THEN 0 ELSE list[o]]
Purge(list, b) == [o \in Owners |-> IF o[1] = b THEN 0 ELSE list[o]]
Sole(list) == {o \in Owners : list = Push(NoOwner, o)}
Pair(list) == \E o, p \in Owners : list = Push(Push(NoOwner, o), p)

Crowded(list) == list # NoOwner /\ Sole(list) = {}

Steps == {"none", "purge", "drop", "insert", "own", "alias",
          "unlist", "disown", "restore", "put"}

TypeOK ==
    /\ tools \in [Keys -> Backends \cup {None}]
    /\ keys \in [Backends -> SUBSET Keys]
    /\ listed \subseteq Backends
    /\ owners \in [Names -> [Owners -> Nat]]
    /\ booting \in BOOLEAN
    /\ offers \in [Backends -> SUBSET Names]
    /\ live \subseteq Backends
    /\ pc \in [Tasks -> Steps]
    /\ job \in [Tasks -> Jobs]

Init ==
    /\ tools = [k \in Keys |-> None]
    /\ keys = [b \in Backends |-> {}]
    /\ listed = {}
    /\ owners = [n \in Names |-> NoOwner]
    /\ booting = ("boot" \in Callers)
    /\ offers = [b \in Backends |-> {}]
    /\ live = {}
    /\ pc = [t \in Tasks |-> "none"]
    /\ job = [t \in Tasks |-> NoJob]
    /\ todo = [t \in Tasks |-> {}]
    /\ made = [t \in Tasks |-> {}]

-----------------------------------------------------------------------------

Goto(t, label, rest) ==
    /\ pc' = [pc EXCEPT ![t] = label]
    /\ todo' = [todo EXCEPT ![t] = rest]

EndJob(t) ==
    /\ Goto(t, "none", {})
    /\ job' = [job EXCEPT ![t] = NoJob]
    /\ made' = [made EXCEPT ![t] = {}]

Busy(b) == \E t \in Tasks : job[t].backend = b

Begin(t, kind, b, names) ==
    /\ pc[t] = "none"
    /\ "overlap" \in Callers \/ ~Busy(b)
    /\ job' = [job EXCEPT ![t] = [kind |-> kind, backend |-> b, names |-> names]]
    /\ UNCHANGED <<maps, offers, live, made>>

-----------------------------------------------------------------------------
(* register_backend_tools_inner() *)

BeginRegister(t, kind, b, names) ==
    /\ Begin(t, kind, b, names)
    /\ IF b \in listed THEN Goto(t, "purge", Names) ELSE Goto(t, "insert", names)

\* cache::load, once, for one backend after the other, before the others start.
RegisterCached(t, b, names) ==
    /\ booting
    /\ \A u \in Tasks : pc[u] = "none"
    /\ b \notin listed
    /\ BeginRegister(t, "cached", b, names)
    /\ UNCHANGED booting

RegisterLive(t, b, names) ==
    /\ \A u \in Tasks : job[u].kind # "cached"
    /\ "reload" \in Callers \/ b \notin listed \/ b \notin live
    /\ BeginRegister(t, "live", b, names)
    /\ booting' = FALSE

\* bare_name_owners.retain(), one name at a time.
PurgeOwner(t) ==
    /\ pc[t] = "purge"
    /\ \E n \in todo[t] :
          /\ owners' = [owners EXCEPT ![n] = Purge(@, job[t].backend)]
          /\ IF todo[t] = {n} THEN Goto(t, "drop", keys[job[t].backend])
                              ELSE Goto(t, "purge", todo[t] \ {n})
    /\ UNCHANGED <<tools, keys, listed, history, job, made>>

Drop(t, next, rest) ==
    /\ pc[t] = "drop"
    /\ \/ \E k \in todo[t] :
             /\ tools' = [tools EXCEPT ![k] = None]
             /\ Goto(t, "drop", todo[t] \ {k})
       \/ /\ todo[t] = {}
          /\ Goto(t, next, rest)
          /\ UNCHANGED tools
    /\ UNCHANGED <<keys, listed, owners, history, job, made>>

\* The keys recorded for the backend leave the tools map.
DropOld(t) == job[t].kind # "remove" /\ Drop(t, "insert", job[t].names)

Insert(t) ==
    /\ pc[t] = "insert"
    /\ \E n \in todo[t] :
          LET k == <<Space(job[t]), n>> IN
          /\ tools' = [tools EXCEPT ![k] = job[t].backend]
          /\ made' = [made EXCEPT ![t] = @ \cup {k}]
          /\ Goto(t, "own", todo[t])
    /\ UNCHANGED <<keys, listed, owners, history, job>>

\* The name inserted last: its key is made and it is still to do.
Current(t) == {n \in todo[t] : <<Space(job[t]), n>> \in made[t]}

\* A cached registration goes on without an alias.
Own(t) ==
    /\ pc[t] = "own"
    /\ \E n \in Current(t) :
          /\ owners' = [owners EXCEPT ![n] = Push(@, Owner(job[t]))]
          /\ IF job[t].kind = "cached" THEN Goto(t, "insert", todo[t] \ {n})
                                       ELSE Goto(t, "alias", todo[t])
    /\ UNCHANGED <<tools, keys, listed, history, job, made>>

\* Mutant of Alias: the newest backend takes the bare name.
AliasAlways(t) ==
    /\ pc[t] = "alias"
    /\ \E n \in Current(t) :
          /\ tools' = [tools EXCEPT ![Bare(n)] = job[t].backend]
          /\ made' = [made EXCEPT ![t] = @ \cup {Bare(n)}]
          /\ Goto(t, "insert", todo[t] \ {n})
    /\ UNCHANGED <<keys, listed, owners, history, job>>

\* The guard of get() keeps the owners of the name as they are.  Its unwrap()
\* panics when there is none: nothing is modelled after that (UnwrapHolds).
Alias(t) ==
    /\ pc[t] = "alias"
    /\ \E n \in Current(t) :
          /\ owners[n] # NoOwner
          /\ \/ /\ Sole(owners[n]) # {}
                /\ tools' = [tools EXCEPT ![Bare(n)] = job[t].backend]
                /\ made' = [made EXCEPT ![t] = @ \cup {Bare(n)}]
             \/ /\ Pair(owners[n])
                /\ tools' = [tools EXCEPT ![Bare(n)] = None]
                /\ UNCHANGED made
             \/ /\ Sole(owners[n]) = {} /\ ~Pair(owners[n])
                /\ UNCHANGED <<tools, made>>
          /\ Goto(t, "insert", todo[t] \ {n})
    /\ UNCHANGED <<keys, listed, owners, history, job>>

List(t) ==
    /\ pc[t] = "insert"
    /\ todo[t] = {}
    /\ LET b == job[t].backend IN
          /\ keys' = [keys EXCEPT ![b] = made[t]]
          /\ listed' = listed \cup {b}
          /\ offers' = [offers EXCEPT ![b] = job[t].names]
          /\ live' = IF job[t].kind = "live" THEN live \cup {b} ELSE live \ {b}
    /\ EndJob(t)
    /\ UNCHANGED <<tools, owners, booting>>

-----------------------------------------------------------------------------
(* remove_backend_tools() *)

BeginRemove(t, b) ==
    /\ Begin(t, "remove", b, {})
    /\ ~booting
    /\ Goto(t, "unlist", {})
    /\ UNCHANGED booting

Unlist(t) ==
    /\ pc[t] = "unlist"
    /\ LET b == job[t].backend IN
          \/ /\ b \notin listed
             /\ EndJob(t)
             /\ UNCHANGED <<keys, listed, offers, live>>
          \/ /\ b \in listed
             /\ listed' = listed \ {b}
             /\ keys' = [keys EXCEPT ![b] = {}]
             /\ offers' = [offers EXCEPT ![b] = {}]
             /\ live' = live \ {b}
             /\ Goto(t, "drop", keys[b])
             /\ UNCHANGED <<job, made>>
    /\ UNCHANGED <<tools, owners, booting>>

DropRemoved(t) == job[t].kind = "remove" /\ Drop(t, "disown", Names)

\* retain(), one name at a time; to_restore is kept in made as <<name, owner>>.
Disown(t) ==
    /\ pc[t] = "disown"
    /\ \E n \in todo[t] :
          LET kept == Purge(owners[n], job[t].backend) IN
          /\ owners' = [owners EXCEPT ![n] = kept]
          /\ made' = [made EXCEPT ![t] = @ \cup
                        IF Crowded(owners[n]) THEN {n} \X Sole(kept) ELSE {}]
          /\ IF todo[t] = {n} THEN Goto(t, "restore", {})
                              ELSE Goto(t, "disown", todo[t] \ {n})
    /\ UNCHANGED <<tools, keys, listed, history, job>>

\* tools.get(): the entry is copied, the guard dropped, the alias put later.
ReadEntry(t) ==
    /\ pc[t] = "restore"
    /\ \E m \in made[t] :
          /\ IF tools[<<m[2][2], m[1]>>] # None
             THEN Goto(t, "put", {m})
             ELSE Goto(t, "restore", {})
          /\ made' = [made EXCEPT ![t] = @ \ {m}]
    /\ UNCHANGED <<maps, history, job>>

PutAlias(t) ==
    /\ pc[t] = "put"
    /\ \E m \in todo[t] : tools' = [tools EXCEPT ![Bare(m[1])] = m[2][1]]
    /\ Goto(t, "restore", {})
    /\ UNCHANGED <<keys, listed, owners, history, job, made>>

Removed(t) ==
    /\ pc[t] = "restore"
    /\ made[t] = {}
    /\ EndJob(t)
    /\ UNCHANGED <<maps, history>>

-----------------------------------------------------------------------------

Register(t) ==
    PurgeOwner(t) \/ DropOld(t) \/ Insert(t) \/ Own(t) \/ Alias(t) \/ List(t)

Deregister(t) ==
    Unlist(t) \/ DropRemoved(t) \/ Disown(t) \/ ReadEntry(t) \/ PutAlias(t) \/ Removed(t)

Call(t, b) ==
    \/ \E names \in SUBSET Names : RegisterCached(t, b, names) \/ RegisterLive(t, b, names)
    \/ BeginRemove(t, b)

Next == \E t \in Tasks : \/ Register(t)
                       \/ Deregister(t)
                       \/ \E b \in Backends : Call(t, b)

Spec == Init /\ [][Next]_vars

-----------------------------------------------------------------------------
(* Properties *)

Settled(b) == ~Busy(b)
Quiet == \A b \in Backends : Settled(b)

Offers(b, n) == b \in listed /\ n \in offers[b]

\* The namespace of b's last registration.
SpaceOf(b) == IF b \in live THEN Namespace[b] ELSE b

\* "Tools are always registered under their namespaced key": while no
\* operation on a backend runs, its namespaced keys are exactly those of the
\* tools it registered last, whatever other backends are doing.
NamespacedExact ==
    \A b \in Backends : Settled(b) =>
        \A s \in Spaces(b), n \in Names :
            tools[<<s, n>>] = b <=> (Offers(b, n) /\ s = SpaceOf(b))

\* Collision detection counts every backend once for every name it registered
\* (a miscount makes an alias appear or vanish much later).
OwnersExact ==
    \A b \in Backends : Settled(b) =>
        \A s \in Spaces(b), n \in Names :
            owners[n][<<b, s>>] = IF Offers(b, n) /\ s = SpaceOf(b) THEN 1 ELSE 0

\* get_by_name: "Bare names only resolve if there is no collision (single owner)".
BareNamesUnambiguous ==
    Quiet => \A n \in Names : Crowded(owners[n]) => tools[Bare(n)] = None

\* "Remove all tools belonging to a backend": no bare alias sends calls to a
\* backend that does not offer the tool.  It does not hold (README).
AliasesResolve ==
    Quiet => \A n \in Names : tools[Bare(n)] # None => Offers(tools[Bare(n)], n)

\* A bare name that a backend still offers is not rerouted to another one: it
\* stops resolving first.
KeepsRoutes ==
    \A n \in Names, b \in Backends :
        (tools[Bare(n)] = b /\ Offers(b, n) /\ Settled(b)) => tools'[Bare(n)] \in {b, None}

\* What a bare name leads to is never in doubt and never changes unannounced, however
\* the operations on two backends overlap (with three at a time it does: README).
AliasesHonest == [][KeepsRoutes /\ BareNamesUnambiguous']_vars

\* The unwrap() of a name's owners, asked for right after the backend was
\* pushed as one of them, finds them (register_backend_tools_inner).
UnwrapHolds ==
    \A t \in Tasks : pc[t] = "alias" => \A n \in Current(t) : owners[n] # NoOwner

\* The indexes of the registry agree with what was registered last, however
\* registrations and removals of any number of backends overlap.
IndexesExact == TypeOK /\ NamespacedExact /\ OwnersExact /\ UnwrapHolds
=============================================================================
