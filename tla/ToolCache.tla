------------------------------- MODULE ToolCache -------------------------------
(***************************************************************************)
(* The tool cache (src/src/cache.rs) and the call tracker whose counts it  *)
(* carries (src/src/tracker.rs), over runs of the gateway: startup, the    *)
(* health checker, hot reload and the meta tools all save it.              *)
(*                                                                         *)
(* The registry is a version that grows by one with every registration.    *)
(* A file is an inode: save() opens cache.tmp, writes it and renames it,   *)
(* and every save uses the same cache.tmp.                                 *)
(***************************************************************************)
EXTENDS Naturals, Sequences, SequencesExt, FiniteSets, FiniteSetsExt

CONSTANTS Savers,       \* the tasks that save
          Callers,      \* the tasks that call tools
          MaxRecent,    \* the capacity of the ring of recent calls
          MaxVersions,  \* bound: registrations
          MaxSaves,     \* bound: saves, and so inodes
          MaxRecords    \* bound: calls

ASSUME CacheAssumption ==
    /\ MaxRecent \in Nat \ {0} /\ MaxVersions \in Nat /\ MaxSaves \in Nat /\ MaxRecords \in Nat
    /\ IsFiniteSet(Savers) /\ IsFiniteSet(Callers)

Inodes == 1..MaxSaves

VARIABLES
    parallel,  \* whether saves overlap in this behaviour
    registry,  \* the version of the registry, 0 when it is empty
    path,      \* the inode of cache.json, 0 when there is none
    tmp,       \* the inode of cache.tmp, 0 when there is none
    content,   \* inode -> what it holds
    saver,     \* every save: where it is, its snapshot, its open file
    saves,
    saved,     \* the version of the last save that was renamed
    cut,       \* a save has failed or was killed, perhaps beside another
    recent, usage, latency, \* the tracker: ring, counts, histogram sizes
    caller,    \* every recording call: where it is
    records

cacheVars == <<parallel, registry, path, tmp, content, saver, saves, saved, cut>>
trackerVars == <<recent, usage, latency, caller, records>>
toolCacheVars == <<cacheVars, trackerVars>>

Absent == [state |-> "empty", of |-> 0]
NoSave == [pc |-> "idle", of |-> 0, fd |-> 0]

CacheTypeOK ==
    /\ registry \in 0..MaxVersions /\ path \in Inodes \cup {0} /\ tmp \in Inodes \cup {0}
    /\ content \in [Inodes -> [state : {"empty", "part", "whole"}, of : 0..MaxVersions]]
    /\ \A s \in Savers : saver[s].pc \in {"idle", "open", "write", "written", "rename"}

CacheInit ==
    /\ parallel \in BOOLEAN /\ cut = FALSE
    /\ registry = 0 /\ path = 0 /\ tmp = 0 /\ saves = 0 /\ saved = 0
    /\ content = [i \in Inodes |-> Absent]
    /\ saver = [s \in Savers |-> NoSave]
    /\ recent = <<>> /\ usage = 0 /\ latency = 0 /\ records = 0
    /\ caller = [c \in Callers |-> "idle"]

-----------------------------------------------------------------------------
(* save()                                                                  *)

RegisterTools ==
    /\ registry < MaxVersions /\ registry' = registry + 1
    /\ UNCHANGED <<parallel, path, tmp, content, saver, saves, saved, cut, trackerVars>>

\* The snapshot is taken before the file is opened; the usage counts of the snapshot
\* are none, as no caller of save() passes the tracker.
Snapshot(s) ==
    /\ saver[s].pc = "idle" /\ saves < MaxSaves /\ saves' = saves + 1
    /\ parallel \/ \A t \in Savers : saver[t].pc = "idle"
    /\ saver' = [saver EXCEPT ![s] = [pc |-> "open", of |-> registry, fd |-> 0]]
    /\ UNCHANGED <<parallel, registry, path, tmp, content, saved, cut, trackerVars>>

\* Open and truncate cache.tmp, another save's perhaps.
OpenTmp(s) ==
    /\ saver[s].pc = "open"
    /\ LET fresh == CHOOSE i \in Inodes : i # path /\ i # tmp /\ \A t \in Savers : saver[t].fd # i
           i == IF tmp # 0 THEN tmp ELSE fresh IN
       /\ tmp' = i
       /\ content' = [content EXCEPT ![i] = Absent]
       /\ saver' = [saver EXCEPT ![s].pc = "write", ![s].fd = i]
    /\ UNCHANGED <<parallel, registry, path, saves, saved, cut, trackerVars>>

\* A write in two parts: what another save put into the same inode is overwritten.
WritePart(s) ==
    /\ saver[s].pc = "write"
    /\ content' = [content EXCEPT ![saver[s].fd] = [state |-> "part", of |-> saver[s].of]]
    /\ saver' = [saver EXCEPT ![s].pc = "written"]
    /\ UNCHANGED <<parallel, registry, path, tmp, saves, saved, cut, trackerVars>>

WriteRest(s) ==
    /\ saver[s].pc = "written"
    /\ content' = [content EXCEPT ![saver[s].fd] = [state |-> "whole", of |-> saver[s].of]]
    /\ saver' = [saver EXCEPT ![s].pc = "rename"]
    /\ UNCHANGED <<parallel, registry, path, tmp, saves, saved, cut, trackerVars>>

\* Mutant: renamed as soon as it is open.
RenameEarly(s) ==
    /\ saver[s].pc = "write"
    /\ path' = tmp /\ tmp' = 0
    /\ saver' = [saver EXCEPT ![s].pc = "written"]
    /\ saved' = saver[s].of
    /\ UNCHANGED <<parallel, registry, content, saves, cut, trackerVars>>

\* The rename moves whatever cache.tmp is by now; there may be none.
Rename(s) ==
    /\ saver[s].pc = "rename"
    /\ IF tmp = 0 THEN UNCHANGED <<path, tmp, saved>>
                  ELSE path' = tmp /\ tmp' = 0 /\ saved' = saver[s].of
    /\ saver' = [saver EXCEPT ![s] = NoSave]
    /\ UNCHANGED <<parallel, registry, content, saves, cut, trackerVars>>

\* Writing, serializing or creating the file fails: the save ends where it is.
SaveFails(s) ==
    /\ saver[s].pc \in {"open", "write", "written"}
    /\ saver' = [saver EXCEPT ![s] = NoSave] /\ cut' = TRUE
    /\ UNCHANGED <<parallel, registry, path, tmp, content, saves, saved, trackerVars>>

\* The gateway ends at any point and starts again: load() takes a cache that parses,
\* and the tracker starts with the counts in it, which are none.
Restart ==
    /\ saver' = [s \in Savers |-> NoSave]
    /\ registry' = IF path # 0 /\ content[path].state = "whole" THEN content[path].of ELSE 0
    /\ recent' = <<>> /\ usage' = 0 /\ latency' = 0
    /\ caller' = [c \in Callers |-> "idle"]
    /\ cut' = (cut \/ \E s \in Savers : saver[s].pc # "idle")
    /\ UNCHANGED <<parallel, path, tmp, content, saves, saved, records>>

-----------------------------------------------------------------------------
(* CallTracker::record(), one structure after the other.                   *)

\* Mutant: room is made only when the ring has outgrown its capacity.
PushLate(c) ==
    /\ caller[c] = "idle" /\ records < MaxRecords /\ records' = records + 1
    /\ recent' = Append(IF Len(recent) > MaxRecent THEN Tail(recent) ELSE recent, records')
    /\ caller' = [caller EXCEPT ![c] = "count"]
    /\ UNCHANGED <<usage, latency, cacheVars>>

Push(c) ==
    /\ caller[c] = "idle" /\ records < MaxRecords /\ records' = records + 1
    /\ recent' = Append(IF Len(recent) >= MaxRecent THEN Tail(recent) ELSE recent, records')
    /\ caller' = [caller EXCEPT ![c] = "count"]
    /\ UNCHANGED <<usage, latency, cacheVars>>

CountUse(c) ==
    /\ caller[c] = "count" /\ usage' = usage + 1
    /\ caller' = [caller EXCEPT ![c] = "latency"]
    /\ UNCHANGED <<recent, latency, records, cacheVars>>

\* A call of more than ten minutes is out of the histogram's range.
RecordLatency(c) ==
    /\ caller[c] = "latency" /\ latency' \in {latency, latency + 1}
    /\ caller' = [caller EXCEPT ![c] = "idle"]
    /\ UNCHANGED <<recent, usage, records, cacheVars>>

\* recent_calls(): the latest first.
RecentCalls(limit) == SubSeq(Reverse(recent), 1, Min({limit, Len(recent)}))

-----------------------------------------------------------------------------

SaveNext(s) ==
    \/ Snapshot(s) \/ OpenTmp(s) \/ WritePart(s) \/ WriteRest(s) \/ Rename(s) \/ SaveFails(s)

FileNext == RegisterTools \/ Restart \/ \E s \in Savers : SaveNext(s)

\* The tracker shares nothing with the saves but the restarts.
TrackerNext == Restart \/ \E c \in Callers : Push(c) \/ CountUse(c) \/ RecordLatency(c)

CacheNext == FileNext \/ TrackerNext

CacheSpec == CacheInit /\ [][CacheNext]_toolCacheVars

-----------------------------------------------------------------------------
(* Properties.                                                             *)

CacheWhole == path # 0 => content[path].state = "whole"

\* Whenever the gateway is killed and started again: saves that follow each other
\* leave a cache that parses and holds the last snapshot that was renamed into place,
\* also when an earlier save left its cache.tmp behind.  Saves that overlap harm it
\* only while one of them still writes into it, unless a save is cut short.
CacheKept ==
    /\ CacheTypeOK
    /\ ~parallel => CacheWhole /\ (path # 0 => content[path].of = saved)
    /\ CacheWhole \/ cut \/ \E s \in Savers : saver[s].fd = path

\* Whatever calls overlap: the ring holds the last calls in their order and no more
\* than its capacity, most recent first in recent_calls(), and the counts differ from
\* the histograms by the calls on their way and those out of range.
TrackerAgrees ==
    /\ Len(recent) <= MaxRecent
    /\ \A k \in 1..(Len(recent) - 1) : recent[k + 1] = recent[k] + 1
    /\ \A limit \in 0..MaxRecent : RecentCalls(limit) # <<>> => Head(RecentCalls(limit)) = Last(recent)
    /\ latency + Cardinality({c \in Callers : caller[c] = "latency"}) <= usage
    /\ usage + Cardinality({c \in Callers : caller[c] = "count"}) <= records

=============================================================================
