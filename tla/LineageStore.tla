----------------------------- MODULE LineageStore -----------------------------
(***************************************************************************)
(* Versioned graph snapshots in SQLite (repositories/lineage_repository.py *)
(* ) behind a read cache (services/lineage_store_service.py).              *)
(*                                                                         *)
(* Requests run the store in worker threads.  Each SQLite transaction and  *)
(* each TTLCache method is atomic by itself; save and get chain several of *)
(* them, with every other thread in between.  The rows survive a crash,    *)
(* the cache does not.  An entry may leave the cache at any moment, by its *)
(* TTL or as the least recently used one; ProviderReadCache has the        *)
(* details of TTLCache.  The store implements VersionedGraphs.             *)
(***************************************************************************)
EXTENDS Integers, Sequences

CONSTANTS
  Graphs,       \* the graph ids
  Contents,     \* what a graph may consist of; equal content, equal hash
  NoContent,    \* none
  Threads,      \* the worker threads
  NoGraph,      \* the graph of an idle thread
  MaxVersions   \* bound of the versions of a graph

ASSUME ValuesAssumption == NoContent \notin Contents /\ NoGraph \notin Graphs
ASSUME BoundsAssumption == MaxVersions \in Nat \ {0}

Versions == 1..MaxVersions
Latest == 0                       \* the key (graph_id, None)
Selectors == {Latest} \cup Versions
Snapshot == [version : Versions, content : Contents]
Nothing == [version |-> 0, content |-> NoContent]

VARIABLES
  rows,     \* rows[g]: the contents of versions 1, 2, ... in the database
  cache,    \* cache[g][v]: the snapshot cached for selector v, or Nothing
  pc,       \* pc[t]: where thread t stands
  graph,    \* graph[t]: the graph it works on
  wanted,   \* wanted[t]: the selector of a read, the content of a save
  found,    \* found[t]: the snapshot in its hands, or Nothing
  acked,    \* acked[g]: the newest version a save has returned (history)
  since,    \* since[t]: acked when t's read began (history)
  raced     \* the graphs on which two calls have overlapped (history)

call == <<pc, graph, wanted, found>>
history == <<acked, since, raced>>
vars == <<rows, cache, call, history>>

Idle(t) == pc[t] = "idle"
Busy(g) == {t \in Threads : ~Idle(t) /\ graph[t] = g}
Row(g, v) == [version |-> v, content |-> rows[g][v]]
Newest(g) == IF rows[g] = <<>> THEN Nothing ELSE Row(g, Len(rows[g]))

(* Mistaken variants, each the slip its name tells, stand before the       *)
(* operator they falsify here and below; no specification uses them.       *)
SelectOldest(g, v) ==
  IF v = Latest THEN (IF rows[g] = <<>> THEN Nothing ELSE Row(g, 1))
  ELSE IF v <= Len(rows[g]) THEN Row(g, v) ELSE Nothing

(* get_graph: one version, or the newest.                                  *)
Select(g, v) ==
  IF v = Latest THEN Newest(g)
  ELSE IF v <= Len(rows[g]) THEN Row(g, v) ELSE Nothing

Init ==
  /\ rows = [g \in Graphs |-> <<>>]
  /\ cache = [g \in Graphs |-> [v \in Selectors |-> Nothing]]
  /\ pc = [t \in Threads |-> "idle"]
  /\ graph = [t \in Threads |-> NoGraph]
  /\ wanted = [t \in Threads |-> Latest]
  /\ found = [t \in Threads |-> Nothing]
  /\ acked = [g \in Graphs |-> 0]
  /\ since = [t \in Threads |-> 0]
  /\ raced = {}

Begin(t, g, next, w) ==
  /\ Idle(t)
  /\ pc' = [pc EXCEPT ![t] = next]
  /\ graph' = [graph EXCEPT ![t] = g]
  /\ wanted' = [wanted EXCEPT ![t] = w]
  /\ since' = [since EXCEPT ![t] = acked[g]]
  /\ raced' = IF Busy(g) # {} THEN raced \cup {g} ELSE raced

End(t) ==
  /\ pc' = [pc EXCEPT ![t] = "idle"]
  /\ graph' = [graph EXCEPT ![t] = NoGraph]
  /\ wanted' = [wanted EXCEPT ![t] = Latest]
  /\ found' = [found EXCEPT ![t] = Nothing]
  /\ since' = [since EXCEPT ![t] = 0]

Put(g, v, s) == cache' = [cache EXCEPT ![g][v] = s]

(***************************************************************************)
(* save.                                                                   *)
(***************************************************************************)
BeginSave(t, g, c) ==
  /\ Begin(t, g, "committing", c)
  /\ UNCHANGED <<rows, cache, found, acked>>

CommitAlways(t) ==
  LET g == graph[t] IN
  /\ pc[t] = "committing"
  /\ Len(rows[g]) < MaxVersions
  /\ rows' = [rows EXCEPT ![g] = Append(@, wanted[t])]
  /\ found' = [found EXCEPT ![t] =
                 [version |-> Len(rows[g]) + 1, content |-> wanted[t]]]
  /\ pc' = [pc EXCEPT ![t] = "invalidating"]
  /\ UNCHANGED <<cache, graph, wanted, history>>

(* save_graph, in one transaction: the newest version when its hash is the *)
(* same, else the next one.                                                *)
Commit(t) ==
  LET g == graph[t] IN
  /\ pc[t] = "committing"
  /\ IF Newest(g).content = wanted[t]
     THEN found' = [found EXCEPT ![t] = Newest(g)] /\ UNCHANGED rows
     ELSE /\ Len(rows[g]) < MaxVersions
          /\ rows' = [rows EXCEPT ![g] = Append(@, wanted[t])]
          /\ found' = [found EXCEPT ![t] =
                         [version |-> Len(rows[g]) + 1, content |-> wanted[t]]]
  /\ pc' = [pc EXCEPT ![t] = "invalidating"]
  /\ UNCHANGED <<cache, graph, wanted, history>>

(* The database refuses the write.                                         *)
CommitFails(t) ==
  /\ pc[t] = "committing"
  /\ End(t)
  /\ UNCHANGED <<rows, cache, acked, raced>>

Invalidate(t) ==
  /\ pc[t] = "invalidating"
  /\ cache' = [cache EXCEPT ![graph[t]] = [v \in Selectors |-> Nothing]]
  /\ pc' = [pc EXCEPT ![t] = "cachingVersion"]
  /\ UNCHANGED <<rows, graph, wanted, found, history>>

CacheVersion(t) ==
  /\ pc[t] = "cachingVersion"
  /\ Put(graph[t], found[t].version, found[t])
  /\ pc' = [pc EXCEPT ![t] = "cachingLatest"]
  /\ UNCHANGED <<rows, graph, wanted, found, history>>

CacheLatest(t) ==
  /\ pc[t] = "cachingLatest"
  /\ Put(graph[t], Latest, found[t])
  /\ acked' = [acked EXCEPT ![graph[t]] =
                 IF found[t].version > @ THEN found[t].version ELSE @]
  /\ End(t)
  /\ UNCHANGED <<rows, raced>>

(***************************************************************************)
(* get.                                                                    *)
(***************************************************************************)
BeginGet(t, g, v) ==
  /\ Begin(t, g, "looking", v)
  /\ UNCHANGED <<rows, cache, found, acked>>

Look(t) ==
  LET cached == cache[graph[t]][wanted[t]] IN
  /\ pc[t] = "looking"
  /\ found' = [found EXCEPT ![t] = cached]
  /\ pc' = [pc EXCEPT ![t] = IF cached = Nothing THEN "reading" ELSE "returning"]
  /\ UNCHANGED <<rows, cache, graph, wanted, history>>

Read(t) ==
  LET row == Select(graph[t], wanted[t]) IN
  /\ pc[t] = "reading"
  /\ found' = [found EXCEPT ![t] = row]
  /\ pc' = [pc EXCEPT ![t] = IF row = Nothing THEN "returning" ELSE "filling"]
  /\ UNCHANGED <<rows, cache, graph, wanted, history>>

FillWrongKey(t) ==
  /\ pc[t] = "filling"
  /\ cache' = [cache EXCEPT ![graph[t]] =
                 [v \in Selectors |-> IF v = wanted[t] \/ v = Len(rows[graph[t]])
                                      THEN found[t] ELSE @[v]]]
  /\ pc' = [pc EXCEPT ![t] = "returning"]
  /\ UNCHANGED <<rows, graph, wanted, found, history>>

Fill(t) ==
  /\ pc[t] = "filling"
  /\ Put(graph[t], wanted[t], found[t])
  /\ pc' = [pc EXCEPT ![t] = "returning"]
  /\ UNCHANGED <<rows, graph, wanted, found, history>>

Return(t) ==
  /\ pc[t] = "returning"
  /\ End(t)
  /\ UNCHANGED <<rows, cache, acked, raced>>

(***************************************************************************)
(* The rest of the world.                                                  *)
(***************************************************************************)

(* An entry expires or is evicted; with nothing cached and nobody at work  *)
(* on it, earlier overlaps on the graph are forgotten.                     *)
Expire(g, v) ==
  /\ cache[g][v] # Nothing
  /\ Put(g, v, Nothing)
  /\ raced' = IF Busy(g) = {} /\ \A w \in Selectors : cache'[g][w] = Nothing
              THEN raced \ {g} ELSE raced
  /\ UNCHANGED <<rows, call, acked, since>>

(* The service stops and starts again; sessions start over with it.        *)
Crash ==
  /\ cache' = [g \in Graphs |-> [v \in Selectors |-> Nothing]]
  /\ pc' = [t \in Threads |-> "idle"]
  /\ graph' = [t \in Threads |-> NoGraph]
  /\ wanted' = [t \in Threads |-> Latest]
  /\ found' = [t \in Threads |-> Nothing]
  /\ since' = [t \in Threads |-> 0]
  /\ raced' = {}
  /\ UNCHANGED <<rows, acked>>

Step(t) ==
  \/ Commit(t) \/ CommitFails(t) \/ Invalidate(t) \/ CacheVersion(t)
  \/ CacheLatest(t) \/ Look(t) \/ Read(t) \/ Fill(t) \/ Return(t)

Next ==
  \/ Crash
  \/ \E g \in Graphs, v \in Selectors : Expire(g, v)
  \/ \E t \in Threads : Step(t)
  \/ \E t \in Threads, g \in Graphs :
       \/ \E c \in Contents : BeginSave(t, g, c)
       \/ \E v \in Selectors : BeginGet(t, g, v)

Spec == Init /\ [][Next]_vars

(***************************************************************************)
(* Properties.                                                             *)
(***************************************************************************)

(* The variables hold values of their types.                               *)
TypeOK ==
  /\ rows \in [Graphs -> Seq(Contents)]
  /\ \A g \in Graphs : Len(rows[g]) <= MaxVersions
  /\ cache \in [Graphs -> [Selectors -> Snapshot \cup {Nothing}]]
  /\ pc \in [Threads -> {"idle", "committing", "invalidating", "cachingVersion",
                         "cachingLatest", "looking", "reading", "filling",
                         "returning"}]
  /\ graph \in [Threads -> Graphs \cup {NoGraph}]
  /\ wanted \in [Threads -> Selectors \cup Contents]
  /\ found \in [Threads -> Snapshot \cup {Nothing}]
  /\ acked \in [Graphs -> Nat]
  /\ since \in [Threads -> Nat]
  /\ raced \subseteq Graphs

(* README: "Re-saving unchanged graph content does not create a new        *)
(* version": neighbouring versions differ, however saves interleave.       *)
NoRepeatedVersion ==
  \A g \in Graphs : \A v \in 1..Len(rows[g]) - 1 : rows[g][v] # rows[g][v + 1]

(* What is cached, and what a thread carries between two steps or is about *)
(* to return, is a snapshot the database has under the version it claims;  *)
(* where one version is asked for, it is that version.                     *)
CacheMatchesRows ==
  /\ \A g \in Graphs : \A v \in Selectors : cache[g][v] # Nothing =>
       /\ v # Latest => cache[g][v].version = v
       /\ cache[g][v] = Select(g, cache[g][v].version)
  /\ \A t \in Threads : found[t] # Nothing =>
       /\ found[t] = Select(graph[t], found[t].version)
       /\ pc[t] \in {"filling", "returning"} /\ wanted[t] # Latest =>
            found[t].version = wanted[t]

(* A read of the newest version gives at least the version of every save   *)
(* that had returned before it began, unless two calls on the graph        *)
(* overlapped since its cache was last empty.                              *)
QuietReadsAreCurrent ==
  \A t \in Threads :
    pc[t] = "returning" /\ wanted[t] = Latest /\ graph[t] \notin raced =>
      found[t].version >= since[t]

(* What a caller can tell of where its call stands, and of what it will    *)
(* return.                                                                 *)
Stage(place) ==
  IF place = "idle" THEN "idle"
  ELSE IF place = "committing" THEN "saving"
  ELSE IF place \in {"invalidating", "cachingVersion", "cachingLatest"} THEN "saved"
  ELSE IF place \in {"looking", "reading"} THEN "reading"
  ELSE "answered"

Shown(place, s) == IF Stage(place) \in {"saved", "answered"} THEN s ELSE Nothing

stage == [t \in Threads |-> Stage(pc[t])]
answer == [t \in Threads |-> Shown(pc[t], found[t])]

Promised == INSTANCE VersionedGraphs WITH
  Callers <- Threads, log <- rows, contended <- raced

(* To its callers the store is a history that only grows: transactions,    *)
(* cache, evictions and crashes do not show, except that a read of the     *)
(* newest version may be given an older one where calls contend.           *)
PromiseIsKept == Promised!Spec

=============================================================================
