--------------------------- MODULE DeepLineageWalk ----------------------------
(***************************************************************************)
(* One deep trace through Snowflake (_LineageWalk of                       *)
(* services/snowflake_deep_lineage_service.py).                            *)
(*                                                                         *)
(* A GET_LINEAGE call names everything up to BatchDepth steps upstream of  *)
(* an object; the walk calls again from the objects at that boundary, and  *)
(* where a call returns nothing it reads the sources from the object's     *)
(* SQL.  Calls run in worker threads and finish in any order; one thread   *)
(* absorbs what they return, one call at a time.  The trace is upstream: a *)
(* downstream one mirrors it, without inference.                           *)
(*                                                                         *)
(* An edge is a pair <<far, near>> of objects, far the one further from    *)
(* the root.  The walk's dictionaries are functions of the keys they hold. *)
(***************************************************************************)
EXTENDS Integers, FiniteSets, FiniteSetsExt, Functions

CONSTANTS
  Objects,      \* the tables, views and columns
  Root,         \* the object the trace starts from
  Worlds,       \* records of the lineage Snowflake knows (feeds, a set of
                \*   edges), what the SQL of an object names (sql, a set of
                \*   edges) and the objects that cannot be followed (opaque)
  BatchDepth,   \* _SNOWFLAKE_BATCH_DEPTH
  Orders,       \* the orders in which Snowflake may list what it returns,
                \*   numberings of the edges
  Requests      \* records of what a request sets: its limits (maxDepth,
                \*   maxNodes, maxEdges, maxQueries) and infers, its
                \*   infer_missing_lineage

Edges == Objects \X Objects

ASSUME RootAssumption == Root \in Objects /\ IsFiniteSet(Objects)
ASSUME WorldsAssumption ==
  Worlds \subseteq [feeds : SUBSET Edges, sql : SUBSET Edges, opaque : SUBSET Objects]
ASSUME OrdersAssumption == Orders # {} /\ Orders \subseteq [Edges -> Nat]
ASSUME DepthAssumption == BatchDepth \in Nat \ {0}
ASSUME RequestsAssumption ==
  \A r \in Requests :
    /\ {r.maxDepth, r.maxNodes, r.maxEdges, r.maxQueries} \subseteq Nat \ {0}
    /\ r.infers \in BOOLEAN

VARIABLES
  world,     \* what Snowflake knows
  request,   \* the request
  status,    \* "running", "done" or "failed"
  walk       \* the fields of the _LineageWalk

vars == <<world, request, status, walk>>

Far == request.maxDepth + 1
At(f, x) == IF x \in DOMAIN f THEN f[x] ELSE Far
With(f, x, n) == [y \in DOMAIN f \cup {x} |-> IF y = x THEN n ELSE f[y]]
Lower(f, x, n) == IF n < At(f, x) THEN With(f, x, n) ELSE f

Task(kind, o, level) == [kind |-> kind, object |-> o, level |-> level]
Tasks == [kind : {"lineage", "inference"}, object : Objects, level : 0..request.maxDepth]

(***************************************************************************)
(* What Snowflake answers.                                                 *)
(***************************************************************************)
Feeders(E, M) == {e[1] : e \in {f \in E : f[2] \in M}}

(* The objects at most n steps from o, each with the least number.         *)
StepsTo(E, o, n) ==
  LET steps[k \in 0..n] ==
        IF k = 0 THEN [x \in {o} |-> 0]
        ELSE LET nearer == steps[k - 1] IN
             [x \in DOMAIN nearer \cup Feeders(E, DOMAIN nearer) |->
                IF x \in DOMAIN nearer THEN nearer[x] ELSE k]
  IN  steps[n]

(* The rows of GET_LINEAGE(o, depth).                                      *)
Rows(o, depth) ==
  LET steps == StepsTo(world.feeds, o, request.maxDepth) IN
  {[edge |-> e, distance |-> steps[e[2]] + 1] :
     e \in {f \in world.feeds : At(steps, f[2]) < depth}}

(* What the SQL of o reads.                                                *)
Sources(o) ==
  {[edge |-> <<source, o>>, distance |-> 1] : source \in Feeders(world.sql, {o})}

(***************************************************************************)
(* The walk's bookkeeping, as functions of the walk so far.                *)
(***************************************************************************)
Truncated(w) == [w EXCEPT !.truncated = TRUE]
Warned(w, code) == [w EXCEPT !.warnings = @ \cup {code}]

AddNode(w, o) ==
  IF o \in w.nodes \/ Cardinality(w.nodes) < request.maxNodes
  THEN [w EXCEPT !.nodes = @ \cup {o}]
  ELSE Truncated(w)

(* Mistaken variants, each the slip its name tells, stand before the       *)
(* operator they falsify here and below; no specification uses them.       *)
AddEdgeOverwrites(w, e, d) == [w EXCEPT !.distance = With(@, e, d)]

AddEdge(w, e, d) == [w EXCEPT !.distance = Lower(@, e, d)]

PlacedSwapped(w, e, d) ==
  [w EXCEPT !.level = Lower(Lower(@, e[2], d), e[1], d - 1)]

Placed(w, e, d) == [w EXCEPT !.level = Lower(Lower(@, e[1], d), e[2], d - 1)]

Submitted(w, task) == [w EXCEPT !.pending = @ \cup {task}]

QueryOnce(w, o, level) ==
  IF level >= request.maxDepth \/ At(w.queriedAt, o) # Far THEN w
  ELSE IF w.queries >= request.maxQueries
  THEN Warned(Truncated(w), "SNOWFLAKE_LINEAGE_QUERY_LIMIT_REACHED")
  ELSE Submitted([w EXCEPT !.queriedAt = With(@, o, level), !.queries = @ + 1],
                 Task("lineage", o, level))

(* _query: from a level lower than any before, within the limits.          *)
Query(w, o, level) ==
  LET queriedAt == At(w.queriedAt, o) IN
  IF level >= request.maxDepth THEN w
  ELSE IF queriedAt <= level
  THEN [w EXCEPT !.cycleSeen = @ \/ queriedAt < level]
  ELSE IF w.queries >= request.maxQueries
  THEN Warned(Truncated(w), "SNOWFLAKE_LINEAGE_QUERY_LIMIT_REACHED")
  ELSE Submitted([w EXCEPT !.queriedAt = With(@, o, level), !.queries = @ + 1],
                 Task("lineage", o, level))

(* _infer: once per object.                                                *)
Infer(w, o, level) ==
  IF request.infers /\ level < request.maxDepth /\ o \notin w.inferredFrom
  THEN Submitted([w EXCEPT !.inferredFrom = @ \cup {o}],
                 Task("inference", o, level))
  ELSE w

(* Both ends, then the edge; what the limits do not admit is left out, and *)
(* accepted says whether the caller goes on with the edge.                 *)
Admit(w, e, d) ==
  LET w1 == AddNode(w, e[1])
      w2 == IF e[1] \in w1.nodes THEN AddNode(w1, e[2]) ELSE w1
      known == DOMAIN w2.distance
      full == e \notin known /\ Cardinality(known) >= request.maxEdges
  IN  IF ~({e[1], e[2]} \subseteq w2.nodes)
      THEN [accepted |-> FALSE, walk |-> w2]
      ELSE IF full THEN [accepted |-> FALSE, walk |-> Truncated(w2)]
      ELSE [accepted |-> TRUE, walk |-> Placed(AddEdge(w2, e, d), e, d)]

Depth(task) == Min({BatchDepth, request.maxDepth - task.level})

AbsorbRow(w, row, task) ==
  LET d == task.level + row.distance
      admitted == Admit(w, row.edge, d)
      boundary == row.distance = Depth(task)
      far == row.edge[1]
  IN  IF d > request.maxDepth THEN w
      ELSE IF ~admitted.accepted \/ ~boundary \/ d = request.maxDepth
      THEN admitted.walk
      ELSE IF far \in world.opaque
      THEN Warned(Truncated(admitted.walk), "SNOWFLAKE_LINEAGE_BOUNDARY_SKIPPED")
      ELSE Query(admitted.walk, far, d)

AbsorbSource(w, row, task) ==
  LET admitted == Admit(w, row.edge, task.level + 1) IN
  IF admitted.accepted
  THEN Query(admitted.walk, row.edge[1], task.level + 1)
  ELSE admitted.walk

Absorb(w, row, task) ==
  IF task.kind = "lineage" THEN AbsorbRow(w, row, task) ELSE AbsorbSource(w, row, task)

(* The rows of one call, in the order they are listed; those that are      *)
(* lost, incomplete, are left out with a warning.                          *)
First(rows, order) ==
  CHOOSE r \in rows : \A q \in rows : order[r.edge] <= order[q.edge]

Absorbed(w, rows, order, task, lost) ==
  LET after[n \in 0..Cardinality(rows)] ==
        IF n = 0 THEN [walk |-> w, left |-> rows]
        ELSE LET before == after[n - 1]
                 row == First(before.left, order)
             IN  [walk |-> IF row \in lost
                           THEN Warned(before.walk, "SNOWFLAKE_LINEAGE_ROW_INVALID")
                           ELSE Absorb(before.walk, row, task),
                  left |-> before.left \ {row}]
  IN  after[Cardinality(rows)].walk

(***************************************************************************)
(* The walk.                                                               *)
(***************************************************************************)
Empty ==
  [nodes |-> {Root}, distance |-> <<>>, level |-> With(<<>>, Root, 0), queriedAt |-> <<>>,
   queries |-> 0, inferredFrom |-> {},
   pending |-> {}, cycleSeen |-> FALSE, truncated |-> FALSE, warnings |-> {}]

Init ==
  /\ world \in Worlds
  /\ request \in Requests
  /\ status = "running"
  /\ walk = Query(Empty, Root, 0)

Taken(task) == [walk EXCEPT !.pending = @ \ {task}]

AbsorbLineage(task) ==
  LET rows == Rows(task.object, Depth(task)) IN
  /\ status = "running"
  /\ task \in walk.pending
  /\ task.kind = "lineage"
  /\ IF rows = {}
     THEN walk' = Infer(Taken(task), task.object, task.level)
     ELSE \E order \in Orders, lost \in SUBSET rows :
            walk' = Absorbed(Taken(task), rows, order, task, lost)
  /\ UNCHANGED <<world, request, status>>

(* A call that fails ends the trace from the root, and only its own branch *)
(* anywhere else.                                                          *)
LineageFails(task) ==
  /\ status = "running"
  /\ task \in walk.pending
  /\ task.kind = "lineage"
  /\ IF task.level = 0
     THEN status' = "failed" /\ UNCHANGED walk
     ELSE /\ walk' = Warned(Truncated(Taken(task)), "SNOWFLAKE_LINEAGE_BRANCH_FAILED")
          /\ UNCHANGED status
  /\ UNCHANGED <<world, request>>

AbsorbInference(task) ==
  /\ status = "running"
  /\ task \in walk.pending
  /\ task.kind = "inference"
  /\ \E order \in Orders :
       walk' = Absorbed(Taken(task), Sources(task.object), order, task, {})
  /\ UNCHANGED <<world, request, status>>

InferenceFails(task) ==
  /\ status = "running"
  /\ task \in walk.pending
  /\ task.kind = "inference"
  /\ walk' = Warned(Taken(task), "SNOWFLAKE_LINEAGE_INFERENCE_FAILED")
  /\ UNCHANGED <<world, request, status>>

Finish ==
  /\ status = "running"
  /\ walk.pending = {}
  /\ status' = "done"
  /\ walk' = [walk EXCEPT !.warnings =
                @ \cup (IF walk.cycleSeen THEN {"SNOWFLAKE_LINEAGE_CYCLE_SKIPPED"} ELSE {})
                  \cup (IF walk.truncated THEN {"SNOWFLAKE_LINEAGE_TRUNCATED"} ELSE {})]
  /\ UNCHANGED <<world, request>>

Step ==
  \/ Finish
  \/ \E task \in walk.pending :
       \/ AbsorbLineage(task) \/ LineageFails(task)
       \/ AbsorbInference(task) \/ InferenceFails(task)

Spec == Init /\ [][Step]_vars

(***************************************************************************)
(* Properties.                                                             *)
(***************************************************************************)

(* The lineage there is to find: what Snowflake knows and, where it knows  *)
(* nothing and inference is on, what the SQL names.                        *)
Lineage ==
  world.feeds \cup
  (IF request.infers THEN {e \in world.sql : Feeders(world.feeds, {e[2]}) = {}} ELSE {})
Shortest == StepsTo(Lineage, Root, request.maxDepth)
InReach == {e \in Lineage : At(Shortest, e[2]) < request.maxDepth}

(* The walk's fields hold values of their types.                           *)
TypeOK ==
  /\ status \in {"running", "done", "failed"}
  /\ Root \in walk.nodes /\ walk.nodes \subseteq Objects
  /\ DOMAIN walk.distance \subseteq Edges /\ Range(walk.distance) \subseteq 1..request.maxDepth
  /\ DOMAIN walk.level \subseteq Objects /\ Range(walk.level) \subseteq 0..request.maxDepth
  /\ DOMAIN walk.queriedAt \subseteq Objects /\ Range(walk.queriedAt) \subseteq 0..request.maxDepth
  /\ walk.queries \in Nat
  /\ walk.pending \subseteq Tasks
  /\ walk.inferredFrom \subseteq Objects

(* What is reported exists, nothing is reported nearer to the root than it *)
(* is, and no answer pushes the walk past the limits of the request.       *)
NothingInvented ==
  LET shortest == Shortest IN
  /\ Cardinality(walk.nodes) <= request.maxNodes
  /\ Cardinality(DOMAIN walk.distance) <= request.maxEdges
  /\ walk.queries <= request.maxQueries
  /\ \A e \in DOMAIN walk.distance :
       e \in Lineage /\ walk.distance[e] > At(shortest, e[2])
  /\ \A o \in DOMAIN walk.level : walk.level[o] >= At(shortest, o)

(* A trace that says nothing of being cut, refused or failed is the whole  *)
(* lineage within max_depth, each edge and object at its shortest          *)
(* distance, whatever order Snowflake answers in.  Without inference.      *)
Whole ==
  LET shortest == Shortest IN
  /\ walk.distance = [e \in InReach |-> shortest[e[2]] + 1]
  /\ walk.level = shortest
Unhurt == ~walk.truncated /\ walk.warnings \subseteq {"SNOWFLAKE_LINEAGE_CYCLE_SKIPPED"}
SilenceMeansWhole == status = "done" /\ Unhurt /\ ~request.infers => Whole

(* "Letting one escape loses the whole traversal -- including every level  *)
(* already walked": whatever fails or is cut later, what has been found    *)
(* stays, and distances only shrink.                                       *)
FindingsStay ==
  [][/\ walk.nodes \subseteq walk'.nodes
     /\ \A e \in DOMAIN walk.distance : At(walk'.distance, e) <= walk.distance[e]
     /\ \A o \in DOMAIN walk.level : At(walk'.level, o) <= walk.level[o]]_vars

(* The docstring of _LineageWalk: "It is then queried again from the lower *)
(* level, so every distance is the shortest one whatever order Snowflake   *)
(* answers in."                                                            *)
EveryDistanceIsShortest == status = "done" /\ Unhurt => Whole
=============================================================================
