--------------------------- MODULE LineageQueries ---------------------------
(***************************************************************************)
(* What is asked of a lineage graph: impact, navigation, validation, the    *)
(* changes between two versions, and search.                                *)
(***************************************************************************)
EXTENDS LineageGraph

\* The steps of the edges that count, one way or both.
Steps(graph, direction, all) ==
    LET counted == {e \in graph.edges : e.lineage \/ all}
    IN (IF direction = "upstream" THEN {} ELSE {<<e.from, e.to>> : e \in counted})
       \cup (IF direction = "downstream" THEN {} ELSE {<<e.to, e.from>> : e \in counted})

(***************************************************************************)
(* The breadth-first search impact and navigation share: [id -> distance]   *)
(* of the nodes of the graph at most so many steps away.                    *)
(***************************************************************************)
RECURSIVE Reached(_, _, _, _, _)
Reached(steps, ids, front, distances, left) ==
    LET new == (UNION {Successors(steps, n) : n \in front} \cap ids) \ DOMAIN distances
        far == 1 + distances[CHOOSE n \in front : TRUE]
    IN IF left = 0 \/ new = {} THEN distances
       ELSE Reached(steps, ids, new, distances @@ [n \in new |-> far], left - 1)
Distances(graph, steps, id, depth) == Reached(steps, NodeIds(graph.nodes), {id}, id :> 0, depth)

\* ImpactAnalysisService.analyze
Impact(graph, id, depth, all) ==
    LET steps == Steps(graph, "downstream", all)
        found == Distances(graph, steps, id, depth)
    IN [distances |-> [n \in DOMAIN found \ {id} |-> found[n]],
        truncated |-> \E n \in DOMAIN found : found[n] = depth /\ Successors(steps, n) \ DOMAIN found # {}]

\* LineageNavigationService.navigate: the nodes around one, and the edges met on the way.
NavigateGraph(graph, id, direction, depth, all) ==
    LET found == Distances(graph, Steps(graph, direction, all), id, depth)
        near(n) == n \in DOMAIN found /\ found[n] < depth
        met(e) == \/ direction # "upstream" /\ near(e.from)
                  \/ direction # "downstream" /\ near(e.to)
    IN [nodes |-> DOMAIN found,
        edges |-> {e \in graph.edges : (e.lineage \/ all) /\ met(e) /\ {e.from, e.to} \subseteq DOMAIN found}]

(***************************************************************************)
(* LineageValidationService.validate.  build keys nodes and edges by their  *)
(* ids, so no graph has a repeated one.                                     *)
(***************************************************************************)
LineageCycles(graph) ==
    LET steps == Steps(graph, "downstream", FALSE)
        ends == UNION {{s[1], s[2]} : s \in steps}
        adjacent == [n \in ends |-> Successors(steps, n)]
    IN {c \in StronglyConnectedComponents(adjacent) : Cardinality(c) > 1 \/ \E n \in c : n \in adjacent[n]}

Validate(graph) ==
    LET ids == NodeIds(graph.nodes)
        whole == {e \in graph.edges : {e.from, e.to} \subseteq ids}
        sourced(n) == \E e \in graph.edges : e.to = n.id /\ e.type = "reads_from" /\ e.lineage
    IN {<<"EDGE_ENDPOINT_MISSING", e>> : e \in graph.edges \ whole}
       \cup {<<"SELF_REFERENCING_EDGE", e>> : e \in {e \in whole : e.from = e.to}}
       \cup {<<"ORPHAN_NODE", n>> : n \in {n \in graph.nodes : \A e \in whole : n.id \notin {e.from, e.to}}}
       \cup {<<"QUERY_SOURCE_MISSING", n>> : n \in {n \in graph.nodes : n.type = "query" /\ ~sourced(n)}}
       \cup {<<"LINEAGE_CYCLE_DETECTED", c>> : c \in LineageCycles(graph)}
Valid(issues) == \A i \in issues : i[1] # "EDGE_ENDPOINT_MISSING"

\* LineageChangeService.compare
EdgeId(e) == <<e.from, e.to, e.type>>
Compare(old, new) ==
    LET oldNodes == NodeIds(old.nodes)
        newNodes == NodeIds(new.nodes)
        oldEdges == {EdgeId(e) : e \in old.edges}
        newEdges == {EdgeId(e) : e \in new.edges}
    IN [addedNodes |-> newNodes \ oldNodes, removedNodes |-> oldNodes \ newNodes,
        changedNodes |-> NodeIds(old.nodes \ new.nodes) \cap newNodes,
        addedEdges |-> newEdges \ oldEdges, removedEdges |-> oldEdges \ newEdges,
        changedEdges |-> {EdgeId(e) : e \in old.edges \ new.edges} \cap newEdges]
HasChanges(changes) == \E k \in DOMAIN changes : changes[k] # {}

Noted(graph, noted) == [graph EXCEPT !.warnings = @ \/ noted]
(***************************************************************************)
(* LiveLineageScanService.build_graph.  world is what is asked and what the *)
(* providers answer: [model, asksReport, report, asksGateways, gateways],   *)
(* None for what cannot be read; gateways is the sequence of the gateways'  *)
(* datasources.  A model or a report that cannot be read fails the scan; a  *)
(* gateway is only noted.                                                   *)
(***************************************************************************)
LiveGraph(id, world) ==
    LET listed == world.asksGateways /\ world.gateways # None
        answered == IF listed THEN SelectSeq(world.gateways, LAMBDA g : g # None) ELSE << >>
        noted == world.asksGateways /\ (listed => None \in Items(world.gateways))
        request == [id |-> id, model |-> world.model, dax |-> None, snowflake |-> None,
                    physical |-> Discover(world.model, Concat(answered)) @@ [id |-> id],
                    report |-> IF ~world.asksReport THEN None
                               ELSE [id |-> id, matches |-> MatchReport(world.report, world.model)]]
    IN IF world.model = None \/ (world.asksReport /\ world.report = None) THEN None
       ELSE Noted(BuildGraph(request), noted)

(***************************************************************************)
(* LineageSearchService.search.  A node is [id, type, report, name, within, *)
(* told, rank]: how its name is like the query ("same", "starts", "holds"   *)
(* or None), whether its qualified name and its properties hold the query,  *)
(* and where its qualified name comes in their order.                       *)
(***************************************************************************)
Score(node) ==
    CASE node.name = "same" -> 10 [] node.name = "starts" -> 9 [] node.name = "holds" -> 8
      [] node.name = None -> IF node.within THEN 7 ELSE IF node.told THEN 5 ELSE 0

Search(nodes, types, report, limit, offset) ==
    LET asked(n) == (types = {} \/ n.type \in types) /\ (report = None \/ n.report = report)
        before(a, b) == \/ Score(a) > Score(b)
                        \/ Score(a) = Score(b) /\ (a.rank < b.rank \/ (a.rank = b.rank /\ a.id < b.id))
        all == SetToSortSeq({n \in nodes : asked(n) /\ Score(n) > 0}, before)
    IN [results |-> SubSeq(all, offset + 1, Least(offset + limit, Len(all))), total |-> Len(all)]
=============================================================================
