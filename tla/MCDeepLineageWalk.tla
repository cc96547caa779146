-------------------------- MODULE MCDeepLineageWalk ---------------------------
EXTENDS DeepLineageWalk

CONSTANTS o1, o2, o3, o4, o5, o6, o7

(* Chains with a shortcut past a boundary (o4 to o1), cycles (Root to o2,  *)
(* o2 to o3), chains that only the SQL continues, and a view that cannot   *)
(* be followed: every choice among these edges.                            *)
Feeds == {<<o1, Root>>, <<o2, o1>>, <<o3, o2>>, <<o4, o3>>, <<o4, o1>>, <<o5, o4>>,
          <<Root, o2>>, <<o2, o3>>}
Sql == {<<o1, Root>>, <<o2, Root>>, <<o4, o2>>, <<o5, o4>>}

(* Two ways to o7, a boundary object at 4 steps by o3, at 6 by o2 and o5.  *)
TwoWays == {<<o1, Root>>, <<o2, o1>>, <<o3, o1>>, <<o4, o2>>, <<o5, o4>>, <<o6, o5>>,
            <<o6, o3>>, <<o7, o6>>, <<Root, o7>>}

MCWorlds == [feeds : (SUBSET Feeds) \cup {TwoWays}, sql : {{}, Sql}, opaque : {{}, {o2}}]
MCInferred == [feeds : {{<<o3, o1>>, <<o4, o3>>}}, sql : {Sql}, opaque : {{}}]

(* From the root on, or from the far end on.                               *)
Named == [o \in Objects |->
  CASE o = Root -> 0 [] o = o1 -> 1 [] o = o2 -> 2 [] o = o3 -> 3
    [] o = o4 -> 4 [] o = o5 -> 5 [] o = o6 -> 6 [] o = o7 -> 7]
MCOrders == {[e \in Edges |-> 8 * Named[e[2]] + Named[e[1]]],
             [e \in Edges |-> 63 - (8 * Named[e[2]] + Named[e[1]])]}

Limits(depth, nodes, edges, queries) ==
  [maxDepth : {depth}, maxNodes : {nodes}, maxEdges : {edges},
   maxQueries : {queries}, infers : BOOLEAN]
MCRequests == Limits(4, 5, 6, 4) \cup Limits(7, 8, 9, 9)
MCInferring == {r \in Limits(4, 6, 6, 9) : r.infers}
=============================================================================
