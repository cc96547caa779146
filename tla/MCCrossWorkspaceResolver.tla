----------------------- MODULE MCCrossWorkspaceResolver ------------------------
EXTENDS CrossWorkspaceResolver, TLC

CONSTANTS a, b, c, dev, prod

MCWorkspaces == {dev, prod}
MCWorkspaceOf == [m \in Models |-> IF m = a THEN dev ELSE prod]

Db(n) == [model |-> Database, table |-> n]
Hop(m, t) == [model |-> m, table |-> t]
Nowhere(n) == [model |-> Unnamed, table |-> n]
(* A model of one table per given source, numbered from 1.                 *)
Tabled(sources) ==
  [i \in 1..Len(sources) |-> [table |-> i, source |-> sources[i]]]
World(x, y, z) == (a :> Tabled(x)) @@ (b :> Tabled(y)) @@ (c :> Tabled(z))

(* The fourth table of b and of c has no source.                           *)
MCBare == [m \in Models |-> IF m = a THEN {} ELSE {4}]

(* Chains, a diamond, a hop to a lost table, hops that end at a model      *)
(* nobody names or at a table without a source, also one model further, a  *)
(* model that reads itself, and models that read each other.               *)
MCWorlds ==
  {World(<<Hop(b, 1)>>, <<Hop(c, 1)>>, <<Db(1)>>),
   World(<<Hop(b, 2), Db(2)>>, <<Db(1), Hop(c, 1)>>, <<Db(3)>>),
   World(<<Hop(b, 1), Hop(c, 1)>>, <<Hop(c, 1)>>, <<Db(1)>>),
   World(<<Hop(c, 1), Hop(b, 1)>>, <<Hop(c, 2)>>, <<Db(1), Db(2)>>),
   World(<<Hop(b, 3), Db(1)>>, <<Db(2)>>, <<Hop(b, 1)>>),
   World(<<Nowhere(1), Hop(b, 1)>>, <<Hop(c, 4)>>, <<Nowhere(2)>>),
   World(<<Hop(b, 4), Hop(c, 1)>>, <<Hop(c, 1)>>, <<Nowhere(1)>>),
   World(<<Hop(a, 1), Hop(b, 1)>>, <<Db(1)>>, <<Hop(a, 2)>>),
   World(<<Hop(b, 1)>>, <<Hop(a, 1), Db(1)>>, <<Hop(b, 2)>>),
   World(<<Hop(b, 1)>>, <<Hop(c, 1)>>, <<Hop(a, 1)>>)}

(* Two models with a table on each other.                                  *)
MCCycle == {World(<<Hop(b, 2), Db(1)>>, <<Hop(a, 2), Db(2)>>, <<Db(3)>>)}
=============================================================================
