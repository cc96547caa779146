------------------------ MODULE DeepLineageWalkProofs -------------------------
(***************************************************************************)
(* What a deep trace promises of the lineage it returns, proved for any    *)
(* objects, lineage, SQL, limits and batch depth, and for any order and    *)
(* any loss of the answers.                                                *)
(***************************************************************************)
EXTENDS DeepLineageWalk, NaturalsInduction, WellFoundedInduction,
        FiniteSetTheorems, TLAPS

(***************************************************************************)
(* Numbers and recursion.                                                  *)
(***************************************************************************)

(* A set of numbers that is not empty has a least one.                     *)
LEMMA LeastNumber ==
  ASSUME NEW T \in SUBSET Nat, T # {}
  PROVE  \E m \in T : \A k \in T : m <= k
<1> DEFINE R == OpToRel(<, Nat)
<1>1. IsWellFoundedOn(R, Nat)
  BY NatLessThanWellFounded
<1>2. \A x, y \in Nat : <<x, y>> \in R <=> x < y
  BY DEF OpToRel
<1>3. PICK m \in T : \A k \in T : ~ (<<k, m>> \in R)
  <2> HIDE DEF R
  <2> QED
    BY <1>1, WFMin
<1>4. m \in Nat /\ \A k \in T : k \in Nat /\ ~ (k < m)
  BY <1>2, <1>3
<1> QED
  BY <1>4

(* A set of numbers that has 0, and n + 1 with every n, has them all.      *)
LEMMA Induction ==
  ASSUME NEW S \in SUBSET Nat, 0 \in S, \A n \in S : n + 1 \in S
  PROVE  S = Nat
<1>1. CASE Nat \ S = {}
  BY <1>1
<1>2. CASE Nat \ S # {}
  <2>1. PICK m \in Nat \ S : \A k \in Nat \ S : m <= k
    <3>1. Nat \ S \in SUBSET Nat
      OBVIOUS
    <3> QED
      BY <1>2, <3>1, LeastNumber
  <2>2. m # 0 /\ m - 1 \in Nat /\ ~ (m <= m - 1)
    BY <2>1
  <2> QED
    BY <2>1, <2>2
<1> QED
  BY <1>1, <1>2

(* f follows the rule g up to n, from a.                                   *)
IsRule(g, S, n) == g \in [(1..n) \X S -> S]
Follows(f, g, S, a, n) ==
  f \in [0..n -> S] /\ f[0] = a /\ \A i \in 1..n : f[i] = g[<<i, f[i - 1]>>]

(* A recursion over the numbers up to n has a solution.                    *)
LEMMA RecursionExists ==
  ASSUME NEW S, NEW a \in S, NEW n \in Nat, NEW g, IsRule(g, S, n)
  PROVE  \E f : Follows(f, g, S, a, n)
<1> DEFINE Solves(f, m) == f[0] = a /\ \A i \in 1..m : f[i] = g[<<i, f[i - 1]>>]
           T == {m \in Nat : m <= n => \E f \in [0..m -> S] : Solves(f, m)}
<1> USE DEF IsRule
<1>1. 0 \in T
  <2> DEFINE f == [i \in 0..0 |-> a]
  <2>1. f \in [0..0 -> S] /\ Solves(f, 0)
    OBVIOUS
  <2> HIDE DEF f, Solves
  <2> QED
    BY <2>1
<1>2. ASSUME NEW m \in T PROVE m + 1 \in T
  <2> SUFFICES ASSUME m + 1 <= n
               PROVE  \E f \in [0..(m + 1) -> S] : Solves(f, m + 1)
    OBVIOUS
  <2>1. PICK f \in [0..m -> S] : Solves(f, m)
    OBVIOUS
  <2> DEFINE h == [i \in 0..(m + 1) |-> IF i <= m THEN f[i] ELSE g[<<m + 1, f[m]>>]]
  <2>2. f[m] \in S /\ <<m + 1, f[m]>> \in (1..n) \X S
    OBVIOUS
  <2>3. g[<<m + 1, f[m]>>] \in S
    BY <2>2
  <2>4. h \in [0..(m + 1) -> S]
    BY <2>3
  <2>5. /\ \A i \in 0..m : h[i] = f[i]
        /\ h[m + 1] = g[<<m + 1, f[m]>>]
    OBVIOUS
  <2>6. Solves(h, m + 1)
    <3> HIDE DEF h
    <3>1. h[0] = a
      BY <2>1, <2>5
    <3>2. ASSUME NEW i \in 1..(m + 1) PROVE h[i] = g[<<i, h[i - 1]>>]
      <4>1. CASE i = m + 1
        BY <2>5, <4>1
      <4>2. CASE i # m + 1
        <5>1. i \in 1..m /\ i \in 0..m /\ i - 1 \in 0..m
          BY <4>2
        <5> QED
          BY <2>1, <2>5, <5>1
      <4> QED
        BY <4>1, <4>2
    <3> QED
      BY <3>1, <3>2
  <2> HIDE DEF h, Solves
  <2> QED
    BY <2>4, <2>6
<1>3. T = Nat
  <2> HIDE DEF T
  <2>1. T \in SUBSET Nat
    BY DEF T
  <2> QED
    BY <1>1, <1>2, <2>1, Induction
<1>4. n \in T
  BY <1>3
<1> QED
  BY <1>4 DEF Follows

(***************************************************************************)
(* Functions of some of the elements of a set.                             *)
(***************************************************************************)
Partial(D, R) == UNION {[S -> R] : S \in SUBSET D}

(* A function of such elements is one of them.                             *)
LEMMA PartialIs ==
  ASSUME NEW D, NEW R, NEW f
  PROVE  f \in Partial(D, R) <=>
           /\ f = [x \in DOMAIN f |-> f[x]]
           /\ DOMAIN f \subseteq D
           /\ \A x \in DOMAIN f : f[x] \in R
<1>1. f \in Partial(D, R) <=> \E S \in SUBSET D : f \in [S -> R]
  BY DEF Partial
<1> QED
  BY <1>1

(* One more value, or another one.                                         *)
LEMMA WithIs ==
  ASSUME NEW D, NEW R, NEW f \in Partial(D, R), NEW x \in D, NEW n \in R
  PROVE  /\ With(f, x, n) \in Partial(D, R)
         /\ DOMAIN With(f, x, n) = DOMAIN f \cup {x}
         /\ With(f, x, n)[x] = n
         /\ \A y \in DOMAIN f : y # x => With(f, x, n)[y] = f[y]
<1>1. /\ DOMAIN f \subseteq D
      /\ \A y \in DOMAIN f : f[y] \in R
  BY PartialIs
<1>2. /\ With(f, x, n) = [y \in DOMAIN With(f, x, n) |-> With(f, x, n)[y]]
      /\ DOMAIN With(f, x, n) = DOMAIN f \cup {x}
      /\ With(f, x, n)[x] = n
      /\ \A y \in DOMAIN f : y # x => With(f, x, n)[y] = f[y]
  BY DEF With
<1>3. \A y \in DOMAIN With(f, x, n) : With(f, x, n)[y] \in R
  BY <1>1, <1>2
<1> QED
  BY <1>1, <1>2, <1>3, PartialIs

(***************************************************************************)
(* Distances.  Four facts say all that StepsTo computes.                   *)
(***************************************************************************)
AreSteps(f, E, o, n) ==
  /\ f \in Partial(Objects, 0..n)
  /\ o \in DOMAIN f /\ f[o] = 0
  /\ \A x \in DOMAIN f : f[x] = 0 => x = o
  /\ \A e \in E : e[2] \in DOMAIN f /\ f[e[2]] < n =>
                    e[1] \in DOMAIN f /\ f[e[1]] <= f[e[2]] + 1
  /\ \A x \in DOMAIN f : f[x] # 0 =>
       \E e \in E : e[1] = x /\ e[2] \in DOMAIN f /\ f[e[2]] = f[x] - 1

(* The objects one step further.                                           *)
Further(E, f, k) ==
  [x \in DOMAIN f \cup Feeders(E, DOMAIN f) |-> IF x \in DOMAIN f THEN f[x] ELSE k]

(* A step further keeps the distances, and gives the new ones.             *)
LEMMA FurtherSteps ==
  ASSUME NEW E \in SUBSET Edges, NEW o \in Objects, NEW k \in Nat,
         NEW f, AreSteps(f, E, o, k)
  PROVE  AreSteps(Further(E, f, k + 1), E, o, k + 1)
<1> DEFINE g == Further(E, f, k + 1)
           New == Feeders(E, DOMAIN f) \ DOMAIN f
<1>1. /\ DOMAIN f \subseteq Objects
      /\ \A x \in DOMAIN f : f[x] \in 0..k
  BY PartialIs DEF AreSteps
<1>2. \A x : x \in Feeders(E, DOMAIN f) <=> \E e \in E : e[1] = x /\ e[2] \in DOMAIN f
  BY DEF Feeders
<1>3. /\ DOMAIN g = DOMAIN f \cup New
      /\ \A x \in DOMAIN f : g[x] = f[x]
      /\ \A x \in New : g[x] = k + 1
      /\ g = [x \in DOMAIN g |-> g[x]]
  BY DEF Further
<1>4. New \subseteq Objects
  BY <1>2 DEF Edges
<1> HIDE DEF g
<1>5. g \in Partial(Objects, 0..(k + 1))
  <2>1. \A x \in DOMAIN g : g[x] \in 0..(k + 1)
    BY <1>1, <1>3
  <2> QED
    BY <1>1, <1>3, <1>4, <2>1, PartialIs
<1>6. o \in DOMAIN g /\ g[o] = 0 /\ \A x \in DOMAIN g : g[x] = 0 => x = o
  BY <1>1, <1>3 DEF AreSteps
<1>7. ASSUME NEW e \in E, e[2] \in DOMAIN g, g[e[2]] < k + 1
      PROVE  e[1] \in DOMAIN g /\ g[e[1]] <= g[e[2]] + 1
  <2>1. e[2] \in DOMAIN f /\ g[e[2]] = f[e[2]] /\ f[e[2]] \in 0..k
    BY <1>1, <1>3, <1>7
  <2>2. CASE e[1] \in DOMAIN f
    <3>1. g[e[1]] = f[e[1]] /\ f[e[1]] \in 0..k
      BY <1>1, <1>3, <2>2
    <3>2. f[e[2]] < k => f[e[1]] <= f[e[2]] + 1
      BY <2>1 DEF AreSteps
    <3> QED
      BY <1>3, <2>1, <2>2, <3>1, <3>2
  <2>3. CASE e[1] \notin DOMAIN f
    <3>1. e[1] \in New /\ g[e[1]] = k + 1
      BY <1>2, <1>3, <2>1, <2>3
    <3>2. f[e[2]] = k
      BY <2>1, <2>3 DEF AreSteps
    <3> QED
      BY <1>3, <2>1, <3>1, <3>2
  <2> QED
    BY <2>2, <2>3
<1>8. ASSUME NEW x \in DOMAIN g, g[x] # 0
      PROVE  \E e \in E : e[1] = x /\ e[2] \in DOMAIN g /\ g[e[2]] = g[x] - 1
  <2>1. CASE x \in DOMAIN f
    <3>1. PICK e \in E : e[1] = x /\ e[2] \in DOMAIN f /\ f[e[2]] = f[x] - 1
      BY <1>3, <1>8, <2>1 DEF AreSteps
    <3> QED
      BY <1>3, <2>1, <3>1
  <2>2. CASE x \notin DOMAIN f
    <3>1. x \in New /\ g[x] = k + 1
      BY <1>3, <2>2
    <3>2. PICK e \in E : e[1] = x /\ e[2] \in DOMAIN f
      BY <1>2, <3>1
    <3>3. f[e[2]] = k
      <4>1. f[e[2]] \in 0..k /\ (f[e[2]] < k => e[1] \in DOMAIN f)
        BY <1>1, <3>2 DEF AreSteps
      <4> QED
        BY <2>2, <3>2, <4>1
    <3> QED
      BY <1>3, <3>1, <3>2, <3>3
  <2> QED
    BY <2>1, <2>2
<1>9. AreSteps(g, E, o, k + 1)
  BY <1>5, <1>6, <1>7, <1>8 DEF AreSteps
<1> QED
  BY <1>9 DEF g

(* The recursion of StepsTo is solved by taking steps one by one.          *)
LEMMA StepsExist ==
  ASSUME NEW E \in SUBSET Edges, NEW o \in Objects, NEW n \in Nat
  PROVE  \E f : f = [k \in 0..n |->
                       IF k = 0 THEN [x \in {o} |-> 0]
                       ELSE LET nearer == f[k - 1] IN
                            [x \in DOMAIN nearer \cup Feeders(E, DOMAIN nearer) |->
                               IF x \in DOMAIN nearer THEN nearer[x] ELSE k]]
<1> DEFINE S == Partial(Objects, Nat)
           a == [x \in {o} |-> 0]
           g == [p \in (1..n) \X S |-> Further(E, p[2], p[1])]
<1>1. a \in S
  <2>1. a = [x \in DOMAIN a |-> a[x]] /\ DOMAIN a = {o} /\ a[o] = 0
    OBVIOUS
  <2> HIDE DEF a
  <2> QED
    BY <2>1, PartialIs
<1>2. ASSUME NEW h \in S, NEW k \in Nat PROVE Further(E, h, k) \in S
  <2>1. DOMAIN h \subseteq Objects /\ \A x \in DOMAIN h : h[x] \in Nat
    BY PartialIs
  <2>2. Feeders(E, DOMAIN h) \subseteq Objects
    BY DEF Feeders, Edges
  <2> DEFINE h1 == Further(E, h, k)
  <2>3. /\ h1 = [x \in DOMAIN h1 |-> h1[x]]
        /\ DOMAIN h1 = DOMAIN h \cup Feeders(E, DOMAIN h)
        /\ \A x \in DOMAIN h1 : h1[x] = IF x \in DOMAIN h THEN h[x] ELSE k
    BY DEF Further
  <2> HIDE DEF h1
  <2>4. h1 \in Partial(Objects, Nat)
    BY <2>1, <2>2, <2>3, PartialIs
  <2> QED
    BY <2>4 DEF h1
<1>3. g \in [(1..n) \X S -> S]
  <2>1. \A p \in (1..n) \X S : Further(E, p[2], p[1]) \in S
    <3> HIDE DEF S
    <3> QED
      BY <1>2
  <2> HIDE DEF S
  <2> QED
    BY <2>1
<1>4. PICK f : Follows(f, g, S, a, n)
  <2>1. IsRule(g, S, n)
    BY <1>3 DEF IsRule
  <2> HIDE DEF S, a, g
  <2> QED
    BY <1>1, <2>1, RecursionExists
<1>5. ASSUME NEW i \in 1..n PROVE f[i] = Further(E, f[i - 1], i)
  <2>1. i - 1 \in 0..n
    OBVIOUS
  <2>2. <<i, f[i - 1]>> \in (1..n) \X S
    <3> HIDE DEF S, a, g
    <3> QED
      BY <1>4, <2>1 DEF Follows
  <2>3. g[<<i, f[i - 1]>>] = Further(E, f[i - 1], i)
    <3> HIDE DEF S
    <3> QED
      BY <2>2
  <2> HIDE DEF g
  <2> QED
    BY <1>4, <2>3 DEF Follows
<1>6. \A k \in 0..n :
        f[k] = IF k = 0 THEN [x \in {o} |-> 0]
               ELSE LET nearer == f[k - 1] IN
                    [x \in DOMAIN nearer \cup Feeders(E, DOMAIN nearer) |->
                       IF x \in DOMAIN nearer THEN nearer[x] ELSE k]
  <2> HIDE DEF S, g
  <2> SUFFICES ASSUME NEW k \in 0..n
               PROVE  f[k] = IF k = 0 THEN [x \in {o} |-> 0]
                             ELSE [x \in DOMAIN f[k - 1] \cup Feeders(E, DOMAIN f[k - 1]) |->
                                    IF x \in DOMAIN f[k - 1] THEN f[k - 1][x] ELSE k]
    BY Zenon
  <2>1. CASE k = 0
    BY <1>4, <2>1 DEF Follows
  <2>2. CASE k # 0
    <3>1. k \in 1..n
      BY <2>2
    <3>2. f[k] = Further(E, f[k - 1], k)
      BY <1>5, <3>1
    <3> QED
      BY <2>2, <3>2 DEF Further
  <2> QED
    BY <2>1, <2>2
<1> HIDE DEF S, g
<1>7. f = [k \in 0..n |-> f[k]]
  BY <1>4 DEF Follows
<1>8. [k \in 0..n |-> f[k]] =
        [k \in 0..n |->
           IF k = 0 THEN [x \in {o} |-> 0]
           ELSE LET nearer == f[k - 1] IN
                [x \in DOMAIN nearer \cup Feeders(E, DOMAIN nearer) |->
                   IF x \in DOMAIN nearer THEN nearer[x] ELSE k]]
  BY <1>6, Zenon
<1> QED
  BY <1>7, <1>8, Zenon

(* StepsTo gives every object its distance.                                *)
LEMMA StepsAre ==
  ASSUME NEW E \in SUBSET Edges, NEW o \in Objects, NEW n \in Nat
  PROVE  AreSteps(StepsTo(E, o, n), E, o, n)
<1> DEFINE f == CHOOSE f : f = [k \in 0..n |->
                       IF k = 0 THEN [x \in {o} |-> 0]
                       ELSE LET nearer == f[k - 1] IN
                            [x \in DOMAIN nearer \cup Feeders(E, DOMAIN nearer) |->
                               IF x \in DOMAIN nearer THEN nearer[x] ELSE k]]
<1>1. StepsTo(E, o, n) = f[n]
  BY DEF StepsTo
<1>2. f = [k \in 0..n |->
             IF k = 0 THEN [x \in {o} |-> 0]
             ELSE LET nearer == f[k - 1] IN
                  [x \in DOMAIN nearer \cup Feeders(E, DOMAIN nearer) |->
                     IF x \in DOMAIN nearer THEN nearer[x] ELSE k]]
  BY StepsExist, Zenon
<1> HIDE DEF f
<1> DEFINE T == {k \in Nat : k <= n => AreSteps(f[k], E, o, k)}
           F == [k \in 0..n |->
                   IF k = 0 THEN [x \in {o} |-> 0]
                   ELSE LET nearer == f[k - 1] IN
                        [x \in DOMAIN nearer \cup Feeders(E, DOMAIN nearer) |->
                           IF x \in DOMAIN nearer THEN nearer[x] ELSE k]]
<1>3. 0 \in T
  <2>1. F[0] = [x \in {o} |-> 0]
    OBVIOUS
  <2>2. f[0] = [x \in {o} |-> 0]
    <3>1. f = F
      BY <1>2
    <3> HIDE DEF F
    <3> QED
      BY <2>1, <3>1
  <2> DEFINE a == f[0]
  <2>3. a = [x \in DOMAIN a |-> a[x]] /\ DOMAIN a = {o} /\ a[o] = 0
    BY <2>2
  <2> HIDE DEF a, F
  <2>4. a \in Partial(Objects, 0..0)
    BY <2>3, PartialIs
  <2>5. AreSteps(a, E, o, 0)
    BY <2>3, <2>4 DEF AreSteps
  <2> QED
    BY <2>5 DEF a
<1>4. ASSUME NEW k \in T PROVE k + 1 \in T
  <2> SUFFICES ASSUME k + 1 <= n PROVE AreSteps(f[k + 1], E, o, k + 1)
    OBVIOUS
  <2>1. AreSteps(f[k], E, o, k) /\ k \in Nat
    OBVIOUS
  <2>2. F[k + 1] = Further(E, f[(k + 1) - 1], k + 1)
    <3>1. k + 1 \in 0..n /\ k + 1 # 0
      BY <2>1
    <3> QED
      BY <3>1, Zenon DEF Further
  <2>3. (k + 1) - 1 = k
    BY <2>1
  <2>4. f[k + 1] = Further(E, f[k], k + 1)
    <3>1. f = F
      BY <1>2
    <3> HIDE DEF F, T
    <3> QED
      BY <2>2, <2>3, <3>1
  <2> HIDE DEF F, T
  <2> QED
    BY <2>1, <2>4, FurtherSteps
<1>5. T = Nat
  <2> HIDE DEF T
  <2>1. T \in SUBSET Nat
    BY DEF T
  <2> QED
    BY <1>3, <1>4, <2>1, Induction
<1>6. n \in T
  BY <1>5
<1> HIDE DEF F
<1> QED
  BY <1>1, <1>6

(***************************************************************************)
(* The state a lemma is about.                                             *)
(***************************************************************************)
Given == world \in Worlds /\ request \in Requests

(* What the request and the world are.                                     *)
LEMMA GivenFacts ==
  ASSUME Given
  PROVE  /\ world.feeds \in SUBSET Edges /\ world.sql \in SUBSET Edges
         /\ request.maxDepth \in Nat \ {0} /\ request.maxNodes \in Nat \ {0}
         /\ request.maxEdges \in Nat \ {0} /\ request.maxQueries \in Nat \ {0}
         /\ BatchDepth \in Nat \ {0} /\ Far = request.maxDepth + 1
         /\ Root \in Objects
         /\ Lineage \in SUBSET Edges /\ world.feeds \subseteq Lineage
<1>1. world \in [feeds : SUBSET Edges, sql : SUBSET Edges, opaque : SUBSET Objects]
  BY WorldsAssumption DEF Given
<1>2. world.feeds \in SUBSET Edges /\ world.sql \in SUBSET Edges
  BY <1>1
<1>3. {request.maxDepth, request.maxNodes, request.maxEdges, request.maxQueries}
        \subseteq Nat \ {0}
  BY RequestsAssumption DEF Given
<1>4. Lineage \in SUBSET Edges /\ world.feeds \subseteq Lineage
  BY <1>2 DEF Lineage
<1> QED
  BY <1>2, <1>3, <1>4, DepthAssumption, RootAssumption DEF Far

(* What At reads.                                                          *)
LEMMA AtIs ==
  ASSUME Given, NEW D, NEW f \in Partial(D, 0..request.maxDepth), NEW x
  PROVE  /\ At(f, x) \in 0..(request.maxDepth + 1)
         /\ x \in DOMAIN f => At(f, x) = f[x] /\ At(f, x) <= request.maxDepth
         /\ x \notin DOMAIN f => At(f, x) = request.maxDepth + 1
<1>1. request.maxDepth \in Nat /\ Far = request.maxDepth + 1
  BY GivenFacts
<1>2. \A y \in DOMAIN f : f[y] \in 0..request.maxDepth
  BY PartialIs
<1> QED
  BY <1>1, <1>2 DEF At

(* From o to x and on to y is as far as y may be.                          *)
LEMMA Triangle ==
  ASSUME Given, NEW E \in SUBSET Edges, NEW F \in SUBSET Edges, E \subseteq F,
         NEW o \in Objects, NEW x \in Objects, NEW y
  PROVE  LET near == StepsTo(E, x, request.maxDepth)
             far == StepsTo(F, o, request.maxDepth)
         IN  At(far, x) + At(near, y) <= request.maxDepth
               => At(far, y) <= At(far, x) + At(near, y)
<1> DEFINE max == request.maxDepth
           near == StepsTo(E, x, max)
           far == StepsTo(F, o, max)
           T == {k \in Nat : \A z : At(near, z) = k /\ At(far, x) + k <= max
                                      => At(far, z) <= At(far, x) + k}
<1>1. max \in Nat
  BY GivenFacts
<1>2. AreSteps(near, E, x, max) /\ AreSteps(far, F, o, max)
  BY <1>1, StepsAre
<1> HIDE DEF near, far
<1>3. /\ near \in Partial(Objects, 0..max) /\ far \in Partial(Objects, 0..max)
  BY <1>2 DEF AreSteps
<1>4. \A z : /\ At(near, z) \in 0..(max + 1)
             /\ z \in DOMAIN near => At(near, z) = near[z]
             /\ z \notin DOMAIN near => At(near, z) = max + 1
             /\ At(far, z) \in 0..(max + 1)
             /\ z \in DOMAIN far => At(far, z) = far[z]
             /\ z \notin DOMAIN far => At(far, z) = max + 1
  BY <1>3, AtIs
<1> HIDE DEF max
<1>5. 0 \in T
  <2>1. ASSUME NEW z, At(near, z) = 0 PROVE z = x
    <3>1. z \in DOMAIN near /\ near[z] = 0
      BY <1>1, <1>4, <2>1
    <3> QED
      BY <1>2, <3>1 DEF AreSteps
  <2> QED
    BY <1>1, <1>4, <2>1
<1>6. ASSUME NEW k \in T PROVE k + 1 \in T
  <2> SUFFICES ASSUME NEW z, At(near, z) = k + 1, At(far, x) + (k + 1) <= max
               PROVE  At(far, z) <= At(far, x) + (k + 1)
    OBVIOUS
  <2>1. k \in Nat /\ At(far, x) \in Nat
    BY <1>1, <1>4
  <2>2. z \in DOMAIN near /\ near[z] = k + 1
    BY <1>1, <1>4, <2>1
  <2>3. PICK e \in E : e[1] = z /\ e[2] \in DOMAIN near /\ near[e[2]] = (k + 1) - 1
    BY <1>2, <2>1, <2>2 DEF AreSteps
  <2>4. At(near, e[2]) = k /\ At(far, x) + k <= max
    BY <1>1, <1>4, <2>1, <2>3
  <2>5. At(far, e[2]) <= At(far, x) + k
    BY <2>4
  <2>6. e[2] \in DOMAIN far /\ far[e[2]] < max /\ far[e[2]] = At(far, e[2])
    BY <1>1, <1>4, <2>1, <2>5
  <2>7. e[1] \in DOMAIN far /\ far[e[1]] <= far[e[2]] + 1
    BY <1>2, <2>6 DEF AreSteps
  <2>8. At(far, z) = far[z] /\ far[z] \in Int
    BY <1>4, <2>3, <2>7
  <2>9. At(far, z) <= At(far, e[2]) + 1
    BY <2>3, <2>6, <2>7, <2>8
  <2>10. At(far, e[2]) \in Nat
    BY <1>4
  <2> QED
    BY <2>1, <2>5, <2>8, <2>9, <2>10
<1>7. T = Nat
  <2> HIDE DEF T
  <2>1. T \in SUBSET Nat
    BY DEF T
  <2> QED
    BY <1>5, <1>6, <2>1, Induction
<1>8. At(near, y) \in T
  BY <1>1, <1>4, <1>7
<1>9. At(far, x) + At(near, y) <= max => At(far, y) <= At(far, x) + At(near, y)
  BY <1>8
<1> QED
  BY <1>9 DEF near, far, max

(* What the distances from an object are.                                  *)
LEMMA StepsFacts ==
  ASSUME Given, NEW E \in SUBSET Edges, NEW o \in Objects
  PROVE  LET steps == StepsTo(E, o, request.maxDepth) IN
         /\ AreSteps(steps, E, o, request.maxDepth)
         /\ steps \in Partial(Objects, 0..request.maxDepth)
         /\ At(steps, o) = 0
         /\ \A x : At(steps, x) \in 0..(request.maxDepth + 1)
         /\ \A x : At(steps, x) = 0 => x = o
         /\ \A e \in E : At(steps, e[2]) < request.maxDepth
                           => At(steps, e[1]) <= At(steps, e[2]) + 1
         /\ \A x : At(steps, x) # 0 /\ At(steps, x) <= request.maxDepth =>
              \E e \in E : e[1] = x /\ At(steps, e[2]) = At(steps, x) - 1
<1> DEFINE max == request.maxDepth
           steps == StepsTo(E, o, max)
<1>1. max \in Nat
  BY GivenFacts
<1>2. AreSteps(steps, E, o, max)
  BY <1>1, StepsAre
<1> HIDE DEF steps
<1>3. steps \in Partial(Objects, 0..max)
  BY <1>2 DEF AreSteps
<1>4. \A x : /\ At(steps, x) \in 0..(max + 1)
             /\ x \in DOMAIN steps => At(steps, x) = steps[x]
             /\ x \notin DOMAIN steps => At(steps, x) = max + 1
  BY <1>3, AtIs
<1>5. At(steps, o) = 0
  BY <1>2, <1>4 DEF AreSteps
<1>6. ASSUME NEW e \in E, At(steps, e[2]) < max
      PROVE  At(steps, e[1]) <= At(steps, e[2]) + 1
  <2>1. e[2] \in DOMAIN steps /\ steps[e[2]] = At(steps, e[2])
    BY <1>1, <1>4, <1>6
  <2>2. e[1] \in DOMAIN steps /\ steps[e[1]] <= steps[e[2]] + 1
    BY <1>2, <1>6, <2>1 DEF AreSteps
  <2> QED
    BY <1>4, <2>1, <2>2
<1>7. ASSUME NEW x, At(steps, x) <= max
      PROVE  x \in DOMAIN steps /\ At(steps, x) = steps[x]
  BY <1>1, <1>4, <1>7
<1>8. ASSUME NEW x, At(steps, x) = 0
      PROVE  x = o
  BY <1>1, <1>2, <1>7, <1>8 DEF AreSteps
<1>9. ASSUME NEW x, At(steps, x) # 0, At(steps, x) <= max
      PROVE  \E e \in E : e[1] = x /\ At(steps, e[2]) = At(steps, x) - 1
  <2>1. x \in DOMAIN steps /\ steps[x] # 0
    BY <1>7, <1>9
  <2>2. PICK e \in E : e[1] = x /\ e[2] \in DOMAIN steps /\ steps[e[2]] = steps[x] - 1
    BY <1>2, <2>1 DEF AreSteps
  <2> QED
    BY <1>4, <2>1, <2>2
<1> QED
  BY <1>2, <1>3, <1>4, <1>5, <1>6, <1>8, <1>9 DEF steps

(* What the distances from the root are.                                   *)
LEMMA ShortestFacts ==
  ASSUME Given
  PROVE  /\ Shortest \in Partial(Objects, 0..request.maxDepth)
         /\ At(Shortest, Root) = 0
         /\ \A x : At(Shortest, x) \in 0..(request.maxDepth + 1)
         /\ \A x : At(Shortest, x) = 0 => x = Root
         /\ \A e \in Lineage : At(Shortest, e[2]) < request.maxDepth
                                 => At(Shortest, e[1]) <= At(Shortest, e[2]) + 1
         /\ \A x : At(Shortest, x) # 0 /\ At(Shortest, x) <= request.maxDepth =>
              \E e \in Lineage : e[1] = x /\ At(Shortest, e[2]) = At(Shortest, x) - 1
<1>1. Lineage \in SUBSET Edges /\ Root \in Objects
  BY GivenFacts
<1> QED
  BY <1>1, StepsFacts DEF Shortest

(***************************************************************************)
(* What a walk is, and what is true of it after every answer.              *)
(***************************************************************************)
Codes ==
  {"SNOWFLAKE_LINEAGE_QUERY_LIMIT_REACHED", "SNOWFLAKE_LINEAGE_BOUNDARY_SKIPPED",
   "SNOWFLAKE_LINEAGE_ROW_INVALID", "SNOWFLAKE_LINEAGE_BRANCH_FAILED",
   "SNOWFLAKE_LINEAGE_INFERENCE_FAILED", "SNOWFLAKE_LINEAGE_CYCLE_SKIPPED",
   "SNOWFLAKE_LINEAGE_TRUNCATED"}

Walks ==
  [nodes : SUBSET Objects,
   distance : Partial(Edges, 0..request.maxDepth),
   level : Partial(Objects, 0..request.maxDepth),
   queriedAt : Partial(Objects, 0..request.maxDepth),
   queries : Nat, inferredFrom : SUBSET Objects, pending : SUBSET Tasks,
   cycleSeen : BOOLEAN, truncated : BOOLEAN, warnings : SUBSET Codes]

WithinLimits(w) ==
  /\ Cardinality(w.nodes) <= request.maxNodes
  /\ Cardinality(DOMAIN w.distance) <= request.maxEdges
  /\ w.queries <= request.maxQueries

(* A call asks of an object no nearer than it is; the SQL is read only of  *)
(* an object Snowflake knows no sources of.                                *)
SoundTask(t) ==
  /\ t \in Tasks
  /\ t.level < request.maxDepth
  /\ At(Shortest, t.object) <= t.level
  /\ t.kind = "inference" => request.infers /\ Feeders(world.feeds, {t.object}) = {}

(* What is reported exists, no nearer than it is.                          *)
Real(w) ==
  /\ \A e \in DOMAIN w.distance : e \in Lineage /\ w.distance[e] > At(Shortest, e[2])
  /\ \A o \in DOMAIN w.level : w.level[o] >= At(Shortest, o)
  /\ \A t \in w.pending : SoundTask(t)

SoundWalks == {w \in Walks : Root \in w.nodes /\ WithinLimits(w) /\ Real(w)}

(* u keeps what w holds: distances only shrink, and a level a call is new  *)
(* at is the level of a call that has been submitted.                      *)
Extends(w, u) ==
  /\ w.nodes \subseteq u.nodes
  /\ \A e : At(u.distance, e) <= At(w.distance, e)
  /\ \A o : At(u.level, o) <= At(w.level, o)
  /\ \A o : At(u.queriedAt, o) <= At(w.queriedAt, o)
  /\ \A o \in DOMAIN u.queriedAt :
       \/ o \in DOMAIN w.queriedAt /\ u.queriedAt[o] = w.queriedAt[o]
       \/ Task("lineage", o, u.queriedAt[o]) \in u.pending
  /\ w.pending \subseteq u.pending
  /\ w.truncated => u.truncated
  /\ w.warnings \subseteq u.warnings

(* The distances of a walk are numbers.                                    *)
LEMMA WalkFacts ==
  ASSUME Given, NEW w \in Walks
  PROVE  \A x : /\ At(w.distance, x) \in 0..(request.maxDepth + 1)
                /\ At(w.level, x) \in 0..(request.maxDepth + 1)
                /\ At(w.queriedAt, x) \in 0..(request.maxDepth + 1)
<1>1. /\ w.distance \in Partial(Edges, 0..request.maxDepth)
      /\ w.level \in Partial(Objects, 0..request.maxDepth)
      /\ w.queriedAt \in Partial(Objects, 0..request.maxDepth)
  BY DEF Walks
<1> QED
  BY <1>1, AtIs

(* A change of nothing but nodes, calls and what is said of them.          *)
LEMMA SameExtends ==
  ASSUME Given, NEW w \in Walks, NEW u,
         u.distance = w.distance, u.level = w.level, u.queriedAt = w.queriedAt,
         w.nodes \subseteq u.nodes, w.pending \subseteq u.pending,
         w.truncated => u.truncated, w.warnings \subseteq u.warnings
  PROVE  Extends(w, u)
<1>1. \A x : /\ At(w.distance, x) \in Int /\ At(w.level, x) \in Int
             /\ At(w.queriedAt, x) \in Int
  BY WalkFacts
<1> QED
  BY <1>1 DEF Extends

(* What extends an extension extends what it began with.                   *)
LEMMA ExtendsTransitive ==
  ASSUME Given, NEW w \in Walks, NEW u \in Walks, NEW v \in Walks,
         Extends(w, u), Extends(u, v)
  PROVE  Extends(w, v)
<1>1. \A x : /\ At(w.distance, x) \in Int /\ At(w.level, x) \in Int
             /\ At(w.queriedAt, x) \in Int
             /\ At(u.distance, x) \in Int /\ At(u.level, x) \in Int
             /\ At(u.queriedAt, x) \in Int
             /\ At(v.distance, x) \in Int /\ At(v.level, x) \in Int
             /\ At(v.queriedAt, x) \in Int
  BY WalkFacts
<1>2. /\ w.nodes \subseteq v.nodes /\ w.pending \subseteq v.pending
      /\ w.truncated => v.truncated
      /\ w.warnings \subseteq v.warnings
  BY DEF Extends
<1>3. \A x : At(v.distance, x) <= At(w.distance, x)
  BY <1>1 DEF Extends
<1>4. \A x : At(v.level, x) <= At(w.level, x)
  BY <1>1 DEF Extends
<1>5. \A x : At(v.queriedAt, x) <= At(w.queriedAt, x)
  BY <1>1 DEF Extends
<1>6. \A o \in DOMAIN v.queriedAt :
        \/ o \in DOMAIN w.queriedAt /\ v.queriedAt[o] = w.queriedAt[o]
        \/ Task("lineage", o, v.queriedAt[o]) \in v.pending
  BY DEF Extends
<1> QED
  BY <1>2, <1>3, <1>4, <1>5, <1>6 DEF Extends

(* g is f with x at n, or as low as it was.                                *)
Lowered(g, D, f, x, n) ==
  /\ g \in Partial(D, 0..request.maxDepth)
  /\ DOMAIN g = DOMAIN f \cup {x}
  /\ At(g, x) <= n
  /\ \A y : At(g, y) <= At(f, y)
  /\ \A y \in DOMAIN g : (y = x /\ g[y] = n) \/ (y \in DOMAIN f /\ g[y] = f[y])

(* Lowering a distance, or giving a first one.                             *)
LEMMA LowerIs ==
  ASSUME Given, NEW D, NEW f \in Partial(D, 0..request.maxDepth), NEW x \in D,
         NEW n, n \in 0..request.maxDepth
  PROVE  Lowered(Lower(f, x, n), D, f, x, n)
<1> DEFINE max == request.maxDepth
           g == Lower(f, x, n)
<1>1. max \in Nat /\ \A y : At(f, y) \in 0..(max + 1)
  BY GivenFacts, AtIs
<1>2. CASE n < At(f, x)
  <2>1. g = With(f, x, n)
    BY <1>2 DEF Lower
  <2>2. /\ g \in Partial(D, 0..max)
        /\ DOMAIN g = DOMAIN f \cup {x}
        /\ g[x] = n
        /\ \A y \in DOMAIN f : y # x => g[y] = f[y]
    <3> DEFINE h == With(f, x, n)
               R == 0..max
    <3>1. f \in Partial(D, R) /\ n \in R
      OBVIOUS
    <3> HIDE DEF R
    <3>2. /\ h \in Partial(D, R)
          /\ DOMAIN h = DOMAIN f \cup {x}
          /\ h[x] = n
          /\ \A y \in DOMAIN f : y # x => h[y] = f[y]
      BY <3>1, WithIs
    <3> HIDE DEF g, h
    <3> QED
      BY <2>1, <3>2 DEF h, R
  <2> HIDE DEF g
  <2>3. /\ At(g, x) = n
        /\ \A y : y # x => At(g, y) = At(f, y)
    BY <2>2, AtIs
  <2>4. \A y : At(g, y) <= At(f, y)
    BY <1>1, <1>2, <2>3
  <2>5. n <= n
    OBVIOUS
  <2>6. Lowered(g, D, f, x, n)
    BY <2>2, <2>3, <2>4, <2>5 DEF Lowered
  <2> QED
    BY <2>6 DEF g
<1>3. CASE ~(n < At(f, x))
  <2>1. g = f
    BY <1>3 DEF Lower
  <2>2. x \in DOMAIN f
    BY <1>1, <1>3, AtIs
  <2>3. At(f, x) <= n /\ \A y : At(f, y) <= At(f, y)
    BY <1>1, <1>3
  <2> HIDE DEF g
  <2>4. Lowered(g, D, f, x, n)
    BY <2>1, <2>2, <2>3 DEF Lowered
  <2> QED
    BY <2>4 DEF g
<1> QED
  BY <1>2, <1>3

(***************************************************************************)
(* The bookkeeping, one operator after the other.                          *)
(***************************************************************************)

(* A walk said to be truncated is as sound as it was.                      *)
LEMMA TruncatedIs ==
  ASSUME Given, NEW w \in SoundWalks
  PROVE  /\ Truncated(w) \in SoundWalks /\ Extends(w, Truncated(w))
         /\ Truncated(w).truncated
<1>1. w \in Walks
  BY DEF SoundWalks
<1>2. /\ Truncated(w) \in Walks /\ Truncated(w).truncated
      /\ \A f \in {"nodes", "distance", "level", "queriedAt", "queries", "inferredFrom",
                   "pending", "cycleSeen", "warnings"} : Truncated(w)[f] = w[f]
  BY <1>1 DEF Walks, Truncated
<1>3. Truncated(w) \in SoundWalks
  BY <1>2 DEF SoundWalks, WithinLimits, Real
<1> QED
  BY <1>1, <1>2, <1>3, SameExtends

(* So is one with a warning.                                               *)
LEMMA WarnedIs ==
  ASSUME Given, NEW w \in SoundWalks, NEW code \in Codes
  PROVE  /\ Warned(w, code) \in SoundWalks /\ Extends(w, Warned(w, code))
         /\ code \in Warned(w, code).warnings
<1>1. w \in Walks
  BY DEF SoundWalks
<1>2. /\ Warned(w, code) \in Walks /\ code \in Warned(w, code).warnings
      /\ w.warnings \subseteq Warned(w, code).warnings
      /\ \A f \in {"nodes", "distance", "level", "queriedAt", "queries", "inferredFrom",
                   "pending", "cycleSeen", "truncated"} : Warned(w, code)[f] = w[f]
  BY <1>1 DEF Walks, Warned
<1>3. Warned(w, code) \in SoundWalks
  BY <1>2 DEF SoundWalks, WithinLimits, Real
<1> QED
  BY <1>1, <1>2, <1>3, SameExtends

(* So is one cut with a warning.                                           *)
LEMMA CutIs ==
  ASSUME Given, NEW w \in SoundWalks, NEW code \in Codes
  PROVE  LET u == Warned(Truncated(w), code) IN
         u \in SoundWalks /\ Extends(w, u) /\ u.truncated /\ code \in u.warnings
<1> DEFINE t == Truncated(w)
<1>1. t \in SoundWalks /\ Extends(w, t) /\ t.truncated
  BY TruncatedIs
<1> HIDE DEF t
<1>2. /\ Warned(t, code) \in SoundWalks /\ Extends(t, Warned(t, code))
      /\ code \in Warned(t, code).warnings
  BY <1>1, WarnedIs
<1>3. Extends(w, Warned(t, code))
  BY <1>1, <1>2, ExtendsTransitive DEF SoundWalks
<1>4. Warned(t, code).truncated
  BY <1>1, <1>2 DEF Extends
<1> QED
  BY <1>2, <1>3, <1>4 DEF t

(* A node more, or none and the limit is said to be reached.               *)
LEMMA AddNodeIs ==
  ASSUME Given, NEW w \in SoundWalks, NEW o \in Objects
  PROVE  LET u == AddNode(w, o) IN
         /\ u \in SoundWalks /\ Extends(w, u)
         /\ o \in u.nodes \/ u.truncated
         /\ o \in w.nodes => u = w
<1>1. w \in Walks /\ w.nodes \subseteq Objects
  BY DEF SoundWalks, Walks
<1>2. CASE o \in w.nodes
  <2>1. AddNode(w, o) = w
    <3>1. w.nodes \cup {o} = w.nodes
      BY <1>2
    <3> QED
      BY <1>1, <1>2, <3>1 DEF AddNode, Walks
  <2>2. Extends(w, w)
    BY <1>1, SameExtends
  <2> QED
    BY <1>2, <2>1, <2>2
<1>3. CASE o \notin w.nodes /\ Cardinality(w.nodes) < request.maxNodes
  <2> DEFINE u == AddNode(w, o)
  <2>1. /\ u \in Walks /\ u.nodes = w.nodes \cup {o}
        /\ \A f \in {"distance", "level", "queriedAt", "queries", "inferredFrom",
                     "pending", "cycleSeen", "truncated", "warnings"} : u[f] = w[f]
    BY <1>1, <1>3 DEF AddNode, Walks
  <2> HIDE DEF u
  <2>2. IsFiniteSet(w.nodes)
    BY <1>1, RootAssumption, FS_Subset
  <2>3. Cardinality(u.nodes) = Cardinality(w.nodes) + 1 /\ Cardinality(w.nodes) \in Nat
    BY <1>3, <2>1, <2>2, FS_AddElement, FS_CardinalityType
  <2>4. Cardinality(u.nodes) <= request.maxNodes
    BY <1>3, <2>3, GivenFacts
  <2>5. u \in SoundWalks
    BY <2>1, <2>4 DEF SoundWalks, WithinLimits, Real
  <2>6. Extends(w, u)
    BY <1>1, <2>1, SameExtends
  <2> QED
    BY <1>3, <2>1, <2>5, <2>6 DEF u
<1>4. CASE o \notin w.nodes /\ ~(Cardinality(w.nodes) < request.maxNodes)
  <2>1. AddNode(w, o) = Truncated(w)
    BY <1>4 DEF AddNode
  <2> QED
    BY <1>4, <2>1, TruncatedIs
<1> QED
  BY <1>2, <1>3, <1>4

(* A new edge, or a shorter distance of a known one.                       *)
LEMMA AddEdgeIs ==
  ASSUME Given, NEW w \in SoundWalks, NEW e \in Lineage, NEW d \in 1..request.maxDepth,
         At(Shortest, e[2]) < d,
         e \in DOMAIN w.distance \/ Cardinality(DOMAIN w.distance) < request.maxEdges
  PROVE  LET u == AddEdge(w, e, d) IN
         u \in SoundWalks /\ Extends(w, u) /\ At(u.distance, e) <= d
<1> DEFINE u == AddEdge(w, e, d)
           g == Lower(w.distance, e, d)
<1>1. /\ w \in Walks /\ w.distance \in Partial(Edges, 0..request.maxDepth)
      /\ e \in Edges /\ d \in 0..request.maxDepth
  BY GivenFacts DEF SoundWalks, Walks
<1>2. Lowered(g, Edges, w.distance, e, d)
  BY <1>1, LowerIs
<1> HIDE DEF g
<1>3. /\ u \in Walks /\ u.distance = g
      /\ \A f \in {"nodes", "level", "queriedAt", "queries", "inferredFrom",
                   "pending", "cycleSeen", "truncated", "warnings"} : u[f] = w[f]
  BY <1>1, <1>2 DEF AddEdge, Walks, g, Lowered
<1> HIDE DEF u
<1>4. Cardinality(DOMAIN g) <= request.maxEdges
  <2>1. IsFiniteSet(Edges)
    BY RootAssumption, FS_Product DEF Edges
  <2>2. DOMAIN w.distance \subseteq Edges
    BY <1>1, PartialIs
  <2>3. IsFiniteSet(DOMAIN w.distance)
    BY <2>1, <2>2, FS_Subset
  <2>4. CASE e \in DOMAIN w.distance
    <3>1. DOMAIN g = DOMAIN w.distance
      BY <1>2, <2>4 DEF Lowered
    <3> QED
      BY <3>1 DEF SoundWalks, WithinLimits
  <2>5. CASE e \notin DOMAIN w.distance
    <3>1. /\ Cardinality(DOMAIN g) = Cardinality(DOMAIN w.distance) + 1
          /\ Cardinality(DOMAIN w.distance) \in Nat
      <4>1. DOMAIN g = DOMAIN w.distance \cup {e}
        BY <1>2 DEF Lowered
      <4> QED
        BY <2>3, <2>5, <4>1, FS_AddElement, FS_CardinalityType
    <3> QED
      BY <2>5, <3>1, GivenFacts
  <2> QED
    BY <2>4, <2>5
<1>5. \A y \in DOMAIN g : y \in Lineage /\ g[y] > At(Shortest, y[2])
  <2>1. \A y \in DOMAIN w.distance :
          y \in Lineage /\ w.distance[y] > At(Shortest, y[2])
    BY DEF SoundWalks, Real
  <2>2. d > At(Shortest, e[2])
    OBVIOUS
  <2> QED
    BY <1>2, <2>1, <2>2 DEF Lowered
<1>6. u \in SoundWalks
  BY <1>3, <1>4, <1>5 DEF SoundWalks, WithinLimits, Real
<1>7. Extends(w, u)
  <2>1. \A x : At(w.level, x) \in Int /\ At(w.queriedAt, x) \in Int
    BY <1>1, WalkFacts
  <2> QED
    BY <1>2, <1>3, <2>1 DEF Extends, Lowered
<1>8. At(u.distance, e) <= d
  BY <1>2, <1>3 DEF Lowered
<1> QED
  BY <1>6, <1>7, <1>8 DEF u

(* Both ends get a level.                                                  *)
LEMMA PlacedIs ==
  ASSUME Given, NEW w \in SoundWalks, NEW e \in Edges, NEW d \in 1..request.maxDepth,
         At(Shortest, e[1]) <= d, At(Shortest, e[2]) < d
  PROVE  LET u == Placed(w, e, d) IN
         /\ u \in SoundWalks /\ Extends(w, u)
         /\ At(u.level, e[1]) <= d /\ u.distance = w.distance
<1> DEFINE u == Placed(w, e, d)
           max == request.maxDepth
           f == Lower(w.level, e[1], d)
           g == Lower(f, e[2], d - 1)
<1>1. /\ w \in Walks /\ w.level \in Partial(Objects, 0..max)
      /\ e[1] \in Objects /\ e[2] \in Objects
      /\ d \in 0..max /\ d - 1 \in 0..max
  BY GivenFacts DEF SoundWalks, Walks, Edges
<1>2. Lowered(f, Objects, w.level, e[1], d)
  BY <1>1, LowerIs
<1> HIDE DEF f
<1>3. Lowered(g, Objects, f, e[2], d - 1)
  <2>1. f \in Partial(Objects, 0..max)
    BY <1>2 DEF Lowered
  <2> QED
    BY <1>1, <2>1, LowerIs
<1> HIDE DEF g
<1>4. /\ u \in Walks /\ u.level = g
      /\ \A k \in {"nodes", "distance", "queriedAt", "queries", "inferredFrom",
                   "pending", "cycleSeen", "truncated", "warnings"} : u[k] = w[k]
  BY <1>1, <1>3 DEF Placed, Walks, f, g, Lowered
<1> HIDE DEF u
<1>5. \A y \in DOMAIN g : g[y] >= At(Shortest, y)
  <2>1. \A y \in DOMAIN w.level : w.level[y] >= At(Shortest, y)
    BY DEF SoundWalks, Real
  <2>2. At(Shortest, e[1]) \in Int /\ At(Shortest, e[2]) \in Int
    BY ShortestFacts
  <2>3. d >= At(Shortest, e[1]) /\ d - 1 >= At(Shortest, e[2])
    BY <1>1, <2>2
  <2> QED
    BY <1>2, <1>3, <2>1, <2>3 DEF Lowered
<1>6. u \in SoundWalks
  BY <1>4, <1>5 DEF SoundWalks, WithinLimits, Real
<1>7. \A x : At(g, x) <= At(w.level, x)
  <2>1. \A x : /\ At(w.level, x) \in Int /\ At(f, x) \in Int /\ At(g, x) \in Int
    BY <1>1, <1>2, <1>3, AtIs DEF Lowered
  <2> QED
    BY <1>2, <1>3, <2>1 DEF Lowered
<1>8. Extends(w, u)
  <2>1. \A x : At(w.distance, x) \in Int /\ At(w.queriedAt, x) \in Int
    BY <1>1, WalkFacts
  <2> QED
    BY <1>4, <1>7, <2>1 DEF Extends
<1>9. At(g, e[1]) <= d
  <2>1. At(f, e[1]) \in Int /\ At(g, e[1]) \in Int
    BY <1>2, <1>3, AtIs DEF Lowered
  <2> QED
    BY <1>1, <1>2, <1>3, <2>1 DEF Lowered
<1> QED
  BY <1>4, <1>6, <1>8, <1>9 DEF u

(* An edge that is accepted is held, at its distance or a lower one.       *)
Admits(r, w, e, d) ==
  /\ r.walk \in SoundWalks /\ Extends(w, r.walk)
  /\ r.accepted => /\ At(r.walk.distance, e) <= d
                   /\ At(r.walk.level, e[1]) <= d
  /\ ~r.accepted => r.walk.truncated

(* Both ends, then the edge.                                               *)
LEMMA AdmitIs ==
  ASSUME Given, NEW w \in SoundWalks, NEW e \in Lineage, NEW d \in 1..request.maxDepth,
         At(Shortest, e[2]) < d
  PROVE  Admits(Admit(w, e, d), w, e, d)
<1> DEFINE w1 == AddNode(w, e[1])
           w2 == IF e[1] \in w1.nodes THEN AddNode(w1, e[2]) ELSE w1
           known == DOMAIN w2.distance
           full == e \notin known /\ Cardinality(known) >= request.maxEdges
           w3 == AddEdge(w2, e, d)
           w4 == Placed(w3, e, d)
           r == Admit(w, e, d)
<1> SUFFICES Admits(r, w, e, d)
  OBVIOUS
<1>1. /\ e \in Edges /\ e[1] \in Objects /\ e[2] \in Objects
      /\ request.maxDepth \in Nat /\ request.maxEdges \in Nat
  BY GivenFacts DEF Edges
<1>2. /\ w1 \in SoundWalks /\ Extends(w, w1)
      /\ e[1] \in w1.nodes \/ w1.truncated
  BY <1>1, AddNodeIs
<1>3. r = IF ~({e[1], e[2]} \subseteq w2.nodes)
          THEN [accepted |-> FALSE, walk |-> w2]
          ELSE IF full THEN [accepted |-> FALSE, walk |-> Truncated(w2)]
          ELSE [accepted |-> TRUE, walk |-> w4]
  BY DEF Admit
<1>4. \A v \in SoundWalks : v \in Walks
  BY DEF SoundWalks
<1> HIDE DEF w1, r
<1>5. /\ w2 \in SoundWalks /\ Extends(w, w2)
      /\ {e[1], e[2]} \subseteq w2.nodes \/ w2.truncated
  <2>1. CASE e[1] \in w1.nodes
    <3> DEFINE v == AddNode(w1, e[2])
    <3>1. /\ v \in SoundWalks /\ Extends(w1, v)
          /\ e[2] \in v.nodes \/ v.truncated
      BY <1>1, <1>2, AddNodeIs
    <3> HIDE DEF v
    <3>2. Extends(w, v) /\ e[1] \in v.nodes
      BY <1>2, <1>4, <2>1, <3>1, ExtendsTransitive DEF Extends
    <3>3. w2 = v
      BY <2>1 DEF v
    <3> HIDE DEF w2
    <3> QED
      BY <3>1, <3>2, <3>3
  <2>2. CASE e[1] \notin w1.nodes
    BY <1>2, <2>2
  <2> QED
    BY <2>1, <2>2
<1> HIDE DEF w2
<1>6. CASE ~({e[1], e[2]} \subseteq w2.nodes)
  <2>1. r.walk = w2 /\ r.accepted = FALSE
    BY <1>3, <1>6
  <2> QED
    BY <1>5, <1>6, <2>1 DEF Admits
<1>7. CASE {e[1], e[2]} \subseteq w2.nodes /\ full
  <2>1. r.walk = Truncated(w2) /\ r.accepted = FALSE
    BY <1>3, <1>7
  <2>2. /\ Truncated(w2) \in SoundWalks /\ Extends(w2, Truncated(w2))
        /\ Truncated(w2).truncated
    BY <1>5, TruncatedIs
  <2>3. Extends(w, Truncated(w2))
    BY <1>4, <1>5, <2>2, ExtendsTransitive
  <2> QED
    BY <2>1, <2>2, <2>3 DEF Admits
<1>8. CASE {e[1], e[2]} \subseteq w2.nodes /\ ~full
  <2>1. r.walk = w4 /\ r.accepted = TRUE
    <3> HIDE DEF w4
    <3> QED
      BY <1>3, <1>8
  <2>2. e \in DOMAIN w2.distance \/ Cardinality(DOMAIN w2.distance) < request.maxEdges
    <3>1. IsFiniteSet(DOMAIN w2.distance)
      <4>1. w2.distance \in Partial(Edges, 0..request.maxDepth)
        BY <1>5 DEF SoundWalks, Walks
      <4>2. DOMAIN w2.distance \subseteq Edges /\ IsFiniteSet(Edges)
        BY <4>1, PartialIs, RootAssumption, FS_Product DEF Edges
      <4> QED
        BY <4>2, FS_Subset
    <3>2. Cardinality(DOMAIN w2.distance) \in Nat
      BY <3>1, FS_CardinalityType
    <3> QED
      BY <1>1, <1>8, <3>2
  <2>3. w3 \in SoundWalks /\ Extends(w2, w3) /\ At(w3.distance, e) <= d
    BY <1>5, <2>2, AddEdgeIs
  <2> HIDE DEF w3
  <2>4. At(Shortest, e[1]) <= d
    <3>1. At(Shortest, e[1]) \in Int /\ At(Shortest, e[2]) \in Int
      BY ShortestFacts
    <3>2. At(Shortest, e[2]) < request.maxDepth
      BY <1>1, <3>1
    <3>3. At(Shortest, e[1]) <= At(Shortest, e[2]) + 1
      BY <3>2, ShortestFacts
    <3> QED
      BY <3>1, <3>3
  <2>5. /\ w4 \in SoundWalks /\ Extends(w3, w4)
        /\ At(w4.level, e[1]) <= d /\ w4.distance = w3.distance
    BY <1>1, <2>3, <2>4, PlacedIs
  <2> HIDE DEF w4
  <2>6. Extends(w, w4)
    <3>1. Extends(w, w3)
      BY <1>4, <1>5, <2>3, ExtendsTransitive
    <3> QED
      BY <1>4, <2>3, <2>5, <3>1, ExtendsTransitive
  <2> QED
    BY <2>1, <2>3, <2>5, <2>6 DEF Admits
<1> QED
  BY <1>6, <1>7, <1>8

(* An object within max_depth is asked about from that level or a lower    *)
(* one, unless the limit is said to be reached.                            *)
LEMMA QueryIs ==
  ASSUME Given, NEW w \in SoundWalks, NEW o \in Objects, NEW level \in Nat,
         At(Shortest, o) <= level
  PROVE  LET u == Query(w, o, level) IN
         /\ u \in SoundWalks /\ Extends(w, u)
         /\ u.truncated \/ level >= request.maxDepth \/ At(u.queriedAt, o) <= level
<1> DEFINE u == Query(w, o, level)
           max == request.maxDepth
           task == Task("lineage", o, level)
           v == [w EXCEPT !.queriedAt = With(@, o, level), !.queries = @ + 1]
<1>1. /\ w \in Walks /\ w.queriedAt \in Partial(Objects, 0..max) /\ w.queries \in Nat
      /\ w.pending \subseteq Tasks /\ w.cycleSeen \in BOOLEAN
      /\ max \in Nat /\ request.maxQueries \in Nat
  BY GivenFacts DEF SoundWalks, Walks
<1>2. \A x : At(w.queriedAt, x) \in Int
  BY <1>1, AtIs
<1> SUFFICES /\ u \in SoundWalks /\ Extends(w, u)
             /\ u.truncated \/ level >= max \/ At(u.queriedAt, o) <= level
  OBVIOUS
<1>3. CASE level >= max
  <2>1. u = w
    BY <1>1, <1>3 DEF Query
  <2>2. Extends(w, w)
    BY <1>1, SameExtends
  <2> HIDE DEF u
  <2> QED
    BY <1>3, <2>1, <2>2
<1>4. CASE level < max /\ At(w.queriedAt, o) <= level
  <2> DEFINE seen == w.cycleSeen \/ At(w.queriedAt, o) < level
  <2>1. u = [w EXCEPT !.cycleSeen = seen]
    <3>1. ~(level >= request.maxDepth)
      BY <1>1, <1>4
    <3> QED
      BY <1>4, <3>1, Zenon DEF Query
  <2>2. seen \in BOOLEAN
    OBVIOUS
  <2> HIDE DEF u, seen
  <2>3. /\ u \in Walks
        /\ \A f \in {"nodes", "distance", "level", "queriedAt", "queries", "inferredFrom",
                     "pending", "truncated", "warnings"} : u[f] = w[f]
    BY <1>1, <2>1, <2>2 DEF Walks
  <2>4. u \in SoundWalks
    BY <2>3 DEF SoundWalks, WithinLimits, Real
  <2>5. Extends(w, u)
    BY <1>1, <2>3, SameExtends
  <2> QED
    BY <1>4, <2>3, <2>4, <2>5
<1>5. CASE level < max /\ At(w.queriedAt, o) > level /\ w.queries >= request.maxQueries
  <2> DEFINE code == "SNOWFLAKE_LINEAGE_QUERY_LIMIT_REACHED"
  <2>1. u = Warned(Truncated(w), code)
    <3>1. ~(level >= request.maxDepth) /\ ~(At(w.queriedAt, o) <= level)
      BY <1>1, <1>2, <1>5
    <3> QED
      BY <1>5, <3>1, Zenon DEF Query
  <2>2. code \in Codes
    BY DEF Codes
  <2> HIDE DEF u, code
  <2>3. u \in SoundWalks /\ Extends(w, u) /\ u.truncated
    BY <2>1, <2>2, CutIs
  <2> QED
    BY <2>3
<1>6. CASE level < max /\ At(w.queriedAt, o) > level /\ w.queries < request.maxQueries
  <2> DEFINE g == With(w.queriedAt, o, level)
  <2>1. u = Submitted(v, task)
    BY <1>1, <1>2, <1>6 DEF Query
  <2>2. g = Lower(w.queriedAt, o, level)
    BY <1>6 DEF Lower
  <2>3. level \in 0..max
    BY <1>1, <1>6
  <2>4. Lowered(g, Objects, w.queriedAt, o, level)
    <3> HIDE DEF g, max
    <3> QED
      BY <1>1, <2>2, <2>3, LowerIs DEF max
  <2>5. task \in Tasks /\ SoundTask(task)
    <3>1. task \in Tasks
      BY <2>3 DEF Task, Tasks
    <3>2. task.kind = "lineage" /\ task.object = o /\ task.level = level
      BY DEF Task
    <3> HIDE DEF task
    <3> QED
      BY <1>6, <3>1, <3>2 DEF SoundTask
  <2> HIDE DEF g
  <2>6. /\ u \in Walks /\ u.queriedAt = g /\ u.queries = w.queries + 1
        /\ u.pending = w.pending \cup {task}
        /\ \A f \in {"nodes", "distance", "level", "inferredFrom",
                     "cycleSeen", "truncated", "warnings"} : u[f] = w[f]
    <3>1. v \in Walks /\ v.queriedAt = g /\ v.queries = w.queries + 1
          /\ \A f \in {"nodes", "distance", "level", "inferredFrom", "pending",
                       "cycleSeen", "truncated", "warnings"} : v[f] = w[f]
      <4>1. g \in Partial(Objects, 0..max) /\ w.queries + 1 \in Nat
        BY <1>1, <2>4 DEF Lowered
      <4>2. v = [w EXCEPT !.queriedAt = g, !.queries = w.queries + 1]
        BY DEF g
      <4> HIDE DEF v, max
      <4> QED
        BY <1>1, <4>1, <4>2 DEF Walks, max
    <3> HIDE DEF v, task, u
    <3> QED
      BY <1>1, <2>1, <2>5, <3>1 DEF Walks, Submitted
  <2> HIDE DEF u
  <2>7. u \in SoundWalks
    <3>1. w.queries + 1 <= request.maxQueries
      BY <1>1, <1>6
    <3> HIDE DEF task
    <3> QED
      BY <2>5, <2>6, <3>1 DEF SoundWalks, WithinLimits, Real
  <2>8. Extends(w, u)
    <3>1. \A x : At(w.distance, x) \in Int /\ At(w.level, x) \in Int
      BY <1>1, WalkFacts
    <3>2. \A x : At(g, x) <= At(w.queriedAt, x)
      BY <2>4 DEF Lowered
    <3>3. \A x \in DOMAIN g :
            \/ x \in DOMAIN w.queriedAt /\ g[x] = w.queriedAt[x]
            \/ Task("lineage", x, g[x]) \in u.pending
      BY <2>4, <2>6 DEF Lowered
    <3> HIDE DEF task
    <3> QED
      BY <2>6, <3>1, <3>2, <3>3 DEF Extends
  <2>9. At(u.queriedAt, o) <= level
    BY <2>4, <2>6 DEF Lowered
  <2> QED
    BY <2>7, <2>8, <2>9
<1>7. \/ level >= max
      \/ level < max /\ At(w.queriedAt, o) <= level
      \/ level < max /\ At(w.queriedAt, o) > level /\ w.queries >= request.maxQueries
      \/ level < max /\ At(w.queriedAt, o) > level /\ w.queries < request.maxQueries
  BY <1>1, <1>2
<1> QED
  BY <1>3, <1>4, <1>5, <1>6, <1>7

(* The SQL of an object is asked for once at most.                         *)
LEMMA InferIs ==
  ASSUME Given, NEW w \in SoundWalks, NEW o \in Objects, NEW level \in Nat,
         At(Shortest, o) <= level, Feeders(world.feeds, {o}) = {}
  PROVE  Infer(w, o, level) \in SoundWalks /\ Extends(w, Infer(w, o, level))
<1> DEFINE u == Infer(w, o, level)
           task == Task("inference", o, level)
<1>1. /\ w \in Walks /\ w.pending \subseteq Tasks /\ w.inferredFrom \subseteq Objects
      /\ request.maxDepth \in Nat
  BY GivenFacts DEF SoundWalks, Walks
<1>2. CASE request.infers /\ level < request.maxDepth /\ o \notin w.inferredFrom
  <2>1. u = Submitted([w EXCEPT !.inferredFrom = @ \cup {o}], task)
    BY <1>2, Zenon DEF Infer
  <2>2. task \in Tasks /\ SoundTask(task)
    <3>1. level \in 0..request.maxDepth
      BY <1>1, <1>2
    <3>2. task \in Tasks
      BY <3>1 DEF Task, Tasks
    <3>3. task.kind = "inference" /\ task.object = o /\ task.level = level
      BY DEF Task
    <3> HIDE DEF task
    <3> QED
      BY <1>2, <3>2, <3>3 DEF SoundTask
  <2> HIDE DEF u, task
  <2>3. /\ u \in Walks /\ u.pending = w.pending \cup {task}
        /\ \A f \in {"nodes", "distance", "level", "queriedAt", "queries",
                     "cycleSeen", "truncated", "warnings"} : u[f] = w[f]
    BY <1>1, <2>1, <2>2 DEF Walks, Submitted
  <2>4. u \in SoundWalks
    BY <2>2, <2>3 DEF SoundWalks, WithinLimits, Real
  <2>5. Extends(w, u)
    BY <1>1, <2>3, SameExtends
  <2> QED
    BY <2>4, <2>5 DEF u
<1>3. CASE ~(request.infers /\ level < request.maxDepth /\ o \notin w.inferredFrom)
  <2>1. u = w
    BY <1>3, Zenon DEF Infer
  <2>2. Extends(w, w)
    BY <1>1, SameExtends
  <2> QED
    BY <2>1, <2>2
<1> QED
  BY <1>2, <1>3

(***************************************************************************)
(* One row.                                                                *)
(***************************************************************************)

(* How far a call sees.                                                    *)
LEMMA DepthIs ==
  ASSUME Given, NEW task \in Tasks, task.level < request.maxDepth
  PROVE  /\ Depth(task) \in Nat \ {0}
         /\ Depth(task) <= BatchDepth /\ Depth(task) <= request.maxDepth - task.level
         /\ Depth(task) = BatchDepth \/ Depth(task) = request.maxDepth - task.level
<1>1. request.maxDepth \in Nat /\ task.level \in Nat /\ BatchDepth \in Nat \ {0}
  BY GivenFacts DEF Tasks
<1> DEFINE a == BatchDepth
           b == request.maxDepth - task.level
<1>2. a \in Nat \ {0} /\ b \in Nat \ {0}
  BY <1>1
<1>3. Depth(task) = CHOOSE x \in {a, b} : \A y \in {a, b} : x <= y
  BY DEF Depth, Min
<1> HIDE DEF a, b
<1>4. \E x \in {a, b} : \A y \in {a, b} : x <= y
  <2>1. a <= b \/ b <= a
    BY <1>2
  <2>2. a <= a /\ b <= b
    BY <1>2
  <2> QED
    BY <2>1, <2>2
<1>5. Depth(task) \in {a, b} /\ \A y \in {a, b} : Depth(task) <= y
  BY <1>3, <1>4, Zenon
<1>6. /\ Depth(task) \in Nat \ {0}
      /\ Depth(task) <= a /\ Depth(task) <= b
      /\ Depth(task) = a \/ Depth(task) = b
  BY <1>2, <1>5
<1> QED
  BY <1>6 DEF a, b

(* A row names an edge that exists, no nearer than it is.                  *)
SoundRow(row, task) ==
  /\ row.edge \in Lineage
  /\ row.distance \in Nat \ {0}
  /\ task.level + row.distance <= request.maxDepth
  /\ At(Shortest, row.edge[2]) < task.level + row.distance
  /\ task.kind = "inference" => row.distance = 1

(* What a row of a lineage call says has been taken up.                    *)
Took(w, row, task) ==
  LET d == task.level + row.distance IN
  /\ At(w.distance, row.edge) <= d
  /\ At(w.level, row.edge[1]) <= d
  /\ row.distance = Depth(task) /\ d < request.maxDepth
       => At(w.queriedAt, row.edge[1]) <= d

Takes(u, w, row, task) ==
  /\ u \in SoundWalks /\ Extends(w, u)
  /\ task.kind = "lineage" /\ ~u.truncated => Took(u, row, task)

(* What has been taken up stays so.                                        *)
LEMMA TookStays ==
  ASSUME Given, NEW w \in SoundWalks, NEW u \in SoundWalks, Extends(w, u),
         NEW task \in Tasks, NEW row, row.distance \in Nat, Took(w, row, task)
  PROVE  Took(u, row, task)
<1>1. w \in Walks /\ u \in Walks
  BY DEF SoundWalks
<1>2. \A x : /\ At(w.distance, x) \in Int /\ At(w.level, x) \in Int
             /\ At(w.queriedAt, x) \in Int
             /\ At(u.distance, x) \in Int /\ At(u.level, x) \in Int
             /\ At(u.queriedAt, x) \in Int
  BY <1>1, WalkFacts
<1>3. task.level + row.distance \in Int
  BY GivenFacts DEF Tasks
<1> QED
  BY <1>2, <1>3 DEF Took, Extends

(* A row of a lineage call is taken up, unless the walk says that it cuts. *)
LEMMA AbsorbRowIs ==
  ASSUME Given, NEW w \in SoundWalks, NEW task, SoundTask(task),
         NEW row, SoundRow(row, task)
  PROVE  Takes(AbsorbRow(w, row, task), w, row, task)
<1> DEFINE d == task.level + row.distance
           far == row.edge[1]
           r == Admit(w, row.edge, d)
           a == r.walk
           boundary == row.distance = Depth(task)
           u == AbsorbRow(w, row, task)
           code == "SNOWFLAKE_LINEAGE_BOUNDARY_SKIPPED"
<1> SUFFICES Takes(u, w, row, task)
  OBVIOUS
<1>1. /\ d \in 1..request.maxDepth /\ ~(d > request.maxDepth)
      /\ row.edge \in Lineage /\ far \in Objects
      /\ At(Shortest, row.edge[2]) < d
      /\ At(Shortest, far) <= d
      /\ task \in Tasks /\ row.distance \in Nat
  <2>1. /\ task.level \in Nat /\ row.distance \in Nat \ {0} /\ request.maxDepth \in Nat
        /\ d <= request.maxDepth /\ At(Shortest, row.edge[2]) < d
        /\ row.edge \in Lineage /\ row.edge \in Edges
    BY GivenFacts DEF SoundTask, Tasks, SoundRow
  <2>2. At(Shortest, row.edge[2]) < request.maxDepth
    BY <2>1, ShortestFacts
  <2>3. At(Shortest, far) <= d
    BY <2>1, <2>2, ShortestFacts
  <2> QED
    BY <2>1, <2>3 DEF SoundTask, Edges
<1>2. Admits(r, w, row.edge, d)
  BY <1>1, AdmitIs
<1>3. u = IF d > request.maxDepth THEN w
          ELSE IF ~r.accepted \/ ~boundary \/ d = request.maxDepth THEN a
          ELSE IF far \in world.opaque THEN Warned(Truncated(a), code)
          ELSE Query(a, far, d)
  BY DEF AbsorbRow
<1> HIDE DEF u, r
<1>4. a \in SoundWalks /\ Extends(w, a) /\ w \in Walks /\ a \in Walks
  BY <1>2 DEF Admits, SoundWalks
<1>5. CASE ~r.accepted \/ ~boundary \/ d = request.maxDepth
  <2>1. u = a
    BY <1>1, <1>3, <1>5
  <2>2. ~a.truncated => At(a.distance, row.edge) <= d /\ At(a.level, far) <= d /\ r.accepted
    BY <1>2 DEF Admits
  <2>3. ~a.truncated => Took(a, row, task)
    <3>1. r.accepted => ~(boundary /\ d < request.maxDepth)
      BY <1>1, <1>5
    <3> QED
      BY <2>2, <3>1 DEF Took
  <2> QED
    BY <1>4, <2>1, <2>3 DEF Takes
<1>6. CASE /\ ~(~r.accepted \/ ~boundary \/ d = request.maxDepth)
           /\ far \in world.opaque
  <2>1. u = Warned(Truncated(a), code)
    BY <1>1, <1>3, <1>6, Zenon
  <2>2. code \in Codes
    BY DEF Codes
  <2> HIDE DEF code
  <2>3. u \in SoundWalks /\ Extends(a, u) /\ u.truncated
    BY <1>4, <2>1, <2>2, CutIs
  <2>4. Extends(w, u)
    BY <1>4, <2>3, ExtendsTransitive DEF SoundWalks
  <2> QED
    BY <2>3, <2>4 DEF Takes
<1>7. CASE /\ ~(~r.accepted \/ ~boundary \/ d = request.maxDepth)
           /\ far \notin world.opaque
  <2>1. u = Query(a, far, d)
    BY <1>1, <1>3, <1>7, Zenon
  <2>2. /\ u \in SoundWalks /\ Extends(a, u)
        /\ u.truncated \/ d >= request.maxDepth \/ At(u.queriedAt, far) <= d
    <3>1. d \in Nat
      BY <1>1
    <3> HIDE DEF a, d, far
    <3> QED
      BY <1>1, <1>4, <2>1, <3>1, QueryIs
  <2>3. Extends(w, u)
    BY <1>4, <2>2, ExtendsTransitive DEF SoundWalks
  <2>4. At(u.distance, row.edge) <= d /\ At(u.level, far) <= d
    <3>1. At(a.distance, row.edge) <= d /\ At(a.level, far) <= d
      BY <1>2, <1>7 DEF Admits
    <3>2. \A x : /\ At(a.distance, x) \in Int /\ At(a.level, x) \in Int
                 /\ At(u.distance, x) \in Int /\ At(u.level, x) \in Int
      BY <1>4, <2>2, WalkFacts DEF SoundWalks
    <3>3. /\ At(u.distance, row.edge) <= At(a.distance, row.edge)
          /\ At(u.level, far) <= At(a.level, far)
      BY <2>2 DEF Extends
    <3> QED
      BY <1>1, <3>1, <3>2, <3>3
  <2>5. ~u.truncated => Took(u, row, task)
    <3>1. ~(d >= request.maxDepth)
      <4>1. d # request.maxDepth
        BY <1>7
      <4>2. d \in Nat /\ request.maxDepth \in Nat /\ d <= request.maxDepth
        BY <1>1, GivenFacts
      <4> HIDE DEF d
      <4> QED
        BY <4>1, <4>2
    <3>2. ~u.truncated => At(u.queriedAt, far) <= d
      <4> HIDE DEF d, far, a
      <4> QED
        BY <2>2, <3>1
    <3> QED
      BY <2>4, <3>2 DEF Took
  <2> QED
    BY <2>2, <2>3, <2>5 DEF Takes
<1> QED
  BY <1>5, <1>6, <1>7

(* A source the SQL names.                                                 *)
LEMMA AbsorbSourceIs ==
  ASSUME Given, NEW w \in SoundWalks, NEW task, SoundTask(task),
         NEW row, SoundRow(row, task), task.kind = "inference"
  PROVE  Takes(AbsorbSource(w, row, task), w, row, task)
<1> DEFINE d == task.level + 1
           far == row.edge[1]
           r == Admit(w, row.edge, d)
           a == r.walk
           u == AbsorbSource(w, row, task)
<1> SUFFICES Takes(u, w, row, task)
  OBVIOUS
<1>1. /\ d \in 1..request.maxDepth /\ d \in Nat
      /\ row.edge \in Lineage /\ far \in Objects
      /\ At(Shortest, row.edge[2]) < d
      /\ At(Shortest, far) <= d
  <2>1. /\ task.level \in Nat /\ row.distance = 1 /\ request.maxDepth \in Nat
        /\ d <= request.maxDepth /\ At(Shortest, row.edge[2]) < d
        /\ row.edge \in Lineage /\ row.edge \in Edges
    BY GivenFacts DEF SoundTask, Tasks, SoundRow
  <2>2. At(Shortest, row.edge[2]) < request.maxDepth
    BY <2>1, ShortestFacts
  <2>3. At(Shortest, far) <= d
    BY <2>1, <2>2, ShortestFacts
  <2> QED
    BY <2>1, <2>3 DEF Edges
<1>2. Admits(r, w, row.edge, d)
  BY <1>1, AdmitIs
<1>3. u = IF r.accepted THEN Query(a, far, d) ELSE a
  BY DEF AbsorbSource
<1> HIDE DEF u, r
<1>4. a \in SoundWalks /\ Extends(w, a) /\ w \in Walks /\ a \in Walks
  BY <1>2 DEF Admits, SoundWalks
<1>5. CASE ~r.accepted
  BY <1>3, <1>4, <1>5 DEF Takes
<1>6. CASE r.accepted
  <2>1. u = Query(a, far, d)
    BY <1>3, <1>6
  <2>2. u \in SoundWalks /\ Extends(a, u)
    <3> HIDE DEF a, d, far
    <3> QED
      BY <1>1, <1>4, <2>1, QueryIs
  <2>3. Extends(w, u)
    BY <1>4, <2>2, ExtendsTransitive DEF SoundWalks
  <2> QED
    BY <2>2, <2>3 DEF Takes
<1> QED
  BY <1>5, <1>6

(* A row of either call.                                                   *)
LEMMA AbsorbIs ==
  ASSUME Given, NEW w \in SoundWalks, NEW task, SoundTask(task),
         NEW row, SoundRow(row, task)
  PROVE  Takes(Absorb(w, row, task), w, row, task)
<1>1. task.kind \in {"lineage", "inference"}
  BY DEF SoundTask, Tasks
<1>2. CASE task.kind = "lineage"
  <2>1. Absorb(w, row, task) = AbsorbRow(w, row, task)
    BY <1>2, Zenon DEF Absorb
  <2> QED
    BY <2>1, AbsorbRowIs
<1>3. CASE task.kind = "inference"
  <2>1. Absorb(w, row, task) = AbsorbSource(w, row, task)
    BY <1>3 DEF Absorb
  <2> QED
    BY <1>3, <2>1, AbsorbSourceIs
<1> QED
  BY <1>1, <1>2, <1>3

(***************************************************************************)
(* What the calls return.                                                  *)
(***************************************************************************)
Row == [edge : Edges, distance : Nat]

(* Every row of GET_LINEAGE is sound, and none means that nothing feeds    *)
(* the object.                                                             *)
LEMMA RowsAre ==
  ASSUME Given, NEW task, SoundTask(task), task.kind = "lineage"
  PROVE  LET rows == Rows(task.object, Depth(task)) IN
         /\ IsFiniteSet(rows) /\ rows \subseteq Row
         /\ \A row \in rows : SoundRow(row, task)
         /\ rows = {} => Feeders(world.feeds, {task.object}) = {}
<1> DEFINE max == request.maxDepth
           o == task.object
           depth == Depth(task)
           steps == StepsTo(world.feeds, o, max)
           seen == {f \in world.feeds : At(steps, f[2]) < depth}
           rows == Rows(o, depth)
<1>1. /\ task \in Tasks /\ o \in Objects /\ task.level \in Nat /\ task.level < max
      /\ At(Shortest, o) <= task.level /\ max \in Nat
      /\ world.feeds \in SUBSET Edges /\ Lineage \in SUBSET Edges
      /\ world.feeds \subseteq Lineage /\ Root \in Objects
  BY GivenFacts DEF SoundTask, Tasks
<1>2. depth \in Nat \ {0} /\ depth <= max - task.level
  BY <1>1, DepthIs
<1>3. rows = {[edge |-> e, distance |-> steps[e[2]] + 1] : e \in seen}
  BY DEF Rows
<1>4. AreSteps(steps, world.feeds, o, max)
  BY <1>1, StepsAre
<1>5. /\ steps \in Partial(Objects, 0..max)
      /\ \A x : /\ At(steps, x) \in 0..(max + 1)
                /\ x \in DOMAIN steps => At(steps, x) = steps[x]
                /\ x \notin DOMAIN steps => At(steps, x) = max + 1
  BY <1>4, AtIs DEF AreSteps
<1>6. \A y : At(Shortest, o) + At(steps, y) <= max
               => At(Shortest, y) <= At(Shortest, o) + At(steps, y)
  BY <1>1, Triangle DEF Shortest
<1> HIDE DEF steps, depth, rows
<1>7. IsFiniteSet(rows)
  <2>1. IsFiniteSet(seen)
    <3>1. IsFiniteSet(Edges)
      BY RootAssumption, FS_Product DEF Edges
    <3>2. seen \in SUBSET Edges
      BY <1>1
    <3> QED
      BY <3>1, <3>2, FS_Subset
  <2> HIDE DEF seen
  <2> DEFINE g == [e \in seen |-> [edge |-> e, distance |-> steps[e[2]] + 1]]
  <2>2. g \in Surjection(seen, rows)
    BY <1>3 DEF Surjection
  <2> HIDE DEF g
  <2> QED
    BY <2>1, <2>2, FS_Surjection
<1>8. ASSUME NEW row \in rows
      PROVE  row \in Row /\ SoundRow(row, task)
  <2>1. PICK e \in seen : row = [edge |-> e, distance |-> steps[e[2]] + 1]
    BY <1>3
  <2>2. e \in Lineage /\ e \in Edges /\ At(steps, e[2]) < depth
    BY <1>1
  <2>3. e[2] \in DOMAIN steps /\ steps[e[2]] = At(steps, e[2]) /\ steps[e[2]] \in Nat
    BY <1>1, <1>2, <1>5, <2>2
  <2>4. At(Shortest, e[2]) <= At(Shortest, o) + At(steps, e[2])
    <3>1. At(Shortest, o) \in Nat
      BY <1>1, ShortestFacts
    <3>2. At(Shortest, o) + At(steps, e[2]) <= max
      BY <1>1, <1>2, <2>2, <2>3, <3>1
    <3> QED
      BY <1>6, <3>2
  <2>5. row.edge = e /\ row.distance = steps[e[2]] + 1
    BY <2>1
  <2>6. At(Shortest, e[2]) < task.level + row.distance
    <3>1. At(Shortest, o) \in Int /\ At(Shortest, e[2]) \in Int
      BY ShortestFacts
    <3> QED
      BY <1>1, <2>3, <2>4, <2>5, <3>1
  <2>7. row.distance \in Nat \ {0} /\ task.level + row.distance <= max
    BY <1>1, <1>2, <2>2, <2>3, <2>5
  <2>8. SoundRow(row, task)
    BY <2>2, <2>5, <2>6, <2>7 DEF SoundRow
  <2> QED
    BY <2>1, <2>2, <2>3, <2>8 DEF Row
<1>9. ASSUME rows = {} PROVE Feeders(world.feeds, {o}) = {}
  <2> SUFFICES ASSUME NEW e \in world.feeds, e[2] = o PROVE FALSE
    BY DEF Feeders
  <2>1. At(steps, o) = 0
    BY <1>4, <1>5 DEF AreSteps
  <2>2. e \in seen
    BY <1>2, <2>1
  <2> HIDE DEF seen
  <2> QED
    BY <1>3, <1>9, <2>2
<1> QED
  BY <1>7, <1>8, <1>9 DEF rows, depth

(* So is every source the SQL names.                                       *)
LEMMA SourcesAre ==
  ASSUME Given, NEW task, SoundTask(task), task.kind = "inference"
  PROVE  LET rows == Sources(task.object) IN
         /\ IsFiniteSet(rows) /\ rows \subseteq Row
         /\ \A row \in rows : SoundRow(row, task)
<1> DEFINE o == task.object
           named == Feeders(world.sql, {o})
           rows == Sources(o)
<1>1. /\ task \in Tasks /\ o \in Objects /\ task.level \in Nat
      /\ task.level < request.maxDepth
      /\ At(Shortest, o) <= task.level /\ request.maxDepth \in Nat
      /\ request.infers /\ Feeders(world.feeds, {o}) = {}
      /\ world.sql \in SUBSET Edges /\ Lineage \in SUBSET Edges
  BY GivenFacts DEF SoundTask, Tasks
<1>2. \A x : x \in named => x \in Objects /\ <<x, o>> \in world.sql
  BY <1>1 DEF Feeders, Edges
<1>3. rows = {[edge |-> <<x, o>>, distance |-> 1] : x \in named}
  BY DEF Sources
<1> HIDE DEF named, rows
<1>4. IsFiniteSet(rows)
  <2>1. IsFiniteSet(named)
    BY <1>2, RootAssumption, FS_Subset
  <2> DEFINE g == [x \in named |-> [edge |-> <<x, o>>, distance |-> 1]]
  <2>2. g \in Surjection(named, rows)
    BY <1>3 DEF Surjection
  <2> HIDE DEF g
  <2> QED
    BY <2>1, <2>2, FS_Surjection
<1>5. ASSUME NEW row \in rows
      PROVE  row \in Row /\ SoundRow(row, task)
  <2>1. PICK x \in named : row = [edge |-> <<x, o>>, distance |-> 1]
    BY <1>3
  <2>2. row.edge = <<x, o>> /\ row.distance = 1 /\ row.edge[2] = o
    BY <2>1
  <2>3. row.edge \in Lineage
    <3>1. <<x, o>> \in world.sql /\ Feeders(world.feeds, {<<x, o>>[2]}) = {}
      BY <1>1, <1>2
    <3> QED
      BY <1>1, <2>2, <3>1 DEF Lineage
  <2>4. At(Shortest, row.edge[2]) < task.level + row.distance
    BY <1>1, <2>2, ShortestFacts
  <2>5. task.level + row.distance <= request.maxDepth
    BY <1>1, <2>2
  <2>6. SoundRow(row, task)
    BY <2>2, <2>3, <2>4, <2>5 DEF SoundRow
  <2>7. <<x, o>> \in Edges
    BY <1>1, <1>2
  <2> QED
    BY <2>1, <2>6, <2>7 DEF Row
<1> QED
  BY <1>4, <1>5 DEF rows

(* The first row is one of them.                                           *)
LEMMA FirstIs ==
  ASSUME NEW rows \in SUBSET Row, rows # {}, NEW order \in Orders
  PROVE  First(rows, order) \in rows
<1> DEFINE T == {order[r.edge] : r \in rows}
<1>1. T \in SUBSET Nat /\ T # {} /\ \A r \in rows : order[r.edge] \in T
  BY OrdersAssumption DEF Row
<1>2. PICK m \in T : \A k \in T : m <= k
  <2> HIDE DEF T
  <2> QED
    BY <1>1, LeastNumber
<1>3. PICK r \in rows : order[r.edge] = m
  OBVIOUS
<1>4. \A q \in rows : order[r.edge] <= order[q.edge]
  BY <1>1, <1>2, <1>3
<1> HIDE DEF T
<1> QED
  BY <1>4, Zenon DEF First

(***************************************************************************)
(* All the rows of one call.                                               *)
(***************************************************************************)
SoundRows(rows, task) ==
  /\ IsFiniteSet(rows) /\ rows \in SUBSET Row
  /\ \A row \in rows : SoundRow(row, task)

(* A walk and the rows it has still to absorb.                             *)
Progress(rows) == [walk : SoundWalks, left : SUBSET rows]

OneMore(before, order, task, lost) ==
  LET row == First(before.left, order) IN
  [walk |-> IF row \in lost
            THEN Warned(before.walk, "SNOWFLAKE_LINEAGE_ROW_INVALID")
            ELSE Absorb(before.walk, row, task),
   left |-> before.left \ {row}]

(* A row is taken up, or the walk says that it is not.                     *)
Kept(w, row, task, lost) ==
  IF row \in lost
  THEN "SNOWFLAKE_LINEAGE_ROW_INVALID" \in w.warnings
  ELSE task.kind = "lineage" /\ ~w.truncated => Took(w, row, task)

ByOneRow(v, u, task, lost) ==
  /\ Cardinality(u.left) = Cardinality(v.left) - 1
  /\ Extends(v.walk, u.walk)
  /\ \A row \in v.left : row \in u.left \/ Kept(u.walk, row, task, lost)

(* What one more row does.                                                 *)
LEMMA OneMoreIs ==
  ASSUME Given, NEW task, SoundTask(task), NEW rows, SoundRows(rows, task),
         NEW lost, NEW order \in Orders,
         NEW v \in Progress(rows), v.left # {}
  PROVE  /\ OneMore(v, order, task, lost) \in Progress(rows)
         /\ ByOneRow(v, OneMore(v, order, task, lost), task, lost)
<1> DEFINE row == First(v.left, order)
           code == "SNOWFLAKE_LINEAGE_ROW_INVALID"
           w == v.walk
           x == IF row \in lost THEN Warned(w, code) ELSE Absorb(w, row, task)
           u == OneMore(v, order, task, lost)
<1> SUFFICES u \in Progress(rows) /\ ByOneRow(v, u, task, lost)
  OBVIOUS
<1>1. /\ w \in SoundWalks /\ v.left \subseteq rows /\ v.left \in SUBSET Row
      /\ IsFiniteSet(v.left)
  BY FS_Subset DEF Progress, SoundRows
<1>2. row \in v.left /\ row \in rows /\ SoundRow(row, task)
  BY <1>1, FirstIs DEF SoundRows
<1>3. u = [walk |-> x, left |-> v.left \ {row}]
  BY DEF OneMore
<1> HIDE DEF row, u
<1>4. x \in SoundWalks /\ Extends(w, x) /\ Kept(x, row, task, lost)
  <2>1. CASE row \in lost
    <3>1. code \in Codes
      BY DEF Codes
    <3> HIDE DEF code
    <3>2. /\ Warned(w, code) \in SoundWalks /\ Extends(w, Warned(w, code))
          /\ code \in Warned(w, code).warnings
      BY <1>1, <3>1, WarnedIs
    <3> QED
      BY <2>1, <3>2 DEF Kept, code
  <2>2. CASE row \notin lost
    <3>1. Takes(Absorb(w, row, task), w, row, task)
      BY <1>1, <1>2, AbsorbIs
    <3> QED
      BY <2>2, <3>1 DEF Kept, Takes
  <2> QED
    BY <2>1, <2>2
<1> HIDE DEF x
<1>5. u.walk = x /\ u.left = v.left \ {row}
  BY <1>3
<1>6. u \in Progress(rows)
  BY <1>1, <1>3, <1>4 DEF Progress
<1>7. Cardinality(u.left) = Cardinality(v.left) - 1
  <2>1. Cardinality(v.left \ {row}) = Cardinality(v.left) - 1
    BY <1>1, <1>2, FS_RemoveElement
  <2> QED
    BY <1>5, <2>1
<1>8. ByOneRow(v, u, task, lost)
  BY <1>4, <1>5, <1>7 DEF ByOneRow
<1> QED
  BY <1>6, <1>8

(* A row stays kept.                                                       *)
LEMMA KeptStays ==
  ASSUME Given, NEW w \in SoundWalks, NEW u \in SoundWalks, Extends(w, u),
         NEW task \in Tasks, NEW row \in Row, NEW lost, Kept(w, row, task, lost)
  PROVE  Kept(u, row, task, lost)
<1>1. CASE row \in lost
  BY <1>1 DEF Kept, Extends
<1>2. CASE row \notin lost
  <2>1. task.kind = "lineage" /\ ~u.truncated => Took(w, row, task)
    BY <1>2 DEF Kept, Extends
  <2>2. row.distance \in Nat
    BY DEF Row
  <2> QED
    BY <1>2, <2>1, <2>2, TookStays DEF Kept
<1> QED
  BY <1>1, <1>2

(* The recursion of Absorbed is solved by absorbing row after row.         *)
LEMMA AbsorbedExists ==
  ASSUME Given, NEW w \in SoundWalks, NEW task, SoundTask(task),
         NEW rows, SoundRows(rows, task), NEW lost, NEW order \in Orders
  PROVE  \E f : f = [n \in 0..Cardinality(rows) |->
                       IF n = 0 THEN [walk |-> w, left |-> rows]
                       ELSE OneMore(f[n - 1], order, task, lost)]
<1> DEFINE N == Cardinality(rows)
           S == Progress(rows)
           a == [walk |-> w, left |-> rows]
           g == [p \in (1..N) \X S |->
                   IF p[2].left = {} THEN p[2] ELSE OneMore(p[2], order, task, lost)]
<1>1. N \in Nat /\ IsFiniteSet(rows)
  BY FS_CardinalityType DEF SoundRows
<1>2. a \in S /\ a.left = rows
  BY DEF Progress
<1>3. \A v \in S : v.left # {} => OneMore(v, order, task, lost) \in S
                                  /\ ByOneRow(v, OneMore(v, order, task, lost), task, lost)
  BY OneMoreIs
<1>4. \A v \in S : v.left \in SUBSET rows /\ IsFiniteSet(v.left)
  BY <1>1, FS_Subset DEF Progress
<1> HIDE DEF N, S, a
<1>5. IsRule(g, S, N)
  BY <1>3 DEF IsRule
<1>6. PICK f : Follows(f, g, S, a, N)
  <2> HIDE DEF g
  <2> QED
    BY <1>1, <1>2, <1>5, RecursionExists
<1>7. \A k \in 1..N : f[k - 1] \in S /\ f[k] = g[<<k, f[k - 1]>>]
                      /\ <<k, f[k - 1]>> \in (1..N) \X S
  <2> HIDE DEF g
  <2>1. \A k \in 1..N : k - 1 \in 0..N
    BY <1>1
  <2> QED
    BY <1>6, <2>1 DEF Follows
<1>8. \A k \in 1..N : f[k - 1].left # {} => f[k] = OneMore(f[k - 1], order, task, lost)
  BY <1>7
<1> HIDE DEF g
<1> DEFINE T == {k \in Nat : k <= N => Cardinality(f[k].left) = N - k}
<1>9. 0 \in T
  BY <1>1, <1>2, <1>6 DEF Follows, N
<1>10. ASSUME NEW k \in T PROVE k + 1 \in T
  <2> SUFFICES ASSUME k + 1 <= N PROVE Cardinality(f[k + 1].left) = N - (k + 1)
    OBVIOUS
  <2>1. k \in Nat /\ k + 1 \in 1..N /\ (k + 1) - 1 = k /\ k <= N
    BY <1>1
  <2>2. Cardinality(f[k].left) = N - k /\ N - k # 0
    BY <1>1, <2>1
  <2>3. f[k] \in S
    BY <1>7, <2>1
  <2>4. f[k].left # {}
    BY <2>2, <2>3, FS_EmptySet
  <2>5. f[k + 1] = OneMore(f[k], order, task, lost)
    BY <1>8, <2>1, <2>4
  <2>6. ByOneRow(f[k], f[k + 1], task, lost)
    BY <1>3, <2>3, <2>4, <2>5
  <2>7. Cardinality(f[k + 1].left) = Cardinality(f[k].left) - 1
    BY <2>6 DEF ByOneRow
  <2> QED
    BY <1>1, <2>1, <2>2, <2>7
<1>11. T = Nat
  <2> HIDE DEF T
  <2>1. T \in SUBSET Nat
    BY DEF T
  <2> QED
    BY <1>9, <1>10, <2>1, Induction
<1>12. \A n \in 0..N : f[n] = IF n = 0 THEN a ELSE OneMore(f[n - 1], order, task, lost)
  <2> SUFFICES ASSUME NEW n \in 0..N
               PROVE  f[n] = IF n = 0 THEN a ELSE OneMore(f[n - 1], order, task, lost)
    OBVIOUS
  <2>1. CASE n = 0
    BY <1>6, <2>1 DEF Follows
  <2>2. CASE n # 0
    <3>1. n \in 1..N /\ n - 1 \in Nat /\ n - 1 <= N
      BY <1>1, <2>2
    <3>2. Cardinality(f[n - 1].left) = N - (n - 1) /\ N - (n - 1) # 0
      <4>1. n - 1 \in T
        BY <1>11, <3>1
      <4>2. Cardinality(f[n - 1].left) = N - (n - 1)
        BY <3>1, <4>1
      <4> QED
        BY <1>1, <3>1, <4>2
    <3>3. f[n - 1].left # {}
      BY <1>7, <3>1, <3>2, FS_EmptySet
    <3> QED
      BY <1>8, <2>2, <3>1, <3>3
  <2> QED
    BY <2>1, <2>2
<1>13. f = [n \in 0..N |-> f[n]]
  BY <1>6 DEF Follows
<1>14. [n \in 0..N |-> f[n]] =
         [n \in 0..N |-> IF n = 0 THEN a ELSE OneMore(f[n - 1], order, task, lost)]
  BY <1>12, Zenon
<1> QED
  BY <1>13, <1>14, Zenon DEF N, a

(* What a call's rows leave: a sound walk that extends the one they found, *)
(* and every row kept.                                                     *)
LEMMA AbsorbedIs ==
  ASSUME Given, NEW w \in SoundWalks, NEW task, SoundTask(task),
         NEW rows, SoundRows(rows, task), NEW lost, NEW order \in Orders
  PROVE  /\ Absorbed(w, rows, order, task, lost) \in SoundWalks
         /\ Extends(w, Absorbed(w, rows, order, task, lost))
         /\ \A row \in rows : Kept(Absorbed(w, rows, order, task, lost), row, task, lost)
<1> DEFINE N == Cardinality(rows)
           S == Progress(rows)
           a == [walk |-> w, left |-> rows]
           f == CHOOSE f : f = [n \in 0..N |-> IF n = 0 THEN a
                                               ELSE OneMore(f[n - 1], order, task, lost)]
<1>1. Absorbed(w, rows, order, task, lost) = f[N].walk
  BY DEF Absorbed, OneMore
<1>2. f = [n \in 0..N |-> IF n = 0 THEN a ELSE OneMore(f[n - 1], order, task, lost)]
  <2>1. \E h : h = [n \in 0..N |-> IF n = 0 THEN a ELSE OneMore(h[n - 1], order, task, lost)]
    BY AbsorbedExists
  <2> QED
    BY <2>1, Zenon
<1> HIDE DEF f
<1>3. N \in Nat /\ IsFiniteSet(rows) /\ rows \in SUBSET Row
  BY FS_CardinalityType DEF SoundRows
<1>4. a \in S /\ a.left = rows /\ a.walk = w
  BY DEF Progress
<1>5. task \in Tasks /\ w \in Walks
  BY DEF SoundTask, SoundWalks
<1> HIDE DEF N, S, a
<1>6. f[0] = a /\ \A k \in Nat : k + 1 <= N => f[k + 1] = OneMore(f[k], order, task, lost)
  <2>1. f[0] = a
    BY <1>2, <1>3
  <2>2. ASSUME NEW k \in Nat, k + 1 <= N PROVE f[k + 1] = OneMore(f[k], order, task, lost)
    <3>1. k + 1 \in 0..N /\ k + 1 # 0 /\ (k + 1) - 1 = k
      BY <1>3, <2>2
    <3>2. f[k + 1] = OneMore(f[(k + 1) - 1], order, task, lost)
      BY <1>2, <3>1
    <3> QED
      BY <3>1, <3>2
  <2> QED
    BY <2>1, <2>2
<1> DEFINE Good(v, k) == /\ v \in S /\ Cardinality(v.left) = N - k /\ Extends(w, v.walk)
                         /\ \A row \in rows : row \in v.left \/ Kept(v.walk, row, task, lost)
           T == {k \in Nat : k <= N => Good(f[k], k)}
<1>7. 0 \in T
  <2>1. Extends(w, w)
    BY <1>5, SameExtends
  <2>2. Good(a, 0)
    BY <1>3, <1>4, <2>1 DEF N
  <2> HIDE DEF Good
  <2> QED
    BY <1>6, <2>2
<1>8. ASSUME NEW k \in T PROVE k + 1 \in T
  <2> SUFFICES ASSUME k + 1 <= N PROVE Good(f[k + 1], k + 1)
    OBVIOUS
  <2> DEFINE v == f[k]
             u == f[k + 1]
  <2>1. k \in Nat /\ k <= N /\ N - k # 0 /\ (N - k) - 1 = N - (k + 1)
    BY <1>3
  <2>2. Good(v, k)
    <3> HIDE DEF Good
    <3> QED
      BY <2>1
  <2>3. u = OneMore(v, order, task, lost)
    BY <1>6, <2>1
  <2> HIDE DEF v, u, T
  <2>4. v.left # {}
    BY <2>1, <2>2, FS_EmptySet
  <2>5. u \in S /\ ByOneRow(v, u, task, lost)
    BY <2>2, <2>3, <2>4, OneMoreIs DEF S
  <2>6. /\ v.walk \in SoundWalks /\ u.walk \in SoundWalks
        /\ v.walk \in Walks /\ u.walk \in Walks
    BY <2>2, <2>5 DEF S, Progress, SoundWalks
  <2>7. Extends(v.walk, u.walk)
    BY <2>5 DEF ByOneRow
  <2>8. Extends(w, u.walk)
    BY <1>5, <2>2, <2>6, <2>7, ExtendsTransitive
  <2>9. ASSUME NEW row \in rows
        PROVE  row \in u.left \/ Kept(u.walk, row, task, lost)
    <3>1. CASE row \in v.left
      BY <2>5, <3>1 DEF ByOneRow
    <3>2. CASE row \notin v.left
      <4>1. Kept(v.walk, row, task, lost) /\ row \in Row
        BY <1>3, <2>2, <3>2
      <4> QED
        BY <1>5, <2>6, <2>7, <4>1, KeptStays
    <3> QED
      BY <3>1, <3>2
  <2>10. Cardinality(u.left) = N - (k + 1)
    BY <2>1, <2>2, <2>5 DEF ByOneRow
  <2>11. Good(u, k + 1)
    BY <2>5, <2>8, <2>9, <2>10
  <2> QED
    BY <2>11 DEF u
<1>9. T = Nat
  <2> HIDE DEF T
  <2>1. T \in SUBSET Nat
    BY DEF T
  <2> QED
    BY <1>7, <1>8, <2>1, Induction
<1> DEFINE v == f[N]
<1>10. Good(v, N)
  <2>1. N \in T /\ N <= N
    BY <1>3, <1>9
  <2> HIDE DEF Good
  <2> QED
    BY <2>1
<1> HIDE DEF v, T
<1>11. v.left = {}
  <2>1. Cardinality(v.left) = 0
    BY <1>3, <1>10
  <2>2. IsFiniteSet(v.left)
    BY <1>3, <1>10, FS_Subset DEF S, Progress
  <2> QED
    BY <2>1, <2>2, FS_EmptySet
<1>12. /\ v.walk \in SoundWalks /\ Extends(w, v.walk)
       /\ \A row \in rows : Kept(v.walk, row, task, lost)
  BY <1>10, <1>11 DEF S, Progress
<1>13. Absorbed(w, rows, order, task, lost) = v.walk
  BY <1>1 DEF v
<1> QED
  BY <1>12, <1>13

(***************************************************************************)
(* The inductive invariant.                                                *)
(***************************************************************************)
Silent(w) == ~w.truncated /\ w.warnings \subseteq {"SNOWFLAKE_LINEAGE_CYCLE_SKIPPED"}

Covered(w, task) == \A row \in Rows(task.object, Depth(task)) : Took(w, row, task)

Begun(w) ==
  /\ At(w.level, Root) <= 0
  /\ Silent(w) => At(w.queriedAt, Root) <= 0

(* What has been asked about, from a level its object allows.              *)
Queried(w) == \A o \in DOMAIN w.queriedAt : SoundTask(Task("lineage", o, w.queriedAt[o]))

(* Of what has been asked about, all is taken up, is still to come or is   *)
(* said to be lost.                                                        *)
Complete(w) ==
  Silent(w) =>
    \A o \in DOMAIN w.queriedAt :
      LET task == Task("lineage", o, w.queriedAt[o]) IN
      task \in w.pending \/ Covered(w, task)

SoundAndWhole == {w \in SoundWalks : Begun(w) /\ Queried(w) /\ Complete(w)}

IInv ==
  /\ Given
  /\ status \in {"running", "done", "failed"}
  /\ walk \in SoundAndWhole
  /\ status = "done" => walk.pending = {}

(* A step changes neither the world nor the request.                       *)
LEMMA SameWorld ==
  ASSUME world' = world, request' = request
  PROVE  /\ Given <=> Given'
         /\ SoundAndWhole' = SoundAndWhole
<1>1. Given <=> Given'
  BY DEF Given
<1>2. Far' = Far /\ Lineage' = Lineage /\ Shortest' = Shortest /\ Tasks' = Tasks
  BY DEF Far, Lineage, Shortest, Tasks
<1>3. \A f, x : At(f, x)' = At(f, x)
  BY <1>2 DEF At
<1>4. Walks' = Walks
  BY <1>2 DEF Walks
<1>5. \A t : SoundTask(t)' <=> SoundTask(t)
  BY <1>2, <1>3 DEF SoundTask
<1>6. \A w : (WithinLimits(w) /\ Real(w))' <=> WithinLimits(w) /\ Real(w)
  BY <1>2, <1>3, <1>5 DEF WithinLimits, Real
<1>7. SoundWalks' = SoundWalks
  BY <1>4, <1>6 DEF SoundWalks
<1>8. \A w, task : Covered(w, task)' <=> Covered(w, task)
  BY <1>2, <1>3 DEF Covered, Rows, Took, Depth
<1>9. \A w : (Begun(w) /\ Queried(w) /\ Complete(w))' <=> Begun(w) /\ Queried(w) /\ Complete(w)
  BY <1>3, <1>5, <1>8 DEF Begun, Queried, Complete
<1> QED
  BY <1>1, <1>7, <1>9 DEF SoundAndWhole

(* A walk with fewer calls to come is as sound.                            *)
LEMMA FewerIs ==
  ASSUME Given, NEW w \in SoundWalks, NEW P \in SUBSET w.pending
  PROVE  LET v == [w EXCEPT !.pending = P] IN
         /\ v \in SoundWalks /\ v.pending = P
         /\ \A f \in {"nodes", "distance", "level", "queriedAt", "queries",
                      "inferredFrom", "cycleSeen", "truncated", "warnings"} : v[f] = w[f]
<1> DEFINE v == [w EXCEPT !.pending = P]
<1>1. w \in Walks /\ w.pending \subseteq Tasks
  BY DEF SoundWalks, Walks
<1>2. /\ v \in Walks /\ v.pending = P
      /\ \A f \in {"nodes", "distance", "level", "queriedAt", "queries",
                   "inferredFrom", "cycleSeen", "truncated", "warnings"} : v[f] = w[f]
  BY <1>1 DEF Walks
<1> HIDE DEF v
<1>3. v \in SoundWalks
  BY <1>2 DEF SoundWalks, WithinLimits, Real
<1> QED
  BY <1>2, <1>3 DEF v

(* What has been found stays.                                              *)
Grows(w, u) ==
  /\ w.nodes \subseteq u.nodes
  /\ \A e : At(u.distance, e) <= At(w.distance, e)
  /\ \A o : At(u.level, o) <= At(w.level, o)

(* Where calls leave and their rows are kept, the walk stays whole.        *)
LEMMA WholeStays ==
  ASSUME Given, NEW w \in SoundAndWhole, NEW P \in SUBSET w.pending, NEW u \in SoundWalks,
         Extends([w EXCEPT !.pending = P], u),
         \A t \in w.pending : t \in P \/ t.kind # "lineage" \/ (Silent(u) => Covered(u, t))
  PROVE  u \in SoundAndWhole /\ Grows(w, u)
<1> DEFINE v == [w EXCEPT !.pending = P]
<1>1. w \in SoundWalks /\ Begun(w) /\ Queried(w) /\ Complete(w)
  BY DEF SoundAndWhole
<1>2. /\ v \in SoundWalks /\ v.pending = P
      /\ \A f \in {"nodes", "distance", "level", "queriedAt", "queries",
                   "inferredFrom", "cycleSeen", "truncated", "warnings"} : v[f] = w[f]
  BY <1>1, FewerIs
<1>3. Extends(v, u)
  OBVIOUS
<1> HIDE DEF v
<1>4. Silent(u) => Silent(w)
  BY <1>2, <1>3 DEF Extends, Silent
<1>5. /\ At(u.level, Root) <= At(w.level, Root)
      /\ At(u.queriedAt, Root) <= At(w.queriedAt, Root)
  BY <1>2, <1>3 DEF Extends
<1>6. \A x : /\ At(w.distance, x) \in Int /\ At(w.level, x) \in Int
             /\ At(w.queriedAt, x) \in Int
             /\ At(u.distance, x) \in Int /\ At(u.level, x) \in Int
             /\ At(u.queriedAt, x) \in Int
  BY <1>1, WalkFacts DEF SoundWalks
<1>7. Begun(u)
  BY <1>1, <1>4, <1>5, <1>6 DEF Begun
<1>8. \A o \in DOMAIN u.queriedAt :
        \/ o \in DOMAIN w.queriedAt /\ u.queriedAt[o] = w.queriedAt[o]
        \/ Task("lineage", o, u.queriedAt[o]) \in u.pending
  BY <1>2, <1>3 DEF Extends
<1>9. Queried(u)
  <2>1. \A t \in u.pending : SoundTask(t)
    BY DEF SoundWalks, Real
  <2> QED
    BY <1>1, <1>8, <2>1 DEF Queried
<1>10. Complete(u)
  <2> SUFFICES ASSUME Silent(u), NEW o \in DOMAIN u.queriedAt
               PROVE  LET task == Task("lineage", o, u.queriedAt[o]) IN
                      task \in u.pending \/ Covered(u, task)
    BY DEF Complete
  <2> DEFINE task == Task("lineage", o, u.queriedAt[o])
  <2>1. task.kind = "lineage" /\ SoundTask(task)
    BY <1>9 DEF Task, Queried
  <2>2. \/ task \in u.pending
        \/ task \in w.pending
        \/ Covered(w, task)
    BY <1>1, <1>4, <1>8 DEF Complete
  <2> HIDE DEF task
  <2>3. ASSUME task \in w.pending
        PROVE  task \in u.pending \/ Covered(u, task)
    <3>1. task \in P => task \in u.pending
      BY <1>2, <1>3 DEF Extends
    <3> QED
      BY <2>1, <2>3, <3>1
  <2>4. ASSUME Covered(w, task) PROVE Covered(u, task)
    <3> SUFFICES ASSUME NEW row \in Rows(task.object, Depth(task))
                 PROVE  Took(u, row, task)
      BY DEF Covered
    <3>1. Took(w, row, task)
      BY <2>4 DEF Covered
    <3>2. Took(v, row, task)
      BY <1>2, <3>1 DEF Took
    <3>3. task \in Tasks /\ row.distance \in Nat
      BY <2>1, RowsAre DEF SoundTask, Row
    <3> QED
      BY <1>2, <1>3, <3>2, <3>3, TookStays
  <2> QED
    BY <2>2, <2>3, <2>4 DEF task
<1>11. Grows(w, u)
  BY <1>2, <1>3 DEF Extends, Grows
<1> QED
  BY <1>7, <1>9, <1>10, <1>11 DEF SoundAndWhole

(* Nothing has been asked before the first call.                           *)
LEMMA EmptyIs ==
  ASSUME Given
  PROVE  /\ Empty \in SoundWalks
         /\ Empty.queriedAt = <<>> /\ At(Empty.level, Root) <= 0
<1> DEFINE f == <<>>
           g == With(f, Root, 0)
           max == request.maxDepth
<1>1. f = [x \in DOMAIN f |-> f[x]] /\ DOMAIN f = {}
  OBVIOUS
<1>2. f \in Partial(Edges, 0..max) /\ f \in Partial(Objects, 0..max)
  <2> HIDE DEF f
  <2> QED
    BY <1>1, PartialIs
<1>3. /\ max \in Nat \ {0} /\ request.maxNodes \in Nat \ {0} /\ request.maxEdges \in Nat \ {0}
      /\ request.maxQueries \in Nat \ {0} /\ Root \in Objects
  BY GivenFacts
<1>4. g \in Partial(Objects, 0..max) /\ DOMAIN g = {Root} /\ g[Root] = 0
  <2> DEFINE R == 0..max
  <2>1. f \in Partial(Objects, R) /\ 0 \in R
    BY <1>2, <1>3
  <2> HIDE DEF R, f
  <2>2. /\ g \in Partial(Objects, R) /\ g[Root] = 0
        /\ DOMAIN g = DOMAIN f \cup {Root}
    BY <1>3, <2>1, WithIs
  <2> QED
    BY <1>1, <2>2 DEF R
<1>5. At(g, Root) = 0
  BY <1>4 DEF At
<1>6. Empty = [nodes |-> {Root}, distance |-> f, level |-> g, queriedAt |-> f,
               queries |-> 0, inferredFrom |-> {}, pending |-> {},
               cycleSeen |-> FALSE, truncated |-> FALSE, warnings |-> {}]
  BY DEF Empty
<1> DEFINE w == Empty
<1> HIDE DEF f, g, max
<1>7. /\ w \in Walks /\ w.nodes = {Root} /\ w.distance = f /\ w.level = g
      /\ w.queriedAt = f /\ w.queries = 0 /\ w.pending = {}
  BY <1>2, <1>3, <1>4, <1>6 DEF Walks, max
<1> HIDE DEF w
<1>8. WithinLimits(w)
  <2>1. Cardinality({Root}) = 1 /\ Cardinality({}) = 0
    BY FS_Singleton, FS_EmptySet
  <2> QED
    BY <1>1, <1>3, <1>7, <2>1 DEF WithinLimits
<1>9. Real(w)
  BY <1>1, <1>4, <1>7, ShortestFacts DEF Real
<1>10. w \in SoundWalks
  BY <1>7, <1>8, <1>9 DEF SoundWalks
<1>11. At(w.level, Root) <= 0
  BY <1>5, <1>7
<1> QED
  BY <1>7, <1>10, <1>11 DEF w, f

(* A trace begins with a call from the root.                               *)
LEMMA InitInv == Init => IInv
<1> SUFFICES ASSUME Init PROVE IInv
  OBVIOUS
<1>1. Given
  BY DEF Init, Given
<1>2. walk = Query(Empty, Root, 0) /\ status = "running"
  BY DEF Init
<1> DEFINE v == Empty
<1>3. v \in SoundWalks /\ v.queriedAt = <<>> /\ At(v.level, Root) <= 0
  BY <1>1, EmptyIs
<1>4. /\ walk \in SoundWalks /\ Extends(v, walk)
      /\ walk.truncated \/ 0 >= request.maxDepth \/ At(walk.queriedAt, Root) <= 0
  <2>1. Root \in Objects /\ 0 \in Nat /\ At(Shortest, Root) <= 0
    BY <1>1, GivenFacts, ShortestFacts
  <2> HIDE DEF v
  <2> QED
    BY <1>1, <1>2, <1>3, <2>1, QueryIs DEF v
<1> HIDE DEF v
<1>5. Begun(walk)
  <2>1. At(walk.level, Root) <= At(v.level, Root)
    BY <1>4 DEF Extends
  <2>2. At(walk.level, Root) \in Int /\ At(v.level, Root) \in Int
    BY <1>1, <1>3, <1>4, WalkFacts DEF SoundWalks
  <2>3. ~(0 >= request.maxDepth)
    BY <1>1, GivenFacts
  <2> QED
    BY <1>3, <1>4, <2>1, <2>2, <2>3 DEF Begun, Silent
<1>6. \A o \in DOMAIN walk.queriedAt : Task("lineage", o, walk.queriedAt[o]) \in walk.pending
  <2>1. DOMAIN v.queriedAt = {}
    BY <1>3
  <2> QED
    BY <1>4, <2>1 DEF Extends
<1>7. Queried(walk) /\ Complete(walk)
  BY <1>4, <1>6 DEF Queried, Complete, SoundWalks, Real
<1> QED
  BY <1>1, <1>2, <1>4, <1>5, <1>7 DEF IInv, SoundAndWhole

(* The walk a call's answer is absorbed into.                              *)
LEMMA TakenIs ==
  ASSUME Given, walk \in SoundAndWhole, NEW task \in walk.pending
  PROVE  /\ Taken(task) \in SoundWalks /\ SoundTask(task)
         /\ Taken(task) = [walk EXCEPT !.pending = walk.pending \ {task}]
<1>1. walk \in SoundWalks /\ SoundTask(task)
  BY DEF SoundAndWhole, SoundWalks, Real
<1>2. Taken(task) = [walk EXCEPT !.pending = walk.pending \ {task}]
  BY DEF Taken
<1>3. walk.pending \ {task} \in SUBSET walk.pending
  OBVIOUS
<1> QED
  BY <1>1, <1>2, <1>3, FewerIs

(* A call that answers.                                                    *)
LEMMA AbsorbLineageStep ==
  ASSUME Given, walk \in SoundAndWhole, NEW task, AbsorbLineage(task)
  PROVE  walk' \in SoundAndWhole /\ Grows(walk, walk')
<1> DEFINE v == Taken(task)
           rows == Rows(task.object, Depth(task))
           P == walk.pending \ {task}
<1>1. /\ task \in walk.pending /\ task.kind = "lineage"
      /\ IF rows = {} THEN walk' = Infer(v, task.object, task.level)
         ELSE \E order \in Orders, lost \in SUBSET rows :
                walk' = Absorbed(v, rows, order, task, lost)
  BY DEF AbsorbLineage
<1>2. /\ v \in SoundWalks /\ SoundTask(task) /\ P \in SUBSET walk.pending
      /\ v = [walk EXCEPT !.pending = P]
  BY <1>1, TakenIs
<1>3. SoundRows(rows, task) /\ (rows = {} => Feeders(world.feeds, {task.object}) = {})
  BY <1>1, <1>2, RowsAre DEF SoundRows
<1> HIDE DEF v
<1>4. ASSUME NEW u \in SoundWalks, Extends(v, u), Silent(u) => Covered(u, task)
      PROVE  u \in SoundAndWhole /\ Grows(walk, u)
  <2>1. \A t \in walk.pending : t \in P \/ t.kind # "lineage" \/ (Silent(u) => Covered(u, t))
    BY <1>4
  <2>2. Extends([walk EXCEPT !.pending = P], u)
    BY <1>2, <1>4
  <2> HIDE DEF P
  <2> QED
    BY <1>2, <2>1, <2>2, WholeStays
<1>5. CASE rows = {}
  <2> DEFINE u == Infer(v, task.object, task.level)
  <2>1. /\ task.object \in Objects /\ task.level \in Nat
        /\ At(Shortest, task.object) <= task.level
    BY <1>2, GivenFacts DEF SoundTask, Tasks
  <2>2. u \in SoundWalks /\ Extends(v, u)
    BY <1>2, <1>3, <1>5, <2>1, InferIs
  <2>3. walk' = u
    BY <1>1, <1>5
  <2> HIDE DEF u
  <2>4. Covered(u, task)
    BY <1>5 DEF Covered
  <2> QED
    BY <1>4, <2>2, <2>3, <2>4
<1>6. CASE rows # {}
  <2>1. PICK order \in Orders, lost \in SUBSET rows :
          walk' = Absorbed(v, rows, order, task, lost)
    BY <1>1, <1>6
  <2> DEFINE u == Absorbed(v, rows, order, task, lost)
  <2>2. u \in SoundWalks /\ Extends(v, u) /\ \A row \in rows : Kept(u, row, task, lost)
    <3> HIDE DEF rows
    <3> QED
      BY <1>2, <1>3, AbsorbedIs
  <2> HIDE DEF u
  <2>3. Silent(u) => Covered(u, task)
    BY <1>1, <2>2 DEF Silent, Covered, Kept
  <2> QED
    BY <1>4, <2>1, <2>2, <2>3 DEF u
<1> QED
  BY <1>5, <1>6

(* A call that fails.                                                      *)
LEMMA LineageFailsStep ==
  ASSUME Given, walk \in SoundAndWhole, NEW task, LineageFails(task)
  PROVE  \/ walk' \in SoundAndWhole /\ Grows(walk, walk')
         \/ walk' = walk
<1> DEFINE v == Taken(task)
           P == walk.pending \ {task}
           code == "SNOWFLAKE_LINEAGE_BRANCH_FAILED"
           u == Warned(Truncated(v), code)
<1>1. task \in walk.pending /\ (walk' = walk \/ walk' = u)
  BY DEF LineageFails
<1>2. /\ v \in SoundWalks /\ P \in SUBSET walk.pending
      /\ v = [walk EXCEPT !.pending = P]
  BY <1>1, TakenIs
<1>3. u \in SoundWalks /\ Extends(v, u) /\ u.truncated
  <2>1. code \in Codes
    BY DEF Codes
  <2> HIDE DEF code, v
  <2> QED
    BY <1>2, <2>1, CutIs
<1> HIDE DEF u, v
<1>4. u \in SoundAndWhole /\ Grows(walk, u)
  <2>1. ~Silent(u)
    BY <1>3 DEF Silent
  <2>2. Extends([walk EXCEPT !.pending = P], u)
    BY <1>2, <1>3
  <2> HIDE DEF P
  <2> QED
    BY <1>2, <1>3, <2>1, <2>2, WholeStays
<1> QED
  BY <1>1, <1>4

(* SQL that is read.                                                       *)
LEMMA AbsorbInferenceStep ==
  ASSUME Given, walk \in SoundAndWhole, NEW task, AbsorbInference(task)
  PROVE  walk' \in SoundAndWhole /\ Grows(walk, walk')
<1> DEFINE v == Taken(task)
           rows == Sources(task.object)
           P == walk.pending \ {task}
<1>0. PICK order \in Orders : walk' = Absorbed(v, rows, order, task, {})
  BY DEF AbsorbInference
<1> DEFINE u == Absorbed(v, rows, order, task, {})
<1>1. task \in walk.pending /\ task.kind = "inference" /\ walk' = u
  BY <1>0 DEF AbsorbInference
<1>2. /\ v \in SoundWalks /\ SoundTask(task) /\ P \in SUBSET walk.pending
      /\ v = [walk EXCEPT !.pending = P]
  BY <1>1, TakenIs
<1>3. SoundRows(rows, task)
  BY <1>1, <1>2, SourcesAre DEF SoundRows
<1> HIDE DEF v
<1>4. u \in SoundWalks /\ Extends(v, u)
  <2> HIDE DEF rows
  <2> QED
    BY <1>2, <1>3, AbsorbedIs
<1> HIDE DEF u
<1>5. \A t \in walk.pending : t \in P \/ t.kind # "lineage"
  BY <1>1
<1>6. Extends([walk EXCEPT !.pending = P], u)
  BY <1>2, <1>4
<1> HIDE DEF P
<1> QED
  BY <1>1, <1>2, <1>4, <1>5, <1>6, WholeStays

(* SQL that cannot be read.                                                *)
LEMMA InferenceFailsStep ==
  ASSUME Given, walk \in SoundAndWhole, NEW task, InferenceFails(task)
  PROVE  walk' \in SoundAndWhole /\ Grows(walk, walk')
<1> DEFINE v == Taken(task)
           P == walk.pending \ {task}
           code == "SNOWFLAKE_LINEAGE_INFERENCE_FAILED"
           u == Warned(v, code)
<1>1. task \in walk.pending /\ task.kind = "inference" /\ walk' = u
  BY DEF InferenceFails
<1>2. /\ v \in SoundWalks /\ P \in SUBSET walk.pending
      /\ v = [walk EXCEPT !.pending = P]
  BY <1>1, TakenIs
<1>3. u \in SoundWalks /\ Extends(v, u)
  <2>1. code \in Codes
    BY DEF Codes
  <2> HIDE DEF code, v
  <2> QED
    BY <1>2, <2>1, WarnedIs
<1> HIDE DEF u, v
<1>4. \A t \in walk.pending : t \in P \/ t.kind # "lineage"
  BY <1>1
<1>5. Extends([walk EXCEPT !.pending = P], u)
  BY <1>2, <1>3
<1> HIDE DEF P
<1> QED
  BY <1>1, <1>2, <1>3, <1>4, <1>5, WholeStays

(* The last words of a trace.                                              *)
LEMMA FinishStep ==
  ASSUME Given, walk \in SoundAndWhole, Finish
  PROVE  walk' \in SoundAndWhole /\ Grows(walk, walk') /\ walk'.pending = {}
<1> DEFINE said == walk.warnings \cup
                     (IF walk.cycleSeen THEN {"SNOWFLAKE_LINEAGE_CYCLE_SKIPPED"} ELSE {})
                     \cup (IF walk.truncated THEN {"SNOWFLAKE_LINEAGE_TRUNCATED"} ELSE {})
           u == [walk EXCEPT !.warnings = said]
<1>1. walk' = u /\ walk.pending = {}
  BY DEF Finish
<1>2. walk \in SoundWalks /\ walk \in Walks
  BY DEF SoundAndWhole, SoundWalks
<1>3. said \subseteq Codes /\ walk.warnings \subseteq said
  BY <1>2 DEF Walks, Codes
<1> HIDE DEF said
<1>4. /\ u \in Walks /\ u.warnings = said
      /\ \A f \in {"nodes", "distance", "level", "queriedAt", "queries", "inferredFrom",
                   "pending", "cycleSeen", "truncated"} : u[f] = walk[f]
  BY <1>2, <1>3 DEF Walks
<1> HIDE DEF u
<1>5. u \in SoundWalks
  BY <1>2, <1>4 DEF SoundWalks, WithinLimits, Real
<1>6. Extends(walk, u)
  BY <1>2, <1>3, <1>4, SameExtends
<1> DEFINE P == walk.pending
<1>7. walk = [walk EXCEPT !.pending = P]
  BY <1>2 DEF Walks
<1>8. Extends([walk EXCEPT !.pending = P], u)
  BY <1>6, <1>7
<1> HIDE DEF P
<1>9. u \in SoundAndWhole /\ Grows(walk, u)
  <2>1. P \in SUBSET walk.pending /\ \A t \in walk.pending : t \in P
    BY DEF P
  <2> QED
    BY <1>5, <1>8, <2>1, WholeStays
<1> QED
  BY <1>1, <1>4, <1>9

(* Every step keeps the invariant and what has been found.                 *)
LEMMA StepInv ==
  ASSUME IInv, [Step]_vars
  PROVE  IInv' /\ Grows(walk, walk')
<1>1. Given /\ walk \in SoundAndWhole
  BY DEF IInv
<1>2. \A x : /\ At(walk.distance, x) \in Int /\ At(walk.level, x) \in Int
  BY <1>1, WalkFacts DEF SoundAndWhole, SoundWalks
<1>3. Grows(walk, walk)
  BY <1>2 DEF Grows
<1>4. CASE Finish
  <2>1. walk' \in SoundAndWhole /\ Grows(walk, walk') /\ walk'.pending = {}
    BY <1>1, <1>4, FinishStep
  <2>2. world' = world /\ request' = request /\ status' = "done"
    BY <1>4 DEF Finish
  <2> QED
    BY <1>1, <2>1, <2>2, SameWorld DEF IInv
<1>5. ASSUME NEW task, AbsorbLineage(task) \/ AbsorbInference(task) \/ InferenceFails(task)
      PROVE  IInv' /\ Grows(walk, walk')
  <2>1. walk' \in SoundAndWhole /\ Grows(walk, walk')
    BY <1>1, <1>5, AbsorbLineageStep, AbsorbInferenceStep, InferenceFailsStep
  <2>2. world' = world /\ request' = request /\ status' = "running"
    BY <1>5 DEF AbsorbLineage, AbsorbInference, InferenceFails
  <2> QED
    BY <1>1, <2>1, <2>2, SameWorld DEF IInv
<1>6. ASSUME NEW task, LineageFails(task)
      PROVE  IInv' /\ Grows(walk, walk')
  <2>1. walk' \in SoundAndWhole /\ Grows(walk, walk')
    BY <1>1, <1>3, <1>6, LineageFailsStep
  <2>2. world' = world /\ request' = request /\ status' \in {"running", "failed"}
    BY <1>6 DEF LineageFails
  <2> QED
    BY <1>1, <2>1, <2>2, SameWorld DEF IInv
<1>7. CASE UNCHANGED vars
  <2>1. world' = world /\ request' = request /\ status' = status /\ walk' = walk
    BY <1>7 DEF vars
  <2> QED
    BY <1>1, <1>3, <2>1, SameWorld DEF IInv
<1> QED
  BY <1>4, <1>5, <1>6, <1>7 DEF Step

(* It holds of every trace.                                                *)
LEMMA Invariance == Spec => []IInv
<1>1. IInv /\ [Step]_vars => IInv'
  BY StepInv
<1> QED
  BY InitInv, <1>1, PTL DEF Spec

(***************************************************************************)
(* The theorems.                                                           *)
(***************************************************************************)

(* The walk's fields hold values of their types, whatever the calls        *)
(* return, fail with or lose.                                              *)
THEOREM TypeCorrect == Spec => []TypeOK
<1>1. IInv => TypeOK
  <2> SUFFICES ASSUME IInv PROVE TypeOK
    OBVIOUS
  <2>1. /\ walk \in Walks /\ Root \in walk.nodes /\ Real(walk) /\ Given
        /\ status \in {"running", "done", "failed"}
    BY DEF IInv, SoundAndWhole, SoundWalks
  <2>2. /\ walk.nodes \subseteq Objects /\ walk.queries \in Nat
        /\ walk.pending \subseteq Tasks /\ walk.inferredFrom \subseteq Objects
        /\ walk.distance \in Partial(Edges, 0..request.maxDepth)
        /\ walk.level \in Partial(Objects, 0..request.maxDepth)
        /\ walk.queriedAt \in Partial(Objects, 0..request.maxDepth)
    BY <2>1 DEF Walks
  <2>3. \A e \in DOMAIN walk.distance : walk.distance[e] \in 1..request.maxDepth
    <3> SUFFICES ASSUME NEW e \in DOMAIN walk.distance
                 PROVE  walk.distance[e] \in 1..request.maxDepth
      OBVIOUS
    <3>1. walk.distance[e] \in 0..request.maxDepth
      BY <2>2, PartialIs
    <3>2. walk.distance[e] > At(Shortest, e[2]) /\ At(Shortest, e[2]) \in Nat
      BY <2>1, ShortestFacts DEF Real
    <3> QED
      BY <3>1, <3>2
  <2>4. /\ DOMAIN walk.distance \subseteq Edges
        /\ DOMAIN walk.level \subseteq Objects
        /\ \A o \in DOMAIN walk.level : walk.level[o] \in 0..request.maxDepth
        /\ DOMAIN walk.queriedAt \subseteq Objects
        /\ \A o \in DOMAIN walk.queriedAt : walk.queriedAt[o] \in 0..request.maxDepth
    <3> DEFINE R == 0..request.maxDepth
    <3>1. /\ walk.distance \in Partial(Edges, R) /\ walk.level \in Partial(Objects, R)
          /\ walk.queriedAt \in Partial(Objects, R)
      BY <2>2
    <3> HIDE DEF R
    <3>2. /\ DOMAIN walk.distance \subseteq Edges
          /\ DOMAIN walk.level \subseteq Objects
          /\ \A o \in DOMAIN walk.level : walk.level[o] \in R
          /\ DOMAIN walk.queriedAt \subseteq Objects
          /\ \A o \in DOMAIN walk.queriedAt : walk.queriedAt[o] \in R
      BY <3>1, PartialIs
    <3> QED
      BY <3>2 DEF R
  <2> QED
    BY <2>1, <2>2, <2>3, <2>4 DEF TypeOK, Range
<1> QED
  BY Invariance, <1>1, PTL

(* What a trace reports exists, is no nearer to the root than reported     *)
(* and stays within the limits of the request.                             *)
THEOREM NothingIsInvented == Spec => []NothingInvented
<1>1. IInv => NothingInvented
  BY DEF IInv, SoundAndWhole, SoundWalks, WithinLimits, Real, NothingInvented
<1> QED
  BY Invariance, <1>1, PTL

(* No answer, failure or limit takes away or sets further what has been    *)
(* found.                                                                  *)
THEOREM FindingsRemain == Spec => FindingsStay
<1>1. ASSUME IInv, [Step]_vars
      PROVE  [/\ walk.nodes \subseteq walk'.nodes
              /\ \A e \in DOMAIN walk.distance : At(walk'.distance, e) <= walk.distance[e]
              /\ \A o \in DOMAIN walk.level : At(walk'.level, o) <= walk.level[o]]_vars
  <2>1. Grows(walk, walk')
    BY <1>1, StepInv
  <2> QED
    BY <2>1 DEF Grows, At
<1> QED
  BY Invariance, <1>1, PTL DEF Spec, FindingsStay

(* Every object within max_depth is seen by a call: one from an object     *)
(* that was asked about, at a level and as many steps away as the object's *)
(* distance allows, and fewer than the depth of the call.                  *)
Seen(x, k) ==
  \E o \in DOMAIN walk.queriedAt :
    LET q == walk.queriedAt[o]
        steps == StepsTo(world.feeds, o, request.maxDepth)
    IN  q + At(steps, x) <= k /\ At(steps, x) < Depth(Task("lineage", o, q))

(* What the rows of a call that is covered say of an edge.                 *)
LEMMA CoveredSays ==
  ASSUME IInv, NEW o \in DOMAIN walk.queriedAt,
         Covered(walk, Task("lineage", o, walk.queriedAt[o])),
         NEW e \in world.feeds
  PROVE  LET q == walk.queriedAt[o]
             depth == Depth(Task("lineage", o, q))
             s == At(StepsTo(world.feeds, o, request.maxDepth), e[2])
         IN  s < depth =>
               /\ At(walk.distance, e) <= q + s + 1
               /\ At(walk.level, e[1]) <= q + s + 1
               /\ s + 1 = depth /\ q + s + 1 < request.maxDepth
                    => At(walk.queriedAt, e[1]) <= q + s + 1
<1> DEFINE q == walk.queriedAt[o]
           task == Task("lineage", o, q)
           steps == StepsTo(world.feeds, o, request.maxDepth)
           s == At(steps, e[2])
           depth == Depth(task)
           row == [edge |-> e, distance |-> steps[e[2]] + 1]
<1>1. task.kind = "lineage" /\ task.object = o /\ task.level = q
  BY DEF Task
<1>2. SoundTask(task) /\ Given
  BY DEF IInv, SoundAndWhole, Queried
<1> SUFFICES ASSUME s < depth
             PROVE  /\ At(walk.distance, e) <= q + s + 1
                    /\ At(walk.level, e[1]) <= q + s + 1
                    /\ s + 1 = depth /\ q + s + 1 < request.maxDepth
                         => At(walk.queriedAt, e[1]) <= q + s + 1
  OBVIOUS
<1>3. /\ q \in Nat /\ request.maxDepth \in Nat /\ o \in Objects
      /\ depth \in Nat /\ depth <= request.maxDepth - q
  <2>1. task \in Tasks /\ task.level < request.maxDepth
    BY <1>2 DEF SoundTask
  <2>2. task.level \in Nat /\ task.object \in Objects
    BY <2>1, <1>2, GivenFacts DEF Tasks
  <2> HIDE DEF task
  <2> QED
    BY <1>1, <1>2, <2>1, <2>2, DepthIs, GivenFacts
<1>4. s \in Nat /\ e[2] \in DOMAIN steps /\ steps[e[2]] = s
  <2>1. steps \in Partial(Objects, 0..request.maxDepth)
    BY <1>2, <1>3, GivenFacts, StepsAre DEF AreSteps
  <2> HIDE DEF steps, depth
  <2> QED
    BY <1>2, <1>3, <2>1, AtIs
<1>5. row \in Rows(task.object, depth)
  BY <1>1 DEF Rows
<1>6. Took(walk, row, task)
  BY <1>5 DEF Covered
<1>7. row.edge = e /\ row.distance = s + 1
  BY <1>4
<1> HIDE DEF row, task, s, steps
<1>8. task.level + row.distance = q + s + 1
  BY <1>1, <1>3, <1>4, <1>7
<1> QED
  BY <1>6, <1>7, <1>8 DEF Took

(* A silent trace without inference has seen every object within max_depth *)
(* from its distance.                                                      *)
LEMMA AllSeen ==
  ASSUME IInv, status = "done", Unhurt, ~request.infers
  PROVE  \A x : At(Shortest, x) < request.maxDepth => Seen(x, At(Shortest, x))
<1> DEFINE max == request.maxDepth
           T == {k \in Nat : k < max => \A x : At(Shortest, x) = k => Seen(x, k)}
<1>1. /\ Given /\ max \in Nat \ {0} /\ Root \in Objects /\ world.feeds \in SUBSET Edges
      /\ Lineage = world.feeds
      /\ At(walk.queriedAt, Root) <= 0
      /\ walk.queriedAt \in Partial(Objects, 0..max)
  <2>1. walk \in SoundWalks /\ Begun(walk) /\ Given /\ Silent(walk)
    BY DEF IInv, SoundAndWhole, Unhurt, Silent
  <2>2. Lineage = world.feeds
    BY DEF Lineage
  <2> QED
    BY <2>1, <2>2, GivenFacts DEF Begun, SoundWalks, Walks
<1>2. ASSUME NEW o \in DOMAIN walk.queriedAt
      PROVE  LET q == walk.queriedAt[o]
                 task == Task("lineage", o, q)
             IN  /\ o \in Objects /\ q \in Nat
                 /\ Covered(walk, task)
                 /\ Depth(task) \in Nat \ {0} /\ Depth(task) <= max - q
  <2> DEFINE q == walk.queriedAt[o]
             task == Task("lineage", o, q)
  <2>1. task.object = o /\ task.level = q
    BY DEF Task
  <2>2. SoundTask(task) /\ Covered(walk, task)
    BY DEF IInv, SoundAndWhole, Queried, Complete, Unhurt, Silent
  <2> HIDE DEF task
  <2>3. task \in Tasks /\ task.level < max /\ task.level \in Nat /\ task.object \in Objects
    BY <1>1, <2>2 DEF SoundTask, Tasks
  <2>4. Depth(task) \in Nat \ {0} /\ Depth(task) <= max - task.level
    BY <1>1, <2>3, DepthIs
  <2>5. /\ o \in Objects /\ q \in Nat
        /\ Covered(walk, task)
        /\ Depth(task) \in Nat \ {0} /\ Depth(task) <= max - q
    BY <2>1, <2>2, <2>3, <2>4
  <2> QED
    BY <2>5 DEF task
<1>3. ASSUME NEW x, NEW k \in Nat, At(walk.queriedAt, x) <= k, k < max
      PROVE  Seen(x, k)
  <2>1. x \in DOMAIN walk.queriedAt /\ walk.queriedAt[x] <= k
    BY <1>1, <1>3, AtIs
  <2>2. At(StepsTo(world.feeds, x, max), x) = 0
    BY <1>1, <1>2, <2>1, StepsFacts
  <2>3. /\ Depth(Task("lineage", x, walk.queriedAt[x])) \in Nat \ {0}
        /\ walk.queriedAt[x] \in Nat
    BY <1>2, <2>1
  <2> QED
    BY <2>1, <2>2, <2>3 DEF Seen
<1>4. 0 \in T
  <2>1. \A x : At(Shortest, x) = 0 => x = Root
    BY <1>1, ShortestFacts
  <2> QED
    BY <1>1, <1>3, <2>1
<1>5. ASSUME NEW k \in T PROVE k + 1 \in T
  <2> SUFFICES ASSUME k + 1 < max, NEW x, At(Shortest, x) = k + 1
               PROVE  Seen(x, k + 1)
    OBVIOUS
  <2>1. k \in Nat /\ k < max
    BY <1>1
  <2>2. PICK e \in world.feeds : e[1] = x /\ At(Shortest, e[2]) = k
    <3>1. /\ At(Shortest, x) # 0 /\ At(Shortest, x) <= request.maxDepth
          /\ At(Shortest, x) - 1 = k
      BY <1>1, <2>1
    <3> QED
      BY <1>1, <3>1, ShortestFacts
  <2>3. Seen(e[2], k)
    BY <2>1, <2>2
  <2>4. PICK o \in DOMAIN walk.queriedAt :
          LET q == walk.queriedAt[o]
              steps == StepsTo(world.feeds, o, request.maxDepth)
          IN  q + At(steps, e[2]) <= k /\ At(steps, e[2]) < Depth(Task("lineage", o, q))
    BY <2>3 DEF Seen
  <2> DEFINE q == walk.queriedAt[o]
             task == Task("lineage", o, q)
             steps == StepsTo(world.feeds, o, max)
             s == At(steps, e[2])
             depth == Depth(task)
  <2>5. /\ o \in Objects /\ q \in Nat /\ Covered(walk, task)
        /\ depth \in Nat \ {0} /\ depth <= max - q
    BY <1>2
  <2>6. q + s <= k /\ s < depth
    BY <2>4
  <2>7. s \in Nat /\ (s < max => At(steps, x) <= s + 1) /\ At(steps, x) \in Nat
    BY <1>1, <2>2, <2>5, StepsFacts
  <2>8. s + 1 = depth /\ q + s + 1 < max => At(walk.queriedAt, x) <= q + s + 1
    BY <2>2, <2>5, <2>6, CoveredSays
  <2>9. At(walk.queriedAt, x) \in Int
    BY <1>1, AtIs
  <2> HIDE DEF steps, task, s, T
  <2>10. At(steps, x) <= s + 1 /\ q + (s + 1) <= k + 1
    <3> HIDE DEF q, depth, max
    <3> QED
      BY <1>1, <2>1, <2>5, <2>6, <2>7
  <2>11. CASE s + 1 < depth
    <3>1. q + At(steps, x) <= k + 1 /\ At(steps, x) < depth
      <4> HIDE DEF q, depth, max
      <4> QED
        BY <2>1, <2>5, <2>7, <2>10, <2>11
    <3> QED
      BY <3>1 DEF Seen, steps, task
  <2>12. CASE s + 1 = depth
    <3>1. At(walk.queriedAt, x) <= k + 1
      <4> HIDE DEF q, depth
      <4> QED
        BY <1>1, <2>1, <2>5, <2>7, <2>8, <2>9, <2>10, <2>12
    <3> QED
      BY <1>3, <2>1, <3>1
  <2> QED
    <3> HIDE DEF q, depth, max
    <3> QED
      BY <2>5, <2>6, <2>7, <2>11, <2>12
<1>6. T = Nat
  <2> HIDE DEF T
  <2>1. T \in SUBSET Nat
    BY DEF T
  <2> QED
    BY <1>4, <1>5, <2>1, Induction
<1> QED
  BY <1>1, <1>6, ShortestFacts

(* A trace that says nothing of being cut, refused, failed or lost returns *)
(* the whole lineage within max_depth at its shortest distances, whatever  *)
(* the order of the answers and however far one call sees.                 *)
THEOREM SilenceIsWhole == Spec => []SilenceMeansWhole
<1>1. ASSUME IInv PROVE SilenceMeansWhole
  <2> SUFFICES ASSUME status = "done", Unhurt, ~request.infers
               PROVE  Whole
    BY DEF SilenceMeansWhole
  <2> DEFINE max == request.maxDepth
             reported == [e \in InReach |-> Shortest[e[2]] + 1]
  <2>1. /\ walk \in SoundWalks /\ Real(walk) /\ Begun(walk) /\ Given
        /\ walk.distance \in Partial(Edges, 0..max)
        /\ walk.level \in Partial(Objects, 0..max)
    BY <1>1 DEF IInv, SoundAndWhole, SoundWalks, Walks
  <2>2. max \in Nat /\ Lineage = world.feeds
    BY <2>1, GivenFacts DEF Lineage
  <2>3. \A x : /\ At(walk.level, x) \in 0..(max + 1)
               /\ x \in DOMAIN walk.level =>
                    At(walk.level, x) = walk.level[x] /\ At(walk.level, x) <= max
               /\ x \notin DOMAIN walk.level => At(walk.level, x) = max + 1
    BY <2>1, AtIs
  <2>4. \A x : /\ At(walk.distance, x) \in 0..(max + 1)
               /\ x \in DOMAIN walk.distance =>
                    At(walk.distance, x) = walk.distance[x] /\ At(walk.distance, x) <= max
               /\ x \notin DOMAIN walk.distance => At(walk.distance, x) = max + 1
    BY <2>1, AtIs
  <2>5. \A x : /\ At(Shortest, x) \in 0..(max + 1)
               /\ x \in DOMAIN Shortest =>
                    At(Shortest, x) = Shortest[x] /\ At(Shortest, x) <= max
               /\ x \notin DOMAIN Shortest => At(Shortest, x) = max + 1
    BY <2>1, ShortestFacts, AtIs
  <2>6. ASSUME NEW e \in Lineage, At(Shortest, e[2]) < max
        PROVE  /\ At(walk.distance, e) <= At(Shortest, e[2]) + 1
               /\ At(walk.level, e[1]) <= At(Shortest, e[2]) + 1
    <3> DEFINE k == At(Shortest, e[2])
    <3>1. Seen(e[2], k)
      BY <1>1, <2>6, AllSeen
    <3>2. PICK o \in DOMAIN walk.queriedAt :
            LET q == walk.queriedAt[o]
                steps == StepsTo(world.feeds, o, request.maxDepth)
            IN  q + At(steps, e[2]) <= k /\ At(steps, e[2]) < Depth(Task("lineage", o, q))
      BY <3>1 DEF Seen
    <3> DEFINE q == walk.queriedAt[o]
               s == At(StepsTo(world.feeds, o, max), e[2])
               depth == Depth(Task("lineage", o, q))
    <3>3. Covered(walk, Task("lineage", o, q)) /\ SoundTask(Task("lineage", o, q))
      BY <1>1 DEF IInv, SoundAndWhole, Queried, Complete, Unhurt, Silent
    <3>4. q + s <= k /\ s < depth
      BY <3>2
    <3>5. At(walk.distance, e) <= q + s + 1 /\ At(walk.level, e[1]) <= q + s + 1
      BY <1>1, <2>2, <3>3, <3>4, CoveredSays
    <3>6. q \in Nat /\ o \in Objects
      <4> DEFINE task == Task("lineage", o, q)
      <4>1. task.object = o /\ task.level = q /\ task \in Tasks
        BY <3>3 DEF Task, SoundTask
      <4> HIDE DEF task
      <4> QED
        BY <2>2, <4>1 DEF Tasks
    <3>7. s \in Nat
      BY <2>1, <3>6, GivenFacts, StepsFacts
    <3> HIDE DEF k, q, s, depth
    <3>8. k \in Nat
      BY <2>5 DEF k
    <3>9. At(walk.distance, e) <= k + 1 /\ At(walk.level, e[1]) <= k + 1
      BY <2>3, <2>4, <3>4, <3>5, <3>6, <3>7, <3>8
    <3> QED
      BY <3>9 DEF k
  <2>7. walk.distance = reported
    <3>1. DOMAIN walk.distance = InReach
      <4>1. ASSUME NEW e \in DOMAIN walk.distance PROVE e \in InReach
        BY <2>1, <2>2, <2>4, <2>5 DEF Real, InReach
      <4>2. ASSUME NEW e \in InReach PROVE e \in DOMAIN walk.distance
        BY <2>2, <2>4, <2>5, <2>6 DEF InReach
      <4> QED
        BY <4>1, <4>2
    <3>2. ASSUME NEW e \in InReach PROVE walk.distance[e] = Shortest[e[2]] + 1
      <4>1. /\ e \in Lineage /\ At(Shortest, e[2]) < max
            /\ At(Shortest, e[2]) = Shortest[e[2]]
        BY <2>2, <2>5 DEF InReach
      <4>2. /\ walk.distance[e] <= At(Shortest, e[2]) + 1
            /\ walk.distance[e] > At(Shortest, e[2]) /\ walk.distance[e] \in Nat
        BY <2>1, <2>4, <2>6, <3>1, <4>1 DEF Real
      <4> QED
        BY <2>5, <4>1, <4>2
    <3>3. walk.distance = [e \in DOMAIN walk.distance |-> walk.distance[e]]
      BY <2>1, PartialIs
    <3> QED
      BY <3>1, <3>2, <3>3
  <2>8. walk.level = Shortest
    <3>1. ASSUME NEW x PROVE At(walk.level, x) <= At(Shortest, x)
      <4>1. CASE At(Shortest, x) = max + 1
        BY <2>3, <4>1
      <4>2. CASE At(Shortest, x) = 0
        BY <2>1, <4>2, ShortestFacts DEF Begun
      <4>3. CASE At(Shortest, x) # max + 1 /\ At(Shortest, x) # 0
        <5>1. At(Shortest, x) <= max /\ At(Shortest, x) \in Nat
          BY <2>2, <2>5, <4>3
        <5>2. PICK e \in Lineage : e[1] = x /\ At(Shortest, e[2]) = At(Shortest, x) - 1
          BY <2>1, <4>3, <5>1, ShortestFacts
        <5>3. At(Shortest, e[2]) < max /\ At(Shortest, e[2]) + 1 = At(Shortest, x)
          BY <2>2, <5>1, <5>2
        <5> QED
          BY <2>6, <5>2, <5>3
      <4> QED
        BY <4>1, <4>2, <4>3
    <3>2. \A x \in DOMAIN walk.level : walk.level[x] >= At(Shortest, x)
      BY <2>1 DEF Real
    <3>3. ASSUME NEW x PROVE x \in DOMAIN walk.level <=> x \in DOMAIN Shortest
      <4>1. At(walk.level, x) <= max => At(Shortest, x) <= max
        BY <2>2, <2>3, <2>5, <3>2
      <4>2. At(Shortest, x) <= max => At(walk.level, x) <= max
        BY <2>2, <2>3, <2>5, <3>1
      <4> QED
        BY <2>2, <2>3, <2>5, <4>1, <4>2
    <3>4. DOMAIN walk.level = DOMAIN Shortest
      BY <3>3
    <3>5. \A x \in DOMAIN Shortest : walk.level[x] = Shortest[x]
      BY <2>3, <2>5, <3>1, <3>2, <3>3
    <3>6. /\ walk.level = [x \in DOMAIN walk.level |-> walk.level[x]]
          /\ Shortest = [x \in DOMAIN Shortest |-> Shortest[x]]
      BY <2>1, ShortestFacts, PartialIs
    <3> QED
      BY <3>4, <3>5, <3>6
  <2> QED
    BY <2>7, <2>8 DEF Whole
<1> QED
  BY Invariance, <1>1, PTL
=============================================================================
