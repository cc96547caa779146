--------------------- MODULE CrossWorkspaceResolverProofs ---------------------
(***************************************************************************)
(* What CrossWorkspaceResolver reports, and how often it asks, proved for  *)
(* any tenant: any models made of any sources, cyclic or not, and any      *)
(* selection of them.                                                      *)
(***************************************************************************)
EXTENDS CrossWorkspaceResolver, SequenceTheorems, TLAPS

(***************************************************************************)
(* The inductive invariant.                                                *)
(***************************************************************************)
Leaves(s) == {x \in SourcesFrom(s) : EndsAt(x)}
Yields(s) == IF EndsAt(s) THEN {s} ELSE Leaves(s)
Quiet == Acyclic /\ warnings = {}
Calm == \A r \in Models : pc[r] \notin {"raising", "failed"}

Early == {"workspace", "model", "definition"}

(* Only the top frame of a stack is not in its loop, and its last is the   *)
(* root's; a definition is fetched for the top frame.                      *)
Shape ==
  \A r \in Models :
    /\ pc[r] \in {"ready", "asking", "queued", "fetching", "waiting"} => stack[r] # <<>>
    /\ pc[r] = "fetching" => Top(r).stage = "definition"
    /\ \A i \in 1..Len(stack[r]) :
         /\ i < Len(stack[r]) => stack[r][i].stage = "tables"
         /\ i = 1 => stack[r][i].model = r /\ stack[r][i].stage \notin Early

(* While nothing raises: every pending future is owed by one frame, which  *)
(* has not asked for the definition before it fetches it.                  *)
Once ==
  Calm =>
    /\ \A r, q \in Models : \A i \in 2..Len(stack[r]), j \in 2..Len(stack[q]) :
         stack[r][i].model = stack[q][j].model => r = q /\ i = j
    /\ \A r \in Models : \A i \in 2..Len(stack[r]) :
         /\ future[stack[r][i].model] = "pending"
         /\ stack[r][i].stage \in Early /\ pc[r] # "fetching" =>
              fetched[stack[r][i].model] = 0
    /\ \A m \in Models : fetched[m] <= 1 /\ (future[m] = "none" => fetched[m] = 0)

(* Each frame is upstream of those below it.                               *)
Path ==
  \A r, m \in Models : \A j \in 1..Len(stack[r]) : \A i \in 1..j :
    stack[r][i].model = m => stack[r][j].model \in ModelsFrom({m})

(* Every pair of a resolved model is real, each of its sources left one    *)
(* and, as long as no warning was given, no end of its hops is missing.    *)
Real(m, R) ==
  \A p \in R : p[1] \in Nat /\ p[2] \in Source
                 /\ p[2] \in SourcesFrom([model |-> m, table |-> p[1]])
Exact(m, R) ==
  \A t \in Nat, x \in Source : <<t, x>> \in R <=> x \in Leaves([model |-> m, table |-> t])
Covers(m, n, R) == \A j \in 1..n : \E x \in Source : <<world[m][j].table, x>> \in R
GoodAnswer(m, R) ==
  /\ R # NoAnswer
  /\ Real(m, R)
  /\ Covers(m, Len(world[m]), R)
  /\ Quiet => Exact(m, R)

(* So is what a frame has found at the sources it has passed.              *)
Passed(f) ==
  \A t \in Nat, x \in Source :
    <<t, x>> \in f.found <=>
      \E j \in 1..(f.next - 1) : /\ world[f.model][j].table = t
                                 /\ x \in Yields(world[f.model][j].source)
GoodFrame(f) ==
  /\ f.next <= Len(world[f.model]) + 1
  /\ Real(f.model, f.found)
  /\ Covers(f.model, f.next - 1, f.found)
  /\ Quiet => Passed(f)

Known ==
  /\ \A r \in Models : \A f \in Range(stack[r]) : GoodFrame(f)
  /\ \A m \in Models : future[m] = "done" =>
       \A R \in {answer[m]} : IF R = NoAnswer THEN warnings # {} ELSE GoodAnswer(m, R)
  /\ \A r \in Models : pc[r] = "done" => \A R \in {result[r]} : GoodAnswer(r, R)

IInv == TypeOK /\ Shape /\ Once /\ Path /\ Known

(***************************************************************************)
(* Lemmas about what leads where.                                          *)
(***************************************************************************)

(* The sources of the tables of a model.                                   *)
LEMMA WorldTyped ==
  ASSUME TypeOK, NEW m \in Models
  PROVE  /\ world[m] \in Seq(Item) /\ Len(world[m]) \in Nat
         /\ \A j \in 1..Len(world[m]) :
              /\ world[m][j] \in Item
              /\ world[m][j].table \in Nat /\ world[m][j].source \in Source
         /\ Items(m) \subseteq Item
<1>1. world[m] \in Seq(Item)
  BY WorldsAssumption DEF TypeOK
<1>2. \A j \in 1..Len(world[m]) : world[m][j] \in Item
  BY <1>1
<1> QED
  BY <1>1, <1>2 DEF Item, Items

(* What a table of a model is made of.                                     *)
LEMMA MadeOfItems ==
  ASSUME TypeOK, NEW m \in Models, NEW t, NEW x
  PROVE  x \in Made([model |-> m, table |-> t]) <=>
           \E j \in 1..Len(world[m]) : world[m][j].table = t /\ world[m][j].source = x
<1> DEFINE s == [model |-> m, table |-> t]
<1>1. s.model = m /\ s.table = t /\ Named(s)
  BY DEF Named
<1>2. Made(s) = {i.source : i \in {j \in Items(m) : j.table = t}}
  BY <1>1, Zenon DEF Made
<1> QED
  BY <1>2 DEF Items

(* Sources are made of sources.                                            *)
LEMMA MadeTyped ==
  ASSUME TypeOK
  PROVE  /\ Sources \subseteq Source
         /\ \A s \in Source : Made(s) \subseteq Sources /\ (EndsAt(s) => Made(s) = {})
<1>1. Sources \subseteq Source
  BY WorldTyped DEF Sources, Item
<1>2. ASSUME NEW s \in Source, Named(s) PROVE Made(s) \subseteq Sources
  <2>1. s.model \in Models
    BY <1>2 DEF Named
  <2> QED
    BY <1>2, <2>1 DEF Made, Sources
<1> QED
  BY <1>1, <1>2 DEF Made, EndsAt

(* SourcesFrom(s) holds what s is made of and what its members are made of. *)
LEMMA SourcesClosed ==
  ASSUME TypeOK, NEW s \in Source
  PROVE  /\ SourcesFrom(s) \subseteq Sources
         /\ Made(s) \subseteq SourcesFrom(s)
         /\ \A y \in SourcesFrom(s) : Made(y) \subseteq SourcesFrom(s)
<1>1. Made(s) \subseteq Sources
  BY MadeTyped
<1>2. \A y \in Sources : Made(y) \subseteq Sources
  BY MadeTyped
<1> QED
  BY <1>1, <1>2 DEF SourcesFrom

(* It is the least such set.                                               *)
LEMMA SourcesLeast ==
  ASSUME NEW s, NEW S \in SUBSET Sources, Made(s) \subseteq S,
         \A y \in S : Made(y) \subseteq S
  PROVE  SourcesFrom(s) \subseteq S
BY DEF SourcesFrom

(* What a source leads to, another leads to that leads to it.              *)
LEMMA SourcesTransitive ==
  ASSUME TypeOK, NEW s \in Source, NEW y \in SourcesFrom(s)
  PROVE  SourcesFrom(y) \subseteq SourcesFrom(s)
<1> DEFINE S == SourcesFrom(s)
<1>1. S \subseteq Sources /\ Made(y) \subseteq S /\ \A z \in S : Made(z) \subseteq S
  BY SourcesClosed
<1>2. SourcesFrom(y) \subseteq S
  <2> HIDE DEF S
  <2> QED
    BY <1>1, SourcesLeast
<1> QED
  BY <1>2

(* It leads to what it is made of, and to what that leads to.              *)
LEMMA SourcesUnfold ==
  ASSUME TypeOK, NEW s \in Source, NEW x \in SourcesFrom(s)
  PROVE  x \in Made(s) \/ \E y \in Made(s) : x \in SourcesFrom(y)
<1> DEFINE S == Made(s) \cup UNION {SourcesFrom(y) : y \in Made(s)}
<1>1. Made(s) \subseteq Sources /\ Sources \subseteq Source
  BY MadeTyped
<1>2. \A y \in Made(s) : SourcesFrom(y) \subseteq Sources
                         /\ Made(y) \subseteq SourcesFrom(y)
                         /\ \A z \in SourcesFrom(y) : Made(z) \subseteq SourcesFrom(y)
  BY <1>1, SourcesClosed
<1>3. S \in SUBSET Sources /\ Made(s) \subseteq S /\ \A y \in S : Made(y) \subseteq S
  BY <1>1, <1>2
<1>4. SourcesFrom(s) \subseteq S
  <2> HIDE DEF S
  <2> QED
    BY <1>3, SourcesLeast
<1> QED
  BY <1>4

(* Where hops end, they lead nowhere.                                      *)
LEMMA EndLeadsNowhere ==
  ASSUME TypeOK, NEW s \in Source, EndsAt(s)
  PROVE  SourcesFrom(s) = {}
<1>1. Made(s) = {}
  BY MadeTyped
<1>2. {} \in SUBSET Sources /\ \A y \in {} : Made(y) \subseteq {}
  OBVIOUS
<1> QED
  BY <1>1, <1>2, SourcesLeast

(* The hops of a table end where those of its sources do.                  *)
LEMMA TableYields ==
  ASSUME TypeOK, NEW m \in Models, NEW t \in Nat, NEW x
  PROVE  x \in Leaves([model |-> m, table |-> t]) <=>
           \E j \in 1..Len(world[m]) : /\ world[m][j].table = t
                                       /\ x \in Yields(world[m][j].source)
<1> DEFINE s == [model |-> m, table |-> t]
<1>1. s \in Source
  BY DEF Source
<1>2. ASSUME x \in Leaves(s)
      PROVE  \E j \in 1..Len(world[m]) : /\ world[m][j].table = t
                                         /\ x \in Yields(world[m][j].source)
  <2>1. x \in SourcesFrom(s) /\ EndsAt(x)
    BY <1>2 DEF Leaves
  <2>2. CASE x \in Made(s)
    BY <2>1, <2>2, MadeOfItems DEF Yields
  <2>3. CASE \E y \in Made(s) : x \in SourcesFrom(y)
    <3>1. PICK y \in Made(s) : x \in SourcesFrom(y)
      BY <2>3
    <3>2. PICK j \in 1..Len(world[m]) : world[m][j].table = t /\ world[m][j].source = y
      BY MadeOfItems
    <3>3. ~EndsAt(y)
      BY <3>1, <3>2, EndLeadsNowhere, WorldTyped
    <3> QED
      BY <2>1, <3>1, <3>2, <3>3 DEF Yields, Leaves
  <2> QED
    BY <1>1, <2>1, <2>2, <2>3, SourcesUnfold
<1>3. ASSUME NEW j \in 1..Len(world[m]), world[m][j].table = t,
             x \in Yields(world[m][j].source)
      PROVE  x \in Leaves(s)
  <2> DEFINE y == world[m][j].source
  <2>1. y \in Made(s)
    BY <1>3, MadeOfItems
  <2>2. y \in SourcesFrom(s)
    BY <1>1, <2>1, SourcesClosed
  <2>3. CASE ~EndsAt(y)
    <3>1. x \in SourcesFrom(y) /\ EndsAt(x)
      BY <1>3, <2>3 DEF Yields, Leaves
    <3> QED
      BY <1>1, <2>2, <3>1, SourcesTransitive DEF Leaves
  <2>4. CASE EndsAt(y)
    BY <1>3, <2>2, <2>4 DEF Yields, Leaves
  <2> QED
    BY <2>3, <2>4
<1> QED
  BY <1>2, <1>3

(* A model is upstream of itself, what its tables hop to is, and what is    *)
(* upstream of that.                                                       *)
LEMMA ModelsClosed ==
  ASSUME NEW M \in SUBSET Models
  PROVE  /\ ModelsFrom(M) \subseteq Models /\ M \subseteq ModelsFrom(M)
         /\ \A m \in ModelsFrom(M) : Upstream(m) \subseteq ModelsFrom(M)
BY DEF ModelsFrom, Upstream

(* A model upstream of another is that one, or upstream of what it hops to. *)
LEMMA ModelsUnfold ==
  ASSUME NEW m \in Models, NEW n \in ModelsFrom({m})
  PROVE  n = m \/ n \in ModelsFrom(Upstream(m))
<1> DEFINE N == {m} \cup ModelsFrom(Upstream(m))
<1>1. Upstream(m) \in SUBSET Models
  BY DEF Upstream
<1>2. N \in SUBSET Models /\ {m} \subseteq N /\ \A k \in N : Upstream(k) \subseteq N
  BY <1>1, ModelsClosed
<1>3. n \in N
  <2> HIDE DEF N
  <2> QED
    BY <1>2 DEF ModelsFrom
<1> QED
  BY <1>3

(* A hop back to a model that the hop is upstream of closes a cycle.       *)
LEMMA BackHopIsCycle ==
  ASSUME NEW m \in Models, NEW n \in ModelsFrom({m}), m \in Upstream(n)
  PROVE  ~Acyclic
<1>1. Upstream(m) \in SUBSET Models
  BY DEF Upstream
<1>2. m \in ModelsFrom(Upstream(m))
  BY <1>1, ModelsUnfold, ModelsClosed
<1> QED
  BY <1>2 DEF Acyclic

(***************************************************************************)
(* Lemmas about stacks.                                                    *)
(***************************************************************************)

(* The top of a stack is its last frame.                                   *)
LEMMA TopIsLast ==
  ASSUME NEW s \in Seq(Frames), s # <<>>
  PROVE  /\ Len(s) \in Nat \ {0} /\ Last(s) = s[Len(s)]
         /\ Last(s) \in Frames /\ Last(s) \in Range(s)
BY DEF Last, Range

(* Front leaves the last frame out.                                        *)
LEMMA FrontOf ==
  ASSUME NEW s \in Seq(Frames), s # <<>>
  PROVE  /\ Front(s) \in Seq(Frames) /\ Len(Front(s)) = Len(s) - 1
         /\ \A i \in 1..(Len(s) - 1) : Front(s)[i] = s[i]
<1>1. Len(s) \in Nat \ {0} /\ \A i \in 1..(Len(s) - 1) : s[i] \in Frames
  OBVIOUS
<1>2. ASSUME NEW n \in Nat, \A i \in 1..n : s[i] \in Frames
      PROVE  /\ SubSeq(s, 1, n) \in Seq(Frames) /\ Len(SubSeq(s, 1, n)) = n
             /\ \A i \in 1..n : SubSeq(s, 1, n)[i] = s[i]
  BY <1>2, SubSeqProperties
<1>3. Front(s) = SubSeq(s, 1, Len(s) - 1) /\ Len(s) - 1 \in Nat
  BY <1>1 DEF Front
<1> DEFINE n == Len(s) - 1
<1>4. /\ SubSeq(s, 1, n) \in Seq(Frames) /\ Len(SubSeq(s, 1, n)) = n
      /\ \A i \in 1..n : SubSeq(s, 1, n)[i] = s[i]
  <2>1. n \in Nat /\ \A i \in 1..n : s[i] \in Frames
    BY <1>1, <1>3
  <2> HIDE DEF n
  <2> QED
    BY <1>2, <2>1
<1> QED
  BY <1>3, <1>4, Zenon

(* SetTop replaces it.                                                     *)
LEMMA TopReplaced ==
  ASSUME NEW s \in Seq(Frames), s # <<>>, NEW f \in Frames,
         NEW t, t = Append(Front(s), f)
  PROVE  /\ t \in Seq(Frames) /\ Len(t) = Len(s)
         /\ \A i \in 1..Len(s) : t[i] = IF i = Len(s) THEN f ELSE s[i]
         /\ Range(t) \subseteq Range(s) \cup {f}
<1>1. /\ Front(s) \in Seq(Frames) /\ Len(Front(s)) = Len(s) - 1
      /\ \A i \in 1..(Len(s) - 1) : Front(s)[i] = s[i]
  BY FrontOf
<1>2. /\ t \in Seq(Frames) /\ Len(t) = Len(s)
      /\ \A i \in 1..Len(s) : t[i] = IF i = Len(s) THEN f ELSE s[i]
  BY <1>1
<1> QED
  BY <1>2 DEF Range

(* Returning removes it.                                                   *)
LEMMA TopPopped ==
  ASSUME NEW s \in Seq(Frames), s # <<>>, NEW t, t = Front(s)
  PROVE  /\ t \in Seq(Frames) /\ Len(t) = Len(s) - 1
         /\ \A i \in 1..Len(t) : t[i] = s[i]
         /\ Range(t) \subseteq Range(s)
<1>1. /\ t \in Seq(Frames) /\ Len(t) = Len(s) - 1
      /\ \A i \in 1..Len(t) : t[i] = s[i]
  BY FrontOf
<1> QED
  BY <1>1 DEF Range

(* A call is put above it.                                                 *)
LEMMA FramePushed ==
  ASSUME NEW s \in Seq(Frames), NEW f \in Frames, NEW t, t = Append(s, f)
  PROVE  /\ t \in Seq(Frames) /\ Len(t) = Len(s) + 1 /\ t[Len(s) + 1] = f
         /\ \A i \in 1..Len(s) : t[i] = s[i]
         /\ Range(t) \subseteq Range(s) \cup {f}
<1>1. /\ t \in Seq(Frames) /\ Len(t) = Len(s) + 1 /\ t[Len(s) + 1] = f
      /\ \A i \in 1..Len(s) : t[i] = s[i]
  OBVIOUS
<1> QED
  BY <1>1 DEF Range

(***************************************************************************)
(* Lemmas about the parts of the invariant.                                *)
(***************************************************************************)

(* The models stay as they are, and a warning is never taken back.         *)
LEMMA SameWorld ==
  ASSUME world' = world, warnings \subseteq warnings'
  PROVE  /\ \A M : ModelsFrom(M)' = ModelsFrom(M)
         /\ Quiet' => Quiet
         /\ \A f : GoodFrame(f) => GoodFrame(f)'
         /\ \A m, R : GoodAnswer(m, R) => GoodAnswer(m, R)'
         /\ \A f : /\ Real(f.model, f.found)' <=> Real(f.model, f.found)
                   /\ Passed(f)' <=> Passed(f)
         /\ \A m, R : /\ Real(m, R)' <=> Real(m, R)
                      /\ Exact(m, R)' <=> Exact(m, R)
         /\ \A m, n, R : Covers(m, n, R)' <=> Covers(m, n, R)
<1>1. \A s : SourcesFrom(s)' = SourcesFrom(s)
  BY DEF SourcesFrom, Sources, Made, Named, Items
<1>2. \A M : ModelsFrom(M)' = ModelsFrom(M)
  BY DEF ModelsFrom, Upstream, Items
<1>3. \A s : Leaves(s)' = Leaves(s) /\ Yields(s)' = Yields(s)
  <2>1. \A s : EndsAt(s)' <=> EndsAt(s)
    BY DEF EndsAt, Tables, Made, Named, Items
  <2> QED
    BY <1>1, <2>1 DEF Leaves, Yields
<1>4. Acyclic' <=> Acyclic
  <2>1. \A m : Upstream(m)' = Upstream(m)
    BY DEF Upstream, Items
  <2>2. \A m : ModelsFrom(Upstream(m))' = ModelsFrom(Upstream(m))
    BY DEF ModelsFrom, Upstream, Items
  <2> QED
    BY <2>2 DEF Acyclic
<1>5. Quiet' => Quiet
  BY <1>4 DEF Quiet
<1>6. \A m, R : (Real(m, R)' <=> Real(m, R)) /\ (Exact(m, R)' <=> Exact(m, R))
  BY <1>1, <1>3 DEF Real, Exact
<1>7. \A f : Passed(f)' <=> Passed(f)
  BY <1>3 DEF Passed
<1>8. \A f : Real(f.model, f.found)' <=> Real(f.model, f.found)
  BY <1>1 DEF Real
<1>9. \A m, n, R : Covers(m, n, R)' <=> Covers(m, n, R)
  BY DEF Covers
<1>10. \A f : GoodFrame(f) => GoodFrame(f)'
  BY <1>5, <1>7, <1>8, <1>9 DEF GoodFrame
<1>11. \A m, R : GoodAnswer(m, R) => GoodAnswer(m, R)'
  BY <1>5, <1>6, <1>9 DEF GoodAnswer
<1> QED
  BY <1>2, <1>5, <1>6, <1>7, <1>8, <1>9, <1>10, <1>11

(* Known is kept by a step whose new frames and answers are good.          *)
LEMMA KnownStep ==
  ASSUME Known, world' = world, warnings \subseteq warnings',
         \A r \in Models : \A f \in Range(stack'[r]) :
           f \in Range(stack[r]) \/ GoodFrame(f)',
         \A m \in Models : future'[m] = "done" =>
           \/ future[m] = "done" /\ answer'[m] = answer[m]
           \/ \A R \in {answer'[m]} :
                IF R = NoAnswer THEN warnings' # {} ELSE GoodAnswer(m, R)',
         \A r \in Models : pc'[r] = "done" =>
           \/ pc[r] = "done" /\ result'[r] = result[r]
           \/ \A R \in {result'[r]} : GoodAnswer(r, R)'
  PROVE  Known'
<1>1. /\ \A f : GoodFrame(f) => GoodFrame(f)'
      /\ \A m, R : GoodAnswer(m, R) => GoodAnswer(m, R)'
  BY SameWorld
<1>2. \A r \in Models : \A f \in Range(stack'[r]) : GoodFrame(f)'
  BY <1>1 DEF Known
<1>3. \A m \in Models : future'[m] = "done" =>
        \A R \in {answer'[m]} : IF R = NoAnswer THEN warnings' # {} ELSE GoodAnswer(m, R)'
  BY <1>1 DEF Known
<1>4. \A r \in Models : pc'[r] = "done" => \A R \in {result'[r]} : GoodAnswer(r, R)'
  BY <1>1 DEF Known
<1> QED
  BY <1>2, <1>3, <1>4 DEF Known

(* Path is kept where a stack keeps its models or loses some.              *)
LEMMA PathStep ==
  ASSUME TypeOK, Path, world' = world,
         \A r \in Models : /\ Len(stack'[r]) \in 0..Len(stack[r])
                           /\ \A i \in 1..Len(stack'[r]) :
                                stack'[r][i].model = stack[r][i].model
  PROVE  Path'
<1>1. \A M : ModelsFrom(M)' = ModelsFrom(M)
  BY DEF ModelsFrom, Upstream, Items
<1>2. \A r \in Models : Len(stack[r]) \in Nat
  BY DEF TypeOK
<1> QED
  BY <1>1, <1>2 DEF Path

(* IInv, conjunct by conjunct, kept by a step that suspends or wakes tasks. *)
LEMMA SuspendStep ==
  ASSUME IInv, running' \in Models \cup {Nobody},
         listed' \in [Workspaces \cup {Tenant} -> {"unknown", "asked", "known", "empty"}],
         pc' \in [Models -> {"absent", "ready", "asking", "queued", "fetching",
                             "waiting", "raising", "failed", "done"}],
         \A q \in Models :
           \/ pc'[q] = pc[q]
           \/ /\ pc[q] \in {"ready", "asking", "queued"}
              /\ pc'[q] \in {"ready", "asking", "queued", "waiting"},
         UNCHANGED <<world, stack, future, answer, result, warnings, fetched>>
  PROVE  IInv'
<1> USE DEF IInv
<1>1. TypeOK'
  BY DEF TypeOK
<1>2. Shape'
  BY DEF Shape, Top
<1>3. Once'
  BY DEF Once, Calm
<1>4. Path'
  <2>1. \A r \in Models : Len(stack[r]) \in Nat
    BY DEF TypeOK
  <2> QED
    BY <2>1, PathStep
<1>5. Known'
  BY KnownStep
<1> QED
  BY <1>1, <1>2, <1>3, <1>4, <1>5

(* A task goes on in its top frame.                                        *)
LEMMA TopStep ==
  ASSUME IInv, NEW r \in Models, pc[r] \in {"ready", "fetching"},
         NEW f \in Frames, SetTop(r, f), f.model = Top(r).model,
         Depth(r) = 0 => f.stage \notin Early,
         f.stage \in Early => Top(r).stage \in Early /\ pc[r] # "fetching",
         GoodFrame(f)', pc' = [pc EXCEPT ![r] = "ready"],
         running' \in Models \cup {Nobody}, warnings \subseteq warnings',
         UNCHANGED <<world, listed, future, answer, result, fetched>>
  PROVE  IInv'
<1> USE DEF IInv
<1>1. stack[r] \in Seq(Frames) /\ stack[r] # <<>> /\ Top(r) = Last(stack[r])
  BY DEF TypeOK, Shape, Top
<1>2. stack' = [stack EXCEPT ![r] = Append(Front(stack[r]), f)]
  BY DEF SetTop
<1>3. /\ stack'[r] \in Seq(Frames) /\ Len(stack'[r]) = Len(stack[r])
      /\ \A i \in 1..Len(stack[r]) : stack'[r][i] = IF i = Len(stack[r]) THEN f
                                                    ELSE stack[r][i]
      /\ Range(stack'[r]) \subseteq Range(stack[r]) \cup {f}
  <2>1. stack'[r] = Append(Front(stack[r]), f)
    BY <1>2 DEF TypeOK
  <2> QED
    BY <1>1, <2>1, TopReplaced
<1>4. \A q \in Models \ {r} : stack'[q] = stack[q]
  BY <1>2 DEF TypeOK
<1>5. Len(stack[r]) \in Nat \ {0} /\ Top(r) = stack[r][Len(stack[r])]
  BY <1>1, TopIsLast
<1>6. TypeOK'
  <2>1. stack' \in [Models -> Seq(Frames)]
    BY <1>2, <1>3, <1>4 DEF TypeOK
  <2> QED
    BY <2>1 DEF TypeOK
<1>7. \A q \in Models : /\ Len(stack'[q]) = Len(stack[q])
                        /\ \A i \in 1..Len(stack[q]) :
                             stack'[q][i].model = stack[q][i].model
  BY <1>3, <1>4, <1>5
<1>8. Shape'
  <2> SUFFICES ASSUME NEW q \in Models
               PROVE  /\ pc'[q] \in {"ready", "asking", "queued", "fetching", "waiting"}
                           => stack'[q] # <<>>
                      /\ pc'[q] = "fetching" => Last(stack'[q]).stage = "definition"
                      /\ \A i \in 1..Len(stack'[q]) :
                           /\ i < Len(stack'[q]) => stack'[q][i].stage = "tables"
                           /\ i = 1 => stack'[q][i].model = q
                                         /\ stack'[q][i].stage \notin Early
    BY DEF Shape, Top
  <2>1. CASE q # r
    BY <1>4, <2>1 DEF Shape, Top, TypeOK
  <2>2. CASE q = r
    <3>1. pc'[q] = "ready" /\ stack'[q] # <<>>
      BY <1>3, <1>5, <2>2 DEF TypeOK
    <3>2. ASSUME NEW i \in 1..Len(stack'[q])
          PROVE  /\ i < Len(stack'[q]) => stack'[q][i].stage = "tables"
                 /\ i = 1 => stack'[q][i].model = q /\ stack'[q][i].stage \notin Early
      <4>1. CASE i # Len(stack[r])
        BY <1>3, <1>5, <2>2, <4>1 DEF Shape
      <4>2. CASE i = Len(stack[r])
        BY <1>3, <1>5, <2>2, <4>2 DEF Shape, Depth
      <4> QED
        BY <4>1, <4>2
    <3> QED
      BY <3>1, <3>2
  <2> QED
    BY <2>1, <2>2
<1>9. Once'
  <2> SUFFICES ASSUME Calm' PROVE Once'
    BY DEF Once
  <2>1. Calm
    BY DEF Calm, TypeOK
  <2>2. \A q, p \in Models : \A i \in 2..Len(stack'[q]), j \in 2..Len(stack'[p]) :
          stack'[q][i].model = stack'[p][j].model => q = p /\ i = j
    BY <1>7, <2>1 DEF Once, TypeOK
  <2>3. ASSUME NEW q \in Models, NEW i \in 2..Len(stack'[q])
        PROVE  /\ future[stack'[q][i].model] = "pending"
               /\ stack'[q][i].stage \in Early /\ pc'[q] # "fetching" =>
                    fetched[stack'[q][i].model] = 0
    <3>1. /\ future[stack[q][i].model] = "pending"
          /\ stack[q][i].stage \in Early /\ pc[q] # "fetching" =>
               fetched[stack[q][i].model] = 0
          /\ i \in 1..Len(stack[q])
      BY <1>7, <2>1 DEF Once, TypeOK
    <3>2. CASE q # r
      BY <1>4, <3>1, <3>2 DEF TypeOK
    <3>3. CASE q = r
      BY <1>3, <1>5, <3>1, <3>3 DEF Shape
    <3> QED
      BY <3>2, <3>3
  <2> QED
    BY <2>1, <2>2, <2>3 DEF Once
<1>10. Path'
  <2>1. \A q \in Models : Len(stack[q]) \in Nat
    BY DEF TypeOK
  <2> QED
    BY <1>7, <2>1, PathStep
<1>11. Known'
  BY <1>3, <1>4, KnownStep DEF TypeOK
<1> QED
  BY <1>6, <1>8, <1>9, <1>10, <1>11

(* The frame at the top, and the source it has come to.                    *)
LEMMA AtTop ==
  ASSUME IInv, NEW r \in Models, pc[r] \in {"ready", "fetching"}
  PROVE  /\ stack[r] \in Seq(Frames) /\ stack[r] # <<>>
         /\ Len(stack[r]) \in Nat \ {0}
         /\ Top(r) \in Frames /\ Top(r) = stack[r][Len(stack[r])]
         /\ Top(r) \in Range(stack[r])
         /\ GoodFrame(Top(r)) /\ Top(r).model \in Models /\ Top(r).next \in Nat \ {0}
         /\ Top(r).found \subseteq Nat \X Source
         /\ Depth(r) = Len(stack[r]) - 1
         /\ Depth(r) = 0 => Top(r).model = r /\ Top(r).stage \notin Early
<1>1. stack[r] \in Seq(Frames) /\ stack[r] # <<>>
  BY DEF IInv, TypeOK, Shape
<1>2. /\ Len(stack[r]) \in Nat \ {0} /\ Top(r) = stack[r][Len(stack[r])]
      /\ Top(r) \in Frames /\ Top(r) \in Range(stack[r])
  BY <1>1, TopIsLast DEF Top
<1>3. GoodFrame(Top(r))
  BY <1>2 DEF IInv, Known
<1>4. /\ Depth(r) = Len(stack[r]) - 1
      /\ Depth(r) = 0 => Top(r).model = r /\ Top(r).stage \notin Early
  BY <1>2 DEF Depth, IInv, Shape
<1> QED
  BY <1>1, <1>2, <1>3, <1>4 DEF Frames

(* The source a task looks at is one of the model it resolves.             *)
LEMMA AtSource ==
  ASSUME IInv, NEW r \in Models, AtItem(r)
  PROVE  /\ Top(r).next \in 1..Len(world[Top(r).model])
         /\ TopItem(r) = world[Top(r).model][Top(r).next]
         /\ TopItem(r) \in Item /\ TopItem(r) \in Items(Top(r).model)
         /\ TopItem(r).source \in Source /\ TopItem(r).table \in Nat
         /\ Named(TopItem(r).source) =>
              /\ TopItem(r).source.model \in Models
              /\ TopItem(r).source.model \in Upstream(Top(r).model)
<1>1. pc[r] = "ready" /\ Top(r).next <= Len(world[Top(r).model])
  BY DEF AtItem, Runs
<1>2. Top(r).model \in Models /\ Top(r).next \in Nat \ {0}
  BY <1>1, AtTop
<1>3. Top(r).next \in 1..Len(world[Top(r).model])
  BY <1>1, <1>2, WorldTyped DEF IInv
<1>4. /\ TopItem(r) \in Item /\ TopItem(r) \in Items(Top(r).model)
      /\ TopItem(r).source \in Source /\ TopItem(r).table \in Nat
  BY <1>2, <1>3, WorldTyped DEF IInv, TopItem, Items
<1>5. ASSUME Named(TopItem(r).source)
      PROVE  TopItem(r).source.model \in Models
  BY <1>5 DEF Named
<1> QED
  BY <1>3, <1>4, <1>5 DEF TopItem, Upstream

(* A task loads an upstream model nobody has asked for.                    *)
LEMMA LoadStep ==
  ASSUME IInv, NEW r \in Models, Load(r)
  PROVE  IInv'
<1> PICK m : m = TopItem(r).source.model
  OBVIOUS
<1> PICK f : f = Frame(m, "workspace")
  OBVIOUS
<1>1. /\ AtItem(r) /\ Named(TopItem(r).source) /\ future[m] = "none"
      /\ future' = [future EXCEPT ![m] = "pending"]
      /\ stack' = [stack EXCEPT ![r] = Append(@, f)]
      /\ running' = r
      /\ UNCHANGED <<world, hidden, listed, answer, result, warnings, fetched, pc>>
  BY DEF Load, IsUpstream, GoesOn
<1>2. pc[r] = "ready" /\ Top(r).stage = "tables"
  BY <1>1 DEF AtItem, Runs
<1>3. /\ m \in Models /\ m \in Upstream(Top(r).model)
      /\ stack[r] \in Seq(Frames) /\ Len(stack[r]) \in Nat \ {0}
      /\ Top(r) = stack[r][Len(stack[r])] /\ Top(r).model \in Models
  BY <1>1, <1>2, AtSource, AtTop
<1>4. f \in Frames /\ f.model = m /\ f.stage = "workspace" /\ f.next = 1 /\ f.found = {}
  BY <1>3 DEF Frame, Frames
<1> USE DEF IInv
<1>5. /\ stack'[r] \in Seq(Frames) /\ Len(stack'[r]) = Len(stack[r]) + 1
      /\ stack'[r][Len(stack[r]) + 1] = f
      /\ \A i \in 1..Len(stack[r]) : stack'[r][i] = stack[r][i]
      /\ Range(stack'[r]) \subseteq Range(stack[r]) \cup {f}
  <2>1. stack'[r] = Append(stack[r], f)
    BY <1>1 DEF TypeOK
  <2>2. PICK t : t = stack'[r]
    OBVIOUS
  <2>3. stack[r] \in Seq(Frames) /\ f \in Frames /\ t = Append(stack[r], f)
    BY <1>3, <1>4, <2>1, <2>2
  <2>4. /\ t \in Seq(Frames) /\ Len(t) = Len(stack[r]) + 1
        /\ t[Len(stack[r]) + 1] = f
    BY <2>3, FramePushed
  <2>5. \A i \in 1..Len(stack[r]) : t[i] = stack[r][i]
    BY <2>3, FramePushed
  <2>6. Range(t) \subseteq Range(stack[r]) \cup {f}
    BY <2>3, FramePushed
  <2> QED
    BY <2>2, <2>4, <2>5, <2>6
<1>6. \A q \in Models \ {r} : stack'[q] = stack[q]
  BY <1>1 DEF TypeOK
<1>7. TypeOK'
  <2>1. stack' \in [Models -> Seq(Frames)]
    BY <1>1, <1>5, <1>6 DEF TypeOK
  <2> QED
    BY <1>1, <2>1 DEF TypeOK
<1>8. Shape'
  <2> SUFFICES ASSUME NEW q \in Models
               PROVE  /\ pc[q] \in {"ready", "asking", "queued", "fetching", "waiting"}
                           => stack'[q] # <<>>
                      /\ pc[q] = "fetching" => Last(stack'[q]).stage = "definition"
                      /\ \A i \in 1..Len(stack'[q]) :
                           /\ i < Len(stack'[q]) => stack'[q][i].stage = "tables"
                           /\ i = 1 => stack'[q][i].model = q
                                         /\ stack'[q][i].stage \notin Early
    BY <1>1 DEF Shape, Top
  <2>1. CASE q # r
    BY <1>6, <2>1 DEF Shape, Top
  <2>2. CASE q = r
    <3>1. stack'[q] # <<>>
      BY <1>3, <1>5, <2>2
    <3>2. ASSUME NEW i \in 1..Len(stack'[q])
          PROVE  /\ i < Len(stack'[q]) => stack'[q][i].stage = "tables"
                 /\ i = 1 => stack'[q][i].model = q /\ stack'[q][i].stage \notin Early
      <4>1. CASE i <= Len(stack[r])
        BY <1>2, <1>3, <1>5, <2>2, <4>1 DEF Shape
      <4>2. CASE i = Len(stack[r]) + 1
        BY <1>3, <1>5, <2>2, <4>2
      <4> QED
        BY <1>3, <1>5, <2>2, <4>1, <4>2
    <3> QED
      BY <1>2, <2>2, <3>1, <3>2
  <2> QED
    BY <2>1, <2>2
<1>9. Once'
  <2> SUFFICES ASSUME Calm' PROVE Once'
    BY DEF Once
  <2>1. Calm /\ fetched[m] = 0
    BY <1>1, <1>3 DEF Calm, Once
  <2>2. \A q \in Models : \A i \in 2..Len(stack[q]) : stack[q][i].model # m
    BY <1>1, <2>1 DEF Once
  <2>3. ASSUME NEW q \in Models, NEW i \in 2..Len(stack'[q])
        PROVE  \/ q = r /\ i = Len(stack[r]) + 1 /\ stack'[q][i] = f
               \/ i \in 2..Len(stack[q]) /\ stack'[q][i] = stack[q][i]
    BY <1>3, <1>5, <1>6
  <2>4. \A q, p \in Models : \A i \in 2..Len(stack'[q]), j \in 2..Len(stack'[p]) :
          stack'[q][i].model = stack'[p][j].model => q = p /\ i = j
    <3> SUFFICES ASSUME NEW q \in Models, NEW p \in Models,
                        NEW i \in 2..Len(stack'[q]), NEW j \in 2..Len(stack'[p]),
                        stack'[q][i].model = stack'[p][j].model
                 PROVE  q = p /\ i = j
      OBVIOUS
    <3>1. CASE stack'[q][i] = f
      BY <1>4, <2>2, <2>3, <3>1
    <3>2. CASE stack'[p][j] = f
      BY <1>4, <2>2, <2>3, <3>2
    <3>3. CASE stack'[q][i] # f /\ stack'[p][j] # f
      <4>1. /\ i \in 2..Len(stack[q]) /\ stack'[q][i] = stack[q][i]
            /\ j \in 2..Len(stack[p]) /\ stack'[p][j] = stack[p][j]
        BY <2>3, <3>3
      <4> QED
        BY <2>1, <4>1 DEF Once
    <3> QED
      BY <3>1, <3>2, <3>3
  <2>5. ASSUME NEW q \in Models, NEW i \in 2..Len(stack'[q])
        PROVE  /\ future'[stack'[q][i].model] = "pending"
               /\ stack'[q][i].stage \in Early /\ pc[q] # "fetching" =>
                    fetched[stack'[q][i].model] = 0
    <3>1. CASE stack'[q][i] = f
      BY <1>1, <1>3, <1>4, <2>1, <3>1 DEF TypeOK
    <3>2. CASE i \in 2..Len(stack[q]) /\ stack'[q][i] = stack[q][i]
      <4>1. /\ future[stack[q][i].model] = "pending"
            /\ stack[q][i].stage \in Early /\ pc[q] # "fetching" =>
                 fetched[stack[q][i].model] = 0
        BY <2>1, <3>2 DEF Once
      <4>2. future'[stack[q][i].model] = future[stack[q][i].model]
        <5>1. stack[q][i].model \in Models /\ stack[q][i].model # m
          <6>1. stack[q][i] \in Frames
            BY <3>2 DEF TypeOK
          <6> QED
            BY <2>2, <3>2, <6>1 DEF Frames
        <5> QED
          BY <1>1, <5>1 DEF TypeOK
      <4> QED
        BY <3>2, <4>1, <4>2
    <3> QED
      BY <2>3, <3>1, <3>2
  <2>6. \A n \in Models : future'[n] = "none" => future[n] = "none"
    BY <1>1, <1>3 DEF TypeOK
  <2> QED
    BY <1>1, <2>1, <2>4, <2>5, <2>6 DEF Once
<1>10. Path'
  <2>1. \A M : ModelsFrom(M)' = ModelsFrom(M)
    BY <1>1 DEF ModelsFrom, Upstream, Items
  <2> SUFFICES ASSUME NEW q \in Models, NEW n \in Models,
                      NEW j \in 1..Len(stack'[q]), NEW i \in 1..j,
                      stack'[q][i].model = n
               PROVE  stack'[q][j].model \in ModelsFrom({n})
    BY <2>1 DEF Path
  <2>2. CASE q # r
    BY <1>6, <2>2 DEF Path
  <2>3. CASE q = r /\ j <= Len(stack[r])
    <3>1. /\ j \in 1..Len(stack[r]) /\ stack[r][i].model = n
          /\ stack'[q][j] = stack[r][j]
      BY <1>3, <1>5, <2>3
    <3> QED
      BY <2>3, <3>1 DEF Path
  <2>4. CASE q = r /\ j = Len(stack[r]) + 1 /\ i = j
    BY <1>3, <1>4, <1>5, <2>4, ModelsClosed
  <2>5. CASE q = r /\ j = Len(stack[r]) + 1 /\ i < j
    <3>1. /\ i \in 1..Len(stack[r]) /\ stack[r][i].model = n
          /\ Len(stack[r]) \in 1..Len(stack[r])
      BY <1>3, <1>5, <2>5
    <3>3. Top(r).model \in ModelsFrom({n})
      BY <1>3, <3>1 DEF Path
    <3>2. m \in ModelsFrom({n})
      BY <1>3, <3>3, ModelsClosed
    <3> QED
      BY <1>4, <1>5, <2>5, <3>2
  <2>6. q = r => \/ j <= Len(stack[r])
                 \/ j = Len(stack[r]) + 1 /\ i = j
                 \/ j = Len(stack[r]) + 1 /\ i < j
    BY <1>3, <1>5
  <2> QED
    BY <2>2, <2>3, <2>4, <2>5, <2>6, Zenon
<1>11. Known'
  <2>1. GoodFrame(f)
    BY <1>3, <1>4, WorldTyped DEF GoodFrame, Real, Covers, Passed
  <2>2. GoodFrame(f)'
    BY <1>1, <2>1, SameWorld
  <2>3. \A n \in Models : future'[n] = "done" => future[n] = "done"
    BY <1>1, <1>3 DEF TypeOK
  <2> QED
    BY <1>1, <1>5, <1>6, <2>2, <2>3, KnownStep
<1> QED
  BY <1>7, <1>8, <1>9, <1>10, <1>11

(* While nothing raises a pending model is owed by one frame.              *)
LEMMA OneFrame ==
  ASSUME Once, Calm, NEW r \in Models, NEW q \in Models,
         NEW i \in 2..Len(stack[r]), NEW j \in 2..Len(stack[q]),
         stack[r][i].model = stack[q][j].model
  PROVE  r = q /\ i = j
BY DEF Once

(* The root's walk ends.                                                   *)
LEMMA RootEnds ==
  ASSUME IInv, NEW r \in Models, pc[r] \in {"ready", "fetching"}, Depth(r) = 0,
         NEW a \in Resolved, Ends(r, a), GoodAnswer(r, a)',
         warnings \subseteq warnings', UNCHANGED <<world, listed, fetched>>
  PROVE  IInv'
<1> USE DEF IInv
<1>1. /\ result' = [result EXCEPT ![r] = a] /\ stack' = [stack EXCEPT ![r] = <<>>]
      /\ running' = Nobody /\ pc' = [pc EXCEPT ![r] = "done"]
      /\ UNCHANGED <<future, answer>>
  BY DEF Ends, Suspends
<1>2. /\ stack' \in [Models -> Seq(Frames)] /\ stack'[r] = <<>> /\ Len(stack'[r]) = 0
      /\ \A q \in Models \ {r} : stack'[q] = stack[q]
      /\ Range(stack'[r]) = {}
  BY <1>1 DEF TypeOK, Range
<1>3. TypeOK'
  BY <1>1, <1>2 DEF TypeOK
<1>4. Shape'
  BY <1>1, <1>2 DEF Shape, Top, TypeOK
<1>5. Once'
  BY <1>1, <1>2 DEF Once, Calm, TypeOK
<1>6. Path'
  <2>1. \A q \in Models : Len(stack[q]) \in Nat
    BY DEF TypeOK
  <2> QED
    BY <1>2, <2>1, PathStep
<1>7. Known'
  <2>1. \A q \in Models : pc'[q] = "done" =>
          \/ pc[q] = "done" /\ result'[q] = result[q]
          \/ \A R \in {result'[q]} : GoodAnswer(q, R)'
    BY <1>1 DEF TypeOK
  <2> QED
    BY <1>1, <1>2, <2>1, KnownStep
<1> QED
  BY <1>3, <1>4, <1>5, <1>6, <1>7

(* The answer for an upstream model is there, for whoever waits for it.    *)
LEMMA UpstreamEnds ==
  ASSUME IInv, NEW r \in Models, pc[r] \in {"ready", "fetching"}, Depth(r) # 0,
         NEW a \in Resolved, Ends(r, a), NEW m \in Models, m = Top(r).model,
         IF a = NoAnswer THEN warnings' # {} ELSE GoodAnswer(m, a)',
         warnings \subseteq warnings', UNCHANGED <<world, listed, fetched>>
  PROVE  IInv'
<1> USE DEF IInv
<1>1. /\ future' = [future EXCEPT ![m] = "done"] /\ answer' = [answer EXCEPT ![m] = a]
      /\ stack' = [stack EXCEPT ![r] = Front(@)] /\ running' = r
      /\ pc' = [q \in Models |-> IF q = r \/ q \in WaitersFor({m}) THEN "ready" ELSE pc[q]]
      /\ UNCHANGED result
  BY DEF Ends
<1>2. \A q \in Models : \/ pc'[q] = pc[q]
                        \/ pc'[q] = "ready" /\ (q = r \/ pc[q] = "waiting")
  BY <1>1 DEF WaitersFor
<1>3. /\ stack[r] \in Seq(Frames) /\ stack[r] # <<>> /\ Len(stack[r]) \in Nat /\ Len(stack[r]) >= 2
      /\ stack[r][Len(stack[r])].model = m
  BY AtTop
<1>4. /\ stack'[r] \in Seq(Frames) /\ Len(stack'[r]) = Len(stack[r]) - 1
      /\ \A i \in 1..Len(stack'[r]) : stack'[r][i] = stack[r][i]
      /\ Range(stack'[r]) \subseteq Range(stack[r])
  <2>1. stack'[r] = Front(stack[r])
    BY <1>1 DEF TypeOK
  <2> QED
    BY <1>3, <2>1, TopPopped
<1>5. \A q \in Models \ {r} : stack'[q] = stack[q]
  BY <1>1 DEF TypeOK
<1>6. TypeOK'
  <2>1. stack' \in [Models -> Seq(Frames)]
    BY <1>1, <1>4, <1>5 DEF TypeOK
  <2>2. pc' \in [Models -> {"absent", "ready", "asking", "queued", "fetching",
                            "waiting", "raising", "failed", "done"}]
    BY <1>1 DEF TypeOK
  <2> QED
    BY <1>1, <2>1, <2>2 DEF TypeOK
<1>7. Shape'
  <2> SUFFICES ASSUME NEW q \in Models
               PROVE  /\ pc'[q] \in {"ready", "asking", "queued", "fetching", "waiting"}
                           => stack'[q] # <<>>
                      /\ pc'[q] = "fetching" => Last(stack'[q]).stage = "definition"
                      /\ \A i \in 1..Len(stack'[q]) :
                           /\ i < Len(stack'[q]) => stack'[q][i].stage = "tables"
                           /\ i = 1 => stack'[q][i].model = q
                                         /\ stack'[q][i].stage \notin Early
    BY DEF Shape, Top
  <2>1. CASE q # r
    BY <1>2, <1>5, <2>1 DEF Shape, Top
  <2>2. CASE q = r
    <3>1. pc'[q] = "ready" /\ stack'[q] # <<>>
      <4>1. stack'[r] # <<>>
        BY <1>3, <1>4
      <4> QED
        BY <1>1, <2>2, <4>1
    <3>2. ASSUME NEW i \in 1..Len(stack'[q])
          PROVE  /\ i < Len(stack'[q]) => stack'[q][i].stage = "tables"
                 /\ i = 1 => stack'[q][i].model = q /\ stack'[q][i].stage \notin Early
      <4>1. i \in 1..Len(stack[r]) /\ i < Len(stack[r]) /\ stack'[q][i] = stack[r][i]
        BY <1>3, <1>4, <2>2
      <4> QED
        BY <2>2, <4>1 DEF Shape
    <3> QED
      BY <3>1, <3>2
  <2> QED
    BY <2>1, <2>2
<1>8. Once'
  <2> SUFFICES ASSUME Calm' PROVE Once'
    BY DEF Once
  <2>1. Calm
    BY <1>2 DEF Calm
  <2>2. ASSUME NEW q \in Models, NEW i \in 2..Len(stack'[q])
        PROVE  /\ i \in 2..Len(stack[q]) /\ stack'[q][i] = stack[q][i]
               /\ stack[q][i].model # m
    <3>1. i \in 2..Len(stack[q]) /\ stack'[q][i] = stack[q][i]
      BY <1>3, <1>4, <1>5
    <3>2. ~(q = r /\ i = Len(stack[r])) /\ Len(stack[r]) \in 2..Len(stack[r])
      BY <1>3, <1>4
    <3>3. stack[q][i].model # m
      BY <1>3, <2>1, <3>1, <3>2, OneFrame
    <3> QED
      BY <3>1, <3>3
  <2>3. ASSUME NEW q \in Models, NEW i \in 2..Len(stack'[q])
        PROVE  /\ future'[stack'[q][i].model] = "pending"
               /\ stack'[q][i].stage \in Early /\ pc'[q] # "fetching" =>
                    fetched[stack'[q][i].model] = 0
    <3>1. /\ future[stack[q][i].model] = "pending"
          /\ stack[q][i].stage \in Early /\ pc[q] # "fetching" =>
               fetched[stack[q][i].model] = 0
      BY <2>1, <2>2 DEF Once
    <3>2. stack[q][i].model \in Models
      <4>1. stack[q][i] \in Frames
        BY <2>2 DEF TypeOK
      <4> QED
        BY <4>1 DEF Frames
    <3>3. future'[stack[q][i].model] = future[stack[q][i].model]
      BY <1>1, <2>2, <3>2 DEF TypeOK
    <3>4. q = r => stack[q][i].stage = "tables"
      BY <1>3, <1>4, <2>2 DEF Shape
    <3> QED
      BY <1>2, <2>2, <3>1, <3>3, <3>4 DEF Early
  <2>4. \A q, p \in Models : \A i \in 2..Len(stack'[q]), j \in 2..Len(stack'[p]) :
          stack'[q][i].model = stack'[p][j].model => q = p /\ i = j
    <3> SUFFICES ASSUME NEW q \in Models, NEW p \in Models,
                        NEW i \in 2..Len(stack'[q]), NEW j \in 2..Len(stack'[p]),
                        stack'[q][i].model = stack'[p][j].model
                 PROVE  q = p /\ i = j
      OBVIOUS
    <3>1. /\ i \in 2..Len(stack[q]) /\ j \in 2..Len(stack[p])
          /\ stack[q][i].model = stack[p][j].model
      BY <2>2
    <3> QED
      BY <2>1, <3>1, OneFrame
  <2>5. \A n \in Models : future'[n] = "none" => future[n] = "none"
    BY <1>1 DEF TypeOK
  <2> QED
    BY <2>1, <2>3, <2>4, <2>5 DEF Once
<1>9. Path'
  <2>1. \A q \in Models : Len(stack[q]) \in Nat
    BY DEF TypeOK
  <2> QED
    BY <1>3, <1>4, <1>5, <2>1, PathStep
<1>10. Known'
  <2>1. \A n \in Models : future'[n] = "done" =>
          \/ future[n] = "done" /\ answer'[n] = answer[n]
          \/ \A R \in {answer'[n]} :
               IF R = NoAnswer THEN warnings' # {} ELSE GoodAnswer(n, R)'
    BY <1>1 DEF TypeOK
  <2>2. \A q \in Models : \A f \in Range(stack'[q]) : f \in Range(stack[q])
    BY <1>4, <1>5
  <2>3. \A q \in Models : pc'[q] = "done" => pc[q] = "done" /\ result'[q] = result[q]
    BY <1>1, <1>2
  <2> QED
    BY <2>1, <2>2, <2>3, KnownStep
<1> QED
  BY <1>6, <1>7, <1>8, <1>9, <1>10

(* The walk of a model ends, here or in the task of its root.              *)
LEMMA EndsStep ==
  ASSUME IInv, NEW r \in Models, pc[r] \in {"ready", "fetching"},
         NEW a \in Resolved, Ends(r, a), NEW m \in Models, m = Top(r).model,
         IF a = NoAnswer THEN Top(r).stage \in Early /\ warnings' # {}
                         ELSE GoodAnswer(m, a)',
         warnings \subseteq warnings', UNCHANGED <<world, listed, fetched>>
  PROVE  IInv'
<1>1. CASE Depth(r) = 0
  <2>1. m = r /\ a # NoAnswer
    BY <1>1, AtTop
  <2> QED
    BY <1>1, <2>1, RootEnds
<1>2. CASE Depth(r) # 0
  BY <1>2, UpstreamEnds
<1> QED
  BY <1>1, <1>2

(* The definition of a model is asked for.                                 *)
LEMMA FetchStep ==
  ASSUME IInv, NEW r \in Models, Fetch(r)
  PROVE  IInv'
<1> USE DEF IInv
<1> PICK m : m = Top(r).model
  OBVIOUS
<1>1. /\ pc[r] = "ready" /\ Top(r).stage = "definition"
      /\ fetched' = [fetched EXCEPT ![m] = @ + 1]
      /\ running' = Nobody /\ pc' = [pc EXCEPT ![r] = "fetching"]
      /\ UNCHANGED <<world, stack, shared, result, warnings>>
  BY DEF Fetch, Runs, Suspends
<1>2. /\ m \in Models /\ Len(stack[r]) \in Nat /\ Len(stack[r]) >= 2
      /\ stack[r][Len(stack[r])].model = m /\ Top(r) = stack[r][Len(stack[r])]
  BY <1>1, AtTop DEF Early
<1>3. TypeOK'
  BY <1>1, <1>2 DEF TypeOK, shared
<1>4. Shape'
  BY <1>1 DEF Shape, Top, TypeOK
<1>5. Once'
  <2> SUFFICES ASSUME Calm' PROVE Once'
    BY DEF Once
  <2>1. Calm
    BY <1>1 DEF Calm, TypeOK
  <2>2. fetched[m] = 0 /\ fetched'[m] = 1 /\ future[m] = "pending"
    <3>1. Len(stack[r]) \in 2..Len(stack[r])
      BY <1>2
    <3>2. fetched[m] = 0 /\ future[m] = "pending"
      BY <1>1, <1>2, <2>1, <3>1 DEF Once, Early
    <3> QED
      BY <1>1, <1>2, <3>2 DEF TypeOK
  <2>3. \A n \in Models \ {m} : fetched'[n] = fetched[n]
    BY <1>1 DEF TypeOK
  <2>4. ASSUME NEW q \in Models, NEW i \in 2..Len(stack[q]),
               stack[q][i].stage \in Early, pc'[q] # "fetching"
        PROVE  fetched'[stack[q][i].model] = 0
    <3>1. q # r /\ pc[q] # "fetching"
      BY <1>1, <2>4 DEF TypeOK
    <3>2. stack[q][i].model # m
      <4>1. Len(stack[r]) \in 2..Len(stack[r])
        BY <1>2
      <4> QED
        BY <1>2, <2>1, <3>1, <4>1, OneFrame
    <3>3. fetched[stack[q][i].model] = 0
      BY <2>1, <2>4, <3>1 DEF Once
    <3>4. stack[q][i].model \in Models
      <4>1. stack[q][i] \in Frames
        BY DEF TypeOK
      <4> QED
        BY <4>1 DEF Frames
    <3> QED
      BY <2>3, <3>2, <3>3, <3>4
  <2> QED
    BY <1>1, <2>1, <2>2, <2>3, <2>4 DEF Once, shared
<1>6. Path'
  <2>1. \A q \in Models : Len(stack[q]) \in Nat
    BY DEF TypeOK
  <2> QED
    BY <1>1, <2>1, PathStep
<1>7. Known'
  BY <1>1, KnownStep DEF TypeOK, shared
<1> QED
  BY <1>3, <1>4, <1>5, <1>6, <1>7

(* An exception unwinds a task: from then on nothing is calm.              *)
LEMMA UnwindStep ==
  ASSUME IInv, NEW r \in Models, NEW freed, \A q \in freed : pc[q] = "queued",
         Unwind(r, freed),
         listed' \in [Workspaces \cup {Tenant} -> {"unknown", "asked", "known", "empty"}]
  PROVE  IInv'
<1> USE DEF IInv
<1>1. /\ future' = [m \in Models |-> IF m \in Chain(r) THEN "none" ELSE future[m]]
      /\ stack' = [stack EXCEPT ![r] = <<>>]
      /\ pc' = [q \in Models |-> IF q = r THEN "failed"
                                 ELSE IF q \in WaitersFor(Chain(r)) THEN "raising"
                                 ELSE IF q \in freed THEN "ready"
                                 ELSE pc[q]]
      /\ running' = Nobody
      /\ UNCHANGED <<world, hidden, answer, result, warnings, fetched>>
  BY DEF Unwind
<1>2. /\ stack' \in [Models -> Seq(Frames)] /\ stack'[r] = <<>> /\ Len(stack'[r]) = 0
      /\ \A q \in Models \ {r} : stack'[q] = stack[q]
      /\ Range(stack'[r]) = {}
  BY <1>1 DEF TypeOK, Range
<1>3. TypeOK'
  BY <1>1, <1>2 DEF TypeOK
<1>4. Shape'
  BY <1>1, <1>2 DEF Shape, Top, TypeOK
<1>5. ~Calm'
  BY <1>1 DEF Calm
<1>6. Path'
  <2>1. \A q \in Models : Len(stack[q]) \in Nat
    BY DEF TypeOK
  <2> QED
    BY <1>1, <1>2, <2>1, PathStep
<1>7. Known'
  BY <1>1, <1>2, KnownStep
<1> QED
  BY <1>3, <1>4, <1>5, <1>6, <1>7 DEF Once

(* A resolved model is a set of pairs of a table and a source, or missing. *)
LEMMA ResolvedCases ==
  ASSUME NEW R
  PROVE  R \in Resolved <=> R \subseteq Nat \X Source \/ R = NoAnswer
<1> DEFINE X == Nat \X Source
<1>1. Resolved = {NoAnswer} \cup SUBSET X
  BY DEF Resolved
<1>2. R \in {NoAnswer} \cup SUBSET X <=> R \subseteq X \/ R = NoAnswer
  <2> HIDE DEF X
  <2> QED
    OBVIOUS
<1> QED
  BY <1>1, <1>2

(* What recording sources S for the item at hand makes of the top frame.   *)
LEMMA RecordGood ==
  ASSUME IInv, NEW r \in Models, AtItem(r),
         NEW x0 \in Source, x0 = TopItem(r).source,
         NEW S \in SUBSET Source, S # {},
         \A x \in S : x = x0 \/ x \in SourcesFrom(x0),
         NEW f, f = [Top(r) EXCEPT
                       !.next = @ + 1,
                       !.found = @ \cup {<<TopItem(r).table, s>> : s \in S}]
  PROVE  /\ f \in Frames /\ f.model = Top(r).model /\ f.stage = "tables"
         /\ f.next <= Len(world[f.model]) + 1
         /\ Real(f.model, f.found)
         /\ Covers(f.model, f.next - 1, f.found)
         /\ Quiet /\ S = Yields(x0) => Passed(f)
<1> PICK m, n, F, t0 : /\ m = Top(r).model /\ n = Top(r).next /\ F = Top(r).found
                       /\ t0 = TopItem(r).table
  OBVIOUS
<1>1. pc[r] = "ready" /\ Top(r).stage = "tables"
  BY DEF AtItem, Runs
<1>2. /\ m \in Models /\ n \in 1..Len(world[m]) /\ n \in Nat /\ t0 \in Nat
      /\ F \subseteq Nat \X Source /\ Top(r) \in Frames /\ GoodFrame(Top(r))
      /\ world[m][n].table = t0 /\ world[m][n].source = x0
  BY <1>1, AtTop, AtSource
<1>3. /\ Len(world[m]) \in Nat
      /\ \A j \in 1..Len(world[m]) : world[m][j].source \in Source
  BY <1>2, WorldTyped DEF IInv
<1>4. /\ f.model = m /\ f.stage = "tables" /\ f.next = n + 1
      /\ f.found = F \cup {<<t0, s>> : s \in S}
  BY <1>1, <1>2 DEF Frames
<1>5. f \in Frames
  <2>1. n + 1 \in Nat \ {0} /\ F \cup {<<t0, s>> : s \in S} \in SUBSET (Nat \X Source)
    BY <1>2
  <2> QED
    BY <1>2, <2>1 DEF Frames
<1>6. Real(m, f.found)
  <2>1. Real(m, F)
    BY <1>2 DEF GoodFrame
  <2>2. ASSUME NEW x \in S
        PROVE  x \in SourcesFrom([model |-> m, table |-> t0])
    <3>1. [model |-> m, table |-> t0] \in Source
      BY <1>2 DEF Source
    <3>2. x0 \in Made([model |-> m, table |-> t0])
      BY <1>2, MadeOfItems DEF IInv
    <3>3. x0 \in SourcesFrom([model |-> m, table |-> t0])
      BY <3>1, <3>2, SourcesClosed DEF IInv
    <3> QED
      BY <3>1, <3>3, SourcesTransitive DEF IInv
  <2> QED
    BY <1>2, <1>4, <2>1, <2>2 DEF Real
<1>7. Covers(m, n, f.found)
  <2> SUFFICES ASSUME NEW j \in 1..n
               PROVE  \E x \in Source : <<world[m][j].table, x>> \in f.found
    BY DEF Covers
  <2>1. CASE j = n
    BY <1>2, <1>4, <2>1
  <2>2. CASE j # n
    <3>1. j \in 1..(n - 1)
      BY <1>2, <2>2
    <3> QED
      BY <1>2, <1>4, <3>1 DEF GoodFrame, Covers
  <2> QED
    BY <2>1, <2>2
<1>8. f.next - 1 = n
  BY <1>2, <1>4
<1>9. ASSUME Quiet, S = Yields(x0) PROVE Passed(f)
  <2> SUFFICES ASSUME NEW t \in Nat, NEW x \in Source
               PROVE  <<t, x>> \in f.found <=>
                        \E j \in 1..(f.next - 1) :
                          /\ world[f.model][j].table = t
                          /\ x \in Yields(world[f.model][j].source)
    BY DEF Passed
  <2>0. f.model = m /\ f.next - 1 = n
    BY <1>2, <1>4
  <2>1. <<t, x>> \in F <=>
          \E j \in 1..(n - 1) : /\ world[m][j].table = t
                                /\ x \in Yields(world[m][j].source)
    BY <1>2, <1>9 DEF GoodFrame, Passed
  <2>2. <<t, x>> \in f.found <=> <<t, x>> \in F \/ (t = t0 /\ x \in S)
    BY <1>4
  <2>3. ASSUME <<t, x>> \in f.found
        PROVE  \E j \in 1..n : /\ world[m][j].table = t
                               /\ x \in Yields(world[m][j].source)
    <3>1. CASE <<t, x>> \in F
      <4>1. PICK j \in 1..(n - 1) : /\ world[m][j].table = t
                                    /\ x \in Yields(world[m][j].source)
        BY <2>1, <3>1
      <4>2. j \in 1..n
        BY <1>2
      <4> QED
        BY <4>1, <4>2
    <3>2. CASE t = t0 /\ x \in S
      <4>1. n \in 1..n
        BY <1>2
      <4> QED
        BY <1>2, <1>9, <3>2, <4>1
    <3> QED
      BY <2>2, <2>3, <3>1, <3>2
  <2>4. ASSUME NEW j \in 1..n, world[m][j].table = t, x \in Yields(world[m][j].source)
        PROVE  <<t, x>> \in f.found
    <3>1. CASE j = n
      <4>1. t = t0 /\ x \in S
        BY <1>2, <1>9, <2>4, <3>1
      <4> QED
        BY <2>2, <4>1
    <3>2. CASE j # n
      <4>1. j \in 1..(n - 1)
        BY <1>2, <3>2
      <4> QED
        BY <2>1, <2>2, <2>4, <4>1
    <3> QED
      BY <3>1, <3>2
  <2> QED
    BY <2>0, <2>3, <2>4
<1> QED
  BY <1>2, <1>3, <1>4, <1>5, <1>6, <1>9, <1>7, <1>8

(* A task records sources for its item.                                    *)
LEMMA RecordStep ==
  ASSUME IInv, NEW r \in Models, AtItem(r), NEW S \in SUBSET Source, S # {},
         Record(r, S),
         \A x \in S : x = TopItem(r).source \/ x \in SourcesFrom(TopItem(r).source),
         Quiet' => S = Yields(TopItem(r).source), warnings \subseteq warnings'
  PROVE  IInv'
<1> PICK f : f = [Top(r) EXCEPT
                    !.next = @ + 1,
                    !.found = @ \cup {<<TopItem(r).table, s>> : s \in S}]
  OBVIOUS
<1>1. /\ SetTop(r, f) /\ running' = r /\ UNCHANGED pc
      /\ UNCHANGED <<world, listed, future, answer, result, fetched>>
  BY DEF Record, GoesOn, shared
<1>2. pc[r] = "ready" /\ pc' = [pc EXCEPT ![r] = "ready"]
  BY <1>1 DEF AtItem, Runs, IInv, TypeOK
<1> PICK x0 : x0 = TopItem(r).source
  OBVIOUS
<1>3. x0 \in Source /\ \A x \in S : x = x0 \/ x \in SourcesFrom(x0)
  BY AtSource
<1>4. /\ f \in Frames /\ f.model = Top(r).model /\ f.stage = "tables"
      /\ f.next <= Len(world[f.model]) + 1 /\ Real(f.model, f.found)
      /\ Covers(f.model, f.next - 1, f.found)
      /\ Quiet /\ S = Yields(x0) => Passed(f)
  BY <1>3, RecordGood
<1>5. GoodFrame(f)'
  <2>1. (f.next <= Len(world[f.model]) + 1)'
    BY <1>1, <1>4
  <2>2. Real(f.model, f.found)'
    BY <1>1, <1>4, SameWorld
  <2>3. ASSUME Quiet' PROVE Passed(f)'
    <3>1. Quiet /\ S = Yields(x0)
      BY <1>1, <2>3, SameWorld
    <3> QED
      BY <1>1, <1>4, <3>1, SameWorld
  <2>4. Covers(f.model, f.next - 1, f.found)'
    BY <1>1, <1>4 DEF Covers
  <2> QED
    BY <2>1, <2>2, <2>3, <2>4 DEF GoodFrame
<1> QED
  BY <1>1, <1>2, <1>4, <1>5, TopStep DEF Early

(* What the tables of a model are found to be, before any hop.             *)
LEMMA AsIsTyped ==
  ASSUME TypeOK, NEW m \in Models
  PROVE  /\ AsIs(m) \in Resolved /\ AsIs(m) # NoAnswer
         /\ Real(m, AsIs(m)) /\ Covers(m, Len(world[m]), AsIs(m))
         /\ ~IsComposite(m) => Exact(m, AsIs(m))
<1>1. Items(m) \subseteq Item
  BY WorldTyped
<1>2. AsIs(m) \subseteq Nat \X Source
  BY <1>1 DEF AsIs, Item
<1>3. AsIs(m) # NoAnswer
  <2>1. <<-1, Database>> \notin Nat \X Source
    OBVIOUS
  <2> QED
    BY <1>2, <2>1 DEF NoAnswer
<1>4. \A t, x : <<t, x>> \in AsIs(m) <=>
        \E j \in 1..Len(world[m]) : world[m][j].table = t /\ world[m][j].source = x
  BY DEF AsIs, Items
<1>5. Real(m, AsIs(m))
  <2> SUFFICES ASSUME NEW t \in Nat, NEW x \in Source, <<t, x>> \in AsIs(m)
               PROVE  x \in SourcesFrom([model |-> m, table |-> t])
    BY <1>2 DEF Real
  <2>1. [model |-> m, table |-> t] \in Source
    BY DEF Source
  <2>2. x \in Made([model |-> m, table |-> t])
    BY <1>4, MadeOfItems
  <2> QED
    BY <2>1, <2>2, SourcesClosed
<1>6. ASSUME ~IsComposite(m) PROVE Exact(m, AsIs(m))
  <2>1. \A j \in 1..Len(world[m]) : ~IsHop(world[m][j].source)
    BY <1>6 DEF IsComposite, Items
  <2>2. \A j \in 1..Len(world[m]) : Yields(world[m][j].source) = {world[m][j].source}
    BY <2>1, NamesAssumption DEF Yields, EndsAt, Named, IsHop
  <2>3. ASSUME NEW t \in Nat, NEW x \in Source
        PROVE  <<t, x>> \in AsIs(m) <=> x \in Leaves([model |-> m, table |-> t])
    <3>1. x \in Leaves([model |-> m, table |-> t]) <=>
            \E j \in 1..Len(world[m]) : /\ world[m][j].table = t
                                        /\ x \in Yields(world[m][j].source)
      BY TableYields
    <3>2. \A j \in 1..Len(world[m]) :
            x \in Yields(world[m][j].source) <=> x = world[m][j].source
      BY <2>2
    <3>3. <<t, x>> \in AsIs(m) <=>
            \E j \in 1..Len(world[m]) : world[m][j].table = t /\ world[m][j].source = x
      BY <1>4
    <3> QED
      BY <3>1, <3>2, <3>3
  <2> QED
    BY <2>3 DEF Exact
<1>7. Covers(m, Len(world[m]), AsIs(m))
  BY <1>4, WorldTyped DEF Covers
<1> QED
  BY <1>2, <1>3, <1>5, <1>6, <1>7 DEF Resolved

(***************************************************************************)
(* The steps.                                                              *)
(***************************************************************************)

(* A task only changes the stage of its top frame.                         *)
LEMMA StageStep ==
  ASSUME IInv, NEW r \in Models, pc[r] \in {"ready", "fetching"},
         NEW st \in {"entering", "tables", "workspace", "model", "definition"},
         SetTop(r, [Top(r) EXCEPT !.stage = st]),
         st \in Early => Top(r).stage \in Early /\ pc[r] # "fetching",
         pc' = [pc EXCEPT ![r] = "ready"], running' \in Models \cup {Nobody},
         UNCHANGED <<world, listed, future, answer, result, warnings, fetched>>
  PROVE  IInv'
<1> PICK f : f = [Top(r) EXCEPT !.stage = st]
  OBVIOUS
<1>1. Top(r) \in Frames /\ GoodFrame(Top(r)) /\ (Depth(r) = 0 => Top(r).stage \notin Early)
  BY AtTop
<1>2. /\ f \in Frames /\ f.model = Top(r).model /\ f.stage = st
      /\ f.next = Top(r).next /\ f.found = Top(r).found
  BY <1>1 DEF Frames
<1>3. GoodFrame(f)
  BY <1>1, <1>2 DEF GoodFrame, Passed
<1>4. GoodFrame(f)'
  BY <1>3, SameWorld
<1>5. SetTop(r, f)
  OBVIOUS
<1> QED
  BY <1>1, <1>2, <1>4, <1>5, TopStep

(* A model without hops is its own answer, as is one that is too deep.     *)
LEMMA EnterEndsStep ==
  ASSUME IInv, NEW r \in Models, EnterWithoutHops(r) \/ EnterTooDeep(r)
  PROVE  IInv'
<1> PICK m : m = Top(r).model
  OBVIOUS
<1> PICK a : a = AsIs(m)
  OBVIOUS
<1>1. /\ pc[r] = "ready" /\ Ends(r, a) /\ UNCHANGED <<world, listed, fetched>>
      /\ warnings \subseteq warnings'
      /\ ~IsComposite(m) \/ warnings' # {}
  BY DEF EnterWithoutHops, EnterTooDeep, Runs, Warn
<1>2. m \in Models
  BY <1>1, AtTop
<1>3. /\ a \in Resolved /\ a # NoAnswer /\ Real(m, a) /\ Covers(m, Len(world[m]), a)
      /\ ~IsComposite(m) => Exact(m, a)
  BY <1>2, AsIsTyped DEF IInv
<1>4. GoodAnswer(m, a)'
  <2>1. Real(m, a)'
    BY <1>1, <1>3, SameWorld
  <2>2. ASSUME Quiet' PROVE Exact(m, a)'
    <3>1. warnings' = {}
      BY <2>2 DEF Quiet
    <3> QED
      BY <1>1, <1>3, <3>1, SameWorld
  <2>3. (a # NoAnswer)'
    BY <1>3 DEF NoAnswer
  <2>4. Covers(m, Len(world[m]), a)'
    BY <1>1, <1>3 DEF Covers
  <2> QED
    BY <2>1, <2>2, <2>3, <2>4 DEF GoodAnswer
<1> QED
  BY <1>1, <1>2, <1>3, <1>4, EndsStep

(* The loop over the tables of a model is over.                            *)
LEMMA FinishStep ==
  ASSUME IInv, NEW r \in Models, Finish(r)
  PROVE  IInv'
<1> PICK m, a : m = Top(r).model /\ a = Top(r).found
  OBVIOUS
<1>1. /\ pc[r] = "ready" /\ Ends(r, a) /\ UNCHANGED <<world, listed, warnings, fetched>>
      /\ Top(r).next > Len(world[m])
  BY DEF Finish, Runs
<1>2. m \in Models /\ GoodFrame(Top(r)) /\ a \subseteq Nat \X Source /\ Top(r).next \in Nat
  BY <1>1, AtTop
<1>3. a \in Resolved /\ a # NoAnswer
  <2>1. <<-1, Database>> \notin Nat \X Source
    OBVIOUS
  <2> QED
    BY <1>2, <2>1 DEF Resolved, NoAnswer
<1>4. Top(r).next - 1 = Len(world[m])
  BY <1>1, <1>2, WorldTyped DEF IInv, GoodFrame
<1>5. ASSUME Quiet PROVE Exact(m, a)
  <2> SUFFICES ASSUME NEW t \in Nat, NEW x \in Source
               PROVE  <<t, x>> \in a <=> x \in Leaves([model |-> m, table |-> t])
    BY DEF Exact
  <2>1. <<t, x>> \in a <=>
          \E j \in 1..Len(world[m]) : /\ world[m][j].table = t
                                      /\ x \in Yields(world[m][j].source)
    BY <1>2, <1>4, <1>5 DEF GoodFrame, Passed
  <2>2. x \in Leaves([model |-> m, table |-> t]) <=>
          \E j \in 1..Len(world[m]) : /\ world[m][j].table = t
                                      /\ x \in Yields(world[m][j].source)
    BY <1>2, TableYields DEF IInv
  <2> QED
    BY <2>1, <2>2
<1>6. GoodAnswer(m, a)
  BY <1>2, <1>3, <1>4, <1>5 DEF GoodAnswer, GoodFrame
<1>7. GoodAnswer(m, a)'
  BY <1>1, <1>6, SameWorld
<1> QED
  BY <1>1, <1>2, <1>3, <1>7, EndsStep

(* A model that cannot be loaded has no answer.                            *)
LEMMA FailStep ==
  ASSUME IInv, NEW r \in Models, LocateFails(r) \/ DefinitionUnavailable(r)
  PROVE  IInv'
<1> PICK m, a : m = Top(r).model /\ a = NoAnswer
  OBVIOUS
<1>1. /\ pc[r] \in {"ready", "fetching"} /\ Ends(r, a)
      /\ UNCHANGED <<world, listed, fetched>>
      /\ warnings \subseteq warnings' /\ warnings' # {}
  BY DEF LocateFails, NotListed, DefinitionUnavailable, Runs, Warn
<1>2. Top(r).stage \in Early
  BY DEF LocateFails, NotListed, Locating, DefinitionUnavailable, IInv, Shape, Early
<1>3. m \in Models
  BY <1>1, AtTop
<1>4. a \in Resolved
  BY ResolvedCases
<1> QED
  BY <1>1, <1>2, <1>3, <1>4, EndsStep

(* A table of an upstream model with an answer and without sources in it   *)
(* is made of nothing.                                                     *)
LEMMA SourcelessEnds ==
  ASSUME IInv, NEW r \in Models, KeepSourceless(r)
  PROVE  EndsAt(TopItem(r).source)
<1> PICK x0 : x0 = TopItem(r).source
  OBVIOUS
<1> PICK R : R = answer[x0.model]
  OBVIOUS
<1>1. /\ AtItem(r) /\ Named(x0) /\ future[x0.model] = "done" /\ R # NoAnswer
      /\ x0.table \in Tables(x0.model) /\ {p[2] : p \in {q \in R : q[1] = x0.table}} = {}
  BY DEF KeepSourceless, Matches, SourcesFor, IsUpstream
<1>2. x0 \in Source /\ x0.model \in Models /\ x0.table \in Nat
  BY <1>1, AtSource DEF Source
<1>3. GoodAnswer(x0.model, R)
  BY <1>1, <1>2 DEF IInv, Known
<1>4. \A j \in 1..Len(world[x0.model]) : world[x0.model][j].table # x0.table
  <2> SUFFICES ASSUME NEW j \in 1..Len(world[x0.model]), world[x0.model][j].table = x0.table
               PROVE  FALSE
    OBVIOUS
  <2>1. PICK x \in Source : <<x0.table, x>> \in R
    BY <1>3 DEF GoodAnswer, Covers
  <2>2. <<x0.table, x>>[2] \in {p[2] : p \in {q \in R : q[1] = x0.table}}
    BY <2>1
  <2> QED
    BY <1>1, <2>2
<1>5. Made(x0) = {}
  BY <1>1, <1>4 DEF Made, Items
<1> QED
  BY <1>1, <1>5 DEF EndsAt

(* A source that is kept is one where hops end, or somebody is told, or    *)
(* the models form a cycle.                                                *)
LEMMA KeepStep ==
  ASSUME IInv, NEW r \in Models,
         \/ KeepItem(r) \/ KeepUnnamed(r) \/ KeepUnresolved(r)
         \/ KeepUnmatched(r) \/ KeepSourceless(r)
  PROVE  IInv'
<1> PICK x0 : x0 = TopItem(r).source
  OBVIOUS
<1>1. /\ AtItem(r) /\ Record(r, {x0}) /\ world' = world /\ warnings \subseteq warnings'
  BY DEF KeepItem, KeepUnnamed, KeepUnresolved, KeepUnmatched, KeepSourceless,
         Matches, IsUpstream, Keep, Record, Warn
<1>2. /\ x0 \in Source
      /\ Named(x0) => x0.model \in Models /\ x0.model \in Upstream(Top(r).model)
  BY <1>1, AtSource
<1>3. ASSUME Quiet' PROVE {x0} = Yields(x0)
  <2>1. Quiet /\ warnings' = {}
    BY <1>1, <1>3, SameWorld DEF Quiet
  <2>2. CASE ~Named(x0)
    BY <2>2 DEF Yields, EndsAt
  <2>3. CASE KeepItem(r) /\ Named(x0)
    <3>1. PICK i \in 2..Len(stack[r]) : stack[r][i].model = x0.model
      BY <2>3, NamesAssumption DEF KeepItem, Chain, IsHop, Named
    <3>2. /\ Len(stack[r]) \in Nat \ {0} /\ Top(r) = stack[r][Len(stack[r])]
          /\ Top(r).model \in Models
      BY <1>1, AtTop DEF AtItem, Runs
    <3>3. Len(stack[r]) \in 1..Len(stack[r]) /\ i \in 1..Len(stack[r])
      BY <3>1, <3>2
    <3>4. Top(r).model \in ModelsFrom({x0.model})
      BY <1>2, <2>3, <3>1, <3>2, <3>3 DEF IInv, Path
    <3>5. ~Acyclic
      BY <1>2, <2>3, <3>2, <3>4, BackHopIsCycle
    <3> QED
      BY <2>1, <3>5 DEF Quiet
  <2>4. CASE KeepUnresolved(r) /\ Named(x0)
    <3>1. /\ future[x0.model] = "done" /\ answer[x0.model] = NoAnswer
          /\ warnings' = warnings
      BY <2>4 DEF KeepUnresolved, IsUpstream, Keep
    <3>2. warnings # {}
      BY <1>2, <2>4, <3>1 DEF IInv, Known
    <3> QED
      BY <2>1, <3>1, <3>2
  <2>5. CASE KeepUnmatched(r)
    BY <2>1, <2>5 DEF KeepUnmatched, Warn
  <2>6. CASE KeepSourceless(r)
    BY <2>6, SourcelessEnds DEF Yields
  <2>7. CASE KeepUnnamed(r)
    BY <2>7, NamesAssumption DEF KeepUnnamed, Yields, EndsAt, Named
  <2> QED
    BY <2>2, <2>3, <2>4, <2>5, <2>6, <2>7
<1>4. {x0} \in SUBSET Source
  BY <1>2
<1> QED
  BY <1>1, <1>3, <1>4, RecordStep

(* A hop is replaced by what the answer for its model says of its table.   *)
LEMMA ReplaceStep ==
  ASSUME IInv, NEW r \in Models, Replace(r)
  PROVE  IInv'
<1> PICK x0 : x0 = TopItem(r).source
  OBVIOUS
<1> PICK R : R = answer[x0.model]
  OBVIOUS
<1> PICK S : S = {p[2] : p \in {q \in R : q[1] = x0.table}}
  OBVIOUS
<1>1. /\ AtItem(r) /\ Record(r, S) /\ UNCHANGED <<world, warnings>>
      /\ Named(x0) /\ future[x0.model] = "done" /\ R # NoAnswer /\ S # {}
  BY DEF Replace, Matches, SourcesFor, IsUpstream, Record
<1>2. x0 \in Source /\ x0.model \in Models /\ x0.table \in Nat
  BY <1>1, AtSource DEF Source
<1>3. x0 = [model |-> x0.model, table |-> x0.table]
  BY <1>2 DEF Source
<1>4. R \subseteq Nat \X Source /\ GoodAnswer(x0.model, R)
  <2>1. R \in Resolved
    BY <1>2 DEF IInv, TypeOK
  <2>2. R \subseteq Nat \X Source
    BY <1>1, <2>1, ResolvedCases
  <2>3. GoodAnswer(x0.model, R)
    BY <1>1, <1>2 DEF IInv, Known
  <2> QED
    BY <2>2, <2>3
<1>5. S \in SUBSET Source /\ \A x \in S : x \in SourcesFrom(x0)
  BY <1>3, <1>4 DEF GoodAnswer, Real
<1>6. ASSUME Quiet PROVE S = Leaves(x0)
  <2>1. \A x \in Source : x \in S <=> <<x0.table, x>> \in R
    BY <1>2, <1>4
  <2>2. \A x \in Source : <<x0.table, x>> \in R <=> x \in Leaves(x0)
    BY <1>2, <1>3, <1>4, <1>6 DEF GoodAnswer, Exact
  <2>3. Leaves(x0) \subseteq Source
    BY <1>2, SourcesClosed, MadeTyped DEF Leaves, IInv
  <2> QED
    BY <1>5, <2>1, <2>2, <2>3
<1>7. ASSUME Quiet' PROVE S = Yields(x0)
  <2>1. Quiet
    BY <1>1, <1>7, SameWorld
  <2>2. ~EndsAt(x0)
    BY <1>1, <1>2, <1>5, EndLeadsNowhere DEF IInv
  <2> QED
    BY <1>6, <2>1, <2>2 DEF Yields
<1> QED
  BY <1>1, <1>5, <1>7, RecordStep

(* A task suspends, or is woken by a listing.                              *)
LEMMA WaitStep ==
  ASSUME IInv, NEW r \in Models,
         Ask(r) \/ Queue(r) \/ Await(r) \/ ListingReturns(r)
  PROVE  IInv'
<1>1. running' \in Models \cup {Nobody}
  BY DEF Ask, Queue, Await, ListingReturns, Suspends, IInv, TypeOK
<1>2. UNCHANGED <<world, stack, future, answer, result, warnings, fetched>>
  BY DEF Ask, Queue, Await, ListingReturns, shared
<1>3. listed' \in [Workspaces \cup {Tenant} -> {"unknown", "asked", "known", "empty"}]
  <2>1. listed \in [Workspaces \cup {Tenant} -> {"unknown", "asked", "known", "empty"}]
    BY DEF IInv, TypeOK
  <2>2. CASE Ask(r)
    BY <2>1, <2>2 DEF Ask
  <2>3. CASE Queue(r) \/ Await(r)
    BY <2>1, <2>3 DEF Queue, Await, shared
  <2>4. CASE ListingReturns(r)
    BY <2>1, <2>4 DEF ListingReturns
  <2> QED
    BY <2>2, <2>3, <2>4
<1>4. /\ pc' \in [Models -> {"absent", "ready", "asking", "queued", "fetching",
                             "waiting", "raising", "failed", "done"}]
      /\ \A q \in Models :
           \/ pc'[q] = pc[q]
           \/ /\ pc[q] \in {"ready", "asking", "queued"}
              /\ pc'[q] \in {"ready", "asking", "queued", "waiting"}
  <2>1. pc \in [Models -> {"absent", "ready", "asking", "queued", "fetching",
                           "waiting", "raising", "failed", "done"}]
    BY DEF IInv, TypeOK
  <2>2. CASE Ask(r) \/ Queue(r) \/ Await(r)
    <3>1. pc[r] = "ready"
      BY <2>2 DEF Ask, Queue, Await, IsUpstream, AtItem, Runs
    <3>2. PICK why \in {"asking", "queued", "waiting"} : pc' = [pc EXCEPT ![r] = why]
      BY <2>2 DEF Ask, Queue, Await, Suspends
    <3> QED
      BY <2>1, <3>1, <3>2
  <2>3. CASE ListingReturns(r)
    <3>1. /\ pc[r] = "asking"
          /\ pc' = [q \in Models |->
                      IF q = r \/ (pc[q] = "queued" /\ Listing(q) = Listing(r))
                      THEN "ready" ELSE pc[q]]
      BY <2>3 DEF ListingReturns, QueuedBehind
    <3> QED
      BY <2>1, <3>1
  <2> QED
    BY <2>2, <2>3
<1> QED
  BY <1>1, <1>2, <1>3, <1>4, SuspendStep

(* A task goes on to the next stage of its frame.                          *)
LEMMA NextStageStep ==
  ASSUME IInv, NEW r \in Models, Enter(r) \/ Locate(r) \/ DefinitionReturns(r)
  PROVE  IInv'
<1> PICK st : st = IF Enter(r) THEN "tables"
                   ELSE IF Locate(r) THEN IF Top(r).stage = "workspace" THEN "model"
                                          ELSE "definition"
                   ELSE "entering"
  OBVIOUS
<1>1. /\ pc[r] \in {"ready", "fetching"}
      /\ st \in Early => Top(r).stage \in Early /\ pc[r] # "fetching"
  BY DEF Enter, Locate, Locating, DefinitionReturns, Runs, Early
<1>2. Top(r) \in Frames
  BY <1>1, AtTop
<1>3. SetTop(r, [Top(r) EXCEPT !.stage = st])
  BY <1>2 DEF Enter, Locate, DefinitionReturns, SetTop, Frames
<1>4. pc' = [pc EXCEPT ![r] = "ready"]
  BY DEF Enter, Locate, DefinitionReturns, Runs, GoesOn, IInv, TypeOK
<1>5. /\ running' \in Models \cup {Nobody}
      /\ UNCHANGED <<world, listed, future, answer, result, warnings, fetched>>
  BY DEF Enter, Locate, DefinitionReturns, GoesOn, IInv, TypeOK, shared
<1> QED
  BY <1>1, <1>3, <1>4, <1>5, StageStep

(***************************************************************************)
(* The theorems.                                                           *)
(***************************************************************************)

(* A request begins with the roots' frames and nothing known.              *)
LEMMA InitInv == Init => IInv
<1> SUFFICES ASSUME Init PROVE IInv
  OBVIOUS
<1>1. \A r \in Models : /\ Frame(r, "entering") \in Frames
                        /\ GoodFrame(Frame(r, "entering"))
                        /\ Frame(r, "entering").model = r
                        /\ Frame(r, "entering").stage = "entering"
  <2>1. \A r \in Models : world[r] \in Seq(Item)
    BY WorldsAssumption DEF Init
  <2> QED
    BY <2>1 DEF Frame, Frames, GoodFrame, Real, Covers, Passed
<1>2. \A r \in Models : \/ pc[r] = "ready" /\ stack[r] = <<Frame(r, "entering")>>
                        \/ pc[r] = "absent" /\ stack[r] = <<>>
  BY DEF Init
<1>3. TypeOK
  <2>1. stack \in [Models -> Seq(Frames)]
    BY <1>1 DEF Init
  <2>2. answer \in [Models -> Resolved] /\ result \in [Models -> Resolved]
    BY ResolvedCases DEF Init
  <2>3. pc \in [Models -> {"absent", "ready", "asking", "queued", "fetching",
                          "waiting", "raising", "failed", "done"}]
    BY DEF Init
  <2> QED
    BY <2>1, <2>2, <2>3 DEF Init, TypeOK
<1>4. Shape
  <2> SUFFICES ASSUME NEW r \in Models
               PROVE  /\ pc[r] \in {"ready", "asking", "queued", "fetching", "waiting"}
                           => stack[r] # <<>>
                      /\ pc[r] = "fetching" => Last(stack[r]).stage = "definition"
                      /\ \A i \in 1..Len(stack[r]) :
                           /\ i < Len(stack[r]) => stack[r][i].stage = "tables"
                           /\ i = 1 => stack[r][i].model = r
                                         /\ stack[r][i].stage \notin Early
    BY DEF Shape, Top
  <2>1. CASE pc[r] = "ready" /\ stack[r] = <<Frame(r, "entering")>>
    <3>1. Len(stack[r]) = 1 /\ stack[r][1] = Frame(r, "entering") /\ stack[r] # <<>>
      BY <2>1
    <3> QED
      BY <1>1, <2>1, <3>1 DEF Early
  <2>2. CASE pc[r] = "absent" /\ stack[r] = <<>>
    BY <2>2
  <2> QED
    BY <1>2, <2>1, <2>2
<1>5. Once
  BY <1>2 DEF Once, Init
<1>6. Path
  <2> SUFFICES ASSUME NEW r \in Models, NEW m \in Models,
                      NEW j \in 1..Len(stack[r]), NEW i \in 1..j,
                      stack[r][i].model = m
               PROVE  stack[r][j].model \in ModelsFrom({m})
    BY DEF Path
  <2>1. Len(stack[r]) = 0 \/ Len(stack[r]) = 1
    <3>1. CASE stack[r] = <<>>
      BY <3>1
    <3>2. CASE stack[r] = <<Frame(r, "entering")>>
      BY <3>2
    <3> QED
      BY <1>2, <3>1, <3>2
  <2>2. i = 1 /\ j = 1
    <3>1. CASE Len(stack[r]) = 0
      BY <3>1
    <3>2. CASE Len(stack[r]) = 1
      BY <3>2
    <3> QED
      BY <2>1, <3>1, <3>2
  <2> QED
    BY <2>2, ModelsClosed
<1>7. Known
  <2>1. \A r \in Models : \A f \in Range(stack[r]) : GoodFrame(f)
    BY <1>1, <1>2 DEF Range
  <2> QED
    BY <1>2, <2>1 DEF Known, Init
<1> QED
  BY <1>3, <1>4, <1>5, <1>6, <1>7 DEF IInv

(* Every step keeps the invariant.                                         *)
LEMMA StepInv == IInv /\ [Next]_vars => IInv'
<1> SUFFICES ASSUME IInv, [Next]_vars PROVE IInv'
  OBVIOUS
<1>1. CASE UNCHANGED vars
  <2>1. /\ running' \in Models \cup {Nobody}
        /\ listed' \in [Workspaces \cup {Tenant} ->
                         {"unknown", "asked", "known", "empty"}]
        /\ pc' \in [Models -> {"absent", "ready", "asking", "queued", "fetching",
                               "waiting", "raising", "failed", "done"}]
        /\ \A q \in Models : pc'[q] = pc[q]
        /\ UNCHANGED <<world, stack, future, answer, result, warnings, fetched>>
    BY <1>1 DEF vars, tasks, shared, IInv, TypeOK
  <2> QED
    BY <2>1, SuspendStep
<1>2. ASSUME NEW r \in Models, Step(r) PROVE IInv'
  <2>1. CASE EnterWithoutHops(r) \/ EnterTooDeep(r)
    BY <2>1, EnterEndsStep
  <2>2. CASE Enter(r) \/ Locate(r) \/ DefinitionReturns(r)
    BY <2>2, NextStageStep
  <2>3. CASE \/ KeepItem(r) \/ KeepUnnamed(r) \/ KeepUnresolved(r)
             \/ KeepUnmatched(r) \/ KeepSourceless(r)
    BY <2>3, KeepStep
  <2>4. CASE Load(r)
    BY <2>4, LoadStep
  <2>5. CASE Replace(r)
    BY <2>5, ReplaceStep
  <2>6. CASE Finish(r)
    BY <2>6, FinishStep
  <2>7. CASE Ask(r) \/ Queue(r) \/ Await(r) \/ ListingReturns(r)
    BY <2>7, WaitStep
  <2>8. CASE LocateFails(r) \/ DefinitionUnavailable(r)
    BY <2>8, FailStep
  <2>9. CASE Fetch(r)
    BY <2>9, FetchStep
  <2>10. CASE ListingRaises(r) \/ DefinitionRaises(r) \/ AwaitRaises(r)
    <3>1. listed' \in [Workspaces \cup {Tenant} -> {"unknown", "asked", "known", "empty"}]
      BY <2>10 DEF ListingRaises, DefinitionRaises, AwaitRaises, IInv, TypeOK
    <3>2. CASE ListingRaises(r)
      <4>1. \A q \in QueuedBehind(r) : pc[q] = "queued"
        BY DEF QueuedBehind
      <4> QED
        BY <3>1, <3>2, <4>1, UnwindStep DEF ListingRaises
    <3>3. CASE DefinitionRaises(r) \/ AwaitRaises(r)
      <4>1. Unwind(r, {})
        BY <3>3 DEF DefinitionRaises, AwaitRaises
      <4> QED
        BY <3>1, <4>1, UnwindStep
    <3> QED
      BY <2>10, <3>2, <3>3
  <2> QED
    BY <1>2, <2>1, <2>2, <2>3, <2>4, <2>5, <2>6, <2>7, <2>8, <2>9, <2>10 DEF Step
<1> QED
  BY <1>1, <1>2 DEF Next

(* The invariant holds throughout a request.                               *)
LEMMA Invariance == Spec => []IInv
BY InitInv, StepInv, PTL DEF Spec

(* The variables always hold values of their types: in particular every    *)
(* answer is a set of pairs of a table and a source, or NoAnswer.          *)
THEOREM TypeCorrect == Spec => []TypeOK
<1>1. IInv => TypeOK
  BY DEF IInv
<1> QED
  BY <1>1, Invariance, PTL

(* As long as nothing raises, the definition of a model is asked for at    *)
(* most once, whichever roots and tables meet at it: upstream_model's      *)
(* futures are shared by all tasks of a request.                           *)
THEOREM FetchedAtMostOnce == Spec => []FetchedOnce
<1>1. IInv => FetchedOnce
  BY DEF IInv, Once, Calm, FetchedOnce
<1> QED
  BY <1>1, Invariance, PTL

(* Every source resolve reports for a table is one its hops lead to,       *)
(* whatever was cut off, shared or failed, and however models hop.         *)
THEOREM ReportsAreReal == Spec => []SourcesAreReal
<1>1. IInv => SourcesAreReal
  <2> SUFFICES ASSUME IInv, NEW r \in Models, pc[r] = "done", NEW p \in result[r]
               PROVE  p[2] \in SourcesFrom([model |-> r, table |-> p[1]])
    BY DEF SourcesAreReal
  <2>1. Real(r, result[r])
    BY DEF IInv, Known, GoodAnswer
  <2> QED
    BY <2>1 DEF Real
<1> QED
  BY <1>1, Invariance, PTL

(* Without a warning, the tables of a root of an acyclic tenant are        *)
(* reported with exactly the places where their hops end: databases, hops  *)
(* that name no model, and hops to upstream tables without a source.       *)
THEOREM SilenceIsComplete == Spec => []SilenceMeansComplete
<1>1. IInv => SilenceMeansComplete
  <2> SUFFICES ASSUME IInv, Acyclic, warnings = {}, NEW r \in Models, pc[r] = "done",
                      NEW t \in Tables(r)
               PROVE  {p[2] : p \in {q \in result[r] : q[1] = t}}
                        = {s \in SourcesFrom([model |-> r, table |-> t]) : EndsAt(s)}
    BY DEF SilenceMeansComplete
  <2>1. t \in Nat
    BY WorldTyped, BareAssumption DEF IInv, Tables, Item
  <2>2. result[r] # NoAnswer /\ Exact(r, result[r])
    BY DEF IInv, Known, GoodAnswer, Quiet
  <2>3. result[r] \subseteq Nat \X Source
    BY <2>2, ResolvedCases DEF IInv, TypeOK
  <2>4. Leaves([model |-> r, table |-> t]) \subseteq Source
    <3>1. [model |-> r, table |-> t] \in Source
      BY <2>1 DEF Source
    <3> QED
      BY <3>1, SourcesClosed, MadeTyped DEF Leaves, IInv
  <2>5. \A x \in Source : x \in {p[2] : p \in {q \in result[r] : q[1] = t}} <=>
                           <<t, x>> \in result[r]
    BY <2>3
  <2>6. \A x \in Source : <<t, x>> \in result[r] <=>
                           x \in Leaves([model |-> r, table |-> t])
    BY <2>1, <2>2 DEF Exact
  <2>7. {p[2] : p \in {q \in result[r] : q[1] = t}} \subseteq Source
    BY <2>3
  <2> QED
    BY <2>4, <2>5, <2>6, <2>7 DEF Leaves
<1> QED
  BY <1>1, Invariance, PTL
=============================================================================
