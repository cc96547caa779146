-------------------------- MODULE LineageStoreProofs --------------------------
(***************************************************************************)
(* The properties of LineageStore, and that it implements VersionedGraphs, *)
(* proved for any graphs, contents and threads and any number of versions. *)
(***************************************************************************)
EXTENDS LineageStore, SequenceTheorems, TLAPS

(***************************************************************************)
(* The inductive invariant.                                                *)
(***************************************************************************)

(* s is nothing, or a version of g that is in the database.                *)
InRows(g, s) ==
  s # Nothing => s.version \in 1..Len(rows[g]) /\ s = Row(g, s.version)

(* What is cached is in the database, and an entry for a version is that   *)
(* version.                                                                *)
Cached ==
  \A g \in Graphs : \A v \in Selectors :
    /\ InRows(g, cache[g][v])
    /\ v # Latest /\ cache[g][v] # Nothing => cache[g][v].version = v

Saving == {"invalidating", "cachingVersion", "cachingLatest"}
Reading == {"looking", "reading", "filling", "returning"}

(* An idle thread holds nothing; a busy one works on a graph, wants what   *)
(* its operation is about and holds what is in the database.               *)
InHand ==
  \A t \in Threads : IF Idle(t) THEN found[t] = Nothing ELSE
    /\ graph[t] \in Graphs
    /\ InRows(graph[t], found[t])
    /\ pc[t] = "committing" => wanted[t] \in Contents
    /\ pc[t] \in Reading => wanted[t] \in Selectors
    /\ pc[t] \in Saving \cup {"filling"} => found[t] # Nothing
    /\ pc[t] \in {"filling", "returning"} /\ wanted[t] # Latest
         /\ found[t] # Nothing => found[t].version = wanted[t]

(* What a save returned is in the database, and no call began in the       *)
(* future.                                                                 *)
Acked ==
  /\ \A g \in Graphs : acked[g] <= Len(rows[g])
  /\ \A t \in Threads : ~Idle(t) => since[t] <= acked[graph[t]]

(* One call at a time works on a graph that has not raced, and neither its *)
(* newest cached version nor the one that is about to be cached is older   *)
(* than what a save returned.                                              *)
QuietGraph(g) ==
  /\ \A t, u \in Busy(g) : t = u
  /\ cache[g][Latest] # Nothing => cache[g][Latest].version >= acked[g]
  /\ \A t \in Busy(g) :
       \/ pc[t] \in Saving
       \/ pc[t] \in {"filling", "returning"} /\ wanted[t] = Latest
       => found[t].version >= acked[g]

Quiet == \A g \in Graphs \ raced : QuietGraph(g)

IInv == TypeOK /\ Cached /\ InHand /\ Acked /\ Quiet /\ NoRepeatedVersion

(***************************************************************************)
(* Lemmas about the operators.                                             *)
(***************************************************************************)

(* The rows of a graph are contents, numbered from 1.                      *)
LEMMA RowsAreContents ==
  ASSUME TypeOK, NEW g \in Graphs
  PROVE  /\ rows[g] \in Seq(Contents)
         /\ Len(rows[g]) \in Nat
         /\ Len(rows[g]) <= MaxVersions
         /\ \A v \in 1..Len(rows[g]) : rows[g][v] \in Contents
         /\ rows[g] = <<>> <=> Len(rows[g]) = 0
<1>1. rows[g] \in Seq(Contents) /\ Len(rows[g]) <= MaxVersions
  BY DEF TypeOK
<1>2. Len(rows[g]) \in Nat /\ (rows[g] = <<>> <=> Len(rows[g]) = 0)
  BY <1>1, EmptySeq, LenProperties
<1>3. \A v \in 1..Len(rows[g]) : rows[g][v] \in Contents
  BY <1>1, ElementOfSeq
<1> QED
  BY <1>1, <1>2, <1>3

(* A version that is in the database is a snapshot.                        *)
LEMMA RowIsSnapshot ==
  ASSUME TypeOK, NEW g \in Graphs, NEW v \in 1..Len(rows[g])
  PROVE  /\ v \in Versions
         /\ Row(g, v) \in Snapshot
         /\ Row(g, v) # Nothing
         /\ Row(g, v).version = v
         /\ Row(g, v).content = rows[g][v]
         /\ InRows(g, Row(g, v))
<1>1. v \in Versions /\ rows[g][v] \in Contents
  BY RowsAreContents, BoundsAssumption DEF Versions
<1>2. Row(g, v).version = v /\ Row(g, v).content = rows[g][v]
  BY DEF Row
<1>3. Row(g, v) \in Snapshot
  BY <1>1 DEF Row, Snapshot
<1>4. Row(g, v) # Nothing
  BY <1>1, <1>2 DEF Nothing, Versions
<1> QED
  BY <1>1, <1>2, <1>3, <1>4 DEF InRows

(* get_graph gives nothing or what it was asked for; asked for the newest  *)
(* version, it gives the one with the greatest number.                     *)
LEMMA SelectIsRow ==
  ASSUME TypeOK, NEW g \in Graphs, NEW v \in Selectors
  PROVE  /\ Select(g, v) \in Snapshot \cup {Nothing}
         /\ InRows(g, Select(g, v))
         /\ v # Latest /\ Select(g, v) # Nothing => Select(g, v).version = v
         /\ v = Latest => Select(g, v).version = Len(rows[g])
<1>1. CASE v = Latest /\ rows[g] = <<>>
  <2>1. Select(g, v) = Nothing /\ Len(rows[g]) = 0
    BY <1>1, RowsAreContents DEF Select, Newest
  <2> QED
    BY <1>1, <2>1 DEF InRows, Nothing
<1>2. CASE v = Latest /\ rows[g] # <<>>
  <2>1. Select(g, v) = Row(g, Len(rows[g])) /\ Len(rows[g]) \in 1..Len(rows[g])
    BY <1>2, RowsAreContents DEF Select, Newest
  <2> QED
    BY <1>2, <2>1, RowIsSnapshot
<1>3. CASE v # Latest /\ v <= Len(rows[g])
  <2>1. Select(g, v) = Row(g, v) /\ v \in 1..Len(rows[g])
    BY <1>3, RowsAreContents DEF Select, Selectors, Latest, Versions
  <2> QED
    BY <1>3, <2>1, RowIsSnapshot
<1>4. CASE v # Latest /\ ~(v <= Len(rows[g]))
  BY <1>4 DEF Select, InRows
<1> QED
  BY <1>1, <1>2, <1>3, <1>4

(* Appending a version leaves the others as they are.                      *)
LEMMA AppendedRow ==
  ASSUME TypeOK, NEW g \in Graphs, NEW c \in Contents,
         rows' = [rows EXCEPT ![g] = Append(@, c)]
  PROVE  /\ rows' \in [Graphs -> Seq(Contents)]
         /\ Len(rows'[g]) = Len(rows[g]) + 1
         /\ rows'[g][Len(rows[g]) + 1] = c
         /\ \A v \in 1..Len(rows[g]) : rows'[g][v] = rows[g][v]
         /\ \A h \in Graphs \ {g} : rows'[h] = rows[h]
<1>1. /\ rows \in [Graphs -> Seq(Contents)] /\ rows[g] \in Seq(Contents)
      /\ Len(rows[g]) \in Nat
  BY RowsAreContents DEF TypeOK
<1>2. rows'[g] = Append(rows[g], c) /\ \A h \in Graphs \ {g} : rows'[h] = rows[h]
  BY <1>1
<1>3. /\ Append(rows[g], c) \in Seq(Contents)
      /\ Len(Append(rows[g], c)) = Len(rows[g]) + 1
      /\ \A i \in 1..Len(rows[g]) : Append(rows[g], c)[i] = rows[g][i]
      /\ Append(rows[g], c)[Len(rows[g]) + 1] = c
  BY <1>1, AppendProperties
<1>4. rows' \in [Graphs -> Seq(Contents)]
  BY <1>1, <1>3
<1> QED
  BY <1>2, <1>3, <1>4

(***************************************************************************)
(* The initial states and the steps.                                       *)
(***************************************************************************)

(* The store starts empty.                                                 *)
LEMMA InitInv == Init => IInv
<1> SUFFICES ASSUME Init PROVE IInv
  OBVIOUS
<1>1. \A g \in Graphs : Len(rows[g]) = 0
  BY EmptySeq DEF Init
<1>2. TypeOK
  <2>1. rows \in [Graphs -> Seq(Contents)]
    BY EmptySeq DEF Init
  <2>2. \A g \in Graphs : Len(rows[g]) <= MaxVersions
    <3> SUFFICES ASSUME NEW g \in Graphs PROVE Len(rows[g]) <= MaxVersions
      OBVIOUS
    <3> QED
      BY <1>1, BoundsAssumption
  <2> QED
    BY <2>1, <2>2 DEF Init, TypeOK, Selectors
<1>3. Cached /\ InHand
  BY DEF Init, Cached, InHand, InRows, Idle
<1>4. Acked /\ Quiet
  <2>1. \A g \in Graphs : Busy(g) = {} /\ cache[g][Latest] = Nothing
    BY DEF Init, Busy, Idle, Selectors
  <2>2. Acked
    BY <1>1 DEF Init, Acked, Idle
  <2> QED
    BY <2>1, <2>2 DEF Quiet, QuietGraph
<1>5. NoRepeatedVersion
  BY <1>1 DEF NoRepeatedVersion
<1> QED
  BY <1>2, <1>3, <1>4, <1>5 DEF IInv

(* A call begins; if another is at work on its graph, the graph has raced. *)
LEMMA BeginStep ==
  ASSUME IInv, NEW t \in Threads, NEW g \in Graphs, NEW next, NEW w,
         \/ next = "committing" /\ w \in Contents
         \/ next = "looking" /\ w \in Selectors,
         Begin(t, g, next, w), UNCHANGED <<rows, cache, found, acked>>
  PROVE  IInv'
<1> USE DEF IInv, Begin
<1>1. TypeOK'
  BY DEF TypeOK
<1>2. Cached' /\ NoRepeatedVersion'
  BY DEF Cached, InRows, Row, NoRepeatedVersion
<1>3. InHand'
  BY DEF TypeOK, InHand, InRows, Row, Idle, Saving, Reading
<1>4. Acked'
  BY DEF TypeOK, Acked, Idle
<1>5. Quiet'
  BY DEF TypeOK, Quiet, QuietGraph, Busy, Idle, Saving
<1> QED
  BY <1>1, <1>2, <1>3, <1>4, <1>5

(* A call ends without having touched what is shared.                      *)
LEMMA EndStep ==
  ASSUME IInv, NEW t \in Threads, End(t), UNCHANGED <<rows, cache, acked, raced>>
  PROVE  IInv'
<1> USE DEF IInv, End
<1>1. TypeOK'
  BY DEF TypeOK, Selectors
<1>2. Cached' /\ NoRepeatedVersion'
  BY DEF Cached, InRows, Row, NoRepeatedVersion
<1>3. InHand'
  BY DEF TypeOK, InHand, InRows, Row, Idle, Saving, Reading
<1>4. Acked'
  BY DEF TypeOK, Acked, Idle
<1>5. Quiet'
  BY DEF TypeOK, Quiet, QuietGraph, Busy, Idle, Saving
<1> QED
  BY <1>1, <1>2, <1>3, <1>4, <1>5
(* A new version is the newest one, unlike the one before it, and all that *)
(* was cached or in a thread's hands stays in the database.                *)
LEMMA CommitStep ==
  ASSUME IInv, NEW t \in Threads, Commit(t)
  PROVE  IInv'
<1> DEFINE g == graph[t]
           n == Len(rows[g])
<1> USE DEF IInv
<1>1. /\ g \in Graphs /\ wanted[t] \in Contents /\ n \in Nat
      /\ pc[t] = "committing" /\ pc' = [pc EXCEPT ![t] = "invalidating"]
  BY RowsAreContents DEF InHand, Idle, Commit
<1>2. Newest(g) = Select(g, Latest)
  BY DEF Select
<1>3. CASE Newest(g).content = wanted[t]
  <2>1. /\ found' = [found EXCEPT ![t] = Newest(g)]
        /\ UNCHANGED <<rows, cache, graph, wanted, history>>
    BY <1>3 DEF Commit
  <2>2. /\ Newest(g) # Nothing /\ Newest(g) \in Snapshot \cup {Nothing}
        /\ InRows(g, Newest(g)) /\ Newest(g).version = n
    BY <1>1, <1>2, <1>3, SelectIsRow, ValuesAssumption
       DEF Nothing, Selectors
  <2>3. TypeOK'
    BY <1>1, <2>1, <2>2 DEF TypeOK, history
  <2>4. Cached' /\ NoRepeatedVersion'
    BY <2>1 DEF Cached, InRows, Row, NoRepeatedVersion
  <2>5. InHand'
    BY <1>1, <2>1, <2>2 DEF TypeOK, InHand, InRows, Row, Idle, Saving, Reading
  <2>6. Acked'
    BY <1>1, <2>1 DEF TypeOK, Acked, Idle, history
  <2>7. Quiet'
    BY <1>1, <2>1, <2>2 DEF TypeOK, Quiet, QuietGraph, Busy, Idle, Saving, Acked, history
  <2> QED
    BY <2>3, <2>4, <2>5, <2>6, <2>7
<1>4. CASE Newest(g).content # wanted[t]
  <2> DEFINE s == [version |-> n + 1, content |-> wanted[t]]
  <2>1. /\ n < MaxVersions
        /\ rows' = [rows EXCEPT ![g] = Append(@, wanted[t])]
        /\ found' = [found EXCEPT ![t] = s]
        /\ UNCHANGED <<cache, graph, wanted, history>>
    BY <1>4 DEF Commit
  <2>2. /\ rows' \in [Graphs -> Seq(Contents)]
        /\ Len(rows'[g]) = n + 1
        /\ rows'[g][n + 1] = wanted[t]
        /\ \A v \in 1..n : rows'[g][v] = rows[g][v]
        /\ \A h \in Graphs \ {g} : rows'[h] = rows[h]
    BY <1>1, <2>1, AppendedRow
  <2>3. s \in Snapshot /\ s # Nothing /\ InRows(graph[t], found[t])'
    <3>1. n + 1 \in Versions /\ n + 1 \in 1..Len(rows'[g]) /\ n + 1 # 0
      BY <1>1, <2>1, <2>2, BoundsAssumption DEF Versions
    <3>2. s \in Snapshot /\ s # Nothing
      BY <1>1, <3>1 DEF Snapshot, Nothing
    <3>3. s = [version |-> n + 1, content |-> rows'[g][n + 1]]
      BY <2>2
    <3>4. found'[t] = s /\ graph'[t] = g
      BY <2>1 DEF TypeOK
    <3>5. InRows(graph[t], found[t])'
      BY <3>1, <3>3, <3>4 DEF InRows, Row
    <3> QED
      BY <3>2, <3>5
  <2>4. \A h \in Graphs : /\ Len(rows[h]) \in Nat /\ Len(rows[h]) <= Len(rows'[h])
                          /\ \A v \in 1..Len(rows[h]) : rows'[h][v] = rows[h][v]
    BY <1>1, <2>2, RowsAreContents
  <2>5. \A h \in Graphs : \A x \in Snapshot \cup {Nothing} :
           InRows(h, x) => InRows(h, x)'
    BY <2>4 DEF InRows, Row
  <2>6. TypeOK'
    <3>1. \A h \in Graphs : Len(rows'[h]) <= MaxVersions
      BY <1>1, <2>1, <2>2, RowsAreContents, BoundsAssumption
    <3> QED
      BY <1>1, <2>1, <2>2, <2>3, <3>1 DEF TypeOK, history
  <2>7. Cached'
    BY <2>1, <2>5 DEF TypeOK, Cached
  <2>8. InHand'
    BY <1>1, <2>1, <2>3, <2>5 DEF TypeOK, InHand, Idle, Saving, Reading
  <2>9. Acked'
    BY <1>1, <2>1, <2>4 DEF TypeOK, Acked, Idle, history
  <2>10. Quiet'
    BY <1>1, <2>1 DEF TypeOK, Quiet, QuietGraph, Busy, Idle, Saving, Acked, history
  <2>11. NoRepeatedVersion'
    <3> SUFFICES ASSUME NEW h \in Graphs, NEW v \in 1..Len(rows'[h]) - 1
                 PROVE  rows'[h][v] # rows'[h][v + 1]
      BY DEF NoRepeatedVersion
    <3>1. CASE h # g
      BY <3>1, <2>2 DEF NoRepeatedVersion
    <3>2. CASE h = g /\ v # n
      <4>1. v \in 1..n /\ v + 1 \in 1..n /\ v \in 1..n - 1
        BY <1>1, <2>2, <3>2
      <4> QED
        BY <1>1, <2>2, <3>2, <4>1 DEF NoRepeatedVersion
    <3>3. CASE h = g /\ v = n
      <4>1. n \in 1..n
        BY <1>1, <2>2, <3>3
      <4>2. Newest(g).content = rows[g][n]
        BY <1>1, <4>1, RowsAreContents DEF Newest, Row
      <4> QED
        BY <1>1, <1>4, <2>2, <3>3, <4>1, <4>2
    <3> QED
      BY <3>1, <3>2, <3>3
  <2> QED
    BY <2>6, <2>7, <2>8, <2>9, <2>10, <2>11
<1> QED
  BY <1>3, <1>4

(* The cache of one graph is emptied.                                      *)
LEMMA InvalidateStep ==
  ASSUME IInv, NEW t \in Threads, Invalidate(t)
  PROVE  IInv'
<1> USE DEF IInv, Invalidate, history
<1>1. graph[t] \in Graphs
  BY DEF InHand, Idle
<1>2. TypeOK'
  BY <1>1 DEF TypeOK
<1>3. Cached' /\ NoRepeatedVersion'
  BY <1>1 DEF TypeOK, Cached, InRows, Row, NoRepeatedVersion
<1>4. InHand'
  BY DEF TypeOK, InHand, InRows, Row, Idle, Saving, Reading
<1>5. Acked'
  BY DEF TypeOK, Acked, Idle
<1>6. Quiet'
  BY <1>1 DEF TypeOK, Quiet, QuietGraph, Busy, Idle, Saving, Selectors
<1> QED
  BY <1>2, <1>3, <1>4, <1>5, <1>6
(* What is cached for a graph is in the database, under the key it claims. *)
LEMMA PutStep ==
  ASSUME TypeOK, Cached, NEW g \in Graphs, NEW v \in Selectors,
         NEW s \in Snapshot \cup {Nothing}, InRows(g, s),
         v # Latest /\ s # Nothing => s.version = v,
         Put(g, v, s), UNCHANGED rows
  PROVE  /\ Cached'
         /\ cache' \in [Graphs -> [Selectors -> Snapshot \cup {Nothing}]]
         /\ v # Latest => \A h \in Graphs : cache'[h][Latest] = cache[h][Latest]
         /\ v = Latest => /\ cache'[g][Latest] = s
                          /\ \A h \in Graphs \ {g} :
                               cache'[h][Latest] = cache[h][Latest]
<1>1. cache' \in [Graphs -> [Selectors -> Snapshot \cup {Nothing}]]
  BY DEF TypeOK, Put
<1>2. \A h \in Graphs : \A w \in Selectors :
         cache'[h][w] = IF h = g /\ w = v THEN s ELSE cache[h][w]
  BY DEF TypeOK, Put
<1>3. Cached'
  BY <1>2 DEF Cached, InRows, Row
<1> QED
  BY <1>1, <1>2, <1>3 DEF Selectors

(* A save caches its version under the version's number.                   *)
LEMMA CacheVersionStep ==
  ASSUME IInv, NEW t \in Threads, CacheVersion(t)
  PROVE  IInv'
<1> USE DEF IInv, CacheVersion, history
<1>1. /\ graph[t] \in Graphs /\ found[t] \in Snapshot
      /\ InRows(graph[t], found[t])
  BY DEF TypeOK, InHand, Idle, Saving
<1>2. found[t].version \in Selectors /\ found[t].version # Latest
  BY <1>1 DEF Snapshot, Selectors, Versions, Latest
<1>3. /\ Cached'
      /\ cache' \in [Graphs -> [Selectors -> Snapshot \cup {Nothing}]]
      /\ \A h \in Graphs : cache'[h][Latest] = cache[h][Latest]
  BY <1>1, <1>2, PutStep
<1>4. TypeOK'
  BY <1>3 DEF TypeOK
<1>5. InHand' /\ Acked' /\ NoRepeatedVersion'
  BY DEF TypeOK, InHand, InRows, Row, Idle, Saving, Reading, Acked,
         NoRepeatedVersion
<1>6. Quiet'
  BY <1>3 DEF TypeOK, Quiet, QuietGraph, Busy, Idle, Saving
<1> QED
  BY <1>3, <1>4, <1>5, <1>6

(* A save caches its version as the newest, which on a quiet graph it is,  *)
(* and returns.                                                            *)
LEMMA CacheLatestStep ==
  ASSUME IInv, NEW t \in Threads, CacheLatest(t)
  PROVE  IInv'
<1> DEFINE g == graph[t]
           n == found[t].version
<1> USE DEF IInv, CacheLatest, End
<1>1. /\ g \in Graphs /\ found[t] \in Snapshot /\ InRows(g, found[t])
      /\ found[t] # Nothing
  BY DEF TypeOK, InHand, Idle, Saving
<1>2. n \in Nat /\ n <= Len(rows[g])
  BY <1>1, RowsAreContents DEF InRows
<1>3. /\ Cached'
      /\ cache' \in [Graphs -> [Selectors -> Snapshot \cup {Nothing}]]
      /\ cache'[g][Latest] = found[t]
      /\ \A h \in Graphs \ {g} : cache'[h][Latest] = cache[h][Latest]
  BY <1>1, PutStep DEF Selectors
<1>4. /\ acked' \in [Graphs -> Nat]
      /\ acked'[g] = IF n > acked[g] THEN n ELSE acked[g]
      /\ \A h \in Graphs \ {g} : acked'[h] = acked[h]
  BY <1>1, <1>2 DEF TypeOK
<1>5. TypeOK'
  BY <1>3, <1>4 DEF TypeOK, Selectors
<1>6. InHand' /\ NoRepeatedVersion'
  BY DEF TypeOK, InHand, InRows, Row, Idle, Saving, Reading, NoRepeatedVersion
<1>7. Acked'
  <2>1. \A h \in Graphs : acked'[h] <= Len(rows'[h])
    BY <1>2, <1>4, RowsAreContents DEF Acked
  <2>2. \A h \in Graphs : acked[h] \in Nat /\ acked'[h] \in Nat /\ acked[h] <= acked'[h]
    BY <1>1, <1>2, <1>4 DEF TypeOK
  <2>3. \A u \in Threads : ~Idle(u)' => since'[u] <= acked'[graph'[u]]
    <3> SUFFICES ASSUME NEW u \in Threads, ~Idle(u)'
                 PROVE  since'[u] <= acked'[graph'[u]]
      OBVIOUS
    <3>1. /\ u # t /\ ~Idle(u) /\ graph'[u] = graph[u] /\ since'[u] = since[u]
          /\ graph[u] \in Graphs /\ since[u] \in Nat
      BY DEF TypeOK, Idle, InHand
    <3> QED
      BY <2>2, <3>1 DEF Acked
  <2> QED
    BY <2>1, <2>3 DEF Acked
<1>8. Quiet'
  <2> SUFFICES ASSUME NEW h \in Graphs \ raced
               PROVE  QuietGraph(h)'
    BY DEF Quiet
  <2>1. Busy(h)' \subseteq Busy(h)
    BY DEF Busy, Idle, TypeOK
  <2>2. CASE h = g
    <3>1. t \in Busy(h)
      BY <2>2 DEF Busy, Idle
    <3>2. Busy(h)' = {}
      BY <3>1, <2>1 DEF Quiet, QuietGraph, Busy, Idle, TypeOK
    <3>3. n >= acked[g]
      BY <2>2, <3>1 DEF Quiet, QuietGraph, Saving
    <3> QED
      BY <1>2, <1>3, <1>4, <2>2, <3>2, <3>3 DEF QuietGraph
  <2>3. CASE h # g
    BY <1>3, <1>4, <2>1, <2>3 DEF Quiet, QuietGraph, Busy, Idle, TypeOK, Saving
  <2> QED
    BY <2>2, <2>3
<1> QED
  BY <1>3, <1>5, <1>6, <1>7, <1>8

(* A read of what is cached.                                               *)
LEMMA LookStep ==
  ASSUME IInv, NEW t \in Threads, Look(t)
  PROVE  IInv'
<1> DEFINE g == graph[t]
           s == cache[g][wanted[t]]
<1> USE DEF IInv
<1>1. /\ g \in Graphs /\ wanted[t] \in Selectors /\ pc[t] = "looking"
      /\ found' = [found EXCEPT ![t] = s]
      /\ pc' = [pc EXCEPT ![t] = IF s = Nothing THEN "reading" ELSE "returning"]
      /\ UNCHANGED <<rows, cache, graph, wanted, history>>
  BY DEF InHand, Idle, Reading, Look
<1>2. /\ s \in Snapshot \cup {Nothing} /\ InRows(g, s)
      /\ wanted[t] # Latest /\ s # Nothing => s.version = wanted[t]
  BY <1>1 DEF TypeOK, Cached
<1>3. TypeOK'
  BY <1>1, <1>2 DEF TypeOK, history
<1>4. Cached' /\ NoRepeatedVersion'
  BY <1>1 DEF Cached, InRows, Row, NoRepeatedVersion
<1>5. InHand'
  BY <1>1, <1>2 DEF TypeOK, InHand, InRows, Row, Idle, Saving, Reading
<1>6. Acked'
  BY <1>1 DEF TypeOK, Acked, Idle, history
<1>7. Quiet'
  BY <1>1, <1>2 DEF TypeOK, Quiet, QuietGraph, Busy, Idle, Saving, history
<1> QED
  BY <1>3, <1>4, <1>5, <1>6, <1>7

(* A read of the database.                                                 *)
LEMMA ReadStep ==
  ASSUME IInv, NEW t \in Threads, Read(t)
  PROVE  IInv'
<1> DEFINE g == graph[t]
           s == Select(g, wanted[t])
<1> USE DEF IInv
<1>1. /\ g \in Graphs /\ wanted[t] \in Selectors /\ pc[t] = "reading"
      /\ found' = [found EXCEPT ![t] = s]
      /\ pc' = [pc EXCEPT ![t] = IF s = Nothing THEN "returning" ELSE "filling"]
      /\ UNCHANGED <<rows, cache, graph, wanted, history>>
  BY DEF InHand, Idle, Reading, Read
<1>2. /\ s \in Snapshot \cup {Nothing} /\ InRows(g, s)
      /\ wanted[t] # Latest /\ s # Nothing => s.version = wanted[t]
      /\ wanted[t] = Latest => s.version = Len(rows[g])
  BY <1>1, SelectIsRow
<1>3. TypeOK'
  BY <1>1, <1>2 DEF TypeOK, history
<1>4. Cached' /\ NoRepeatedVersion'
  BY <1>1 DEF Cached, InRows, Row, NoRepeatedVersion
<1>5. InHand'
  BY <1>1, <1>2 DEF TypeOK, InHand, InRows, Row, Idle, Saving, Reading
<1>6. Acked'
  BY <1>1 DEF TypeOK, Acked, Idle, history
<1>7. Quiet'
  BY <1>1, <1>2, RowsAreContents
     DEF TypeOK, Quiet, QuietGraph, Busy, Idle, Saving, Acked, history
<1> QED
  BY <1>3, <1>4, <1>5, <1>6, <1>7

(* A read caches what it found under the key it was asked for.             *)
LEMMA FillStep ==
  ASSUME IInv, NEW t \in Threads, Fill(t)
  PROVE  IInv'
<1> DEFINE g == graph[t]
<1> USE DEF IInv, Fill, history
<1>1. /\ g \in Graphs /\ wanted[t] \in Selectors /\ found[t] \in Snapshot
      /\ InRows(g, found[t])
      /\ wanted[t] # Latest => found[t].version = wanted[t]
  BY DEF TypeOK, InHand, Idle, Reading
<1>2. /\ Cached'
      /\ cache' \in [Graphs -> [Selectors -> Snapshot \cup {Nothing}]]
      /\ wanted[t] # Latest =>
           \A h \in Graphs : cache'[h][Latest] = cache[h][Latest]
      /\ wanted[t] = Latest =>
           /\ cache'[g][Latest] = found[t]
           /\ \A h \in Graphs \ {g} : cache'[h][Latest] = cache[h][Latest]
  BY <1>1, PutStep
<1>3. TypeOK'
  BY <1>2 DEF TypeOK
<1>4. InHand' /\ Acked' /\ NoRepeatedVersion'
  BY DEF TypeOK, InHand, InRows, Row, Idle, Saving, Reading, Acked,
         NoRepeatedVersion
<1>5. Quiet'
  <2> SUFFICES ASSUME NEW h \in Graphs \ raced
               PROVE  QuietGraph(h)'
    BY DEF Quiet
  <2>1. Busy(h)' = Busy(h)
    BY DEF Busy, Idle, TypeOK
  <2>2. wanted[t] = Latest /\ h = g => found[t].version >= acked[g]
    BY DEF Quiet, QuietGraph, Busy, Idle
  <2>3. QuietGraph(h)
    BY DEF Quiet
  <2>4. cache'[h][Latest] # Nothing => cache'[h][Latest].version >= acked[h]
    BY <1>2, <2>2, <2>3 DEF QuietGraph
  <2> QED
    BY <2>1, <2>3, <2>4 DEF QuietGraph, Saving, TypeOK, Busy
<1> QED
  BY <1>2, <1>3, <1>4, <1>5

(* An entry leaves the cache.                                              *)
LEMMA ExpireStep ==
  ASSUME IInv, NEW g \in Graphs, NEW v \in Selectors, Expire(g, v)
  PROVE  IInv'
<1> USE DEF IInv, Expire, call
<1>1. InRows(g, Nothing)
  BY DEF InRows
<1>2. /\ Cached'
      /\ cache' \in [Graphs -> [Selectors -> Snapshot \cup {Nothing}]]
      /\ \A h \in Graphs :
           cache'[h][Latest] = cache[h][Latest] \/ cache'[h][Latest] = Nothing
  BY <1>1, PutStep
<1>3. TypeOK'
  BY <1>2 DEF TypeOK
<1>4. InHand' /\ Acked' /\ NoRepeatedVersion'
  BY DEF TypeOK, InHand, InRows, Row, Idle, Saving, Reading, Acked,
         NoRepeatedVersion
<1>5. Quiet'
  <2> SUFFICES ASSUME NEW h \in Graphs \ raced'
               PROVE  QuietGraph(h)'
    BY DEF Quiet
  <2>1. Busy(h)' = Busy(h)
    BY DEF Busy, Idle
  <2>2. CASE h \in raced
    <3>1. Busy(h) = {} /\ cache'[h][Latest] = Nothing
      BY <2>2 DEF Selectors
    <3> QED
      BY <2>1, <3>1 DEF QuietGraph
  <2>3. CASE h \notin raced
    <3>1. QuietGraph(h)
      BY <2>3 DEF Quiet
    <3> QED
      BY <1>2, <2>1, <3>1 DEF QuietGraph
  <2> QED
    BY <2>2, <2>3
<1> QED
  BY <1>2, <1>3, <1>4, <1>5

(* The service starts over with the rows it had.                           *)
LEMMA CrashStep ==
  ASSUME IInv, Crash
  PROVE  IInv'
<1> USE DEF IInv, Crash
<1>1. TypeOK'
  BY DEF TypeOK, Selectors
<1>2. Cached' /\ InHand' /\ NoRepeatedVersion'
  BY DEF Cached, InHand, InRows, Idle, NoRepeatedVersion
<1>3. Acked'
  BY DEF Acked, Idle
<1>4. Quiet'
  BY DEF Quiet, QuietGraph, Busy, Idle, Selectors
<1> QED
  BY <1>1, <1>2, <1>3, <1>4
(* Every step preserves the invariant.                                     *)
LEMMA StepInv == IInv /\ [Next]_vars => IInv'
<1> SUFFICES ASSUME IInv, [Next]_vars PROVE IInv'
  OBVIOUS
<1>1. CASE Crash
  BY <1>1, CrashStep
<1>2. CASE \E g \in Graphs, v \in Selectors : Expire(g, v)
  BY <1>2, ExpireStep
<1>3. CASE \E t \in Threads : Step(t)
  <2> PICK t \in Threads : Step(t)
    BY <1>3
  <2>1. CASE Commit(t)
    BY <2>1, CommitStep
  <2>2. CASE CommitFails(t) \/ Return(t)
    BY <2>2, EndStep DEF CommitFails, Return
  <2>3. CASE Invalidate(t)
    BY <2>3, InvalidateStep
  <2>4. CASE CacheVersion(t)
    BY <2>4, CacheVersionStep
  <2>5. CASE CacheLatest(t)
    BY <2>5, CacheLatestStep
  <2>6. CASE Look(t)
    BY <2>6, LookStep
  <2>7. CASE Read(t)
    BY <2>7, ReadStep
  <2>8. CASE Fill(t)
    BY <2>8, FillStep
  <2> QED
    BY <2>1, <2>2, <2>3, <2>4, <2>5, <2>6, <2>7, <2>8 DEF Step
<1>4. CASE \E t \in Threads, g \in Graphs, c \in Contents : BeginSave(t, g, c)
  BY <1>4, BeginStep DEF BeginSave
<1>5. CASE \E t \in Threads, g \in Graphs, v \in Selectors : BeginGet(t, g, v)
  BY <1>5, BeginStep DEF BeginGet
<1>6. CASE UNCHANGED vars
  <2> USE <1>6 DEF IInv, vars, call, history
  <2>1. TypeOK' /\ NoRepeatedVersion' /\ Acked'
    BY DEF TypeOK, NoRepeatedVersion, Acked, Idle
  <2>2. Cached' /\ InHand'
    BY DEF Cached, InHand, InRows, Row, Idle
  <2>3. Quiet'
    BY DEF Quiet, QuietGraph, Busy, Idle
  <2> QED
    BY <2>1, <2>2, <2>3
<1> QED
  BY <1>1, <1>2, <1>3, <1>4, <1>5, <1>6 DEF Next

(* The invariant holds in every reachable state.                           *)
LEMMA Invariance == Spec => []IInv
<1> QED
  BY InitInv, StepInv, PTL DEF Spec

(***************************************************************************)
(* The theorems.                                                           *)
(***************************************************************************)

(* The variables hold values of their types.                               *)
THEOREM TypeCorrect == Spec => []TypeOK
<1>1. IInv => TypeOK
  BY DEF IInv
<1> QED
  BY <1>1, Invariance, PTL

(* Neighbouring versions of a graph differ, however saves of it            *)
(* interleave, fail, or are cut off by a crash (save_graph).               *)
THEOREM VersionsDiffer == Spec => []NoRepeatedVersion
<1>1. IInv => NoRepeatedVersion
  BY DEF IInv
<1> QED
  BY <1>1, Invariance, PTL

(* A snapshot in the rows is what its version selects.                     *)
LEMMA InRowsIsSelected ==
  ASSUME TypeOK, NEW g \in Graphs, NEW s, s # Nothing, InRows(g, s)
  PROVE  s = Select(g, s.version)
<1>1. s.version \in 1..Len(rows[g]) /\ s = Row(g, s.version)
  BY DEF InRows
<1>2. s.version # Latest /\ s.version <= Len(rows[g])
  BY <1>1, RowsAreContents DEF Latest
<1> QED
  BY <1>1, <1>2 DEF Select

(* Whatever saves, reads and evictions interleave, what is cached and what *)
(* a call returns is in the database under the version it claims, and is   *)
(* the version asked for (LineageStoreService.save and get).               *)
THEOREM CacheIsTrue == Spec => []CacheMatchesRows
<1>1. IInv => CacheMatchesRows
  <2> SUFFICES ASSUME IInv PROVE CacheMatchesRows
    OBVIOUS
  <2>1. ASSUME NEW g \in Graphs, NEW v \in Selectors, cache[g][v] # Nothing
        PROVE  /\ v # Latest => cache[g][v].version = v
               /\ cache[g][v] = Select(g, cache[g][v].version)
    BY <2>1, InRowsIsSelected DEF IInv, Cached
  <2>2. ASSUME NEW t \in Threads, found[t] # Nothing
        PROVE  /\ found[t] = Select(graph[t], found[t].version)
               /\ pc[t] \in {"filling", "returning"} /\ wanted[t] # Latest =>
                    found[t].version = wanted[t]
    <3>1. ~Idle(t)
      BY <2>2 DEF IInv, InHand
    <3>2. /\ graph[t] \in Graphs /\ InRows(graph[t], found[t])
          /\ pc[t] \in {"filling", "returning"} /\ wanted[t] # Latest =>
               found[t].version = wanted[t]
      BY <2>2, <3>1 DEF IInv, InHand
    <3> QED
      BY <2>2, <3>2, InRowsIsSelected DEF IInv
  <2> QED
    BY <2>1, <2>2 DEF CacheMatchesRows
<1> QED
  BY <1>1, Invariance, PTL

(* A read of the newest version gives what the saves that had returned     *)
(* before it stored, or something newer, on a graph whose calls have not   *)
(* overlapped since its cache was last empty.                              *)
THEOREM QuietReads == Spec => []QuietReadsAreCurrent
<1>1. IInv => QuietReadsAreCurrent
  <2> SUFFICES ASSUME IInv, NEW t \in Threads, pc[t] = "returning",
                      wanted[t] = Latest, graph[t] \notin raced
               PROVE  found[t].version >= since[t]
    BY DEF QuietReadsAreCurrent
  <2>1. graph[t] \in Graphs /\ t \in Busy(graph[t])
    BY DEF IInv, InHand, Idle, Busy
  <2>2. found[t].version >= acked[graph[t]]
    BY <2>1 DEF IInv, Quiet, QuietGraph
  <2>3. since[t] <= acked[graph[t]]
    BY DEF IInv, Acked, Idle
  <2>4. /\ found[t].version \in Int /\ since[t] \in Int
        /\ acked[graph[t]] \in Int
    BY <2>1 DEF IInv, TypeOK, Snapshot, Versions, Nothing
  <2> QED
    BY <2>2, <2>3, <2>4
<1> QED
  BY <1>1, Invariance, PTL

(***************************************************************************)
(* The refinement.                                                         *)
(***************************************************************************)

(* The step is thread t's, as far as places and answers go.                *)
OneThread(t) ==
  \A u \in Threads \ {t} : pc'[u] = pc[u] /\ found'[u] = found[u]

(* A thread's step is a step of its stage and of its answer.               *)
LEMMA StageMoves ==
  ASSUME NEW t \in Threads, OneThread(t)
  PROVE  /\ stage' = [stage EXCEPT ![t] = Stage(pc'[t])]
         /\ answer' = [answer EXCEPT ![t] = Shown(pc'[t], found'[t])]
<1>1. stage' = [u \in Threads |-> IF u = t THEN Stage(pc'[t]) ELSE Stage(pc[u])]
  BY DEF stage, OneThread
<1>2. answer' = [u \in Threads |-> IF u = t THEN Shown(pc'[t], found'[t])
                                  ELSE Shown(pc[u], found[u])]
  BY DEF answer, OneThread
<1> QED
  BY <1>1, <1>2 DEF stage, answer

(* A step that leaves the stage and what it shows is no step of the        *)
(* abstract store.                                                         *)
LEMMA Hidden ==
  ASSUME NEW t \in Threads, OneThread(t),
         Stage(pc'[t]) = Stage(pc[t]),
         Shown(pc'[t], found'[t]) = Shown(pc[t], found[t]),
         UNCHANGED <<rows, graph, wanted, history>>
  PROVE  UNCHANGED Promised!vars
<1>1. stage' = stage /\ answer' = answer
  BY DEF stage, answer, OneThread
<1> QED
  BY <1>1 DEF Promised!vars, Promised!calls, history

(* The calls at work on a graph are the same in both.                      *)
LEMMA SameWork ==
  ASSUME TypeOK, NEW g
  PROVE  Promised!Working(g) = Busy(g)
<1>1. \A t \in Threads : stage[t] # "idle" <=> ~Idle(t)
  BY DEF stage, Stage, Idle
<1> QED
  BY <1>1 DEF Promised!Working, Busy

(* The store starts as it is promised to.                                  *)
LEMMA PromiseInit == Init => Promised!Init
BY DEF Init, Promised!Init, stage, answer, Stage, Shown

(* A call begins.                                                          *)
LEMMA PromiseBegin ==
  ASSUME IInv, NEW t \in Threads, NEW g \in Graphs, NEW next, NEW w,
         next \in {"committing", "looking"},
         Begin(t, g, next, w), UNCHANGED <<rows, cache, found, acked>>
  PROVE  Promised!Begin(t, g, Stage(next), w)
<1> USE DEF IInv, Begin
<1>1. OneThread(t) /\ pc'[t] = next
  BY DEF TypeOK, OneThread
<1>2. /\ stage' = [stage EXCEPT ![t] = Stage(next)]
      /\ answer' = [answer EXCEPT ![t] = Shown(next, found'[t])]
  BY <1>1, StageMoves
<1>3. stage[t] = "idle" /\ answer[t] = Nothing /\ Shown(next, found'[t]) = Nothing
  BY DEF stage, answer, Stage, Shown, Idle
<1>4. answer' = answer
  BY <1>2, <1>3 DEF answer
<1> QED
  BY <1>2, <1>3, <1>4, SameWork DEF Promised!Begin

(* A call ends.                                                            *)
LEMMA PromiseEnd ==
  ASSUME IInv, NEW t \in Threads, End(t), UNCHANGED <<rows, raced>>
  PROVE  Promised!End(t)
<1>1. OneThread(t) /\ pc'[t] = "idle" /\ found'[t] = Nothing
  BY DEF IInv, TypeOK, End, OneThread
<1>2. /\ stage' = [stage EXCEPT ![t] = "idle"]
      /\ answer' = [answer EXCEPT ![t] = Nothing]
  BY <1>1, StageMoves DEF Stage, Shown
<1> QED
  BY <1>2 DEF Promised!End, End

(* A transaction that commits is a save that takes effect.                 *)
LEMMA PromiseCommit ==
  ASSUME IInv, NEW t \in Threads, Commit(t)
  PROVE  Promised!Save(t)
<1> DEFINE g == graph[t]
           n == Len(rows[g])
<1> USE DEF IInv
<1>1. /\ g \in Graphs /\ wanted[t] \in Contents /\ n \in Nat
      /\ pc[t] = "committing" /\ pc' = [pc EXCEPT ![t] = "invalidating"]
      /\ UNCHANGED <<graph, wanted, since, acked, raced>>
      /\ rows[g] = <<>> <=> n = 0
  BY RowsAreContents DEF InHand, Idle, Commit, history
<1>2. stage[t] = "saving" /\ Stage("invalidating") = "saved"
  BY <1>1 DEF stage, Stage
<1>3. Newest(g).content = wanted[t] <=> rows[g] # <<>> /\ rows[g][n] = wanted[t]
  BY <1>1, ValuesAssumption DEF Newest, Row, Nothing
<1>4. found' = [found EXCEPT ![t] = [version |-> Len(rows'[g]), content |-> wanted[t]]]
      /\ IF rows[g] # <<>> /\ rows[g][n] = wanted[t] THEN UNCHANGED rows
         ELSE rows' = [rows EXCEPT ![g] = Append(@, wanted[t])]
  <2>1. CASE Newest(g).content = wanted[t]
    <3>1. Newest(g) = [version |-> n, content |-> wanted[t]]
      BY <1>3, <2>1 DEF Newest, Row
    <3> QED
      BY <1>3, <2>1, <3>1 DEF Commit
  <2>2. CASE Newest(g).content # wanted[t]
    <3>1. /\ rows' = [rows EXCEPT ![g] = Append(@, wanted[t])]
          /\ found' = [found EXCEPT ![t] = [version |-> n + 1, content |-> wanted[t]]]
      BY <2>2 DEF Commit
    <3>2. Len(rows'[g]) = n + 1
      BY <1>1, <3>1, AppendedRow
    <3> QED
      BY <1>3, <2>2, <3>1, <3>2
  <2> QED
    BY <2>1, <2>2
<1>5. /\ stage' = [stage EXCEPT ![t] = "saved"]
      /\ answer' = [answer EXCEPT ![t] = [version |-> Len(rows'[g]), content |-> wanted[t]]]
  <2>1. /\ OneThread(t) /\ pc'[t] = "invalidating"
        /\ found'[t] = [version |-> Len(rows'[g]), content |-> wanted[t]]
    BY <1>1, <1>4 DEF TypeOK, OneThread
  <2> QED
    BY <1>2, <2>1, StageMoves DEF Shown
<1> QED
  BY <1>1, <1>2, <1>4, <1>5 DEF Promised!Save

(* What the cache or the database gives a read may be given to it.         *)
LEMMA PromiseAnswer ==
  ASSUME IInv, NEW t \in Threads, NEW place, NEW s \in Snapshot \cup {Nothing},
         pc[t] \in {"looking", "reading"}, Stage(place) = "answered",
         pc' = [pc EXCEPT ![t] = place], found' = [found EXCEPT ![t] = s],
         UNCHANGED <<rows, graph, wanted, history>>,
         InRows(graph[t], s),
         s = Nothing => Select(graph[t], wanted[t]) = Nothing,
         wanted[t] # Latest /\ s # Nothing => s.version = wanted[t],
         wanted[t] = Latest /\ s # Nothing /\ graph[t] \notin raced =>
           s.version >= acked[graph[t]]
  PROVE  Promised!Answer(t)
<1> DEFINE g == graph[t]
           w == wanted[t]
           n == Len(rows[g])
<1> USE DEF IInv
<1>1. /\ g \in Graphs /\ w \in Selectors /\ n \in Nat
      /\ rows[g] = <<>> <=> n = 0
      /\ since[t] \in Nat /\ acked[g] \in Nat /\ since[t] <= acked[g]
  BY RowsAreContents DEF TypeOK, InHand, Idle, Reading, Acked
<1>2. stage[t] = "reading"
  BY DEF stage, Stage
<1>3. /\ stage' = [stage EXCEPT ![t] = "answered"]
      /\ answer' = [answer EXCEPT ![t] = s]
  <2>1. OneThread(t) /\ pc'[t] = place /\ found'[t] = s
    BY DEF TypeOK, OneThread
  <2> QED
    BY <2>1, StageMoves DEF Shown
<1>4. s \in Promised!Given(t)
  <2>1. CASE s = Nothing
    <3>1. CASE w = Latest
      <4>1. rows[g] = <<>>
        BY <1>1, <2>1, <3>1, RowIsSnapshot DEF Select, Newest
      <4> QED
        BY <2>1, <3>1, <4>1 DEF Promised!Given
    <3>2. CASE w # Latest
      <4>1. w \notin 1..n
        BY <1>1, <2>1, <3>2, RowIsSnapshot DEF Select
      <4> QED
        BY <2>1, <3>2, <4>1 DEF Promised!Given
    <3> QED
      BY <3>1, <3>2
  <2>2. CASE s # Nothing
    <3>1. s.version \in 1..n /\ s = Promised!Version(g, s.version)
      BY <2>2 DEF InRows, Row, Promised!Version
    <3>2. CASE w = Latest
      <4>1. g \in raced \/ s.version >= since[t]
        BY <1>1, <2>2, <3>1, <3>2
      <4> QED
        BY <1>1, <3>1, <3>2, <4>1 DEF Promised!Given
    <3>3. CASE w # Latest
      BY <2>2, <3>1, <3>3 DEF Promised!Given
    <3> QED
      BY <3>2, <3>3
  <2> QED
    BY <2>1, <2>2
<1> QED
  BY <1>2, <1>3, <1>4 DEF Promised!Answer, history

(* The lookup in the cache: a hit is an answer, a miss does not show.      *)
LEMMA PromiseLook ==
  ASSUME IInv, NEW t \in Threads, Look(t)
  PROVE  Promised!Answer(t) \/ UNCHANGED Promised!vars
<1> DEFINE g == graph[t]
           s == cache[g][wanted[t]]
<1> USE DEF IInv
<1>1. /\ g \in Graphs /\ wanted[t] \in Selectors /\ pc[t] = "looking"
      /\ found' = [found EXCEPT ![t] = s]
      /\ UNCHANGED <<rows, graph, wanted, history>>
  BY DEF InHand, Idle, Reading, Look
<1>2. CASE s = Nothing
  <2>1. pc' = [pc EXCEPT ![t] = "reading"]
    BY <1>2 DEF Look
  <2>2. /\ OneThread(t) /\ Stage(pc'[t]) = Stage(pc[t])
        /\ Shown(pc'[t], found'[t]) = Shown(pc[t], found[t])
    BY <1>1, <2>1 DEF TypeOK, OneThread, Stage, Shown
  <2> QED
    BY <1>1, <2>2, Hidden
<1>3. CASE s # Nothing
  <2>1. pc' = [pc EXCEPT ![t] = "returning"] /\ Stage("returning") = "answered"
    BY <1>3 DEF Look, Stage
  <2>2. /\ s \in Snapshot \cup {Nothing} /\ InRows(g, s)
        /\ wanted[t] # Latest => s.version = wanted[t]
    BY <1>1, <1>3 DEF TypeOK, Cached
  <2>3. wanted[t] = Latest /\ g \notin raced => s.version >= acked[g]
    BY <1>1, <1>3 DEF Quiet, QuietGraph
  <2> QED
    BY <1>1, <1>3, <2>1, <2>2, <2>3, PromiseAnswer
<1> QED
  BY <1>2, <1>3

(* What the database says is an answer.                                    *)
LEMMA PromiseRead ==
  ASSUME IInv, NEW t \in Threads, Read(t)
  PROVE  Promised!Answer(t)
<1> DEFINE g == graph[t]
           s == Select(g, wanted[t])
           place == IF s = Nothing THEN "returning" ELSE "filling"
<1> USE DEF IInv
<1>1. /\ g \in Graphs /\ wanted[t] \in Selectors /\ pc[t] = "reading"
      /\ pc' = [pc EXCEPT ![t] = place]
      /\ found' = [found EXCEPT ![t] = s]
      /\ UNCHANGED <<rows, graph, wanted, history>>
  BY DEF InHand, Idle, Reading, Read
<1>2. /\ s \in Snapshot \cup {Nothing} /\ InRows(g, s)
      /\ wanted[t] # Latest /\ s # Nothing => s.version = wanted[t]
      /\ wanted[t] = Latest => s.version = Len(rows[g])
  BY <1>1, SelectIsRow
<1>3. acked[g] \in Nat /\ Len(rows[g]) \in Nat /\ acked[g] <= Len(rows[g])
  BY <1>1, RowsAreContents DEF TypeOK, Acked
<1>4. Stage(place) = "answered"
  BY DEF Stage
<1> QED
  BY <1>1, <1>2, <1>3, <1>4, PromiseAnswer

(* A thread's steps.                                                       *)
LEMMA PromiseStep ==
  ASSUME IInv, NEW t \in Threads, Step(t)
  PROVE  Promised!Next \/ UNCHANGED Promised!vars
<1> USE DEF IInv
<1>1. CASE Commit(t)
  BY <1>1, PromiseCommit DEF Promised!Next
<1>2. CASE CommitFails(t)
  <2>1. stage[t] = "saving" /\ Promised!End(t)
    BY <1>2, PromiseEnd DEF CommitFails, stage, Stage
  <2>2. Promised!Refuse(t)
    BY <1>2, <2>1 DEF CommitFails, Promised!Refuse
  <2> QED
    BY <2>2 DEF Promised!Next
<1>3. CASE Invalidate(t)
  <2>1. /\ OneThread(t) /\ Stage(pc'[t]) = Stage(pc[t])
        /\ Shown(pc'[t], found'[t]) = Shown(pc[t], found[t])
        /\ UNCHANGED <<rows, graph, wanted, history>>
    BY <1>3 DEF Invalidate, TypeOK, OneThread, Stage, Shown
  <2> QED
    BY <2>1, Hidden
<1>4. CASE CacheVersion(t)
  <2>1. /\ OneThread(t) /\ Stage(pc'[t]) = Stage(pc[t])
        /\ Shown(pc'[t], found'[t]) = Shown(pc[t], found[t])
        /\ UNCHANGED <<rows, graph, wanted, history>>
    BY <1>4 DEF CacheVersion, TypeOK, OneThread, Stage, Shown
  <2> QED
    BY <2>1, Hidden
<1>5. CASE CacheLatest(t)
  <2>1. stage[t] = "saved" /\ answer[t] = found[t] /\ Promised!End(t)
    BY <1>5, PromiseEnd DEF CacheLatest, stage, answer, Stage, Shown
  <2>2. Promised!Acknowledge(t)
    BY <1>5, <2>1 DEF CacheLatest, Promised!Acknowledge
  <2> QED
    BY <2>2 DEF Promised!Next
<1>6. CASE Look(t)
  BY <1>6, PromiseLook DEF Promised!Next
<1>7. CASE Read(t)
  BY <1>7, PromiseRead DEF Promised!Next
<1>8. CASE Fill(t)
  <2>1. /\ OneThread(t) /\ Stage(pc'[t]) = Stage(pc[t])
        /\ Shown(pc'[t], found'[t]) = Shown(pc[t], found[t])
        /\ UNCHANGED <<rows, graph, wanted, history>>
    BY <1>8 DEF Fill, TypeOK, OneThread, Stage, Shown
  <2> QED
    BY <2>1, Hidden
<1>9. CASE Return(t)
  <2>1. stage[t] = "answered" /\ Promised!End(t)
    BY <1>9, PromiseEnd DEF Return, stage, Stage
  <2>2. Promised!Return(t)
    BY <1>9, <2>1 DEF Return, Promised!Return
  <2> QED
    BY <2>2 DEF Promised!Next
<1> QED
  BY <1>1, <1>2, <1>3, <1>4, <1>5, <1>6, <1>7, <1>8, <1>9 DEF Step

(* Every step of the store is one the abstract store may take, or none.    *)
LEMMA PromiseNext == IInv /\ [Next]_vars => [Promised!Next]_(Promised!vars)
<1> SUFFICES ASSUME IInv, [Next]_vars PROVE Promised!Next \/ UNCHANGED Promised!vars
  OBVIOUS
<1>1. CASE UNCHANGED vars
  BY <1>1 DEF vars, call, history, Promised!vars, Promised!calls, stage, answer
<1>2. CASE Crash
  <2>1. Promised!Restart
    BY <1>2 DEF Crash, Promised!Restart, stage, answer, Stage, Shown
  <2> QED
    BY <2>1 DEF Promised!Next
<1>3. ASSUME NEW g \in Graphs, NEW v \in Selectors, Expire(g, v)
      PROVE  Promised!Next \/ UNCHANGED Promised!vars
  <2>1. UNCHANGED <<rows, Promised!calls, acked>>
    BY <1>3 DEF Expire, call, Promised!calls, stage, answer
  <2>2. CASE raced' = raced
    BY <2>1, <2>2 DEF Promised!vars
  <2>3. CASE Busy(g) = {} /\ raced' = raced \ {g}
    <3>1. Promised!Settle(g)
      BY <2>1, <2>3, SameWork DEF IInv, Promised!Settle
    <3> QED
      BY <3>1 DEF Promised!Next
  <2> QED
    BY <1>3, <2>2, <2>3 DEF Expire
<1>4. ASSUME NEW t \in Threads, Step(t)
      PROVE  Promised!Next \/ UNCHANGED Promised!vars
  BY <1>4, PromiseStep
<1>5. ASSUME NEW t \in Threads, NEW g \in Graphs, NEW c \in Contents, BeginSave(t, g, c)
      PROVE  Promised!Next
  <2>1. Promised!Begin(t, g, Stage("committing"), c)
    BY <1>5, PromiseBegin DEF BeginSave
  <2> QED
    BY <2>1 DEF Promised!Next, Stage
<1>6. ASSUME NEW t \in Threads, NEW g \in Graphs, NEW v \in Selectors, BeginGet(t, g, v)
      PROVE  Promised!Next
  <2>1. Promised!Begin(t, g, Stage("looking"), v)
    BY <1>6, PromiseBegin DEF BeginGet
  <2> QED
    BY <2>1 DEF Promised!Next, Stage
<1> QED
  BY <1>1, <1>2, <1>3, <1>4, <1>5, <1>6 DEF Next

(* To its callers the store is a history of versions that grows at its end *)
(* and out of which reads are answered: nothing shows of what save and get *)
(* do between their transactions and their accesses to the cache.          *)
THEOREM StoreKeepsPromise == Spec => PromiseIsKept
<1> QED
  BY PromiseInit, PromiseNext, Invariance, PTL DEF Spec, PromiseIsKept, Promised!Spec
=============================================================================
