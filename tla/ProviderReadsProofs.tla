-------------------------- MODULE ProviderReadsProofs --------------------------
(***************************************************************************)
(* What ProviderReadCache promises of the values it hands out, proved for  *)
(* any reads, tokens, tasks, limits and versions.  Only LiveEntriesRemain  *)
(* rests on the order of the entries: the others hold whichever is evicted.*)
(*                                                                         *)
(* Last, of the longest read there is (FabricDefinitions): the wait for an *)
(* operation is bounded whatever Fabric answers, for any requests, limits, *)
(* pauses and payloads.  The two modules share no variable.                *)
(***************************************************************************)
EXTENDS ProviderReadCache, FabricDefinitions, SequenceTheorems,
        NaturalsInduction, WellFoundedInduction, TLAPS

(***************************************************************************)
(* The inductive invariant.                                                *)
(***************************************************************************)
Fetching(c) == pc[c] \in {"asking", "answered"}

(* The entries of _fetches are the fetches under way, and whoever joined   *)
(* one waits for its own key.  An unset TTL leaves both tables empty.      *)
Fetches ==
  /\ \A k \in Keys : leader[k] # NoCaller => Fetching(leader[k]) /\ key[leader[k]] = k
  /\ \A c \in Callers :
       /\ pc[c] # "idle" => key[c] \in Keys
       /\ pc[c] = "joined" => leader[key[c]] # NoCaller
       /\ ttl > 0 /\ Fetching(c) => leader[key[c]] = c
  /\ ttl = 0 => \A k \in Keys : leader[k] = NoCaller /\ deadline[k] = 0

(* An entry is a version the provider once had, as new as all that was     *)
(* shown, and as new as the last refresh unless a fetch overtook it.       *)
Entries ==
  \A k \in Keys :
    /\ shown[k] <= truth[k] /\ refreshed[k] <= truth[k]
    /\ deadline[k] # 0 =>
         /\ value[k] > 0
         /\ value[k] >= shown[k]
         /\ overtaken[k] \/ value[k] >= refreshed[k]

(* What was promised to a call when it began is still true of its key.     *)
Promises ==
  \A c \in Callers : pc[c] # "idle" =>
    /\ floor[c].held <= truth[key[c]]
    /\ floor[c].shown <= shown[key[c]]
    /\ floor[c].refreshed <= refreshed[key[c]]
    /\ pc[c] = "joined" => floor[c].joined

(* An answer on its way to the cache, to its leader and to those who       *)
(* joined is as new as each of them was promised.                          *)
GoodAnswer(c) ==
  /\ floor[c].held > 0 => reply[c].outcome # "denied"
  /\ reply[c].outcome = "value" =>
       /\ reply[c].version > 0
       /\ reply[c].version <= truth[key[c]]
       /\ reply[c].version >= floor[c].shown
       /\ reply[c].version >= floor[c].refreshed
       /\ ttl > 0 =>
            /\ reply[c].version >= shown[key[c]]
            /\ overtaken[key[c]] \/ reply[c].version >= refreshed[key[c]]
       /\ \A d \in Joiners(c) :
            floor[d].overtaken \/ reply[c].version >= floor[d].refreshed

Answers == \A c \in Callers : pc[c] = "answered" => GoodAnswer(c)

(* What a call was given keeps what it was promised.                       *)
GoodRead(c) ==
  /\ reply[c].outcome = "value" =>
       /\ reply[c].version >= floor[c].shown
       /\ floor[c].overtaken \/ reply[c].version >= floor[c].refreshed
  /\ floor[c].held > 0 /\ ~floor[c].joined => reply[c].outcome # "denied"

Handed == \A c \in Callers : pc[c] = "done" => GoodRead(c)

IInv == ValuesOK /\ Fetches /\ Entries /\ Promises /\ Answers /\ Handed

(***************************************************************************)
(* Lemmas about Without.  Its recursion ends at the length of the list, so *)
(* induction over the numbers up to there gives what it computes.          *)
(***************************************************************************)

(* A set of numbers that has 0, and n + 1 with every n, has them all.      *)
LEMMA Induction ==
  ASSUME NEW S \in SUBSET Nat, 0 \in S, \A n \in S : n + 1 \in S
  PROVE  S = Nat
<1> DEFINE T == Nat \ S
           R == OpToRel(<, Nat)
<1>1. CASE T = {}
  BY <1>1
<1>2. CASE T # {}
  <2>1. IsWellFoundedOn(R, Nat)
    BY NatLessThanWellFounded
  <2>2. \A x, y \in Nat : <<x, y>> \in R <=> x < y
    BY DEF OpToRel
  <2>3. T \in SUBSET Nat
    OBVIOUS
  <2>4. PICK x \in T : \A y \in T : ~ (<<y, x>> \in R)
    <3> HIDE DEF R, T
    <3> QED
      BY <1>2, <2>1, <2>3, WFMin
  <2>5. x \in Nat /\ x # 0 /\ x - 1 \in Nat /\ x - 1 < x
    OBVIOUS
  <2>6. <<x - 1, x>> \in R
    BY <2>2, <2>5
  <2>7. x - 1 \in S
    BY <2>4, <2>5, <2>6
  <2> QED
    BY <2>5, <2>7
<1> QED
  BY <1>1, <1>2

(* F is the recursion of Without on the first n elements of s.             *)
Filters(F, s, K, n) ==
  F = [i \in 0..n |-> IF i = 0 THEN << >>
                      ELSE IF s[i] \in K THEN F[i - 1]
                      ELSE Append(F[i - 1], s[i])]

(* The recursion has a solution, however long s is.                        *)
LEMMA FilterExists ==
  ASSUME NEW s, NEW K, NEW n \in Nat
  PROVE  \E F : Filters(F, s, K, n)
<1> DEFINE S == {m \in Nat : \E F : Filters(F, s, K, m)}
<1>1. 0 \in S
  <2> DEFINE F == [i \in 0..0 |-> << >>]
  <2>1. Filters(F, s, K, 0)
    BY DEF Filters
  <2> QED
    BY <2>1
<1>2. ASSUME NEW m \in S PROVE m + 1 \in S
  <2>1. PICK F : Filters(F, s, K, m)
    OBVIOUS
  <2> DEFINE G == [i \in 0..(m + 1) |-> IF i <= m THEN F[i]
                     ELSE IF s[i] \in K THEN F[i - 1] ELSE Append(F[i - 1], s[i])]
  <2>2. \A i \in 0..m : G[i] = F[i]
    OBVIOUS
  <2>3. ASSUME NEW i \in 0..(m + 1)
        PROVE  G[i] = IF i = 0 THEN << >> ELSE IF s[i] \in K THEN G[i - 1]
                      ELSE Append(G[i - 1], s[i])
    <3>1. CASE i = 0
      BY <2>1, <2>2, <3>1 DEF Filters
    <3>2. CASE i # 0
      <4>1. i - 1 \in 0..m /\ G[i - 1] = F[i - 1]
        BY <2>2, <3>2
      <4>2. CASE i <= m
        <5>1. i \in 0..m /\ G[i] = F[i]
          BY <2>2, <4>2
        <5>2. F[i] = IF s[i] \in K THEN F[i - 1] ELSE Append(F[i - 1], s[i])
          BY <2>1, <3>2, <5>1 DEF Filters
        <5> HIDE DEF G
        <5> QED
          BY <3>2, <4>1, <5>1, <5>2
      <4>3. CASE i > m
        <5>1. G[i] = IF s[i] \in K THEN F[i - 1] ELSE Append(F[i - 1], s[i])
          BY <4>3
        <5> HIDE DEF G
        <5> QED
          BY <3>2, <4>1, <5>1
      <4> QED
        BY <4>2, <4>3
    <3> QED
      BY <3>1, <3>2
  <2>4. G = [i \in DOMAIN G |-> G[i]] /\ DOMAIN G = 0..(m + 1)
    OBVIOUS
  <2>5. Filters(G, s, K, m + 1)
    <3> HIDE DEF G
    <3> QED
      BY <2>3, <2>4 DEF Filters
  <2> QED
    BY <2>5
<1>3. S = Nat
  <2> HIDE DEF S
  <2>1. S \in SUBSET Nat
    BY DEF S
  <2> QED
    BY <1>1, <1>2, <2>1, Induction
<1> QED
  BY <1>3

(* Without takes the last value of such a solution.                        *)
LEMMA WithoutFilters ==
  ASSUME NEW s, NEW K, Len(s) \in Nat
  PROVE  \E F : Filters(F, s, K, Len(s)) /\ Without(s, K) = F[Len(s)]
<1> DEFINE F == CHOOSE f : f = [i \in 0..Len(s) |-> IF i = 0 THEN << >>
                                   ELSE IF s[i] \in K THEN f[i - 1]
                                   ELSE Append(f[i - 1], s[i])]
<1>1. Without(s, K) = F[Len(s)]
  BY DEF Without
<1>2. \E f : Filters(f, s, K, Len(s))
  BY FilterExists
<1>3. \E f : f = [i \in 0..Len(s) |-> IF i = 0 THEN << >>
                            ELSE IF s[i] \in K THEN f[i - 1]
                            ELSE Append(f[i - 1], s[i])]
  BY <1>2 DEF Filters
<1>4. Filters(F, s, K, Len(s))
  <2>1. F = [i \in 0..Len(s) |-> IF i = 0 THEN << >>
                            ELSE IF s[i] \in K THEN F[i - 1]
                            ELSE Append(F[i - 1], s[i])]
    BY <1>3, Zenon
  <2> HIDE DEF F
  <2> QED
    BY <2>1 DEF Filters
<1> HIDE DEF F
<1> QED
  BY <1>1, <1>4

(* What an element of the recursion is.                                    *)
LEMMA FilterUnfolds ==
  ASSUME NEW F, NEW s, NEW K, NEW n \in Nat, Filters(F, s, K, n), NEW i \in 1..n
  PROVE  F[i] = IF s[i] \in K THEN F[i - 1] ELSE Append(F[i - 1], s[i])
<1> DEFINE G == [j \in 0..n |-> IF j = 0 THEN << >>
                                ELSE IF s[j] \in K THEN F[j - 1]
                                ELSE Append(F[j - 1], s[j])]
<1>1. F = G
  BY DEF Filters
<1>2. G[i] = IF s[i] \in K THEN F[i - 1] ELSE Append(F[i - 1], s[i])
  <2>1. i \in 0..n /\ i # 0
    OBVIOUS
  <2> QED
    BY <2>1, Zenon
<1> HIDE DEF G
<1> QED
  BY <1>1, <1>2

(* Filtering the first n elements keeps, in order, those that are not in K. *)
Before(x, y, s, n) == \E i, j \in 1..n : i < j /\ x = s[i] /\ y = s[j]

Filtered(t, s, K, S, n) ==
  /\ t \in Seq(S)
  /\ Len(t) <= n
  /\ \A j \in 1..Len(t) : t[j] \notin K /\ \E i \in 1..n : t[j] = s[i]
  /\ \A i \in 1..n : s[i] \notin K => \E j \in 1..Len(t) : t[j] = s[i]
  /\ (\A i, j \in 1..n : s[i] = s[j] => i = j)
       => \A i, j \in 1..Len(t) : t[i] = t[j] => i = j
  /\ (\A i \in 1..n : s[i] \notin K) => Len(t) = n /\ \A j \in 1..n : t[j] = s[j]
  /\ (\E i \in 1..n : s[i] \in K) => Len(t) < n
  /\ \A p, q \in 1..Len(t) : p < q => Before(t[p], t[q], s, n)

(* One more element.                                                       *)
LEMMA FilterStep ==
  ASSUME NEW S, NEW s \in Seq(S), NEW K, NEW n \in Nat, n + 1 <= Len(s),
         NEW t, Filtered(t, s, K, S, n),
         NEW u, u = IF s[n + 1] \in K THEN t ELSE Append(t, s[n + 1])
  PROVE  Filtered(u, s, K, S, n + 1)
<1>1. t \in Seq(S) /\ Len(t) \in Nat /\ Len(t) <= n /\ s[n + 1] \in S
  BY DEF Filtered
<1>2. CASE s[n + 1] \in K
  <2>1. u = t
    BY <1>2
  <2>2. \A x, y : Before(x, y, s, n) => Before(x, y, s, n + 1)
    BY DEF Before
  <2> QED
    BY <1>1, <1>2, <2>1, <2>2 DEF Filtered
<1>3. CASE s[n + 1] \notin K
  <2>1. /\ u \in Seq(S) /\ Len(u) = Len(t) + 1 /\ u[Len(t) + 1] = s[n + 1]
        /\ \A j \in 1..Len(t) : u[j] = t[j]
    <3>1. u = Append(t, s[n + 1])
      BY <1>3
    <3> QED
      BY <1>1, <3>1
  <2>2. \A j \in 1..Len(u) : u[j] \notin K /\ \E i \in 1..(n + 1) : u[j] = s[i]
    <3>1. \A j \in 1..Len(t) : t[j] \notin K /\ \E i \in 1..n : t[j] = s[i]
      BY <1>1 DEF Filtered
    <3>2. Len(t) \in Nat /\ n + 1 \in 1..(n + 1) /\ 1..n \subseteq 1..(n + 1)
      BY <1>1
    <3>3. \A j \in 1..Len(u) : j \in 1..Len(t) \/ j = Len(t) + 1
      BY <2>1, <3>2
    <3> QED
      BY <1>3, <2>1, <3>1, <3>2, <3>3
  <2>3. \A i \in 1..(n + 1) : s[i] \notin K => \E j \in 1..Len(u) : u[j] = s[i]
    BY <1>1, <1>3, <2>1 DEF Filtered
  <2>4. ASSUME \A i, j \in 1..(n + 1) : s[i] = s[j] => i = j
        PROVE  \A i, j \in 1..Len(u) : u[i] = u[j] => i = j
    <3>1. \A i, j \in 1..n : s[i] = s[j] => i = j
      BY <2>4
    <3>2. \A i \in 1..n : s[i] # s[n + 1]
      BY <2>4
    <3>3. \A j \in 1..Len(t) : t[j] # s[n + 1]
      BY <3>2 DEF Filtered
    <3>4. \A i, j \in 1..Len(t) : t[i] = t[j] => i = j
      BY <3>1 DEF Filtered
    <3> QED
      BY <1>1, <2>1, <3>3, <3>4
  <2>5. ASSUME \A i \in 1..(n + 1) : s[i] \notin K
        PROVE  Len(u) = n + 1 /\ \A j \in 1..(n + 1) : u[j] = s[j]
    <3>1. Len(t) = n /\ \A j \in 1..n : t[j] = s[j]
      BY <2>5 DEF Filtered
    <3> QED
      BY <2>1, <3>1
  <2>6. ASSUME \E i \in 1..(n + 1) : s[i] \in K PROVE Len(u) < n + 1
    <3>1. Len(t) < n
      BY <1>3, <2>6 DEF Filtered
    <3> QED
      BY <1>1, <2>1, <3>1
  <2>7. Len(u) <= n + 1
    BY <1>1, <2>1
  <2>8. ASSUME NEW p \in 1..Len(u), NEW q \in 1..Len(u), p < q
        PROVE  Before(u[p], u[q], s, n + 1)
    <3>1. p \in 1..Len(t) /\ u[p] = t[p]
      BY <1>1, <2>1, <2>8
    <3>2. CASE q \in 1..Len(t)
      <4>1. u[q] = t[q]
        BY <2>1, <3>2
      <4>2. Before(t[p], t[q], s, n)
        BY <2>8, <3>1, <3>2 DEF Filtered
      <4> QED
        BY <3>1, <4>1, <4>2 DEF Before
    <3>3. CASE q = Len(t) + 1
      <4>1. PICK i \in 1..n : t[p] = s[i]
        BY <3>1 DEF Filtered
      <4>2. i \in 1..(n + 1) /\ n + 1 \in 1..(n + 1) /\ i < n + 1
        OBVIOUS
      <4> QED
        BY <2>1, <3>1, <3>3, <4>1, <4>2 DEF Before
    <3> QED
      BY <1>1, <2>1, <3>2, <3>3
  <2> QED
    BY <2>1, <2>2, <2>3, <2>4, <2>5, <2>6, <2>7, <2>8 DEF Filtered
<1> QED
  BY <1>2, <1>3

(* All of them.                                                            *)
LEMMA WithoutIsFiltered ==
  ASSUME NEW S, NEW s \in Seq(S), NEW K
  PROVE  Filtered(Without(s, K), s, K, S, Len(s))
<1>1. Len(s) \in Nat
  OBVIOUS
<1>2. PICK F : Filters(F, s, K, Len(s)) /\ Without(s, K) = F[Len(s)]
  BY <1>1, WithoutFilters
<1> DEFINE T == {n \in Nat : n <= Len(s) => Filtered(F[n], s, K, S, n)}
<1>3. 0 \in T
  <2>1. F[0] = << >>
    BY <1>1, <1>2 DEF Filters
  <2>2. Filtered(<< >>, s, K, S, 0)
    <3>1. << >> \in Seq(S) /\ Len(<< >>) = 0 /\ 1..0 = {}
      OBVIOUS
    <3> QED
      BY <3>1 DEF Filtered
  <2> QED
    BY <2>1, <2>2
<1>4. ASSUME NEW n \in T PROVE n + 1 \in T
  <2>1. SUFFICES ASSUME n + 1 <= Len(s) PROVE Filtered(F[n + 1], s, K, S, n + 1)
    OBVIOUS
  <2>2. n \in Nat /\ Filtered(F[n], s, K, S, n)
    BY <1>1, <2>1
  <2>3. n + 1 \in 1..Len(s) /\ n + 1 - 1 = n
    BY <1>1, <2>1, <2>2
  <2>4. F[n + 1] = IF s[n + 1] \in K THEN F[n + 1 - 1]
                   ELSE Append(F[n + 1 - 1], s[n + 1])
    BY <1>1, <1>2, <2>3, FilterUnfolds
  <2> QED
    BY <2>1, <2>2, <2>3, <2>4, FilterStep
<1>5. T = Nat
  <2> HIDE DEF T
  <2>1. T \in SUBSET Nat
    BY DEF T
  <2> QED
    BY <1>3, <1>4, <2>1, Induction
<1> QED
  BY <1>1, <1>2, <1>5

(***************************************************************************)
(* Lemmas about the cache.                                                 *)
(***************************************************************************)

(* Forgetting keys drops their entries and no others.                      *)
LEMMA ForgetEntries ==
  ASSUME ValuesOK, NEW K, Forget(K)
  PROVE  /\ value' \in [Keys -> Nat] /\ deadline' \in [Keys -> Nat]
         /\ \A k \in Keys : /\ value'[k] = IF k \in K THEN 0 ELSE value[k]
                            /\ deadline'[k] = IF k \in K THEN 0 ELSE deadline[k]
BY DEF ValuesOK, Forget

(* set writes one entry; whatever it evicts, the others are as they were   *)
(* or gone.                                                                *)
LEMMA PutEntries ==
  ASSUME ValuesOK, NEW k \in Keys, NEW v \in Nat, Put(k, v)
  PROVE  /\ value' \in [Keys -> Nat] /\ deadline' \in [Keys -> Nat]
         /\ \A j \in Keys :
              \/ value'[j] = 0 /\ deadline'[j] = 0
              \/ j = k /\ value'[j] = v
              \/ j # k /\ value'[j] = value[j] /\ deadline'[j] = deadline[j]
<1> DEFINE after == Append(Without(lru, {k}), k)
           surplus == IF Len(after) > MaxEntries THEN Len(after) - MaxEntries ELSE 0
           evicted == {after[i] : i \in 1..surplus}
<1>1. PICK E : /\ value' = [j \in Keys |-> IF j \in E THEN 0
                                         ELSE IF j = k THEN v ELSE value[j]]
               /\ deadline' = [j \in Keys |-> IF j \in E THEN 0
                                    ELSE IF j = k THEN now + ttl ELSE deadline[j]]
  BY Zenon DEF Put
<1>2. now + ttl \in Nat
  BY LimitsAssumption, BoundsAssumption DEF ValuesOK
<1> QED
  BY <1>1, <1>2 DEF ValuesOK

(* A live entry has a deadline.                                            *)
LEMMA LiveHasDeadline ==
  ASSUME ValuesOK, NEW k \in Keys, Live(k)
  PROVE  deadline[k] # 0
BY BoundsAssumption DEF ValuesOK, Live

(***************************************************************************)
(* The initial states and the steps.                                       *)
(***************************************************************************)

(* The cache starts empty, with nobody at work.                            *)
LEMMA InitInv == Init => IInv
<1> SUFFICES ASSUME Init PROVE IInv
  OBVIOUS
<1>1. ValuesOK
  <2>1. truth \in [Keys -> Nat] /\ \A k \in Keys : truth[k] <= LastVersion[k]
    BY BoundsAssumption DEF Init
  <2>2. NoReply \in Replies /\ NoFloor \in Floors
    BY DEF NoReply, Reply, Replies, Outcomes, NoFloor, Floors
  <2>3. \A k \in Keys : value[k] <= truth[k]
    BY <2>1 DEF Init
  <2> QED
    BY <2>1, <2>2, <2>3, BoundsAssumption DEF Init, ValuesOK
<1>2. Fetches /\ Entries /\ Promises /\ Answers /\ Handed
  BY BoundsAssumption DEF Init, Fetches, Fetching, Entries, Promises, Answers, Handed,
         GoodAnswer, GoodRead
<1> QED
  BY <1>1, <1>2 DEF IInv

(* Time passes.                                                            *)
LEMMA TickStep ==
  ASSUME IInv, Tick
  PROVE  IInv'
<1> USE DEF IInv, Tick, cacheVars, callVars, history
<1>1. ValuesOK'
  BY BoundsAssumption DEF ValuesOK
<1>2. Fetches' /\ Entries' /\ Promises' /\ Answers'
  BY DEF Fetches, Fetching, Entries, Promises, Answers, GoodAnswer, Joiners
<1>3. Handed'
  BY DEF Handed, GoodRead
<1> QED
  BY <1>1, <1>2, <1>3

(* The provider's object is edited: what it once had stays what it once    *)
(* had.                                                                    *)
LEMMA EditStep ==
  ASSUME IInv, NEW k \in Keys, Edit(k)
  PROVE  IInv'
<1> USE DEF IInv, cacheVars, callVars, history
<1>1. /\ truth' \in [Keys -> Nat] /\ truth'[k] = truth[k] + 1
      /\ truth[k] < LastVersion[k]
      /\ \A j \in Keys \ {k} : truth'[j] = truth[j]
      /\ UNCHANGED <<ttl, now, cacheVars, leader, callVars, history>>
  BY DEF ValuesOK, Edit
<1>2. \A j \in Keys : /\ truth[j] \in Nat /\ truth'[j] \in Nat
                      /\ truth[j] <= truth'[j]
  BY <1>1 DEF ValuesOK
<1>3. ValuesOK'
  BY <1>1, <1>2, BoundsAssumption DEF ValuesOK
<1>4. Fetches' /\ Entries'
  BY <1>1, <1>2 DEF ValuesOK, Fetches, Fetching, Entries
<1>5. Promises'
  BY <1>1, <1>2 DEF ValuesOK, Promises, Fetches, Floors
<1>6. Answers'
  BY <1>1, <1>2 DEF ValuesOK, Answers, GoodAnswer, Joiners, Fetches, Replies
<1>7. Handed'
  BY <1>1 DEF Handed, GoodRead
<1> QED
  BY <1>3, <1>4, <1>5, <1>6, <1>7

(* The provider answers with what it has, or not at all.                   *)
LEMMA AnswerStep ==
  ASSUME IInv, NEW c \in Callers, Answer(c)
  PROVE  IInv'
<1> DEFINE v == truth[key[c]]
<1> USE DEF IInv, history, cacheVars
<1>1. /\ pc[c] = "asking" /\ pc' = [pc EXCEPT ![c] = "answered"] /\ key[c] \in Keys
      /\ UNCHANGED <<ttl, now, truth, cacheVars, leader, key, history>>
  BY DEF Answer, Fetches
<1>2. v \in Nat
  BY <1>1 DEF ValuesOK
<1>3. PICK r \in {Holding(v), Reply("failed", 0)} : reply' = [reply EXCEPT ![c] = r]
  BY DEF Answer
<1>4. /\ r \in Replies
      /\ r.outcome = "value" => r.version = v /\ v > 0
      /\ r.outcome = "denied" => v = 0
      /\ r.outcome # "none"
  BY <1>2, <1>3 DEF Holding, Reply, Replies, Outcomes
<1>5. ValuesOK'
  BY <1>1, <1>3, <1>4 DEF ValuesOK
<1>6. Fetches' /\ Entries' /\ Promises'
  BY <1>1 DEF ValuesOK, Fetches, Fetching, Entries, Promises
<1>7. Answers'
  <2> SUFFICES ASSUME NEW d \in Callers, pc'[d] = "answered"
               PROVE  GoodAnswer(d)'
    BY DEF Answers
  <2>1. Joiners(d)' = Joiners(d)
    BY <1>1 DEF ValuesOK, Joiners
  <2>2. CASE d # c
    BY <1>1, <1>3, <2>1, <2>2 DEF ValuesOK, Answers, GoodAnswer
  <2>3. CASE d = c
    <3>1. /\ floor[c] \in Floors /\ floor[c].held <= v /\ floor[c].shown <= v
          /\ floor[c].refreshed <= v /\ shown[key[c]] <= v /\ refreshed[key[c]] <= v
      BY <1>1, <1>2 DEF ValuesOK, Promises, Entries, Floors
    <3>2. \A e \in Joiners(c) : floor[e].refreshed <= v
      <4> SUFFICES ASSUME NEW e \in Joiners(c) PROVE floor[e].refreshed <= v
        OBVIOUS
      <4>1. /\ e \in Callers /\ pc[e] = "joined" /\ key[e] = key[c]
            /\ floor[e].refreshed <= refreshed[key[c]]
            /\ floor[e].refreshed \in Nat /\ refreshed[key[c]] \in Nat
        BY <1>1 DEF Joiners, Promises, ValuesOK, Floors
      <4> QED
        BY <1>2, <3>1, <4>1
    <3>3. reply'[c] = r
      BY <1>3 DEF ValuesOK
    <3>4. floor[c].held > 0 => r.outcome # "denied"
      BY <1>2, <1>4, <3>1 DEF Floors
    <3> QED
      BY <1>1, <1>2, <1>4, <2>1, <2>3, <3>1, <3>2, <3>3, <3>4 DEF GoodAnswer
  <2> QED
    BY <2>2, <2>3
<1>8. Handed'
  <2>1. \A d \in Callers : pc'[d] = "done" => pc[d] = "done" /\ reply'[d] = reply[d]
    BY <1>1, <1>3 DEF ValuesOK
  <2> QED
    BY <1>1, <2>1 DEF Handed, GoodRead
<1> QED
  BY <1>5, <1>6, <1>7, <1>8

(* A call begins: it is served from a live entry, joins the fetch of its   *)
(* key, or leads one.                                                      *)
LEMMA CallStep ==
  ASSUME IInv, NEW c \in Callers, NEW k \in Keys,
         NEW state \in {"asking", "joined", "done"}, Call(c, k, state),
         value' \in [Keys -> Nat], deadline' \in [Keys -> Nat],
         \A j \in Keys : \/ value'[j] = 0 /\ deadline'[j] = 0
                         \/ value'[j] = value[j] /\ deadline'[j] = deadline[j],
         \/ /\ state = "asking" /\ ttl = 0
            /\ UNCHANGED <<leader, reply>>
         \/ /\ state = "asking" /\ ttl > 0 /\ leader[k] = NoCaller
            /\ leader' = [leader EXCEPT ![k] = c] /\ UNCHANGED reply
         \/ /\ state = "joined" /\ ttl > 0 /\ leader[k] # NoCaller
            /\ UNCHANGED <<leader, reply>>
         \/ /\ state = "done" /\ deadline[k] # 0 /\ UNCHANGED leader
            /\ reply' = [reply EXCEPT ![c] = Holding(value[k])]
  PROVE  IInv'
<1> DEFINE f == [held |-> truth[k], shown |-> shown[k], refreshed |-> refreshed[k],
                 overtaken |-> overtaken[k], joined |-> state = "joined"]
<1> USE DEF IInv
<1>1. /\ pc[c] = "idle" /\ pc' = [pc EXCEPT ![c] = state]
      /\ key' = [key EXCEPT ![c] = k] /\ floor' = [floor EXCEPT ![c] = f]
      /\ UNCHANGED <<ttl, now, truth, shown, refreshed, overtaken>>
  BY DEF Call
<1>2. f \in Floors
  BY DEF ValuesOK, Floors
<1>3. Holding(value[k]) \in Replies
  BY DEF ValuesOK, Holding, Reply, Replies, Outcomes
<1>4. /\ leader' \in [Keys -> Callers \cup {NoCaller}]
      /\ \A j \in Keys : leader'[j] = leader[j] \/ leader'[j] = c
      /\ reply' \in [Callers -> Replies]
      /\ \A d \in Callers \ {c} : reply'[d] = reply[d]
  BY <1>3 DEF ValuesOK
<1>5. ValuesOK'
  <2>1. \A j \in Keys : value'[j] <= truth[j]
    BY DEF ValuesOK
  <2> QED
    BY <1>1, <1>2, <1>4, <2>1 DEF ValuesOK
<1>6. Fetches'
  BY <1>1, KeysAssumption DEF ValuesOK, Fetches, Fetching
<1>7. Entries'
  BY <1>1 DEF ValuesOK, Entries
<1>8. Promises'
  <2> SUFFICES ASSUME NEW d \in Callers, pc'[d] # "idle"
               PROVE  /\ floor'[d].held <= truth[key'[d]]
                      /\ floor'[d].shown <= shown[key'[d]]
                      /\ floor'[d].refreshed <= refreshed[key'[d]]
                      /\ pc'[d] = "joined" => floor'[d].joined
    BY <1>1 DEF Promises
  <2>1. CASE d # c
    BY <1>1, <2>1 DEF ValuesOK, Promises
  <2>2. CASE d = c
    <3>1. floor'[d] = f /\ key'[d] = k /\ pc'[d] = state
      BY <1>1, <2>2 DEF ValuesOK
    <3>2. truth[k] \in Nat /\ shown[k] \in Nat /\ refreshed[k] \in Nat
      BY DEF ValuesOK
    <3>3. state = "joined" => f.joined
      BY Zenon
    <3> QED
      BY <3>1, <3>2, <3>3
  <2> QED
    BY <2>1, <2>2
<1>9. Answers'
  <2> SUFFICES ASSUME NEW d \in Callers, pc'[d] = "answered"
               PROVE  GoodAnswer(d)'
    BY DEF Answers
  <2>1. /\ d # c /\ pc[d] = "answered" /\ reply'[d] = reply[d] /\ key'[d] = key[d]
        /\ floor'[d] = floor[d]
    BY <1>1, <1>4 DEF ValuesOK
  <2>2. ASSUME NEW e \in Joiners(d)', reply[d].outcome = "value"
        PROVE  floor'[e].overtaken \/ reply[d].version >= floor'[e].refreshed
    <3>1. CASE e # c
      <4>1. /\ e \in Callers /\ pc'[e] = "joined" /\ key'[e] = key'[d]
            /\ leader'[key'[d]] = d /\ key[d] \in Keys
        BY <2>1, <2>2 DEF Joiners, Fetches
      <4>2. pc[e] = "joined" /\ key[e] = key[d] /\ floor'[e] = floor[e]
        BY <1>1, <2>1, <3>1, <4>1 DEF ValuesOK
      <4>3. leader[key[d]] = d
        BY <1>4, <2>1, <4>1
      <4>4. e \in Joiners(d)
        BY <4>1, <4>2, <4>3 DEF Joiners
      <4> QED
        BY <2>1, <2>2, <4>2, <4>4 DEF Answers, GoodAnswer
    <3>2. CASE e = c
      <4>1. state = "joined" /\ ttl > 0 /\ k = key[d] /\ floor'[e] = f
        BY <1>1, <2>1, <3>2 DEF ValuesOK, Joiners
      <4>2. overtaken[k] \/ reply[d].version >= refreshed[k]
        BY <2>1, <2>2, <4>1 DEF Answers, GoodAnswer
      <4> QED
        BY <4>1, <4>2
    <3> QED
      BY <3>1, <3>2
  <2> QED
    BY <1>1, <2>1, <2>2 DEF Answers, GoodAnswer
<1>10. Handed'
  <2> SUFFICES ASSUME NEW d \in Callers, pc'[d] = "done"
               PROVE  GoodRead(d)'
    BY DEF Handed
  <2>1. CASE d # c
    BY <1>1, <1>4, <2>1 DEF ValuesOK, Handed, GoodRead
  <2>2. CASE d = c
    <3>1. /\ state = "done" /\ reply'[d] = Holding(value[k]) /\ floor'[d] = f
          /\ deadline[k] # 0
      BY <1>1, <2>2 DEF ValuesOK
    <3>2. /\ value[k] > 0 /\ value[k] >= shown[k]
          /\ overtaken[k] \/ value[k] >= refreshed[k]
      BY <3>1 DEF Entries
    <3>3. Holding(value[k]).outcome = "value" /\ Holding(value[k]).version = value[k]
      BY <3>2 DEF Holding, Reply, ValuesOK
    <3> QED
      BY <3>1, <3>2, <3>3 DEF GoodRead
  <2> QED
    BY <2>1, <2>2
<1> QED
  BY <1>5, <1>6, <1>7, <1>8, <1>9, <1>10

(* The four ways a call begins.                                            *)
LEMMA CallsStep ==
  ASSUME IInv, NEW c \in Callers, NEW k \in Keys,
         CallUncached(c, k) \/ Hit(c, k) \/ Join(c, k) \/ Lead(c, k)
  PROVE  IInv'
<1> USE DEF IInv
<1>1. CASE CallUncached(c, k)
  <2>1. /\ Call(c, k, "asking") /\ ttl = 0
        /\ UNCHANGED <<value, deadline, leader, reply>>
    BY <1>1 DEF CallUncached, cacheVars
  <2> QED
    BY <2>1, CallStep DEF ValuesOK
<1>2. CASE Hit(c, k)
  <2>1. /\ Call(c, k, "done") /\ reply' = [reply EXCEPT ![c] = Holding(value[k])]
        /\ UNCHANGED <<value, deadline, leader>>
    BY <1>2 DEF Hit
  <2>2. deadline[k] # 0
    BY <1>2, LiveHasDeadline DEF Hit
  <2> QED
    BY <2>1, <2>2, CallStep DEF ValuesOK
<1>3. ASSUME NEW state, Miss(c, k, state)
      PROVE  /\ Call(c, k, state) /\ ttl > 0 /\ UNCHANGED reply
             /\ value' \in [Keys -> Nat] /\ deadline' \in [Keys -> Nat]
             /\ \A j \in Keys : \/ value'[j] = 0 /\ deadline'[j] = 0
                                \/ value'[j] = value[j] /\ deadline'[j] = deadline[j]
  BY <1>3, ForgetEntries DEF Miss
<1>4. CASE Join(c, k)
  <2>1. Miss(c, k, "joined") /\ leader[k] # NoCaller /\ UNCHANGED leader
    BY <1>4 DEF Join
  <2> QED
    BY <1>3, <2>1, CallStep
<1>5. CASE Lead(c, k)
  <2>1. /\ Miss(c, k, "asking") /\ leader[k] = NoCaller
        /\ leader' = [leader EXCEPT ![k] = c]
    BY <1>5 DEF Lead
  <2> QED
    BY <1>3, <2>1, CallStep
<1> QED
  BY <1>1, <1>2, <1>4, <1>5

(* A fetch ends with r: its leader and whoever joined it are given r, which *)
(* is one of their calls' answers or a cancellation.                       *)
LEMMA ResolveStep ==
  ASSUME IInv, NEW c \in Callers, Fetching(c), NEW r, Resolve(c, r),
         \/ r = Reply("cancelled", 0)
         \/ pc[c] = "answered" /\ r = reply[c],
         UNCHANGED <<ttl, now, truth, key, floor, refreshed, overtaken>>,
         value' \in [Keys -> Nat], deadline' \in [Keys -> Nat],
         \A j \in Keys :
           \/ value'[j] = 0 /\ deadline'[j] = 0
           \/ value'[j] = value[j] /\ deadline'[j] = deadline[j]
                /\ (j = key[c] => r.outcome # "value" \/ ttl = 0)
           \/ j = key[c] /\ ttl > 0 /\ r.outcome = "value" /\ value'[j] = r.version
  PROVE  IInv'
<1> DEFINE settled == {c} \cup Joiners(c)
<1> USE DEF IInv
<1>1. /\ pc' = [d \in Callers |-> IF d \in settled THEN "done" ELSE pc[d]]
      /\ reply' = [d \in Callers |-> IF d \in settled THEN r ELSE reply[d]]
      /\ shown' = [k \in Keys |-> IF k = key[c] /\ r.outcome = "value"
                                      /\ r.version > shown[k]
                                   THEN r.version ELSE shown[k]]
      /\ leader' = [k \in Keys |-> IF leader[k] = c THEN NoCaller ELSE leader[k]]
  BY Zenon DEF Resolve
<1>2. /\ r \in Replies /\ key[c] \in Keys
      /\ r.outcome = "value" => pc[c] = "answered" /\ r = reply[c]
                                  /\ r.version > 0 /\ r.version <= truth[key[c]]
  BY DEF ValuesOK, Fetches, Fetching, Reply, Replies, Outcomes, Answers, GoodAnswer
<1>3. \A d \in settled : d \in Callers /\ pc[d] # "idle" /\ key[d] = key[c]
  BY DEF Joiners, Fetching
<1>4. /\ shown' \in [Keys -> Nat]
      /\ \A k \in Keys : /\ shown[k] <= shown'[k]
                         /\ shown'[k] <= truth[k]
                         /\ \/ shown'[k] = shown[k]
                            \/ /\ k = key[c] /\ r.outcome = "value"
                               /\ shown'[k] = r.version
                         /\ k = key[c] /\ r.outcome = "value" => r.version <= shown'[k]
  <2>1. r.version \in Nat
    BY <1>2 DEF Replies
  <2>2. shown' \in [Keys -> Nat]
    BY <1>1, <2>1 DEF ValuesOK
  <2>3. ASSUME NEW k \in Keys
        PROVE  /\ shown[k] <= shown'[k]
               /\ shown'[k] <= truth[k]
               /\ \/ shown'[k] = shown[k]
                  \/ k = key[c] /\ r.outcome = "value" /\ shown'[k] = r.version
               /\ k = key[c] /\ r.outcome = "value" => r.version <= shown'[k]
    <3>1. shown[k] \in Nat /\ truth[k] \in Nat /\ shown[k] <= truth[k]
      BY DEF ValuesOK, Entries
    <3>2. CASE k = key[c] /\ r.outcome = "value" /\ r.version > shown[k]
      <4>1. shown'[k] = r.version
        BY <1>1, <3>2
      <4> QED
        BY <1>2, <2>1, <3>1, <3>2, <4>1
    <3>3. CASE ~(k = key[c] /\ r.outcome = "value" /\ r.version > shown[k])
      <4>1. shown'[k] = shown[k]
        BY <1>1, <3>3
      <4> QED
        BY <2>1, <3>1, <3>3, <4>1
    <3> QED
      BY <3>2, <3>3
  <2> QED
    BY <2>2, <2>3
<1>5. ValuesOK'
  <2>1. \A j \in Keys : value'[j] <= truth[j]
    BY <1>2 DEF ValuesOK, Replies
  <2> QED
    BY <1>1, <1>2, <1>4, <2>1 DEF ValuesOK
<1>6. Fetches'
  <2>1. ASSUME NEW k \in Keys, leader'[k] # NoCaller
        PROVE  pc'[leader'[k]] \in {"asking", "answered"} /\ key[leader'[k]] = k
    <3>1. leader'[k] = leader[k] /\ leader[k] # c /\ leader[k] \in Callers
      BY <1>1, <2>1 DEF ValuesOK
    <3>2. Fetching(leader[k]) /\ key[leader[k]] = k
      BY <2>1, <3>1 DEF Fetches
    <3> QED
      BY <1>1, <3>1, <3>2 DEF Fetching, Joiners
  <2>3. ttl = 0 => \A k \in Keys : leader'[k] = NoCaller /\ deadline'[k] = 0
    BY <1>1 DEF ValuesOK, Fetches
  <2>2. ASSUME NEW d \in Callers
        PROVE  /\ pc'[d] # "idle" => key[d] \in Keys
               /\ pc'[d] = "joined" => leader'[key[d]] # NoCaller
               /\ ttl > 0 /\ Fetching(d)' => leader'[key[d]] = d
    BY <1>1, <1>3, KeysAssumption DEF ValuesOK, Fetches, Fetching, Joiners
  <2> QED
    BY <2>1, <2>2, <2>3 DEF Fetches, Fetching
<1>7. Entries'
  <2> SUFFICES ASSUME NEW k \in Keys
               PROVE  /\ shown'[k] <= truth[k] /\ refreshed[k] <= truth[k]
                      /\ deadline'[k] # 0 =>
                           /\ value'[k] > 0
                           /\ value'[k] >= shown'[k]
                           /\ overtaken[k] \/ value'[k] >= refreshed[k]
    BY DEF Entries
  <2>1. CASE value'[k] = 0 /\ deadline'[k] = 0
    BY <1>4, <2>1 DEF Entries
  <2>2. CASE /\ value'[k] = value[k] /\ deadline'[k] = deadline[k]
             /\ k = key[c] => r.outcome # "value" \/ ttl = 0
    <3>1. deadline[k] # 0 => shown'[k] = shown[k]
      BY <1>4, <2>2 DEF Fetches
    <3> QED
      BY <1>4, <2>2, <3>1 DEF Entries
  <2>3. CASE k = key[c] /\ ttl > 0 /\ r.outcome = "value" /\ value'[k] = r.version
    <3>1. /\ r.version > 0 /\ r.version >= shown[k]
          /\ overtaken[k] \/ r.version >= refreshed[k]
      BY <1>2, <2>3 DEF Answers, GoodAnswer
    <3>2. r.version >= shown'[k]
      BY <1>2, <1>4, <2>3, <3>1 DEF Replies
    <3> QED
      BY <1>4, <2>3, <3>1, <3>2 DEF Entries
  <2> QED
    BY <2>1, <2>2, <2>3
<1>8. Promises'
  <2> SUFFICES ASSUME NEW d \in Callers, pc'[d] # "idle"
               PROVE  /\ floor[d].held <= truth[key[d]]
                      /\ floor[d].shown <= shown'[key[d]]
                      /\ floor[d].refreshed <= refreshed[key[d]]
                      /\ pc'[d] = "joined" => floor[d].joined
    BY DEF Promises
  <2>1. pc[d] # "idle" /\ (pc'[d] = "joined" => pc[d] = "joined") /\ key[d] \in Keys
    BY <1>1, <1>3 DEF Fetches
  <2>2. floor[d].shown \in Nat /\ shown[key[d]] \in Nat /\ shown'[key[d]] \in Nat
    BY <1>4, <2>1 DEF ValuesOK, Floors
  <2> QED
    BY <1>4, <2>1, <2>2 DEF Promises
<1>9. Answers'
  <2> SUFFICES ASSUME NEW d \in Callers, pc'[d] = "answered"
               PROVE  GoodAnswer(d)'
    BY DEF Answers
  <2>1. d \notin settled /\ pc[d] = "answered" /\ reply'[d] = reply[d] /\ key[d] \in Keys
    BY <1>1 DEF Fetches
  <2>2. ttl > 0 => shown'[key[d]] = shown[key[d]]
    BY <1>4, <2>1 DEF Fetches, Fetching
  <2>3. Joiners(d)' \subseteq Joiners(d)
    BY <1>1, <2>1, KeysAssumption DEF Joiners
  <2> QED
    BY <2>1, <2>2, <2>3 DEF Answers, GoodAnswer
<1>10. Handed'
  <2> SUFFICES ASSUME NEW d \in Callers, pc'[d] = "done"
               PROVE  GoodRead(d)'
    BY DEF Handed
  <2>1. CASE d \notin settled
    BY <1>1, <2>1 DEF Handed, GoodRead
  <2>2. CASE d = c
    <3>1. reply'[d] = r
      BY <1>1, <2>2
    <3> QED
      BY <1>2, <2>2, <3>1 DEF GoodRead, Answers, GoodAnswer, Reply
  <2>3. CASE d \in Joiners(c)
    <3>1. /\ reply'[d] = r /\ pc[d] = "joined" /\ key[d] = key[c] /\ d \in Callers
          /\ leader[key[c]] = c
      BY <1>1, <2>3 DEF Joiners
    <3>2. floor[d].joined /\ floor[d].shown <= shown[key[c]] /\ ttl > 0
      <4>1. floor[d].joined /\ floor[d].shown <= shown[key[c]]
        BY <3>1 DEF Promises
      <4>2. ttl # 0 /\ ttl \in Nat
        BY <1>2, <3>1, KeysAssumption, LimitsAssumption DEF Fetches, ValuesOK
      <4> QED
        BY <4>1, <4>2
    <3>3. r.outcome = "value" =>
            /\ r.version >= shown[key[c]]
            /\ floor[d].overtaken \/ r.version >= floor[d].refreshed
      BY <1>2, <2>3, <3>2 DEF Answers, GoodAnswer
    <3>4. /\ floor[d].shown \in Nat /\ shown[key[c]] \in Nat /\ r.version \in Nat
      BY <1>2, <3>1 DEF ValuesOK, Floors, Replies
    <3> QED
      BY <3>1, <3>2, <3>3, <3>4 DEF GoodRead
  <2> QED
    BY <2>1, <2>2, <2>3
<1> QED
  BY <1>5, <1>6, <1>7, <1>8, <1>9, <1>10

(* The leader's request ends: every value is given to the cache first.     *)
LEMMA CompleteStep ==
  ASSUME IInv, NEW c \in Callers, Complete(c)
  PROVE  IInv'
<1> USE DEF IInv
<1>1. /\ pc[c] = "answered" /\ Resolve(c, reply[c])
      /\ UNCHANGED <<ttl, now, truth, key, floor, refreshed, overtaken>>
  BY DEF Complete
<1>2. key[c] \in Keys /\ reply[c].version \in Nat
  BY <1>1 DEF ValuesOK, Fetches, Replies
<1>3. CASE ttl > 0 /\ reply[c].outcome = "value"
  <2>1. Put(key[c], reply[c].version)
    BY <1>3 DEF Complete
  <2>2. /\ value' \in [Keys -> Nat] /\ deadline' \in [Keys -> Nat]
        /\ \A j \in Keys :
             \/ value'[j] = 0 /\ deadline'[j] = 0
             \/ j = key[c] /\ value'[j] = reply[c].version
             \/ j # key[c] /\ value'[j] = value[j] /\ deadline'[j] = deadline[j]
    BY <1>2, <2>1, PutEntries
  <2> QED
    BY <1>1, <1>3, <2>2, ResolveStep DEF Fetching
<1>4. CASE ~(ttl > 0 /\ reply[c].outcome = "value")
  <2>1. UNCHANGED <<value, deadline>>
    BY <1>4 DEF Complete, cacheVars
  <2>2. ttl = 0 \/ reply[c].outcome # "value"
    BY <1>4, LimitsAssumption DEF ValuesOK
  <2> QED
    BY <1>1, <2>1, <2>2, ResolveStep DEF Fetching, ValuesOK
<1> QED
  BY <1>3, <1>4

(* The leader's task is cancelled, and its fetch with it.                  *)
LEMMA CancelLeaderStep ==
  ASSUME IInv, NEW c \in Callers, CancelLeader(c)
  PROVE  IInv'
<1>1. /\ Fetching(c) /\ Resolve(c, Reply("cancelled", 0))
      /\ UNCHANGED <<ttl, now, truth, value, deadline, key, floor, refreshed, overtaken>>
  BY DEF CancelLeader, Fetching, cacheVars
<1>2. Reply("cancelled", 0).outcome # "value"
  BY DEF Reply
<1> QED
  BY <1>1, <1>2, ResolveStep DEF IInv, ValuesOK

(* A task that waits, or has been answered, goes: the others keep what they *)
(* have.                                                                   *)
LEMMA LeaveStep ==
  ASSUME IInv, NEW c \in Callers, CancelJoiner(c) \/ Return(c)
  PROVE  IInv'
<1> USE DEF IInv, cacheVars, history
<1>1. /\ pc[c] \in {"joined", "done"}
      /\ UNCHANGED <<ttl, now, truth, cacheVars, leader, shown, refreshed, overtaken>>
      /\ pc' \in [Callers -> {"idle", "asking", "answered", "joined", "done"}]
      /\ \A d \in Callers \ {c} : /\ pc'[d] = pc[d] /\ key'[d] = key[d]
                                  /\ reply'[d] = reply[d] /\ floor'[d] = floor[d]
  BY DEF CancelJoiner, Return, ValuesOK
<1>2. \/ /\ pc[c] = "joined" /\ pc'[c] = "done" /\ key'[c] = key[c] /\ floor'[c] = floor[c]
         /\ reply'[c] = Reply("cancelled", 0)
      \/ pc'[c] = "idle"
  BY DEF CancelJoiner, Return, ValuesOK
<1>3. ValuesOK'
  <2>1. NoReply \in Replies /\ NoFloor \in Floors /\ Reply("cancelled", 0) \in Replies
    BY DEF NoReply, Reply, Replies, Outcomes, NoFloor, Floors
  <2>2. /\ reply' \in [Callers -> Replies] /\ floor' \in [Callers -> Floors]
        /\ key' \in [Callers -> Keys \cup {NoKey}]
    BY <2>1 DEF CancelJoiner, Return, ValuesOK
  <2> QED
    BY <1>1, <2>2 DEF ValuesOK
<1>4. Fetches'
  BY <1>1, <1>2 DEF ValuesOK, Fetches, Fetching
<1>5. Entries'
  BY <1>1 DEF Entries
<1>6. Promises'
  BY <1>1, <1>2 DEF Promises
<1>7. Answers'
  <2> SUFFICES ASSUME NEW d \in Callers, pc'[d] = "answered"
               PROVE  GoodAnswer(d)'
    BY DEF Answers
  <2>1. d # c /\ pc[d] = "answered"
    BY <1>1, <1>2
  <2>2. Joiners(d)' \subseteq Joiners(d) \ {c}
    BY <1>1, <1>2, <2>1 DEF Joiners
  <2> QED
    BY <1>1, <2>1, <2>2 DEF Answers, GoodAnswer, Joiners
<1>8. Handed'
  <2>1. Reply("cancelled", 0).outcome \notin {"value", "denied"}
    BY DEF Reply
  <2> QED
    BY <1>1, <1>2, <2>1 DEF Handed, GoodRead
<1> QED
  BY <1>3, <1>4, <1>5, <1>6, <1>7, <1>8

(* A refresh drops the entries of its tokens and lets the fetches be.      *)
LEMMA RefreshStep ==
  ASSUME IInv, NEW T \in Refreshes, Refresh(T)
  PROVE  IInv'
<1> DEFINE K == {k \in Keys : TokenOf[k] \in T}
<1> USE DEF IInv, callVars
<1>1. /\ value' \in [Keys -> Nat] /\ deadline' \in [Keys -> Nat]
      /\ \A k \in Keys : /\ value'[k] = IF k \in K THEN 0 ELSE value[k]
                         /\ deadline'[k] = IF k \in K THEN 0 ELSE deadline[k]
  BY ForgetEntries DEF Refresh
<1>2. /\ refreshed' = [k \in Keys |-> IF k \in K THEN truth[k] ELSE refreshed[k]]
      /\ overtaken' = [k \in Keys |-> IF k \in K THEN leader[k] # NoCaller
                                                 ELSE overtaken[k]]
      /\ UNCHANGED <<ttl, now, truth, leader, callVars, floor, shown>>
  BY Zenon DEF Refresh
<1>3. ValuesOK'
  <2>1. \A k \in Keys : value'[k] <= truth[k]
    BY <1>1 DEF ValuesOK
  <2>2. refreshed' \in [Keys -> Nat] /\ overtaken' \in [Keys -> BOOLEAN]
    BY <1>2 DEF ValuesOK
  <2> QED
    BY <1>1, <1>2, <2>1, <2>2 DEF ValuesOK
<1>4. Fetches'
  BY <1>1, <1>2 DEF Fetches, Fetching
<1>5. \A k \in Keys : refreshed[k] <= refreshed'[k] /\ refreshed'[k] <= truth[k]
  BY <1>2 DEF ValuesOK, Entries
<1>6. Entries'
  BY <1>1, <1>2, <1>5 DEF Entries
<1>7. Promises'
  <2> SUFFICES ASSUME NEW c \in Callers, pc[c] # "idle"
               PROVE  floor[c].refreshed <= refreshed'[key[c]]
    BY <1>2 DEF Promises
  <2>1. key[c] \in Keys /\ floor[c].refreshed <= refreshed[key[c]]
    BY DEF Promises, Fetches
  <2>2. /\ floor[c].refreshed \in Nat /\ refreshed[key[c]] \in Nat
        /\ refreshed'[key[c]] \in Nat
    BY <1>3, <2>1 DEF ValuesOK, Floors
  <2> QED
    BY <1>5, <2>1, <2>2
<1>8. Answers'
  <2> SUFFICES ASSUME NEW c \in Callers, pc[c] = "answered"
               PROVE  GoodAnswer(c)'
    BY <1>2 DEF Answers
  <2>1. GoodAnswer(c) /\ key[c] \in Keys
    BY DEF Answers, Fetches
  <2>2. Joiners(c)' = Joiners(c)
    BY <1>2 DEF Joiners
  <2>3. ttl > 0 /\ (overtaken[key[c]] \/ reply[c].version >= refreshed[key[c]])
          => overtaken'[key[c]] \/ reply[c].version >= refreshed'[key[c]]
    <3>1. ttl > 0 => leader[key[c]] # NoCaller
      BY KeysAssumption DEF Fetches, Fetching
    <3> QED
      BY <1>2, <2>1, <3>1
  <2> QED
    BY <1>2, <2>1, <2>2, <2>3 DEF GoodAnswer
<1>9. Handed'
  BY <1>2 DEF Handed, GoodRead
<1> QED
  BY <1>3, <1>4, <1>6, <1>7, <1>8, <1>9

(* Every step.                                                             *)
LEMMA StepInv == IInv /\ [Next]_vars => IInv'
<1> SUFFICES ASSUME IInv, [Next]_vars PROVE IInv'
  OBVIOUS
<1>1. CASE Tick
  BY <1>1, TickStep
<1>2. CASE \E k \in Keys : Edit(k)
  BY <1>2, EditStep
<1>3. CASE \E T \in Refreshes : Refresh(T)
  BY <1>3, RefreshStep
<1>4. ASSUME NEW c \in Callers, Step(c) PROVE IInv'
  BY <1>4, AnswerStep, CompleteStep, LeaveStep DEF Step
<1>5. ASSUME NEW c \in Callers, CancelLeader(c) \/ CancelJoiner(c) PROVE IInv'
  BY <1>5, CancelLeaderStep, LeaveStep
<1>6. ASSUME NEW c \in Callers, NEW k \in Keys,
             CallUncached(c, k) \/ Hit(c, k) \/ Join(c, k) \/ Lead(c, k)
      PROVE  IInv'
  BY <1>6, CallsStep
<1>7. CASE UNCHANGED vars
  BY <1>7 DEF vars, cacheVars, callVars, history, IInv, ValuesOK, Fetches, Fetching,
     Entries, Promises, Answers, GoodAnswer, Joiners, Handed, GoodRead
<1> QED
  BY <1>1, <1>2, <1>3, <1>4, <1>5, <1>6, <1>7 DEF Next

(* The invariant holds in every state the cache reaches.                   *)
LEMMA Invariance == Spec => []IInv
BY InitInv, StepInv, PTL DEF Spec

(***************************************************************************)
(* The list of the entries.                                                *)
(***************************************************************************)

(* A list that names no key twice.                                         *)
LEMMA Injective ==
  ASSUME NEW l \in Seq(Keys)
  PROVE  IsInjective(l) <=> \A i, j \in 1..Len(l) : l[i] = l[j] => i = j
BY DEF IsInjective

(* Forgetting keys takes them off the list, and no others.                 *)
LEMMA ForgetList ==
  ASSUME ListOK, NEW K, Forget(K)
  PROVE  /\ ListOK' /\ Cached' = Cached \ K
         /\ \A p, q \in 1..Len(lru') : p < q =>
              Before(lru'[p], lru'[q], lru, Len(lru))
<1>1. lru \in Seq(Keys) /\ Len(lru) \in Nat /\ Len(lru) <= MaxEntries
  BY DEF ListOK
<1>2. \A i, j \in 1..Len(lru) : lru[i] = lru[j] => i = j
  BY <1>1, Injective DEF ListOK
<1>3. lru' = Without(lru, K)
  BY DEF Forget
<1>4. Filtered(lru', lru, K, Keys, Len(lru))
  BY <1>1, <1>3, WithoutIsFiltered
<1>5. /\ lru' \in Seq(Keys) /\ Len(lru') \in Nat /\ Len(lru') <= Len(lru)
      /\ \A i, j \in 1..Len(lru') : lru'[i] = lru'[j] => i = j
  BY <1>2, <1>4 DEF Filtered
<1>6. ListOK'
  <2>1. IsInjective(lru')
    BY <1>5, Injective
  <2>2. Len(lru') <= MaxEntries
    BY <1>1, <1>5, LimitsAssumption
  <2> QED
    BY <1>5, <2>1, <2>2 DEF ListOK
<1>7. Cached' = Cached \ K
  <2>1. Cached' = {lru'[i] : i \in 1..Len(lru')} /\ Cached = {lru[i] : i \in 1..Len(lru)}
    BY DEF Cached
  <2>2. \A x : (\E j \in 1..Len(lru') : lru'[j] = x)
                <=> x \notin K /\ \E i \in 1..Len(lru) : lru[i] = x
    BY <1>4 DEF Filtered
  <2> QED
    BY <2>1, <2>2
<1>8. \A p, q \in 1..Len(lru') : p < q => Before(lru'[p], lru'[q], lru, Len(lru))
  BY <1>4 DEF Filtered
<1> QED
  BY <1>6, <1>7, <1>8

(* A key moved, or added, to the recent end of the list.                   *)
ToEnd(a, k) ==
  /\ a \in Seq(Keys) /\ Len(a) \in Nat
  /\ \A i, j \in 1..Len(a) : a[i] = a[j] => i = j
  /\ \A x : (\E i \in 1..Len(a) : a[i] = x) <=> x \in Cached \cup {k}
  /\ IF k \in Cached THEN Len(a) <= Len(lru)
     ELSE Len(a) = Len(lru) + 1 /\ \A i \in 1..Len(lru) : a[i] = lru[i]
  /\ \A p, q \in 1..Len(a) : p < q =>
       a[p] # k /\ (a[q] = k \/ Before(a[p], a[q], lru, Len(lru)))

(* move_to_end.                                                            *)
LEMMA MoveToEnd ==
  ASSUME ListOK, NEW k \in Keys
  PROVE  ToEnd(Append(Without(lru, {k}), k), k)
<1> DEFINE t == Without(lru, {k})
           a == Append(t, k)
<1>1. lru \in Seq(Keys) /\ Len(lru) \in Nat
  BY DEF ListOK
<1>2. \A i, j \in 1..Len(lru) : lru[i] = lru[j] => i = j
  BY <1>1, Injective DEF ListOK
<1>3. Filtered(t, lru, {k}, Keys, Len(lru))
  BY <1>1, WithoutIsFiltered
<1> HIDE DEF t
<1>4. t \in Seq(Keys) /\ Len(t) \in Nat
  BY <1>3 DEF Filtered
<1>5. /\ a \in Seq(Keys) /\ Len(a) = Len(t) + 1 /\ a[Len(t) + 1] = k
      /\ \A i \in 1..Len(t) : a[i] = t[i]
  BY <1>4
<1> HIDE DEF a
<1>6. \A i, j \in 1..Len(a) : a[i] = a[j] => i = j
  <2>1. \A i, j \in 1..Len(t) : t[i] = t[j] => i = j
    BY <1>2, <1>3 DEF Filtered
  <2>2. \A i \in 1..Len(t) : t[i] # k
    BY <1>3 DEF Filtered
  <2> QED
    BY <1>4, <1>5, <2>1, <2>2
<1>7. \A x : (\E i \in 1..Len(a) : a[i] = x) <=> x \in Cached \cup {k}
  <2>1. \A x : (\E i \in 1..Len(t) : t[i] = x) <=> x \in Cached /\ x # k
    <3>1. /\ \A j \in 1..Len(t) : t[j] \notin {k} /\ \E i \in 1..Len(lru) : t[j] = lru[i]
          /\ \A i \in 1..Len(lru) : lru[i] \notin {k} =>
               \E j \in 1..Len(t) : t[j] = lru[i]
      BY <1>3, Zenon DEF Filtered
    <3> QED
      BY <3>1 DEF Cached
  <2>2. \A x : (\E i \in 1..Len(a) : a[i] = x)
                 <=> x = k \/ \E i \in 1..Len(t) : t[i] = x
    BY <1>4, <1>5
  <2> QED
    BY <2>1, <2>2
<1>11. ASSUME NEW p \in 1..Len(a), NEW q \in 1..Len(a), p < q
       PROVE  a[p] # k /\ (a[q] = k \/ Before(a[p], a[q], lru, Len(lru)))
  <2>1. p \in 1..Len(t) /\ a[p] = t[p] /\ t[p] # k
    BY <1>3, <1>4, <1>5, <1>11 DEF Filtered
  <2>2. CASE q \in 1..Len(t)
    <3>1. a[q] = t[q] /\ Before(t[p], t[q], lru, Len(lru))
      BY <1>3, <1>5, <1>11, <2>1, <2>2 DEF Filtered
    <3> QED
      BY <2>1, <3>1
  <2> QED
    BY <1>4, <1>5, <2>1, <2>2
<1>8. ASSUME k \in Cached PROVE ToEnd(a, k)
  <2>1. Len(t) < Len(lru)
    BY <1>3, <1>8 DEF Filtered, Cached
  <2>2. Len(a) <= Len(lru)
    BY <1>1, <1>4, <1>5, <2>1
  <2> QED
    BY <1>4, <1>5, <1>6, <1>7, <1>8, <1>11, <2>2 DEF ToEnd
<1>9. ASSUME k \notin Cached PROVE ToEnd(a, k)
  <2>1. Len(t) = Len(lru) /\ \A i \in 1..Len(lru) : t[i] = lru[i]
    BY <1>3, <1>9 DEF Filtered, Cached
  <2> QED
    BY <1>1, <1>4, <1>5, <1>6, <1>7, <1>9, <1>11, <2>1 DEF ToEnd
<1>10. ToEnd(a, k)
  BY <1>8, <1>9
<1> QED
  BY <1>10 DEF a, t

(* The oldest entry of a full list, which stays full.                      *)
Oldest(j) == j = Head(lru) /\ Len(lru) = MaxEntries /\ Len(lru') = MaxEntries

(* set evicts the least recent entry, and only from a full list.           *)
LEMMA PutList ==
  ASSUME ListOK, NEW k \in Keys, NEW v, Put(k, v)
  PROVE  /\ ListOK' /\ \A j \in Cached \ Cached' : Oldest(j)
         /\ \A p, q \in 1..Len(lru') : p < q =>
              /\ lru'[p] # k
              /\ lru'[q] = k \/ Before(lru'[p], lru'[q], lru, Len(lru))
<1> DEFINE a == Append(Without(lru, {k}), k)
           surplus == IF Len(a) > MaxEntries THEN Len(a) - MaxEntries ELSE 0
<1>1. ToEnd(a, k)
  BY MoveToEnd
<1>2. lru' = SubSeq(a, surplus + 1, Len(a))
  BY Zenon DEF Put
<1> HIDE DEF a
<1>3. /\ lru \in Seq(Keys) /\ Len(lru) \in Nat /\ Len(lru) <= MaxEntries
      /\ MaxEntries \in Nat \ {0}
  BY LimitsAssumption DEF ListOK
<1>4. /\ a \in Seq(Keys) /\ Len(a) \in Nat /\ Len(a) <= Len(lru) + 1
      /\ surplus \in {0, 1} /\ Len(a) - surplus <= MaxEntries
      /\ surplus = 1 => Len(lru) = MaxEntries /\ Len(a) = Len(lru) + 1
  BY <1>1, <1>3 DEF ToEnd
<1>5. /\ lru' \in Seq(Keys) /\ Len(lru') = Len(a) - surplus
      /\ \A i \in 1..Len(lru') : lru'[i] = a[i + surplus]
  <2>1. /\ surplus + 1 \in Int /\ Len(a) \in Int /\ surplus + 1 <= Len(a) + 1
        /\ \A i \in (surplus + 1)..Len(a) : a[i] \in Keys
    BY <1>3, <1>4
  <2>2. /\ lru' \in Seq(Keys)
        /\ Len(lru') = IF surplus + 1 <= Len(a) THEN Len(a) - (surplus + 1) + 1 ELSE 0
        /\ \A i \in 1..(Len(a) - (surplus + 1) + 1) : lru'[i] = a[surplus + 1 + i - 1]
    <3> HIDE DEF surplus
    <3> QED
      BY <1>2, <2>1, SubSeqProperties
  <2> HIDE DEF surplus
  <2>3. Len(lru') = Len(a) - surplus
    BY <1>4, <2>1, <2>2
  <2>4. ASSUME NEW i \in 1..Len(lru') PROVE lru'[i] = a[i + surplus]
    <3>1. i \in 1..(Len(a) - (surplus + 1) + 1) /\ surplus + 1 + i - 1 = i + surplus
      BY <1>4, <2>3
    <3> QED
      BY <2>2, <3>1
  <2> QED
    BY <2>2, <2>3, <2>4
<1> HIDE DEF surplus
<1>6. ListOK'
  <2>1. \A i, j \in 1..Len(lru') : lru'[i] = lru'[j] => i = j
    BY <1>1, <1>4, <1>5 DEF ToEnd
  <2> QED
    BY <1>3, <1>4, <1>5, <2>1, Injective DEF ListOK
<1>7. ASSUME NEW j \in Cached, j \notin Cached' PROVE Oldest(j)
  <2>1. PICK i \in 1..Len(a) : a[i] = j
    BY <1>1, <1>7 DEF ToEnd
  <2>2. i <= surplus
    <3>1. SUFFICES ASSUME i > surplus PROVE FALSE
      BY <1>4
    <3>2. i - surplus \in 1..Len(lru') /\ lru'[i - surplus] = j
      BY <1>4, <1>5, <2>1, <3>1
    <3> QED
      BY <1>7, <3>2 DEF Cached
  <2>3. surplus = 1 /\ i = 1
    BY <1>4, <2>2
  <2>4. Len(lru) = MaxEntries /\ Len(a) = Len(lru) + 1 /\ Len(lru') = MaxEntries
    BY <1>3, <1>4, <1>5, <2>3
  <2>5. a[1] = lru[1]
    BY <1>1, <1>3, <2>4 DEF ToEnd
  <2>6. Head(lru) = lru[1]
    BY <1>3, <2>4
  <2> QED
    BY <2>1, <2>3, <2>4, <2>5, <2>6 DEF Oldest
<1>8. ASSUME NEW p \in 1..Len(lru'), NEW q \in 1..Len(lru'), p < q
      PROVE  /\ lru'[p] # k
             /\ lru'[q] = k \/ Before(lru'[p], lru'[q], lru, Len(lru))
  <2>1. /\ p + surplus \in 1..Len(a) /\ q + surplus \in 1..Len(a)
        /\ p + surplus < q + surplus
    BY <1>4, <1>5, <1>8
  <2> QED
    BY <1>1, <1>5, <2>1 DEF ToEnd
<1> QED
  BY <1>6, <1>7, <1>8

(* Of two entries the later in the list was used after the other.          *)
Ordered ==
  /\ since \in [Keys -> SUBSET Keys]
  /\ \A i, j \in 1..Len(lru) : i < j => lru[j] \in since[lru[i]]

(* Entries only go: those that stay are in their order.                    *)
LEMMA NoneUsedOrder ==
  ASSUME ListOK, Ordered, ListOK', NoneUsed,
         \A p, q \in 1..Len(lru') : p < q => Before(lru'[p], lru'[q], lru, Len(lru))
  PROVE  Ordered'
<1>1. since' = [j \in Keys |-> IF j \notin Cached' THEN {} ELSE since[j] \cap Cached']
  BY DEF NoneUsed
<1>2. since' \in [Keys -> SUBSET Keys]
  BY <1>1 DEF Ordered
<1>3. ASSUME NEW p \in 1..Len(lru'), NEW q \in 1..Len(lru'), p < q
      PROVE  lru'[q] \in since'[lru'[p]]
  <2>1. lru'[p] \in Keys /\ lru'[p] \in Cached' /\ lru'[q] \in Cached'
    BY DEF ListOK, Cached
  <2>2. lru'[q] \in since[lru'[p]]
    <3>1. PICK i \in 1..Len(lru), j \in 1..Len(lru) :
                 i < j /\ lru'[p] = lru[i] /\ lru'[q] = lru[j]
      BY <1>3 DEF Before
    <3> QED
      BY <3>1 DEF Ordered
  <2> QED
    BY <1>1, <2>1, <2>2
<1> QED
  BY <1>2, <1>3 DEF Ordered

(* An entry is used: it is last, and the others are in their order.        *)
LEMMA UsedOrder ==
  ASSUME ListOK, Ordered, ListOK', NEW k \in Keys, Used(k),
         \A p, q \in 1..Len(lru') : p < q =>
           lru'[p] # k /\ (lru'[q] = k \/ Before(lru'[p], lru'[q], lru, Len(lru)))
  PROVE  Ordered'
<1>1. since' = [j \in Keys |-> IF j = k \/ j \notin Cached' THEN {}
                               ELSE (since[j] \cup {k}) \cap Cached']
  BY DEF Used
<1>2. since' \in [Keys -> SUBSET Keys]
  BY <1>1 DEF Ordered
<1>3. ASSUME NEW p \in 1..Len(lru'), NEW q \in 1..Len(lru'), p < q
      PROVE  lru'[q] \in since'[lru'[p]]
  <2>1. /\ lru'[p] \in Keys /\ lru'[p] \in Cached' /\ lru'[q] \in Cached'
        /\ lru'[p] # k
    BY <1>3 DEF ListOK, Cached
  <2>2. ASSUME lru'[q] # k
        PROVE  lru'[q] \in since[lru'[p]]
    <3>1. PICK i \in 1..Len(lru), j \in 1..Len(lru) :
                 i < j /\ lru'[p] = lru[i] /\ lru'[q] = lru[j]
      BY <1>3, <2>2 DEF Before
    <3> QED
      BY <3>1 DEF Ordered
  <2> QED
    BY <1>1, <2>1, <2>2
<1> QED
  BY <1>2, <1>3 DEF Ordered

(* What the oldest entry leaves behind was all used after it.              *)
LeastUsed(j) ==
  /\ Len(lru) = MaxEntries /\ Len(lru') = MaxEntries
  /\ Cached \cap Cached' \subseteq since[j]

LEMMA OldestIsLeastUsed ==
  ASSUME ListOK, Ordered, NEW j \in Cached \ Cached', Oldest(j)
  PROVE  LeastUsed(j)
<1>1. /\ j = Head(lru) /\ Len(lru) = MaxEntries /\ Len(lru') = MaxEntries
      /\ lru \in Seq(Keys) /\ MaxEntries \in Nat \ {0}
  BY LimitsAssumption DEF Oldest, ListOK
<1>2. j = lru[1] /\ 1 \in 1..Len(lru)
  BY <1>1
<1>3. ASSUME NEW x \in Cached \cap Cached' PROVE x \in since[j]
  <2>1. PICK q \in 1..Len(lru) : x = lru[q]
    BY DEF Cached
  <2>2. q # 1
    BY <1>2, <2>1
  <2>3. 1 < q
    BY <1>1, <2>2
  <2> QED
    BY <1>2, <2>1, <2>3 DEF Ordered
<1> QED
  BY <1>1, <1>3 DEF LeastUsed

(* Every step keeps the list and its order, and takes a live entry off it  *)
(* only as a refresh of its token or as the oldest of a full list.         *)
LEMMA ListStep ==
  ASSUME IInv, ListOK, Ordered, [Next]_vars
  PROVE  /\ ListOK' /\ Ordered'
         /\ \A k \in Keys : Live(k) /\ k \notin Cached' =>
              (\E T \in Refreshes : TokenOf[k] \in T /\ Refresh(T)) \/ LeastUsed(k)
<1> DEFINE Stays(k) == Live(k) /\ k \notin Cached' =>
             (\E T \in Refreshes : TokenOf[k] \in T /\ Refresh(T)) \/ LeastUsed(k)
           Goal == ListOK' /\ Ordered' /\ \A k \in Keys : Stays(k)
<1>1. ASSUME lru' = lru, since' = since PROVE Goal
  BY <1>1 DEF ListOK, IsInjective, Cached, Live, Ordered
<1>2. CASE \/ Tick \/ \E k \in Keys : Edit(k)
           \/ \E c \in Callers : Answer(c) \/ Return(c) \/ CancelLeader(c)
                                 \/ CancelJoiner(c)
           \/ \E c \in Callers, k \in Keys : CallUncached(c, k)
           \/ UNCHANGED vars
  <2>1. lru' = lru /\ since' = since
    BY <1>2 DEF Tick, Edit, Answer, Return, CancelLeader, CancelJoiner,
       CallUncached, vars, cacheVars, history
  <2> QED
    BY <1>1, <2>1
<1>3. ASSUME NEW T \in Refreshes, Refresh(T) PROVE Goal
  <2>1. Forget({k \in Keys : TokenOf[k] \in T}) /\ NoneUsed
    BY <1>3 DEF Refresh
  <2>2. /\ ListOK' /\ Cached' = Cached \ {k \in Keys : TokenOf[k] \in T}
        /\ \A p, q \in 1..Len(lru') : p < q =>
             Before(lru'[p], lru'[q], lru, Len(lru))
    BY <2>1, ForgetList
  <2>3. Ordered'
    BY <2>1, <2>2, NoneUsedOrder
  <2>4. \A k \in Keys : Stays(k)
    BY <1>3, <2>2 DEF Live
  <2> QED
    BY <2>2, <2>3, <2>4
<1>4. ASSUME NEW c \in Callers, Complete(c) PROVE Goal
  <2>1. CASE ttl > 0 /\ reply[c].outcome = "value"
    <3>1. Put(key[c], reply[c].version) /\ Used(key[c]) /\ key[c] \in Keys
      BY <1>4, <2>1 DEF Complete, IInv, Fetches
    <3>2. /\ ListOK' /\ \A j \in Cached \ Cached' : Oldest(j)
          /\ \A p, q \in 1..Len(lru') : p < q =>
               /\ lru'[p] # key[c]
               /\ lru'[q] = key[c] \/ Before(lru'[p], lru'[q], lru, Len(lru))
      BY <3>1, PutList
    <3>3. Ordered'
      BY <3>1, <3>2, UsedOrder
    <3>4. \A k \in Keys : Stays(k)
      BY <3>2, OldestIsLeastUsed DEF Live
    <3> QED
      BY <3>2, <3>3, <3>4
  <2>2. CASE ~(ttl > 0 /\ reply[c].outcome = "value")
    BY <1>1, <1>4, <2>2 DEF Complete, cacheVars
  <2> QED
    BY <2>1, <2>2
<1>5. ASSUME NEW c \in Callers, NEW k \in Keys, Hit(c, k) PROVE Goal
  <2>1. lru' = Append(Without(lru, {k}), k) /\ k \in Cached /\ Used(k)
    BY <1>5 DEF Hit, Live
  <2>2. ToEnd(lru', k)
    BY <2>1, MoveToEnd
  <2>3. ListOK'
    <3>1. lru' \in Seq(Keys) /\ Len(lru') <= Len(lru)
      BY <2>1, <2>2 DEF ToEnd
    <3>2. IsInjective(lru')
      BY <2>2, <3>1, Injective DEF ToEnd
    <3>3. Len(lru') <= MaxEntries
      BY <3>1, LimitsAssumption DEF ListOK
    <3> QED
      BY <3>1, <3>2, <3>3 DEF ListOK
  <2>4. Ordered'
    BY <2>1, <2>2, <2>3, UsedOrder DEF ToEnd
  <2>5. Cached \subseteq Cached'
    BY <2>2 DEF ToEnd, Cached
  <2>6. \A j \in Keys : Stays(j)
    BY <2>5 DEF Live
  <2> QED
    BY <2>3, <2>4, <2>6
<1>6. ASSUME NEW c \in Callers, NEW k \in Keys, Join(c, k) \/ Lead(c, k) PROVE Goal
  <2>1. Forget({k}) /\ NoneUsed /\ ~Live(k)
    BY <1>6 DEF Join, Lead, Miss
  <2>2. /\ ListOK' /\ Cached' = Cached \ {k}
        /\ \A p, q \in 1..Len(lru') : p < q =>
             Before(lru'[p], lru'[q], lru, Len(lru))
    BY <2>1, ForgetList
  <2>3. Ordered'
    BY <2>1, <2>2, NoneUsedOrder
  <2>4. \A j \in Keys : Stays(j)
    BY <2>1, <2>2 DEF Live
  <2> QED
    BY <2>2, <2>3, <2>4
<1> QED
  BY <1>2, <1>3, <1>4, <1>5, <1>6 DEF Next, Step

(* The list keeps its shape and its order in every state the cache reaches. *)
LEMMA ListInvariance == Spec => [](ListOK /\ Ordered)
<1>1. Init => ListOK /\ Ordered
  BY LimitsAssumption DEF Init, ListOK, IsInjective, Ordered
<1>2. IInv /\ ListOK /\ Ordered /\ [Next]_vars => ListOK' /\ Ordered'
  BY ListStep
<1> QED
  BY <1>1, <1>2, Invariance, PTL DEF Spec

(***************************************************************************)
(* The properties.                                                         *)
(***************************************************************************)

(* The variables hold values of their types, and lru lists no entry twice  *)
(* and no more than MaxEntries of them.                                    *)
THEOREM TypeCorrect == Spec => []TypeOK
<1>1. IInv /\ ListOK /\ Ordered => TypeOK
  BY DEF IInv, TypeOK, Ordered
<1> QED
  BY <1>1, Invariance, ListInvariance, PTL

(* A key has one fetch under way at most, and nobody waits on a fetch that *)
(* is over.                                                                *)
THEOREM OneFetchPerKey == Spec => []SingleFlight
<1>1. IInv => SingleFlight
  BY KeysAssumption DEF IInv, SingleFlight, Fetches, Fetching, ValuesOK
<1> QED
  BY <1>1, Invariance, PTL

(* No call is given a version older than one shown before it began.        *)
THEOREM ReadsOnlyAdvance == Spec => []ReadsNeverGoBack
<1>1. IInv => ReadsNeverGoBack
  BY DEF IInv, ReadsNeverGoBack, Handed, GoodRead
<1> QED
  BY <1>1, Invariance, PTL

(* A refresh that met no fetch of the key takes effect on the next call.   *)
THEOREM RefreshesTakeEffect == Spec => []QuietRefreshTakesEffect
<1>1. IInv => QuietRefreshTakesEffect
  BY DEF IInv, QuietRefreshTakesEffect, Handed, GoodRead
<1> QED
  BY <1>1, Invariance, PTL

(* A refusal reaches only calls made before access was granted, and those  *)
(* that joined one.                                                        *)
THEOREM RefusalsPass == Spec => []RefusalIsNotRemembered
<1>1. IInv => RefusalIsNotRemembered
  BY DEF IInv, RefusalIsNotRemembered, Handed, GoodRead
<1> QED
  BY <1>1, Invariance, PTL

(* A live entry goes only with a refresh of its own token, or out of a     *)
(* full cache when every entry that stays was used after it (TTLCache.get, *)
(* set; invalidate_session).                                               *)
THEOREM LiveEntriesRemain == Spec => LiveEntriesStay
<1>1. IInv /\ ListOK /\ Ordered /\ [Next]_vars =>
        [\A k \in Keys : Live(k) /\ k \notin Cached' =>
           \/ \E T \in Refreshes : TokenOf[k] \in T /\ Refresh(T)
           \/ /\ Len(lru) = MaxEntries /\ Len(lru') = MaxEntries
              /\ Cached \cap Cached' \subseteq since[k]]_vars
  BY ListStep DEF LeastUsed
<1> QED
  BY <1>1, Invariance, ListInvariance, PTL DEF Spec, LiveEntriesStay

-----------------------------------------------------------------------------


(***************************************************************************)
(* The inductive invariant: what is left of the wait covers the sleep under *)
(* way, and the request overruns it by no more than the time it has spent   *)
(* in the call in flight and in the poll before that.                       *)
(***************************************************************************)
InTime(r) ==
    /\ phase[r] = "sleeping" => 0 <= due[r] /\ due[r] <= remaining[r]
    /\ phase[r] = "polling" => 0 <= due[r] /\ due[r] - CallTimeout <= remaining[r]
    /\ phase[r] = "fetching" => 0 <= due[r] /\ due[r] - 2 * CallTimeout <= remaining[r]

FabricIInv == FabricTypeOK /\ \A r \in Requests : InTime(r)

\* A pause is at least a second.
LEMMA PauseIsPositive ==
    ASSUME NEW header \in RetryHeaders
    PROVE  RetryAfter(header) \in Nat \ {0}
BY TimesAssumption DEF RetryAfter

\* Waiting sleeps for no longer than what is left, or ends the request.
LEMMA WaitStep ==
    ASSUME FabricTypeOK, NEW r \in Requests, NEW header \in RetryHeaders, NEW left \in Int,
           Wait(r, header, left)
    PROVE  /\ phase' \in [Requests -> {"idle", "starting", "sleeping", "polling",
                                       "fetching", "done"}]
           /\ due' \in [Requests -> Int]
           /\ \A q \in Requests \ {r} : phase'[q] = phase[q] /\ due'[q] = due[q]
           /\ \/ phase'[r] = "done"
              \/ phase'[r] = "sleeping" /\ 0 <= due'[r] /\ due'[r] <= left
<1> DEFINE retry == RetryAfter(header)
<1>1. retry \in Nat \ {0}
  BY PauseIsPositive
<1>2. CASE TooLate(retry, left)
  <2>1. phase' = [phase EXCEPT ![r] = "done"] /\ due' = due
    BY <1>2 DEF Wait, Finish
  <2> QED
    BY <2>1 DEF FabricTypeOK
<1>3. CASE ~TooLate(retry, left)
  <2>1. phase' = [phase EXCEPT ![r] = "sleeping"] /\ due' = [due EXCEPT ![r] = retry]
    BY <1>3 DEF Wait
  <2>2. 0 <= retry /\ retry <= left
    BY <1>1, <1>3 DEF TooLate
  <2> HIDE DEF retry
  <2> QED
    BY <1>1, <2>1, <2>2 DEF FabricTypeOK
<1> QED
  BY <1>2, <1>3

\* A request that has ended, or has not begun, waits for nothing.
LEMMA FinishStep ==
    ASSUME FabricIInv, NEW r \in Requests, NEW answer, Finish(r, answer),
           UNCHANGED <<kind, remaining, ended>>
    PROVE  FabricIInv'
BY DEF Finish, FabricIInv, FabricTypeOK, InTime

\* A call that leaves in time returns in time.
LEMMA SendStep ==
    ASSUME FabricIInv, NEW r \in Requests, NEW p \in {"starting", "polling", "fetching"},
           Send(r, p), UNCHANGED <<kind, remaining, ended>>,
           p = "polling" => 0 <= remaining[r],
           p = "fetching" => -CallTimeout <= remaining[r]
    PROVE  FabricIInv'
<1> USE DEF FabricIInv
<1>1. /\ phase' = [phase EXCEPT ![r] = p] /\ due' = [due EXCEPT ![r] = CallTimeout]
      /\ UNCHANGED <<kind, remaining, ended>>
  BY DEF Send
<1>2. FabricTypeOK'
  BY <1>1, TimesAssumption DEF FabricTypeOK
<1>3. ASSUME NEW q \in Requests PROVE InTime(q)'
  <2>1. CASE q # r
    BY <1>1, <2>1 DEF FabricTypeOK, InTime
  <2>2. CASE q = r
    <3>1. phase'[q] = p /\ due'[q] = CallTimeout /\ remaining'[q] = remaining[r]
      BY <1>1, <2>2 DEF FabricTypeOK
    <3>2. remaining[r] \in Int /\ CallTimeout \in Nat
      BY TimesAssumption DEF FabricTypeOK
    <3> QED
      BY <3>1, <3>2 DEF InTime
  <2> QED
    BY <2>1, <2>2
<1> QED
  BY <1>2, <1>3

\* A second passes for every request that is timed.
LEMMA FabricTickStep ==
    ASSUME FabricIInv, FabricTick
    PROVE  FabricIInv'
<1> USE DEF FabricIInv
<1>1. /\ \A r \in Requests : Timed(r) => due[r] > 0
      /\ due' = [r \in Requests |-> IF Timed(r) THEN due[r] - 1 ELSE due[r]]
      /\ remaining' = [r \in Requests |-> IF Waiting(r) THEN remaining[r] - 1
                                          ELSE remaining[r]]
      /\ UNCHANGED <<phase, kind, ended, result>>
  BY DEF FabricTick
<1>2. FabricTypeOK'
  BY <1>1 DEF FabricTypeOK
<1>3. ASSUME NEW r \in Requests PROVE InTime(r)'
  <2>1. CASE Waiting(r)
    <3>1. due[r] > 0 /\ due'[r] = due[r] - 1 /\ remaining'[r] = remaining[r] - 1
      BY <1>1, <2>1 DEF Timed
    <3>2. due[r] \in Int /\ remaining[r] \in Int /\ CallTimeout \in Nat
      BY TimesAssumption DEF FabricTypeOK
    <3> QED
      BY <1>1, <3>1, <3>2 DEF InTime
  <2>2. CASE ~Waiting(r)
    BY <1>1, <2>2 DEF Waiting, InTime
  <2> QED
    BY <2>1, <2>2
<1> QED
  BY <1>2, <1>3

\* Every request is idle at first.
LEMMA FabricInitInv == FabricInit => FabricIInv
BY DEF FabricInit, FabricIInv, FabricTypeOK, InTime

\* Every step keeps the wait in time.
LEMMA FabricStepInv == FabricIInv /\ [FabricNext]_fabricVars => FabricIInv'
<1> SUFFICES ASSUME FabricIInv, [FabricNext]_fabricVars PROVE FabricIInv'
  OBVIOUS
<1> USE DEF FabricIInv
<1>1. CASE FabricTick
  BY <1>1, FabricTickStep
<1>2. ASSUME NEW r \in Requests,
             AnswersAtOnce(r) \/ BadStart(r) \/ SeesFailure(r) \/ ResultArrives(r)
               \/ CallFails(r) \/ CallExpires(r)
      PROVE  FabricIInv'
  <2>1. /\ \E answer : Finish(r, answer)
        /\ UNCHANGED <<kind, remaining, ended>>
    BY <1>2 DEF AnswersAtOnce, BadStart, SeesFailure, ResultArrives, CallFails, CallExpires
  <2> QED
    BY <2>1, FinishStep
<1>3. ASSUME NEW r \in Requests, Fetch(r) PROVE FabricIInv'
  BY <1>3, SendStep DEF Fetch
<1>4. ASSUME NEW r \in Requests, Poll(r) PROVE FabricIInv'
  <2>1. 0 <= remaining[r]
    BY <1>4 DEF Poll, FabricTypeOK, InTime
  <2> QED
    BY <1>4, <2>1, SendStep DEF Poll
<1>5. ASSUME NEW r \in Requests, SeesSuccess(r) PROVE FabricIInv'
  <2>1. -CallTimeout <= remaining[r]
    BY <1>5, TimesAssumption DEF SeesSuccess, FabricTypeOK, InTime
  <2> QED
    BY <1>5, <2>1, SendStep DEF SeesSuccess
<1>6. ASSUME NEW r \in Requests, Accepted(r) PROVE FabricIInv'
  <2>1. PICK header \in RetryHeaders : Wait(r, header, MaxWait)
    BY <1>6 DEF Accepted
  <2>2. /\ remaining' = [remaining EXCEPT ![r] = MaxWait]
        /\ UNCHANGED <<kind, ended>> /\ MaxWait \in Int
    BY <1>6, TimesAssumption DEF Accepted
  <2>3. /\ phase' \in [Requests -> {"idle", "starting", "sleeping", "polling",
                                    "fetching", "done"}]
        /\ due' \in [Requests -> Int]
        /\ \A q \in Requests \ {r} : phase'[q] = phase[q] /\ due'[q] = due[q]
        /\ \/ phase'[r] = "done"
           \/ phase'[r] = "sleeping" /\ 0 <= due'[r] /\ due'[r] <= MaxWait
    BY <2>1, <2>2, WaitStep
  <2> QED
    BY <2>2, <2>3 DEF FabricTypeOK, InTime
<1>7. ASSUME NEW r \in Requests, StillRuns(r) PROVE FabricIInv'
  <2>1. PICK header \in RetryHeaders : Wait(r, header, remaining[r])
    BY <1>7 DEF StillRuns
  <2>2. UNCHANGED <<kind, remaining, ended>> /\ remaining[r] \in Int
    BY <1>7 DEF StillRuns, FabricTypeOK
  <2>3. /\ phase' \in [Requests -> {"idle", "starting", "sleeping", "polling",
                                    "fetching", "done"}]
        /\ due' \in [Requests -> Int]
        /\ \A q \in Requests \ {r} : phase'[q] = phase[q] /\ due'[q] = due[q]
        /\ \/ phase'[r] = "done"
           \/ phase'[r] = "sleeping" /\ 0 <= due'[r] /\ due'[r] <= remaining[r]
    BY <2>1, <2>2, WaitStep
  <2> QED
    BY <2>2, <2>3 DEF FabricTypeOK, InTime
<1>8. ASSUME NEW r \in Requests, OperationEnds(r) PROVE FabricIInv'
  BY <1>8 DEF OperationEnds, FabricTypeOK, InTime
<1>9. CASE UNCHANGED fabricVars
  BY <1>9 DEF fabricVars, FabricTypeOK, InTime
<1> QED
  BY <1>1, <1>2, <1>3, <1>4, <1>5, <1>6, <1>7, <1>8, <1>9 DEF FabricNext, FabricStep

\* The invariant holds in every state.
LEMMA FabricInvariance == FabricSpec => []FabricIInv
BY FabricInitInv, FabricStepInv, PTL DEF FabricSpec

\* The variables hold values of their types.
THEOREM FabricTypeCorrect == FabricSpec => []FabricTypeOK
<1>1. FabricIInv => FabricTypeOK
  BY DEF FabricIInv
<1> QED
  BY <1>1, FabricInvariance, PTL

\* _wait_for_operation gives up in time: a request overruns MAX_TOTAL_WAIT_SECONDS
\* by no more than the poll and the result it had already asked for.
THEOREM WaitEnds == FabricSpec => []WaitIsBounded
<1>1. FabricIInv => WaitIsBounded
  BY TimesAssumption DEF FabricIInv, FabricTypeOK, InTime, Waiting, WaitIsBounded
<1> QED
  BY <1>1, FabricInvariance, PTL
=============================================================================
