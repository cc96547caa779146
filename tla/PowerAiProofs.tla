--------------------------- MODULE PowerAiProofs ---------------------------
(***************************************************************************)
(* What Power AI answers, how often it asks the model, and what it keeps of *)
(* a conversation, proved for any requests, callers, questions and limits.  *)
(***************************************************************************)
EXTENDS PowerAi, SequenceTheorems, TLAPS

(***************************************************************************)
(* The inductive invariant.                                                *)
(***************************************************************************)

\* The turns of k after the a-th and up to the b-th, but at most the last MaxTurns of them.
Held(a, b) == IF b - a > MaxTurns THEN MaxTurns ELSE b - a
Recent(k, a, b) == [i \in 1 .. Held(a, b) |-> [key |-> k, n |-> b - Held(a, b) + i]]

\* The store K of conversations that had c turns and lost l of them: a conversation is kept
\* once, with its turns since the loss, and one that is not kept has lost them all.
TurnsOK(K, c, l) ==
    /\ K \in Seq(Entry)
    /\ c \in [Keys -> Nat] /\ l \in [Keys -> Nat] /\ \A k \in Keys : l[k] <= c[k]
    /\ \A i, j \in 1 .. Len(K) : K[i].key = K[j].key => i = j
    /\ \A i \in 1 .. Len(K) : \A k \in {K[i].key} : K[i].turns = Recent(k, l[k], c[k])
    /\ \A k \in Keys : (\A i \in 1 .. Len(K) : K[i].key # k) => l[k] = c[k]
StoreOK(K, c, l) == TurnsOK(K, c, l) /\ Len(K) <= MaxConversations

KeyOf(s) == <<s.token, s.conversation>>
ContextOf(s) ==
    IF WantsWorkspaceInventory(s.question.q, s.question.view) THEN s.question.context
    ELSE [s.question.context EXCEPT !.inventory = None]
BundleOf(s) == Handle(s.question.q, s.question.view, ContextOf(s))

\* An answer rests on evidence where it claims to, and where there is some.
Grounded(s, answer) ==
    /\ answer.author = "model" => /\ answer.status = "answered"
                                  /\ answer.evidence # {} /\ answer.cited \subseteq answer.evidence
    /\ CanAnswer(BundleOf(s)) /\ s.question.q.kind = None =>
         answer.status = "answered" /\ answer.evidence # {}

\* A request has asked the model no more often than its place allows: in the loop, once for
\* each round it has been through.
AskedLittle(s) ==
    /\ s.at = "resolving" => s.called = 0
    /\ s.at = "asking" => s.called <= s.round
    /\ s.at = "composing" => s.called <= MaxToolRounds + 1
    /\ s.called <= MaxToolRounds + 2

Working == {"resolving", "asking", "composing", "answered"}
InHand(s) == /\ s \in Request /\ s.token \in Tokens /\ s.conversation \in Conversations
             /\ s.question \in Questions

ToldOwn(s) == Len(s.told) <= MaxHistoryTurns /\ \A i \in 1 .. Len(s.told) : s.told[i].key = KeyOf(s)

RequestOK(s) ==
    /\ s \in Request
    /\ s.at \in Working => InHand(s)
    /\ AskedLittle(s)
    /\ s.at = "composing" => CanAnswer(BundleOf(s))
    /\ s.at = "answered" => Grounded(s, s.answer)
    /\ ToldOwn(s)
RequestsOK(R) == R \in [Requests -> Request] /\ \A r \in Requests : RequestOK(R[r])

RestOK ==
    /\ settings \in [enabled : BOOLEAN, configured : BOOLEAN] /\ library \in {"none", "loaded", "failed"}
    /\ used \subseteq Conversations /\ asked \in 0 .. MaxAsked

IInv == RestOK /\ StoreOK(kept, count, lost) /\ RequestsOK(req)

(***************************************************************************)
(* Lemmas about sequences of turns and entries.                            *)
(***************************************************************************)

(* The limits are positive.                                                *)
LEMMA Limits ==
    /\ MaxTurns \in Nat /\ MaxTurns >= 1 /\ MaxTurns \in Nat \ {0}
    /\ MaxConversations \in Nat /\ MaxConversations >= 1 /\ MaxConversations \in Nat \ {0}
    /\ MaxHistoryTurns \in Nat /\ MaxHistoryTurns \in Nat \ {0}
    /\ MaxToolRounds \in Nat
BY PowerAiAssumption

(* LastOf: the last n elements of a sequence, or all of fewer.             *)
LEMMA LastOfProperties ==
    ASSUME NEW S, NEW s \in Seq(S), NEW n \in Nat \ {0}, NEW t, t = LastOf(s, n)
    PROVE  /\ t \in Seq(S)
           /\ Len(t) = IF Len(s) > n THEN n ELSE Len(s)
           /\ \A i \in 1 .. Len(t) : t[i] = s[Len(s) - Len(t) + i]
<1> DEFINE m == IF Len(s) > n THEN Len(s) - n + 1 ELSE 1
<1>1. Len(s) \in Nat /\ m \in Nat /\ m >= 1 /\ \A i \in m .. Len(s) : s[i] \in S
  OBVIOUS
<1>2. t = SubSeq(s, m, Len(s))
  BY DEF LastOf
<1>3. /\ t \in Seq(S)
      /\ Len(t) = IF m <= Len(s) THEN Len(s) - m + 1 ELSE 0
      /\ \A i \in 1 .. Len(s) - m + 1 : t[i] = s[m + i - 1]
  <2> HIDE DEF m
  <2> QED
    BY <1>1, <1>2, SubSeqProperties
<1>4. Len(t) = IF Len(s) > n THEN n ELSE Len(s)
  <2>1. CASE Len(s) > n
    <3>1. m = Len(s) - n + 1 /\ m <= Len(s)
      BY <1>1, <2>1
    <3> QED
      BY <1>1, <1>3, <2>1, <3>1
  <2>2. CASE ~(Len(s) > n)
    <3>1. m = 1
      BY <2>2
    <3> QED
      BY <1>1, <1>3, <2>2, <3>1
  <2> QED
    BY <2>1, <2>2
<1>5. ASSUME NEW i \in 1 .. Len(t) PROVE t[i] = s[Len(s) - Len(t) + i]
  <2>1. i \in 1 .. Len(s) - m + 1 /\ m + i - 1 = Len(s) - Len(t) + i
    BY <1>1, <1>4
  <2> QED
    BY <1>3, <2>1
<1> QED
  BY <1>3, <1>4, <1>5

(* LastOf, for what is kept of a conversation.                             *)
LEMMA LastTurns ==
    ASSUME NEW s \in Seq(Turn), NEW t, t = LastOf(s, MaxTurns)
    PROVE  /\ t \in Seq(Turn)
           /\ Len(t) = IF Len(s) > MaxTurns THEN MaxTurns ELSE Len(s)
           /\ \A i \in 1 .. Len(t) : t[i] = s[Len(s) - Len(t) + i]
<1>1. MaxTurns \in Nat \ {0}
  BY Limits
<1> QED
  BY <1>1, LastOfProperties

(* RemoveAt: a sequence without its p-th element.                          *)
LEMMA RemoveAtProperties ==
    ASSUME NEW S, NEW s \in Seq(S), NEW p \in 1 .. Len(s), NEW t, t = RemoveAt(s, p)
    PROVE  /\ t \in Seq(S) /\ Len(t) = Len(s) - 1
           /\ \A i \in 1 .. Len(t) : t[i] = s[IF i < p THEN i ELSE i + 1]
<1> DEFINE a == SubSeq(s, 1, p - 1)
           b == SubSeq(s, p + 1, Len(s))
<1>1. /\ Len(s) \in Nat /\ p \in Nat
      /\ \A i \in 1 .. p - 1 : s[i] \in S
      /\ \A i \in p + 1 .. Len(s) : s[i] \in S
  OBVIOUS
<1>2. /\ a \in Seq(S) /\ Len(a) = p - 1 /\ \A i \in 1 .. p - 1 : a[i] = s[i]
  BY <1>1, SubSeqProperties
<1>3. /\ b \in Seq(S) /\ Len(b) = Len(s) - p
      /\ \A i \in 1 .. Len(s) - p : b[i] = s[p + i]
  BY <1>1, SubSeqProperties
<1>4. t = a \o b
  BY DEF RemoveAt
<1>5. /\ t \in Seq(S) /\ Len(t) = Len(a) + Len(b)
      /\ \A i \in 1 .. Len(a) + Len(b) : t[i] = IF i <= Len(a) THEN a[i] ELSE b[i - Len(a)]
  <2>1. /\ a \o b \in Seq(S) /\ Len(a \o b) = Len(a) + Len(b)
        /\ \A i \in 1 .. Len(a) + Len(b) :
             (a \o b)[i] = IF i <= Len(a) THEN a[i] ELSE b[i - Len(a)]
    <3>1. a \in Seq(S) /\ b \in Seq(S)
      BY <1>2, <1>3
    <3> HIDE DEF a, b
    <3> QED
      BY <3>1, ConcatProperties, Zenon
  <2> HIDE DEF a, b
  <2> QED
    BY <1>4, <2>1
<1> HIDE DEF a, b
<1>6. Len(t) = Len(s) - 1
  BY <1>1, <1>2, <1>3, <1>5
<1>7. ASSUME NEW i \in 1 .. Len(t) PROVE t[i] = s[IF i < p THEN i ELSE i + 1]
  <2>1. CASE i < p
    BY <1>1, <1>2, <1>5, <1>6, <2>1
  <2>2. CASE ~(i < p)
    <3>1. i - Len(a) \in 1 .. Len(s) - p /\ p + (i - Len(a)) = i + 1 /\ ~(i <= Len(a))
      BY <1>1, <1>2, <1>6, <2>2
    <3>2. i \in 1 .. Len(a) + Len(b)
      BY <1>5
    <3> QED
      BY <1>3, <1>5, <2>2, <3>1, <3>2
  <2> QED
    BY <2>1, <2>2
<1> QED
  BY <1>5, <1>6, <1>7

(* What is kept of the turns since the a-th.                               *)
LEMMA RecentProperties ==
    ASSUME NEW k \in Keys, NEW a \in Nat, NEW b \in Nat, a <= b, NEW t, t = Recent(k, a, b)
    PROVE  /\ t \in Seq(Turn) /\ Held(a, b) \in Nat /\ Len(t) = Held(a, b)
           /\ Held(a, b) <= b - a
           /\ \A i \in 1 .. Len(t) : t[i] = [key |-> k, n |-> b - Held(a, b) + i]
<1>1. Held(a, b) \in Nat /\ Held(a, b) <= b - a
  BY Limits DEF Held
<1>2. \A i \in 1 .. Held(a, b) : [key |-> k, n |-> b - Held(a, b) + i] \in Turn
  BY <1>1 DEF Turn
<1> QED
  BY <1>1, <1>2 DEF Recent

(* It is the last of them.                                                 *)
LEMMA RecentIsLast ==
    ASSUME NEW k \in Keys, NEW a \in Nat, NEW b \in Nat, a <= b
    PROVE  LastOf([n \in 1 .. b - a |-> [key |-> k, n |-> a + n]], MaxTurns) = Recent(k, a, b)
<1> DEFINE s == [n \in 1 .. b - a |-> [key |-> k, n |-> a + n]]
           t == LastOf(s, MaxTurns)
           u == Recent(k, a, b)
<1>1. s \in Seq(Turn) /\ Len(s) = b - a /\ \A i \in 1 .. b - a : s[i] = [key |-> k, n |-> a + i]
  BY DEF Turn
<1> HIDE DEF s
<1>2. /\ t \in Seq(Turn) /\ Len(t) = IF Len(s) > MaxTurns THEN MaxTurns ELSE Len(s)
      /\ \A i \in 1 .. Len(t) : t[i] = s[Len(s) - Len(t) + i]
  BY <1>1, LastTurns
<1>3. /\ u \in Seq(Turn) /\ Held(a, b) \in Nat /\ Len(u) = Held(a, b) /\ Held(a, b) <= b - a
      /\ \A i \in 1 .. Len(u) : u[i] = [key |-> k, n |-> b - Held(a, b) + i]
  BY RecentProperties
<1> HIDE DEF t, u
<1>4. Len(t) = Held(a, b)
  BY <1>1, <1>2 DEF Held
<1>5. ASSUME NEW i \in 1 .. Len(t) PROVE t[i] = u[i]
  <2>1. /\ b - a - Len(t) + i \in 1 .. b - a
        /\ a + (b - a - Len(t) + i) = b - Held(a, b) + i
    BY <1>3, <1>4
  <2> QED
    BY <1>1, <1>2, <1>3, <1>4, <2>1
<1>6. t = u
  BY <1>2, <1>3, <1>4, <1>5, SeqEqual
<1> QED
  BY <1>6 DEF s, t, u

(* What has the elements of LastOf is it.                                  *)
LEMMA IsLast ==
    ASSUME NEW v \in Seq(Turn), NEW u \in Seq(Turn),
           Len(u) = IF Len(v) > MaxTurns THEN MaxTurns ELSE Len(v),
           \A i \in 1 .. Len(u) : u[i] = v[Len(v) - Len(u) + i],
           NEW t, t = LastOf(v, MaxTurns)
    PROVE  t = u
<1>1. /\ t \in Seq(Turn) /\ Len(t) = Len(u)
      /\ \A i \in 1 .. Len(t) : t[i] = v[Len(v) - Len(t) + i]
  BY LastTurns
<1>2. \A i \in 1 .. Len(t) : t[i] = u[i]
  BY <1>1
<1> QED
  BY <1>1, <1>2, SeqEqual

(* One more turn, and the first may go.                                    *)
LEMMA RecentGrows ==
    ASSUME NEW k \in Keys, NEW a \in Nat, NEW b \in Nat, a <= b
    PROVE  LastOf(Append(Recent(k, a, b), [key |-> k, n |-> b + 1]), MaxTurns)
             = Recent(k, a, b + 1)
<1>1. PICK c \in Nat : c = b + 1
  OBVIOUS
<1>2. \A d \in Nat : a <= d =>
         \E w \in Seq(Turn), m \in Nat :
            /\ w = Recent(k, a, d) /\ m = Held(a, d) /\ Len(w) = m
            /\ \A i \in 1 .. m : w[i] = [key |-> k, n |-> d - m + i]
  <2> SUFFICES ASSUME NEW d \in Nat, a <= d
               PROVE  \E w \in Seq(Turn), m \in Nat :
                         /\ w = Recent(k, a, d) /\ m = Held(a, d) /\ Len(w) = m
                         /\ \A i \in 1 .. m : w[i] = [key |-> k, n |-> d - m + i]
    OBVIOUS
  <2>1. PICK w : w = Recent(k, a, d)
    OBVIOUS
  <2>2. /\ w \in Seq(Turn) /\ Held(a, d) \in Nat /\ Len(w) = Held(a, d)
        /\ \A i \in 1 .. Len(w) : w[i] = [key |-> k, n |-> d - Held(a, d) + i]
    BY <2>1, RecentProperties
  <2>3. \A i \in 1 .. Held(a, d) : w[i] = [key |-> k, n |-> d - Held(a, d) + i]
    BY <2>2
  <2> QED
    BY <2>1, <2>2, <2>3, Zenon
<1>3. PICK s \in Seq(Turn), h \in Nat :
         /\ s = Recent(k, a, b) /\ h = Held(a, b) /\ Len(s) = h
         /\ \A i \in 1 .. h : s[i] = [key |-> k, n |-> b - h + i]
  BY <1>2
<1>4. PICK u \in Seq(Turn), g \in Nat :
         /\ u = Recent(k, a, c) /\ g = Held(a, c) /\ Len(u) = g
         /\ \A i \in 1 .. g : u[i] = [key |-> k, n |-> c - g + i]
  <2>1. c \in Nat /\ a <= c
    BY <1>1
  <2> QED
    BY <1>2, <2>1, Zenon
<1>6. PICK v : v = Append(s, [key |-> k, n |-> c])
  OBVIOUS
<1>7. Len(s) = h /\ \A i \in 1 .. h : s[i] = [key |-> k, n |-> b - h + i]
  BY <1>3
<1>8. Len(u) = g /\ \A i \in 1 .. g : u[i] = [key |-> k, n |-> c - g + i]
  BY <1>4
<1>9. g = IF h + 1 > MaxTurns THEN MaxTurns ELSE h + 1
  BY <1>1, <1>3, <1>4, Limits DEF Held
<1>10. g <= h + 1
  BY <1>9, Limits
<1>11. [key |-> k, n |-> c] \in Turn
  BY <1>1 DEF Turn
<1>12. /\ v \in Seq(Turn) /\ Len(v) = h + 1
       /\ \A i \in 1 .. h + 1 : v[i] = [key |-> k, n |-> b - h + i]
  BY <1>1, <1>6, <1>7, <1>11
<1>13. ASSUME NEW i \in 1 .. g PROVE u[i] = v[h + 1 - g + i]
  <2>1. h + 1 - g + i \in 1 .. h + 1 /\ b - h + (h + 1 - g + i) = c - g + i
    BY <1>1, <1>10
  <2>2. v[h + 1 - g + i] = [key |-> k, n |-> b - h + (h + 1 - g + i)]
    BY <1>12, <2>1
  <2> QED
    BY <1>8, <2>1, <2>2
<1>14. Len(u) = g /\ Len(v) = h + 1
  BY <1>8, <1>12
<1>15. \A i \in 1 .. Len(u) : u[i] = v[Len(v) - Len(u) + i]
  BY <1>13, <1>14
<1>16. Len(u) = IF Len(v) > MaxTurns THEN MaxTurns ELSE Len(v)
  BY <1>9, <1>14
<1>17. LastOf(v, MaxTurns) = u
  BY <1>12, <1>15, <1>16, IsLast
<1> QED
  BY <1>1, <1>3, <1>4, <1>6, <1>17

(***************************************************************************)
(* Lemmas about the store.                                                 *)
(***************************************************************************)

(* Where the entry of a conversation is, and what Turns reads of it.       *)
LEMMA EntryOf ==
    ASSUME StoreOK(kept, count, lost), NEW k \in Keys
    PROVE  /\ Entries(k) = {i \in 1 .. Len(kept) : kept[i].key = k}
           /\ \A i, j \in Entries(k) : i = j
           /\ Fresh(k) \subseteq Entries(k)
           /\ Entries(k) = {} => Turns(k) = << >> /\ LostBy(k) = {} /\ lost[k] = count[k]
           /\ Fresh(k) = {} /\ Entries(k) # {} => Turns(k) = << >> /\ LostBy(k) = {k}
           /\ Fresh(k) # {} => Turns(k) = Recent(k, lost[k], count[k]) /\ LostBy(k) = {}
<1>1. /\ kept \in Seq(Entry) /\ DOMAIN kept = 1 .. Len(kept)
      /\ \A i, j \in 1 .. Len(kept) : kept[i].key = kept[j].key => i = j
  BY DEF StoreOK, TurnsOK
<1>2. Entries(k) = {i \in 1 .. Len(kept) : kept[i].key = k} /\ Fresh(k) \subseteq Entries(k)
  BY <1>1 DEF Entries, Fresh
<1>3. \A i, j \in Entries(k) : i = j
  BY <1>1, <1>2
<1>4. ASSUME Entries(k) = {}
      PROVE  Turns(k) = << >> /\ LostBy(k) = {} /\ lost[k] = count[k]
  <2>1. \A i \in 1 .. Len(kept) : kept[i].key # k
    BY <1>2, <1>4
  <2> QED
    BY <1>2, <1>4, <2>1 DEF StoreOK, TurnsOK, Turns, LostBy
<1>5. ASSUME Fresh(k) # {}
      PROVE  Turns(k) = Recent(k, lost[k], count[k]) /\ LostBy(k) = {}
  <2> DEFINE i == CHOOSE j \in Fresh(k) : TRUE
  <2>1. i \in Fresh(k)
    BY <1>5
  <2>2. Turns(k) = kept[i].turns
    BY <1>5 DEF Turns
  <2> HIDE DEF i
  <2>3. i \in 1 .. Len(kept) /\ kept[i].key = k
    BY <1>2, <2>1
  <2>4. kept[i].turns = Recent(k, lost[k], count[k])
    BY <2>3 DEF StoreOK, TurnsOK
  <2> QED
    BY <1>5, <2>2, <2>4 DEF LostBy
<1> QED
  BY <1>2, <1>3, <1>4, <1>5 DEF Turns, LostBy

(* Without leaves the other entries as they are.                           *)
LEMMA WithoutProperties ==
    ASSUME StoreOK(kept, count, lost), NEW k \in Keys, NEW W, W = Without(k)
    PROVE  /\ W \in Seq(Entry) /\ Len(W) <= Len(kept)
           /\ Entries(k) # {} => Len(W) = Len(kept) - 1
           /\ \A i \in 1 .. Len(W) :
                W[i].key # k /\ \E j \in 1 .. Len(kept) : W[i] = kept[j]
           /\ \A i, j \in 1 .. Len(W) : W[i].key = W[j].key => i = j
           /\ \A j \in 1 .. Len(kept) :
                kept[j].key # k => \E i \in 1 .. Len(W) : W[i] = kept[j]
<1>1. /\ kept \in Seq(Entry) /\ Len(kept) \in Nat
      /\ \A i, j \in 1 .. Len(kept) : kept[i].key = kept[j].key => i = j
  BY DEF StoreOK, TurnsOK
<1>2. Entries(k) = {i \in 1 .. Len(kept) : kept[i].key = k}
  BY EntryOf
<1>3. CASE Entries(k) = {}
  <2>1. W = kept /\ \A i \in 1 .. Len(kept) : kept[i].key # k
    BY <1>2, <1>3 DEF Without
  <2> QED
    BY <1>1, <1>3, <2>1
<1>4. CASE Entries(k) # {}
  <2> DEFINE p0 == CHOOSE i \in Entries(k) : TRUE
  <2>1. p0 \in Entries(k) /\ W = RemoveAt(kept, p0)
    BY <1>4 DEF Without
  <2> PICK p : p = p0
    OBVIOUS
  <2> HIDE DEF p0
  <2>2. p \in 1 .. Len(kept) /\ kept[p].key = k /\ W = RemoveAt(kept, p)
    BY <1>2, <2>1
  <2>3. /\ W \in Seq(Entry) /\ Len(W) = Len(kept) - 1
        /\ \A i \in 1 .. Len(W) : W[i] = kept[IF i < p THEN i ELSE i + 1]
    BY <1>1, <2>2, RemoveAtProperties
  <2> DEFINE at(i) == IF i < p THEN i ELSE i + 1
  <2>4. \A i \in 1 .. Len(W) : at(i) \in 1 .. Len(kept) /\ at(i) # p /\ W[i] = kept[at(i)]
    BY <1>1, <2>2, <2>3
  <2>5. \A i, j \in 1 .. Len(W) : at(i) = at(j) => i = j
    BY <1>1, <2>2, <2>3
  <2>6. \A j \in 1 .. Len(kept) : j # p => \E i \in 1 .. Len(W) : at(i) = j
    <3> SUFFICES ASSUME NEW j \in 1 .. Len(kept), j # p
                 PROVE  \E i \in 1 .. Len(W) : at(i) = j
      OBVIOUS
    <3>1. CASE j < p
      BY <1>1, <2>2, <2>3, <3>1
    <3>2. CASE j > p
      <4>1. j - 1 \in 1 .. Len(W) /\ at(j - 1) = j
        BY <1>1, <2>2, <2>3, <3>2
      <4> QED
        BY <4>1
    <3> QED
      BY <1>1, <2>2, <3>1, <3>2
  <2> HIDE DEF at
  <2>7. \A i \in 1 .. Len(W) : W[i].key # k
    BY <1>1, <2>2, <2>4
  <2>8. \A i, j \in 1 .. Len(W) : W[i].key = W[j].key => i = j
    BY <1>1, <2>4, <2>5
  <2>9. \A j \in 1 .. Len(kept) : kept[j].key # k => \E i \in 1 .. Len(W) : W[i] = kept[j]
    BY <2>2, <2>4, <2>6
  <2> QED
    BY <1>1, <2>3, <2>4, <2>7, <2>8, <2>9
<1> QED
  BY <1>3, <1>4

(* The entry of k is taken out and, with what is now true of it, put last. *)
LEMMA Renewed ==
    ASSUME StoreOK(kept, count, lost), NEW k \in Keys,
           NEW e \in Entry, e.key = k,
           NEW c \in [Keys -> Nat], NEW l \in [Keys -> Nat], l[k] <= c[k],
           \A q \in Keys \ {k} : c[q] = count[q] /\ l[q] = lost[q],
           e.turns = Recent(k, l[k], c[k])
    PROVE  TurnsOK(Append(Without(k), e), c, l)
<1> DEFINE W == Without(k)
           A == Append(W, e)
<1>0. /\ W \in Seq(Entry)
      /\ \A i \in 1 .. Len(W) : W[i].key # k /\ \E j \in 1 .. Len(kept) : W[i] = kept[j]
      /\ \A i, j \in 1 .. Len(W) : W[i].key = W[j].key => i = j
      /\ \A j \in 1 .. Len(kept) : kept[j].key # k => \E i \in 1 .. Len(W) : W[i] = kept[j]
  BY WithoutProperties
<1> HIDE DEF W
<1>1. Len(W) \in Nat
  <2>1. W \in Seq(Entry)
    BY <1>0
  <2> QED
    BY <2>1
<1>2. /\ A \in Seq(Entry) /\ Len(A) = Len(W) + 1 /\ A[Len(W) + 1] = e
      /\ \A i \in 1 .. Len(W) : A[i] = W[i]
  BY <1>0, <1>1
<1> HIDE DEF A
<1>3. \A i \in 1 .. Len(A) : i \in 1 .. Len(W) \/ i = Len(W) + 1
  BY <1>0, <1>1, <1>2
<1>4. \A q \in Keys : l[q] <= c[q]
  BY DEF StoreOK, TurnsOK
<1>5. \A i, j \in 1 .. Len(A) : A[i].key = A[j].key => i = j
  BY <1>0, <1>1, <1>2, <1>3
<1>6. ASSUME NEW i \in 1 .. Len(A), NEW q \in {A[i].key}
      PROVE  A[i].turns = Recent(q, l[q], c[q])
  <2>1. CASE i = Len(W) + 1
    BY <1>2, <1>6, <2>1
  <2>2. CASE i \in 1 .. Len(W)
    <3>1. PICK j \in 1 .. Len(kept) : W[i] = kept[j]
      BY <1>0, <1>1, <2>2
    <3>2. kept[j].key = q /\ q # k /\ q \in Keys
      <4>1. kept[j] \in Entry
        BY DEF StoreOK, TurnsOK
      <4>2. A[i] = W[i] /\ W[i].key # k /\ q = W[i].key
        BY <1>0, <1>1, <1>2, <1>6, <2>2
      <4> QED
        BY <3>1, <4>1, <4>2 DEF Entry
    <3>3. kept[j].turns = Recent(q, lost[q], count[q])
      BY <3>2 DEF StoreOK, TurnsOK
    <3> QED
      BY <1>2, <2>2, <3>1, <3>2, <3>3
  <2> QED
    BY <1>3, <2>1, <2>2
<1>7. ASSUME NEW q \in Keys, \A i \in 1 .. Len(A) : A[i].key # q
      PROVE  l[q] = c[q]
  <2>1. q # k
    <3>1. Len(W) + 1 \in 1 .. Len(A)
      BY <1>0, <1>1, <1>2
    <3> QED
      BY <1>2, <1>7, <3>1
  <2>2. \A i \in 1 .. Len(W) : W[i].key # q
    BY <1>0, <1>1, <1>2, <1>7
  <2>3. ASSUME NEW j \in 1 .. Len(kept), kept[j].key = q PROVE FALSE
    <3>1. PICK i \in 1 .. Len(W) : W[i] = kept[j]
      BY <1>0, <2>1, <2>3
    <3> QED
      BY <2>2, <2>3, <3>1
  <2> QED
    BY <2>1, <2>3 DEF StoreOK, TurnsOK
<1>8. TurnsOK(A, c, l)
  BY <1>2, <1>4, <1>5, <1>6, <1>7 DEF TurnsOK
<1> QED
  BY <1>8 DEF W, A

(* The least recently used go, and what they had is lost.                  *)
LEMMA Evicted ==
    ASSUME NEW A, NEW c, NEW l, TurnsOK(A, c, l), NEW x \in [Keys -> Nat],
           \A q \in Keys : x[q] = IF q \in {A[i].key : i \in 1 .. Len(A) - MaxConversations}
                                  THEN c[q] ELSE l[q]
    PROVE  StoreOK(LastOf(A, MaxConversations), c, x)
<1>1. PICK B : B = LastOf(A, MaxConversations)
  OBVIOUS
<1>2. A \in Seq(Entry)
  BY DEF TurnsOK
<1>3. /\ B \in Seq(Entry)
      /\ Len(B) = IF Len(A) > MaxConversations THEN MaxConversations ELSE Len(A)
      /\ \A i \in 1 .. Len(B) : B[i] = A[Len(A) - Len(B) + i]
  BY <1>1, <1>2, Limits, LastOfProperties
<1>4. Len(A) \in Nat /\ Len(B) \in Nat /\ Len(B) <= MaxConversations /\ Len(B) <= Len(A)
  BY <1>2, <1>3, Limits
<1>5. PICK d \in Nat : d = Len(A) - Len(B)
  BY <1>4
<1>6. Len(A) = d + Len(B)
  BY <1>4, <1>5
<1>7. 1 .. Len(A) - MaxConversations = 1 .. d
  BY <1>3, <1>4, <1>5, Limits
<1>8. \A i \in 1 .. Len(B) : B[i] = A[d + i]
  BY <1>3, <1>5
<1>9. PICK gone : gone = {A[i].key : i \in 1 .. d}
  OBVIOUS
<1>10. \A q \in Keys : x[q] = IF q \in gone THEN c[q] ELSE l[q]
  BY <1>7, <1>9
<1>11. A \in Seq(Entry) /\ \A i, j \in 1 .. Len(A) : A[i].key = A[j].key => i = j
  BY DEF TurnsOK
<1>12. \A i \in 1 .. Len(B) : d + i \in 1 .. Len(A) /\ B[i].key \in Keys
  <2> SUFFICES ASSUME NEW i \in 1 .. Len(B)
               PROVE  d + i \in 1 .. Len(A) /\ B[i].key \in Keys
    OBVIOUS
  <2>1. B[i] \in Entry
    BY <1>3
  <2>2. d + i \in 1 .. d + Len(B)
    BY <1>4
  <2> QED
    BY <1>6, <2>1, <2>2 DEF Entry
<1>13. c \in [Keys -> Nat] /\ \A q \in Keys : x[q] <= c[q]
  <2>1. c \in [Keys -> Nat] /\ \A q \in Keys : l[q] <= c[q]
    BY DEF TurnsOK
  <2>2. ASSUME NEW q \in Keys PROVE x[q] <= c[q]
    <3>1. c[q] \in Nat /\ l[q] <= c[q] /\ (x[q] = c[q] \/ x[q] = l[q])
      BY <1>10, <2>1
    <3> QED
      BY <3>1
  <2> QED
    BY <2>1, <2>2
<1>14. \A i, j \in 1 .. Len(B) : B[i].key = B[j].key => i = j
  <2> SUFFICES ASSUME NEW i \in 1 .. Len(B), NEW j \in 1 .. Len(B), B[i].key = B[j].key
               PROVE  i = j
    OBVIOUS
  <2>1. d + i = d + j
    BY <1>8, <1>11, <1>12
  <2> QED
    BY <2>1
<1>15. ASSUME NEW i \in 1 .. Len(B), NEW q \in {B[i].key}
      PROVE  B[i].turns = Recent(q, x[q], c[q])
  <2>1. PICK e \in 1 .. Len(A) : e = d + i /\ B[i] = A[e]
    BY <1>8, <1>12
  <2>2. q \in Keys /\ q = A[e].key
    BY <1>12, <1>15, <2>1
  <2>3. A[e].turns = Recent(q, l[q], c[q])
    BY <2>1, <2>2 DEF TurnsOK
  <2>4. q \notin gone
    <3>1. \A j \in 1 .. d : j \in 1 .. Len(A) /\ j # e
      BY <1>4, <1>6, <2>1
    <3> QED
      BY <1>9, <1>11, <2>2, <3>1
  <2> QED
    BY <1>10, <2>1, <2>2, <2>3, <2>4
<1>16. ASSUME NEW q \in Keys, \A i \in 1 .. Len(B) : B[i].key # q
      PROVE  x[q] = c[q]
  <2>1. CASE q \in gone
    BY <1>10, <2>1
  <2>2. CASE q \notin gone
    <3>1. ASSUME NEW i \in 1 .. Len(A), A[i].key = q PROVE FALSE
      <4>1. i \notin 1 .. d
        BY <1>9, <2>2, <3>1
      <4>2. i - d \in 1 .. Len(B) /\ d + (i - d) = i
        BY <1>4, <1>6, <4>1
      <4> QED
        BY <1>8, <1>16, <3>1, <4>2
    <3>2. l[q] = c[q]
      BY <3>1 DEF TurnsOK
    <3> QED
      BY <1>10, <2>2, <3>2
  <2> QED
    BY <2>1, <2>2
<1>17. TurnsOK(B, c, x)
  BY <1>3, <1>13, <1>14, <1>15, <1>16 DEF TurnsOK
<1> QED
  BY <1>1, <1>4, <1>17 DEF StoreOK

(* remember_turn: the turn follows those of its conversation, whoever ended *)
(* meanwhile, and what goes is what was used least recently.                *)
LEMMA Remembered ==
    ASSUME StoreOK(kept, count, lost), NEW r, Key(r) \in Keys, RememberTurn(r)
    PROVE  StoreOK(kept', count', lost')
<1>1. PICK k \in Keys : k = Key(r)
  OBVIOUS
<1>2. PICK n \in Nat : n = count[k]
  BY DEF StoreOK, TurnsOK
<1>3. PICK W : W = Without(k)
  OBVIOUS
<1>4. PICK l \in [Keys -> Nat] : l = [q \in Keys |-> IF q \in LostBy(k) THEN count[q] ELSE lost[q]]
  BY DEF StoreOK, TurnsOK
<1>5. PICK c : c = [count EXCEPT ![k] = @ + 1]
  OBVIOUS
<1>6. PICK s : s = Turns(k)
  OBVIOUS
<1>7. PICK e : e = [key |-> k, aged |-> FALSE,
                    turns |-> LastOf(Append(s, [key |-> k, n |-> n + 1]), MaxTurns)]
  OBVIOUS
<1>8. PICK A : A = Append(W, e)
  OBVIOUS
<1>9. /\ count' = c /\ kept' = LastOf(A, MaxConversations)
      /\ lost' = [q \in Keys |->
                    IF q \in {A[i].key : i \in 1 .. Len(A) - MaxConversations} \cup LostBy(k)
                    THEN count[q] ELSE lost[q]]
  BY <1>1, <1>2, <1>3, <1>5, <1>6, <1>7, <1>8, Zenon DEF RememberTurn
<1>10. /\ count \in [Keys -> Nat] /\ lost \in [Keys -> Nat]
       /\ \A q \in Keys : lost[q] <= count[q]
  BY DEF StoreOK, TurnsOK
<1>11. /\ c \in [Keys -> Nat] /\ c[k] = n + 1
       /\ \A q \in Keys \ {k} : c[q] = count[q]
  BY <1>2, <1>5, <1>10
<1>12. s = Recent(k, l[k], n) /\ l[k] <= n
  <2>1. Recent(k, n, n) = << >>
    <3>1. Held(n, n) = 0
      BY Limits DEF Held
    <3> QED
      BY <3>1 DEF Recent
  <2>2. CASE Entries(k) = {}
    <3>1. s = << >> /\ l[k] = n
      BY <1>2, <1>4, <1>6, <2>2, EntryOf
    <3> QED
      BY <2>1, <3>1
  <2>3. CASE Entries(k) # {} /\ Fresh(k) = {}
    <3>1. s = << >> /\ l[k] = n
      BY <1>2, <1>4, <1>6, <2>3, EntryOf
    <3> QED
      BY <2>1, <3>1
  <2>4. CASE Fresh(k) # {}
    BY <1>2, <1>4, <1>6, <1>10, <2>4, EntryOf
  <2> QED
    BY <2>2, <2>3, <2>4
<1>13. \A q \in Keys \ {k} : l[q] = lost[q]
  <2>1. LostBy(k) \subseteq {k}
    BY DEF LostBy
  <2> QED
    BY <1>4, <2>1
<1>14. l[k] \in Nat /\ l[k] <= c[k]
  BY <1>11, <1>12
<1>15. e \in Entry /\ e.key = k /\ e.turns = Recent(k, l[k], c[k])
  <2>1. LastOf(Append(s, [key |-> k, n |-> n + 1]), MaxTurns) = Recent(k, l[k], n + 1)
    BY <1>12, <1>14, RecentGrows
  <2>2. l[k] \in Nat /\ n + 1 \in Nat /\ l[k] <= n + 1
    BY <1>12, <1>14
  <2>3. PICK u : u = Recent(k, l[k], n + 1)
    OBVIOUS
  <2>4. u \in Seq(Turn)
    BY <2>2, <2>3, RecentProperties
  <2>5. e = [key |-> k, aged |-> FALSE, turns |-> u]
    BY <1>7, <2>1, <2>3
  <2> QED
    BY <1>11, <2>3, <2>4, <2>5 DEF Entry
<1>16. /\ TurnsOK(A, c, l) /\ W \in Seq(Entry)
       /\ Len(A) = Len(W) + 1 /\ A[Len(A)].key = k
  <2>1. \A q \in Keys \ {k} : c[q] = count[q] /\ l[q] = lost[q]
    BY <1>11, <1>13
  <2>2. e \in Entry /\ e.key = k /\ e.turns = Recent(k, l[k], c[k])
    BY <1>15
  <2>3. c \in [Keys -> Nat] /\ l \in [Keys -> Nat] /\ l[k] <= c[k] /\ k \in Keys
    BY <1>1, <1>4, <1>11, <1>14
  <2>4. TurnsOK(Append(Without(k), e), c, l)
    BY <2>1, <2>2, <2>3, Renewed
  <2>5. W \in Seq(Entry)
    BY <1>1, <1>3, WithoutProperties
  <2>6. Len(A) = Len(W) + 1 /\ A[Len(W) + 1] = e
    BY <1>8, <2>2, <2>5
  <2> QED
    BY <1>3, <1>8, <2>2, <2>4, <2>5, <2>6
<1>17. k \notin {A[i].key : i \in 1 .. Len(A) - MaxConversations}
  <2>1. \A i, j \in 1 .. Len(A) : A[i].key = A[j].key => i = j
    BY <1>16 DEF TurnsOK
  <2>2. Len(A) \in 1 .. Len(A) /\ Len(W) \in Nat
    BY <1>16
  <2>3. \A i \in 1 .. Len(A) - MaxConversations : i \in 1 .. Len(A) /\ i # Len(A)
    BY <1>16, <2>2, Limits
  <2> QED
    BY <1>16, <2>1, <2>2, <2>3
<1>18. PICK x : x = lost'
  OBVIOUS
<1>19. /\ x \in [Keys -> Nat]
       /\ \A q \in Keys : x[q] = IF q \in {A[i].key : i \in 1 .. Len(A) - MaxConversations}
                                 THEN c[q] ELSE l[q]
  <2>1. PICK E : E = {A[i].key : i \in 1 .. Len(A) - MaxConversations}
    OBVIOUS
  <2>2. x = [q \in Keys |-> IF q \in E \cup LostBy(k) THEN count[q] ELSE lost[q]]
    BY <1>9, <1>18, <2>1
  <2>3. x \in [Keys -> Nat]
    BY <1>10, <2>2
  <2>4. ASSUME NEW q \in Keys PROVE x[q] = IF q \in E THEN c[q] ELSE l[q]
    <3>1. x[q] = IF q \in E \/ q \in LostBy(k) THEN count[q] ELSE lost[q]
      BY <2>2
    <3>2. l[q] = IF q \in LostBy(k) THEN count[q] ELSE lost[q]
      BY <1>4
    <3>3. q \in E => c[q] = count[q]
      BY <1>11, <1>17, <2>1
    <3> QED
      BY <3>1, <3>2, <3>3
  <2> QED
    BY <2>1, <2>3, <2>4
<1>20. StoreOK(LastOf(A, MaxConversations), c, x)
  BY <1>16, <1>19, Evicted
<1> QED
  BY <1>9, <1>18, <1>20

(* TTLCache.get: the entry becomes the last, or it lapsed and is lost.     *)
LEMMA LookedUp ==
    ASSUME StoreOK(kept, count, lost), NEW k \in Keys,
           NEW x, x = [q \in Keys |-> IF q \in LostBy(k) THEN count[q] ELSE lost[q]]
    PROVE  StoreOK(Touched(k), count, x)
<1>1. /\ kept \in Seq(Entry) /\ Len(kept) \in Nat /\ Len(kept) <= MaxConversations
      /\ count \in [Keys -> Nat] /\ lost \in [Keys -> Nat]
      /\ \A q \in Keys : lost[q] <= count[q]
  BY DEF StoreOK, TurnsOK
<1>2. CASE Entries(k) = {}
  <2>1. Fresh(k) = {} /\ LostBy(k) = {}
    BY <1>2, EntryOf
  <2>2. Touched(k) = kept
    BY <1>2, <2>1 DEF Touched, Without
  <2>3. x = lost
    BY <1>1, <2>1
  <2> QED
    BY <2>2, <2>3
<1>3. CASE Entries(k) # {} /\ Fresh(k) = {}
  <2> DEFINE W == Without(k)
  <2>1. /\ W \in Seq(Entry) /\ Len(W) <= Len(kept)
        /\ \A i \in 1 .. Len(W) : W[i].key # k /\ \E j \in 1 .. Len(kept) : W[i] = kept[j]
        /\ \A i, j \in 1 .. Len(W) : W[i].key = W[j].key => i = j
        /\ \A j \in 1 .. Len(kept) : kept[j].key # k => \E i \in 1 .. Len(W) : W[i] = kept[j]
    BY WithoutProperties
  <2>2. Touched(k) = W
    BY <1>3 DEF Touched
  <2> HIDE DEF W
  <2>3. \A q \in Keys : x[q] = IF q = k THEN count[q] ELSE lost[q]
    BY <1>3, EntryOf
  <2>4. x \in [Keys -> Nat] /\ \A q \in Keys : x[q] <= count[q]
    BY <1>1
  <2>5. ASSUME NEW i \in 1 .. Len(W), NEW q \in {W[i].key}
        PROVE  W[i].turns = Recent(q, x[q], count[q])
    <3>1. PICK j \in 1 .. Len(kept) : W[i] = kept[j]
      BY <2>1
    <3>2. kept[j].key = q /\ q # k
      BY <2>1, <2>5, <3>1
    <3>3. q \in Keys
      <4>1. kept[j] \in Entry
        BY <1>1
      <4> QED
        BY <3>2, <4>1 DEF Entry
    <3>4. kept[j].turns = Recent(q, lost[q], count[q])
      BY <3>2 DEF StoreOK, TurnsOK
    <3> QED
      BY <2>3, <3>1, <3>2, <3>3, <3>4
  <2>6. ASSUME NEW q \in Keys, \A i \in 1 .. Len(W) : W[i].key # q
        PROVE  x[q] = count[q]
    <3>1. CASE q = k
      BY <2>3, <3>1
    <3>2. CASE q # k
      <4>1. ASSUME NEW j \in 1 .. Len(kept), kept[j].key = q PROVE FALSE
        <5>1. PICK i \in 1 .. Len(W) : W[i] = kept[j]
          BY <2>1, <3>2, <4>1
        <5> QED
          BY <2>6, <4>1, <5>1
      <4>2. lost[q] = count[q]
        BY <4>1 DEF StoreOK, TurnsOK
      <4> QED
        BY <2>3, <3>2, <4>2
    <3> QED
      BY <3>1, <3>2
  <2>7. TurnsOK(W, count, x)
    BY <1>1, <2>1, <2>4, <2>5, <2>6 DEF TurnsOK
  <2>8. Len(W) <= MaxConversations
    <3>1. Len(W) \in Nat /\ Len(W) <= Len(kept)
      BY <2>1
    <3> QED
      BY <1>1, <3>1, Limits
  <2> QED
    BY <2>2, <2>7, <2>8 DEF StoreOK
<1>4. CASE Fresh(k) # {}
  <2>1. PICK e : e = kept[CHOOSE i \in Fresh(k) : TRUE]
    OBVIOUS
  <2>2. PICK i \in Fresh(k) : e = kept[i]
    BY <1>4, <2>1
  <2>3. i \in 1 .. Len(kept) /\ kept[i].key = k
    BY <2>2, EntryOf
  <2>4. e \in Entry /\ e.key = k
    BY <1>1, <2>2, <2>3
  <2>5. e.turns = Recent(k, lost[k], count[k])
    BY <2>2, <2>3 DEF StoreOK, TurnsOK
  <2>6. x = lost
    <3>1. LostBy(k) = {}
      BY <1>4, EntryOf
    <3> QED
      BY <1>1, <3>1
  <2>7. Touched(k) = Append(Without(k), e)
    BY <1>4, <2>1 DEF Touched
  <2>8. TurnsOK(Append(Without(k), e), count, lost)
    BY <1>1, <2>4, <2>5, Renewed
  <2>9. Len(Append(Without(k), e)) <= MaxConversations
    <3>1. PICK W : W = Without(k)
      OBVIOUS
    <3>2. W \in Seq(Entry) /\ Len(W) = Len(kept) - 1
      <4>1. Entries(k) # {}
        BY <2>2, EntryOf
      <4> QED
        BY <3>1, <4>1, WithoutProperties
    <3>3. Len(Append(W, e)) = Len(kept)
      BY <1>1, <2>4, <3>2
    <3> QED
      BY <1>1, <3>1, <3>3
  <2> QED
    BY <2>6, <2>7, <2>8, <2>9 DEF StoreOK
<1> QED
  BY <1>2, <1>3, <1>4

(* What get returns, and of it what a model is told, is of the asked key.  *)
LEMMA TurnsRead ==
    ASSUME StoreOK(kept, count, lost), NEW k \in Keys,
           NEW t, t = LastOf(Turns(k), MaxHistoryTurns)
    PROVE  /\ t \in Seq(Turn) /\ Len(t) <= MaxHistoryTurns
           /\ \A i \in 1 .. Len(t) : t[i].key = k
<1>1. PICK s : s = Turns(k)
  OBVIOUS
<1>2. s \in Seq(Turn) /\ \A i \in 1 .. Len(s) : s[i].key = k
  <2>1. CASE Fresh(k) = {}
    <3>1. s = << >>
      BY <1>1, <2>1 DEF Turns
    <3> QED
      BY <3>1
  <2>2. CASE Fresh(k) # {}
    <3>1. PICK a \in Nat, b \in Nat : a = lost[k] /\ b = count[k] /\ a <= b
      BY DEF StoreOK, TurnsOK
    <3>2. s = Recent(k, a, b)
      BY <1>1, <2>2, <3>1, EntryOf
    <3>3. /\ s \in Seq(Turn)
          /\ \A i \in 1 .. Len(s) : s[i] = [key |-> k, n |-> b - Held(a, b) + i]
      BY <3>1, <3>2, RecentProperties
    <3>4. ASSUME NEW i \in 1 .. Len(s) PROVE s[i].key = k
      <4>1. PICK n : s[i] = [key |-> k, n |-> n]
        BY <3>3
      <4> QED
        BY <4>1
    <3> QED
      BY <3>3, <3>4
  <2> QED
    BY <2>1, <2>2
<1>3. t = LastOf(s, MaxHistoryTurns)
  BY <1>1
<1>4. /\ t \in Seq(Turn)
      /\ Len(t) = IF Len(s) > MaxHistoryTurns THEN MaxHistoryTurns ELSE Len(s)
      /\ \A i \in 1 .. Len(t) : t[i] = s[Len(s) - Len(t) + i]
  BY <1>2, <1>3, Limits, LastOfProperties
<1>5. Len(s) \in Nat /\ Len(t) \in Nat /\ Len(t) <= Len(s) /\ Len(t) <= MaxHistoryTurns
  BY <1>2, <1>4, Limits
<1>6. ASSUME NEW i \in 1 .. Len(t) PROVE t[i].key = k
  <2>1. Len(s) - Len(t) + i \in 1 .. Len(s)
    BY <1>5
  <2> QED
    BY <1>2, <1>4, <2>1
<1> QED
  BY <1>4, <1>5, <1>6

(* An entry that lapses is still there.                                    *)
LEMMA Lapsed ==
    ASSUME StoreOK(kept, count, lost), NEW i \in 1 .. Len(kept)
    PROVE  StoreOK([kept EXCEPT ![i].aged = TRUE], count, lost)
<1>1. kept \in Seq(Entry)
  BY DEF StoreOK, TurnsOK
<1>2. PICK e : e = [kept[i] EXCEPT !.aged = TRUE]
  OBVIOUS
<1>3. kept[i] \in Entry
  BY <1>1
<1>4. e \in Entry /\ e.key = kept[i].key /\ e.turns = kept[i].turns
  BY <1>2, <1>3 DEF Entry
<1>5. PICK K : K = [kept EXCEPT ![i] = e]
  OBVIOUS
<1>6. /\ K \in Seq(Entry) /\ Len(K) = Len(kept)
      /\ \A j \in 1 .. Len(K) : K[j].key = kept[j].key /\ K[j].turns = kept[j].turns
  <2>1. K \in Seq(Entry) /\ Len(K) = Len(kept)
    BY <1>1, <1>4, <1>5, ExceptSeq
  <2>2. \A j \in 1 .. Len(kept) : K[j] = IF j = i THEN e ELSE kept[j]
    BY <1>1, <1>5
  <2> QED
    BY <1>4, <2>1, <2>2
<1>7. [kept EXCEPT ![i].aged = TRUE] = K
  BY <1>2, <1>5
<1>8. StoreOK(K, count, lost)
  <2>1. \A j, m \in 1 .. Len(K) : K[j].key = K[m].key => j = m
    BY <1>6 DEF StoreOK, TurnsOK
  <2>2. ASSUME NEW j \in 1 .. Len(K), NEW q \in {K[j].key}
        PROVE  K[j].turns = Recent(q, lost[q], count[q])
    <3>1. j \in 1 .. Len(kept) /\ q \in {kept[j].key}
      BY <1>6, <2>2
    <3>2. kept[j].turns = Recent(q, lost[q], count[q])
      BY <3>1 DEF StoreOK, TurnsOK
    <3> QED
      BY <1>6, <3>2
  <2>3. ASSUME NEW q \in Keys, \A j \in 1 .. Len(K) : K[j].key # q
        PROVE  lost[q] = count[q]
    <3>1. \A j \in 1 .. Len(kept) : kept[j].key # q
      BY <1>6, <2>3
    <3> QED
      BY <3>1 DEF StoreOK, TurnsOK
  <2>4. TurnsOK(K, count, lost)
    <3>1. /\ count \in [Keys -> Nat] /\ lost \in [Keys -> Nat]
          /\ \A q \in Keys : lost[q] <= count[q]
      BY DEF StoreOK, TurnsOK
    <3> QED
      BY <1>6, <2>1, <2>2, <2>3, <3>1 DEF TurnsOK
  <2> QED
    BY <1>6, <2>4 DEF StoreOK
<1> QED
  BY <1>7, <1>8

(***************************************************************************)
(* Lemmas about the agents.                                                *)
(***************************************************************************)

IsBundle(b) ==
    \E agent, missing, evidence, status :
      /\ evidence \in SUBSET Dossiers /\ status \in Statuses
      /\ b = BuildBundle(agent, evidence, status, missing)

(* What one of the agents makes of a context is a bundle.                  *)
LEMMA AgentsBundle ==
    ASSUME NEW c \in Contexts
    PROVE  /\ IsBundle(MeasureAgent(c)) /\ IsBundle(ImpactAgent(c)) /\ IsBundle(ReportAgent(c))
           /\ IsBundle(WorkspaceAgent(c)) /\ IsBundle(SemanticModelAgent(c))
           /\ IsBundle(BuildBundle(None, {}, "out_of_scope", {"out of scope"}))
<1>1. \A agent, missing : \A evidence \in SUBSET Dossiers, status \in Statuses :
         IsBundle(BuildBundle(agent, evidence, status, missing))
  BY DEF IsBundle
<1>2. /\ {} \in SUBSET Dossiers /\ {"object"} \in SUBSET Dossiers
      /\ ObjectDossier(c) \in SUBSET Dossiers /\ ReportDossier(c) \in SUBSET Dossiers
      /\ ModelDossier(c) \in SUBSET Dossiers /\ WorkspaceDossier(c) \in SUBSET Dossiers
      /\ ReportDossier(c) \cup ModelDossier(c) \in SUBSET Dossiers
  BY DEF Dossiers, ObjectDossier, ReportDossier, ModelDossier, WorkspaceDossier
<1>3. {"answered", "ambiguous", "insufficient_evidence", "conflicting_evidence", "out_of_scope"}
        \subseteq Statuses
  BY DEF Statuses
<1>4. \A agent : IsBundle(Unresolved(c, agent))
  BY <1>1, <1>2, <1>3 DEF Unresolved
<1>5. IsBundle(MeasureAgent(c))
  BY <1>1, <1>2, <1>3, <1>4 DEF MeasureAgent
<1>6. IsBundle(ImpactAgent(c))
  BY <1>1, <1>2, <1>3, <1>4 DEF ImpactAgent
<1>7. IsBundle(ReportAgent(c))
  BY <1>1, <1>2, <1>3 DEF ReportAgent
<1>8. IsBundle(WorkspaceAgent(c))
  BY <1>1, <1>2, <1>3 DEF WorkspaceAgent
<1>9. IsBundle(SemanticModelAgent(c))
  BY <1>1, <1>2, <1>3 DEF SemanticModelAgent
<1>10. IsBundle(BuildBundle(None, {}, "out_of_scope", {"out of scope"}))
  BY <1>1, <1>2, <1>3
<1> QED
  BY <1>5, <1>6, <1>7, <1>8, <1>9, <1>10

(* So is what the supervisor makes of it, with or without the fallback.    *)
LEMMA HandleTyped ==
    ASSUME NEW q, NEW view, NEW c \in Contexts
    PROVE  Handle(q, view, c).status \in Statuses /\ Handle(q, view, c).evidence \in SUBSET Dossiers
<1> DEFINE intent == ClassifyIntent(q, view)
           bundle == CASE intent = "measure" -> MeasureAgent(c)
                       [] intent = "impact" -> ImpactAgent(c)
                       [] intent = "report" -> ReportAgent(c)
                       [] intent = "workspace" -> WorkspaceAgent(c)
                       [] intent = "out_of_scope" -> BuildBundle(None, {}, "out_of_scope", {"out of scope"})
                       [] OTHER -> SemanticModelAgent(c)
           note == IF bundle.missing = {} THEN {"out of scope"} ELSE bundle.missing
<1>1. Handle(q, view, c) = IF CanAnswer(bundle) \/ bundle.agent = "model" THEN bundle
                           ELSE Fallback(c, bundle, note)
  BY DEF Handle
<1> HIDE DEF intent
<1>2. IsBundle(bundle)
  BY AgentsBundle
<1> HIDE DEF bundle, note
<1>3. \A b : IsBundle(b) => b.status \in Statuses /\ b.evidence \in SUBSET Dossiers
  BY DEF IsBundle, BuildBundle
<1>4. IsBundle(Fallback(c, bundle, note))
  <2>1. PICK o : o = SemanticModelAgent(c) /\ IsBundle(o)
    BY AgentsBundle
  <2>2. PICK agent, missing, evidence, status :
           /\ evidence \in SUBSET Dossiers /\ status \in Statuses
           /\ o = BuildBundle(agent, evidence, status, missing)
    BY <2>1 DEF IsBundle
  <2>3. \A n : [BuildBundle(agent, evidence, status, missing) EXCEPT !.missing = n]
                 = BuildBundle(agent, evidence, status, n)
    BY DEF BuildBundle
  <2>4. [o EXCEPT !.missing = o.missing \cup note]
          = BuildBundle(agent, evidence, status, o.missing \cup note)
    BY <2>2, <2>3, Zenon
  <2>5. IsBundle([o EXCEPT !.missing = @ \cup note])
    BY <2>2, <2>4, Zenon DEF IsBundle
  <2> QED
    BY <1>2, <2>1, <2>5 DEF Fallback
<1> QED
  BY <1>1, <1>2, <1>3, <1>4

(* A tool finds dossiers.                                                  *)
LEMMA ToolsFind ==
    ASSUME NEW c, NEW tool \in Tools, NEW held
    PROVE  RunTool(c, tool, held) \in SUBSET Dossiers
<1>1. CASE tool \notin AvailableTools(c)
  BY <1>1 DEF RunTool, AvailableTools, ModelTools, ReportTools
<1>2. CASE tool \in AvailableTools(c) /\ tool \in ModelTools
  <2>1. c.model
    BY <1>2 DEF AvailableTools, ModelTools, ReportTools
  <2> QED
    BY <1>2, <2>1 DEF RunTool, ModelTools, ReportTools, Dossiers, ModelDossier
<1>3. CASE tool \in AvailableTools(c) /\ tool \in ReportTools
  <2>1. c.report
    BY <1>3 DEF AvailableTools, ModelTools, ReportTools
  <2> QED
    BY <1>3, <2>1 DEF RunTool, ReportTools, Dossiers, ReportDossier
<1>4. CASE tool \in AvailableTools(c) /\ tool = "workspace_overview"
  <2>1. c.inventory # None
    BY <1>4 DEF AvailableTools, ModelTools, ReportTools
  <2> QED
    BY <1>4, <2>1 DEF RunTool, ReportTools, Dossiers, WorkspaceDossier
<1> QED
  BY <1>1, <1>2, <1>3, <1>4 DEF Tools

(***************************************************************************)
(* Lemmas about requests.                                                  *)
(***************************************************************************)

(* The context and the bundle of a request with a question.                *)
LEMMA BundleTyped ==
    ASSUME NEW s, s.question \in Questions
    PROVE  /\ ContextOf(s) \in Contexts
           /\ BundleOf(s).status \in Statuses /\ BundleOf(s).evidence \in SUBSET Dossiers
<1>1. s.question.context \in Contexts
  BY InputsAssumption
<1>2. ContextOf(s) \in Contexts
  <2>1. PICK c \in Contexts : c = s.question.context
    BY <1>1
  <2>2. [c EXCEPT !.inventory = None] \in Contexts
    BY DEF Contexts
  <2> QED
    BY <2>1, <2>2 DEF ContextOf
<1> QED
  BY <1>2, HandleTyped DEF BundleOf

(* A request of the bundle's name is the model's.                          *)
LEMMA BundleIs ==
    ASSUME NEW r PROVE Bundle(r) = BundleOf(req[r]) /\ Context(r) = ContextOf(req[r])
BY DEF Bundle, BundleOf, Context, ContextOf

(* A request that has asked nothing yet, or is over.                       *)
LEMMA IdleOK ==
    /\ RequestOK(Idle)
    /\ \A at \in {"failed", "idle"} : RequestOK([Idle EXCEPT !.at = at])
    /\ RequestOK([Idle EXCEPT !.at = "sending", !.endpoint = "stream"])
<1> DEFINE Rid(at, e) ==
             [at |-> at, endpoint |-> e, token |-> None, conversation |-> None, given |-> FALSE,
              question |-> None, round |-> 0, seen |-> {}, found |-> {}, told |-> << >>, called |-> 0,
              answer |-> NoAnswer]
<1>1. NoAnswer \in AnswerType
  BY DEF NoAnswer, AnswerType
<1>2. ASSUME NEW s, NEW at \in {"idle", "failed", "sending"},
             NEW e \in {None, "stream"}, s = Rid(at, e)
      PROVE  RequestOK(s)
  <2>1. s = [at |-> at, endpoint |-> e, token |-> None, conversation |-> None, given |-> FALSE,
             question |-> None, round |-> 0, seen |-> {}, found |-> {}, told |-> << >>, called |-> 0,
             answer |-> NoAnswer]
    BY <1>2
  <2>2. 0 \in 0 .. MaxToolRounds /\ << >> \in Seq(Turn) /\ 0 <= MaxToolRounds + 2
    BY Limits
  <2>3. s \in Request
    BY <1>1, <2>1, <2>2 DEF Request
  <2>4. s.at \notin Working
    BY <2>1 DEF Working
  <2>5. AskedLittle(s)
    BY <2>1, <2>2 DEF AskedLittle
  <2>6. ToldOwn(s)
    BY <2>1, Limits DEF ToldOwn
  <2> QED
    BY <2>3, <2>4, <2>5, <2>6 DEF RequestOK, Working
<1>3. ASSUME NEW s, s = Idle PROVE RequestOK(s)
  <2>1. s = Rid("idle", None)
    BY <1>3 DEF Idle
  <2> QED
    BY <1>2, <2>1
<1>4. ASSUME NEW s, NEW at \in {"idle", "failed"}, s = [Idle EXCEPT !.at = at] PROVE RequestOK(s)
  <2>1. s = Rid(at, None)
    BY <1>4 DEF Idle
  <2> QED
    BY <1>2, <2>1
<1>5. ASSUME NEW s, s = [Idle EXCEPT !.at = "sending", !.endpoint = "stream"] PROVE RequestOK(s)
  <2>1. s = Rid("sending", "stream")
    BY <1>5 DEF Idle
  <2> QED
    BY <1>2, <2>1
<1> QED
  BY <1>3, <1>4, <1>5

(* An answered request, of one in hand.                                    *)
LEMMA AnsweredOK ==
    ASSUME NEW s, InHand(s), s.called <= MaxToolRounds + 2,
           NEW a \in AnswerType, Grounded(s, a)
    PROVE  RequestOK([LoopLeft(s) EXCEPT !.at = "answered", !.answer = a])
<1>1. PICK x : x = [LoopLeft(s) EXCEPT !.at = "answered", !.answer = a]
  OBVIOUS
<1>2. s \in Request
  BY DEF InHand
<1>3. /\ x.at = "answered" /\ x.answer = a /\ x.endpoint = s.endpoint /\ x.token = s.token
      /\ x.conversation = s.conversation /\ x.question = s.question /\ x.called = s.called
      /\ x.told = << >>
  BY <1>1, <1>2 DEF LoopLeft, Request
<1>4. x \in Request
  <2>1. 0 \in 0 .. MaxToolRounds /\ << >> \in Seq(Turn)
    BY Limits
  <2> QED
    BY <1>1, <1>2, <2>1 DEF LoopLeft, Request
<1>5. InHand(x)
  BY <1>3, <1>4 DEF InHand
<1>6. AskedLittle(x)
  BY <1>3 DEF AskedLittle
<1>7. BundleOf(x) = BundleOf(s)
  BY <1>3 DEF BundleOf, ContextOf
<1>8. Grounded(x, x.answer)
  BY <1>3, <1>7 DEF Grounded
<1>9. ToldOwn(x)
  BY <1>3, Limits DEF ToldOwn
<1> QED
  BY <1>1, <1>3, <1>4, <1>5, <1>6, <1>8, <1>9 DEF RequestOK

(* A request that is handed to the model to be written up.                 *)
LEMMA ComposingOK ==
    ASSUME NEW s, InHand(s), s.called <= MaxToolRounds + 1, CanAnswer(BundleOf(s))
    PROVE  RequestOK([LoopLeft(s) EXCEPT !.at = "composing"])
<1>1. PICK x : x = [LoopLeft(s) EXCEPT !.at = "composing"]
  OBVIOUS
<1>2. s \in Request
  BY DEF InHand
<1>3. /\ x.at = "composing" /\ x.endpoint = s.endpoint /\ x.token = s.token
      /\ x.conversation = s.conversation /\ x.question = s.question /\ x.called = s.called
      /\ x.told = << >>
  BY <1>1, <1>2 DEF LoopLeft, Request
<1>4. x \in Request
  <2>1. 0 \in 0 .. MaxToolRounds /\ << >> \in Seq(Turn)
    BY Limits
  <2> QED
    BY <1>1, <1>2, <2>1 DEF LoopLeft, Request
<1>5. InHand(x)
  BY <1>3, <1>4 DEF InHand
<1>6. AskedLittle(x)
  <2>1. x.called \in Nat
    BY <1>4 DEF Request
  <2> QED
    BY <1>3, <2>1, Limits DEF AskedLittle
<1>7. BundleOf(x) = BundleOf(s)
  BY <1>3 DEF BundleOf, ContextOf
<1>9. ToldOwn(x)
  BY <1>3, Limits DEF ToldOwn
<1> QED
  BY <1>1, <1>3, <1>4, <1>5, <1>6, <1>7, <1>9 DEF RequestOK

(* One request changes.                                                    *)
LEMMA OneChanges ==
    ASSUME RequestsOK(req), NEW r \in Requests, NEW x, RequestOK(x), req' = [req EXCEPT ![r] = x]
    PROVE  RequestsOK(req')
<1>1. x \in Request
  BY DEF RequestOK
<1>2. req' \in [Requests -> Request]
  BY <1>1 DEF RequestsOK
<1>3. ASSUME NEW q \in Requests PROVE RequestOK(req'[q])
  <2>1. req'[q] = IF q = r THEN x ELSE req[q]
    BY DEF RequestsOK
  <2> QED
    BY <2>1 DEF RequestsOK
<1> QED
  BY <1>2, <1>3 DEF RequestsOK

(* One more call of the model.                                             *)
LEMMA CalledOnce ==
    ASSUME NEW q, InHand(q), NEW s, s = [q EXCEPT !.called = @ + 1]
    PROVE  /\ InHand(s) /\ s.called = q.called + 1 /\ q.called \in Nat
           /\ s.at = q.at /\ s.endpoint = q.endpoint /\ s.round = q.round /\ s.question = q.question
           /\ s.told = q.told /\ KeyOf(s) = KeyOf(q) /\ BundleOf(s) = BundleOf(q)
<1>1. q \in Request
  BY DEF InHand
<1>2. s \in Request
  BY <1>1 DEF Request
<1>3. /\ s.called = q.called + 1 /\ q.called \in Nat
      /\ s.at = q.at /\ s.endpoint = q.endpoint /\ s.round = q.round /\ s.question = q.question
      /\ s.told = q.told /\ s.token = q.token /\ s.conversation = q.conversation
  BY <1>1 DEF Request
<1> QED
  BY <1>2, <1>3 DEF InHand, KeyOf, BundleOf, ContextOf

(* The key of a request in hand, which the model's operators name.         *)
LEMMA KeyIs ==
    ASSUME NEW r, InHand(req[r])
    PROVE  Key(r) \in Keys /\ Key(r) = KeyOf(req[r])
BY DEF InHand, Key, KeyOf, Keys

(* An answer is written down and, as a turn, remembered.                   *)
LEMMA AnsweredStep ==
    ASSUME StoreOK(kept, count, lost), RequestsOK(req), NEW r \in Requests, InHand(req[r]),
           NEW s, NEW a, NEW blank, Answered(r, s, a, blank),
           InHand(s), s.called <= MaxToolRounds + 2, a \in AnswerType, Grounded(s, a)
    PROVE  StoreOK(kept', count', lost') /\ RequestsOK(req')
<1>1. PICK x : x = [LoopLeft(s) EXCEPT !.at = "answered", !.answer = a]
  OBVIOUS
<1>2. RequestOK(x)
  BY <1>1, AnsweredOK
<1>3. req' = [req EXCEPT ![r] = x]
  BY <1>1 DEF Answered
<1>4. RequestsOK(req')
  BY <1>2, <1>3, OneChanges
<1>5. StoreOK(kept', count', lost')
  <2>1. CASE RememberTurn(r)
    BY <2>1, KeyIs, Remembered
  <2>2. CASE UNCHANGED <<kept, count, lost>>
    BY <2>2
  <2> QED
    BY <2>1, <2>2 DEF Answered
<1> QED
  BY <1>4, <1>5

(* What the code answers itself.                                           *)
LEMMA CodeAnswers ==
    ASSUME NEW s, NEW status \in Statuses, NEW evidence \in SUBSET Dossiers,
           NEW a, a = Answer(status, "code", evidence, {}),
           CanAnswer(BundleOf(s)) /\ s.question.q.kind = None => status = "answered" /\ evidence # {}
    PROVE  a \in AnswerType /\ Grounded(s, a)
<1>1. a = [status |-> status, author |-> "code", evidence |-> evidence, cited |-> {}]
  BY DEF Answer
<1>2. a \in AnswerType
  BY <1>1 DEF AnswerType
<1> QED
  BY <1>1, <1>2 DEF Grounded

(* The fixed path.                                                         *)
LEMMA RouteStep ==
    ASSUME StoreOK(kept, count, lost), RequestsOK(req), NEW r \in Requests, InHand(req[r]),
           NEW s, InHand(s), s.question = req[r].question, s.called <= MaxToolRounds + 1, Route(r, s)
    PROVE  StoreOK(kept', count', lost') /\ RequestsOK(req')
<1>1. PICK b : b = Bundle(r)
  OBVIOUS
<1>2. b = BundleOf(s)
  BY <1>1, BundleIs DEF BundleOf, ContextOf
<1>3. b.status \in Statuses /\ b.evidence \in SUBSET Dossiers
  BY <1>2, BundleTyped DEF InHand
<1>4. CASE /\ CanAnswer(b)
           /\ req' = [req EXCEPT ![r] = [LoopLeft(s) EXCEPT !.at = "composing"]]
           /\ UNCHANGED <<kept, count, lost>>
  <2>1. PICK x : x = [LoopLeft(s) EXCEPT !.at = "composing"]
    OBVIOUS
  <2>2. RequestOK(x)
    BY <1>2, <1>4, <2>1, ComposingOK
  <2>3. RequestsOK(req')
    BY <1>4, <2>1, <2>2, OneChanges
  <2> QED
    BY <1>4, <2>3
<1>5. CASE Answered(r, s, Answer(b.status, "code", b.evidence, {}), FALSE)
  <2>1. PICK a : a = Answer(b.status, "code", b.evidence, {})
    OBVIOUS
  <2>2. CanAnswer(BundleOf(s)) => b.status = "answered" /\ b.evidence # {}
    BY <1>2 DEF CanAnswer
  <2>3. a \in AnswerType /\ Grounded(s, a)
    BY <1>3, <2>1, <2>2, CodeAnswers
  <2>4. s.called <= MaxToolRounds + 2
    <3>1. s.called \in Nat
      BY DEF InHand, Request
    <3> QED
      BY <3>1, Limits
  <2>5. Answered(r, s, a, FALSE)
    BY <1>5, <2>1
  <2> QED
    BY <2>3, <2>4, <2>5, AnsweredStep
<1> QED
  BY <1>1, <1>4, <1>5 DEF Route

(* A request of the table, wherever it is.                                 *)
LEMMA AtWork ==
    ASSUME RequestsOK(req), NEW r \in Requests
    PROVE  /\ RequestOK(req[r]) /\ req[r] \in Request
           /\ req[r].at \in {"resolving", "asking", "composing", "answered"} => InHand(req[r])
BY DEF RequestsOK, RequestOK, Working

(***************************************************************************)
(* Every step keeps the invariant.                                         *)
(***************************************************************************)

(* Ask: what comes in has asked nothing.                                   *)
LEMMA AskStep ==
    ASSUME IInv, NEW r \in Requests, Ask(r)
    PROVE  IInv'
<1>1. RestOK /\ StoreOK(kept, count, lost) /\ RequestsOK(req)
  BY DEF IInv
<1>2. PICK e \in {"explain", "chat", "stream"}, a \in Questions, t \in Tokens, c \in Conversations :
         /\ used' = used \cup {c}
         /\ \/ req' = [req EXCEPT ![r] = [Idle EXCEPT !.at = "failed"]]
            \/ req' = [req EXCEPT ![r] =
                 [Idle EXCEPT !.at = "resolving", !.endpoint = e, !.token = t, !.question = a,
                              !.conversation = c, !.given = c \in used]]
  BY DEF Ask
<1>5. RequestsOK(req')
  <2>1. CASE req' = [req EXCEPT ![r] = [Idle EXCEPT !.at = "failed"]]
    <3>1. RequestOK([Idle EXCEPT !.at = "failed"])
      BY IdleOK
    <3> QED
      BY <1>1, <2>1, <3>1, OneChanges
  <2>2. CASE req' = [req EXCEPT ![r] =
                       [Idle EXCEPT !.at = "resolving", !.endpoint = e, !.token = t, !.question = a,
                                    !.conversation = c, !.given = c \in used]]
    <3>1. PICK given \in BOOLEAN : given = (c \in used)
      <4>1. (c \in used) \in BOOLEAN
        OBVIOUS
      <4> QED
        BY <4>1, Zenon
    <3>2. PICK x : x = [Idle EXCEPT !.at = "resolving", !.endpoint = e, !.token = t, !.question = a,
                                    !.conversation = c, !.given = given]
      OBVIOUS
    <3>3. x = [at |-> "resolving", endpoint |-> e, token |-> t, conversation |-> c, given |-> given,
               question |-> a, round |-> 0, seen |-> {}, found |-> {}, told |-> << >>, called |-> 0,
               answer |-> NoAnswer]
      BY <3>2 DEF Idle
    <3>4. 0 \in 0 .. MaxToolRounds /\ << >> \in Seq(Turn) /\ NoAnswer \in AnswerType
      BY Limits DEF NoAnswer, AnswerType
    <3>5. x \in Request
      BY <1>2, <3>1, <3>3, <3>4 DEF Request
    <3>6. InHand(x)
      BY <1>2, <3>3, <3>5 DEF InHand
    <3>7. AskedLittle(x) /\ ToldOwn(x)
      BY <3>3, Limits DEF AskedLittle, ToldOwn
    <3>8. RequestOK(x)
      BY <3>3, <3>5, <3>6, <3>7 DEF RequestOK
    <3>9. req' = [req EXCEPT ![r] = x]
      BY <2>2, <3>1, <3>2
    <3> QED
      BY <1>1, <3>8, <3>9, OneChanges
  <2> QED
    BY <1>2, <2>1, <2>2
<1>6. RestOK'
  <2>1. used' \subseteq Conversations
    BY <1>1, <1>2 DEF RestOK
  <2>2. asked' \in 0 .. MaxAsked
    BY <1>1, PowerAiAssumption DEF RestOK, Ask
  <2> QED
    BY <1>1, <2>1, <2>2 DEF RestOK, Ask
<1>7. StoreOK(kept', count', lost')
  BY <1>1 DEF Ask
<1> QED
  BY <1>5, <1>6, <1>7 DEF IInv

(* AnswerCapability: the code answers, and no agent is asked.              *)
LEMMA CapabilityStep ==
    ASSUME IInv, NEW r \in Requests, AnswerCapability(r)
    PROVE  StoreOK(kept', count', lost') /\ RequestsOK(req')
<1>1. StoreOK(kept, count, lost) /\ RequestsOK(req) /\ req[r].at = "resolving"
  BY DEF IInv, AnswerCapability
<1>2. PICK s : s = req[r]
  OBVIOUS
<1>3. InHand(s) /\ RequestOK(s) /\ s.at = "resolving"
  BY <1>1, <1>2, AtWork
<1>4. PICK c : c = Context(r)
  OBVIOUS
<1>5. PICK evidence : /\ evidence \in {{}, ReportDossier(c) \cup ModelDossier(c) \cup WorkspaceDossier(c)}
                      /\ Answered(r, s, Answer("answered", "code", evidence, {}), FALSE)
  BY <1>2, <1>4 DEF AnswerCapability
<1>6. evidence \in SUBSET Dossiers
  BY <1>5 DEF ReportDossier, ModelDossier, WorkspaceDossier, Dossiers
<1>7. PICK a : a = Answer("answered", "code", evidence, {})
  OBVIOUS
<1>8. s.question.q.kind # None
  BY <1>2 DEF AnswerCapability
<1>9. "answered" \in Statuses
  BY DEF Statuses
<1>10. a \in AnswerType /\ Grounded(s, a)
  BY <1>6, <1>7, <1>8, <1>9, CodeAnswers
<1>11. s.called <= MaxToolRounds + 2
  BY <1>3 DEF RequestOK, AskedLittle
<1>12. Answered(r, s, a, FALSE)
  BY <1>5, <1>7
<1> QED
  BY <1>1, <1>2, <1>3, <1>10, <1>11, <1>12, AnsweredStep

(* Resolved: the fixed path, or the loop begins with what it is told.      *)
LEMMA ResolvedStep ==
    ASSUME IInv, NEW r \in Requests, Resolved(r)
    PROVE  StoreOK(kept', count', lost') /\ RequestsOK(req')
<1>1. StoreOK(kept, count, lost) /\ RequestsOK(req) /\ req[r].at = "resolving"
  BY DEF IInv, Resolved
<1>2. PICK s : s = req[r]
  OBVIOUS
<1>3. InHand(s) /\ RequestOK(s) /\ s.at = "resolving" /\ s.called = 0
  BY <1>1, <1>2, AtWork DEF RequestOK, AskedLittle
<1>4. CASE Route(r, s)
  <2>1. s.called <= MaxToolRounds + 1
    BY <1>3, Limits
  <2> QED
    BY <1>1, <1>2, <1>3, <1>4, <2>1, RouteStep
<1>5. PICK k \in Keys : k = Key(r) /\ k = KeyOf(s)
  BY <1>2, <1>3, KeyIs
<1>6. PICK t : t = IF s.given THEN LastOf(Turns(k), MaxHistoryTurns) ELSE << >>
  OBVIOUS
<1>7. PICK x : x = [s EXCEPT !.at = "asking", !.told = t]
  OBVIOUS
<1>8. CASE /\ req' = [req EXCEPT ![r] = x]
           /\ kept' = IF s.given THEN Touched(k) ELSE kept
           /\ lost' = [q \in Keys |-> IF s.given /\ q \in LostBy(k) THEN count[q] ELSE lost[q]]
           /\ count' = count
  <2>1. t \in Seq(Turn) /\ Len(t) <= MaxHistoryTurns /\ \A i \in 1 .. Len(t) : t[i].key = k
    <3>1. CASE s.given
      <4>1. t = LastOf(Turns(k), MaxHistoryTurns)
        BY <1>6, <3>1
      <4> QED
        BY <1>1, <4>1, TurnsRead
    <3>2. CASE ~s.given
      <4>1. t = << >>
        BY <1>6, <3>2
      <4> QED
        BY <4>1, Limits
    <3> QED
      BY <3>1, <3>2
  <2>2. /\ x.at = "asking" /\ x.told = t /\ x.called = 0 /\ x.round = s.round /\ x.endpoint = s.endpoint
        /\ x.token = s.token /\ x.conversation = s.conversation /\ x.question = s.question
        /\ x \in Request
    BY <1>3, <1>7, <2>1 DEF InHand, Request
  <2>3. InHand(x) /\ KeyOf(x) = k
    BY <1>3, <1>5, <2>2 DEF InHand, KeyOf
  <2>4. ToldOwn(x)
    BY <2>1, <2>2, <2>3 DEF ToldOwn
  <2>5. AskedLittle(x)
    <3>1. x.round \in Nat
      BY <2>2, Limits DEF Request
    <3> QED
      BY <2>2, <3>1, Limits DEF AskedLittle
  <2>6. RequestOK(x)
    BY <2>2, <2>3, <2>4, <2>5 DEF RequestOK
  <2>7. RequestsOK(req')
    BY <1>1, <1>8, <2>6, OneChanges
  <2>8. StoreOK(kept', count', lost')
    <3>1. CASE s.given
      <4>1. PICK l : l = [q \in Keys |-> IF q \in LostBy(k) THEN count[q] ELSE lost[q]]
        OBVIOUS
      <4>2. StoreOK(Touched(k), count, l)
        BY <1>1, <4>1, LookedUp
      <4>3. kept' = Touched(k) /\ count' = count /\ lost' = l
        BY <1>8, <3>1, <4>1
      <4> QED
        BY <4>2, <4>3
    <3>2. CASE ~s.given
      <4>1. kept' = kept /\ count' = count
        BY <1>8, <3>2
      <4>2. lost' = lost
        <5>1. lost' = [q \in Keys |-> lost[q]]
          BY <1>8, <3>2
        <5>2. lost \in [Keys -> Nat]
          BY <1>1 DEF StoreOK, TurnsOK
        <5> QED
          BY <5>1, <5>2
      <4> QED
        BY <1>1, <4>1, <4>2
    <3> QED
      BY <3>1, <3>2
  <2> QED
    BY <2>7, <2>8
<1> QED
  BY <1>2, <1>4, <1>5, <1>6, <1>7, <1>8 DEF Resolved

(* ModelCalls: a round more for a call more, or the fixed path.            *)
LEMMA ModelCallsStep ==
    ASSUME IInv, NEW r \in Requests, ModelCalls(r)
    PROVE  StoreOK(kept', count', lost') /\ RequestsOK(req')
<1>1. StoreOK(kept, count, lost) /\ RequestsOK(req) /\ req[r].at = "asking"
  BY DEF IInv, ModelCalls
<1>2. PICK q : q = req[r]
  OBVIOUS
<1>3. InHand(q) /\ RequestOK(q) /\ q.at = "asking" /\ q.called <= q.round /\ ToldOwn(q)
  BY <1>1, <1>2, AtWork DEF RequestOK, AskedLittle
<1>4. PICK s : s = [q EXCEPT !.called = @ + 1]
  OBVIOUS
<1>5. /\ InHand(s) /\ s.called = q.called + 1 /\ q.called \in Nat
      /\ s.at = q.at /\ s.round = q.round /\ s.question = q.question
      /\ s.told = q.told /\ KeyOf(s) = KeyOf(q)
  BY <1>3, <1>4, CalledOnce
<1>6. q.round \in 0 .. MaxToolRounds
  BY <1>3 DEF InHand, Request
<1>7. PICK calls \in Calls :
         \/ Route(r, s)
         \/ /\ q.round < MaxToolRounds
            /\ req' = [req EXCEPT ![r] = NextRound(RunCalls(Context(r), s, calls))]
            /\ UNCHANGED <<kept, count, lost>>
  BY <1>2, <1>4, <1>6, Limits DEF ModelCalls
<1>8. CASE Route(r, s)
  <2>1. s.called <= MaxToolRounds + 1
    BY <1>3, <1>5, <1>6, Limits
  <2> QED
    BY <1>1, <1>2, <1>3, <1>5, <1>8, <2>1, RouteStep
<1>9. CASE /\ q.round < MaxToolRounds
           /\ req' = [req EXCEPT ![r] = NextRound(RunCalls(Context(r), s, calls))]
           /\ UNCHANGED <<kept, count, lost>>
  <2>1. PICK c : c = Context(r)
    OBVIOUS
  <2>2. PICK new : new = {call \in Range(calls) : call.tool \in Tools} \ s.seen
    OBVIOUS
  <2>3. PICK found : found = UNION {RunTool(c, call.tool, call.held) : call \in new}
    OBVIOUS
  <2>4. PICK x : x = [s EXCEPT !.seen = @ \cup new, !.found = @ \cup found, !.round = @ + 1]
    OBVIOUS
  <2>5. x = NextRound(RunCalls(c, s, calls))
    <3>1. PICK y : y = RunCalls(c, s, calls)
      OBVIOUS
    <3>2. y = [s EXCEPT !.seen = @ \cup new, !.found = @ \cup found]
      BY <2>2, <2>3, <3>1 DEF RunCalls
    <3>3. s \in Request
      BY <1>5 DEF InHand
    <3>4. x = [y EXCEPT !.round = @ + 1]
      BY <2>4, <3>2, <3>3 DEF Request
    <3> QED
      BY <3>1, <3>4 DEF NextRound
  <2>6. new \in SUBSET ToolCall
    <3>1. calls \in Seq(ToolCall)
      BY <1>7, InputsAssumption
    <3>2. Range(calls) \subseteq ToolCall
      BY <3>1 DEF Range
    <3> QED
      BY <2>2, <3>2
  <2>7. found \in SUBSET Dossiers
    <3>1. \A call \in new : RunTool(c, call.tool, call.held) \in SUBSET Dossiers
      BY <2>2, ToolsFind
    <3> QED
      BY <2>3, <3>1
  <2>8. s \in Request
    BY <1>5 DEF InHand
  <2>9. s.round + 1 \in 0 .. MaxToolRounds
    BY <1>5, <1>6, <1>9, Limits
  <2>10. /\ x.at = "asking" /\ x.told = s.told /\ x.called = s.called /\ x.round = s.round + 1
         /\ x.token = s.token /\ x.conversation = s.conversation /\ x.question = s.question
    BY <1>3, <1>5, <2>4, <2>8 DEF Request
  <2>11. x \in Request
    BY <2>4, <2>6, <2>7, <2>8, <2>9 DEF Request
  <2>12. InHand(x) /\ KeyOf(x) = KeyOf(q)
    BY <1>5, <2>10, <2>11 DEF InHand, KeyOf
  <2>13. AskedLittle(x)
    BY <1>3, <1>5, <1>6, <2>9, <2>10, Limits DEF AskedLittle
  <2>14. ToldOwn(x)
    BY <1>3, <1>5, <2>10, <2>12 DEF ToldOwn
  <2>15. RequestOK(x)
    BY <2>10, <2>11, <2>12, <2>13, <2>14 DEF RequestOK
  <2>16. RequestsOK(req')
    BY <1>1, <1>9, <2>1, <2>5, <2>15, OneChanges
  <2> QED
    BY <1>1, <1>9, <2>16
<1> QED
  BY <1>7, <1>8, <1>9

(* ModelAnswers: what the loop found, or the fixed path.                   *)
LEMMA ModelAnswersStep ==
    ASSUME IInv, NEW r \in Requests, ModelAnswers(r)
    PROVE  StoreOK(kept', count', lost') /\ RequestsOK(req')
<1>1. StoreOK(kept, count, lost) /\ RequestsOK(req) /\ req[r].at = "asking"
  BY DEF IInv, ModelAnswers
<1>2. PICK q : q = req[r]
  OBVIOUS
<1>3. InHand(q) /\ RequestOK(q) /\ q.at = "asking" /\ q.called <= q.round
  BY <1>1, <1>2, AtWork DEF RequestOK, AskedLittle
<1>4. PICK s : s = [q EXCEPT !.called = @ + 1]
  OBVIOUS
<1>5. /\ InHand(s) /\ s.called = q.called + 1 /\ q.called \in Nat
      /\ s.question = q.question
  BY <1>3, <1>4, CalledOnce
<1>6. q.round \in 0 .. MaxToolRounds /\ q.found \in SUBSET Dossiers
  BY <1>3 DEF InHand, Request
<1>7. s.called <= MaxToolRounds + 1 /\ s.called <= MaxToolRounds + 2
  BY <1>3, <1>5, <1>6, Limits
<1>8. PICK a : a = Answer("answered", "model", q.found, {})
  OBVIOUS
<1>9. \/ Route(r, s)
      \/ q.found # {} /\ Answered(r, s, a, FALSE)
  BY <1>2, <1>4, <1>8 DEF ModelAnswers, Accepts
<1>10. CASE Route(r, s)
  BY <1>1, <1>2, <1>3, <1>5, <1>7, <1>10, RouteStep
<1>11. CASE q.found # {} /\ Answered(r, s, a, FALSE)
  <2>1. /\ a.status = "answered" /\ a.author = "model" /\ a.evidence = q.found /\ a.cited = {}
        /\ a \in AnswerType
    BY <1>6, <1>8 DEF Answer, AnswerType, Statuses
  <2>2. Grounded(s, a)
    BY <1>11, <2>1 DEF Grounded
  <2> QED
    BY <1>1, <1>2, <1>3, <1>5, <1>7, <1>11, <2>1, <2>2, AnsweredStep
<1> QED
  BY <1>9, <1>10, <1>11

(* The evidence of a request that is written up, rendered by the code.     *)
LEMMA Rendered ==
    ASSUME RequestsOK(req), NEW r \in Requests, req[r].at = "composing",
           NEW s, s.question = req[r].question
    PROVE  /\ CanAnswer(Bundle(r)) /\ Bundle(r).evidence \in SUBSET Dossiers
           /\ Answer("answered", "code", Bundle(r).evidence, {}) \in AnswerType
           /\ Grounded(s, Answer("answered", "code", Bundle(r).evidence, {}))
<1>1. InHand(req[r]) /\ CanAnswer(BundleOf(req[r]))
  BY AtWork DEF RequestOK
<1>2. PICK b : b = Bundle(r)
  OBVIOUS
<1>3. CanAnswer(b) /\ b.evidence \in SUBSET Dossiers
  <2>1. b = BundleOf(req[r])
    BY <1>2, BundleIs
  <2>2. req[r].question \in Questions
    BY <1>1 DEF InHand
  <2> QED
    BY <1>1, <2>1, <2>2, BundleTyped
<1>4. b.evidence # {} /\ "answered" \in Statuses
  BY <1>3 DEF CanAnswer, Statuses
<1>5. PICK a : a = Answer("answered", "code", b.evidence, {})
  OBVIOUS
<1>6. a \in AnswerType /\ Grounded(s, a)
  BY <1>3, <1>4, <1>5, CodeAnswers
<1> QED
  BY <1>2, <1>3, <1>5, <1>6

(* ModelComposes: what validates, or the code's rendering.                 *)
LEMMA ModelComposesStep ==
    ASSUME IInv, NEW r \in Requests, ModelComposes(r)
    PROVE  StoreOK(kept', count', lost') /\ RequestsOK(req')
<1>1. StoreOK(kept, count, lost) /\ RequestsOK(req) /\ req[r].at = "composing"
  BY DEF IInv, ModelComposes
<1>2. PICK q : q = req[r]
  OBVIOUS
<1>3. InHand(q) /\ RequestOK(q) /\ q.called <= MaxToolRounds + 1
  BY <1>1, <1>2, AtWork DEF RequestOK, AskedLittle
<1>4. PICK s : s = [q EXCEPT !.called = @ + 1]
  OBVIOUS
<1>5. InHand(s) /\ s.called = q.called + 1 /\ q.called \in Nat /\ s.question = q.question
  BY <1>3, <1>4, CalledOnce
<1>6. s.called <= MaxToolRounds + 2
  BY <1>3, <1>5, Limits
<1>7. PICK evidence : evidence = Bundle(r).evidence
  OBVIOUS
<1>8. evidence \in SUBSET Dossiers /\ evidence # {}
  BY <1>1, <1>7, Rendered DEF CanAnswer
<1>9. PICK reply \in Replies :
        \/ /\ Validates(reply.claims, evidence)
           /\ Answered(r, s, Answer("answered", "model", evidence,
                                    UNION {reply.claims[i] : i \in DOMAIN reply.claims}), ~reply.summary)
        \/ Answered(r, s, Answer("answered", "code", evidence, {}), FALSE)
  BY <1>2, <1>4, <1>7 DEF ModelComposes
<1>10. CASE Answered(r, s, Answer("answered", "code", evidence, {}), FALSE)
  <2>1. PICK a : a = Answer("answered", "code", evidence, {})
    OBVIOUS
  <2>2. a \in AnswerType /\ Grounded(s, a)
    BY <1>1, <1>2, <1>5, <1>7, <2>1, Rendered
  <2> QED
    BY <1>1, <1>2, <1>3, <1>5, <1>6, <1>10, <2>1, <2>2, AnsweredStep
<1>11. CASE /\ Validates(reply.claims, evidence)
            /\ Answered(r, s, Answer("answered", "model", evidence,
                                     UNION {reply.claims[i] : i \in DOMAIN reply.claims}), ~reply.summary)
  <2>1. PICK cited : cited = UNION {reply.claims[i] : i \in DOMAIN reply.claims}
    OBVIOUS
  <2>2. cited \subseteq evidence
    BY <1>11, <2>1 DEF Validates
  <2>3. PICK a : a = Answer("answered", "model", evidence, cited)
    OBVIOUS
  <2>4. /\ a.status = "answered" /\ a.author = "model" /\ a.evidence = evidence /\ a.cited = cited
        /\ a \in AnswerType
    BY <1>8, <2>2, <2>3 DEF Answer, AnswerType, Statuses
  <2>5. Grounded(s, a)
    BY <1>8, <2>2, <2>4 DEF Grounded
  <2>6. PICK blank : blank = ~reply.summary
    OBVIOUS
  <2>7. Answered(r, s, a, blank)
    BY <1>11, <2>1, <2>3, <2>6
  <2> QED
    BY <1>1, <1>2, <1>3, <1>5, <1>6, <2>4, <2>5, <2>7, AnsweredStep
<1> QED
  BY <1>9, <1>10, <1>11

(* ModelFails: the fixed path, or the code's rendering.                    *)
LEMMA ModelFailsStep ==
    ASSUME IInv, NEW r \in Requests, ModelFails(r)
    PROVE  StoreOK(kept', count', lost') /\ RequestsOK(req')
<1>1. StoreOK(kept, count, lost) /\ RequestsOK(req)
  BY DEF IInv
<1>2. PICK q : q = req[r]
  OBVIOUS
<1>3. PICK s : s = IF library' = "loaded" THEN [q EXCEPT !.called = @ + 1] ELSE q
  OBVIOUS
<1>4. \/ q.at = "asking" /\ Route(r, s)
      \/ /\ q.at = "composing"
         /\ Answered(r, s, Answer("answered", "code", Bundle(r).evidence, {}), FALSE)
  BY <1>2, <1>3 DEF ModelFails
<1>5. InHand(q) /\ RequestOK(q)
  BY <1>1, <1>2, <1>4, AtWork
<1>6. /\ InHand(s) /\ s.question = q.question
      /\ q.called \in Nat /\ s.called \in {q.called, q.called + 1}
  <2>1. CASE s = q
    BY <1>5, <2>1 DEF InHand, Request
  <2>2. CASE s = [q EXCEPT !.called = @ + 1]
    BY <1>5, <2>2, CalledOnce
  <2> QED
    BY <1>3, <2>1, <2>2
<1>7. CASE q.at = "asking" /\ Route(r, s)
  <2>1. q.called <= q.round /\ q.round \in 0 .. MaxToolRounds
    BY <1>5, <1>7 DEF RequestOK, AskedLittle, InHand, Request
  <2>2. s.called <= MaxToolRounds + 1
    BY <1>6, <2>1, Limits
  <2> QED
    BY <1>1, <1>2, <1>5, <1>6, <1>7, <2>2, RouteStep
<1>8. CASE /\ q.at = "composing"
           /\ Answered(r, s, Answer("answered", "code", Bundle(r).evidence, {}), FALSE)
  <2>1. PICK a : a = Answer("answered", "code", Bundle(r).evidence, {})
    OBVIOUS
  <2>2. a \in AnswerType /\ Grounded(s, a)
    BY <1>1, <1>2, <1>6, <1>8, <2>1, Rendered
  <2>3. q.called <= MaxToolRounds + 1
    BY <1>5, <1>8 DEF RequestOK, AskedLittle
  <2>4. s.called <= MaxToolRounds + 2
    BY <1>6, <2>3, Limits
  <2> QED
    BY <1>1, <1>2, <1>5, <1>6, <1>8, <2>1, <2>2, <2>4, AnsweredStep
<1> QED
  BY <1>4, <1>7, <1>8

(* What sends an answer, or gives one up, leaves nothing of the request.   *)
LEMMA OverStep ==
    ASSUME IInv, NEW r \in Requests,
           ResolveFails(r) \/ Send(r) \/ StreamChatResponse(r) \/ Disconnect(r)
    PROVE  StoreOK(kept', count', lost') /\ RequestsOK(req')
<1>1. StoreOK(kept, count, lost) /\ RequestsOK(req)
  BY DEF IInv
<1>2. UNCHANGED <<kept, count, lost>>
  BY DEF ResolveFails, Error, Send, StreamChatResponse, Disconnect
<1>3. PICK x : /\ x \in {Idle, [Idle EXCEPT !.at = "failed"],
                         [Idle EXCEPT !.at = "sending", !.endpoint = "stream"]}
               /\ req' = [req EXCEPT ![r] = x]
  BY DEF ResolveFails, Error, Send, StreamChatResponse, Disconnect
<1>4. RequestOK(x)
  BY <1>3, IdleOK
<1>5. RequestsOK(req')
  BY <1>1, <1>3, <1>4, OneChanges
<1> QED
  BY <1>1, <1>2, <1>5

(* Lapse: what is kept of the conversation is as it was.                   *)
LEMMA LapseStep ==
    ASSUME IInv, Lapse
    PROVE  StoreOK(kept', count', lost') /\ RequestsOK(req')
<1>1. StoreOK(kept, count, lost) /\ RequestsOK(req)
  BY DEF IInv
<1>2. DOMAIN kept = 1 .. Len(kept)
  BY <1>1 DEF StoreOK, TurnsOK
<1>3. PICK i \in 1 .. Len(kept) : kept' = [kept EXCEPT ![i].aged = TRUE]
  BY <1>2 DEF Lapse
<1>4. StoreOK([kept EXCEPT ![i].aged = TRUE], count, lost)
  BY <1>1, Lapsed
<1> QED
  BY <1>1, <1>3, <1>4 DEF Lapse

(* It holds at first, with nothing kept and nobody asking.                 *)
LEMMA InitInv == Init => IInv
<1> SUFFICES ASSUME Init PROVE IInv
  OBVIOUS
<1>1. RestOK
  BY PowerAiAssumption DEF Init, RestOK
<1>2. StoreOK(kept, count, lost)
  <2>1. kept = << >> /\ Len(kept) = 0
    BY DEF Init
  <2>2. /\ count \in [Keys -> Nat] /\ lost \in [Keys -> Nat]
        /\ \A k \in Keys : lost[k] = count[k] /\ lost[k] <= count[k]
    BY DEF Init
  <2>3. kept \in Seq(Entry)
    BY <2>1
  <2>4. TurnsOK(kept, count, lost)
    BY <2>1, <2>2, <2>3 DEF TurnsOK
  <2> QED
    BY <2>1, <2>4, Limits DEF StoreOK
<1>3. RequestsOK(req)
  <2>1. PICK x : x = Idle /\ RequestOK(x)
    BY IdleOK
  <2>2. x \in Request
    BY <2>1 DEF RequestOK
  <2>3. req = [r \in Requests |-> x]
    BY <2>1 DEF Init
  <2> QED
    BY <2>1, <2>2, <2>3 DEF RequestsOK
<1> QED
  BY <1>1, <1>2, <1>3 DEF IInv

(* What is not a request's own, and not the store, keeps its type.         *)
LEMMA RestStep ==
    ASSUME IInv, \/ Lapse \/ FailureIsForgotten
                 \/ \E r \in Requests : Step(r) \/ Disconnect(r)
    PROVE  RestOK'
<1>1. RestOK
  BY DEF IInv
<1>2. UNCHANGED <<settings, used, asked>> /\ library' \in {library, "none", "loaded", "failed"}
  BY DEF Lapse, FailureIsForgotten, Step, Disconnect, AnswerCapability, Resolved, ResolveFails,
         ModelCalls, ModelAnswers, ModelComposes, ModelFails, Loads, LoadFails, Send,
         StreamChatResponse
<1> QED
  BY <1>1, <1>2 DEF RestOK

(* Every step keeps it.                                                    *)
LEMMA StepInv == IInv /\ [Next]_vars => IInv'
<1> SUFFICES ASSUME IInv, [Next]_vars PROVE IInv'
  OBVIOUS
<1>1. CASE Lapse
  BY <1>1, LapseStep, RestStep DEF IInv
<1>2. CASE FailureIsForgotten
  <2>1. RestOK'
    BY <1>2, RestStep
  <2> QED
    BY <1>2, <2>1 DEF IInv, FailureIsForgotten
<1>3. ASSUME NEW r \in Requests, Ask(r) PROVE IInv'
  BY <1>3, AskStep
<1>4. ASSUME NEW r \in Requests, Step(r) \/ Disconnect(r) PROVE IInv'
  <2>1. RestOK'
    BY <1>4, RestStep
  <2>2. StoreOK(kept', count', lost') /\ RequestsOK(req')
    <3>1. CASE AnswerCapability(r)
      BY <3>1, CapabilityStep
    <3>2. CASE Resolved(r)
      BY <3>2, ResolvedStep
    <3>3. CASE ModelCalls(r)
      BY <3>3, ModelCallsStep
    <3>4. CASE ModelAnswers(r)
      BY <3>4, ModelAnswersStep
    <3>5. CASE ModelComposes(r)
      BY <3>5, ModelComposesStep
    <3>6. CASE ModelFails(r)
      BY <3>6, ModelFailsStep
    <3>7. CASE ResolveFails(r) \/ Send(r) \/ StreamChatResponse(r) \/ Disconnect(r)
      BY <3>7, OverStep
    <3> QED
      BY <1>4, <3>1, <3>2, <3>3, <3>4, <3>5, <3>6, <3>7 DEF Step
  <2> QED
    BY <2>1, <2>2 DEF IInv
<1>5. CASE UNCHANGED vars
  BY <1>5 DEF vars, IInv, RestOK
<1> QED
  BY <1>1, <1>2, <1>3, <1>4, <1>5 DEF Next

(* So the invariant always holds.                                          *)
LEMMA Invariance == Spec => []IInv
<1>1. Init => IInv
  BY InitInv
<1>2. IInv /\ [Next]_vars => IInv'
  BY StepInv
<1> QED
  BY <1>1, <1>2, PTL DEF Spec

(***************************************************************************)
(* The results.                                                            *)
(***************************************************************************)

(* Every variable holds a value of its type: a conversation's store is a   *)
(* sequence of entries, an answer cites dossiers, a request is in a known  *)
(* place and has gone no more than the allowed rounds.                     *)
THEOREM TypeCorrect == Spec => []TypeOK
<1>1. IInv => TypeOK
  BY DEF IInv, TypeOK, RestOK, StoreOK, TurnsOK, RequestsOK, RequestOK, ToldOwn
<1> QED
  BY <1>1, Invariance, PTL

(* What a model wrote rests on evidence, the evidence it cites among it;   *)
(* and whatever the model and its provider do, a question the fixed path   *)
(* can answer is answered with evidence (AIService._generate).             *)
THEOREM AnswersAreGrounded == Spec => []ModelSpeaksFromEvidence
<1>1. IInv => ModelSpeaksFromEvidence
  <2> SUFFICES ASSUME IInv, NEW r \in Requests, req[r].at = "answered"
               PROVE  LET answer == req[r].answer
                      IN /\ answer.author = "model" =>
                              /\ answer.status = "answered"
                              /\ answer.evidence # {} /\ answer.cited \subseteq answer.evidence
                         /\ CanAnswer(Bundle(r)) /\ req[r].question.q.kind = None =>
                              answer.status = "answered" /\ answer.evidence # {}
    BY DEF ModelSpeaksFromEvidence
  <2>1. Grounded(req[r], req[r].answer)
    BY DEF IInv, RequestsOK, RequestOK
  <2>2. Bundle(r) = BundleOf(req[r])
    BY BundleIs
  <2> QED
    BY <2>1, <2>2 DEF Grounded
<1> QED
  BY <1>1, Invariance, PTL

(* A conversation's turns are kept in order and none is missed, whichever  *)
(* requests finish at once, but those that lapsed or were evicted; and a   *)
(* model is told only turns of its caller's conversation                   *)
(* (remember_turn, conversation_history).                                  *)
THEOREM NoTurnIsMissed == Spec => []TurnsAreKept
<1>1. IInv => TurnsAreKept
  <2> SUFFICES ASSUME IInv PROVE TurnsAreKept
    OBVIOUS
  <2>1. /\ kept \in Seq(Entry) /\ DOMAIN kept = 1 .. Len(kept) /\ Len(kept) <= MaxConversations
        /\ count \in [Keys -> Nat] /\ lost \in [Keys -> Nat] /\ \A k \in Keys : lost[k] <= count[k]
        /\ \A i, j \in 1 .. Len(kept) : kept[i].key = kept[j].key => i = j
    BY DEF IInv, StoreOK, TurnsOK
  <2>2. ASSUME NEW i \in DOMAIN kept
        PROVE  LET key == kept[i].key
                   since == [n \in 1 .. count[key] - lost[key] |-> [key |-> key, n |-> lost[key] + n]]
               IN kept[i].turns = LastOf(since, MaxTurns)
    <3>1. kept[i] \in Entry
      BY <2>1
    <3>2. PICK k \in Keys : k = kept[i].key
      BY <3>1 DEF Entry
    <3>3. PICK a \in Nat, b \in Nat : a = lost[k] /\ b = count[k] /\ a <= b
      BY <2>1, <3>2
    <3>4. kept[i].turns = Recent(k, a, b)
      BY <2>1, <3>2, <3>3 DEF IInv, StoreOK, TurnsOK
    <3>5. LastOf([n \in 1 .. b - a |-> [key |-> k, n |-> a + n]], MaxTurns) = Recent(k, a, b)
      BY <3>3, RecentIsLast
    <3> QED
      BY <3>2, <3>3, <3>4, <3>5
  <2>3. ASSUME NEW r \in Requests, NEW i \in DOMAIN req[r].told
        PROVE  req[r].told[i].key = Key(r)
    <3>1. req[r] \in Request /\ ToldOwn(req[r])
      BY DEF IInv, RequestsOK, RequestOK
    <3>2. DOMAIN req[r].told = 1 .. Len(req[r].told)
      BY <3>1 DEF Request
    <3> QED
      BY <3>1, <3>2 DEF ToldOwn, KeyOf, Key
  <2> QED
    BY <2>1, <2>2, <2>3 DEF TurnsAreKept
<1> QED
  BY <1>1, Invariance, PTL

(* A request asks the model no more than once for each allowed round, once *)
(* for its answer and once to write the evidence up, whatever the model    *)
(* replies (ai_service.py, tool_loop.py).                                  *)
THEOREM ModelIsSpared == Spec => []ModelIsAskedBoundedly
<1>1. IInv => ModelIsAskedBoundedly
  BY DEF IInv, RequestsOK, RequestOK, AskedLittle, ModelIsAskedBoundedly
<1> QED
  BY <1>1, Invariance, PTL
=============================================================================
