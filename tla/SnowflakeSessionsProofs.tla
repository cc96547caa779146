----------------------- MODULE SnowflakeSessionsProofs -----------------------
(***************************************************************************)
(* The safety properties of SnowflakeSessions, proved for any sessions,    *)
(* any finite set of requests, and any clock, age and store bounds.        *)
(***************************************************************************)
EXTENDS SnowflakeSessions, FiniteSetTheorems, TLAPS

(***************************************************************************)
(* The inductive invariant.  A connection goes through its life along one  *)
(* of three roads, kept apart by home and expiresAt: not yet saved (only   *)
(* the authenticating request knows it), in a store (nobody closes it), or *)
(* retired (a trace or one closing request is left to close it).           *)
(***************************************************************************)

(* active_operations counts the traces that are inside checkout().         *)
Counted == \A s \in Sessions : active[s] = Cardinality(Tracers(s))

(* What is in a store is open, and nobody has set out to close it.         *)
Stored ==
  \A s \in Sessions : home[s] # 0 =>
    /\ conn[s] = "open"
    /\ Known(s)
    /\ ~closeWhenIdle[s]
    /\ \A r \in Requests : s \notin closing[r]

(* A trace runs on a saved, open connection; if the session has left its   *)
(* store, the trace knows that it has to close it.                         *)
Traced ==
  \A r \in Requests : pc[r] = "tracing" =>
    /\ target[r] \in Sessions
    /\ conn[target[r]] = "open"
    /\ Known(target[r])
    /\ home[target[r]] = 0 => closeWhenIdle[target[r]]
    /\ \A q \in Requests : target[r] \notin closing[q]

(* A connection about to be closed is retired, and by one request only.    *)
Closed ==
  \A r \in Requests : \A s \in closing[r] :
    /\ pc[r] = "closing"
    /\ conn[s] = "open"
    /\ home[s] = 0
    /\ Known(s)
    /\ \A q \in Requests \ {r} : s \notin closing[q]

(* A new connection is the secret of the request that opened it.           *)
Fresh ==
  \A r \in Requests : pc[r] = "saving" =>
    /\ target[r] \in Sessions
    /\ conn[target[r]] = "open"
    /\ ~Known(target[r])
    /\ \A q \in Requests \ {r} : pc[q] = "saving" => target[q] # target[r]

(* A session nobody saved has no history.                                  *)
Unsaved ==
  \A s \in Sessions : (conn[s] = "absent" => ~Known(s))
                   /\ (~Known(s) => home[s] = 0 /\ ~closeWhenIdle[s])

(* A request has what its next step needs.                                 *)
Prepared ==
  \A r \in Requests :
    /\ pc[r] \in Operations =>
         target[r] \in Sessions /\ Known(target[r]) /\ via[r] # 0
    /\ pc[r] \in {"connecting", "saving", "responding", "closeAll"} =>
         via[r] # 0

(* An open connection is in some store, or with somebody who will close or *)
(* save it.                                                                *)
Kept ==
  \A s \in Sessions : conn[s] = "open" =>
    \/ home[s] # 0
    \/ closeWhenIdle[s] /\ Tracers(s) # {}
    \/ \E r \in Requests : s \in closing[r]
    \/ \E r \in Requests : pc[r] = "saving" /\ target[r] = s

IInv == /\ TypeOK /\ Counted /\ Stored /\ Traced /\ Closed /\ Fresh
        /\ Unsaved /\ Prepared /\ Kept

(***************************************************************************)
(* Lemmas.                                                                 *)
(***************************************************************************)

(* There are finitely many traces on a session.                            *)
LEMMA TracersFinite ==
  \A s : IsFiniteSet(Tracers(s)) /\ Cardinality(Tracers(s)) \in Nat
<1> TAKE s
<1>1. Tracers(s) \in SUBSET Requests
  BY DEF Tracers
<1>2. IsFiniteSet(Tracers(s))
  BY <1>1, FS_Subset, RequestsAssumption
<1> QED
  BY <1>2, FS_CardinalityType

(* A session has active operations exactly when a trace runs on it.        *)
LEMMA ActiveMeansTraced ==
  ASSUME Counted, NEW s \in Sessions
  PROVE  /\ active[s] \in Nat
         /\ active[s] = 0 <=> Tracers(s) = {}
<1>1. active[s] = Cardinality(Tracers(s))
  BY DEF Counted
<1> QED
  BY <1>1, TracersFinite, FS_EmptySet

(* A step of a request that neither was nor becomes a trace leaves the     *)
(* traces as they are.                                                     *)
LEMMA TracersUnchanged ==
  ASSUME NEW r \in Requests,
         \A q \in Requests \ {r} : pc'[q] = pc[q] /\ target'[q] = target[q],
         pc[r] # "tracing", pc'[r] # "tracing"
  PROVE  \A s : Tracers(s)' = Tracers(s)
<1> TAKE s
<1> QED
  BY DEF Tracers

(* The state the store starts in.                                          *)
LEMMA InitInv == Init => IInv
<1> SUFFICES ASSUME Init PROVE IInv
  OBVIOUS
<1>1. TypeOK
  BY DEF Init, TypeOK, Steps
<1>2. Counted
  <2> SUFFICES ASSUME NEW s \in Sessions PROVE active[s] = Cardinality(Tracers(s))
    BY DEF Counted
  <2>1. Tracers(s) = {}
    BY DEF Init, Tracers
  <2> QED
    BY <2>1, FS_EmptySet DEF Init
<1>3. Stored /\ Traced /\ Closed /\ Fresh /\ Unsaved /\ Prepared /\ Kept
  BY DEF Init, Stored, Traced, Closed, Fresh, Unsaved, Prepared, Kept, Known,
         Operations
<1> QED
  BY <1>1, <1>2, <1>3 DEF IInv

(* A step in which request r moves on between points where it holds no     *)
(* connection, and everything else stays.                                  *)
LEMMA QuietStep ==
  ASSUME IInv, TypeOK', NEW r \in Requests,
         UNCHANGED <<sessionVars, closing>>,
         \A q \in Requests \ {r} :
            pc'[q] = pc[q] /\ target'[q] = target[q] /\ via'[q] = via[q],
         pc[r] \notin {"tracing", "saving"},
         closing[r] = {},
         pc'[r] \notin {"tracing", "saving", "closing"},
         pc'[r] \in Operations =>
           target'[r] \in Sessions /\ Known(target'[r]) /\ via'[r] # 0,
         pc'[r] \in {"connecting", "responding", "closeAll"} => via'[r] # 0
  PROVE  IInv'
<1> USE DEF IInv, sessionVars, Known
<1>1. \A s : Tracers(s)' = Tracers(s)
  BY TracersUnchanged
<1>2. Counted'
  BY <1>1 DEF Counted
<1>3. Stored' /\ Unsaved'
  BY DEF Stored, Unsaved
<1>4. Traced' /\ Closed' /\ Fresh'
  BY DEF Traced, Closed, Fresh
<1>5. Prepared'
  BY DEF Prepared
<1>6. Kept'
  BY <1>1 DEF Kept
<1> QED
  BY <1>2, <1>3, <1>4, <1>5, <1>6

(* A new connection is known to the request that opened it and to no other.*)
LEMMA ConnectStep ==
  ASSUME IInv, NEW r \in Requests, NEW s \in Sessions, Connect(r, s)
  PROVE  IInv'
<1> USE DEF IInv, Connect, Known
<1>1. TypeOK'
  BY DEF TypeOK, Steps
<1>2. \A c : Tracers(c)' = Tracers(c)
  BY TracersUnchanged DEF TypeOK
<1>3. Counted'
  BY <1>2 DEF Counted
<1>4. Stored' /\ Unsaved'
  BY DEF TypeOK, Stored, Unsaved
<1>5. Traced' /\ Closed'
  BY DEF TypeOK, Traced, Closed
<1>6. Fresh'
  BY DEF TypeOK, Fresh, Unsaved
<1>7. Prepared'
  BY DEF TypeOK, Prepared, Operations
<1>8. Kept'
  BY <1>2 DEF TypeOK, Kept
<1> QED
  BY <1>1, <1>3, <1>4, <1>5, <1>6, <1>7, <1>8

(* Saving hands the connection from the request to the store.              *)
LEMMA SaveStep ==
  ASSUME IInv, NEW r \in Requests, Save(r)
  PROVE  IInv'
<1> DEFINE s == target[r]
<1> USE DEF IInv, Save, Known
<1>1. s \in Sessions /\ conn[s] = "open" /\ ~Known(s) /\ via[r] # 0
  BY DEF Fresh, Prepared
<1>2. now + MaxAge \in Nat \ {0}
  BY MaxAgeAssumption DEF TypeOK
<1>3. TypeOK'
  BY <1>1, <1>2 DEF TypeOK, Steps
<1>4. \A c : Tracers(c)' = Tracers(c)
  BY TracersUnchanged DEF TypeOK
<1>5. Counted'
  BY <1>4 DEF Counted
<1>6. Stored' /\ Unsaved'
  BY <1>1, <1>2 DEF TypeOK, Stored, Unsaved, Closed
<1>7. Traced' /\ Closed'
  BY <1>1, <1>2 DEF TypeOK, Traced, Closed
<1>8. Fresh'
  BY <1>1 DEF TypeOK, Fresh
<1>9. Prepared'
  BY <1>1, <1>2 DEF TypeOK, Prepared, Operations
<1>10. Kept'
  BY <1>1, <1>4 DEF TypeOK, Kept
<1> QED
  BY <1>3, <1>5, <1>6, <1>7, <1>8, <1>9, <1>10

(* A session leaves its store: its connection goes to the request, or to   *)
(* the traces that still use it.                                           *)
LEMMA DropStep ==
  ASSUME IInv, NEW r \in Requests, pc[r] \in Operations, Held(r), Drop(r),
         UNCHANGED <<now, current, late>>
  PROVE  IInv'
<1> DEFINE s == target[r]
<1> USE DEF IInv, Drop, Leave, End, Known
<1>1. s \in Sessions /\ home[s] # 0 /\ Known(s) /\ closing[r] = {}
  BY DEF Held, Prepared, Operations, Closed
<1>2. /\ conn[s] = "open" /\ ~closeWhenIdle[s]
      /\ \A q \in Requests : s \notin closing[q]
  BY <1>1 DEF Stored
<1>3. active[s] \in Nat /\ (active[s] = 0 <=> Tracers(s) = {})
  BY <1>1, ActiveMeansTraced
<1>4. TypeOK'
  <2>1. CASE active[s] > 0
    <3>1. closeWhenIdle' \in [Sessions -> BOOLEAN]
      BY <2>1, <1>1, Zenon DEF TypeOK
    <3> QED
      BY <2>1, <3>1, <1>1 DEF TypeOK, Steps
  <2>2. CASE ~(active[s] > 0)
    BY <2>2, <1>1 DEF TypeOK, Steps
  <2> QED
    BY <2>1, <2>2
<1>5. pc[r] # "tracing" /\ pc'[r] # "tracing" /\ pc'[r] # "saving"
  BY DEF TypeOK, Operations
<1>6. \A c : Tracers(c)' = Tracers(c)
  BY <1>5, TracersUnchanged DEF TypeOK
<1>7. Counted'
  BY <1>6 DEF Counted
<1>8. Stored' /\ Unsaved'
  BY <1>1, <1>3 DEF TypeOK, Stored, Unsaved
<1>9. Traced'
  <2> SUFFICES ASSUME NEW q \in Requests, pc'[q] = "tracing"
               PROVE  /\ target'[q] \in Sessions
                      /\ conn'[target'[q]] = "open"
                      /\ expiresAt'[target'[q]] # 0
                      /\ home'[target'[q]] = 0 => closeWhenIdle'[target'[q]]
                      /\ \A p \in Requests : target'[q] \notin closing'[p]
    BY DEF Traced
  <2>1. q # r /\ pc[q] = "tracing" /\ target'[q] = target[q]
    BY <1>5 DEF TypeOK
  <2>2. q \in Tracers(target[q])
    BY <2>1 DEF Tracers
  <2>3. target[q] = s => active[s] > 0
    BY <2>2, <1>3
  <2>4. /\ target[q] \in Sessions /\ conn[target[q]] = "open"
        /\ Known(target[q])
        /\ home[target[q]] = 0 => closeWhenIdle[target[q]]
        /\ \A p \in Requests : target[q] \notin closing[p]
    BY <2>1 DEF Traced
  <2>5. home'[target[q]] = 0 => closeWhenIdle'[target[q]]
    BY <2>3, <2>4, <1>1 DEF TypeOK
  <2>6. ASSUME NEW p \in Requests PROVE target[q] \notin closing'[p]
    BY <2>3, <2>4, <1>1 DEF TypeOK
  <2> QED
    BY <2>1, <2>4, <2>5, <2>6
<1>10. Closed'
  BY <1>1, <1>2 DEF TypeOK, Closed, Operations
<1>11. Fresh'
  BY <1>1, <1>5 DEF TypeOK, Fresh
<1>12. Prepared'
  BY <1>1 DEF TypeOK, Prepared, Operations
<1>13. Kept'
  <2> SUFFICES ASSUME NEW c \in Sessions, conn'[c] = "open"
               PROVE  \/ home'[c] # 0
                      \/ closeWhenIdle'[c] /\ Tracers(c)' # {}
                      \/ \E q \in Requests : c \in closing'[q]
                      \/ \E q \in Requests : pc'[q] = "saving" /\ target'[q] = c
    BY DEF Kept
  <2>1. CASE c = s /\ active[s] > 0
    BY <2>1, <1>1, <1>3, <1>6 DEF TypeOK
  <2>2. CASE c = s /\ ~(active[s] > 0)
    BY <2>2, <1>1 DEF TypeOK
  <2>3. CASE c # s
    <3>1. home'[c] = home[c] /\ closeWhenIdle'[c] = closeWhenIdle[c]
      BY <2>3, <1>1 DEF TypeOK
    <3>2. ASSUME NEW q \in Requests, c \in closing[q] PROVE c \in closing'[q]
      BY <3>2, <1>1 DEF TypeOK
    <3>3. ASSUME NEW q \in Requests, pc[q] = "saving", target[q] = c
          PROVE  pc'[q] = "saving" /\ target'[q] = c
      BY <3>3 DEF TypeOK, Operations
    <3> QED
      BY <3>1, <3>2, <3>3, <1>6 DEF Kept
  <2> QED
    BY <2>1, <2>2, <2>3
<1> QED
  BY <1>4, <1>7, <1>8, <1>9, <1>10, <1>11, <1>12, <1>13

(* checkout() adds its request to the traces and one to the counter.       *)
LEMMA CheckoutStep ==
  ASSUME IInv, NEW r \in Requests, Checkout(r)
  PROVE  IInv'
<1> DEFINE s == target[r]
<1> USE DEF IInv, Checkout, Known
<1>1. s \in Sessions /\ home[s] # 0 /\ via[r] # 0 /\ closing[r] = {}
  BY DEF Held, Prepared, Operations, Closed
<1>2. /\ conn[s] = "open" /\ expiresAt[s] # 0 /\ ~closeWhenIdle[s]
      /\ \A q \in Requests : s \notin closing[q]
  BY <1>1 DEF Stored
<1>3. TypeOK'
  BY <1>1 DEF TypeOK, Steps
<1>4. Tracers(s)' = Tracers(s) \cup {r} /\ r \notin Tracers(s)
  BY DEF TypeOK, Tracers
<1>5. \A c \in Sessions \ {s} : Tracers(c)' = Tracers(c)
  BY DEF TypeOK, Tracers
<1>6. Counted'
  <2>1. Cardinality(Tracers(s)') = Cardinality(Tracers(s)) + 1
    BY <1>4, TracersFinite, FS_AddElement
  <2> QED
    BY <2>1, <1>1, <1>5 DEF TypeOK, Counted
<1>7. Stored' /\ Unsaved'
  BY DEF Stored, Unsaved
<1>8. Traced' /\ Closed' /\ Fresh'
  BY <1>1, <1>2 DEF TypeOK, Traced, Closed, Fresh
<1>9. Prepared'
  BY DEF TypeOK, Prepared, Operations
<1>10. Kept'
  BY <1>4, <1>5 DEF TypeOK, Kept
<1> QED
  BY <1>3, <1>6, <1>7, <1>8, <1>9, <1>10

(* Leaving checkout() takes the request from the traces; the last one      *)
(* takes a retired connection with it.                                     *)
LEMMA CheckinStep ==
  ASSUME IInv, NEW r \in Requests, Checkin(r)
  PROVE  IInv'
<1> USE DEF IInv, Known
<1>0. PICK s \in Sessions : s = target[r]
  BY DEF Checkin, Traced
<1> DEFINE left == active[s] - 1
<1>1. /\ pc[r] = "tracing" /\ target[r] = s /\ conn[s] = "open"
      /\ expiresAt[s] # 0
      /\ home[s] = 0 => closeWhenIdle[s]
      /\ \A q \in Requests : s \notin closing[q]
      /\ closing[r] = {}
  BY <1>0 DEF Checkin, Traced, Closed
<1>2. r \in Tracers(s)
  BY <1>1 DEF Tracers
<1>3. active[s] \in Nat \ {0} /\ active[s] = Cardinality(Tracers(s))
  BY <1>1, <1>2, ActiveMeansTraced DEF Counted
<1>4. /\ active' = [active EXCEPT ![s] = left]
      /\ Leave(r, IF closeWhenIdle[s] /\ left = 0 THEN {s} ELSE {})
      /\ UNCHANGED <<now, current, conn, home, closeWhenIdle, expiresAt, late>>
  <2>1. OneFewer(active[s]) = left
    BY <1>3 DEF OneFewer
  <2> QED
    BY <1>1, <2>1 DEF Checkin
<1>5. left \in Nat
  BY <1>3
<1>6. /\ pc'[r] \in {"idle", "closing"}
      /\ \A q \in Requests \ {r} : /\ pc'[q] = pc[q] /\ target'[q] = target[q]
                                  /\ via'[q] = via[q] /\ closing'[q] = closing[q]
      /\ pc' \in [Requests -> Steps] /\ via' \in [Requests -> Nat]
      /\ target' \in [Requests -> Sessions \cup {NoSession}]
      /\ closing' \in [Requests -> SUBSET Sessions]
  BY <1>1, <1>4 DEF TypeOK, Steps, Leave, End
<1>7. IF closeWhenIdle[s] /\ left = 0
      THEN closing'[r] = {s} /\ pc'[r] = "closing"
      ELSE closing'[r] = {}
  BY <1>1, <1>4 DEF TypeOK, Leave, End
<1> HIDE DEF left
<1>8. TypeOK'
  BY <1>1, <1>4, <1>5, <1>6 DEF TypeOK
<1>9. Tracers(s)' = Tracers(s) \ {r}
  BY <1>1, <1>6 DEF Tracers
<1>10. \A c \in Sessions \ {s} : Tracers(c)' = Tracers(c)
  BY <1>1, <1>6 DEF Tracers
<1>11. Cardinality(Tracers(s)') = left
  BY <1>2, <1>3, <1>9, TracersFinite, FS_RemoveElement DEF left
<1>12. Counted'
  BY <1>1, <1>4, <1>10, <1>11 DEF TypeOK, Counted
<1>13. left = 0 <=> Tracers(s)' = {}
  BY <1>9, <1>11, TracersFinite, FS_RemoveElement, FS_EmptySet
<1>14. Stored'
  BY <1>4, <1>6, <1>7 DEF Stored
<1>15. Unsaved'
  BY <1>4 DEF Unsaved
<1>16. Traced'
  <2> SUFFICES ASSUME NEW q \in Requests, pc'[q] = "tracing"
               PROVE  /\ target'[q] \in Sessions
                      /\ conn'[target'[q]] = "open"
                      /\ expiresAt'[target'[q]] # 0
                      /\ home'[target'[q]] = 0 => closeWhenIdle'[target'[q]]
                      /\ \A p \in Requests : target'[q] \notin closing'[p]
    BY DEF Traced
  <2>1. q # r /\ pc[q] = "tracing" /\ target'[q] = target[q]
    BY <1>6
  <2>2. target[q] = s => q \in Tracers(s)'
    BY <2>1 DEF Tracers
  <2>3. target[q] \notin closing'[r]
    BY <2>2, <1>7, <1>13
  <2> QED
    BY <2>1, <2>3, <1>4, <1>6 DEF Traced
<1>17. Closed'
  BY <1>1, <1>4, <1>6, <1>7 DEF Closed, Stored
<1>18. Fresh'
  BY <1>4, <1>6 DEF Fresh
<1>19. Prepared'
  BY <1>4, <1>6 DEF Prepared, Operations
<1>20. Kept'
  <2> SUFFICES ASSUME NEW c \in Sessions, conn[c] = "open", home[c] = 0
               PROVE  \/ closeWhenIdle[c] /\ Tracers(c)' # {}
                      \/ \E q \in Requests : c \in closing'[q]
                      \/ \E q \in Requests : pc'[q] = "saving" /\ target'[q] = c
    BY <1>4 DEF Kept
  <2>1. CASE c = s
    BY <2>1, <1>1, <1>7, <1>13
  <2>2. CASE c # s
    BY <2>2, <1>1, <1>6, <1>10 DEF Kept
  <2> QED
    BY <2>1, <2>2
<1> QED
  BY <1>8, <1>12, <1>14, <1>15, <1>16, <1>17, <1>18, <1>19, <1>20

(* close_all() empties one store: each session goes to this request or to  *)
(* the traces on it.                                                       *)
LEMMA CloseAllStep ==
  ASSUME IInv, NEW r \in Requests, CloseAll(r)
  PROVE  IInv'
<1> USE DEF IInv, Known
<1>1. PICK held \in SUBSET Sessions :
        held = {s \in Sessions : home[s] = via[r]}
  OBVIOUS
<1>2. PICK C \in SUBSET held : C = {s \in held : active[s] = 0}
  OBVIOUS
<1>3. /\ pc[r] = "closeAll" /\ via[r] # 0 /\ closing[r] = {}
      /\ home' = [s \in Sessions |-> IF s \in held THEN 0 ELSE home[s]]
      /\ closeWhenIdle' = [s \in Sessions |->
                              IF s \in held /\ active[s] > 0
                              THEN TRUE ELSE closeWhenIdle[s]]
      /\ Leave(r, C)
      /\ UNCHANGED <<now, current, conn, active, expiresAt, late>>
  BY <1>1, <1>2 DEF CloseAll, Prepared, Closed
<1>4. \A s \in held : /\ home[s] # 0 /\ conn[s] = "open" /\ expiresAt[s] # 0
                      /\ ~closeWhenIdle[s]
                      /\ \A q \in Requests : s \notin closing[q]
  BY <1>1, <1>3 DEF Stored
<1>5. \A s \in Sessions : /\ active[s] \in Nat
                          /\ active[s] = 0 <=> Tracers(s) = {}
  BY ActiveMeansTraced
<1>6. /\ pc'[r] \in {"idle", "closing"}
      /\ \A q \in Requests \ {r} : /\ pc'[q] = pc[q] /\ target'[q] = target[q]
                                  /\ via'[q] = via[q] /\ closing'[q] = closing[q]
      /\ pc' \in [Requests -> Steps] /\ via' \in [Requests -> Nat]
      /\ target' \in [Requests -> Sessions \cup {NoSession}]
      /\ closing' \in [Requests -> SUBSET Sessions]
      /\ closing'[r] = C
      /\ C # {} => pc'[r] = "closing"
  <2>1. CASE C = {}
    BY <2>1, <1>3 DEF TypeOK, Steps, Leave, End
  <2>2. CASE C # {}
    BY <2>2, <1>3 DEF TypeOK, Steps, Leave
  <2> QED
    BY <2>1, <2>2
<1>7. closeWhenIdle' \in [Sessions -> BOOLEAN]
  <2>1. ASSUME NEW s \in Sessions
        PROVE  (IF s \in held /\ active[s] > 0 THEN TRUE ELSE closeWhenIdle[s])
                 \in BOOLEAN
    BY Zenon DEF TypeOK
  <2> QED
    BY <2>1, <1>3, Zenon
<1>8. TypeOK'
  BY <1>3, <1>6, <1>7 DEF TypeOK
<1>9. \A c : Tracers(c)' = Tracers(c)
  BY <1>3, <1>6, TracersUnchanged
<1>10. Counted'
  BY <1>3, <1>9 DEF Counted
<1>11. Stored'
  <2> SUFFICES ASSUME NEW s \in Sessions, home'[s] # 0
               PROVE  /\ conn'[s] = "open" /\ expiresAt'[s] # 0
                      /\ ~closeWhenIdle'[s]
                      /\ \A q \in Requests : s \notin closing'[q]
    BY DEF Stored
  <2>1. s \notin held /\ home[s] # 0
    BY <1>3
  <2> QED
    BY <2>1, <1>2, <1>3, <1>6 DEF Stored
<1>12. Unsaved'
  BY <1>3, <1>4 DEF Unsaved
<1>13. Traced'
  <2> SUFFICES ASSUME NEW q \in Requests, pc'[q] = "tracing"
               PROVE  /\ target'[q] \in Sessions
                      /\ conn'[target'[q]] = "open"
                      /\ expiresAt'[target'[q]] # 0
                      /\ home'[target'[q]] = 0 => closeWhenIdle'[target'[q]]
                      /\ \A p \in Requests : target'[q] \notin closing'[p]
    BY DEF Traced
  <2>1. PICK s \in Sessions : s = target[q]
    BY <1>6 DEF Traced
  <2>2. q # r /\ pc[q] = "tracing" /\ target'[q] = s /\ target[q] = s
    BY <1>6, <2>1
  <2>3. q \in Tracers(s)
    BY <2>2 DEF Tracers
  <2>4. active[s] > 0 /\ s \notin C
    BY <2>3, <1>2, <1>5
  <2>5. home'[s] = 0 => closeWhenIdle'[s]
    BY <2>2, <2>4, <1>3 DEF Traced
  <2> QED
    BY <2>2, <2>4, <2>5, <1>3, <1>6 DEF Traced
<1>14. Closed'
  <2> SUFFICES ASSUME NEW q \in Requests, NEW s \in closing'[q]
               PROVE  /\ pc'[q] = "closing" /\ conn'[s] = "open"
                      /\ home'[s] = 0 /\ expiresAt'[s] # 0
                      /\ \A p \in Requests \ {q} : s \notin closing'[p]
    BY DEF Closed
  <2>1. CASE q = r
    BY <2>1, <1>3, <1>4, <1>6
  <2>2. CASE q # r
    <3>1. s \in closing[q] /\ s \in Sessions /\ s \notin held
      BY <2>2, <1>4, <1>6 DEF TypeOK
    <3> QED
      BY <2>2, <3>1, <1>3, <1>6 DEF Closed
  <2> QED
    BY <2>1, <2>2
<1>15. Fresh'
  BY <1>3, <1>6 DEF Fresh
<1>16. Prepared'
  BY <1>3, <1>6 DEF Prepared, Operations
<1>17. Kept'
  <2> SUFFICES ASSUME NEW c \in Sessions, conn[c] = "open"
               PROVE  \/ home'[c] # 0
                      \/ closeWhenIdle'[c] /\ Tracers(c)' # {}
                      \/ \E q \in Requests : c \in closing'[q]
                      \/ \E q \in Requests : pc'[q] = "saving" /\ target'[q] = c
    BY <1>3 DEF Kept
  <2>1. CASE c \in held
    BY <2>1, <1>2, <1>3, <1>5, <1>6, <1>9
  <2>2. CASE c \notin held
    <3>1. home'[c] = home[c] /\ closeWhenIdle'[c] = closeWhenIdle[c]
      BY <2>2, <1>3
    <3> QED
      BY <3>1, <1>3, <1>6, <1>9 DEF Kept
  <2> QED
    BY <2>1, <2>2
<1> QED
  BY <1>8, <1>10, <1>11, <1>12, <1>13, <1>14, <1>15, <1>16, <1>17

(* A connection is closed by the one request that has it.                  *)
LEMMA CloseConnectionStep ==
  ASSUME IInv, NEW r \in Requests, NEW s \in Sessions, CloseConnection(r, s)
  PROVE  IInv'
<1> USE DEF IInv, CloseConnection, Known
<1>1. /\ pc[r] = "closing" /\ home[s] = 0 /\ expiresAt[s] # 0
      /\ \A q \in Requests \ {r} : s \notin closing[q]
  BY DEF Closed
<1>2. TypeOK'
  BY DEF TypeOK
<1>3. \A c : Tracers(c)' = Tracers(c)
  BY DEF Tracers
<1>4. Counted'
  BY <1>3 DEF Counted
<1>5. Stored' /\ Unsaved'
  BY <1>1 DEF TypeOK, Stored, Unsaved
<1>6. Traced'
  BY DEF TypeOK, Traced
<1>7. Closed'
  BY <1>1 DEF TypeOK, Closed
<1>8. Fresh'
  BY <1>1 DEF TypeOK, Fresh
<1>9. Prepared'
  BY DEF Prepared
<1>10. Kept'
  BY <1>3 DEF TypeOK, Kept
<1> QED
  BY <1>2, <1>4, <1>5, <1>6, <1>7, <1>8, <1>9, <1>10

(***************************************************************************)
(* The invariant is inductive.                                             *)
(***************************************************************************)
LEMMA UnchangedStep ==
  ASSUME IInv, now' \in Nat, UNCHANGED <<current, sessionVars, requestVars, late>>
  PROVE  IInv'
<1> USE DEF IInv, sessionVars, requestVars, Known
<1>1. \A s : Tracers(s)' = Tracers(s)
  BY DEF Tracers
<1>2. TypeOK'
  BY DEF TypeOK
<1>3. Counted' /\ Kept'
  BY <1>1 DEF Counted, Kept
<1>4. Stored' /\ Traced' /\ Closed' /\ Fresh' /\ Unsaved' /\ Prepared'
  BY DEF Stored, Traced, Closed, Fresh, Unsaved, Prepared
<1> QED
  BY <1>2, <1>3, <1>4

(* A request that ends where it holds nothing.                             *)
LEMMA EndStep ==
  ASSUME IInv, NEW r \in Requests, End(r),
         pc[r] \notin {"tracing", "saving"}, closing[r] = {},
         UNCHANGED <<now, current, sessionVars, closing, late>>
  PROVE  IInv'
<1>1. TypeOK'
  BY DEF IInv, TypeOK, End, Steps, sessionVars
<1> QED
  BY <1>1, QuietStep DEF IInv, TypeOK, End, Operations

(* A request that takes a session as its target, to work on it next.       *)
LEMMA TargetStep ==
  ASSUME IInv, NEW r \in Requests, NEW s \in Sessions, Known(s),
         NEW op \in Operations, NEW v \in Nat \ {0},
         pc[r] \notin {"tracing", "saving"}, closing[r] = {},
         pc' = [pc EXCEPT ![r] = op], via' = [via EXCEPT ![r] = v],
         target' = [target EXCEPT ![r] = s],
         UNCHANGED <<now, current, sessionVars, closing, late>>
  PROVE  IInv'
<1>1. TypeOK'
  BY DEF IInv, TypeOK, Steps, sessionVars
<1>2. Known(target'[r])
  BY DEF IInv, TypeOK
<1> QED
  BY <1>1, <1>2, QuietStep DEF IInv, TypeOK, Operations

LEMMA NextInv == IInv /\ [Next]_vars => IInv'
<1> SUFFICES ASSUME IInv, [Next]_vars PROVE IInv'
  OBVIOUS
<1>1. CASE Tick
  BY <1>1, UnchangedStep DEF Tick, IInv, TypeOK
<1>2. ASSUME NEW r \in Requests, Progress(r) PROVE IInv'
  <2>1. pc[r] # "closing" => closing[r] = {}
    BY DEF IInv, Closed, TypeOK
  <2>2. CASE ConnectFails(r)
    BY <2>1, <2>2, EndStep DEF ConnectFails
  <2>3. CASE Save(r)
    BY <2>3, SaveStep
  <2>4. CASE Respond(r)
    BY <2>1, <2>4, EndStep DEF Respond
  <2>5. CASE Status(r)
    BY <2>1, <2>5, EndStep, DropStep DEF Status, Operations
  <2>6. CASE Checkout(r)
    BY <2>6, CheckoutStep
  <2>7. CASE CheckoutFails(r)
    BY <2>1, <2>7, EndStep, DropStep DEF CheckoutFails, Operations
  <2>8. CASE Checkin(r)
    BY <2>8, CheckinStep
  <2>9. CASE Delete(r)
    BY <2>1, <2>9, EndStep, DropStep DEF Delete, Operations
  <2>10. CASE CloseAll(r)
    BY <2>10, CloseAllStep
  <2>11. CASE Return(r)
    BY <2>11, EndStep DEF Return
  <2>12. ASSUME NEW s \in Sessions, Connect(r, s) PROVE IInv'
    BY <2>12, ConnectStep
  <2>13. ASSUME NEW s \in Sessions, ReplacePrevious(r, s) PROVE IInv'
    <3>1. via[r] \in Nat \ {0} /\ via' = [via EXCEPT ![r] = via[r]]
      BY <2>13 DEF ReplacePrevious, IInv, TypeOK, Prepared
    <3> QED
      BY <2>1, <2>13, <3>1, TargetStep DEF ReplacePrevious, Operations
  <2>14. ASSUME NEW s \in Sessions, CloseConnection(r, s) PROVE IInv'
    BY <2>14, CloseConnectionStep
  <2> QED
    BY <1>2, <2>2, <2>3, <2>4, <2>5, <2>6, <2>7, <2>8, <2>9, <2>10, <2>11,
       <2>12, <2>13, <2>14 DEF Progress
<1>3. ASSUME NEW r \in Requests, Arrive(r) PROVE IInv'
  <2>1. pc[r] # "closing" => closing[r] = {}
    BY DEF IInv, Closed, TypeOK
  <2>2. current \in Nat \ {0} /\ current + 1 \in Nat \ {0}
    BY DEF IInv, TypeOK
  <2>3. CASE BeginAuthenticate(r)
    <3>1. TypeOK'
      BY <2>3 DEF BeginAuthenticate, IInv, TypeOK, Steps, sessionVars
    <3> QED
      BY <2>1, <2>2, <2>3, <3>1, QuietStep
      DEF BeginAuthenticate, IInv, TypeOK, Operations
  <2>4. CASE RetireStore(r)
    <3>1. TypeOK'
      BY <2>2, <2>4 DEF RetireStore, IInv, TypeOK, Steps, sessionVars
    <3> QED
      BY <2>1, <2>2, <2>4, <3>1, QuietStep
      DEF RetireStore, IInv, TypeOK, Operations
  <2>5. ASSUME NEW op \in Operations, NEW s \in Sessions, Begin(r, op, s)
        PROVE  IInv'
    BY <2>1, <2>2, <2>5, TargetStep DEF Begin, Operations
  <2> QED
    BY <1>3, <2>3, <2>4, <2>5 DEF Arrive
<1>4. CASE UNCHANGED vars
  BY <1>4, UnchangedStep DEF vars, IInv, TypeOK
<1> QED
  BY <1>1, <1>2, <1>3, <1>4 DEF Next

LEMMA Invariance == Spec => []IInv
<1> QED
  BY InitInv, NextInv, PTL DEF Spec

(***************************************************************************)
(* The safety properties.                                                  *)
(***************************************************************************)

(* The store's state has its types in every reachable state.               *)
THEOREM TypeCorrect == Spec => []TypeOK
<1>1. IInv => TypeOK
  BY DEF IInv
<1> QED
  BY <1>1, Invariance, PTL

(* No logout, expiry, re-authentication or shutdown closes a connection    *)
(* under a running trace, for any number of sessions and requests.         *)
THEOREM TracesKeepTheirConnection == Spec => []NoCloseUnderTrace
<1>1. IInv => NoCloseUnderTrace
  BY DEF IInv, Traced, NoCloseUnderTrace
<1> QED
  BY <1>1, Invariance, PTL

(* Whatever two requests do, one at most sets out to close a connection,   *)
(* and it is open when it does.                                            *)
THEOREM ConnectionsAreClosedOnce == Spec => []ClosedOnce
<1>1. IInv => ClosedOnce
  BY DEF IInv, Closed, ClosedOnce
<1> QED
  BY <1>1, Invariance, PTL

(* What is left in a store that close_all has emptied was saved late.      *)
Visited == \A s \in Sessions : home[s] # 0 => Served(home[s]) \/ s \in late

(* Only CloseAll takes a store out of service, and it empties it; only     *)
(* Save puts a session into one.                                           *)
LEMMA VisitedStep ==
  ASSUME IInv, Visited, [Next]_vars
  PROVE  Visited'
<1> USE DEF IInv
<1>1. ASSUME NEW r \in Requests, pc[r] # "closeAll", late' = late, current' = current,
             \A q \in Requests \ {r} : pc'[q] = pc[q] /\ via'[q] = via[q],
             \A s \in Sessions : home'[s] \in {0, home[s]}
      PROVE  Visited'
  BY <1>1 DEF Visited, Served
<1>2. CASE Tick \/ UNCHANGED vars
  BY <1>2 DEF Tick, vars, sessionVars, requestVars, Visited, Served
<1>3. ASSUME NEW r \in Requests, Save(r) PROVE Visited'
  <2>1. target[r] \in Sessions
    BY <1>3 DEF Save, Fresh
  <2>2. \A g : Served(g)' = Served(g)
    BY <1>3 DEF Save, Served, TypeOK
  <2>3. /\ home' = [home EXCEPT ![target[r]] = via[r]]
        /\ late' = IF Served(via[r]) THEN late ELSE late \cup {target[r]}
    BY <1>3 DEF Save
  <2>4. ASSUME NEW s \in Sessions, home'[s] # 0 PROVE Served(home'[s]) \/ s \in late'
    <3>1. CASE s = target[r]
      <4>1. home'[s] = via[r]
        BY <2>1, <2>3, <3>1 DEF TypeOK
      <4> QED
        BY <2>3, <3>1, <4>1
    <3>2. CASE s # target[r]
      <4>1. home'[s] = home[s]
        BY <2>3, <3>2 DEF TypeOK
      <4> QED
        BY <2>3, <2>4, <4>1 DEF Visited
    <3> QED
      BY <3>1, <3>2
  <2> QED
    BY <2>2, <2>4 DEF Visited
<1>4. ASSUME NEW r \in Requests, CloseAll(r) PROVE Visited'
  <2>1. /\ \A s \in Sessions : home'[s] # 0 => home'[s] = home[s] /\ home[s] # via[r]
        /\ late' = late /\ current' = current
        /\ \A q \in Requests \ {r} : pc'[q] = pc[q] /\ via'[q] = via[q]
    BY <1>4 DEF CloseAll, Leave, End, TypeOK
  <2> QED
    BY <2>1 DEF Visited, Served
<1>5. ASSUME NEW r \in Requests, RetireStore(r) PROVE Visited'
  <2>1. /\ pc'[r] = "closeAll" /\ via'[r] = current /\ pc[r] = "idle"
        /\ \A q \in Requests \ {r} : pc'[q] = pc[q] /\ via'[q] = via[q]
        /\ home' = home /\ late' = late
    BY <1>5 DEF RetireStore, sessionVars, TypeOK
  <2> QED
    BY <2>1 DEF Visited, Served
<1>6. ASSUME NEW r \in Requests, Progress(r), ~Save(r), ~CloseAll(r) PROVE Visited'
  <2>1. /\ pc[r] # "closeAll" /\ late' = late /\ current' = current
        /\ \A q \in Requests \ {r} : pc'[q] = pc[q] /\ via'[q] = via[q]
    <3>1. CASE \/ Status(r) \/ CheckoutFails(r) \/ Delete(r)
      BY <3>1 DEF Status, CheckoutFails, Delete, Drop, Leave, End, TypeOK
    <3>2. CASE Checkout(r) \/ Checkin(r)
      BY <3>2 DEF Checkout, Checkin, Leave, End, TypeOK
    <3>3. CASE \/ ConnectFails(r) \/ Respond(r) \/ Return(r)
               \/ \E s \in Sessions : Connect(r, s) \/ ReplacePrevious(r, s)
      BY <3>3 DEF ConnectFails, Respond, Return, Connect, ReplacePrevious, End, TypeOK
    <3>4. ASSUME NEW s \in Sessions, CloseConnection(r, s)
          PROVE  /\ pc[r] # "closeAll" /\ late' = late /\ current' = current
                 /\ \A q \in Requests \ {r} : pc'[q] = pc[q] /\ via'[q] = via[q]
      BY <3>4 DEF CloseConnection, Closed
    <3> QED
      BY <1>6, <3>1, <3>2, <3>3, <3>4 DEF Progress
  <2>2. \A s \in Sessions : home'[s] \in {0, home[s]}
    <3>1. CASE \/ Status(r) \/ CheckoutFails(r) \/ Delete(r)
      BY <3>1 DEF Status, CheckoutFails, Delete, Drop, sessionVars, TypeOK
    <3>2. CASE ~(Status(r) \/ CheckoutFails(r) \/ Delete(r))
      BY <1>6, <3>2 DEF Progress, Checkout, Checkin, ConnectFails, Respond, Return,
         Connect, ReplacePrevious, CloseConnection, sessionVars
    <3> QED
      BY <3>1, <3>2
  <2> QED
    BY <1>1, <2>1, <2>2
<1>7. ASSUME NEW r \in Requests, Arrive(r), ~RetireStore(r) PROVE Visited'
  BY <1>1, <1>7 DEF Arrive, BeginAuthenticate, Begin, sessionVars, TypeOK
<1> QED
  BY <1>2, <1>3, <1>4, <1>5, <1>6, <1>7 DEF Next

(* Every open connection is in a store that close_all has still to empty,  *)
(* or with a request that will save it, close it or use it last, unless it *)
(* was saved into a store that close_all had left.                         *)
THEOREM NoConnectionLeaks == Spec => []NoLeak
<1>1. Init => Visited
  BY DEF Init, Visited
<1>2. IInv /\ Visited => NoLeak
  BY DEF IInv, Kept, Visited, NoLeak
<1> QED
  BY <1>1, <1>2, VisitedStep, Invariance, PTL DEF Spec

(***************************************************************************)
(* The store implements the pool of connections: each step is a step of    *)
(* the pool or leaves it alone.                                            *)
(***************************************************************************)
LEMMA PoolStutter ==
  ASSUME UNCHANGED <<conn, home, expiresAt>>, \A s : Tracers(s)' = Tracers(s)
  PROVE  UNCHANGED Pool!vars
BY DEF Pool!vars, tracers, retired, Known

LEMMA PoolInit == Init => Pool!Init
<1> SUFFICES ASSUME Init PROVE Pool!Init
  OBVIOUS
<1>1. \A s \in Sessions : Tracers(s) = {}
  BY DEF Init, Tracers
<1> QED
  BY <1>1 DEF Init, Pool!Init, tracers, retired, Known

(* Dropping a session retires its connection.                              *)
LEMMA PoolDrop ==
  ASSUME IInv, NEW r \in Requests, pc[r] \in Operations, Held(r), Drop(r)
  PROVE  Pool!Next
<1> USE DEF IInv, Known
<1>1. PICK s \in Sessions : s = target[r]
  BY DEF Prepared
<1>2. home[s] # 0 /\ expiresAt[s] # 0 /\ conn[s] = "open"
  BY <1>1 DEF Held, Prepared, Operations, Stored
<1>3. home' = [home EXCEPT ![s] = 0] /\ UNCHANGED <<conn, expiresAt>>
  BY <1>1 DEF Drop
<1>4. pc[r] # "tracing" /\ pc'[r] # "tracing"
  BY DEF TypeOK, Operations, Drop, Leave, End
<1>5. \A c : Tracers(c)' = Tracers(c)
  BY <1>4, TracersUnchanged DEF TypeOK, Drop, Leave, End
<1>6. tracers' = tracers /\ retired' = retired \cup {s}
  BY <1>2, <1>3, <1>5 DEF TypeOK, tracers, retired
<1>7. Pool!Retire({s})
  BY <1>2, <1>3, <1>6 DEF Pool!Retire
<1> QED
  BY <1>7 DEF Pool!Next

LEMMA PoolConnect ==
  ASSUME IInv, NEW r \in Requests, NEW s \in Sessions, Connect(r, s)
  PROVE  Pool!Next
<1>1. \A c : Tracers(c)' = Tracers(c)
  BY TracersUnchanged DEF IInv, TypeOK, Connect
<1>2. tracers' = tracers /\ retired' = retired
  BY <1>1 DEF Connect, tracers, retired, Known
<1>3. Pool!Open(s)
  BY <1>2 DEF Connect, Pool!Open
<1> QED
  BY <1>3 DEF Pool!Next

LEMMA PoolSave ==
  ASSUME IInv, NEW r \in Requests, Save(r)
  PROVE  UNCHANGED Pool!vars
<1> USE DEF IInv, Known, Save
<1>1. /\ target[r] \in Sessions /\ expiresAt[target[r]] = 0
      /\ via[r] \in Nat \ {0}
  BY DEF TypeOK, Fresh, Prepared
<1>2. \A c : Tracers(c)' = Tracers(c)
  BY TracersUnchanged DEF TypeOK
<1>3. retired' = retired
  BY <1>1 DEF TypeOK, retired
<1> QED
  BY <1>2, <1>3 DEF Pool!vars, tracers

LEMMA PoolCheckout ==
  ASSUME IInv, NEW r \in Requests, Checkout(r)
  PROVE  Pool!Next
<1> USE DEF IInv, Known, Checkout
<1>1. target[r] \in Sessions /\ home[target[r]] # 0 /\ conn[target[r]] = "open"
  BY DEF Held, Prepared, Operations, Stored
<1>2. tracers' = [tracers EXCEPT ![target[r]] = @ \cup {r}]
  <2>1. ASSUME NEW c \in Sessions
        PROVE  Tracers(c)' = IF c = target[r] THEN Tracers(c) \cup {r} ELSE Tracers(c)
    BY <1>1 DEF TypeOK, Tracers
  <2> QED
    BY <2>1, <1>1 DEF tracers
<1>3. retired' = retired
  BY DEF retired
<1>4. Pool!Acquire(target[r], r)
  BY <1>1, <1>2, <1>3 DEF Pool!Acquire, retired
<1> QED
  BY <1>1, <1>4 DEF Pool!Next

LEMMA PoolCheckin ==
  ASSUME IInv, NEW r \in Requests, Checkin(r)
  PROVE  Pool!Next
<1> USE DEF IInv, Known, Checkin
<1>1. PICK s \in Sessions : s = target[r]
  BY DEF Traced
<1>2. r \in Tracers(s)
  BY <1>1 DEF Tracers
<1>3. /\ pc'[r] # "tracing"
      /\ \A q \in Requests \ {r} : pc'[q] = pc[q] /\ target'[q] = target[q]
  BY DEF TypeOK, Leave, End
<1>4. tracers' = [tracers EXCEPT ![s] = @ \ {r}]
  <2>1. ASSUME NEW c \in Sessions
        PROVE  Tracers(c)' = IF c = s THEN Tracers(c) \ {r} ELSE Tracers(c)
    BY <1>1, <1>3 DEF Tracers
  <2> QED
    BY <2>1 DEF tracers
<1>5. retired' = retired
  BY DEF retired
<1>6. Pool!Release(s, r)
  BY <1>2, <1>4, <1>5 DEF Pool!Release, tracers
<1> QED
  BY <1>6 DEF Pool!Next

LEMMA PoolCloseAll ==
  ASSUME IInv, NEW r \in Requests, CloseAll(r)
  PROVE  Pool!Next
<1> USE DEF IInv, Known
<1>1. PICK held \in SUBSET Sessions :
        held = {s \in Sessions : home[s] = via[r]}
  OBVIOUS
<1>2. \A s \in held : conn[s] = "open" /\ expiresAt[s] # 0
  BY <1>1 DEF CloseAll, Prepared, Stored
<1>3. /\ home' = [s \in Sessions |-> IF s \in held THEN 0 ELSE home[s]]
      /\ UNCHANGED <<conn, expiresAt>>
  BY <1>1 DEF CloseAll
<1>4. \A c : Tracers(c)' = Tracers(c)
  BY TracersUnchanged DEF TypeOK, CloseAll, Leave, End
<1>5. tracers' = tracers /\ retired' = retired \cup held
  BY <1>2, <1>3, <1>4 DEF tracers, retired
<1>6. Pool!Retire(held)
  BY <1>2, <1>3, <1>5 DEF Pool!Retire
<1> QED
  BY <1>6 DEF Pool!Next

LEMMA PoolClose ==
  ASSUME IInv, NEW r \in Requests, NEW s \in Sessions, CloseConnection(r, s)
  PROVE  Pool!Next
<1> USE DEF IInv, Known, CloseConnection
<1>1. s \in retired /\ conn[s] = "open"
  BY DEF Closed, retired
<1>2. tracers[s] = {}
  BY DEF Traced, Tracers, tracers
<1>3. tracers' = tracers /\ retired' = retired
  BY DEF tracers, Tracers, retired
<1>4. Pool!Close(s)
  BY <1>1, <1>2, <1>3 DEF Pool!Close
<1> QED
  BY <1>4 DEF Pool!Next

LEMMA PoolNext == IInv /\ [Next]_vars => [Pool!Next]_(Pool!vars)
<1> SUFFICES ASSUME IInv, [Next]_vars PROVE Pool!Next \/ UNCHANGED Pool!vars
  OBVIOUS
<1>1. ASSUME UNCHANGED <<conn, home, expiresAt>>,
             NEW r \in Requests, pc[r] # "tracing", pc'[r] # "tracing",
             \A q \in Requests \ {r} : pc'[q] = pc[q] /\ target'[q] = target[q]
      PROVE  UNCHANGED Pool!vars
  BY <1>1, TracersUnchanged, PoolStutter
<1>2. CASE Tick \/ UNCHANGED vars
  <2>1. UNCHANGED <<conn, home, expiresAt>> /\ \A s : Tracers(s)' = Tracers(s)
    BY <1>2 DEF Tick, vars, sessionVars, requestVars, Tracers
  <2> QED
    BY <2>1, PoolStutter
<1>3. ASSUME NEW r \in Requests, End(r), pc[r] # "tracing", UNCHANGED sessionVars
      PROVE  UNCHANGED Pool!vars
  BY <1>1, <1>3 DEF IInv, TypeOK, End, sessionVars
<1>4. ASSUME NEW r \in Requests, Progress(r)
      PROVE  Pool!Next \/ UNCHANGED Pool!vars
  <2>1. CASE ConnectFails(r) \/ Respond(r) \/ Return(r)
    BY <2>1, <1>3 DEF ConnectFails, Respond, Return
  <2>2. CASE Status(r)
    BY <2>2, <1>3, PoolDrop DEF Status, Operations
  <2>3. CASE CheckoutFails(r)
    BY <2>3, <1>3, PoolDrop DEF CheckoutFails, Operations
  <2>4. CASE Delete(r)
    BY <2>4, <1>3, PoolDrop DEF Delete, Operations
  <2>5. CASE Save(r)
    BY <2>5, PoolSave
  <2>6. CASE Checkout(r)
    BY <2>6, PoolCheckout
  <2>7. CASE Checkin(r)
    BY <2>7, PoolCheckin
  <2>8. CASE CloseAll(r)
    BY <2>8, PoolCloseAll
  <2>9. ASSUME NEW s \in Sessions, Connect(r, s) PROVE Pool!Next
    BY <2>9, PoolConnect
  <2>10. ASSUME NEW s \in Sessions, ReplacePrevious(r, s)
         PROVE  UNCHANGED Pool!vars
    BY <2>10, <1>1 DEF ReplacePrevious, IInv, TypeOK, sessionVars
  <2>11. ASSUME NEW s \in Sessions, CloseConnection(r, s) PROVE Pool!Next
    BY <2>11, PoolClose
  <2> QED
    BY <1>4, <2>1, <2>2, <2>3, <2>4, <2>5, <2>6, <2>7, <2>8, <2>9, <2>10, <2>11
    DEF Progress
<1>5. ASSUME NEW r \in Requests, Arrive(r) PROVE UNCHANGED Pool!vars
  <2>1. CASE BeginAuthenticate(r)
    BY <2>1, <1>1 DEF BeginAuthenticate, IInv, TypeOK, sessionVars
  <2>2. CASE RetireStore(r)
    BY <2>2, <1>1 DEF RetireStore, IInv, TypeOK, sessionVars
  <2>3. ASSUME NEW op \in Operations, NEW s \in Sessions, Begin(r, op, s)
        PROVE  UNCHANGED Pool!vars
    BY <2>3, <1>1 DEF Begin, IInv, TypeOK, sessionVars, Operations
  <2> QED
    BY <1>5, <2>1, <2>2, <2>3 DEF Arrive
<1> QED
  BY <1>2, <1>4, <1>5 DEF Next

(* The session store is an implementation of the abstract pool: its        *)
(* connections are opened once, closed once, never under a user, and never *)
(* handed out again after a logout, an expiry or a shutdown.               *)
THEOREM StoreImplementsPool == Spec => ImplementsPool
<1> QED
  BY PoolInit, PoolNext, Invariance, PTL DEF Spec, ImplementsPool, Pool!Spec

(* What left its store never comes back, and no trace starts on it any     *)
(* more.                                                                   *)
THEOREM RetiredIsFinal == Spec => NeverRevived
<1> DEFINE Final == \A s \in Sessions :
             Known(s) /\ home[s] = 0 =>
               home'[s] = 0 /\ Tracers(s)' \subseteq Tracers(s)
<1>1. ASSUME [Pool!Next]_(Pool!vars), NEW s \in Sessions, s \in retired
      PROVE  s \in retired' /\ tracers'[s] \subseteq tracers[s]
  BY <1>1
  DEF Pool!Next, Pool!vars, Pool!Open, Pool!Close, Pool!Acquire, Pool!Release,
      Pool!Retire, tracers
<1>2. IInv /\ [Next]_vars => Final
  BY <1>1, PoolNext DEF retired, tracers
<1>3. IInv /\ [Next]_vars => [Final]_vars
  BY <1>2
<1> QED
  BY <1>3, Invariance, PTL DEF Spec, NeverRevived
=============================================================================
