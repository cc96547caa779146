---------------------------- MODULE VersionedGraphs ----------------------------
(***************************************************************************)
(* What a store of versioned graphs promises to those who call it, without *)
(* transactions, caches and their keys:                                    *)
(*                                                                         *)
(*   - a graph has a history of versions, which only grows at its end, and *)
(*     never by what it ends with already;                                 *)
(*   - a save that returns has its content in the history;                 *)
(*   - a read that is given a version is given it as it is in the history, *)
(*     and the one it asked for; it is given none only if there is none;   *)
(*   - as long as nobody contends for a graph, a read of the latest        *)
(*     version misses no save that had returned before the read began.     *)
(*                                                                         *)
(* LineageStore implements this specification.                             *)
(***************************************************************************)
EXTENDS Integers, Sequences

CONSTANTS
  Graphs,      \* the graphs
  Contents,    \* what a graph may consist of
  Callers,     \* those who call
  Selectors,   \* what a read may ask for: versions, and Latest
  Latest,      \* the newest version
  Nothing,     \* no version
  NoGraph      \* the graph of an idle caller

VARIABLES
  log,         \* log[g]: the contents of g's versions 1, 2, ...
  stage,       \* stage[t]: "idle", "saving", "saved", "reading" or "answered"
  graph,       \* graph[t]: the graph its call is about
  wanted,      \* wanted[t]: the selector of a read, the content of a save
  answer,      \* answer[t]: what the call will return
  acked,       \* acked[g]: the newest version a save has returned
  since,       \* since[t]: acked when the call began
  contended    \* the graphs for which calls have contended

calls == <<stage, graph, wanted, answer, since>>
vars == <<log, calls, acked, contended>>

Working(g) == {t \in Callers : stage[t] # "idle" /\ graph[t] = g}
Version(g, n) == [version |-> n, content |-> log[g][n]]

Init ==
  /\ log = [g \in Graphs |-> <<>>]
  /\ stage = [t \in Callers |-> "idle"]
  /\ graph = [t \in Callers |-> NoGraph]
  /\ wanted = [t \in Callers |-> Latest]
  /\ answer = [t \in Callers |-> Nothing]
  /\ acked = [g \in Graphs |-> 0]
  /\ since = [t \in Callers |-> 0]
  /\ contended = {}

(* A call begins; others on the same graph contend with it.                *)
Begin(t, g, next, w) ==
  /\ stage[t] = "idle"
  /\ stage' = [stage EXCEPT ![t] = next]
  /\ graph' = [graph EXCEPT ![t] = g]
  /\ wanted' = [wanted EXCEPT ![t] = w]
  /\ since' = [since EXCEPT ![t] = acked[g]]
  /\ contended' = IF Working(g) # {} THEN contended \cup {g} ELSE contended
  /\ UNCHANGED <<log, answer, acked>>

End(t) ==
  /\ stage' = [stage EXCEPT ![t] = "idle"]
  /\ graph' = [graph EXCEPT ![t] = NoGraph]
  /\ wanted' = [wanted EXCEPT ![t] = Latest]
  /\ answer' = [answer EXCEPT ![t] = Nothing]
  /\ since' = [since EXCEPT ![t] = 0]
  /\ UNCHANGED <<log, contended>>

(* A save takes effect: its content is the newest version from now on.     *)
Save(t) ==
  LET g == graph[t]
      n == Len(log'[g])
  IN  /\ stage[t] = "saving"
      /\ IF log[g] # <<>> /\ log[g][Len(log[g])] = wanted[t]
         THEN UNCHANGED log
         ELSE log' = [log EXCEPT ![g] = Append(@, wanted[t])]
      /\ stage' = [stage EXCEPT ![t] = "saved"]
      /\ answer' = [answer EXCEPT ![t] = [version |-> n, content |-> wanted[t]]]
      /\ UNCHANGED <<graph, wanted, since, acked, contended>>

Refuse(t) == stage[t] = "saving" /\ End(t) /\ UNCHANGED acked

Acknowledge(t) ==
  /\ stage[t] = "saved"
  /\ acked' = [acked EXCEPT ![graph[t]] =
                 IF answer[t].version > @ THEN answer[t].version ELSE @]
  /\ End(t)

(* What a read may be given.                                               *)
Given(t) ==
  LET g == graph[t]
      w == wanted[t]
      fresh == {n \in 1..Len(log[g]) : g \in contended \/ n >= since[t]}
  IN  IF w = Latest
      THEN IF log[g] = <<>> THEN {Nothing} ELSE {Version(g, n) : n \in fresh}
      ELSE IF w \in 1..Len(log[g]) THEN {Version(g, w)} ELSE {Nothing}

Answer(t) ==
  /\ stage[t] = "reading"
  /\ stage' = [stage EXCEPT ![t] = "answered"]
  /\ \E s \in Given(t) : answer' = [answer EXCEPT ![t] = s]
  /\ UNCHANGED <<log, graph, wanted, since, acked, contended>>

Return(t) == stage[t] = "answered" /\ End(t) /\ UNCHANGED acked

(* With no call under way, contention may be over.                         *)
Settle(g) ==
  /\ Working(g) = {}
  /\ contended' = contended \ {g}
  /\ UNCHANGED <<log, calls, acked>>

(* The service stops: calls are lost, the history is not.                  *)
Restart ==
  /\ stage' = [t \in Callers |-> "idle"]
  /\ graph' = [t \in Callers |-> NoGraph]
  /\ wanted' = [t \in Callers |-> Latest]
  /\ answer' = [t \in Callers |-> Nothing]
  /\ since' = [t \in Callers |-> 0]
  /\ contended' = {}
  /\ UNCHANGED <<log, acked>>

Next ==
  \/ Restart
  \/ \E g \in Graphs : Settle(g)
  \/ \E t \in Callers :
       \/ Save(t) \/ Refuse(t) \/ Acknowledge(t) \/ Answer(t) \/ Return(t)
       \/ \E g \in Graphs :
            \/ \E c \in Contents : Begin(t, g, "saving", c)
            \/ \E v \in Selectors : Begin(t, g, "reading", v)

Spec == Init /\ [][Next]_vars
=============================================================================
