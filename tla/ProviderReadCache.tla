-------------------------- MODULE ProviderReadCache --------------------------
(***************************************************************************)
(* The session-scoped cache of provider reads and its single flight        *)
(* (services/provider_read_cache.py over services/ttl_cache.py), with      *)
(* DELETE /api/v1/cache (api/v1/cache.py).                                 *)
(*                                                                         *)
(* The cache lives on one event loop: a task runs from one await to the    *)
(* next without interruption, and the only await is the provider's answer. *)
(* A fetch (the asyncio.Future in _fetches) is named by the task that      *)
(* leads it.  What the provider holds for a key is a version: 0 while the  *)
(* caller is denied access, then 1, 2, ... as the object is edited.        *)
(***************************************************************************)
EXTENDS Integers, Sequences, SequencesExt

CONSTANTS
  Keys,          \* the reads that are made
  Tokens,        \* the access tokens they are made with
  TokenOf,       \* TokenOf[k]: the token whose fingerprint is key[0]
  Refreshes,     \* the sets of tokens one DELETE /cache invalidates
  Callers,       \* the tasks calling get_or_fetch
  NoCaller,      \* no task
  NoKey,         \* the key of a task that reads nothing
  Ttls,          \* what ttl_seconds may be set to; 0 disables the cache
  MaxEntries,    \* max_entries
  MaxTime,       \* bound of the clock
  FirstVersion,  \* FirstVersion[k]: what the provider holds at first
  LastVersion    \* LastVersion[k]: bound of the provider's versions of k

ASSUME KeysAssumption == /\ TokenOf \in [Keys -> Tokens]
                         /\ Refreshes \subseteq SUBSET Tokens
                         /\ NoKey \notin Keys /\ NoCaller \notin Callers
ASSUME LimitsAssumption == Ttls \subseteq Nat /\ MaxEntries \in Nat \ {0}
ASSUME BoundsAssumption ==
  /\ MaxTime \in Nat /\ LastVersion \in [Keys -> Nat]
  /\ FirstVersion \in [Keys -> Nat]
  /\ \A k \in Keys : FirstVersion[k] <= LastVersion[k]

VARIABLES
  ttl,        \* ttl_seconds, as configured
  now,        \* what clock() returns
  truth,      \* truth[k]: the provider's version of k
  lru,        \* the keys of _entries, least recently used first
  value,      \* value[k]: the cached version, 0 when k is not in lru
  deadline,   \* deadline[k]: its expires_at, 0 when k is not in lru
  leader,     \* leader[k]: the task whose future is _fetches[k], or NoCaller
  pc,         \* pc[c]: "idle", "asking", "answered", "joined" or "done"
  key,        \* key[c]: what c reads
  reply,      \* reply[c]: the outcome of c's read, or of the answer under way
  floor,      \* floor[c]: what was promised when c called (history)
  shown,      \* shown[k]: the newest version a caller was given (history)
  refreshed,  \* refreshed[k]: truth at the last refresh (history)
  overtaken,  \* overtaken[k]: that refresh met a fetch under way (history)
  since       \* since[k]: the entries used after entry k was (history)

cacheVars == <<lru, value, deadline>>
callVars == <<pc, key, reply>>
history == <<floor, shown, refreshed, overtaken, since>>
vars == <<ttl, now, truth, cacheVars, leader, callVars, history>>

Outcomes == {"none", "value", "denied", "failed", "cancelled"}
Replies == [outcome : Outcomes, version : Nat]
Reply(o, v) == [outcome |-> o, version |-> v]
NoReply == Reply("none", 0)
NoFloor ==
  [held |-> 0, shown |-> 0, refreshed |-> 0, overtaken |-> FALSE,
   joined |-> FALSE]
(* What version v of an object means for the caller.                       *)
Holding(v) == IF v = 0 THEN Reply("denied", 0) ELSE Reply("value", v)

Init ==
  /\ ttl \in Ttls
  /\ now = 0
  /\ truth = FirstVersion
  /\ lru = <<>>
  /\ value = [k \in Keys |-> 0]
  /\ deadline = [k \in Keys |-> 0]
  /\ leader = [k \in Keys |-> NoCaller]
  /\ pc = [c \in Callers |-> "idle"]
  /\ key = [c \in Callers |-> NoKey]
  /\ reply = [c \in Callers |-> NoReply]
  /\ floor = [c \in Callers |-> NoFloor]
  /\ shown = [k \in Keys |-> 0]
  /\ refreshed = [k \in Keys |-> 0]
  /\ overtaken = [k \in Keys |-> FALSE]
  /\ since = [k \in Keys |-> {}]

Cached == {lru[i] : i \in 1..Len(lru)}
Live(k) == k \in Cached /\ deadline[k] > now
Joiners(c) == {d \in Callers : pc[d] = "joined" /\ key[d] = key[c]
                                /\ leader[key[c]] = c}

(***************************************************************************)
(* TTLCache.                                                               *)
(***************************************************************************)

(* The keys of s that are not in K, in their order.                        *)
Without(s, K) ==
  LET F[i \in 0..Len(s)] == IF i = 0 THEN <<>>
                            ELSE IF s[i] \in K THEN F[i - 1]
                            ELSE Append(F[i - 1], s[i])
  IN F[Len(s)]

Forget(K) ==
  /\ lru' = Without(lru, K)
  /\ value' = [k \in Keys |-> IF k \in K THEN 0 ELSE value[k]]
  /\ deadline' = [k \in Keys |-> IF k \in K THEN 0 ELSE deadline[k]]

(* set: to the recent end, then evict from the other while over the limit. *)
Put(k, v) ==
  LET after == Append(Without(lru, {k}), k)
      surplus == IF Len(after) > MaxEntries THEN Len(after) - MaxEntries ELSE 0
      evicted == {after[i] : i \in 1..surplus}
  IN
  /\ lru' = SubSeq(after, surplus + 1, Len(after))
  /\ value' = [j \in Keys |-> IF j \in evicted THEN 0
                              ELSE IF j = k THEN v ELSE value[j]]
  /\ deadline' = [j \in Keys |-> IF j \in evicted THEN 0
                                 ELSE IF j = k THEN now + ttl ELSE deadline[j]]

(* The history of use: k is used, or entries only go.                      *)
Used(k) ==
  since' = [j \in Keys |-> IF j = k \/ j \notin Cached' THEN {}
                           ELSE (since[j] \cup {k}) \cap Cached']
NoneUsed ==
  since' = [j \in Keys |-> IF j \notin Cached' THEN {} ELSE since[j] \cap Cached']

(***************************************************************************)
(* The provider and the clock.                                             *)
(***************************************************************************)
Tick ==
  /\ now < MaxTime
  /\ now' = now + 1
  /\ UNCHANGED <<ttl, truth, cacheVars, leader, callVars, history>>

(* Access is granted, or the object is edited.                             *)
Edit(k) ==
  /\ truth[k] < LastVersion[k]
  /\ truth' = [truth EXCEPT ![k] = @ + 1]
  /\ UNCHANGED <<ttl, now, cacheVars, leader, callVars, history>>

Answer(c) ==
  /\ pc[c] = "asking"
  /\ pc' = [pc EXCEPT ![c] = "answered"]
  /\ \/ reply' = [reply EXCEPT ![c] = Holding(truth[key[c]])]
     \/ reply' = [reply EXCEPT ![c] = Reply("failed", 0)]
  /\ UNCHANGED <<ttl, now, truth, cacheVars, leader, key, history>>

(***************************************************************************)
(* get_or_fetch.                                                           *)
(***************************************************************************)
Call(c, k, state) ==
  /\ pc[c] = "idle"
  /\ pc' = [pc EXCEPT ![c] = state]
  /\ key' = [key EXCEPT ![c] = k]
  /\ floor' = [floor EXCEPT ![c] =
                 [held |-> truth[k], shown |-> shown[k],
                  refreshed |-> refreshed[k], overtaken |-> overtaken[k],
                  joined |-> state = "joined"]]
  /\ UNCHANGED <<ttl, now, truth, shown, refreshed, overtaken>>

(* ttl_seconds = 0: every call is a request of its own.                    *)
CallUncached(c, k) ==
  /\ ttl = 0
  /\ Call(c, k, "asking")
  /\ UNCHANGED <<cacheVars, leader, reply, since>>

(* Mistaken variants, each the slip its name tells, stand before the       *)
(* operator they falsify here and below; no specification uses them.       *)
HitUntouched(c, k) ==
  /\ ttl > 0
  /\ Live(k)
  /\ Call(c, k, "done")
  /\ reply' = [reply EXCEPT ![c] = Holding(value[k])]
  /\ UNCHANGED <<cacheVars, leader>>
  /\ Used(k)

Hit(c, k) ==
  /\ ttl > 0
  /\ Live(k)
  /\ Call(c, k, "done")
  /\ reply' = [reply EXCEPT ![c] = Holding(value[k])]
  /\ lru' = Append(Without(lru, {k}), k)
  /\ Used(k)
  /\ UNCHANGED <<value, deadline, leader>>

(* get has dropped the entry if it had expired.                            *)
Miss(c, k, state) ==
  /\ ttl > 0
  /\ ~Live(k)
  /\ Call(c, k, state)
  /\ Forget({k})
  /\ NoneUsed
  /\ UNCHANGED reply

Join(c, k) ==
  /\ leader[k] # NoCaller
  /\ Miss(c, k, "joined")
  /\ UNCHANGED leader

LeadAlways(c, k) ==
  /\ Miss(c, k, "asking")
  /\ leader' = [leader EXCEPT ![k] = c]

Lead(c, k) ==
  /\ leader[k] = NoCaller
  /\ Miss(c, k, "asking")
  /\ leader' = [leader EXCEPT ![k] = c]

(* The future resolves: c and every task that waits for it get r.          *)
Resolve(c, r) ==
  LET ended == {c} \cup Joiners(c) IN
  /\ pc' = [d \in Callers |-> IF d \in ended THEN "done" ELSE pc[d]]
  /\ reply' = [d \in Callers |-> IF d \in ended THEN r ELSE reply[d]]
  /\ shown' = [k \in Keys |-> IF k = key[c] /\ r.outcome = "value"
                                 /\ r.version > shown[k]
                              THEN r.version ELSE shown[k]]
  /\ leader' = [k \in Keys |-> IF leader[k] = c THEN NoCaller ELSE leader[k]]

CompleteRemembersFailure(c) ==
  /\ pc[c] = "answered"
  /\ Resolve(c, reply[c])
  /\ IF ttl > 0 THEN Put(key[c], reply[c].version) /\ Used(key[c])
                ELSE UNCHANGED <<cacheVars, since>>
  /\ UNCHANGED <<ttl, now, truth, key, floor, refreshed, overtaken>>

(* Only a value is remembered.                                             *)
Complete(c) ==
  /\ pc[c] = "answered"
  /\ Resolve(c, reply[c])
  /\ IF ttl > 0 /\ reply[c].outcome = "value"
     THEN Put(key[c], reply[c].version) /\ Used(key[c])
     ELSE UNCHANGED <<cacheVars, since>>
  /\ UNCHANGED <<ttl, now, truth, key, floor, refreshed, overtaken>>

CancelLeaderSilently(c) ==
  /\ pc[c] \in {"asking", "answered"}
  /\ pc' = [pc EXCEPT ![c] = "done"]
  /\ reply' = [reply EXCEPT ![c] = Reply("cancelled", 0)]
  /\ leader' = [k \in Keys |-> IF leader[k] = c THEN NoCaller ELSE leader[k]]
  /\ UNCHANGED <<ttl, now, truth, cacheVars, key, history>>

(* The caller's task is cancelled.  A leader's future gets the             *)
(* CancelledError and with it every task that joined; a joining task is    *)
(* shielded and leaves alone.                                              *)
CancelLeader(c) ==
  /\ pc[c] \in {"asking", "answered"}
  /\ Resolve(c, Reply("cancelled", 0))
  /\ UNCHANGED <<ttl, now, truth, cacheVars, key, floor, refreshed, overtaken,
                 since>>

CancelJoiner(c) ==
  /\ pc[c] = "joined"
  /\ pc' = [pc EXCEPT ![c] = "done"]
  /\ reply' = [reply EXCEPT ![c] = Reply("cancelled", 0)]
  /\ UNCHANGED <<ttl, now, truth, cacheVars, leader, key, history>>

Return(c) ==
  /\ pc[c] = "done"
  /\ pc' = [pc EXCEPT ![c] = "idle"]
  /\ key' = [key EXCEPT ![c] = NoKey]
  /\ reply' = [reply EXCEPT ![c] = NoReply]
  /\ floor' = [floor EXCEPT ![c] = NoFloor]
  /\ UNCHANGED <<ttl, now, truth, cacheVars, leader, shown, refreshed, overtaken,
                 since>>

RefreshMissesKeys(T) ==
  LET K == {k \in Keys : TokenOf[k] \in T} IN
  /\ refreshed' = [k \in Keys |-> IF k \in K THEN truth[k] ELSE refreshed[k]]
  /\ overtaken' = [k \in Keys |-> IF k \in K THEN leader[k] # NoCaller
                                             ELSE overtaken[k]]
  /\ UNCHANGED <<ttl, now, truth, cacheVars, leader, callVars, floor, shown,
                 since>>

(* DELETE /cache: invalidate_session for the Power BI token and, when the  *)
(* request has one, for the Fabric token.  _fetches is not touched.        *)
Refresh(T) ==
  LET K == {k \in Keys : TokenOf[k] \in T} IN
  /\ Forget(K)
  /\ NoneUsed
  /\ refreshed' = [k \in Keys |-> IF k \in K THEN truth[k] ELSE refreshed[k]]
  /\ overtaken' = [k \in Keys |-> IF k \in K THEN leader[k] # NoCaller
                                             ELSE overtaken[k]]
  /\ UNCHANGED <<ttl, now, truth, leader, callVars, floor, shown>>

Step(c) == Answer(c) \/ Complete(c) \/ Return(c)

Next ==
  \/ Tick
  \/ \E k \in Keys : Edit(k)
  \/ \E T \in Refreshes : Refresh(T)
  \/ \E c \in Callers :
       \/ Step(c) \/ CancelLeader(c) \/ CancelJoiner(c)
       \/ \E k \in Keys : CallUncached(c, k) \/ Hit(c, k) \/ Join(c, k) \/ Lead(c, k)

Spec == Init /\ [][Next]_vars

(***************************************************************************)
(* Properties.                                                             *)
(***************************************************************************)

(* An entry is listed once, and the cache keeps to its limit.              *)
ListOK == lru \in Seq(Keys) /\ IsInjective(lru) /\ Len(lru) <= MaxEntries

Floors == [held : Nat, shown : Nat, refreshed : Nat, overtaken : BOOLEAN,
           joined : BOOLEAN]

(* The other variables hold values of their types.                         *)
ValuesOK ==
  /\ ttl \in Ttls
  /\ now \in 0..MaxTime
  /\ truth \in [Keys -> Nat] /\ \A k \in Keys : truth[k] <= LastVersion[k]
  /\ value \in [Keys -> Nat] /\ \A k \in Keys : value[k] <= truth[k]
  /\ deadline \in [Keys -> Nat]
  /\ leader \in [Keys -> Callers \cup {NoCaller}]
  /\ pc \in [Callers -> {"idle", "asking", "answered", "joined", "done"}]
  /\ key \in [Callers -> Keys \cup {NoKey}]
  /\ reply \in [Callers -> Replies]
  /\ floor \in [Callers -> Floors]
  /\ shown \in [Keys -> Nat]
  /\ refreshed \in [Keys -> Nat]
  /\ overtaken \in [Keys -> BOOLEAN]

(* The variables hold values of their types.                               *)
TypeOK == ListOK /\ ValuesOK /\ since \in [Keys -> SUBSET Keys]

(* A task never waits on a fetch that nobody will resolve, and a key has   *)
(* one fetch under way at most.                                            *)
SingleFlight ==
  \A c \in Callers :
    /\ pc[c] = "joined" =>
         \E d \in Callers : d = leader[key[c]] /\ key[d] = key[c]
                              /\ pc[d] \in {"asking", "answered"}
    /\ ttl > 0 /\ pc[c] \in {"asking", "answered"} => leader[key[c]] = c

(* Reads of one object never go back in time: a call is not given a        *)
(* version older than one somebody had already been given when it began.   *)
ReadsNeverGoBack ==
  \A c \in Callers : reply[c].outcome = "value" /\ pc[c] = "done" =>
    reply[c].version >= floor[c].shown

(* After a refresh that met no fetch of the key under way, every call      *)
(* gives what the provider held at the refresh, or something newer.        *)
QuietRefreshTakesEffect ==
  \A c \in Callers : reply[c].outcome = "value" /\ pc[c] = "done" =>
    floor[c].overtaken \/ reply[c].version >= floor[c].refreshed

(* README: "Failures are never cached, so a permission that has just been  *)
(* granted takes effect on the next attempt": a call made after access was *)
(* granted is not refused, unless it joined a fetch that was already under *)
(* way.                                                                    *)
RefusalIsNotRemembered ==
  \A c \in Callers :
    pc[c] = "done" /\ floor[c].held > 0 /\ ~floor[c].joined =>
      reply[c].outcome # "denied"

(* api/v1/cache.py: "one user refreshing does not evict anyone else's": a   *)
(* live entry goes only with a refresh by its own token, or out of a full   *)
(* cache when every entry that stays was used - read or stored - after it. *)
LiveEntriesStay ==
  [][\A k \in Keys : Live(k) /\ k \notin Cached' =>
       \/ \E T \in Refreshes : TokenOf[k] \in T /\ Refresh(T)
       \/ /\ Len(lru) = MaxEntries /\ Len(lru') = MaxEntries
          /\ Cached \cap Cached' \subseteq since[k]]_vars

(* api/v1/cache.py: "Without this a refresh would leave every TMDL/PBIR    *)
(* definition stale": a call made after a refresh is given what the        *)
(* provider held at the refresh, or something newer.                       *)
RefreshTakesEffect ==
  \A c \in Callers : reply[c].outcome = "value" /\ pc[c] = "done" =>
    reply[c].version >= floor[c].refreshed
=============================================================================
