-------------------------- MODULE SnowflakeSessions --------------------------
(***************************************************************************)
(* The in-memory store of authenticated Snowflake connections              *)
(* (services/auth/snowflake_session_store.py) and the requests that use it *)
(* (api/v1/snowflake_auth.py, the trace route of api/v1/lineage.py).       *)
(*                                                                         *)
(* Every request runs in a worker thread.  A store method changes its      *)
(* dictionary inside one critical section and closes connections after     *)
(* leaving it, so a method is an action for the section and one action per *)
(* connection it closes.  A session owns one connection for ever; both are *)
(* a member of Sessions.  A store that is replaced or shut down is known   *)
(* by its generation: requests that captured it go on using it.            *)
(***************************************************************************)
EXTENDS Integers, FiniteSets

CONSTANTS
  Sessions,     \* the sessions that may be created, each with its connection
  Requests,     \* the requests in progress at a time
  NoSession,    \* the target of a request that has none
  MaxAge,       \* max_age_seconds
  MaxTime,      \* bound of the clock
  MaxStores     \* bound of the number of stores created

ASSUME RequestsAssumption == IsFiniteSet(Requests)
ASSUME NoSessionAssumption == NoSession \notin Sessions
ASSUME MaxAgeAssumption == MaxAge \in Nat \ {0}
ASSUME BoundsAssumption == MaxTime \in Nat /\ MaxStores \in Nat \ {0}

VARIABLES
  now,            \* what clock() returns
  current,        \* generation of _snowflake_session_store
  conn,           \* conn[s]: "absent", "open" or "closed"
  home,           \* home[s]: the store whose _sessions holds s, 0 for none
  active,         \* active[s]: active_operations
  closeWhenIdle,  \* closeWhenIdle[s]: close_when_idle
  expiresAt,      \* expiresAt[s]: expires_at, 0 until s is saved
  pc,             \* pc[r]: where request r stands
  via,            \* via[r]: the store r captured when it began, 0 for none
  target,         \* target[r]: the session r is about
  closing,        \* closing[r]: the connections r has still to close
  late            \* saved into a store that close_all had left (history)

sessionVars == <<conn, home, active, closeWhenIdle, expiresAt>>
requestVars == <<pc, via, target, closing>>
vars == <<now, current, sessionVars, requestVars, late>>

Operations == {"status", "trace", "logout"}
Steps == Operations \cup
         {"idle", "connecting", "saving", "responding", "tracing", "closeAll",
          "closing"}

Init ==
  /\ now = 0
  /\ current = 1
  /\ conn = [s \in Sessions |-> "absent"]
  /\ home = [s \in Sessions |-> 0]
  /\ active = [s \in Sessions |-> 0]
  /\ closeWhenIdle = [s \in Sessions |-> FALSE]
  /\ expiresAt = [s \in Sessions |-> 0]
  /\ pc = [r \in Requests |-> "idle"]
  /\ via = [r \in Requests |-> 0]
  /\ target = [r \in Requests |-> NoSession]
  /\ closing = [r \in Requests |-> {}]
  /\ late = {}

(* A client can name a session once it was saved.                          *)
Known(s) == expiresAt[s] # 0
Expired(s) == expiresAt[s] <= now
Held(r) == home[target[r]] = via[r]
(* A store that requests find, or that close_all has still to empty.       *)
Served(g) == \/ g = current
             \/ \E r \in Requests : pc[r] = "closeAll" /\ via[r] = g
Tracers(s) == {r \in Requests : pc[r] = "tracing" /\ target[r] = s}

(***************************************************************************)
(* The clock, and the requests as they begin and end.                      *)
(***************************************************************************)
Tick ==
  /\ now < MaxTime
  /\ now' = now + 1
  /\ UNCHANGED <<current, sessionVars, requestVars, late>>

Begin(r, op, s) ==
  /\ pc[r] = "idle"
  /\ Known(s)
  /\ pc' = [pc EXCEPT ![r] = op]
  /\ via' = [via EXCEPT ![r] = current]
  /\ target' = [target EXCEPT ![r] = s]
  /\ UNCHANGED <<now, current, sessionVars, closing, late>>

BeginAuthenticate(r) ==
  /\ pc[r] = "idle"
  /\ pc' = [pc EXCEPT ![r] = "connecting"]
  /\ via' = [via EXCEPT ![r] = current]
  /\ UNCHANGED <<now, current, sessionVars, target, closing, late>>

End(r) ==
  /\ pc' = [pc EXCEPT ![r] = "idle"]
  /\ via' = [via EXCEPT ![r] = 0]
  /\ target' = [target EXCEPT ![r] = NoSession]

(* Out of the critical section with the connections C still to close.      *)
Leave(r, C) ==
  IF C = {}
  THEN End(r) /\ UNCHANGED closing
  ELSE /\ pc' = [pc EXCEPT ![r] = "closing"]
       /\ closing' = [closing EXCEPT ![r] = C]
       /\ UNCHANGED <<via, target>>

(***************************************************************************)
(* Authentication: connect, save, and log the replaced session out.        *)
(***************************************************************************)
Connect(r, s) ==
  /\ pc[r] = "connecting"
  /\ conn[s] = "absent"
  /\ conn' = [conn EXCEPT ![s] = "open"]
  /\ pc' = [pc EXCEPT ![r] = "saving"]
  /\ target' = [target EXCEPT ![r] = s]
  /\ UNCHANGED <<now, current, home, active, closeWhenIdle, expiresAt, via,
                 closing, late>>

(* Refused credentials; connect() closes what it opened before it raises.  *)
ConnectFails(r) ==
  /\ pc[r] = "connecting"
  /\ End(r)
  /\ UNCHANGED <<now, current, sessionVars, closing, late>>

Save(r) ==
  /\ pc[r] = "saving"
  /\ home' = [home EXCEPT ![target[r]] = via[r]]
  /\ expiresAt' = [expiresAt EXCEPT ![target[r]] = now + MaxAge]
  /\ late' = IF Served(via[r]) THEN late ELSE late \cup {target[r]}
  /\ pc' = [pc EXCEPT ![r] = "responding"]
  /\ UNCHANGED <<now, current, conn, active, closeWhenIdle, via, target,
                 closing>>

Respond(r) ==
  /\ pc[r] = "responding"
  /\ End(r)
  /\ UNCHANGED <<now, current, sessionVars, closing, late>>

(* The request carried the cookie of another session.                      *)
ReplacePrevious(r, previous) ==
  /\ pc[r] = "responding"
  /\ Known(previous)
  /\ previous # target[r]
  /\ pc' = [pc EXCEPT ![r] = "logout"]
  /\ target' = [target EXCEPT ![r] = previous]
  /\ UNCHANGED <<now, current, sessionVars, via, closing, late>>

(***************************************************************************)
(* The store's methods.                                                    *)
(***************************************************************************)

(* Mistaken variants, each the slip its name tells: they stand beside the  *)
(* operator they falsify and no specification uses them.                   *)
DropClosesUnderTrace(r) ==
  LET s == target[r] IN
  /\ home' = [home EXCEPT ![s] = 0]
  /\ Leave(r, {s})
  /\ UNCHANGED <<conn, active, closeWhenIdle, expiresAt>>

DropLeavesEntry(r) ==
  LET s == target[r] IN
  /\ IF active[s] > 0
     THEN closeWhenIdle' = [closeWhenIdle EXCEPT ![s] = TRUE] /\ Leave(r, {})
     ELSE UNCHANGED closeWhenIdle /\ Leave(r, {s})
  /\ UNCHANGED <<conn, home, active, expiresAt>>

(* Take the request's session out of its store; close its connection now,  *)
(* or leave that to the last trace that uses it.                           *)
Drop(r) ==
  LET s == target[r] IN
  /\ home' = [home EXCEPT ![s] = 0]
  /\ IF active[s] > 0
     THEN closeWhenIdle' = [closeWhenIdle EXCEPT ![s] = TRUE] /\ Leave(r, {})
     ELSE UNCHANGED closeWhenIdle /\ Leave(r, {s})
  /\ UNCHANGED <<conn, active, expiresAt>>

Status(r) ==
  /\ pc[r] = "status"
  /\ IF Held(r) /\ Expired(target[r])
     THEN Drop(r)
     ELSE End(r) /\ UNCHANGED <<sessionVars, closing>>
  /\ UNCHANGED <<now, current, late>>

CheckoutUnderNoLock(r) ==
  /\ pc[r] = "trace"
  /\ ~Expired(target[r])
  /\ active' = [active EXCEPT ![target[r]] = @ + 1]
  /\ pc' = [pc EXCEPT ![r] = "tracing"]
  /\ UNCHANGED <<now, current, conn, home, closeWhenIdle, expiresAt, via,
                 target, closing, late>>

Checkout(r) ==
  /\ pc[r] = "trace"
  /\ Held(r)
  /\ ~Expired(target[r])
  /\ active' = [active EXCEPT ![target[r]] = @ + 1]
  /\ pc' = [pc EXCEPT ![r] = "tracing"]
  /\ UNCHANGED <<now, current, conn, home, closeWhenIdle, expiresAt, via,
                 target, closing, late>>

CheckoutFails(r) ==
  /\ pc[r] = "trace"
  /\ \/ Held(r) /\ Expired(target[r]) /\ Drop(r)
     \/ ~Held(r) /\ End(r) /\ UNCHANGED <<sessionVars, closing>>
  /\ UNCHANGED <<now, current, late>>

OneFewer(n) == IF n > 0 THEN n - 1 ELSE 0

CheckinClosesEarly(r) ==
  LET s == target[r] IN
  /\ pc[r] = "tracing"
  /\ active' = [active EXCEPT ![s] = @ - 1]
  /\ Leave(r, IF closeWhenIdle[s] THEN {s} ELSE {})
  /\ UNCHANGED <<now, current, conn, home, closeWhenIdle, expiresAt, late>>

CheckinNeverCloses(r) ==
  /\ pc[r] = "tracing"
  /\ active' = [active EXCEPT ![target[r]] = @ - 1]
  /\ Leave(r, {})
  /\ UNCHANGED <<now, current, conn, home, closeWhenIdle, expiresAt, late>>

Checkin(r) ==
  LET s == target[r]
      left == OneFewer(active[s])
  IN
  /\ pc[r] = "tracing"
  /\ active' = [active EXCEPT ![s] = left]
  /\ Leave(r, IF closeWhenIdle[s] /\ left = 0 THEN {s} ELSE {})
  /\ UNCHANGED <<now, current, conn, home, closeWhenIdle, expiresAt, late>>

Delete(r) ==
  /\ pc[r] = "logout"
  /\ \/ Held(r) /\ Drop(r)
     \/ ~Held(r) /\ End(r) /\ UNCHANGED <<sessionVars, closing>>
  /\ UNCHANGED <<now, current, late>>

(* Shutdown forgets the store, or get_snowflake_session_store replaces it;  *)
(* the next caller finds a store of the next generation.                   *)
RetireStore(r) ==
  /\ pc[r] = "idle"
  /\ current < MaxStores
  /\ current' = current + 1
  /\ pc' = [pc EXCEPT ![r] = "closeAll"]
  /\ via' = [via EXCEPT ![r] = current]
  /\ UNCHANGED <<now, sessionVars, target, closing, late>>

CloseAllKeepsActive(r) ==
  LET idle == {s \in Sessions : home[s] = via[r] /\ active[s] = 0} IN
  /\ pc[r] = "closeAll"
  /\ home' = [s \in Sessions |-> IF s \in idle THEN 0 ELSE home[s]]
  /\ Leave(r, idle)
  /\ UNCHANGED <<now, current, conn, active, closeWhenIdle, expiresAt, late>>

CloseAll(r) ==
  LET held == {s \in Sessions : home[s] = via[r]} IN
  /\ pc[r] = "closeAll"
  /\ home' = [s \in Sessions |-> IF s \in held THEN 0 ELSE home[s]]
  /\ closeWhenIdle' = [s \in Sessions |->
                         IF s \in held /\ active[s] > 0
                         THEN TRUE ELSE closeWhenIdle[s]]
  /\ Leave(r, {s \in held : active[s] = 0})
  /\ UNCHANGED <<now, current, conn, active, expiresAt, late>>

(* Outside the lock, one connection after the other.                       *)
CloseConnection(r, s) ==
  /\ s \in closing[r]
  /\ conn' = [conn EXCEPT ![s] = "closed"]
  /\ closing' = [closing EXCEPT ![r] = @ \ {s}]
  /\ UNCHANGED <<now, current, home, active, closeWhenIdle, expiresAt, pc, via,
                 target, late>>

Return(r) ==
  /\ pc[r] = "closing"
  /\ closing[r] = {}
  /\ End(r)
  /\ UNCHANGED <<now, current, sessionVars, closing, late>>

(* What the program does by itself once a request has begun.               *)
Progress(r) ==
  \/ ConnectFails(r) \/ Save(r) \/ Respond(r)
  \/ Status(r) \/ Checkout(r) \/ CheckoutFails(r) \/ Checkin(r) \/ Delete(r)
  \/ CloseAll(r) \/ Return(r)
  \/ \E s \in Sessions :
       Connect(r, s) \/ ReplacePrevious(r, s) \/ CloseConnection(r, s)

(* What clients, the administrator and time bring in.                      *)
Arrive(r) ==
  \/ BeginAuthenticate(r) \/ RetireStore(r)
  \/ \E op \in Operations, s \in Sessions : Begin(r, op, s)

Next == Tick \/ \E r \in Requests : Progress(r) \/ Arrive(r)

Spec == Init /\ [][Next]_vars

(* Threads are scheduled, the driver returns and time goes on; no request  *)
(* is ever bound to arrive.                                                *)
FairSpec == Spec /\ WF_vars(Tick) /\ \A r \in Requests : WF_vars(Progress(r))

(***************************************************************************)
(* Properties.                                                             *)
(***************************************************************************)

(* The variables hold values of their types.                               *)
TypeOK ==
  /\ now \in Nat
  /\ current \in Nat \ {0}
  /\ conn \in [Sessions -> {"absent", "open", "closed"}]
  /\ home \in [Sessions -> Nat]
  /\ active \in [Sessions -> Nat]
  /\ closeWhenIdle \in [Sessions -> BOOLEAN]
  /\ expiresAt \in [Sessions -> Nat]
  /\ pc \in [Requests -> Steps]
  /\ via \in [Requests -> Nat]
  /\ target \in [Requests -> Sessions \cup {NoSession}]
  /\ closing \in [Requests -> SUBSET Sessions]
  /\ late \subseteq Sessions

(* However logout, expiry, re-authentication and store replacement         *)
(* interleave with it, a trace keeps an open connection until its          *)
(* checkout context ends.                                                  *)
NoCloseUnderTrace ==
  \A r \in Requests : pc[r] = "tracing" => conn[target[r]] = "open"

(* No connection is closed twice, and no two requests have set out to      *)
(* close the same one: leaving the lock before close() is harmless.        *)
ClosedOnce ==
  \A r \in Requests : \A s \in closing[r] :
    /\ conn[s] = "open"
    /\ \A q \in Requests \ {r} : s \notin closing[q]

(* An open connection always has someone who will or may still close it:   *)
(* the store in use or one that close_all is about to empty, a trace that  *)
(* closes it when idle, a request on its way to close() or about to save   *)
(* it.  The one exception is a connection saved late: save() does not look *)
(* whether its store was closed, and what is in such a store leaks.        *)
NoLeak ==
  \A s \in Sessions : conn[s] = "open" =>
    \/ home[s] # 0 /\ (Served(home[s]) \/ s \in late)
    \/ closeWhenIdle[s] /\ Tracers(s) # {}
    \/ \E r \in Requests : s \in closing[r]
    \/ \E r \in Requests : pc[r] = "saving" /\ target[r] = s

(* A logout or an expiry is final: a session that was saved and is in no   *)
(* store never comes back, and no trace starts on it.                      *)
NeverRevived ==
  [][\A s \in Sessions :
       Known(s) /\ home[s] = 0 =>
         home'[s] = 0 /\ Tracers(s)' \subseteq Tracers(s)]_vars

(* The store is the abstract pool of connections: a session out of its     *)
(* store is retired, and the traces are the users.                         *)
tracers == [s \in Sessions |-> Tracers(s)]
retired == {s \in Sessions : Known(s) /\ home[s] = 0}

Pool == INSTANCE ConnectionLifecycle WITH
  Connections <- Sessions,
  Users <- Requests,
  status <- conn,
  users <- tracers

ImplementsPool == Pool!Spec

(* A logout, replacement or shutdown that met a running trace still closes *)
(* the connection once the trace is over.                                  *)
RetiredEventuallyClosed ==
  \A s \in Sessions : (Known(s) /\ home[s] = 0) ~> conn[s] = "closed"

(* README: "Logout, expiry, or graceful application shutdown also closes   *)
(* the connection".  A store that was shut down may hold one all the same. *)
ShutdownClosesAll ==
  \A s \in Sessions : conn[s] = "open" /\ home[s] # 0 => Served(home[s])

(* The same of expiry.  The store looks at expires_at only when a request  *)
(* names the session, so an expired session nobody asks for stays open.    *)
ExpiredEventuallyClosed ==
  \A s \in Sessions : (Known(s) /\ Expired(s)) ~> conn[s] = "closed"
=============================================================================
