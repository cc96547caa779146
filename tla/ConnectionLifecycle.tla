------------------------- MODULE ConnectionLifecycle -------------------------
(***************************************************************************)
(* What a pool of live provider connections promises to the code that uses *)
(* it, independent of sessions, cookies, stores and clocks:                *)
(*                                                                         *)
(*   - a connection is opened at most once and closed at most once;        *)
(*   - it is handed to a new user only until it is retired;                *)
(*   - it is closed only once it is retired and its last user is gone.     *)
(*                                                                         *)
(* SnowflakeSessions implements this specification.                        *)
(***************************************************************************)

CONSTANTS
  Connections,   \* the connections that may ever be opened
  Users          \* the threads that may use one

VARIABLES
  status,        \* status[c]: "absent", "open" or "closed"
  users,         \* users[c]: the threads using c at the moment
  retired        \* the connections no new user may obtain

vars == <<status, users, retired>>

Init ==
  /\ status = [c \in Connections |-> "absent"]
  /\ users = [c \in Connections |-> {}]
  /\ retired = {}

Open(c) ==
  /\ status[c] = "absent"
  /\ status' = [status EXCEPT ![c] = "open"]
  /\ UNCHANGED <<users, retired>>

Acquire(c, u) ==
  /\ status[c] = "open"
  /\ c \notin retired
  /\ users' = [users EXCEPT ![c] = @ \cup {u}]
  /\ UNCHANGED <<status, retired>>

Release(c, u) ==
  /\ u \in users[c]
  /\ users' = [users EXCEPT ![c] = @ \ {u}]
  /\ UNCHANGED <<status, retired>>

(* Several connections may be retired at once, when a pool is shut down.   *)
Retire(C) ==
  /\ \A c \in C : status[c] = "open"
  /\ retired' = retired \cup C
  /\ UNCHANGED <<status, users>>

Close(c) ==
  /\ status[c] = "open"
  /\ c \in retired
  /\ users[c] = {}
  /\ status' = [status EXCEPT ![c] = "closed"]
  /\ UNCHANGED <<users, retired>>

Next ==
  \/ \E c \in Connections : Open(c) \/ Close(c)
  \/ \E c \in Connections, u \in Users : Acquire(c, u) \/ Release(c, u)
  \/ \E C \in SUBSET Connections : Retire(C)

Spec == Init /\ [][Next]_vars
=============================================================================
