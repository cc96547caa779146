-------------------------- MODULE MicrosoftSignIn --------------------------
(***************************************************************************)
(* Sign-in to Power BI and Fabric: the device-code flow with its background *)
(* task, the SSO redirect with its single-use state, the service principal, *)
(* and the in-memory store that requests take their tokens from.            *)
(*                                                                         *)
(* A session is both an object and the key the store keeps it under.  The   *)
(* background task of a device flow holds the object, so it writes to it    *)
(* even when the store has dropped the key.  Handlers that await a provider *)
(* are Callers; the others are one step.                                    *)
(***************************************************************************)
EXTENDS Integers, FiniteSets

CONSTANTS Ids,            \* session ids (uuid4), each used once
          States,         \* SSO states (uuid4), each used once
          Callers,        \* handlers in flight that await a provider
          Lifetimes,      \* seconds of life that Microsoft gives a token
          SessionMaxAge,  \* SESSION_MAX_AGE_SECONDS
          PendingMaxAge,  \* PENDING_SSO_LOGIN_MAX_AGE_SECONDS
          MaxTime         \* bound on the clock

ASSUME SignInAssumption ==
  /\ SessionMaxAge \in Nat
  /\ PendingMaxAge \in Nat
  /\ MaxTime \in Nat
  /\ Lifetimes \subseteq Nat

VARIABLES now, session, stored, task, login, caller, cookie, ended

vars == <<now, session, stored, task, login, caller, cookie, ended>>

None == "none"
NoToken == [exp |-> -1, valid |-> FALSE]
\* valid: the provider will accept it, which nobody knows before asking.
Token(exp, valid) == [exp |-> exp, valid |-> valid]

Unused == [created |-> -1, method |-> None, status |-> None,
           powerbi |-> NoToken, fabric |-> NoToken]

Device == [created |-> now, method |-> "device", status |-> "pending",
           powerbi |-> NoToken, fabric |-> NoToken]

Idle == [at |-> "idle", previous |-> None, draft |-> Unused]
NoTask == [at |-> "done", token |-> NoToken]
Polling == [at |-> "polling", token |-> NoToken]

\* time() + max(expires_in - 60, 60): at least one unit, whatever the provider says.
ExpiresAt(lifetime) == now + (IF lifetime > 1 THEN lifetime ELSE 1)

Init ==
  /\ now = 0
  /\ session = [i \in Ids |-> Unused]
  /\ stored = {}
  /\ task = [i \in Ids |-> NoTask]
  /\ login = [s \in States |-> -1]
  /\ caller = [c \in Callers |-> Idle]
  /\ cookie = None
  /\ ended = {}

Fresh == {i \in Ids : session[i] = Unused}
Aged(i) == now - session[i].created > SessionMaxAge
Live(i) == i \in stored /\ ~Aged(i)

\* The fields an entry keeps when the store lets go of it.
Cleared(s) == [s EXCEPT !.powerbi = NoToken, !.fabric = NoToken]

\* delete_device_session: nothing happens for an id that is not stored.
Dropped(i) == i \in stored
\* Mutant: the tokens are cleared but the entry stays.
DeleteKeepsEntry(i) ==
  /\ UNCHANGED stored
  /\ session' = IF Dropped(i) THEN [session EXCEPT ![i] = Cleared(@)] ELSE session
  /\ ended' = ended \cup ({i} \cap stored)
DeleteDeviceSession(i) ==
  /\ stored' = stored \ {i}
  /\ session' = IF Dropped(i) THEN [session EXCEPT ![i] = Cleared(@)] ELSE session
  /\ ended' = ended \cup ({i} \cap stored)

\* get_device_session: reading an entry past its age removes it.
ReadRemoves(i) == i \in stored /\ Aged(i)

\* get_powerbi_token and get_fabric_token: an expired token is cleared on the way.
Lapsed(token) == token # NoToken /\ now >= token.exp
Usable(token) == token # NoToken /\ now < token.exp

Tick == now < MaxTime /\ now' = now + 1
        /\ UNCHANGED <<session, stored, task, login, caller, cookie, ended>>

Granted == {Token(ExpiresAt(l), v) : l \in Lifetimes, v \in BOOLEAN}
Accepted == {t \in Granted : t.valid}

-----------------------------------------------------------------------------
(* The device-code flow. *)

Start ==
  \E i \in Fresh :
    /\ session' = [session EXCEPT ![i] = Device]
    /\ stored' = stored \cup {i}
    /\ task' = [task EXCEPT ![i] = Polling]
    /\ cookie' = i
    /\ UNCHANGED <<now, login, caller, ended>>

\* The thread that polls Microsoft returns: the user has entered the code, or not.
PollFails(i) ==
  /\ task[i].at = "polling"
  /\ task' = [task EXCEPT ![i] = NoTask]
  /\ session' = [session EXCEPT ![i].status = "failed"]
  /\ UNCHANGED <<now, stored, login, caller, cookie, ended>>

PollReturns(i) ==
  /\ task[i].at = "polling"
  /\ \E t \in Granted : task' = [task EXCEPT ![i] = [at |-> "validate", token |-> t]]
  /\ UNCHANGED <<now, session, stored, login, caller, cookie, ended>>

\* validate_connection raises an AppException: refused, or unreachable.
\* Mutant: the token is stored before it is tried, and a refusal only sets the status.
ValidationFailsLate(i) ==
  /\ task[i].at = "validate"
  /\ task' = [task EXCEPT ![i] = NoTask]
  /\ session' = [session EXCEPT ![i].status = "failed", ![i].powerbi = task[i].token]
  /\ UNCHANGED <<now, stored, login, caller, cookie, ended>>
ValidationFails(i) ==
  /\ task[i].at = "validate"
  /\ task' = [task EXCEPT ![i] = NoTask]
  /\ session' = [session EXCEPT ![i].status = "failed", ![i].powerbi = NoToken]
  /\ UNCHANGED <<now, stored, login, caller, cookie, ended>>

Validated(i) ==
  /\ task[i].at = "validate"
  /\ task[i].token.valid
  /\ task' = [task EXCEPT ![i].at = "fabric"]
  /\ session' = [session EXCEPT ![i].status = "authenticated",
                                ![i].powerbi = task[i].token]
  /\ UNCHANGED <<now, stored, login, caller, cookie, ended>>

\* _try_acquire_fabric_token: no account, no token or a refusal leave no Fabric token.
FabricOutcomes == {NoToken} \cup Accepted

TryFabric(i) ==
  /\ task[i].at = "fabric"
  /\ task' = [task EXCEPT ![i] = NoTask]
  /\ \E t \in FabricOutcomes : session' = [session EXCEPT ![i].fabric = t]
  /\ UNCHANGED <<now, stored, login, caller, cookie, ended>>

\* An exception that is not an AppException ends the task where it stands.
TaskDies(i) ==
  /\ task[i].at \in {"polling", "validate", "fabric"}
  /\ task' = [task EXCEPT ![i] = NoTask]
  /\ UNCHANGED <<now, session, stored, login, caller, cookie, ended>>

-----------------------------------------------------------------------------
(* SSO: the state is handed out, comes back with a code, and is popped. *)

BuildAuthorizationUrl(s) ==
  /\ login[s] = -1
  /\ login' = [login EXCEPT ![s] = now]
  /\ UNCHANGED <<now, session, stored, task, caller, cookie, ended>>

Waiting(s) == login[s] >= 0
Popped == -2
PopPending(s) == login' = [login EXCEPT ![s] = IF Waiting(s) THEN Popped ELSE @]

CallbackRefused(s) ==
  /\ login[s] # -1
  /\ PopPending(s)
  /\ UNCHANGED <<now, session, stored, task, caller, cookie, ended>>

Callback(c, s) ==
  /\ caller[c].at = "idle"
  /\ Waiting(s)
  /\ now - login[s] <= PendingMaxAge
  /\ PopPending(s)
  /\ caller' = [caller EXCEPT ![c] = [Idle EXCEPT !.at = "exchange"]]
  /\ UNCHANGED <<now, session, stored, task, cookie, ended>>

\* No token for the code, or Power BI refuses the token or does not answer.
ExchangeFails(c) ==
  /\ caller[c].at = "exchange"
  /\ caller' = [caller EXCEPT ![c] = Idle]
  /\ UNCHANGED <<now, session, stored, task, login, cookie, ended>>

Exchange(c) ==
  /\ caller[c].at = "exchange"
  /\ \E p \in Accepted :
       caller' = [caller EXCEPT ![c].at = "fabric",
                    ![c].draft = [created |-> now, method |-> "sso",
                                  status |-> "authenticated",
                                  powerbi |-> p,
                                  fabric |-> NoToken]]
  /\ UNCHANGED <<now, session, stored, task, login, cookie, ended>>

CompleteLogin(c) ==
  /\ caller[c].at = "fabric"
  /\ \E i \in Fresh, t \in FabricOutcomes :
       /\ session' = [session EXCEPT ![i] = [caller[c].draft EXCEPT !.fabric = t]]
       /\ stored' = stored \cup {i}
       /\ cookie' = i
  /\ caller' = [caller EXCEPT ![c] = Idle]
  /\ UNCHANGED <<now, task, login, ended>>

-----------------------------------------------------------------------------
(* The service principal: two tokens at once, and only Power BI is required. *)

Authenticate(c) ==
  /\ caller[c].at = "idle"
  /\ caller' = [caller EXCEPT ![c] = [Idle EXCEPT !.at = "principal",
                                                  !.previous = cookie]]
  /\ UNCHANGED <<now, session, stored, task, login, cookie, ended>>

NoPrincipalToken(c) ==
  /\ caller[c].at = "principal"
  /\ caller' = [caller EXCEPT ![c] = Idle]
  /\ UNCHANGED <<now, session, stored, task, login, cookie, ended>>

\* Neither token is tried against its provider.
\* The new session is saved and the session the request came with is deleted.
PrincipalSignsIn(c) ==
  /\ caller[c].at = "principal"
  /\ \E i \in Fresh, p \in Granted, t \in {NoToken} \cup Granted :
       LET old == {caller[c].previous} \cap stored
           new == [created |-> now, method |-> "client_secret",
                   status |-> "authenticated",
                   powerbi |-> p, fabric |-> t]
       IN /\ session' = [j \in Ids |-> CASE j = i -> new
                                         [] j \in old -> Cleared(session[j])
                                         [] OTHER -> session[j]]
          /\ stored' = (stored \ old) \cup {i}
          /\ ended' = ended \cup old
          /\ cookie' = i
  /\ caller' = [caller EXCEPT ![c] = Idle]
  /\ UNCHANGED <<now, task, login>>

-----------------------------------------------------------------------------
(* Requests that read the store. *)

\* A request whose session has outlived its age removes it and is refused.
AskTooLate(i) ==
  /\ ReadRemoves(i)
  /\ DeleteDeviceSession(i)
  /\ UNCHANGED <<now, task, login, caller, cookie>>

\* get_powerbi_access_token: a pending session has no credentials.
PowerBiAnswer(i) ==
  IF Live(i) /\ session[i].status # "pending" /\ Usable(session[i].powerbi)
  THEN session[i].powerbi ELSE NoToken

\* get_fabric_access_token and its optional form do not look at the status.
FabricAnswer(i) ==
  IF Live(i) /\ Usable(session[i].fabric) THEN session[i].fabric ELSE NoToken

\* A request that meets a lapsed token clears it and is refused.
AskPowerBi(i) ==
  /\ Live(i)
  /\ session[i].status # "pending"
  /\ Lapsed(session[i].powerbi)
  /\ session' = [session EXCEPT ![i].powerbi = NoToken]
  /\ UNCHANGED <<now, stored, task, login, caller, cookie, ended>>

AskFabric(i) ==
  /\ Live(i)
  /\ Lapsed(session[i].fabric)
  /\ session' = [session EXCEPT ![i].fabric = NoToken]
  /\ UNCHANGED <<now, stored, task, login, caller, cookie, ended>>

\* MicrosoftServicePrincipalAuthService.status reads both tokens.
PrincipalStatus(i) ==
  /\ Live(i)
  /\ session[i].method = "client_secret"
  /\ Lapsed(session[i].powerbi) \/ Lapsed(session[i].fabric)
  /\ session' = [session EXCEPT ![i].powerbi = IF Lapsed(@) THEN NoToken ELSE @,
                                ![i].fabric = IF Lapsed(@) THEN NoToken ELSE @]
  /\ UNCHANGED <<now, stored, task, login, caller, cookie, ended>>

\* A logout names the session by the browser's cookie and takes the cookie away.
Logout(i) ==
  /\ cookie = i
  /\ DeleteDeviceSession(i)
  /\ cookie' = None
  /\ UNCHANGED <<now, task, login, caller>>

Step(i) == PollFails(i) \/ PollReturns(i) \/ ValidationFails(i) \/ Validated(i)
           \/ TryFabric(i) \/ TaskDies(i)

Next ==
  \/ Tick
  \/ Start
  \/ \E i \in Ids :
       Step(i) \/ AskTooLate(i) \/ AskPowerBi(i) \/ AskFabric(i)
       \/ PrincipalStatus(i) \/ Logout(i)
  \/ \E s \in States :
       \/ BuildAuthorizationUrl(s) \/ CallbackRefused(s)
       \/ \E c \in Callers : Callback(c, s)
  \/ \E c \in Callers :
       ExchangeFails(c) \/ Exchange(c) \/ CompleteLogin(c)
       \/ Authenticate(c) \/ NoPrincipalToken(c) \/ PrincipalSignsIn(c)

Spec == Init /\ [][Next]_vars

-----------------------------------------------------------------------------
(* Properties. *)

\* The tokens a request could be handed in this state.
Answers(i) == {PowerBiAnswer(i), FabricAnswer(i)} \ {NoToken}

\* A session that a logout, a replacement or its age has ended never yields a
\* token again, although the background task of its device flow may still be
\* polling and later writes the tokens it gets to the object.
EndedIsFinal == \A i \in ended : Answers(i) = {}

\* Whatever a request is handed is within its lifetime, belongs to a session whose
\* age allows it, and was accepted by its provider before it was stored (a
\* service principal's tokens are stored untried).
AnswersAreGood ==
  \A i \in Ids : \A t \in Answers(i) :
    /\ now < t.exp
    /\ now - session[i].created <= SessionMaxAge
    /\ t.valid \/ session[i].method = "client_secret"

\* The variables hold values of their types.
Tokens == [exp : Int, valid : BOOLEAN]
Entries == [created : Int, method : {None, "device", "sso", "client_secret"},
            status : {None, "pending", "authenticated", "failed"}, powerbi : Tokens, fabric : Tokens]
Handlers == [at : {"idle", "exchange", "fabric", "principal"}, previous : Ids \cup {None}, draft : Entries]
TypeOK ==
  /\ now \in Nat
  /\ session \in [Ids -> Entries]
  /\ stored \subseteq Ids
  /\ task \in [Ids -> [at : {"done", "polling", "validate", "fabric"}, token : Tokens]]
  /\ login \in [States -> Int]
  /\ caller \in [Callers -> Handlers]
  /\ cookie \in Ids \cup {None}
  /\ ended \subseteq Ids
=============================================================================
