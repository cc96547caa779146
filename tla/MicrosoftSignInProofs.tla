----------------------- MODULE MicrosoftSignInProofs -----------------------
(***************************************************************************)
(* The two invariants of the sign-in store, for any number of sessions,     *)
(* states, handlers and token lifetimes.                                    *)
(***************************************************************************)
EXTENDS MicrosoftSignIn, TLAPS

\* An entry that ended was used once and has left the store for good.
EndedEntries == \A i \in ended : i \notin stored /\ session[i].method # None

\* A token the provider has not accepted is never kept, but for a service principal's.
Proven(entry) ==
  entry.method # "client_secret" =>
    /\ entry.powerbi = NoToken \/ entry.powerbi.valid
    /\ entry.fabric = NoToken \/ entry.fabric.valid
UsedEntries == \A i \in stored : session[i].method # None
ProvenEntries == \A i \in Ids : Proven(session[i])
ProvenTasks == \A i \in Ids : task[i].at = "fabric" => task[i].token.valid
ProvenDrafts == \A c \in Callers : caller[c].at = "fabric" =>
                  caller[c].draft.method = "sso" /\ Proven(caller[c].draft)
\* The background task of a device flow, and no other, writes to an entry.
DeviceTasks == \A i \in Ids : task[i].at # "done" => session[i].method = "device"
Inv == /\ TypeOK /\ EndedEntries /\ UsedEntries
       /\ ProvenEntries /\ ProvenTasks /\ ProvenDrafts /\ DeviceTasks

LEMMA TokenTypes == NoToken \in Tokens /\ (now \in Nat => Granted \subseteq Tokens)
  BY SignInAssumption DEF NoToken, Tokens, Granted, Token, ExpiresAt

\* What the actions make of an entry is an entry.
LEMMA EntryTypes ==
  ASSUME NEW e \in Entries, NEW t \in Tokens, NEW u \in Tokens
  PROVE  /\ [e EXCEPT !.status = "failed"] \in Entries
         /\ [e EXCEPT !.powerbi = t] \in Entries
         /\ [e EXCEPT !.fabric = t] \in Entries
         /\ [e EXCEPT !.status = "failed", !.powerbi = t] \in Entries
         /\ [e EXCEPT !.status = "authenticated", !.powerbi = t] \in Entries
         /\ [e EXCEPT !.powerbi = t, !.fabric = u] \in Entries
  BY DEF Entries

LEMMA UnusedType == Unused \in Entries
  BY TokenTypes DEF Entries, Unused, None

LEMMA HandlerTypes ==
  /\ {Idle, [Idle EXCEPT !.at = "exchange"]} \subseteq Handlers
  /\ \A i \in Ids \cup {None} : [Idle EXCEPT !.at = "principal", !.previous = i] \in Handlers
  /\ \A h \in Handlers, e \in Entries : [h EXCEPT !.at = "fabric", !.draft = e] \in Handlers
<1>1. \A h \in Handlers, e \in Entries : [h EXCEPT !.at = "fabric", !.draft = e] \in Handlers
  BY DEF Handlers
<1>2. Idle \in Handlers
  BY UnusedType DEF Idle, Handlers
<1>3. [Idle EXCEPT !.at = "exchange"] \in Handlers
  BY <1>2 DEF Handlers
<1>4. \A i \in Ids \cup {None} : [Idle EXCEPT !.at = "principal", !.previous = i] \in Handlers
  BY <1>2 DEF Handlers
<1>5. QED
  BY <1>1, <1>2, <1>3, <1>4

LEMMA InitInv == Init => Inv
<1> SUFFICES ASSUME Init PROVE Inv
  OBVIOUS
<1>1. TypeOK
  <2>1. session \in [Ids -> Entries] /\ caller \in [Callers -> Handlers]
    BY UnusedType, HandlerTypes DEF Init
  <2>2. task \in [Ids -> [at : {"done", "polling", "validate", "fabric"}, token : Tokens]]
    BY TokenTypes DEF Init, NoTask
  <2>3. QED
    BY <2>1, <2>2 DEF Init, TypeOK
<1>2. QED
  BY <1>1 DEF Init, Inv, EndedEntries, UsedEntries, ProvenEntries, ProvenTasks, ProvenDrafts,
              DeviceTasks, Proven, Unused, Idle, NoTask

LEMMA NextInv == Inv /\ [Next]_vars => Inv'
<1> SUFFICES ASSUME Inv, [Next]_vars PROVE Inv'
  OBVIOUS
<1> USE SignInAssumption, TokenTypes
<1> USE DEF Inv, TypeOK, NoTask
<1>1. CASE Tick
  <2>1. TypeOK'
    BY <1>1 DEF Tick
  <2>2. EndedEntries' /\ UsedEntries' /\ ProvenEntries' /\ ProvenTasks' /\ ProvenDrafts' /\ DeviceTasks'
    BY <1>1 DEF Tick, EndedEntries, UsedEntries, ProvenEntries, ProvenTasks, ProvenDrafts,
       DeviceTasks
  <2>3. QED
    BY <2>1, <2>2
<1>2. CASE Start
  <2>1. session' \in [Ids -> Entries]
    <3>1. Device \in Entries
      BY DEF Device, Entries
    <3>2. QED
      BY <3>1, <1>2 DEF Start, Fresh
  <2>2. TypeOK'
    BY <2>1, <1>2 DEF Start, Fresh, Device, Polling
  <2>3. EndedEntries'
    BY <1>2 DEF Start, Fresh, EndedEntries, None, Unused
  <2>4. UsedEntries'
    BY <1>2 DEF Start, Fresh, Device, UsedEntries, None
  <2>5. ProvenEntries'
    BY <1>2 DEF Start, Fresh, Device, ProvenEntries, Proven
  <2>6. ProvenTasks'
    BY <1>2 DEF Start, Fresh, Polling, ProvenTasks
  <2>7. DeviceTasks'
    BY <1>2 DEF Start, Fresh, Device, Polling, DeviceTasks
  <2>8. ProvenDrafts'
    BY <1>2 DEF Start, ProvenDrafts
  <2>9. QED
    BY <2>2, <2>3, <2>4, <2>5, <2>6, <2>7, <2>8
<1>3. ASSUME NEW i \in Ids, PollFails(i) PROVE Inv'
  <2>1. session' \in [Ids -> Entries]
    BY <1>3, EntryTypes DEF PollFails
  <2>2. TypeOK'
    BY <2>1, <1>3 DEF PollFails
  <2>3. EndedEntries'
    BY <1>3 DEF PollFails, EndedEntries, Entries
  <2>4. UsedEntries'
    BY <1>3 DEF PollFails, UsedEntries, Entries
  <2>5. ProvenEntries'
    BY <1>3 DEF PollFails, ProvenEntries, Proven, Entries
  <2>6. ProvenTasks'
    BY <1>3 DEF PollFails, ProvenTasks
  <2>7. DeviceTasks'
    BY <1>3 DEF PollFails, DeviceTasks, Entries
  <2>8. ProvenDrafts'
    BY <1>3 DEF PollFails, ProvenDrafts
  <2>9. QED
    BY <2>2, <2>3, <2>4, <2>5, <2>6, <2>7, <2>8
<1>4. ASSUME NEW i \in Ids, PollReturns(i) PROVE Inv'
  <2>1. TypeOK'
    BY <1>4 DEF PollReturns
  <2>2. ProvenTasks'
    BY <1>4 DEF PollReturns, ProvenTasks
  <2>3. DeviceTasks'
    BY <1>4 DEF PollReturns, DeviceTasks
  <2>4. EndedEntries' /\ UsedEntries' /\ ProvenEntries' /\ ProvenDrafts'
    BY <1>4 DEF PollReturns, EndedEntries, UsedEntries, ProvenEntries, ProvenDrafts
  <2>5. QED
    BY <2>1, <2>2, <2>3, <2>4
<1>5. ASSUME NEW i \in Ids, ValidationFails(i) PROVE Inv'
  <2>1. session' \in [Ids -> Entries]
    BY <1>5, EntryTypes DEF ValidationFails
  <2>2. TypeOK'
    BY <2>1, <1>5 DEF ValidationFails
  <2>3. EndedEntries'
    BY <1>5 DEF ValidationFails, EndedEntries, Entries
  <2>4. UsedEntries'
    BY <1>5 DEF ValidationFails, UsedEntries, Entries
  <2>5. ProvenEntries'
    BY <1>5 DEF ValidationFails, ProvenEntries, Proven, Entries
  <2>6. ProvenTasks'
    BY <1>5 DEF ValidationFails, ProvenTasks
  <2>7. DeviceTasks'
    BY <1>5 DEF ValidationFails, DeviceTasks, Entries
  <2>8. ProvenDrafts'
    BY <1>5 DEF ValidationFails, ProvenDrafts
  <2>9. QED
    BY <2>2, <2>3, <2>4, <2>5, <2>6, <2>7, <2>8
<1>6. ASSUME NEW i \in Ids, Validated(i) PROVE Inv'
  <2>1. session' \in [Ids -> Entries]
    BY <1>6, EntryTypes DEF Validated
  <2>2. TypeOK'
    BY <2>1, <1>6 DEF Validated
  <2>3. EndedEntries'
    BY <1>6 DEF Validated, EndedEntries, Entries
  <2>4. UsedEntries'
    BY <1>6 DEF Validated, UsedEntries, Entries
  <2>5. ProvenEntries'
    BY <1>6 DEF Validated, ProvenEntries, Proven, Entries, ProvenTasks
  <2>6. ProvenTasks'
    BY <1>6 DEF Validated, ProvenTasks
  <2>7. DeviceTasks'
    BY <1>6 DEF Validated, DeviceTasks, Entries
  <2>8. ProvenDrafts'
    BY <1>6 DEF Validated, ProvenDrafts
  <2>9. QED
    BY <2>2, <2>3, <2>4, <2>5, <2>6, <2>7, <2>8
<1>7. ASSUME NEW i \in Ids, TryFabric(i) PROVE Inv'
  <2>1. session' \in [Ids -> Entries]
    <3>1. PICK t \in FabricOutcomes : session' = [session EXCEPT ![i].fabric = t]
      BY <1>7 DEF TryFabric
    <3>2. t \in Tokens
      BY DEF FabricOutcomes, Accepted
    <3>3. QED
      BY <3>1, <3>2, EntryTypes
  <2>2. TypeOK'
    BY <2>1, <1>7 DEF TryFabric, FabricOutcomes, Accepted
  <2>3. EndedEntries'
    BY <1>7 DEF TryFabric, EndedEntries, Entries
  <2>4. UsedEntries'
    BY <1>7 DEF TryFabric, UsedEntries, Entries
  <2>5. ProvenEntries'
    BY <1>7 DEF TryFabric, FabricOutcomes, Accepted, ProvenEntries, Proven, Entries
  <2>6. ProvenTasks'
    BY <1>7 DEF TryFabric, ProvenTasks
  <2>7. DeviceTasks'
    BY <1>7 DEF TryFabric, DeviceTasks, Entries
  <2>8. ProvenDrafts'
    BY <1>7 DEF TryFabric, ProvenDrafts
  <2>9. QED
    BY <2>2, <2>3, <2>4, <2>5, <2>6, <2>7, <2>8
<1>8. ASSUME NEW i \in Ids, TaskDies(i) PROVE Inv'
  <2>1. TypeOK'
    BY <1>8 DEF TaskDies
  <2>2. ProvenTasks'
    BY <1>8 DEF TaskDies, ProvenTasks
  <2>3. DeviceTasks'
    BY <1>8 DEF TaskDies, DeviceTasks
  <2>4. EndedEntries' /\ UsedEntries' /\ ProvenEntries' /\ ProvenDrafts'
    BY <1>8 DEF TaskDies, EndedEntries, UsedEntries, ProvenEntries, ProvenDrafts
  <2>5. QED
    BY <2>1, <2>2, <2>3, <2>4
<1>9. ASSUME NEW s \in States, BuildAuthorizationUrl(s) PROVE Inv'
  <2>1. TypeOK'
    BY <1>9 DEF BuildAuthorizationUrl
  <2>2. EndedEntries' /\ UsedEntries' /\ ProvenEntries' /\ ProvenTasks' /\ ProvenDrafts' /\ DeviceTasks'
    BY <1>9 DEF BuildAuthorizationUrl, EndedEntries, UsedEntries, ProvenEntries, ProvenTasks,
       ProvenDrafts, DeviceTasks
  <2>3. QED
    BY <2>1, <2>2
<1>10. ASSUME NEW s \in States, CallbackRefused(s) PROVE Inv'
  <2>1. TypeOK'
    BY <1>10 DEF CallbackRefused, PopPending, Popped
  <2>2. EndedEntries' /\ UsedEntries' /\ ProvenEntries' /\ ProvenTasks' /\ ProvenDrafts' /\ DeviceTasks'
    BY <1>10 DEF CallbackRefused, EndedEntries, UsedEntries, ProvenEntries, ProvenTasks,
       ProvenDrafts, DeviceTasks
  <2>3. QED
    BY <2>1, <2>2
<1>11. ASSUME NEW c \in Callers, NEW s \in States, Callback(c, s) PROVE Inv'
  <2>1. TypeOK'
    <3>1. caller' \in [Callers -> Handlers]
      BY <1>11, HandlerTypes DEF Callback
    <3>2. login' \in [States -> Int]
      BY <1>11 DEF Callback, PopPending, Popped
    <3>3. QED
      BY <3>1, <3>2, <1>11 DEF Callback
  <2>2. ProvenDrafts'
    <3>1. [Idle EXCEPT !.at = "exchange"].at = "exchange"
      BY DEF Idle
    <3>2. QED
      BY <3>1, <1>11 DEF Callback, ProvenDrafts
  <2>3. EndedEntries' /\ UsedEntries' /\ ProvenEntries' /\ ProvenTasks' /\ DeviceTasks'
    BY <1>11 DEF Callback, EndedEntries, UsedEntries, ProvenEntries, ProvenTasks, DeviceTasks
  <2>4. QED
    BY <2>1, <2>2, <2>3
<1>12. ASSUME NEW c \in Callers, ExchangeFails(c) PROVE Inv'
  <2>1. TypeOK'
    BY <1>12, HandlerTypes DEF ExchangeFails
  <2>2. ProvenDrafts'
    BY <1>12 DEF ExchangeFails, ProvenDrafts, Idle
  <2>3. EndedEntries' /\ UsedEntries' /\ ProvenEntries' /\ ProvenTasks' /\ DeviceTasks'
    BY <1>12 DEF ExchangeFails, EndedEntries, UsedEntries, ProvenEntries, ProvenTasks, DeviceTasks
  <2>4. QED
    BY <2>1, <2>2, <2>3
<1>13. ASSUME NEW c \in Callers, Exchange(c) PROVE Inv'
  <2>1. TypeOK'
    <3>1. PICK p \in Accepted :
            caller' = [caller EXCEPT ![c] = [caller[c] EXCEPT !.at = "fabric",
                         !.draft = [created |-> now, method |-> "sso", status |-> "authenticated",
                                    powerbi |-> p, fabric |-> NoToken]]]
      BY <1>13 DEF Exchange
    <3>2. [created |-> now, method |-> "sso", status |-> "authenticated",
           powerbi |-> p, fabric |-> NoToken] \in Entries
      BY DEF Entries, Accepted
    <3>3. QED
      BY <3>1, <3>2, <1>13, HandlerTypes DEF Exchange
  <2>2. ProvenDrafts'
    BY <1>13 DEF Exchange, Accepted, ProvenDrafts, Proven, Handlers
  <2>3. EndedEntries' /\ UsedEntries' /\ ProvenEntries' /\ ProvenTasks' /\ DeviceTasks'
    BY <1>13 DEF Exchange, EndedEntries, UsedEntries, ProvenEntries, ProvenTasks, DeviceTasks
  <2>4. QED
    BY <2>1, <2>2, <2>3
<1>14. ASSUME NEW c \in Callers, CompleteLogin(c) PROVE Inv'
  <2>1. session' \in [Ids -> Entries]
    <3>1. PICK i \in Fresh, t \in FabricOutcomes :
            session' = [session EXCEPT ![i] = [caller[c].draft EXCEPT !.fabric = t]]
      BY <1>14 DEF CompleteLogin
    <3>2. t \in Tokens /\ caller[c].draft \in Entries
      BY DEF FabricOutcomes, Accepted, Handlers
    <3>3. QED
      BY <3>1, <3>2, EntryTypes
  <2>2. TypeOK'
    BY <2>1, <1>14, HandlerTypes DEF CompleteLogin, Fresh, FabricOutcomes, Accepted
  <2>3. EndedEntries'
    BY <1>14 DEF CompleteLogin, Fresh, EndedEntries, None, Unused
  <2>4. UsedEntries'
    BY <1>14 DEF CompleteLogin, Fresh, UsedEntries, ProvenDrafts, Handlers, Entries, None
  <2>5. ProvenEntries'
    BY <1>14 DEF CompleteLogin, Fresh, FabricOutcomes, Accepted, ProvenEntries,
           ProvenDrafts, Proven, Entries, Handlers
  <2>6. ProvenDrafts'
    BY <1>14 DEF CompleteLogin, ProvenDrafts, Idle
  <2>7. DeviceTasks'
    BY <1>14 DEF CompleteLogin, Fresh, DeviceTasks, Unused, None
  <2>8. ProvenTasks'
    BY <1>14 DEF CompleteLogin, ProvenTasks
  <2>9. QED
    BY <2>2, <2>3, <2>4, <2>5, <2>6, <2>7, <2>8
<1>15. ASSUME NEW c \in Callers, Authenticate(c) PROVE Inv'
  <2>1. TypeOK'
    BY <1>15, HandlerTypes DEF Authenticate
  <2>2. ProvenDrafts'
    BY <1>15 DEF Authenticate, ProvenDrafts, Idle
  <2>3. EndedEntries' /\ UsedEntries' /\ ProvenEntries' /\ ProvenTasks' /\ DeviceTasks'
    BY <1>15 DEF Authenticate, EndedEntries, UsedEntries, ProvenEntries, ProvenTasks, DeviceTasks
  <2>4. QED
    BY <2>1, <2>2, <2>3
<1>16. ASSUME NEW c \in Callers, NoPrincipalToken(c) PROVE Inv'
  <2>1. TypeOK'
    BY <1>16, HandlerTypes DEF NoPrincipalToken
  <2>2. ProvenDrafts'
    BY <1>16 DEF NoPrincipalToken, ProvenDrafts, Idle
  <2>3. EndedEntries' /\ UsedEntries' /\ ProvenEntries' /\ ProvenTasks' /\ DeviceTasks'
    BY <1>16 DEF NoPrincipalToken, EndedEntries, UsedEntries, ProvenEntries, ProvenTasks,
       DeviceTasks
  <2>4. QED
    BY <2>1, <2>2, <2>3
<1>17. ASSUME NEW c \in Callers, PrincipalSignsIn(c) PROVE Inv'
  <2> DEFINE old == {caller[c].previous} \cap stored
             new(p, t) == [created |-> now, method |-> "client_secret", status |-> "authenticated",
                           powerbi |-> p, fabric |-> t]
  <2>1. PICK i \in Fresh, p \in Granted, t \in {NoToken} \cup Granted :
          /\ session' = [j \in Ids |-> CASE j = i -> new(p, t)
                                         [] j \in old -> Cleared(session[j])
                                         [] OTHER -> session[j]]
          /\ stored' = (stored \ old) \cup {i}
          /\ ended' = ended \cup old
          /\ cookie' = i
    BY <1>17 DEF PrincipalSignsIn
  <2>2. new(p, t) \in Entries /\ new(p, t).method = "client_secret"
    BY DEF Entries
  <2>3. \A j \in Ids : /\ Cleared(session[j]) \in Entries
                       /\ Cleared(session[j]).method = session[j].method
                       /\ Proven(Cleared(session[j]))
    <3> SUFFICES ASSUME NEW j \in Ids
                 PROVE  /\ Cleared(session[j]) \in Entries
                        /\ Cleared(session[j]).method = session[j].method
                        /\ Proven(Cleared(session[j]))
      OBVIOUS
    <3>1. session[j] \in Entries
      OBVIOUS
    <3>2. Cleared(session[j]) \in Entries
      BY <3>1, EntryTypes DEF Cleared
    <3>3. /\ Cleared(session[j]).method = session[j].method
          /\ Cleared(session[j]).powerbi = NoToken
          /\ Cleared(session[j]).fabric = NoToken
      BY <3>1 DEF Cleared, Entries
    <3>4. QED
      BY <3>2, <3>3 DEF Proven
  <2>4. i \notin stored /\ i \notin ended /\ session[i].method = None /\ i \in Ids
    BY DEF Fresh, Unused, UsedEntries, EndedEntries
  <2>5. task[i].at = "done"
    BY <2>4 DEF DeviceTasks, None
  <2>6. \A j \in Ids : session'[j] \in {new(p, t), session[j], Cleared(session[j])}
    BY <2>1
  <2>7. \A j \in Ids \ {i} : session'[j].method = session[j].method
    BY <2>1, <2>3
  <2> HIDE DEF new
  <2>8. session' \in [Ids -> Entries]
    BY <2>1, <2>2, <2>3
  <2>9. TypeOK'
    BY <2>8, <2>1, <2>4, <1>17, HandlerTypes DEF PrincipalSignsIn
  <2>10. EndedEntries'
    BY <2>1, <2>4, <2>7 DEF EndedEntries, UsedEntries
  <2>11. UsedEntries'
    BY <2>1, <2>2, <2>4, <2>7 DEF UsedEntries, None
  <2>12. ProvenEntries'
    BY <2>2, <2>3, <2>6 DEF ProvenEntries, Proven
  <2>13. ProvenTasks'
    BY <1>17 DEF PrincipalSignsIn, ProvenTasks
  <2>14. ProvenDrafts'
    BY <1>17 DEF PrincipalSignsIn, ProvenDrafts, Idle
  <2>15. DeviceTasks'
    BY <1>17, <2>5, <2>7 DEF PrincipalSignsIn, DeviceTasks
  <2>16. QED
    BY <2>9, <2>10, <2>11, <2>12, <2>13, <2>14, <2>15
<1>18. ASSUME NEW i \in Ids, AskTooLate(i) PROVE Inv'
  <2>1. session' \in [Ids -> Entries]
    BY <1>18, EntryTypes DEF AskTooLate, DeleteDeviceSession, Dropped, Cleared
  <2>2. TypeOK'
    BY <2>1, <1>18 DEF AskTooLate, DeleteDeviceSession, Dropped, Cleared
  <2>3. EndedEntries'
    BY <1>18 DEF AskTooLate, DeleteDeviceSession, Dropped, Cleared, EndedEntries, UsedEntries,
           Entries
  <2>4. UsedEntries'
    BY <1>18 DEF AskTooLate, DeleteDeviceSession, Dropped, Cleared, UsedEntries, Entries
  <2>5. ProvenEntries'
    BY <1>18 DEF AskTooLate, DeleteDeviceSession, Dropped, Cleared, ProvenEntries, Proven, Entries
  <2>6. DeviceTasks'
    BY <1>18 DEF AskTooLate, DeleteDeviceSession, Dropped, Cleared, DeviceTasks, Entries
  <2>7. ProvenTasks' /\ ProvenDrafts'
    BY <1>18 DEF AskTooLate, ProvenTasks, ProvenDrafts
  <2>8. QED
    BY <2>2, <2>3, <2>4, <2>5, <2>6, <2>7
<1>19. ASSUME NEW i \in Ids, AskPowerBi(i) PROVE Inv'
  <2>1. session' \in [Ids -> Entries]
    BY <1>19, EntryTypes DEF AskPowerBi
  <2>2. TypeOK'
    BY <2>1, <1>19 DEF AskPowerBi
  <2>3. EndedEntries'
    BY <1>19 DEF AskPowerBi, EndedEntries, Entries
  <2>4. UsedEntries'
    BY <1>19 DEF AskPowerBi, UsedEntries, Entries
  <2>5. ProvenEntries'
    BY <1>19 DEF AskPowerBi, ProvenEntries, Proven, Entries
  <2>6. DeviceTasks'
    BY <1>19 DEF AskPowerBi, DeviceTasks, Entries
  <2>7. ProvenTasks' /\ ProvenDrafts'
    BY <1>19 DEF AskPowerBi, ProvenTasks, ProvenDrafts
  <2>8. QED
    BY <2>2, <2>3, <2>4, <2>5, <2>6, <2>7
<1>20. ASSUME NEW i \in Ids, AskFabric(i) PROVE Inv'
  <2>1. session' \in [Ids -> Entries]
    BY <1>20, EntryTypes DEF AskFabric
  <2>2. TypeOK'
    BY <2>1, <1>20 DEF AskFabric
  <2>3. EndedEntries'
    BY <1>20 DEF AskFabric, EndedEntries, Entries
  <2>4. UsedEntries'
    BY <1>20 DEF AskFabric, UsedEntries, Entries
  <2>5. ProvenEntries'
    BY <1>20 DEF AskFabric, ProvenEntries, Proven, Entries
  <2>6. DeviceTasks'
    BY <1>20 DEF AskFabric, DeviceTasks, Entries
  <2>7. ProvenTasks' /\ ProvenDrafts'
    BY <1>20 DEF AskFabric, ProvenTasks, ProvenDrafts
  <2>8. QED
    BY <2>2, <2>3, <2>4, <2>5, <2>6, <2>7
<1>21. ASSUME NEW i \in Ids, PrincipalStatus(i) PROVE Inv'
  <2>1. session' \in [Ids -> Entries]
    <3> DEFINE kept(t) == IF Lapsed(t) THEN NoToken ELSE t
    <3>1. kept(session[i].powerbi) \in Tokens /\ kept(session[i].fabric) \in Tokens
      BY DEF Entries
    <3>2. session' = [session EXCEPT ![i] = [session[i] EXCEPT !.powerbi = kept(session[i].powerbi),
                                                              !.fabric = kept(session[i].fabric)]]
      BY <1>21 DEF PrincipalStatus
    <3> HIDE DEF kept
    <3>3. QED
      BY <3>1, <3>2, EntryTypes
  <2>2. TypeOK'
    BY <2>1, <1>21 DEF PrincipalStatus
  <2>3. EndedEntries'
    BY <1>21 DEF PrincipalStatus, EndedEntries, Entries
  <2>4. UsedEntries'
    BY <1>21 DEF PrincipalStatus, UsedEntries, Entries
  <2>5. ProvenEntries'
    BY <1>21 DEF PrincipalStatus, ProvenEntries, Proven, Entries
  <2>6. DeviceTasks'
    BY <1>21 DEF PrincipalStatus, DeviceTasks, Entries
  <2>7. ProvenTasks' /\ ProvenDrafts'
    BY <1>21 DEF PrincipalStatus, ProvenTasks, ProvenDrafts
  <2>8. QED
    BY <2>2, <2>3, <2>4, <2>5, <2>6, <2>7
<1>22. ASSUME NEW i \in Ids, Logout(i) PROVE Inv'
  <2>1. session' \in [Ids -> Entries]
    BY <1>22, EntryTypes DEF Logout, DeleteDeviceSession, Dropped, Cleared
  <2>2. TypeOK'
    BY <2>1, <1>22 DEF Logout, DeleteDeviceSession, Dropped, Cleared
  <2>3. EndedEntries'
    BY <1>22 DEF Logout, DeleteDeviceSession, Dropped, Cleared, EndedEntries, UsedEntries,
           Entries
  <2>4. UsedEntries'
    BY <1>22 DEF Logout, DeleteDeviceSession, Dropped, Cleared, UsedEntries, Entries
  <2>5. ProvenEntries'
    BY <1>22 DEF Logout, DeleteDeviceSession, Dropped, Cleared, ProvenEntries, Proven, Entries
  <2>6. DeviceTasks'
    BY <1>22 DEF Logout, DeleteDeviceSession, Dropped, Cleared, DeviceTasks, Entries
  <2>7. ProvenTasks' /\ ProvenDrafts'
    BY <1>22 DEF Logout, ProvenTasks, ProvenDrafts
  <2>8. QED
    BY <2>2, <2>3, <2>4, <2>5, <2>6, <2>7
<1>23. CASE UNCHANGED vars
  BY <1>23 DEF vars, EndedEntries, UsedEntries, ProvenEntries, ProvenTasks, ProvenDrafts,
     DeviceTasks
<1>24. QED
  BY <1>1, <1>2, <1>3, <1>4, <1>5, <1>6, <1>7, <1>8, <1>9, <1>10, <1>11, <1>12, <1>13, <1>14, <1>15,
     <1>16, <1>17, <1>18, <1>19, <1>20, <1>21, <1>22, <1>23 DEF Next, Step

LEMMA SpecInv == Spec => []Inv
  BY InitInv, NextInv, PTL DEF Spec

\* The variables of the sign-in store keep their types.
THEOREM SignInTypes == Spec => []TypeOK
<1>1. Inv => TypeOK
  BY DEF Inv
<1>2. QED
  BY SpecInv, <1>1, PTL

\* A session that a logout, a replacement or its age has ended never yields a token again,
\* whatever its background task still writes.
THEOREM EndedSessionsAreSilent == Spec => []EndedIsFinal
<1>1. Inv => EndedIsFinal
  BY DEF Inv, EndedEntries, EndedIsFinal, Answers, PowerBiAnswer, FabricAnswer, Live
<1>2. QED
  BY SpecInv, <1>1, PTL

\* What a request is handed is within its lifetime, of a session young enough, and accepted by
\* its provider or a service principal's.
THEOREM TokensHandedOutAreGood == Spec => []AnswersAreGood
<1>1. ASSUME Inv PROVE AnswersAreGood
  <2> SUFFICES ASSUME NEW i \in Ids, NEW t \in Answers(i)
               PROVE  /\ now < t.exp
                      /\ now - session[i].created <= SessionMaxAge
                      /\ t.valid \/ session[i].method = "client_secret"
    BY DEF AnswersAreGood
  <2>1. session[i] \in Entries /\ now \in Nat /\ Proven(session[i])
    BY <1>1 DEF Inv, TypeOK, ProvenEntries
  <2>2. /\ Live(i) /\ Usable(t)
        /\ t \in {session[i].powerbi, session[i].fabric}
    BY DEF Answers, PowerBiAnswer, FabricAnswer
  <2>3. now < t.exp /\ t # NoToken
    BY <2>2 DEF Usable
  <2>4. now - session[i].created <= SessionMaxAge
    BY <2>1, <2>2, SignInAssumption DEF Live, Aged, Entries
  <2>5. t.valid \/ session[i].method = "client_secret"
    BY <2>1, <2>2, <2>3 DEF Proven
  <2>6. QED
    BY <2>3, <2>4, <2>5
<1>2. QED
  BY SpecInv, <1>1, PTL
=============================================================================
