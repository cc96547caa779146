------------------------------ MODULE PowerAi ------------------------------
(***************************************************************************)
(* Power AI's requests: /ai/explain, /ai/chat and /ai/chat/stream.  Each is *)
(* a task of the event loop that gives way only where it waits: for the     *)
(* context's providers, for the model, and for a client it streams to.      *)
(* They share the recent turns of every conversation and the import of the  *)
(* provider library.                                                        *)
(***************************************************************************)
EXTENDS PowerAiAgents, SequencesExt

CONSTANTS Requests,          \* the requests that may be in flight at once
          Tokens,            \* the callers' access tokens
          Conversations,     \* conversation ids; those not used yet stand for fresh UUIDs
          Questions,         \* [q, view, context]: what may be asked, and what resolving finds
          Calls,             \* the sequences of tool calls a model may make at once
          Replies,           \* the compositions a model may write: [summary, claims]
          MaxToolRounds,     \* 4 in the code
          MaxTurns,          \* turns kept of a conversation, 10
          MaxHistoryTurns,   \* turns a model is told
          MaxConversations,  \* conversations kept, 1000
          MaxAsked           \* bound on the requests of a behaviour

ASSUME PowerAiAssumption ==
    /\ {MaxToolRounds, MaxTurns, MaxHistoryTurns, MaxConversations} \subseteq Nat \ {0}
    /\ MaxAsked \in Nat

\* A call a model makes: of a tool, for an object the model holds or not.
ToolCall == [tool : STRING, held : BOOLEAN]

ASSUME InputsAssumption ==
    /\ \A a \in Questions : a.context \in Contexts
    /\ \A calls \in Calls : calls \in Seq(ToolCall)

VARIABLES settings,   \* [enabled, configured]
          library,    \* of litellm: "none", "loaded", or "failed" in the last minute
          kept,       \* the TTLCache of conversations, the least recently used first
          count,      \* [conversation key -> the turns it has had]
          lost,       \* [conversation key -> how many of them expiry and eviction took]
          used,       \* the conversation ids given out
          asked,      \* how many requests were made
          req         \* the requests

vars == <<settings, library, kept, count, lost, used, asked, req>>

Keys == Tokens \X Conversations
NoAnswer == [status |-> None, author |-> None, evidence |-> {}, cited |-> {}]
Idle == [at |-> "idle", endpoint |-> None, token |-> None, conversation |-> None, given |-> FALSE,
         question |-> None, round |-> 0,
         seen |-> {}, found |-> {}, told |-> << >>, called |-> 0, answer |-> NoAnswer]

Init ==
    /\ settings \in [enabled : BOOLEAN, configured : BOOLEAN]
    /\ library = "none"
    /\ kept = << >>
    /\ count = [k \in Keys |-> 0]
    /\ lost = [k \in Keys |-> 0]
    /\ used = {}
    /\ asked = 0
    /\ req = [r \in Requests |-> Idle]

-----------------------------------------------------------------------------
(* The conversation store.  An entry is [key, turns, aged]; a turn is       *)
(* [key, n], the n-th of its conversation.                                  *)

Key(r) == <<req[r].token, req[r].conversation>>
Entries(key) == {i \in DOMAIN kept : kept[i].key = key}
Without(key) == IF Entries(key) = {} THEN kept ELSE RemoveAt(kept, CHOOSE i \in Entries(key) : TRUE)

\* TTLCache.get: what is fresh, and becomes the most recently used.
Fresh(key) == {i \in Entries(key) : ~kept[i].aged}
Turns(key) == IF Fresh(key) = {} THEN << >> ELSE kept[CHOOSE i \in Fresh(key) : TRUE].turns
Touched(key) == IF Fresh(key) = {} THEN Without(key)
                ELSE Append(Without(key), kept[CHOOSE i \in Fresh(key) : TRUE])
\* A lapsed entry the read removed had all of the turns so far.
LostBy(key) == IF Entries(key) # {} /\ Fresh(key) = {} THEN {key} ELSE {}

LastOf(s, n) == SubSeq(s, IF Len(s) > n THEN Len(s) - n + 1 ELSE 1, Len(s))

\* Mutant: the turn is added to those read when the request began.
RememberTurnOfLoop(r) ==
    LET key == Key(r)
        entry == [key |-> key, aged |-> FALSE,
                  turns |-> LastOf(Append(req[r].told, [key |-> key, n |-> count[key] + 1]), MaxTurns)]
    IN /\ count' = [count EXCEPT ![key] = @ + 1]
       /\ kept' = LastOf(Append(Without(key), entry), MaxConversations)
       /\ lost' = lost
\* remember_turn: with TTLCache.set, which evicts the least recently used.
RememberTurn(r) ==
    LET key == Key(r)
        entry == [key |-> key, aged |-> FALSE,
                  turns |-> LastOf(Append(Turns(key), [key |-> key, n |-> count[key] + 1]), MaxTurns)]
        all == Append(Without(key), entry)
        evicted == {all[i].key : i \in 1 .. Len(all) - MaxConversations}
    IN /\ count' = [count EXCEPT ![key] = @ + 1]
       /\ kept' = LastOf(all, MaxConversations)
       /\ lost' = [k \in Keys |-> IF k \in evicted \cup LostBy(key) THEN count[k] ELSE lost[k]]

\* An entry's two hours pass.
Lapse ==
    /\ \E i \in DOMAIN kept : ~kept[i].aged /\ kept' = [kept EXCEPT ![i].aged = TRUE]
    /\ UNCHANGED <<settings, library, count, lost, used, asked, req>>

-----------------------------------------------------------------------------
(* A request's answer.                                                      *)

Answer(status, author, evidence, cited) ==
    [status |-> status, author |-> author, evidence |-> evidence, cited |-> cited]

\* What only the tool loop knows.
LoopLeft(state) == [state EXCEPT !.round = 0, !.seen = {}, !.found = {}, !.told = << >>]

\* generate: whatever answered, a chat's turn is remembered, unless the answer is blank.
Answered(r, state, answer, blank) ==
    /\ req' = [req EXCEPT ![r] = [LoopLeft(state) EXCEPT !.at = "answered", !.answer = answer]]
    /\ IF state.endpoint = "explain" \/ blank THEN UNCHANGED <<kept, count, lost>> ELSE RememberTurn(r)

Error(r) == req' = [req EXCEPT ![r] = [Idle EXCEPT !.at = "failed"]] /\ UNCHANGED <<kept, count, lost>>

\* What resolving leaves: the workspace is listed only for a question that wants it.
Context(r) ==
    LET a == req[r].question
    IN IF WantsWorkspaceInventory(a.q, a.view) THEN a.context ELSE [a.context EXCEPT !.inventory = None]

Bundle(r) == Handle(req[r].question.q, req[r].question.view, Context(r))

\* The fixed path: the bundle as it stands, or what a model makes of it.
Route(r, state) ==
    LET bundle == Bundle(r)
        composes == CanAnswer(bundle) /\ (state.endpoint = "explain" =>
                                              settings.enabled /\ settings.configured)
    IN IF composes
       THEN req' = [req EXCEPT ![r] = [LoopLeft(state) EXCEPT !.at = "composing"]] /\ UNCHANGED <<kept, count, lost>>
       ELSE Answered(r, state, Answer(bundle.status, "code", bundle.evidence, {}), FALSE)

-----------------------------------------------------------------------------
(* Actions.                                                                 *)

\* A request comes in; a chat while AI is disabled is refused.
Ask(r) ==
    /\ req[r].at = "idle" /\ asked < MaxAsked
    /\ asked' = asked + 1
    /\ \E e \in {"explain", "chat", "stream"}, a \in Questions, t \in Tokens, c \in Conversations :
         LET given == c \in used
             refused == e # "explain" /\ ~settings.enabled
         IN /\ used' = used \cup {c}
            /\ req' = [req EXCEPT ![r] =
                 IF refused THEN [Idle EXCEPT !.at = "failed"]
                 ELSE [Idle EXCEPT !.at = "resolving", !.endpoint = e, !.token = t, !.question = a,
                                   !.conversation = c, !.given = given]]
    /\ UNCHANGED <<settings, library, kept, count, lost>>

\* _capabilities_response: about Power AI itself, with no evidence asked for.
AnswerCapability(r) ==
    /\ req[r].at = "resolving" /\ req[r].question.q.kind # None
    /\ LET c == Context(r)
           scope == ReportDossier(c) \cup ModelDossier(c) \cup WorkspaceDossier(c)
       IN Answered(r, req[r], Answer("answered", "code",
                                     IF req[r].question.q.kind = "thanks" THEN {} ELSE scope, {}), FALSE)
    /\ UNCHANGED <<settings, library, used, asked>>

\* The context is resolved. explain and a context without tools take the fixed path; the tool
\* loop begins with the conversation's history, which only a client that names it has.
Resolved(r) ==
    /\ req[r].at = "resolving" /\ req[r].question.q.kind = None
    /\ LET reads == req[r].given
           loop == [req[r] EXCEPT !.at = "asking",
                                  !.told = IF reads THEN LastOf(Turns(Key(r)), MaxHistoryTurns) ELSE << >>]
       IN IF req[r].endpoint = "explain" \/ AvailableTools(Context(r)) = {}
          THEN Route(r, req[r])
          ELSE /\ req' = [req EXCEPT ![r] = loop]
               /\ kept' = IF reads THEN Touched(Key(r)) ELSE kept
               /\ lost' = [k \in Keys |-> IF reads /\ k \in LostBy(Key(r)) THEN count[k] ELSE lost[k]]
               /\ UNCHANGED count
    /\ UNCHANGED <<settings, library, used, asked>>

\* A provider the context needs raises, though not for thanks, which fetch nothing.
ResolveFails(r) ==
    /\ req[r].at = "resolving" /\ req[r].question.q.kind # "thanks"
    /\ Error(r)
    /\ UNCHANGED <<settings, library, used, asked>>

\* _load_litellm: imported once; a failure is remembered for a minute.
Loads == library # "failed" /\ library' = "loaded"
LoadFails == \/ library = "none" /\ library' = "failed"
             \/ library = "failed" /\ UNCHANGED library
FailureIsForgotten ==
    /\ library = "failed" /\ library' = "none"
    /\ UNCHANGED <<settings, kept, count, lost, used, asked, req>>

\* The calls of a round: an unknown tool, a repeated call and a call without evidence add none.
RunCalls(context, state, calls) ==
    LET new == {call \in Range(calls) : call.tool \in Tools} \ state.seen
    IN [state EXCEPT !.seen = @ \cup new,
                     !.found = @ \cup UNION {RunTool(context, call.tool, call.held) : call \in new}]

NextRoundNever(state) == state
NextRound(state) == [state EXCEPT !.round = @ + 1]

\* The model calls tools: they run, or the rounds are used up and the fixed path answers.
ModelCalls(r) ==
    /\ req[r].at = "asking" /\ Loads
    /\ \E calls \in Calls :
         LET called == [req[r] EXCEPT !.called = @ + 1]
         IN IF req[r].round >= MaxToolRounds THEN Route(r, called)
            ELSE /\ req' = [req EXCEPT ![r] = NextRound(RunCalls(Context(r), called, calls))]
                 /\ UNCHANGED <<kept, count, lost>>
    /\ UNCHANGED <<settings, used, asked>>

\* What the loop's answer needs to be kept.
AcceptsAnything(text, found) == text
Accepts(text, found) == text /\ found # {}

\* The model answers, with text or without.
ModelAnswers(r) ==
    /\ req[r].at = "asking" /\ Loads
    /\ \E text \in BOOLEAN :
         LET called == [req[r] EXCEPT !.called = @ + 1]
         IN IF Accepts(text, req[r].found)
            THEN Answered(r, called, Answer("answered", "model", req[r].found, {}), FALSE)
            ELSE Route(r, called)
    /\ UNCHANGED <<settings, used, asked>>

\* GroundedResponseValidator.validate
Validates(claims, evidence) ==
    claims # << >> /\ \A i \in DOMAIN claims : claims[i] # {} /\ claims[i] \subseteq evidence

\* The model writes the evidence up; what fails validation is rendered by the code.
ModelComposes(r) ==
    /\ req[r].at = "composing" /\ Loads
    /\ \E reply \in Replies :
         LET called == [req[r] EXCEPT !.called = @ + 1]
             evidence == Bundle(r).evidence
         IN IF Validates(reply.claims, evidence)
            THEN Answered(r, called, Answer("answered", "model", evidence,
                                            UNION {reply.claims[i] : i \in DOMAIN reply.claims}), ~reply.summary)
            ELSE Answered(r, called, Answer("answered", "code", evidence, {}), FALSE)
    /\ UNCHANGED <<settings, used, asked>>

\* The library does not load, the provider fails or times out, a tool raises, or the composed
\* answer is no JSON: the loop gives way to the fixed path, a composition to the rendering.
ModelFails(r) ==
    /\ LoadFails \/ Loads
    /\ LET tried == IF library' = "loaded" THEN [req[r] EXCEPT !.called = @ + 1] ELSE req[r]
       IN \/ req[r].at = "asking" /\ Route(r, tried)
          \/ /\ req[r].at = "composing"
             /\ Answered(r, tried, Answer("answered", "code", Bundle(r).evidence, {}), FALSE)
    /\ UNCHANGED <<settings, used, asked>>

\* The response is sent: at once, or as the events of a stream, which the whole answer precedes.
Send(r) ==
    /\ \/ req[r].at \in {"failed", "sending"}
       \/ req[r].at = "answered" /\ req[r].endpoint # "stream"
    /\ req' = [req EXCEPT ![r] = Idle]
    /\ UNCHANGED <<settings, library, kept, count, lost, used, asked>>
StreamChatResponse(r) ==
    /\ req[r].at = "answered" /\ req[r].endpoint = "stream"
    /\ req' = [req EXCEPT ![r] = [Idle EXCEPT !.at = "sending", !.endpoint = "stream"]]
    /\ UNCHANGED <<settings, library, kept, count, lost, used, asked>>

\* The client of a stream goes away, and its task is cancelled where it waits.
Disconnect(r) ==
    /\ req[r].endpoint = "stream" /\ req[r].at # "idle"
    /\ req' = [req EXCEPT ![r] = Idle]
    /\ UNCHANGED <<settings, library, kept, count, lost, used, asked>>

Step(r) ==
    \/ AnswerCapability(r) \/ Resolved(r) \/ ResolveFails(r)
    \/ ModelCalls(r) \/ ModelAnswers(r) \/ ModelComposes(r) \/ ModelFails(r)
    \/ Send(r) \/ StreamChatResponse(r)

Next == Lapse \/ FailureIsForgotten \/ \E r \in Requests : Ask(r) \/ Step(r) \/ Disconnect(r)

Spec == Init /\ [][Next]_vars

-----------------------------------------------------------------------------
Turn == [key : Keys, n : Nat \ {0}]
Entry == [key : Keys, turns : Seq(Turn), aged : BOOLEAN]
AnswerType == [status : {None} \cup Statuses, author : {None, "code", "model"},
               evidence : SUBSET Dossiers, cited : SUBSET Dossiers]
Request ==
    [at : {"idle", "resolving", "asking", "composing", "answered", "failed", "sending"},
     endpoint : {None, "explain", "chat", "stream"}, token : Tokens \cup {None},
     conversation : Conversations \cup {None}, given : BOOLEAN, question : Questions \cup {None},
     round : 0 .. MaxToolRounds, seen : SUBSET ToolCall, found : SUBSET Dossiers, told : Seq(Turn),
     called : Nat, answer : AnswerType]

\* The variables hold values of their types, within the bounds of what is kept of a request.
TypeOK ==
    /\ settings \in [enabled : BOOLEAN, configured : BOOLEAN] /\ library \in {"none", "loaded", "failed"}
    /\ kept \in Seq(Entry) /\ count \in [Keys -> Nat] /\ lost \in [Keys -> Nat]
    /\ used \subseteq Conversations /\ asked \in 0 .. MaxAsked
    /\ req \in [Requests -> Request] /\ \A r \in Requests : Len(req[r].told) <= MaxHistoryTurns

(***************************************************************************)
(* What a model wrote is an answer that rests on evidence, the evidence it  *)
(* cites among it; and whatever the model and its provider do, a question   *)
(* the fixed path can answer is answered with evidence.                     *)
(***************************************************************************)
ModelSpeaksFromEvidence ==
    \A r \in Requests : req[r].at = "answered" =>
        LET answer == req[r].answer
        IN /\ answer.author = "model" => /\ answer.status = "answered"
                                         /\ answer.evidence # {} /\ answer.cited \subseteq answer.evidence
           /\ CanAnswer(Bundle(r)) /\ req[r].question.q.kind = None =>
                answer.status = "answered" /\ answer.evidence # {}

(***************************************************************************)
(* A conversation's turns are kept in order and none is missed, whichever   *)
(* requests finish at once, but those that lapsed or were evicted; and a    *)
(* model is told only turns of its own caller's conversation.               *)
(***************************************************************************)
TurnsAreKept ==
    /\ \A i, j \in DOMAIN kept : kept[i].key = kept[j].key => i = j
    /\ Len(kept) <= MaxConversations
    /\ \A i \in DOMAIN kept :
         LET key == kept[i].key
             since == [n \in 1 .. count[key] - lost[key] |-> [key |-> key, n |-> lost[key] + n]]
         IN kept[i].turns = LastOf(since, MaxTurns)
    /\ \A r \in Requests : \A i \in DOMAIN req[r].told : req[r].told[i].key = Key(r)

\* A request asks the model a bounded number of times, whatever the model keeps asking for: a
\* round for each set of calls, one more for its answer, and one to write the evidence up.
ModelIsAskedBoundedly == \A r \in Requests : req[r].called <= MaxToolRounds + 2

\* README.md:1406: "Only `answered` ever has a non-null `usage` -- every other status means the
\* model was never called."
RefusalsNeedNoModel ==
    \A r \in Requests : req[r].at = "answered" /\ req[r].answer.status # "answered" => req[r].called = 0
=============================================================================
