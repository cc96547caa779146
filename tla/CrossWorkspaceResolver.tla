------------------------ MODULE CrossWorkspaceResolver ------------------------
(***************************************************************************)
(* Composite models followed to their databases                            *)
(* (services/cross_workspace_source_resolver.py).                          *)
(*                                                                         *)
(* One request: resolve starts a task per model the caller selected (a     *)
(* root) and gathers them.  A task walks the tables of its model and for   *)
(* each hop to an upstream model either loads that model, recursively, or  *)
(* takes another task's answer through a future.  The recursion of a task  *)
(* is its stack of frames; the chain of the code is the models of its      *)
(* frames but the root's.  All tasks run on one event loop, each from one  *)
(* suspension to the next without interruption: running is the task that   *)
(* has not suspended yet.                                                  *)
(*                                                                         *)
(* What a table is made of is a source: a table of a database, or of a     *)
(* model behind an XMLA endpoint (a hop).  An endpoint need not name a     *)
(* workspace and a model, and a table need not have a source.              *)
(***************************************************************************)
EXTENDS Integers, Sequences, FiniteSets, SequencesExt

CONSTANTS
  Models,       \* the semantic models of the tenant
  Database,     \* stands for a model in the sources that are databases
  Unnamed,      \* stands for it in the hops whose endpoint names none
  Workspaces,   \* the workspaces
  WorkspaceOf,  \* WorkspaceOf[m]: the workspace of m
  Tenant,       \* names the listing of the workspaces
  Nobody,       \* no task
  Worlds,       \* what the models may consist of, see Source and Item
  Bare,         \* Bare[m]: the tables of m no source was found for
  MaxDepth      \* max_depth

Source == [model : Models \cup {Database, Unnamed}, table : Nat]
Item == [table : Nat, source : Source]

ASSUME NamesAssumption == /\ Database \notin Models /\ Nobody \notin Models
                          /\ Unnamed \notin Models \cup {Database}
                          /\ Tenant \notin Workspaces
                          /\ WorkspaceOf \in [Models -> Workspaces]
ASSUME WorldsAssumption == Worlds \subseteq [Models -> Seq(Item)]
ASSUME BareAssumption == Bare \in [Models -> SUBSET Nat]
ASSUME DepthAssumption == MaxDepth \in Nat \ {0}

VARIABLES
  world,     \* world[m]: the sources of the tables of m, in order
  hidden,    \* the models the user does not see listed
  running,   \* the task that runs, or Nobody
  pc,        \* pc[r]: "absent", "ready", "asking", "queued", "fetching",
             \*   "waiting", "raising", "failed" or "done"
  stack,     \* stack[r]: the models the task of root r is resolving
  listed,    \* listed[l]: what is known of a listing
  future,    \* future[m]: "none", "pending" or "done" in _upstream
  answer,    \* answer[m]: the result of a done future, or NoAnswer
  result,    \* result[r]: what resolve returns for r, or NoAnswer
  warnings,  \* the codes of the warnings given
  fetched    \* fetched[m]: how often its definition was asked for (history)

tasks == <<running, pc, stack>>
shared == <<listed, future, answer>>
vars == <<world, hidden, tasks, shared, result, warnings, fetched>>

(* A resolved model: the pairs of a table and one of its sources.          *)
NoAnswer == {<<-1, Database>>}
IsHop(s) == s.model # Database
Named(s) == s.model \in Models
Items(m) == {world[m][i] : i \in 1..Len(world[m])}
Tables(m) == {i.table : i \in Items(m)} \cup Bare[m]
AsIs(m) == {<<i.table, i.source>> : i \in Items(m)}
IsComposite(m) == \E i \in Items(m) : IsHop(i.source)

Frame(m, stage) == [model |-> m, stage |-> stage, next |-> 1, found |-> {}]
Top(r) == Last(stack[r])
Depth(r) == Len(stack[r]) - 1
Chain(r) == {stack[r][i].model : i \in 2..Len(stack[r])}
TopItem(r) == world[Top(r).model][Top(r).next]

Init ==
  /\ world \in Worlds
  /\ hidden \in SUBSET Models
  /\ running = Nobody
  /\ pc \in [Models -> {"absent", "ready"}]
  /\ stack = [r \in Models |-> IF pc[r] = "ready"
                               THEN <<Frame(r, "entering")>> ELSE <<>>]
  /\ listed = [l \in Workspaces \cup {Tenant} |-> "unknown"]
  /\ future = [m \in Models |-> "none"]
  /\ answer = [m \in Models |-> NoAnswer]
  /\ result = [r \in Models |-> NoAnswer]
  /\ warnings = {}
  /\ fetched = [m \in Models |-> 0]

(***************************************************************************)
(* A task goes on, suspends, or is woken.                                  *)
(***************************************************************************)
Runs(r) == pc[r] = "ready" /\ running \in {Nobody, r}

GoesOn(r) == running' = r /\ UNCHANGED pc
Suspends(r, why) == running' = Nobody /\ pc' = [pc EXCEPT ![r] = why]
SetTop(r, frame) ==
  stack' = [stack EXCEPT ![r] = Append(Front(stack[r]), frame)]

Warn(code) == warnings' = warnings \cup {code}

WaitersFor(M) ==
  {q \in Models : pc[q] = "waiting" /\ TopItem(q).source.model \in M}

(* The top frame of r ends with the answer a: upstream_model sets the      *)
(* future, or resolve_one returns to resolve.                              *)
Ends(r, a) ==
  LET m == Top(r).model IN
  IF Depth(r) = 0
  THEN /\ result' = [result EXCEPT ![r] = a]
       /\ stack' = [stack EXCEPT ![r] = <<>>]
       /\ Suspends(r, "done")
       /\ UNCHANGED <<future, answer>>
  ELSE /\ future' = [future EXCEPT ![m] = "done"]
       /\ answer' = [answer EXCEPT ![m] = a]
       /\ stack' = [stack EXCEPT ![r] = Front(@)]
       /\ running' = r
       /\ pc' = [q \in Models |->
                   IF q = r \/ q \in WaitersFor({m}) THEN "ready" ELSE pc[q]]
       /\ UNCHANGED result

(***************************************************************************)
(* resolve_one, up to its loop.                                            *)
(***************************************************************************)
EnterWithoutHops(r) ==
  /\ Runs(r)
  /\ Top(r).stage = "entering"
  /\ ~IsComposite(Top(r).model)
  /\ Ends(r, AsIs(Top(r).model))
  /\ UNCHANGED <<world, hidden, listed, warnings, fetched>>

EnterTooDeep(r) ==
  /\ Runs(r)
  /\ Top(r).stage = "entering"
  /\ IsComposite(Top(r).model)
  /\ Depth(r) >= MaxDepth
  /\ Ends(r, AsIs(Top(r).model))
  /\ Warn("CROSS_WORKSPACE_DEPTH_EXCEEDED")
  /\ UNCHANGED <<world, hidden, listed, fetched>>

Enter(r) ==
  /\ Runs(r)
  /\ Top(r).stage = "entering"
  /\ IsComposite(Top(r).model)
  /\ Depth(r) < MaxDepth
  /\ SetTop(r, [Top(r) EXCEPT !.stage = "tables"])
  /\ GoesOn(r)
  /\ UNCHANGED <<world, hidden, shared, result, warnings, fetched>>

(***************************************************************************)
(* Its loop: one source of one table at a time.                            *)
(***************************************************************************)
AtItem(r) ==
  Runs(r) /\ Top(r).stage = "tables" /\ Top(r).next <= Len(world[Top(r).model])

(* The table of the item is made of S.                                     *)
Record(r, S) ==
  /\ SetTop(r, [Top(r) EXCEPT
                  !.next = @ + 1,
                  !.found = @ \cup {<<TopItem(r).table, s>> : s \in S}])
  /\ GoesOn(r)
  /\ UNCHANGED <<world, hidden, shared, result, fetched>>

Keep(r) == Record(r, {TopItem(r).source}) /\ UNCHANGED warnings

(* A database, or a hop back into the chain of the task.                   *)
KeepItem(r) ==
  /\ AtItem(r)
  /\ ~IsHop(TopItem(r).source) \/ TopItem(r).source.model \in Chain(r)
  /\ Keep(r)

KeepUnnamed(r) ==
  /\ AtItem(r)
  /\ TopItem(r).source.model = Unnamed
  /\ Keep(r)

(* Mistaken variants, each the slip its name tells, stand before the       *)
(* operator they falsify here and below; no specification uses them.       *)
IsUpstreamIgnoringChain(r, state) ==
  /\ AtItem(r)
  /\ Named(TopItem(r).source)
  /\ future[TopItem(r).source.model] = state

(* A hop outside the chain whose upstream model is in the given state.     *)
IsUpstream(r, state) ==
  /\ AtItem(r)
  /\ Named(TopItem(r).source)
  /\ TopItem(r).source.model \notin Chain(r)
  /\ future[TopItem(r).source.model] = state

LoadTwice(r) ==
  LET m == TopItem(r).source.model IN
  /\ IsUpstream(r, "none") \/ IsUpstream(r, "pending")
  /\ future' = [future EXCEPT ![m] = "pending"]
  /\ stack' = [stack EXCEPT ![r] = Append(@, Frame(m, "workspace"))]
  /\ GoesOn(r)
  /\ UNCHANGED <<world, hidden, listed, answer, result, warnings, fetched>>

Load(r) ==
  LET m == TopItem(r).source.model IN
  /\ IsUpstream(r, "none")
  /\ future' = [future EXCEPT ![m] = "pending"]
  /\ stack' = [stack EXCEPT ![r] = Append(@, Frame(m, "workspace"))]
  /\ GoesOn(r)
  /\ UNCHANGED <<world, hidden, listed, answer, result, warnings, fetched>>

Await(r) ==
  /\ IsUpstream(r, "pending")
  /\ Suspends(r, "waiting")
  /\ UNCHANGED <<world, hidden, stack, shared, result, warnings, fetched>>

KeepUnresolved(r) ==
  /\ IsUpstream(r, "done")
  /\ answer[TopItem(r).source.model] = NoAnswer
  /\ Keep(r)

(* The upstream model has lost the table.                                  *)
KeepUnmatched(r) ==
  LET s == TopItem(r).source IN
  /\ IsUpstream(r, "done")
  /\ answer[s.model] # NoAnswer
  /\ s.table \notin Tables(s.model)
  /\ Record(r, {s})
  /\ Warn("CROSS_WORKSPACE_TABLE_NOT_MATCHED")

(* What the answer of its upstream model has for the table of a hop, when  *)
(* it has that table.                                                      *)
SourcesFor(s) == {p[2] : p \in {q \in answer[s.model] : q[1] = s.table}}
Matches(r) ==
  LET s == TopItem(r).source IN
  /\ IsUpstream(r, "done")
  /\ answer[s.model] # NoAnswer
  /\ s.table \in Tables(s.model)

(* The upstream model has the table, and no source of it.                  *)
KeepSourceless(r) ==
  /\ Matches(r)
  /\ SourcesFor(TopItem(r).source) = {}
  /\ Keep(r)

ReplaceByModel(r) ==
  LET s == TopItem(r).source IN
  /\ Matches(r)
  /\ SourcesFor(s) # {}
  /\ Record(r, {p[2] : p \in answer[s.model]})
  /\ UNCHANGED warnings

Replace(r) ==
  /\ Matches(r)
  /\ SourcesFor(TopItem(r).source) # {}
  /\ Record(r, SourcesFor(TopItem(r).source))
  /\ UNCHANGED warnings

Finish(r) ==
  /\ Runs(r)
  /\ Top(r).stage = "tables"
  /\ Top(r).next > Len(world[Top(r).model])
  /\ Ends(r, Top(r).found)
  /\ UNCHANGED <<world, hidden, listed, warnings, fetched>>

(***************************************************************************)
(* _load: the workspace, the model, its definition.                        *)
(***************************************************************************)
Locating(r) == Top(r).stage \in {"workspace", "model"}
Listing(r) ==
  IF Top(r).stage = "workspace" THEN Tenant ELSE WorkspaceOf[Top(r).model]

Ask(r) ==
  /\ Runs(r)
  /\ Locating(r)
  /\ listed[Listing(r)] = "unknown"
  /\ listed' = [listed EXCEPT ![Listing(r)] = "asked"]
  /\ Suspends(r, "asking")
  /\ UNCHANGED <<world, hidden, stack, future, answer, result, warnings, fetched>>

(* Another task holds the lock of the listing.                             *)
Queue(r) ==
  /\ Runs(r)
  /\ Locating(r)
  /\ listed[Listing(r)] = "asked"
  /\ Suspends(r, "queued")
  /\ UNCHANGED <<world, hidden, stack, shared, result, warnings, fetched>>

(* The tasks queued on the lock that r holds.                              *)
QueuedBehind(r) == {q \in Models : pc[q] = "queued" /\ Listing(q) = Listing(r)}

(* A listing that fails is an empty one for the rest of the request.       *)
ListingReturns(r) ==
  /\ pc[r] = "asking"
  /\ running = Nobody
  /\ \E outcome \in {"known", "empty"} :
       listed' = [listed EXCEPT ![Listing(r)] = outcome]
  /\ pc' = [q \in Models |-> IF q = r \/ q \in QueuedBehind(r) THEN "ready" ELSE pc[q]]
  /\ UNCHANGED <<world, hidden, running, stack, future, answer, result,
                 warnings, fetched>>

Locate(r) ==
  /\ Runs(r)
  /\ Locating(r)
  /\ listed[Listing(r)] = "known"
  /\ Top(r).stage = "workspace" \/ Top(r).model \notin hidden
  /\ SetTop(r, [Top(r) EXCEPT !.stage =
                  IF @ = "workspace" THEN "model" ELSE "definition"])
  /\ GoesOn(r)
  /\ UNCHANGED <<world, hidden, shared, result, warnings, fetched>>

NotListed(r) ==
  /\ Runs(r)
  /\ Locating(r)
  /\ listed[Listing(r)] \in {"known", "empty"}
  /\ listed[Listing(r)] = "known" =>
       Top(r).stage = "model" /\ Top(r).model \in hidden

LocateFailsSilently(r) ==
  /\ NotListed(r)
  /\ Ends(r, NoAnswer)
  /\ UNCHANGED <<world, hidden, listed, warnings, fetched>>

LocateFails(r) ==
  /\ NotListed(r)
  /\ Ends(r, NoAnswer)
  /\ Warn(IF Top(r).stage = "workspace" THEN "CROSS_WORKSPACE_WORKSPACE_NOT_FOUND"
                                        ELSE "CROSS_WORKSPACE_MODEL_NOT_FOUND")
  /\ UNCHANGED <<world, hidden, listed, fetched>>

Fetch(r) ==
  /\ Runs(r)
  /\ Top(r).stage = "definition"
  /\ fetched' = [fetched EXCEPT ![Top(r).model] = @ + 1]
  /\ Suspends(r, "fetching")
  /\ UNCHANGED <<world, hidden, stack, shared, result, warnings>>

DefinitionReturns(r) ==
  /\ pc[r] = "fetching"
  /\ running = Nobody
  /\ SetTop(r, [Top(r) EXCEPT !.stage = "entering"])
  /\ pc' = [pc EXCEPT ![r] = "ready"]
  /\ UNCHANGED <<world, hidden, running, shared, result, warnings, fetched>>

DefinitionUnavailable(r) ==
  /\ pc[r] = "fetching"
  /\ running = Nobody
  /\ Ends(r, NoAnswer)
  /\ Warn("CROSS_WORKSPACE_DEFINITION_UNAVAILABLE")
  /\ UNCHANGED <<world, hidden, listed, fetched>>

(* Any other exception unwinds the task: every future it owes raises in    *)
(* the tasks that wait for it and is forgotten.  The tasks in freed get    *)
(* the lock it held.                                                       *)
Unwind(r, freed) ==
  /\ future' = [m \in Models |-> IF m \in Chain(r) THEN "none" ELSE future[m]]
  /\ stack' = [stack EXCEPT ![r] = <<>>]
  /\ pc' = [q \in Models |-> IF q = r THEN "failed"
                             ELSE IF q \in WaitersFor(Chain(r)) THEN "raising"
                             ELSE IF q \in freed THEN "ready"
                             ELSE pc[q]]
  /\ running' = Nobody
  /\ UNCHANGED <<world, hidden, answer, result, warnings, fetched>>

ListingRaises(r) ==
  /\ pc[r] = "asking"
  /\ running = Nobody
  /\ listed' = [listed EXCEPT ![Listing(r)] = "unknown"]
  /\ Unwind(r, QueuedBehind(r))

DefinitionRaises(r) ==
  /\ pc[r] = "fetching"
  /\ running = Nobody
  /\ Unwind(r, {})
  /\ UNCHANGED listed

AwaitRaises(r) ==
  /\ pc[r] = "raising"
  /\ running = Nobody
  /\ Unwind(r, {})
  /\ UNCHANGED listed

Step(r) ==
  \/ EnterWithoutHops(r) \/ EnterTooDeep(r) \/ Enter(r)
  \/ KeepItem(r) \/ KeepUnnamed(r) \/ Load(r) \/ Await(r) \/ KeepUnresolved(r)
  \/ KeepUnmatched(r) \/ KeepSourceless(r) \/ Replace(r) \/ Finish(r)
  \/ Ask(r) \/ Queue(r) \/ ListingReturns(r) \/ Locate(r) \/ LocateFails(r)
  \/ Fetch(r) \/ DefinitionReturns(r) \/ DefinitionUnavailable(r)
  \/ ListingRaises(r) \/ DefinitionRaises(r) \/ AwaitRaises(r)

Next == \E r \in Models : Step(r)

Spec == Init /\ [][Next]_vars

(* The loop runs every ready task, and Power BI answers or times out.      *)
FairSpec == Spec /\ \A r \in Models : WF_vars(Step(r))

(***************************************************************************)
(* Properties.                                                             *)
(***************************************************************************)

(* The models upstream of a set of them, and the sources a hop leads to:   *)
(* the least sets closed under what the models are made of.                *)
Upstream(m) == {i.source.model : i \in Items(m)} \cap Models
ModelsFrom(M) ==
  {m \in Models : \A N \in SUBSET Models :
                    M \subseteq N /\ (\A n \in N : Upstream(n) \subseteq N) => m \in N}
Made(s) ==
  IF Named(s) THEN {i.source : i \in {j \in Items(s.model) : j.table = s.table}} ELSE {}
Sources == {i.source : i \in UNION {Items(m) : m \in Models}}
SourcesFrom(s) ==
  {x \in Sources : \A S \in SUBSET Sources :
                     Made(s) \subseteq S /\ (\A y \in S : Made(y) \subseteq S) => x \in S}

(* Where hops can lead no further: a database, a hop that names no model,  *)
(* and a hop to a table that is there and has no source.                   *)
EndsAt(s) == ~Named(s) \/ (s.table \in Tables(s.model) /\ Made(s) = {})

Acyclic == \A m \in Models : m \notin ModelsFrom(Upstream(m))
Roots == {r \in Models : pc[r] # "absent"}
AllEnded == \A r \in Roots : pc[r] \in {"done", "failed"}

Frames == [model : Models, stage : {"entering", "tables", "workspace", "model", "definition"},
           next : Nat \ {0}, found : SUBSET (Nat \X Source)]
Resolved == {NoAnswer} \cup SUBSET (Nat \X Source)

(* The variables hold values of their types.                               *)
TypeOK ==
  /\ world \in Worlds
  /\ running \in Models \cup {Nobody}
  /\ pc \in [Models -> {"absent", "ready", "asking", "queued", "fetching",
                        "waiting", "raising", "failed", "done"}]
  /\ stack \in [Models -> Seq(Frames)]
  /\ listed \in [Workspaces \cup {Tenant} -> {"unknown", "asked", "known", "empty"}]
  /\ future \in [Models -> {"none", "pending", "done"}]
  /\ answer \in [Models -> Resolved] /\ result \in [Models -> Resolved]
  /\ fetched \in [Models -> Nat]

(* "Per-request caches so a shared upstream model is fetched only once":   *)
(* however many tables and roots meet at it, as long as nothing raises.    *)
FetchedOnce ==
  (\A r \in Models : pc[r] \notin {"raising", "failed"}) =>
    \A m \in Models : fetched[m] <= 1

(* Whatever was shared, cut off or failed on the way, a source reported    *)
(* for a table is one that its hops really lead to.                        *)
SourcesAreReal ==
  \A r \in Models : pc[r] = "done" =>
    \A p \in result[r] : p[2] \in SourcesFrom([model |-> r, table |-> p[1]])

(* An answer that gives up on a hop comes with a warning: without one, the *)
(* tables of a root are reported with exactly the places where their hops  *)
(* end, whichever task resolved what.  Those are not all databases: a hop  *)
(* whose endpoint names no model, or whose table has no source upstream,   *)
(* is an end that the code reports as it is, without a warning.  A chain   *)
(* that closes on itself is cut without one too, and is left out here.     *)
SilenceMeansComplete ==
  Acyclic /\ warnings = {} => \A r \in Models : pc[r] = "done" =>
    \A t \in Tables(r) :
      {p[2] : p \in {q \in result[r] : q[1] = t}}
        = {s \in SourcesFrom([model |-> r, table |-> t]) : EndsAt(s)}

(* Without a cycle among the models, or with a single root, every task     *)
(* ends.                                                                   *)
WalksEnd == Acyclic \/ Cardinality(Roots) = 1 ~> AllEnded

(* The comment in upstream_model: "A model that (transitively) points back *)
(* at itself.  Awaiting the pending future here would deadlock, so stop    *)
(* the walk instead."                                                      *)
CyclesDoNotDeadlock == <>AllEnded
=============================================================================
