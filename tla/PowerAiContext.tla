--------------------------- MODULE PowerAiContext ---------------------------
(***************************************************************************)
(* What Power AI resolves from what the client says is open: ask is         *)
(* [workspace, report, model, modelHome, type, query, inventory], a query   *)
(* [table, name, like], like being the names that hold its text.            *)
(*                                                                         *)
(* world is what the providers answer: powerbi and fabric (there is such a  *)
(* token), open (the workspaces that can be read), workspaces (their        *)
(* sequence, or None), report (the asked report's [model, home], or None),  *)
(* definitions [report -> Normalize or None], models [<<workspace, model>>  *)
(* -> definition or None], reportLists and modelLists [workspace -> its     *)
(* sequence of [id, model], the models it holds, or None], follow (whether  *)
(* the cross-workspace resolver answers), upstream, generated, and late,    *)
(* the lookups the enrichment's timeout cut short: "discovery" (and with it *)
(* "sources"), "sources" and "reports".                                     *)
(***************************************************************************)
EXTENDS VisualSources, LineageQueries

CONSTANTS MaxRelated, SearchLimit

-----------------------------------------------------------------------------
(* The named object.                                                        *)

Kinds == <<"measure", "calculated_column", "column", "table">>
\* The type of an object of the model, as answers name it.
KindOf(model, o) ==
    CASE Len(o) = 1 -> "table"
      [] Len(o) = 2 /\ o \in Measures(model) -> "measure"
      [] OTHER -> IF ColumnOf(model, o).expression # None THEN "calculated_column" ELSE "column"

\* In the order of the model.
ObjectsInOrder(model) ==
    LET of(t) == <<<<t.name>>>> \o [i \in DOMAIN t.measures |-> <<t.name, t.measures[i].name>>]
                 \o [i \in DOMAIN t.columns |-> <<t.name, t.columns[i].name>>]
    IN Concat([i \in DOMAIN model.tables |-> of(model.tables[i])])

\* find_semantic_object: the object of exactly that name, of the type that was said when there
\* is one, else of the foremost type; None when several are left.
FindSemanticObject(model, query, type) ==
    LET named(o) == IF Len(o) = 1 THEN query.table = None /\ o[1] = query.name
                    ELSE query.table \in {None, o[1]} /\ o[2] = query.name
        candidates == {o \in Items(ObjectsInOrder(model)) : named(o)}
        typed == {o \in candidates : \/ KindOf(model, o) = type
                                     \/ type = "column" /\ KindOf(model, o) = "calculated_column"}
        left == IF typed = {} THEN candidates ELSE typed
        rank(o) == CHOOSE i \in DOMAIN Kinds : Kinds[i] = KindOf(model, o)
        best == {o \in left : \A p \in left : rank(o) <= rank(p)}
    IN IF Cardinality(best) = 1 THEN CHOOSE o \in best : TRUE ELSE None

\* The names that look like the query, when none is it: the best scored, and all that tie.
SearchObject(model, query, type) ==
    LET order == ObjectsInOrder(model)
        types == CASE type = None -> {"measure", "column"}
                   [] type = "calculated_column" -> {"column"}
                   [] OTHER -> {type}
        like(name) == IF query.table = None /\ name = query.name THEN "same"
                      ELSE IF name \in query.like THEN "holds" ELSE None
        node(i) == [id |-> i, report |-> None, name |-> like(Last(order[i])), rank |-> i, told |-> FALSE,
                    within |-> like(order[i][1]) # None,
                    type |-> IF KindOf(model, order[i]) = "calculated_column" THEN "column"
                             ELSE KindOf(model, order[i])]
        results == Search({node(i) : i \in DOMAIN order}, types, None, SearchLimit, 0).results
    IN {order[r.id] : r \in {r \in Items(results) : Score(r) = Score(results[1])}}

\* _resolve_object: the object, and the note when there is none.
ResolveObject(model, ask) ==
    LET exact == FindSemanticObject(model, ask.query, ask.type)
        near == SearchObject(model, ask.query, ask.type)
    IN IF exact # None THEN [object |-> exact, notes |-> {}]
       ELSE IF Cardinality(near) = 1 THEN [object |-> CHOOSE o \in near : TRUE, notes |-> {}]
       ELSE [object |-> None, notes |-> {IF near = {} THEN "no such object" ELSE "more than one object"}]

-----------------------------------------------------------------------------
(* The model.                                                               *)

\* _semantic_model_id
AskedModel(ask, report, definition) ==
    CASE ask.model # None -> ask.model
      [] ask.model = None /\ report # None /\ report.model # None -> report.model
      [] OTHER -> IF definition = None \/ definition.model = None THEN None ELSE definition.model.id

\* _find_model_workspace: the first other workspace whose listing shows the model.
FindModelWorkspace(world, id, tried) ==
    LET shows(w) == w \notin tried /\ world.modelLists[w] # None /\ id \in Items(world.modelLists[w])
    IN IF ~world.powerbi \/ world.workspaces = None THEN << >> ELSE SelectSeq(world.workspaces, shows)

\* _resolve_semantic_model: the workspace the model can be read in, or None. Only a report's
\* model is searched for elsewhere.
ModelHome(world, ask, report, workspace, id) ==
    LET likely == Present(<<ask.modelHome, IF report = None THEN None ELSE report.home, workspace>>)
        elsewhere == IF report = None THEN << >> ELSE FindModelWorkspace(world, id, Items(likely))
        tried == likely \o (IF elsewhere = << >> THEN << >> ELSE <<elsewhere[1]>>)
        readable == SelectSeq(tried, LAMBDA w : world.models[w, id] # None)
    IN IF readable = << >> \/ ~world.fabric THEN None ELSE readable[1]

-----------------------------------------------------------------------------
(* Enrichment.                                                              *)

Sessions(world) == world.powerbi /\ world.fabric

\* _bound_reports: the other reports of the model, those of its own workspace first. A listing
\* that fails is passed over.
BoundReports(world, ask, home, id) ==
    LET ordered == SelectSeq(world.workspaces, LAMBDA w : w = home)
                   \o SelectSeq(world.workspaces, LAMBDA w : w # home)
        listed(w) == IF world.reportLists[w] = None THEN << >>
                     ELSE SelectSeq(world.reportLists[w], LAMBDA r : r.model = id /\ r.id # ask.report)
    IN Concat([i \in DOMAIN ordered |-> listed(ordered[i])])

\* _enrich_related_reports: [reports, notes].
RelatedReports(world, ask, home, id) ==
    LET bound == IF world.workspaces = None THEN << >> ELSE BoundReports(world, ask, home, id)
        checked == SubSeq(bound, 1, Least(MaxRelated, Len(bound)))
        readable == SelectSeq(checked, LAMBDA r : world.definitions[r.id] # None)
    IN IF ask.type = "report" \/ ~Sessions(world) \/ "reports" \in world.late
       THEN [reports |-> << >>, notes |-> {}]
       ELSE [reports |-> [i \in DOMAIN readable |-> [id |-> readable[i].id, definition |-> world.definitions[readable[i].id]]],
             notes |-> (IF world.workspaces = None THEN {"workspaces not listed"} ELSE {})
                       \cup (IF Len(bound) > MaxRelated THEN {"first reports only"} ELSE {})
                       \cup (IF readable # checked THEN {"unreadable reports"} ELSE {})]

\* _enrich_physical_sources: [sources, notes]; the resolver's own warnings are left out.
EnrichedSources(world, model) ==
    LET tried == Sessions(world) /\ "sources" \notin world.late
    IN [sources |-> IF "discovery" \in world.late THEN None
                    ELSE LinksFollowed([world EXCEPT !.follow = @ /\ tried], model, Discover(model, << >>)),
        notes |-> IF tried /\ ~world.follow THEN {"links not followed"} ELSE {}]

\* _workspace_inventory: the reports and the models, each None when it cannot be listed. The
\* other items are left out.
WorkspaceInventory(world, workspace) ==
    LET reports == world.reportLists[workspace]
        models == world.modelLists[workspace]
    IN [reports |-> reports, models |-> models,
        notes |-> (IF reports = None THEN {"reports not listed"} ELSE {})
                  \cup (IF models = None THEN {"models not listed"} ELSE {})]

(***************************************************************************)
(* resolve.  notes are what could not be verified, coverage what an answer  *)
(* is to say it leaves out.                                                 *)
(***************************************************************************)
ResolveContext(world, ask) ==
    LET workspace == IF world.powerbi /\ ask.workspace \in world.open THEN ask.workspace ELSE None
        report == IF workspace = None \/ ask.report = None THEN None ELSE world.report
        definition == IF report = None \/ ~world.fabric THEN None ELSE world.definitions[ask.report]
        id == IF workspace = None THEN None ELSE AskedModel(ask, report, definition)
        home == IF id = None THEN None ELSE ModelHome(world, ask, report, workspace, id)
        model == IF home = None THEN None ELSE ExcludeAutoDateTables(world.models[home, id], world.generated)
        asked == model # None /\ ask.query # None /\ ask.type \in Items(Kinds) \cup {None}
        found == IF asked THEN ResolveObject(model, ask) ELSE [object |-> None, notes |-> {}]
        related == IF model = None THEN [reports |-> << >>, notes |-> {}]
                   ELSE RelatedReports(world, ask, home, id)
        physical == IF model = None THEN [sources |-> None, notes |-> {}] ELSE EnrichedSources(world, model)
    IN [workspace |-> workspace, reportId |-> IF report = None THEN None ELSE ask.report,
        report |-> definition, modelId |-> IF home = None THEN None ELSE id, model |-> model,
        object |-> found.object, physical |-> physical.sources, related |-> related.reports,
        inventory |-> IF ask.inventory /\ workspace # None THEN WorkspaceInventory(world, workspace) ELSE None,
        notes |-> {n \in {"workspace", "report", "definition", "model"} :
                     CASE n = "workspace" -> ask.workspace # None /\ workspace = None
                       [] n = "report" -> workspace # None /\ ask.report # None /\ report = None
                       [] n = "definition" -> report # None /\ definition = None
                       [] n = "model" -> id # None /\ home = None}
                  \cup found.notes,
        coverage |-> related.notes \cup physical.notes
                     \cup (IF model # None /\ world.late # {} THEN {"too long"} ELSE {})]
=============================================================================
