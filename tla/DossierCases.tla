---------------------------- MODULE DossierCases ----------------------------
(***************************************************************************)
(* The questions Power AI's dossiers are asked: an object of each of        *)
(* GraphCases' kinds of model by each way to name it, and one model under   *)
(* the providers' answers that decide what is resolved and what is checked. *)
(***************************************************************************)
EXTENDS GraphCases, Dossiers

Ask == [workspace |-> "home", report |-> "r", model |-> None, modelHome |-> None, type |-> None,
        query |-> [table |-> "S", name |-> "A", like |-> {}], inventory |-> TRUE]
Listed(id, model) == [id |-> id, model |-> model]
MeasureReport ==
    [Report EXCEPT !.pages = <<[name |-> 1, order |-> 1, active |-> TRUE,
                                visuals |-> <<Shown(1, {Used("measure", "S", "M")})>>]>>]

AskedWorld(model) ==
    [powerbi |-> TRUE, fabric |-> TRUE, open |-> {"home", "ws2"}, workspaces |-> <<"home", "ws2">>,
     report |-> [model |-> "m", home |-> None],
     definitions |-> [id \in {"r", "r2", "r3", "r4"} |-> IF id = "r3" THEN MeasureReport ELSE PairReport],
     models |-> [k \in {"home", "ws2"} \X {"m"} |-> IF k[1] = "home" THEN model ELSE None],
     reportLists |-> [w \in {"home", "ws2"} |->
                        IF w = "home" THEN <<Listed("r", "m"), Listed("r4", "other")>>
                        ELSE <<Listed("r2", "m"), Listed("r3", "m")>>],
     modelLists |-> [w \in {"home", "ws2"} |-> IF w = "home" THEN <<"m", "spare">> ELSE << >>],
     follow |-> TRUE, upstream |-> [m \in {"up", "gone"} |-> IF m = "up" THEN Upstream ELSE None],
     generated |-> {}, late |-> {}]

Queries ==
    {[table |-> t, name |-> n, like |-> {}] : t \in {None, "S"}, n \in {"A", "K", "M", "N", "gone"}}
    \cup {[table |-> None, name |-> n, like |-> {}] : n \in {"Q", "S", "C", "X"}}
    \cup {[table |-> None, name |-> "part", like |-> l] : l \in {{"X"}, {"S"}, {"M", "N"}}}
DossierModels ==
    {Model0(Navigate("t"), q, m, c, None) : q \in {Navigate("q"), Link("up", "V")}, m \in MeasureCodes,
                                            c \in {<<Ref("Q", "A")>>, <<Ref("S", "M")>>}}
\* What decides which workspace, report and model are in view.
Resolutions ==
    {[AskedWorld(SomeModel) EXCEPT !.powerbi = s[1], !.fabric = s[2], !.open = s[3], !.workspaces = ws, !.report = r,
        !.definitions = [@ EXCEPT !["r"] = d], !.modelLists = [@ EXCEPT !["ws2"] = l],
        !.models = [k \in {"home", "ws2"} \X {"m"} |-> IF k[1] \in has THEN SomeModel ELSE None]] :
        s \in {<<TRUE, TRUE, {"home", "ws2"}>>, <<TRUE, TRUE, {}>>, <<TRUE, FALSE, {"home", "ws2"}>>,
               <<FALSE, TRUE, {"home", "ws2"}>>}, ws \in {<<"home", "ws2">>, None},
        r \in {None} \cup [model : {"m", None}, home : {None, "ws2"}], d \in {PairReport, None},
        l \in {<<"m">>, None}, has \in {{"home"}, {"ws2"}, {}}}
\* What decides which reports are checked.
Enrichments ==
    {[AskedWorld(SomeModel) EXCEPT !.workspaces = ws, !.follow = fo, !.late = la,
        !.definitions = [@ EXCEPT !["r2"] = d, !["r3"] = e],
        !.reportLists = [home |-> h, ws2 |-> w]] :
        ws \in {<<"home", "ws2">>, None}, fo \in BOOLEAN, la \in SUBSET {"sources", "reports"} \cup {{"discovery", "sources"}},
        d \in {PairReport, None}, e \in {MeasureReport, None},
        h \in {<<Listed("r", "m"), Listed("r4", "other")>>, <<Listed("r4", "m"), Listed("r", None)>>, None},
        w \in {<<Listed("r2", "m"), Listed("r3", "m")>>, None}}

DossierQuestions ==
    {[world |-> AskedWorld(m), ask |-> [Ask EXCEPT !.query = q, !.type = t]] :
        m \in DossierModels, q \in Queries, t \in {None, "column"}}
    \cup {[world |-> [AskedWorld(SomeModel) EXCEPT !.modelLists["home"] = l], ask |-> Ask] :
            l \in {<< >>, <<"spare">>, <<"spare", "other", "m">>, None}}
    \cup {[world |-> w, ask |-> [Ask EXCEPT !.model = m]] : w \in Resolutions, m \in {None, "m"}}
    \cup {[world |-> w, ask |-> [Ask EXCEPT !.type = t]] : w \in Enrichments, t \in {None, "report"}}

AllDossiers(c) ==
    [context |-> c, object |-> ObjectDossier(c), report |-> ReportDossier(c), model |-> ModelDossier(c),
     workspace |-> WorkspaceDossier(c)]
DossierVerdict(q) == AllDossiers(ResolveContext(q.world, q.ask))

-----------------------------------------------------------------------------
(* The truth.                                                               *)

\* What objects are made of by their expressions alone.
ByCode(model) == {m \in Made(model) : m[1] \in DOMAIN Expressions(model)}
\* The object a reference of these reports shows, if any.
ShownBy(model, ref) ==
    LET o == IF ref.type = "hierarchy_level" THEN <<"S", "A">> ELSE <<ref.table, ref.name>>
    IN IF ref.type \in {"column", "measure", "hierarchy_level"} THEN {o} \cap ObjectsOf(model) ELSE {}
VisualsOf(report) == UNION {{<<p.name, v>> : v \in Items(p.visuals)} : p \in Items(report.pages)}
ObjectsUnder(model, v) == UNION {ShownBy(model, r) : r \in v[2].references}
Holdings(model, o) == IF Len(o) = 1 THEN {p \in ObjectsOf(model) : p[1] = o[1]} ELSE {o}

\* The visuals whose fields are an object, or are made of it by their expressions.
VisualsMadeOf(q, c) ==
    LET code == ByCode(c.model)
        own == Holdings(c.model, c.object)
        direct(v) == ObjectsUnder(c.model, v) \cap own # {}
        affected(v) == AllOf(code, ObjectsUnder(c.model, v)) \cap own # {}
        of(id) == {<<id, v[1], v[2].id, direct(v)>> : v \in {v \in VisualsOf(q.world.definitions[id]) : affected(v)}}
    IN [id \in {id \in DOMAIN q.world.definitions : q.world.definitions[id] # None} |-> of(id)]

\* The base columns of the database under some objects.
BaseUnder(model, objects) ==
    {o \in AllOf(ByCode(model), objects) : Len(o) = 2 /\ o \notin Measures(model) /\ o \notin DOMAIN Expressions(model)}
ColumnsOfLines(lines) == UNION {{<<l.table, n>> : n \in l.columns} : l \in lines}
SourceNames(model, columns) == {<<o[1], SourceColumn(ColumnOf(model, o))>> : o \in columns}

\* Every report of the model that a listing shows is checked, or a note says why one is not;
\* and no report of another model is.
ReportsAreChecked(q, c, d) ==
    LET listed(w) == IF q.world.reportLists[w] = None THEN {} ELSE Items(q.world.reportLists[w])
        bound == UNION {{r.id : r \in {r \in listed(w) : r.model = "m"}} : w \in {"home", "ws2"}}
        unsaid == d.notes \cap {"workspaces not listed", "first reports only", "unreadable reports", "too long"} = {}
    IN /\ q.ask.type # "report" /\ unsaid => \A id \in bound : id \in d.checked \/ (id = "r" /\ c.notes # {})
       /\ d.checked \subseteq bound \cup {"r"}

\* What a workspace's dossier says holds, or it says what could not be listed.
ClaimsHold(q, c, d) ==
    LET reports == q.world.reportLists[c.workspace]
        models == q.world.modelLists[c.workspace]
    IN /\ d.notes \cap {"reports not listed", "models not listed"} = {} =>
            /\ \A u \in d.reports : u[2] = "elsewhere" =>
                 \E r \in Items(reports) : r.id = u[1] /\ r.model \notin Items(models)
            /\ \A u \in d.models : \A r \in Items(reports) : r.model = u[1] => r.id \in u[2]
       /\ reports # None => {u[1] : u \in d.reports} = {r.id : r \in Items(reports)} \/ d.notes # {}
       /\ models # None => {u[1] : u \in d.models} = Items(models) \/ d.notes # {}

(***************************************************************************)
(* The object found is of the name asked for, the only one of its kind, and *)
(* one that is named with its table is found.  The visuals a dossier lists, *)
(* or counts, as affected are those of the checked reports that show the    *)
(* object or what the expressions that read it make of it; the reports of   *)
(* the model are checked or their absence is said; the source columns named *)
(* are the base columns under the object, or under the report's fields;     *)
(* each field of the report is accounted for; and what is said of a         *)
(* workspace is so.                                                         *)
(***************************************************************************)
DossiersAreTrue(q, v) ==
    LET c == v.context
        query == q.ask.query
        o == v.object
        r == v.report
        truth == VisualsMadeOf(q, c)
        impacted == UNION {truth[id] : id \in o.checked}
        known == UNION {ObjectsUnder(c.model, w) : w \in VisualsOf(c.report)}
        references == UNION {w[2].references : w \in VisualsOf(c.report)}
        namesakes == {p \in ObjectsOf(c.model) : Last(p) = query.name /\ KindOf(c.model, p) = KindOf(c.model, c.object)}
    IN /\ c.object # None => \/ Last(c.object) \in query.like \/ c.object[1] \in query.like
                             \/ Last(c.object) = query.name /\ (query.table = None => namesakes = {c.object})
       /\ c.model # None /\ <<query.table, query.name>> \in ObjectsOf(c.model) /\ q.ask.type # "report" =>
            c.object = <<query.table, query.name>>
       /\ c.model # None => c.model \in {q.world.models[k] : k \in DOMAIN q.world.models} /\ c.workspace # None
       /\ o # None =>
            /\ o.affected = Cardinality(impacted)
            /\ {<<w.report, w.page, w.visual, w.direct>> : w \in o.visuals} \subseteq impacted
            /\ o.affected = Cardinality(o.visuals) \/ "first visuals only" \in o.notes
            /\ ReportsAreChecked(q, c, o)
            /\ ColumnsOfLines(o.sources) =
                 SourceNames(c.model, BaseUnder(c.model, Holdings(c.model, c.object)))
            /\ \A l \in o.sources : l.source = None <=> SourcesOf(PhysicalOf(c), l.table) = {}
       /\ r # None /\ c.model # None =>
            /\ DOMAIN r.fields = known
            /\ \A k \in known : r.fields[k] = {<<w[1], w[2].id>> : w \in {w \in VisualsOf(c.report) : k \in ObjectsUnder(c.model, w)}}
            /\ references = {f \in references : f.type = "hierarchy" \/ ShownBy(c.model, f) # {}}
                            \cup r.unmatched \cup r.calculations
            /\ ColumnsOfLines(r.sources) = SourceNames(c.model, BaseUnder(c.model, known))
       /\ c.report # None /\ c.model = None => {u[3] : u \in r.raw} = {f.name : f \in references}
       /\ v.workspace # None => ClaimsHold(q, c, v.workspace)
=============================================================================
