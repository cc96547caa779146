------------------------------ MODULE Dossiers ------------------------------
(***************************************************************************)
(* The evidence Power AI's agents and tools answer from: what is known of   *)
(* an object of the model, of a report, of the model and of a workspace,    *)
(* given a resolved context c of PowerAiContext.                            *)
(***************************************************************************)
EXTENDS PowerAiContext

CONSTANTS MaxVisuals, MaxListed

-----------------------------------------------------------------------------
(* _ModelIndex                                                              *)

\* members: what an object stands for, a table for all it holds.
Members(model, o) ==
    IF Len(o) = 1 THEN {p \in Items(ObjectsInOrder(model)) : p[1] = o[1]} ELSE {o}

\* The sources of the context, discovered here when it has none.
PhysicalOf(c) == IF c.physical = None THEN Discover(c.model, << >>) ELSE c.physical

\* Mutant: a level shows nothing of the model.
FieldKeyOfObjects(model, o) == IF o.type \in {"column", "measure"} THEN <<o.table, o.name>> ELSE None
\* field_key: the object a report's field shows; a level shows its column, a whole hierarchy none.
FieldKey(model, o) ==
    LET hierarchies == {h \in Items(TableOf(model, o.table).hierarchies) : h.name = o.hierarchy}
        levels == UNION {{l \in Items(h.levels) : l.name = o.name} : h \in hierarchies}
    IN CASE o.type \in {"column", "measure"} -> <<o.table, o.name>>
         [] o.type = "hierarchy_level" ->
              IF levels = {} THEN None ELSE LET l == CHOOSE l \in levels : TRUE
                                            IN <<o.table, Or(l.column, l.name)>>
         [] OTHER -> None

-----------------------------------------------------------------------------
(* Sections.                                                                *)

\* The source columns objects stand for: [table, column], no column for a whole table.
Reads(model, objects) ==
    {[table |-> o[1], column |-> IF Len(o) = 1 THEN None ELSE SourceColumn(ColumnOf(model, o))]
       : o \in {o \in objects : KindOf(model, o) \in {"table", "column"}}}

\* A line for each source of each table, with the columns read of the table; a table without
\* a source has a line that says so.
SourceLines(physical, reads, tables) ==
    LET columns(t) == {r.column : r \in {r \in reads : r.table = t}} \ {None}
        lines(t) == LET ids == {SourceId(s) : s \in SourcesOf(physical, t)}
                    IN {[table |-> t, source |-> id, columns |-> columns(t)] : id \in IF ids = {} THEN {None} ELSE ids}
    IN UNION {lines(t) : t \in tables}

\* _add_database_lineage
DatabaseLineage(c, o, upstream) ==
    LET own == IF Len(o) = 1 THEN Members(c.model, o) ELSE {o}
        reads == Reads(c.model, own \cup DOMAIN upstream)
    IN SourceLines(PhysicalOf(c), reads, {r.table : r \in reads})

\* _reports_in_scope: the report in view, then the model's others.
ReportsInScope(c) ==
    FirstBy((IF c.report = None THEN << >> ELSE <<[id |-> c.reportId, definition |-> c.report]>>) \o c.related,
            LAMBDA r : r.id)

\* _add_visual_impact: the visuals that show what is impacted, whether the object itself.
VisualImpact(c, own, impacted) ==
    LET scope == ReportsInScope(c)
        shown(r) == {m \in MatchReport(r.definition, c.model) : m.match.object # None}
        key(m) == FieldKey(c.model, m.match.object)
        at(i) == {[report |-> i, page |-> m.page, visual |-> m.visual] : m \in {m \in shown(scope[i]) : key(m) \in impacted}}
        direct(v) == \E m \in shown(scope[v.report]) : m.page = v.page /\ m.visual = v.visual /\ key(m) \in own
    IN {[v EXCEPT !.report = scope[@].id] @@ [direct |-> direct(v), rank |-> <<v.report, v.page, v.visual>>]
          : v \in UNION {at(i) : i \in DOMAIN scope}}

\* The first of them in the order they are listed in.
FirstListed(visuals) ==
    LET before(a, b) == \/ a[1] < b[1]
                        \/ a[1] = b[1] /\ (a[2] < b[2] \/ (a[2] = b[2] /\ a[3] < b[3]))
    IN {v \in visuals : Cardinality({w \in visuals : before(w.rank, v.rank)}) < MaxVisuals}

-----------------------------------------------------------------------------
(* object_dossier                                                           *)

\* _add_downstream and _add_table_impact: what is impacted, by table.
ImpactedTables(downstream) ==
    [t \in {o[1] : o \in DOMAIN downstream} |-> {o \in DOMAIN downstream : o[1] = t}]

ObjectDossier(c) ==
    LET members == Members(c.model, c.object)
        edges == Analyze(c.model).edges
        upstream == Walk(edges, members, TRUE)
        downstream == Walk(edges, members, FALSE)
        visuals == VisualImpact(c, members, members \cup DOMAIN downstream)
        reports == ReportsInScope(c)
    IN IF c.object = None \/ c.model = None THEN None
       ELSE [upstream |-> upstream, downstream |-> downstream,
             sources |-> DatabaseLineage(c, c.object, upstream),
             tables |-> ImpactedTables(downstream),
             checked |-> {r.id : r \in Items(reports)},
             affected |-> Cardinality(visuals), visuals |-> FirstListed(visuals),
             notes |-> c.coverage \cup (IF reports = << >> THEN {"no report to check"} ELSE {})
                       \cup (IF Cardinality(visuals) > MaxVisuals THEN {"first visuals only"} ELSE {})]

-----------------------------------------------------------------------------
(* report_dossier                                                           *)

\* _add_report_fields. The tables of calculated columns are listed with those that are read.
ReportFields(c) ==
    LET matches == MatchReport(c.report, c.model)
        known == {m \in matches : m.match.object # None}
        key(m) == FieldKey(c.model, m.match.object)
        used == {key(m) : m \in known} \ {None}
        behind == used \cup DOMAIN Walk(Analyze(c.model).edges, used, TRUE)
        tables == {o[1] : o \in {o \in behind : KindOf(c.model, o) # "measure"}}
        lost == {m.ref : m \in matches \ known}
    IN [fields |-> [o \in used |-> {<<m.page, m.visual>> : m \in {m \in known : key(m) = o}}],
        sources |-> SourceLines(PhysicalOf(c), Reads(c.model, behind), tables),
        calculations |-> {r \in lost : r.type = "visual_calculation"},
        unmatched |-> {r \in lost : r.type # "visual_calculation"}, notes |-> c.coverage]

\* _add_raw_fields
RawFields(c) ==
    LET of(p) == UNION {{<<r.type, r.table, r.name, p.name, v.id>> : r \in {r \in v.references : r.name # None}}
                          : v \in Items(p.visuals)}
    IN [raw |-> UNION {of(p) : p \in Items(c.report.pages)}, notes |-> c.coverage \cup {"model not read"}]

ReportDossier(c) ==
    IF c.report = None THEN None ELSE IF c.model = None THEN RawFields(c) ELSE ReportFields(c)

-----------------------------------------------------------------------------
(* model_dossier: its tables and their sources, its relationships between   *)
(* tables, the code of its first measures, its sources and the tables they  *)
(* feed, and the reports on it.                                             *)

ModelDossier(c) ==
    LET measures == SelectSeq(ObjectsInOrder(c.model), LAMBDA o : KindOf(c.model, o) = "measure")
        physical == PhysicalOf(c)
        fed(s) == {m.table : m \in {m \in Items(physical.mappings) : SourceId(s) \in Items(m.ids)}}
        origin(t) == IF t.expression # None THEN "calculated"
                     ELSE IF SourcesOf(physical, t.name) # {} THEN "loaded" ELSE "not identified"
    IN IF c.model = None THEN None
       ELSE [tables |-> [n \in TableNames(c.model) |-> origin(TableOf(c.model, n))],
             relationships |-> {r \in Items(c.model.relationships) : r.from # None /\ r.to # None},
             measures |-> {o \in Items(SubSeq(measures, 1, Least(MaxListed, Len(measures)))) :
                             o \in DOMAIN Expressions(c.model)},
             sources |-> {<<SourceId(s), fed(s)>> : s \in Items(physical.sources)},
             reports |-> {r.id : r \in Items(ReportsInScope(c))},
             notes |-> c.coverage \cup (IF Len(measures) > MaxListed THEN {"first measures only"} ELSE {})]

-----------------------------------------------------------------------------
(* workspace_dossier: a report's model is one of the workspace's, another's *)
(* or none, a model's users are the workspace's reports; what could not be  *)
(* listed counts as empty, and only the first of each, by name, are listed. *)

WorkspaceDossier(c) ==
    LET reports == IF c.inventory.reports = None THEN << >> ELSE c.inventory.reports
        models == IF c.inventory.models = None THEN << >> ELSE c.inventory.models
        first(s) == Items(SubSeq(s, 1, Least(MaxListed, Len(s))))
        uses(r) == IF r.model = None \/ r.model \in Items(models) THEN r.model ELSE "elsewhere"
    IN IF c.inventory = None THEN None
       ELSE [reports |-> {<<r.id, uses(r)>> : r \in first(reports)},
             models |-> {<<m, {r.id : r \in {r \in Items(reports) : r.model = m}}>> : m \in first(models)},
             notes |-> c.inventory.notes \cup (IF Len(reports) > MaxListed THEN {"first reports only"} ELSE {})
                       \cup (IF Len(models) > MaxListed THEN {"first models only"} ELSE {})]
=============================================================================
