---------------------------- MODULE LineageGraph ----------------------------
(***************************************************************************)
(* The lineage graph of a semantic model: what it is built from, and what   *)
(* is asked of it.  A node is [id, type, says], an edge                     *)
(* [from, to, type, lineage, says]; says stands for the properties two      *)
(* versions of a graph are compared by.  Only lineage edges carry data.     *)
(***************************************************************************)
EXTENDS ReportDefinitions, PhysicalSources

Node(id, type, says) == [id |-> id, type |-> type, says |-> says]
Edge(from, to, type, lineage) ==
    [from |-> from, to |-> to, type |-> type, lineage |-> lineage, says |-> None]
Holds(from, to) == Edge(from, to, "contains", FALSE)
Carries(from, to, type) == Edge(from, to, type, TRUE)
NodeIds(nodes) == {n.id : n \in nodes}

-----------------------------------------------------------------------------
(***************************************************************************)
(* normalize_rows: Snowflake's dependency rows [from, to, type, valid],     *)
(* from and to [name, domain]; a repeated row counts once.                  *)
(***************************************************************************)
NormalizeRows(rows) ==
    LET valid == SelectSeq(rows, LAMBDA r : r.valid)
    IN [objects |-> FirstBy(Concat([i \in DOMAIN valid |-> <<valid[i].from, valid[i].to>>]), LAMBDA o : o),
        dependencies |-> {[from |-> r.from, to |-> r.to, type |-> r.type] : r \in Items(valid)},
        invalid |-> {i \in DOMAIN rows : ~rows[i].valid}]

-----------------------------------------------------------------------------
(* LineageGraphService.build.                                               *)

TableId(t) == <<"table", t>>
ColumnId(t, c) == <<"column", t, c>>
MeasureId(t, m) == <<"measure", t, m>>
HierarchyId(t, h) == <<"hierarchy", t, h>>
LevelId(t, h, l) == <<"level", t, h, l>>
\* _dax_object_id
DaxId(model, o) == IF Len(o) = 1 THEN TableId(o[1])
                   ELSE IF o \in Measures(model) THEN MeasureId(o[1], o[2]) ELSE ColumnId(o[1], o[2])
\* _lineage_object_id
FieldId(o) == CASE o.type = "measure" -> MeasureId(o.table, o.name)
                [] o.type = "column" -> ColumnId(o.table, o.name)
                [] o.type = "hierarchy" -> HierarchyId(o.table, o.name)
                [] o.type = "hierarchy_level" -> LevelId(o.table, o.hierarchy, o.name)

TableNodes(t) ==
    {Node(TableId(t.name), "semantic_table", t.expression # None)}
    \cup {Node(ColumnId(t.name, c.name), "semantic_column", c.sourceColumn) : c \in Items(t.columns)}
    \cup {Node(MeasureId(t.name, m.name), "semantic_measure", None) : m \in Items(t.measures)}
    \cup UNION {{Node(HierarchyId(t.name, h.name), "semantic_hierarchy", None)}
                \cup {Node(LevelId(t.name, h.name, l.name), "semantic_hierarchy_level", l.column)
                        : l \in Items(h.levels)} : h \in Items(t.hierarchies)}

\* Mutant: a table provides data to its calculated columns too.
TableEdgesToAll(t) ==
    LET own == TableId(t.name)
    IN {Holds(<<"model">>, own)}
       \cup {Holds(own, ColumnId(t.name, c.name)) : c \in Items(t.columns)}
       \cup {Carries(own, ColumnId(t.name, c.name), "provides_data_to") : c \in Items(t.columns)}
       \cup {Holds(own, MeasureId(t.name, m.name)) : m \in Items(t.measures)}
       \cup UNION {{Holds(own, HierarchyId(t.name, h.name))}
                   \cup {Holds(HierarchyId(t.name, h.name), LevelId(t.name, h.name, l.name))
                           : l \in Items(h.levels)} : h \in Items(t.hierarchies)}
TableEdges(t) ==
    LET own == TableId(t.name)
    IN {Holds(<<"model">>, own)}
       \cup {Holds(own, ColumnId(t.name, c.name)) : c \in Items(t.columns)}
       \cup {Carries(own, ColumnId(t.name, c.name), "provides_data_to")
               : c \in {c \in Items(t.columns) : c.expression = None}}
       \cup {Holds(own, MeasureId(t.name, m.name)) : m \in Items(t.measures)}
       \cup UNION {{Holds(own, HierarchyId(t.name, h.name))}
                   \cup {Holds(HierarchyId(t.name, h.name), LevelId(t.name, h.name, l.name))
                           : l \in Items(h.levels)} : h \in Items(t.hierarchies)}

\* Of two relationships between the same columns the first says whether it is active.
RelationshipEdges(model) ==
    LET both == SelectSeq(model.relationships, LAMBDA r : r.from \in Columns(model) /\ r.to \in Columns(model))
        ends(r) == <<r.from, r.to>>
    IN {[Edge(ColumnId(r.from[1], r.from[2]), ColumnId(r.to[1], r.to[2]), "relates_to", FALSE)
           EXCEPT !.says = r.active] : r \in Items(FirstBy(both, ends))}

\* _add_dax_edges
DaxEdges(model, dax, ids) ==
    {Carries(DaxId(model, e[1]), DaxId(model, e[2]), "dax_dependency")
       : e \in {e \in dax.edges : {DaxId(model, e[1]), DaxId(model, e[2])} \subseteq ids}}

\* _add_physical_nodes
QueryId(m) == <<"query", m.table, m.partition>>
PhysicalNodes(physical) ==
    {Node(<<"source", SourceId(s)>>, "physical_source", s) : s \in Items(physical.sources)}
    \cup {Node(QueryId(m), "query", None) : m \in Items(physical.mappings)}
PhysicalEdges(model, physical) ==
    LET known == Items(Ids(physical.sources))
    IN UNION {{Carries(QueryId(m), TableId(t), "populates") : t \in {m.table} \cap TableNames(model)}
              \cup {Carries(<<"source", id>>, QueryId(m), "reads_from") : id \in Items(m.ids) \cap known}
                : m \in Items(physical.mappings)}

\* _add_report_nodes
VisualId(m) == <<"visual", m.page, m.visual>>
ReportNodes(matches) ==
    {Node(<<"report">>, "report", None)}
    \cup UNION {{Node(<<"page", m.page>>, "report_page", None), Node(VisualId(m), "visual", None)} : m \in matches}
ReportEdges(matches, ids) ==
    UNION {{Holds(<<"report">>, <<"page", m.page>>), Holds(<<"page", m.page>>, VisualId(m))} : m \in matches}
    \cup {Carries(FieldId(m.match.object), VisualId(m), "used_by_visual")
            : m \in {m \in matches : m.match.object # None /\ FieldId(m.match.object) \in ids}}

\* _add_snowflake_nodes: a source is linked to the last object of its name.
SnowflakeNodes(snapshot) == {Node(<<"snowflake", o>>, "snowflake_object", None) : o \in Items(snapshot.objects)}
SnowflakeEdges(snapshot, physical) ==
    LET named(s) == SelectSeq(snapshot.objects, LAMBDA o : o.name = <<s.database, s.schema, s.object>>)
        linked == {s \in Items(physical.sources) : s.provider = "snowflake" /\ named(s) # << >>}
    IN {Carries(<<"snowflake", d.from>>, <<"snowflake", d.to>>, "snowflake_dependency") : d \in snapshot.dependencies}
       \cup {Carries(<<"snowflake", Last(named(s))>>, <<"source", SourceId(s)>>, "maps_to_power_query_source")
               : s \in linked}

\* _validate_request_identity: the evidence is about the requested model.
Identified(request) ==
    \A e \in {request.dax, request.physical, request.report} : e = None \/ e.id = request.id

Built(request, model, dax, physical, matches) ==
    LET semantic == {Node(<<"model">>, "semantic_model", None)} \cup UNION {TableNodes(t) : t \in Items(model.tables)}
        ids == NodeIds(semantic)
    IN [nodes |-> semantic \cup PhysicalNodes(physical)
                  \cup (IF request.report = None THEN {} ELSE ReportNodes(matches))
                  \cup (IF request.snowflake = None THEN {} ELSE SnowflakeNodes(request.snowflake)),
        edges |-> UNION {TableEdges(t) : t \in Items(model.tables)} \cup RelationshipEdges(model)
                  \cup DaxEdges(model, dax, ids) \cup PhysicalEdges(model, physical)
                  \cup ReportEdges(matches, ids)
                  \cup (IF request.snowflake = None THEN {} ELSE SnowflakeEdges(request.snowflake, physical)),
        warnings |-> dax.warnings # {} \/ physical.undetected # {} \/ physical.unreadable # {}]
\* build: a request is [id, model, dax, physical, report, snowflake], what is None is found or
\* left out; None when the evidence is about another model.
BuildGraph(request) ==
    IF ~Identified(request) THEN None
    ELSE Built(request, request.model,
               IF request.dax = None THEN Analyze(request.model) ELSE request.dax,
               IF request.physical = None THEN Discover(request.model, << >>) ELSE request.physical,
               IF request.report = None THEN {} ELSE request.report.matches)
=============================================================================
