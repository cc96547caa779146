--------------------------- MODULE VisualSources ---------------------------
(***************************************************************************)
(* The database columns and tables behind each field of a report's visuals. *)
(*                                                                         *)
(* lineage is [model, dax, cycles, physical, upstream]: the report's model, *)
(* its dependencies, its sources once composite links were followed (a      *)
(* followed source's via is the [model, table] that led to it), and each    *)
(* upstream model, None when it could not be read.  A field parameter's table is one    *)
(* whose expression holds a "nameof" token.                                 *)
(***************************************************************************)
EXTENDS ReportDefinitions, PhysicalSources

Evidence == [columns |-> {}, tables |-> {}, via |-> {}, gap |-> FALSE, cycle |-> FALSE,
             blocked |-> FALSE]
Gap == [Evidence EXCEPT !.gap = TRUE]
Blocked == [Evidence EXCEPT !.blocked = TRUE]
Merge(evidence) ==
    [columns |-> UNION {e.columns : e \in evidence}, tables |-> UNION {e.tables : e \in evidence},
     via |-> UNION {e.via : e \in evidence}, gap |-> \E e \in evidence : e.gap,
     cycle |-> \E e \in evidence : e.cycle, blocked |-> \E e \in evidence : e.blocked]
Status(e) ==
    CASE e.blocked -> "unresolved"
      [] ~e.blocked /\ e.cycle -> "partial"
      [] ~e.blocked /\ ~e.cycle /\ e.columns \cup e.tables # {} -> IF e.gap THEN "partial" ELSE "resolved"
      [] OTHER -> "unresolved"

TableOf(model, name) == CHOOSE t \in Items(model.tables) : t.name = name
ColumnOf(model, o) == CHOOSE c \in Items(TableOf(model, o[1]).columns) : c.name = o[2]
FieldParameter(t) == \E i \in DOMAIN t.expression : t.expression[i].kind = "nameof"

(***************************************************************************)
(* _upstream_column_name: the column of the upstream table that a composite *)
(* column stands for, by its tag, its source column, its name; and whether  *)
(* that says less than the whole.                                           *)
(***************************************************************************)
UpstreamColumn(upstream, via, column) ==
    LET tables == IF upstream[via.model] = None THEN {}
                  ELSE {t \in Items(upstream[via.model].tables) : t.name = via.table}
        table == CHOOSE t \in tables : TRUE
        by(F(_)) == SelectSeq(table.columns, F)
        tagged == by(LAMBDA c : column.sourceTag # None /\ c.tag = column.sourceTag)
        sourced == by(LAMBDA c : c.name = column.sourceColumn)
        named == by(LAMBDA c : c.name = column.name)
        candidates == tagged \o sourced \o named
        link == \E p \in Items(table.partitions) : p.source # None \/ p.type = "entity"
    IN IF tables = {} \/ candidates = << >> \/ candidates[1].expression # None
       THEN [name |-> None, gap |-> TRUE]
       ELSE [name |-> SourceColumn(candidates[1]), gap |-> link]

Readable(s) == s.kind = "database" /\ s.object # None
\* _add_physical; column is None when the table is read as a whole.
Physical(sources, column) ==
    [Evidence EXCEPT !.tables = {s.object : s \in sources},
                     !.columns = IF column = None THEN {}
                                 ELSE {r.column : r \in PhysicalColumns(column, sources)}]

\* What follows one composite link to a table.
ViaEvidence(l, via, group, column) ==
    LET databases == {s \in group : Readable(s)}
        upstream == IF column = None THEN [name |-> None, gap |-> FALSE]
                    ELSE UpstreamColumn(l.upstream, via, column)
    IN [(IF databases = {} THEN Gap
         ELSE [Physical(databases, upstream.name) EXCEPT !.gap = upstream.gap])
        EXCEPT !.via = {via.model}]

\* source_evidence
SourceEvidence(l, table, column) ==
    LET sources == SourcesOf(l.physical, table)
        hops == {s \in sources : s.provider = "analysis_services"}
        followed == {s \in sources \ hops : s.via # None}
        direct == {s \in sources \ (hops \cup followed) : Readable(s)}
        name == IF column = None THEN None ELSE SourceColumn(column)
    IN Merge({IF sources \ (direct \cup followed) # {} \/ sources = {} THEN Gap ELSE Evidence,
              Physical(direct, name)}
             \cup {ViaEvidence(l, v, {s \in followed : s.via = v}, column) : v \in {s.via : s \in followed}})

RECURSIVE Closure(_, _)
Closure(edges, known) ==
    LET more == UNION {Predecessors(edges, o) : o \in known} \ known
    IN IF more = {} THEN known ELSE Closure(edges, known \cup more)

(***************************************************************************)
(* dax_evidence: everything the base objects under an object read.  visiting*)
(* are the objects whose evidence is being gathered.                        *)
(***************************************************************************)
Calculated(e) == [e EXCEPT !.gap = @ \/ e.columns \cup e.tables # {}]

RECURSIVE DaxEvidence(_, _, _)
DaxEvidence(l, o, visiting) ==
    LET closure == Closure(l.dax.edges, {o})
        calculated(t) == t.expression # None
        \* _calculated_table_column_evidence
        ofCalculated(t) ==
          IF FieldParameter(t) THEN Blocked
          ELSE Calculated(DaxEvidence(l, <<t.name>>, visiting \cup {o}))
        \* _terminal_evidence
        terminal(d) ==
          IF Len(d) = 1
          THEN IF calculated(TableOf(l.model, d[1])) THEN Evidence ELSE SourceEvidence(l, d[1], None)
          ELSE IF d \notin Columns(l.model) THEN Gap
          ELSE LET c == ColumnOf(l.model, d)
                   t == TableOf(l.model, d[1])
               IN IF c.expression # None THEN Evidence
                  ELSE IF calculated(t) THEN ofCalculated(t)
                  ELSE SourceEvidence(l, d[1], c)
        own == [Evidence EXCEPT !.cycle = \E c \in l.cycles : c \cap closure # {},
                                !.gap = \E w \in l.dax.warnings : w[1] \in closure]
    IN IF o \in visiting THEN Evidence
       ELSE Merge({own} \cup {terminal(e[1]) : e \in TerminalDependencies(l.dax.edges, o)})

\* column_evidence and _column_field_evidence, of a column of a table.
ColumnEvidence(l, table, name) ==
    IF <<table, name>> \notin Columns(l.model) THEN Blocked
    ELSE LET t == TableOf(l.model, table)
             c == ColumnOf(l.model, <<table, name>>)
         IN IF c.expression # None THEN DaxEvidence(l, <<table, name>>, {})
            ELSE IF t.expression = None THEN SourceEvidence(l, table, c)
            ELSE IF FieldParameter(t) THEN Blocked
            ELSE Calculated(DaxEvidence(l, <<table>>, {}))

\* _row: the evidence of a field; a hierarchy is read through the columns of its levels.
RowEvidence(l, match) ==
    LET o == match.object
        levels == UNION {{v \in Items(h.levels) : o.type = "hierarchy" \/ v.name = o.name}
                           : h \in {h \in Items(TableOf(l.model, o.table).hierarchies) : h.name = o.hierarchy}}
    IN CASE o = None -> Blocked
         [] o # None /\ o.type = "measure" -> DaxEvidence(l, <<o.table, o.name>>, {})
         [] o # None /\ o.type = "column" -> ColumnEvidence(l, o.table, o.name)
         [] OTHER -> IF levels = {} THEN Blocked
                     ELSE Merge({ColumnEvidence(l, o.table, v.column) : v \in levels})

RowOf(m, e) ==
    [page |-> m.page, visual |-> m.visual, ref |-> m.ref, columns |-> e.columns, tables |-> e.tables,
     via |-> e.via, status |-> Status(e)]
Row(l, m) == RowOf(m, RowEvidence(l, m.match))

-----------------------------------------------------------------------------
(* CrossWorkspaceSourceResolver.resolve, one link deep.                     *)

\* _match_table: by the tag, then by the entity's name, then by the table's own.
MatchTable(upstream, table, entity) ==
    LET by(F(_)) == SelectSeq(upstream.tables, F)
    IN by(LAMBDA t : table.sourceTag # None /\ t.tag = table.sourceTag)
       \o by(LAMBDA t : t.name = entity) \o by(LAMBDA t : t.name = table.name)

Through(source, table, behind) ==
    IF behind = {} THEN <<source>>
    ELSE SetToSeq({[s EXCEPT !.via = [model |-> source.database, table |-> table]] : s \in behind})

\* _resolve_source: the upstream table's sources, or the link itself.
ResolveSource(source, table, upstream) ==
    LET model == IF source.database \in DOMAIN upstream THEN upstream[source.database] ELSE None
        matched == IF model = None THEN << >> ELSE MatchTable(model, table, source.object)
    IN IF source.provider # "analysis_services" \/ matched = << >> THEN <<source>>
       ELSE Through(source, matched[1].name, SourcesOf(Discover(model, << >>), matched[1].name))

\* Partition by partition; a source two partitions reach keeps what the first said of it.
WithSources(physical, all) ==
    [physical EXCEPT !.sources = FirstBy(Concat(all), SourceId),
                     !.mappings = [i \in DOMAIN @ |-> [@[i] EXCEPT !.ids = Ids(all[i])]]]
Followed(model, physical, upstream) ==
    LET source(id) == CHOOSE s \in Items(physical.sources) : SourceId(s) = id
    IN IF \A s \in Items(physical.sources) : s.provider # "analysis_services" THEN physical
       ELSE WithSources(physical, [i \in DOMAIN physical.mappings |->
              Concat([j \in DOMAIN physical.mappings[i].ids |->
                ResolveSource(source(physical.mappings[i].ids[j]),
                              TableOf(model, physical.mappings[i].table), upstream)])])

-----------------------------------------------------------------------------
(***************************************************************************)
(* build.  world is what the providers answer: fabric (there is a Fabric    *)
(* token), report [model, workspace], definition (a Normalize or None),     *)
(* home (the report's workspace), listed [workspace -> models its listing   *)
(* shows, or None when it fails], workspaces (their sequence, or None),     *)
(* models [<<workspace, model>> -> definition or None], gateways [sources,  *)
(* failed], follow (whether the resolver answers), upstream, generated (the *)
(* auto-date tables).                                                       *)
(***************************************************************************)
ModelId(world) ==
    LET def == world.definition
    IN IF world.report.model # None THEN world.report.model
       ELSE IF world.fabric /\ def # None /\ def.model # None THEN def.model.id ELSE None

Lists(world, workspace, model) ==
    workspace \in DOMAIN world.listed /\ world.listed[workspace] # None /\ model \in world.listed[workspace]

\* _locate_model and _search_model_workspace: [workspace, found].
LocateModel(world, model) ==
    LET assumed == Or(world.report.workspace, world.home)
        others == IF world.workspaces = None THEN << >>
                  ELSE SelectSeq(world.workspaces, LAMBDA w : w # assumed /\ Lists(world, w, model))
    IN IF Lists(world, assumed, model) \/ world.report.workspace # None
       THEN [workspace |-> assumed, found |-> TRUE]
       ELSE IF others # << >> THEN [workspace |-> others[1], found |-> TRUE]
       ELSE [workspace |-> assumed, found |-> FALSE]

LinksFollowed(world, model, physical) ==
    IF world.follow THEN Followed(model, physical, world.upstream) ELSE physical

\* _model_lineage
ModelLineage(world, model) ==
    LET kept == ExcludeAutoDateTables(model, world.generated)
        dax == Analyze(kept)
    IN [model |-> kept, dax |-> dax, cycles |-> FindCycles(dax),
        physical |-> LinksFollowed(world, kept, Discover(kept, world.gateways.sources)),
        upstream |-> world.upstream]

\* _rows_without_model
RowsWithoutModel(report) ==
    UNION {UNION {{[page |-> p.name, visual |-> v.id, ref |-> r, columns |-> {}, tables |-> {}, via |-> {},
                    status |-> "unresolved"] : r \in v.references} : v \in Items(p.visuals)}
             : p \in Items(report.pages)}

Rows(def, lineage) == {Row(lineage, m) : m \in MatchReport(def, lineage.model)}

Build(world) ==
    LET def == IF world.fabric THEN world.definition ELSE None
        id == ModelId(world)
        place == LocateModel(world, id)
        model == IF id = None \/ ~world.fabric THEN None ELSE world.models[place.workspace, id]
    IN [rows |-> CASE def = None -> {}
                   [] def # None /\ model = None -> RowsWithoutModel(def)
                   [] OTHER -> Rows(def, ModelLineage(world, model)),
        warnings |-> {w \in {"FABRIC_SESSION_REQUIRED", "REPORT_DEFINITION_UNAVAILABLE",
                             "SEMANTIC_MODEL_NOT_RESOLVED", "SEMANTIC_MODEL_WORKSPACE_UNRESOLVED",
                             "SEMANTIC_MODEL_DEFINITION_UNAVAILABLE", "CROSS_WORKSPACE_RESOLUTION_FAILED",
                             "GATEWAY"} :
            CASE w = "FABRIC_SESSION_REQUIRED" -> ~world.fabric
              [] w = "REPORT_DEFINITION_UNAVAILABLE" -> world.fabric /\ def = None
              [] w = "SEMANTIC_MODEL_NOT_RESOLVED" -> id = None
              [] w = "SEMANTIC_MODEL_WORKSPACE_UNRESOLVED" -> id # None /\ ~place.found
              [] w = "SEMANTIC_MODEL_DEFINITION_UNAVAILABLE" -> world.fabric /\ id # None /\ model = None
              [] w = "CROSS_WORKSPACE_RESOLUTION_FAILED" -> model # None /\ ~world.follow
              [] w = "GATEWAY" -> world.fabric /\ id # None /\ world.gateways.failed}]
=============================================================================
