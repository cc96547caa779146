--------------------------- MODULE PhysicalSources ---------------------------
(***************************************************************************)
(* The physical sources behind a model's tables, read from the M code of    *)
(* their partitions and the SQL within it, and the physical columns behind  *)
(* the model's columns.                                                     *)
(*                                                                         *)
(* M code is [calls, steps, item]: the calls it makes, the [Name=, Kind=]   *)
(* navigation steps and the first [Schema=, Item=] one, or None.  A call is *)
(* [function, args]; an argument is [text, fields, calls]: its value when a *)
(* string literal, the record fields its text sets, and the calls in it.    *)
(* A query is [select, tables]: what it selects, and the names after FROM   *)
(* and JOIN.  A selected item is [expr, as, alias, plain, open]: its tokens,*)
(* how it is aliased, whether the alias is a plain name, whether the        *)
(* expression ends in a name.                                               *)
(***************************************************************************)
EXTENDS SemanticModels

Databases == {"sqlserver", "snowflake", "postgresql", "analysis_services"}
Connectors == Databases \cup {"web", "file", "azure_blob", "odbc"}

-----------------------------------------------------------------------------
(* sql_column_parser                                                        *)

Names(expr) == {expr[i].name : i \in {i \in DOMAIN expr : expr[i].kind = "name"}}

\* parse_select_columns: the output name of an item and the columns it reads. An alias
\* that is not plain is read as part of the expression, and a trailing name as an alias.
ParseColumnItem(item) ==
    LET whole == IF item.as = "none" THEN item.expr
                 ELSE item.expr \o <<[kind |-> "name", name |-> item.alias]>>
        trailing == item.as = "none" /\ item.open /\ Len(item.expr) > 1
        aliased == item.as # "none" /\ item.plain
        read == CASE aliased -> Names(item.expr)
                  [] trailing -> Names(Front(item.expr))
                  [] OTHER -> Names(whole)
        output == IF aliased THEN item.alias ELSE Last(whole).name
    IN [output |-> output, reads |-> IF read = {} THEN {output} ELSE read]

ParseSelectColumns(query) ==
    LET shown == SelectSeq(query.select, LAMBDA i : i.as # "star")
    IN [i \in DOMAIN shown |-> ParseColumnItem(shown[i])]

-----------------------------------------------------------------------------
(* PhysicalSourceDiscoveryService                                           *)

RECURSIVE FindCalls(_)
\* _find_function_calls: a call, then the calls within it.
FindCalls(calls) ==
    Concat([i \in DOMAIN calls |->
        <<calls[i]>> \o Concat([j \in DOMAIN calls[i].args |-> FindCalls(calls[i].args[j].calls)])])

StringArgument(call, n) == IF n > Len(call.args) THEN None ELSE call.args[n].text

\* _record_string: the first argument whose text sets the field, at any depth.
RECURSIVE RecordString(_, _)
RecordString(args, key) ==
    IF args = << >> THEN None
    ELSE LET arg == Head(args)
             nested == Concat([i \in DOMAIN arg.calls |-> arg.calls[i].args])
             here == IF key \in DOMAIN arg.fields THEN arg.fields[key] ELSE RecordString(nested, key)
         IN IF here # None THEN here ELSE RecordString(Tail(args), key)

\* Each once, the first of those that agree on F.
FirstBy(s, F(_)) ==
    FoldLeft(LAMBDA kept, x : IF \E i \in DOMAIN kept : F(kept[i]) = F(x) THEN kept ELSE Append(kept, x),
             << >>, s)
Present(s) == SelectSeq(s, LAMBDA x : x # None)

NativeQueries(code) ==
    LET calls == FindCalls(code.calls)
        queries(c) == (IF c.function = "Value.NativeQuery" THEN <<StringArgument(c, 2)>> ELSE << >>)
                      \o <<RecordString(c.args, "Query")>>
    IN FirstBy(Present(Concat([i \in DOMAIN calls |-> queries(calls[i])])), LAMBDA q : q)

Navigated(code, kind) ==
    LET named == SelectSeq(code.steps, LAMBDA s : s.kind = kind)
    IN IF named = << >> THEN None ELSE named[1].name

\* _navigation_target: the table or view the steps lead to, else the first item.
NavigationTarget(code) ==
    LET object == IF Navigated(code, "table") # None THEN Navigated(code, "table")
                  ELSE Navigated(code, "view")
    IN IF object # None THEN <<Navigated(code, "database"), Navigated(code, "schema"), object>>
       ELSE IF code.item # None THEN <<None, code.item[1], code.item[2]>>
       ELSE <<None, None, None>>

Source(provider) ==
    [provider |-> provider, kind |-> "database", server |-> None, database |-> None,
     schema |-> None, object |-> None, path |-> None, warehouse |-> None, query |-> None,
     gateway |-> None, via |-> None]

\* Mutant: the object is left out of the id too.
SourceIdOfEndpoint(s) == <<s.provider, s.server, s.database, s.path, s.warehouse>>
\* source_id: what two sources must share to be one. The query is not part of it, and a
\* gateway's datasource only when nothing else is known.
SourceId(s) ==
    <<s.provider, s.server, s.database, s.schema, s.object, s.path, s.warehouse,
      IF s.server = None /\ s.path = None THEN s.gateway ELSE None>>

FirstOf(a, b, c) == IF a # None THEN a ELSE IF b # None THEN b ELSE c

\* The sources of a database connector: an object for each name of each query, else the
\* one navigated to, else the partition's entity.
DatabaseSources(call, code, entity, schema) ==
    LET queries == NativeQueries(code)
        warehouse == RecordString(call.args, "Warehouse")
        second == StringArgument(call, 2)
        snowflake == call.function = "snowflake"
        database == IF snowflake THEN None ELSE second
        to(query, target) ==
          [Source(call.function) EXCEPT
             !.server = StringArgument(call, 1), !.query = query,
             !.database = FirstOf(target[1], database, Navigated(code, "database")),
             !.schema = FirstOf(target[2], schema, None),
             !.object = FirstOf(target[3], entity, None),
             !.warehouse = IF snowflake THEN FirstOf(warehouse, second, None) ELSE warehouse]
        of(query) == IF query = None \/ query.tables = << >> THEN <<to(query, NavigationTarget(code))>>
                     ELSE [i \in DOMAIN query.tables |-> to(query, query.tables[i])]
    IN IF queries = << >> THEN of(None) ELSE Concat([i \in DOMAIN queries |-> of(queries[i])])

OtherSource(call) ==
    LET first == StringArgument(call, 1)
    IN CASE call.function = "odbc" -> [Source("odbc") EXCEPT !.server = first]
         [] call.function # "odbc" -> [Source(call.function) EXCEPT !.kind = call.function, !.path = first]

\* _parse_expression
ParseExpression(code, entity, schema) ==
    LET calls == SelectSeq(FindCalls(code.calls), LAMBDA c : c.function \in Databases \cup Connectors)
    IN FirstBy(Concat([i \in DOMAIN calls |->
                  IF calls[i].function \in Databases THEN DatabaseSources(calls[i], code, entity, schema)
                  ELSE <<OtherSource(calls[i])>>]), SourceId)

NoCode == [calls |-> << >>, steps |-> << >>, item |-> None]

\* The code of a partition, or of the shared expression it names.
PartitionCode(model, p) ==
    LET shared == {e \in Items(model.expressions) : e.name = p.source}
    IN IF p.expression # None THEN p.expression
       ELSE IF p.source # None /\ shared # {} THEN (CHOOSE e \in shared : TRUE).expression
       ELSE NoCode

\* Gateway datasources whose details could be read, as sources of their own.
GatewaySources(datasources) ==
    LET readable == SelectSeq(datasources, LAMBDA d : d.details # None)
    IN [i \in DOMAIN readable |->
          [Source("gateway") EXCEPT !.kind = "gateway", !.gateway = readable[i].id,
             !.server = readable[i].details.server, !.database = readable[i].details.database]]

SameEndpoint(s, t) ==
    LET pairs == {<<s.server, t.server>>, <<s.database, t.database>>, <<s.path, t.path>>}
        comparable == {p \in pairs : p[1] # None /\ p[2] # None}
    IN comparable # {} /\ \A p \in comparable : p[1] = p[2]

\* _attach_gateway_sources
Attached(s, gateways) ==
    LET same == SelectSeq(gateways, LAMBDA g : SameEndpoint(s, g))
    IN IF same = << >> THEN s ELSE [s EXCEPT !.gateway = same[1].gateway]

Ids(sources) == [i \in DOMAIN sources |-> SourceId(sources[i])]

\* The sources of each partition that is read.
PartitionSources(model) ==
    LET read(t) == SelectSeq(t.partitions, LAMBDA p : p.type # "calculated")
        parts == Concat([i \in DOMAIN model.tables |->
                    [j \in DOMAIN read(model.tables[i]) |->
                       [table |-> model.tables[i].name, part |-> read(model.tables[i])[j]]]])
    IN [i \in DOMAIN parts |->
          [table |-> parts[i].table, partition |-> parts[i].part.name,
           sources |-> ParseExpression(PartitionCode(model, parts[i].part),
                                       parts[i].part.entity, parts[i].part.schema)]]

(***************************************************************************)
(* discover: the model's sources, each once whatever tables share it; the   *)
(* ids behind each partition of each table; the partitions without any.     *)
(***************************************************************************)
Discovered(model, partitions, datasources) ==
    LET gateways == GatewaySources(datasources)
        bare == SelectSeq(model.tables, LAMBDA t : t.partitions = << >> /\ t.expression = None)
        found == FirstBy(Concat([i \in DOMAIN partitions |-> partitions[i].sources]), SourceId)
    IN [sources |-> FirstBy([i \in DOMAIN found |-> Attached(found[i], gateways)] \o gateways, SourceId),
        mappings |-> [i \in DOMAIN partitions |->
                        [table |-> partitions[i].table, partition |-> partitions[i].partition,
                         ids |-> Ids(partitions[i].sources)]]
                     \o [i \in DOMAIN bare |-> [table |-> bare[i].name, partition |-> None, ids |-> << >>]],
        undetected |-> {p.table : p \in {p \in Items(partitions) : p.sources = << >>}},
        unreadable |-> {d.id : d \in {d \in Items(datasources) : d.details = None}}]
Discover(model, datasources) == Discovered(model, PartitionSources(model), datasources)

\* physical_sources_by_table
SourcesOf(physical, table) ==
    {s \in Items(physical.sources) :
        \E m \in Items(physical.mappings) : m.table = table /\ SourceId(s) \in Items(m.ids)}

\* physical_column_references: [object, column] of what a source column reads.
PhysicalColumns(column, sources) ==
    LET items(s) == IF s.query = None THEN << >>
                    ELSE SelectSeq(ParseSelectColumns(s.query), LAMBDA i : i.output = column)
        reads(s) == IF items(s) = << >> THEN {column} ELSE items(s)[1].reads
    IN UNION {{[object |-> s.object, column |-> c] : c \in reads(s)}
                : s \in {s \in sources : s.kind = "database" /\ s.object # None}}

SourceColumn(c) == IF c.sourceColumn = None THEN c.name ELSE c.sourceColumn

\* SemanticColumnLineageService.build_lineage_from_model: a row for each object with code
\* and each base object it depends on.
ColumnLineage(model, dax) ==
    LET physical == Discover(model, << >>)
        columns(d) == IF d \notin Columns(model) THEN {}
                      ELSE LET t == CHOOSE t \in Items(model.tables) : t.name = d[1]
                               c == CHOOSE c \in Items(t.columns) : c.name = d[2]
                           IN PhysicalColumns(SourceColumn(c), SourcesOf(physical, d[1]))
        rows(o) == LET ends == TerminalDependencies(dax.edges, o)
                   IN IF ends = {} THEN {[owner |-> o, reads |-> None, depth |-> None, columns |-> {}]}
                      ELSE {[owner |-> o, reads |-> e[1], depth |-> e[2], columns |-> columns(e[1])]
                              : e \in ends}
    IN UNION {rows(o) : o \in dax.objects}
=============================================================================
