--------------------------- MODULE SemanticModels ---------------------------
(***************************************************************************)
(* A semantic model as read from its TMDL definition, and the DAX           *)
(* dependencies between its objects.                                        *)
(*                                                                         *)
(* A TMDL line is [kind, name, value]: a declaration ("table", "column",    *)
(* "measure", "hierarchy", "level", "partition", "relationship",            *)
(* "expression"), a property (kind is its key), "metadata" (an annotation)  *)
(* or "text" (anything else).  Code is a sequence of tokens                 *)
(* [kind, table, name, glued, inside]:                                      *)
(*   qualified   table[name], quoted or not; glued when an unquoted name    *)
(*               follows a word on its line, as in "RETURN Sales[Amount]"   *)
(*   bracket     [name]                                                     *)
(*   table       a table's name on its own                                  *)
(*   opaque      a comment or string; inside holds the tokens it spells     *)
(*   dashes      a comment that two dashes start, which the code reads on    *)
(*   fence       ``` around a block                                         *)
(* Of qualified and table tokens inside holds the tables whose names are    *)
(* words within the quoted one.                                             *)
(***************************************************************************)
EXTENDS Naturals, Sequences, FiniteSets, SequencesExt, Concatenation, FiniteSetsExt

CONSTANT None

-----------------------------------------------------------------------------
(* Parsing.  at is the object the next property belongs to.                 *)

EmptyModel == [tables |-> << >>, relationships |-> << >>, expressions |-> << >>]
Start == [model |-> EmptyModel, at |-> "none", inTable |-> FALSE, started |-> FALSE]

Table(name, expression) ==
    [name |-> name, expression |-> expression, tag |-> None, sourceTag |-> None,
     columns |-> << >>, measures |-> << >>, hierarchies |-> << >>, partitions |-> << >>]
Column(name, expression) ==
    [name |-> name, expression |-> expression, sourceColumn |-> None, tag |-> None,
     sourceTag |-> None]
Measure(name, expression) == [name |-> name, expression |-> expression]
Hierarchy(name) == [name |-> name, levels |-> << >>]
Partition(name, type) ==
    [name |-> name, type |-> type, mode |-> None, entity |-> None, schema |-> None,
     source |-> None, expression |-> None]
Relationship(name) == [name |-> name, from |-> None, to |-> None, active |-> None]
SharedExpression(name, expression) == [name |-> name, expression |-> expression, tag |-> None]

Appended(code, line) == IF code = None THEN line ELSE code \o line
EditLast(s, F(_)) == [s EXCEPT ![Len(s)] = F(@)]
EditTable(st, F(_)) == [st EXCEPT !.model.tables = EditLast(@, F)]

\* A declaration inside the current table.
Declare(st, line) ==
    LET added(t) ==
          CASE line.kind = "column" -> [t EXCEPT !.columns = Append(@, Column(line.name, line.value))]
            [] line.kind = "measure" -> [t EXCEPT !.measures = Append(@, Measure(line.name, line.value))]
            [] line.kind = "hierarchy" -> [t EXCEPT !.hierarchies = Append(@, Hierarchy(line.name))]
            [] line.kind = "partition" ->
                 [t EXCEPT !.partitions = Append(@, Partition(line.name, line.value))]
    IN [EditTable(st, added) EXCEPT !.at = line.kind, !.started = FALSE]

AddLevel(st, line) ==
    EditTable(st, LAMBDA t : [t EXCEPT !.hierarchies = EditLast(@, LAMBDA h :
        [h EXCEPT !.levels = Append(@, [name |-> line.name, column |-> None])])])

\* Code that follows a declaration; a property-like line is never code.
IsText(line) == line.kind = "text"

ColumnProperty(st, line) ==
    LET set(c) ==
          CASE line.kind = "sourceColumn" -> [c EXCEPT !.sourceColumn = line.value]
            [] line.kind = "lineageTag" -> [c EXCEPT !.tag = line.value]
            [] line.kind = "sourceLineageTag" -> [c EXCEPT !.sourceTag = line.value]
            [] IsText(line) /\ c.expression # None ->
                 [c EXCEPT !.expression = Appended(@, line.value)]
            [] OTHER -> c
    IN EditTable(st, LAMBDA t : [t EXCEPT !.columns = EditLast(@, set)])

MeasureProperty(st, line) ==
    IF ~IsText(line) THEN st
    ELSE EditTable(st, LAMBDA t : [t EXCEPT !.measures = EditLast(@, LAMBDA m :
             [m EXCEPT !.expression = Appended(@, line.value)])])

\* Until its source starts a partition has properties, then it has code. A calculated
\* partition's code is its table's.
PartitionProperty(st, line) ==
    LET set(p) ==
          CASE ~st.started /\ line.kind = "mode" -> [p EXCEPT !.mode = line.value]
            [] ~st.started /\ line.kind = "entityName" -> [p EXCEPT !.entity = line.value]
            [] ~st.started /\ line.kind = "schemaName" -> [p EXCEPT !.schema = line.value]
            [] ~st.started /\ line.kind = "expressionSource" -> [p EXCEPT !.source = line.value]
            [] line.kind = "source" -> [p EXCEPT !.expression = line.value]
            [] st.started /\ line.kind # "source" ->
                 [p EXCEPT !.expression = Appended(@, line.value)]
            [] OTHER -> p
        edited(t) ==
          LET parts == EditLast(t.partitions, set)
              last == parts[Len(parts)]
          IN [t EXCEPT !.partitions = parts,
                       !.expression = IF last.type = "calculated"
                                         /\ (st.started \/ line.kind = "source")
                                      THEN last.expression ELSE @]
    IN [EditTable(st, edited) EXCEPT !.started = @ \/ line.kind = "source"]

\* A property of no inner object is the table's, and so is one that stands between a
\* hierarchy and its first level. Metadata after its code is code,
\* as in a partition.
TableProperty(st, line) ==
    LET set(t) ==
          CASE line.kind = "lineageTag" -> [t EXCEPT !.tag = line.value]
            [] line.kind = "sourceLineageTag" -> [t EXCEPT !.sourceTag = line.value]
            [] (IsText(line) \/ line.kind = "metadata") /\ t.expression # None ->
                 [t EXCEPT !.expression = Appended(@, line.value)]
            [] OTHER -> t
    IN IF st.inTable THEN EditTable(st, set) ELSE st

HierarchyProperty(st, line) ==
    LET hierarchies == LET ts == st.model.tables IN ts[Len(ts)].hierarchies
    IN IF hierarchies[Len(hierarchies)].levels = << >> THEN TableProperty(st, line)
       ELSE IF line.kind # "column:" THEN st
       ELSE EditTable(st, LAMBDA t : [t EXCEPT !.hierarchies = EditLast(@, LAMBDA h :
                [h EXCEPT !.levels = EditLast(@, LAMBDA l : [l EXCEPT !.column = line.value])])])

RelationshipProperty(st, line) ==
    LET set(r) ==
          CASE line.kind = "fromColumn" -> [r EXCEPT !.from = line.value]
            [] line.kind = "toColumn" -> [r EXCEPT !.to = line.value]
            [] line.kind = "isActive" -> [r EXCEPT !.active = line.value]
            [] OTHER -> r
    IN [st EXCEPT !.model.relationships = EditLast(@, set)]

\* Everything in a shared expression but its trailing metadata is code.
ExpressionProperty(st, line) ==
    LET set(e) ==
          CASE line.kind = "lineageTag" -> [e EXCEPT !.tag = line.value]
            [] line.kind \in {"queryGroup", "metadata"} -> e
            [] OTHER -> [e EXCEPT !.expression = Appended(@, line.value)]
    IN [st EXCEPT !.model.expressions = EditLast(@, set)]

ParseLine(st, line) ==
    IF ~st.inTable /\ line.kind = "expression"
    THEN [st EXCEPT !.model.expressions = Append(@, SharedExpression(line.name, line.value)),
                    !.at = "expression", !.started = FALSE]
    ELSE IF line.kind = "table"
    THEN [st EXCEPT !.model.tables = Append(@, Table(line.name, line.value)),
                    !.at = "table", !.inTable = TRUE, !.started = FALSE]
    ELSE IF line.kind = "relationship"
    THEN [st EXCEPT !.model.relationships = Append(@, Relationship(line.name)),
                    !.at = "relationship", !.inTable = FALSE, !.started = FALSE]
    ELSE IF st.inTable /\ line.kind \in {"column", "measure", "hierarchy", "partition"}
    THEN Declare(st, line)
    ELSE IF st.at = "hierarchy" /\ line.kind = "level" THEN AddLevel(st, line)
    ELSE CASE st.at = "expression" -> ExpressionProperty(st, line)
           [] st.at = "partition" -> PartitionProperty(st, line)
           [] st.at = "column" -> ColumnProperty(st, line)
           [] st.at = "measure" -> MeasureProperty(st, line)
           [] st.at = "hierarchy" -> HierarchyProperty(st, line)
           [] st.at = "relationship" -> RelationshipProperty(st, line)
           [] OTHER -> TableProperty(st, line)

Unfenced(code) ==
    IF code = None \/ code = << >> \/ code[1].kind # "fence" THEN code
    ELSE LET body == SelectSeq(code, LAMBDA t : t.kind # "fence")
         IN IF body = << >> THEN code ELSE body

\* Each part is a file: its decoded lines, or None when it is no readable text.
Parse(parts) ==
    LET model == FoldLeft(LAMBDA m, part : IF part = None THEN m
                              ELSE FoldLeft(ParseLine, [Start EXCEPT !.model = m], part).model,
                          EmptyModel, parts)
        plain(x) == [x EXCEPT !.expression = Unfenced(@)]
        cleaned(t) == [t EXCEPT !.columns = [i \in DOMAIN @ |-> plain(@[i])],
                                !.measures = [i \in DOMAIN @ |-> plain(@[i])]]
    IN [model EXCEPT !.tables = [i \in DOMAIN @ |-> cleaned(@[i])]]

\* exclude_auto_date_tables: Power BI's generated tables, and relationships with them.
ExcludeAutoDateTables(model, generated) ==
    [model EXCEPT
        !.tables = SelectSeq(@, LAMBDA t : t.name \notin generated),
        !.relationships = SelectSeq(@, LAMBDA r :
            (r.from = None \/ r.from[1] \notin generated) /\ (r.to = None \/ r.to[1] \notin generated))]

-----------------------------------------------------------------------------
(* DAX dependencies.  An object is <<table>> or <<table, name>>.            *)

TableNames(model) == {model.tables[i].name : i \in DOMAIN model.tables}
Items(s) == {s[i] : i \in DOMAIN s}
Columns(model) == UNION {{<<t.name, c.name>> : c \in Items(t.columns)} : t \in Items(model.tables)}
Measures(model) == UNION {{<<t.name, m.name>> : m \in Items(t.measures)} : t \in Items(model.tables)}
\* expression_index and expression_owners: [object -> code] of what has code.
Expressions(model) ==
    LET owned == UNION {{<<<<t.name>>, t.expression>>}
                        \cup {<<<<t.name, c.name>>, c.expression>> : c \in Items(t.columns)}
                        \cup {<<<<t.name, m.name>>, m.expression>> : m \in Items(t.measures)} :
                            t \in Items(model.tables)}
        real == {o \in owned : o[2] \notin {None, << >>}}
    IN [o \in {r[1] : r \in real} |-> (CHOOSE r \in real : r[1] = o)[2]]

\* The tokens, with what comments and strings spell.
Spelled(code) ==
    Concat([i \in DOMAIN code |-> IF code[i].kind \in {"opaque", "dashes"} THEN code[i].inside
                                      ELSE <<code[i]>>])
\* _strip_dax_comments_and_strings
Stripped(code) == Spelled(SelectSeq(code, LAMBDA t : t.kind # "opaque"))
\* _extract_references: [table or None, name] of each reference, the unquoted table name
\* taken with the words before it.
ExtractReferences(code) ==
    {[table |-> IF t.kind = "bracket" THEN None ELSE IF t.glued THEN "" ELSE t.table,
      name |-> t.name] : t \in {t \in Items(Stripped(code)) : t.kind \in {"qualified", "bracket"}}}
\* _extract_table_references
ExtractTableReferences(code) ==
    LET read == Items(Stripped(code))
    IN {t.table : t \in {t \in read : t.kind = "table"}}
       \cup UNION {Items(t.inside) : t \in {t \in read : t.kind \in {"qualified", "table"}}}

\* A bare name is a measure when exactly one has it, else a column of the same table.
Resolve(model, reference, table) ==
    LET named == {m \in Measures(model) : m[2] = reference.name}
        own == <<IF reference.table = None THEN table ELSE reference.table, reference.name>>
    IN IF reference.table = None /\ Cardinality(named) = 1 THEN CHOOSE m \in named : TRUE
       ELSE IF own \in Columns(model) \/ (reference.table # None /\ own \in Measures(model)) THEN own
       ELSE None

\* DaxDependencyService.analyze: edges <<read, reader>>, and the references left over.
Analyze(model) ==
    LET code == Expressions(model)
        reads(o) == {<<r, Resolve(model, r, o[1])>> : r \in ExtractReferences(code[o])}
        tables(o) == ExtractTableReferences(code[o]) \cap TableNames(model)
    IN [edges |-> UNION {{<<r[2], o>> : r \in {r \in reads(o) : r[2] # None}}
                         \cup {<<<<t>>, o>> : t \in tables(o)} : o \in DOMAIN code},
        warnings |-> UNION {{<<o, r[1]>> : r \in {r \in reads(o) : r[2] = None}} : o \in DOMAIN code},
        objects |-> DOMAIN code]

Predecessors(edges, o) == {e[1] : e \in {e \in edges : e[2] = o}}
Successors(edges, o) == {e[2] : e \in {e \in edges : e[1] = o}}

(***************************************************************************)
(* strongly_connected_components: Tarjan's algorithm with frames of         *)
(* [node, left, parent] instead of recursion.                               *)
(***************************************************************************)
Push(st, node, parent, graph) ==
    [st EXCEPT !.index = @ @@ (node :> st.next), !.low = @ @@ (node :> st.next),
               !.next = @ + 1, !.stack = Append(@, node),
               !.frames = Append(@, [node |-> node, left |-> graph[node], parent |-> parent])]
Least(a, b) == IF a < b THEN a ELSE b
Since(stack, node) ==
    LET at == CHOOSE i \in DOMAIN stack : stack[i] = node IN SubSeq(stack, at, Len(stack))

Return(st, frame) ==
    LET popped == [st EXCEPT !.frames = Front(@)]
        done == IF st.low[frame.node] # st.index[frame.node] THEN popped
                ELSE LET component == Since(st.stack, frame.node)
                     IN [popped EXCEPT !.components = @ \cup {Items(component)},
                                       !.stack = SubSeq(@, 1, Len(@) - Len(component))]
    IN IF frame.parent = None THEN done
       ELSE [done EXCEPT !.low[frame.parent] = Least(@, st.low[frame.node])]

RECURSIVE Visit(_, _)
Visit(st, graph) ==
    IF st.frames = << >> THEN st
    ELSE LET frame == Last(st.frames)
             next == CHOOSE n \in frame.left : TRUE
             taken == [st EXCEPT !.frames[Len(st.frames)].left = @ \ {next}]
         IN Visit(IF frame.left = {} THEN Return(st, frame)
                  ELSE IF next \notin DOMAIN st.index THEN Push(taken, next, frame.node, graph)
                  ELSE IF next \in Items(st.stack)
                       THEN [taken EXCEPT !.low[frame.node] = Least(@, st.index[next])]
                  ELSE taken, graph)

StronglyConnectedComponents(graph) ==
    LET start == [index |-> << >>, low |-> << >>, next |-> 0, stack |-> << >>,
                  frames |-> << >>, components |-> {}]
    IN FoldSet(LAMBDA root, st : IF root \in DOMAIN st.index THEN st
                                 ELSE Visit(Push(st, root, None, graph), graph),
               start, DOMAIN graph).components

\* _find_cycles: components of calculated objects with more than one, or a self-loop.
FindCycles(dax) ==
    LET graph == [o \in dax.objects |-> Successors(dax.edges, o) \cap dax.objects]
    IN {c \in StronglyConnectedComponents(graph) :
            Cardinality(c) > 1 \/ \E o \in c : o \in graph[o]}

(***************************************************************************)
(* terminal_dependencies: the objects without predecessors that simple      *)
(* paths lead up to, each with its fewest steps.                            *)
(***************************************************************************)
RECURSIVE Terminals(_, _, _, _)
Terminals(edges, o, depth, path) ==
    LET sources == Predecessors(edges, o)
    IN IF sources = {} THEN IF depth > 0 THEN {<<o, depth>>} ELSE {}
       ELSE UNION {Terminals(edges, s, depth + 1, path \cup {s}) : s \in sources \ path}
TerminalDependencies(edges, owner) ==
    LET found == Terminals(edges, owner, 0, {owner})
    IN {t \in found : \A u \in found : u[1] = t[1] => t[2] <= u[2]}

\* _ModelIndex.walk: [object -> distance] of what starts reach, up or down.
RECURSIVE Spread(_, _, _, _, _)
Spread(edges, starts, front, distances, up) ==
    LET next == UNION {IF up THEN Predecessors(edges, o) ELSE Successors(edges, o) : o \in front}
        new == next \ (starts \cup DOMAIN distances)
        steps == 1 + (IF distances = << >> THEN 0
                      ELSE distances[CHOOSE o \in front : o \in DOMAIN distances])
    IN IF new = {} THEN distances
       ELSE Spread(edges, starts, new, distances @@ [o \in new |-> steps], up)
Walk(edges, starts, up) == Spread(edges, starts, starts, << >>, up)
=============================================================================
