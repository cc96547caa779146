----------------------------- MODULE ReportCases -----------------------------
(***************************************************************************)
(* The reports VisualSources is run on: definitions whose fields are of     *)
(* every form, and one report over a model with a table S, a table Q that   *)
(* may be a link to another model, a calculated table and measures, under   *)
(* every answer of the providers.                                           *)
(***************************************************************************)
EXTENDS VisualSources

-----------------------------------------------------------------------------
(* Definitions.                                                             *)

Key(kind, name) ==
    [kind |-> kind, table |-> "S", name |-> name, function |-> None, of |-> None,
     hierarchy |-> IF kind \in {"hierarchy", "hierarchy_level"} THEN "H" ELSE None]
Plain(kind, name) == [own |-> {Key(kind, name)}, inner |-> << >>]
Aggregated(f) == [own |-> {[Key("aggregation", None) EXCEPT !.of = f, !.function = 0]}, inner |-> << >>]
Wrapped(fs) == [own |-> {}, inner |-> fs]

PlainFields == {Plain("column", "A"), Plain("measure", "M"), Plain("hierarchy_level", "L")}
Fields == PlainFields \cup {Aggregated(f) : f \in PlainFields}
          \cup {Wrapped(<<f, Aggregated(g)>>) : f \in PlainFields, g \in PlainFields}
          \cup {Wrapped(<<Wrapped(<<f>>)>>) : f \in PlainFields}

Payload(name, fields, tab) ==
    [name |-> name, type |-> "chart", query |-> TRUE, title |-> << >>, tab |-> tab, fields |-> fields]
Definition(pages, visuals) ==
    [reported |-> None, pbir |-> TRUE, legacy |-> FALSE, pages |-> pages, visuals |-> visuals,
     properties |-> [reference |-> "m", path |-> None, connected |-> TRUE],
     metadata |-> [order |-> <<2, 1>>, active |-> 2]]
Page(folder, name) == [folder |-> folder, payload |-> [name |-> name]]
Visual(page, folder, payload) == [page |-> page, folder |-> folder, payload |-> payload]

Definitions ==
    {Definition(<<Page(1, n), Page(2, None)>>,
                <<Visual(1, 5, Payload(None, <<[field |-> f, use |-> "projection"],
                                               [field |-> g, use |-> u]>>, t)),
                  Visual(1, 4, Payload(7, << >>, None)), Visual(2, 3, Payload(None, << >>, None)),
                  Visual(1, 9, Payload(None, <<[field |-> g, use |-> u]>>, 1))>>) :
        n \in {None, 1, 2, 8}, f \in Fields, g \in Fields, u \in {"sort", "filter"}, t \in {None, 0, 2}}

\* The fields an expression names, wherever they lie in it.
RECURSIVE Leaves(_)
Leaves(f) == {<<k.kind, k.name>> : k \in {k \in f.own : k.kind # "aggregation"}}
             \cup UNION {Leaves(k.of) : k \in {k \in f.own : k.kind = "aggregation"}}
             \cup UNION {Leaves(f.inner[i]) : i \in DOMAIN f.inner}

(***************************************************************************)
(* Every page and every visual of a definition is shown once, under the     *)
(* page that holds it, the pages in their order and the visuals in theirs;  *)
(* and every field a visual's parts name is among its references.           *)
(***************************************************************************)
DefinitionIsKept(def, v) ==
    LET shown == UNION {{<<p, w.id>> : w \in Items(v.pages[p].visuals)} : p \in DOMAIN v.pages}
        holds(p, folder) == \E q \in Items(def.pages) : q.folder = folder
                                                        /\ Or(q.payload.name, folder) = v.pages[p].name
    IN /\ v.status = "read"
       /\ Len(v.pages) = Len(def.pages) /\ Cardinality(shown) = Len(def.visuals)
       /\ \A i \in DOMAIN def.visuals :
            \E p \in DOMAIN v.pages : \E w \in Items(v.pages[p].visuals) :
                /\ holds(p, def.visuals[i].page) /\ w.id = def.visuals[i].folder
                /\ {<<r.type, r.name>> : r \in w.references} =
                     UNION {Leaves(f.field) : f \in Items(def.visuals[i].payload.fields)}
       /\ \A p \in DOMAIN v.pages : \A i, j \in DOMAIN v.pages[p].visuals :
            LET s == v.pages[p].visuals[i]
                t == v.pages[p].visuals[j]
            IN i < j => \/ s.tab # None /\ (t.tab = None \/ s.tab < t.tab)
                        \/ s.tab = t.tab /\ s.id < t.id
       /\ \A p, q \in DOMAIN v.pages : p < q /\ v.pages[q].order # None =>
            v.pages[p].order # None /\ v.pages[p].order <= v.pages[q].order

-----------------------------------------------------------------------------
(* Sources.                                                                 *)

Arg(text) == [text |-> text, fields |-> [k \in {} |-> k], calls |-> << >>]
Connect(function, server, database) == [function |-> function, args |-> <<Arg(server), Arg(database)>>]
Nested(call) == [function |-> "Table.RenameColumns", args |-> <<[Arg(None) EXCEPT !.calls = <<call>>]>>]
Code(calls) == [NoCode EXCEPT !.calls = calls]
Word(name) == [kind |-> "name", name |-> name]
Item0(alias, names) == [expr |-> [i \in DOMAIN names |-> Word(names[i])], as |-> IF alias = None THEN "none" ELSE "as",
                        alias |-> alias, plain |-> TRUE, open |-> TRUE]
Query(items, objects) == [select |-> items, tables |-> [i \in DOMAIN objects |-> <<None, None, objects[i]>>]]
Native(query) == Code(<<[function |-> "Value.NativeQuery",
                         args |-> <<[Arg(None) EXCEPT !.calls = <<Connect("sqlserver", "srv", "db")>>],
                                    [Arg(None) EXCEPT !.text = query]>>]>>)
Navigate(object) == [Code(<<Nested(Connect("sqlserver", "srv", "db"))>>) EXCEPT !.item = <<"dbo", object>>]
Link(model, object) == [Code(<<Connect("analysis_services", "ws", model)>>) EXCEPT !.item = <<"Model", object>>]

LinkedCode(code) == FindCalls(code.calls)[1].function = "analysis_services"

\* The database's tables have columns a and b.
Straight(object) == Query(<<Item0(None, <<"a">>), Item0(None, <<"b">>)>>, <<object>>)
Crossed(object) == Query(<<Item0("b", <<"a">>), Item0("a", <<"b">>)>>, <<object>>)
Joined == Query(<<Item0("a", <<"a", "b">>), Item0(None, <<"b">>)>>, <<"t", "u">>)

SCodes == {Navigate("t"), Native(Straight("t")), Native(Crossed("t")), Native(Joined),
           Code(<<Connect("file", "x.csv", None)>>), NoCode}
QCodes == {Navigate("q"), Native(Crossed("q")), Link("up", "V"), Link("gone", "V"), Link("up", "W"),
           Link("up", "Z")}

Columns2(tag, a, b) == <<[Column("A", None) EXCEPT !.sourceColumn = a, !.sourceTag = tag],
                         [Column("B", None) EXCEPT !.sourceColumn = b]>>
Of(code) == <<[Partition("P", "m") EXCEPT !.expression = code]>>
Ref(table, name) == [kind |-> "qualified", table |-> table, name |-> name, glued |-> FALSE, inside |-> << >>]
NameOf == [Ref("S", "A") EXCEPT !.kind = "nameof"]

\* m is the code of measure M, c of the calculated table C, over tables S and Q.
Model0(s, q, m, c, tag) ==
    [EmptyModel EXCEPT !.tables =
       <<[Table("S", None) EXCEPT
            !.columns = Columns2(None, "a", "b") \o <<Column("K", <<Ref("S", "A"), Ref("Q", "B")>>)>>,
            !.measures = <<Measure("M", m), Measure("N", <<Ref("S", "K")>>)>>,
            !.hierarchies = <<[Hierarchy("H") EXCEPT !.levels = <<[name |-> "L", column |-> "A"],
                                                                  [name |-> "L2", column |-> "B"]>>]>>,
            !.partitions = Of(s)],
         [Table("Q", None) EXCEPT !.columns = IF LinkedCode(q) THEN Columns2(tag, "A", None)
                                              ELSE Columns2(None, "a", "b"),
                                  !.partitions = Of(q)],
         [Table("C", c) EXCEPT !.columns = <<Column("X", None)>>,
                               !.partitions = <<Partition("P", "calculated")>>]>>]

\* The model behind a link: V crosses the names of its database's columns, W is a link.
Upstream ==
    [EmptyModel EXCEPT !.tables =
       <<[Table("V", None) EXCEPT
            !.columns = <<[Column("A", None) EXCEPT !.sourceColumn = "b", !.tag = "other"],
                          [Column("B", None) EXCEPT !.sourceColumn = "a", !.tag = "tag"]>>,
            !.partitions = Of(Navigate("v"))],
         [Table("W", None) EXCEPT !.columns = Columns2(None, "A", "B"), !.partitions = Of(Link("far", "F"))]>>]

MeasureCodes == {<<Ref("S", "A")>>, <<Ref("S", "N")>>, <<Ref("Q", "A"), Ref("S", "B")>>,
                 <<Ref("C", "X")>>, <<Ref("S", "gone")>>, << >>, <<Ref("S", "M")>>,
                 <<[Ref("Q", None) EXCEPT !.kind = "table"]>>}
TableCodes == {<<Ref("Q", "A")>>, <<NameOf>>, << >>}

Used(type, table, name) ==
    [type |-> type, table |-> table, name |-> name, use |-> "projection", function |-> None,
     hierarchy |-> IF type \in {"hierarchy", "hierarchy_level"} THEN "H" ELSE None]
References ==
    {Used("column", "S", n) : n \in {"A", "B", "K", "gone"}} \cup {Used("column", "Q", n) : n \in {"A", "B"}}
    \cup {Used("measure", "S", n) : n \in {"M", "N"}} \cup {Used("column", "C", "X")}
    \cup {Used("hierarchy", "S", "H"), Used("hierarchy_level", "S", "L"), Used("visual_calculation", None, "v")}
Report == [status |-> "read", format |-> "PBIR", model |-> [mode |-> "by_connection", id |-> "m"], warned |-> FALSE,
           pages |-> <<[name |-> 1, order |-> 1, active |-> TRUE, visuals |-> <<[id |-> 1, references |-> References]>>]>>]

World(model, up) ==
    [fabric |-> TRUE, report |-> [model |-> "m", workspace |-> None], definition |-> Report, home |-> "home",
     listed |-> [w \in {"home", "ws2"} |-> IF w = "home" THEN {"m"} ELSE {}], workspaces |-> <<"home", "ws2">>,
     models |-> [k \in {"home", "ws2"} \X {"m"} |-> IF k[1] = "home" THEN model ELSE None],
     gateways |-> [sources |-> << >>, failed |-> FALSE], follow |-> TRUE,
     upstream |-> [m \in {"up", "gone"} |-> IF m = "up" THEN up ELSE None], generated |-> {}]

Codes0 == {Model0(s, q, m, c, tag) : s \in SCodes, q \in QCodes, m \in MeasureCodes, c \in TableCodes,
                                     tag \in {None, "tag"}}
Gateway(server) == [id |-> server, details |-> [server |-> server, database |-> None]]
SomeModel == Model0(Native(Crossed("t")), Link("up", "V"), <<Ref("Q", "A"), Ref("S", "B")>>, << >>, None)
\* What the providers may answer, with one model.
Answers ==
    {[World(SomeModel, u) EXCEPT !.fabric = f, !.report = r, !.definition = d, !.listed = [home |-> h, ws2 |-> w],
         !.workspaces = ws, !.gateways = g, !.follow = fo,
         !.models = [k \in {"home", "ws2"} \X {"m"} |-> IF k[1] \in has THEN SomeModel ELSE None]] :
        u \in {Upstream, None}, f \in BOOLEAN,
        r \in [model : {"m", None}, workspace : {None, "ws2"}], d \in {Report, None},
        h \in {{}, {"m"}, None}, w \in {{"m"}, None}, ws \in {<<"home", "ws2">>, None},
        g \in {[sources |-> << >>, failed |-> TRUE],
               [sources |-> <<Gateway("srv"), [id |-> "bad", details |-> None]>>, failed |-> FALSE]},
        fo \in BOOLEAN, has \in {{"home"}, {"ws2"}, {}}}

Cases == {<<"definition", d>> : d \in Definitions}
         \cup {<<"visuals", World(m, Upstream)>> : m \in Codes0} \cup {<<"visuals", w>> : w \in Answers}

Verdict(c) == IF c[1] = "definition" THEN Normalize(c[2]) ELSE Build(c[2])

-----------------------------------------------------------------------------
(* The truth: the columns of the database a field is made of.               *)

\* What a query selects as a column, by the language.
Selects(query, column) ==
    UNION {Names(i.expr) : i \in {i \in Items(query.select) :
              (IF i.as = "as" THEN i.alias ELSE Last(i.expr).name) = column}}
\* The base objects an object is made of; a calculated table's column, of all its table reads.
RECURSIVE Base(_, _, _)
Base(model, o, seen) ==
    LET code == Expressions(model)
        reads == {IF t.kind = "table" THEN <<t.table>> ELSE <<t.table, t.name>>
                    : t \in {t \in Items(code[o]) : t.kind # "nameof"}}
    IN IF o \in seen THEN {}
       ELSE IF o \in DOMAIN code THEN UNION {Base(model, r, seen \cup {o}) : r \in reads}
       ELSE IF <<o[1]>> \in DOMAIN code THEN Base(model, <<o[1]>>, seen \cup {o})
       ELSE {o}

\* The database's columns behind a base column, or None when they cannot be known.
RECURSIVE Behind(_, _, _)
Behind(world, model, o) ==
    LET t == TableOf(model, o[1])
        c == ColumnOf(model, o)
        code == t.partitions[1].expression
        calls == IF code = None THEN << >> ELSE FindCalls(code.calls)
        link == Last(calls).args[2].text
        object == code.item[2]
        up == IF link \in DOMAIN world.upstream THEN world.upstream[link] ELSE None
        same == {d \in Columns(up) : d[1] = object /\ c.sourceTag # None /\ ColumnOf(up, d).tag = c.sourceTag}
        named == {d \in Columns(up) : d = <<object, SourceColumn(c)>>}
        beyond == IF same # {} THEN same ELSE named
    IN CASE o \notin Columns(model) \/ calls = << >> -> None
         [] o \in Columns(model) /\ calls # << >> /\ Last(calls).function = "sqlserver" ->
              IF calls[1].function # "Value.NativeQuery" THEN {SourceColumn(c)}
              ELSE Selects(calls[1].args[2].text, SourceColumn(c))
         [] o \in Columns(model) /\ calls # << >> /\ Last(calls).function = "analysis_services" ->
              IF up = None \/ ~world.follow \/ beyond = {} THEN None
              ELSE Behind(world, up, CHOOSE d \in beyond : TRUE)
         [] OTHER -> None

FieldBase(model, ref) ==
    LET columns == IF ref.type = "hierarchy" THEN {"A", "B"} ELSE {"A"}
    IN CASE ref.type \in {"column", "measure"} -> Base(model, <<ref.table, ref.name>>, {})
         [] ref.type \in {"hierarchy", "hierarchy_level"} -> {<<"S", n>> : n \in columns}
         [] OTHER -> {}

\* Columns are reported only if the field is made of them.
OnlyReal(world, model, row) ==
    row.columns \subseteq UNION {IF Behind(world, model, o) = None THEN {} ELSE Behind(world, model, o)
                                   : o \in {o \in FieldBase(model, row.ref) : Len(o) = 2}}
\* A field said to be resolved is made of nothing else.
Whole(world, model, row) ==
    row.status = "resolved" =>
        \A o \in {o \in FieldBase(model, row.ref) : Len(o) = 2} :
            Behind(world, model, o) # None /\ Behind(world, model, o) \subseteq row.columns

Used0(world) == {k \in DOMAIN world.models : world.models[k] # None}

(***************************************************************************)
(* A report's definition keeps its pages, visuals and fields.  A field has  *)
(* a row whenever the definition can be read, and the row shows only        *)
(* database columns the field is made of, all of them when it says          *)
(* resolved; and what could not be read has its warning.                    *)
(***************************************************************************)
RowsAreReal(c, v) ==
    IF c[1] = "definition" THEN DefinitionIsKept(c[2], v)
    ELSE LET world == c[2]
         IN /\ {r.ref : r \in v.rows} = IF world.fabric /\ world.definition # None THEN References ELSE {}
            /\ \A r \in v.rows : \/ r.columns = {} /\ r.tables = {} /\ r.status = "unresolved"
                                 \/ \E k \in Used0(world) : OnlyReal(world, world.models[k], r)
                                                             /\ Whole(world, world.models[k], r)
            /\ (\A r \in v.rows : r.tables = {}) => world.definition = None \/ v.warnings # {}
                                                     \/ \A k \in Used0(world) : world.models[k] # SomeModel
=============================================================================
