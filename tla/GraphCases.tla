----------------------------- MODULE GraphCases -----------------------------
(***************************************************************************)
(* The graphs LineageQueries is asked about: those of ReportCases' models,  *)
(* with a report of one visual for each set of fields of Pairs and with     *)
(* Snowflake's dependencies; and what the answers are to agree with.        *)
(***************************************************************************)
EXTENDS ReportCases, LineageQueries

-----------------------------------------------------------------------------
(* Graphs.                                                                  *)

Shown(v, refs) == [id |-> v, references |-> refs]
Pairs == <<{Used("column", "S", "A")}, {Used("column", "S", "K")}, {Used("measure", "S", "M")},
           {Used("measure", "S", "N"), Used("column", "Q", "B")}, {Used("column", "C", "X")},
           {Used("column", "S", "gone"), Used("visual_calculation", None, "v")},
           {Used("hierarchy_level", "S", "L")}, {Used("hierarchy", "S", "H"), Used("measure", "S", "M")}>>
PairReport ==
    [Report EXCEPT !.pages = <<[name |-> 1, order |-> 1, active |-> TRUE,
                                visuals |-> [i \in DOMAIN Pairs |-> Shown(i, Pairs[i])]]>>]

InSnowflake == [Code(<<Nested(Connect("snowflake", "acct", "wh"))>>)
                  EXCEPT !.steps = <<[kind |-> "database", name |-> "db"]>>, !.item = <<"sch", "t">>]
Entity(name, domain) == [name |-> <<"db", "sch", name>>, domain |-> domain]
DependsOn(from, to, valid) == [from |-> from, to |-> to, type |-> "BY_NAME", valid |-> valid]
RowSets == {<<DependsOn(Entity("raw", "TABLE"), Entity("v", "VIEW"), TRUE),
              DependsOn(Entity("v", "VIEW"), Entity("t", "VIEW"), TRUE),
              DependsOn(Entity("v", "VIEW"), Entity("t", "VIEW"), TRUE)>>,
            <<DependsOn(Entity("v", "VIEW"), Entity("t", "FUNCTION"), TRUE),
              DependsOn(Entity("raw", "TABLE"), Entity("t", "VIEW"), FALSE)>>}

GraphModels ==
    {[Model0(s, q, m, c, None) EXCEPT !.tables[1].columns[3].expression = <<Ref("Q", "B")>>,
        !.relationships = <<[Relationship("r") EXCEPT !.from = <<"S", "A">>, !.to = <<"Q", "A">>],
                            [Relationship("r2") EXCEPT !.from = <<"S", "gone">>, !.to = <<"Q", "A">>]>>] :
        s \in {InSnowflake, Native(Joined), NoCode}, q \in {Navigate("q"), Link("up", "V")},
        m \in MeasureCodes, c \in {<<Ref("Q", "A")>>, <<Ref("S", "M")>>}}

Request(model, rows) ==
    [id |-> "m", model |-> model, dax |-> None, physical |-> None,
     report |-> [id |-> "m", matches |-> MatchReport(PairReport, model)],
     snowflake |-> IF rows = None THEN None ELSE NormalizeRows(rows)]
Deepest == 12
Depths == {1, 3, Deepest}
\* The model as it was in the version before.
Before0(model) == [model EXCEPT !.tables[1].measures[1].expression = <<Ref("S", "A")>>]

\* What the providers may answer a live scan; srv is where a model's source is.
Worlds ==
    {[model |-> m, asksReport |-> a, report |-> r, asksGateways |-> ag, gateways |-> g] :
        m \in {SomeModel, None}, a \in BOOLEAN, r \in {PairReport, None}, ag \in BOOLEAN,
        g \in {None, << >>, <<None, <<Gateway("srv")>>>>, <<<<Gateway("far")>>, <<[id |-> "bad", details |-> None]>>>>}}

Looks == {[name |-> n, within |-> w, told |-> t] : n \in {"same", "holds"}, w \in {TRUE}, t \in BOOLEAN}
         \cup {[name |-> None, within |-> w, told |-> t] : w \in BOOLEAN, t \in BOOLEAN}
Searches ==
    {[types |-> ts, limit |-> l,
      nodes |-> {looks[i] @@ [id |-> i, type |-> IF i = 2 THEN "visual" ELSE "query", report |-> None,
                              rank |-> IF i = 3 THEN 0 ELSE 1] : i \in 1 .. 3}] :
        looks \in [1 .. 3 -> Looks], ts \in {{}, {"query"}}, l \in {1, 2}}

GraphQuestions ==
    {<<"graph", [model |-> m, rows |-> r]>> : m \in GraphModels, r \in RowSets \cup {None}}
    \cup {<<"live", w>> : w \in Worlds} \cup {<<"search", s>> : s \in Searches}

Asked(graph, old) ==
    LET \* What can change: an object, a source, a table of the database.
        origins == {n \in graph.nodes : n.type \notin {"semantic_model", "report", "report_page"}}
    IN [graph |-> graph, issues |-> Validate(graph), changes |-> Compare(old, graph),
        impact |-> [k \in NodeIds(origins) \X Depths |-> Impact(graph, k[1], k[2], FALSE)],
        around |-> [v \in {VisualId([page |-> 1, visual |-> i]) : i \in DOMAIN Pairs} |->
                      [up |-> NavigateGraph(graph, v, "upstream", Deepest, FALSE), near |-> NavigateGraph(graph, v, "both", 1, TRUE)]]]
BuiltVerdict(c) ==
    Asked(BuildGraph(Request(c.model, c.rows)), BuildGraph(Request(Before0(c.model), c.rows)))

\* The pages of a search, one after the other, the last of them empty.
Pages(c) == [k \in 1 .. 4 |-> Search(c.nodes, c.types, None, c.limit, (k - 1) * c.limit)]

GraphVerdict(c) ==
    CASE c[1] = "graph" -> BuiltVerdict(c[2])
      [] c[1] = "live" -> LiveGraph("m", c[2])
      [] c[1] = "search" -> Pages(c[2])

-----------------------------------------------------------------------------
(* The truth.                                                               *)

\* What an object is made of by its own expression, else its table.
MadeOf(model, o) ==
    LET code == Expressions(model)
        own == IF o \in DOMAIN code
               THEN {IF t.kind = "table" THEN <<t.table>> ELSE <<t.table, t.name>> : t \in Items(code[o])}
               ELSE IF Len(o) = 2 /\ o \notin Measures(model) THEN {<<o[1]>>} ELSE {}
    IN own \cap (Columns(model) \cup Measures(model) \cup {<<t>> : t \in TableNames(model)})
ObjectsOf(model) == Columns(model) \cup Measures(model) \cup {<<t>> : t \in TableNames(model)}
Made(model) == UNION {{<<o, p>> : p \in MadeOf(model, o)} : o \in ObjectsOf(model)}
RECURSIVE AllOf(_, _)
AllOf(made, known) ==
    LET more == {m[2] : m \in {m \in made : m[1] \in known}} \ known
    IN IF more = {} THEN known ELSE AllOf(made, known \cup more)

\* What a visual is made of through its columns and measures: pairs of the two.
VisualsUnder(model, made) ==
    LET fields(v) == {<<r.table, r.name>> : r \in {r \in Pairs[v] : r.type \in {"column", "measure"}}}
                     \cap (Columns(model) \cup Measures(model))
    IN UNION {{<<v, o>> : o \in AllOf(made, fields(v))} : v \in DOMAIN Pairs}

\* The nodes some number of steps or fewer lead to, from none up.
Within(steps, id, depth) ==
    FoldLeft(LAMBDA w, n : Append(w, Last(w) \cup UNION {Successors(steps, m) : m \in Last(w)}),
             <<{id}>>, [n \in 1 .. depth |-> n])

\* What the impact of every node is: the nearest steps, cut off where the depth says so.
ImpactIsShortest(graph, impact) ==
    LET steps == Steps(graph, "downstream", FALSE)
    IN \A k \in DOMAIN impact :
        LET w == Within(steps, k[1], k[2] + 1)
            found == impact[k].distances
        IN /\ DOMAIN found = w[k[2] + 1] \ {k[1]}
           /\ \A n \in DOMAIN found : n \in w[found[n] + 1] \ w[found[n]]
           /\ impact[k].truncated <=> w[k[2] + 2] # w[k[2] + 1]

(***************************************************************************)
(* A built graph is valid.  The visuals in the impact of a table, a column  *)
(* or a measure are those a column or a measure of theirs is made of it, by *)
(* whatever chain; a source and a Snowflake object reach what the tables    *)
(* read from them reach; looking upstream finds what looking downstream     *)
(* does; distances are shortest and nothing is cut off unsaid; the warned   *)
(* cycles are those of the expressions; and two versions of a graph differ  *)
(* where a measure's references do.                                         *)
(***************************************************************************)
BuiltIsWhole(c, v) ==
    LET model == c.model
        objects == ObjectsOf(model)
        made == Made(model)
        shown == VisualsUnder(model, made)
        visuals == DOMAIN v.around
        reached(id) == DOMAIN v.impact[id, Deepest].distances \cap visuals
        from(id) == UNION {reached(TableId(m.table)) : m \in
                              {m \in Items(Discover(model, << >>).mappings) : id \in Items(m.ids)}}
        sources == {n \in v.graph.nodes : n.type = "physical_source"}
        inSnowflake == {n \in sources : n.says.provider = "snowflake"}
        named == {n \in v.graph.nodes : n.type = "snowflake_object" /\ n.id[2].name = <<"db", "sch", "t">>}
        circular(o) == o \in AllOf(made, {m[2] : m \in {m \in made : m[1] = o}})
        reads(m) == MadeOf(m, <<"S", "M">>)
        touched(edges) == {e[1] : e \in {e \in edges : e[2] = MeasureId("S", "M") /\ e[3] = "dax_dependency"}}
    IN /\ Valid(v.issues)
       /\ \A o \in objects :
            reached(DaxId(model, o)) = {w \in visuals : <<w[3], o>> \in shown}
       /\ \A s \in sources : reached(s.id) = from(SourceId(s.says))
       /\ inSnowflake # {} /\ named # {} =>
            \E n \in named : \A s \in inSnowflake : reached(s.id) \subseteq reached(n.id)
       /\ \A w \in visuals : \A id \in {k[1] : k \in DOMAIN v.impact} \ {w} :
            w \in reached(id) <=> id \in v.around[w].up.nodes
       /\ \A w \in visuals : v.around[w].near.edges = {e \in v.graph.edges : w \in {e.from, e.to}}
       /\ ImpactIsShortest(v.graph, v.impact)
       /\ {DaxId(model, o) : o \in {o \in objects : circular(o)}} =
            UNION {i[2] : i \in {i \in v.issues : i[1] = "LINEAGE_CYCLE_DETECTED"}}
       /\ touched(v.changes.addedEdges) = {DaxId(model, o) : o \in reads(model) \ reads(Before0(model))}
       /\ touched(v.changes.removedEdges) = {DaxId(model, o) : o \in reads(Before0(model)) \ reads(model)}

\* What a scan says of its model, and what the one that asks no gateways says of it.
LosesGatewaysOnly(w, v, without) ==
    LET answered == IF w.gateways = None THEN {} ELSE Items(w.gateways) \ {None}
        extra == {<<"source", SourceId(s)>> : s \in UNION {Items(GatewaySources(g)) : g \in answered}}
    IN /\ v.edges = without.edges
       /\ NodeIds(v.nodes) = NodeIds(without.nodes) \cup IF w.asksGateways THEN extra ELSE {}
       /\ w.asksGateways /\ (w.gateways = None \/ None \in Items(w.gateways)) => v.warnings

(***************************************************************************)
(* A live scan fails only for a model or a report it cannot read; a gateway *)
(* that cannot be read costs the graph nothing but that gateway's sources,  *)
(* and is noted.                                                            *)
(***************************************************************************)
ScanLosesGatewaysOnly(w, v) ==
    IF w.model = None \/ (w.asksReport /\ w.report = None) THEN v = None
    ELSE LosesGatewaysOnly(w, v, LiveGraph("m", [w EXCEPT !.asksGateways = FALSE]))

\* A search's pages, one after the other, show every match once, the best first.
PagesAreWhole(c, pages) ==
    LET shown == Concat([k \in DOMAIN pages |-> pages[k].results])
        matches == {n \in c.nodes : Score(n) > 0 /\ (c.types = {} \/ n.type \in c.types)}
    IN /\ Items(shown) = matches /\ Len(shown) = Cardinality(matches)
       /\ \A i \in 2 .. Len(shown) : Score(shown[i - 1]) >= Score(shown[i])
       /\ \A k \in DOMAIN pages : pages[k].total = Len(shown)

GraphsAreWhole(c, v) ==
    CASE c[1] = "graph" -> BuiltIsWhole(c[2], v)
      [] c[1] = "live" -> ScanLosesGatewaysOnly(c[2], v)
      [] c[1] = "search" -> PagesAreWhole(c[2], v)
=============================================================================
