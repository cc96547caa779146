----------------------------- MODULE ModelCases -----------------------------
(***************************************************************************)
(* The models SemanticModels is run on: small models written out as TMDL    *)
(* and read back, and a model whose two measures, calculated column and     *)
(* calculated table hold every choice of a few references.                  *)
(***************************************************************************)
EXTENDS SemanticModels

Line(kind, name, value) == [kind |-> kind, name |-> name, value |-> value]
Optional(kind, value) == IF value = None THEN << >> ELSE <<Line(kind, None, value)>>
Token(kind, table, name) ==
    [kind |-> kind, table |-> table, name |-> name, glued |-> FALSE, inside |-> << >>]
Fence == Token("fence", None, None)

\* What a model looks like in TMDL: declarations with their code on the lines below.
CodeLines(code) == IF code = None THEN << >>
                   ELSE [i \in DOMAIN code |-> Line("text", None, <<code[i]>>)]
Head0(code) == IF code = None THEN None ELSE << >>
Each(s, Write(_)) == Concat([i \in DOMAIN s |-> Write(s[i])])

ColumnLines(c) == <<Line("column", c.name, Head0(c.expression))>> \o CodeLines(c.expression)
                  \o Optional("sourceColumn", c.sourceColumn) \o Optional("lineageTag", c.tag)
                  \o Optional("sourceLineageTag", c.sourceTag)
\* A measure's code may stand within a fence.
MeasureLines(m) == <<Line("measure", m.name, << >>)>> \o CodeLines(<<Fence>>)
                   \o CodeLines(m.expression) \o CodeLines(<<Fence>>)
LevelLines(l) == <<Line("level", l.name, None)>> \o Optional("column:", l.column)
PartitionLines(p) ==
    <<Line("partition", p.name, p.type)>> \o Optional("mode", p.mode)
    \o Optional("entityName", p.entity)
    \o (IF p.expression = None THEN << >>
        ELSE <<Line("source", None, << >>)>> \o CodeLines(p.expression))
TableLines(t, hierarchyTag) ==
    LET HierarchyLines(h) == <<Line("hierarchy", h.name, None)>>
                             \o Optional("lineageTag", hierarchyTag) \o Each(h.levels, LevelLines)
    IN <<Line("table", t.name, None)>> \o Optional("lineageTag", t.tag)
       \o Optional("sourceLineageTag", t.sourceTag) \o Each(t.columns, ColumnLines)
       \o Each(t.measures, MeasureLines) \o Each(t.hierarchies, HierarchyLines)
       \o Each(t.partitions, PartitionLines)
RelationshipLines(r) ==
    <<Line("relationship", r.name, None), Line("isActive", None, r.active),
      Line("fromColumn", None, r.from), Line("toColumn", None, r.to)>>
ExpressionLines(e) == <<Line("expression", e.name, << >>)>> \o CodeLines(e.expression)
                      \o Optional("lineageTag", e.tag) \o <<Line("metadata", None, None)>>

\* A file for the tables, one for the relationships, one for the expressions and one that
\* is no text; or all in one file, the expressions first.
Written(m, hierarchyTag, together) ==
    LET tables == Each(m.tables, LAMBDA t : TableLines(t, hierarchyTag))
        relationships == Each(m.relationships, RelationshipLines)
        expressions == Each(m.expressions, ExpressionLines)
    IN IF together THEN <<expressions \o tables \o relationships>>
       ELSE <<tables, None, relationships, expressions>>

-----------------------------------------------------------------------------
Code1 == <<Token("bracket", None, "A")>>
Code2 == <<Token("bracket", None, "A"), Token("table", "T", None)>>
Tags == {None, "tag"}

SomeTables ==
    {[Table(n, IF p # << >> /\ p[1].type = "calculated" THEN p[1].expression ELSE None) EXCEPT
        !.tag = g, !.columns = c, !.measures = m, !.hierarchies = h, !.partitions = p] :
        n \in {"T", "LocalDateTable"}, g \in Tags,
        c \in {<< >>, <<[Column("A", None) EXCEPT !.sourceColumn = "a", !.sourceTag = "up"],
                        [Column("B", Code2) EXCEPT !.tag = "tag"]>>},
        m \in {<< >>, <<Measure("M", Code2), Measure("N", Code1)>>},
        h \in {<< >>, <<[Hierarchy("H") EXCEPT !.levels =
                           <<[name |-> "L1", column |-> "A"], [name |-> "L2", column |-> "B"]>>]>>},
        p \in {<< >>, <<[Partition("P", "m") EXCEPT !.mode = "import", !.expression = Code2]>>,
               <<[Partition("P", "calculated") EXCEPT !.expression = Code2]>>,
               <<[Partition("P", "entity") EXCEPT !.entity = "t"]>>}}

Written0 == {[EmptyModel EXCEPT !.tables = <<t, Table("U", None)>>,
                !.relationships = r, !.expressions = e] :
        t \in SomeTables,
        r \in {<< >>, <<[Relationship("R") EXCEPT !.from = <<"T", "A">>, !.to = <<"U", "A">>,
                                                  !.active = FALSE]>>},
        e \in {<< >>, <<[SharedExpression("E", Code2) EXCEPT !.tag = "tag"]>>}}

\* The references a measure or calculation may hold.
Texts == {Token("qualified", "T", "A"), Token("qualified", "U", "N"), Token("bracket", None, "C"),
          Token("bracket", None, "M"), Token("bracket", None, "A"), Token("table", "U", None),
          [Token("qualified", "T", "A") EXCEPT !.glued = TRUE],
          [Token("opaque", None, None) EXCEPT !.inside = <<Token("qualified", "U", "A")>>],
          [Token("dashes", None, None) EXCEPT !.inside = <<Token("qualified", "T", "C")>>],
          [Token("table", "T and U", None) EXCEPT !.inside = <<"U">>]}
Codes == {SetToSeq(s) : s \in UNION {kSubset(k, Texts) : k \in 0..2}}
Calculated(m, n, c, u) ==
    [EmptyModel EXCEPT !.tables = <<
        [Table("T", None) EXCEPT !.columns = <<Column("A", None), Column("C", c)>>,
                                 !.measures = <<Measure("M", m)>>],
        [Table("U", u) EXCEPT !.columns = <<Column("A", None)>>, !.measures = <<Measure("N", n)>>],
        Table("T and U", None)>>]

Cases ==
    {[ask |-> "parse", model |-> m, tag |-> None, together |-> b] : m \in Written0, b \in BOOLEAN}
    \cup {[ask |-> "dax", model |-> Calculated(m, n, c, u)] :
            m \in Codes, n \in Codes, c \in {None, <<Token("bracket", None, "M")>>, Code1},
            u \in {None, <<Token("qualified", "U", "N")>>}}
\* The same models, their hierarchies tagged too.
TaggedCases == {[ask |-> "parse", model |-> m, tag |-> "hierarchy", together |-> TRUE] : m \in Written0}

Verdict(c) ==
    IF c.ask = "parse" THEN Parse(Written(c.model, c.tag, c.together))
    ELSE LET dax == Analyze(c.model)
         IN [dax |-> dax, cycles |-> FindCycles(dax),
             terminals |-> [o \in dax.objects |-> TerminalDependencies(dax.edges, o)],
             up |-> [o \in dax.objects |-> Walk(dax.edges, {o}, TRUE)],
             kept |-> ExcludeAutoDateTables(c.model, {"U"})]

\* What a token refers to, by the language: T[x] that, [x] the measure of that name or the
\* column beside, a table's name the table; comments and strings nothing.
Meant(model, t, table) ==
    CASE t.kind = "qualified" -> {<<t.table, t.name>>}
      [] t.kind = "table" -> {<<t.table>>}
      [] t.kind = "bracket" -> LET named == {m \in Measures(model) : m[2] = t.name}
                               IN IF named # {} THEN named ELSE {<<table, t.name>>}
      [] OTHER -> {}
RealReads(model, o) ==
    LET code == Expressions(model)[o]
    IN UNION {Meant(model, t, o[1]) : t \in Items(code)}
       \cap (Columns(model) \cup Measures(model) \cup {<<t>> : t \in TableNames(model)})
\* The two readings known to be wrong: a table whose name is a word of a quoted name, and
\* the text of a comment after two dashes.
NamedWithin(model, o) ==
    LET code == Items(Expressions(model)[o])
    IN {<<n>> : n \in UNION {Items(t.inside) : t \in {t \in code : t.kind \in {"table", "qualified"}}}}
       \cup UNION {UNION {Meant(model, d, o[1]) : d \in Items(t.inside)}
                     : t \in {t \in code : t.kind = "dashes"}}

\* [object -> fewest steps] of what o is made of.
RECURSIVE Distances(_, _, _)
Distances(edges, known, d) ==
    LET new == UNION {Predecessors(edges, o) : o \in {o \in DOMAIN known : known[o] = d}}
               \ DOMAIN known
    IN IF new = {} THEN known ELSE Distances(edges, known @@ [o \in new |-> d + 1], d + 1)

DependenciesAreReal(c, v) ==
    \A o \in v.dax.objects :
        LET read == Predecessors(v.dax.edges, o)
            away == Distances(v.dax.edges, o :> 0, 0)
        IN /\ read \subseteq RealReads(c.model, o) \cup NamedWithin(c.model, o)
           /\ (\A w \in v.dax.warnings : w[1] # o) => RealReads(c.model, o) \subseteq read
           /\ o \in UNION v.cycles <=> \E p \in read : o \in DOMAIN Distances(v.dax.edges, p :> 0, 0)
           /\ \A d \in v.cycles : o \in d =>
                  d = {p \in DOMAIN away : o \in DOMAIN Distances(v.dax.edges, p :> 0, 0)}
           /\ v.terminals[o] = {<<p, away[p]>> : p \in {p \in DOMAIN away \ {o} :
                                                          Predecessors(v.dax.edges, p) = {}}}
           /\ v.up[o] = [p \in DOMAIN away \ {o} |-> away[p]]

(***************************************************************************)
(* A definition is read back as the model it was written from, whatever the *)
(* files it is spread over; and the dependencies reported are those the     *)
(* expressions have, none silently lost, with their cycles and distances.   *)
(***************************************************************************)
ReadsModelsRight(c, v) ==
    IF c.ask = "parse" THEN v = c.model ELSE DependenciesAreReal(c, v)
=============================================================================
