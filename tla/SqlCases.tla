------------------------------ MODULE SqlCases ------------------------------
(***************************************************************************)
(* Statements whose meaning SqlMeaning knows, written as tokens and read    *)
(* back: every pairing of an inner and an outer query, as a subquery, an    *)
(* alias or a CTE, in a view, a renaming view and an INSERT, and the inner  *)
(* queries in MERGE, UPDATE, CLONE, COPY, external and plain tables.        *)
(***************************************************************************)
EXTENDS SnowflakeSql

CONSTANT Schema    \* [table -> its columns in order]
S == INSTANCE SqlMeaning

Inner == <<
  <<S!Select(<<S!Ref("", "A", ""), S!Call("", "B", "B")>>, <<S!Table("T", "")>>)>>,
  <<S!Select(<<S!Ref("t", "B", "A"), S!Call("t", "A", "B")>>, <<S!Table("T", "t")>>)>>,
  <<S!Select(<<S!All("")>>, <<S!Table("T", "")>>)>>,
  <<S!Select(<<S!Call("", "A", "E"), S!Ref("", "E", "A"), S!Ref("", "B", "")>>,
             <<S!Table("T", "")>>)>>,
  <<S!Select(<<S!Ref("t", "A", ""), S!Ref("V", "C", "B")>>,
             <<S!Table("T", "t"), S!Table("V", "")>>)>>,
  <<S!Select(<<S!Ref("", "A", ""), S!Ref("", "B", "")>>, <<S!Table("T", "")>>),
    S!Select(<<S!Ref("", "D", ""), S!Call("", "C", "B")>>, <<S!Table("V", "")>>)>>,
  <<S!Select(<<S!Without("t", "B"), S!Call("V", "D", "B")>>,
             <<S!Table("T", "t"), S!Table("V", "")>>)>> >>

\* Queries over one source that outputs A and B.
Outer(source, q) == <<
  <<S!Select(<<S!Ref(q, "A", ""), S!Ref(q, "B", "")>>, <<source>>)>>,
  <<S!Select(<<S!Call(q, "B", "A"), S!Ref(q, "A", "B")>>, <<source>>)>>,
  <<S!Select(<<S!Ref(q, "A", ""), S!Ref(q, "B", "")>>, <<source>>),
    S!Select(<<S!Call("", "C", "A"), S!Ref("", "D", "B")>>, <<S!Table("V", "")>>)>>,
  <<S!Select(<<S!All(q)>>, <<source>>)>>,
  <<S!Select(<<S!Without(q, "B"), S!Call("V", "C", "B")>>, <<source, S!Table("V", "")>>)>> >>
Starred(o) == o >= 4

Cases == [i : DOMAIN Inner, o : 1 .. 5, wrap : {"bare", "alias", "cte", "named"},
          form : {"view", "renaming", "insert"}]
         \cup [i : DOMAIN Inner, o : {0}, wrap : {"alias"},
               form : {"merge", "update", "clone", "copy", "external", "plain"}]
IsCte(c) == c.wrap \in {"cte", "named"}
OuterOf(c) ==
  CASE c.wrap = "bare" -> Outer(S!Sub(Inner[c.i], "y"), "")[c.o]
    [] c.wrap = "alias" -> Outer(S!Sub(Inner[c.i], "y"), "y")[c.o]
    [] c.wrap = "cte" -> Outer(S!Cte(""), "X")[c.o]
    [] c.wrap = "named" -> Outer(S!Cte("z"), "z")[c.o]
InnerMeaning(c) == S!Meaning(Inner[c.i], <<>>)
Meant(c) == IF c.o = 0 THEN InnerMeaning(c) ELSE S!Meaning(OuterOf(c), InnerMeaning(c))
Query(c) == IF IsCte(c) THEN S!WithCte(Inner[c.i], OuterOf(c)) ELSE S!Write(OuterOf(c))

Op(text) == <<S!Op(text)>>
Dot(q, n) == S!Dotted(q, S!W(n))
UsingSource(c) == S!Parens(S!Write(Inner[c.i])) \o S!Words(<<"s">>)
Set(n, value) == S!Words(<<n>>) \o Op("=") \o value
Positional(n) == <<[kind |-> "positional", text |-> n]>>
Stage == <<[kind |-> "stage", text |-> "@st"]>>
On == S!Words(<<"ON">>) \o Dot("t", "P") \o Op("=") \o Dot("s", "A")
CallOf(ts) == S!Words(<<"F">>) \o S!Parens(ts)

Merge(c) ==
  S!Words(<<"MERGE", "INTO", "R", "t", "USING">>) \o UsingSource(c) \o On
  \o S!Words(<<"WHEN", "MATCHED", "THEN", "UPDATE", "SET">>)
  \o Set("P", Dot("s", "A"))
  \o S!Words(<<"WHEN", "NOT", "MATCHED", "THEN", "INSERT">>)
  \o S!Parens(S!Words(<<"Q">>) \o Op(",") \o S!Words(<<"P">>)) \o S!Words(<<"VALUES">>)
  \o S!Parens(CallOf(Dot("s", "B")) \o Op(",") \o CallOf(Dot("s", "A")))
Update(c) ==
  S!Words(<<"UPDATE", "R", "SET">>) \o Set("P", Dot("s", "A")) \o Op(",")
  \o Set("Q", CallOf(Dot("s", "B"))) \o S!Words(<<"FROM">>) \o UsingSource(c)
  \o S!Words(<<"WHERE">>) \o Dot("R", "P") \o Op("=") \o Dot("s", "A")
Copied ==
  S!Words(<<"COPY", "INTO", "R", "FROM">>)
  \o S!Parens(S!Words(<<"SELECT">>) \o Positional("$1") \o Op(",")
               \o CallOf(Positional("$2")) \o S!Words(<<"FROM">>) \o Stage)
External ==
  S!Words(<<"CREATE", "EXTERNAL", "TABLE", "R">>)
  \o S!Parens(S!Words(<<"P", "INT", "AS">>) \o S!Parens(S!Words(<<"A">>) \o Op("::") \o S!Words(<<"INT">>))
               \o Op(",") \o S!Words(<<"Q", "INT", "AS">>) \o S!Parens(CallOf(S!Words(<<"B">>))))

\* CREATE TABLE R (P NUMBER(1, 2) NOT NULL, Q INT)
Plain ==
  S!Words(<<"CREATE", "TABLE", "R">>)
  \o S!Parens(S!Words(<<"P", "NUMBER">>) \o S!Parens(S!Words(<<"1">>) \o Op(",") \o S!Words(<<"2">>))
               \o S!Words(<<"NOT", "NULL">>) \o Op(",") \o S!Words(<<"Q", "INT">>))

Sql(c) ==
  CASE c.form = "view" -> S!Words(<<"CREATE", "VIEW", "R", "AS">>) \o Query(c)
    [] c.form = "renaming" ->
         S!Words(<<"CREATE", "OR", "REPLACE", "VIEW", "R">>)
         \o S!Parens(S!Words(<<"P">>) \o Op(",") \o S!Words(<<"Q">>)) \o S!Words(<<"AS">>) \o Query(c)
    [] c.form = "insert" -> S!Words(<<"INSERT", "INTO", "R">>) \o Query(c)
    [] c.form = "merge" -> Merge(c)
    [] c.form = "update" -> Update(c)
    [] c.form = "clone" -> S!Words(<<"CREATE", "TABLE", "R", "CLONE", "T">>)
    [] c.form = "copy" -> Copied
    [] c.form = "external" -> External
    [] c.form = "plain" -> Plain
Stored(c) == IF c.form = "view" THEN <<"A", "B">> ELSE <<"P", "Q">>

\* The columns of a view and of assignments are found by name, others by position.
Expected(c, k) ==
  LET named == {j \in DOMAIN Meant(c) : Meant(c)[j][1] = <<"A", "B">>[k]}
      at == IF c.form \in {"view", "merge", "update"} THEN CHOOSE j \in named : TRUE ELSE k
  IN CASE c.form = "clone" -> {<<"T", Stored(c)[k]>>}
       [] c.form \in {"copy", "external", "plain"} -> {}
       [] OTHER -> Meant(c)[at][2]

RECURSIVE Mentioned(_)
Mentioned(query) ==
  UNION {UNION {LET source == query[b].sources[k]
                IN CASE source.form = "table" -> {<<source.name>>}
                     [] source.form = "cte" -> {}
                     [] source.form = "sub" -> Mentioned(source.query) :
                k \in DOMAIN query[b].sources} : b \in DOMAIN query}
TablesIn(c) ==
  CASE c.form = "clone" -> {<<"T">>}
    [] c.form \in {"copy", "external", "plain"} -> {}
    [] OTHER -> Mentioned(Inner[c.i]) \cup IF c.o = 0 THEN {} ELSE Mentioned(OuterOf(c))

Answers(statement, c) ==
    [columns |-> [k \in 1 .. 2 |-> Extract(statement, Stored(c)[k], <<"P", "Q">>)],
     tables |-> ReferencedTables(statement),
     types |-> IF c.form # "plain" THEN <<>>
               ELSE [k \in 1 .. 2 |-> ColumnType(statement, Stored(c)[k])]]
Verdict(c) == Answers(Describe(Sql(c)), c)

Reads(answer) == {<<s.table[1], s.column>> : s \in answer.sources}

(***************************************************************************)
(* The reader names exactly the columns a statement reads, through CTEs,    *)
(* subqueries, unions, aliases and stars, except where a star hides the     *)
(* position it goes by, exactly the tables, and a plain table's types.      *)
(***************************************************************************)
RealSources(c, v) ==
    /\ ~(Starred(c.o) /\ c.form # "view")
         => \A k \in 1 .. 2 : Reads(v.columns[k]) = Expected(c, k)
    /\ v.tables = TablesIn(c)
    /\ c.form \in {"copy", "external"} => v.columns[2].shown # <<>>
    /\ c.form = "plain" => v.types = <<<<"NUMBER", "(", "1", ",", "2", ")">>, <<"INT">>>>
=============================================================================
