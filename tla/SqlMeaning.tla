---------------------------- MODULE SqlMeaning ----------------------------
(***************************************************************************)
(* What a query means, for the module that reads it: a small abstract       *)
(* syntax, the columns each output column really reads given the tables'    *)
(* columns, and the tokens it is written with.                              *)
(***************************************************************************)
EXTENDS Naturals, Sequences, FiniteSets, SequencesExt, Concatenation

CONSTANT Schema    \* [table -> sequence of its columns]

W(text) == [kind |-> "word", text |-> text]
Op(text) == [kind |-> "op", text |-> text]
Words(texts) == [k \in DOMAIN texts |-> W(texts[k])]

\* Items: a reference, a call around one, a star.  A qualifier and an alias may be "".
Ref(q, c, as) == [form |-> "ref", q |-> q, c |-> c, as |-> as]
Call(q, c, as) == [form |-> "call", q |-> q, c |-> c, as |-> as]
All(q) == [form |-> "star", q |-> q, c |-> "", as |-> ""]
Without(q, c) == [form |-> "without", q |-> q, c |-> c, as |-> ""]

\* Sources: a table, the CTE "X", a subquery.
Table(name, as) == [form |-> "table", name |-> name, as |-> as, query |-> <<>>]
Cte(as) == [form |-> "cte", name |-> "X", as |-> as, query |-> <<>>]
Sub(query, as) == [form |-> "sub", name |-> "", as |-> as, query |-> query]
Select(items, sources) == [items |-> items, sources |-> sources]

\* The meaning: a sequence of <<column, the set of <<table, column>> it reads>>.
Outs(table) == [k \in DOMAIN Schema[table] |->
                  <<Schema[table][k], {<<table, Schema[table][k]>>}>>]

\* What an item puts out of the columns in its scope, reads being what its column reads.
Outputs(item, visible, reads) ==
  CASE item.form = "star" -> visible
    [] item.form = "without" -> SelectSeq(visible, LAMBDA o : o[1] # item.c)
    [] item.form = "ref" -> <<<<IF item.as # "" THEN item.as ELSE item.c, reads>>>>
    [] item.form = "call" -> <<<<item.as, reads>>>>
\* A name is a column in scope, or else an earlier alias.
ReadBy(columns, aliased) ==
  IF columns # <<>> THEN UNION {columns[k][2] : k \in DOMAIN columns} ELSE aliased

\* A union takes its names from the first branch and the columns by position.
AtPosition(branches, k) ==
  <<branches[1][k][1], UNION {branches[b][k][2] : b \in DOMAIN branches}>>
United(branches) == Concat([k \in DOMAIN branches[1] |-> <<AtPosition(branches, k)>>])

RECURSIVE Meaning(_, _)
SourceMeaning(source, x) ==
  CASE source.form = "table" -> Outs(source.name)
    [] source.form = "cte" -> x
    [] source.form = "sub" -> Meaning(source.query, x)
Called(source) == IF source.as # "" THEN source.as ELSE source.name
ColumnsOf(sources, x) == Concat([k \in DOMAIN sources |-> SourceMeaning(sources[k], x)])

SelectMeaning(select, x) ==
  LET Visible(q) == ColumnsOf(SelectSeq(select.sources, LAMBDA s : q = "" \/ Called(s) = q), x)
      Earlier(n) == {k \in 1 .. n - 1 : select.items[k].as = select.items[n].c}
      Reads[n \in DOMAIN select.items] ==
        ReadBy(SelectSeq(Visible(select.items[n].q), LAMBDA o : o[1] = select.items[n].c),
               UNION {Reads[k] : k \in Earlier(n)})
  IN Concat([n \in DOMAIN select.items |->
               Outputs(select.items[n], Visible(select.items[n].q), Reads[n])])
Meaning(query, x) == United(Concat([b \in DOMAIN query |-> <<SelectMeaning(query[b], x)>>]))

-----------------------------------------------------------------------------
(* Writing it down. *)

Joined(parts, separator) ==
  Concat([k \in DOMAIN parts |-> IF k = 1 THEN parts[k] ELSE separator \o parts[k]])
Dotted(q, c) == IF q = "" THEN <<c>> ELSE <<W(q), Op("."), c>>
As(as) == IF as = "" THEN <<>> ELSE <<W("AS"), W(as)>>
Parens(ts) == <<Op("(")>> \o ts \o <<Op(")")>>

WriteItem(item) ==
  CASE item.form = "ref" -> Dotted(item.q, W(item.c)) \o As(item.as)
    [] item.form = "call" -> <<W("F")>> \o Parens(Dotted(item.q, W(item.c))) \o As(item.as)
    [] item.form = "star" -> Dotted(item.q, Op("*"))
    [] item.form = "without" -> Dotted(item.q, Op("*")) \o <<W("EXCLUDE")>> \o Parens(<<W(item.c)>>)

RECURSIVE Write(_)
WriteSource(source) ==
  (IF source.form = "sub" THEN Parens(Write(source.query)) ELSE <<W(source.name)>>)
  \o (IF source.as = "" THEN <<>> ELSE <<W(source.as)>>)
WriteSelect(select) ==
  <<W("SELECT")>>
  \o Joined([k \in DOMAIN select.items |-> WriteItem(select.items[k])], <<Op(",")>>)
  \o <<W("FROM")>>
  \o Joined([k \in DOMAIN select.sources |-> WriteSource(select.sources[k])],
            <<W("JOIN")>>)
Write(query) ==
  Joined([k \in DOMAIN query |-> WriteSelect(query[k])], Words(<<"UNION", "ALL">>))

WithCte(inner, outer) ==
  Words(<<"WITH", "X", "AS">>) \o Parens(Write(inner)) \o Write(outer)
=============================================================================
