--------------------------- MODULE SnowflakeSql ---------------------------
(***************************************************************************)
(* Reading Snowflake SQL: a token sequence is cut into a statement, its     *)
(* query is parsed by keyword and depth, and one column is followed through *)
(* CTEs and subqueries to the tables it reads.                              *)
(*                                                                         *)
(* A token is [kind, text]; spelling is abstracted to two cases (Upper).    *)
(* The text of an expression is its token sequence.  The explanatory steps  *)
(* kept beside a result are left out.                                       *)
(***************************************************************************)
EXTENDS Naturals, Sequences, FiniteSets, SequencesExt, Concatenation

CONSTANTS Upper,     \* [lower-case name -> upper-case name]
          MaxDepth   \* _MAX_DEPTH

JoinWords == {"JOIN", "INNER", "LEFT", "RIGHT", "FULL", "OUTER", "CROSS", "NATURAL", "ASOF"}
QueryEndWords == {"WHERE", "GROUP", "HAVING", "QUALIFY", "ORDER", "LIMIT", "OFFSET",
                  "FETCH", "WINDOW"}
SetOperators == {"UNION", "INTERSECT", "EXCEPT", "MINUS"}
ClauseWords == JoinWords \cup QueryEndWords \cup SetOperators
  \cup {"FROM", "ON", "USING", "LATERAL", "MATCH_CONDITION", "SAMPLE", "TABLESAMPLE",
        "AT", "BEFORE", "CHANGES", "WHEN", "THEN", "ELSE", "SET", "VALUES", "SELECT",
        "WITH", "AS", "INTO"}
Keywords == ClauseWords \cup {"CASE", "END", "AND", "OR", "NOT", "NULL", "IS", "IN",
  "EXISTS", "DISTINCT", "ALL", "OVER", "BY", "CAST", "TRY_CAST", "TOP", "DATE"}
DatePartFunctions == {"DATEADD", "DATEDIFF", "DATE_TRUNC", "DATE_PART"}
CreateModifiers == {"OR", "REPLACE", "SECURE", "RECURSIVE", "TEMP", "TRANSIENT"}

-----------------------------------------------------------------------------
(* Tokens. *)

Norm(t) == IF t.kind = "word" /\ t.text \in DOMAIN Upper THEN Upper[t.text] ELSE t.text
Up(t) == IF t.kind = "word" THEN Norm(t) ELSE ""
IsId(t) == t.kind \in {"word", "quoted"}
IsName(t) == t.kind = "quoted" \/ (t.kind = "word" /\ Up(t) \notin Keywords)

\* Comments are gone; ")" closes a level before it is given its depth, "(" after.
Open(ts) ==
  IF ts = <<>> THEN 0 ELSE IF Last(ts).text = "(" THEN Last(ts).depth + 1 ELSE Last(ts).depth
Placed(ts, word) ==
  Append(ts, [kind |-> word.kind, text |-> word.text,
              depth |-> IF word.text = ")" /\ Open(ts) > 0 THEN Open(ts) - 1 ELSE Open(ts)])
Tokenize(words) ==
  LET read[k \in 0 .. Len(words)] == IF k = 0 THEN <<>> ELSE Placed(read[k - 1], words[k])
  IN read[Len(words)]

Has(ts, i) == i <= Len(ts)
TextAt(ts, i) == IF Has(ts, i) THEN ts[i].text ELSE ""
UpAt(ts, i) == IF Has(ts, i) THEN Up(ts[i]) ELSE ""
From(ts, i) == SubSeq(ts, i, Len(ts))
Texts(ts) == [k \in DOMAIN ts |-> ts[k].text]

\* The first of the positions found, or otherwise.
First(found, otherwise) ==
  IF found = {} THEN otherwise ELSE CHOOSE p \in found : \A q \in found : p <= q

\* Mutant: the first parenthesis closes, whatever its depth.
MatchingFirst(ts, i) == First({p \in i + 1 .. Len(ts) : ts[p].text = ")"}, Len(ts))

Matching(ts, i) ==
  First({p \in i + 1 .. Len(ts) : ts[p].text = ")" /\ ts[p].depth = ts[i].depth}, Len(ts))

WordAt(ts, i, depth, words) ==
  First({p \in i .. Len(ts) : ts[p].depth = depth /\ Up(ts[p]) \in words}, Len(ts) + 1)

RECURSIVE NameChain(_, _)
NameChain(ts, i) ==
  IF ~Has(ts, i) \/ ~IsId(ts[i]) THEN [parts |-> <<>>, next |-> i]
  ELSE IF Has(ts, i + 2) /\ TextAt(ts, i + 1) = "." /\ IsId(ts[i + 2])
       THEN LET rest == NameChain(ts, i + 2)
            IN [parts |-> <<Norm(ts[i])>> \o rest.parts, next |-> rest.next]
       ELSE [parts |-> <<Norm(ts[i])>>, next |-> i + 1]

RECURSIVE Split(_, _)
Split(ts, depth) ==
  LET comma == First({p \in DOMAIN ts : ts[p].text = "," /\ ts[p].depth = depth}, 0)
      first == IF comma = 0 THEN ts ELSE SubSeq(ts, 1, comma - 1)
      rest == IF comma = 0 THEN <<>> ELSE Split(From(ts, comma + 1), depth)
  IN IF first = <<>> THEN rest ELSE <<first>> \o rest

\* "(C1, C2 type, ...)": the first name of each item.
FirstNames(items) ==
  LET named == SelectSeq(items, LAMBDA item : IsId(item[1]))
  IN [k \in DOMAIN named |-> Norm(named[k][1])]
ColumnList(ts, i) ==
  [columns |-> FirstNames(Split(SubSeq(ts, i + 1, Matching(ts, i) - 1), ts[i].depth + 1)),
   next |-> Matching(ts, i) + 1]

NoColumns(i) == [columns |-> <<>>, next |-> i]

QueryStart(ts, i, depth) ==
  LET as == First({p \in i .. Len(ts) - 1 :
         /\ Up(ts[p]) = "AS" /\ ts[p].depth = depth
         /\ (Up(ts[p + 1]) \in {"SELECT", "WITH"} \/ ts[p + 1].text = "(")}, 0)
  IN IF as = 0 THEN 0 ELSE as + 1

-----------------------------------------------------------------------------
(* Statements.  body = 0 where no query defines the object. *)

Statement(kind, target, columns, ts, body, after) ==
  [kind |-> kind, target |-> target, columns |-> columns, tokens |-> ts,
   body |-> body, after |-> after]
Other(ts) == Statement("OTHER", <<>>, <<>>, ts, 0, 1)

CreateKind(w1, w2) ==
  CASE w1 = "MATERIALIZED" /\ w2 = "VIEW" -> <<"CREATE_MATERIALIZED_VIEW", 2>>
    [] w1 = "DYNAMIC" /\ w2 = "TABLE" -> <<"CREATE_DYNAMIC_TABLE", 2>>
    [] w1 = "EXTERNAL" /\ w2 = "TABLE" -> <<"CREATE_EXTERNAL_TABLE", 2>>
    [] w1 = "VIEW" -> <<"CREATE_VIEW", 1>>
    [] w1 = "TABLE" -> <<"CREATE_TABLE", 1>>
    [] OTHER -> <<"", 0>>

CreateStatement(ts) ==
  LET at == First({p \in 2 .. Len(ts) : Up(ts[p]) \notin CreateModifiers}, Len(ts) + 1)
      kind == CreateKind(UpAt(ts, at), UpAt(ts, at + 1))
      past == at + kind[2]
      guarded == <<UpAt(ts, past), UpAt(ts, past + 1), UpAt(ts, past + 2)>>
                   = <<"IF", "NOT", "EXISTS">>
      name == NameChain(ts, IF guarded THEN past + 3 ELSE past)
      list == IF TextAt(ts, name.next) = "(" THEN ColumnList(ts, name.next)
                                             ELSE NoColumns(name.next)
      body == QueryStart(ts, list.next, ts[1].depth)
      cloned == \E p \in list.next .. Len(ts) :
                   Up(ts[p]) = "CLONE" /\ ts[p].depth = ts[1].depth
  IN IF kind[2] = 0 THEN Other(ts)
     ELSE Statement(CASE kind[1] = "CREATE_TABLE" /\ cloned -> "CREATE_TABLE_CLONE"
                      [] kind[1] = "CREATE_TABLE" /\ ~cloned /\ body # 0
                           -> "CREATE_TABLE_AS_SELECT"
                      [] OTHER -> kind[1],
                    name.parts, list.columns, ts, body, list.next)

InsertStatement(ts) ==
  LET at == IF UpAt(ts, 2) = "OVERWRITE" THEN 3 ELSE 2
      into == First({p \in at .. Len(ts) : Up(ts[p]) = "INTO"}, 0)
      name == NameChain(ts, IF UpAt(ts, at) = "INTO" THEN at + 1 ELSE at)
      list == IF /\ TextAt(ts, name.next) = "("
                 /\ UpAt(ts, name.next + 1) \notin {"SELECT", "WITH"}
              THEN ColumnList(ts, name.next) ELSE NoColumns(name.next)
      values == UpAt(ts, list.next) = "VALUES"
  IN IF UpAt(ts, at) \in {"ALL", "FIRST"}
     THEN Statement("MULTI_TABLE_INSERT",
                    IF into = 0 THEN <<>> ELSE NameChain(ts, into + 1).parts,
                    <<>>, ts, 0, 1)
     ELSE Statement(IF values THEN "INSERT_VALUES" ELSE "INSERT", name.parts,
                    list.columns, ts, IF values THEN 0 ELSE list.next, list.next)

IntoStatement(ts) ==
  LET name == NameChain(ts, 3)
      list == IF Up(ts[1]) = "COPY" /\ TextAt(ts, name.next) = "("
              THEN ColumnList(ts, name.next) ELSE NoColumns(name.next)
  IN IF Has(ts, 3) /\ ts[3].kind = "stage" THEN Other(ts)
     ELSE Statement(Up(ts[1]), name.parts, list.columns, ts, 0, list.next)

Describe(words) ==
  LET all == Tokenize(words)
      ts == From(all, First({p \in DOMAIN all : all[p].text # ";"}, Len(all) + 1))
      first == UpAt(ts, 1)
      name == NameChain(ts, 2)
  IN CASE ts = <<>> -> Other(ts)
       [] first = "CREATE" -> CreateStatement(ts)
       [] first = "INSERT" -> InsertStatement(ts)
       [] first \in {"MERGE", "COPY"} /\ UpAt(ts, 2) = "INTO" -> IntoStatement(ts)
       [] first = "UPDATE" -> Statement("UPDATE", name.parts, <<>>, ts, 0, name.next)
       [] first \in {"SELECT", "WITH"} \/ TextAt(ts, 1) = "("
            -> Statement("SELECT", <<>>, <<>>, ts, 1, 1)
       [] OTHER -> Other(ts)

-----------------------------------------------------------------------------
(* Queries: [branches, operators]; no branches where nothing was understood. *)

NoQuery == [branches |-> <<>>, operators |-> <<>>]
Item(ts, alias) == [tokens |-> ts, alias |-> alias, star |-> FALSE, qualifier |-> <<>>,
                    excluded |-> {}, renamed |-> {}]
Source(kind, name, alias, query) ==
  [kind |-> kind, name |-> name, alias |-> alias, query |-> query]

Reference(ts) ==
  IF /\ Len(ts) % 2 = 1
     /\ \A k \in DOMAIN ts : IF k % 2 = 0 THEN ts[k].text = "." ELSE IsName(ts[k])
  THEN [k \in 1 .. (Len(ts) + 1) \div 2 |-> Norm(ts[2 * k - 1])]
  ELSE <<>>

Output(item) == IF item.alias # <<>> THEN item.alias
                ELSE LET r == Reference(item.tokens)
                     IN IF r = <<>> THEN <<>> ELSE <<Last(r)>>

RECURSIVE Unwrap(_)
Unwrap(ts) ==
  CASE ts # <<>> /\ ts[1].text = "(" /\ Matching(ts, 1) = Len(ts)
         -> Unwrap(SubSeq(ts, 2, Len(ts) - 1))
    [] ts # <<>> /\ Last(ts).text = ";" -> Unwrap(Front(ts))
    [] OTHER -> ts

\* A column list renames the items of a CTE or subquery by position.
Renamed(query, columns) ==
  LET Rename(select) ==
        [select EXCEPT !.items = [k \in DOMAIN @ |->
           IF k <= Len(columns) /\ ~@[k].star THEN Item(@[k].tokens, <<columns[k]>>)
                                              ELSE @[k]]]
  IN [query EXCEPT !.branches = [k \in DOMAIN @ |-> Rename(@[k])]]

\* What follows "*": EXCLUDE and RENAME, each with one item or a list of them.
RECURSIVE StarOptions(_, _)
StarOptions(rest, item) ==
  LET word == UpAt(rest, 1)
      listed == TextAt(rest, 2) = "("
      end == IF listed THEN Matching(rest, 2) ELSE IF word = "RENAME" THEN 4 ELSE 2
      group == IF listed THEN Split(SubSeq(rest, 3, end - 1), rest[2].depth + 1)
               ELSE <<SubSeq(rest, 2, IF end < Len(rest) THEN end ELSE Len(rest))>>
      chosen == ToSet(group) \ {<<>>}
  IN CASE rest = <<>> -> item
       [] word = "EXCLUDE" ->
            StarOptions(From(rest, end + 1),
              [item EXCEPT !.excluded = @ \cup {Norm(g[1]) : g \in {x \in chosen : IsId(x[1])}}])
       [] word = "RENAME" ->
            StarOptions(From(rest, end + 1),
              [item EXCEPT !.renamed = @ \cup {<<Norm(Last(g)), Norm(g[1])>> :
                                               g \in {x \in chosen : Len(x) >= 3}}])
       [] word \in {"REPLACE", "ILIKE"} -> StarOptions(From(rest, end + 1), item)
       [] OTHER -> StarOptions(Tail(rest), item)

ParseItem(ts) ==
  LET n == Len(ts)
      depth == ts[1].depth
      star == IF ts[1].text = "*" THEN 1
              ELSE IF TextAt(ts, 2) = "." /\ TextAt(ts, 3) = "*" THEN 3 ELSE 0
      explicit == n >= 3 /\ Up(ts[n - 1]) = "AS" /\ ts[n - 1].depth = depth /\ IsId(ts[n])
      implicit == /\ n >= 2 /\ ts[n].depth = depth /\ IsName(ts[n])
                  /\ ts[n - 1].text \notin {".", "::", ":"}
                  /\ (ts[n - 1].kind # "op" \/ ts[n - 1].text = ")")
  IN CASE star # 0 ->
            StarOptions(From(ts, star + 1),
              [Item(<<>>, <<>>) EXCEPT !.star = TRUE,
                 !.qualifier = IF star = 3 THEN <<Norm(ts[1])>> ELSE <<>>])
       [] star = 0 /\ explicit -> Item(SubSeq(ts, 1, n - 2), <<Norm(ts[n])>>)
       [] star = 0 /\ ~explicit /\ implicit -> Item(Front(ts), <<Norm(ts[n])>>)
       [] OTHER -> Item(ts, <<>>)

Named(name, list) == [alias |-> name, columns |-> list.columns, next |-> list.next]
Alias(ts, i, depth) ==
  LET at == IF UpAt(ts, i) = "AS" THEN i + 1 ELSE i
      named == Has(ts, at) /\ IsName(ts[at]) /\ ts[at].depth = depth
  IN IF named THEN Named(<<Norm(ts[at])>>, IF TextAt(ts, at + 1) = "(" THEN ColumnList(ts, at + 1)
                                           ELSE NoColumns(at + 1))
     ELSE Named(<<>>, NoColumns(at))

\* Time travel and sampling between a table's name and its alias.
RECURSIVE PastSample(_, _)
PastSample(ts, i) ==
  IF UpAt(ts, i) \in {"AT", "BEFORE", "CHANGES", "SAMPLE", "TABLESAMPLE", "END"}
     /\ TextAt(ts, i + 1) = "("
  THEN PastSample(ts, Matching(ts, i + 1) + 1) ELSE i

\* ctes is a sequence of <<name, query>>; a later one of the same name wins.
Defined(ctes, name) == \E k \in DOMAIN ctes : ctes[k][1] = name
Lookup(ctes, name) ==
  LET at == {k \in DOMAIN ctes : ctes[k][1] = name}
  IN ctes[CHOOSE k \in at : \A j \in at : j <= k][2]

RECURSIVE ParseQuery(_, _, _), ParseCtes(_, _, _, _, _), ParseSelect(_, _, _),
          ParseSources(_, _, _, _, _)

ParseSources(ts, i, depth, ctes, budget) ==
  LET word == UpAt(ts, i)
      Go(at) == ParseSources(ts, at, depth, ctes, budget)
      Take(kind, parts, query, named) == <<Source(kind, parts, named.alias, query)>> \o Go(named.next)
      Nested(query, named) == Take("subquery", <<>>, Renamed(query, named.columns), named)
      condition == First({p \in i + 1 .. Len(ts) : /\ ts[p].depth = depth
                            /\ (ts[p].text = "," \/ Up(ts[p]) \in JoinWords)}, Len(ts) + 1)
      close == Matching(ts, i)
      name == NameChain(ts, i)
      plain == PastSample(ts, name.next)
      query == IF Len(name.parts) = 1 /\ Defined(ctes, name.parts[1])
               THEN Lookup(ctes, name.parts[1]) ELSE NoQuery
  IN IF ~Has(ts, i) THEN <<>>
     ELSE IF \/ ts[i].depth # depth \/ ts[i].text = ","
             \/ word \in JoinWords \cup {"LATERAL"} THEN Go(i + 1)
     ELSE IF word \in {"ON", "WHERE"} THEN Go(condition)
     ELSE IF word \in {"USING", "MATCH_CONDITION"} /\ Has(ts, i + 1)
          THEN Go(IF ts[i + 1].text = "(" THEN Matching(ts, i + 1) + 1 ELSE i + 1)
     ELSE IF ts[i].text = "("
          THEN Nested(ParseQuery(SubSeq(ts, i + 1, close - 1), ctes, budget - 1),
                      Alias(ts, close + 1, depth))
     ELSE IF ts[i].kind = "stage" THEN Take("other", <<>>, NoQuery, Alias(ts, i + 1, depth))
     ELSE IF ~IsId(ts[i]) THEN Go(i + 1)
     ELSE IF TextAt(ts, name.next) = "(" \* TABLE(...), FLATTEN(...): not a table
          THEN Take("other", <<>>, NoQuery, Alias(ts, Matching(ts, name.next) + 1, depth))
     ELSE Take(IF Len(name.parts) = 1 /\ Defined(ctes, name.parts[1]) THEN "cte" ELSE "table",
               name.parts, query, Alias(ts, plain, depth))

ParseSelect(ts, ctes, budget) ==
  LET depth == ts[1].depth
      past == First({p \in 2 .. Len(ts) : Up(ts[p]) \notin {"DISTINCT", "ALL"}}, Len(ts) + 1)
      start == IF UpAt(ts, past) = "TOP" THEN past + 2 ELSE past
      end == WordAt(ts, start, depth, {"FROM"} \cup QueryEndWords)
      stop == WordAt(ts, end + 1, depth, QueryEndWords)
      parts == Split(SubSeq(ts, start, end - 1), depth)
  IN [items |-> [k \in DOMAIN parts |-> ParseItem(parts[k])],
      sources |-> IF UpAt(ts, end) = "FROM"
                  THEN ParseSources(SubSeq(ts, end + 1, stop - 1), 1, depth, ctes, budget)
                  ELSE <<>>]

WithCte(ctes, name, query) == IF query = NoQuery THEN ctes ELSE Append(ctes, <<name, query>>)
MoreCtes(ts, i, depth, budget, ctes) ==
  IF TextAt(ts, i) = "," /\ ts[i].depth = depth THEN ParseCtes(ts, i + 1, depth, ctes, budget)
                                                ELSE [ctes |-> ctes, next |-> i]

\* The WITH list from i on; each body sees the CTEs before it.
ParseCtes(ts, i, depth, ctes, budget) ==
  LET list == IF TextAt(ts, i + 1) = "(" THEN ColumnList(ts, i + 1) ELSE NoColumns(i + 1)
      as == IF UpAt(ts, list.next) = "AS" THEN list.next + 1 ELSE list.next
      open == IF UpAt(ts, as) = "MATERIALIZED" THEN as + 1 ELSE as
      end == Matching(ts, open)
  IN CASE ~Has(ts, i) \/ ~IsId(ts[i]) -> [ctes |-> ctes, next |-> i]
       [] Has(ts, i) /\ IsId(ts[i]) /\ TextAt(ts, open) # "(" -> [ctes |-> ctes, next |-> open]
       [] OTHER -> MoreCtes(ts, end + 1, depth, budget,
                            WithCte(ctes, Norm(ts[i]), Renamed(
                              ParseQuery(SubSeq(ts, open + 1, end - 1), ctes, budget - 1),
                              list.columns)))

\* The pieces between UNION, INTERSECT, EXCEPT and MINUS at one depth.
RECURSIVE Branches(_, _)
Branches(ts, depth) ==
  LET at == First({p \in DOMAIN ts : ts[p].depth = depth /\ Up(ts[p]) \in SetOperators}, 0)
      all == at # 0 /\ UpAt(ts, at + 1) \in {"ALL", "DISTINCT"}
      rest == Branches(From(ts, IF all THEN at + 2 ELSE at + 1), depth)
      operator == IF all THEN <<Up(ts[at]), UpAt(ts, at + 1)>> ELSE <<Up(ts[at])>>
  IN IF at = 0 THEN [parts |-> <<ts>>, operators |-> <<>>]
     ELSE [parts |-> <<SubSeq(ts, 1, at - 1)>> \o rest.parts,
           operators |-> <<operator>> \o rest.operators]

\* A piece is a query in parentheses or a select.
ReadPart(part, ctes, budget) ==
  CASE TextAt(part, 1) = "("
         -> ParseQuery(SubSeq(part, 1, Matching(part, 1)), ctes, budget - 1).branches
    [] UpAt(part, 1) = "SELECT" -> <<ParseSelect(part, ctes, budget)>>
    [] OTHER -> <<>>

QueryOf(branches, operators) ==
  IF branches = <<>> THEN NoQuery ELSE [branches |-> branches, operators |-> operators]
ReadParts(cut, ctes, budget) ==
  QueryOf(Concat([k \in DOMAIN cut.parts |-> ReadPart(cut.parts[k], ctes, budget)]),
          cut.operators)
\* What follows the WITH list, in the scope of its CTEs.
ReadBody(ts, head, budget) ==
  ReadParts(Branches(From(ts, head.next), ts[1].depth), head.ctes, budget)

ParseQuery(given, ctes, budget) ==
  LET ts == Unwrap(given)
      with == IF UpAt(ts, 2) = "RECURSIVE" THEN 3 ELSE 2
  IN IF ts = <<>> \/ budget = 0 THEN NoQuery
     ELSE ReadBody(ts, IF UpAt(ts, 1) = "WITH"
                       THEN ParseCtes(ts, with, ts[1].depth, ctes, budget)
                       ELSE [ctes |-> ctes, next |-> 1], budget)

-----------------------------------------------------------------------------
(* Following a column to the tables it reads: extract_column_transformation *)
(* and referenced_tables. *)

\* shown: the expression of a computed column, the innermost reference otherwise.
Result(computed, text, shown, referenced, sources) ==
  [computed |-> computed, text |-> text, shown |-> shown, referenced |-> referenced,
   sources |-> sources]
Unfollowed(text) == Result(FALSE, text, <<text>>, <<text>>, <<>>)
ColumnSource(table, column, certain) ==
  [table |-> table, column |-> column, certain |-> certain]

EndsWith(s, tail) == Len(tail) <= Len(s) /\ SubSeq(s, Len(s) - Len(tail) + 1, Len(s)) = tail

Matches(source, qualifier) ==
  IF source.alias # <<>> THEN qualifier = source.alias
  ELSE source.name # <<>> /\ EndsWith(source.name, qualifier)

LastIndex(select, column) ==
  LET at == {k \in DOMAIN select.items :
               ~select.items[k].star /\ Output(select.items[k]) = <<column>>}
  IN IF at = {} THEN 0 ELSE CHOOSE k \in at : \A j \in at : j <= k

\* Only the first branch of the source's query is asked; a star may hide the column.
Outputs(source, column) ==
  /\ source.query.branches # <<>>
  /\ LET first == source.query.branches[1]
     IN \/ LastIndex(first, column) # 0
        \/ \E k \in DOMAIN first.items :
             first.items[k].star /\ column \notin first.items[k].excluded

Derived(source, column) == source.kind \in {"cte", "subquery"} /\ Outputs(source, column)

InsideCast(ts, i) ==
  LET opens == {p \in 1 .. i - 1 : ts[p].text = "(" /\ ts[p].depth + 1 = ts[i].depth}
      open == CHOOSE p \in opens : \A q \in opens : q <= p
  IN opens # {} /\ open > 1 /\ Up(ts[open - 1]) \in {"CAST", "TRY_CAST"}

\* The column references of an expression from i on, as token runs.  typed: a type
\* name follows; part: the position of a date part.
RECURSIVE References(_, _, _, _)
References(ts, i, typed, part) ==
  LET chain == NameChain(ts, i)
      next == TextAt(ts, chain.next)
      path == First({p \in i + 1 .. Len(ts) : ~(IsId(ts[p]) \/ ts[p].kind = "number"
                     \/ ts[p].text \in {".", "[", "]"})}, Len(ts) + 1)
      positional == next = "." /\ Has(ts, chain.next + 1) /\ ts[chain.next + 1].kind = "positional"
      past == IF TextAt(ts, i + 1) = "(" THEN Matching(ts, i + 1) + 1 ELSE i + 1
  IN IF ~Has(ts, i) THEN <<>>
     ELSE IF ts[i].text = "::" \/ (Up(ts[i]) = "AS" /\ InsideCast(ts, i))
          THEN References(ts, i + 1, TRUE, part)
     ELSE IF ts[i].text = ":" THEN References(ts, path, typed, part)
     ELSE IF ts[i].kind = "positional"
          THEN <<SubSeq(ts, i, i)>> \o References(ts, i + 1, typed, part)
     ELSE IF ~IsId(ts[i]) THEN References(ts, i + 1, typed /\ ts[i].text = "(", part)
     ELSE IF typed THEN References(ts, past, FALSE, part)
     ELSE IF next = "("
          THEN References(ts, chain.next, FALSE,
                          IF Up(ts[i]) \in DatePartFunctions THEN chain.next + 1 ELSE part)
     ELSE IF \/ next \in {"=>", "->"} \/ i = part
             \/ Len(chain.parts) = 1 /\ ts[i].kind = "word" /\ Up(ts[i]) \in Keywords
          THEN References(ts, chain.next, FALSE, part)
     ELSE IF positional
          THEN <<SubSeq(ts, i, chain.next + 1)>> \o References(ts, chain.next + 2, FALSE, part)
     ELSE <<SubSeq(ts, i, chain.next - 1)>> \o References(ts, chain.next, FALSE, part)

\* The branches of a set operation shown once each, with the operators between them.
Combine(results) ==
  LET Shown[n \in 0 .. Len(results)] ==
        IF n = 0 THEN [values |-> {}, text |-> <<>>]
        ELSE LET value == results[n].result.shown
             IN IF value \in Shown[n - 1].values THEN Shown[n - 1]
                ELSE [values |-> Shown[n - 1].values \cup {value},
                      text |-> Shown[n - 1].text
                        \o (IF n > 1 THEN results[n].operator ELSE <<>>) \o value]
      Of(k) == results[k].result
  IN IF Len(results) = 1 THEN Of(1)
     ELSE Result(\E k \in DOMAIN results : Of(k).computed,
                 Shown[Len(results)].text, Shown[Len(results)].text,
                 Concat([k \in DOMAIN results |-> Of(k).referenced]),
                 Concat([k \in DOMAIN results |-> Of(k).sources]))

Joined(results, operator) ==
  [j \in DOMAIN results |-> [result |-> results[j], operator |-> operator]]

RECURSIVE Column(_, _, _, _), Expression(_, _, _, _), Follow(_, _, _, _, _), Star(_, _, _)

OfBranch(branch, column, index, depth) ==
  IF index # 0 /\ index <= Len(branch.items) /\ ~branch.items[index].star
  THEN <<Expression(branch, branch.items[index].tokens, depth, index)>>
  ELSE Star(branch, column, depth)

\* Per branch, what produces the column: by position, by name, or through a star.
Column(query, column, position, depth) ==
  LET items == query.branches[1].items
      starred == \E k \in 1 .. position : k <= Len(items) /\ items[k].star
      named == {k \in DOMAIN query.branches : LastIndex(query.branches[k], column) # 0}
      index == IF position # 0 /\ ~starred THEN position
               ELSE IF named = {} THEN 0
               ELSE LastIndex(query.branches[CHOOSE k \in named : \A j \in named : k <= j], column)
      Operator(k) == IF k > 1 /\ k <= Len(query.operators) + 1 THEN query.operators[k - 1] ELSE <<>>
  IN IF depth > MaxDepth \/ query.branches = <<>> THEN <<>>
     ELSE Concat([k \in DOMAIN query.branches |->
            Joined(OfBranch(query.branches[k], column, index, depth), Operator(k))])

Expression(select, ts, depth, before) ==
  LET text == Texts(ts)
      reference == Reference(ts)
      runs == References(ts, 1, FALSE, 0)
      followed == SelectSeq(runs, LAMBDA run : Last(run).kind # "positional"
                                               /\ Reference(run) # <<>>)
  IN IF reference # <<>> THEN Follow(select, reference, text, depth, before)
     ELSE IF Len(ts) \in {1, 3} /\ Last(ts).kind = "positional" THEN Unfollowed(text)
     ELSE Result(TRUE, text, <<text>>, [k \in DOMAIN runs |-> Texts(runs[k])],
                 Concat([k \in DOMAIN followed |->
                    Follow(select, Reference(followed[k]), Texts(followed[k]), depth,
                           before).sources]))

Through(results, text) ==
  IF results = <<>> THEN Unfollowed(text) ELSE [Combine(results) EXCEPT !.text = text]

\* A reference in the scope of a select: a source it names, the CTE or subquery that
\* outputs it, an earlier alias of the same list, or the tables that may hold it.
Follow(select, parts, text, depth, before) ==
  LET name == Last(parts)
      qualifier == Front(parts)
      Kept(P(_)) == SelectSeq(select.sources, P)
      providers == Kept(LAMBDA source : Derived(source, name))
      earlier == {k \in 1 .. before - 1 : /\ k <= Len(select.items) /\ ~select.items[k].star
                                          /\ select.items[k].alias = <<name>>}
      first == CHOOSE k \in earlier : \A j \in earlier : k <= j
      candidates == IF qualifier # <<>> THEN Kept(LAMBDA source : Matches(source, qualifier))
                    ELSE IF providers # <<>> THEN SubSeq(providers, 1, 1)
                    ELSE Kept(LAMBDA source : source.kind = "table")
      named == SelectSeq(candidates, LAMBDA source : source.name # <<>>)
      source == candidates[1]
  IN IF qualifier = <<>> /\ providers = <<>> /\ earlier # {}
     THEN Expression(select, select.items[first].tokens, depth + 1, first)
     ELSE IF candidates = <<>> THEN Unfollowed(text)
     ELSE IF Len(candidates) > 1
          THEN [Unfollowed(text) EXCEPT !.sources =
                  [k \in DOMAIN named |-> ColumnSource(named[k].name, name, FALSE)]]
     ELSE IF source.kind = "table"
          THEN [Unfollowed(text) EXCEPT !.sources = <<ColumnSource(source.name, name, TRUE)>>]
     ELSE Through(Column(source.query, name, 0, depth + 1), text)

AtMostOne(s) == SubSeq(s, 1, IF s = <<>> THEN 0 ELSE 1)

\* SELECT * and q.*: through a source known to output the column, else from its tables.
OfStar(select, item, column, depth) ==
  LET old == {p \in item.renamed : p[1] = column}
      original == IF old = {} THEN column ELSE (CHOOSE p \in old : TRUE)[2]
      eligible == SelectSeq(select.sources, LAMBDA source :
                    item.qualifier = <<>> \/ Matches(source, item.qualifier))
      providers == SelectSeq(eligible, LAMBDA source : Derived(source, original))
      tables == SelectSeq(eligible, LAMBDA source : source.kind = "table")
      text == item.qualifier \o <<"*">>
  IN IF ~item.star \/ column \in item.excluded THEN <<>>
     ELSE IF providers # <<>>
          THEN <<Follow([items |-> <<>>, sources |-> SubSeq(providers, 1, 1)],
                        <<original>>, text, depth, 0)>>
     ELSE IF tables # <<>>
          THEN <<Result(FALSE, text, <<<<original>>>>, <<text>>,
                   [k \in DOMAIN tables |->
                      ColumnSource(tables[k].name, original, Len(tables) = 1)])>>
     ELSE <<>>
Star(select, column, depth) ==
  AtMostOne(Concat([k \in DOMAIN select.items |-> OfStar(select, select.items[k], column, depth)]))

-----------------------------------------------------------------------------
(* One column of a statement. *)

NotFound == [kind |-> "none", shown |-> <<>>, referenced |-> {}, sources |-> {},
             stage |-> "", branches |-> 0]
Found(kind, result, stage, n) ==
  [kind |-> kind, shown |-> result.shown, referenced |-> ToSet(result.referenced),
   sources |-> ToSet(result.sources), stage |-> stage, branches |-> n]
Transformation(result, stage, n) ==
  Found(IF result.computed THEN "EXPRESSION" ELSE "PASS_THROUGH", result, stage, n)
NoResult == Result(FALSE, <<>>, <<>>, <<>>, <<>>)

IndexOf(s, x) == First({p \in DOMAIN s : s[p] = x}, 0)

\* A target column list decides alone; without one an INSERT or COPY goes by position.
Position(statement, column, tableColumns) ==
  IF statement.columns # <<>> THEN IndexOf(statement.columns, column)
  ELSE IF statement.kind \in {"INSERT", "COPY"} THEN IndexOf(tableColumns, column) ELSE 0

Combined(results, stage, counted) ==
  IF results = <<>> THEN NotFound
  ELSE Transformation(Combine(results), stage, IF counted THEN Len(results) ELSE 1)
OfQuery(ts, position, column, stage, counted) ==
  Combined(Column(ParseQuery(ts, <<>>, MaxDepth), column, position, 0), stage, counted)

CloneOf(statement, column) ==
  LET ts == statement.tokens
      at == First({p \in DOMAIN ts : Up(ts[p]) = "CLONE" /\ ts[p].depth = ts[1].depth}, 0)
      parts == IF at = 0 THEN <<>> ELSE NameChain(ts, at + 1).parts
  IN IF parts = <<>> THEN NotFound
     ELSE Found("CLONE", [NoResult EXCEPT !.sources = <<ColumnSource(parts, column, TRUE)>>], "", 1)

\* CREATE EXTERNAL TABLE t (c type AS (expression), ...).
ExternalColumn(statement, column) ==
  LET ts == statement.tokens
      open == First({p \in DOMAIN ts : ts[p].text = "("}, 0)
      items == Split(SubSeq(ts, open + 1, Matching(ts, open) - 1), ts[open].depth + 1)
      As(item) == First({p \in DOMAIN item : Up(item[p]) = "AS" /\ TextAt(item, p + 1) = "("}, 0)
      hits == {k \in DOMAIN items : Norm(items[k][1]) = column /\ As(items[k]) # 0}
      item == items[CHOOSE k \in hits : \A j \in hits : k <= j]
      body == SubSeq(item, As(item) + 2, Matching(item, As(item) + 1) - 1)
      runs == References(body, 1, FALSE, 0)
  IN IF open = 0 \/ hits = {} THEN NotFound
     ELSE Found("EXPRESSION", Result(TRUE, Texts(body), <<Texts(body)>>,
                   [k \in DOMAIN runs |-> Texts(runs[k])], <<>>), "", 1)

\* The values a SET list assigns to the column.
SetValues(ts, depth, column) ==
  LET parts == Split(ts, depth)
      Eq(part) == First({p \in DOMAIN part : part[p].text = "="}, 0)
      hits == SelectSeq(parts, LAMBDA part : /\ Eq(part) # 0
                 /\ LET target == Reference(SubSeq(part, 1, Eq(part) - 1))
                    IN target # <<>> /\ Last(target) = column)
  IN [k \in DOMAIN hits |-> From(hits[k], Eq(hits[k]) + 1)]

Labelled(label, values) == [k \in DOMAIN values |-> <<label, values[k]>>]

\* One WHEN clause of a MERGE: its label and the value it gives the column.
WhenValues(clause, depth, column, tableColumns) ==
  LET At(word) == First({p \in DOMAIN clause : Up(clause[p]) = word}, 0)
      label == IF "NOT" \in {UpAt(clause, 2), UpAt(clause, 3)}
               THEN <<"WHEN", "NOT", "MATCHED">> ELSE <<"WHEN", "MATCHED">>
      values == At("VALUES")
      listed == SubSeq(clause, values + 2, Matching(clause, values + 1) - 1)
      given == Split(listed, depth + 1)
      columns == IF TextAt(clause, At("INSERT") + 1) = "("
                 THEN ColumnList(clause, At("INSERT") + 1).columns ELSE <<>>
      at == IndexOf(IF columns # <<>> THEN columns ELSE tableColumns, column)
  IN Labelled(label,
       IF At("UPDATE") # 0 /\ At("SET") # 0 THEN SetValues(From(clause, At("SET") + 1), depth, column)
       ELSE IF /\ At("INSERT") # 0 /\ values # 0 /\ TextAt(clause, values + 1) = "("
               /\ at # 0 /\ at <= Len(given) THEN <<given[at]>> ELSE <<>>)

\* The values as they come out in their scope, those that come to the same thing counted once.
AssignedValues(branches, results) ==
  LET firsts == SetToSortSeq({k \in DOMAIN results :
                                \A j \in 1 .. k - 1 : results[j].shown # results[k].shown}, <)
      distinct == [k \in DOMAIN firsts |-> [result |-> results[firsts[k]], operator |-> <<>>]]
      labelled == [k \in DOMAIN firsts |-> branches[firsts[k]][1] \o results[firsts[k]].text]
      combined == [Combine(distinct) EXCEPT !.computed = TRUE, !.shown = labelled]
  IN IF branches = <<>> THEN NotFound
     ELSE Transformation(IF Len(distinct) = 1 THEN distinct[1].result ELSE combined,
                         "", Len(distinct))
Assigned(scope, branches) ==
  AssignedValues(branches, [k \in DOMAIN branches |-> Expression(scope, branches[k][2], 0, 0)])

\* UPDATE and MERGE: the assigned values in the scope of the target and the sources.
Assignment(statement, column, tableColumns) ==
  LET ts == statement.tokens
      depth == ts[1].depth
      own == Alias(ts, statement.after, depth)
      target == IF statement.target = <<>> THEN <<>>
                ELSE <<Source("table", statement.target, own.alias, NoQuery)>>
      start == IF statement.target = <<>> THEN statement.after ELSE own.next
      isUpdate == statement.kind = "UPDATE"
      set == First({p \in start .. Len(ts) : Up(ts[p]) = "SET"}, 0)
      end == WordAt(ts, set + 1, depth, {"FROM", "WHERE"})
      using == First({p \in start .. Len(ts) : Up(ts[p]) = "USING"}, 0)
      on == WordAt(ts, (IF using = 0 THEN start ELSE using) + 1, depth, {"ON"})
      read == IF isUpdate
              THEN IF UpAt(ts, end) = "FROM"
                   THEN SubSeq(ts, end + 1, WordAt(ts, end + 1, depth, {"WHERE"}) - 1) ELSE <<>>
              ELSE IF using # 0 THEN SubSeq(ts, using + 1, on - 1) ELSE <<>>
      whens == SetToSortSeq({p \in on .. Len(ts) : ts[p].depth = depth /\ Up(ts[p]) = "WHEN"}, <)
      Clause(k) == SubSeq(ts, whens[k], IF k < Len(whens) THEN whens[k + 1] - 1 ELSE Len(ts))
  IN Assigned([items |-> <<>>, sources |-> target \o ParseSources(read, 1, depth, <<>>, MaxDepth)],
       IF ~isUpdate
       THEN Concat([k \in DOMAIN whens |-> WhenValues(Clause(k), depth, column, tableColumns)])
       ELSE IF set = 0 THEN <<>>
       ELSE Labelled(<<>>, SetValues(SubSeq(ts, set + 1, end - 1), depth, column)))

\* COPY INTO t FROM @stage, or FROM (SELECT ... FROM @stage).
Copy(statement, column, tableColumns) ==
  LET ts == statement.tokens
      from == statement.after + 1
      inner == SubSeq(ts, from + 1, Matching(ts, from) - 1)
      staged == SelectSeq(inner, LAMBDA token : token.kind = "stage")
  IN IF UpAt(ts, statement.after) # "FROM" \/ ~Has(ts, from) THEN NotFound
     ELSE IF ts[from].kind = "stage" THEN Found("STAGE_LOAD", NoResult, ts[from].text, 1)
     ELSE IF ts[from].text # "(" THEN NotFound
     ELSE OfQuery(inner, Position(statement, column, tableColumns), column,
                  IF staged = <<>> THEN "" ELSE staged[1].text, FALSE)

Extract(statement, column, tableColumns) ==
  LET kind == statement.kind
  IN CASE kind = "CREATE_TABLE_CLONE" -> CloneOf(statement, column)
       [] kind = "CREATE_EXTERNAL_TABLE" -> ExternalColumn(statement, column)
       [] kind \in {"MERGE", "UPDATE"} -> Assignment(statement, column, tableColumns)
       [] kind = "COPY" -> Copy(statement, column, tableColumns)
       [] kind \in {"OTHER", "INSERT_VALUES", "MULTI_TABLE_INSERT", "CREATE_TABLE"} -> NotFound
       [] OTHER -> IF statement.body = 0 THEN NotFound
                   ELSE OfQuery(From(statement.tokens, statement.body),
                                Position(statement, column, tableColumns), column, "", TRUE)

-----------------------------------------------------------------------------
(* Every table a statement reads. *)

RECURSIVE TablesOf(_)
TablesOf(query) ==
  UNION {LET source == query.branches[b].sources[k]
         IN IF source.kind = "table" THEN {source.name} ELSE TablesOf(source.query) :
         <<b, k>> \in UNION {{b} \X DOMAIN query.branches[b].sources :
                             b \in DOMAIN query.branches}}

\* The bodies of a WITH, read whether or not the final select uses them.
CteQueries(given) ==
  LET ts == Unwrap(given)
      bodies == {p \in 2 .. Len(ts) : /\ ts[p].text = "(" /\ Up(ts[p - 1]) = "AS"
                                      /\ ts[p].depth = ts[1].depth}
  IN IF UpAt(ts, 1) # "WITH" THEN {}
     ELSE {ParseQuery(SubSeq(ts, p + 1, Matching(ts, p) - 1), <<>>, MaxDepth) : p \in bodies}

ReferencedTables(statement) ==
  LET ts == statement.tokens
      body == From(ts, statement.body)
      clone == First({p \in DOMAIN ts : Up(ts[p]) = "CLONE"}, 0)
      parts == IF clone = 0 THEN <<>> ELSE NameChain(ts, clone + 1).parts
      depth == ts[1].depth
      start == WordAt(ts, 1, depth, IF statement.kind = "MERGE" THEN {"USING"} ELSE {"FROM"})
      read == SubSeq(ts, start + 1, WordAt(ts, start + 1, depth, {"ON", "WHERE"}) - 1)
  IN IF statement.kind = "CREATE_TABLE_CLONE" THEN {parts} \ {<<>>}
     ELSE (IF statement.body # 0
           THEN TablesOf(ParseQuery(body, <<>>, MaxDepth))
                \cup UNION {TablesOf(q) : q \in CteQueries(body)}
           ELSE IF statement.kind \in {"MERGE", "UPDATE"}
           THEN TablesOf([NoQuery EXCEPT !.branches = <<[items |-> <<>>,
                   sources |-> ParseSources(read, 1, depth, <<>>, MaxDepth)]>>])
           ELSE {}) \ {statement.target}

\* A plain CREATE TABLE column's declared type.
TypeStops == {"NOT", "NULL", "DEFAULT", "COMMENT", "PRIMARY", "UNIQUE", "REFERENCES", "AS"}
ColumnType(statement, column) ==
  LET ts == statement.tokens
      open == First({p \in DOMAIN ts : ts[p].text = "("}, 0)
      items == Split(SubSeq(ts, open + 1, Matching(ts, open) - 1), ts[open].depth + 1)
      hits == {k \in DOMAIN items : Len(items[k]) >= 2 /\ Norm(items[k][1]) = column}
      item == items[CHOOSE k \in hits : \A j \in hits : k <= j]
      stop == WordAt(item, 2, item[1].depth, TypeStops)
  IN IF open = 0 \/ hits = {} THEN <<>> ELSE Texts(SubSeq(item, 2, stop - 1))
=============================================================================
