------------------------- MODULE TransformationCases -------------------------
(***************************************************************************)
(* The accounts SnowflakeTransformations is run on: two tables in one       *)
(* schema with every short history of statements over them, and one         *)
(* object of every kind with every combination of failing reads.            *)
(***************************************************************************)
EXTENDS SnowflakeTransformations

Statement(id, target, text) ==
    [id |-> id, target |-> target, mentions |-> {"t", "u"} \cap ({target} \cup {"t"}),
     select |-> TRUE, success |-> TRUE, text |-> text, sets |-> {"c"}]

\* A statement that writes t, one that reads t and writes u, one that writes neither.
Kinds == {<<"t", "load t">>, <<"u", "t into u">>, <<None, "reads t">>}

Histories(n) == UNION {[1..k -> Kinds] : k \in 0..n}

Empty == [x \in {} |-> x]
TableObject == [kind |-> "TABLE", dynamic |-> FALSE, external |-> FALSE]

Account(recent, older, fails, recentFails, usage) ==
    [objects |-> [x \in {"t", "u"} |-> TableObject],
     views |-> Empty, dynamic |-> Empty, ddl |-> Empty,
     columns |-> [x \in {"t", "u"} |-> {"c", "d"}],
     recent |-> [i \in DOMAIN recent |-> Statement(i, recent[i][1], recent[i])],
     older |-> [i \in DOMAIN older |-> Statement(10 + i, older[i][1], older[i])],
     fails |-> fails, recentFails |-> recentFails, searchAccountUsage |-> usage]

Nodes(ids) == [n \in {"t", "u"} |-> [hint |-> "TABLE", column |-> "c",
                                     ids |-> IF n = "t" THEN ids ELSE {}]]

\* GET_LINEAGE's PROCESS: nothing, a query id alone, or one beside a parent's in a tree.
Processes ==
    LET string(value, keyed) == [value |-> value, idShaped |-> TRUE, keyed |-> keyed, depth |-> 1]
    IN {[whole |-> FALSE, strings |-> {}], [whole |-> TRUE, strings |-> {string(2, FALSE)}],
        [whole |-> FALSE, strings |-> {string(2, TRUE), string(1, FALSE)}]}

HistoryCases ==
    {[acct |-> Account(r, o, f, k, a), nodes |-> Nodes(ProcessQueryIds(p))] :
        r \in Histories(3), o \in Histories(1),
        f \in SUBSET {"access", "usage"}, k \in {0, 2}, a \in BOOLEAN, p \in Processes}

\* One object v of every kind, listed or not, with every mix of failing reads.
Objects == {Empty} \cup
    {[x \in {"v"} |-> [kind |-> k, dynamic |-> d, external |-> e]] :
        k \in {"TABLE", "VIEW"}, d \in BOOLEAN, e \in BOOLEAN}
Views == {Empty} \cup
    {[x \in {"v"} |-> [text |-> t, secure |-> s, materialized |-> s]] :
        t \in {None, {"c"}}, s \in BOOLEAN}
Texts == {Empty, [x \in {"v"} |-> {"c"}]}

ObjectCases ==
    {[acct |-> [Account(<< >>, << >>, f, 0, FALSE) EXCEPT
                    !.objects = o, !.views = v, !.dynamic = Empty, !.ddl = d],
      nodes |-> [n \in {"v"} |-> [hint |-> h, column |-> "c", ids |-> {}]]] :
        o \in Objects, v \in Views, d \in Texts, h \in {None, "VIEW", "DYNAMIC TABLE"},
        f \in SUBSET {"objects", "views", "ddl"}}

\* What the SQL of an object o names, one or two columns, of tables it can or cannot read.
Candidates == UNION {[1..k -> [table : {"o", "t", "u"}, column : {"c", "d"}, certain : BOOLEAN]]
                        : k \in 1..2}
InferenceCases ==
    {[acct |-> [Account(<< >>, << >>, f, 0, FALSE) EXCEPT !.columns = [o |-> {"c"}, t |-> v]],
      named |-> s] : s \in Candidates, v \in {{}, {"c"}, {"c", "d"}}, f \in {{}, {"columns"}}}
Cases == {<<"build", c>> : c \in HistoryCases \cup ObjectCases}
         \cup {<<"infer", c>> : c \in InferenceCases}

Verdict(c) ==
    IF c[1] = "build" THEN Build(c[2].acct, c[2].nodes)
    ELSE [columns |-> VerifiedColumns(c[2].acct, c[2].named, "o"),
          tables |-> VerifiedTables(c[2].acct, {c[2].named[i].table : i \in DOMAIN c[2].named},
                                    "o")]

\* The statements a search could have returned for a table.
InReach(acct) == IF acct.searchAccountUsage THEN acct.recent \o acct.older
                 ELSE acct.recent

\* No search was cut at the limit of statements it returns.
Uncut(acct) == Len(acct.recent) + Len(acct.older) <= HistoryLimit

Searched(c, v) ==
    v.notices = {} /\ Uncut(c.acct) =>
        \A n \in DOMAIN c.nodes :
            v.entries[n].kind \in {"BASE_COLUMN", "NO_DEFINITION"} =>
                /\ SearchedAsTable(v.types[n]) =>
                     \A i \in DOMAIN InReach(c.acct) : InReach(c.acct)[i].target # n
                /\ DefinedByDdl(v.types[n]) =>
                     /\ ~Has(c.acct.ddl, n)
                     /\ ViewLike(v.types[n]) /\ Has(c.acct.views, n) =>
                          c.acct.views[n].text = None

(***************************************************************************)
(* An entry that says a table has no ingestion history, or an object no     *)
(* definition, is the truth unless something warned: no statement in reach  *)
(* wrote that table, and SHOW and GET_DDL hold no text of the object.       *)
(***************************************************************************)
SilenceMeansSearched(c, v) ==
    c[1] = "build" => Searched(c[2], v)

(***************************************************************************)
(* A column inferred from SQL is one its table has, unless the table cannot *)
(* be read, and then the SQL qualified it; the object is never its own      *)
(* source, no qualified column of a readable table is lost, and an          *)
(* unqualified column is given to one table.                                *)
(***************************************************************************)
InferredIsReal(c, v) ==
    c[1] = "infer" =>
        LET acct == c[2].acct
            named == {c[2].named[i] : i \in DOMAIN c[2].named}
            readable == "columns" \notin acct.fails
            has(t, x) == t \in DOMAIN acct.columns /\ x \in acct.columns[t]
        IN /\ v.columns \subseteq named
           /\ \A k \in v.columns : k.table # "o"
                                    /\ IF readable THEN has(k.table, k.column) ELSE k.certain
           /\ \A k \in named : k.certain /\ k.table # "o" /\ has(k.table, k.column)
                                => k \in v.columns
           /\ \A j, k \in v.columns : ~j.certain /\ ~k.certain /\ j.column = k.column => j = k
           /\ \A t \in v.tables : readable /\ t # "o" /\ \E x \in {"c", "d"} : has(t, x)
=============================================================================
