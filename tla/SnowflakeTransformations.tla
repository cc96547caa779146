---------------------- MODULE SnowflakeTransformations ----------------------
(***************************************************************************)
(* The SQL behind a traced Snowflake object, as snowflake_transformation_   *)
(* service.py reads it through snowflake_metadata_client.py: what kind of   *)
(* object it is, the definition a view-like object has, the statements      *)
(* that loaded a table, and how a column comes out of them.                 *)
(*                                                                         *)
(* An account is a record of what its reads return:                        *)
(*   objects  name -> [kind, dynamic, external], what SHOW OBJECTS lists    *)
(*   views    name -> [text, secure, materialized], from SHOW VIEWS         *)
(*   dynamic  name -> text, from SHOW DYNAMIC TABLES                        *)
(*   ddl      name -> text, from GET_DDL                                    *)
(*   columns  name -> columns, from INFORMATION_SCHEMA.COLUMNS              *)
(*   recent   the statements of the last 7 days, newest first               *)
(*   older    the earlier ones inside history_lookback_days, newest first   *)
(*   fails    the reads that raise, recentFails the history page that does  *)
(* A statement is [id, target, mentions, select, success, text, sets]:      *)
(* the table it writes (None when it writes none), the tables its text      *)
(* mentions, whether it holds a SELECT, and the columns it sets. What a SQL *)
(* text says of a column is SnowflakeSql's business: here a text is its     *)
(* set of columns.                                                          *)
(***************************************************************************)
EXTENDS Naturals, Sequences, FiniteSets, SequencesExt

CONSTANTS PageScan,      \* HISTORY_FUNCTION_RESULT_LIMIT, 10,000 in the code
          HistoryLimit,  \* _HISTORY_LIMIT, 500 in the code
          HistoryPages,  \* _HISTORY_PAGES, 3
          PerTable,      \* _STATEMENTS_PER_TABLE, 5
          None

Has(f, x) == x \in DOMAIN f
Lookup(f, x) == IF Has(f, x) THEN f[x] ELSE None
Take(s, n) == SubSeq(s, 1, IF Len(s) < n THEN Len(s) ELSE n)

(***************************************************************************)
(* Object kinds.                                                           *)
(***************************************************************************)
ViewLike(type) == type \in {"VIEW", "MATERIALIZED VIEW"}
DefinedByDdl(type) == ViewLike(type) \/ type \in {"DYNAMIC TABLE", "EXTERNAL TABLE"}
LoadedTable(type) == type = "TABLE"
SearchedAsTable(type) == type = None \/ LoadedTable(type)

\* _object_type: what SHOW OBJECTS lists wins over GET_LINEAGE's dataset type.
ObjectType(acct, name, hint) ==
    LET listed == IF "objects" \in acct.fails THEN None ELSE Lookup(acct.objects, name)
        view   == IF "views" \in acct.fails THEN None ELSE Lookup(acct.views, name)
    IN IF listed = None THEN hint
       ELSE IF listed.kind = "VIEW"
            THEN IF (view # None /\ view.materialized) \/ hint = "MATERIALIZED VIEW"
                 THEN "MATERIALIZED VIEW" ELSE "VIEW"
       ELSE IF listed.dynamic THEN "DYNAMIC TABLE"
       ELSE IF listed.external THEN "EXTERNAL TABLE"
       ELSE "TABLE"

(***************************************************************************)
(* _object_ddl: SHOW's text, else GET_DDL; a secure view hides both. The    *)
(* result is [found, notices].                                             *)
(***************************************************************************)
Failed(acct, reads) == {<<"failed", r>> : r \in reads \cap acct.fails}
Definition(text, source, id) == [text |-> text, source |-> source, id |-> id]

ObjectDdl(acct, name, type) ==
    LET show == IF ViewLike(type) THEN "views" ELSE "dynamic"
        asked == IF ViewLike(type) \/ type = "DYNAMIC TABLE" THEN {show} ELSE {}
        view == IF "views" \in acct.fails THEN None ELSE Lookup(acct.views, name)
        shown == IF ViewLike(type) THEN (IF view = None THEN None ELSE view.text)
                 ELSE IF type = "DYNAMIC TABLE" /\ "dynamic" \notin acct.fails
                      THEN Lookup(acct.dynamic, name)
                 ELSE None
        text == IF shown # None THEN shown
                ELSE IF "ddl" \in acct.fails THEN None ELSE Lookup(acct.ddl, name)
    IN IF ViewLike(type) /\ view # None /\ view.secure /\ view.text = None
       THEN [found |-> << >>, notices |-> {<<"hidden", name>>}]
       ELSE [found |-> IF text = None THEN << >>
                       ELSE <<Definition(text, "OBJECT_DDL", None)>>,
             notices |-> Failed(acct, asked \cup (IF shown = None THEN {"ddl"} ELSE {}))]

(***************************************************************************)
(* Query history. A read returns the newest of the statements with one text *)
(* that load one of the tables asked for, and the ones asked for by id.     *)
(***************************************************************************)
WriteMatch(s, names) == s.select /\ s.mentions \cap names # {}
NewestOfText(s, ids) ==
    LET kept == {i \in 1..Len(s) : s[i].id \in ids
                                   \/ \A j \in 1..(i - 1) : s[j].text # s[i].text}
    IN [k \in 1..Cardinality(kept) |->
            s[CHOOSE i \in kept : Cardinality({j \in kept : j < i}) = k - 1]]

\* recent_history: of the PageScan newest statements before a point, those that match.
RecentHistory(acct, ids, names, before) ==
    LET window == Take(SubSeq(acct.recent, before + 1, Len(acct.recent)), PageScan)
        hits == SelectSeq(window, LAMBDA s : s.success
                                             /\ (s.id \in ids \/ WriteMatch(s, names)))
    IN [records |-> Take(NewestOfText(hits, ids), HistoryLimit),
        scanned |-> Len(window), oldest |-> before + Len(window)]

\* access_history_writes: the statements that wrote each table, from OBJECTS_MODIFIED.
AccessHistoryWrites(acct, table) ==
    Take(NewestOfText(SelectSeq(acct.recent \o acct.older,
                                LAMBDA s : s.target = table /\ s.success /\ s.select), {}),
         PerTable)

\* account_usage_writes: the text search for when ACCESS_HISTORY cannot be read.
AccountUsageWrites(acct, names) ==
    Take(NewestOfText(SelectSeq(acct.recent \o acct.older,
                                LAMBDA s : s.success /\ WriteMatch(s, names)), {}),
         HistoryLimit)

\* account_usage_queries
AccountUsageQueries(acct, ids) ==
    SelectSeq(acct.recent \o acct.older, LAMBDA s : s.id \in ids)

(***************************************************************************)
(* _search_recent: page back until every table and id is found, the window  *)
(* is seen whole, a page cannot be read, or HistoryPages were read.         *)
(***************************************************************************)
Pending(tables, st) == {t \in tables : st.statements[t] = << >>}
NamedBy(ids, records) == {s \in {records[i] : i \in DOMAIN records} : s.id \in ids}
Written(t, records, source) ==
    LET hits == SelectSeq(records, LAMBDA s : s.target = t)
    IN [i \in DOMAIN hits |-> [record |-> hits[i], source |-> source]]

RecentPage(acct, tables, ids, st, n) ==
    LET unnamed == {i \in ids : \A s \in st.named : s.id # i}
        names == Pending(tables, st)
        page == RecentHistory(acct, unnamed, names, st.before)
        fresh == SelectSeq(page.records, LAMBDA s : s.id \notin st.seen)
    IN IF st.done THEN st
       ELSE IF unnamed = {} /\ names = {} THEN [st EXCEPT !.done = TRUE]
       ELSE IF n = acct.recentFails
            THEN [st EXCEPT !.done = TRUE, !.notices = @ \cup {<<"failed", "recent">>}]
       ELSE [statements |-> [t \in tables |-> st.statements[t]
                                              \o Written(t, fresh, "QUERY_HISTORY")],
             named |-> st.named \cup NamedBy(ids, fresh),
             seen |-> st.seen \cup {fresh[i].id : i \in DOMAIN fresh},
             before |-> page.oldest,
             done |-> page.scanned < PageScan,
             notices |-> st.notices]

SearchRecent(acct, tables, ids) ==
    LET start == [statements |-> [t \in tables |-> << >>], named |-> {}, seen |-> {},
                  before |-> 0, done |-> FALSE, notices |-> {}]
        end == FoldLeftDomain(LAMBDA st, n : RecentPage(acct, tables, ids, st, n), start,
                              [n \in 1..HistoryPages |-> n])
    IN IF ~end.done /\ ~acct.searchAccountUsage /\ Pending(tables, end) # {}
       THEN [end EXCEPT !.notices = @ \cup {<<"partial", "recent">>}] ELSE end

\* Mutant: a history that cannot be read is an empty one.
SearchAccountUsageSilently(acct, tables, st) ==
    LET missing == Pending(tables, st)
    IN [st EXCEPT !.statements =
            [t \in tables |->
                IF t \notin missing \/ "access" \in acct.fails THEN @[t]
                ELSE LET hits == AccessHistoryWrites(acct, t)
                     IN [i \in DOMAIN hits |-> [record |-> hits[i],
                                                source |-> "ACCESS_HISTORY"]]]]

\* _search_account_usage
SearchAccountUsage(acct, tables, st) ==
    LET missing == Pending(tables, st)
        text == AccountUsageWrites(acct, missing)
        found(t) == IF "access" \notin acct.fails
                    THEN LET hits == AccessHistoryWrites(acct, t)
                         IN [i \in DOMAIN hits |-> [record |-> hits[i],
                                                    source |-> "ACCESS_HISTORY"]]
                    ELSE IF "usage" \in acct.fails THEN << >>
                    ELSE Written(t, text, "ACCOUNT_USAGE_QUERY_HISTORY")
    IN IF missing = {} THEN st
       ELSE [st EXCEPT !.statements = [t \in tables |-> IF t \in missing THEN found(t)
                                                        ELSE @[t]],
                       !.notices = @ \cup (IF "access" \in acct.fails
                                           THEN Failed(acct, {"usage"}) ELSE {})]

\* The named statements that are still missing.
SearchNamed(acct, ids, found) ==
    LET unnamed == {i \in ids : \A s \in found.named : s.id # i}
        byId == AccountUsageQueries(acct, unnamed)
    IN IF unnamed = {} THEN found
       ELSE IF "named" \in acct.fails
            THEN [found EXCEPT !.notices = @ \cup Failed(acct, {"named"})]
       ELSE [found EXCEPT !.named = @ \cup {byId[i] : i \in DOMAIN byId}]

\* _search_history
Kept(tables, all) ==
    [statements |-> [t \in tables |-> Take(all.statements[t], PerTable)],
     named |-> all.named, notices |-> all.notices]
SearchAll(acct, tables, ids, recent) ==
    Kept(tables, IF ~acct.searchAccountUsage THEN recent
                 ELSE SearchNamed(acct, ids, SearchAccountUsage(acct, tables, recent)))
SearchHistory(acct, tables, ids) == SearchAll(acct, tables, ids, SearchRecent(acct, tables, ids))

(***************************************************************************)
(* _definitions: a view-like object has one; a table has the statements     *)
(* GET_LINEAGE named, newest first, then the ones found, each once.         *)
(* A statement's id is its start time: the newest has the smallest.         *)
(***************************************************************************)
Definitions(acct, name, type, ids, search) ==
    LET named == SetToSortSeq({s \in search.named : s.id \in ids},
                              LAMBDA a, b : a.id < b.id)
        records == [i \in DOMAIN named |-> [record |-> named[i],
                                            source |-> "LINEAGE_PROCESS"]]
                   \o search.statements[name]
        first == SelectSeq([i \in DOMAIN records |-> i],
                           LAMBDA i : \A j \in 1..(i - 1) :
                                          records[j].record.id # records[i].record.id)
    IN IF DefinedByDdl(type) THEN ObjectDdl(acct, name, type).found
       ELSE IF ~SearchedAsTable(type) THEN << >>
       ELSE [k \in DOMAIN first |->
                LET r == records[first[k]]
                IN Definition(r.record.sets, r.source, r.record.id)]

\* _for_node: a statement GET_LINEAGE named for this very column goes first.
ForNode(definitions, ids) ==
    SelectSeq(definitions, LAMBDA d : d.id \in ids)
    \o SelectSeq(definitions, LAMBDA d : d.id \notin ids)

\* _table_columns and _required: the columns of a table, None when the read failed.
TableColumns(acct, name) ==
    IF "columns" \in acct.fails THEN None
    ELSE IF Has(acct.columns, name) THEN acct.columns[name] ELSE {}

(***************************************************************************)
(* _transformation: the first definition that names the column gives its    *)
(* expression; otherwise the entry says why there is none.                  *)
(***************************************************************************)
Entry(kind, definitions) ==
    [kind |-> kind, sql |-> IF definitions = << >> THEN None ELSE Head(definitions)]

Transformation(acct, name, type, column, definitions) ==
    LET naming == SelectSeq(definitions, LAMBDA d : column \in d.text)
        known == TableColumns(acct, name)
    IN IF column = None THEN Entry("OBJECT", definitions)
       ELSE IF naming # << >> THEN Entry("EXTRACTED", naming)
       ELSE IF definitions # << >>
            THEN Entry(IF SearchedAsTable(type) THEN "INGESTION_QUERY" ELSE "NOT_FOUND",
                       definitions)
       ELSE IF SearchedAsTable(type) /\ known # None /\ column \in known
            THEN Entry("BASE_COLUMN", << >>)
       ELSE Entry("NO_DEFINITION", << >>)

(***************************************************************************)
(* build: every object's kind, then one history search over the tables, the *)
(* columns of their schema and the definitions of the rest, all read once;  *)
(* then each node's entry. nodes maps an object to                          *)
(* [hint, column, ids], ids being the statements GET_LINEAGE named.         *)
(***************************************************************************)
Build(acct, nodes) ==
    LET type == [n \in DOMAIN nodes |-> ObjectType(acct, n, nodes[n].hint)]
        tables == {n \in DOMAIN nodes : SearchedAsTable(type[n])}
        ids == UNION {nodes[n].ids : n \in tables}
        search == IF tables = {} THEN [statements |-> << >>, named |-> {}, notices |-> {}]
                  ELSE SearchHistory(acct, tables, ids)
        ddl == {n \in DOMAIN nodes : DefinedByDdl(type[n])}
        shown == \E n \in DOMAIN nodes : Has(acct.objects, n) /\ acct.objects[n].kind = "VIEW"
    IN [entries |-> [n \in DOMAIN nodes |->
                        Transformation(acct, n, type[n], nodes[n].column,
                            ForNode(Definitions(acct, n, type[n], nodes[n].ids, search),
                                    nodes[n].ids))],
        types |-> type,
        notices |-> search.notices
                    \cup UNION {ObjectDdl(acct, n, type[n]).notices : n \in ddl}
                    \cup Failed(acct, {"objects"})
                    \cup (IF "objects" \notin acct.fails /\ shown
                          THEN Failed(acct, {"views"}) ELSE {})
                    \cup (IF tables # {} THEN Failed(acct, {"columns"}) ELSE {})]

(***************************************************************************)
(* infer_upstream's checks. _verified_columns keeps the candidates          *)
(* [table, column, certain] whose column the table has; of an uncertain     *)
(* column the first table that has it is kept. _verified_tables keeps the   *)
(* tables with visible columns. Neither names the object itself.            *)
(***************************************************************************)
VerifiedColumns(acct, candidates, own) ==
    LET possible(c) == c.table # own
                       /\ LET known == TableColumns(acct, c.table)
                          IN IF known = None THEN c.certain ELSE c.column \in known
        kept == SelectSeq(candidates, LAMBDA c : possible(c))
    IN {kept[i] : i \in {i \in DOMAIN kept : kept[i].certain
            \/ \A j \in 1..(i - 1) : ~(~kept[j].certain /\ kept[j].column = kept[i].column)}}

VerifiedTables(acct, names, own) ==
    {n \in names \ {own} : TableColumns(acct, n) \notin {None, {}}}

(***************************************************************************)
(* process_query_ids: a PROCESS value is one string, or a tree whose        *)
(* strings are [value, idShaped, keyed, depth]: keyed is TRUE under a key   *)
(* spelled like query_id, which is read down to depth 6.                    *)
(***************************************************************************)
ProcessQueryIds(process) ==
    {l.value : l \in {l \in process.strings :
                        l.idShaped /\ (process.whole \/ (l.keyed /\ l.depth <= 6))}}
=============================================================================
