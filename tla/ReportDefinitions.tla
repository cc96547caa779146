-------------------------- MODULE ReportDefinitions --------------------------
(***************************************************************************)
(* A report as read from its PBIR definition: its pages, its visuals and    *)
(* the model's fields each visual uses; and those fields matched with the   *)
(* objects of a semantic model.                                             *)
(*                                                                         *)
(* A definition holds the parts the decoder could read: properties          *)
(* (definition.pbir), metadata (pages.json), pages [folder, payload] and    *)
(* visuals [page, folder, payload]; pbir says whether any lies under        *)
(* definition/.  A payload that is no JSON object is None.  Names and       *)
(* folders are numbers, so that they have an order.                         *)
(*                                                                         *)
(* A field expression is [own, inner]: own holds the keys the extractor     *)
(* knows, inner the dictionaries under its other keys but Literal.          *)
(***************************************************************************)
EXTENDS SemanticModels, Integers

CONSTANTS MaxSuggestions, Similarity(_, _)

Or(a, b) == IF a = None THEN b ELSE a

DetectFormat(def) ==
    IF def.reported = "PBIR" \/ def.pbir THEN "PBIR"
    ELSE IF def.reported = "PBIR-Legacy" \/ def.legacy THEN "PBIR-Legacy"
    ELSE "Unknown"

\* The model the report is bound to.
ExtractSemanticModel(properties) ==
    CASE properties.reference = None -> None
      [] properties.reference # None /\ properties.path # None -> [mode |-> "by_path", id |-> None]
      [] properties.reference # None /\ properties.path = None /\ properties.connected ->
           [mode |-> "by_connection", id |-> properties.reference]
      [] OTHER -> [mode |-> "unknown", id |-> None]

\* A title's objects in order, until one has a static text.
ExtractTitle(objects) ==
    LET static == {i \in DOMAIN objects : objects[i].text \notin {None, "dynamic"}}
        read == IF static = {} THEN Len(objects) ELSE CHOOSE i \in static : \A j \in static : i <= j
        shown == {i \in 1..read : objects[i].show # None}
    IN [title |-> IF static = {} THEN None ELSE objects[read].text,
        visible |-> IF shown = {} THEN None
                    ELSE objects[CHOOSE i \in shown : \A j \in shown : j <= i].show,
        dynamic |-> static = {} /\ \E i \in DOMAIN objects : objects[i].text = "dynamic"]

-----------------------------------------------------------------------------
(* visual_field_reference_extractor: the fields a visual uses.              *)

Priority == <<"column", "measure", "aggregation", "hierarchy_level", "hierarchy",
              "visual_calculation">>
Foremost(own) ==
    LET at(k) == CHOOSE i \in DOMAIN Priority : Priority[i] = k.kind
    IN CHOOSE k \in own : \A l \in own : at(k) <= at(l)

Reference(key, use, function) ==
    [type |-> key.kind, table |-> key.table, hierarchy |-> key.hierarchy, name |-> key.name,
     use |-> use, function |-> IF key.kind = "column" THEN function ELSE None]

\* _parse_field_expression: the first known key alone, else whatever lies deeper.
RECURSIVE ParseField(_, _, _)
ParseField(field, use, function) ==
    IF field.own = {}
    THEN UNION {ParseField(field.inner[i], use, function) : i \in DOMAIN field.inner}
    ELSE LET key == Foremost(field.own)
         IN IF key.kind = "aggregation" THEN ParseField(key.of, use, key.function)
            ELSE IF key.kind # "visual_calculation"
                    /\ key.table = None /\ key.name = None /\ key.hierarchy = None THEN {}
            ELSE {Reference(key, use, function)}

\* Projections and sorts of the query and the filters beside it; a container without a
\* visual has none.
VisualFields(payload) ==
    IF payload.type = None THEN {}
    ELSE UNION {ParseField(payload.fields[i].field, payload.fields[i].use, None)
                  : i \in {i \in DOMAIN payload.fields :
                             payload.fields[i].use = "filter" \/ payload.query}}

-----------------------------------------------------------------------------
(* ReportDefinitionNormalizer                                               *)

NormalizeVisual(visual) ==
    [id |-> visual.folder, name |-> Or(visual.payload.name, visual.folder),
     type |-> visual.payload.type, tab |-> visual.payload.tab,
     title |-> ExtractTitle(IF visual.payload.type = None THEN << >> ELSE visual.payload.title),
     references |-> VisualFields(visual.payload)]

\* Those with a position before those without, then by name.
Before(a, b) ==
    IF a.at = None \/ b.at = None THEN IF a.at = b.at THEN a.id < b.id ELSE b.at = None
    ELSE a.at < b.at \/ (a.at = b.at /\ a.id < b.id)

NormalizeVisuals(def, folder) ==
    LET here == SelectSeq(def.visuals, LAMBDA v : v.page = folder)
        visuals == [i \in DOMAIN here |-> NormalizeVisual(here[i])]
    IN SortSeq(visuals, LAMBDA v, w : Before([at |-> v.tab, id |-> v.id], [at |-> w.tab, id |-> w.id]))

NormalizePage(def, page) ==
    LET name == Or(page.payload.name, page.folder)
        placed == {i \in DOMAIN def.metadata.order : def.metadata.order[i] = name}
    IN [name |-> name, active |-> name = def.metadata.active,
        order |-> IF placed = {} THEN None ELSE CHOOSE i \in placed : \A j \in placed : i <= j,
        visuals |-> NormalizeVisuals(def, page.folder)]

\* _normalize_pbir_pages; a page or a visual of a page that is no object refuses the report.
NormalizePages(def) ==
    LET pages == [i \in DOMAIN def.pages |-> NormalizePage(def, def.pages[i])]
    IN SortSeq(pages, LAMBDA p, q : Before([at |-> p.order, id |-> p.name], [at |-> q.order, id |-> q.name]))
Unreadable(def) ==
    \/ \E p \in Items(def.pages) : p.payload = None
    \/ \E v \in Items(def.visuals) : v.payload = None /\ \E p \in Items(def.pages) : p.folder = v.page

Normalize(def) ==
    LET format == DetectFormat(def)
    IN IF def.properties = None \/ (format = "PBIR" /\ Unreadable(def)) THEN [status |-> "refused"]
       ELSE [status |-> "read", format |-> format, model |-> ExtractSemanticModel(def.properties),
             pages |-> IF format = "PBIR" THEN NormalizePages(def) ELSE << >>,
             warned |-> \/ format # "PBIR"
                        \/ \E p \in Items(def.pages) : p.payload.name \notin {None, p.folder}]

-----------------------------------------------------------------------------
(* _SemanticModelIndex: the model's object of a reference.                  *)

Object(type, table, hierarchy, name) ==
    [type |-> type, table |-> table, hierarchy |-> hierarchy, name |-> name]

Hierarchies(model) ==
    UNION {{Object("hierarchy", t.name, h.name, h.name) : h \in Items(t.hierarchies)} : t \in Items(model.tables)}
Levels(model) ==
    UNION {UNION {{Object("hierarchy_level", t.name, h.name, l.name) : l \in Items(h.levels)}
                    : h \in Items(t.hierarchies)} : t \in Items(model.tables)}

\* A name finds the column of that name, else the first read from a source column of it.
ColumnNamed(model, table, name) ==
    LET named == {c \in Columns(model) : c = <<table, name>>}
        from(t) == {i \in DOMAIN t.columns : t.columns[i].sourceColumn = name}
        sourced == {t \in Items(model.tables) : t.name = table /\ from(t) # {}}
    IN IF named # {} THEN {Object("column", table, None, name)}
       ELSE {Object("column", table, None,
                    t.columns[CHOOSE i \in from(t) : \A j \in from(t) : i <= j].name) : t \in sourced}

Found(model, ref) ==
    CASE ref.type = "column" -> ColumnNamed(model, ref.table, ref.name)
      [] ref.type = "measure" ->
           {Object("measure", m[1], None, m[2]) : m \in {m \in Measures(model) : m = <<ref.table, ref.name>>}}
      [] ref.type = "hierarchy" ->
           {h \in Hierarchies(model) : h.table = ref.table /\ h.name = Or(ref.hierarchy, ref.name)}
      [] ref.type = "hierarchy_level" ->
           {l \in Levels(model) : l.table = ref.table /\ l.hierarchy = ref.hierarchy /\ l.name = ref.name}

\* Why find finds nothing.
Reason(model, ref) ==
    LET level == ref.type = "hierarchy_level"
    IN CASE ref.type = "visual_calculation" -> "visual_calculation"
         [] ref.type # "visual_calculation" /\ ref.table = None -> "missing_table_name"
         [] ref.type # "visual_calculation" /\ ref.table # None
              /\ ref.table \notin TableNames(model) -> "table_not_found"
         [] ref.table \in TableNames(model) /\ level /\ ref.hierarchy = None -> "missing_hierarchy_name"
         [] ref.table \in TableNames(model) /\ (level => ref.hierarchy # None) /\ ref.name = None ->
              IF level THEN "missing_level_name" ELSE "missing_object_name"
         [] ref.table \in TableNames(model) /\ ref.name # None /\ level /\ ref.hierarchy # None ->
              IF \E h \in Hierarchies(model) : h.table = ref.table /\ h.name = ref.hierarchy
              THEN "hierarchy_level_not_found" ELSE "hierarchy_not_found"
         [] OTHER -> IF ref.type = "hierarchy" THEN "hierarchy_not_found" ELSE "object_not_found"

Objects(model, type) ==
    CASE type = "column" -> {Object(type, c[1], None, c[2]) : c \in Columns(model)}
      [] type = "measure" -> {Object(type, m[1], None, m[2]) : m \in Measures(model)}
      [] type = "hierarchy" -> Hierarchies(model)
      [] type = "hierarchy_level" -> Levels(model)
      [] OTHER -> {}

\* _candidate_for_object: the confidence, in hundredths, that an object was meant; 0 is none.
Confidence(ref, object) ==
    LET near == Similarity(ref.name, object.name)
        nearTable == IF ref.table = None THEN 0 ELSE Similarity(ref.table, object.table)
    IN CASE ref.table = object.table /\ near >= 60 -> Least(90, 55 + (near * 35) \div 100)
         [] ~(ref.table = object.table /\ near >= 60) /\ ref.name = object.name -> 75
         [] ref.table # object.table /\ ref.name # object.name /\ nearTable >= 75 /\ near >= 50 ->
              Least(70, 35 + ((nearTable + near) * 35) \div 200)
         [] OTHER -> 0

Suggestions(model, ref) ==
    LET meant == IF ref.name = None THEN {}
                 ELSE {o \in Objects(model, ref.type) : Confidence(ref, o) > 0}
        better(o, p) == Confidence(ref, o) > Confidence(ref, p)
    IN {o \in meant : Cardinality({p \in meant : better(p, o)}) < MaxSuggestions}

\* find: the object and why there is none.
Match(model, ref) ==
    LET named == ref.type # "visual_calculation" /\ ref.table \in TableNames(model)
                 /\ Or(ref.hierarchy, ref.name) # None
        found == IF named THEN Found(model, ref) ELSE {}
    IN IF found # {} THEN [object |-> CHOOSE o \in found : TRUE, reason |-> None, suggestions |-> {}]
       ELSE [object |-> None, reason |-> Reason(model, ref), suggestions |-> Suggestions(model, ref)]

\* ReportSemanticLineageService.match: one entry for each field of each visual.
MatchReport(report, model) ==
    UNION {UNION {{[page |-> p.name, visual |-> v.id, ref |-> r, match |-> Match(model, r)]
                     : r \in v.references} : v \in Items(p.visuals)} : p \in Items(report.pages)}
=============================================================================
