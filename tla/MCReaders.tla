----------------------------- MODULE MCReaders -----------------------------
(***************************************************************************)
(* The sequential readers on every case of their families: a case is        *)
(* chosen, the code's answer computed, and the answer judged.               *)
(***************************************************************************)
EXTENDS Naturals, Sequences

CONSTANT None
VARIABLES family, case, verdict
vars == <<family, case, verdict>>

Upper == [a |-> "A", t |-> "T"]
Schema == [T |-> <<"A", "B">>, V |-> <<"C", "D">>]
Sql == INSTANCE SqlCases WITH MaxDepth <- 6

Transformations == INSTANCE TransformationCases
                   WITH PageScan <- 1, HistoryLimit <- 3, HistoryPages <- 2, PerTable <- 2

Models == INSTANCE ModelCases

Score(a, b) == IF a = b THEN 100 ELSE IF a = "gone" THEN 60 ELSE 0
Reports == INSTANCE DossierCases WITH MaxSuggestions <- 2, Similarity <- Score, MaxRelated <- 2,
                                     SearchLimit <- 5, MaxVisuals <- 3, MaxListed <- 2

Init ==
    /\ verdict = << >>
    /\ \/ family = "models" /\ case \in Models!Cases
       \/ family = "transformations" /\ case \in Transformations!Cases
       \/ family = "reports" /\ case \in Reports!Cases
       \/ family = "graphs" /\ case \in Reports!GraphQuestions
       \/ family = "dossiers" /\ case \in Reports!DossierQuestions
       \/ family = "sql" /\ case \in Sql!Cases
Pending(kind) == family = kind /\ verdict = << >> /\ UNCHANGED <<family, case>>
ReadModel == Pending("models") /\ verdict' = <<Models!Verdict(case)>>
SearchTransformations == Pending("transformations") /\ verdict' = <<Transformations!Verdict(case)>>
BuildRows == Pending("reports") /\ verdict' = <<Reports!Verdict(case)>>
BuildGraph == Pending("graphs") /\ verdict' = <<Reports!GraphVerdict(case)>>
WriteDossiers == Pending("dossiers") /\ verdict' = <<Reports!DossierVerdict(case)>>
ReadSql == Pending("sql") /\ verdict' = <<Sql!Verdict(case)>>
Next == ReadModel \/ SearchTransformations \/ BuildRows \/ BuildGraph \/ WriteDossiers \/ ReadSql

Spec == Init /\ [][Next]_vars

\* What snowflake_sql.py says a statement reads is what it reads.
SqlIsReadRight ==
    family = "sql" /\ verdict # << >> => Sql!RealSources(case, verdict[1])

\* What snowflake_transformation_service.py does not show was searched for, and what it
\* infers is real.
TransformationsAreTrue ==
    family = "transformations" /\ verdict # << >> =>
        /\ Transformations!SilenceMeansSearched(case, verdict[1])
        /\ Transformations!InferredIsReal(case, verdict[1])

\* A model is read from its definition as it was written, and the dependencies between its
\* objects are those of their expressions (semantic_model_definition_parser.py,
\* dax_dependency_service.py).
ModelsAreRead ==
    family = "models" /\ verdict # << >> => Models!ReadsModelsRight(case, verdict[1])

\* A report's pages, visuals and fields are all kept, and the database columns shown behind a
\* field are the ones it is made of (report_definition_normalizer.py,
\* report_visual_source_column_service.py).
ReportRowsAreReal ==
    family = "reports" /\ verdict # << >> => Reports!RowsAreReal(case, verdict[1])

\* A lineage graph says what reaches what and how far, its searches page over every match, and
\* a gateway that fails costs a live scan only its own sources (lineage_graph_service.py,
\* impact_analysis_service.py, live_lineage_scan_service.py, lineage_search_service.py).
GraphsAreWhole ==
    family = "graphs" /\ verdict # << >> => Reports!GraphsAreWhole(case, verdict[1])

\* What Power AI is given to answer from: the objects, visuals, source columns and reports a
\* dossier names are the right ones, and what it leaves out it says (ai/context/resolver.py,
\* ai/tools/dossier_tools.py).
DossiersAreTrue ==
    family = "dossiers" /\ verdict # << >> => Reports!DossiersAreTrue(case, verdict[1])
=============================================================================
