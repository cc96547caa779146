--------------------------- MODULE PowerAiAgents ---------------------------
(***************************************************************************)
(* What Power AI's fixed routing makes of a question: the intent it reads   *)
(* into it, the agent that gathers evidence, and the answer's status.       *)
(*                                                                         *)
(* A question is [kind, says]: kind is "greeting", "thanks", "help" or      *)
(* None, says the keyword lists the message mentions.  view is what the     *)
(* client says is open: [workspace, report, model, type, id, name]; type is *)
(* the selected object's.  The context resolved from it is [object, found,  *)
(* code, conflict, lineage, notes, report, model, inventory]: the resolved  *)
(* object's type, whether the model holds it, whether it has DAX, whether   *)
(* XMLA disagrees with it, whether it has sources, dependencies or impact,  *)
(* whether resolving left notes, whether the definitions of the report and  *)
(* of the model were read, and "listed", "unlisted" or None for the         *)
(* workspace's inventory.                                                   *)
(***************************************************************************)
EXTENDS Naturals, Sequences, FiniteSets

CONSTANT None

Statuses == {"answered", "ambiguous", "insufficient_evidence", "conflicting_evidence", "out_of_scope"}
Contexts == [object : {None} \cup STRING, found : BOOLEAN, code : BOOLEAN, conflict : BOOLEAN,
             lineage : BOOLEAN, notes : BOOLEAN, report : BOOLEAN, model : BOOLEAN,
             inventory : {None, "listed", "unlisted"}]

-----------------------------------------------------------------------------
(* intent.py                                                                *)

IsWorkspaceView(view) ==
    view.workspace /\ ~(view.report \/ view.model \/ view.type # None \/ view.id \/ view.name)
IsModelView(view) == view.model /\ ~(view.report \/ view.type # None \/ view.name)
IsReportView(view) == view.report /\ view.type = None

\* classify_intent: the first rule that applies.
ClassifyIntent(q, view) ==
    LET says(words) == words \cap q.says # {}
        impact == says({"impact"})
        rules == <<
            <<q.kind # None, "capabilities">>,
            <<says({"workspace"}) /\ ~impact, "workspace">>,
            <<view.type = "report" /\ ~impact, "report">>,
            <<says({"inventory"}) /\ IsWorkspaceView(view) /\ says({"nouns"}), "workspace">>,
            <<says({"inventory"}), "model">>,
            <<impact, "impact">>,
            <<view.type \in {"measure", "calculated_column"}, "measure">>,
            <<view.type \in {"column", "table"}, "impact">>,
            <<IsWorkspaceView(view) /\ says({"context", "nouns"}), "workspace">>,
            <<IsModelView(view) /\ says({"context", "report", "source"}), "model">>,
            <<IsReportView(view) /\ says({"context", "report", "source"}), "report">>,
            <<says({"context"}), "model">>,
            <<says({"measure"}), "measure">>,
            <<says({"report"}), "report">>,
            <<TRUE, "out_of_scope">> >>
        first == CHOOSE i \in DOMAIN rules : rules[i][1] /\ \A j \in 1 .. i - 1 : ~rules[j][1]
    IN rules[first][2]

WantsWorkspaceInventory(q, view) ==
    /\ view.workspace
    /\ \/ IsWorkspaceView(view)
       \/ ClassifyIntent(q, view) = "workspace"
       \/ {"inventory", "nouns"} \subseteq q.says

-----------------------------------------------------------------------------
(* The agents.  A bundle is [evidence, status, agent, missing]; evidence is *)
(* the dossiers it comes from.                                              *)

Dossiers == {"object", "search", "report", "model", "workspace"}
ObjectDossier(c) == IF c.object # None /\ c.model /\ c.found THEN {"object"} ELSE {}
ReportDossier(c) == IF c.report THEN {"report"} ELSE {}
ModelDossier(c) == IF c.model THEN {"model"} ELSE {}
WorkspaceDossier(c) == IF c.inventory # None THEN {"workspace"} ELSE {}

BuildBundle(agent, evidence, status, missing) ==
    [evidence |-> evidence, status |-> status, agent |-> agent, missing |-> missing]
CanAnswer(bundle) == bundle.status = "answered" /\ bundle.evidence # {}

Unresolved(c, agent) ==
    BuildBundle(agent, {}, IF c.notes THEN "ambiguous" ELSE "insufficient_evidence", {"unresolved"})

MeasureAgent(c) ==
    IF c.object \notin {"measure", "calculated_column"} THEN Unresolved(c, "measure")
    ELSE IF ~(c.model /\ c.found /\ c.code)
    THEN BuildBundle("measure", {}, "insufficient_evidence", {"no definition"})
    ELSE IF c.object = "measure" /\ c.conflict
    THEN BuildBundle("measure", {"object"}, "conflicting_evidence", {})
    ELSE BuildBundle("measure", {"object"}, "answered", {})

ImpactAgent(c) ==
    IF c.object = None THEN Unresolved(c, "impact")
    ELSE IF ObjectDossier(c) = {} \/ ~c.lineage
    THEN BuildBundle("impact", {}, "insufficient_evidence", {"no lineage"})
    ELSE BuildBundle("impact", {"object"}, "answered", {})

ReportAgent(c) ==
    IF ~c.report THEN BuildBundle("report", {}, "insufficient_evidence", {"no report"})
    ELSE BuildBundle("report", ReportDossier(c), "answered", {})

WorkspaceAgent(c) ==
    IF c.inventory # "listed"
    THEN BuildBundle("workspace", {}, "insufficient_evidence", {"not listed"})
    ELSE BuildBundle("workspace", WorkspaceDossier(c), "answered", {})

SemanticModelAgent(c) ==
    LET open == ReportDossier(c) \cup ModelDossier(c)
    IN IF open # {} THEN BuildBundle("model", open, "answered", {})
       ELSE IF c.inventory = "listed"
       THEN BuildBundle("model", WorkspaceDossier(c), "answered", {"open something"})
       ELSE BuildBundle("model", {}, "insufficient_evidence", {"nothing open"})

\* Supervisor._fallback: what is known about what is open, with the note; a question no agent
\* is for has no bundle of its own.
Fallback(c, original, note) ==
    LET overview == SemanticModelAgent(c)
    IN IF CanAnswer(overview) THEN [overview EXCEPT !.missing = @ \cup note] ELSE original

\* Supervisor.handle
Handle(q, view, c) ==
    LET intent == ClassifyIntent(q, view)
        bundle == CASE intent = "measure" -> MeasureAgent(c)
                    [] intent = "impact" -> ImpactAgent(c)
                    [] intent = "report" -> ReportAgent(c)
                    [] intent = "workspace" -> WorkspaceAgent(c)
                    [] intent = "out_of_scope" -> BuildBundle(None, {}, "out_of_scope", {"out of scope"})
                    [] OTHER -> SemanticModelAgent(c)
        note == IF bundle.missing = {} THEN {"out of scope"} ELSE bundle.missing
    IN IF CanAnswer(bundle) \/ bundle.agent = "model" THEN bundle ELSE Fallback(c, bundle, note)

\* The registry, by the context a tool requires.
ModelTools == {"explain_object", "object_lineage", "model_overview", "search_model", "physical_sources"}
ReportTools == {"report_overview", "report_visuals"}
Tools == ModelTools \cup ReportTools \cup {"workspace_overview"}
\* available_tools
AvailableTools(c) ==
    (IF c.model THEN ModelTools ELSE {}) \cup (IF c.report THEN ReportTools ELSE {})
    \cup (IF c.inventory # None THEN {"workspace_overview"} ELSE {})

\* What a tool finds, called for the object the model names: whether the model holds it.
RunTool(c, tool, held) ==
    CASE tool \notin AvailableTools(c) -> {}
      [] tool \in {"explain_object", "object_lineage"} /\ c.model -> IF held THEN {"object"} ELSE {}
      [] tool = "search_model" /\ c.model -> IF held THEN {"search"} ELSE {}
      [] tool \in {"model_overview", "physical_sources"} /\ c.model -> ModelDossier(c)
      [] tool = "workspace_overview" /\ c.inventory # None -> WorkspaceDossier(c)
      [] tool \in ReportTools /\ c.report -> ReportDossier(c)
=============================================================================
