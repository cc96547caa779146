----------------------------- MODULE MCPowerAi -----------------------------
(* Power AI's requests: two at once, of two users who know one conversation. *)
EXTENDS PowerAi

Nothing == [object |-> None, found |-> FALSE, code |-> FALSE, conflict |-> FALSE, lineage |-> FALSE,
            notes |-> FALSE, report |-> FALSE, model |-> FALSE, inventory |-> None]
Closed == [workspace |-> FALSE, report |-> FALSE, model |-> FALSE, type |-> None, id |-> FALSE,
           name |-> FALSE]
Ask0(kind, says, view, context) == [q |-> [kind |-> kind, says |-> says], view |-> view, context |-> context]

Thanks == Ask0("thanks", {}, Closed, Nothing)
Unanswerable == Ask0(None, {"measure"}, [Closed EXCEPT !.type = "measure", !.name = TRUE], Nothing)
Unlisted == Ask0(None, {"nouns", "report"}, [Closed EXCEPT !.workspace = TRUE],
                 [Nothing EXCEPT !.inventory = "unlisted"])
Explained == Ask0(None, {"measure"}, [Closed EXCEPT !.model = TRUE, !.type = "measure", !.name = TRUE],
                  [Nothing EXCEPT !.object = "measure", !.found = TRUE, !.code = TRUE, !.model = TRUE])

Asked == {Thanks, Unanswerable, Unlisted, Explained}
CallSets == {<<[tool |-> "explain_object", held |-> TRUE]>>,
             <<[tool |-> "forecast", held |-> TRUE], [tool |-> "workspace_overview", held |-> TRUE]>>}
Written == {[summary |-> TRUE, claims |-> <<{"object"}, {"E9"}>>],
            [summary |-> FALSE, claims |-> <<{"object"}>>]}
Alike == Permutations(Requests)
=============================================================================
