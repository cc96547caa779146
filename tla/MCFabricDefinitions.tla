------------------------- MODULE MCFabricDefinitions -------------------------
(***************************************************************************)
(* FabricDefinitions with two requests, a wait of four seconds, calls that  *)
(* last up to two, and a provider that asks for no pause, for one second or  *)
(* for three.                                                               *)
(***************************************************************************)
EXTENDS FabricDefinitions

MCRetryHeaders == {0, 1, 3}

Part(path, type, content, bytes) ==
    [object |-> TRUE, path |-> path, payload |-> TRUE, type |-> type,
     bytes |-> bytes, content |-> content]

Good == Part("json", "InlineBase64", "json", 2)
Skipped == Part("other", "Other", "binary", 2)

\* Whole bodies, one that is no object, and one fault of a part each.
MCBodies ==
    {[shape |-> "object", parts |-> p] :
        p \in {<<Good, Skipped>>, <<Good, Good>>,
               <<Skipped, Part("json", "InlineBase64", "text", 1)>>,
               <<Good, Part("structural", "InlineBase64", "json", 3)>>}}
    \cup {[shape |-> "unformatted", parts |-> <<Good>>]}
    \cup {[shape |-> s, parts |-> << >>] : s \in {"list", "text"}}

=============================================================================
