--------------------------- MODULE Concatenation ---------------------------
(***************************************************************************)
(* Joining the sequences a reader collects.  FlattenSeq of SequencesExt     *)
(* takes the length of its argument at every step, which evaluates a part   *)
(* that is itself computed once per step; here each part is computed once.  *)
(***************************************************************************)
EXTENDS Naturals, Sequences, FiniteSets

Concat(parts) ==
    LET upTo[i \in Nat] == IF i = 0 THEN << >> ELSE upTo[i - 1] \o parts[i]
    IN upTo[Cardinality(DOMAIN parts)]
=============================================================================
