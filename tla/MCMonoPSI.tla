----------------------------- MODULE MCMonoPSI -----------------------------
(***************************************************************************)
(* Instances of MonoPSI for TLC.                                           *)
(***************************************************************************)
EXTENDS MonoPSI

CONSTANTS e1, e2, e3  \* elements

MCElem == {e1, e2, e3}

(* All sets have two elements.  As the elements are interchangeable, the   *)
(* set of the last participant is one of them.                             *)
Pairs == {S \in SUBSET MCElem : Cardinality(S) = 2}
MCInputs == {f \in [Party -> Pairs] : f[NParties - 1] = {e1, e2}}
=============================================================================
