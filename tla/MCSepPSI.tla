------------------------------ MODULE MCSepPSI ------------------------------
(***************************************************************************)
(* Instances of SepPSI for TLC: the inputs.  All sets of one assignment    *)
(* have the same size, which the code assumes everywhere (setSize), and    *)
(* none is empty (sep_opprf.cpp:94 throws).                                *)
(***************************************************************************)
EXTENDS SepPSI

CONSTANTS e1, e2, e3  \* elements

MCElem == {e1, e2, e3}

(* Every assignment of sets of two elements: every way in which an element *)
(* can be owned by all, by some, by the dealer alone, by all but the       *)
(* dealer, or by nobody.  The elements are interchangeable.  So the set of *)
(* the last participant is one of them, and the first set that is another  *)
(* one has e1.                                                             *)
Pairs == {S \in SUBSET MCElem : Cardinality(S) = 2}
Assignments ==
    {f \in [Party -> Pairs] :
        /\ f[NParties - 1] = {e1, e2}
        /\ \A p \in Party : f[p] = {e2, e3} => \E q \in 0 .. p - 1 : f[q] = {e1, e3}}

(* One assignment, where an element is shared by all and others are not,   *)
(* for the questions that do not depend on the sets.                       *)
SomePairs == {[p \in Party |-> IF p = NParties - 1 THEN {e1, e3} ELSE {e1, e2}]}

(* SepPSI::run on every assignment, with sends that complete on receipt,   *)
(* the mode in which most has to wait; standaloneWithAsio on one of them,  *)
(* with sends that complete at once, the mode in which least has to.       *)
Run == [set : Assignments, barrier : {TRUE}, buffered : {FALSE}]
Standalone == [set : SomePairs, barrier : {FALSE}, buffered : {TRUE}]
MCCases == Run \cup Standalone
=============================================================================
