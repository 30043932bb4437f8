-------------------------------- MODULE Psi --------------------------------
(***************************************************************************)
(* What a run of the protocol promises: an ideal multi-party intersection. *)
(*                                                                         *)
(* Every party submits its set once.  When, and only when, all the sets    *)
(* are in, the dealer may return, and what it returns is the intersection. *)
(* The others return without a result, and only after all the sets are in. *)
(* Nothing is said of how the parties communicate.                         *)
(***************************************************************************)
CONSTANTS Party,   \* the participants
          Dealer   \* the one that learns the result

VARIABLES set,        \* set[p]: what p brings; it never changes
          submitted,  \* the parties that have entered their set
          returned,   \* the parties whose call has returned
          output      \* what the dealer holds as the result

vars == <<set, submitted, returned, output>>

Intersection == {x \in set[Dealer] : \A p \in Party : x \in set[p]}

Init == /\ submitted = {}
        /\ returned = {}
        /\ output = {}

Submit(p) == /\ p \notin submitted
             /\ submitted' = submitted \cup {p}
             /\ UNCHANGED <<set, returned, output>>

Deliver == /\ submitted = Party
           /\ Dealer \notin returned
           /\ returned' = returned \cup {Dealer}
           /\ output' = Intersection
           /\ UNCHANGED <<set, submitted>>

Return(p) == /\ submitted = Party
             /\ p \in Party \ {Dealer}
             /\ p \notin returned
             /\ returned' = returned \cup {p}
             /\ UNCHANGED <<set, submitted, output>>

Next == Deliver \/ \E p \in Party : Submit(p) \/ Return(p)

Spec == Init /\ [][Next]_vars /\ WF_vars(Next)
=============================================================================
