---------------------------- MODULE Participants ----------------------------
(***************************************************************************)
(* The participants of a run of standaloneWithAsio, by their indices.      *)
(***************************************************************************)
EXTENDS Naturals

CONSTANT NParties  \* nParties

Party == 0 .. NParties - 1

ASSUME NPartiesAssumption == NParties \in Nat \ {0, 1}
=============================================================================
