---------------------------- MODULE MCPartySets ----------------------------
(***************************************************************************)
(* Instances of PartySets: sets with no room, with room for some and with  *)
(* room for all of the near misses, and common sizes beyond the set size.  *)
(***************************************************************************)
EXTENDS PartySets

MCRequests == [nParties : 1 .. 4, commonSize : 0 .. 4, setSize : 0 .. 9]
=============================================================================
