---------------------------- MODULE MCAsioConnect ----------------------------
(***************************************************************************)
(* Instances of AsioConnect for TLC.                                       *)
(***************************************************************************)
EXTENDS AsioConnect

(* The bases test_with_asio passes to either program (exp.cpp:250-253).    *)
Bases == [zs |-> <<10000, 15000>>, rc |-> <<20000, 25000>>]
===============================================================================
