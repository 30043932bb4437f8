------------------------------- MODULE Blocks -------------------------------
(***************************************************************************)
(* Blocks: the 128-bit values the parties share, and their XOR.            *)
(*                                                                         *)
(* The protocol never looks inside a block.  A block is a sum of           *)
(* independent random values, and the only question asked of it is whether *)
(* it is ZeroBlock.  It is therefore modelled as the set of the random     *)
(* values (atoms) that do not cancel in it: XOR is symmetric difference,   *)
(* ZeroBlock is the empty set, and two sums of random values are equal     *)
(* exactly when the same atoms survive in both.  The event that different  *)
(* sums collide, of probability 2^-128 in the code, does not exist here.   *)
(***************************************************************************)
EXTENDS Naturals, FiniteSets

ZeroBlock == {}

(* a ^ b *)
a (+) b == (a \ b) \cup (b \ a)

(***************************************************************************)
(* The XOR of the blocks f[i], i \in I: the loop                           *)
(*     block sum = ZeroBlock; for (i ...) sum = sum ^ f[i];                *)
(* An atom survives when an odd number of the summands contain it.         *)
(***************************************************************************)
XorSum(I, f) ==
    {a \in UNION {f[i] : i \in I} : Cardinality({i \in I : a \in f[i]}) % 2 = 1}
=============================================================================
