------------------------------ MODULE Sharing ------------------------------
(***************************************************************************)
(* What SepPSI and MonoPSI have in common: the participants, the OPPRF     *)
(* instances between them, and the blocks these carry.                     *)
(*                                                                         *)
(* Both programs compute with the same values.  Each participant draws a   *)
(* share for each of the others under each element of its set, and passes  *)
(* it on through an OPPRF, from which an element that was not programmed   *)
(* gives noise.  The sum of what it drew and what it decoded is its zero   *)
(* share, which the dealer decodes from one more OPPRF and adds up.        *)
(***************************************************************************)
EXTENDS Naturals, FiniteSets, Blocks

CONSTANTS
    NParties,   \* nParties: how many participants, the dealer included
    DealerIdx,  \* dealerIdx: which of them is the dealer
    Elem        \* the elements the sets are drawn from

Party == 0 .. NParties - 1

ASSUME NPartiesAssumption == NParties \in Nat \ {0, 1}
ASSUME DealerAssumption == DealerIdx \in Party

(***************************************************************************)
(* The OPPRF instances, for zero sharing (ZS) and reconstruction (RC): the *)
(* members from and to are the OPPRF sender and the OPPRF receiver.        *)
(***************************************************************************)
ZsConv == {c \in [kind : {"zs"}, from : Party, to : Party] : c.from # c.to}
RcConv == {c \in [kind : {"rc"}, from : Party, to : {DealerIdx}] : c.from # c.to}
Conv == ZsConv \cup RcConv

Zs(p, q) == [kind |-> "zs", from |-> p, to |-> q]
Rc(p)    == [kind |-> "rc", from |-> p, to |-> DealerIdx]

(***************************************************************************)
(* Atoms.  Share: the value prng.get() gave p for q under x.  Noise: what  *)
(* the receiver of c decodes under an x the sender has not programmed.     *)
(***************************************************************************)
Share(p, q, x) == {[kind |-> "share", from |-> p, to |-> q, elem |-> x]}
Noise(c, x)    == {[kind |-> "noise", conv |-> c, elem |-> x]}

Atom == [kind : {"share"}, from : Party, to : Party, elem : Elem]
        \cup [kind : {"noise"}, conv : Conv, elem : Elem]
Block == SUBSET Atom

Empty(S) == [x \in S |-> ZeroBlock]     \* a vector of blocks after resize()

-----------------------------------------------------------------------------
(***************************************************************************)
(* The values in terms of the sets S[p] alone: what goes through a ZS      *)
(* instance under x, the zero share, what the dealer decodes under x, and  *)
(* the sum it compares with ZeroBlock.  Invariants are stated with them.   *)
(***************************************************************************)
ZsValue(S, c, x) == IF x \in S[c.from] THEN Share(c.from, c.to, x) ELSE Noise(c, x)

ZeroShare(S, p, x) ==
    XorSum(Party \ {p}, [r \in Party \ {p} |-> Share(p, r, x)]) (+)
    XorSum(Party \ {p}, [q \in Party \ {p} |-> ZsValue(S, Zs(q, p), x)])

RcValue(S, c, x) == IF x \in S[c.from] THEN ZeroShare(S, c.from, x) ELSE Noise(c, x)

DealerSum(S, x) ==
    ZeroShare(S, DealerIdx, x) (+)
    XorSum(Party \ {DealerIdx}, [p \in Party \ {DealerIdx} |-> RcValue(S, Rc(p), x)])
=============================================================================
