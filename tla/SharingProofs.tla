--------------------------- MODULE SharingProofs ---------------------------
(***************************************************************************)
(* Facts about Sharing, for any number of participants, any dealer and any *)
(* sets: which atoms survive in a sum of blocks, in a zero share and in    *)
(* the dealer's sum.                                                       *)
(***************************************************************************)
EXTENDS Sharing, FiniteSetTheorems, TLAPS

-----------------------------------------------------------------------------
(* Sums of blocks.                                                         *)

(* An atom that occurs in one summand only survives.                       *)
LEMMA XorOnce ==
    ASSUME NEW I, NEW f, NEW i \in I, NEW a, a \in f[i],
           \A j \in I : a \in f[j] => j = i
    PROVE  a \in XorSum(I, f)
<1>1. {j \in I : a \in f[j]} = {i}
  OBVIOUS
<1>2. Cardinality({j \in I : a \in f[j]}) % 2 = 1
  <2>1. Cardinality({j \in I : a \in f[j]}) = 1
    BY <1>1, FS_Singleton
  <2> QED BY <2>1
<1> QED BY <1>2 DEF XorSum

(* An atom that occurs in exactly two summands cancels.                    *)
LEMMA XorTwice ==
    ASSUME NEW I, NEW f, NEW i \in I, NEW j \in I, i # j, NEW a,
           \A k \in I : a \in f[k] <=> k \in {i, j}
    PROVE  a \notin XorSum(I, f)
<1>1. {k \in I : a \in f[k]} = {i} \cup {j}
  OBVIOUS
<1>2. IsFiniteSet({i}) /\ Cardinality({i}) = 1
  BY FS_Singleton
<1>3. Cardinality({i} \cup {j}) = 2
  <2>1. Cardinality({i} \cup {j}) = Cardinality({i}) + 1
    BY <1>2, FS_AddElement
  <2> QED BY <1>2, <2>1
<1>4. Cardinality({k \in I : a \in f[k]}) = 2
  BY <1>1, <1>3
<1>5. Cardinality({k \in I : a \in f[k]}) % 2 # 1
  <2>1. 2 % 2 # 1
    OBVIOUS
  <2> QED BY <1>4, <2>1
<1> QED BY <1>5 DEF XorSum

(* An atom of the sum comes from some summand.                             *)
LEMMA XorFrom ==
    ASSUME NEW I, NEW f, NEW a \in XorSum(I, f)
    PROVE  \E i \in I : a \in f[i]
BY DEF XorSum

(* The sum of blocks that share no atom is their union.                    *)
LEMMA XorDisjoint ==
    ASSUME NEW I, NEW f, \A i, j \in I : i # j => f[i] \cap f[j] = {}
    PROVE  XorSum(I, f) = UNION {f[i] : i \in I}
<1>1. ASSUME NEW a \in UNION {f[i] : i \in I} PROVE a \in XorSum(I, f)
  <2>1. PICK i \in I : a \in f[i]
    BY <1>1
  <2>2. \A j \in I : a \in f[j] => j = i
    BY <2>1
  <2> QED BY <2>1, <2>2, XorOnce
<1> QED BY <1>1, XorFrom

-----------------------------------------------------------------------------
(* Conversations.                                                          *)

(* What kinds of conversation there are, and that the ones named exist.    *)
LEMMA ConvMembers ==
    /\ \A c \in Conv : /\ c.from \in Party /\ c.to \in Party /\ c.from # c.to
                       /\ c.kind \in {"zs", "rc"}
                       /\ c.kind = "zs" => c = Zs(c.from, c.to)
                       /\ c.kind = "rc" => c = Rc(c.from) /\ c.to = DealerIdx
    /\ \A p, q \in Party : p # q => Zs(p, q) \in ZsConv /\ Zs(p, q) \in Conv
    /\ \A p \in Party \ {DealerIdx} : Rc(p) \in RcConv /\ Rc(p) \in Conv
BY DealerAssumption DEF Conv, ZsConv, RcConv, Zs, Rc

(* A ZS conversation is Zs of its ends, an RC one Rc of its sender.        *)
LEMMA ConvKinds ==
    /\ \A c \in ZsConv : /\ c \in Conv /\ c.kind = "zs" /\ c = Zs(c.from, c.to)
                         /\ c.from \in Party /\ c.to \in Party /\ c.from # c.to
    /\ \A c \in RcConv : /\ c \in Conv /\ c.kind = "rc" /\ c = Rc(c.from)
                         /\ c.from \in Party \ {DealerIdx} /\ c.to = DealerIdx
BY DealerAssumption DEF Conv, ZsConv, RcConv, Zs, Rc

(* The members of the two constructors.                                    *)
LEMMA ConvFields ==
    /\ \A p, q : Zs(p, q).kind = "zs" /\ Zs(p, q).from = p /\ Zs(p, q).to = q
    /\ \A p : Rc(p).kind = "rc" /\ Rc(p).from = p /\ Rc(p).to = DealerIdx
BY DEF Zs, Rc

-----------------------------------------------------------------------------
(* Blocks.                                                                 *)

(* Blocks are closed under (+), and the atoms make blocks.                 *)
LEMMA BlockFacts ==
    /\ ZeroBlock \in Block
    /\ \A u, v \in Block : u (+) v \in Block
    /\ \A p, q \in Party : \A x \in Elem : Share(p, q, x) \in Block
    /\ \A c \in Conv : \A x \in Elem : Noise(c, x) \in Block
BY DEF Block, Atom, ZeroBlock, (+), Share, Noise

(* The sum of blocks is a block.                                           *)
LEMMA XorSumType ==
    ASSUME NEW I, NEW f, \A i \in I : f[i] \in Block
    PROVE  XorSum(I, f) \in Block
BY DEF XorSum, Block

-----------------------------------------------------------------------------
(* The algebra: which atoms survive in the dealer's sum.                   *)

(* Atoms are told apart by what they were drawn or decoded for.            *)
LEMMA AtomsDiffer ==
    /\ \A p, q, x, p2, q2, x2 :
          Share(p, q, x) \cap Share(p2, q2, x2) # {} => p = p2 /\ q = q2 /\ x = x2
    /\ \A c, x, d, y : Noise(c, x) \cap Noise(d, y) # {} => c = d /\ x = y
    /\ \A p, q, x, c, y : Share(p, q, x) \cap Noise(c, y) = {}
BY DEF Share, Noise

(* Different pairs have different ZS conversations.                        *)
LEMMA ZsDiffer == \A p, q, r, s : Zs(p, q) = Zs(r, s) => p = r /\ q = s
BY ConvFields

(* RC conversations differ from each other and from ZS ones.               *)
LEMMA RcDiffer == /\ \A p, q : Rc(p) = Rc(q) => p = q
                  /\ \A p, q, r : Rc(p) # Zs(q, r)
<1>1. \A p, q : Rc(p) = Rc(q) => p = q
  <2>1. \A p : Rc(p).from = p
    BY ConvFields
  <2> QED BY <2>1
<1>2. \A p, q, r : Rc(p) # Zs(q, r)
  BY ConvFields
<1> QED BY <1>1, <1>2

(***************************************************************************)
(* No atom occurs twice in the zero share of p: it is what p drew for the  *)
(* others and what it decoded from them.                                   *)
(***************************************************************************)
LEMMA ZeroShareAtoms ==
    ASSUME NEW S, NEW p \in Party, NEW x, NEW a
    PROVE  a \in ZeroShare(S, p, x) <=>
               \E q \in Party \ {p} : a \in Share(p, q, x) \/ a \in ZsValue(S, Zs(q, p), x)
<1> DEFINE own == [q \in Party \ {p} |-> Share(p, q, x)]
           got == [q \in Party \ {p} |-> ZsValue(S, Zs(q, p), x)]
<1>1. \A q : ZsValue(S, Zs(q, p), x) = IF x \in S[q] THEN Share(q, p, x)
                                                   ELSE Noise(Zs(q, p), x)
  BY ConvFields DEF ZsValue
<1>2. XorSum(Party \ {p}, own) = UNION {own[q] : q \in Party \ {p}}
  <2>1. \A q, r \in Party \ {p} : q # r => own[q] \cap own[r] = {}
    BY AtomsDiffer
  <2> HIDE DEF own
  <2> QED BY <2>1, XorDisjoint
<1>3. XorSum(Party \ {p}, got) = UNION {got[q] : q \in Party \ {p}}
  <2>1. ASSUME NEW q \in Party \ {p}, NEW r \in Party \ {p}, q # r
        PROVE  got[q] \cap got[r] = {}
    <3>1. Zs(q, p) # Zs(r, p)
      BY <2>1, ZsDiffer
    <3> QED BY <1>1, <2>1, <3>1, AtomsDiffer
  <2> HIDE DEF got
  <2> QED BY <2>1, XorDisjoint
<1>4. ASSUME NEW q \in Party \ {p}, NEW r \in Party \ {p}
      PROVE  own[q] \cap got[r] = {}
  BY <1>1, AtomsDiffer
<1>5. (UNION {own[q] : q \in Party \ {p}}) \cap (UNION {got[q] : q \in Party \ {p}}) = {}
  <2> HIDE DEF own, got
  <2> QED BY <1>4
<1>6. a \in ZeroShare(S, p, x) <=>
        a \in (UNION {own[q] : q \in Party \ {p}}) \cup (UNION {got[q] : q \in Party \ {p}})
  <2>1. ZeroShare(S, p, x) = XorSum(Party \ {p}, own) (+) XorSum(Party \ {p}, got)
    BY DEF ZeroShare
  <2> HIDE DEF own, got
  <2> QED BY <1>2, <1>3, <1>5, <2>1 DEF (+)
<1> QED BY <1>6

(***************************************************************************)
(* If somebody lacks x, the noise the dealer decodes from it survives: it  *)
(* occurs in the sum exactly once.                                         *)
(***************************************************************************)
LEMMA NoiseSurvives ==
    ASSUME NEW S, NEW x, NEW z \in Party, z # DealerIdx, x \notin S[z]
    PROVE  DealerSum(S, x) # ZeroBlock
<1> DEFINE Others == Party \ {DealerIdx}
           rc == [p \in Others |-> RcValue(S, Rc(p), x)]
<1>1. PICK a : Noise(Rc(z), x) = {a}
  BY DEF Noise
<1>2. \A p \in Party : a \notin ZeroShare(S, p, x)
  <2> SUFFICES ASSUME NEW p \in Party, NEW q \in Party \ {p},
                      a \in Share(p, q, x) \/ a \in ZsValue(S, Zs(q, p), x)
               PROVE  FALSE
    BY ZeroShareAtoms
  <2>1. a \notin Share(p, q, x) /\ a \notin Share(q, p, x)
    BY <1>1, AtomsDiffer
  <2>2. a \notin Noise(Zs(q, p), x)
    BY <1>1, AtomsDiffer, RcDiffer
  <2> QED BY <2>1, <2>2, ConvFields DEF ZsValue
<1>3. \A p : RcValue(S, Rc(p), x) = IF x \in S[p] THEN ZeroShare(S, p, x) ELSE Noise(Rc(p), x)
  BY ConvFields DEF RcValue
<1>4. a \in rc[z]
  BY <1>1, <1>3
<1>5. ASSUME NEW p \in Others, a \in rc[p] PROVE p = z
  <2>1. a \in Noise(Rc(p), x)
    BY <1>2, <1>3, <1>5
  <2> QED BY <1>1, <2>1, AtomsDiffer, RcDiffer
<1>6. a \in XorSum(Others, rc)
  <2> HIDE DEF rc
  <2> QED BY <1>4, <1>5, XorOnce
<1>7. a \in DealerSum(S, x)
  <2>1. DealerSum(S, x) = ZeroShare(S, DealerIdx, x) (+) XorSum(Others, rc)
    BY DEF DealerSum
  <2> HIDE DEF rc, Others
  <2> QED BY <1>2, <1>6, <2>1, DealerAssumption DEF (+)
<1> QED BY <1>7 DEF ZeroBlock

(***************************************************************************)
(* If everybody owns x, each drawn share is added by the two participants  *)
(* that know it, and nothing else is added.                                *)
(***************************************************************************)
LEMMA SharesCancel ==
    ASSUME NEW S, NEW x, \A p \in Party : x \in S[p]
    PROVE  DealerSum(S, x) = ZeroBlock
<1> DEFINE Others == Party \ {DealerIdx}
           rc == [p \in Others |-> RcValue(S, Rc(p), x)]
<1>1. \A p \in Others : rc[p] = ZeroShare(S, p, x)
  BY ConvFields DEF RcValue
<1>2. ASSUME NEW p \in Party, NEW a
      PROVE  a \in ZeroShare(S, p, x) <=>
                 \E q \in Party \ {p} : a \in Share(p, q, x) \/ a \in Share(q, p, x)
  <2>1. \A q \in Party \ {p} : ZsValue(S, Zs(q, p), x) = Share(q, p, x)
    BY ConvFields DEF ZsValue
  <2> QED BY <2>1, ZeroShareAtoms
<1>3. ASSUME NEW u \in Party, NEW v \in Party, u # v, NEW a \in Share(u, v, x)
      PROVE  \A p \in Party : a \in ZeroShare(S, p, x) <=> p \in {u, v}
  BY <1>2, <1>3, AtomsDiffer
<1>4. ASSUME NEW u \in Party, NEW v \in Party, u # v, NEW a \in Share(u, v, x)
      PROVE  a \in XorSum(Others, rc) <=> DealerIdx \in {u, v}
  <2>1. \A p \in Others : a \in rc[p] <=> p \in {u, v}
    BY <1>1, <1>3, <1>4
  <2> HIDE DEF rc
  <2>2. CASE u = DealerIdx
    <3>1. v \in Others /\ a \in rc[v] /\ \A p \in Others : a \in rc[p] => p = v
      BY <1>4, <2>1, <2>2
    <3> QED BY <2>2, <3>1, XorOnce
  <2>3. CASE v = DealerIdx
    <3>1. u \in Others /\ a \in rc[u] /\ \A p \in Others : a \in rc[p] => p = u
      BY <1>4, <2>1, <2>3
    <3> QED BY <2>3, <3>1, XorOnce
  <2>4. CASE u # DealerIdx /\ v # DealerIdx
    <3>1. u \in Others /\ v \in Others
      BY <2>4
    <3> QED BY <1>4, <2>1, <2>4, <3>1, XorTwice
  <2> QED BY <2>2, <2>3, <2>4
<1>5. ASSUME NEW a PROVE a \in ZeroShare(S, DealerIdx, x) <=> a \in XorSum(Others, rc)
  <2>1. CASE \E u, v \in Party : u # v /\ a \in Share(u, v, x)
    <3>1. PICK u \in Party, v \in Party : u # v /\ a \in Share(u, v, x)
      BY <2>1
    <3>2. a \in ZeroShare(S, DealerIdx, x) <=> DealerIdx \in {u, v}
      BY <1>3, <3>1, DealerAssumption
    <3>3. a \in XorSum(Others, rc) <=> DealerIdx \in {u, v}
      BY <1>4, <3>1
    <3> QED BY <3>2, <3>3
  <2>2. CASE ~ \E u, v \in Party : u # v /\ a \in Share(u, v, x)
    <3>1. \A p \in Party : a \notin ZeroShare(S, p, x)
      BY <1>2, <2>2
    <3>2. a \notin XorSum(Others, rc)
      BY <1>1, <3>1, XorFrom
    <3> QED BY <3>1, <3>2, DealerAssumption
  <2> QED BY <2>1, <2>2
<1>6. DealerSum(S, x) = ZeroShare(S, DealerIdx, x) (+) XorSum(Others, rc)
  BY DEF DealerSum
<1> HIDE DEF rc, Others
<1> QED BY <1>5, <1>6 DEF (+), ZeroBlock

(* For the dealer's own elements its sum is zero exactly if all have them. *)
LEMMA DealerSumZero ==
    ASSUME NEW S, NEW x \in S[DealerIdx]
    PROVE  DealerSum(S, x) = ZeroBlock <=> \A p \in Party : x \in S[p]
BY NoiseSurvives, SharesCancel

(***************************************************************************)
(* The zero shares of those who have x: if somebody lacks x, the noise it  *)
(* left with one of them survives; otherwise the shares cancel pairwise.   *)
(***************************************************************************)
LEMMA OwnersCancel ==
    ASSUME NEW S, NEW x, NEW O, O = {p \in Party : x \in S[p]}, O # {},
           NEW zs, \A p \in O : zs[p] = ZeroShare(S, p, x)
    PROVE  XorSum(O, zs) = ZeroBlock <=> O = Party
<1>1. ASSUME O # Party PROVE XorSum(O, zs) # ZeroBlock
  <2>1. PICK z \in Party : x \notin S[z]
    BY <1>1
  <2>2. PICK p \in O : TRUE
    OBVIOUS
  <2>3. p \in Party /\ p # z
    BY <2>1
  <2>4. PICK a : Noise(Zs(z, p), x) = {a}
    BY DEF Noise
  <2>5. a \in ZeroShare(S, p, x)
    <3>1. a \in ZsValue(S, Zs(z, p), x)
      BY <2>1, <2>4, ConvFields DEF ZsValue
    <3> QED BY <2>3, <3>1, ZeroShareAtoms
  <2>6. ASSUME NEW q \in O, a \in ZeroShare(S, q, x) PROVE q = p
    <3>1. PICK r \in Party \ {q} : a \in Share(q, r, x) \/ a \in ZsValue(S, Zs(r, q), x)
      BY <2>6, ZeroShareAtoms
    <3>2. a \in Noise(Zs(r, q), x)
      BY <2>4, <3>1, AtomsDiffer, ConvFields DEF ZsValue
    <3>3. Zs(r, q) = Zs(z, p)
      BY <2>4, <3>2, AtomsDiffer
    <3> QED BY <3>3, ZsDiffer
  <2>7. a \in zs[p] /\ \A q \in O : a \in zs[q] => q = p
    BY <2>5, <2>6
  <2> QED BY <2>7, XorOnce DEF ZeroBlock
<1>2. ASSUME O = Party PROVE XorSum(O, zs) = ZeroBlock
  <2>1. ASSUME NEW p \in Party, NEW a
        PROVE  a \in zs[p] <=>
                   \E q \in Party \ {p} : a \in Share(p, q, x) \/ a \in Share(q, p, x)
    <3>1. \A q \in Party \ {p} : ZsValue(S, Zs(q, p), x) = Share(q, p, x)
      BY <1>2, ConvFields DEF ZsValue
    <3>2. zs[p] = ZeroShare(S, p, x)
      BY <1>2
    <3> QED BY <3>1, <3>2, ZeroShareAtoms
  <2>2. ASSUME NEW a \in XorSum(Party, zs) PROVE FALSE
    <3>1. PICK p \in Party : a \in zs[p]
      BY XorFrom
    <3>2. PICK u \in Party, v \in Party : u # v /\ a \in Share(u, v, x)
      BY <2>1, <3>1
    <3>3. \A k \in Party : a \in zs[k] <=> k \in {u, v}
      BY <2>1, <3>2, AtomsDiffer
    <3> QED BY <3>2, <3>3, XorTwice
  <2> QED BY <1>2, <2>2 DEF ZeroBlock
<1> QED BY <1>1, <1>2
=============================================================================
