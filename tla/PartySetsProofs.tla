-------------------------- MODULE PartySetsProofs --------------------------
(***************************************************************************)
(* Theorems about PartySets, for any number of participants and any sizes: *)
(* the expected result of an experiment is the common items, all sets have *)
(* one size, and every participant matters when there is room for the      *)
(* near misses.                                                            *)
(***************************************************************************)
EXTENDS PartySets, FiniteSetTheorems, TLAPS

-----------------------------------------------------------------------------
(* Blocks and finite sets.                                                 *)

(* Blocks are told apart by their kind, their generator and their place.   *)
LEMMA BlocksDiffer ==
    /\ \A s, k : Random(s, k).kind = "random" /\ Random(s, k).seed = s
    /\ \A p : Index(p).kind = "index"
    /\ \A p, q : Index(p) = Index(q) => p = q
<1>1. \A p : Index(p).kind = "index" /\ Index(p).num = p
  BY DEF Index
<1>2. \A p, q : Index(p) = Index(q) => p = q
  BY <1>1
<1> QED BY <1>1, <1>2 DEF Random

(* What is known of the arguments.                                         *)
LEMMA Arguments ==
    ASSUME TypeOK
    PROVE  /\ req.nParties \in Nat \ {0} /\ req.commonSize \in Nat /\ req.setSize \in Nat
           /\ Party = 0 .. req.nParties - 1 /\ id \in 0 .. req.nParties - 1
BY RequestsAssumption DEF TypeOK, Party

(* randomSet gives no more blocks than it is asked for.                    *)
LEMMA CommonSizeBound ==
    ASSUME TypeOK
    PROVE  IsFiniteSet(Common) /\ Cardinality(Common) <= req.commonSize
<1> DEFINE n == req.commonSize
           draw == [k \in 0 .. n - 1 |-> Random(CommonSeed, k)]
<1>1. n \in Nat
  BY Arguments
<1>2. IsFiniteSet(0 .. n - 1) /\ Cardinality(0 .. n - 1) = n
  <2>1. 0 \in Int /\ n - 1 \in Int
    BY <1>1
  <2>2. IsFiniteSet(0 .. n - 1) /\ Cardinality(0 .. n - 1) = IF 0 > n - 1 THEN 0
                                                               ELSE (n - 1) - 0 + 1
    BY <2>1, FS_Interval
  <2> QED BY <1>1, <2>2
<1>3. draw \in Surjection(0 .. n - 1, Common)
  BY DEF Surjection, Common
<1> HIDE DEF n, draw
<1>4. IsFiniteSet(Common) /\ Cardinality(Common) <= Cardinality(0 .. n - 1)
  BY <1>2, <1>3, FS_Surjection
<1> QED BY <1>2, <1>4 DEF n

-----------------------------------------------------------------------------
(* Type correctness.                                                       *)

(* The first set is that of participant 0, and there is a participant 0.   *)
LEMMA InitTypeOK == Init => TypeOK
<1> SUFFICES ASSUME Init PROVE TypeOK
  OBVIOUS
<1>1. req.nParties \in Nat \ {0}
  BY RequestsAssumption DEF Init
<1>2. IsFiniteSet({})
  BY FS_EmptySet
<1> QED BY <1>1, <1>2 DEF Init, TypeOK, Party

(* Sets stay finite, and the loops within their bounds.                    *)
LEMMA StepTypeOK == TypeOK /\ ContentsInv /\ [Next]_vars => TypeOK'
<1> SUFFICES ASSUME TypeOK, ContentsInv, [Next]_vars PROVE TypeOK'
  OBVIOUS
<1>1. /\ req.nParties \in Nat \ {0} /\ req.commonSize \in Nat /\ req.setSize \in Nat
      /\ Party = 0 .. req.nParties - 1 /\ id \in 0 .. req.nParties - 1
  BY Arguments
<1>2. \A S, x : IsFiniteSet(S) => IsFiniteSet(S \cup {x})
  BY FS_AddElement
<1> USE DEF TypeOK
<1>3. CASE DrawCommonItems
  <2>1. commonItems' = Common
    BY <1>3 DEF DrawCommonItems, Common
  <2>2. /\ IsFiniteSet(commonItems') /\ Party' = Party
        /\ sets' = [sets EXCEPT ![id] = commonItems']
    BY <1>3, <2>1, CommonSizeBound DEF DrawCommonItems, Party
  <2> QED BY <1>3, <2>2 DEF DrawCommonItems
<1>4. CASE InsertIndex
  <2>1. /\ Party' = Party /\ sets' = [sets EXCEPT ![id] = sets[id] \cup {Index(j)}]
        /\ j < req.nParties /\ j' = j + 1
        /\ UNCHANGED <<req, id, drawn, pc>>
    BY <1>4 DEF InsertIndex, Insert, Party
  <2>2. IsFiniteSet(sets[id] \cup {Index(j)})
    BY <1>2
  <2> QED BY <1>1, <2>1, <2>2
<1>5. CASE InsertRandom
  <2>1. /\ Party' = Party
        /\ sets' = [sets EXCEPT ![id] = sets[id] \cup {Random(Seed(id), drawn)}]
        /\ j' = IF j < req.nParties THEN j + 1 ELSE j
        /\ drawn' = drawn + 1
        /\ UNCHANGED <<req, id, pc>>
    BY <1>5 DEF InsertRandom, Insert, Party
  <2>2. IsFiniteSet(sets[id] \cup {Random(Seed(id), drawn)})
    BY <1>2
  <2> QED BY <1>1, <2>1, <2>2
<1>6. CASE NextParty
  <2>1. /\ Party' = Party /\ sets' = [sets EXCEPT ![id + 1] = commonItems]
        /\ id + 1 < req.nParties /\ id' = id + 1 /\ j' = 0 /\ drawn' = 0
        /\ pc = "fill" /\ UNCHANGED <<req, pc>>
    BY <1>6 DEF NextParty, Party
  <2>2. IsFiniteSet(commonItems)
    BY <2>1, CommonSizeBound DEF ContentsInv
  <2> QED BY <1>1, <2>1, <2>2
<1>7. CASE HandOut
  BY <1>7 DEF HandOut, Party
<1>8. CASE UNCHANGED vars
  BY <1>8 DEF vars, Party
<1> QED BY <1>3, <1>4, <1>5, <1>6, <1>7, <1>8 DEF Next, HandedOut

-----------------------------------------------------------------------------
(* What the sets are made of.                                              *)

(* Nothing has been drawn at the beginning.                                *)
LEMMA InitContents == Init => ContentsInv
BY DEF Init, ContentsInv, Begun

(***************************************************************************)
(* A step fills one set: it adds an index of another, or a block of the    *)
(* generator of that set's participant.                                    *)
(***************************************************************************)
LEMMA StepContents == TypeOK /\ ContentsInv /\ [Next]_vars => ContentsInv'
<1> SUFFICES ASSUME TypeOK, ContentsInv, [Next]_vars PROVE ContentsInv'
  OBVIOUS
<1>1. /\ req.nParties \in Nat \ {0} /\ req.commonSize \in Nat /\ req.setSize \in Nat
      /\ Party = 0 .. req.nParties - 1 /\ id \in 0 .. req.nParties - 1
      /\ j \in Nat /\ DOMAIN sets = Party
  BY Arguments DEF TypeOK
<1> USE DEF ContentsInv, Begun
<1>2. CASE DrawCommonItems
  <2>1. commonItems' = Common /\ Common' = Common /\ Party' = Party
    BY <1>2 DEF DrawCommonItems, Common, Party
  <2>2. sets'[id] = commonItems'
    BY <1>1, <1>2 DEF DrawCommonItems
  <2>3. id = 0 /\ id' = 0 /\ pc' = "fill" /\ req' = req
    BY <1>2 DEF DrawCommonItems
  <2> QED BY <1>1, <2>1, <2>2, <2>3
<1>3. ASSUME NEW x, pc = "fill", sets' = [sets EXCEPT ![id] = sets[id] \cup {x}],
             \/ \E q \in Party \ {id} : x = Index(q)
             \/ x.kind = "random" /\ x.seed = Seed(id),
             UNCHANGED <<req, commonItems, id, pc>>
      PROVE  ContentsInv'
  <2>1. Party' = Party /\ Common' = Common
    BY <1>3 DEF Party, Common
  <2>2. \A p \in Party : p # id => sets'[p] = sets[p]
    BY <1>1, <1>3
  <2>3. sets'[id] = sets[id] \cup {x}
    BY <1>1, <1>3
  <2> QED BY <1>1, <1>3, <2>1, <2>2, <2>3 DEF Seed
<1>4. CASE InsertIndex
  <2>1. j \in Party \ {id}
    BY <1>1, <1>4 DEF InsertIndex
  <2> QED BY <1>3, <1>4, <2>1 DEF InsertIndex, Insert, Filling
<1>5. CASE InsertRandom
  <2>1. PICK x : x = Random(Seed(id), drawn)
    OBVIOUS
  <2>2. x.kind = "random" /\ x.seed = Seed(id)
    BY <2>1, BlocksDiffer
  <2>3. /\ pc = "fill" /\ sets' = [sets EXCEPT ![id] = sets[id] \cup {x}]
        /\ UNCHANGED <<req, commonItems, id, pc>>
    BY <1>5, <2>1 DEF InsertRandom, Insert, Filling
  <2> HIDE DEF ContentsInv
  <2> QED BY <1>3, <2>2, <2>3
<1>6. CASE NextParty
  <2>1. /\ Party' = Party /\ Common' = Common
        /\ sets' = [sets EXCEPT ![id + 1] = commonItems]
        /\ id + 1 < req.nParties /\ id' = id + 1 /\ pc = "fill"
        /\ UNCHANGED <<req, commonItems, pc>>
    BY <1>6 DEF NextParty, Party, Common
  <2>2. sets'[id + 1] = commonItems /\ \A p \in Party : p <= id => sets'[p] = sets[p]
    BY <1>1, <2>1
  <2>3. \A p \in Party : p <= id' => p <= id \/ p = id + 1
    BY <1>1, <2>1
  <2> QED BY <1>1, <2>1, <2>2, <2>3 DEF Seed
<1>7. CASE HandOut
  <2>1. /\ Party' = Party /\ Common' = Common /\ pc = "fill" /\ pc' = "done"
        /\ UNCHANGED <<req, commonItems, id, sets>>
        /\ id + 1 = req.nParties /\ intersection' = getIntersection
    BY <1>7 DEF HandOut, Party, Common
  <2>2. getIntersection' = getIntersection
    BY <2>1 DEF getIntersection
  <2> QED BY <2>1, <2>2 DEF Seed
<1>8. CASE UNCHANGED vars
  BY <1>8 DEF vars, Party, Common, getIntersection, Seed
<1> QED BY <1>2, <1>4, <1>5, <1>6, <1>7, <1>8 DEF Next, HandedOut

(* The shape of the state and what the sets are made of.                   *)
LEMMA ContentsInvariant == Spec => [](TypeOK /\ ContentsInv)
BY InitTypeOK, InitContents, StepTypeOK, StepContents, PTL DEF Spec

(***************************************************************************)
(* An index is missing in its own participant's set, and a random block    *)
(* beside the common items is in one set only.                             *)
(***************************************************************************)
LEMMA ExpectedFromContents == TypeOK /\ ContentsInv => ExpectsCommonItems
<1> SUFFICES ASSUME TypeOK, ContentsInv, pc = "done", req.nParties > 1
             PROVE  intersection = commonItems
  BY DEF ExpectsCommonItems
<1>1. /\ 0 \in Party /\ 1 \in Party /\ intersection = getIntersection
      /\ commonItems = Common /\ \A p \in Party : Begun(p)
  BY Arguments DEF ContentsInv, Begun
<1>2. commonItems \subseteq getIntersection
  BY <1>1 DEF ContentsInv, getIntersection
<1>3. ASSUME NEW x \in getIntersection, x \notin commonItems PROVE FALSE
  <2>1. \A p \in Party : x \in sets[p]
    BY <1>1 DEF getIntersection
  <2>2. \A p \in Party : \/ \E q \in Party \ {p} : x = Index(q)
                         \/ x.kind = "random" /\ x.seed = Seed(p)
    BY <1>1, <1>3, <2>1 DEF ContentsInv
  <2>3. CASE x.kind = "random"
    <3>1. x.seed = Seed(0) /\ x.seed = Seed(1)
      BY <1>1, <2>2, <2>3, BlocksDiffer
    <3> QED BY <3>1 DEF Seed, CommonSeed
  <2>4. CASE x.kind # "random"
    <3>1. PICK q \in Party : x = Index(q)
      BY <1>1, <2>2, <2>4
    <3>2. PICK r \in Party \ {q} : x = Index(r)
      BY <2>2, <2>4, <3>1
    <3> QED BY <3>1, <3>2, BlocksDiffer
  <2> QED BY <2>3, <2>4
<1> QED BY <1>1, <1>2, <1>3

(* The expected result of an experiment is the common items.               *)
THEOREM Expected == Spec => []ExpectsCommonItems
BY ContentsInvariant, ExpectedFromContents, PTL

-----------------------------------------------------------------------------
(* How large the sets are.                                                 *)

(* No set has been begun at the beginning.                                 *)
LEMMA InitSizes == Init => SizeInv /\ IndexInv
BY DEF Init, SizeInv, IndexInv, Begun, Full

(***************************************************************************)
(* A set grows by at most one block a step, and by none once it is full;   *)
(* before the indices are used up, it has grown by j blocks at most.       *)
(***************************************************************************)
LEMMA StepSizes == TypeOK /\ ContentsInv /\ SizeInv /\ [Next]_vars => SizeInv'
<1> SUFFICES ASSUME TypeOK, ContentsInv, SizeInv, [Next]_vars PROVE SizeInv'
  OBVIOUS
<1>1. /\ req.nParties \in Nat \ {0} /\ req.commonSize \in Nat /\ req.setSize \in Nat
      /\ Party = 0 .. req.nParties - 1 /\ id \in Party
      /\ j \in 0 .. req.nParties /\ DOMAIN sets = Party
      /\ \A p \in Party : IsFiniteSet(sets[p])
  BY Arguments DEF TypeOK
<1>2. /\ \A p \in Party : Cardinality(sets[p]) \in Nat
      /\ pc # "common" => Cardinality(commonItems) \in Nat
  BY <1>1, CommonSizeBound, FS_CardinalityType DEF ContentsInv
<1> USE DEF SizeInv, Begun, Full, FullSize
<1>3. CASE DrawCommonItems
  <2>1. /\ commonItems' = Common /\ sets'[id] = commonItems' /\ Party' = Party
        /\ id = 0 /\ id' = 0 /\ j = 0 /\ j' = 0 /\ pc' = "fill" /\ req' = req
    BY <1>1, <1>3 DEF DrawCommonItems, Common, Party, ContentsInv
  <2>2. Cardinality(commonItems') \in Nat
    BY <2>1, CommonSizeBound, FS_CardinalityType
  <2> QED BY <1>1, <2>1, <2>2
<1>4. ASSUME NEW x, Filling, sets' = [sets EXCEPT ![id] = sets[id] \cup {x}],
             j' = IF j < req.nParties THEN j + 1 ELSE j,
             UNCHANGED <<req, commonItems, id, pc>>
      PROVE  SizeInv'
  <2>1. Party' = Party /\ pc = "fill" /\ Cardinality(sets[id]) < req.setSize
    BY <1>4 DEF Party, Filling
  <2>2. \A p \in Party : p # id => sets'[p] = sets[p]
    BY <1>1, <1>4
  <2>3. /\ Cardinality(sets'[id]) \in Nat
        /\ Cardinality(sets'[id]) <= Cardinality(sets[id]) + 1
    <3>1. sets'[id] = sets[id] \cup {x}
      BY <1>1, <1>4
    <3>2. IsFiniteSet(sets[id]) /\ Cardinality(sets[id]) \in Nat
      BY <1>1, <1>2
    <3>3. Cardinality(sets[id] \cup {x}) = IF x \in sets[id] THEN Cardinality(sets[id])
                                                            ELSE Cardinality(sets[id]) + 1
      BY <3>2, FS_AddElement
    <3> QED BY <3>1, <3>2, <3>3
  <2>4. Cardinality(sets'[id]) <= FullSize
    BY <1>1, <1>2, <2>1, <2>3
  <2>5. j' < req.nParties => Cardinality(sets'[id]) <= Cardinality(commonItems) + j'
    BY <1>1, <1>2, <1>4, <2>1, <2>3
  <2>6. FullSize' = FullSize
    BY <1>4
  <2> HIDE DEF FullSize
  <2>7. ASSUME NEW p \in Party
        PROVE  /\ p <= id => Cardinality(sets'[p]) <= FullSize
               /\ p < id => Cardinality(sets'[p]) = FullSize
    BY <1>1, <2>1, <2>2, <2>4, <2>7
  <2> QED BY <1>1, <1>4, <2>1, <2>5, <2>6, <2>7
<1>5. CASE InsertIndex
  BY <1>4, <1>5 DEF InsertIndex, Insert
<1>6. CASE InsertRandom
  BY <1>4, <1>6 DEF InsertRandom, Insert
<1>7. CASE NextParty
  <2>1. /\ Party' = Party
        /\ sets' = [sets EXCEPT ![id + 1] = commonItems]
        /\ Cardinality(sets[id]) >= req.setSize
        /\ id + 1 < req.nParties /\ id' = id + 1 /\ j' = 0 /\ pc = "fill"
        /\ UNCHANGED <<req, commonItems, pc>>
    BY <1>7 DEF NextParty, Party
  <2>2. sets'[id + 1] = commonItems /\ \A p \in Party : p <= id => sets'[p] = sets[p]
    BY <1>1, <2>1
  <2>3. Cardinality(sets[id]) = FullSize
    <3>1. /\ Cardinality(commonItems) <= Cardinality(sets[id])
      BY <1>1, <2>1, FS_Subset DEF ContentsInv
    <3> QED BY <1>1, <1>2, <2>1, <3>1
  <2>4. \A p \in Party : p <= id' => p < id \/ p = id \/ p = id + 1
    BY <1>1, <2>1
  <2> QED BY <1>1, <1>2, <2>1, <2>2, <2>3, <2>4
<1>8. CASE HandOut
  <2>1. /\ Party' = Party /\ pc = "fill" /\ pc' = "done"
        /\ UNCHANGED <<req, commonItems, id, j, sets>>
        /\ id + 1 = req.nParties /\ Cardinality(sets[id]) >= req.setSize
    BY <1>8 DEF HandOut, Party
  <2>2. Cardinality(sets[id]) = FullSize
    <3>1. /\ Cardinality(commonItems) <= Cardinality(sets[id])
      BY <1>1, <2>1, FS_Subset DEF ContentsInv
    <3> QED BY <1>1, <1>2, <2>1, <3>1
  <2> QED BY <1>1, <2>1, <2>2
<1>9. CASE UNCHANGED vars
  BY <1>9 DEF vars, Party
<1> QED BY <1>3, <1>5, <1>6, <1>7, <1>8, <1>9 DEF Next, HandedOut

(***************************************************************************)
(* The indices that j has passed are in the set.  If they all fit, the set *)
(* is not full before j has passed them all.                               *)
(***************************************************************************)
LEMMA StepIndices == TypeOK /\ ContentsInv /\ SizeInv /\ IndexInv /\ [Next]_vars => IndexInv'
<1> SUFFICES ASSUME TypeOK, ContentsInv, SizeInv, IndexInv, [Next]_vars PROVE IndexInv'
  OBVIOUS
<1>1. /\ req.nParties \in Nat \ {0} /\ req.commonSize \in Nat /\ req.setSize \in Nat
      /\ Party = 0 .. req.nParties - 1 /\ id \in Party
      /\ j \in 0 .. req.nParties /\ DOMAIN sets = Party
      /\ \A p \in Party : IsFiniteSet(sets[p])
  BY Arguments DEF TypeOK
<1>2. \A p \in Party : Cardinality(sets[p]) \in Nat
  BY <1>1, FS_CardinalityType
<1>3. pc # "common" => /\ Cardinality(commonItems) \in Nat
                       /\ Cardinality(commonItems) <= req.commonSize
  BY CommonSizeBound, FS_CardinalityType DEF ContentsInv
<1>4. ASSUME pc = "fill", Cardinality(sets[id]) >= req.setSize, Room
      PROVE  \A q \in Party \ {id} : Index(q) \in sets[id]
  <2>1. j = req.nParties
    <3>1. j < req.nParties => Cardinality(sets[id]) <= Cardinality(commonItems) + j
      BY <1>1, <1>4 DEF SizeInv, Begun
    <3> QED BY <1>1, <1>2, <1>3, <1>4, <3>1 DEF Room
  <2> QED BY <1>1, <1>4, <2>1 DEF IndexInv, Begun
<1> USE DEF IndexInv, Begun, Full, Room
<1>5. CASE DrawCommonItems
  <2>1. id' = 0 /\ j' = 0 /\ pc' = "fill" /\ Party' = Party
    BY <1>5 DEF DrawCommonItems, ContentsInv, Party
  <2> QED BY <1>1, <2>1
<1>6. ASSUME NEW x, pc = "fill", sets' = [sets EXCEPT ![id] = sets[id] \cup {x}],
             \/ j' = j
             \/ j' = j + 1 /\ (j = id \/ x = Index(j)),
             UNCHANGED <<req, commonItems, id, pc>>
      PROVE  IndexInv'
  <2>1. Party' = Party
    BY <1>6 DEF Party
  <2>2. \A p \in Party : p # id => sets'[p] = sets[p]
    BY <1>1, <1>6
  <2>3. sets'[id] = sets[id] \cup {x}
    BY <1>1, <1>6
  <2>4. \A q \in 0 .. j' - 1 : q # id => Index(q) \in sets'[id]
    <3>1. \A q \in 0 .. j - 1 : q # id => Index(q) \in sets[id]
      BY <1>1, <1>6
    <3>2. \A q \in 0 .. j' - 1 : q \in 0 .. j - 1 \/ (q = j /\ j' = j + 1)
      BY <1>1, <1>6
    <3> QED BY <1>6, <2>3, <3>1, <3>2
  <2> QED BY <1>1, <1>6, <2>1, <2>2, <2>4
<1>7. CASE InsertIndex
  BY <1>6, <1>7 DEF InsertIndex, Insert, Filling
<1>8. CASE InsertRandom
  <2>1. PICK x : x = Random(Seed(id), drawn)
    OBVIOUS
  <2>2. /\ pc = "fill" /\ sets' = [sets EXCEPT ![id] = sets[id] \cup {x}]
        /\ UNCHANGED <<req, commonItems, id, pc>>
    BY <1>8, <2>1 DEF InsertRandom, Insert, Filling
  <2>3. j' = j \/ (j' = j + 1 /\ j = id)
    BY <1>1, <1>8 DEF InsertRandom
  <2> HIDE DEF IndexInv
  <2> QED BY <1>6, <2>2, <2>3
<1>9. CASE NextParty
  <2>1. /\ Party' = Party /\ sets' = [sets EXCEPT ![id + 1] = commonItems]
        /\ Cardinality(sets[id]) >= req.setSize
        /\ id + 1 < req.nParties /\ id' = id + 1 /\ j' = 0 /\ pc = "fill"
        /\ UNCHANGED <<req, pc>>
    BY <1>9 DEF NextParty, Party
  <2>2. \A p \in Party : p <= id => sets'[p] = sets[p]
    BY <1>1, <2>1
  <2>3. \A p \in Party : p < id' => p < id \/ p = id
    BY <1>1, <2>1
  <2>4. \A p \in Party : p < id' /\ Room => \A q \in Party \ {p} : Index(q) \in sets'[p]
    BY <1>1, <1>4, <2>1, <2>2, <2>3
  <2> QED BY <1>1, <2>1, <2>4
<1>10. CASE HandOut
  <2>1. /\ Party' = Party /\ pc = "fill" /\ pc' = "done"
        /\ UNCHANGED <<req, id, j, sets>>
        /\ id + 1 = req.nParties /\ Cardinality(sets[id]) >= req.setSize
    BY <1>10 DEF HandOut, Party
  <2> QED BY <1>1, <1>4, <2>1
<1>11. CASE UNCHANGED vars
  BY <1>11 DEF vars, Party
<1> QED BY <1>5, <1>7, <1>8, <1>9, <1>10, <1>11 DEF Next, HandedOut

(* The whole inductive invariant.                                          *)
LEMMA SetsInvariant == Spec => [](TypeOK /\ ContentsInv /\ SizeInv /\ IndexInv)
<1>1. TypeOK /\ ContentsInv /\ SizeInv /\ IndexInv /\ [Next]_vars => SizeInv' /\ IndexInv'
  BY StepSizes, StepIndices
<1> QED BY <1>1, InitSizes, ContentsInvariant, PTL DEF Spec

(* In the end every participant's set is full.                             *)
LEMMA AllFull == TypeOK /\ ContentsInv /\ pc = "done" => \A p \in Party : Full(p)
BY Arguments DEF ContentsInv, Full

(* All sets get the same size.                                             *)
THEOREM Sizes == Spec => []SameSizes
<1>1. TypeOK /\ ContentsInv /\ SizeInv => SameSizes
  BY AllFull DEF SizeInv, SameSizes
<1> QED BY <1>1, SetsInvariant, PTL

(***************************************************************************)
(* If there is room, the index of p is in every set but its own.           *)
(***************************************************************************)
LEMMA NearMisses == TypeOK /\ ContentsInv /\ IndexInv => NobodyIsRedundant
<1> SUFFICES ASSUME TypeOK, ContentsInv, IndexInv, pc = "done", req.nParties > 1, Room,
                    NEW p \in Party
             PROVE  \E x \in UNION {sets[q] : q \in Party} :
                        /\ x \notin sets[p]
                        /\ \A q \in Party \ {p} : x \in sets[q]
  BY DEF NobodyIsRedundant, Room
<1>1. \A q \in Party \ {p} : Index(p) \in sets[q]
  BY AllFull DEF IndexInv
<1>2. PICK q \in Party : q # p
  <2>1. 0 \in Party /\ 1 \in Party
    BY Arguments
  <2> QED BY <2>1
<1>3. Index(p) \notin sets[p]
  <2>1. Index(p) \notin commonItems
    BY BlocksDiffer DEF ContentsInv, Common
  <2>2. Begun(p)
    BY AllFull, Arguments DEF Full, Begun, ContentsInv
  <2> QED BY <2>1, <2>2, BlocksDiffer DEF ContentsInv
<1> QED BY <1>1, <1>2, <1>3

(* Every participant is the only one to lack some block.                   *)
THEOREM EverybodyMatters == Spec => []NobodyIsRedundant
BY SetsInvariant, NearMisses, PTL
=============================================================================
