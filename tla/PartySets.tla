----------------------------- MODULE PartySets -----------------------------
(***************************************************************************)
(* The inputs of the experiments: createPartySets of experiments/exp.cpp.  *)
(*                                                                         *)
(* Every participant gets a set of setSize blocks, among them commonSize   *)
(* common ones.  The rest of a set is filled with near misses first, the   *)
(* indices of the other participants as blocks, so that block(j) is in     *)
(* every set but that of j, and then with random blocks.  The intersection *)
(* of the sets is computed and handed out as the expected result.          *)
(*                                                                         *)
(* A random block is named by the generator's seed and its place in that   *)
(* generator's sequence.  Different names are different blocks, and none   *)
(* is a small number; but two generators with one seed give the same       *)
(* blocks, and the common items and participant 0 do use one seed.  The    *)
(* final shuffle changes no set.                                           *)
(***************************************************************************)
EXTENDS Naturals, FiniteSets

CONSTANT Requests  \* the arguments createPartySets is called with

ASSUME RequestsAssumption ==
    Requests \subseteq [nParties : Nat \ {0}, commonSize : Nat, setSize : Nat]

VARIABLES req,           \* the arguments
          commonItems,   \* randomSet's result
          id,            \* the participant whose set is being filled
          j,             \* the next index for a near miss
          drawn,         \* how many blocks id's generator has given
          sets,          \* sets[p]: the set of p, filled as far as it is
          intersection,  \* what is handed out as the expected result
          pc

vars == <<req, commonItems, id, j, drawn, sets, intersection, pc>>

Party == 0 .. req.nParties - 1

Random(seed, k) == [kind |-> "random", seed |-> seed, num |-> k]
Index(p)        == [kind |-> "index", seed |-> 0, num |-> p]

(* The seed of the common items, and the seed of participant p: seed + p.  *)
CommonSeed == 0
Seed(p) == CommonSeed + p

Init == /\ req \in Requests
        /\ commonItems = {}
        /\ id = 0
        /\ j = 0
        /\ drawn = 0
        /\ sets = [p \in Party |-> {}]
        /\ intersection = {}
        /\ pc = "common"

(* randomSet draws until it has commonSize blocks; the first set starts.   *)
DrawCommonItems ==
    /\ pc = "common"
    /\ commonItems' = {Random(CommonSeed, k) : k \in 0 .. req.commonSize - 1}
    /\ sets' = [sets EXCEPT ![id] = commonItems']
    /\ pc' = "fill"
    /\ UNCHANGED <<req, id, j, drawn, intersection>>

Insert(x) == sets' = [sets EXCEPT ![id] = @ \cup {x}]
Filling == pc = "fill" /\ Cardinality(sets[id]) < req.setSize

(* Faulty variant: the participant's own index is inserted too.            *)
BugInsertIndex ==
    /\ Filling
    /\ j < req.nParties
    /\ Insert(Index(j))
    /\ j' = j + 1
    /\ UNCHANGED <<req, commonItems, id, drawn, intersection, pc>>

(* The index of another participant is inserted.                           *)
InsertIndex ==
    /\ Filling
    /\ j < req.nParties
    /\ id # j
    /\ Insert(Index(j))
    /\ j' = j + 1
    /\ UNCHANGED <<req, commonItems, id, drawn, intersection, pc>>

(* Faulty variant: j is left where it is at the participant's own index.   *)
BugInsertRandom ==
    /\ Filling
    /\ j >= req.nParties \/ id = j
    /\ Insert(Random(Seed(id), drawn))
    /\ drawn' = drawn + 1
    /\ UNCHANGED <<req, commonItems, id, j, intersection, pc>>

(* Faulty variant: every block is the first of a new generator.            *)
BugInsertFirst ==
    /\ Filling
    /\ j >= req.nParties \/ id = j
    /\ Insert(Random(Seed(id), 0))
    /\ j' = IF j < req.nParties THEN j + 1 ELSE j
    /\ UNCHANGED <<req, commonItems, id, drawn, intersection, pc>>

(***************************************************************************)
(* A random block is inserted: in place of the participant's own index, or *)
(* when there are no more indices.  It may be in the set already.          *)
(***************************************************************************)
InsertRandom ==
    /\ Filling
    /\ j >= req.nParties \/ id = j
    /\ Insert(Random(Seed(id), drawn))
    /\ drawn' = drawn + 1
    /\ j' = IF j < req.nParties THEN j + 1 ELSE j
    /\ UNCHANGED <<req, commonItems, id, intersection, pc>>

(* Faulty variant: the loop stops one block early.                         *)
BugNextParty ==
    /\ pc = "fill"
    /\ Cardinality(sets[id]) >= req.setSize - 1
    /\ id + 1 < req.nParties
    /\ id' = id + 1
    /\ j' = 0
    /\ drawn' = 0
    /\ sets' = [sets EXCEPT ![id + 1] = commonItems]
    /\ UNCHANGED <<req, commonItems, intersection, pc>>

(* The set is full: the next participant's starts from the common items.   *)
NextParty ==
    /\ pc = "fill"
    /\ Cardinality(sets[id]) >= req.setSize
    /\ id + 1 < req.nParties
    /\ id' = id + 1
    /\ j' = 0
    /\ drawn' = 0
    /\ sets' = [sets EXCEPT ![id + 1] = commonItems]
    /\ UNCHANGED <<req, commonItems, intersection, pc>>

(* getIntersection: the elements of the first set that all others have.    *)
getIntersection == {x \in sets[0] : \A p \in Party \ {0} : x \in sets[p]}

(* All sets are full: their intersection is computed and handed out.       *)
HandOut ==
    /\ pc = "fill"
    /\ Cardinality(sets[id]) >= req.setSize
    /\ id + 1 = req.nParties
    /\ intersection' = getIntersection
    /\ pc' = "done"
    /\ UNCHANGED <<req, commonItems, id, j, drawn, sets>>

HandedOut == pc = "done" /\ UNCHANGED vars

Next == \/ DrawCommonItems \/ InsertIndex \/ InsertRandom \/ NextParty \/ HandOut
        \/ HandedOut

Spec == Init /\ [][Next]_vars /\ WF_vars(Next)

-----------------------------------------------------------------------------
(***************************************************************************)
(* With two participants or more the sets have exactly the common items in *)
(* common: neither the near misses nor the generator that participant 0    *)
(* shares with the common items adds to the expected result.               *)
(***************************************************************************)
ExpectsCommonItems ==
    pc = "done" /\ req.nParties > 1 => intersection = commonItems

(***************************************************************************)
(* All sets get the same size, the one that the OPPRF parameters of all    *)
(* participants are computed from (items[0].size(), sep_psi.cpp:1240).     *)
(***************************************************************************)
SameSizes ==
    pc = "done" => \A p, q \in Party : Cardinality(sets[p]) = Cardinality(sets[q])

(***************************************************************************)
(* When there is room for them, every participant is the only one to lack  *)
(* some block: a protocol that ignores one participant gives a wrong       *)
(* result on these inputs.                                                 *)
(***************************************************************************)
NobodyIsRedundant ==
    pc = "done" /\ req.nParties > 1 /\ req.setSize >= req.commonSize + req.nParties =>
        \A p \in Party : \E x \in UNION {sets[q] : q \in Party} :
                           /\ x \notin sets[p]
                                /\ \A q \in Party \ {p} : x \in sets[q]

(* The sets get full, although draws may repeat what is in them.           *)
SetsGetFull == <>(pc = "done")

-----------------------------------------------------------------------------
(* The inductive invariant behind the safety properties.                   *)

(* The shape of the state (the locals of createPartySets and the sets).    *)
TypeOK ==
    /\ req \in Requests
    /\ id \in Party
    /\ j \in 0 .. req.nParties
    /\ drawn \in Nat
    /\ DOMAIN sets = Party
    /\ \A p \in Party : IsFiniteSet(sets[p])
    /\ pc \in {"common", "fill", "done"}

Common == {Random(CommonSeed, k) : k \in 0 .. req.commonSize - 1}

(* The set of p is being filled or full; the set of p is full.             *)
Begun(p) == pc # "common" /\ p <= id
Full(p)  == pc = "done" \/ (pc = "fill" /\ p < id)

(***************************************************************************)
(* What a set is made of: the common items, indices of others and blocks   *)
(* of the participant's own generator.                                     *)
(***************************************************************************)
ContentsInv ==
    /\ IF pc = "common" THEN id = 0 /\ j = 0 ELSE commonItems = Common
    /\ \A p \in Party : Begun(p) =>
          /\ commonItems \subseteq sets[p]
          /\ \A x \in sets[p] : \/ x \in commonItems
                                \/ \E q \in Party \ {p} : x = Index(q)
                                \/ x.kind = "random" /\ x.seed = Seed(p)
    /\ pc = "done" => id + 1 = req.nParties /\ intersection = getIntersection

(* How large a set gets: as asked for, or the common items if they exceed. *)
FullSize == IF Cardinality(commonItems) < req.setSize THEN req.setSize
            ELSE Cardinality(commonItems)

(* How large the sets are.  While there are indices left, so is j.         *)
SizeInv ==
    \A p \in Party :
        /\ Begun(p) => Cardinality(sets[p]) <= FullSize
        /\ Full(p) => Cardinality(sets[p]) = FullSize
        /\ Begun(p) /\ p = id /\ j < req.nParties =>
               Cardinality(sets[p]) <= Cardinality(commonItems) + j

Room == req.setSize >= req.commonSize + req.nParties

(* Which indices a set has: those passed, and in the end all if they fit.  *)
IndexInv ==
    \A p \in Party :
        /\ Begun(p) /\ p = id => \A q \in 0 .. j - 1 : q # p => Index(q) \in sets[p]
        /\ Full(p) /\ Room => \A q \in Party \ {p} : Index(q) \in sets[p]
=============================================================================
