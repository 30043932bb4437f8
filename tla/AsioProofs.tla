----------------------------- MODULE AsioProofs -----------------------------
(***************************************************************************)
(* Theorems about standaloneWithAsio and the harness that runs it, for any *)
(* number of participants.                                                 *)
(*                                                                         *)
(* AsioConnect, for any dealer and any ports that leave room for each      *)
(* other: whoever is connected is connected to the right peer, and whoever *)
(* is ready has all its sockets.                                           *)
(*                                                                         *)
(* AsioHarness, with and without the exception of empty sets: no           *)
(* io_context of test_with_asio is abandoned.                              *)
(***************************************************************************)
EXTENDS AsioConnect, AsioHarness, SequenceTheorems, FiniteSetTheorems, TLAPS

-----------------------------------------------------------------------------
(* Ports.                                                                  *)

Number(n, a, b) == a * n + b

(* A pair of indices is found again in its number.                         *)
LEMMA PairNumber ==
    ASSUME NEW n \in Nat \ {0}, NEW a \in 0 .. n - 1, NEW b \in 0 .. n - 1,
           NEW c \in 0 .. n - 1, NEW d \in 0 .. n - 1, Number(n, a, b) = Number(n, c, d)
    PROVE  a = c /\ b = d
<1> USE DEF Number
<1>1. ASSUME NEW u \in 0 .. n - 1, NEW v \in 0 .. n - 1,
             NEW x \in 0 .. n - 1, NEW y \in 0 .. n - 1, u < x
      PROVE  u * n + v < x * n + y
  <2>1. x * n >= (u + 1) * n
    BY <1>1
  <2>2. (u + 1) * n = u * n + n
    OBVIOUS
  <2>3. x * n \in Nat /\ u * n \in Nat
    OBVIOUS
  <2> QED BY <2>1, <2>2, <2>3
<1>2. ~ (a < c) /\ ~ (c < a)
  <2>1. a * n + b \in Nat
    OBVIOUS
  <2> QED BY <1>1, <2>1
<1>3. a = c
  BY <1>2
<1>4. a * n \in Nat
  OBVIOUS
<1> QED BY <1>3, <1>4

(* The number of a pair is below the square of the number of indices.      *)
LEMMA PairNumberBound ==
    ASSUME NEW n \in Nat \ {0}, NEW a \in 0 .. n - 1, NEW b \in 0 .. n - 1
    PROVE  Number(n, a, b) \in Nat /\ Number(n, a, b) < n * n
<1> USE DEF Number
<1>1. (a + 1) * n <= n * n
  OBVIOUS
<1>2. (a + 1) * n = a * n + n
  OBVIOUS
<1>3. a * n \in Nat /\ n * n \in Nat
  OBVIOUS
<1> QED BY <1>1, <1>2, <1>3

(***************************************************************************)
(* The port of a connection tells its purpose, its participants and its    *)
(* phase: with bases that are apart, no two connections share one.         *)
(***************************************************************************)
LEMMA PortsDiffer ==
    ASSUME NEW e \in AllEnds, NEW f \in AllEnds, Port(e) = Port(f)
    PROVE  e.kind = f.kind /\ e.from = f.from /\ e.to = f.to /\ e.phase = f.phase
<1> DEFINE numE == Number(NParties, e.from, e.to)
           numF == Number(NParties, f.from, f.to)
           baseE == BasePort[e.kind][e.phase]
           baseF == BasePort[f.kind][f.phase]
<1>1. /\ e.kind \in Kind /\ e.phase \in 1 .. 2 /\ f.kind \in Kind /\ f.phase \in 1 .. 2
      /\ e.from \in 0 .. NParties - 1 /\ e.to \in 0 .. NParties - 1
      /\ f.from \in 0 .. NParties - 1 /\ f.to \in 0 .. NParties - 1
      /\ NParties \in Nat \ {0}
  BY NPartiesAssumption DEF AllEnds, Party
<1>2. /\ numE \in Nat /\ numE < NParties * NParties
      /\ numF \in Nat /\ numF < NParties * NParties
      /\ NParties * NParties \in Nat
  <2>1. numE \in Nat /\ numE < NParties * NParties
    BY <1>1, PairNumberBound
  <2>2. numF \in Nat /\ numF < NParties * NParties
    BY <1>1, PairNumberBound
  <2>3. NParties * NParties \in Nat
    BY <1>1
  <2> HIDE DEF numE, numF
  <2> QED BY <2>1, <2>2, <2>3
<1>3. baseE \in Nat /\ baseF \in Nat /\ baseE + numE = baseF + numF
  <2>1. baseE \in Nat /\ baseF \in Nat
    BY <1>1, BasePortAssumption
  <2>2. Port(e) = baseE + numE /\ Port(f) = baseF + numF
    BY DEF Port, Number
  <2> QED BY <2>1, <2>2
<1>4. \/ e.kind = f.kind /\ e.phase = f.phase
      \/ baseE + NParties * NParties <= baseF
      \/ baseF + NParties * NParties <= baseE
  BY <1>1, BasesApart
<1>5. e.kind = f.kind /\ e.phase = f.phase
  <2> HIDE DEF numE, numF
  <2> QED BY <1>2, <1>3, <1>4
<1>6. numE = numF
  <2> HIDE DEF numE, numF
  <2> QED BY <1>2, <1>3, <1>5
<1>7. e.from = f.from /\ e.to = f.to
  BY <1>1, <1>6, PairNumber
<1> QED BY <1>5, <1>7

-----------------------------------------------------------------------------
(* Programs.                                                               *)

Members(s) == {s[k] : k \in 1 .. Len(s)}

(* The members of a concatenation are those of its parts.                  *)
LEMMA ConcatMembers ==
    ASSUME NEW S, NEW s \in Seq(S), NEW t \in Seq(S)
    PROVE  s \o t \in Seq(S) /\ Members(s \o t) = Members(s) \cup Members(t)
<1>1. /\ s \o t \in Seq(S) /\ Len(s \o t) = Len(s) + Len(t)
      /\ Len(s) \in Nat /\ Len(t) \in Nat
  BY ConcatProperties
<1>2. \A i \in 1 .. Len(s) + Len(t) :
        (s \o t)[i] = IF i <= Len(s) THEN s[i] ELSE t[i - Len(s)]
  BY ConcatProperties
<1>3. Members(s \o t) \subseteq Members(s) \cup Members(t)
  BY <1>1, <1>2 DEF Members
<1>4. ASSUME NEW k \in 1 .. Len(s) PROVE s[k] \in Members(s \o t)
  <2>1. k \in 1 .. Len(s \o t) /\ (s \o t)[k] = s[k]
    BY <1>1, <1>2
  <2> QED BY <2>1 DEF Members
<1>5. ASSUME NEW k \in 1 .. Len(t) PROVE t[k] \in Members(s \o t)
  <2>1. k + Len(s) \in 1 .. Len(s \o t) /\ (s \o t)[k + Len(s)] = t[k]
    BY <1>1, <1>2
  <2> QED BY <2>1 DEF Members
<1> QED BY <1>1, <1>3, <1>4, <1>5 DEF Members

(* The loops over the participants go through whom they should.            *)
LEMMA Loops ==
    ASSUME NEW p \in Party
    PROVE  /\ DownToAfter(p) \in Seq(Party)
           /\ Members(DownToAfter(p)) = p + 1 .. NParties - 1
           /\ AllBut(p) \in Seq(Party)
           /\ Members(AllBut(p)) = Party \ {p}
           /\ DownFrom(p) \in Seq(Party)
           /\ Members(DownFrom(p)) = 0 .. p - 1
<1>1. NParties \in Nat /\ p \in 0 .. NParties - 1 /\ Party = 0 .. NParties - 1
  BY NPartiesAssumption DEF Party
<1>2. /\ DownToAfter(p) \in Seq(Party) /\ Len(DownToAfter(p)) = NParties - 1 - p
      /\ AllBut(p) \in Seq(Party) /\ Len(AllBut(p)) = NParties - 1
      /\ DownFrom(p) \in Seq(Party) /\ Len(DownFrom(p)) = p
  BY <1>1 DEF DownToAfter, AllBut, DownFrom
<1>3. Members(DownToAfter(p)) = p + 1 .. NParties - 1
  <2>1. ASSUME NEW q \in p + 1 .. NParties - 1 PROVE q \in Members(DownToAfter(p))
    <3>1. NParties - q \in 1 .. NParties - 1 - p /\ DownToAfter(p)[NParties - q] = q
      BY <1>1 DEF DownToAfter
    <3> QED BY <1>2, <3>1 DEF Members
  <2>2. Members(DownToAfter(p)) \subseteq p + 1 .. NParties - 1
    BY <1>1, <1>2 DEF Members, DownToAfter
  <2> QED BY <2>1, <2>2
<1>4. Members(AllBut(p)) = Party \ {p}
  <2>1. ASSUME NEW q \in Party \ {p} PROVE q \in Members(AllBut(p))
    <3> DEFINE k == IF q < p THEN q + 1 ELSE q
    <3>1. k \in 1 .. NParties - 1 /\ AllBut(p)[k] = q
      BY <1>1 DEF AllBut
    <3> QED BY <1>2, <3>1 DEF Members
  <2>2. ASSUME NEW k \in 1 .. NParties - 1 PROVE AllBut(p)[k] \in Party \ {p}
    <3>1. CASE k <= p
      BY <1>1, <3>1 DEF AllBut
    <3>2. CASE ~ (k <= p)
      BY <1>1, <3>2 DEF AllBut
    <3> QED BY <3>1, <3>2
  <2>3. Members(AllBut(p)) \subseteq Party \ {p}
    BY <1>2, <2>2 DEF Members
  <2> QED BY <2>1, <2>3
<1>5. Members(DownFrom(p)) = 0 .. p - 1
  <2>1. ASSUME NEW q \in 0 .. p - 1 PROVE q \in Members(DownFrom(p))
    <3>1. p - q \in 1 .. p /\ DownFrom(p)[p - q] = q
      BY <1>1 DEF DownFrom
    <3> QED BY <1>2, <3>1 DEF Members
  <2>2. ASSUME NEW k \in 1 .. p PROVE DownFrom(p)[k] \in 0 .. p - 1
    BY <1>1 DEF DownFrom
  <2>3. Members(DownFrom(p)) \subseteq 0 .. p - 1
    BY <1>2, <2>2 DEF Members
  <2> QED BY <2>1, <2>3
<1> QED BY <1>2, <1>3, <1>4, <1>5

(* What p opens for a phase, whatever the order.                           *)
NeededOnce(p) ==
    {End("connect", "zs", p, q, 1) : q \in Party \ {p}}
    \cup {End("accept", "zs", q, p, 1) : q \in Party \ {p}}
    \cup IF p = DealerIdx
         THEN {End("accept", "rc", q, p, 1) : q \in Party \ {p}}
         ELSE {End("connect", "rc", p, DealerIdx, 1)}

(* What is done for the members of a loop.                                 *)
LEMMA LoopMembers ==
    ASSUME NEW p \in Party, NEW peers \in Seq(Party)
    PROVE  /\ Connects(p, peers) \in Seq(AllEnds)
           /\ Members(Connects(p, peers)) = {End("connect", "zs", p, q, 1) : q \in Members(peers)}
           /\ Accepts(p, peers) \in Seq(AllEnds)
           /\ Members(Accepts(p, peers)) = {End("accept", "zs", q, p, 1) : q \in Members(peers)}
           /\ RcAccepts(p, peers) \in Seq(AllEnds)
           /\ Members(RcAccepts(p, peers)) = {End("accept", "rc", q, p, 1) : q \in Members(peers)}
<1>1. /\ Len(peers) \in Nat /\ DOMAIN peers = 1 .. Len(peers)
      /\ \A k \in 1 .. Len(peers) : peers[k] \in Party
  BY LenProperties
<1>2. \A q \in Party : /\ End("connect", "zs", p, q, 1) \in AllEnds
                       /\ End("accept", "zs", q, p, 1) \in AllEnds
                       /\ End("accept", "rc", q, p, 1) \in AllEnds
  BY DEF End, AllEnds, Kind
<1>3. /\ Connects(p, peers) \in Seq(AllEnds) /\ Len(Connects(p, peers)) = Len(peers)
      /\ \A k \in 1 .. Len(peers) : Connects(p, peers)[k] = End("connect", "zs", p, peers[k], 1)
  BY <1>1, <1>2 DEF Connects
<1>4. /\ Accepts(p, peers) \in Seq(AllEnds) /\ Len(Accepts(p, peers)) = Len(peers)
      /\ \A k \in 1 .. Len(peers) : Accepts(p, peers)[k] = End("accept", "zs", peers[k], p, 1)
  BY <1>1, <1>2 DEF Accepts
<1>5. /\ RcAccepts(p, peers) \in Seq(AllEnds) /\ Len(RcAccepts(p, peers)) = Len(peers)
      /\ \A k \in 1 .. Len(peers) : RcAccepts(p, peers)[k] = End("accept", "rc", peers[k], p, 1)
  BY <1>1, <1>2 DEF RcAccepts
<1> QED BY <1>3, <1>4, <1>5 DEF Members

(* A participant opens one connection for each purpose it needs.           *)
LEMMA PairsMembers ==
    ASSUME NEW p \in Party
    PROVE  Pairs(p) \in Seq(AllEnds) /\ Members(Pairs(p)) = NeededOnce(p)
<1> DEFINE first == Connects(p, DownToAfter(p))
           second == Accepts(p, AllBut(p))
           third == Connects(p, DownFrom(p))
           last == IF p = DealerIdx THEN RcAccepts(p, AllBut(p)) ELSE RcConnect(p)
<1>1. /\ first \in Seq(AllEnds) /\ second \in Seq(AllEnds) /\ third \in Seq(AllEnds)
      /\ Members(first) = {End("connect", "zs", p, q, 1) : q \in p + 1 .. NParties - 1}
      /\ Members(second) = {End("accept", "zs", q, p, 1) : q \in Party \ {p}}
      /\ Members(third) = {End("connect", "zs", p, q, 1) : q \in 0 .. p - 1}
  BY Loops, LoopMembers
<1>2. /\ last \in Seq(AllEnds)
      /\ Members(last) = IF p = DealerIdx
                         THEN {End("accept", "rc", q, p, 1) : q \in Party \ {p}}
                         ELSE {End("connect", "rc", p, DealerIdx, 1)}
  <2>1. CASE p = DealerIdx
    BY <2>1, Loops, LoopMembers
  <2>2. CASE p # DealerIdx
    <3>1. RcConnect(p) = <<End("connect", "rc", p, DealerIdx, 1)>>
      BY DEF RcConnect
    <3>2. End("connect", "rc", p, DealerIdx, 1) \in AllEnds
      BY DealerAssumption DEF End, AllEnds, Kind
    <3>3. RcConnect(p) \in Seq(AllEnds) /\ Len(RcConnect(p)) = 1
      BY <3>1, <3>2
    <3> QED BY <2>2, <3>1, <3>3 DEF Members
  <2> QED BY <2>1, <2>2
<1> DEFINE two == first \o second
           three == two \o third
           all == three \o last
<1> HIDE DEF first, second, third, last
<1>3. two \in Seq(AllEnds) /\ Members(two) = Members(first) \cup Members(second)
  BY <1>1, ConcatMembers
<1> HIDE DEF two
<1>4. three \in Seq(AllEnds) /\ Members(three) = Members(two) \cup Members(third)
  BY <1>1, <1>3, ConcatMembers
<1> HIDE DEF three
<1>5. all \in Seq(AllEnds) /\ Members(all) = Members(three) \cup Members(last)
  BY <1>2, <1>4, ConcatMembers
<1>6. (p + 1 .. NParties - 1) \cup (0 .. p - 1) = Party \ {p}
  BY NPartiesAssumption DEF Party
<1>7. Members(first) \cup Members(third) = {End("connect", "zs", p, q, 1) : q \in Party \ {p}}
  BY <1>1, <1>6
<1>8. Members(all) = NeededOnce(p)
  <2> HIDE DEF all
  <2> QED BY <1>1, <1>2, <1>3, <1>4, <1>5, <1>7 DEF NeededOnce
<1>9. Pairs(p) = all
  BY DEF Pairs, first, second, third, last, two, three
<1> QED BY <1>5, <1>8, <1>9

-----------------------------------------------------------------------------
(* Steps.                                                                  *)

(* The number of phases of either program.                                 *)
LEMMA Phases ==
    /\ Cardinality(Phase) \in {1, 2} /\ Phase = 1 .. Cardinality(Phase)
    /\ Phase \subseteq 1 .. 2
<1>1. CASE program = "sep"
  <2>1. Cardinality({1} \cup {2}) = 2
    <3>1. IsFiniteSet({1}) /\ Cardinality({1}) = 1
      BY FS_Singleton
    <3>2. Cardinality({1} \cup {2}) = Cardinality({1}) + 1
      BY <3>1, FS_AddElement
    <3> QED BY <3>1, <3>2
  <2>2. Phase = {1} \cup {2} /\ Phase = 1 .. 2
    BY <1>1 DEF Phase
  <2> QED BY <2>1, <2>2
<1>2. CASE program # "sep"
  <2>1. Cardinality({1}) = 1
    BY FS_Singleton
  <2> QED BY <1>2, <2>1 DEF Phase
<1> QED BY <1>1, <1>2

(* A step is a connection and a phase, and each of these is a step.        *)
LEMMA StepSplit ==
    ASSUME NEW K \in {1, 2}, NEW n \in Nat
    PROVE  /\ \A s \in 1 .. K * n : /\ (s - 1) \div K + 1 \in 1 .. n
                                    /\ ((s - 1) % K) + 1 \in 1 .. K
           /\ \A k \in 1 .. n : \A h \in 1 .. K :
                \E s \in 1 .. K * n : (s - 1) \div K + 1 = k /\ ((s - 1) % K) + 1 = h
<1>1. CASE K = 1
  <2>1. \A s \in 1 .. n : (s - 1) \div 1 = s - 1 /\ (s - 1) % 1 = 0
    OBVIOUS
  <2> QED BY <1>1, <2>1
<1>2. CASE K = 2
  <2>1. ASSUME NEW s \in 1 .. 2 * n
        PROVE  (s - 1) \div 2 + 1 \in 1 .. n /\ ((s - 1) % 2) + 1 \in 1 .. 2
    OBVIOUS
  <2>2. ASSUME NEW k \in 1 .. n, NEW h \in 1 .. 2
        PROVE  \E s \in 1 .. 2 * n : (s - 1) \div 2 + 1 = k /\ ((s - 1) % 2) + 1 = h
    <3> DEFINE s == 2 * (k - 1) + h
    <3>1. s \in 1 .. 2 * n
      OBVIOUS
    <3>2. (s - 1) \div 2 = k - 1 /\ (s - 1) % 2 = h - 1
      OBVIOUS
    <3>3. (s - 1) \div 2 + 1 = k /\ ((s - 1) % 2) + 1 = h
      BY <3>2
    <3> HIDE DEF s
    <3> QED BY <3>1, <3>3
  <2> QED BY <1>2, <2>1, <2>2
<1> QED BY <1>1, <1>2

(* Every step of p is a connection; all of them together are what it needs.*)
LEMMA OpMembers ==
    ASSUME NEW p \in Party
    PROVE  /\ Steps(p) \in Nat
           /\ \A s \in 1 .. Steps(p) : Op(p, s) \in AllEnds
           /\ {Op(p, s) : s \in 1 .. Steps(p)} = Needed(p)
<1> DEFINE K == Cardinality(Phase)
           n == Len(Pairs(p))
<1>1. K \in {1, 2} /\ Phase = 1 .. K /\ Phase \subseteq 1 .. 2
  BY Phases
<1>2. n \in Nat /\ (\A k \in 1 .. n : Pairs(p)[k] \in AllEnds) /\ Members(Pairs(p)) = NeededOnce(p)
  BY PairsMembers, ElementOfSeq, LenProperties
<1>3. Steps(p) = K * n
  BY DEF Steps
<1> HIDE DEF K, n
<1>4. /\ \A s \in 1 .. K * n : (s - 1) \div K + 1 \in 1 .. n /\ ((s - 1) % K) + 1 \in 1 .. K
      /\ \A k \in 1 .. n : \A h \in 1 .. K :
           \E s \in 1 .. K * n : (s - 1) \div K + 1 = k /\ ((s - 1) % K) + 1 = h
  <2>1. K \in {1, 2} /\ n \in Nat
    BY <1>1, <1>2
  <2> DEFINE Split(j, m) ==
          /\ \A s \in 1 .. j * m : (s - 1) \div j + 1 \in 1 .. m /\ ((s - 1) % j) + 1 \in 1 .. j
          /\ \A k \in 1 .. m : \A h \in 1 .. j :
               \E s \in 1 .. j * m : (s - 1) \div j + 1 = k /\ ((s - 1) % j) + 1 = h
  <2>2. \A j \in {1, 2}, m \in Nat : Split(j, m)
    BY StepSplit, Zenon
  <2> HIDE DEF Split
  <2>3. Split(K, n)
    BY <2>1, <2>2
  <2> QED BY <2>3, Zenon DEF Split
<1>5. \A s : Op(p, s) = [Pairs(p)[(s - 1) \div K + 1] EXCEPT !.phase = ((s - 1) % K) + 1]
  BY DEF Op, K
<1>6. ASSUME NEW e \in AllEnds, NEW h \in Phase
      PROVE  /\ [e EXCEPT !.phase = h] \in AllEnds
             /\ [e EXCEPT !.phase = h] = End(e.act, e.kind, e.from, e.to, h)
  BY <1>1, <1>6 DEF AllEnds, End
<1>7. {Op(p, s) : s \in 1 .. K * n}
        = {[e EXCEPT !.phase = h] : e \in Members(Pairs(p)), h \in Phase}
  <2>1. ASSUME NEW s \in 1 .. K * n
        PROVE  \E e \in Members(Pairs(p)), h \in Phase : Op(p, s) = [e EXCEPT !.phase = h]
    <3>1. PICK k \in 1 .. n : k = (s - 1) \div K + 1
      BY <1>4
    <3>2. PICK h \in Phase : h = ((s - 1) % K) + 1
      BY <1>1, <1>4
    <3>3. Op(p, s) = [Pairs(p)[k] EXCEPT !.phase = h]
      BY <1>5, <3>1, <3>2
    <3>4. Pairs(p)[k] \in Members(Pairs(p))
      BY DEF Members, n
    <3> QED BY <3>3, <3>4
  <2>2. ASSUME NEW e \in Members(Pairs(p)), NEW h \in Phase
        PROVE  \E s \in 1 .. K * n : Op(p, s) = [e EXCEPT !.phase = h]
    <3>1. PICK k \in 1 .. n : e = Pairs(p)[k]
      BY DEF Members, n
    <3>2. PICK s \in 1 .. K * n : (s - 1) \div K + 1 = k /\ ((s - 1) % K) + 1 = h
      BY <1>1, <1>4
    <3> QED BY <1>5, <3>1, <3>2
  <2>3. ASSUME NEW f PROVE  f \in {Op(p, s) : s \in 1 .. K * n} <=>
                            \E e \in Members(Pairs(p)), h \in Phase : f = [e EXCEPT !.phase = h]
    <3>1. ASSUME NEW s \in 1 .. K * n, f = Op(p, s)
          PROVE  \E e \in Members(Pairs(p)), h \in Phase : f = [e EXCEPT !.phase = h]
      BY <2>1, <3>1, Zenon
    <3>2. ASSUME NEW e \in Members(Pairs(p)), NEW h \in Phase, f = [e EXCEPT !.phase = h]
          PROVE  \E s \in 1 .. K * n : f = Op(p, s)
      BY <2>2, <3>2, Zenon
    <3> QED BY <3>1, <3>2, Zenon
  <2> QED BY <2>3
<1>8. {[e EXCEPT !.phase = h] : e \in NeededOnce(p), h \in Phase} = Needed(p)
  <2>1. NeededOnce(p) \subseteq AllEnds
    BY <1>2 DEF Members, n
  <2>2. ASSUME NEW e \in NeededOnce(p), NEW h \in Phase
        PROVE  [e EXCEPT !.phase = h] \in Needed(p)
    <3>1. [e EXCEPT !.phase = h] = End(e.act, e.kind, e.from, e.to, h)
      BY <1>6, <2>1
    <3>2. End(e.act, e.kind, e.from, e.to, h) \in Needed(p)
      BY DEF NeededOnce, Needed, End
    <3> QED BY <3>1, <3>2
  <2>3. ASSUME NEW f \in Needed(p)
        PROVE  \E e \in NeededOnce(p), h \in Phase : f = [e EXCEPT !.phase = h]
    <3>1. PICK act, kind, from, to, h :
            /\ h \in Phase /\ f = End(act, kind, from, to, h)
            /\ End(act, kind, from, to, 1) \in NeededOnce(p)
      <4>1. CASE \E q \in Party \ {p}, h \in Phase : f = End("connect", "zs", p, q, h)
        BY <4>1 DEF NeededOnce
      <4>2. CASE \E q \in Party \ {p}, h \in Phase : f = End("accept", "zs", q, p, h)
        BY <4>2 DEF NeededOnce
      <4>3. CASE /\ p = DealerIdx
                 /\ \E q \in Party \ {p}, h \in Phase : f = End("accept", "rc", q, p, h)
        BY <4>3 DEF NeededOnce
      <4>4. CASE p # DealerIdx /\ \E h \in Phase : f = End("connect", "rc", p, DealerIdx, h)
        BY <4>4 DEF NeededOnce
      <4> QED BY <4>1, <4>2, <4>3, <4>4 DEF Needed
    <3>2. PICK e \in NeededOnce(p) : e = End(act, kind, from, to, 1)
      BY <3>1
    <3>3. f = End(e.act, e.kind, e.from, e.to, h)
      BY <3>1, <3>2 DEF End
    <3>4. h \in Phase /\ [e EXCEPT !.phase = h] = End(e.act, e.kind, e.from, e.to, h)
      BY <1>6, <2>1, <3>1
    <3> QED BY <3>3, <3>4
  <2> QED BY <2>2, <2>3
<1>9. ASSUME NEW s \in 1 .. K * n PROVE Op(p, s) \in AllEnds
  <2>1. PICK k \in 1 .. n : k = (s - 1) \div K + 1
    BY <1>4
  <2>2. PICK h \in Phase : h = ((s - 1) % K) + 1
    BY <1>1, <1>4
  <2>3. Op(p, s) = [Pairs(p)[k] EXCEPT !.phase = h] /\ Pairs(p)[k] \in AllEnds
    BY <1>2, <1>5, <2>1, <2>2
  <2> QED BY <1>6, <2>3
<1>10. K * n \in Nat
  BY <1>1, <1>2
<1> QED BY <1>2, <1>3, <1>7, <1>8, <1>9, <1>10

(* The programs, their steps and what they need never change.              *)
LEMMA Fixed ==
    ASSUME [Next]_vars
    PROVE  /\ program' = program /\ Phase' = Phase
           /\ \A p : Steps(p)' = Steps(p) /\ Needed(p)' = Needed(p)
           /\ \A p, s : Op(p, s)' = Op(p, s)
<1>1. program' = program
  BY DEF Next, PartyStep, Launch, LaunchNothing, Listen, Connect, Accept, Terminated, vars
<1>2. Phase' = Phase
  BY <1>1 DEF Phase
<1> QED BY <1>1, <1>2 DEF Steps, Needed, Op

-----------------------------------------------------------------------------
(* The invariant.                                                          *)

(* Nobody has opened anything at the beginning.                            *)
LEMMA InitWired == Init => TypeOK /\ LinksInv /\ FilledInv
<1> SUFFICES ASSUME Init PROVE TypeOK /\ LinksInv /\ FilledInv
  OBVIOUS
<1>1. ASSUME NEW p \in Party
      PROVE  /\ at[p] \in Nat \ {0} /\ at[p] <= Steps(p) + 1
             /\ filled[p] = {} /\ 1 .. at[p] - 1 = {}
  <2>1. Steps(p) \in Nat /\ at[p] = 1 /\ filled[p] = {}
    BY OpMembers DEF Init
  <2> QED BY <2>1
<1>2. TypeOK
  BY <1>1 DEF Init, TypeOK
<1>3. LinksInv
  BY DEF Init, LinksInv
<1>4. FilledInv
  BY <1>1 DEF FilledInv
<1> QED BY <1>2, <1>3, <1>4

(* What a participant is waiting for is one of its connections.            *)
LEMMA NowType ==
    ASSUME TypeOK, NEW p \in Party, Busy(p)
    PROVE  /\ at[p] \in 1 .. Steps(p) /\ Now(p) = Op(p, at[p]) /\ Now(p) \in AllEnds
           /\ at[p] + 1 \in Nat \ {0} /\ at[p] + 1 <= Steps(p) + 1
<1>1. at[p] \in Nat \ {0} /\ Steps(p) \in Nat /\ at[p] <= Steps(p)
  BY OpMembers DEF TypeOK, Busy
<1> QED BY <1>1, OpMembers DEF Now

(* The state keeps its shape.                                              *)
LEMMA StepTypeOK == TypeOK /\ [Next]_vars => TypeOK'
<1> SUFFICES ASSUME TypeOK, [Next]_vars PROVE TypeOK'
  OBVIOUS
<1>1. program' = program /\ \A p : Steps(p)' = Steps(p)
  BY Fixed
<1> USE DEF TypeOK
<1>2. ASSUME NEW p \in Party, Launch(p) PROVE TypeOK'
  <2>1. Now(p) \in AllEnds
    BY <1>2, NowType DEF Launch
  <2> QED BY <1>1, <1>2, <2>1 DEF Launch
<1>3. ASSUME NEW p \in Party, LaunchNothing(p) PROVE TypeOK'
  BY <1>1, <1>3 DEF LaunchNothing
<1>4. ASSUME NEW p \in Party, Listen(p) PROVE TypeOK'
  <2>1. Now(p) \in AllEnds
    BY <1>4, NowType DEF Listen, Running
  <2> QED BY <1>1, <1>4, <2>1 DEF Listen
<1>5. ASSUME NEW p \in Party, Connect(p) PROVE TypeOK'
  <2>1. /\ Now(p) \in AllEnds
        /\ at[p] + 1 \in Nat \ {0} /\ at[p] + 1 <= Steps(p) + 1
    BY <1>5, NowType DEF Connect, Running
  <2>2. links' \subseteq AllEnds \X AllEnds
    BY <1>5, <2>1 DEF Connect
  <2> QED BY <1>1, <1>5, <2>1, <2>2 DEF Connect
<1>6. ASSUME NEW p \in Party, Accept(p) PROVE TypeOK'
  <2>1. at[p] + 1 \in Nat \ {0} /\ at[p] + 1 <= Steps(p) + 1
    BY <1>6, NowType DEF Accept, Running
  <2> QED BY <1>1, <1>6, <2>1 DEF Accept
<1>7. CASE UNCHANGED vars
  BY <1>1, <1>7 DEF vars
<1> QED BY <1>2, <1>3, <1>4, <1>5, <1>6, <1>7 DEF Next, PartyStep, Terminated

(* Links are made on one port, and sockets are held once they are linked.  *)
LEMMA StepWired ==
    TypeOK /\ LinksInv /\ FilledInv /\ [Next]_vars => LinksInv' /\ FilledInv'
<1> SUFFICES ASSUME TypeOK, LinksInv, FilledInv, [Next]_vars PROVE LinksInv' /\ FilledInv'
  OBVIOUS
<1>1. \A p, s : Op(p, s)' = Op(p, s)
  BY Fixed
<1>2. at \in [Party -> Nat \ {0}] /\ DOMAIN filled = Party
  BY DEF TypeOK
<1> USE DEF LinksInv, FilledInv
<1>3. CASE UNCHANGED <<at, links, filled>>
  BY <1>1, <1>3 DEF Port
<1>4. ASSUME NEW p \in Party, NEW e, e = Op(p, at[p]),
             filled' = [filled EXCEPT ![p] = @ \cup {e}], at' = [at EXCEPT ![p] = @ + 1],
             links \subseteq links', \E l \in links' : e \in {l[1], l[2]}
      PROVE  FilledInv'
  <2>1. \A q \in Party : q # p => at'[q] = at[q] /\ filled'[q] = filled[q]
    BY <1>2, <1>4
  <2>2. at'[p] = at[p] + 1 /\ filled'[p] = filled[p] \cup {e}
    BY <1>2, <1>4
  <2>3. 1 .. at'[p] - 1 = (1 .. at[p] - 1) \cup {at[p]}
    BY <1>2, <2>2
  <2>4. filled'[p] = {Op(p, s) : s \in 1 .. at'[p] - 1}
    BY <1>4, <2>2, <2>3
  <2>5. \A q \in Party : \A f \in filled'[q] : \E l \in links' : f \in {l[1], l[2]}
    BY <1>4, <2>1, <2>2
  <2> QED BY <1>1, <2>1, <2>4, <2>5
<1>5. ASSUME NEW p \in Party, Connect(p) PROVE LinksInv' /\ FilledInv'
  <2>1. PICK f \in listening : /\ Port(f) = Port(Now(p))
                               /\ links' = links \cup {<<Now(p), f>>}
    BY <1>5 DEF Connect
  <2>2. /\ Now(p) = Op(p, at[p]) /\ Now(p).act = "connect" /\ f.act = "accept"
        /\ filled' = [filled EXCEPT ![p] = @ \cup {Now(p)}]
        /\ at' = [at EXCEPT ![p] = @ + 1]
    BY <1>5, NowType DEF Connect, Running, TypeOK
  <2>3. LinksInv'
    BY <2>1, <2>2 DEF Port
  <2>4. PICK e : e = Now(p)
    OBVIOUS
  <2>5. <<e, f>> \in links' /\ links \subseteq links'
    BY <2>1, <2>4
  <2> HIDE DEF FilledInv
  <2> QED BY <1>4, <2>2, <2>3, <2>4, <2>5
<1>6. ASSUME NEW p \in Party, Accept(p) PROVE LinksInv' /\ FilledInv'
  <2>1. /\ Now(p) = Op(p, at[p]) /\ links' = links
        /\ \E l \in links : l[2] = Now(p)
        /\ filled' = [filled EXCEPT ![p] = @ \cup {Now(p)}]
        /\ at' = [at EXCEPT ![p] = @ + 1]
    BY <1>6, NowType DEF Accept, Running
  <2>2. LinksInv'
    BY <2>1 DEF Port
  <2>3. PICK e : e = Now(p)
    OBVIOUS
  <2> HIDE DEF FilledInv
  <2> QED BY <1>4, <2>1, <2>2, <2>3
<1> QED BY <1>3, <1>5, <1>6 DEF Next, PartyStep, Launch, LaunchNothing, Listen, Terminated, vars

(* The whole inductive invariant.                                          *)
LEMMA WiredInvariant == Spec => [](TypeOK /\ LinksInv /\ FilledInv)
BY InitWired, StepTypeOK, StepWired, PTL DEF Spec

-----------------------------------------------------------------------------
(* What follows from it.                                                   *)

(* A port belongs to one connection, so that both ends of a link mean it.  *)
LEMMA RightFromWired == TypeOK /\ LinksInv => RightPeer
<1> SUFFICES ASSUME TypeOK, LinksInv PROVE RightPeer
  OBVIOUS
<1>1. ASSUME NEW l \in links PROVE l[1] = [l[2] EXCEPT !.act = "connect"]
  <2>1. /\ l[1] \in AllEnds /\ l[2] \in AllEnds /\ Port(l[1]) = Port(l[2])
        /\ l[1].act = "connect"
    BY DEF TypeOK, LinksInv
  <2>2. /\ l[1].kind = l[2].kind /\ l[1].from = l[2].from /\ l[1].to = l[2].to
        /\ l[1].phase = l[2].phase
    BY <2>1, PortsDiffer
  <2> QED BY <2>1, <2>2 DEF AllEnds
<1>2. ASSUME NEW e \in listening, NEW f \in listening, Port(e) = Port(f) PROVE e = f
  <2>1. e \in AllEnds /\ f \in AllEnds /\ e.act = f.act
    BY DEF TypeOK
  <2>2. e.kind = f.kind /\ e.from = f.from /\ e.to = f.to /\ e.phase = f.phase
    BY <1>2, <2>1, PortsDiffer
  <2> QED BY <2>1, <2>2 DEF AllEnds
<1> QED BY <1>1, <1>2 DEF RightPeer

(***************************************************************************)
(* Whoever is connected is connected to the peer it means, for the purpose *)
(* and in the phase it means, for any number of participants.              *)
(***************************************************************************)
THEOREM PeersAreRight == Spec => []RightPeer
BY WiredInvariant, RightFromWired, PTL

(* All its steps done, a participant holds all it needs.                   *)
LEMMA WiredWhenDone == TypeOK /\ FilledInv => ReadyMeansWired
<1> SUFFICES ASSUME TypeOK, FilledInv, NEW p \in Party, ~ Busy(p)
             PROVE  /\ filled[p] = Needed(p)
                    /\ \A e \in filled[p] : \E l \in links : e \in {l[1], l[2]}
  BY DEF ReadyMeansWired
<1>1. at[p] - 1 = Steps(p)
  BY OpMembers DEF TypeOK, Busy
<1> QED BY <1>1, OpMembers DEF FilledInv

(* A participant that goes on has every socket it needs, joined to a peer. *)
THEOREM ReadyIsWired == Spec => []ReadyMeansWired
BY WiredInvariant, WiredWhenDone, PTL

-----------------------------------------------------------------------------
(***************************************************************************)
(* The harness.  A thread can only stop once its guard is released.  The   *)
(* harness releases guards when the dealer has returned, and the dealer    *)
(* returns only when every party has come to reconstruction.  So a         *)
(* coroutine whose guard is gone has begun; and while it is waiting its    *)
(* thread goes on.                                                         *)
(***************************************************************************)

HarnessTypeOK ==
    /\ empty \in BOOLEAN
    /\ main \in {"launch", "dealer", "release", "join", "leave", "returned"}
    /\ next \in Party
    /\ phase \in [Party -> None .. Failed]
    /\ guard \in [Party -> BOOLEAN]
    /\ io \in [Party -> {"none", "running", "ended"}]

(* The harness goes to its final loop when the dealer has returned.        *)
LoopAfterDealer == main \in {"release", "join"} => phase[0] = Returned

(* So does it release guards.                                              *)
ReleasedAfterDealer == \A i \in Party : ~ guard[i] => phase[0] = Returned

(* The dealer returns when everybody has come to reconstruction.           *)
DealerNeedsAll == phase[0] = Returned => \A i \in Party : phase[i] >= Reconstruction

HarnessInv == /\ HarnessTypeOK
              /\ LoopAfterDealer
              /\ ReleasedAfterDealer
              /\ DealerNeedsAll
              /\ NoContextAbandoned

USE DEF Party, None, Connecting, Offline, ZeroSharing, Reconstruction, Returned, Failed

(* The phases and threads the harness starts with satisfy the invariant.   *)
LEMMA HarnessStarts == HarnessInit => HarnessInv
  BY NPartiesAssumption
  DEF HarnessInit, HarnessInv, HarnessTypeOK, LoopAfterDealer, ReleasedAfterDealer, DealerNeedsAll,
      NoContextAbandoned

(***************************************************************************)
(* No step of the harness or of a thread breaks the invariant.             *)
(***************************************************************************)
LEMMA HarnessSteps == HarnessInv /\ [HarnessNext]_harnessVars => HarnessInv'
<1> SUFFICES ASSUME HarnessInv, [HarnessNext]_harnessVars PROVE HarnessInv'
  OBVIOUS
<1> USE NPartiesAssumption DEF HarnessInv
<1>0. 0 \in Party
  OBVIOUS
<1>1. CASE LaunchParticipant
  BY <1>0, <1>1 DEF LaunchParticipant, HarnessTypeOK, LoopAfterDealer, ReleasedAfterDealer,
                    DealerNeedsAll, NoContextAbandoned, Ended
<1>2. CASE SeeResult
  BY <1>2 DEF SeeResult, HarnessTypeOK, LoopAfterDealer, ReleasedAfterDealer, DealerNeedsAll,
              NoContextAbandoned, Ended
<1>3. CASE SeeError
  BY <1>3 DEF SeeError, HarnessTypeOK, LoopAfterDealer, ReleasedAfterDealer, DealerNeedsAll,
              NoContextAbandoned, Ended
<1>4. CASE Release
  BY <1>4 DEF Release, HarnessTypeOK, LoopAfterDealer, ReleasedAfterDealer, DealerNeedsAll,
              NoContextAbandoned, Ended
<1>5. CASE Join
  BY <1>5 DEF Join, HarnessTypeOK, LoopAfterDealer, ReleasedAfterDealer, DealerNeedsAll,
              NoContextAbandoned, Ended
<1>6. CASE Leave
  BY <1>6 DEF Leave, HarnessTypeOK, LoopAfterDealer, ReleasedAfterDealer, DealerNeedsAll,
              NoContextAbandoned, Ended
<1>7. ASSUME NEW i \in Party, Begin(i) PROVE HarnessInv'
  <2>1. phase[0] # Returned
    BY <1>0, <1>7 DEF Begin, DealerNeedsAll
  <2> QED
    BY <1>0, <1>7, <2>1 DEF Begin, HarnessTypeOK, LoopAfterDealer, ReleasedAfterDealer,
                            DealerNeedsAll, NoContextAbandoned, Ended
<1>8. ASSUME NEW i \in Party, Advance(i) PROVE HarnessInv'
  <2>1. /\ phase' = [phase EXCEPT ![i] = @ + 1]
        /\ UNCHANGED <<empty, main, next, guard, io>>
        /\ io[i] = "running"
        /\ phase[i] \in Connecting .. Reconstruction
    BY <1>8 DEF Advance, Waiting
  <2>2. HarnessTypeOK'
    BY <2>1 DEF HarnessTypeOK
  <2>3. phase[0] = Returned => phase'[0] = Returned
    BY <1>0, <2>1 DEF HarnessTypeOK
  <2>4. LoopAfterDealer' /\ ReleasedAfterDealer'
    BY <2>1, <2>3 DEF LoopAfterDealer, ReleasedAfterDealer
  <2>5. DealerNeedsAll'
    <3>1. CASE phase[0] = Returned
      BY <1>0, <2>1, <3>1 DEF DealerNeedsAll, HarnessTypeOK
    <3>2. CASE phase[0] # Returned /\ i # 0
      BY <1>0, <2>1, <3>2 DEF DealerNeedsAll, HarnessTypeOK
    <3>3. CASE i = 0
      BY <1>0, <1>8, <2>1, <3>3 DEF Advance, DealerNeedsAll, HarnessTypeOK
    <3> QED
      BY <3>1, <3>2, <3>3
  <2>6. NoContextAbandoned'
    BY <2>1 DEF NoContextAbandoned, Ended, HarnessTypeOK
  <2> QED
    BY <2>2, <2>4, <2>5, <2>6
<1>9. ASSUME NEW i \in Party, Throw(i) PROVE HarnessInv'
  BY <1>0, <1>9 DEF Throw, HarnessTypeOK, LoopAfterDealer, ReleasedAfterDealer, DealerNeedsAll,
                    NoContextAbandoned, Ended
<1>10. ASSUME NEW i \in Party, StopRunning(i) PROVE HarnessInv'
  <2>1. phase[i] \in Reconstruction .. Failed
    BY <1>10 DEF StopRunning, ReleasedAfterDealer, DealerNeedsAll, HarnessTypeOK
  <2>2. Ended(i)
    BY <1>10, <2>1 DEF StopRunning, Waiting, Ended
  <2> QED
    BY <1>10, <2>2 DEF StopRunning, HarnessTypeOK, LoopAfterDealer, ReleasedAfterDealer,
                       DealerNeedsAll, NoContextAbandoned, Ended
<1>11. CASE UNCHANGED harnessVars
  BY <1>11 DEF harnessVars, HarnessTypeOK, LoopAfterDealer, ReleasedAfterDealer, DealerNeedsAll,
               NoContextAbandoned, Ended
<1> QED
  BY <1>1, <1>2, <1>3, <1>4, <1>5, <1>6, <1>7, <1>8, <1>9, <1>10, <1>11
  DEF HarnessNext, Main, Thread, HarnessOver

(***************************************************************************)
(* No io_context is abandoned by its thread while its coroutine still      *)
(* needs it (the order of exp.cpp:277-308).                                *)
(***************************************************************************)
THEOREM NobodyAbandoned == HarnessSpec => []NoContextAbandoned
<1>1. HarnessInv => NoContextAbandoned
  BY DEF HarnessInv
<1> QED
  BY HarnessStarts, HarnessSteps, <1>1, PTL DEF HarnessSpec
=============================================================================
