---------------------------- MODULE SepPSIProofs ----------------------------
(***************************************************************************)
(* Theorems about SepPSI, for any number of participants, any dealer and   *)
(* any sets.                                                               *)
(***************************************************************************)
EXTENDS SepPSI, SharingProofs

-----------------------------------------------------------------------------
(* Type correctness.                                                       *)

(* Every call starts with vectors of the right shape.                      *)
LEMMA InitTypeOK == Init => TypeOK
BY CasesAssumption, BlockFacts, ConvMembers
   DEF Init, TypeOK, Phase, VoleMsg, OpprfMsg, Empty

(***************************************************************************)
(* What a vector of blocks may be replaced by.                             *)
(***************************************************************************)
LEMMA DecodeType ==
    ASSUME TypeOK, NEW c \in Conv, NEW x \in set[c.to]
    PROVE  Decode(c, x) \in Block
<1>1. x \in Elem
  BY ConvMembers DEF TypeOK
<1>2. Noise(c, x) \in Block
  BY <1>1, BlockFacts
<1>3. CASE x \in DOMAIN mP[c]
  <2>1. mP[c] \in [set[c.from] -> Block]
    BY <1>3 DEF TypeOK, Empty
  <2> QED BY <1>3, <2>1 DEF Decode
<1>4. CASE x \notin DOMAIN mP[c]
  BY <1>2, <1>4 DEF Decode
<1> QED BY <1>3, <1>4

(* The same for what StartOnline puts into sendShares.                     *)
LEMMA DrawSharesType ==
    ASSUME TypeOK, NEW p \in Party
    PROVE  DrawShares(p) \in [Party -> [set[p] -> Block]]
<1> SUFFICES ASSUME NEW q \in Party, NEW x \in set[p]
             PROVE  (IF q # p THEN Share(p, q, x)
                     ELSE XorSum(Party \ {p}, [r \in Party \ {p} |-> Share(p, r, x)]))
                    \in Block
  BY DEF DrawShares
<1>1. x \in Elem
  BY DEF TypeOK
<1>2. \A r \in Party : Share(p, r, x) \in Block
  BY <1>1, BlockFacts
<1>3. XorSum(Party \ {p}, [r \in Party \ {p} |-> Share(p, r, x)]) \in Block
  BY <1>2, XorSumType
<1> QED BY <1>2, <1>3

(* The same for what EndOnlineZS puts into zeroShares.                     *)
LEMMA CombineSharesType ==
    ASSUME TypeOK, NEW p \in Party
    PROVE  CombineShares(p) \in [set[p] -> Block]
<1> SUFFICES ASSUME NEW x \in set[p]
             PROVE  sendShares[p][p][x] (+)
                    XorSum(Party \ {p}, [q \in Party \ {p} |-> recvShares[Zs(q, p)][x]])
                    \in Block
  BY DEF CombineShares
<1>1. sendShares[p][p][x] \in Block
  BY DEF TypeOK
<1>2. ASSUME NEW q \in Party \ {p} PROVE recvShares[Zs(q, p)][x] \in Block
  <2>1. Zs(q, p) \in Conv /\ Zs(q, p).to = p
    BY ConvMembers, ConvFields
  <2>2. recvShares[Zs(q, p)] \in [set[p] -> Block]
    BY <2>1 DEF TypeOK
  <2> QED BY <2>2
<1>3. XorSum(Party \ {p}, [q \in Party \ {p} |-> recvShares[Zs(q, p)][x]]) \in Block
  BY <1>2, XorSumType
<1> QED BY <1>1, <1>3, BlockFacts

(* No step changes the shape of the state.                                 *)
LEMMA StepTypeOK == TypeOK /\ [Next]_vars => TypeOK'
<1> SUFFICES ASSUME TypeOK, [Next]_vars PROVE TypeOK'
  OBVIOUS
<1> USE DEF TypeOK, Phase, VoleMsg, OpprfMsg, GoTo, data
<1>1. ASSUME NEW p \in Party, PartyStep(p) PROVE TypeOK'
  <2>1. CASE StartOffline(p)      BY <2>1 DEF StartOffline
  <2>2. CASE EndOfflineZS(p)      BY <2>2 DEF EndOfflineZS
  <2>3. CASE EndOffline(p)        BY <2>3 DEF EndOffline
  <2>4. CASE DealerEndOffline     BY <2>4 DEF DealerEndOffline
  <2>5. CASE StartOnline(p)
    BY <2>5, DrawSharesType DEF StartOnline
  <2>6. CASE EndOnlineZS(p)
    BY <2>6, CombineSharesType DEF EndOnlineZS
  <2>7. CASE EndOnline(p)         BY <2>7 DEF EndOnline
  <2>8. CASE Reconstruct
    <3>1. Reconstructed \in SUBSET set[DealerIdx]
      BY DEF Reconstructed
    <3> QED BY <2>8, <3>1 DEF Reconstruct
  <2> QED BY <1>1, <2>1, <2>2, <2>3, <2>4, <2>5, <2>6, <2>7, <2>8 DEF PartyStep
<1>2. ASSUME NEW c \in Conv, ConvStep(c) PROVE TypeOK'
  <2>1. CASE VoleRequest(c)       BY <2>1 DEF VoleRequest
  <2>2. CASE VoleCorrection(c)    BY <2>2 DEF VoleCorrection
  <2>3. CASE VoleTake(c)          BY <2>3 DEF VoleTake
  <2>4. CASE SendSeed(c)          BY <2>4 DEF SendSeed
  <2>5. CASE Answer(c)            BY <2>5 DEF Answer
  <2>6. CASE SendPayload(c)
    <3>1. (IF c.kind = "zs" THEN sendShares[c.from][c.to] ELSE zeroShares[c.from])
          \in [set[c.from] -> Block]
      BY ConvMembers
    <3> QED BY <2>6, <3>1 DEF SendPayload, Programmed
  <2>7. CASE TakePayload(c)
    <3>1. [x \in set[c.to] |-> Decode(c, x)] \in [set[c.to] -> Block]
      BY DecodeType
    <3> QED BY <2>7, <3>1 DEF TakePayload
  <2> QED BY <1>2, <2>1, <2>2, <2>3, <2>4, <2>5, <2>6, <2>7 DEF ConvStep
<1>3. CASE Terminated \/ UNCHANGED vars
  BY <1>3 DEF Terminated, vars
<1> QED BY <1>1, <1>2, <1>3 DEF Next

(* The state keeps its shape, whatever the sets and the mode of sending.   *)
THEOREM TypeCorrect == Spec => []TypeOK
BY InitTypeOK, StepTypeOK, PTL DEF Spec

-----------------------------------------------------------------------------
(* Control: phases and messages.                                           *)

(* Nothing is sent and nobody has left a phase at the beginning.           *)
LEMMA InitControl == Init => ControlInv
BY ConvMembers DEF Init, ControlInv, SentByEnds, Awaited, Online, Prepared, Conv

(***************************************************************************)
(* One step, with the state it leaves alone taken away: either one         *)
(* participant changes phase or one conversation passes a message.         *)
(***************************************************************************)
LEMMA PartyControl ==
    ASSUME TypeOK, ControlInv, NEW p \in Party, PartyStep(p)
    PROVE  ControlInv'
<1> USE DEF ControlInv, GoTo
<1>1. vole' = vole /\ opprf' = opprf /\ buffered' = buffered
  BY DEF PartyStep, StartOffline, EndOfflineZS, EndOffline, DealerEndOffline,
         StartOnline, EndOnlineZS, EndOnline, Reconstruct
<1>2. pc \in [Party -> Phase] /\ DealerIdx \in Party
  BY DealerAssumption DEF TypeOK
<1>3. /\ \A c : OfflineSendDone(c)' <=> OfflineSendDone(c)
      /\ \A c : OfflineRecvDone(c)' <=> OfflineRecvDone(c)
      /\ \A c : OnlineSendDone(c)' <=> OnlineSendDone(c)
      /\ \A c : OnlineRecvDone(c)' <=> OnlineRecvDone(c)
  BY <1>1 DEF OfflineSendDone, OfflineRecvDone, OnlineSendDone, OnlineRecvDone
<1>4. SentByEnds'
  <2>1. \A q \in Party :
          /\ pc[q] # "init" => pc'[q] # "init"
          /\ pc[q] \in Online => pc'[q] \in Online
          /\ pc[q] \in {"onRC", "done"} => pc'[q] \in {"onRC", "done"}
    BY <1>2 DEF PartyStep, StartOffline, EndOfflineZS, EndOffline, DealerEndOffline,
         StartOnline, EndOnlineZS, EndOnline, Reconstruct, Online
  <2> QED BY <1>1, <2>1, ConvMembers DEF SentByEnds
<1>5. Awaited'
  <2>1. CASE StartOffline(p)
    <3>1. pc[p] = "init" /\ pc' = [pc EXCEPT ![p] = "offZS"]
      BY <2>1 DEF StartOffline
    <3> QED BY <1>2, <1>3, <3>1, ConvMembers DEF Awaited, Prepared, Online, Conv
  <2>2. CASE EndOfflineZS(p)
    <3>1. /\ pc[p] = "offZS" /\ pc' = [pc EXCEPT ![p] = "offRC"]
          /\ \A q \in Party \ {p} : OfflineSendDone(Zs(p, q)) /\ OfflineRecvDone(Zs(q, p))
      BY <2>2 DEF EndOfflineZS
    <3>2. ASSUME NEW c \in ZsConv
          PROVE  (c.from = p => OfflineSendDone(c)) /\ (c.to = p => OfflineRecvDone(c))
      <4>1. c = Zs(c.from, c.to) /\ c.from \in Party /\ c.to \in Party /\ c.from # c.to
        BY ConvKinds
      <4>2. ASSUME c.from = p PROVE OfflineSendDone(c)
        <5>1. c = Zs(p, c.to) /\ c.to \in Party \ {p}
          BY <4>1, <4>2
        <5> QED BY <3>1, <5>1
      <4>3. ASSUME c.to = p PROVE OfflineRecvDone(c)
        <5>1. c = Zs(c.from, p) /\ c.from \in Party \ {p}
          BY <4>1, <4>3
        <5> QED BY <3>1, <5>1
      <4> QED BY <4>2, <4>3
    <3> QED BY <1>2, <1>3, <3>1, <3>2, ConvMembers DEF Awaited, Prepared, Online, Conv
  <2>3. CASE EndOffline(p)
    <3>1. /\ p # DealerIdx /\ pc[p] = "offRC" /\ pc' = [pc EXCEPT ![p] = "ready"]
          /\ OfflineSendDone(Rc(p))
      BY <2>3 DEF EndOffline
    <3>2. \A c \in RcConv : c.to # p /\ (c.from = p => OfflineSendDone(c))
      BY <3>1 DEF RcConv, Rc
    <3> QED BY <1>2, <1>3, <3>1, <3>2, ConvMembers DEF Awaited, Prepared, Online, Conv
  <2>4. CASE DealerEndOffline
    <3>1. /\ pc[DealerIdx] = "offRC" /\ pc' = [pc EXCEPT ![DealerIdx] = "ready"]
          /\ \A q \in Party \ {DealerIdx} : OfflineRecvDone(Rc(q))
      BY <2>4 DEF DealerEndOffline
    <3>2. \A c \in RcConv : c.from # DealerIdx /\ OfflineRecvDone(c)
      BY <3>1 DEF RcConv, Rc
    <3> QED BY <1>2, <1>3, <3>1, <3>2, ConvMembers DEF Awaited, Prepared, Online, Conv
  <2>5. CASE StartOnline(p)
    <3>1. pc[p] = "ready" /\ pc' = [pc EXCEPT ![p] = "onZS"]
      BY <2>5 DEF StartOnline
    <3> QED BY <1>2, <1>3, <3>1, ConvMembers DEF Awaited, Prepared, Online, Conv
  <2>6. CASE EndOnlineZS(p)
    <3>1. /\ pc[p] = "onZS" /\ pc' = [pc EXCEPT ![p] = "onRC"]
          /\ \A q \in Party \ {p} : OnlineSendDone(Zs(p, q)) /\ OnlineRecvDone(Zs(q, p))
      BY <2>6 DEF EndOnlineZS
    <3>2. ASSUME NEW c \in ZsConv
          PROVE  (c.from = p => OnlineSendDone(c)) /\ (c.to = p => OnlineRecvDone(c))
      <4>1. c = Zs(c.from, c.to) /\ c.from \in Party /\ c.to \in Party /\ c.from # c.to
        BY ConvKinds
      <4>2. ASSUME c.from = p PROVE OnlineSendDone(c)
        <5>1. c = Zs(p, c.to) /\ c.to \in Party \ {p}
          BY <4>1, <4>2
        <5> QED BY <3>1, <5>1
      <4>3. ASSUME c.to = p PROVE OnlineRecvDone(c)
        <5>1. c = Zs(c.from, p) /\ c.from \in Party \ {p}
          BY <4>1, <4>3
        <5> QED BY <3>1, <5>1
      <4> QED BY <4>2, <4>3
    <3> QED BY <1>2, <1>3, <3>1, <3>2, ConvMembers DEF Awaited, Prepared, Online, Conv
  <2>7. CASE EndOnline(p)
    <3>1. /\ p # DealerIdx /\ pc[p] = "onRC" /\ pc' = [pc EXCEPT ![p] = "done"]
          /\ OnlineSendDone(Rc(p))
      BY <2>7 DEF EndOnline
    <3>2. \A c \in RcConv : c.to # p /\ (c.from = p => OnlineSendDone(c))
      BY <3>1 DEF RcConv, Rc
    <3> QED BY <1>2, <1>3, <3>1, <3>2, ConvMembers DEF Awaited, Prepared, Online, Conv
  <2>8. CASE Reconstruct
    <3>1. /\ pc[DealerIdx] = "onRC" /\ pc' = [pc EXCEPT ![DealerIdx] = "done"]
          /\ \A q \in Party \ {DealerIdx} : OnlineRecvDone(Rc(q))
      BY <2>8 DEF Reconstruct
    <3>2. \A c \in RcConv : c.from # DealerIdx /\ OnlineRecvDone(c)
      BY <3>1 DEF RcConv, Rc
    <3> QED BY <1>2, <1>3, <3>1, <3>2, ConvMembers DEF Awaited, Prepared, Online, Conv
  <2> QED BY <2>1, <2>2, <2>3, <2>4, <2>5, <2>6, <2>7, <2>8 DEF PartyStep
<1> QED BY <1>4, <1>5

(***************************************************************************)
(* A message once passed is never taken back.                              *)
(***************************************************************************)
LEMMA ConvProgress ==
    ASSUME TypeOK, NEW c \in Conv, ConvStep(c)
    PROVE  /\ pc' = pc
           /\ \A d \in Conv : /\ OfflineSendDone(d) => OfflineSendDone(d)'
                              /\ OfflineRecvDone(d) => OfflineRecvDone(d)'
                              /\ OnlineSendDone(d) => OnlineSendDone(d)'
                              /\ OnlineRecvDone(d) => OnlineRecvDone(d)'
<1>1. pc' = pc
  BY DEF ConvStep, VoleRequest, VoleCorrection, VoleTake, SendSeed, Answer,
         SendPayload, TakePayload
<1>2. vole \in [Conv -> VoleMsg] /\ opprf \in [Conv -> OpprfMsg]
  BY DEF TypeOK
<1> USE DEF OfflineSendDone, OfflineRecvDone, OnlineSendDone, OnlineRecvDone
<1>3. CASE VoleRequest(c)    BY <1>1, <1>2, <1>3 DEF VoleRequest
<1>4. CASE VoleCorrection(c) BY <1>1, <1>2, <1>4 DEF VoleCorrection
<1>5. CASE VoleTake(c)       BY <1>1, <1>2, <1>5 DEF VoleTake
<1>6. CASE SendSeed(c)       BY <1>1, <1>2, <1>6 DEF SendSeed
<1>7. CASE Answer(c)         BY <1>1, <1>2, <1>7 DEF Answer
<1>8. CASE SendPayload(c)    BY <1>1, <1>2, <1>8 DEF SendPayload
<1>9. CASE TakePayload(c)    BY <1>1, <1>2, <1>9 DEF TakePayload
<1> QED BY <1>3, <1>4, <1>5, <1>6, <1>7, <1>8, <1>9 DEF ConvStep

(* A message is passed by an end that has started its tasks.               *)
LEMMA ConvControl ==
    ASSUME TypeOK, ControlInv, NEW c \in Conv, ConvStep(c)
    PROVE  ControlInv'
<1>1. Awaited'
  BY ConvProgress DEF ControlInv, Awaited, Conv
<1>2. SentByEnds'
  <2> USE DEF SentByEnds, Online, OfflineStarted, OnlineStarted, Phase
  <2>1. pc' = pc
    BY ConvProgress
  <2>2. vole \in [Conv -> VoleMsg] /\ opprf \in [Conv -> OpprfMsg] /\ SentByEnds
    BY DEF TypeOK, ControlInv
  <2>3. CASE VoleRequest(c)    BY <2>1, <2>2, <2>3 DEF VoleRequest
  <2>4. CASE VoleCorrection(c) BY <2>1, <2>2, <2>4 DEF VoleCorrection
  <2>5. CASE VoleTake(c)       BY <2>1, <2>2, <2>5 DEF VoleTake
  <2>6. CASE SendSeed(c)       BY <2>1, <2>2, <2>6, ConvMembers DEF SendSeed
  <2>7. CASE Answer(c)         BY <2>1, <2>2, <2>7, ConvMembers DEF Answer
  <2>8. CASE SendPayload(c)    BY <2>1, <2>2, <2>8, ConvMembers DEF SendPayload
  <2>9. CASE TakePayload(c)    BY <2>1, <2>2, <2>9, ConvMembers DEF TakePayload
  <2> QED BY <2>3, <2>4, <2>5, <2>6, <2>7, <2>8, <2>9 DEF ConvStep
<1> QED BY <1>1, <1>2 DEF ControlInv

(* Every step preserves the relation of phases and messages.               *)
LEMMA StepControl == TypeOK /\ ControlInv /\ [Next]_vars => ControlInv'
<1> SUFFICES ASSUME TypeOK, ControlInv, [Next]_vars PROVE ControlInv'
  OBVIOUS
<1>1. CASE \E p \in Party : PartyStep(p)
  BY <1>1, PartyControl
<1>2. CASE \E c \in Conv : ConvStep(c)
  BY <1>2, ConvControl
<1>3. CASE Terminated \/ UNCHANGED vars
  BY <1>3 DEF Terminated, vars, ControlInv, SentByEnds, Awaited, OfflineSendDone,
              OfflineRecvDone, OnlineSendDone, OnlineRecvDone
<1> QED BY <1>1, <1>2, <1>3 DEF Next

(* The control part of the inductive invariant.                            *)
LEMMA ControlInvariant == Spec => [](TypeOK /\ ControlInv)
BY InitTypeOK, StepTypeOK, InitControl, StepControl, PTL DEF Spec

-----------------------------------------------------------------------------
(* What follows from it.                                                   *)

(* Whoever has left a phase has received from all the others in it.        *)
LEMMA DriftFromControl == TypeOK /\ ControlInv => DriftIsBounded
<1> SUFFICES ASSUME TypeOK, ControlInv, NEW p \in Party, NEW q \in Party
             PROVE  /\ pc[p] \notin {"init", "offZS"} => pc[q] # "init"
                    /\ pc[p] \in {"onRC", "done"} => pc[q] \in Online
  BY DEF DriftIsBounded
<1>1. CASE p = q
  BY <1>1 DEF Online
<1>2. CASE p # q
  <2>1. Zs(q, p) \in ZsConv /\ Zs(q, p) \in Conv /\ Zs(q, p).from = q /\ Zs(q, p).to = p
    BY <1>2, ConvMembers, ConvFields
  <2>2. /\ pc[p] \notin {"init", "offZS"} => OfflineRecvDone(Zs(q, p))
        /\ pc[p] \in {"onRC", "done"} => OnlineRecvDone(Zs(q, p))
    BY <2>1 DEF ControlInv, Awaited
  <2>3. /\ OfflineRecvDone(Zs(q, p)) => pc[q] # "init"
        /\ OnlineRecvDone(Zs(q, p)) => pc[q] \in Online
    BY <2>1 DEF ControlInv, SentByEnds, OfflineRecvDone, OnlineRecvDone
  <2> QED BY <2>2, <2>3
<1> QED BY <1>1, <1>2

(* No participant is more than one phase ahead of another.                 *)
THEOREM DriftBounded == Spec => []DriftIsBounded
BY ControlInvariant, DriftFromControl, PTL

(* The dealer has awaited every RC message, its sender all of ZS.          *)
LEMMA LastFromControl == TypeOK /\ ControlInv => DealerReturnsLast
<1> SUFFICES ASSUME TypeOK, ControlInv, pc[DealerIdx] = "done"
             PROVE  /\ \A p \in Party : pc[p] \in {"onRC", "done"}
                    /\ \A c \in Conv : opprf[c] = "taken"
  BY DEF DealerReturnsLast
<1>1. \A c \in RcConv : opprf[c] = "taken"
  BY ConvKinds DEF ControlInv, Awaited, OnlineRecvDone
<1>2. ASSUME NEW p \in Party PROVE pc[p] \in {"onRC", "done"}
  <2>1. CASE p = DealerIdx
    BY <2>1
  <2>2. CASE p # DealerIdx
    <3>1. Rc(p) \in RcConv /\ Rc(p) \in Conv /\ Rc(p).from = p /\ Rc(p).kind = "rc"
      BY <2>2, ConvMembers, ConvFields
    <3>2. opprf[Rc(p)] = "taken"
      BY <1>1, <3>1
    <3> QED BY <3>1, <3>2 DEF ControlInv, SentByEnds
  <2> QED BY <2>1, <2>2
<1>3. \A c \in ZsConv : opprf[c] = "taken"
  BY <1>2, ConvKinds DEF ControlInv, Awaited, OnlineRecvDone
<1> QED BY <1>1, <1>2, <1>3 DEF Conv

(* Once the dealer has returned, nobody needs it.                          *)
THEOREM DealerLast == Spec => []DealerReturnsLast
BY ControlInvariant, LastFromControl, PTL

(* An end whose online tasks run has awaited its offline tasks.            *)
LEMMA PreparedStep ==
    ASSUME TypeOK, ControlInv, [Next]_vars, NEW c \in Conv
    PROVE  /\ opprf[c] = "none" /\ opprf'[c] = "seed" => OfflineSendDone(c)
           /\ opprf[c] = "seed" /\ opprf'[c] = "answer" => OfflineRecvDone(c)
<1> USE DEF Prepared, Online
<1>1. /\ pc[c.from] \in OnlineStarted(c) => OfflineSendDone(c)
      /\ pc[c.to] \in OnlineStarted(c) => OfflineRecvDone(c)
  BY ConvKinds DEF ControlInv, Awaited, OnlineStarted, Conv
<1>2. opprf \in [Conv -> OpprfMsg]
  BY DEF TypeOK
<1>3. ASSUME NEW p \in Party, PartyStep(p) PROVE opprf' = opprf
  BY <1>3 DEF PartyStep, StartOffline, EndOfflineZS, EndOffline, DealerEndOffline,
         StartOnline, EndOnlineZS, EndOnline, Reconstruct
<1>4. ASSUME NEW d \in Conv, ConvStep(d)
      PROVE  /\ opprf[c] = "none" /\ opprf'[c] = "seed" => pc[c.from] \in OnlineStarted(c)
             /\ opprf[c] = "seed" /\ opprf'[c] = "answer" => pc[c.to] \in OnlineStarted(c)
  BY <1>2, <1>4 DEF ConvStep, VoleRequest, VoleCorrection, VoleTake, SendSeed, Answer,
         SendPayload, TakePayload
<1>5. CASE Terminated \/ UNCHANGED vars
  BY <1>5 DEF Terminated, vars
<1> QED BY <1>1, <1>3, <1>4, <1>5 DEF Next

(* No OPPRF is used by an end that has not prepared it.                    *)
THEOREM PreparedFirst == Spec => PreparedBeforeUse
<1>1. TypeOK /\ ControlInv /\ [Next]_vars =>
        [\A c \in Conv :
         /\ opprf[c] = "none" /\ opprf'[c] = "seed" => OfflineSendDone(c)
         /\ opprf[c] = "seed" /\ opprf'[c] = "answer" => OfflineRecvDone(c)]_vars
  BY PreparedStep
<1> QED BY <1>1, ControlInvariant, PTL DEF Spec, PreparedBeforeUse

(* A conversation both ends have awaited passes no more messages.          *)
LEMMA FrameStep ==
    ASSUME TypeOK, ControlInv, [Next]_vars, NEW c \in ZsConv
    PROVE  /\ pc[c.to] \in {"onRC", "done"} => recvShares'[c] = recvShares[c]
           /\ pc[c.from] \in {"onRC", "done"} => mP'[c] = mP[c]
<1>1. c \in Conv /\ c.kind = "zs"
  BY ConvKinds
<1>2. /\ pc[c.to] \in {"onRC", "done"} => opprf[c] = "taken"
      /\ pc[c.from] \in {"onRC", "done"} => opprf[c] \in {"payload", "taken"}
  BY DEF ControlInv, Awaited, OnlineSendDone, OnlineRecvDone
<1>3. ASSUME NEW p \in Party, PartyStep(p) PROVE recvShares' = recvShares /\ mP' = mP
  BY <1>3 DEF PartyStep, StartOffline, EndOfflineZS, EndOffline, DealerEndOffline,
         StartOnline, EndOnlineZS, EndOnline, Reconstruct, data
<1>4. ASSUME NEW d \in Conv, ConvStep(d)
      PROVE  /\ opprf[c] = "taken" => recvShares'[c] = recvShares[c]
             /\ opprf[c] \in {"payload", "taken"} => mP'[c] = mP[c]
  BY <1>1, <1>4 DEF TypeOK, ConvStep, VoleRequest, VoleCorrection, VoleTake, SendSeed,
         Answer, SendPayload, TakePayload, data
<1>5. CASE Terminated \/ UNCHANGED vars
  BY <1>5 DEF Terminated, vars
<1> QED BY <1>2, <1>3, <1>4, <1>5 DEF Next

(* Nothing touches the share vectors of a participant that has combined.   *)
THEOREM FramesOutliveTasks == Spec => NoTaskOutlivesItsFrame
<1>1. TypeOK /\ ControlInv /\ [Next]_vars =>
        [\A c \in ZsConv :
         /\ pc[c.to] \in {"onRC", "done"} => recvShares'[c] = recvShares[c]
         /\ pc[c.from] \in {"onRC", "done"} => mP'[c] = mP[c]]_vars
  BY FrameStep
<1> QED BY <1>1, ControlInvariant, PTL DEF Spec, NoTaskOutlivesItsFrame

-----------------------------------------------------------------------------
(* Data: what the vectors hold, in terms of the sets alone.                *)

(* At the beginning there is nothing to say about the vectors.             *)
LEMMA InitData == Init => DataInv
BY DealerAssumption, ConvKinds DEF Init, DataInv, Online

(* Decoding a ZS payload made from the drawn shares.                       *)
LEMMA ZsDecode ==
    ASSUME TypeOK, ControlInv, DataInv, NEW c \in ZsConv, opprf[c] = "payload",
           NEW x \in set[c.to]
    PROVE  Decode(c, x) = ZsValue(set, c, x)
<1>1. /\ c \in Conv /\ c.from \in Party /\ c.to \in Party /\ c.from # c.to
  BY ConvKinds
<1>2. mP[c] = sendShares[c.from][c.to]
  BY DEF DataInv
<1>3. pc[c.from] \in Online
  BY <1>1 DEF ControlInv, SentByEnds
<1>4. sendShares[c.from] = DrawShares(c.from)
  BY <1>1, <1>3 DEF DataInv
<1>5. DOMAIN mP[c] = set[c.from]
  BY <1>1, <1>2 DEF TypeOK
<1>6. \A y \in set[c.from] : mP[c][y] = Share(c.from, c.to, y)
  BY <1>1, <1>2, <1>4 DEF DrawShares
<1> QED BY <1>5, <1>6 DEF Decode, ZsValue

(* Decoding an RC payload made from the zero shares.                       *)
LEMMA RcDecode ==
    ASSUME TypeOK, ControlInv, DataInv, NEW c \in RcConv, opprf[c] = "payload",
           NEW x \in set[c.to]
    PROVE  Decode(c, x) = RcValue(set, c, x)
<1>1. /\ c \in Conv /\ c.kind = "rc" /\ c.from \in Party
  BY ConvKinds
<1>2. mP[c] = zeroShares[c.from]
  BY DEF DataInv
<1>3. pc[c.from] \in {"onRC", "done"}
  BY <1>1 DEF ControlInv, SentByEnds
<1>4. \A y \in set[c.from] : zeroShares[c.from][y] = ZeroShare(set, c.from, y)
  BY <1>1, <1>3 DEF DataInv
<1>5. DOMAIN mP[c] = set[c.from]
  BY <1>1, <1>2 DEF TypeOK
<1> QED BY <1>2, <1>4, <1>5 DEF Decode, RcValue

(* What a participant combines after awaiting its ZS tasks.                *)
LEMMA CombineIsZeroShare ==
    ASSUME TypeOK, ControlInv, DataInv, NEW p \in Party, pc[p] = "onZS",
           \A q \in Party \ {p} : OnlineRecvDone(Zs(q, p)), NEW x \in set[p]
    PROVE  CombineShares(p)[x] = ZeroShare(set, p, x)
<1>1. sendShares[p][p][x] = XorSum(Party \ {p}, [r \in Party \ {p} |-> Share(p, r, x)])
  <2>1. sendShares[p] = DrawShares(p)
    BY DEF DataInv, Online
  <2> QED BY <2>1 DEF DrawShares
<1>2. ASSUME NEW q \in Party \ {p}
      PROVE  recvShares[Zs(q, p)][x] = ZsValue(set, Zs(q, p), x)
  <2>1. Zs(q, p) \in ZsConv /\ Zs(q, p).to = p
    BY ConvMembers, ConvFields
  <2>2. opprf[Zs(q, p)] = "taken"
    BY DEF OnlineRecvDone
  <2> QED BY <2>1, <2>2 DEF DataInv
<1>3. [q \in Party \ {p} |-> recvShares[Zs(q, p)][x]]
        = [q \in Party \ {p} |-> ZsValue(set, Zs(q, p), x)]
  BY <1>2
<1> QED BY <1>1, <1>3 DEF CombineShares, ZeroShare

(* The sets never change, nor do the shares drawn under their elements.    *)
LEMMA SetsAreFixed ==
    ASSUME [Next]_vars
    PROVE  set' = set /\ \A p : DrawShares(p)' = DrawShares(p)
<1>1. set' = set
  BY DEF Next, PartyStep, ConvStep, StartOffline, EndOfflineZS, EndOffline,
         DealerEndOffline, StartOnline, EndOnlineZS, EndOnline, Reconstruct,
         VoleRequest, VoleCorrection, VoleTake, SendSeed, Answer, SendPayload,
         TakePayload, Terminated, vars
<1> QED BY <1>1 DEF DrawShares

(***************************************************************************)
(* One step.  A participant's step changes the vectors only when it draws  *)
(* and when it combines; a conversation's, only when it sends and when it  *)
(* takes the payload.                                                      *)
(***************************************************************************)
LEMMA PartyData ==
    ASSUME TypeOK, ControlInv, DataInv, [Next]_vars, NEW p \in Party, PartyStep(p)
    PROVE  DataInv'
<1>1. set' = set /\ \A q : DrawShares(q)' = DrawShares(q)
  BY SetsAreFixed
<1>2. /\ pc \in [Party -> Phase] /\ DealerIdx \in Party
      /\ DOMAIN sendShares = Party /\ DOMAIN zeroShares = Party
  BY DealerAssumption DEF TypeOK
<1>3. opprf' = opprf /\ mP' = mP /\ recvShares' = recvShares
  BY DEF PartyStep, StartOffline, EndOfflineZS, EndOffline, DealerEndOffline,
         StartOnline, EndOnlineZS, EndOnline, Reconstruct, data
<1> USE DEF GoTo, data, Online
<1>4. CASE StartOffline(p) \/ EndOfflineZS(p) \/ EndOffline(p) \/ DealerEndOffline
           \/ EndOnline(p)
  <2>1. /\ UNCHANGED <<sendShares, zeroShares, result>>
        /\ \A q \in Party : /\ pc'[q] \in Online => pc[q] \in Online
                            /\ pc'[q] \in {"onRC", "done"} => pc[q] \in {"onRC", "done"}
        /\ pc'[DealerIdx] = "done" <=> pc[DealerIdx] = "done"
    BY <1>2, <1>4 DEF StartOffline, EndOfflineZS, EndOffline, DealerEndOffline, EndOnline
  <2>2. Reconstructed' = Reconstructed
    BY <1>1, <1>3, <2>1 DEF Reconstructed
  <2> QED BY <1>1, <1>3, <2>1, <2>2 DEF DataInv
<1>5. CASE StartOnline(p)
  <2>1. /\ pc[p] = "ready" /\ pc' = [pc EXCEPT ![p] = "onZS"]
        /\ sendShares' = [sendShares EXCEPT ![p] = DrawShares(p)]
        /\ UNCHANGED <<zeroShares, result>>
    BY <1>5 DEF StartOnline
  <2>2. \A c \in Conv : opprf[c] \in {"payload", "taken"} => c.from # p
    BY <2>1 DEF ControlInv, SentByEnds
  <2>3. Reconstructed' = Reconstructed
    BY <1>1, <1>3, <2>1 DEF Reconstructed
  <2>4. \A q \in Party : pc'[q] \in Online => sendShares'[q] = DrawShares(q)
    BY <1>2, <2>1 DEF DataInv
  <2>5. \A c \in ZsConv : opprf[c] \in {"payload", "taken"} =>
                             mP[c] = sendShares'[c.from][c.to]
    BY <1>2, <2>1, <2>2, ConvKinds DEF DataInv
  <2>6. /\ \A q \in Party : pc'[q] \in {"onRC", "done"} => pc[q] \in {"onRC", "done"}
        /\ pc'[DealerIdx] = "done" <=> pc[DealerIdx] = "done"
    BY <1>2, <2>1
  <2> QED BY <1>1, <1>3, <2>1, <2>3, <2>4, <2>5, <2>6 DEF DataInv
<1>6. CASE EndOnlineZS(p)
  <2>1. /\ pc[p] = "onZS" /\ pc' = [pc EXCEPT ![p] = "onRC"]
        /\ zeroShares' = [zeroShares EXCEPT ![p] = CombineShares(p)]
        /\ UNCHANGED <<sendShares, result>>
        /\ \A q \in Party \ {p} : OnlineRecvDone(Zs(q, p))
    BY <1>6 DEF EndOnlineZS
  <2>2. \A c \in RcConv : opprf[c] \in {"payload", "taken"} => c.from # p
    BY <2>1, ConvKinds DEF ControlInv, SentByEnds
  <2>3. \A q \in Party : pc'[q] \in {"onRC", "done"} =>
                             \A x \in set[q] : zeroShares'[q][x] = ZeroShare(set, q, x)
    <3>1. \A x \in set[p] : zeroShares'[p][x] = ZeroShare(set, p, x)
      BY <1>2, <2>1, CombineIsZeroShare
    <3> QED BY <1>2, <2>1, <3>1 DEF DataInv
  <2>4. \A c \in RcConv : opprf[c] \in {"payload", "taken"} => mP[c] = zeroShares'[c.from]
    BY <1>2, <2>1, <2>2, ConvKinds DEF DataInv
  <2>5. pc'[DealerIdx] # "done" /\ pc[DealerIdx] # "done"
    <3>1. CASE pc[DealerIdx] = "done"
      BY <2>1, <3>1, LastFromControl DEF DealerReturnsLast
    <3> QED BY <1>2, <2>1, <3>1
  <2>6. \A q \in Party : pc'[q] \in Online => pc[q] \in Online
    BY <1>2, <2>1
  <2> QED BY <1>1, <1>3, <2>1, <2>3, <2>4, <2>5, <2>6 DEF DataInv
<1>7. CASE p = DealerIdx /\ Reconstruct
  <2>1. /\ pc[DealerIdx] = "onRC" /\ pc' = [pc EXCEPT ![DealerIdx] = "done"]
        /\ result' = Reconstructed /\ UNCHANGED <<sendShares, zeroShares>>
    BY <1>7 DEF Reconstruct
  <2>2. Reconstructed' = Reconstructed
    BY <1>1, <1>3, <2>1 DEF Reconstructed
  <2>3. \A q \in Party : /\ pc'[q] \in Online => pc[q] \in Online
                         /\ pc'[q] \in {"onRC", "done"} => pc[q] \in {"onRC", "done"}
    BY <1>2, <2>1
  <2>4. pc'[DealerIdx] = "done"
    BY <1>2, <2>1
  <2> QED BY <1>1, <1>3, <2>1, <2>2, <2>3, <2>4 DEF DataInv
<1> QED BY <1>4, <1>5, <1>6, <1>7 DEF PartyStep

(* The steps of a conversation preserve what the vectors hold.             *)
LEMMA ConvData ==
    ASSUME TypeOK, ControlInv, DataInv, [Next]_vars, NEW c \in Conv, ConvStep(c)
    PROVE  DataInv'
<1>1. set' = set /\ \A q : DrawShares(q)' = DrawShares(q)
  BY SetsAreFixed
<1>2. UNCHANGED <<pc, sendShares, zeroShares, result>>
  BY DEF ConvStep, VoleRequest, VoleCorrection, VoleTake, SendSeed, Answer,
         SendPayload, TakePayload, data
<1>3. /\ opprf \in [Conv -> OpprfMsg] /\ DOMAIN mP = Conv /\ DOMAIN recvShares = Conv
  BY DEF TypeOK
<1>4. pc[DealerIdx] = "done" => recvShares' = recvShares
  <2> SUFFICES ASSUME pc[DealerIdx] = "done" PROVE recvShares' = recvShares
    OBVIOUS
  <2>1. opprf[c] = "taken"
    BY LastFromControl DEF DealerReturnsLast
  <2> QED BY <2>1 DEF ConvStep, VoleRequest, VoleCorrection, VoleTake, SendSeed, Answer,
                      SendPayload, TakePayload, data
<1>5. pc[DealerIdx] = "done" => Reconstructed' = Reconstructed
  BY <1>1, <1>2, <1>4 DEF Reconstructed
<1>6. CASE VoleRequest(c) \/ VoleCorrection(c) \/ VoleTake(c) \/ SendSeed(c) \/ Answer(c)
  <2>1. /\ UNCHANGED <<mP, recvShares>>
        /\ \A d \in Conv : /\ opprf'[d] \in {"payload", "taken"}
                                  => opprf[d] \in {"payload", "taken"}
                           /\ opprf'[d] = "taken" => opprf[d] = "taken"
    BY <1>3, <1>6 DEF VoleRequest, VoleCorrection, VoleTake, SendSeed, Answer, data
  <2> QED BY <1>1, <1>2, <1>5, <2>1, ConvKinds DEF DataInv
<1>7. CASE SendPayload(c)
  <2>1. /\ opprf' = [opprf EXCEPT ![c] = "payload"] /\ opprf[c] = "answer"
        /\ mP' = [mP EXCEPT ![c] = IF c.kind = "zs" THEN sendShares[c.from][c.to]
                                                   ELSE zeroShares[c.from]]
        /\ UNCHANGED recvShares
    BY <1>7 DEF SendPayload, Programmed
  <2>2. \A d \in Conv : opprf'[d] = "taken" => opprf[d] = "taken"
    BY <1>3, <2>1
  <2>3. \A d \in ZsConv : opprf'[d] \in {"payload", "taken"} =>
                             mP'[d] = sendShares[d.from][d.to]
    BY <1>3, <2>1, ConvKinds DEF DataInv
  <2>4. \A d \in RcConv : opprf'[d] \in {"payload", "taken"} =>
                             mP'[d] = zeroShares[d.from]
    BY <1>3, <2>1, ConvKinds DEF DataInv
  <2> QED BY <1>1, <1>2, <1>5, <2>1, <2>2, <2>3, <2>4, ConvKinds DEF DataInv
<1>8. CASE TakePayload(c)
  <2>1. /\ opprf' = [opprf EXCEPT ![c] = "taken"] /\ opprf[c] = "payload"
        /\ recvShares' = [recvShares EXCEPT ![c] = [x \in set[c.to] |-> Decode(c, x)]]
        /\ UNCHANGED mP
    BY <1>8 DEF TakePayload
  <2>2. \A d \in Conv : opprf'[d] \in {"payload", "taken"}
                            => opprf[d] \in {"payload", "taken"}
    BY <1>3, <2>1
  <2>3. \A d \in ZsConv : opprf'[d] = "taken" =>
                 \A x \in set[d.to] : recvShares'[d][x] = ZsValue(set, d, x)
    <3>1. c \in ZsConv => \A x \in set[c.to] : recvShares'[c][x] = ZsValue(set, c, x)
      BY <1>3, <2>1, ZsDecode
    <3> QED BY <1>3, <2>1, <3>1, ConvKinds DEF DataInv
  <2>4. \A d \in RcConv : opprf'[d] = "taken" =>
                 \A x \in set[d.to] : recvShares'[d][x] = RcValue(set, d, x)
    <3>1. c \in RcConv => \A x \in set[c.to] : recvShares'[c][x] = RcValue(set, c, x)
      BY <1>3, <2>1, RcDecode
    <3> QED BY <1>3, <2>1, <3>1, ConvKinds DEF DataInv
  <2>5. \A d \in ZsConv : opprf'[d] \in {"payload", "taken"} => mP'[d] = sendShares'[d.from][d.to]
    BY <1>2, <2>1, <2>2, ConvKinds DEF DataInv
  <2>6. \A d \in RcConv : opprf'[d] \in {"payload", "taken"} => mP'[d] = zeroShares'[d.from]
    BY <1>2, <2>1, <2>2, ConvKinds DEF DataInv
  <2>7. \A p \in Party :
           /\ pc'[p] \in Online => sendShares'[p] = DrawShares(p)'
           /\ pc'[p] \in {"onRC", "done"} =>
                  \A x \in set'[p] : zeroShares'[p][x] = ZeroShare(set', p, x)
    BY <1>1, <1>2 DEF DataInv
  <2>8. /\ pc'[DealerIdx] = "done" => result' = Reconstructed'
        /\ pc'[DealerIdx] # "done" => result' = {}
    BY <1>2, <1>5 DEF DataInv
  <2> QED BY <1>1, <2>3, <2>4, <2>5, <2>6, <2>7, <2>8 DEF DataInv
<1> QED BY <1>6, <1>7, <1>8 DEF ConvStep

(* Every step preserves what the vectors hold.                             *)
LEMMA StepData == TypeOK /\ ControlInv /\ DataInv /\ [Next]_vars => DataInv'
<1> SUFFICES ASSUME TypeOK, ControlInv, DataInv, [Next]_vars PROVE DataInv'
  OBVIOUS
<1>1. CASE \E p \in Party : PartyStep(p)
  BY <1>1, PartyData
<1>2. CASE \E c \in Conv : ConvStep(c)
  BY <1>2, ConvData
<1>3. CASE UNCHANGED vars
  <2>1. Reconstructed' = Reconstructed
    BY <1>3 DEF vars, Reconstructed
  <2> QED BY <1>3, <2>1, SetsAreFixed DEF vars, DataInv
<1> QED BY <1>1, <1>2, <1>3 DEF Next, Terminated

(* The whole inductive invariant.                                          *)
LEMMA DataInvariant == Spec => [](TypeOK /\ ControlInv /\ DataInv)
BY InitTypeOK, StepTypeOK, InitControl, StepControl, InitData, StepData, PTL DEF Spec

(* What the dealer computes is therefore the intersection.                 *)
LEMMA ReconstructedIsInAll ==
    ASSUME TypeOK, ControlInv, DataInv, pc[DealerIdx] = "done"
    PROVE  Reconstructed = InAll
<1>1. ASSUME NEW x \in set[DealerIdx]
      PROVE  zeroShares[DealerIdx][x] (+)
             XorSum(Party \ {DealerIdx},
                    [p \in Party \ {DealerIdx} |-> recvShares[Rc(p)][x]]) = DealerSum(set, x)
  <2>1. zeroShares[DealerIdx][x] = ZeroShare(set, DealerIdx, x)
    BY DealerAssumption DEF DataInv
  <2>2. ASSUME NEW p \in Party \ {DealerIdx}
        PROVE  recvShares[Rc(p)][x] = RcValue(set, Rc(p), x)
    <3>1. Rc(p) \in RcConv /\ Rc(p) \in Conv /\ Rc(p).to = DealerIdx
      BY ConvMembers, ConvFields
    <3>2. opprf[Rc(p)] = "taken"
      BY <3>1, LastFromControl DEF DealerReturnsLast
    <3> QED BY <3>1, <3>2 DEF DataInv
  <2>3. [p \in Party \ {DealerIdx} |-> recvShares[Rc(p)][x]]
          = [p \in Party \ {DealerIdx} |-> RcValue(set, Rc(p), x)]
    BY <2>2
  <2> QED BY <2>1, <2>3 DEF DealerSum
<1>2. \A x \in set[DealerIdx] :
        DealerSum(set, x) = ZeroBlock <=> \A p \in Party : x \in set[p]
  BY DealerSumZero
<1>3. Reconstructed = {x \in set[DealerIdx] : DealerSum(set, x) = ZeroBlock}
  BY <1>1 DEF Reconstructed
<1> QED BY <1>2, <1>3, DealerAssumption DEF InAll, TypeOK

(* The safety property follows from the inductive invariant.               *)
LEMMA IntersectionFromData ==
    TypeOK /\ ControlInv /\ DataInv => ResultIsIntersection
BY ReconstructedIsInAll DEF ResultIsIntersection, DataInv

(***************************************************************************)
(* The dealer returns the intersection of the sets, for any number of      *)
(* participants and any sets, in every interleaving.                       *)
(***************************************************************************)
THEOREM Correctness == Spec => []ResultIsIntersection
BY DataInvariant, IntersectionFromData, PTL

(***************************************************************************)
(* The zero shares themselves: they cancel exactly for what everybody owns.*)
(***************************************************************************)
LEMMA CancelFromData == TypeOK /\ ControlInv /\ DataInv => SharesCancelExactly
<1> SUFFICES ASSUME TypeOK, ControlInv, DataInv,
                    \A p \in Party : pc[p] \in {"onRC", "done"},
                    NEW x \in UNION {set[p] : p \in Party}
             PROVE  XorSum(Owners(x), [p \in Owners(x) |-> zeroShares[p][x]]) = ZeroBlock
                    <=> Owners(x) = Party
  BY DEF SharesCancelExactly
<1> DEFINE zs == [p \in Owners(x) |-> zeroShares[p][x]]
<1>1. \A p \in Owners(x) : zs[p] = ZeroShare(set, p, x)
  BY DEF DataInv, Owners
<1>2. Owners(x) = {p \in Party : x \in set[p]} /\ Owners(x) # {}
  BY DEF Owners
<1> HIDE DEF zs
<1>3. XorSum(Owners(x), zs) = ZeroBlock <=> Owners(x) = Party
  BY <1>1, <1>2, OwnersCancel
<1> QED BY <1>3 DEF zs

(* Conditional zero sharing keeps its promise, for any sets.               *)
THEOREM ZeroSharing == Spec => []SharesCancelExactly
BY DataInvariant, CancelFromData, PTL

-----------------------------------------------------------------------------
(* Implementation of the ideal intersection.                               *)

(* Initial states map to initial states.                                   *)
LEMMA InitIdeal == Init => Ideal!Init
BY DEF Init, Ideal!Init, Online

(* Every step maps to a step of the ideal intersection or a stutter.       *)
LEMMA StepIdeal ==
    ASSUME TypeOK, ControlInv, DataInv, [Next]_vars
    PROVE  [Ideal!Next]_(Ideal!vars)
<1> DEFINE submitted == {p \in Party : pc[p] \in Online}
           returned == {p \in Party : pc[p] = "done"}
<1>1. /\ pc \in [Party -> Phase] /\ DealerIdx \in Party
      /\ \A p \in Party : set[p] \subseteq Elem
  BY DealerAssumption DEF TypeOK
<1>2. set' = set
  BY SetsAreFixed
<1> USE DEF Online, GoTo, data
<1>3. ASSUME NEW p \in Party, pc[p] = "onRC", pc' = [pc EXCEPT ![p] = "done"]
      PROVE  /\ submitted = Party /\ submitted' = submitted
             /\ p \notin returned /\ returned' = returned \cup {p}
  <2>1. \A q \in Party : pc[q] \in Online
    BY <1>3, DriftFromControl DEF DriftIsBounded
  <2> QED BY <1>1, <1>3, <2>1
<1>4. CASE \E p \in Party : PartyStep(p)
  <2>1. PICK p \in Party : PartyStep(p)
    BY <1>4
  <2>2. CASE StartOffline(p) \/ EndOfflineZS(p) \/ EndOffline(p) \/ DealerEndOffline
             \/ EndOnlineZS(p)
    <3>1. submitted' = submitted /\ returned' = returned /\ result' = result
      BY <1>1, <2>2 DEF StartOffline, EndOfflineZS, EndOffline, DealerEndOffline, EndOnlineZS
    <3> QED BY <1>2, <3>1 DEF Ideal!vars
  <2>3. CASE StartOnline(p)
    <3>1. /\ p \notin submitted /\ submitted' = submitted \cup {p}
          /\ returned' = returned /\ result' = result
      BY <1>1, <2>3 DEF StartOnline
    <3> QED BY <1>2, <3>1 DEF Ideal!Next, Ideal!Submit
  <2>4. CASE EndOnline(p)
    <3>1. /\ p # DealerIdx /\ pc[p] = "onRC" /\ pc' = [pc EXCEPT ![p] = "done"]
          /\ result' = result
      BY <2>4 DEF EndOnline
    <3>2. Ideal!Return(p)
      BY <1>2, <1>3, <3>1 DEF Ideal!Return
    <3> QED BY <3>2 DEF Ideal!Next
  <2>5. CASE Reconstruct
    <3>1. /\ pc[DealerIdx] = "onRC" /\ pc' = [pc EXCEPT ![DealerIdx] = "done"]
          /\ result' = Reconstructed
      BY <2>5 DEF Reconstruct
    <3>2. pc'[DealerIdx] = "done"
      BY <1>1, <3>1
    <3>3. ResultIsIntersection'
      <4>1. TypeOK' /\ ControlInv' /\ DataInv'
        BY StepTypeOK, StepControl, StepData
      <4> QED BY <4>1, IntersectionFromData, PTL
    <3>4. result' = InAll
      BY <1>2, <3>2, <3>3 DEF ResultIsIntersection, InAll
    <3>5. InAll = Ideal!Intersection
      BY <1>1 DEF InAll, Ideal!Intersection
    <3>6. Ideal!Deliver
      BY <1>1, <1>2, <1>3, <3>1, <3>4, <3>5 DEF Ideal!Deliver
    <3> QED BY <3>6 DEF Ideal!Next
  <2> QED BY <2>1, <2>2, <2>3, <2>4, <2>5 DEF PartyStep
<1>5. CASE \E c \in Conv : ConvStep(c)
  <2>1. pc' = pc /\ result' = result
    BY <1>5 DEF ConvStep, VoleRequest, VoleCorrection, VoleTake, SendSeed, Answer,
                SendPayload, TakePayload
  <2> QED BY <1>2, <2>1 DEF Ideal!vars
<1>6. CASE UNCHANGED vars
  BY <1>6 DEF vars, Ideal!vars
<1> QED BY <1>4, <1>5, <1>6 DEF Next, Terminated

(***************************************************************************)
(* Every behaviour of the protocol is one of the ideal intersection, up to *)
(* steps the caller cannot see.                                            *)
(***************************************************************************)
THEOREM Refinement == Spec => ImplementsIdealSafely
<1>1. TypeOK /\ ControlInv /\ DataInv /\ [Next]_vars => [Ideal!Next]_(Ideal!vars)
  BY StepIdeal
<1> QED BY <1>1, InitIdeal, DataInvariant, PTL DEF Spec, ImplementsIdealSafely

-----------------------------------------------------------------------------
(* Conversations.                                                          *)

(* No conversation has begun at first.                                     *)
LEMMA InitTalks == Init => \A c \in Conv : Talk(c)!Init
BY DEF Init, Talk!Init, Right

TakenRight == \A c \in Conv : Right(c) <=> opprf[c] = "taken"

(***************************************************************************)
(* What has been taken is what the sender has in its vector: both are the  *)
(* same function of the sets.                                              *)
(***************************************************************************)
LEMMA TakenIsRight == TypeOK /\ ControlInv /\ DataInv => TakenRight
<1> SUFFICES ASSUME TypeOK, ControlInv, DataInv, NEW c \in Conv, opprf[c] = "taken",
                    NEW x \in set[c.from] \cap set[c.to]
             PROVE  recvShares[c][x] = Programmed(c)[x]
  BY DEF Right, TakenRight
<1>1. CASE c.kind = "zs"
  <2>1. c \in ZsConv /\ c.from \in Party /\ c.to \in Party /\ c.from # c.to
    BY <1>1 DEF Conv, ZsConv, RcConv
  <2>2. recvShares[c][x] = Share(c.from, c.to, x)
    BY <2>1 DEF DataInv, ZsValue
  <2>3. sendShares[c.from] = DrawShares(c.from)
    BY <2>1 DEF DataInv, ControlInv, SentByEnds
  <2>4. sendShares[c.from][c.to][x] = Share(c.from, c.to, x)
    BY <2>1, <2>3 DEF DrawShares
  <2> QED BY <1>1, <2>2, <2>4 DEF Programmed
<1>2. CASE c.kind # "zs"
  <2>1. c \in RcConv /\ c.from \in Party /\ c.kind = "rc"
    BY <1>2 DEF Conv, ZsConv, RcConv
  <2>2. recvShares[c][x] = ZeroShare(set, c.from, x)
    BY <2>1 DEF DataInv, RcValue
  <2>3. zeroShares[c.from][x] = ZeroShare(set, c.from, x)
    BY <2>1 DEF DataInv, ControlInv, SentByEnds
  <2> QED BY <1>2, <2>2, <2>3 DEF Programmed
<1> QED BY <1>1, <1>2

(* A step passes at most one message of a conversation, the next one.      *)
LEMMA NextMessage ==
    ASSUME TypeOK, [Next]_vars, NEW c \in Conv
    PROVE  \/ opprf'[c] = opprf[c]
           \/ opprf[c] = "none" /\ opprf'[c] = "seed"
           \/ opprf[c] = "seed" /\ opprf'[c] = "answer"
           \/ opprf[c] = "answer" /\ opprf'[c] = "payload"
           \/ opprf[c] = "payload" /\ opprf'[c] = "taken"
<1>1. opprf \in [Conv -> OpprfMsg]
  BY DEF TypeOK
<1>2. CASE \E p \in Party : PartyStep(p)
  BY <1>2 DEF PartyStep, StartOffline, EndOfflineZS, EndOffline, DealerEndOffline,
              StartOnline, EndOnlineZS, EndOnline, Reconstruct
<1>3. CASE \E d \in Conv : ConvStep(d)
  BY <1>1, <1>3 DEF ConvStep, VoleRequest, VoleCorrection, VoleTake, SendSeed, Answer,
                    SendPayload, TakePayload
<1>4. CASE UNCHANGED vars
  BY <1>4 DEF vars
<1> QED BY <1>2, <1>3, <1>4 DEF Next, Terminated

(* So it is a step of each conversation, or none at all.                   *)
LEMMA StepTalks ==
    TypeOK /\ ControlInv /\ DataInv /\ [Next]_vars =>
        \A c \in Conv : [Talk(c)!Next]_(Talk(c)!vars)
<1> SUFFICES ASSUME TypeOK, ControlInv, DataInv, [Next]_vars, NEW c \in Conv
             PROVE  [Talk(c)!Next]_(Talk(c)!vars)
  OBVIOUS
<1>1. Right(c) <=> opprf[c] = "taken"
  BY TakenIsRight DEF TakenRight
<1>2. Right(c)' <=> opprf'[c] = "taken"
  <2>1. TypeOK' /\ ControlInv' /\ DataInv'
    BY StepTypeOK, StepControl, StepData
  <2>2. TakenRight'
    BY <2>1, TakenIsRight, PTL
  <2> QED BY <2>2 DEF TakenRight
<1>3. Right(c) \in BOOLEAN /\ Right(c)' \in BOOLEAN
  BY DEF Right
<1> QED BY <1>1, <1>2, <1>3, NextMessage
        DEF Talk!vars, Talk!Next, Talk!Pass, Talk!SendSeed, Talk!Answer, Talk!SendPayload,
            Talk!TakePayload

(***************************************************************************)
(* Every OPPRF instance of the protocol is a conversation as SepOpprf      *)
(* implements it, prepared and right, whatever the others are doing.       *)
(***************************************************************************)
THEOREM Conversations == Spec => ImplementsConversations
BY InitTalks, StepTalks, DataInvariant, PTL DEF Spec, ImplementsConversations

-----------------------------------------------------------------------------
(* The control of PsiFaults.                                               *)

(* The participants, the conversations and the tasks of PsiFaults.         *)
LEMMA FaultlessNames ==
    /\ Faultless!Party = Party /\ Faultless!Conv = Conv
    /\ \A c \in Conv : Faultless!Send(c) \in Faultless!Task /\ Faultless!Recv(c) \in Faultless!Task
    /\ \A t \in Faultless!Task : t.conv \in Conv /\ t.end \in {"send", "recv"}
<1>1. Faultless!Party = Party
  BY DEF Faultless!Party, Party
<1>2. Faultless!ZsConv = ZsConv
  BY <1>1 DEF Faultless!ZsConv, ZsConv
<1>3. Faultless!RcConv = RcConv
  BY <1>1 DEF Faultless!RcConv, RcConv
<1>4. Faultless!Conv = Conv
  BY <1>2, <1>3 DEF Faultless!Conv, Conv
<1> QED BY <1>1, <1>4 DEF Faultless!Send, Faultless!Recv, Faultless!Task

(* A task is done there when it is done here.                              *)
LEMMA ChannelDone ==
    ASSUME NEW t, t.conv \in Conv, t.end \in {"send", "recv"},
           IF t.end = "send" THEN OnlineSendDone(t.conv) ELSE OnlineRecvDone(t.conv)
    PROVE  Faultless!Done(t)
BY DEF Faultless!Done, Channel, OnlineSendDone, OnlineRecvDone

(* Nobody has begun at first, and nothing is wrong.                        *)
LEMMA InitFaultless == Init => Faultless!Init
<1> SUFFICES ASSUME Init PROVE Faultless!Init
  OBVIOUS
<1>1. barrier \in BOOLEAN /\ buffered \in BOOLEAN
  BY CasesAssumption DEF Init
<1>2. \A p \in Party : Stage(p) = "ready"
  BY DEF Init, Stage
<1>3. \A c \in Conv : Channel(c) = "open"
  BY DEF Init, Channel
<1>4. \E s \in [mode : {"run", "asio"}, buffered : BOOLEAN] :
          (IF barrier THEN "run" ELSE "asio") = s.mode /\ buffered = s.buffered
  <2> DEFINE s == [mode |-> IF barrier THEN "run" ELSE "asio", buffered |-> buffered]
  <2>1. s \in [mode : {"run", "asio"}, buffered : BOOLEAN]
    BY <1>1
  <2> QED BY <2>1
<1> QED BY <1>2, <1>3, <1>4, FaultlessNames DEF Faultless!Init

(***************************************************************************)
(* What a step does to the stages and the channels.                        *)
(***************************************************************************)
LEMMA PartyFaultless ==
    ASSUME TypeOK, NEW p \in Party, PartyStep(p)
    PROVE  [Faultless!Next]_(Faultless!vars)
<1> DEFINE stage == [q \in Party |-> Stage(q)]
           channel == [c \in Conv |-> Channel(c)]
<1>1. pc \in [Party -> Phase] /\ opprf \in [Conv -> OpprfMsg] /\ DealerIdx \in Party
  BY DealerAssumption DEF TypeOK
<1>2. UNCHANGED <<barrier, buffered, channel>>
  BY DEF PartyStep, StartOffline, EndOfflineZS, EndOffline, DealerEndOffline, StartOnline,
         EndOnlineZS, EndOnline, Reconstruct, Channel
<1>3. ASSUME NEW q \in Party, NEW from \in Phase, NEW to \in Phase, GoTo(q, from, to)
      PROVE  /\ pc[q] = from
             /\ from \notin Online /\ to \notin Online => stage' = stage
             /\ from = "ready" /\ to = "onZS" =>
                    stage[q] = "ready" /\ stage' = [stage EXCEPT ![q] = "zs"]
             /\ from = "onZS" /\ to = "onRC" =>
                    stage[q] = "zs" /\ stage' = [stage EXCEPT ![q] = "rc"]
             /\ from = "onRC" /\ to = "done" =>
                    stage[q] = "rc" /\ stage' = [stage EXCEPT ![q] = "returned"]
  BY <1>1, <1>3 DEF GoTo, Stage, Online, Phase
<1> HIDE DEF stage, channel
<1>4. ASSUME NEW q \in Party, Faultless!Start(q) \/ Faultless!GoOn(q) PROVE Faultless!Next
  BY <1>4, FaultlessNames DEF Faultless!Next, Faultless!Step
<1>5. CASE StartOffline(p) \/ EndOfflineZS(p) \/ EndOffline(p) \/ DealerEndOffline
  <2>1. stage' = stage
    BY <1>1, <1>3, <1>5 DEF StartOffline, EndOfflineZS, EndOffline, DealerEndOffline,
                            Phase, Online
  <2> QED BY <1>2, <2>1 DEF Faultless!vars, Faultless!control, Faultless!run, stage, channel
<1>6. CASE StartOnline(p)
  <2>1. stage[p] = "ready" /\ stage' = [stage EXCEPT ![p] = "zs"]
    BY <1>3, <1>6 DEF StartOnline, Phase
  <2>2. Faultless!Start(p)
    BY <1>2, <2>1 DEF Faultless!Start, Faultless!Alive, Faultless!run, stage, channel
  <2> QED BY <1>4, <2>2
<1>7. CASE EndOnlineZS(p)
  <2>1. stage[p] = "zs" /\ stage' = [stage EXCEPT ![p] = "rc"]
    BY <1>3, <1>7 DEF EndOnlineZS, Phase
  <2>2. ASSUME NEW t \in Faultless!Awaited(p) PROVE Faultless!Done(t)
    <3>1. /\ t.conv \in ZsConv /\ t.end \in {"send", "recv"}
          /\ p = IF t.end = "send" THEN t.conv.from ELSE t.conv.to
      BY <2>1, <2>2, FaultlessNames
         DEF Faultless!Awaited, Faultless!Owner, stage, Conv, ZsConv, RcConv
    <3>2. /\ t.conv = Zs(t.conv.from, t.conv.to) /\ t.conv \in Conv
          /\ t.conv.from \in Party /\ t.conv.to \in Party /\ t.conv.from # t.conv.to
      BY <3>1, ConvKinds
    <3>3. IF t.end = "send" THEN OnlineSendDone(t.conv) ELSE OnlineRecvDone(t.conv)
      BY <1>7, <3>1, <3>2 DEF EndOnlineZS
    <3> QED BY <3>1, <3>2, <3>3, ChannelDone
  <2>3. Faultless!GoOn(p)
    BY <1>2, <2>1, <2>2 DEF Faultless!GoOn, Faultless!AllReturned, Faultless!Alive,
                            Faultless!run, stage, channel
  <2> QED BY <1>4, <2>3
<1>8. CASE EndOnline(p) \/ Reconstruct
  <2>1. PICK q \in Party : /\ stage[q] = "rc" /\ stage' = [stage EXCEPT ![q] = "returned"]
                           /\ q # DealerIdx => OnlineSendDone(Rc(q))
                           /\ q = DealerIdx => \A r \in Party \ {q} : OnlineRecvDone(Rc(r))
    <3>1. CASE EndOnline(p)
      BY <1>3, <3>1 DEF EndOnline, Phase
    <3>2. CASE Reconstruct
      BY <1>1, <1>3, <3>2 DEF Reconstruct, Phase
    <3> QED BY <1>8, <3>1, <3>2
  <2>2. ASSUME NEW t \in Faultless!Awaited(q) PROVE Faultless!Done(t)
    <3>1. /\ t.conv \in RcConv /\ t.end \in {"send", "recv"}
          /\ q = IF t.end = "send" THEN t.conv.from ELSE t.conv.to
      BY <2>1, <2>2, FaultlessNames
         DEF Faultless!Awaited, Faultless!Owner, stage, Conv, ZsConv, RcConv
    <3>2. /\ t.conv = Rc(t.conv.from) /\ t.conv \in Conv /\ t.conv.to = DealerIdx
          /\ t.conv.from \in Party /\ t.conv.from # DealerIdx
      BY <3>1 DEF RcConv, Rc, Conv
    <3>3. IF t.end = "send" THEN OnlineSendDone(t.conv) ELSE OnlineRecvDone(t.conv)
      BY <2>1, <3>1, <3>2
    <3> QED BY <3>1, <3>2, <3>3, ChannelDone
  <2>3. Faultless!GoOn(q)
    BY <1>2, <2>1, <2>2 DEF Faultless!GoOn, Faultless!AllReturned, Faultless!Alive,
                            Faultless!run, stage, channel
  <2> QED BY <1>4, <2>3
<1> QED BY <1>5, <1>6, <1>7, <1>8 DEF PartyStep

(* A payload passes when both ends of its conversation are there.          *)
LEMMA ConvFaultless ==
    ASSUME TypeOK, ControlInv, NEW c \in Conv, ConvStep(c)
    PROVE  [Faultless!Next]_(Faultless!vars)
<1> DEFINE stage == [q \in Party |-> Stage(q)]
           channel == [d \in Conv |-> Channel(d)]
<1>1. opprf \in [Conv -> OpprfMsg] /\ c.from \in Party /\ c.to \in Party
  BY ConvMembers DEF TypeOK
<1>2. UNCHANGED <<barrier, buffered, stage>>
  BY DEF ConvStep, VoleRequest, VoleCorrection, VoleTake, SendSeed, Answer, SendPayload,
         TakePayload, Stage
<1>3. ASSUME opprf[c] \in {"answer", "payload", "taken"}
      PROVE  Faultless!Started(Faultless!Send(c)) /\ Faultless!Started(Faultless!Recv(c))
  <2>1. /\ pc[c.from] \in Online /\ pc[c.to] \in Online
        /\ c.kind # "zs" => pc[c.from] \in {"onRC", "done"} /\ pc[c.to] \in {"onRC", "done"}
    BY <1>3, ConvMembers DEF ControlInv, SentByEnds
  <2>2. /\ stage[c.from] \in {"zs", "rc", "returned"} /\ stage[c.to] \in {"zs", "rc", "returned"}
        /\ c.kind # "zs" => /\ stage[c.from] \in {"rc", "returned"}
                            /\ stage[c.to] \in {"rc", "returned"}
    BY <1>1, <2>1 DEF Stage, Online
  <2> HIDE DEF stage
  <2> QED BY <2>2 DEF Faultless!Started, Faultless!Owner, Faultless!Send, Faultless!Recv, stage
<1>4. CASE \/ VoleRequest(c) \/ VoleCorrection(c) \/ VoleTake(c) \/ SendSeed(c) \/ Answer(c)
  <2>1. channel' = channel
    BY <1>1, <1>4 DEF VoleRequest, VoleCorrection, VoleTake, SendSeed, Answer, Channel
  <2> HIDE DEF stage, channel
  <2> QED BY <1>2, <2>1 DEF Faultless!vars, Faultless!control, Faultless!run, stage, channel
<1>5. CASE SendPayload(c)
  <2>1. channel[c] = "open" /\ channel' = [channel EXCEPT ![c] = "payload"]
    BY <1>1, <1>5 DEF SendPayload, Channel
  <2>2. Faultless!Started(Faultless!Send(c)) /\ Faultless!Started(Faultless!Recv(c))
    BY <1>3, <1>5 DEF SendPayload
  <2> HIDE DEF stage, channel
  <2>3. Faultless!Active(Faultless!Send(c)) /\ Faultless!Active(Faultless!Recv(c))
    BY <2>1, <2>2 DEF Faultless!Active, Faultless!Done, Faultless!Send, Faultless!Recv, channel
  <2>4. Faultless!Exchange(c)
    BY <1>2, <2>1, <2>3 DEF Faultless!Exchange, Faultless!Alive, Faultless!run, stage, channel
  <2> QED BY <2>4, FaultlessNames DEF Faultless!Next, Faultless!Step, Faultless!Mishap
<1>6. CASE TakePayload(c)
  <2>1. channel[c] = "payload" /\ channel' = [channel EXCEPT ![c] = "taken"]
    BY <1>1, <1>6 DEF TakePayload, Channel
  <2>2. Faultless!Started(Faultless!Recv(c))
    BY <1>3, <1>6 DEF TakePayload
  <2> HIDE DEF stage, channel
  <2>3. Faultless!Active(Faultless!Recv(c))
    BY <2>1, <2>2 DEF Faultless!Active, Faultless!Done, Faultless!Recv, channel
  <2>4. Faultless!Take(c)
    BY <1>2, <2>1, <2>3 DEF Faultless!Take, Faultless!Alive, Faultless!run, stage, channel
  <2> QED BY <2>4, FaultlessNames DEF Faultless!Next, Faultless!Step, Faultless!Mishap
<1> QED BY <1>4, <1>5, <1>6 DEF ConvStep

LEMMA StepFaultless ==
    TypeOK /\ ControlInv /\ [Next]_vars => [Faultless!Next]_(Faultless!vars)
<1> SUFFICES ASSUME TypeOK, ControlInv, [Next]_vars PROVE [Faultless!Next]_(Faultless!vars)
  OBVIOUS
<1>1. CASE UNCHANGED vars
  BY <1>1 DEF vars, Faultless!vars, Faultless!control, Faultless!run, Stage, Channel
<1> QED BY <1>1, PartyFaultless, ConvFaultless DEF Next, Terminated

(***************************************************************************)
(* Every behaviour of the online phase is one of PsiFaults without faults, *)
(* with the caller's barrier or without it.                                *)
(***************************************************************************)
THEOREM ControlOfPsiFaults == Spec => ImplementsFaultless
BY InitFaultless, StepFaultless, ControlInvariant, PTL DEF Spec, ImplementsFaultless
=============================================================================
