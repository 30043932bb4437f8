--------------------------- MODULE MonoPSIProofs ---------------------------
(***************************************************************************)
(* Theorems about MonoPSI, for any number of participants, any dealer and  *)
(* any sets: that the run returns the intersection with nothing left       *)
(* running, and that it implements the ideal of Psi.                       *)
(***************************************************************************)
EXTENDS MonoPSI, SharingProofs

-----------------------------------------------------------------------------
(* Type correctness.                                                       *)

(* Every run starts with vectors of the right shape.                       *)
LEMMA InitTypeOK == Init => TypeOK
BY InputsAssumption, NPartiesAssumption, BlockFacts, ConvMembers DEF Init, TypeOK, Empty

(* Decoding gives a block, whether or not the sender programmed x.         *)
LEMMA DecodeType ==
    ASSUME TypeOK, NEW c \in Conv, NEW x \in set[c.to]
    PROVE  Decode(c, x) \in Block
<1>1. Noise(c, x) \in Block
  BY ConvMembers, BlockFacts DEF TypeOK
<1>2. x \in DOMAIN mP[c] => mP[c] \in [set[c.from] -> Block]
  BY DEF TypeOK, Empty
<1> QED BY <1>1, <1>2 DEF Decode

(* The shares that a participant draws are vectors over its own set.       *)
LEMMA DrawSharesType ==
    ASSUME TypeOK, NEW p \in Party
    PROVE  DrawShares(p) \in [Party -> [set[p] -> Block]]
<1> SUFFICES ASSUME NEW q \in Party, NEW x \in set[p]
             PROVE  (IF q # p THEN Share(p, q, x)
                     ELSE XorSum(Party \ {p}, [r \in Party \ {p} |-> Share(p, r, x)]))
                    \in Block
  BY DEF DrawShares
<1>1. \A r \in Party : Share(p, r, x) \in Block
  BY BlockFacts DEF TypeOK
<1>2. XorSum(Party \ {p}, [r \in Party \ {p} |-> Share(p, r, x)]) \in Block
  BY <1>1, XorSumType
<1> QED BY <1>1, <1>2

(* So are the zero shares it combines.                                     *)
LEMMA CombineSharesType ==
    ASSUME TypeOK, NEW p \in Party
    PROVE  CombineShares(p) \in [set[p] -> Block]
<1> SUFFICES ASSUME NEW x \in set[p]
             PROVE  sendShares[p][p][x] (+)
                    XorSum(Party \ {p}, [q \in Party \ {p} |-> recvShares[Zs(q, p)][x]])
                    \in Block
  BY DEF CombineShares
<1>1. sendShares[p][p][x] \in Block
  BY DEF TypeOK
<1>2. ASSUME NEW q \in Party \ {p} PROVE recvShares[Zs(q, p)][x] \in Block
  <2>1. Zs(q, p) \in Conv /\ Zs(q, p).to = p
    BY ConvMembers, ConvFields
  <2>2. recvShares[Zs(q, p)] \in [set[p] -> Block]
    BY <2>1 DEF TypeOK
  <2> QED BY <2>2
<1>3. XorSum(Party \ {p}, [q \in Party \ {p} |-> recvShares[Zs(q, p)][x]]) \in Block
  BY <1>2, XorSumType
<1> QED BY <1>1, <1>3, BlockFacts

(* The next participant to start or to await is one of the participants.   *)
LEMMA NextParty == /\ NParties \in Nat
                   /\ \A i \in 0 .. NParties : i < NParties => i \in Party
BY NPartiesAssumption DEF Party

(* No step changes the shape of the state.                                 *)
LEMMA StepTypeOK == TypeOK /\ [Next]_vars => TypeOK'
<1> SUFFICES ASSUME TypeOK, [Next]_vars PROVE TypeOK'
  OBVIOUS
<1> USE DEF TypeOK, data, caller
<1>1. CASE StartNext
  <2>1. started \in Party /\ started + 1 \in 0 .. NParties
    BY <1>1, NextParty DEF StartNext
  <2>2. DrawShares(started) \in [Party -> [set[started] -> Block]]
    BY <2>1, DrawSharesType
  <2> QED BY <1>1, <2>1, <2>2 DEF StartNext
<1>2. CASE AwaitNext
  <2>1. awaited + 1 \in 0 .. NParties
    BY <1>2, NextParty DEF AwaitNext
  <2>2. result \in SUBSET Elem
    BY DealerAssumption
  <2> QED BY <1>2, <2>1, <2>2 DEF AwaitNext
<1>3. ASSUME NEW p \in Party, EndZeroSharing(p) PROVE TypeOK'
  BY <1>3, CombineSharesType DEF EndZeroSharing
<1>4. ASSUME NEW p \in Party, EndOnline(p) PROVE TypeOK'
  BY <1>4 DEF EndOnline
<1>5. CASE Reconstruct
  <2>1. Reconstructed \in SUBSET set[DealerIdx]
    BY DEF Reconstructed
  <2> QED BY <1>5, <2>1 DEF Reconstruct
<1>6. ASSUME NEW c \in Conv, Prepare(c) PROVE TypeOK'
  BY <1>6 DEF Prepare
<1>7. ASSUME NEW c \in Conv, SendPayload(c) PROVE TypeOK'
  <2>1. Programmed(c) \in [set[c.from] -> Block]
    BY ConvMembers DEF Programmed
  <2> QED BY <1>7, <2>1 DEF SendPayload
<1>8. ASSUME NEW c \in Conv, TakePayload(c) PROVE TypeOK'
  <2>1. [x \in set[c.to] |-> Decode(c, x)] \in [set[c.to] -> Block]
    BY DecodeType
  <2> QED BY <1>8, <2>1 DEF TakePayload
<1>9. CASE UNCHANGED vars
  BY <1>9 DEF vars
<1> QED BY <1>1, <1>2, <1>3, <1>4, <1>5, <1>6, <1>7, <1>8, <1>9
        DEF Next, CallerStep, PartyStep, ConvStep, Terminated

-----------------------------------------------------------------------------
(* Control: phases, messages and the two loops of MonoPSI::online.         *)

(* Nobody has been started and nothing has been sent at the beginning.     *)
LEMMA InitControl == Init => ControlInv
BY NPartiesAssumption, ConvMembers, ConvKinds
   DEF Init, ControlInv, CallerInv, BothEndsStarted, TasksAwaited, Party

(***************************************************************************)
(* The relation of the two loops to the phases.  While participants are    *)
(* still being started none is awaited; a coroutine ends only after it     *)
(* was started, and it does not start again.                               *)
(***************************************************************************)
LEMMA StepCaller == TypeOK /\ ControlInv /\ [Next]_vars => CallerInv'
<1> SUFFICES ASSUME TypeOK, CallerInv, [Next]_vars PROVE CallerInv'
  BY DEF ControlInv
<1>1. /\ pc \in [Party -> {"init", "zeroSharing", "reconstruction", "done"}]
      /\ started \in 0 .. NParties /\ awaited \in 0 .. NParties
      /\ Party = 0 .. NParties - 1 /\ NParties \in Nat
  BY NPartiesAssumption DEF TypeOK, Party
<1> USE DEF CallerInv, data, caller
<1>2. CASE StartNext
  <2>1. /\ started < NParties /\ started' = started + 1 /\ awaited' = awaited
        /\ pc' = [pc EXCEPT ![started] = "zeroSharing"]
    BY <1>2 DEF StartNext
  <2>2. awaited = 0
    BY <1>1, <2>1
  <2>3. \A p \in Party : pc'[p] = "init" <=> started + 1 <= p
    BY <1>1, <2>1
  <2> QED BY <1>1, <2>1, <2>2, <2>3
<1>3. CASE AwaitNext
  <2>1. /\ started = NParties /\ pc[awaited] = "done" /\ awaited' = awaited + 1
        /\ started' = started /\ pc' = pc
    BY <1>3 DEF AwaitNext
  <2> QED BY <1>1, <2>1
<1>4. ASSUME NEW p \in Party, PartyStep(p) PROVE CallerInv'
  <2>1. /\ started' = started /\ awaited' = awaited
        /\ \A q \in Party : pc'[q] = "init" <=> pc[q] = "init"
        /\ \A q \in Party : pc[q] = "done" => pc'[q] = "done"
    BY <1>1, <1>4, DealerAssumption DEF PartyStep, EndZeroSharing, EndOnline, Reconstruct
  <2> QED BY <2>1
<1>5. ASSUME NEW c \in Conv, ConvStep(c) PROVE CallerInv'
  BY <1>5 DEF ConvStep, Prepare, SendPayload, TakePayload
<1>6. CASE UNCHANGED vars
  BY <1>6 DEF vars
<1> QED BY <1>2, <1>3, <1>4, <1>5, <1>6 DEF Next, CallerStep, Terminated

(* A phase is never taken back, and neither is a message.                  *)
LEMMA Progress ==
    ASSUME TypeOK, ControlInv, [Next]_vars
    PROVE  /\ \A p \in Party :
                /\ pc[p] \in {"zeroSharing", "reconstruction", "done"}
                       => pc'[p] \in {"zeroSharing", "reconstruction", "done"}
                /\ pc[p] \in {"reconstruction", "done"}
                       => pc'[p] \in {"reconstruction", "done"}
           /\ \A c \in Conv : /\ SendDone(c) => SendDone(c)'
                              /\ RecvDone(c) => RecvDone(c)'
<1> USE DEF data, caller, SendDone, RecvDone
<1>1. /\ pc \in [Party -> {"init", "zeroSharing", "reconstruction", "done"}]
      /\ opprf \in [Conv -> {"none", "prepared", "payload", "taken"}]
  BY DEF TypeOK
<1>2. CASE StartNext
  <2>1. started \in Party => pc[started] = "init"
    BY <1>1 DEF ControlInv, CallerInv, TypeOK, Party
  <2> QED BY <1>1, <1>2, <2>1 DEF StartNext
<1>3. CASE AwaitNext
  BY <1>3 DEF AwaitNext
<1>4. ASSUME NEW p \in Party, PartyStep(p) PROVE opprf' = opprf
  BY <1>4 DEF PartyStep, EndZeroSharing, EndOnline, Reconstruct
<1>5. ASSUME NEW p \in Party, PartyStep(p), NEW q \in Party
      PROVE  /\ pc[q] \in {"zeroSharing", "reconstruction", "done"}
                       => pc'[q] \in {"zeroSharing", "reconstruction", "done"}
             /\ pc[q] \in {"reconstruction", "done"}
                       => pc'[q] \in {"reconstruction", "done"}
  BY <1>1, <1>5, DealerAssumption DEF PartyStep, EndZeroSharing, EndOnline, Reconstruct
<1>6. ASSUME NEW c \in Conv, ConvStep(c)
      PROVE  /\ pc' = pc
             /\ \A d \in Conv : /\ SendDone(d) => SendDone(d)'
                                /\ RecvDone(d) => RecvDone(d)'
  BY <1>1, <1>6 DEF ConvStep, Prepare, SendPayload, TakePayload
<1>7. CASE UNCHANGED vars
  BY <1>7 DEF vars
<1> QED BY <1>2, <1>3, <1>4, <1>5, <1>6, <1>7 DEF Next, CallerStep, Terminated

(* An instance begins only between two ends that have been started.        *)
LEMMA StepBothEnds == TypeOK /\ ControlInv /\ [Next]_vars => BothEndsStarted'
<1> SUFFICES ASSUME TypeOK, ControlInv, [Next]_vars,
                    NEW c \in Conv, opprf'[c] # "none"
             PROVE  TaskStarted(c.from, c)' /\ TaskStarted(c.to, c)'
  BY DEF BothEndsStarted
<1>1. opprf[c] # "none" \/ (TaskStarted(c.from, c) /\ TaskStarted(c.to, c))
  BY DEF Next, CallerStep, StartNext, AwaitNext, PartyStep, EndZeroSharing, EndOnline,
         Reconstruct, ConvStep, Prepare, SendPayload, TakePayload, Terminated, vars,
         TypeOK
<1>2. TaskStarted(c.from, c) /\ TaskStarted(c.to, c)
  BY <1>1 DEF ControlInv, BothEndsStarted
<1> QED BY <1>2, Progress, ConvMembers DEF TaskStarted

(***************************************************************************)
(* A participant goes on only when its own side of every instance of the   *)
(* phase is done; from then on it stays done.                              *)
(***************************************************************************)
LEMMA StepAwaited == TypeOK /\ ControlInv /\ [Next]_vars => TasksAwaited'
<1> SUFFICES ASSUME TypeOK, ControlInv, [Next]_vars PROVE TasksAwaited'
  OBVIOUS
<1>1. pc \in [Party -> {"init", "zeroSharing", "reconstruction", "done"}]
  BY DEF TypeOK
<1>2. /\ \A c \in ZsConv : /\ pc[c.from] \in {"reconstruction", "done"} => SendDone(c)'
                           /\ pc[c.to] \in {"reconstruction", "done"} => RecvDone(c)'
      /\ \A c \in RcConv : /\ pc[c.from] = "done" => SendDone(c)'
                           /\ pc[c.to] = "done" => RecvDone(c)'
  BY Progress, ConvKinds DEF ControlInv, TasksAwaited
<1>3. CASE UNCHANGED pc
  BY <1>2, <1>3 DEF TasksAwaited
<1>4. CASE StartNext
  <2>1. pc' = [pc EXCEPT ![started] = "zeroSharing"]
    BY <1>4 DEF StartNext
  <2>2. \A p \in Party : /\ pc'[p] \in {"reconstruction", "done"}
                                => pc[p] \in {"reconstruction", "done"}
                         /\ pc'[p] = "done" => pc[p] = "done"
    BY <1>1, <2>1
  <2> QED BY <1>2, <2>2, ConvKinds, DealerAssumption DEF TasksAwaited
<1>5. ASSUME NEW p \in Party, EndZeroSharing(p) PROVE TasksAwaited'
  <2>1. /\ pc[p] = "zeroSharing" /\ pc' = [pc EXCEPT ![p] = "reconstruction"]
        /\ \A q \in Party \ {p} : SendDone(Zs(p, q)) /\ RecvDone(Zs(q, p))
    BY <1>5 DEF EndZeroSharing
  <2>2. ASSUME NEW c \in ZsConv
        PROVE  (c.from = p => SendDone(c)') /\ (c.to = p => RecvDone(c)')
    <3>1. /\ c \in Conv /\ c = Zs(c.from, c.to)
          /\ c.from \in Party /\ c.to \in Party /\ c.from # c.to
      BY ConvKinds
    <3>2. c.from = p => SendDone(c)
      BY <2>1, <3>1
    <3>3. c.to = p => RecvDone(c)
      BY <2>1, <3>1
    <3> QED BY <3>1, <3>2, <3>3, Progress
  <2>3. \A q \in Party : q # p => pc'[q] = pc[q]
    BY <1>1, <2>1
  <2>4. pc'[p] = "reconstruction"
    BY <1>1, <2>1
  <2> QED BY <1>2, <2>2, <2>3, <2>4, ConvKinds, DealerAssumption DEF TasksAwaited
<1>6. ASSUME NEW p \in Party, EndOnline(p) PROVE TasksAwaited'
  <2>1. /\ p # DealerIdx /\ pc[p] = "reconstruction" /\ pc' = [pc EXCEPT ![p] = "done"]
        /\ SendDone(Rc(p))
    BY <1>6 DEF EndOnline
  <2>2. \A c \in RcConv : c.to # p /\ (c.from = p => SendDone(c)')
    BY <2>1, Progress, ConvKinds
  <2>3. \A q \in Party : q # p => pc'[q] = pc[q]
    BY <1>1, <2>1
  <2> QED BY <1>2, <2>1, <2>2, <2>3, ConvKinds, DealerAssumption DEF TasksAwaited
<1>7. CASE Reconstruct
  <2>1. /\ pc[DealerIdx] = "reconstruction" /\ pc' = [pc EXCEPT ![DealerIdx] = "done"]
        /\ \A p \in Party \ {DealerIdx} : RecvDone(Rc(p))
    BY <1>7 DEF Reconstruct
  <2>2. \A c \in RcConv : c.from # DealerIdx /\ RecvDone(c)'
    BY <2>1, Progress, ConvKinds
  <2>3. \A q \in Party : q # DealerIdx => pc'[q] = pc[q]
    BY <1>1, <2>1
  <2> QED BY <1>2, <2>1, <2>2, <2>3, ConvKinds, DealerAssumption DEF TasksAwaited
<1>8. CASE AwaitNext \/ Terminated \/ UNCHANGED vars \/ \E c \in Conv : ConvStep(c)
  <2>1. UNCHANGED pc
    BY <1>8 DEF AwaitNext, Terminated, vars, ConvStep, Prepare, SendPayload, TakePayload
  <2> QED BY <2>1, <1>3
<1> QED BY <1>4, <1>5, <1>6, <1>7, <1>8 DEF Next, CallerStep, PartyStep

(* The control part of the inductive invariant.                            *)
LEMMA ControlInvariant == Spec => [](TypeOK /\ ControlInv)
<1>1. TypeOK /\ ControlInv /\ [Next]_vars => TypeOK' /\ ControlInv'
  BY StepTypeOK, StepCaller, StepBothEnds, StepAwaited DEF ControlInv
<1> QED BY <1>1, InitTypeOK, InitControl, PTL DEF Spec

(***************************************************************************)
(* What remains when the run returns: all coroutines were awaited, each    *)
(* has awaited its own tasks, and every instance has a receiver.           *)
(***************************************************************************)
LEMMA NothingLeftFromControl == TypeOK /\ ControlInv => NothingLeftBehind
<1> SUFFICES ASSUME TypeOK, ControlInv, RunReturns
             PROVE  /\ \A p \in Party : pc[p] = "done"
                    /\ \A c \in Conv : opprf[c] = "taken"
  BY DEF NothingLeftBehind
<1>1. \A p \in Party : pc[p] = "done"
  BY NPartiesAssumption DEF RunReturns, ControlInv, CallerInv, Party
<1>2. \A c \in Conv : RecvDone(c)
  BY <1>1, ConvMembers DEF ControlInv, TasksAwaited, Conv
<1> QED BY <1>1, <1>2 DEF RecvDone

(* Every coroutine and every task has ended when MonoPSI::run returns.     *)
THEOREM NothingLeft == Spec => []NothingLeftBehind
BY ControlInvariant, NothingLeftFromControl, PTL

(* An instance that both ends have awaited writes and reads no more.       *)
LEMMA FrameStep ==
    ASSUME TypeOK, ControlInv, [Next]_vars, NEW c \in ZsConv
    PROVE  /\ pc[c.to] \in {"reconstruction", "done"} => recvShares'[c] = recvShares[c]
           /\ pc[c.from] \in {"reconstruction", "done"} => mP'[c] = mP[c]
<1>1. /\ pc[c.to] \in {"reconstruction", "done"} => opprf[c] = "taken"
      /\ pc[c.from] \in {"reconstruction", "done"} => opprf[c] \in {"payload", "taken"}
  BY DEF ControlInv, TasksAwaited, SendDone, RecvDone
<1>2. ASSUME NEW d \in Conv, ConvStep(d)
      PROVE  /\ opprf[c] = "taken" => recvShares'[c] = recvShares[c]
             /\ opprf[c] \in {"payload", "taken"} => mP'[c] = mP[c]
  BY <1>2, ConvKinds DEF TypeOK, ConvStep, Prepare, SendPayload, TakePayload, data
<1>3. CASE CallerStep \/ Terminated \/ UNCHANGED vars \/ \E p \in Party : PartyStep(p)
  BY <1>3 DEF CallerStep, StartNext, AwaitNext, Terminated, vars, data, PartyStep,
              EndZeroSharing, EndOnline, Reconstruct
<1> QED BY <1>1, <1>2, <1>3 DEF Next

(* Nothing touches the share vectors of a coroutine that has combined.     *)
THEOREM FramesOutliveTasks == Spec => NoTaskOutlivesItsFrame
<1>1. TypeOK /\ ControlInv /\ [Next]_vars =>
        [\A c \in ZsConv :
         /\ pc[c.to] \in {"reconstruction", "done"} => recvShares'[c] = recvShares[c]
         /\ pc[c.from] \in {"reconstruction", "done"} => mP'[c] = mP[c]]_vars
  BY FrameStep
<1> QED BY <1>1, ControlInvariant, PTL DEF Spec, NoTaskOutlivesItsFrame

-----------------------------------------------------------------------------
(* Data: what the vectors hold, in terms of the sets alone.                *)

(* At the beginning there is nothing to say about the vectors.             *)
LEMMA InitData == Init => DataInv
BY DealerAssumption, ConvKinds DEF Init, DataInv, Party

(* What is decoded in zero sharing.                                        *)
LEMMA ZsDecode ==
    ASSUME TypeOK, ControlInv, DataInv, NEW c \in ZsConv, opprf[c] = "payload",
           NEW x \in set[c.to]
    PROVE  Decode(c, x) = ZsValue(set, c, x)
<1>1. /\ c \in Conv /\ c.kind = "zs" /\ c.from \in Party /\ c.to \in Party
      /\ c.from # c.to
  BY ConvKinds
<1>2. mP[c] = sendShares[c.from][c.to]
  BY DEF DataInv
<1>3. pc[c.from] # "init"
  BY <1>1 DEF ControlInv, BothEndsStarted, TaskStarted
<1>4. sendShares[c.from] = DrawShares(c.from)
  BY <1>1, <1>3 DEF DataInv
<1>5. DOMAIN mP[c] = set[c.from]
  BY <1>1, <1>2 DEF TypeOK
<1>6. \A y \in set[c.from] : mP[c][y] = Share(c.from, c.to, y)
  BY <1>1, <1>2, <1>4 DEF DrawShares
<1> QED BY <1>5, <1>6 DEF Decode, ZsValue

(* What is decoded in reconstruction.                                      *)
LEMMA RcDecode ==
    ASSUME TypeOK, ControlInv, DataInv, NEW c \in RcConv, opprf[c] = "payload",
           NEW x \in set[c.to]
    PROVE  Decode(c, x) = RcValue(set, c, x)
<1>1. /\ c \in Conv /\ c.kind = "rc" /\ c.from \in Party
  BY ConvKinds
<1>2. mP[c] = zeroShares[c.from]
  BY DEF DataInv
<1>3. pc[c.from] \in {"reconstruction", "done"}
  BY <1>1 DEF ControlInv, BothEndsStarted, TaskStarted
<1>4. \A y \in set[c.from] : zeroShares[c.from][y] = ZeroShare(set, c.from, y)
  BY <1>1, <1>3 DEF DataInv
<1>5. DOMAIN mP[c] = set[c.from]
  BY <1>1, <1>2 DEF TypeOK
<1> QED BY <1>2, <1>4, <1>5 DEF Decode, RcValue

(* What a participant combines when it has awaited its tasks.              *)
LEMMA CombineIsZeroShare ==
    ASSUME TypeOK, ControlInv, DataInv, NEW p \in Party, pc[p] = "zeroSharing",
           \A q \in Party \ {p} : RecvDone(Zs(q, p)), NEW x \in set[p]
    PROVE  CombineShares(p)[x] = ZeroShare(set, p, x)
<1>1. sendShares[p][p][x] = XorSum(Party \ {p}, [r \in Party \ {p} |-> Share(p, r, x)])
  <2>1. sendShares[p] = DrawShares(p)
    BY DEF DataInv
  <2> QED BY <2>1 DEF DrawShares
<1>2. ASSUME NEW q \in Party \ {p}
      PROVE  recvShares[Zs(q, p)][x] = ZsValue(set, Zs(q, p), x)
  <2>1. Zs(q, p) \in ZsConv /\ Zs(q, p).to = p
    BY ConvMembers, ConvFields
  <2>2. opprf[Zs(q, p)] = "taken"
    BY DEF RecvDone
  <2> QED BY <2>1, <2>2 DEF DataInv
<1>3. [q \in Party \ {p} |-> recvShares[Zs(q, p)][x]]
        = [q \in Party \ {p} |-> ZsValue(set, Zs(q, p), x)]
  BY <1>2
<1> QED BY <1>1, <1>3 DEF CombineShares, ZeroShare

(* What the dealer reconstructs when it has awaited all parties.           *)
LEMMA ReconstructedIsInAll ==
    ASSUME TypeOK, ControlInv, DataInv, pc[DealerIdx] = "reconstruction",
           \A p \in Party \ {DealerIdx} : RecvDone(Rc(p))
    PROVE  Reconstructed = InAll
<1>1. ASSUME NEW x \in set[DealerIdx]
      PROVE  zeroShares[DealerIdx][x] (+)
             XorSum(Party \ {DealerIdx},
                    [p \in Party \ {DealerIdx} |-> recvShares[Rc(p)][x]])
             = DealerSum(set, x)
  <2>1. zeroShares[DealerIdx][x] = ZeroShare(set, DealerIdx, x)
    BY DealerAssumption DEF DataInv
  <2>2. ASSUME NEW p \in Party \ {DealerIdx}
        PROVE  recvShares[Rc(p)][x] = RcValue(set, Rc(p), x)
    <3>1. Rc(p) \in RcConv /\ Rc(p).to = DealerIdx /\ opprf[Rc(p)] = "taken"
      BY ConvMembers, ConvFields DEF RecvDone
    <3> QED BY <3>1 DEF DataInv
  <2>3. [p \in Party \ {DealerIdx} |-> recvShares[Rc(p)][x]]
          = [p \in Party \ {DealerIdx} |-> RcValue(set, Rc(p), x)]
    BY <2>2
  <2> QED BY <2>1, <2>3 DEF DealerSum
<1>2. Reconstructed = {x \in set[DealerIdx] : DealerSum(set, x) = ZeroBlock}
  BY <1>1 DEF Reconstructed
<1>3. \A x \in set[DealerIdx] :
        DealerSum(set, x) = ZeroBlock <=> \A p \in Party : x \in set[p]
  BY DealerSumZero
<1> QED BY <1>2, <1>3, DealerAssumption DEF InAll, TypeOK

(* The sets never change, nor do the shares drawn under their elements.    *)
LEMMA SetsAreFixed ==
    ASSUME [Next]_vars
    PROVE  set' = set /\ InAll' = InAll /\ \A p : DrawShares(p)' = DrawShares(p)
<1>1. set' = set
  BY DEF Next, CallerStep, StartNext, AwaitNext, PartyStep, EndZeroSharing, EndOnline,
         Reconstruct, ConvStep, Prepare, SendPayload, TakePayload, Terminated, vars,
         caller
<1> QED BY <1>1 DEF DrawShares, InAll

(***************************************************************************)
(* The steps of the caller and of the participants: the vectors change     *)
(* only when shares are drawn and when they are combined.                  *)
(***************************************************************************)
LEMMA CallerData ==
    ASSUME TypeOK, ControlInv, DataInv, [Next]_vars, CallerStep
    PROVE  DataInv'
<1>1. set' = set /\ InAll' = InAll /\ \A p : DrawShares(p)' = DrawShares(p)
  BY SetsAreFixed
<1>2. /\ pc \in [Party -> {"init", "zeroSharing", "reconstruction", "done"}]
      /\ DealerIdx \in Party /\ DOMAIN sendShares = Party
      /\ started \in 0 .. NParties /\ awaited \in 0 .. NParties
      /\ Party = 0 .. NParties - 1 /\ NParties \in Nat
  BY DealerAssumption, NPartiesAssumption DEF TypeOK, Party
<1> USE DEF data
<1>3. CASE StartNext
  <2>1. /\ started \in Party /\ pc[started] = "init"
        /\ pc' = [pc EXCEPT ![started] = "zeroSharing"]
        /\ sendShares' = [sendShares EXCEPT ![started] = DrawShares(started)]
        /\ UNCHANGED <<awaited, intersection, opprf, mP, recvShares, zeroShares, result>>
    BY <1>2, <1>3 DEF StartNext, ControlInv, CallerInv
  <2>2. \A c \in Conv : opprf[c] # "none" => c.from # started
    BY <2>1 DEF ControlInv, BothEndsStarted, TaskStarted
  <2>3. \A p \in Party : pc'[p] # "init" => sendShares'[p] = DrawShares(p)
    BY <1>2, <2>1 DEF DataInv
  <2>4. \A c \in ZsConv : opprf[c] \in {"payload", "taken"} =>
                             mP[c] = sendShares'[c.from][c.to]
    BY <1>2, <2>1, <2>2, ConvKinds DEF DataInv
  <2>5. /\ \A p \in Party : pc'[p] \in {"reconstruction", "done"}
                                => pc[p] \in {"reconstruction", "done"}
        /\ pc'[DealerIdx] = "done" <=> pc[DealerIdx] = "done"
    BY <1>2, <2>1
  <2> QED BY <1>1, <2>1, <2>3, <2>4, <2>5 DEF DataInv
<1>4. CASE AwaitNext
  <2>1. /\ awaited \in Party /\ awaited' = awaited + 1
        /\ intersection' = IF awaited = DealerIdx THEN result ELSE intersection
        /\ UNCHANGED <<pc, opprf, mP, sendShares, recvShares, zeroShares, result>>
    BY <1>2, <1>4 DEF AwaitNext
  <2>2. intersection' = IF DealerIdx < awaited' THEN result ELSE {}
    BY <1>2, <2>1 DEF DataInv
  <2> QED BY <1>1, <2>1, <2>2 DEF DataInv
<1> QED BY <1>3, <1>4 DEF CallerStep

(* The same for a step of a participant.                                   *)
LEMMA PartyData ==
    ASSUME TypeOK, ControlInv, DataInv, [Next]_vars, NEW p \in Party, PartyStep(p)
    PROVE  DataInv'
<1>1. set' = set /\ InAll' = InAll /\ \A q : DrawShares(q)' = DrawShares(q)
  BY SetsAreFixed
<1>2. /\ pc \in [Party -> {"init", "zeroSharing", "reconstruction", "done"}]
      /\ DealerIdx \in Party /\ DOMAIN zeroShares = Party
      /\ awaited \in 0 .. NParties /\ Party = 0 .. NParties - 1 /\ NParties \in Nat
  BY DealerAssumption, NPartiesAssumption DEF TypeOK, Party
<1> USE DEF data, caller
<1>3. CASE EndZeroSharing(p)
  <2>1. /\ pc[p] = "zeroSharing" /\ pc' = [pc EXCEPT ![p] = "reconstruction"]
        /\ zeroShares' = [zeroShares EXCEPT ![p] = CombineShares(p)]
        /\ \A q \in Party \ {p} : RecvDone(Zs(q, p))
        /\ UNCHANGED <<awaited, intersection, opprf, mP, sendShares, recvShares, result>>
    BY <1>3 DEF EndZeroSharing
  <2>2. \A c \in RcConv : opprf[c] # "none" => c.from # p
    BY <2>1, ConvKinds DEF ControlInv, BothEndsStarted, TaskStarted
  <2>3. \A x \in set[p] : zeroShares'[p][x] = ZeroShare(set, p, x)
    BY <1>2, <2>1, CombineIsZeroShare
  <2>4. \A q \in Party : pc'[q] \in {"reconstruction", "done"} =>
                             \A x \in set[q] : zeroShares'[q][x] = ZeroShare(set, q, x)
    BY <1>2, <2>1, <2>3 DEF DataInv
  <2>5. \A c \in RcConv : opprf[c] \in {"payload", "taken"} => mP[c] = zeroShares'[c.from]
    BY <1>2, <2>1, <2>2, ConvKinds DEF DataInv
  <2>6. /\ \A q \in Party : pc'[q] # "init" => pc[q] # "init"
        /\ pc'[DealerIdx] = "done" <=> pc[DealerIdx] = "done"
    BY <1>2, <2>1
  <2> QED BY <1>1, <2>1, <2>4, <2>5, <2>6 DEF DataInv
<1>4. CASE EndOnline(p)
  <2>1. /\ p # DealerIdx /\ pc[p] = "reconstruction" /\ pc' = [pc EXCEPT ![p] = "done"]
        /\ UNCHANGED <<awaited, intersection, opprf, mP, sendShares, recvShares,
                       zeroShares, result>>
    BY <1>4 DEF EndOnline
  <2>2. /\ \A q \in Party : /\ pc'[q] # "init" => pc[q] # "init"
                            /\ pc'[q] \in {"reconstruction", "done"}
                                  => pc[q] \in {"reconstruction", "done"}
        /\ pc'[DealerIdx] = pc[DealerIdx]
    BY <1>2, <2>1
  <2> QED BY <1>1, <2>1, <2>2 DEF DataInv
<1>5. CASE p = DealerIdx /\ Reconstruct
  <2>1. /\ pc[DealerIdx] = "reconstruction" /\ pc' = [pc EXCEPT ![DealerIdx] = "done"]
        /\ \A q \in Party \ {DealerIdx} : RecvDone(Rc(q))
        /\ result' = Reconstructed
        /\ UNCHANGED <<awaited, intersection, opprf, mP, sendShares, recvShares, zeroShares>>
    BY <1>5 DEF Reconstruct
  <2>2. result' = InAll
    BY <2>1, ReconstructedIsInAll
  <2>3. ~ (DealerIdx < awaited)
    BY <1>2, <2>1 DEF ControlInv, CallerInv
  <2>4. \A q \in Party : /\ pc'[q] # "init" => pc[q] # "init"
                         /\ pc'[q] \in {"reconstruction", "done"}
                               => pc[q] \in {"reconstruction", "done"}
    BY <1>2, <2>1
  <2>5. pc'[DealerIdx] = "done"
    BY <1>2, <2>1
  <2> QED BY <1>1, <2>1, <2>2, <2>3, <2>4, <2>5 DEF DataInv
<1> QED BY <1>3, <1>4, <1>5 DEF PartyStep

(* An OPPRF instance changes them when it sends and when it takes.         *)
LEMMA ConvData ==
    ASSUME TypeOK, ControlInv, DataInv, [Next]_vars, NEW c \in Conv, ConvStep(c)
    PROVE  DataInv'
<1>1. set' = set /\ InAll' = InAll /\ \A q : DrawShares(q)' = DrawShares(q)
  BY SetsAreFixed
<1>2. /\ opprf \in [Conv -> {"none", "prepared", "payload", "taken"}]
      /\ DOMAIN mP = Conv /\ DOMAIN recvShares = Conv
  BY DEF TypeOK
<1>3. UNCHANGED <<awaited, intersection, pc, sendShares, zeroShares, result>>
  BY DEF ConvStep, Prepare, SendPayload, TakePayload, data, caller
<1>4. CASE Prepare(c)
  <2>1. /\ UNCHANGED <<mP, recvShares>> /\ opprf' = [opprf EXCEPT ![c] = "prepared"]
    BY <1>4 DEF Prepare, data
  <2>2. \A d \in Conv : /\ opprf'[d] \in {"payload", "taken"}
                               => opprf[d] \in {"payload", "taken"}
                        /\ opprf'[d] = "taken" => opprf[d] = "taken"
    BY <1>2, <2>1
  <2> QED BY <1>1, <1>3, <2>1, <2>2, ConvKinds DEF DataInv
<1>5. CASE SendPayload(c)
  <2>1. /\ opprf' = [opprf EXCEPT ![c] = "payload"] /\ UNCHANGED recvShares
        /\ mP' = [mP EXCEPT ![c] = IF c.kind = "zs" THEN sendShares[c.from][c.to]
                                                   ELSE zeroShares[c.from]]
    BY <1>5 DEF SendPayload, Programmed
  <2>2. \A d \in Conv : opprf'[d] = "taken" => opprf[d] = "taken"
    BY <1>2, <2>1
  <2>3. \A d \in ZsConv : opprf'[d] \in {"payload", "taken"} =>
                             mP'[d] = sendShares[d.from][d.to]
    BY <1>2, <2>1, ConvKinds DEF DataInv
  <2>4. \A d \in RcConv : opprf'[d] \in {"payload", "taken"} => mP'[d] = zeroShares[d.from]
    BY <1>2, <2>1, ConvKinds DEF DataInv
  <2> QED BY <1>1, <1>3, <2>1, <2>2, <2>3, <2>4, ConvKinds DEF DataInv
<1>6. CASE TakePayload(c)
  <2>1. /\ opprf' = [opprf EXCEPT ![c] = "taken"] /\ opprf[c] = "payload"
        /\ recvShares' = [recvShares EXCEPT ![c] = [x \in set[c.to] |-> Decode(c, x)]]
        /\ UNCHANGED mP
    BY <1>6 DEF TakePayload
  <2>2. \A d \in Conv : opprf'[d] \in {"payload", "taken"}
                            => opprf[d] \in {"payload", "taken"}
    BY <1>2, <2>1
  <2>3. \A d \in ZsConv : opprf'[d] = "taken" =>
                 \A x \in set[d.to] : recvShares'[d][x] = ZsValue(set, d, x)
    BY <1>2, <2>1, ZsDecode, ConvKinds DEF DataInv
  <2>4. \A d \in RcConv : opprf'[d] = "taken" =>
                 \A x \in set[d.to] : recvShares'[d][x] = RcValue(set, d, x)
    BY <1>2, <2>1, RcDecode, ConvKinds DEF DataInv
  <2>5. /\ \A d \in ZsConv : opprf'[d] \in {"payload", "taken"} =>
                               mP'[d] = sendShares[d.from][d.to]
        /\ \A d \in RcConv : opprf'[d] \in {"payload", "taken"} => mP'[d] = zeroShares[d.from]
    BY <2>1, <2>2, ConvKinds DEF DataInv
  <2> QED BY <1>1, <1>3, <2>3, <2>4, <2>5 DEF DataInv
<1> QED BY <1>4, <1>5, <1>6 DEF ConvStep

(* Every step preserves what the vectors hold.                             *)
LEMMA StepData == TypeOK /\ ControlInv /\ DataInv /\ [Next]_vars => DataInv'
<1> SUFFICES ASSUME TypeOK, ControlInv, DataInv, [Next]_vars PROVE DataInv'
  OBVIOUS
<1>1. CASE CallerStep
  BY <1>1, CallerData
<1>2. CASE \E p \in Party : PartyStep(p)
  BY <1>2, PartyData
<1>3. CASE \E c \in Conv : ConvStep(c)
  BY <1>3, ConvData
<1>4. CASE UNCHANGED vars
  BY <1>4, SetsAreFixed DEF vars, caller, data, DataInv
<1> QED BY <1>1, <1>2, <1>3, <1>4 DEF Next, Terminated

(* The whole inductive invariant.                                          *)
LEMMA DataInvariant == Spec => [](TypeOK /\ ControlInv /\ DataInv)
<1>1. TypeOK /\ ControlInv /\ DataInv /\ [Next]_vars => DataInv'
  BY StepData
<1> QED BY <1>1, InitData, ControlInvariant, PTL DEF Spec

(* What the run returns is what the dealer's coroutine returned.           *)
LEMMA IntersectionFromData == TypeOK /\ ControlInv /\ DataInv => RunReturnsIntersection
<1> SUFFICES ASSUME TypeOK, ControlInv, DataInv, RunReturns PROVE intersection = InAll
  BY DEF RunReturnsIntersection
<1>1. DealerIdx < awaited /\ pc[DealerIdx] = "done"
  BY DealerAssumption, NPartiesAssumption DEF RunReturns, Party, ControlInv, CallerInv
<1> QED BY <1>1 DEF DataInv

(***************************************************************************)
(* MonoPSI::run returns the intersection, for any number of participants   *)
(* and any sets, however the coroutines and the messages interleave.       *)
(***************************************************************************)
THEOREM Correctness == Spec => []RunReturnsIntersection
BY DataInvariant, IntersectionFromData, PTL

-----------------------------------------------------------------------------
(* Implementation of the ideal intersection.                               *)

(* Initial states map to initial states.                                   *)
LEMMA InitIdeal == Init => Ideal!Init
BY DEF Init, Ideal!Init

(***************************************************************************)
(* A coroutine that combines or ends has heard from all the others, so all *)
(* of them have been started: the ideal's condition for returning.         *)
(***************************************************************************)
LEMMA AllSubmitted ==
    ASSUME TypeOK, ControlInv, NEW p \in Party, pc[p] \in {"reconstruction", "done"}
    PROVE  \A q \in Party : pc[q] # "init"
<1> SUFFICES ASSUME NEW q \in Party, q # p PROVE pc[q] # "init"
  OBVIOUS
<1>1. /\ Zs(q, p) \in ZsConv /\ Zs(q, p) \in Conv /\ Zs(q, p).kind = "zs"
      /\ Zs(q, p).from = q /\ Zs(q, p).to = p
  BY ConvMembers, ConvFields
<1>2. opprf[Zs(q, p)] = "taken"
  BY <1>1 DEF ControlInv, TasksAwaited, RecvDone
<1> QED BY <1>1, <1>2 DEF ControlInv, BothEndsStarted, TaskStarted

(* Every step maps to a step of the ideal intersection or a stutter.       *)
LEMMA StepIdeal ==
    ASSUME TypeOK, ControlInv, DataInv, [Next]_vars
    PROVE  [Ideal!Next]_(Ideal!vars)
<1> DEFINE submitted == {p \in Party : pc[p] # "init"}
           returned == {p \in Party : pc[p] = "done"}
<1>1. /\ pc \in [Party -> {"init", "zeroSharing", "reconstruction", "done"}]
      /\ DealerIdx \in Party /\ \A p \in Party : set[p] \subseteq Elem
  BY DealerAssumption DEF TypeOK
<1>2. set' = set
  BY SetsAreFixed
<1> USE DEF data, caller
<1>3. ASSUME NEW p \in Party, pc[p] = "reconstruction", pc' = [pc EXCEPT ![p] = "done"]
      PROVE  /\ submitted = Party /\ submitted' = submitted
             /\ p \notin returned /\ returned' = returned \cup {p}
  <2>1. \A q \in Party : pc[q] # "init"
    BY <1>3, AllSubmitted
  <2> QED BY <1>1, <1>3, <2>1
<1>4. CASE StartNext
  <2>1. PICK p \in Party : p = started
    BY <1>4, NextParty DEF StartNext, TypeOK
  <2>2. /\ pc[p] = "init" /\ pc' = [pc EXCEPT ![p] = "zeroSharing"] /\ result' = result
    BY <1>4, <2>1, NPartiesAssumption DEF StartNext, Party, ControlInv, CallerInv
  <2>3. /\ p \notin submitted /\ submitted' = submitted \cup {p} /\ returned' = returned
    BY <1>1, <2>2
  <2>4. Ideal!Submit(p)
    BY <1>2, <2>2, <2>3 DEF Ideal!Submit
  <2> QED BY <2>4 DEF Ideal!Next
<1>5. ASSUME NEW p \in Party, EndZeroSharing(p) PROVE UNCHANGED Ideal!vars
  <2>1. submitted' = submitted /\ returned' = returned /\ result' = result
    BY <1>1, <1>5 DEF EndZeroSharing
  <2> QED BY <1>2, <2>1 DEF Ideal!vars
<1>6. ASSUME NEW p \in Party, EndOnline(p) PROVE Ideal!Next
  <2>1. /\ p # DealerIdx /\ pc[p] = "reconstruction" /\ pc' = [pc EXCEPT ![p] = "done"]
        /\ result' = result
    BY <1>6 DEF EndOnline
  <2>2. Ideal!Return(p)
    BY <1>2, <1>3, <2>1 DEF Ideal!Return
  <2> QED BY <2>2 DEF Ideal!Next
<1>7. CASE Reconstruct
  <2>1. /\ pc[DealerIdx] = "reconstruction" /\ pc' = [pc EXCEPT ![DealerIdx] = "done"]
        /\ result' = Reconstructed /\ \A p \in Party \ {DealerIdx} : RecvDone(Rc(p))
    BY <1>7 DEF Reconstruct
  <2>2. result' = Ideal!Intersection
    <3>1. InAll = Ideal!Intersection
      BY <1>1 DEF InAll, Ideal!Intersection
    <3> QED BY <2>1, <3>1, ReconstructedIsInAll
  <2>3. Ideal!Deliver
    BY <1>1, <1>2, <1>3, <2>1, <2>2 DEF Ideal!Deliver
  <2> QED BY <2>3 DEF Ideal!Next
<1>8. CASE AwaitNext \/ UNCHANGED vars \/ \E c \in Conv : ConvStep(c)
  <2>1. pc' = pc /\ result' = result
    BY <1>8 DEF AwaitNext, vars, ConvStep, Prepare, SendPayload, TakePayload
  <2> QED BY <1>2, <2>1 DEF Ideal!vars
<1> QED BY <1>4, <1>5, <1>6, <1>7, <1>8 DEF Next, CallerStep, PartyStep, Terminated

(***************************************************************************)
(* Every behaviour of the one-phase protocol is one of the ideal           *)
(* intersection, up to steps the caller cannot see.                        *)
(***************************************************************************)
THEOREM Refinement == Spec => ImplementsIdealSafely
<1>1. TypeOK /\ ControlInv /\ DataInv /\ [Next]_vars => [Ideal!Next]_(Ideal!vars)
  BY StepIdeal
<1> QED BY <1>1, InitIdeal, DataInvariant, PTL DEF Spec, ImplementsIdealSafely

-----------------------------------------------------------------------------
(* The control of PsiFaults.                                               *)

(* The participants, the conversations and the tasks of PsiFaults.         *)
LEMMA FaultlessNames ==
    /\ Faultless!Party = Party /\ Faultless!Conv = Conv
    /\ \A t \in Faultless!Task : t.conv \in Conv /\ t.end \in {"send", "recv"}
<1>1. Faultless!Party = Party
  BY DEF Faultless!Party, Party
<1>2. Faultless!ZsConv = ZsConv
  BY <1>1 DEF Faultless!ZsConv, ZsConv
<1>3. Faultless!RcConv = RcConv
  BY <1>1 DEF Faultless!RcConv, RcConv
<1>4. Faultless!Conv = Conv
  BY <1>2, <1>3 DEF Faultless!Conv, Conv
<1> QED BY <1>1, <1>4 DEF Faultless!Task

(* A task is done there when it is done here.                              *)
LEMMA ChannelDone ==
    ASSUME NEW t, t.conv \in Conv, t.end \in {"send", "recv"},
           IF t.end = "send" THEN SendDone(t.conv) ELSE RecvDone(t.conv)
    PROVE  Faultless!Done(t)
BY DEF Faultless!Done, Channel, SendDone, RecvDone

(* Nobody has been started at first, and nothing is wrong.                 *)
LEMMA InitFaultless == Init => Faultless!Init
<1> SUFFICES ASSUME Init PROVE Faultless!Init
  OBVIOUS
<1>1. \A p \in Party : Stage(p) = "ready"
  BY DEF Init, Stage
<1>2. \A c \in Conv : Channel(c) = "open"
  BY DEF Init, Channel
<1>3. \E s \in [mode : {"run"}, buffered : {TRUE}] : "run" = s.mode /\ TRUE = s.buffered
  <2> DEFINE s == [mode |-> "run", buffered |-> TRUE]
  <2>1. s \in [mode : {"run"}, buffered : {TRUE}]
    OBVIOUS
  <2> QED BY <2>1
<1>4. awaited = 0
  BY DEF Init
<1> QED BY <1>1, <1>2, <1>3, <1>4, FaultlessNames DEF Faultless!Init

(***************************************************************************)
(* MonoPSI::online starts a participant that is ready, and awaits one that *)
(* has returned.                                                           *)
(***************************************************************************)
LEMMA CallerFaultless ==
    ASSUME TypeOK, ControlInv, CallerStep
    PROVE  Faultless!Next
<1> DEFINE stage == [q \in Party |-> Stage(q)]
           channel == [c \in Conv |-> Channel(c)]
<1>1. pc \in [Party -> {"init", "zeroSharing", "reconstruction", "done"}]
  BY DEF TypeOK
<1>2. channel' = channel
  BY DEF CallerStep, StartNext, AwaitNext, Channel
<1>3. CASE StartNext
  <2>1. PICK p \in Party : p = started
    BY <1>3, NextParty DEF StartNext, TypeOK
  <2>2. /\ pc[p] = "init" /\ pc' = [pc EXCEPT ![p] = "zeroSharing"] /\ awaited' = awaited
    BY <1>3, <2>1, NPartiesAssumption DEF StartNext, Party, ControlInv, CallerInv
  <2>3. stage[p] = "ready" /\ stage' = [stage EXCEPT ![p] = "zs"]
    BY <1>1, <2>2 DEF Stage
  <2> HIDE DEF stage, channel
  <2>4. Faultless!Start(p)
    BY <1>2, <2>2, <2>3 DEF Faultless!Start, Faultless!Alive, Faultless!run, stage, channel
  <2> QED BY <2>4, FaultlessNames DEF Faultless!Next, Faultless!Step
<1>4. CASE AwaitNext
  <2>1. /\ awaited \in Party /\ awaited < NParties /\ pc[awaited] = "done"
        /\ awaited' = awaited + 1
    BY <1>4, NextParty DEF AwaitNext, TypeOK
  <2>2. stage[awaited] = "returned" /\ stage' = stage
    BY <1>4, <2>1 DEF AwaitNext, Stage
  <2> HIDE DEF stage, channel
  <2>3. Faultless!AwaitNext
    BY <1>2, <2>1, <2>2
       DEF Faultless!AwaitNext, Faultless!Alive, Faultless!control, stage, channel
  <2> QED BY <2>3 DEF Faultless!Next, Faultless!Step
<1> QED BY <1>3, <1>4 DEF CallerStep

(* A coroutine goes on when all the tasks of its phase have returned.      *)
LEMMA PartyFaultless ==
    ASSUME TypeOK, NEW p \in Party, PartyStep(p)
    PROVE  Faultless!Next
<1> DEFINE stage == [q \in Party |-> Stage(q)]
           channel == [c \in Conv |-> Channel(c)]
<1>1. /\ pc \in [Party -> {"init", "zeroSharing", "reconstruction", "done"}]
      /\ DealerIdx \in Party
  BY DealerAssumption DEF TypeOK
<1>2. awaited' = awaited /\ channel' = channel
  BY DEF PartyStep, EndZeroSharing, EndOnline, Reconstruct, caller, Channel
<1>3. ASSUME NEW t \in Faultless!Task, Faultless!Owner(t) = p
      PROVE  /\ t.conv \in Conv /\ t.end \in {"send", "recv"}
             /\ p = IF t.end = "send" THEN t.conv.from ELSE t.conv.to
  BY <1>3, FaultlessNames DEF Faultless!Owner
<1>4. CASE EndZeroSharing(p)
  <2>1. stage[p] = "zs" /\ stage' = [stage EXCEPT ![p] = "rc"]
    BY <1>1, <1>4 DEF EndZeroSharing, Stage
  <2> HIDE DEF stage, channel
  <2>2. ASSUME NEW t \in Faultless!Awaited(p) PROVE Faultless!Done(t)
    <3>1. t \in Faultless!Task /\ Faultless!Owner(t) = p /\ t.conv.kind = "zs"
      BY <2>1 DEF Faultless!Awaited, stage
    <3>2. /\ t.conv = Zs(t.conv.from, t.conv.to) /\ t.conv \in Conv
          /\ t.conv.from \in Party /\ t.conv.to \in Party /\ t.conv.from # t.conv.to
      BY <1>3, <3>1, ConvKinds DEF Conv, RcConv
    <3>3. IF t.end = "send" THEN SendDone(t.conv) ELSE RecvDone(t.conv)
      BY <1>3, <1>4, <3>1, <3>2 DEF EndZeroSharing
    <3> QED BY <1>3, <3>1, <3>2, <3>3, ChannelDone
  <2>3. Faultless!GoOn(p)
    BY <1>2, <2>1, <2>2 DEF Faultless!GoOn, Faultless!AllReturned, Faultless!Alive,
                            Faultless!run, stage, channel
  <2> QED BY <2>3, FaultlessNames DEF Faultless!Next, Faultless!Step
<1>5. CASE EndOnline(p) \/ (p = DealerIdx /\ Reconstruct)
  <2>1. /\ pc[p] = "reconstruction" /\ pc' = [pc EXCEPT ![p] = "done"]
        /\ p # DealerIdx => SendDone(Rc(p))
        /\ p = DealerIdx => \A r \in Party \ {p} : RecvDone(Rc(r))
    BY <1>5 DEF EndOnline, Reconstruct
  <2>2. stage[p] = "rc" /\ stage' = [stage EXCEPT ![p] = "returned"]
    BY <1>1, <2>1 DEF Stage
  <2> HIDE DEF stage, channel
  <2>3. ASSUME NEW t \in Faultless!Awaited(p) PROVE Faultless!Done(t)
    <3>1. t \in Faultless!Task /\ Faultless!Owner(t) = p /\ t.conv.kind = "rc"
      BY <2>2, <2>3 DEF Faultless!Awaited, stage
    <3>2. /\ t.conv = Rc(t.conv.from) /\ t.conv \in Conv /\ t.conv.to = DealerIdx
          /\ t.conv.from \in Party /\ t.conv.from # DealerIdx
      BY <1>3, <3>1 DEF Conv, ZsConv, RcConv, Rc
    <3>3. IF t.end = "send" THEN SendDone(t.conv) ELSE RecvDone(t.conv)
      BY <1>3, <2>1, <3>1, <3>2
    <3> QED BY <1>3, <3>1, <3>2, <3>3, ChannelDone
  <2>4. Faultless!GoOn(p)
    BY <1>2, <2>2, <2>3 DEF Faultless!GoOn, Faultless!AllReturned, Faultless!Alive,
                            Faultless!run, stage, channel
  <2> QED BY <2>4, FaultlessNames DEF Faultless!Next, Faultless!Step
<1> QED BY <1>4, <1>5 DEF PartyStep

(* A payload passes when both ends of its conversation are there.          *)
LEMMA ConvFaultless ==
    ASSUME TypeOK, ControlInv, NEW c \in Conv, ConvStep(c)
    PROVE  [Faultless!Next]_(Faultless!vars)
<1> DEFINE stage == [q \in Party |-> Stage(q)]
           channel == [d \in Conv |-> Channel(d)]
<1>1. /\ opprf \in [Conv -> {"none", "prepared", "payload", "taken"}]
      /\ c.from \in Party /\ c.to \in Party
  BY ConvMembers DEF TypeOK
<1>2. awaited' = awaited /\ stage' = stage
  <2>1. awaited' = awaited /\ pc' = pc
    BY DEF ConvStep, Prepare, SendPayload, TakePayload, caller
  <2> QED BY <2>1 DEF Stage
<1>3. ASSUME opprf[c] # "none"
      PROVE  Faultless!Started(Faultless!Send(c)) /\ Faultless!Started(Faultless!Recv(c))
  <2>1. TaskStarted(c.from, c) /\ TaskStarted(c.to, c)
    BY <1>3 DEF ControlInv, BothEndsStarted
  <2>2. /\ stage[c.from] \in {"zs", "rc", "returned"} /\ stage[c.to] \in {"zs", "rc", "returned"}
        /\ c.kind # "zs" => /\ stage[c.from] \in {"rc", "returned"}
                            /\ stage[c.to] \in {"rc", "returned"}
    BY <1>1, <2>1 DEF Stage, TaskStarted
  <2> HIDE DEF stage
  <2> QED BY <2>2 DEF Faultless!Started, Faultless!Owner, Faultless!Send, Faultless!Recv, stage
<1>4. CASE Prepare(c)
  <2>1. channel' = channel
    BY <1>1, <1>4 DEF Prepare, Channel
  <2> HIDE DEF stage, channel
  <2> QED BY <1>2, <2>1 DEF Faultless!vars, Faultless!control, Faultless!run, stage, channel
<1>5. CASE SendPayload(c)
  <2>1. channel[c] = "open" /\ channel' = [channel EXCEPT ![c] = "payload"]
    BY <1>1, <1>5 DEF SendPayload, Channel
  <2>2. Faultless!Started(Faultless!Send(c)) /\ Faultless!Started(Faultless!Recv(c))
    BY <1>3, <1>5 DEF SendPayload
  <2> HIDE DEF stage, channel
  <2>3. Faultless!Active(Faultless!Send(c)) /\ Faultless!Active(Faultless!Recv(c))
    BY <2>1, <2>2 DEF Faultless!Active, Faultless!Done, Faultless!Send, Faultless!Recv, channel
  <2>4. Faultless!Exchange(c)
    BY <1>2, <2>1, <2>3 DEF Faultless!Exchange, Faultless!Alive, Faultless!run, stage, channel
  <2> QED BY <2>4, FaultlessNames DEF Faultless!Next, Faultless!Step, Faultless!Mishap
<1>6. CASE TakePayload(c)
  <2>1. channel[c] = "payload" /\ channel' = [channel EXCEPT ![c] = "taken"]
    BY <1>1, <1>6 DEF TakePayload, Channel
  <2>2. Faultless!Started(Faultless!Recv(c))
    BY <1>3, <1>6 DEF TakePayload
  <2> HIDE DEF stage, channel
  <2>3. Faultless!Active(Faultless!Recv(c))
    BY <2>1, <2>2 DEF Faultless!Active, Faultless!Done, Faultless!Recv, channel
  <2>4. Faultless!Take(c)
    BY <1>2, <2>1, <2>3 DEF Faultless!Take, Faultless!Alive, Faultless!run, stage, channel
  <2> QED BY <2>4, FaultlessNames DEF Faultless!Next, Faultless!Step, Faultless!Mishap
<1> QED BY <1>4, <1>5, <1>6 DEF ConvStep

(* Every step maps to a step of PsiFaults or a stutter.                    *)
LEMMA StepFaultless ==
    TypeOK /\ ControlInv /\ [Next]_vars => [Faultless!Next]_(Faultless!vars)
<1> SUFFICES ASSUME TypeOK, ControlInv, [Next]_vars PROVE [Faultless!Next]_(Faultless!vars)
  OBVIOUS
<1>1. CASE UNCHANGED vars
  BY <1>1 DEF vars, caller, Faultless!vars, Faultless!control, Faultless!run, Stage, Channel
<1> QED BY <1>1, CallerFaultless, PartyFaultless, ConvFaultless DEF Next, Terminated

(***************************************************************************)
(* Every behaviour of the one-phase protocol, and of MonoPSI::online that  *)
(* starts and awaits its participants, is one of PsiFaults without faults. *)
(***************************************************************************)
THEOREM ControlOfPsiFaults == Spec => ImplementsFaultless
BY InitFaultless, StepFaultless, ControlInvariant, PTL DEF Spec, ImplementsFaultless
=============================================================================
