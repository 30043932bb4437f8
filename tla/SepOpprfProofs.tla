--------------------------- MODULE SepOpprfProofs ---------------------------
(***************************************************************************)
(* Proofs about SepOpprf: whatever the size of the vectors, the sequence   *)
(* of calls and the mode, each end receives the messages it means to.      *)
(* With less than two chunks the corrections are complete, and a call      *)
(* decodes what was programmed exactly when it has a VOLE of its own.      *)
(***************************************************************************)
EXTENDS SepOpprf, SequenceTheorems, WellFoundedInduction, TLAPS

-----------------------------------------------------------------------------
(* Sequences and blocks.                                                   *)

(* A message put on a queue comes last.                                    *)
LEMMA Appended ==
    ASSUME NEW S, NEW q \in Seq(S), NEW m \in S
    PROVE  /\ Append(q, m) \in Seq(S) /\ Len(Append(q, m)) = Len(q) + 1
           /\ \A i \in 1 .. Len(q) : Append(q, m)[i] = q[i]
           /\ Append(q, m)[Len(q) + 1] = m
           /\ Append(q, m) # <<>>
OBVIOUS

(* A message taken off a queue was first; the others move up.              *)
LEMMA Taken ==
    ASSUME NEW S, NEW q \in Seq(S), q # <<>>
    PROVE  /\ Tail(q) \in Seq(S) /\ Len(Tail(q)) = Len(q) - 1
           /\ \A i \in 1 .. Len(q) - 1 : Tail(q)[i] = q[i + 1]
           /\ Len(q) >= 1 /\ q[1] \in S
OBVIOUS

(* A queue is empty when its length is 0.                                  *)
LEMMA EmptyQueue == ASSUME NEW S, NEW q \in Seq(S)
                    PROVE  (q = <<>>) <=> (Len(q) = 0)
OBVIOUS

(* Sums of values are values.                                              *)
LEMMA SumType ==
    /\ \A a, b \in Value : a (+) b \in Value
    /\ \A g \in Nat, i \in Nat : VoleA(g, i) \in Value /\ VoleC(g, i) \in Value
                                 /\ Encoded(g, i) \in Value
    /\ Junk \in Value
BY DEF Value, (+), VoleA, VoleC, Encoded, Junk

(* So are sums of seeds.                                                   *)
LEMMA SeedsType ==
    /\ {} \in Seeds /\ <<>> \in Seq(Value)
    /\ \A k \in Nat : {<<"ws", k>>} \in Seeds /\ {<<"wr", k>>} \in Seeds
    /\ \A a, b \in Seeds : a (+) b \in Seeds
BY DEF Seeds, (+)

(* Messages are put on a queue and taken off it.                           *)
LEMMA MessageType ==
    /\ \A m \in Message : m.seeds \in Seeds /\ m.blocks \in Seq(Value)
    /\ \A k \in Nat, seeds \in Seeds, blocks \in Seq(Value) :
          /\ Msg("hashingSeed", k, seeds, blocks) \in Message
          /\ Msg("mSeed", k, seeds, blocks) \in Message
          /\ Msg("Hws", k, seeds, blocks) \in Message
          /\ Msg("wr", k, seeds, blocks) \in Message
          /\ Msg("ws", k, seeds, blocks) \in Message
          /\ Msg("chunk", k, seeds, blocks) \in Message
          /\ Msg("mP", k, seeds, blocks) \in Message
    /\ \A q \in Seq(Message), m \in Message : Append(q, m) \in Seq(Message)
    /\ \A q \in Seq(Message) : q # <<>> => Tail(q) \in Seq(Message) /\ q[1] \in Message
<1>1. \A m \in Message : m.seeds \in Seeds /\ m.blocks \in Seq(Value)
  BY DEF Message
<1>2. ASSUME NEW kind \in {"hashingSeed", "mSeed", "Hws", "wr", "ws", "chunk", "mP"},
             NEW k \in Nat, NEW seeds \in Seeds, NEW blocks \in Seq(Value)
      PROVE  Msg(kind, k, seeds, blocks) \in Message
  BY DEF Message, Msg
<1>3. ASSUME NEW q \in Seq(Message), NEW m \in Message PROVE Append(q, m) \in Seq(Message)
  BY Appended
<1>4. ASSUME NEW q \in Seq(Message), q # <<>> PROVE Tail(q) \in Seq(Message) /\ q[1] \in Message
  BY <1>4, Taken
<1> QED BY <1>1, <1>2, <1>3, <1>4

(* Where the chunks of a vector start.                                     *)
LEMMA Starts ==
    ASSUME NEW pp \in Nat, NEW k \in Nat
    PROVE  /\ Start(pp, k) \in Nat /\ Start(pp, 0) = pp
           /\ Start(pp, k + 1) = Start(pp, k) + Chunk
           /\ Start(pp + Chunk, k) = Start(pp, k + 1)
           /\ k > 0 => Start(pp, k) >= pp + Chunk
<1>1. Chunk \in Nat \ {0}
  BY ChunkAssumption
<1>2. k * Chunk \in Nat /\ 0 * Chunk = 0 /\ (k + 1) * Chunk = k * Chunk + Chunk
  BY <1>1
<1>3. k > 0 => k * Chunk >= Chunk
  <2>1. CASE k > 0
    <3>1. k - 1 \in Nat /\ (k - 1) * Chunk \in Nat
      BY <1>1, <2>1
    <3>2. k * Chunk = (k - 1) * Chunk + Chunk
      BY <1>1, <3>1
    <3> QED BY <1>1, <3>1, <3>2
  <2> QED BY <2>1
<1> QED BY <1>1, <1>2, <1>3 DEF Start

-----------------------------------------------------------------------------
(* The shape of the state.                                                 *)

(* The calls of a plan and the sizes are what the cases say.               *)
LEMMA InitType == Init => TypeOK
<1> SUFFICES ASSUME Init PROVE TypeOK
  OBVIOUS
<1>1. /\ n \in Nat \ {0} /\ malicious \in BOOLEAN /\ buffered \in BOOLEAN
      /\ plan \in Seq(Call)
  BY CasesAssumption DEF Init
<1>2. ZeroBlock \in Value
  BY DEF ZeroBlock, Value
<1>3. /\ mB \in [Blocks -> Value] /\ p \in [Blocks -> Value]
  BY <1>2 DEF Init
<1>4. mW \in Seeds /\ w \in Seeds
  BY DEF Init, Seeds
<1>5. outcome \in [DOMAIN plan -> {"none", "refused", "right", "wrong"}]
  BY DEF Init
<1>6. toR \in Seq(Message) /\ toS \in Seq(Message)
  BY DEF Init
<1>7. at \in 0 .. n /\ ppAt \in 0 .. n
  BY <1>1 DEF Init
<1>9. moved \in BOOLEAN
  BY Zenon DEF Init
<1>8. /\ sAt = 1 /\ spc = "idle" /\ rAt = 1 /\ rpc = "idle"
      /\ vole = "none" /\ gen = 0 /\ mA = 0
  BY DEF Init
<1> QED BY <1>1, <1>3, <1>4, <1>5, <1>6, <1>7, <1>8, <1>9 DEF TypeOK

(* The sender's actions keep it.                                           *)
LEMMA SenderType == ASSUME TypeOK, SenderStep PROVE TypeOK'
<1> USE DEF TypeOK
<1> USE DEF SendToR, TakeS, given, receiver, loop
<1>1. CASE VoleCorrection
  <2>1. gen' \in Nat
    BY <1>1 DEF VoleCorrection
  <2>2. mB' \in [Blocks -> Value]
    BY <1>1, <2>1, SumType DEF VoleCorrection, Blocks
  <2> QED BY <1>1, <2>1, <2>2 DEF VoleCorrection, Blocks
<1>2. CASE EndOfflineSend
  BY <1>2 DEF EndOfflineSend, SenderReturns, Blocks
<1>3. CASE SendHashingSeed
  <2>1. toR' \in Seq(Message)
    <3>1. toR' = Append(toR, Msg("hashingSeed", sAt, {}, <<>>))
      BY <1>3 DEF SendHashingSeed
    <3>2. Msg("hashingSeed", sAt, {}, <<>>) \in Message
      BY SeedsType, MessageType
    <3>3. toR \in Seq(Message)
      OBVIOUS
    <3> QED BY <3>1, <3>2, <3>3, Appended
  <2> QED BY <1>3, <2>1 DEF SendHashingSeed, Blocks
<1>4. CASE RefuseSend
  BY <1>4 DEF RefuseSend, Blocks
<1>5. CASE RecvSeed
  <2>1. toS' \in Seq(Message)
    BY <1>5, SeedsType, MessageType DEF RecvSeed
  <2>2. toR' \in Seq(Message)
    <3>1. toR' = toR \/ toR' = Append(toR, Msg("Hws", sAt, {Ws}, <<>>))
      BY <1>5 DEF RecvSeed
    <3>2. {Ws} \in Seeds /\ <<>> \in Seq(Value)
      BY SeedsType DEF Ws
    <3>3. Msg("Hws", sAt, {Ws}, <<>>) \in Message
      BY <3>2, MessageType
    <3>4. toR \in Seq(Message)
      OBVIOUS
    <3>5. Append(toR, Msg("Hws", sAt, {Ws}, <<>>)) \in Seq(Message)
      <4> HIDE DEF TypeOK
      <4> QED BY <3>3, <3>4, Appended
    <3> QED BY <3>1, <3>4, <3>5, Zenon
  <2> QED BY <1>5, <2>1, <2>2 DEF RecvSeed, Blocks
<1>6. CASE RecvWr
  <2>1. toS' \in Seq(Message) /\ toS[1].seeds \in Seeds
    BY <1>6, SeedsType, MessageType DEF RecvWr
  <2>2. toR' \in Seq(Message)
    BY <1>6, SeedsType, MessageType DEF RecvWr, Ws
  <2>3. mW' \in Seeds
    BY <1>6, SeedsType, MessageType DEF RecvWr, Ws
  <2> QED BY <1>6, <2>1, <2>2, <2>3 DEF RecvWr, Blocks
<1>7. CASE RecvChunk
  <2>1. toS \in Seq(Message) /\ toS # <<>> /\ toS[1].blocks \in Seq(Value)
    BY <1>7, SeedsType, MessageType DEF RecvChunk
  <2>2. Expected \in Nat /\ ppAt + Expected \in 0 .. n
    BY <1>7, ChunkAssumption DEF RecvChunk, Expected, Lesser
  <2>3. \A i \in ppAt .. ppAt + Expected - 1 : toS[1].blocks[i - ppAt + 1] \in Value
    BY <1>7, <2>1, <2>2 DEF RecvChunk
  <2>4. mB' \in [Blocks -> Value]
    BY <1>7, <2>2, <2>3, SumType DEF RecvChunk, Blocks
  <2> QED BY <1>7, SeedsType, MessageType, <2>1, <2>2, <2>4 DEF RecvChunk, Blocks
<1>8. CASE SendP
  <2>1. OprfEval \in Seq(Value)
    BY SumType DEF OprfEval, Blocks
  <2> QED BY <1>8, <2>1, SeedsType, MessageType DEF SendP, Blocks
<1>9. CASE EndOnlineSend
  BY <1>9 DEF EndOnlineSend, SenderReturns, Blocks
<1> QED BY <1>1, <1>2, <1>3, <1>4, <1>5, <1>6, <1>7, <1>8, <1>9 DEF SenderStep

(* The receiver's actions keep it.                                         *)
LEMMA ReceiverType == ASSUME TypeOK, ReceiverStep PROVE TypeOK'
<1> USE DEF TypeOK
<1> USE DEF SendToS, TakeR, given, sender, loop
<1>1. CASE VoleRequest
  BY <1>1 DEF VoleRequest, Blocks
<1>2. CASE VoleTake
  BY <1>2 DEF VoleTake, ReceiverReturns, Blocks
<1>3. CASE RefuseReceive
  <2>1. toR' \in Seq(Message)
    BY <1>3, SeedsType, MessageType DEF RefuseReceive
  <2> QED BY <1>3, <2>1 DEF RefuseReceive, Blocks, ReceiverCalled
<1>4. CASE RecvHashingSeed
  <2>1. p' \in [Blocks -> Value]
    BY <1>4, SumType DEF RecvHashingSeed, Blocks
  <2>2. toR' \in Seq(Message)
    BY <1>4, MessageType DEF RecvHashingSeed
  <2>3. toS' \in Seq(Message)
    BY <1>4, SeedsType, MessageType DEF RecvHashingSeed
  <2>4. moved' \in BOOLEAN
    BY <1>4, Zenon DEF RecvHashingSeed
  <2>7. at' \in 0 .. n
    BY <1>4 DEF RecvHashingSeed
  <2>5. rpc' \in {"Hws", "chunks"}
    BY <1>4 DEF RecvHashingSeed
  <2>6. UNCHANGED <<given, sender, vole, rAt, mA, w, outcome>>
    BY <1>4 DEF RecvHashingSeed
  <2> QED BY <2>1, <2>2, <2>3, <2>4, <2>5, <2>6, <2>7 DEF Blocks
<1>5. CASE RecvCommitment
  <2>1. toR' \in Seq(Message) /\ w' \in Seeds
    BY <1>5, SeedsType, MessageType DEF RecvCommitment
  <2>2. toS' \in Seq(Message)
    BY <1>5, SeedsType, MessageType DEF RecvCommitment, Wr
  <2> QED BY <1>5, <2>1, <2>2 DEF RecvCommitment, Blocks
<1>6. CASE SendChunk
  <2>1. Sub \in Nat /\ at + Sub \in 0 .. n
    BY <1>6, ChunkAssumption DEF SendChunk, Sub, Lesser
  <2>2. p' \in [Blocks -> Value]
    BY <1>6, SumType DEF SendChunk, XorC, Xored, Blocks
  <2>3. \A k \in 1 .. Sub : SentFrom + k - 1 \in Blocks
    BY <1>6, <2>1 DEF SendChunk, SentFrom, Left, Blocks
  <2>4. PICK lost \in BOOLEAN :
          toS' = Append(toS, Msg("chunk", rAt, {}, [k \in 1 .. Sub |->
                      IF lost THEN Junk ELSE p'[SentFrom + k - 1]]))
    BY <1>6 DEF SendChunk
  <2>5. [k \in 1 .. Sub |-> IF lost THEN Junk ELSE p'[SentFrom + k - 1]] \in Seq(Value)
    BY <2>1, <2>2, <2>3, SumType
  <2>6. toS' \in Seq(Message)
    BY <2>4, <2>5, SeedsType, MessageType
  <2> QED BY <1>6, <2>1, <2>2, <2>6 DEF SendChunk, Blocks
<1>7. CASE EndChunks
  BY <1>7 DEF EndChunks, Blocks
<1>8. CASE RecvOpening
  <2>1. toR' \in Seq(Message) /\ toR[1].seeds \in Seeds
    BY <1>8, SeedsType, MessageType DEF RecvOpening
  <2>2. w' \in Seeds
    BY <1>8, SeedsType, MessageType DEF RecvOpening, Wr
  <2> QED BY <1>8, <2>1, <2>2 DEF RecvOpening, Blocks
<1>9. CASE RecvP
  <2>1. toR' \in Seq(Message)
    BY <1>9, SeedsType, MessageType DEF RecvP
  <2>2. outcome' \in [DOMAIN plan -> {"none", "refused", "right", "wrong"}]
    <3>1. PICK o \in {"right", "wrong"} : outcome' = [outcome EXCEPT ![rAt] = o]
      BY <1>9 DEF RecvP
    <3> QED BY <3>1
  <2>3. rpc' = "idle" /\ rAt' = rAt + 1
    BY <1>9 DEF RecvP, ReceiverReturns
  <2>4. UNCHANGED <<given, sender, vole, mA, loop, w, toS>>
    BY <1>9 DEF RecvP
  <2> QED BY <2>1, <2>2, <2>3, <2>4 DEF Blocks
<1> QED BY <1>1, <1>2, <1>3, <1>4, <1>5, <1>6, <1>7, <1>8, <1>9 DEF ReceiverStep

(* So do all steps.                                                        *)
LEMMA StepType == TypeOK /\ [Next]_vars => TypeOK'
<1> SUFFICES ASSUME TypeOK, [Next]_vars PROVE TypeOK'
  OBVIOUS
<1>1. CASE UNCHANGED vars
  BY <1>1 DEF TypeOK, vars, given, sender, receiver, loop, Blocks
<1>2. CASE Terminated
  BY <1>1, <1>2 DEF Terminated
<1> QED BY <1>1, <1>2, SenderType, ReceiverType DEF Next

-----------------------------------------------------------------------------
(* The queues.                                                             *)

(* What sending does to them.                                              *)
LEMMA Sent ==
    ASSUME TypeOK
    PROVE  /\ \A kind, seeds, blocks : SendToR(kind, seeds, blocks) =>
                 /\ Len(toR') = Len(toR) + 1
                 /\ \A i \in 1 .. Len(toR) : toR'[i] = toR[i]
                 /\ toR'[Len(toR) + 1] = Msg(kind, sAt, seeds, blocks)
           /\ \A kind, seeds, blocks : SendToS(kind, seeds, blocks) =>
                 /\ Len(toS') = Len(toS) + 1
                 /\ \A i \in 1 .. Len(toS) : toS'[i] = toS[i]
                 /\ toS'[Len(toS) + 1] = Msg(kind, rAt, seeds, blocks)
<1>1. ASSUME NEW q \in Seq(Message), NEW m
      PROVE  /\ Len(Append(q, m)) = Len(q) + 1
             /\ \A i \in 1 .. Len(q) : Append(q, m)[i] = q[i]
             /\ Append(q, m)[Len(q) + 1] = m
  <2>1. q \in Seq(Message \cup {m}) /\ m \in Message \cup {m}
    OBVIOUS
  <2> QED BY <2>1, Appended
<1>2. toR \in Seq(Message) /\ toS \in Seq(Message)
  BY DEF TypeOK
<1>3. ASSUME NEW kind, NEW seeds, NEW blocks, SendToR(kind, seeds, blocks)
      PROVE  /\ Len(toR') = Len(toR) + 1
             /\ \A i \in 1 .. Len(toR) : toR'[i] = toR[i]
             /\ toR'[Len(toR) + 1] = Msg(kind, sAt, seeds, blocks)
  <2>1. toR' = Append(toR, Msg(kind, sAt, seeds, blocks))
    BY <1>3 DEF SendToR
  <2> QED BY <1>1, <1>2, <2>1
<1>4. ASSUME NEW kind, NEW seeds, NEW blocks, SendToS(kind, seeds, blocks)
      PROVE  /\ Len(toS') = Len(toS) + 1
             /\ \A i \in 1 .. Len(toS) : toS'[i] = toS[i]
             /\ toS'[Len(toS) + 1] = Msg(kind, rAt, seeds, blocks)
  <2>1. toS' = Append(toS, Msg(kind, rAt, seeds, blocks))
    BY <1>4 DEF SendToS
  <2> QED BY <1>1, <1>2, <2>1
<1> QED BY <1>3, <1>4

(* What receiving does to them.                                            *)
LEMMA Received ==
    ASSUME TypeOK
    PROVE  /\ TakeR => /\ Len(toR) >= 1 /\ Len(toR') = Len(toR) - 1
                       /\ \A i \in 1 .. Len(toR) - 1 : toR'[i] = toR[i + 1]
           /\ TakeS => /\ Len(toS) >= 1 /\ Len(toS') = Len(toS) - 1
                       /\ \A i \in 1 .. Len(toS) - 1 : toS'[i] = toS[i + 1]
BY Taken DEF TypeOK, TakeR, TakeS

(* Lengths and whether they are empty.                                     *)
LEMMA Lengths ==
    ASSUME NEW q \in Seq(Message)
    PROVE  /\ Len(q) \in Nat /\ DOMAIN q = 1 .. Len(q)
           /\ q = <<>> <=> Len(q) = 0
OBVIOUS

-----------------------------------------------------------------------------
(* Where the ends are.                                                     *)

(* The key that is opened is the one that was committed to.                *)
LEMMA OpeningHolds ==
    ASSUME TypeOK, SyncInv, SeedsInv, RecvOpening
    PROVE  rpc' = "mP"
<1>1. rpc = "ws" /\ toR # <<>> /\ malicious
  BY DEF RecvOpening, TakeR, SyncInv, ChunksInv
<1>2. Is(toR[1], "ws", rAt) /\ 1 \in DOMAIN toR
  BY <1>1, Lengths DEF TypeOK, SyncInv, ChunksInv, Openings
<1>3. toR[1].seeds = {<<"ws", rAt>>} /\ w = {<<"ws", rAt>>}
  BY <1>1, <1>2 DEF SeedsInv, Is
<1> QED BY <1>3 DEF RecvOpening

(* Nothing is known of the objects before the first call.                  *)
LEMMA InitCalls == Init => CallsInv
BY DEF Init, CallsInv

(* The calls and the objects go together after every step.                 *)
LEMMA SenderCalls == ASSUME TypeOK, CallsInv, SyncInv, SenderStep PROVE CallsInv'
<1> USE DEF CallsInv, Online, Offline, given, receiver
<1>0. /\ sAt \in Nat \ {0} /\ gen \in Nat
      /\ vole = "request" => rpc = "vole"
      /\ rpc = "vole" => vole # "none"
  BY DEF TypeOK, SyncInv, IdleInv, VoleInv, ThrewInv, HwsInv, ChunksInv
<1>1. CASE VoleCorrection
  BY <1>0, <1>1 DEF VoleCorrection, SenderCalled
<1>2. CASE EndOfflineSend
  BY <1>0, <1>2 DEF EndOfflineSend, SenderReturns
<1>3. CASE SendHashingSeed
  BY <1>0, <1>3 DEF SendHashingSeed, SenderCalled
<1>4. CASE RefuseSend
  BY <1>0, <1>4 DEF RefuseSend
<1>5. CASE RecvSeed
  BY <1>0, <1>5 DEF RecvSeed
<1>6. CASE RecvWr
  BY <1>0, <1>6 DEF RecvWr
<1>7. CASE RecvChunk
  BY <1>0, <1>7 DEF RecvChunk
<1>8. CASE SendP
  BY <1>0, <1>8 DEF SendP
<1>9. CASE EndOnlineSend
  BY <1>0, <1>9 DEF EndOnlineSend, SenderReturns
<1> QED BY <1>1, <1>2, <1>3, <1>4, <1>5, <1>6, <1>7, <1>8, <1>9 DEF SenderStep

(* The same of what the receiver does.                                     *)
LEMMA ReceiverCalls ==
    ASSUME TypeOK, CallsInv, SyncInv, SeedsInv, ReceiverStep
    PROVE  CallsInv'
<1> USE DEF CallsInv, Online, Offline, given, sender
<1>0. /\ rAt \in Nat \ {0} /\ gen \in Nat /\ mA \in Nat
      /\ vole = "correction" => gen # 0 /\ rpc = "vole"
      /\ rpc = "idle" => vole = "none"
  BY DEF TypeOK, SyncInv, IdleInv, VoleInv, ThrewInv, HwsInv, ChunksInv
<1>1. CASE VoleRequest
  BY <1>0, <1>1 DEF VoleRequest, ReceiverCalled
<1>2. CASE VoleTake
  BY <1>0, <1>2 DEF VoleTake, ReceiverReturns
<1>3. CASE RefuseReceive
  BY <1>0, <1>3 DEF RefuseReceive, ReceiverCalled
<1>4. CASE RecvHashingSeed
  BY <1>0, <1>4 DEF RecvHashingSeed, ReceiverCalled
<1>5. CASE RecvCommitment
  BY <1>0, <1>5 DEF RecvCommitment
<1>6. CASE SendChunk
  BY <1>0, <1>6 DEF SendChunk
<1>7. CASE EndChunks
  BY <1>0, <1>7 DEF EndChunks
<1>8. CASE RecvOpening
  BY <1>0, <1>8, OpeningHolds DEF RecvOpening
<1>9. CASE RecvP
  BY <1>0, <1>9 DEF RecvP, ReceiverReturns
<1> QED BY <1>1, <1>2, <1>3, <1>4, <1>5, <1>6, <1>7, <1>8, <1>9 DEF ReceiverStep

-----------------------------------------------------------------------------
(* What is between the ends.                                               *)

(* Nothing, at first.                                                      *)
LEMMA InitSync == Init => SyncInv
BY DEF Init, SyncInv, IdleInv, VoleInv, ThrewInv, HwsInv, ChunksInv

(* The sender's steps, by where the receiver is.                           *)
LEMMA SenderIdle ==
    ASSUME TypeOK, TypeOK', CallsInv, SyncInv, SenderStep
    PROVE  IdleInv' /\ VoleInv' /\ ThrewInv'
<1> USE DEF CallsInv, Online, Offline, given, receiver, IdleInv, VoleInv, ThrewInv, Behind,
            Silent, Is
<1>0. /\ sAt \in Nat \ {0} /\ rAt \in Nat \ {0}
      /\ vole # "none" => rpc = "vole"
      /\ Len(toR) \in Nat /\ Len(toR') \in Nat
      /\ (toR = <<>> <=> Len(toR) = 0) /\ (toR' = <<>> <=> Len(toR') = 0)
  BY Lengths DEF TypeOK, SyncInv, HwsInv, ChunksInv
<1>00. IdleInv /\ VoleInv /\ ThrewInv
  BY DEF SyncInv
<1>1. CASE VoleCorrection
  BY <1>0, <1>00, <1>1 DEF VoleCorrection, SenderCalled, TypeOK
<1>2. CASE EndOfflineSend
  BY <1>0, <1>00, <1>2 DEF EndOfflineSend, SenderReturns, TypeOK
<1>3. CASE SendHashingSeed
  <2>1. Len(toR') = Len(toR) + 1 /\ toR'[Len(toR) + 1] = Msg("hashingSeed", sAt, {}, <<>>)
    BY <1>3, Sent DEF SendHashingSeed
  <2> QED BY <1>0, <1>00, <1>3, <2>1 DEF SendHashingSeed, SenderCalled, Msg
<1>4. CASE RefuseSend
  BY <1>0, <1>00, <1>4 DEF RefuseSend
<1>5. CASE RecvSeed
  BY <1>0, <1>00, <1>5 DEF RecvSeed, TakeS
<1>6. CASE RecvWr
  BY <1>0, <1>00, <1>6 DEF RecvWr, TakeS
<1>7. CASE RecvChunk
  BY <1>0, <1>00, <1>7 DEF RecvChunk, TakeS
<1>8. CASE SendP
  BY <1>0, <1>00, <1>8 DEF SendP
<1>9. CASE EndOnlineSend
  BY <1>0, <1>00, <1>9 DEF EndOnlineSend, SenderReturns
<1> QED BY <1>1, <1>2, <1>3, <1>4, <1>5, <1>6, <1>7, <1>8, <1>9 DEF SenderStep

(* The sender, when the receiver waits for the commitment.                 *)
LEMMA SenderHws ==
    ASSUME TypeOK, TypeOK', CallsInv, SyncInv, SenderStep
    PROVE  HwsInv'
<1> USE DEF CallsInv, given, receiver, loop, HwsInv, Is
<1>0. /\ Len(toR) \in Nat /\ Len(toR') \in Nat /\ Len(toS) \in Nat /\ Len(toS') \in Nat
      /\ (toR = <<>> <=> Len(toR) = 0) /\ (toR' = <<>> <=> Len(toR') = 0)
      /\ (toS = <<>> <=> Len(toS) = 0) /\ (toS' = <<>> <=> Len(toS') = 0)
  BY Lengths DEF TypeOK
<1>00. HwsInv
  BY DEF SyncInv
<1>1. CASE VoleCorrection
  BY <1>0, <1>00, <1>1 DEF VoleCorrection
<1>2. CASE EndOfflineSend
  BY <1>0, <1>00, <1>2 DEF EndOfflineSend
<1>3. CASE SendHashingSeed
  BY <1>0, <1>00, <1>3 DEF SendHashingSeed, SenderCalled
<1>4. CASE RefuseSend
  BY <1>0, <1>00, <1>4 DEF RefuseSend
<1>5. CASE RecvSeed
  <2>1. TakeS => Len(toS') = Len(toS) - 1
    BY Received
  <2>2. malicious => Len(toR') = Len(toR) + 1 /\ toR'[Len(toR) + 1] = Msg("Hws", sAt, {Ws}, <<>>)
    BY <1>5, Sent DEF RecvSeed
  <2>3. rpc = "Hws" => malicious /\ Len(toR) = 0 /\ spc = "mSeed" /\ Len(toS) = 1
    BY <1>0, <1>00, <1>5 DEF RecvSeed
  <2>4. rpc = "Hws" => Len(toR') = 1 /\ Is(toR'[1], "Hws", sAt)
    BY <2>2, <2>3 DEF Msg
  <2>5. CASE rpc = "Hws"
    <3>1. UNCHANGED <<rpc, rAt, sAt, vole, at, malicious>> /\ ppAt' = 0 /\ spc' = "wr"
      BY <1>5, <2>3, <2>5 DEF RecvSeed
    <3>2. malicious /\ vole = "none" /\ sAt = rAt /\ at = 0
      BY <1>00, <2>5
    <3>3. Len(toS') = Len(toS) - 1 /\ Len(toS) = 1
      BY <1>5, <2>1, <2>3, <2>5 DEF RecvSeed
    <3>4. toS' = <<>>
      BY <1>0, <3>3
    <3> QED BY <2>4, <2>5, <3>1, <3>2, <3>4
  <2>6. CASE rpc # "Hws"
    BY <1>5, <2>6 DEF RecvSeed
  <2> QED BY <2>5, <2>6
<1>6. CASE RecvWr
  BY <1>0, <1>00, <1>6 DEF RecvWr, TakeS
<1>7. CASE RecvChunk
  BY <1>0, <1>00, <1>7 DEF RecvChunk
<1>8. CASE SendP
  BY <1>0, <1>00, <1>8 DEF SendP
<1>9. CASE EndOnlineSend
  BY <1>0, <1>00, <1>9 DEF EndOnlineSend, SenderReturns
<1> QED BY <1>1, <1>2, <1>3, <1>4, <1>5, <1>6, <1>7, <1>8, <1>9 DEF SenderStep

(* The chunks move up when the message before them is taken.               *)
LEMMA FirstTaken ==
    ASSUME TypeOK, TakeS, ChunksFrom(0, 1), UNCHANGED <<n, at, rAt>>
    PROVE  ChunksFrom(0, 0)'
<1>1. /\ Len(toS) \in Nat /\ Len(toS) >= 1 /\ Len(toS') = Len(toS) - 1
      /\ \A i \in 1 .. Len(toS) - 1 : toS'[i] = toS[i + 1]
  BY Lengths, Received DEF TypeOK
<1>2. at' = Lesser(n', Start(0, Len(toS') - 0))
  BY <1>1 DEF ChunksFrom
<1>3. ASSUME NEW i \in 1 .. Len(toS')
      PROVE  /\ Is(toS'[i], "chunk", rAt')
             /\ Start(0, i - 0 - 1) < n'
             /\ Len(toS'[i].blocks) = Lesser(n' - Start(0, i - 0 - 1), Chunk)
  <2>1. i + 1 \in 2 .. Len(toS) /\ toS'[i] = toS[i + 1] /\ (i + 1) - 1 - 1 = i - 0 - 1
    BY <1>1
  <2>2. /\ Is(toS[i + 1], "chunk", rAt)
        /\ Start(0, (i + 1) - 1 - 1) < n
        /\ Len(toS[i + 1].blocks) = Lesser(n - Start(0, (i + 1) - 1 - 1), Chunk)
    BY <2>1 DEF ChunksFrom
  <2> QED BY <2>1, <2>2
<1> QED BY <1>1, <1>2, <1>3 DEF ChunksFrom, Lesser, Start, Is

(* The first chunk is the one the sender expects; the next one is next.    *)
LEMMA ChunkTaken ==
    ASSUME TypeOK, RecvChunk, ChunksFrom(ppAt, 0)
    PROVE  ChunksFrom(ppAt, 0)'
<1>1. /\ Len(toS) \in Nat /\ Len(toS) >= 1 /\ Len(toS') = Len(toS) - 1
      /\ \A i \in 1 .. Len(toS) - 1 : toS'[i] = toS[i + 1]
  BY Lengths, Received DEF TypeOK, RecvChunk
<1>2. /\ n \in Nat /\ ppAt \in Nat /\ ppAt < n /\ Chunk \in Nat \ {0}
      /\ ppAt' = ppAt + Lesser(n - ppAt, Chunk)
  BY ChunkAssumption DEF TypeOK, RecvChunk, Expected
<1>3. UNCHANGED <<n, at, rAt>>
  BY DEF RecvChunk, given, receiver, loop
<1>6. SUFFICES /\ Len(toS') >= 0
               /\ at' = Lesser(n', Start(ppAt', Len(toS') - 0))
               /\ \A i \in 1 .. Len(toS') :
                     /\ Is(toS'[i], "chunk", rAt')
                     /\ Start(ppAt', i - 0 - 1) < n'
                     /\ Len(toS'[i].blocks) = Lesser(n' - Start(ppAt', i - 0 - 1), Chunk)
  BY DEF ChunksFrom, Lesser, Start, Is
<1>4. CASE n - ppAt > Chunk
  <2>1. ppAt' = ppAt + Chunk
    BY <1>2, <1>4 DEF Lesser
  <2>2. ASSUME NEW k \in Nat PROVE Start(ppAt', k) = Start(ppAt, k + 1)
    BY <1>2, <2>1 DEF Start
  <2>3. at' = Lesser(n', Start(ppAt', Len(toS') - 0))
    BY <1>1, <1>3, <2>2 DEF ChunksFrom
  <2>4. ASSUME NEW i \in 1 .. Len(toS')
        PROVE  /\ Is(toS'[i], "chunk", rAt')
               /\ Start(ppAt', i - 0 - 1) < n'
               /\ Len(toS'[i].blocks) = Lesser(n' - Start(ppAt', i - 0 - 1), Chunk)
    <3>1. /\ i + 1 \in 1 .. Len(toS) /\ toS'[i] = toS[i + 1]
          /\ (i + 1) - 0 - 1 = (i - 0 - 1) + 1 /\ i - 0 - 1 \in Nat
      BY <1>1
    <3>2. /\ Is(toS[i + 1], "chunk", rAt)
          /\ Start(ppAt, (i + 1) - 0 - 1) < n
          /\ Len(toS[i + 1].blocks) = Lesser(n - Start(ppAt, (i + 1) - 0 - 1), Chunk)
      BY <3>1 DEF ChunksFrom
    <3> QED BY <1>3, <2>2, <3>1, <3>2
  <2> QED BY <1>1, <2>3, <2>4
<1>5. CASE n - ppAt <= Chunk
  <2>1. ppAt' = n
    BY <1>2, <1>5 DEF Lesser
  <2>2. Len(toS) = 1
    <3>1. SUFFICES ASSUME Len(toS) >= 2 PROVE FALSE
      BY <1>1
    <3>2. Start(ppAt, 2 - 0 - 1) < n
      BY <1>1, <3>1 DEF ChunksFrom
    <3>3. Start(ppAt, 1) = ppAt + Chunk
      BY <1>2, Starts
    <3> QED BY <1>2, <1>5, <3>2, <3>3
  <2>3. at = n
    <3>1. at = Lesser(n, Start(ppAt, 1)) /\ Start(ppAt, 1) = ppAt + Chunk
      BY <1>2, <2>2, Starts DEF ChunksFrom
    <3> QED BY <1>2, <1>5, <3>1 DEF Lesser
  <2>4. Len(toS') = 0 /\ Start(ppAt', 0) = n'
    BY <1>1, <1>2, <1>3, <2>1, <2>2, Starts
  <2> QED BY <1>2, <1>3, <2>3, <2>4 DEF Lesser
<1> QED BY <1>2, <1>4, <1>5

(* The sender, when the receiver is sending chunks or waits for what is    *)
(* sent after them.                                                        *)
LEMMA SenderChunks ==
    ASSUME TypeOK, TypeOK', CallsInv, SyncInv, SenderStep
    PROVE  ChunksInv'
<1> SUFFICES ASSUME rpc \in {"chunks", "ws", "mP"} PROVE ChunksInv'
  BY DEF SenderStep, VoleCorrection, EndOfflineSend, SendHashingSeed, RefuseSend, RecvSeed, RecvWr,
         RecvChunk, SendP, EndOnlineSend, receiver, ChunksInv
<1> USE DEF CallsInv, given, receiver, loop, Is
<1>0. /\ Len(toR) \in Nat /\ Len(toR') \in Nat /\ Len(toS) \in Nat /\ Len(toS') \in Nat
      /\ (toR = <<>> <=> Len(toR) = 0) /\ (toR' = <<>> <=> Len(toR') = 0)
      /\ (toS = <<>> <=> Len(toS) = 0) /\ (toS' = <<>> <=> Len(toS') = 0)
      /\ sAt \in Nat /\ rAt \in Nat /\ n \in Nat \ {0} /\ at \in 0 .. n /\ ppAt \in 0 .. n
  BY Lengths DEF TypeOK
<1>00. /\ vole = "none" /\ (rpc = "ws" => malicious) /\ (rpc # "chunks" => at = n)
       /\ Early \/ Amid \/ Late
       /\ Openings = 1 /\ toR # <<>> => Is(toR[1], "ws", rAt)
       /\ mA = gen /\ gen # 0
       /\ Openings \in {0, 1}
  BY DEF SyncInv, ChunksInv, Openings
<1> SUFFICES ASSUME rpc' = rpc, rAt' = rAt, malicious' = malicious
             PROVE  /\ vole' = "none" /\ at' = at /\ n' = n
                    /\ Early' \/ Amid' \/ Late'
                    /\ Openings = 1 /\ toR' # <<>> => Is(toR'[1], "ws", rAt)
  BY <1>00 DEF ChunksInv, Openings, SenderStep, VoleCorrection, EndOfflineSend, SendHashingSeed,
               RefuseSend, RecvSeed, RecvWr,
         RecvChunk, SendP, EndOnlineSend
<1>1. CASE VoleCorrection
  BY <1>00, <1>1 DEF VoleCorrection
<1>2. CASE EndOfflineSend
  BY <1>00, <1>2 DEF EndOfflineSend, Early, Amid, Late
<1>3. CASE SendHashingSeed
  <2>1. /\ Len(toR') = Len(toR) + 1 /\ toR'[Len(toR) + 1] = Msg("hashingSeed", sAt, {}, <<>>)
        /\ \A i \in 1 .. Len(toR) : toR'[i] = toR[i]
    BY <1>3, Sent DEF SendHashingSeed
  <2>2. Late /\ spc = "idle"
    BY <1>00, <1>3 DEF SendHashingSeed, SenderCalled, Early, Amid
  <2> QED BY <1>0, <1>00, <1>3, <2>1, <2>2 DEF SendHashingSeed, Msg, Late, Openings
<1>4. CASE RefuseSend
  BY <1>00, <1>4 DEF RefuseSend
<1>5. CASE RecvSeed
  <2>1. Early /\ ~ malicious
    BY <1>00, <1>5 DEF RecvSeed, TakeS, Early, Amid, Late
  <2>2. ChunksFrom(0, 0)'
    BY <1>5, <2>1, FirstTaken DEF RecvSeed, Early
  <2>3. Amid'
    BY <1>0, <1>5, <2>1, <2>2 DEF RecvSeed, Early, Amid, Openings, ChunksFrom
  <2> QED BY <1>00, <1>5, <2>1, <2>3 DEF RecvSeed, Openings
<1>6. CASE RecvWr
  <2>1. Early /\ malicious /\ rpc # "mP"
    BY <1>00, <1>6 DEF RecvWr, Early, Amid, Late
  <2>2. ppAt' = ppAt
    BY <1>6 DEF RecvWr
  <2>3. ChunksFrom(0, 0)'
    BY <1>6, <2>1, FirstTaken DEF RecvWr, Early
  <2>4. Len(toR') = Len(toR) + 1 /\ toR'[Len(toR) + 1] = Msg("ws", sAt, {Ws}, <<>>)
    BY <1>6, Sent DEF RecvWr
  <2> QED BY <1>0, <1>00, <1>6, <2>1, <2>3, <2>4 DEF RecvWr, Early, Amid, Openings, ChunksFrom, Msg
<1>7. CASE RecvChunk
  <2>1. Amid
    BY <1>00, <1>7 DEF RecvChunk, Early, Late
  <2>2. ChunksFrom(ppAt, 0)'
    BY <1>7, <2>1, ChunkTaken DEF Amid
  <2> QED BY <1>0, <1>00, <1>7, <2>1, <2>2 DEF RecvChunk, Amid, Openings
<1>8. CASE SendP
  <2>1. Amid /\ ppAt = n
    BY <1>0, <1>00, <1>8 DEF SendP, Early, Late
  <2>2. toS = <<>> /\ at = n
    <3>1. ChunksFrom(n, 0)
      BY <2>1 DEF Amid
    <3>2. Start(n, 0) = n
      BY <1>0, Starts
    <3>3. Len(toS) >= 1 => Start(n, 0) < n
      BY <1>0, <3>1 DEF ChunksFrom
    <3>4. Len(toS) = 0
      BY <1>0, <3>2, <3>3
    <3>5. at = Lesser(n, Start(n, 0))
      BY <3>1, <3>4 DEF ChunksFrom
    <3> QED BY <1>0, <3>2, <3>4, <3>5 DEF Lesser
  <2>3. /\ Len(toR') = Len(toR) + 1 /\ toR'[Len(toR) + 1] = Msg("mP", sAt, mW, OprfEval)
        /\ \A i \in 1 .. Len(toR) : toR'[i] = toR[i]
    BY <1>8, Sent DEF SendP
  <2> QED BY <1>0, <1>00, <1>8, <2>1, <2>2, <2>3 DEF SendP, Amid, Late, Openings, Msg
<1>9. CASE EndOnlineSend
  BY <1>0, <1>00, <1>9 DEF EndOnlineSend, SenderReturns, Early, Amid, Late, Openings
<1> QED BY <1>1, <1>2, <1>3, <1>4, <1>5, <1>6, <1>7, <1>8, <1>9 DEF SenderStep

(* A chunk that is sent is the next one of those under way.                *)
LEMMA ChunkSent ==
    ASSUME TypeOK, SendChunk, NEW pp \in 0 .. n, NEW h \in {0, 1}, ChunksFrom(pp, h)
    PROVE  ChunksFrom(pp, h)'
<1>0. /\ n \in Nat /\ at \in 0 .. n /\ at < n /\ Chunk \in Nat \ {0} /\ Len(toS) \in Nat
      /\ pp \in Nat /\ UNCHANGED <<n, rAt>> /\ at' = at + Sub
  BY Lengths, ChunkAssumption DEF TypeOK, SendChunk, given
<1>1. PICK blocks : SendToS("chunk", {}, [k \in 1 .. Sub |-> blocks[k]])
  <2>1. PICK lost \in {moved, FALSE} :
          SendToS("chunk", {}, [k \in 1 .. Sub |-> IF lost THEN Junk ELSE p'[SentFrom + k - 1]])
    BY DEF SendChunk
  <2> DEFINE b == [k \in 1 .. Sub |-> IF lost THEN Junk ELSE p'[SentFrom + k - 1]]
  <2>2. [k \in 1 .. Sub |-> b[k]] = b
    OBVIOUS
  <2>3. SendToS("chunk", {}, b)
    BY <2>1
  <2> HIDE DEF b
  <2> QED BY <2>2, <2>3
<1>2. /\ Len(toS') = Len(toS) + 1
      /\ \A i \in 1 .. Len(toS) : toS'[i] = toS[i]
      /\ toS'[Len(toS) + 1] = Msg("chunk", rAt, {}, [k \in 1 .. Sub |-> blocks[k]])
  BY <1>1, Sent
<1>3. PICK m \in Nat : m = Len(toS) - h
  <2>1. h \in Nat /\ Len(toS) >= h
    BY DEF ChunksFrom
  <2>2. Len(toS) - h \in Nat
    BY <1>0, <2>1
  <2> QED BY <2>2
<1>4. at = Start(pp, m) /\ Start(pp, m) \in Nat /\ Start(pp, m + 1) = at + Chunk
  BY <1>0, <1>3, Starts DEF ChunksFrom, Lesser
<1>5. Sub = Lesser(n - at, Chunk) /\ Sub \in Nat
  BY <1>0 DEF Sub, Lesser
<1>6. at' = Lesser(n, Start(pp, m + 1))
  BY <1>0, <1>4, <1>5 DEF Lesser
<1>7. Len([k \in 1 .. Sub |-> blocks[k]]) = Sub
  BY <1>5
<1>8. ASSUME NEW i \in h + 1 .. Len(toS')
      PROVE  /\ Is(toS'[i], "chunk", rAt)
             /\ Start(pp, i - h - 1) < n
             /\ Len(toS'[i].blocks) = Lesser(n - Start(pp, i - h - 1), Chunk)
  <2>1. CASE i \in h + 1 .. Len(toS)
    <3>1. i \in 1 .. Len(toS) /\ toS'[i] = toS[i]
      BY <1>0, <1>2, <2>1
    <3>2. /\ Is(toS[i], "chunk", rAt)
          /\ Start(pp, i - h - 1) < n
          /\ Len(toS[i].blocks) = Lesser(n - Start(pp, i - h - 1), Chunk)
      BY <2>1 DEF ChunksFrom
    <3> QED BY <3>1, <3>2
  <2>2. CASE i = Len(toS) + 1
    <3>1. i - h - 1 = m
      BY <1>0, <1>3, <2>2
    <3>2. toS'[i].kind = "chunk" /\ toS'[i].call = rAt /\ Len(toS'[i].blocks) = Sub
      <4>1. toS'[i] = Msg("chunk", rAt, {}, [k \in 1 .. Sub |-> blocks[k]])
        BY <1>2, <2>2
      <4>2. /\ toS'[i].kind = "chunk" /\ toS'[i].call = rAt
            /\ toS'[i].blocks = [k \in 1 .. Sub |-> blocks[k]]
        BY <4>1 DEF Msg
      <4> QED BY <1>7, <4>2
    <3> QED BY <1>0, <1>4, <1>5, <3>1, <3>2 DEF Is
  <2> QED BY <1>0, <1>2, <2>1, <2>2
<1>9. Len(toS') >= h /\ Len(toS') - h = m + 1
  BY <1>0, <1>2, <1>3
<1>10. SUFFICES /\ Len(toS') >= h
                /\ at' = Lesser(n', Start(pp, Len(toS') - h))
                /\ \A i \in h + 1 .. Len(toS') :
                      /\ Is(toS'[i], "chunk", rAt')
                      /\ Start(pp, i - h - 1) < n'
                      /\ Len(toS'[i].blocks) = Lesser(n' - Start(pp, i - h - 1), Chunk)
  BY DEF ChunksFrom, Lesser, Start, Is
<1> QED BY <1>0, <1>6, <1>8, <1>9

(* The receiver's steps, by what they lead to.                             *)
LEMMA ReceiverIdle ==
    ASSUME TypeOK, TypeOK', CallsInv, SyncInv, SeedsInv, ReceiverStep
    PROVE  IdleInv' /\ VoleInv' /\ ThrewInv' /\ HwsInv'
<1> USE DEF CallsInv, Online, Offline, given, sender, loop, Behind, Silent, Is
<1>0. /\ sAt \in Nat \ {0} /\ rAt \in Nat \ {0} /\ Openings \in {0, 1}
      /\ Len(toR) \in Nat /\ Len(toR') \in Nat /\ Len(toS) \in Nat /\ Len(toS') \in Nat
      /\ (toR = <<>> <=> Len(toR) = 0) /\ (toR' = <<>> <=> Len(toR') = 0)
      /\ (toS = <<>> <=> Len(toS) = 0) /\ (toS' = <<>> <=> Len(toS') = 0)
  BY Lengths DEF TypeOK, Openings
<1>00. IdleInv /\ VoleInv /\ ThrewInv /\ HwsInv /\ ChunksInv
  BY DEF SyncInv
<1>1. CASE VoleRequest
  BY <1>0, <1>00, <1>1 DEF VoleRequest, ReceiverCalled, IdleInv, VoleInv, ThrewInv, HwsInv
<1>2. CASE VoleTake
  BY <1>0, <1>00, <1>2 DEF VoleTake, ReceiverReturns, IdleInv, VoleInv, ThrewInv, HwsInv
<1>3. CASE RefuseReceive
  <2>1. Len(toR') = Len(toR) - 1
    BY <1>3, Received DEF RefuseReceive
  <2> QED BY <1>0, <1>00, <1>3, <2>1 DEF RefuseReceive, ReceiverCalled, TakeR, IdleInv, VoleInv,
                                         ThrewInv, HwsInv
<1>4. CASE RecvHashingSeed
  <2>1. Len(toR') = Len(toR) - 1
    BY <1>4, Received DEF RecvHashingSeed
  <2>2. Len(toS') = Len(toS) + 1 /\ toS'[Len(toS) + 1] = Msg("mSeed", rAt, {}, <<>>)
    BY <1>4, Sent DEF RecvHashingSeed
  <2>3. sAt = rAt /\ spc = "mSeed" /\ Len(toR) = 1 /\ Len(toS) = 0 /\ vole = "none"
    BY <1>0, <1>00, <1>4 DEF RecvHashingSeed, ReceiverCalled, TakeR, IdleInv
  <2>4. Len(toS') = 1 /\ Is(toS'[1], "mSeed", rAt) /\ Len(toR') = 0
    BY <2>1, <2>2, <2>3 DEF Msg
  <2> QED BY <1>0, <1>4, <2>3, <2>4 DEF RecvHashingSeed, IdleInv, VoleInv, ThrewInv, HwsInv
<1>5. CASE RecvCommitment
  BY <1>5 DEF RecvCommitment, IdleInv, VoleInv, ThrewInv, HwsInv
<1>6. CASE SendChunk
  BY <1>6 DEF SendChunk, IdleInv, VoleInv, ThrewInv, HwsInv
<1>7. CASE EndChunks
  BY <1>7 DEF EndChunks, IdleInv, VoleInv, ThrewInv, HwsInv
<1>8. CASE RecvOpening
  BY <1>8, OpeningHolds DEF RecvOpening, IdleInv, VoleInv, ThrewInv, HwsInv
<1>9. CASE RecvP
  <2>1. /\ Len(toR) >= 1 /\ Len(toR') = Len(toR) - 1
        /\ \A i \in 1 .. Len(toR) - 1 : toR'[i] = toR[i + 1]
    BY <1>9, Received DEF RecvP
  <2>2. Openings = 0 /\ rpc = "mP" /\ vole = "none"
    BY <1>00, <1>9 DEF RecvP, Openings, ChunksInv
  <2>3. Late
    BY <1>00, <1>0, <2>1, <2>2 DEF ChunksInv, Early, Amid
  <2> QED BY <1>0, <1>9, <2>1, <2>2, <2>3
          DEF RecvP, ReceiverReturns, Late, IdleInv, VoleInv, ThrewInv, HwsInv
<1> QED BY <1>1, <1>2, <1>3, <1>4, <1>5, <1>6, <1>7, <1>8, <1>9 DEF ReceiverStep

(* The receiver, when it is sending chunks or has sent them all.           *)
LEMMA ReceiverChunks ==
    ASSUME TypeOK, TypeOK', CallsInv, SyncInv, SeedsInv, ReceiverStep
    PROVE  ChunksInv'
<1> USE DEF CallsInv, given, sender, loop, Is
<1>0. /\ Len(toR) \in Nat /\ Len(toR') \in Nat /\ Len(toS) \in Nat /\ Len(toS') \in Nat
      /\ (toR = <<>> <=> Len(toR) = 0) /\ (toR' = <<>> <=> Len(toR') = 0)
      /\ (toS = <<>> <=> Len(toS) = 0) /\ (toS' = <<>> <=> Len(toS') = 0)
      /\ sAt \in Nat /\ rAt \in Nat /\ n \in Nat \ {0} /\ at \in 0 .. n /\ ppAt \in 0 .. n
  BY Lengths DEF TypeOK
<1>00. ChunksInv
  BY DEF SyncInv
<1>1. CASE VoleRequest
  BY <1>1 DEF VoleRequest, ChunksInv
<1>2. CASE VoleTake
  BY <1>2 DEF VoleTake, ReceiverReturns, ChunksInv
<1>3. CASE RefuseReceive
  BY <1>3 DEF RefuseReceive, ChunksInv
<1>4. CASE RecvHashingSeed
  <2>1. Len(toR') = Len(toR) - 1
    BY <1>4, Received DEF RecvHashingSeed
  <2>2. Len(toS') = Len(toS) + 1 /\ toS'[Len(toS) + 1] = Msg("mSeed", rAt, {}, <<>>)
    BY <1>4, Sent DEF RecvHashingSeed
  <2>3. sAt = rAt /\ spc = "mSeed" /\ Len(toR) = 1 /\ Len(toS) = 0 /\ vole = "none"
    BY <1>0, <1>4 DEF RecvHashingSeed, ReceiverCalled, TakeR, SyncInv, IdleInv, Behind
  <2>4. Len(toS') = 1 /\ Is(toS'[1], "mSeed", rAt) /\ Len(toR') = 0
    BY <2>1, <2>2, <2>3 DEF Msg
  <2>5. ChunksFrom(0, 1)'
    <3>1. Start(0, 0) = 0
      BY Starts
    <3> QED BY <1>0, <1>4, <2>4, <3>1 DEF RecvHashingSeed, ChunksFrom, Lesser, Start
  <2> QED BY <1>0, <1>4, <2>3, <2>4, <2>5 DEF RecvHashingSeed, ChunksInv, Early, Openings
<1>5. CASE RecvCommitment
  <2>1. Len(toR') = Len(toR) - 1 /\ Len(toR) >= 1
    BY <1>5, Received DEF RecvCommitment
  <2>2. /\ malicious /\ vole = "none" /\ sAt = rAt /\ at = 0 /\ spc = "wr" /\ ppAt = 0
        /\ Len(toR) = 1 /\ Len(toS) = 0
    BY <1>0, <1>5, <2>1 DEF RecvCommitment, SyncInv, HwsInv
  <2>3. Len(toS') = Len(toS) + 1 /\ toS'[Len(toS) + 1] = Msg("wr", rAt, {Wr}, <<>>)
    BY <1>5, Sent DEF RecvCommitment
  <2>4. Len(toS') = 1 /\ Is(toS'[1], "wr", rAt) /\ Len(toR') = 0
    BY <2>1, <2>2, <2>3 DEF Msg
  <2>5. ChunksFrom(0, 1)'
    <3>1. Start(0, 0) = 0
      BY Starts
    <3> QED BY <1>0, <1>5, <2>2, <2>4, <3>1 DEF RecvCommitment, ChunksFrom, Lesser, Start
  <2> QED BY <1>0, <1>5, <2>2, <2>4, <2>5 DEF RecvCommitment, ChunksInv, Early, Openings
<1>6. CASE SendChunk
  <2>1. /\ toR' = toR /\ rpc' = rpc /\ rAt' = rAt /\ UNCHANGED <<n, malicious, vole, sender>>
        /\ rpc = "chunks" /\ at < n
    BY <1>6 DEF SendChunk
  <2>2. /\ Len(toS') = Len(toS) + 1
        /\ \A i \in 1 .. Len(toS) : toS'[i] = toS[i]
    <3>1. PICK blocks : SendToS("chunk", {}, blocks)
      BY <1>6 DEF SendChunk
    <3> QED BY <3>1, Sent
  <2>3. CASE Early
    <3>1. ChunksFrom(0, 1)'
      BY <1>0, <1>6, <2>3, ChunkSent DEF Early
    <3>2. toS'[1] = toS[1]
      BY <2>2, <2>3 DEF Early
    <3> QED BY <1>0, <1>00, <2>1, <2>2, <2>3, <3>1, <3>2 DEF ChunksInv, Early, Openings
  <2>4. CASE Amid
    <3>1. ChunksFrom(ppAt, 0)'
      <4>1. PICK pp \in 0 .. n : pp = ppAt
        BY <1>0
      <4>2. ChunksFrom(pp, 0)
        BY <2>4, <4>1 DEF Amid
      <4>3. ChunksFrom(pp, 0)' /\ ppAt' = pp
        BY <1>0, <1>6, <2>1, <4>1, <4>2, ChunkSent
      <4> QED BY <4>3 DEF ChunksFrom, Start, Lesser
    <3> QED BY <1>0, <1>00, <2>1, <2>2, <2>4, <3>1 DEF ChunksInv, Amid, Openings
  <2> QED BY <1>0, <1>00, <2>1, <2>3, <2>4 DEF ChunksInv, Late
<1>7. CASE EndChunks
  <2>1. at = n
    BY <1>0, <1>7 DEF EndChunks
  <2>2. Openings' = Openings /\ Openings \in {0, 1}
    BY <1>7 DEF EndChunks, Openings
  <2>3. ChunksFrom(0, 1) => ChunksFrom(0, 1)'
    BY <1>7 DEF EndChunks, ChunksFrom
  <2>4. ChunksFrom(ppAt, 0) => ChunksFrom(ppAt, 0)'
    BY <1>7 DEF EndChunks, ChunksFrom
  <2>5. Early \/ Amid \/ Late
    BY <1>00, <1>7 DEF EndChunks, ChunksInv
  <2>6. Early' \/ Amid' \/ Late'
    BY <1>7, <2>2, <2>3, <2>4, <2>5 DEF EndChunks, Early, Amid, Late
  <2> QED BY <1>00, <1>7, <2>1, <2>2, <2>6 DEF EndChunks, ChunksInv
<1>8. CASE RecvOpening
  <2>1. rpc = "ws" /\ rpc' = "mP" /\ malicious /\ Openings = 1 /\ Openings' = 0
    BY <1>00, <1>8, OpeningHolds DEF RecvOpening, ChunksInv, Openings
  <2>2. /\ Len(toR) >= 1 /\ Len(toR') = Len(toR) - 1
        /\ \A i \in 1 .. Len(toR) - 1 : toR'[i] = toR[i + 1]
    BY <1>8, Received DEF RecvOpening
  <2>3. Amid \/ Late
    BY <1>0, <1>00, <2>1, <2>2 DEF ChunksInv, Early
  <2>4. ChunksFrom(ppAt, 0) => ChunksFrom(ppAt, 0)'
    BY <1>8 DEF RecvOpening, ChunksFrom
  <2>5. Amid => Amid'
    BY <1>0, <1>8, <2>1, <2>2, <2>4 DEF RecvOpening, Amid
  <2>6. Late => Late'
    BY <1>0, <1>8, <2>1, <2>2 DEF RecvOpening, Late
  <2> QED BY <1>00, <1>8, <2>1, <2>3, <2>5, <2>6 DEF RecvOpening, ChunksInv
<1>9. CASE RecvP
  BY <1>9 DEF RecvP, ReceiverReturns, ChunksInv
<1> QED BY <1>1, <1>2, <1>3, <1>4, <1>5, <1>6, <1>7, <1>8, <1>9 DEF ReceiverStep

-----------------------------------------------------------------------------
(* The seeds.                                                              *)

(* Nobody has any at first.                                                *)
LEMMA InitSeeds == Init => SeedsInv
BY DEF Init, SeedsInv

(* The key is the sum of both.                                             *)
LEMMA Keys == \A k : /\ {<<"wr", k>>} (+) {<<"ws", k>>} = Key(k)
                     /\ {<<"ws", k>>} (+) {<<"wr", k>>} = Key(k)
BY DEF Key, (+)

(* Messages keep their seeds while they are on the way.                    *)
LEMMA RSeedsKept ==
    ASSUME TypeOK, TypeOK', SeedsInv, malicious' = malicious, TakeR \/ UNCHANGED toR
    PROVE  \A i \in DOMAIN toR' :
              /\ toR'[i].kind \in {"Hws", "ws"} => toR'[i].seeds = {<<"ws", toR'[i].call>>}
              /\ malicious' /\ toR'[i].kind = "mP" => toR'[i].seeds = Key(toR'[i].call)
<1>1. CASE TakeR
  <2>1. TAKE i \in DOMAIN toR'
  <2>2. i + 1 \in DOMAIN toR /\ toR'[i] = toR[i + 1]
    <3>1. toR \in Seq(Message) /\ toR' \in Seq(Message)
      BY DEF TypeOK
    <3>2. Len(toR) \in Nat /\ DOMAIN toR = 1 .. Len(toR) /\ DOMAIN toR' = 1 .. Len(toR')
      BY <3>1, Lengths
    <3>3. /\ Len(toR') = Len(toR) - 1
          /\ \A j \in 1 .. Len(toR) - 1 : toR'[j] = toR[j + 1]
      BY <1>1, Received
    <3> QED BY <3>2, <3>3
  <2> QED BY <2>2 DEF SeedsInv
<1> QED BY <1>1 DEF SeedsInv

(* The same of the messages to the sender.                                 *)
LEMMA SSeedsKept ==
    ASSUME TypeOK, TypeOK', SeedsInv, TakeS \/ UNCHANGED toS
    PROVE  \A i \in DOMAIN toS' : toS'[i].kind = "wr" => toS'[i].seeds = {<<"wr", toS'[i].call>>}
<1>1. CASE TakeS
  <2>1. TAKE i \in DOMAIN toS'
  <2>2. i + 1 \in DOMAIN toS /\ toS'[i] = toS[i + 1]
    <3>1. toS \in Seq(Message) /\ toS' \in Seq(Message)
      BY DEF TypeOK
    <3>2. Len(toS) \in Nat /\ DOMAIN toS = 1 .. Len(toS) /\ DOMAIN toS' = 1 .. Len(toS')
      BY <3>1, Lengths
    <3>3. /\ Len(toS') = Len(toS) - 1
          /\ \A j \in 1 .. Len(toS) - 1 : toS'[j] = toS[j + 1]
      BY <1>1, Received
    <3> QED BY <3>2, <3>3
  <2> QED BY <2>2 DEF SeedsInv
<1> QED BY <1>1 DEF SeedsInv

(* A message that is sent has those of its sender.                         *)
LEMMA RSeedsSent ==
    ASSUME TypeOK, TypeOK', SeedsInv, malicious' = malicious,
           NEW kind, NEW seeds, NEW blocks, SendToR(kind, seeds, blocks),
           kind \in {"Hws", "ws"} => seeds = {<<"ws", sAt>>},
           malicious /\ kind = "mP" => seeds = Key(sAt)
    PROVE  \A i \in DOMAIN toR' :
              /\ toR'[i].kind \in {"Hws", "ws"} => toR'[i].seeds = {<<"ws", toR'[i].call>>}
              /\ malicious' /\ toR'[i].kind = "mP" => toR'[i].seeds = Key(toR'[i].call)
<1>1. TAKE i \in DOMAIN toR'
<1>0. /\ Len(toR) \in Nat /\ DOMAIN toR = 1 .. Len(toR) /\ DOMAIN toR' = 1 .. Len(toR')
      /\ Len(toR') = Len(toR) + 1
      /\ \A j \in 1 .. Len(toR) : toR'[j] = toR[j]
  <2>1. toR \in Seq(Message) /\ toR' \in Seq(Message)
    BY DEF TypeOK
  <2>2. Len(toR) \in Nat /\ DOMAIN toR = 1 .. Len(toR) /\ DOMAIN toR' = 1 .. Len(toR')
    BY <2>1, Lengths
  <2>3. Len(toR') = Len(toR) + 1 /\ \A j \in 1 .. Len(toR) : toR'[j] = toR[j]
    BY Sent
  <2> QED BY <2>2, <2>3
<1>2. i \in DOMAIN toR \/ i = Len(toR) + 1
  BY <1>0
<1>3. CASE i \in DOMAIN toR
  <2>1. toR'[i] = toR[i]
    BY <1>0, <1>3
  <2> QED BY <1>3, <2>1 DEF SeedsInv
<1>4. CASE i = Len(toR) + 1
  <2>1. toR'[i] = Msg(kind, sAt, seeds, blocks)
    BY <1>4, Sent
  <2> QED BY <2>1 DEF Msg
<1> QED BY <1>2, <1>3, <1>4

(* The same of a message to the sender.                                    *)
LEMMA SSeedsSent ==
    ASSUME TypeOK, TypeOK', SeedsInv,
           NEW kind, NEW seeds, NEW blocks, SendToS(kind, seeds, blocks),
           kind = "wr" => seeds = {<<"wr", rAt>>}
    PROVE  \A i \in DOMAIN toS' : toS'[i].kind = "wr" => toS'[i].seeds = {<<"wr", toS'[i].call>>}
<1>1. TAKE i \in DOMAIN toS'
<1>0. /\ Len(toS) \in Nat /\ DOMAIN toS = 1 .. Len(toS) /\ DOMAIN toS' = 1 .. Len(toS')
      /\ Len(toS') = Len(toS) + 1
      /\ \A j \in 1 .. Len(toS) : toS'[j] = toS[j]
  <2>1. toS \in Seq(Message) /\ toS' \in Seq(Message)
    BY DEF TypeOK
  <2>2. Len(toS) \in Nat /\ DOMAIN toS = 1 .. Len(toS) /\ DOMAIN toS' = 1 .. Len(toS')
    BY <2>1, Lengths
  <2>3. Len(toS') = Len(toS) + 1 /\ \A j \in 1 .. Len(toS) : toS'[j] = toS[j]
    BY Sent
  <2> QED BY <2>2, <2>3
<1>2. i \in DOMAIN toS \/ i = Len(toS) + 1
  BY <1>0
<1>3. CASE i \in DOMAIN toS
  <2>1. toS'[i] = toS[i]
    BY <1>0, <1>3
  <2>2. toS[i].kind = "wr" => toS[i].seeds = {<<"wr", toS[i].call>>}
    BY <1>3 DEF SeedsInv
  <2> QED BY <2>1, <2>2
<1>4. CASE i = Len(toS) + 1
  <2>1. toS'[i] = Msg(kind, rAt, seeds, blocks)
    BY <1>4, Sent
  <2> QED BY <2>1 DEF Msg
<1> QED BY <1>2, <1>3, <1>4

(* What the ends make of the seeds is the same at both.                    *)
LEMMA SenderSeeds ==
    ASSUME TypeOK, TypeOK', SyncInv, SeedsInv, SenderStep
    PROVE  SeedsInv'
<1> DEFINE RNext == \A i \in DOMAIN toR' :
              /\ toR'[i].kind \in {"Hws", "ws"} => toR'[i].seeds = {<<"ws", toR'[i].call>>}
              /\ malicious' /\ toR'[i].kind = "mP" => toR'[i].seeds = Key(toR'[i].call)
           SNext == \A i \in DOMAIN toS' :
                       toS'[i].kind = "wr" => toS'[i].seeds = {<<"wr", toS'[i].call>>}
           Own == malicious /\ spc' \in {"chunks", "mP"} => mW' = Key(sAt')
<1>1. malicious' = malicious /\ UNCHANGED <<rpc, rAt, w>>
  BY DEF SenderStep, VoleCorrection, EndOfflineSend, SendHashingSeed, RefuseSend, RecvSeed, RecvWr,
         RecvChunk, SendP, EndOnlineSend, receiver, given
<1>2. RNext /\ SNext /\ Own => SeedsInv'
  BY <1>1 DEF SeedsInv, Key
<1>3. malicious /\ spc \in {"chunks", "mP"} => mW = Key(sAt)
  BY DEF SeedsInv
<1>4. TakeS \/ UNCHANGED toS => SNext
  BY SSeedsKept
<1>5. UNCHANGED toR => RNext
  BY <1>1, RSeedsKept
<1>6. ASSUME NEW kind, NEW seeds, NEW blocks, SendToR(kind, seeds, blocks),
             kind \in {"Hws", "ws"} => seeds = {<<"ws", sAt>>},
             malicious /\ kind = "mP" => seeds = Key(sAt)
      PROVE  RNext
  BY <1>1, <1>6, RSeedsSent
<1> HIDE DEF RNext, SNext
<1>7. CASE \/ VoleCorrection \/ EndOfflineSend \/ RefuseSend \/ RecvChunk \/ EndOnlineSend
  BY <1>2, <1>3, <1>4, <1>5, <1>7
     DEF VoleCorrection, EndOfflineSend, RefuseSend, RecvChunk, EndOnlineSend, SenderReturns,
         receiver
<1>8. CASE SendHashingSeed
  <2>1. RNext
    BY <1>6, <1>8 DEF SendHashingSeed
  <2> QED BY <1>2, <1>4, <1>8, <2>1 DEF SendHashingSeed
<1>9. CASE RecvSeed
  <2>1. RNext
    BY <1>5, <1>6, <1>9 DEF RecvSeed, Ws
  <2> QED BY <1>2, <1>4, <1>9, <2>1 DEF RecvSeed
<1>10. CASE RecvWr
  <2>1. RNext
    BY <1>6, <1>10 DEF RecvWr, Ws
  <2>2. toS # <<>> /\ spc = "wr"
    BY <1>10 DEF RecvWr, TakeS
  <2>3. Is(toS[1], "wr", sAt)
    BY <2>2 DEF SyncInv, IdleInv, VoleInv, ThrewInv, HwsInv, ChunksInv, Silent, Early, Amid, Late,
                TypeOK
  <2>4. toS[1].seeds = {<<"wr", sAt>>}
    <3>1. 1 \in DOMAIN toS
      <4>1. toS \in Seq(Message) /\ toS # <<>>
        BY <2>2 DEF TypeOK
      <4> QED BY <4>1, Lengths
    <3>2. toS[1].kind = "wr" => toS[1].seeds = {<<"wr", toS[1].call>>}
      BY <3>1 DEF SeedsInv
    <3> QED BY <2>3, <3>2 DEF Is
  <2>5. mW' = Key(sAt)
    BY <1>10, <2>4, Keys DEF RecvWr, Ws
  <2> QED BY <1>2, <1>4, <1>10, <2>1, <2>5 DEF RecvWr
<1>11. CASE SendP
  <2>1. RNext
    BY <1>3, <1>6, <1>11 DEF SendP
  <2> QED BY <1>2, <1>3, <1>4, <1>11, <2>1 DEF SendP
<1> QED BY <1>7, <1>8, <1>9, <1>10, <1>11 DEF SenderStep

(* The seeds when the receiver takes a step.                               *)
LEMMA ReceiverSeeds ==
    ASSUME TypeOK, TypeOK', SyncInv, SeedsInv, ReceiverStep
    PROVE  SeedsInv'
<1> DEFINE RNext == \A i \in DOMAIN toR' :
              /\ toR'[i].kind \in {"Hws", "ws"} => toR'[i].seeds = {<<"ws", toR'[i].call>>}
              /\ malicious' /\ toR'[i].kind = "mP" => toR'[i].seeds = Key(toR'[i].call)
           SNext == \A i \in DOMAIN toS' :
                       toS'[i].kind = "wr" => toS'[i].seeds = {<<"wr", toS'[i].call>>}
           Own == /\ malicious /\ rpc' \in {"chunks", "ws"} => w' = {<<"ws", rAt'>>}
                  /\ malicious /\ rpc' = "mP" => w' = Key(rAt')
<1>1. malicious' = malicious /\ UNCHANGED <<spc, sAt, mW>>
  BY DEF ReceiverStep, VoleRequest, VoleTake, RefuseReceive, RecvHashingSeed, RecvCommitment,
         SendChunk, EndChunks, RecvOpening, RecvP, sender, given
<1>2. RNext /\ SNext /\ Own => SeedsInv'
  BY <1>1 DEF SeedsInv, Key
<1>3. /\ malicious /\ rpc \in {"chunks", "ws"} => w = {<<"ws", rAt>>}
      /\ malicious /\ rpc = "mP" => w = Key(rAt)
  BY DEF SeedsInv
<1>4. TakeR \/ UNCHANGED toR => RNext
  BY <1>1, RSeedsKept
<1>5. UNCHANGED toS => SNext
  BY SSeedsKept
<1>6. ASSUME NEW kind, NEW seeds, NEW blocks, SendToS(kind, seeds, blocks),
             kind = "wr" => seeds = {<<"wr", rAt>>}
      PROVE  SNext
  BY <1>6, SSeedsSent
<1> HIDE DEF RNext, SNext
<1>7. CASE VoleRequest \/ VoleTake \/ RefuseReceive \/ EndChunks \/ RecvP
  BY <1>1, <1>2, <1>3, <1>4, <1>5, <1>7
     DEF VoleRequest, VoleTake, RefuseReceive, EndChunks, RecvP, ReceiverReturns, ReceiverCalled
<1>8. CASE RecvHashingSeed
  <2>1. SNext
    BY <1>6, <1>8 DEF RecvHashingSeed
  <2> QED BY <1>1, <1>2, <1>4, <1>8, <2>1 DEF RecvHashingSeed
<1>9. CASE RecvCommitment
  <2>1. SNext
    BY <1>6, <1>9 DEF RecvCommitment, Wr
  <2>2. Is(toR[1], "Hws", rAt) /\ toR # <<>>
    BY <1>9 DEF RecvCommitment, TakeR, SyncInv, HwsInv
  <2>3. toR[1].seeds = {<<"ws", rAt>>}
    <3>1. 1 \in DOMAIN toR
      <4>1. toR \in Seq(Message) /\ toR # <<>>
        BY <2>2 DEF TypeOK
      <4> QED BY <4>1, Lengths
    <3>2. toR[1].kind \in {"Hws", "ws"} => toR[1].seeds = {<<"ws", toR[1].call>>}
      BY <3>1 DEF SeedsInv
    <3> QED BY <2>2, <3>2 DEF Is
  <2> QED BY <1>1, <1>2, <1>4, <1>9, <2>1, <2>3 DEF RecvCommitment
<1>10. CASE SendChunk
  <2>1. SNext
    BY <1>6, <1>10 DEF SendChunk
  <2> QED BY <1>1, <1>2, <1>3, <1>4, <1>10, <2>1 DEF SendChunk
<1>11. CASE RecvOpening
  <2>1. rpc' = "mP" /\ toR[1].seeds = w /\ rpc = "ws"
    BY <1>11, OpeningHolds DEF RecvOpening
  <2>2. malicious => w' = Key(rAt)
    BY <1>3, <1>11, <2>1, Keys DEF RecvOpening, Wr
  <2> QED BY <1>1, <1>2, <1>4, <1>5, <1>11, <2>1, <2>2 DEF RecvOpening
<1> QED BY <1>7, <1>8, <1>9, <1>10, <1>11 DEF ReceiverStep

-----------------------------------------------------------------------------
(* What the two ends make of the queue, whatever the size of the vectors.  *)

WireInv == TypeOK /\ CallsInv /\ SyncInv /\ SeedsInv

(* It is an invariant.                                                     *)
LEMMA StepWire == WireInv /\ [Next]_vars => WireInv'
<1> SUFFICES ASSUME WireInv, [Next]_vars PROVE WireInv'
  OBVIOUS
<1> USE DEF WireInv
<1>1. TypeOK'
  BY StepType
<1>2. CASE SenderStep
  <2>1. CallsInv'
    BY <1>2, SenderCalls
  <2>2. SyncInv'
    BY <1>1, <1>2, SenderIdle, SenderHws, SenderChunks DEF SyncInv
  <2>3. SeedsInv'
    BY <1>1, <1>2, SenderSeeds
  <2> QED BY <1>1, <2>1, <2>2, <2>3
<1>3. CASE ReceiverStep
  <2>1. CallsInv'
    BY <1>3, ReceiverCalls
  <2>2. SyncInv'
    BY <1>1, <1>3, ReceiverIdle, ReceiverChunks DEF SyncInv
  <2>3. SeedsInv'
    BY <1>1, <1>3, ReceiverSeeds
  <2> QED BY <1>1, <2>1, <2>2, <2>3
<1>4. CASE UNCHANGED vars
  <2>1. UNCHANGED <<n, malicious, buffered, plan, sAt, spc, gen, mB, ppAt, mW, rAt, rpc, mA, p,
  moved, at,
                    w, outcome, vole, toR, toS>>
    BY <1>4 DEF vars, given, sender, receiver, loop
  <2>2. CallsInv'
    BY <2>1 DEF CallsInv, Online, Offline
  <2>3. IdleInv' /\ VoleInv' /\ ThrewInv' /\ HwsInv'
    BY <2>1 DEF SyncInv, IdleInv, VoleInv, ThrewInv, HwsInv, Silent, Behind, Is
  <2>4. ChunksInv'
    BY <2>1 DEF SyncInv, ChunksInv, Early, Amid, Late, Openings, ChunksFrom, Lesser, Start, Is
  <2>5. SeedsInv'
    BY <2>1 DEF SeedsInv, Key
  <2> QED BY <1>1, <2>2, <2>3, <2>4, <2>5 DEF SyncInv
<1>5. CASE Terminated
  BY <1>4, <1>5 DEF Terminated
<1> QED BY <1>2, <1>3, <1>4, <1>5 DEF Next

(* So the invariant holds of the specification.                            *)
THEOREM WireInvariant == Spec => []WireInv
<1>1. Init => WireInv
  BY InitType, InitCalls, InitSync, InitSeeds DEF WireInv
<1> QED BY <1>1, StepWire, PTL DEF Spec

(***************************************************************************)
(* The untagged messages of the OPPRF, the OPRF and its malicious variant  *)
(* are always taken for what they are, with the size that is expected, for *)
(* vectors of any size, any sequence of calls and either kind of send.     *)
(***************************************************************************)
THEOREM MessagesAreExpected == Spec => []Framing
<1>1. WireInv => Framing
  <2> SUFFICES ASSUME WireInv PROVE Framing
    OBVIOUS
  <2> USE DEF WireInv
  <2>0. /\ Len(toR) \in Nat /\ Len(toS) \in Nat /\ Openings \in {0, 1}
        /\ (toR = <<>> <=> Len(toR) = 0) /\ (toS = <<>> <=> Len(toS) = 0)
        /\ sAt \in Nat /\ rAt \in Nat /\ n \in Nat /\ ppAt \in 0 .. n
    BY Lengths DEF TypeOK, Openings
  <2>1. ASSUME toS # <<>>
        PROVE  /\ toS[1].kind \in ExpectedByS /\ toS[1].call = sAt
               /\ toS[1].kind = "chunk" => Len(toS[1].blocks) = Expected
    <3>1. rpc \in {"Hws", "chunks", "ws", "mP"}
      BY <2>1 DEF TypeOK, SyncInv, IdleInv, VoleInv, ThrewInv, Silent
    <3>2. CASE rpc = "Hws"
      BY <2>1, <3>2 DEF SyncInv, HwsInv, ExpectedByS, Is
    <3>3. CASE Early
      BY <2>1, <3>3 DEF Early, ExpectedByS, Is
    <3>4. CASE Amid
      <4>1. /\ Is(toS[1], "chunk", rAt)
            /\ Start(ppAt, 0) < n
            /\ Len(toS[1].blocks) = Lesser(n - Start(ppAt, 0), Chunk)
        BY <2>0, <2>1, <3>4 DEF Amid, ChunksFrom
      <4>2. Start(ppAt, 0) = ppAt
        BY <2>0, Starts
      <4> QED BY <3>4, <4>1, <4>2 DEF Amid, ExpectedByS, Expected, Is
    <3>5. CASE Late
      BY <2>1, <3>5 DEF Late
    <3> QED BY <3>1, <3>2, <3>3, <3>4, <3>5 DEF SyncInv, ChunksInv
  <2>2. ASSUME toR # <<>>
        PROVE  /\ toR[1].kind \in ExpectedByR /\ toR[1].call >= rAt
               /\ rpc \notin {"idle", "vole"} => toR[1].call = rAt
    <3>1. CASE rpc \in {"idle", "vole", "threw", "Hws"}
      BY <2>0, <2>2, <3>1 DEF SyncInv, IdleInv, VoleInv, ThrewInv, HwsInv, Behind, Silent,
                              ExpectedByR, Is
    <3>2. CASE rpc \in {"chunks", "ws", "mP"}
      <4>1. Early \/ Amid \/ Late
        BY <3>2 DEF SyncInv, ChunksInv
      <4>2. CASE Openings = 1
        BY <2>0, <2>2, <3>2, <4>2 DEF SyncInv, ChunksInv, ExpectedByR, Is, Openings
      <4>3. CASE Openings = 0
        <5>1. Late
          BY <2>0, <2>2, <4>1, <4>3 DEF Early, Amid
        <5> QED BY <2>0, <3>2, <4>3, <5>1 DEF Late, ExpectedByR, Is, Openings, SyncInv, ChunksInv
      <4> QED BY <2>0, <4>2, <4>3
    <3> QED BY <3>1, <3>2 DEF TypeOK
  <2>3. SenderEnded /\ ReceiverEnded => toR = <<>> /\ toS = <<>> /\ vole = "none"
    <3> SUFFICES ASSUME SenderEnded, ReceiverEnded PROVE toR = <<>> /\ toS = <<>> /\ vole = "none"
      OBVIOUS
    <3>1. DOMAIN plan = 1 .. Len(plan) /\ Len(plan) \in Nat
      BY DEF TypeOK
    <3>2. rpc \in {"idle", "threw"}
      BY <2>0, <3>1 DEF ReceiverEnded, TypeOK, CallsInv, Online, Offline
    <3>3. CASE rpc = "threw"
      BY <3>3 DEF SyncInv, ThrewInv, Silent
    <3>4. CASE rpc = "idle"
      BY <2>0, <3>1, <3>4 DEF SenderEnded, ReceiverEnded, SyncInv, IdleInv, Behind, CallsInv, Online
    <3> QED BY <3>2, <3>3, <3>4
  <2> QED BY <2>1, <2>2, <2>3 DEF Framing
<1> QED BY <1>1, WireInvariant, PTL

-----------------------------------------------------------------------------
(* The chunks of vectors of less than two chunks.                          *)

ShortVectors == \A case \in Cases : case.n < 2 * Chunk

Unsent == rpc \in {"Hws", "chunks"} /\ at < n =>
              ~ moved /\ \A i \in at .. n - 1 : p[i] = Encoded(rAt, i)

(* What is left of p after a chunk is sent, and what the chunk is.         *)
LEMMA OneChunk ==
    ASSUME WireInv, MaskInv, SendChunk
    PROVE  /\ Unsent'
           /\ SendToS("chunk", {}, [k \in 1 .. Sub |-> Masked(at + k - 1)])
<1>1. /\ n \in Nat /\ at \in 0 .. n /\ at < n /\ Chunk \in Nat \ {0} /\ Chunk % 8 = 0
      /\ n < 2 * Chunk
  BY ChunkAssumption DEF WireInv, TypeOK, SendChunk, MaskInv
<1>2. Sub \in Nat \ {0} /\ Sub <= n - at /\ Sub <= Chunk
  BY <1>1 DEF Sub, Lesser
<1>3. ~ moved /\ \A i \in at .. n - 1 : p[i] = Encoded(rAt, i)
  BY <1>1 DEF SendChunk, MaskInv
<1>6. SendToS("chunk", {}, [k \in 1 .. Sub |-> p'[SentFrom + k - 1]])
  <2>1. PICK lost \in {moved, FALSE} :
          SendToS("chunk", {}, [k \in 1 .. Sub |-> IF lost THEN Junk ELSE p'[SentFrom + k - 1]])
    BY DEF SendChunk
  <2>2. ~ lost
    BY <1>3, <2>1, Zenon
  <2> QED BY <2>1, <2>2
<1>4. CASE n - at <= Chunk
  <2>1. Sub = n - at /\ Left = Sub
    BY <1>1, <1>4 DEF Sub, Lesser, Left
  <2>2. SentFrom = at /\ at' = n
    BY <1>1, <2>1 DEF SentFrom, SendChunk
  <2>3. Main \in Nat /\ Main <= Sub
    BY <1>2 DEF Main
  <2>4. Greater(Main, Left) = Sub
    BY <1>2, <2>1, <2>3 DEF Greater
  <2>5. \A i \in at .. n - 1 : p'[i] = Masked(i)
    BY <1>1, <1>3, <2>1, <2>4 DEF SendChunk, XorC, Xored, Blocks, Masked
  <2>6. Unsent'
    BY <1>1, <2>2 DEF Unsent, SendChunk, given
  <2>7. \A k \in 1 .. Sub : p'[SentFrom + k - 1] = Masked(at + k - 1)
    BY <1>1, <2>1, <2>2, <2>5
  <2> QED BY <1>6, <2>6, <2>7
<1>5. CASE n - at > Chunk
  <2>1. Sub = Chunk /\ n - at # Sub /\ Left = n - at - Sub /\ Left < Sub
    BY <1>1, <1>5 DEF Sub, Lesser, Left
  <2>2. SentFrom = at /\ at' = at + Chunk
    BY <1>1, <2>1 DEF SentFrom, SendChunk
  <2>3. Main = Sub
    BY <1>1, <2>1 DEF Main
  <2>4. Greater(Main, Left) = Sub
    BY <1>1, <2>1, <2>3 DEF Greater
  <2>5. \A i \in at .. at + Sub - 1 : p'[i] = Masked(i)
    BY <1>1, <1>3, <1>5, <2>1, <2>4 DEF SendChunk, XorC, Xored, Blocks, Masked
  <2>6. \A i \in at + Sub .. n - 1 : p'[i] = Encoded(rAt, i)
    BY <1>1, <1>3, <2>1, <2>4 DEF SendChunk, XorC, Xored, Blocks
  <2>7. ~ moved'
    <3>1. Left # Sub
      BY <1>1, <2>1
    <3>2. moved' = (moved \/ Left = Sub)
      BY Zenon DEF SendChunk
    <3> QED BY <1>3, <3>1, <3>2
  <2>8. Unsent'
    BY <2>1, <2>2, <2>6, <2>7 DEF Unsent, SendChunk, given, Encoded
  <2>9. \A k \in 1 .. Sub : p'[SentFrom + k - 1] = Masked(at + k - 1)
    BY <1>1, <2>1, <2>2, <2>5
  <2> QED BY <1>6, <2>8, <2>9
<1> QED BY <1>1, <1>4, <1>5

(* A chunk that is sent comes where the last one ends.                     *)
LEMMA NextFrom ==
    ASSUME WireInv, SendChunk
    PROVE  From(Len(toS) + 1) = at
<1>1. rpc = "chunks" /\ at < n /\ at \in Nat /\ n \in Nat /\ Len(toS) \in Nat
  BY Lengths DEF SendChunk, WireInv, TypeOK
<1>2. CASE Early
  <2>1. spc # "chunks" /\ Len(toS) >= 1 /\ at = Lesser(n, Start(0, Len(toS) - 1))
    BY <1>2 DEF Early, ChunksFrom
  <2>2. Len(toS) + 1 - 2 = Len(toS) - 1
    BY <1>1
  <2> QED BY <1>1, <2>1, <2>2 DEF From, Lesser
<1>3. CASE Amid
  <2>1. spc = "chunks" /\ at = Lesser(n, Start(ppAt, Len(toS) - 0))
    BY <1>3 DEF Amid, ChunksFrom
  <2>2. Len(toS) + 1 - 1 = Len(toS) - 0
    BY <1>1
  <2> QED BY <1>1, <2>1, <2>2 DEF From, Lesser
<1>4. ~ Late
  BY <1>1 DEF Late
<1> QED BY <1>1, <1>2, <1>3, <1>4 DEF WireInv, SyncInv, ChunksInv

(* What is under way.                                                      *)
UnderWay == \A i \in DOMAIN toS : toS[i].kind = "chunk" =>
                \A k \in DOMAIN toS[i].blocks : toS[i].blocks[k] = Masked(From(i) + k - 1)

(* It stays what it is when a message before it is taken.                  *)
LEMMA UnderWayTaken ==
    ASSUME WireInv, TypeOK', UnderWay, TakeS, UNCHANGED <<rAt, mA>>,
           \A i \in 1 .. Len(toS) - 1 : From(i)' = From(i + 1)
    PROVE  UnderWay'
<1>1. /\ Len(toS) \in Nat /\ DOMAIN toS = 1 .. Len(toS) /\ DOMAIN toS' = 1 .. Len(toS')
      /\ Len(toS') = Len(toS) - 1
      /\ \A i \in 1 .. Len(toS) - 1 : toS'[i] = toS[i + 1]
  BY Lengths, Received DEF WireInv, TypeOK
<1>2. ASSUME NEW i \in DOMAIN toS', toS'[i].kind = "chunk", NEW k \in DOMAIN toS'[i].blocks
      PROVE  toS'[i].blocks[k] = Encoded(rAt', From(i)' + k - 1) (+) VoleC(mA', From(i)' + k - 1)
  <2>1. i + 1 \in DOMAIN toS /\ toS'[i] = toS[i + 1] /\ From(i)' = From(i + 1)
    BY <1>1
  <2>2. toS[i + 1].blocks[k] = Masked(From(i + 1) + k - 1)
    BY <1>2, <2>1 DEF UnderWay
  <2> QED BY <2>1, <2>2 DEF Masked
<1> QED BY <1>2 DEF UnderWay, Masked, Encoded, VoleC, (+)

(* What is under way when the sender takes a step.                         *)
LEMMA SenderUnderWay ==
    ASSUME WireInv, WireInv', UnderWay, SenderStep
    PROVE  UnderWay'
<1> USE DEF WireInv
<1>0. /\ Len(toS) \in Nat /\ n \in Nat /\ ppAt \in 0 .. n
      /\ Chunk \in Nat \ {0} /\ (toS = <<>> <=> Len(toS) = 0)
  BY Lengths, ChunkAssumption DEF TypeOK
<1>1. UNCHANGED <<rAt, mA>>
  BY DEF SenderStep, VoleCorrection, EndOfflineSend, SendHashingSeed, RefuseSend, RecvSeed, RecvWr,
         RecvChunk, SendP, EndOnlineSend, receiver
<1>2. CASE VoleCorrection \/ EndOfflineSend \/ SendHashingSeed \/ RefuseSend \/ EndOnlineSend
  <2>1. spc # "chunks" /\ spc' # "chunks" /\ toS' = toS
    BY <1>2 DEF VoleCorrection, EndOfflineSend, SendHashingSeed, RefuseSend, EndOnlineSend,
                SenderCalled, SenderReturns
  <2> QED BY <1>1, <2>1 DEF UnderWay, From, Start, Masked, Encoded, VoleC, (+)
<1>3. CASE RecvSeed
  <2>1. spc = "mSeed" /\ toS # <<>> /\ TakeS
    BY <1>3 DEF RecvSeed, TakeS
  <2>2. CASE malicious
    <3>1. Len(toS) = 1
      BY <1>0, <2>1, <2>2 DEF TypeOK, SyncInv, IdleInv, VoleInv, ThrewInv, HwsInv, ChunksInv,
                              Silent,
                              Early, Amid, Late
    <3> QED BY <1>1, <2>1, <3>1, UnderWayTaken
  <2>3. CASE ~ malicious
    <3>1. spc' = "chunks" /\ ppAt' = 0
      BY <1>3, <2>3 DEF RecvSeed
    <3>2. ASSUME NEW i \in 1 .. Len(toS) - 1 PROVE From(i)' = From(i + 1)
      <4>1. i - 1 = (i + 1) - 2
        OBVIOUS
      <4> QED BY <2>1, <3>1, <4>1 DEF From, Start
    <3> QED BY <1>1, <2>1, <3>2, UnderWayTaken
  <2> QED BY <2>2, <2>3
<1>4. CASE RecvWr
  <2>1. spc = "wr" /\ toS # <<>> /\ TakeS /\ spc' = "chunks" /\ ppAt' = ppAt
    BY <1>4 DEF RecvWr, TakeS
  <2>2. ppAt = 0
    BY <2>1 DEF TypeOK, SyncInv, IdleInv, VoleInv, ThrewInv, HwsInv, ChunksInv, Silent,
                Early, Amid, Late
  <2>3. ASSUME NEW i \in 1 .. Len(toS) - 1 PROVE From(i)' = From(i + 1)
    <3>1. i - 1 = (i + 1) - 2
      OBVIOUS
    <3> QED BY <2>1, <2>2, <3>1 DEF From, Start
  <2> QED BY <1>1, <2>1, <2>3, UnderWayTaken
<1>5. CASE RecvChunk
  <2>1. spc = "chunks" /\ spc' = "chunks" /\ TakeS /\ ppAt' = ppAt + Lesser(n - ppAt, Chunk)
    BY <1>5 DEF RecvChunk, Expected
  <2>2. ASSUME NEW i \in 1 .. Len(toS) - 1 PROVE From(i)' = From(i + 1)
    <3>1. ChunksFrom(ppAt, 0)
      BY <2>1 DEF TypeOK, SyncInv, IdleInv, VoleInv, ThrewInv, HwsInv, ChunksInv, Behind, Silent,
                  Early, Amid, Late
    <3>2. Start(ppAt, 2 - 0 - 1) < n
      <4>1. 2 \in 0 + 1 .. Len(toS)
        BY <1>0
      <4> QED BY <3>1, <4>1 DEF ChunksFrom
    <3>3. Start(ppAt, 1) = ppAt + Chunk
      BY <1>0, Starts
    <3>4. ppAt' = ppAt + Chunk
      BY <1>0, <2>1, <3>2, <3>3 DEF Lesser
    <3>5. Start(ppAt + Chunk, i - 1) = Start(ppAt, (i + 1) - 1)
      BY <1>0 DEF Start
    <3> QED BY <2>1, <3>4, <3>5 DEF From, Start
  <2> QED BY <1>1, <2>1, <2>2, UnderWayTaken
<1>6. CASE SendP
  <2>1. ChunksFrom(ppAt, 0) /\ ppAt = n
    BY <1>0, <1>6 DEF SendP, TypeOK, SyncInv, IdleInv, VoleInv, ThrewInv, HwsInv, ChunksInv,
                      Behind, Silent,
                Early, Amid, Late
  <2>2. Start(n, 0) = n
    BY <1>0, Starts
  <2>3. Len(toS) >= 1 => Start(n, 0) < n
    BY <1>0, <2>1 DEF ChunksFrom
  <2>4. toS' = <<>>
    BY <1>0, <1>6, <2>2, <2>3 DEF SendP
  <2> QED BY <2>4 DEF UnderWay
<1> QED BY <1>2, <1>3, <1>4, <1>5, <1>6 DEF SenderStep

(* What is under way, and the rest of p, when the receiver takes a step.   *)
LEMMA ReceiverMask ==
    ASSUME WireInv, WireInv', MaskInv, ReceiverStep
    PROVE  UnderWay' /\ Unsent'
<1> USE DEF WireInv
<1>0. UnderWay /\ Unsent
  BY DEF MaskInv, UnderWay, Unsent
<1>00. UNCHANGED <<n, spc, ppAt>>
  BY DEF ReceiverStep, VoleRequest, VoleTake, RefuseReceive, RecvHashingSeed, RecvCommitment,
         SendChunk, EndChunks, RecvOpening, RecvP, sender, given
<1>1. CASE VoleRequest \/ VoleTake \/ RefuseReceive \/ RecvP
  <2>1. toS' = <<>>
    <3>1. rpc = "mP" /\ toR # <<>> => Late
      BY Lengths DEF TypeOK, SyncInv, ChunksInv, Early, Amid, Openings
    <3> QED BY <1>1, <3>1 DEF VoleRequest, VoleTake, RefuseReceive, RecvP, ReceiverCalled, TakeR,
                       SyncInv, IdleInv, VoleInv, Late
  <2>2. rpc' \notin {"Hws", "chunks"}
    BY <1>1 DEF VoleRequest, VoleTake, RefuseReceive, RecvP, ReceiverReturns
  <2> QED BY <2>1, <2>2 DEF UnderWay, Unsent
<1>2. CASE RecvHashingSeed
  <2>1. toS = <<>>
    BY <1>2 DEF RecvHashingSeed, ReceiverCalled, SyncInv, IdleInv
  <2>2. Len(toS') = 1 /\ toS'[1] = Msg("mSeed", rAt, {}, <<>>)
    <3>1. Len(toS) = 0
      BY <2>1
    <3>2. Len(toS') = Len(toS) + 1 /\ toS'[Len(toS) + 1] = Msg("mSeed", rAt, {}, <<>>)
      BY <1>2, Sent DEF RecvHashingSeed
    <3> QED BY <3>1, <3>2
  <2>3. UnderWay'
    <3>1. toS' \in Seq(Message)
      BY DEF WireInv, TypeOK
    <3>2. DOMAIN toS' = 1 .. 1
      BY <2>2, <3>1, Lengths
    <3>3. toS'[1].kind = "mSeed"
      BY <2>2 DEF Msg
    <3> QED BY <3>2, <3>3 DEF UnderWay
  <2>4. Unsent'
    <3>1. /\ moved' = FALSE /\ at' = 0 /\ p' = [i \in Blocks |-> Encoded(rAt, i)]
          /\ rAt' = rAt /\ n' = n
      BY <1>2 DEF RecvHashingSeed, given
    <3>2. \A i \in 0 .. n - 1 : p'[i] = Encoded(rAt', i)
      BY <3>1 DEF Blocks, Encoded
    <3> QED BY <3>1, <3>2 DEF Unsent, Encoded
  <2> QED BY <2>3, <2>4
<1>3. CASE RecvCommitment
  <2>1. toS = <<>>
    BY <1>3 DEF RecvCommitment, TakeR, SyncInv, HwsInv
  <2>2. Len(toS') = 1 /\ toS'[1] = Msg("wr", rAt, {Wr}, <<>>)
    <3>1. Len(toS) = 0
      BY <2>1
    <3>2. Len(toS') = Len(toS) + 1 /\ toS'[Len(toS) + 1] = Msg("wr", rAt, {Wr}, <<>>)
      BY <1>3, Sent DEF RecvCommitment
    <3> QED BY <3>1, <3>2
  <2>3. UnderWay'
    <3>1. toS' \in Seq(Message)
      BY DEF WireInv, TypeOK
    <3>2. DOMAIN toS' = 1 .. 1
      BY <2>2, <3>1, Lengths
    <3>3. toS'[1].kind = "wr"
      BY <2>2 DEF Msg
    <3> QED BY <3>2, <3>3 DEF UnderWay
  <2> QED BY <1>0, <1>3, <2>3 DEF RecvCommitment, Unsent, loop, given, Encoded
<1>4. CASE SendChunk
  <2>1. /\ Unsent'
        /\ SendToS("chunk", {}, [k \in 1 .. Sub |-> Masked(at + k - 1)])
    BY <1>4, OneChunk
  <2>2. /\ Len(toS') = Len(toS) + 1 /\ Len(toS) \in Nat
        /\ \A i \in 1 .. Len(toS) : toS'[i] = toS[i]
        /\ toS'[Len(toS) + 1] = Msg("chunk", rAt, {}, [k \in 1 .. Sub |-> Masked(at + k - 1)])
        /\ DOMAIN toS' = 1 .. Len(toS')
    <3> DEFINE b == [k \in 1 .. Sub |-> Masked(at + k - 1)]
    <3>1. SendToS("chunk", {}, b)
      BY <2>1
    <3> HIDE DEF b
    <3>2. /\ Len(toS') = Len(toS) + 1
          /\ \A i \in 1 .. Len(toS) : toS'[i] = toS[i]
          /\ toS'[Len(toS) + 1] = Msg("chunk", rAt, {}, b)
      BY <3>1, Sent
    <3>3. Len(toS) \in Nat /\ DOMAIN toS' = 1 .. Len(toS')
      BY Lengths DEF TypeOK
    <3> QED BY <3>2, <3>3 DEF b
  <2>3. /\ UNCHANGED <<rAt, mA>>
        /\ \A i : From(i)' = From(i)
    BY <1>00, <1>4 DEF SendChunk, From, Start
  <2>4. ASSUME NEW i \in DOMAIN toS', toS'[i].kind = "chunk", NEW k \in DOMAIN toS'[i].blocks
        PROVE  toS'[i].blocks[k] = Masked(From(i) + k - 1)
    <3>1. CASE i \in 1 .. Len(toS)
      <4>1. i \in DOMAIN toS /\ toS'[i] = toS[i]
        <5>1. toS \in Seq(Message)
          BY DEF WireInv, TypeOK
        <5>2. DOMAIN toS = 1 .. Len(toS)
          BY <5>1, Lengths
        <5> QED BY <2>2, <3>1, <5>2
      <4> QED BY <1>0, <2>4, <4>1 DEF UnderWay
    <3>2. CASE i = Len(toS) + 1
      <4>1. toS'[i].blocks = [j \in 1 .. Sub |-> Masked(at + j - 1)]
        <5>1. toS'[i] = Msg("chunk", rAt, {}, [j \in 1 .. Sub |-> Masked(at + j - 1)])
          BY <2>2, <3>2
        <5> QED BY <5>1 DEF Msg
      <4>2. From(i) = at
        BY <1>4, <3>2, NextFrom
      <4> QED BY <2>4, <4>1, <4>2
    <3> QED BY <2>2, <3>1, <3>2
  <2>5. UnderWay'
    BY <2>3, <2>4 DEF UnderWay, Masked, Encoded, VoleC, (+)
  <2> QED BY <2>1, <2>5
<1>5. CASE EndChunks \/ RecvOpening
  <2>1. UNCHANGED <<toS, rAt, mA>> /\ \A i : From(i)' = From(i)
    BY <1>00, <1>5 DEF EndChunks, RecvOpening, From, Start
  <2>2. UnderWay'
    BY <1>0, <2>1 DEF UnderWay, Masked, Encoded, VoleC, (+)
  <2>3. rpc' \notin {"Hws", "chunks"}
    BY <1>5, OpeningHolds DEF EndChunks, RecvOpening
  <2> QED BY <2>2, <2>3 DEF Unsent
<1> QED BY <1>1, <1>2, <1>3, <1>4, <1>5 DEF ReceiverStep

-----------------------------------------------------------------------------
(* The sender's share.                                                     *)

ShareAt(i) ==
    /\ \A k \in Nat : Trace(k, i) \in mB[i] => k < sAt \/ (k = sAt /\ Corrected(i))
    /\ spc = "vole" => mB[i] = VoleA(gen, i) (+) VoleC(gen, i)
    /\ spc # "vole" /\ Offline(sAt - 1) =>
          mB[i] = VoleA(gen, i) (+) IF Corrected(i) THEN Encoded(sAt, i) ELSE VoleC(gen, i)
    /\ spc # "vole" /\ Online(sAt - 1) => Trace(sAt - 1, i) \in mB[i]
    /\ Corrected(i) => Trace(sAt, i) \in mB[i]

(* The atoms of a share.                                                   *)
LEMMA Atoms ==
    ASSUME NEW g \in Nat, NEW c \in Nat, NEW i \in Nat
    PROVE  /\ \A k \in Nat : Trace(k, i) \notin VoleA(g, i) (+) VoleC(g, i)
           /\ (VoleA(g, i) (+) VoleC(g, i)) (+) (Encoded(c, i) (+) VoleC(g, i)) =
                 VoleA(g, i) (+) Encoded(c, i)
           /\ (VoleA(g, i) (+) Encoded(c, i)) (+) Encoded(c, i) = VoleA(g, i)
BY DEF Trace, VoleA, VoleC, Encoded, (+)

(* A correction changes whether the share has the trace of its call alone. *)
LEMMA TraceAdded ==
    ASSUME NEW g \in Nat, NEW c \in Nat, NEW i \in Nat, NEW S, NEW k \in Nat
    PROVE  Trace(k, i) \in S (+) (Encoded(c, i) (+) VoleC(g, i)) <=>
               IF k = c THEN Trace(k, i) \notin S ELSE Trace(k, i) \in S
BY DEF Trace, VoleA, VoleC, Encoded, (+)

(* With the trace of another call in the share, what is sent is not a.     *)
LEMMA TraceSpoils ==
    ASSUME NEW g \in Nat, NEW c \in Nat, NEW i \in Nat, NEW S, NEW k \in Nat \ {c},
           Trace(k, i) \in S
    PROVE  S (+) Encoded(c, i) # VoleA(g, i)
BY DEF Trace, VoleA, VoleC, Encoded, (+)

(* Receiving a chunk corrects the share at the positions of the chunk.     *)
LEMMA ChunkCorrects ==
    ASSUME WireInv, MaskInv, RecvChunk, NEW i \in Blocks, ShareAt(i)
    PROVE  ShareAt(i)'
<1>0. /\ n \in Nat /\ ppAt \in 0 .. n /\ Chunk \in Nat \ {0} /\ i \in 0 .. n - 1
      /\ gen \in Nat /\ sAt \in Nat /\ mB \in [Blocks -> Value]
  BY ChunkAssumption DEF WireInv, TypeOK, Blocks
<1>1. /\ spc = "chunks" /\ spc' = "chunks" /\ toS # <<>> /\ Len(toS[1].blocks) = Expected
      /\ ppAt' = ppAt + Expected /\ UNCHANGED <<sAt, gen, n, plan>>
  BY DEF RecvChunk, TakeS, given
<1>2. Amid
  BY <1>1 DEF WireInv, TypeOK, SyncInv, IdleInv, VoleInv, ThrewInv, HwsInv, ChunksInv, Behind,
              Silent,
              Early, Late
<1>3. rAt = sAt /\ mA = gen
  BY <1>2 DEF Amid, WireInv, SyncInv, IdleInv, VoleInv, ThrewInv, HwsInv, ChunksInv, Silent,
              Behind, CallsInv, TypeOK
<1>4. Expected \in Nat
  BY <1>0 DEF Expected, Lesser
<1>5. mB'[i] = IF i \in ppAt .. ppAt + Expected - 1
               THEN mB[i] (+) toS[1].blocks[i - ppAt + 1] ELSE mB[i]
  BY <1>1 DEF RecvChunk
<1>6. CASE i \in ppAt .. ppAt + Expected - 1
  <2>1. toS[1].blocks[i - ppAt + 1] = Encoded(sAt, i) (+) VoleC(gen, i)
    <3>1. toS[1] \in Message /\ 1 \in DOMAIN toS
      BY <1>1, MessageType, Lengths DEF WireInv, TypeOK
    <3>2. toS[1].blocks \in Seq(Value) /\ i - ppAt + 1 \in DOMAIN toS[1].blocks
      BY <1>0, <1>1, <1>4, <1>6, <3>1, MessageType
    <3>3. toS[1].kind = "chunk"
      BY <1>2, <3>1, Lengths DEF Amid, ChunksFrom, Is, WireInv, TypeOK
    <3>4. From(1) = ppAt
      BY <1>0, <1>1, Starts DEF From
    <3>5. toS[1].blocks[i - ppAt + 1] = Masked(From(1) + (i - ppAt + 1) - 1)
      BY <3>1, <3>2, <3>3 DEF MaskInv
    <3>6. From(1) + (i - ppAt + 1) - 1 = i
      BY <1>0, <3>4
    <3> QED BY <1>3, <3>5, <3>6 DEF Masked
  <2>2. ~ Corrected(i) /\ Corrected(i)'
    BY <1>0, <1>1, <1>4, <1>6 DEF Corrected
  <2>3. mB'[i] = mB[i] (+) (Encoded(sAt, i) (+) VoleC(gen, i))
    BY <1>5, <1>6, <2>1
  <2>9. \A k \in Nat : Trace(k, i) \in mB'[i] <=>
                          IF k = sAt THEN Trace(k, i) \notin mB[i] ELSE Trace(k, i) \in mB[i]
    <3>1. i \in Nat
      BY <1>0
    <3>2. ASSUME NEW k \in Nat
          PROVE  Trace(k, i) \in mB[i] (+) (Encoded(sAt, i) (+) VoleC(gen, i)) <=>
                     IF k = sAt THEN Trace(k, i) \notin mB[i] ELSE Trace(k, i) \in mB[i]
      <4> DEFINE S == mB[i]
      <4> HIDE DEF S
      <4>1. Trace(k, i) \in S (+) (Encoded(sAt, i) (+) VoleC(gen, i)) <=>
                IF k = sAt THEN Trace(k, i) \notin S ELSE Trace(k, i) \in S
        BY <1>0, <3>1, TraceAdded
      <4> QED BY <4>1 DEF S
    <3> QED BY <2>3, <3>2
  <2>10. \A k \in Nat : Trace(k, i) \in mB[i] => k < sAt
    BY <2>2 DEF ShareAt
  <2>4. \A k \in Nat : Trace(k, i) \in mB'[i] => k <= sAt
    BY <1>0, <2>9, <2>10
  <2>5. Trace(sAt, i) \in mB'[i]
    BY <1>0, <2>9, <2>10
  <2>6. Offline(sAt - 1) => mB'[i] = VoleA(gen, i) (+) Encoded(sAt, i)
    BY <1>0, <1>1, <2>2, <2>3, Atoms DEF ShareAt
  <2>7. Online(sAt - 1) => Trace(sAt - 1, i) \in mB'[i]
    <3>1. Online(sAt - 1) => sAt - 1 \in Nat /\ sAt - 1 # sAt
      BY <1>0 DEF Online, WireInv, TypeOK
    <3>2. Online(sAt - 1) => Trace(sAt - 1, i) \in mB[i]
      BY <1>1 DEF ShareAt
    <3> QED BY <2>9, <3>1, <3>2
  <2>8. (Offline(sAt - 1)' <=> Offline(sAt - 1)) /\ (Online(sAt - 1)' <=> Online(sAt - 1))
    BY <1>1 DEF Offline, Online
  <2> QED BY <1>0, <1>1, <2>2, <2>4, <2>5, <2>6, <2>7, <2>8 DEF ShareAt, Trace, VoleA, Encoded,
  VoleC, (+)
<1>7. CASE i \notin ppAt .. ppAt + Expected - 1
  <2>1. Corrected(i)' <=> Corrected(i)
    BY <1>0, <1>1, <1>4, <1>7 DEF Corrected
  <2>2. mB'[i] = mB[i]
    BY <1>5, <1>7
  <2>8. (Offline(sAt - 1)' <=> Offline(sAt - 1)) /\ (Online(sAt - 1)' <=> Online(sAt - 1))
    BY <1>1 DEF Offline, Online
  <2> QED BY <1>1, <2>1, <2>2, <2>8 DEF ShareAt, Trace, VoleA, Encoded, VoleC, (+)
<1> QED BY <1>6, <1>7

(* The other steps leave it alone, make a new one, or go on to a new call. *)
LEMMA StepShare ==
    ASSUME WireInv, MaskInv, ShareInv, [Next]_vars
    PROVE  ShareInv'
<1> USE DEF WireInv
<1>0. /\ n \in Nat /\ sAt \in Nat \ {0} /\ gen \in Nat /\ ppAt \in 0 .. n
      /\ \A i \in Blocks : i \in Nat /\ i < n
  BY DEF TypeOK, Blocks
<1>1. n' = n /\ plan' = plan
  BY DEF Next, SenderStep, VoleCorrection, EndOfflineSend, SendHashingSeed, RefuseSend, RecvSeed,
         RecvWr,
         RecvChunk, SendP, EndOnlineSend, ReceiverStep, VoleRequest, VoleTake, RefuseReceive,
         RecvHashingSeed, RecvCommitment, SendChunk, EndChunks, RecvOpening, RecvP, Terminated,
         vars, given
<1>2. SUFFICES ASSUME NEW i \in Blocks, ShareAt(i) PROVE ShareAt(i)'
  BY <1>1 DEF ShareInv, ShareAt, Blocks, Trace, VoleA, Encoded, VoleC, (+), Offline, Online,
              Corrected
<1>3. \A k : /\ (Offline(k)' <=> Offline(k)) /\ (Online(k)' <=> Online(k))
             /\ ~ (Offline(k) /\ Online(k))
  BY <1>1 DEF Offline, Online
<1>4. CASE UNCHANGED <<mB, sAt,
gen>> /\ (Corrected(i)' <=> Corrected(i)) /\ (spc' = "vole" <=> spc = "vole")
  <2>1. Offline(sAt - 1)' <=> Offline(sAt - 1)
    BY <1>4, <1>1 DEF Offline
  <2>2. Online(sAt - 1)' <=> Online(sAt - 1)
    BY <1>4, <1>1 DEF Online
  <2> QED BY <1>2, <1>4, <2>1, <2>2 DEF ShareAt, Trace, VoleA, Encoded, VoleC, (+)
<1>5. CASE ReceiverStep \/ UNCHANGED vars \/ Terminated
  <2>1. UNCHANGED <<mB, sAt, gen, spc, ppAt>>
    BY <1>5 DEF ReceiverStep, VoleRequest, VoleTake, RefuseReceive, RecvHashingSeed, RecvCommitment,
         SendChunk, EndChunks, RecvOpening, RecvP, Terminated, vars, sender
  <2> QED BY <1>4, <2>1 DEF Corrected
<1>6. CASE SendHashingSeed \/ RefuseSend
  <2>1. UNCHANGED <<mB, sAt, gen>> /\ spc # "vole" /\ spc' # "vole" /\ spc \notin {"chunks", "mP"}
        /\ spc' \notin {"chunks", "mP"}
    BY <1>6 DEF SendHashingSeed, RefuseSend, SenderCalled
  <2> QED BY <1>4, <2>1 DEF Corrected
<1>7. CASE RecvSeed
  <2>1. UNCHANGED <<mB, sAt, gen>> /\ spc = "mSeed" /\ spc' \in {"wr", "chunks"} /\ ppAt' = 0
    BY <1>7 DEF RecvSeed
  <2> QED BY <1>0, <1>4, <2>1 DEF Corrected
<1>8. CASE RecvWr
  <2>1. UNCHANGED <<mB, sAt, gen, ppAt>> /\ spc = "wr" /\ spc' = "chunks" /\ toS # <<>>
    BY <1>8 DEF RecvWr, TakeS
  <2>2. ppAt = 0
    BY <2>1 DEF TypeOK, SyncInv, IdleInv, VoleInv, ThrewInv, HwsInv, ChunksInv, Silent,
                Early, Amid, Late
  <2> QED BY <1>0, <1>4, <2>1, <2>2 DEF Corrected
<1>9. CASE RecvChunk
  BY <1>2, <1>9, ChunkCorrects
<1>10. CASE SendP
  <2>1. UNCHANGED <<mB, sAt, gen, ppAt>> /\ spc = "chunks" /\ spc' = "mP" /\ ppAt >= n
    BY <1>10 DEF SendP
  <2> QED BY <1>0, <1>4, <2>1 DEF Corrected
<1>11. CASE VoleCorrection
  <2>1. spc' = "vole" /\ gen' = gen + 1 /\ mB'[i] = VoleA(gen + 1, i) (+) VoleC(gen + 1, i)
    BY <1>11 DEF VoleCorrection
  <2>2. \A k \in Nat : Trace(k, i) \notin mB'[i]
    <3>1. gen + 1 \in Nat /\ i \in Nat
      BY <1>0
    <3>2. \A k \in Nat : Trace(k, i) \notin VoleA(gen + 1, i) (+) VoleC(gen + 1, i)
      BY <3>1, Atoms
    <3> QED BY <2>1, <3>2
  <2>3. ~ Corrected(i)'
    BY <2>1 DEF Corrected
  <2> QED BY <2>1, <2>2, <2>3 DEF ShareAt, Trace, VoleA, Encoded, VoleC, (+)
<1>12. CASE EndOfflineSend
  <2>1. spc = "vole" /\ spc' = "idle" /\ sAt' = sAt + 1 /\ UNCHANGED <<mB, gen>>
    BY <1>12 DEF EndOfflineSend, SenderReturns
  <2>2. Offline(sAt) /\ ~ Online(sAt) /\ sAt' - 1 = sAt
    BY <1>0, <1>3, <2>1 DEF CallsInv
  <2>3. mB'[i] = VoleA(gen, i) (+) VoleC(gen, i) /\ ~ Corrected(i)'
    BY <1>2, <2>1 DEF ShareAt, Corrected
  <2>4. \A k \in Nat : Trace(k, i) \notin mB'[i]
    <3>1. gen \in Nat /\ i \in Nat
      BY <1>0
    <3>2. \A k \in Nat : Trace(k, i) \notin VoleA(gen, i) (+) VoleC(gen, i)
      BY <3>1, Atoms
    <3> QED BY <2>3, <3>2
  <2>5. ~ Online(sAt - 1)'
    BY <1>1, <2>2 DEF Online
  <2> QED BY <2>1, <2>3, <2>4, <2>5 DEF ShareAt, Trace, VoleA, Encoded, VoleC, (+)
<1>13. CASE EndOnlineSend
  <2>1. spc = "mP" /\ spc' = "idle" /\ sAt' = sAt + 1 /\ UNCHANGED <<mB, gen>>
    BY <1>13 DEF EndOnlineSend, SenderReturns
  <2>2. Online(sAt) /\ ~ Offline(sAt) /\ sAt' - 1 = sAt
    BY <1>0, <1>3, <2>1 DEF CallsInv
  <2>3. Trace(sAt, i) \in mB[i] /\ ~ Corrected(i)' /\ \A k \in Nat : Trace(k,
  i) \in mB[i] => k <= sAt
    BY <1>0, <1>2, <2>1 DEF ShareAt, Corrected
  <2>4. ~ Offline(sAt - 1)'
    BY <1>1, <2>2 DEF Offline
  <2> QED BY <1>0, <2>1, <2>2, <2>3, <2>4 DEF ShareAt, Trace, VoleA, Encoded, VoleC, (+)
<1> QED BY <1>5, <1>6, <1>7, <1>8, <1>9, <1>10, <1>11, <1>12, <1>13 DEF Next, SenderStep

(* Nothing has been sent, and the first share has no trace of a call.      *)
LEMMA InitMask == ASSUME ShortVectors, Init PROVE MaskInv /\ ShareInv /\ PayloadInv
<1>1. n < 2 * Chunk
  BY DEF ShortVectors, Init
<1>2. /\ rpc = "idle" /\ spc = "idle" /\ toS = <<>> /\ toR = <<>> /\ sAt = 1
      /\ mB = [i \in Blocks |-> {}]
  BY DEF Init, ZeroBlock
<1>3. DOMAIN toS = {} /\ DOMAIN toR = {}
  BY <1>2
<1>4. 0 \notin DOMAIN plan
  BY InitType DEF TypeOK
<1>5. ShareInv
  BY <1>2, <1>4 DEF ShareInv, Corrected, Offline, Online
<1> QED BY <1>1, <1>2, <1>3, <1>5 DEF MaskInv, PayloadInv

(* The chunks under way and the rest of p stay what they are.              *)
LEMMA StepMask ==
    ASSUME WireInv, WireInv', MaskInv, [Next]_vars
    PROVE  MaskInv'
<1>0. UnderWay /\ Unsent /\ n < 2 * Chunk
  BY DEF MaskInv, UnderWay, Unsent
<1>1. n' = n
  BY DEF Next, SenderStep, VoleCorrection, EndOfflineSend, SendHashingSeed, RefuseSend, RecvSeed,
         RecvWr,
         RecvChunk, SendP, EndOnlineSend, ReceiverStep, VoleRequest, VoleTake, RefuseReceive,
         RecvHashingSeed, RecvCommitment, SendChunk, EndChunks, RecvOpening, RecvP, Terminated,
         vars, given
<1>2. SUFFICES UnderWay' /\ Unsent'
  BY <1>0, <1>1 DEF MaskInv, UnderWay, Unsent
<1>3. CASE SenderStep
  <2>1. UnderWay'
    BY <1>0, <1>3, SenderUnderWay
  <2>2. UNCHANGED <<rpc, rAt, p, moved, at>>
    BY <1>3 DEF SenderStep, VoleCorrection, EndOfflineSend, SendHashingSeed, RefuseSend, RecvSeed,
                RecvWr,
         RecvChunk, SendP, EndOnlineSend, receiver, loop
  <2> QED BY <1>0, <1>1, <2>1, <2>2 DEF Unsent, Encoded
<1>4. CASE ReceiverStep
  BY <1>4, ReceiverMask
<1>5. CASE UNCHANGED vars
  <2>1. UNCHANGED <<n, spc, ppAt, rAt, rpc, mA, p, moved, at, toS>>
    BY <1>5 DEF vars, given, sender, receiver, loop
  <2> QED BY <1>0, <2>1 DEF Unsent, UnderWay, From, Start, Masked, Encoded, VoleC, (+)
<1>6. CASE Terminated
  BY <1>5, <1>6 DEF Terminated
<1> QED BY <1>3, <1>4, <1>5, <1>6 DEF Next

-----------------------------------------------------------------------------
(* The payload.                                                            *)

(* What the receiver decodes from.                                         *)
Decoded(g) == [k \in 1 .. n |-> VoleA(g, k - 1)]

(* What is sent is that when the call follows an offline one, and          *)
(* something else when it follows an online one.                           *)
LEMMA PayloadSent ==
    ASSUME WireInv, ShareInv, SendP
    PROVE  /\ rAt = sAt /\ mA = gen
           /\ IF Offline(rAt - 1) THEN OprfEval = Decoded(mA) ELSE OprfEval # Decoded(mA)
<1>0. /\ n \in Nat \ {0} /\ ppAt \in 0 .. n /\ gen \in Nat /\ sAt \in Nat
      /\ DOMAIN plan = 1 .. Len(plan) /\ Len(plan) \in Nat
  BY DEF WireInv, TypeOK
<1>1. spc = "chunks" /\ ppAt = n
  BY <1>0 DEF SendP
<1>2. Amid
  BY <1>1 DEF WireInv, TypeOK, SyncInv, IdleInv, VoleInv, ThrewInv, HwsInv, ChunksInv, Behind,
              Silent,
              Early, Late
<1>3. rAt = sAt /\ mA = gen /\ vole = "none" /\ rpc \in {"chunks", "ws", "mP"}
  BY <1>1, <1>2 DEF Amid, WireInv, SyncInv, IdleInv, VoleInv, ThrewInv, HwsInv, ChunksInv, Silent,
                    Behind,
                    CallsInv, TypeOK
<1>4. \A i \in Blocks : i \in Nat /\ Corrected(i) /\ ShareAt(i)
  BY <1>0, <1>1 DEF Blocks, Corrected, ShareInv, ShareAt
<1>5. CASE Offline(sAt - 1)
  <2>1. \A i \in Blocks : mB[i] = VoleA(gen, i) (+) Encoded(sAt, i)
    BY <1>1, <1>4, <1>5 DEF ShareAt
  <2>2. ASSUME NEW k \in 1 .. n PROVE mB[k - 1] (+) Encoded(sAt, k - 1) = VoleA(gen, k - 1)
    <3>1. k - 1 \in Blocks /\ k - 1 \in Nat
      BY <1>0 DEF Blocks
    <3>2. (VoleA(gen, k - 1) (+) Encoded(sAt, k - 1)) (+) Encoded(sAt, k - 1) = VoleA(gen, k - 1)
      BY <1>0, <3>1, Atoms
    <3> QED BY <2>1, <3>1, <3>2
  <2>3. OprfEval = Decoded(gen)
    BY <2>2 DEF OprfEval, Decoded
  <2> QED BY <1>3, <1>5, <2>3
<1>6. CASE ~ Offline(sAt - 1)
  <2>1. PICK j \in 1 .. sAt - 1 : plan[j] = "offline"
    BY <1>3 DEF WireInv, CallsInv
  <2>2. Online(sAt) /\ sAt - 1 \in Nat
    BY <1>0, <1>1, <2>1 DEF WireInv, CallsInv
  <2>3. Online(sAt - 1)
    BY <1>0, <1>6, <2>1, <2>2 DEF Online, Offline, WireInv, TypeOK, Call
  <2>4. 0 \in Blocks
    BY <1>0 DEF Blocks
  <2>5. Trace(sAt - 1, 0) \in mB[0]
    BY <1>1, <1>4, <2>3, <2>4 DEF ShareAt
  <2>6. mB[0] (+) Encoded(sAt, 0) # VoleA(gen, 0)
    <3> DEFINE S == mB[0]
    <3> HIDE DEF S
    <3>1. Trace(sAt - 1, 0) \in S
      BY <2>5 DEF S
    <3>2. sAt - 1 \in Nat \ {sAt}
      BY <1>0, <2>2
    <3>3. S (+) Encoded(sAt, 0) # VoleA(gen, 0)
      BY <1>0, <3>1, <3>2, TraceSpoils
    <3> QED BY <3>3 DEF S
  <2>7. 1 \in 1 .. n /\ 1 - 1 = 0
    BY <1>0
  <2>8. OprfEval[1] # Decoded(gen)[1]
    BY <2>6, <2>7 DEF OprfEval, Decoded
  <2> QED BY <1>3, <1>6, <2>8
<1> QED BY <1>5, <1>6

(* What it is to be of message m.                                          *)
PayloadAt(m) == m.kind = "mP" =>
    IF Offline(rAt - 1) THEN m.blocks = Decoded(mA) ELSE m.blocks # Decoded(mA)

(* A payload under way is the one of the call the receiver is at.          *)
LEMMA StepPayload ==
    ASSUME WireInv, WireInv', ShareInv, PayloadInv, [Next]_vars
    PROVE  PayloadInv'
<1> USE DEF WireInv
<1>0. /\ Len(toR) \in Nat /\ DOMAIN toR = 1 .. Len(toR)
      /\ Len(toR') \in Nat /\ DOMAIN toR' = 1 .. Len(toR')
      /\ (toR = <<>> <=> Len(toR) = 0) /\ (toR' = <<>> <=> Len(toR') = 0)
      /\ \A i \in DOMAIN toR : PayloadAt(toR[i])
  BY Lengths DEF TypeOK, PayloadInv, PayloadAt, Decoded
<1>1. n' = n /\ plan' = plan
  BY DEF Next, SenderStep, VoleCorrection, EndOfflineSend, SendHashingSeed, RefuseSend, RecvSeed,
         RecvWr,
         RecvChunk, SendP, EndOnlineSend, ReceiverStep, VoleRequest, VoleTake, RefuseReceive,
         RecvHashingSeed, RecvCommitment, SendChunk, EndChunks, RecvOpening, RecvP, Terminated,
         vars, given
<1>2. ASSUME UNCHANGED <<rAt, mA>>, \A i \in DOMAIN toR' : PayloadAt(toR'[i])
      PROVE  PayloadInv'
  <2>1. Offline(rAt - 1)' <=> Offline(rAt - 1)
    BY <1>1, <1>2 DEF Offline
  <2> QED BY <1>1, <1>2, <2>1 DEF PayloadInv, PayloadAt, Decoded, VoleA
<1>3. CASE UNCHANGED <<toR, rAt, mA>>
  BY <1>0, <1>2, <1>3
<1>4. ASSUME UNCHANGED <<rAt, mA>>, TakeR PROVE PayloadInv'
  <2>1. Len(toR') = Len(toR) - 1 /\ \A i \in 1 .. Len(toR) - 1 : toR'[i] = toR[i + 1]
    BY <1>4, Received
  <2>2. \A i \in DOMAIN toR' : i + 1 \in DOMAIN toR /\ toR'[i] = toR[i + 1]
    BY <1>0, <2>1
  <2> QED BY <1>0, <1>2, <1>4, <2>2
<1>5. ASSUME UNCHANGED <<rAt, mA>>, NEW kind, NEW seeds, NEW blocks, SendToR(kind, seeds, blocks),
             PayloadAt(Msg(kind, sAt, seeds, blocks))
      PROVE  PayloadInv'
  <2>1. /\ Len(toR') = Len(toR) + 1
        /\ \A i \in 1 .. Len(toR) : toR'[i] = toR[i]
        /\ toR'[Len(toR) + 1] = Msg(kind, sAt, seeds, blocks)
    BY <1>5, Sent
  <2> QED BY <1>0, <1>2, <1>5, <2>1
<1>6. CASE SenderStep
  <2>1. UNCHANGED <<rAt, mA>>
    BY <1>6 DEF SenderStep, VoleCorrection, EndOfflineSend, SendHashingSeed, RefuseSend, RecvSeed,
                RecvWr,
         RecvChunk, SendP, EndOnlineSend, receiver
  <2>2. \A kind, seeds, blocks : kind # "mP" => PayloadAt(Msg(kind, sAt, seeds, blocks))
    BY DEF PayloadAt, Msg
  <2>3. CASE VoleCorrection \/ EndOfflineSend \/ RefuseSend \/ RecvChunk \/ EndOnlineSend
    BY <1>3, <2>1, <2>3 DEF VoleCorrection, EndOfflineSend, RefuseSend, RecvChunk, EndOnlineSend
  <2>4. CASE SendHashingSeed
    <3>1. SendToR("hashingSeed", {}, <<>>)
      BY <2>4 DEF SendHashingSeed
    <3>2. PayloadAt(Msg("hashingSeed", sAt, {}, <<>>))
      BY <2>2
    <3> QED BY <1>5, <2>1, <3>1, <3>2
  <2>5. CASE RecvSeed
    <3>1. SendToR("Hws", {Ws}, <<>>) \/ UNCHANGED toR
      BY <2>5 DEF RecvSeed
    <3>2. PayloadAt(Msg("Hws", sAt, {Ws}, <<>>))
      BY <2>2
    <3> QED BY <1>3, <1>5, <2>1, <3>1, <3>2
  <2>6. CASE RecvWr
    <3>1. SendToR("ws", {Ws}, <<>>)
      BY <2>6 DEF RecvWr
    <3>2. PayloadAt(Msg("ws", sAt, {Ws}, <<>>))
      BY <2>2
    <3> QED BY <1>5, <2>1, <3>1, <3>2
  <2>7. CASE SendP
    <3>1. SendToR("mP", mW, OprfEval)
      BY <2>7 DEF SendP
    <3>2. PayloadAt(Msg("mP", sAt, mW, OprfEval))
      BY <2>7, PayloadSent DEF PayloadAt, Msg
    <3> QED BY <1>5, <2>1, <3>1, <3>2
  <2> QED BY <1>6, <2>3, <2>4, <2>5, <2>6, <2>7 DEF SenderStep
<1>7. CASE RecvHashingSeed \/ RecvCommitment \/ RecvOpening
  BY <1>4, <1>7 DEF RecvHashingSeed, RecvCommitment, RecvOpening
<1>8. CASE SendChunk \/ EndChunks
  BY <1>3, <1>8 DEF SendChunk, EndChunks
<1>9. CASE VoleRequest \/ VoleTake \/ RefuseReceive \/ RecvP
  <2>1. rpc' \in {"idle", "vole", "threw"}
    BY <1>9 DEF VoleRequest, VoleTake, RefuseReceive, RecvP, ReceiverReturns
  <2>2. ASSUME NEW i \in DOMAIN toR' PROVE toR'[i].kind # "mP"
    BY <1>0, <2>1, <2>2 DEF SyncInv, IdleInv, VoleInv, ThrewInv, Silent, Behind, Is
  <2> QED BY <2>2 DEF PayloadInv
<1>10. CASE UNCHANGED vars \/ Terminated
  BY <1>3, <1>10 DEF Terminated, vars, receiver
<1> QED BY <1>6, <1>7, <1>8, <1>9, <1>10 DEF Next, ReceiverStep

-----------------------------------------------------------------------------
(* What a call decodes.                                                    *)

(* It is decided by what the plan has before the call.                     *)
LEMMA StepOutcome ==
    ASSUME WireInv, PayloadInv, RightExactlyWhenFresh, [Next]_vars
    PROVE  RightExactlyWhenFresh'
<1> USE DEF WireInv
<1> DEFINE Due(k) == IF \A j \in 1 .. k - 1 : plan[j] = "online" THEN "refused"
                     ELSE IF plan[k - 1] = "offline" THEN "right" ELSE "wrong"
<1>0. /\ rAt \in Nat /\ DOMAIN plan = 1 .. Len(plan) /\ Len(plan) \in Nat
      /\ outcome \in [DOMAIN plan -> {"none", "refused", "right", "wrong"}]
  BY DEF TypeOK
<1>1. plan' = plan
  BY DEF Next, SenderStep, VoleCorrection, EndOfflineSend, SendHashingSeed, RefuseSend, RecvSeed,
         RecvWr,
         RecvChunk, SendP, EndOnlineSend, ReceiverStep, VoleRequest, VoleTake, RefuseReceive,
         RecvHashingSeed, RecvCommitment, SendChunk, EndChunks, RecvOpening, RecvP, Terminated,
         vars, given
<1>2. ASSUME NEW o, outcome' = [outcome EXCEPT ![rAt] = o], o = Due(rAt)
      PROVE  RightExactlyWhenFresh'
  BY <1>0, <1>1, <1>2 DEF RightExactlyWhenFresh
<1>3. CASE UNCHANGED outcome
  BY <1>1, <1>3 DEF RightExactlyWhenFresh
<1>4. CASE RefuseReceive
  <2>1. mA = 0 /\ rAt = 1 /\ outcome' = [outcome EXCEPT ![rAt] = "refused"]
    BY <1>4 DEF RefuseReceive, CallsInv
  <2>2. Due(rAt) = "refused"
    BY <2>1
  <2> QED BY <1>2, <2>1, <2>2
<1>5. CASE RecvP
  <2>1. rpc = "mP" /\ toR # <<>>
    BY <1>5 DEF RecvP, TakeR
  <2>2. Len(toR) >= 1 /\ 1 \in DOMAIN toR /\ Openings = 0
    BY <2>1, Lengths DEF TypeOK, Openings
  <2>3. Is(toR[1], "mP", rAt)
    BY <2>1, <2>2 DEF SyncInv, ChunksInv, Early, Amid, Late
  <2>4. malicious => toR[1].seeds = w
    BY <2>1, <2>2, <2>3 DEF SeedsInv, Is
  <2>5. PICK j \in 1 .. rAt - 1 : plan[j] = "offline"
    BY <2>1 DEF CallsInv
  <2>6. rAt - 1 \in DOMAIN plan
    BY <1>0, <2>1, <2>5 DEF CallsInv, Online
  <2>7. IF plan[rAt - 1] = "offline" THEN toR[1].blocks = Decoded(mA)
                                     ELSE toR[1].blocks # Decoded(mA)
    BY <2>2, <2>3, <2>6 DEF PayloadInv, Decoded, Offline, Is
  <2>8. outcome' = [outcome EXCEPT ![rAt] =
                          IF toR[1].blocks = Decoded(mA) THEN "right" ELSE "wrong"]
    BY <1>5, <2>4 DEF RecvP, Decoded
  <2>9. Due(rAt) = IF toR[1].blocks = Decoded(mA) THEN "right" ELSE "wrong"
    BY <2>5, <2>7
  <2> QED BY <1>2, <2>8, <2>9
<1>6. CASE SenderStep \/ Terminated \/ UNCHANGED vars
  BY <1>3, <1>6 DEF SenderStep, VoleCorrection, EndOfflineSend, SendHashingSeed, RefuseSend,
                    RecvSeed, RecvWr,
         RecvChunk, SendP, EndOnlineSend, Terminated, vars, receiver
<1>7. CASE \/ VoleRequest \/ VoleTake \/ RecvHashingSeed \/ RecvCommitment
           \/ SendChunk \/ EndChunks \/ RecvOpening
  BY <1>3, <1>7 DEF VoleRequest, VoleTake, RecvHashingSeed, RecvCommitment, SendChunk, EndChunks,
                    RecvOpening
<1> QED BY <1>4, <1>5, <1>6, <1>7 DEF Next, ReceiverStep

(* The parts of the inductive invariant that need the vectors to be short. *)
ShortInv == WireInv /\ MaskInv /\ ShareInv /\ PayloadInv /\ RightExactlyWhenFresh

(* Together they are an invariant.                                         *)
LEMMA ShortInvariant == ASSUME ShortVectors PROVE Spec => []ShortInv
<1>1. Init => ShortInv
  <2> SUFFICES ASSUME Init PROVE ShortInv
    OBVIOUS
  <2>1. WireInv
    BY InitType, InitCalls, InitSync, InitSeeds DEF WireInv
  <2>2. MaskInv /\ ShareInv /\ PayloadInv
    BY InitMask
  <2>3. RightExactlyWhenFresh
    BY DEF Init, RightExactlyWhenFresh
  <2> QED BY <2>1, <2>2, <2>3 DEF ShortInv
<1>2. ShortInv /\ [Next]_vars => ShortInv'
  <2> SUFFICES ASSUME ShortInv, [Next]_vars PROVE ShortInv'
    OBVIOUS
  <2> USE DEF ShortInv
  <2>1. WireInv'
    BY StepWire
  <2>2. MaskInv'
    BY <2>1, StepMask
  <2>3. ShareInv'
    BY StepShare
  <2>4. PayloadInv'
    BY <2>1, StepPayload
  <2>5. RightExactlyWhenFresh'
    BY StepOutcome
  <2> QED BY <2>1, <2>2, <2>3, <2>4, <2>5
<1> QED BY <1>1, <1>2, PTL DEF Spec

(***************************************************************************)
(* With vectors of less than two chunks, every block the sender multiplies *)
(* into its share is the one of p for that position with c added once.     *)
(***************************************************************************)
THEOREM EveryBlockIsMasked == ASSUME ShortVectors PROVE Spec => []CorrectionIsMasked
<1>1. ShortInv => CorrectionIsMasked
  <2> SUFFICES ASSUME ShortInv, spc = "chunks", toS # <<>>, NEW k \in DOMAIN toS[1].blocks
               PROVE  toS[1].blocks[k] = Encoded(rAt, ppAt + k - 1) (+) VoleC(mA, ppAt + k - 1)
    BY DEF CorrectionIsMasked
  <2> USE DEF ShortInv, WireInv
  <2>0. ppAt \in Nat /\ n \in Nat /\ 1 \in DOMAIN toS /\ Len(toS) >= 1
    BY Lengths DEF TypeOK
  <2>1. Amid
    BY DEF TypeOK, SyncInv, IdleInv, VoleInv, ThrewInv, HwsInv, ChunksInv, Behind, Silent, Early,
           Late
  <2>2. toS[1].kind = "chunk"
    BY <2>0, <2>1 DEF Amid, ChunksFrom, Is
  <2>3. From(1) = ppAt
    BY <2>0, Starts DEF From
  <2> QED BY <2>0, <2>2, <2>3 DEF MaskInv, Masked
<1> QED BY <1>1, ShortInvariant, PTL

(***************************************************************************)
(* With vectors of less than two chunks, an online call decodes what was   *)
(* programmed exactly when the call before it is an offline one; before    *)
(* any offline call it is refused.  Whatever the plan.                     *)
(***************************************************************************)
THEOREM FreshCallsAreRight == ASSUME ShortVectors PROVE Spec => []RightExactlyWhenFresh
BY ShortInvariant, PTL DEF ShortInv

-----------------------------------------------------------------------------
(* The first online call as a conversation.                                *)

(* There is a first online call, and the calls before it are offline.      *)
LEMMA FirstCall ==
    ASSUME NEW q \in Seq(Call), \E k \in DOMAIN q : q[k] = "online"
    PROVE  \E k \in DOMAIN q : q[k] = "online" /\ \A j \in 1 .. k - 1 : q[j] = "offline"
<1> DEFINE T == {k \in DOMAIN q : q[k] = "online"}
<1>1. DOMAIN q = 1 .. Len(q) /\ Len(q) \in Nat
  OBVIOUS
<1>2. T \subseteq Nat /\ T # {}
  BY <1>1
<1>3. PICK k \in T : \A j \in T : ~ (<<j, k>> \in OpToRel(<, Nat))
  <2> HIDE DEF T
  <2> QED BY <1>2, WFMin, NatLessThanWellFounded, Zenon
<1>4. \A j \in T : ~ (j < k)
  BY <1>2, <1>3, Zenon DEF OpToRel
<1>5. ASSUME NEW j \in 1 .. k - 1 PROVE q[j] = "offline"
  BY <1>1, <1>4, <1>5 DEF Call
<1> QED BY <1>5

(* f is it.                                                                *)
IsFirst(f) == /\ Online(f) /\ f \in Nat \ {0} /\ \A j \in 1 .. f - 1 : Offline(j)
              /\ First = f

(* Whether the receiver has been through it, or has refused; it has sent   *)
(* nothing of an encoding before.                                          *)
AnsweredAt(f) == /\ outcome[f] = "none" <=> f > rAt \/ (f = rAt /\ rpc # "threw")
                 /\ rAt <= f /\ rpc \in {"idle", "vole"} => at = 0

AnsweredInv == \E f \in Nat : IsFirst(f) /\ AnsweredAt(f)

(* The plan has such a call.                                               *)
LEMMA InitAnswered == Init => AnsweredInv
<1> SUFFICES ASSUME Init PROVE AnsweredInv
  OBVIOUS
<1>1. plan \in Seq(Call) /\ (\E k \in DOMAIN plan : plan[k] = "online")
  BY CasesAssumption DEF Init
<1>2. DOMAIN plan = 1 .. Len(plan) /\ Len(plan) \in Nat
  BY <1>1
<1>3. \E k \in DOMAIN plan : plan[k] = "online" /\ \A j \in 1 .. k - 1 : plan[j] = "offline"
  BY <1>1, FirstCall
<1>4. /\ First \in DOMAIN plan /\ plan[First] = "online"
      /\ \A j \in 1 .. First - 1 : plan[j] = "offline"
  BY <1>3, Zenon DEF First
<1>5. IsFirst(First)
  BY <1>2, <1>4 DEF IsFirst, Online, Offline
<1>6. AnsweredAt(First)
  BY <1>2, <1>4 DEF Init, AnsweredAt
<1> QED BY <1>5, <1>6 DEF IsFirst, AnsweredInv

(* It remains the first one.                                               *)
LEMMA FirstStays ==
    ASSUME [Next]_vars, NEW f \in Nat, IsFirst(f)
    PROVE  IsFirst(f)'
<1>1. plan' = plan
  BY DEF Next, SenderStep, VoleCorrection, EndOfflineSend, SendHashingSeed, RefuseSend, RecvSeed,
         RecvWr, RecvChunk, SendP, EndOnlineSend, ReceiverStep, VoleRequest, VoleTake,
         RefuseReceive,
         RecvHashingSeed, RecvCommitment, SendChunk, EndChunks, RecvOpening, RecvP, Terminated,
         vars, given
<1>2. First' = First
  BY <1>1, Zenon DEF First
<1> QED BY <1>1, <1>2 DEF IsFirst, Online, Offline

(* The receiver goes through it once.                                      *)
LEMMA StepAnswered ==
    ASSUME WireInv, [Next]_vars, NEW f \in Nat, IsFirst(f), AnsweredAt(f)
    PROVE  AnsweredAt(f)'
<1> USE DEF WireInv
<1>0. /\ rAt \in Nat \ {0} /\ f \in DOMAIN plan
      /\ outcome \in [DOMAIN plan -> {"none", "refused", "right", "wrong"}]
  BY DEF TypeOK, IsFirst, Online
<1>1. \A k \in Nat \ {0} : /\ Online(k) => k >= f
                           /\ Offline(k) => k # f
  BY DEF IsFirst, Online, Offline
<1>2. CASE UNCHANGED <<rAt, rpc, at, outcome>>
  BY <1>2 DEF AnsweredAt
<1>3. CASE SenderStep \/ Terminated \/ UNCHANGED vars
  BY <1>2, <1>3 DEF SenderStep, VoleCorrection, EndOfflineSend, SendHashingSeed, RefuseSend,
                    RecvSeed,
         RecvWr, RecvChunk, SendP, EndOnlineSend, Terminated, vars, receiver, loop
<1>4. CASE VoleRequest \/ RecvHashingSeed \/ RecvCommitment \/ SendChunk \/ EndChunks \/ RecvOpening
  <2>1. rpc # "threw" /\ rpc' # "threw" /\ UNCHANGED <<rAt, outcome>>
    BY <1>4, OpeningHolds DEF VoleRequest, RecvHashingSeed, RecvCommitment, SendChunk, EndChunks,
         RecvOpening, ReceiverCalled
  <2>2. CASE VoleRequest
    BY <2>1, <2>2 DEF VoleRequest, ReceiverCalled, loop, AnsweredAt
  <2>3. CASE ~ VoleRequest
    <3>1. rpc' \notin {"idle", "vole"}
      BY <1>4, <2>3, OpeningHolds DEF RecvHashingSeed, RecvCommitment, SendChunk, EndChunks,
                                      RecvOpening
    <3> QED BY <2>1, <3>1 DEF AnsweredAt
  <2> QED BY <2>2, <2>3
<1>5. CASE VoleTake
  <2>1. rpc = "vole" /\ rpc' = "idle" /\ rAt' = rAt + 1 /\ UNCHANGED <<at, outcome>> /\ Offline(rAt)
    BY <1>5 DEF VoleTake, ReceiverReturns, loop, CallsInv
  <2> QED BY <1>0, <1>1, <2>1 DEF AnsweredAt
<1>6. CASE RefuseReceive
  <2>1. /\ rpc = "idle" /\ rpc' = "threw" /\ rAt' = rAt /\ Online(rAt)
        /\ outcome' = [outcome EXCEPT ![rAt] = "refused"]
    BY <1>6 DEF RefuseReceive, ReceiverCalled, Online
  <2> QED BY <1>0, <1>1, <2>1 DEF AnsweredAt
<1>7. CASE RecvP
  <2>1. /\ rpc = "mP" /\ rpc' = "idle" /\ rAt' = rAt + 1 /\ Online(rAt)
    BY <1>7 DEF RecvP, ReceiverReturns, CallsInv
  <2>2. PICK o \in {"right", "wrong"} : outcome' = [outcome EXCEPT ![rAt] = o]
    BY <1>7 DEF RecvP
  <2> QED BY <1>0, <1>1, <2>1, <2>2 DEF AnsweredAt
<1> QED BY <1>3, <1>4, <1>5, <1>6, <1>7 DEF Next, ReceiverStep

(* What of the conversation has passed when its call is call f.            *)
PassedAt(f) == IF outcome[f] = "refused" THEN "refused"
               ELSE IF outcome[f] # "none" THEN "taken"
               ELSE IF sAt > f \/ (sAt = f /\ spc = "mP") THEN "payload"
               ELSE IF rAt = f /\ at >= n THEN "answer"
               ELSE IF sAt = f /\ spc # "idle" THEN "seed" ELSE "none"

(* The receiver answers after the sender has begun.                        *)
LEMMA AnswerComesAfter ==
    ASSUME WireInv, NEW f \in Nat, IsFirst(f), AnsweredAt(f), outcome[f] = "none",
           rAt = f, at >= n
    PROVE  rpc \in {"chunks", "ws", "mP"} /\ (sAt = f => spc # "idle") /\ sAt \in {f, f + 1}
<1> USE DEF WireInv
<1>1. n \in Nat \ {0} /\ rpc # "threw" /\ (rpc \in {"idle", "vole"} => at = 0)
  BY DEF TypeOK, AnsweredAt
<1>2. rpc \in {"chunks", "ws", "mP"}
  BY <1>1 DEF TypeOK, SyncInv, HwsInv
<1> QED BY <1>2 DEF SyncInv, ChunksInv, Early, Amid, Late

(* What a step of the sender makes of it.                                  *)
LEMMA SenderConverses ==
    ASSUME WireInv, ShareInv, NEW f \in Nat, IsFirst(f), AnsweredAt(f), SenderStep,
           outcome[f] = "none"
    PROVE  \/ PassedAt(f)' = PassedAt(f)
           \/ PassedAt(f) = "none" /\ PassedAt(f)' = "seed"
           \/ PassedAt(f) = "answer" /\ PassedAt(f)' = "payload"
<1> USE DEF WireInv
<1>0. /\ sAt \in Nat \ {0} /\ rAt \in Nat \ {0} /\ n \in Nat \ {0} /\ ppAt \in 0 .. n
      /\ Chunk \in Nat \ {0} /\ Len(toS) \in Nat
  BY Lengths, ChunkAssumption DEF TypeOK
<1>1. \A k \in Nat \ {0} : (Online(k) => k >= f) /\ (Offline(k) => k # f)
  BY DEF IsFirst, Online, Offline
<1>2. UNCHANGED <<outcome, rAt, at, n>>
  BY DEF SenderStep, VoleCorrection, EndOfflineSend, SendHashingSeed, RefuseSend, RecvSeed, RecvWr,
         RecvChunk, SendP, EndOnlineSend, receiver, loop, given
<1>3. CASE SendHashingSeed
  <2>1. spc = "idle" /\ spc' = "mSeed" /\ sAt' = sAt
    BY <1>3 DEF SendHashingSeed, SenderCalled
  <2>2. sAt = f => ~ (rAt = f /\ at >= n)
    BY <1>0, <2>1, AnswerComesAfter
  <2> QED BY <1>0, <1>2, <2>1, <2>2 DEF PassedAt
<1>4. CASE VoleCorrection
  <2>1. sAt' = sAt /\ Offline(sAt)
    BY <1>4 DEF VoleCorrection, SenderCalled, Offline
  <2> QED BY <1>0, <1>1, <1>2, <2>1 DEF PassedAt
<1>5. CASE EndOfflineSend
  <2>1. sAt' = sAt + 1 /\ spc' = "idle" /\ Offline(sAt)
    BY <1>5 DEF EndOfflineSend, SenderReturns, CallsInv
  <2>2. sAt < f => ~ (rAt = f /\ at >= n)
    BY <1>0, AnswerComesAfter
  <2> QED BY <1>0, <1>1, <1>2, <2>1, <2>2 DEF PassedAt
<1>6. CASE RefuseSend \/ RecvSeed \/ RecvWr \/ RecvChunk
  <2>1. spc \notin {"idle", "mP"} /\ spc' \notin {"idle", "mP"} /\ sAt' = sAt
    BY <1>6 DEF RefuseSend, RecvSeed, RecvWr, RecvChunk
  <2> QED BY <1>0, <1>2, <2>1 DEF PassedAt
<1>7. CASE SendP
  <2>1. spc = "chunks" /\ spc' = "mP" /\ sAt' = sAt /\ ppAt = n
    BY <1>0, <1>7 DEF SendP
  <2>2. Amid
    BY <2>1 DEF TypeOK, SyncInv, IdleInv, VoleInv, ThrewInv, HwsInv, ChunksInv, Behind, Silent,
                Early,
                Late
  <2>3. rAt = sAt /\ at = Lesser(n, Start(n, Len(toS) - 0))
    BY <2>1, <2>2 DEF Amid, ChunksFrom
  <2>4. at = n
    BY <1>0, <2>3, Starts DEF Lesser, Start
  <2> QED BY <1>0, <1>2, <2>1, <2>3, <2>4 DEF PassedAt
<1>8. CASE EndOnlineSend
  <2>1. spc = "mP" /\ sAt' = sAt + 1 /\ Online(sAt)
    BY <1>8 DEF EndOnlineSend, SenderReturns, CallsInv
  <2>2. sAt >= f
    BY <1>0, <1>1, <2>1
  <2> QED BY <1>0, <1>2, <2>1, <2>2 DEF PassedAt
<1> QED BY <1>3, <1>4, <1>5, <1>6, <1>7, <1>8 DEF SenderStep

(* What a step of the receiver makes of it.                                *)
LEMMA ReceiverConverses ==
    ASSUME WireInv, RightExactlyWhenFresh', NEW f \in Nat, IsFirst(f), AnsweredAt(f),
           plan' = plan, ReceiverStep, outcome[f] = "none"
    PROVE  \/ PassedAt(f)' = PassedAt(f) /\ outcome'[f] = outcome[f]
           \/ /\ PassedAt(f) = "seed" /\ PassedAt(f)' = "refused"
              /\ f = 1 /\ outcome'[f] = "refused"
           \/ /\ PassedAt(f) = "seed" /\ PassedAt(f)' = "answer"
              /\ f > 1 /\ outcome'[f] = outcome[f]
           \/ PassedAt(f) = "payload" /\ PassedAt(f)' = "taken" /\ outcome'[f] = "right"
<1> USE DEF WireInv
<1>0. /\ sAt \in Nat \ {0} /\ rAt \in Nat \ {0} /\ n \in Nat \ {0} /\ at \in 0 .. n
      /\ outcome \in [DOMAIN plan -> {"none", "refused", "right", "wrong"}] /\ f \in DOMAIN plan
  BY DEF TypeOK, IsFirst, Online
<1>1. \A k \in Nat \ {0} : (Online(k) => k >= f) /\ (Offline(k) => k # f)
  BY DEF IsFirst, Online, Offline
<1>2. UNCHANGED <<sAt, spc, n>>
  BY DEF ReceiverStep, VoleRequest, VoleTake, RefuseReceive, RecvHashingSeed, RecvCommitment,
         SendChunk, EndChunks, RecvOpening, RecvP, sender, given
<1>3. CASE VoleRequest \/ RecvCommitment \/ EndChunks \/ RecvOpening
  <2>1. UNCHANGED <<outcome, rAt, at>>
    BY <1>3 DEF VoleRequest, RecvCommitment, EndChunks, RecvOpening, loop
  <2> QED BY <1>2, <2>1 DEF PassedAt
<1>4. CASE VoleTake
  <2>1. rpc = "vole" /\ rAt' = rAt + 1 /\ UNCHANGED <<outcome, at>> /\ Offline(rAt)
    BY <1>4 DEF VoleTake, ReceiverReturns, loop, CallsInv
  <2>2. rAt # f /\ (rAt + 1 = f => at = 0)
    BY <1>0, <1>1, <2>1 DEF AnsweredAt
  <2> QED BY <1>0, <1>2, <2>1, <2>2 DEF PassedAt
<1>5. CASE RefuseReceive
  <2>1. /\ rpc = "idle" /\ mA = 0 /\ toR # <<>> /\ Online(rAt)
        /\ outcome' = [outcome EXCEPT ![rAt] = "refused"]
    BY <1>5 DEF RefuseReceive, ReceiverCalled, TakeR, Online
  <2>2. rAt = 1 /\ f = 1
    BY <1>0, <1>1, <2>1 DEF CallsInv, IsFirst
  <2>3. sAt = 1 /\ spc \in {"mSeed", "threw"} /\ at = 0
    BY <2>1, <2>2 DEF SyncInv, IdleInv, Behind, AnsweredAt
  <2> QED BY <1>0, <2>1, <2>2, <2>3 DEF PassedAt
<1>6. CASE RecvHashingSeed
  <2>1. rpc = "idle" /\ rAt' = rAt /\ outcome' = outcome /\ at' = 0
    BY <1>6 DEF RecvHashingSeed, ReceiverCalled
  <2>2. rAt = f => at = 0
    BY <1>0, <2>1 DEF AnsweredAt
  <2> QED BY <1>0, <1>2, <2>1, <2>2 DEF PassedAt
<1>7. CASE SendChunk
  <2>1. rpc = "chunks" /\ at < n /\ rAt' = rAt /\ outcome' = outcome
    BY <1>7 DEF SendChunk
  <2>2. rAt = f
    BY <1>0, <1>1, <2>1 DEF CallsInv, AnsweredAt
  <2>3. sAt = rAt /\ spc \in {"mSeed", "wr", "chunks"}
    BY <1>0, <2>1 DEF SyncInv, ChunksInv, Early, Amid, Late
  <2>4. f > 1
    BY <1>0, <2>1, <2>2 DEF CallsInv
  <2> QED BY <1>0, <1>2, <2>1, <2>2, <2>3, <2>4 DEF PassedAt
<1>8. CASE RecvP
  <2>1. rpc = "mP" /\ toR # <<>> /\ Online(rAt) /\ (\E j \in 1 .. rAt - 1 : plan[j] = "offline")
    BY <1>8 DEF RecvP, TakeR, CallsInv
  <2>2. rAt = f
    BY <1>0, <1>1, <2>1 DEF AnsweredAt
  <2>3. Late
    BY <2>1, Lengths DEF TypeOK, SyncInv, ChunksInv, Early, Amid, Openings
  <2>4. PassedAt(f) = "payload"
    BY <1>0, <2>2, <2>3 DEF Late, PassedAt
  <2>5. PICK o \in {"right", "wrong"} : outcome' = [outcome EXCEPT ![rAt] = o]
    BY <1>8 DEF RecvP
  <2>6. outcome'[f] = o
    BY <1>0, <2>2, <2>5
  <2>7. plan[f - 1] = "offline"
    BY <1>0, <2>1, <2>2 DEF IsFirst, Offline
  <2>8. o = "right"
    BY <1>0, <2>1, <2>2, <2>6, <2>7 DEF RightExactlyWhenFresh
  <2>9. PassedAt(f)' = "taken"
    BY <2>6, <2>8 DEF PassedAt
  <2> QED BY <2>4, <2>6, <2>8, <2>9
<1> QED BY <1>3, <1>4, <1>5, <1>6, <1>7, <1>8 DEF ReceiverStep

(* A step of either end is one of the conversation, or nothing in it.      *)
LEMMA StepConversation ==
    ASSUME ShortInv, ShortInv', AnsweredInv, [Next]_vars
    PROVE  [Abstract!Next]_(Abstract!vars)
<1>1. PICK f \in Nat : IsFirst(f) /\ AnsweredAt(f)
  BY DEF AnsweredInv
<1>2. IsFirst(f)'
  BY <1>1, FirstStays
<1>3. AnsweredAt(f)'
  BY <1>1, StepAnswered DEF ShortInv
<1>4. First = f /\ First' = f
  BY <1>1, <1>2 DEF IsFirst
<1>5. Passed = PassedAt(f) /\ Passed' = PassedAt(f)'
  BY <1>4 DEF Passed, PassedAt
<1>6. plan' = plan
  BY DEF Next, SenderStep, VoleCorrection, EndOfflineSend, SendHashingSeed, RefuseSend, RecvSeed,
         RecvWr, RecvChunk, SendP, EndOnlineSend, ReceiverStep, VoleRequest, VoleTake,
         RefuseReceive,
         RecvHashingSeed, RecvCommitment, SendChunk, EndChunks, RecvOpening, RecvP, Terminated,
         vars, given
<1>7. Prepared' = Prepared
  BY <1>4 DEF Prepared
<1>8. CASE PassedAt(f)' = PassedAt(f) /\ outcome'[f] = outcome[f]
  <2>1. UNCHANGED <<Prepared, Passed, outcome[First] = "right">>
    BY <1>4, <1>5, <1>7, <1>8
  <2> QED BY <2>1 DEF Abstract!vars
<1>9. CASE outcome[f] # "none"
  <2>1. outcome'[f] = outcome[f]
    <3>1. CASE RefuseReceive \/ RecvP
      <4>1. rpc # "threw"
        BY <3>1 DEF RefuseReceive, RecvP, ReceiverCalled
      <4>2. rAt # f
        BY <1>1, <1>9, <4>1 DEF AnsweredAt, ShortInv, WireInv, TypeOK
      <4>3. PICK o : outcome' = [outcome EXCEPT ![rAt] = o]
        BY <3>1 DEF RefuseReceive, RecvP
      <4>4. outcome \in [DOMAIN plan -> {"none", "refused", "right", "wrong"}]
        BY DEF ShortInv, WireInv, TypeOK
      <4> QED BY <1>1, <4>2, <4>3, <4>4 DEF IsFirst, Online
    <3>2. CASE ~ (RefuseReceive \/ RecvP)
      BY <3>2 DEF Next, SenderStep, VoleCorrection, EndOfflineSend, SendHashingSeed, RefuseSend,
           RecvSeed, RecvWr, RecvChunk, SendP, EndOnlineSend, ReceiverStep, VoleRequest, VoleTake,
           RecvHashingSeed, RecvCommitment, SendChunk, EndChunks, RecvOpening, Terminated, vars,
           receiver
    <3> QED BY <3>1, <3>2
  <2>2. PassedAt(f)' = PassedAt(f)
    BY <1>9, <2>1 DEF PassedAt
  <2> QED BY <1>8, <2>1, <2>2
<1>10. CASE outcome[f] = "none" /\ SenderStep
  <2>1. outcome' = outcome
    BY <1>10 DEF SenderStep, VoleCorrection, EndOfflineSend, SendHashingSeed, RefuseSend, RecvSeed,
         RecvWr, RecvChunk, SendP, EndOnlineSend, receiver
  <2>2. \/ PassedAt(f)' = PassedAt(f)
        \/ PassedAt(f) = "none" /\ PassedAt(f)' = "seed"
        \/ PassedAt(f) = "answer" /\ PassedAt(f)' = "payload"
    BY <1>1, <1>10, SenderConverses DEF ShortInv
  <2>3. UNCHANGED (outcome[First] = "right")
    BY <1>4, <2>1
  <2>4. ASSUME PassedAt(f) = "none", PassedAt(f)' = "seed" PROVE Abstract!SendSeed
    BY <1>5, <1>7, <2>3, <2>4 DEF Abstract!SendSeed, Abstract!Pass
  <2>5. ASSUME PassedAt(f) = "answer", PassedAt(f)' = "payload" PROVE Abstract!SendPayload
    BY <1>5, <1>7, <2>3, <2>5 DEF Abstract!SendPayload, Abstract!Pass
  <2> QED BY <1>8, <2>1, <2>2, <2>4, <2>5 DEF Abstract!Next
<1>11. CASE outcome[f] = "none" /\ ReceiverStep
  <2>1. \/ PassedAt(f)' = PassedAt(f) /\ outcome'[f] = outcome[f]
        \/ /\ PassedAt(f) = "seed" /\ PassedAt(f)' = "refused"
           /\ f = 1 /\ outcome'[f] = "refused"
        \/ /\ PassedAt(f) = "seed" /\ PassedAt(f)' = "answer"
           /\ f > 1 /\ outcome'[f] = outcome[f]
        \/ PassedAt(f) = "payload" /\ PassedAt(f)' = "taken" /\ outcome'[f] = "right"
    BY <1>1, <1>6, <1>11, ReceiverConverses DEF ShortInv
  <2>2. ASSUME PassedAt(f) = "seed", PassedAt(f)' = "refused", f = 1, outcome'[f] = "refused"
        PROVE  Abstract!Refuse
    <3>1. UNCHANGED (outcome[First] = "right") /\ ~ Prepared
      BY <1>4, <1>11, <2>2 DEF Prepared
    <3> QED BY <1>5, <1>7, <2>2, <3>1 DEF Abstract!Refuse, Abstract!Pass
  <2>3. ASSUME PassedAt(f) = "seed", PassedAt(f)' = "answer", f > 1, outcome'[f] = outcome[f]
        PROVE  Abstract!Answer
    <3>1. UNCHANGED (outcome[First] = "right") /\ Prepared
      BY <1>4, <2>3 DEF Prepared
    <3> QED BY <1>5, <1>7, <2>3, <3>1 DEF Abstract!Answer, Abstract!Pass
  <2>4. ASSUME PassedAt(f) = "payload", PassedAt(f)' = "taken", outcome'[f] = "right"
        PROVE  Abstract!TakePayload
    <3>1. (outcome[First] = "right")' = TRUE
      BY <1>4, <2>4
    <3> QED BY <1>5, <1>7, <2>4, <3>1 DEF Abstract!TakePayload, Abstract!Pass
  <2> QED BY <1>8, <2>1, <2>2, <2>3, <2>4 DEF Abstract!Next
<1>12. CASE UNCHANGED vars \/ Terminated
  <2>1. UNCHANGED <<outcome, sAt, spc, rAt, at, n>>
    BY <1>12 DEF Terminated, vars, given, sender, receiver, loop
  <2> QED BY <1>8, <2>1 DEF PassedAt
<1> QED BY <1>9, <1>10, <1>11, <1>12 DEF Next

(***************************************************************************)
(* With vectors of less than two chunks, the first online call of a plan   *)
(* goes through the messages of a conversation in order, is refused only   *)
(* when nothing was prepared, and ends with the programmed values decoded: *)
(* what the code does is what SepPSI composes, but for its progress.       *)
(***************************************************************************)
THEOREM FirstCallConverses ==
    ASSUME ShortVectors
    PROVE  Spec => Abstract!Init /\ [][Abstract!Next]_(Abstract!vars)
<1>1. Init => Abstract!Init
  <2> SUFFICES ASSUME Init PROVE Abstract!Init
    OBVIOUS
  <2>1. PICK f \in Nat : IsFirst(f) /\ AnsweredAt(f)
    BY InitAnswered DEF AnsweredInv
  <2>2. f \in DOMAIN plan /\ First = f /\ outcome[First] = "none"
    BY <2>1 DEF IsFirst, Online, Init
  <2>3. at = 0 /\ n # 0 /\ n \in Nat /\ sAt = 1 /\ spc = "idle"
    BY InitType DEF Init, TypeOK
  <2>4. Passed = "none"
    BY <2>1, <2>2, <2>3 DEF Passed, IsFirst
  <2>5. Prepared \in BOOLEAN /\ (outcome[First] = "right") = FALSE
    BY <2>1, <2>2 DEF Prepared
  <2> QED BY <2>4, <2>5 DEF Abstract!Init
<1>2. Init => AnsweredInv
  BY InitAnswered
<1>3. ShortInv /\ AnsweredInv /\ [Next]_vars => AnsweredInv'
  <2> SUFFICES ASSUME ShortInv, AnsweredInv, [Next]_vars PROVE AnsweredInv'
    OBVIOUS
  <2>1. PICK f \in Nat : IsFirst(f) /\ AnsweredAt(f)
    BY DEF AnsweredInv
  <2>2. IsFirst(f)' /\ AnsweredAt(f)'
    BY <2>1, FirstStays, StepAnswered DEF ShortInv
  <2> QED BY <2>2 DEF AnsweredInv
<1>4. ShortInv /\ ShortInv' /\ AnsweredInv /\ [Next]_vars => [Abstract!Next]_(Abstract!vars)
  BY StepConversation
<1> QED BY <1>1, <1>2, <1>3, <1>4, ShortInvariant, PTL DEF Spec
=============================================================================
