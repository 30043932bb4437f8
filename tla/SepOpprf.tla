------------------------------- MODULE SepOpprf -------------------------------
(***************************************************************************)
(* One OPPRF instance: SepOpprfSender against SepOpprfReceiver             *)
(* (sep_opprf.cpp), with the OPRF they run inside (sep_oprf.cpp).          *)
(*                                                                         *)
(* Each end is called according to a plan, the same at both: offline, then *)
(* online, or more calls on the same objects.  Offline a VOLE is generated *)
(* on the instance's offline socket: random vectors a and c for the        *)
(* receiver, b and D for the sender, with b = a ^ c * D.  Online, message  *)
(* by message on the online socket, the receiver encodes its set in a      *)
(* vector p of n blocks and sends p ^ c in chunks, and the sender turns b  *)
(* into b ^ D * (p ^ c) = a ^ D * p.  Its value for an element of the      *)
(* receiver is then a again, which is what the receiver decodes.  That     *)
(* needs a fresh VOLE and every position received with c added once.  The  *)
(* malicious variant also derives a key w from two seeds, ws and wr, of    *)
(* which ws is committed to first.                                         *)
(*                                                                         *)
(* A block is a set of atoms under XOR, one for each random block of the   *)
(* VOLE and for each block of an encoding.  Multiplication by D keeps sums *)
(* apart or together as they are, so the sender's factor is left out.      *)
(***************************************************************************)
EXTENDS Naturals, Sequences, Blocks

CONSTANTS
    Cases,      \* what to start from: values for the variables of "given"
    Chunk       \* 1 << 28, the most blocks sent as one message

Call == {"offline", "online"}

ASSUME CasesAssumption ==
    \A case \in Cases :
        /\ case.n \in Nat \ {0}
        /\ case.malicious \in BOOLEAN /\ case.buffered \in BOOLEAN
        /\ case.plan \in Seq(Call)
        /\ \E k \in DOMAIN case.plan : case.plan[k] = "online"
ASSUME ChunkAssumption == Chunk \in Nat \ {0} /\ Chunk % 8 = 0

VARIABLES
    n,          \* paxos.size()
    malicious,  \* mMalicious, equal at both ends
    buffered,   \* TRUE: a send completes when the socket has taken the message
                \* FALSE: it completes when the peer has received it
    plan,       \* the calls, in order
    sAt, rAt,   \* the call of the plan the sender and the receiver are at
    spc, rpc,   \* where in it they are
    vole,       \* the message on the offline socket, if there is one
    gen,        \* how many VOLEs the sender has generated; mPrepared if any
    mA,         \* the VOLE the receiver's vectors a and c are of; mPrepared if any
    mB,         \* the sender's share
    toR, toS,   \* messages on their way to the receiver and to the sender
    p,          \* the receiver's vector
    moved,      \* p's storage was given away by chl.send(std::move(p))
    at,         \* where in the vectors the receiver's chunk loop is
    ppAt,       \* where in the vectors the sender's chunk loop is
    mW, w,      \* the seeds combined by the sender and by the receiver
    outcome     \* per call: whether the receiver has decoded what was programmed

given == <<n, malicious, buffered, plan>>
sender == <<sAt, spc, gen, mB, ppAt, mW>>
loop == <<p, moved, at>>
receiver == <<rAt, rpc, mA, loop, w, outcome>>
vars == <<given, sender, receiver, vole, toR, toS>>

Lesser(x, y)  == IF x <= y THEN x ELSE y
Greater(x, y) == IF x >= y THEN x ELSE y

Blocks == 0 .. n - 1

(* Block i of a and of c of VOLE g, and of the encoding made in call k.    *)
VoleA(g, i)   == {<<"a", g, i>>}
VoleC(g, i)   == {<<"c", g, i>>}
Encoded(k, i) == {<<"p", k, i>>}
Junk          == {<<"junk", 0, 0>>}

Init ==
    /\ \E case \in Cases :
          /\ n = case.n /\ plan = case.plan
          /\ malicious = case.malicious /\ buffered = case.buffered
    /\ sAt = 1 /\ spc = "idle"
    /\ rAt = 1 /\ rpc = "idle"
    /\ vole = "none" /\ gen = 0 /\ mA = 0
    /\ mB = [i \in Blocks |-> ZeroBlock]
    /\ toR = <<>> /\ toS = <<>>
    /\ p = [i \in Blocks |-> ZeroBlock]
    /\ moved = FALSE
    /\ at = 0 /\ ppAt = 0
    /\ mW = {} /\ w = {}
    /\ outcome = [k \in DOMAIN plan |-> "none"]

-----------------------------------------------------------------------------
(* The online socket, and where the ends are.                              *)

Msg(kind, call, seeds, blocks) ==
    [kind |-> kind, call |-> call, seeds |-> seeds, blocks |-> blocks]

SendToR(kind, seeds, blocks) == toR' = Append(toR, Msg(kind, sAt, seeds, blocks))
SendToS(kind, seeds, blocks) == toS' = Append(toS, Msg(kind, rAt, seeds, blocks))

TakeR == toR # <<>> /\ toR' = Tail(toR)
TakeS == toS # <<>> /\ toS' = Tail(toS)

(* A coroutine goes on after a send when the send is complete.             *)
RSendDone == buffered \/ toS = <<>>
SSendDone == buffered \/ toR = <<>>

(* The end is at the call of the plan that is next, and it is of this kind. *)
SenderCalled(call) == spc = "idle" /\ sAt \in DOMAIN plan /\ plan[sAt] = call
ReceiverCalled(call) == rpc = "idle" /\ rAt \in DOMAIN plan /\ plan[rAt] = call

SenderReturns == spc' = "idle" /\ sAt' = sAt + 1
ReceiverReturns == rpc' = "idle" /\ rAt' = rAt + 1

-----------------------------------------------------------------------------
(* Offline.                                                                *)

(* offline_receive opens the exchange.                                     *)
VoleRequest ==
    /\ ReceiverCalled("offline")
    /\ vole' = "request"
    /\ rpc' = "vole"
    /\ UNCHANGED <<given, sender, rAt, mA, loop, w, outcome, toR, toS>>

(* Faulty variant: mB is taken over from the first VOLE only.              *)
BugVoleCorrection ==
    /\ SenderCalled("offline")
    /\ vole = "request"
    /\ vole' = "correction"
    /\ gen' = gen + 1
    /\ mB' = IF gen = 0 THEN [i \in Blocks |-> VoleA(1, i) (+) VoleC(1, i)] ELSE mB
    /\ spc' = "vole"
    /\ UNCHANGED <<given, receiver, sAt, ppAt, mW, toR, toS>>

(* offline_send has a new share, and answers.                              *)
VoleCorrection ==
    /\ SenderCalled("offline")
    /\ vole = "request"
    /\ vole' = "correction"
    /\ gen' = gen + 1
    /\ mB' = [i \in Blocks |-> VoleA(gen', i) (+) VoleC(gen', i)]
    /\ spc' = "vole"
    /\ UNCHANGED <<given, receiver, sAt, ppAt, mW, toR, toS>>

EndOfflineSend ==
    /\ spc = "vole"
    /\ buffered \/ vole # "correction"
    /\ SenderReturns
    /\ UNCHANGED <<given, receiver, vole, gen, mB, ppAt, mW, toR, toS>>

(* offline_receive has the answer, and with it vectors of the new VOLE.    *)
VoleTake ==
    /\ rpc = "vole"
    /\ vole = "correction"
    /\ vole' = "none"
    /\ mA' = gen
    /\ ReceiverReturns
    /\ UNCHANGED <<given, sender, loop, w, outcome, toR, toS>>

-----------------------------------------------------------------------------
(* The sender online.                                                      *)

Ws == <<"ws", sAt>>

(* Send the seed of the OPPRF's own encoding, the first message of all.    *)
SendHashingSeed ==
    /\ SenderCalled("online")
    /\ SendToR("hashingSeed", {}, <<>>)
    /\ spc' = "mSeed"
    /\ UNCHANGED <<given, receiver, vole, sAt, gen, mB, ppAt, mW, toS>>

(* Enter the OPRF unprepared: it throws.                                   *)
RefuseSend ==
    /\ spc = "mSeed" /\ SSendDone
    /\ gen = 0
    /\ spc' = "threw"
    /\ UNCHANGED <<given, receiver, vole, sAt, gen, mB, ppAt, mW, toR, toS>>

(* Receive the seed of the OPRF's encoding; commit to ws.                  *)
RecvSeed ==
    /\ spc = "mSeed" /\ SSendDone
    /\ gen # 0
    /\ TakeS
    /\ IF malicious THEN SendToR("Hws", {Ws}, <<>>) /\ spc' = "wr"
                    ELSE UNCHANGED toR /\ spc' = "chunks"
    /\ ppAt' = 0
    /\ UNCHANGED <<given, receiver, vole, sAt, gen, mB, mW>>

(* Faulty variant: the received seed is not combined with the own one.     *)
BugRecvWr ==
    /\ spc = "wr" /\ SSendDone
    /\ TakeS
    /\ SendToR("ws", {Ws}, <<>>)
    /\ mW' = {Ws}
    /\ spc' = "chunks"
    /\ UNCHANGED <<given, receiver, vole, sAt, gen, mB, ppAt>>

(* Receive wr, open ws.                                                    *)
RecvWr ==
    /\ spc = "wr" /\ SSendDone
    /\ TakeS
    /\ SendToR("ws", {Ws}, <<>>)
    /\ mW' = toS[1].seeds (+) {Ws}
    /\ spc' = "chunks"
    /\ UNCHANGED <<given, receiver, vole, sAt, gen, mB, ppAt>>

(* subPp: what the sender's loop receives next.                            *)
Expected == Lesser(n - ppAt, Chunk)

(* Receive a chunk and multiply it into the part of mB it belongs to.      *)
RecvChunk ==
    /\ spc = "chunks" /\ SSendDone
    /\ ppAt < n
    /\ TakeS
    /\ Len(toS[1].blocks) = Expected
    /\ mB' = [i \in Blocks |-> IF i \in ppAt .. ppAt + Expected - 1
                               THEN mB[i] (+) toS[1].blocks[i - ppAt + 1] ELSE mB[i]]
    /\ ppAt' = ppAt + Expected
    /\ UNCHANGED <<given, receiver, vole, sAt, spc, gen, mW, toR>>

(***************************************************************************)
(* What the sender evaluates at the receiver's elements: the encoding it   *)
(* is to find there, added to the share it decodes from, by positions.     *)
(***************************************************************************)
OprfEval == [k \in 1 .. n |-> mB[k - 1] (+) Encoded(sAt, k - 1)]

(* The loop is left: evaluate, solve for mP and send it.                   *)
SendP ==
    /\ spc = "chunks" /\ SSendDone
    /\ ppAt >= n
    /\ SendToR("mP", mW, OprfEval)
    /\ spc' = "mP"
    /\ UNCHANGED <<given, receiver, vole, sAt, gen, mB, ppAt, mW, toS>>

EndOnlineSend ==
    /\ spc = "mP" /\ SSendDone
    /\ SenderReturns
    /\ UNCHANGED <<given, receiver, vole, gen, mB, ppAt, mW, toR, toS>>

SenderStep == \/ VoleCorrection \/ EndOfflineSend
              \/ SendHashingSeed \/ RefuseSend \/ RecvSeed \/ RecvWr \/ RecvChunk
              \/ SendP \/ EndOnlineSend

-----------------------------------------------------------------------------
(* The receiver online.                                                    *)

Wr == <<"wr", rAt>>

(* Receive the hashing seed; enter the OPRF unprepared: it throws.         *)
RefuseReceive ==
    /\ ReceiverCalled("online")
    /\ mA = 0
    /\ TakeR
    /\ rpc' = "threw"
    /\ outcome' = [outcome EXCEPT ![rAt] = "refused"]
    /\ UNCHANGED <<given, sender, vole, rAt, mA, loop, w, toS>>

(* Receive the hashing seed; enter the OPRF: send the seed of p's encoding. *)
RecvHashingSeed ==
    /\ ReceiverCalled("online")
    /\ mA # 0
    /\ TakeR
    /\ SendToS("mSeed", {}, <<>>)
    /\ p' = [i \in Blocks |-> Encoded(rAt, i)]
    /\ moved' = FALSE
    /\ at' = 0
    /\ rpc' = IF malicious THEN "Hws" ELSE "chunks"
    /\ UNCHANGED <<given, sender, vole, rAt, mA, w, outcome>>

(* Receive the commitment; p is solved; send wr.                           *)
RecvCommitment ==
    /\ rpc = "Hws" /\ RSendDone
    /\ TakeR
    /\ SendToS("wr", {Wr}, <<>>)
    /\ w' = toR[1].seeds
    /\ rpc' = "chunks"
    /\ UNCHANGED <<given, sender, vole, rAt, mA, loop, outcome>>

(***************************************************************************)
(* One iteration of "while (c.size())".  Before it, what is left of p and  *)
(* of c are the n - at blocks from at on.                                  *)
(***************************************************************************)
BugSub == Lesser(n - at, Chunk - 1)     \* Faulty variant: cut at another limit than the peer
Sub  == Lesser(n - at, Chunk)                   \* subP.size()
Left == IF n - at # Sub THEN n - at - Sub ELSE Sub  \* p.size() once subP is cut off
Main == (Sub \div 8) * 8                        \* the unrolled part of the xor loop

Xored(blocks) == [i \in Blocks |-> IF i \in blocks THEN p[i] (+) VoleC(mA, i) ELSE p[i]]

(* Faulty variant: the loop over what the unrolled one leaves is missing.  *)
BugXorNoTail == Xored(at .. at + Main - 1)

(* The loop over the rest runs up to p.size(), whatever is left of p.      *)
XorC == Xored(at .. at + Greater(Main, Left) - 1)

(* "if (p.size() != subP.size())" send subP, otherwise all that p is now.  *)
SentFrom == IF Left # Sub \/ n - at = Sub THEN at ELSE at + Sub

(***************************************************************************)
(* Blocks sent after p's storage was given away are read from released     *)
(* memory: they may or may not hold what was there.                        *)
(***************************************************************************)
SendChunk ==
    /\ rpc = "chunks" /\ RSendDone
    /\ at < n
    /\ p' = XorC
    /\ \E lost \in {moved, FALSE} :
          SendToS("chunk", {}, [k \in 1 .. Sub |->
                      IF lost THEN Junk ELSE p'[SentFrom + k - 1]])
    /\ moved' = (moved \/ Left = Sub)
    /\ at' = at + Sub
    /\ UNCHANGED <<given, sender, vole, rAt, rpc, mA, w, outcome, toR>>

(* Faulty variant: ws is awaited whatever the mode.                        *)
BugEndChunks ==
    /\ rpc = "chunks" /\ RSendDone
    /\ at >= n
    /\ rpc' = "ws"
    /\ UNCHANGED <<given, sender, vole, rAt, mA, loop, w, outcome, toR, toS>>

(* The loop is left: decode with a, and wait for ws or go on to mP.        *)
EndChunks ==
    /\ rpc = "chunks" /\ RSendDone
    /\ at >= n
    /\ rpc' = IF malicious THEN "ws" ELSE "mP"
    /\ UNCHANGED <<given, sender, vole, rAt, mA, loop, w, outcome, toR, toS>>

(* Receive ws, compare it with the commitment, combine it with wr.         *)
RecvOpening ==
    /\ rpc = "ws"
    /\ TakeR
    /\ rpc' = IF toR[1].seeds = w THEN "mP" ELSE "threw"
    /\ w' = toR[1].seeds (+) {Wr}
    /\ UNCHANGED <<given, sender, vole, rAt, mA, loop, outcome, toS>>

(***************************************************************************)
(* Receive mP and decode.  The values are those programmed if the sender   *)
(* has evaluated what the receiver decodes from a, under the same key.     *)
(***************************************************************************)
RecvP ==
    /\ rpc = "mP"
    /\ TakeR
    /\ LET same == /\ malicious => toR[1].seeds = w
                   /\ toR[1].blocks = [k \in 1 .. n |-> VoleA(mA, k - 1)]
       IN  outcome' = [outcome EXCEPT ![rAt] = IF same THEN "right" ELSE "wrong"]
    /\ ReceiverReturns
    /\ UNCHANGED <<given, sender, vole, mA, loop, w, toS>>

ReceiverStep == \/ VoleRequest \/ VoleTake
                \/ RefuseReceive \/ RecvHashingSeed \/ RecvCommitment \/ SendChunk
                \/ EndChunks \/ RecvOpening \/ RecvP

SenderEnded == spc = "threw" \/ sAt > Len(plan)
ReceiverEnded == rpc = "threw" \/ rAt > Len(plan)

(* Nothing is left to do once both ends are through the plan, or threw.    *)
Terminated == SenderEnded /\ ReceiverEnded /\ UNCHANGED vars

Next == SenderStep \/ ReceiverStep \/ Terminated

(* A coroutine that can go on is resumed.                                  *)
Fairness == WF_vars(SenderStep) /\ WF_vars(ReceiverStep)

Spec == Init /\ [][Next]_vars /\ Fairness

-----------------------------------------------------------------------------
(* Properties.                                                             *)

(***************************************************************************)
(* The messages carry no tags: a recv takes whatever comes next.  It is    *)
(* always the message the coroutine means to receive, of the call it is at *)
(* and of the size of the span it receives into, although both ends cut    *)
(* their vectors by loops of their own, and nothing is left on the sockets *)
(* when both have ended.                                                   *)
(***************************************************************************)
ExpectedByS == CASE spc = "mSeed" -> {"mSeed"} [] spc = "wr" -> {"wr"}
                 [] spc = "chunks" /\ ppAt < n -> {"chunk"} [] OTHER -> {}

ExpectedByR == CASE rpc \in {"idle", "vole"} -> {"hashingSeed"} [] rpc = "Hws" -> {"Hws"}
                 [] rpc = "chunks" -> IF malicious THEN {"ws"} ELSE {"mP"}
                 [] rpc = "ws" -> {"ws"} [] rpc = "mP" -> {"mP"} [] OTHER -> {}

Framing ==
    /\ toS # <<>> =>
           /\ toS[1].kind \in ExpectedByS
           /\ toS[1].call = sAt
           /\ toS[1].kind = "chunk" => Len(toS[1].blocks) = Expected
    /\ toR # <<>> =>
           /\ toR[1].kind \in ExpectedByR
           /\ toR[1].call >= rAt
           /\ rpc \notin {"idle", "vole"} => toR[1].call = rAt
    /\ SenderEnded /\ ReceiverEnded => toR = <<>> /\ toS = <<>> /\ vole = "none"

(***************************************************************************)
(* "send c ^ p" (sep_oprf.cpp:401): every block the sender is to multiply  *)
(* into its share is the one of p for that position, with c added once.    *)
(***************************************************************************)
CorrectionIsMasked ==
    spc = "chunks" /\ toS # <<>> =>
        \A k \in DOMAIN toS[1].blocks :
            toS[1].blocks[k] = Encoded(rAt, ppAt + k - 1) (+) VoleC(mA, ppAt + k - 1)

(***************************************************************************)
(* A VOLE is good for one online call: the correction is added to mB in    *)
(* place and mPrepared is never reset (sep_oprf.cpp:55, 151).  The call    *)
(* that follows an offline one decodes what was programmed; one that       *)
(* follows another decodes something else, without an error at either end; *)
(* one on objects never prepared is refused by both.                       *)
(***************************************************************************)
RightExactlyWhenFresh ==
    \A k \in DOMAIN plan : outcome[k] # "none" =>
        outcome[k] = IF \A j \in 1 .. k - 1 : plan[j] = "online" THEN "refused"
                     ELSE IF plan[k - 1] = "offline" THEN "right" ELSE "wrong"

(* The first online call, and whether the objects are prepared for it.     *)
First == CHOOSE k \in DOMAIN plan :
             plan[k] = "online" /\ \A j \in 1 .. k - 1 : plan[j] = "offline"
Prepared == First > 1

(***************************************************************************)
(* The malicious variant needs sockets that buffer: the sender opens ws    *)
(* before it receives chunks, and the receiver sends chunks before it      *)
(* receives ws (sep_oprf.cpp:72, 445).                                     *)
(***************************************************************************)
NeedsBuffers == malicious /\ ~buffered /\ Prepared

(* Each end waits for the other one to take what it has sent.              *)
SendsCross == spc = "chunks" /\ ~SSendDone /\ rpc = "chunks" /\ ~RSendDone

(***************************************************************************)
(* Both coroutines return from all calls, or throw; the malicious variant  *)
(* without buffers never does, and stops where its sends cross.            *)
(***************************************************************************)
Termination == <>[](IF NeedsBuffers THEN SendsCross ELSE SenderEnded /\ ReceiverEnded)

(* The last message of the conversation that has passed.                   *)
Passed == IF outcome[First] = "refused" THEN "refused"
          ELSE IF outcome[First] # "none" THEN "taken"
          ELSE IF sAt > First \/ (sAt = First /\ spc = "mP") THEN "payload"
          ELSE IF rAt = First /\ at >= n THEN "answer"
          ELSE IF sAt = First /\ spc # "idle" THEN "seed" ELSE "none"

Abstract == INSTANCE Conversation WITH
    prepared <- Prepared, msg <- Passed, right <- outcome[First] = "right"

(***************************************************************************)
(* The first online call is a conversation as SepPSI composes them: the    *)
(* receiver has answered when its last chunk is sent, and in the end it    *)
(* has decoded what the sender programmed, or both have refused.  It is    *)
(* carried through unless buffers are missing.                             *)
(***************************************************************************)
ImplementsConversation ==
    /\ Abstract!Init /\ [][Abstract!Next]_(Abstract!vars)
    /\ ~NeedsBuffers => Abstract!Fairness

-----------------------------------------------------------------------------
(* The inductive invariant behind the safety properties.                   *)

Seeds == SUBSET ({"ws", "wr"} \X Nat)
Value == SUBSET ({"a", "c", "p", "junk"} \X Nat \X Nat)
Message == [kind : {"hashingSeed", "mSeed", "Hws", "wr", "ws", "chunk", "mP"},
            call : Nat, seeds : Seeds, blocks : Seq(Value)]

(* The shape of the state (the members of sep_oprf.h and sep_opprf.h).     *)
TypeOK ==
    /\ n \in Nat \ {0} /\ malicious \in BOOLEAN /\ buffered \in BOOLEAN
    /\ plan \in Seq(Call)
    /\ sAt \in Nat \ {0} /\ spc \in {"idle", "vole", "mSeed", "wr", "chunks", "mP", "threw"}
    /\ rAt \in Nat \ {0} /\ rpc \in {"idle", "vole", "Hws", "chunks", "ws", "mP", "threw"}
    /\ vole \in {"none", "request", "correction"} /\ gen \in Nat /\ mA \in Nat
    /\ mB \in [Blocks -> Value] /\ p \in [Blocks -> Value]
    /\ toR \in Seq(Message) /\ toS \in Seq(Message)
    /\ moved \in BOOLEAN /\ at \in 0 .. n /\ ppAt \in 0 .. n
    /\ mW \in Seeds /\ w \in Seeds
    /\ outcome \in [DOMAIN plan -> {"none", "refused", "right", "wrong"}]

(***************************************************************************)
(* Each end is where it is because of the call it is at; objects are       *)
(* prepared by the calls before it, and the VOLE of the two is the same    *)
(* one unless a new one is on its way.                                     *)
(***************************************************************************)
Online(k)  == k \in DOMAIN plan /\ plan[k] = "online"
Offline(k) == k \in DOMAIN plan /\ plan[k] = "offline"

CallsInv ==
    /\ spc = "vole" => Offline(sAt)
    /\ spc \notin {"idle", "vole"} => Online(sAt)
    /\ rpc = "vole" => Offline(rAt)
    /\ rpc \notin {"idle", "vole"} => Online(rAt)
    /\ gen = 0 => sAt = 1 /\ spc \in {"idle", "mSeed", "threw"}
    /\ spc = "threw" => gen = 0
    /\ mA = 0 => rAt = 1 /\ rpc \in {"idle", "vole", "threw"}
    /\ mA # 0 => rpc # "threw" /\ \E j \in 1 .. rAt - 1 : plan[j] = "offline"
    /\ vole # "correction" => mA = gen

(***************************************************************************)
(* How far the two ends can be apart, and which messages are between them  *)
(* then.  Only the chunks can be many: those of the positions from pp on,  *)
(* after the first h messages.                                             *)
(***************************************************************************)
Is(m, kind, call) == m.kind = kind /\ m.call = call

Silent == toR = <<>> /\ toS = <<>>

(* The sender is still in the call before the receiver's.                  *)
Behind == rAt = sAt + 1 /\ spc \in {"vole", "mP"} /\ toR = <<>>

IdleInv == rpc = "idle" =>
    /\ toS = <<>> /\ vole = "none"
    /\ \/ sAt = rAt /\ spc = "idle" /\ toR = <<>>
       \/ /\ sAt = rAt /\ spc \in {"mSeed", "threw"}
          /\ Len(toR) = 1 /\ Is(toR[1], "hashingSeed", sAt)
       \/ Behind

VoleInv == rpc = "vole" =>
    /\ toS = <<>>
    /\ \/ /\ vole = "request"
          /\ (sAt = rAt /\ spc = "idle" /\ toR = <<>>) \/ Behind
       \/ /\ vole = "correction" /\ gen # 0
          /\ \/ sAt = rAt /\ spc = "vole" /\ toR = <<>>
             \/ sAt = rAt + 1 /\ spc = "idle" /\ toR = <<>>
             \/ /\ sAt = rAt + 1 /\ spc = "mSeed"
                /\ Len(toR) = 1 /\ Is(toR[1], "hashingSeed", sAt)

ThrewInv == rpc = "threw" =>
    Silent /\ vole = "none" /\ sAt = rAt /\ spc \in {"mSeed", "threw"}

HwsInv == rpc = "Hws" =>
    /\ malicious /\ vole = "none" /\ sAt = rAt /\ at = 0
    /\ \/ spc = "mSeed" /\ toR = <<>> /\ Len(toS) = 1 /\ Is(toS[1], "mSeed", rAt)
       \/ /\ spc = "wr" /\ ppAt = 0 /\ toS = <<>>
          /\ Len(toR) = 1 /\ Is(toR[1], "Hws", rAt)

Start(pp, k) == pp + k * Chunk

ChunksFrom(pp, h) ==
    /\ Len(toS) >= h
    /\ at = Lesser(n, Start(pp, Len(toS) - h))
    /\ \A i \in h + 1 .. Len(toS) :
          /\ Is(toS[i], "chunk", rAt)
          /\ Start(pp, i - h - 1) < n
          /\ Len(toS[i].blocks) = Lesser(n - Start(pp, i - h - 1), Chunk)

(* How many messages the receiver takes before mP.                         *)
Openings == IF malicious /\ rpc # "mP" THEN 1 ELSE 0

(* The sender has not begun to receive chunks, is doing so, has done so.   *)
Early == /\ sAt = rAt /\ toR = <<>>
         /\ IF malicious THEN /\ spc = "wr" /\ ppAt = 0 /\ rpc # "mP"
                              /\ Len(toS) >= 1 /\ Is(toS[1], "wr", rAt)
                         ELSE /\ spc = "mSeed"
                              /\ Len(toS) >= 1 /\ Is(toS[1], "mSeed", rAt)
         /\ ChunksFrom(0, 1)
Amid == /\ sAt = rAt /\ spc = "chunks"
        /\ Len(toR) = Openings
        /\ ChunksFrom(ppAt, 0)
Late == /\ \/ sAt = rAt /\ spc = "mP" /\ Len(toR) = Openings + 1
           \/ sAt = rAt + 1 /\ spc = "idle" /\ Len(toR) = Openings + 1
           \/ /\ sAt = rAt + 1 /\ spc = "mSeed" /\ Len(toR) = Openings + 2
              /\ Is(toR[Openings + 2], "hashingSeed", sAt)
        /\ Is(toR[Openings + 1], "mP", rAt)
        /\ toS = <<>> /\ at = n

ChunksInv == rpc \in {"chunks", "ws", "mP"} =>
    /\ vole = "none"
    /\ rpc = "ws" => malicious
    /\ rpc # "chunks" => at = n
    /\ Early \/ Amid \/ Late
    /\ Openings = 1 /\ toR # <<>> => Is(toR[1], "ws", rAt)

SyncInv == IdleInv /\ VoleInv /\ ThrewInv /\ HwsInv /\ ChunksInv

(* What the seeds in messages and at the ends are.                         *)
Key(k) == {<<"ws", k>>, <<"wr", k>>}

SeedsInv ==
    /\ \A i \in DOMAIN toR :
          /\ toR[i].kind \in {"Hws", "ws"} => toR[i].seeds = {<<"ws", toR[i].call>>}
          /\ malicious /\ toR[i].kind = "mP" => toR[i].seeds = Key(toR[i].call)
    /\ \A i \in DOMAIN toS : toS[i].kind = "wr" => toS[i].seeds = {<<"wr", toS[i].call>>}
    /\ malicious /\ spc \in {"chunks", "mP"} => mW = Key(sAt)
    /\ malicious /\ rpc \in {"chunks", "ws"} => w = {<<"ws", rAt>>}
    /\ malicious /\ rpc = "mP" => w = Key(rAt)

(***************************************************************************)
(* With less than two chunks: what is left of p has not been touched, and  *)
(* the chunks under way are p with c added once.                           *)
(***************************************************************************)
Masked(i) == Encoded(rAt, i) (+) VoleC(mA, i)

(* The position of the first block in message i to the sender.             *)
From(i) == IF spc = "chunks" THEN Start(ppAt, i - 1) ELSE Start(0, i - 2)

MaskInv ==
    /\ n < 2 * Chunk
    /\ rpc \in {"Hws", "chunks"} /\ at < n =>
          ~ moved /\ \A i \in at .. n - 1 : p[i] = Encoded(rAt, i)
    /\ \A i \in DOMAIN toS : toS[i].kind = "chunk" =>
          \A k \in DOMAIN toS[i].blocks : toS[i].blocks[k] = Masked(From(i) + k - 1)

(***************************************************************************)
(* The sender's share, by position: of a VOLE alone right after it was     *)
(* generated; with a trace of the encoding of every call it was used in    *)
(* since.  The payload is then what the receiver has to know to decode.    *)
(***************************************************************************)
Trace(k, i) == <<"p", k, i>>
Corrected(i) == spc = "mP" \/ (spc = "chunks" /\ i < ppAt)

ShareInv == \A i \in Blocks :
    /\ \A k \in Nat : Trace(k, i) \in mB[i] => k < sAt \/ (k = sAt /\ Corrected(i))
    /\ spc = "vole" => mB[i] = VoleA(gen, i) (+) VoleC(gen, i)
    /\ spc # "vole" /\ Offline(sAt - 1) =>
          mB[i] = VoleA(gen, i) (+) IF Corrected(i) THEN Encoded(sAt, i) ELSE VoleC(gen, i)
    /\ spc # "vole" /\ Online(sAt - 1) => Trace(sAt - 1, i) \in mB[i]
    /\ Corrected(i) => Trace(sAt, i) \in mB[i]

PayloadInv == \A m \in DOMAIN toR : toR[m].kind = "mP" =>
    IF Offline(rAt - 1) THEN toR[m].blocks = [k \in 1 .. n |-> VoleA(mA, k - 1)]
                        ELSE toR[m].blocks # [k \in 1 .. n |-> VoleA(mA, k - 1)]
===============================================================================
