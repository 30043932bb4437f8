------------------------------- MODULE SepPSI -------------------------------
(***************************************************************************)
(* The two-phase PSI protocol of sepVolePSI/sep_psi.cpp.                   *)
(*                                                                         *)
(* Each participant is one coroutine.  Offline it prepares one VOLE per    *)
(* OPPRF instance it will take part in, first those for zero sharing (ZS), *)
(* one in each direction with every other participant, then those for      *)
(* reconstruction (RC), one from every party to the dealer.  Online it     *)
(* runs the ZS instances on random shares, XORs what it sent and received  *)
(* into its zero shares, and sends those to the dealer through the RC      *)
(* instances.  The dealer XORs everything: an element of its set for which *)
(* the sum is ZeroBlock is in the intersection.                            *)
(*                                                                         *)
(* All instances of a phase are started together (eager tasks) and advance *)
(* independently of each other; the coroutine then awaits them one after   *)
(* the other, so it leaves the phase once its own side of every instance   *)
(* is finished.  It never waits for another participant as such.           *)
(*                                                                         *)
(* One OPPRF instance, a "conversation", is modelled here by the last      *)
(* message that was passed on its sockets; what is inside it (the OPRF,    *)
(* its chunks, the Paxos encodings) is abstracted to what it computes.     *)
(***************************************************************************)
EXTENDS Sharing

CONSTANT Cases  \* what to start from: an assignment of sets to participants, and a mode

ASSUME CasesAssumption ==
    Cases \subseteq [set : [Party -> SUBSET Elem], barrier : BOOLEAN, buffered : BOOLEAN]

VARIABLES
    set,         \* set[p]: the set p was called with
    barrier,     \* TRUE: SepPSI::run, nobody goes online before all are offline-ready
                 \* FALSE: standaloneWithAsio, each goes online as soon as it is ready
    buffered,    \* TRUE: a send completes when the socket has taken the message
                 \* FALSE: it completes when the peer has received it
    pc,          \* pc[p]: how far p's coroutine is
    vole,        \* vole[c]: last message of c's offline exchange
    opprf,       \* opprf[c]: last message of c's online exchange
    mP,          \* mP[c]: the encoding c's sender sent: element |-> programmed value
    sendShares,  \* sendShares[p][q][x]: the share p programs for q under x
    recvShares,  \* recvShares[c][x]: what c's receiver decoded under its element x
    zeroShares,  \* zeroShares[p][x]: p's result of conditional zero sharing
    result       \* the dealer's return value

vars == <<set, barrier, buffered, pc, vole, opprf, mP, sendShares, recvShares,
          zeroShares, result>>

Phase == {"init", "offZS", "offRC", "ready", "onZS", "onRC", "done"}
VoleMsg == {"none", "request", "correction", "taken"}
OpprfMsg == {"none", "seed", "answer", "payload", "taken"}

Online == {"onZS", "onRC", "done"}      \* online() has been called
Prepared == {"ready"} \cup Online       \* offline() has returned: mPrepared

(***************************************************************************)
(* The value the receiver of c computes for x from the OPRF and mP.        *)
(***************************************************************************)
Decode(c, x) == IF x \in DOMAIN mP[c] THEN mP[c][x] ELSE Noise(c, x)

(* Faulty variant: sendShares[myIdx] is never set to the sum.              *)
BugDrawNoSum(p) ==
    [q \in Party |-> [x \in set[p] |-> IF q # p THEN Share(p, q, x) ELSE ZeroBlock]]

(***************************************************************************)
(* The shares p draws: a random one for every other participant, and for   *)
(* its own index the sum of those.                                         *)
(***************************************************************************)
DrawShares(p) ==
    [q \in Party |-> [x \in set[p] |->
        IF q # p THEN Share(p, q, x)
                 ELSE XorSum(Party \ {p}, [r \in Party \ {p} |-> Share(p, r, x)])]]

(***************************************************************************)
(* The closing loop of conditionalZeroSharing: own sum ^ everything        *)
(* received.  (recvShares[myIdx] stays zero and adds nothing.)             *)
(***************************************************************************)
CombineShares(p) ==
    [x \in set[p] |->
        sendShares[p][p][x] (+)
        XorSum(Party \ {p}, [q \in Party \ {p} |-> recvShares[Zs(q, p)][x]])]

(* Faulty variant: the dealer does not add its own zero share.             *)
BugReconstructedWithoutOwn ==
    {x \in set[DealerIdx] :
        XorSum(Party \ {DealerIdx},
               [p \in Party \ {DealerIdx} |-> recvShares[Rc(p)][x]]) = ZeroBlock}

(***************************************************************************)
(* The closing loop of the dealer's conditionalReconstruction.             *)
(***************************************************************************)
Reconstructed ==
    {x \in set[DealerIdx] :
        zeroShares[DealerIdx][x] (+)
        XorSum(Party \ {DealerIdx},
               [p \in Party \ {DealerIdx} |-> recvShares[Rc(p)][x]]) = ZeroBlock}

(***************************************************************************)
(* When is a task complete?  The side that receives the last message is    *)
(* done with it; the other side when its last send completes.              *)
(***************************************************************************)
OfflineSendDone(c) == vole[c] \in IF buffered THEN {"correction", "taken"} ELSE {"taken"}
OfflineRecvDone(c) == vole[c] = "taken"
OnlineSendDone(c)  == opprf[c] \in IF buffered THEN {"payload", "taken"} ELSE {"taken"}
OnlineRecvDone(c)  == opprf[c] = "taken"

(***************************************************************************)
(* Where a participant is once it has started its tasks of c.  An eager    *)
(* task runs on by itself, whatever the participant does next.             *)
(***************************************************************************)
OfflineStarted(c) == IF c.kind = "zs" THEN Phase \ {"init"} ELSE Phase \ {"init", "offZS"}
OnlineStarted(c)  == IF c.kind = "zs" THEN Online ELSE {"onRC", "done"}

(* What the sender of c programs, for each element of its set.             *)
Programmed(c) == IF c.kind = "zs" THEN sendShares[c.from][c.to] ELSE zeroShares[c.from]

Init ==
    /\ \E case \in Cases :
           set = case.set /\ barrier = case.barrier /\ buffered = case.buffered
    /\ pc = [p \in Party |-> "init"]
    /\ vole = [c \in Conv |-> "none"]
    /\ opprf = [c \in Conv |-> "none"]
    /\ mP = [c \in Conv |-> Empty({})]
    /\ sendShares = [p \in Party |-> [q \in Party |-> Empty(set[p])]]
    /\ recvShares = [c \in Conv |-> Empty(set[c.to])]
    /\ zeroShares = [p \in Party |-> Empty(set[p])]
    /\ result = {}

GoTo(p, from, to) == pc[p] = from /\ pc' = [pc EXCEPT ![p] = to]
data == <<mP, sendShares, recvShares, zeroShares, result>>

-----------------------------------------------------------------------------
(* Offline.                                                                *)

(* offline() is called; offlinePhaseForZS starts its 2(n-1) eager tasks.   *)
StartOffline(p) ==
    /\ GoTo(p, "init", "offZS")
    /\ UNCHANGED <<set, barrier, buffered, vole, opprf, data>>

(***************************************************************************)
(* The VOLE exchange of c, on c's offline socket: c's OPPRF receiver opens *)
(* it, the sender answers and is prepared, the receiver takes the answer   *)
(* and is prepared.                                                        *)
(***************************************************************************)
VoleRequest(c) ==
    /\ vole[c] = "none"
    /\ pc[c.to] \in OfflineStarted(c)
    /\ vole' = [vole EXCEPT ![c] = "request"]
    /\ UNCHANGED <<set, barrier, buffered, pc, opprf, data>>

VoleCorrection(c) ==
    /\ vole[c] = "request"
    /\ pc[c.from] \in OfflineStarted(c)
    /\ vole' = [vole EXCEPT ![c] = "correction"]
    /\ UNCHANGED <<set, barrier, buffered, pc, opprf, data>>

VoleTake(c) ==
    /\ vole[c] = "correction"
    /\ pc[c.to] \in OfflineStarted(c)
    /\ vole' = [vole EXCEPT ![c] = "taken"]
    /\ UNCHANGED <<set, barrier, buffered, pc, opprf, data>>

(* Faulty variant: only the send tasks are awaited.                        *)
BugEndOfflineZSSendsOnly(p) ==
    /\ GoTo(p, "offZS", "offRC")
    /\ \A q \in Party \ {p} : OfflineSendDone(Zs(p, q))
    /\ UNCHANGED <<set, barrier, buffered, vole, opprf, data>>

(* All tasks of offlinePhaseForZS awaited; offlinePhaseForRC is entered.   *)
EndOfflineZS(p) ==
    /\ GoTo(p, "offZS", "offRC")
    /\ \A q \in Party \ {p} : OfflineSendDone(Zs(p, q)) /\ OfflineRecvDone(Zs(q, p))
    /\ UNCHANGED <<set, barrier, buffered, vole, opprf, data>>

(* A party has awaited its one RC task: offline() returns.                 *)
EndOffline(p) ==
    /\ p # DealerIdx
    /\ GoTo(p, "offRC", "ready")
    /\ OfflineSendDone(Rc(p))
    /\ UNCHANGED <<set, barrier, buffered, vole, opprf, data>>

(* The dealer has awaited the RC tasks of all parties.                     *)
DealerEndOffline ==
    /\ GoTo(DealerIdx, "offRC", "ready")
    /\ \A p \in Party \ {DealerIdx} : OfflineRecvDone(Rc(p))
    /\ UNCHANGED <<set, barrier, buffered, vole, opprf, data>>

-----------------------------------------------------------------------------
(* Online.                                                                 *)

(***************************************************************************)
(* SepPSI::run starts online() once everyone's offline() has been awaited; *)
(* in standaloneWithAsio it follows the participant's own offline().       *)
(***************************************************************************)
MayGoOnline == barrier => \A q \in Party : pc[q] \in Prepared

(***************************************************************************)
(* online() is called: conditionalZeroSharing draws the shares and starts  *)
(* its 2(n-1) eager tasks.                                                 *)
(***************************************************************************)
StartOnline(p) ==
    /\ GoTo(p, "ready", "onZS")
    /\ MayGoOnline
    /\ sendShares' = [sendShares EXCEPT ![p] = DrawShares(p)]
    /\ UNCHANGED <<set, barrier, buffered, vole, opprf, mP, recvShares, zeroShares, result>>

(* The OPPRF sender opens c with its hashing seed.                         *)
SendSeed(c) ==
    /\ opprf[c] = "none"
    /\ pc[c.from] \in OnlineStarted(c)
    /\ opprf' = [opprf EXCEPT ![c] = "seed"]
    /\ UNCHANGED <<set, barrier, buffered, pc, vole, data>>

(* Faulty variant: tasks without make_eager, each started when the one     *)
(* before it in the await loop is complete.                                *)
BugAnswerLazily(c) ==
    /\ opprf[c] = "seed"
    /\ pc[c.to] \in OnlineStarted(c)
    /\ c.kind = "zs" => OnlineSendDone(Zs(c.to, c.from))
    /\ opprf' = [opprf EXCEPT ![c] = "answer"]
    /\ UNCHANGED <<set, barrier, buffered, pc, vole, data>>

(* The receiver takes it and sends its own seed and its masked encoding.   *)
Answer(c) ==
    /\ opprf[c] = "seed"
    /\ pc[c.to] \in OnlineStarted(c)
    /\ opprf' = [opprf EXCEPT ![c] = "answer"]
    /\ UNCHANGED <<set, barrier, buffered, pc, vole, data>>

(* Faulty variant: the spans of the two tasks for a participant are mixed up.*)
BugSendPayload(c) ==
    /\ opprf[c] = "answer"
    /\ pc[c.from] \in OnlineStarted(c)
    /\ opprf' = [opprf EXCEPT ![c] = "payload"]
    /\ mP' = [mP EXCEPT ![c] = IF c.kind = "zs" THEN recvShares[Zs(c.to, c.from)]
                                                ELSE zeroShares[c.from]]
    /\ UNCHANGED <<set, barrier, buffered, pc, vole, sendShares, recvShares, zeroShares, result>>

(* The sender takes that and sends mP: x |-> the value programmed for x.   *)
SendPayload(c) ==
    /\ opprf[c] = "answer"
    /\ pc[c.from] \in OnlineStarted(c)
    /\ opprf' = [opprf EXCEPT ![c] = "payload"]
    /\ mP' = [mP EXCEPT ![c] = Programmed(c)]
    /\ UNCHANGED <<set, barrier, buffered, pc, vole, sendShares, recvShares, zeroShares, result>>

(* Faulty variant: it fills its vector in the order of the sender's set.   *)
BugTakeBySendersSet(c) ==
    /\ opprf[c] = "payload"
    /\ pc[c.to] \in OnlineStarted(c)
    /\ opprf' = [opprf EXCEPT ![c] = "taken"]
    /\ recvShares' = [recvShares EXCEPT ![c] = [x \in set[c.from] |-> Decode(c, x)]]
    /\ UNCHANGED <<set, barrier, buffered, pc, vole, mP, sendShares, zeroShares, result>>

(* The receiver takes mP and decodes it for every element of its set.      *)
TakePayload(c) ==
    /\ opprf[c] = "payload"
    /\ pc[c.to] \in OnlineStarted(c)
    /\ opprf' = [opprf EXCEPT ![c] = "taken"]
    /\ recvShares' = [recvShares EXCEPT ![c] = [x \in set[c.to] |-> Decode(c, x)]]
    /\ UNCHANGED <<set, barrier, buffered, pc, vole, mP, sendShares, zeroShares, result>>

(* Faulty variant: the await loop stops before the last participant.       *)
BugEndOnlineSkipsLast(p) ==
    /\ GoTo(p, "onZS", "onRC")
    /\ \A q \in Party \ {p, NParties - 1} :
          OnlineSendDone(Zs(p, q)) /\ OnlineRecvDone(Zs(q, p))
    /\ zeroShares' = [zeroShares EXCEPT ![p] = CombineShares(p)]
    /\ UNCHANGED <<set, barrier, buffered, vole, opprf, mP, sendShares, recvShares, result>>

(* Faulty variant: only the send tasks are awaited.                        *)
BugEndOnlineSendsOnly(p) ==
    /\ GoTo(p, "onZS", "onRC")
    /\ \A q \in Party \ {p} : OnlineSendDone(Zs(p, q))
    /\ zeroShares' = [zeroShares EXCEPT ![p] = CombineShares(p)]
    /\ UNCHANGED <<set, barrier, buffered, vole, opprf, mP, sendShares, recvShares, result>>

(* All tasks of conditionalZeroSharing awaited: combine, go on to RC.      *)
EndOnlineZS(p) ==
    /\ GoTo(p, "onZS", "onRC")
    /\ \A q \in Party \ {p} : OnlineSendDone(Zs(p, q)) /\ OnlineRecvDone(Zs(q, p))
    /\ zeroShares' = [zeroShares EXCEPT ![p] = CombineShares(p)]
    /\ UNCHANGED <<set, barrier, buffered, vole, opprf, mP, sendShares, recvShares, result>>

(* A party's online_send to the dealer is complete: its call returns.      *)
EndOnline(p) ==
    /\ p # DealerIdx
    /\ GoTo(p, "onRC", "done")
    /\ OnlineSendDone(Rc(p))
    /\ UNCHANGED <<set, barrier, buffered, vole, opprf, data>>

(* Faulty variant: the await loop starts at participant 1.                 *)
BugReconstructSkipsFirst ==
    /\ GoTo(DealerIdx, "onRC", "done")
    /\ \A p \in Party \ {DealerIdx, (DealerIdx + 1) % NParties} : OnlineRecvDone(Rc(p))
    /\ result' = Reconstructed
    /\ UNCHANGED <<set, barrier, buffered, vole, opprf, mP, sendShares, recvShares, zeroShares>>

(* The dealer has awaited all its RC tasks: it returns the intersection.   *)
Reconstruct ==
    /\ GoTo(DealerIdx, "onRC", "done")
    /\ \A p \in Party \ {DealerIdx} : OnlineRecvDone(Rc(p))
    /\ result' = Reconstructed
    /\ UNCHANGED <<set, barrier, buffered, vole, opprf, mP, sendShares, recvShares, zeroShares>>

-----------------------------------------------------------------------------
(* What participant p does by itself, and what advances conversation c.    *)
PartyStep(p) == \/ StartOffline(p) \/ EndOfflineZS(p) \/ EndOffline(p)
                \/ StartOnline(p) \/ EndOnlineZS(p) \/ EndOnline(p)
                \/ p = DealerIdx /\ (DealerEndOffline \/ Reconstruct)

ConvStep(c) == \/ VoleRequest(c) \/ VoleCorrection(c) \/ VoleTake(c)
               \/ SendSeed(c) \/ Answer(c) \/ SendPayload(c) \/ TakePayload(c)

AllDone == \A p \in Party : pc[p] = "done"

(* Nothing is left to do once every call has returned.                     *)
Terminated == AllDone /\ UNCHANGED vars

Next == \/ \E p \in Party : PartyStep(p)
        \/ \E c \in Conv : ConvStep(c)
        \/ Terminated

(***************************************************************************)
(* A coroutine that can go on is resumed, and a message on a socket is     *)
(* delivered: every participant and every conversation is treated weakly   *)
(* fairly.                                                                 *)
(***************************************************************************)
Fairness == /\ \A p \in Party : WF_vars(PartyStep(p))
            /\ \A c \in Conv : WF_vars(ConvStep(c))

Spec == Init /\ [][Next]_vars /\ Fairness

-----------------------------------------------------------------------------
(* Properties.                                                             *)

(***************************************************************************)
(* The shape of the state.  A vector of blocks is indexed by the elements  *)
(* of the set it belongs to: what a participant decodes (recvShares) and   *)
(* combines (zeroShares) by its own set, what is sent by the sender's.     *)
(***************************************************************************)
TypeOK ==
    /\ set \in [Party -> SUBSET Elem]
    /\ barrier \in BOOLEAN /\ buffered \in BOOLEAN
    /\ pc \in [Party -> Phase]
    /\ vole \in [Conv -> VoleMsg]
    /\ opprf \in [Conv -> OpprfMsg]
    /\ DOMAIN mP = Conv
    /\ \A c \in Conv : mP[c] = Empty({}) \/ mP[c] \in [set[c.from] -> Block]
    /\ DOMAIN sendShares = Party
    /\ \A p \in Party : sendShares[p] \in [Party -> [set[p] -> Block]]
    /\ DOMAIN recvShares = Conv
    /\ \A c \in Conv : recvShares[c] \in [set[c.to] -> Block]
    /\ DOMAIN zeroShares = Party
    /\ \A p \in Party : zeroShares[p] \in [set[p] -> Block]
    /\ result \in SUBSET set[DealerIdx]

InAll == {x \in Elem : \A p \in Party : x \in set[p]}

(***************************************************************************)
(* The dealer returns exactly the elements all the sets have: no element   *)
(* is missed and none is reported that a participant lacks, however the    *)
(* conversations interleave (SepPSIDealer::online's return value).         *)
(***************************************************************************)
ResultIsIntersection == pc[DealerIdx] = "done" => result = InAll

(***************************************************************************)
(* The promise of conditional zero sharing (conditionalZeroSharing's       *)
(* result): once all have combined, the shares that the owners of x hold   *)
(* under x cancel if, and only if, everybody owns x.                       *)
(***************************************************************************)
Owners(x) == {p \in Party : x \in set[p]}
SharesCancelExactly ==
    (\A p \in Party : pc[p] \in {"onRC", "done"}) =>
        \A x \in UNION {set[p] : p \in Party} :
            XorSum(Owners(x), [p \in Owners(x) |-> zeroShares[p][x]]) = ZeroBlock
            <=> Owners(x) = Party

(***************************************************************************)
(* Without a barrier participants drift, but never by more than a phase:   *)
(* whoever has finished a phase has exchanged messages with all the others *)
(* in it.  In particular nobody sends zero shares to the dealer while      *)
(* someone is still offline (the await loops of offlinePhaseForZS and      *)
(* conditionalZeroSharing are the only synchronisation there is).          *)
(***************************************************************************)
DriftIsBounded ==
    \A p, q \in Party :
        /\ pc[p] \notin {"init", "offZS"} => pc[q] # "init"
        /\ pc[p] \in {"onRC", "done"} => pc[q] \in Online

(***************************************************************************)
(* When the dealer returns nobody needs it any more: everybody has         *)
(* combined its shares and no message is waiting on any socket.  The       *)
(* dealer destroys its sockets then, and test_with_asio releases the       *)
(* io_contexts of the parties (exp.cpp:297).                               *)
(***************************************************************************)
DealerReturnsLast ==
    pc[DealerIdx] = "done" =>
        /\ \A p \in Party : pc[p] \in {"onRC", "done"}
        /\ \A c \in Conv : opprf[c] = "taken"

(***************************************************************************)
(* Neither end of an OPPRF uses its VOLE before its own offline exchange   *)
(* is complete: the "if (!mPrepared) throw" of online_send and             *)
(* online_receive (sep_oprf.cpp:55 and 334) is never reached, although the *)
(* two ends go online at different times.                                  *)
(***************************************************************************)
PreparedBeforeUse ==
    [][\A c \in Conv :
         /\ opprf[c] = "none" /\ opprf'[c] = "seed" => OfflineSendDone(c)
         /\ opprf[c] = "seed" /\ opprf'[c] = "answer" => OfflineRecvDone(c)]_vars

(***************************************************************************)
(* Nothing is written into a participant's share vectors, and no payload   *)
(* is made from them, after the participant has combined its shares: the   *)
(* eager tasks hold views into vectors of the conditionalZeroSharing frame *)
(* and must not outlive it.                                                *)
(***************************************************************************)
NoTaskOutlivesItsFrame ==
    [][\A c \in ZsConv :
         /\ pc[c.to] \in {"onRC", "done"} => recvShares'[c] = recvShares[c]
         /\ pc[c.from] \in {"onRC", "done"} => mP'[c] = mP[c]]_vars

(* Every call returns, at every participant.                               *)
Termination == <>AllDone

(***************************************************************************)
(* The protocol implements the ideal intersection: a participant submits   *)
(* its set by going online, the dealer delivers by returning.              *)
(***************************************************************************)
Ideal == INSTANCE Psi WITH
    Dealer <- DealerIdx,
    submitted <- {p \in Party : pc[p] \in Online},
    returned <- {p \in Party : pc[p] = "done"},
    output <- result

ImplementsIdeal == Ideal!Spec

(* The same without the promise that something happens.                    *)
ImplementsIdealSafely == Ideal!Init /\ [][Ideal!Next]_(Ideal!vars)

(***************************************************************************)
(* Every OPPRF instance is the conversation that SepOpprf implements: it   *)
(* is never refused, and when its last message has been taken the receiver *)
(* holds, under every element of both sets, what the sender's vector has   *)
(* there, then and ever after, although the vector is filled by one task   *)
(* and read by another (the spans given to online_send, online_receive).   *)
(***************************************************************************)
Right(c) == /\ opprf[c] = "taken"
            /\ \A x \in set[c.from] \cap set[c.to] : recvShares[c][x] = Programmed(c)[x]

Talk(c) == INSTANCE Conversation WITH
    prepared <- TRUE,
    msg <- opprf[c],
    right <- Right(c)

ImplementsConversations ==
    /\ \A c \in Conv : Talk(c)!Init
    /\ [][\A c \in Conv : [Talk(c)!Next]_(Talk(c)!vars)]_vars

(***************************************************************************)
(* The control of the online phase is that of PsiFaults, when nothing      *)
(* fails: who goes on when, and which messages have passed by then.  So    *)
(* what is said there of a fault is said of this protocol.                 *)
(***************************************************************************)
Stage(p) == CASE pc[p] = "onZS" -> "zs"
              [] pc[p] = "onRC" -> "rc"
              [] pc[p] = "done" -> "returned"
              [] OTHER          -> "ready"
Channel(c) == IF opprf[c] \in {"payload", "taken"} THEN opprf[c] ELSE "open"

Faultless == INSTANCE PsiFaults WITH
    Settings <- [mode : {"run", "asio"}, buffered : BOOLEAN],
    Faults <- {{}},
    mode <- IF barrier THEN "run" ELSE "asio",
    fault <- {}, broken <- {}, threw <- {}, closed <- {},
    pc <- [p \in Party |-> Stage(p)],
    conv <- [c \in Conv |-> Channel(c)],
    taskIdx <- 0, res <- "none"

ImplementsFaultless == Faultless!Init /\ [][Faultless!Next]_(Faultless!vars)

-----------------------------------------------------------------------------
(* The inductive invariant behind the safety properties.                   *)

(***************************************************************************)
(* What the messages say about the two ends of a conversation: an end has  *)
(* reached the phase in which it sends what it has sent.                   *)
(***************************************************************************)
SentByEnds ==
    \A c \in Conv :
        /\ vole[c] # "none" => pc[c.to] # "init"
        /\ vole[c] \in {"correction", "taken"} => pc[c.from] # "init"
        /\ opprf[c] # "none" => pc[c.from] \in Online
        /\ opprf[c] \in {"answer", "payload", "taken"} => pc[c.to] \in Online
        /\ c.kind = "rc" /\ opprf[c] # "none" => pc[c.from] \in {"onRC", "done"}
        /\ c.kind = "rc" /\ opprf[c] \in {"answer", "payload", "taken"} =>
              pc[c.to] \in {"onRC", "done"}

(* What the phase of a participant says about its conversations.           *)
Awaited ==
    /\ \A c \in ZsConv :
        /\ pc[c.from] \notin {"init", "offZS"} => OfflineSendDone(c)
        /\ pc[c.to] \notin {"init", "offZS"} => OfflineRecvDone(c)
        /\ pc[c.from] \in {"onRC", "done"} => OnlineSendDone(c)
        /\ pc[c.to] \in {"onRC", "done"} => OnlineRecvDone(c)
    /\ \A c \in RcConv :
        /\ pc[c.from] \in Prepared => OfflineSendDone(c)
        /\ pc[c.to] \in Prepared => OfflineRecvDone(c)
        /\ pc[c.from] = "done" => OnlineSendDone(c)
        /\ pc[c.to] = "done" => OnlineRecvDone(c)

ControlInv == SentByEnds /\ Awaited

(***************************************************************************)
(* What the vectors hold, in terms of the sets alone.                      *)
(***************************************************************************)
DataInv ==
    /\ \A p \in Party :
        /\ pc[p] \in Online => sendShares[p] = DrawShares(p)
        /\ pc[p] \in {"onRC", "done"} =>
               \A x \in set[p] : zeroShares[p][x] = ZeroShare(set, p, x)
    /\ \A c \in ZsConv :
        /\ opprf[c] \in {"payload", "taken"} => mP[c] = sendShares[c.from][c.to]
        /\ opprf[c] = "taken" => \A x \in set[c.to] : recvShares[c][x] = ZsValue(set, c, x)
    /\ \A c \in RcConv :
        /\ opprf[c] \in {"payload", "taken"} => mP[c] = zeroShares[c.from]
        /\ opprf[c] = "taken" => \A x \in set[c.to] : recvShares[c][x] = RcValue(set, c, x)
    /\ pc[DealerIdx] = "done" => result = Reconstructed
    /\ pc[DealerIdx] # "done" => result = {}
=============================================================================
