------------------------------ MODULE MonoPSI ------------------------------
(***************************************************************************)
(* The one-phase PSI protocol of monoVolePSI/mono_psi.cpp, as MonoPSI::run *)
(* executes it over local sockets.                                         *)
(*                                                                         *)
(* MonoPSI::online starts the participants one by one, each a coroutine    *)
(* that runs on by itself, and then awaits them one by one.  A participant *)
(* draws its shares, exchanges them with every other participant through   *)
(* two OPPRF instances (zero sharing, ZS), combines them, and sends the    *)
(* result to the dealer through a third (reconstruction, RC).              *)
(*                                                                         *)
(* The OPPRF is volePSI's own, which prepares itself as part of each use   *)
(* (nothing is done offline).  Of it is modelled that both ends must take  *)
(* part before the sender can encode its values, and what the receiver     *)
(* then decodes.                                                           *)
(***************************************************************************)
EXTENDS Sharing

CONSTANT Inputs  \* the assignments of sets to participants to start from

ASSUME InputsAssumption == Inputs \subseteq [Party -> SUBSET Elem]

VARIABLES
    set,           \* set[p]: items[p]
    started,       \* how many participants MonoPSI::online has started
    awaited,       \* how many of them it has awaited
    intersection,  \* what it holds as the result
    pc,            \* pc[p]: how far p's coroutine is
    opprf,         \* opprf[c]: how far OPPRF instance c is
    mP,            \* mP[c]: the encoding c's sender sent: element |-> value
    sendShares,    \* sendShares[p][q][x]: the share p programs for q under x
    recvShares,    \* recvShares[c][x]: what c's receiver decoded under x
    zeroShares,    \* zeroShares[p][x]: p's result of conditional zero sharing
    result         \* what the dealer's coroutine returns

data == <<mP, sendShares, recvShares, zeroShares, result>>
caller == <<set, started, awaited, intersection>>
vars == <<caller, pc, opprf, data>>

Init ==
    /\ set \in Inputs
    /\ started = 0
    /\ awaited = 0
    /\ intersection = {}
    /\ pc = [p \in Party |-> "init"]
    /\ opprf = [c \in Conv |-> "none"]
    /\ mP = [c \in Conv |-> Empty({})]
    /\ sendShares = [p \in Party |-> [q \in Party |-> Empty(set[p])]]
    /\ recvShares = [c \in Conv |-> Empty(set[c.to])]
    /\ zeroShares = [p \in Party |-> Empty(set[p])]
    /\ result = {}

-----------------------------------------------------------------------------
(* MonoPSI::online and MonoPSI::run.                                       *)

(* Random shares for the others, and their sum as the own one.             *)
DrawShares(p) ==
    [q \in Party |-> [x \in set[p] |->
        IF q # p THEN Share(p, q, x)
                 ELSE XorSum(Party \ {p}, [r \in Party \ {p} |-> Share(p, r, x)])]]

(* Faulty variant: without make_eager, one runs to its end before the next.*)
BugStartNext ==
    /\ started < NParties
    /\ started > 0 => pc[started - 1] = "done"
    /\ started' = started + 1
    /\ pc' = [pc EXCEPT ![started] = "zeroSharing"]
    /\ sendShares' = [sendShares EXCEPT ![started] = DrawShares(started)]
    /\ UNCHANGED <<set, awaited, intersection, opprf, mP, recvShares, zeroShares, result>>

(***************************************************************************)
(* The next participant is started: it draws its shares and starts its     *)
(* eager tasks for zero sharing.                                           *)
(***************************************************************************)
StartNext ==
    /\ started < NParties
    /\ started' = started + 1
    /\ pc' = [pc EXCEPT ![started] = "zeroSharing"]
    /\ sendShares' = [sendShares EXCEPT ![started] = DrawShares(started)]
    /\ UNCHANGED <<set, awaited, intersection, opprf, mP, recvShares, zeroShares, result>>

(* Faulty variant: only the dealer is awaited.                             *)
BugAwaitNext ==
    /\ started = NParties
    /\ awaited < NParties
    /\ awaited = DealerIdx => pc[awaited] = "done"
    /\ awaited' = awaited + 1
    /\ intersection' = IF awaited = DealerIdx THEN result ELSE intersection
    /\ UNCHANGED <<set, started, pc, opprf, data>>

(* The next participant's coroutine has ended; the dealer's has a value.   *)
AwaitNext ==
    /\ started = NParties
    /\ awaited < NParties
    /\ pc[awaited] = "done"
    /\ awaited' = awaited + 1
    /\ intersection' = IF awaited = DealerIdx THEN result ELSE intersection
    /\ UNCHANGED <<set, started, pc, opprf, data>>

RunReturns == awaited = NParties

-----------------------------------------------------------------------------
(* One OPPRF instance.                                                     *)

(* The end p of c has been started: its task runs on by itself.            *)
TaskStarted(p, c) ==
    pc[p] \in IF c.kind = "zs" THEN {"zeroSharing", "reconstruction", "done"}
                               ELSE {"reconstruction", "done"}

(* The two ends prepare the OPRF between them.                             *)
Prepare(c) ==
    /\ opprf[c] = "none"
    /\ TaskStarted(c.from, c) /\ TaskStarted(c.to, c)
    /\ opprf' = [opprf EXCEPT ![c] = "prepared"]
    /\ UNCHANGED <<caller, pc, data>>

(* The values the sender programs, as they are when it encodes them.       *)
Programmed(c) == IF c.kind = "zs" THEN sendShares[c.from][c.to] ELSE zeroShares[c.from]

SendPayload(c) ==
    /\ opprf[c] = "prepared"
    /\ TaskStarted(c.from, c)
    /\ opprf' = [opprf EXCEPT ![c] = "payload"]
    /\ mP' = [mP EXCEPT ![c] = Programmed(c)]
    /\ UNCHANGED <<caller, pc, sendShares, recvShares, zeroShares, result>>

(* What the receiver decodes for x.                                        *)
Decode(c, x) == IF x \in DOMAIN mP[c] THEN mP[c][x] ELSE Noise(c, x)

TakePayload(c) ==
    /\ opprf[c] = "payload"
    /\ TaskStarted(c.to, c)
    /\ opprf' = [opprf EXCEPT ![c] = "taken"]
    /\ recvShares' = [recvShares EXCEPT ![c] = [x \in set[c.to] |-> Decode(c, x)]]
    /\ UNCHANGED <<caller, pc, mP, sendShares, zeroShares, result>>

(* An end is done with what it sends when it has sent it.                  *)
SendDone(c) == opprf[c] \in {"payload", "taken"}
RecvDone(c) == opprf[c] = "taken"

-----------------------------------------------------------------------------
(* One participant.                                                        *)

(* The closing loop of conditionalZeroSharing.                             *)
CombineShares(p) ==
    [x \in set[p] |->
        sendShares[p][p][x] (+)
        XorSum(Party \ {p}, [q \in Party \ {p} |-> recvShares[Zs(q, p)][x]])]

(* Faulty variant: only the receiving tasks are awaited.                   *)
BugEndZeroSharing(p) ==
    /\ pc[p] = "zeroSharing"
    /\ \A q \in Party \ {p} : RecvDone(Zs(q, p))
    /\ pc' = [pc EXCEPT ![p] = "reconstruction"]
    /\ zeroShares' = [zeroShares EXCEPT ![p] = CombineShares(p)]
    /\ UNCHANGED <<caller, opprf, mP, sendShares, recvShares, result>>

(* All tasks awaited: combine, and start the task(s) for reconstruction.   *)
EndZeroSharing(p) ==
    /\ pc[p] = "zeroSharing"
    /\ \A q \in Party \ {p} : SendDone(Zs(p, q)) /\ RecvDone(Zs(q, p))
    /\ pc' = [pc EXCEPT ![p] = "reconstruction"]
    /\ zeroShares' = [zeroShares EXCEPT ![p] = CombineShares(p)]
    /\ UNCHANGED <<caller, opprf, mP, sendShares, recvShares, result>>

(* A party has sent its zero shares to the dealer: its coroutine ends.     *)
EndOnline(p) ==
    /\ p # DealerIdx
    /\ pc[p] = "reconstruction"
    /\ SendDone(Rc(p))
    /\ pc' = [pc EXCEPT ![p] = "done"]
    /\ UNCHANGED <<caller, opprf, data>>

(* Faulty variant: the dealer leaves out what participant 1 sent.          *)
BugReconstructed ==
    {x \in set[DealerIdx] :
        zeroShares[DealerIdx][x] (+)
        XorSum(Party \ {DealerIdx, 1},
               [p \in Party \ {DealerIdx, 1} |-> recvShares[Rc(p)][x]]) = ZeroBlock}

(* The closing loop of the dealer's conditionalReconstruction.             *)
Reconstructed ==
    {x \in set[DealerIdx] :
        zeroShares[DealerIdx][x] (+)
        XorSum(Party \ {DealerIdx},
               [p \in Party \ {DealerIdx} |-> recvShares[Rc(p)][x]]) = ZeroBlock}

(* The dealer has awaited what all parties sent: its coroutine ends.       *)
Reconstruct ==
    /\ pc[DealerIdx] = "reconstruction"
    /\ \A p \in Party \ {DealerIdx} : RecvDone(Rc(p))
    /\ pc' = [pc EXCEPT ![DealerIdx] = "done"]
    /\ result' = Reconstructed
    /\ UNCHANGED <<caller, opprf, mP, sendShares, recvShares, zeroShares>>

-----------------------------------------------------------------------------
CallerStep == StartNext \/ AwaitNext
PartyStep(p) == EndZeroSharing(p) \/ EndOnline(p) \/ (p = DealerIdx /\ Reconstruct)
ConvStep(c) == Prepare(c) \/ SendPayload(c) \/ TakePayload(c)

(* Nothing is left to do once the run has returned.                        *)
Terminated == RunReturns /\ UNCHANGED vars

Next == \/ CallerStep
        \/ \E p \in Party : PartyStep(p)
        \/ \E c \in Conv : ConvStep(c)
        \/ Terminated

(* A coroutine that can go on is resumed, a message is delivered.          *)
Fairness == /\ WF_vars(CallerStep)
            /\ \A p \in Party : WF_vars(PartyStep(p))
            /\ \A c \in Conv : WF_vars(ConvStep(c))

Spec == Init /\ [][Next]_vars /\ Fairness

-----------------------------------------------------------------------------
InAll == {x \in Elem : \A p \in Party : x \in set[p]}

(***************************************************************************)
(* MonoPSI::run returns exactly the intersection.                          *)
(***************************************************************************)
RunReturnsIntersection == RunReturns => intersection = InAll

(***************************************************************************)
(* When run returns it destroys the participants with their OPPRF objects  *)
(* and sockets.  Nothing uses them any more: all coroutines have ended,    *)
(* and so has every task that any of them started.                         *)
(***************************************************************************)
NothingLeftBehind ==
    RunReturns => /\ \A p \in Party : pc[p] = "done"
                  /\ \A c \in Conv : opprf[c] = "taken"

(***************************************************************************)
(* The eager tasks for zero sharing hold views into the shares of the      *)
(* coroutine that has started them: none reads or writes them after it has *)
(* combined them.                                                          *)
(***************************************************************************)
NoTaskOutlivesItsFrame ==
    [][\A c \in ZsConv :
         /\ pc[c.to] \in {"reconstruction", "done"} => recvShares'[c] = recvShares[c]
         /\ pc[c.from] \in {"reconstruction", "done"} => mP'[c] = mP[c]]_vars

(***************************************************************************)
(* The one-phase protocol implements the same ideal intersection as the    *)
(* two-phase one: a participant submits its set by being started, and the  *)
(* dealer delivers by ending.  All of them end.                            *)
(***************************************************************************)
Ideal == INSTANCE Psi WITH
    Dealer <- DealerIdx,
    submitted <- {p \in Party : pc[p] # "init"},
    returned <- {p \in Party : pc[p] = "done"},
    output <- result

ImplementsIdeal == Ideal!Spec

(* The same without the promise that something happens.                    *)
ImplementsIdealSafely == Ideal!Init /\ [][Ideal!Next]_(Ideal!vars)

(***************************************************************************)
(* The control is that of PsiFaults, when nothing fails: who goes on when, *)
(* which messages have passed by then, and whom the caller awaits.  So     *)
(* what is said there of a fault is said of this program.                  *)
(***************************************************************************)
Stage(p) == CASE pc[p] = "init"           -> "ready"
              [] pc[p] = "zeroSharing"    -> "zs"
              [] pc[p] = "reconstruction" -> "rc"
              [] pc[p] = "done"           -> "returned"
Channel(c) == IF opprf[c] \in {"payload", "taken"} THEN opprf[c] ELSE "open"

Faultless == INSTANCE PsiFaults WITH
    Settings <- [mode : {"run"}, buffered : {TRUE}],
    Faults <- {{}},
    mode <- "run", buffered <- TRUE,
    fault <- {}, broken <- {}, threw <- {}, closed <- {},
    pc <- [p \in Party |-> Stage(p)],
    conv <- [c \in Conv |-> Channel(c)],
    taskIdx <- awaited, res <- "none"

ImplementsFaultless == Faultless!Init /\ [][Faultless!Next]_(Faultless!vars)

(* The run returns.                                                        *)
RunEnds == <>RunReturns

-----------------------------------------------------------------------------
(* The inductive invariant behind the safety properties.                   *)

(***************************************************************************)
(* The shape of the state: a vector of blocks is indexed by the set it     *)
(* belongs to, the sender's for what is sent and the receiver's for what   *)
(* is decoded (the buffers of MonoPSIParty::conditionalZeroSharing).       *)
(***************************************************************************)
TypeOK ==
    /\ set \in [Party -> SUBSET Elem]
    /\ started \in 0 .. NParties
    /\ awaited \in 0 .. NParties
    /\ intersection \in SUBSET Elem
    /\ pc \in [Party -> {"init", "zeroSharing", "reconstruction", "done"}]
    /\ opprf \in [Conv -> {"none", "prepared", "payload", "taken"}]
    /\ DOMAIN mP = Conv
    /\ \A c \in Conv : mP[c] = Empty({}) \/ mP[c] \in [set[c.from] -> Block]
    /\ DOMAIN sendShares = Party
    /\ \A p \in Party : sendShares[p] \in [Party -> [set[p] -> Block]]
    /\ DOMAIN recvShares = Conv
    /\ \A c \in Conv : recvShares[c] \in [set[c.to] -> Block]
    /\ DOMAIN zeroShares = Party
    /\ \A p \in Party : zeroShares[p] \in [set[p] -> Block]
    /\ result \in SUBSET set[DealerIdx]

(***************************************************************************)
(* MonoPSI::online starts the participants in their order, then awaits     *)
(* them in their order.                                                    *)
(***************************************************************************)
CallerInv ==
    /\ \A p \in Party : pc[p] = "init" <=> started <= p
    /\ \A p \in Party : p < awaited => pc[p] = "done"
    /\ awaited > 0 => started = NParties

(* An OPPRF instance that has begun has both its ends.                     *)
BothEndsStarted ==
    \A c \in Conv : opprf[c] # "none" => TaskStarted(c.from, c) /\ TaskStarted(c.to, c)

(* A coroutine has gone on when its tasks were done.                       *)
TasksAwaited ==
    /\ \A c \in ZsConv :
        /\ pc[c.from] \in {"reconstruction", "done"} => SendDone(c)
        /\ pc[c.to] \in {"reconstruction", "done"} => RecvDone(c)
    /\ \A c \in RcConv :
        /\ pc[c.from] = "done" => SendDone(c)
        /\ pc[c.to] = "done" => RecvDone(c)

ControlInv == CallerInv /\ BothEndsStarted /\ TasksAwaited

(* What the vectors and the results hold, in terms of the sets alone.      *)
DataInv ==
    /\ \A p \in Party :
        /\ pc[p] # "init" => sendShares[p] = DrawShares(p)
        /\ pc[p] \in {"reconstruction", "done"} =>
               \A x \in set[p] : zeroShares[p][x] = ZeroShare(set, p, x)
    /\ \A c \in ZsConv :
        /\ opprf[c] \in {"payload", "taken"} => mP[c] = sendShares[c.from][c.to]
        /\ opprf[c] = "taken" => \A x \in set[c.to] : recvShares[c][x] = ZsValue(set, c, x)
    /\ \A c \in RcConv :
        /\ opprf[c] \in {"payload", "taken"} => mP[c] = zeroShares[c.from]
        /\ opprf[c] = "taken" => \A x \in set[c.to] : recvShares[c][x] = RcValue(set, c, x)
    /\ result = IF pc[DealerIdx] = "done" THEN InAll ELSE {}
    /\ intersection = IF DealerIdx < awaited THEN result ELSE {}
=============================================================================
