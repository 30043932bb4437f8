-------------------------- MODULE PsiFaultsProofs --------------------------
(***************************************************************************)
(* What PsiFaults promises when something fails, for any number of         *)
(* participants, any dealer and any sets of tasks that may throw.          *)
(*                                                                         *)
(* Everything rests on one observation: a participant leaves a phase       *)
(* either by failing in it or with all its tasks of that phase done.  So a *)
(* message that has passed tells where its two ends have been, and a       *)
(* participant that has returned has nothing unfinished with anybody.      *)
(***************************************************************************)
EXTENDS PsiFaults, TLAPS

Place == {"ready", "zs", "rc", "returned", "zsFailed", "rcFailed"}

TypeOK ==
    /\ mode \in Mode
    /\ buffered \in BOOLEAN
    /\ fault \subseteq Task
    /\ broken \subseteq Conv
    /\ pc \in [Party -> Place]
    /\ conv \in [Conv -> {"open", "payload", "taken"}]
    /\ threw \subseteq Task
    /\ closed \subseteq Party
    /\ taskIdx \in 0 .. NParties
    /\ res \in {"none", "result", "error"}

(* Whoever has gone on from zero sharing has finished it.                  *)
ZsFinished ==
    \A t \in Task : t.conv.kind = "zs" /\ pc[Owner(t)] \in {"rc", "returned", "rcFailed"}
                        => Done(t)

(* Whoever has returned has finished reconstruction.                       *)
RcFinished ==
    \A t \in Task : t.conv.kind = "rc" /\ pc[Owner(t)] = "returned" => Done(t)

(* What has passed has been passed by two ends that had started.           *)
PassedByBoth ==
    \A c \in Conv : conv[c] # "open" => Started(Send(c)) /\ Started(Recv(c))

(* SepPSI::run has seen return whom it has awaited.                        *)
AwaitedReturned == \A q \in 0 .. taskIdx - 1 : pc[q] = "returned"

(* It has a result when it has awaited everybody.                          *)
ResultAfterAll == res = "result" => taskIdx = NParties

(* A participant that closes its sockets has come to an end.               *)
ClosedEnded == \A q \in closed : Ended(q)

(* Without a fault nothing throws and nobody fails.                        *)
Faultless == fault = {} /\ broken = {} => threw = {} /\ \A q \in Party : ~Failed(q)

FaultsInv == /\ TypeOK
             /\ ZsFinished
             /\ RcFinished
             /\ PassedByBoth
             /\ AwaitedReturned
             /\ ResultAfterAll
             /\ ClosedEnded
             /\ Faultless

-----------------------------------------------------------------------------
(* Tasks and conversations.                                                *)

(* The dealer is one of the participants.                                  *)
LEMMA DealerIsParty == DealerIdx \in Party
BY DealerAssumption, NPartiesAssumption DEF Party

(* The parts of a conversation, and its two tasks.                         *)
LEMMA ConvParts ==
    ASSUME NEW c \in Conv
    PROVE  /\ c.kind \in {"zs", "rc"} /\ c.from \in Party /\ c.to \in Party /\ c.from # c.to
           /\ c.kind = "rc" => c.to = DealerIdx
           /\ Send(c) \in Task /\ Recv(c) \in Task
           /\ Send(c).conv = c /\ Send(c).end = "send"
           /\ Recv(c).conv = c /\ Recv(c).end = "recv"
           /\ Owner(Send(c)) = c.from /\ Owner(Recv(c)) = c.to
BY DealerIsParty DEF Conv, ZsConv, RcConv, Task, Send, Recv, Owner

(* The parts of a task, and whose it is.                                   *)
LEMMA TaskParts ==
    ASSUME NEW t \in Task
    PROVE  /\ t.conv \in Conv /\ t.conv.kind \in {"zs", "rc"}
           /\ Owner(t) \in Party /\ Peer(t) \in Party
           /\ \/ t.end = "send" /\ t = Send(t.conv) /\ Owner(t) = t.conv.from
                                /\ Peer(t) = t.conv.to
              \/ t.end = "recv" /\ t = Recv(t.conv) /\ Owner(t) = t.conv.to
                                /\ Peer(t) = t.conv.from
<1>1. t.conv \in Conv /\ t.end \in {"send", "recv"} /\ t = [conv |-> t.conv, end |-> t.end]
  BY DEF Task
<1> QED BY <1>1, ConvParts DEF Owner, Peer, Send, Recv

-----------------------------------------------------------------------------
(* The invariant.                                                          *)

(* Nothing has passed, thrown or ended at the beginning.                   *)
LEMMA FaultsInit == Init => FaultsInv
<1> SUFFICES ASSUME Init PROVE FaultsInv
  OBVIOUS
<1>1. fault \subseteq Task
  BY FaultsAssumption DEF Init
<1>2. mode \in Mode /\ buffered \in BOOLEAN
  BY SettingsAssumption DEF Init
<1>3. TypeOK
  BY <1>1, <1>2, NPartiesAssumption DEF Init, TypeOK, Place
<1>4. ZsFinished /\ RcFinished
  BY TaskParts DEF Init, ZsFinished, RcFinished
<1>5. PassedByBoth /\ AwaitedReturned /\ ResultAfterAll /\ ClosedEnded /\ Faultless
  BY DEF Init, PassedByBoth, AwaitedReturned, ResultAfterAll, ClosedEnded, Faultless, Failed
<1> QED BY <1>3, <1>4, <1>5 DEF FaultsInv

(***************************************************************************)
(* The steps fall into three classes.  A conversation step passes a        *)
(* message between two ends that are active.                               *)
(***************************************************************************)
LEMMA ConvStep ==
    ASSUME FaultsInv, NEW c \in Conv, Exchange(c) \/ Take(c)
    PROVE  FaultsInv'
<1> USE DEF FaultsInv
<1>1. /\ UNCHANGED <<mode, buffered, fault, broken, pc, threw, closed, taskIdx, res>>
      /\ \/ conv[c] = "open" /\ conv' = [conv EXCEPT ![c] = "payload"]
            /\ Started(Send(c)) /\ Started(Recv(c))
         \/ conv[c] = "payload" /\ conv' = [conv EXCEPT ![c] = "taken"]
  BY DEF Exchange, Take, Active, run
<1>2. TypeOK'
  BY <1>1 DEF TypeOK
<1>3. \A t : Started(t)' <=> Started(t)
  BY <1>1 DEF Started, Owner
<1>4. \A t \in Task : Done(t) => Done(t)'
  BY <1>1, TaskParts DEF Done, TypeOK
<1>5. ZsFinished' /\ RcFinished'
  BY <1>1, <1>4 DEF ZsFinished, RcFinished
<1>6. PassedByBoth'
  BY <1>1, <1>3 DEF PassedByBoth, TypeOK
<1>7. AwaitedReturned' /\ ResultAfterAll' /\ ClosedEnded' /\ Faultless'
  BY <1>1 DEF AwaitedReturned, ResultAfterAll, ClosedEnded, Faultless, Failed, Ended
<1> QED BY <1>2, <1>5, <1>6, <1>7

(* A participant that has come to an end, without a fault, has nothing     *)
(* left for a peer to wait for.                                            *)
LEMMA NothingToSeeClosed ==
    ASSUME FaultsInv, NEW t \in Task, SeeClosed(t)
    PROVE  fault # {} \/ broken # {}
<1> SUFFICES ASSUME fault = {}, broken = {} PROVE FALSE
  OBVIOUS
<1>1. Peer(t) \in closed /\ (t.end = "recv" /\ conv[t.conv] = "payload" => Failed(Peer(t)))
  BY DEF SeeClosed
<1>2. ~Failed(Peer(t)) /\ pc[Peer(t)] = "returned"
  BY <1>1, TaskParts DEF FaultsInv, Faultless, ClosedEnded, Ended
<1>3. ~Done(t)
  BY DEF SeeClosed, Active
<1>4. CASE t.end = "send"
  <2>1. Recv(t.conv) \in Task /\ Owner(Recv(t.conv)) = Peer(t) /\ Recv(t.conv).conv = t.conv
        /\ Recv(t.conv).end = "recv"
    BY <1>4, TaskParts, ConvParts
  <2>2. Done(Recv(t.conv))
    BY <1>2, <2>1, TaskParts DEF FaultsInv, ZsFinished, RcFinished
  <2> QED BY <1>3, <2>1, <2>2 DEF Done
<1>5. CASE t.end = "recv"
  <2>1. Send(t.conv) \in Task /\ Owner(Send(t.conv)) = Peer(t) /\ Send(t.conv).conv = t.conv
    BY <1>5, TaskParts, ConvParts
  <2>2. Done(Send(t.conv))
    BY <1>2, <2>1, TaskParts DEF FaultsInv, ZsFinished, RcFinished
  <2> QED BY <1>1, <1>2, <1>3, <1>5, <2>1, <2>2 DEF Done
<1> QED BY <1>4, <1>5, TaskParts

(* A task throws, or a connection breaks: nothing that has been done is    *)
(* undone, and there is a fault to blame.                                  *)
LEMMA MishapStep ==
    ASSUME FaultsInv,
           \/ \E t \in Task : TaskThrows(t) \/ SeeClosed(t)
           \/ \E c \in Conv : Disconnect(c)
    PROVE  FaultsInv'
<1> USE DEF FaultsInv
<1>1. UNCHANGED <<mode, buffered, fault, pc, conv, closed, taskIdx, res>>
  BY DEF TaskThrows, SeeClosed, Disconnect, control, run
<1>2. TypeOK'
  BY <1>1 DEF TypeOK, TaskThrows, SeeClosed, Disconnect, control
<1>3. Faultless'
  <2>1. ASSUME NEW t \in Task, TaskThrows(t) PROVE fault' # {}
    BY <1>1, <2>1 DEF TaskThrows
  <2>2. ASSUME NEW t \in Task, SeeClosed(t) PROVE fault' # {} \/ broken' # {}
    BY <1>1, <2>2, NothingToSeeClosed DEF SeeClosed
  <2>3. ASSUME NEW c \in Conv, Disconnect(c) PROVE broken' # {}
    BY <2>3 DEF Disconnect
  <2> QED BY <2>1, <2>2, <2>3 DEF Faultless
<1>4. ZsFinished' /\ RcFinished' /\ PassedByBoth'
  BY <1>1 DEF ZsFinished, RcFinished, PassedByBoth, Done, Started
<1>5. AwaitedReturned' /\ ResultAfterAll' /\ ClosedEnded'
  BY <1>1 DEF AwaitedReturned, ResultAfterAll, ClosedEnded, Failed, Ended
<1> QED BY <1>2, <1>3, <1>4, <1>5

(***************************************************************************)
(* A participant changes its place: it starts, goes on with everything     *)
(* done, or fails because a task of its has thrown.                        *)
(***************************************************************************)
LEMMA PartyStep ==
    ASSUME FaultsInv, NEW q \in Party, Start(q) \/ GoOn(q) \/ Fail(q)
    PROVE  FaultsInv'
<1> USE DEF FaultsInv
<1>1. UNCHANGED <<mode, buffered, fault, broken, conv, threw, closed, taskIdx, res>>
  BY DEF Start, GoOn, Fail, run
<1>2. \/ pc[q] = "ready" /\ pc' = [pc EXCEPT ![q] = "zs"]
      \/ pc[q] = "zs" /\ AllReturned(q) /\ pc' = [pc EXCEPT ![q] = "rc"]
      \/ pc[q] = "rc" /\ AllReturned(q) /\ pc' = [pc EXCEPT ![q] = "returned"]
      \/ pc[q] = "zs" /\ threw # {} /\ pc' = [pc EXCEPT ![q] = "zsFailed"]
      \/ pc[q] = "rc" /\ threw # {} /\ pc' = [pc EXCEPT ![q] = "rcFailed"]
  <2>1. CASE Start(q)
    BY <2>1 DEF Start
  <2>2. CASE GoOn(q)
    BY <2>2 DEF GoOn
  <2>3. CASE Fail(q)
    <3>1. PICK t \in Awaited(q) \cap threw : TRUE
      BY <2>3 DEF Fail
    <3>2. pc[q] \in {"zs", "rc"}
      BY <3>1, TaskParts DEF Awaited
    <3> QED BY <2>3, <3>1, <3>2 DEF Fail
  <2> QED BY <2>1, <2>2, <2>3
<1>3. TypeOK'
  BY <1>1, <1>2 DEF TypeOK, Place
<1>4. pc \in [Party -> Place]
  BY DEF TypeOK
<1>5. \A t : Done(t)' <=> Done(t)
  BY <1>1 DEF Done
<1>6. ZsFinished'
  <2> SUFFICES ASSUME NEW t \in Task, t.conv.kind = "zs",
                      pc'[Owner(t)] \in {"rc", "returned", "rcFailed"}
               PROVE  Done(t)
    BY <1>5 DEF ZsFinished, Owner
  <2>1. CASE pc[Owner(t)] \in {"rc", "returned", "rcFailed"}
    BY <2>1 DEF ZsFinished
  <2>2. CASE pc[Owner(t)] \notin {"rc", "returned", "rcFailed"}
    <3>1. Owner(t) = q /\ pc[q] = "zs" /\ AllReturned(q)
      BY <1>2, <1>4, <2>2, TaskParts
    <3> QED BY <3>1 DEF AllReturned, Awaited
  <2> QED BY <2>1, <2>2
<1>7. RcFinished'
  <2> SUFFICES ASSUME NEW t \in Task, t.conv.kind = "rc", pc'[Owner(t)] = "returned"
               PROVE  Done(t)
    BY <1>5 DEF RcFinished, Owner
  <2>1. CASE pc[Owner(t)] = "returned"
    BY <2>1 DEF RcFinished
  <2>2. CASE pc[Owner(t)] # "returned"
    <3>1. Owner(t) = q /\ pc[q] = "rc" /\ AllReturned(q)
      BY <1>2, <1>4, <2>2, TaskParts
    <3> QED BY <3>1 DEF AllReturned, Awaited
  <2> QED BY <2>1, <2>2
<1>8. PassedByBoth'
  <2>1. \A t \in Task : Started(t) => Started(t)'
    BY <1>2, <1>4, TaskParts DEF Started, Owner
  <2> QED BY <1>1, <2>1, ConvParts DEF PassedByBoth
<1>9. AwaitedReturned'
  <2>1. \A p \in Party : pc[p] = "returned" => pc'[p] = "returned"
    BY <1>2, <1>4
  <2>2. \A p \in 0 .. taskIdx - 1 : p \in Party
    BY NPartiesAssumption DEF TypeOK, Party
  <2> QED BY <1>1, <2>1, <2>2 DEF AwaitedReturned
<1>10. ClosedEnded'
  <2>1. \A p \in Party : Ended(p) => Ended(p)'
    BY <1>2, <1>4 DEF Ended, Failed
  <2> QED BY <1>1, <2>1 DEF ClosedEnded, TypeOK
<1>11. Faultless'
  <2>1. ASSUME fault = {}, broken = {} PROVE \A p \in Party : ~Failed(p)'
    <3>1. threw = {} /\ \A p \in Party : ~Failed(p)
      BY <2>1 DEF Faultless
    <3> QED BY <1>2, <1>4, <3>1 DEF Failed
  <2> QED BY <1>1, <2>1 DEF Faultless
<1>12. ResultAfterAll'
  BY <1>1 DEF ResultAfterAll
<1> QED BY <1>3, <1>6, <1>7, <1>8, <1>9, <1>10, <1>11, <1>12

(* The sockets of a participant are closed, or run awaits or returns.      *)
LEMMA CallerStep ==
    ASSUME FaultsInv, (\E q \in Party : Close(q)) \/ AwaitNext \/ ReturnResult \/ ReturnError
    PROVE  FaultsInv'
<1> USE DEF FaultsInv
<1>1. UNCHANGED <<mode, buffered, fault, broken, pc, conv, threw>>
  BY DEF Close, AwaitNext, ReturnResult, ReturnError, control
<1>2. TypeOK'
  BY <1>1, NPartiesAssumption
     DEF TypeOK, Close, AwaitNext, ReturnResult, ReturnError, run
<1>3. ZsFinished' /\ RcFinished' /\ PassedByBoth' /\ Faultless'
  BY <1>1 DEF ZsFinished, RcFinished, PassedByBoth, Faultless, Done, Started, Failed
<1>4. AwaitedReturned' /\ ResultAfterAll'
  BY <1>1, NPartiesAssumption
     DEF TypeOK, AwaitedReturned, ResultAfterAll, Close, AwaitNext, ReturnResult, ReturnError,
         run, Alive
<1>5. ClosedEnded'
  BY <1>1 DEF ClosedEnded, Ended, Failed, Close, AwaitNext, ReturnResult, ReturnError
<1> QED BY <1>2, <1>3, <1>4, <1>5

(* Whatever happens, the invariant is kept.                                *)
LEMMA FaultsStep == FaultsInv /\ [Next]_vars => FaultsInv'
<1> SUFFICES ASSUME FaultsInv, [Next]_vars PROVE FaultsInv'
  OBVIOUS
<1>1. CASE \E c \in Conv : Exchange(c) \/ Take(c)
  BY <1>1, ConvStep
<1>2. CASE (\E t \in Task : TaskThrows(t) \/ SeeClosed(t)) \/ \E c \in Conv : Disconnect(c)
  BY <1>2, MishapStep
<1>3. CASE \E q \in Party : Start(q) \/ GoOn(q) \/ Fail(q)
  BY <1>3, PartyStep
<1>4. CASE (\E q \in Party : Close(q)) \/ AwaitNext \/ ReturnResult \/ ReturnError
  BY <1>4, CallerStep
<1>5. CASE UNCHANGED vars
  BY <1>5 DEF vars, control, run, FaultsInv, TypeOK, ZsFinished, RcFinished, PassedByBoth,
              AwaitedReturned, ResultAfterAll, ClosedEnded, Faultless, Done, Started, Failed,
              Ended
<1> QED BY <1>1, <1>2, <1>3, <1>4, <1>5 DEF Next, Step, Mishap

(* The invariant holds always.                                             *)
LEMMA FaultsInvariant == Spec => []FaultsInv
BY FaultsInit, FaultsStep, PTL DEF Spec

-----------------------------------------------------------------------------
(* What follows.                                                           *)

(***************************************************************************)
(* The dealer has every message for reconstruction; who has sent it has    *)
(* finished zero sharing, so that those are complete as well.              *)
(***************************************************************************)
LEMMA CompleteFromInv == FaultsInv => ResultMeansComplete
<1> SUFFICES ASSUME FaultsInv, pc[DealerIdx] = "returned", NEW c \in Conv
             PROVE  conv[c] = "taken"
  BY DEF ResultMeansComplete
<1>1. ASSUME NEW d \in Conv, d.kind = "rc" PROVE conv[d] = "taken"
  <2>1. Done(Recv(d))
    BY <1>1, ConvParts DEF FaultsInv, RcFinished
  <2> QED BY <2>1, ConvParts DEF Done
<1>2. ASSUME NEW q \in Party PROVE pc[q] \in {"rc", "returned", "rcFailed"}
  <2>1. CASE q = DealerIdx
    BY <2>1
  <2>2. CASE q # DealerIdx
    <3> DEFINE d == [kind |-> "rc", from |-> q, to |-> DealerIdx]
    <3>1. d \in Conv /\ d.kind = "rc" /\ d.from = q
      BY <2>2 DEF Conv, RcConv
    <3>2. Started(Send(d))
      BY <1>1, <3>1 DEF FaultsInv, PassedByBoth
    <3> HIDE DEF d
    <3> QED BY <3>1, <3>2, ConvParts DEF Started
  <2> QED BY <2>1, <2>2
<1>3. CASE c.kind = "zs"
  <2>1. Done(Recv(c))
    BY <1>2, <1>3, ConvParts DEF FaultsInv, ZsFinished
  <2> QED BY <2>1, ConvParts DEF Done
<1> QED BY <1>1, <1>3, ConvParts

(***************************************************************************)
(* The dealer returns only with the shares of everybody, whatever fails.   *)
(***************************************************************************)
THEOREM CompleteResult == Spec => []ResultMeansComplete
BY FaultsInvariant, CompleteFromInv, PTL

(***************************************************************************)
(* SepPSI::run returns a result only when no participant still runs.       *)
(***************************************************************************)
THEOREM RunAwaitsAll == Spec => []ResultOfAll
<1>1. FaultsInv => ResultOfAll
  BY NPartiesAssumption
     DEF FaultsInv, TypeOK, AwaitedReturned, ResultAfterAll, ResultOfAll, Party
<1> QED BY FaultsInvariant, <1>1, PTL

(***************************************************************************)
(* Closing one's sockets as soon as one is through disturbs nobody.        *)
(***************************************************************************)
THEOREM ClosingIsHarmless == Spec => []NoFaultNoError
<1>1. FaultsInv => NoFaultNoError
  BY DEF FaultsInv, Faultless, NoFaultNoError
<1> QED BY FaultsInvariant, <1>1, PTL

(***************************************************************************)
(* A task still runs after the phase of its owner it belongs to only if    *)
(* the owner has failed in that phase.                                     *)
(***************************************************************************)
THEOREM LeftOnlyByFailure == Spec => []TasksLeftOnlyByFailure
<1>1. FaultsInv => TasksLeftOnlyByFailure
  <2> SUFFICES ASSUME FaultsInv, NEW t \in Task, Active(t)
               PROVE  pc[Owner(t)] \in IF t.conv.kind = "zs" THEN {"zs", "zsFailed"}
                                                             ELSE {"rc", "rcFailed"}
    BY DEF TasksLeftOnlyByFailure
  <2>1. Started(t) /\ ~Done(t)
    BY DEF Active
  <2> QED BY <2>1, TaskParts DEF FaultsInv, ZsFinished, RcFinished, Started
<1> QED BY FaultsInvariant, <1>1, PTL
=============================================================================
