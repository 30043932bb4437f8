------------------------------ MODULE PsiFaults ------------------------------
(***************************************************************************)
(* The online phase of SepPSI (sep_psi.cpp) and of MonoPSI (mono_psi.cpp)  *)
(* when something fails: who learns of it, who waits for whom, and what    *)
(* run makes of it.  The two programs do this alike.                       *)
(*                                                                         *)
(* Only control is modelled; what is exchanged is in SepPSI and MonoPSI.   *)
(* A conversation is one OPPRF instance.  Its two ends are tasks of the    *)
(* two participants; the caller awaits its tasks in a fixed order and ends *)
(* by the exception of the first one that has thrown.  Tasks it has not    *)
(* awaited are left behind: they may still take a step or not, which       *)
(* depends on what macoro does to them.                                    *)
(*                                                                         *)
(* Tasks may throw, any of a given set, each at any time (an object that   *)
(* is not prepared, an encoding that cannot be solved, an empty set).  Or  *)
(* one connection breaks.  With SepPSI::run sockets live until run         *)
(* returns; in standaloneWithAsio a participant's sockets are closed when  *)
(* its coroutine has ended, and its peers notice.                          *)
(***************************************************************************)
EXTENDS Naturals

CONSTANTS
    NParties,   \* mNParties
    DealerIdx,  \* mDealerIdx
    Settings,   \* what mode and buffered may be, see below
    Faults      \* what fault may be

Mode == {"run", "asio"}

ASSUME NPartiesAssumption == NParties \in Nat \ {0, 1}
ASSUME DealerAssumption == DealerIdx \in 0 .. NParties - 1
ASSUME SettingsAssumption == Settings \subseteq [mode : Mode, buffered : BOOLEAN]

Party == 0 .. NParties - 1

(* The OPPRF instances, and the two tasks of each.                         *)
ZsConv == {c \in [kind : {"zs"}, from : Party, to : Party] : c.from # c.to}
RcConv == [kind : {"rc"}, from : Party \ {DealerIdx}, to : {DealerIdx}]
Conv == ZsConv \cup RcConv

Task == [conv : Conv, end : {"send", "recv"}]
Owner(t) == IF t.end = "send" THEN t.conv.from ELSE t.conv.to
Peer(t)  == IF t.end = "send" THEN t.conv.to ELSE t.conv.from

ASSUME FaultsAssumption == Faults \subseteq SUBSET Task

VARIABLES
    mode,       \* SepPSI::run, or the participants on their own
    buffered,   \* TRUE: a send completes when the socket has taken the message
                \* FALSE: it completes when the peer has received it
    fault,      \* the tasks that may throw
    broken,     \* connections that broke
    pc,         \* where a participant is in online()
    conv,       \* where a conversation is
    threw,      \* the tasks that have thrown
    closed,     \* the participants whose sockets are closed
    taskIdx,    \* the participant SepPSI::online awaits next
    res         \* what SepPSI::run has returned

control == <<pc, conv, threw>>
run == <<taskIdx, res>>
vars == <<mode, buffered, fault, broken, control, closed, run>>

Failed(q) == pc[q] \in {"zsFailed", "rcFailed"}
Ended(q) == pc[q] = "returned" \/ Failed(q)

(* Either tasks throw or a connection breaks.  A task of fault may throw   *)
(* and need not, so that a set stands for its subsets too.                 *)
Init ==
    /\ \E s \in Settings : mode = s.mode /\ buffered = s.buffered
    /\ fault \in Faults
    /\ broken = {}
    /\ pc = [q \in Party |-> "ready"]
    /\ conv = [c \in Conv |-> "open"]
    /\ threw = {}
    /\ closed = {}
    /\ taskIdx = 0
    /\ res = "none"

(* SepPSI::run destroys the participants when it returns.                  *)
Alive == res = "none"

-----------------------------------------------------------------------------
(* Tasks.                                                                  *)

Started(t) == pc[Owner(t)] \in IF t.conv.kind = "zs"
                               THEN {"zs", "rc", "returned", "zsFailed", "rcFailed"}
                               ELSE {"rc", "returned", "rcFailed"}

Done(t) == \/ conv[t.conv] = "taken"
           \/ t.end = "send" /\ buffered /\ conv[t.conv] = "payload"

Active(t) == Started(t) /\ ~Done(t) /\ t \notin threw

Send(c) == [conv |-> c, end |-> "send"]
Recv(c) == [conv |-> c, end |-> "recv"]

(* The seed, the answer and the payload pass.                              *)
Exchange(c) ==
    /\ Alive /\ c \notin broken
    /\ conv[c] = "open"
    /\ Active(Send(c)) /\ Active(Recv(c))
    /\ {c.from, c.to} \cap closed = {}
    /\ conv' = [conv EXCEPT ![c] = "payload"]
    /\ UNCHANGED <<mode, buffered, fault, broken, pc, threw, closed, run>>

(* The receiver takes the payload: its task ends.                          *)
Take(c) ==
    /\ Alive /\ c \notin broken
    /\ conv[c] = "payload"
    /\ Active(Recv(c))
    /\ c.to \notin closed
    /\ conv' = [conv EXCEPT ![c] = "taken"]
    /\ UNCHANGED <<mode, buffered, fault, broken, pc, threw, closed, run>>

TaskThrows(t) ==
    /\ Alive
    /\ t \in fault
    /\ Active(t) /\ ~Ended(Owner(t))
    /\ threw' = threw \cup {t}
    /\ UNCHANGED <<mode, buffered, fault, broken, pc, conv, closed, run>>

Disconnect(c) ==
    /\ mode = "asio"
    /\ fault = {} /\ broken = {}
    /\ conv[c] # "taken"
    /\ broken' = {c}
    /\ UNCHANGED <<mode, buffered, fault, control, closed, run>>

(***************************************************************************)
(* A task that waits for its peer finds the connection broken or closed.   *)
(* What the peer has handed to the socket still arrives, unless the peer   *)
(* failed with the send under way.                                         *)
(***************************************************************************)
SeeClosed(t) ==
    /\ Active(t) /\ ~Ended(Owner(t))
    /\ \/ t.conv \in broken
       \/ /\ Peer(t) \in closed
          /\ t.end = "recv" /\ conv[t.conv] = "payload" => Failed(Peer(t))
    /\ threw' = threw \cup {t}
    /\ UNCHANGED <<mode, buffered, fault, broken, pc, conv, closed, run>>

-----------------------------------------------------------------------------
(* Participants.                                                           *)

(* Faulty variant: of the tasks of zero sharing only the sending ones are  *)
(* awaited.                                                                *)
BugAwaited(q) ==
    {t \in Task : /\ Owner(t) = q
                  /\ t.conv.kind = pc[q]
                  /\ t.conv.kind = "zs" => t.end = "send"}

(* The tasks online() awaits before it goes on.                            *)
Awaited(q) == {t \in Task : Owner(t) = q /\ t.conv.kind = pc[q]}

(* The order of the awaits: by the peer's index, sending before receiving. *)
AwaitedBefore(u, t) == \/ Peer(u) < Peer(t)
                       \/ Peer(u) = Peer(t) /\ u.end = "send" /\ t.end = "recv"

Start(q) ==
    /\ Alive
    /\ pc[q] = "ready"
    /\ pc' = [pc EXCEPT ![q] = "zs"]
    /\ UNCHANGED <<mode, buffered, fault, broken, conv, threw, closed, run>>

(* Faulty variant: a task that threw counts as one that returned.          *)
BugAllReturned(q) == \A t \in Awaited(q) : Done(t) \/ t \in threw

AllReturned(q) == \A t \in Awaited(q) : Done(t)

(* All have returned: on to reconstruction, or the end.                    *)
GoOn(q) ==
    /\ Alive
    /\ pc[q] \in {"zs", "rc"}
    /\ AllReturned(q)
    /\ pc' = [pc EXCEPT ![q] = IF pc[q] = "zs" THEN "rc" ELSE "returned"]
    /\ UNCHANGED <<mode, buffered, fault, broken, conv, threw, closed, run>>

(* The task awaited next has thrown: online() ends by its exception.       *)
Fail(q) ==
    /\ Alive
    /\ \E t \in Awaited(q) \cap threw : \A u \in Awaited(q) : AwaitedBefore(u, t) => Done(u)
    /\ pc' = [pc EXCEPT ![q] = IF pc[q] = "zs" THEN "zsFailed" ELSE "rcFailed"]
    /\ UNCHANGED <<mode, buffered, fault, broken, conv, threw, closed, run>>

(* Faulty variant: the sockets of a participant that failed stay open.     *)
BugClose(q) ==
    /\ mode = "asio"
    /\ pc[q] = "returned" /\ q \notin closed
    /\ closed' = closed \cup {q}
    /\ UNCHANGED <<mode, buffered, fault, broken, control, run>>

(* The coroutine of standaloneWithAsio is destroyed, its sockets with it.  *)
Close(q) ==
    /\ mode = "asio"
    /\ Ended(q) /\ q \notin closed
    /\ closed' = closed \cup {q}
    /\ UNCHANGED <<mode, buffered, fault, broken, control, run>>

-----------------------------------------------------------------------------
(* SepPSI::run.                                                            *)

(* Faulty variant: only the dealer is awaited.                             *)
BugAwaitNext ==
    /\ mode = "run" /\ Alive
    /\ taskIdx < NParties
    /\ taskIdx = DealerIdx => pc[taskIdx] = "returned"
    /\ taskIdx' = taskIdx + 1
    /\ UNCHANGED <<mode, buffered, fault, broken, control, closed, res>>

(* The participant awaited has returned.                                   *)
AwaitNext ==
    /\ mode = "run" /\ Alive
    /\ taskIdx < NParties
    /\ pc[taskIdx] = "returned"
    /\ taskIdx' = taskIdx + 1
    /\ UNCHANGED <<mode, buffered, fault, broken, control, closed, res>>

ReturnResult ==
    /\ mode = "run" /\ Alive
    /\ taskIdx = NParties
    /\ res' = "result"
    /\ UNCHANGED <<mode, buffered, fault, broken, control, closed, taskIdx>>

(* Faulty variant: all are waited for before the error is looked at.       *)
BugReturnError ==
    /\ mode = "run" /\ Alive
    /\ \A q \in Party : Ended(q)
    /\ \E q \in Party : Failed(q)
    /\ res' = "error"
    /\ UNCHANGED <<mode, buffered, fault, broken, control, closed, taskIdx>>

(* The participant awaited has failed: run reports it and returns nothing. *)
ReturnError ==
    /\ mode = "run" /\ Alive
    /\ taskIdx < NParties
    /\ Failed(taskIdx)
    /\ res' = "error"
    /\ UNCHANGED <<mode, buffered, fault, broken, control, closed, taskIdx>>

-----------------------------------------------------------------------------
(* A conversation neither end of which was left behind.                    *)
Attended(c) == ~Failed(c.from) /\ ~Failed(c.to)

(* What the scheduling must bring about.                                   *)
Step ==
    \/ \E c \in Conv : Attended(c) /\ (Exchange(c) \/ Take(c))
    \/ \E t \in Task : SeeClosed(t)
    \/ \E q \in Party : Start(q) \/ GoOn(q) \/ Fail(q) \/ Close(q)
    \/ AwaitNext \/ ReturnResult \/ ReturnError

(* What may happen or not: the faults, and steps of tasks left behind.     *)
Mishap ==
    \/ \E t \in Task : TaskThrows(t)
    \/ \E c \in Conv : Disconnect(c)
    \/ \E c \in Conv : ~Attended(c) /\ (Exchange(c) \/ Take(c))

Next == Step \/ Mishap

(* A coroutine that can go on is resumed, a closed connection is noticed.  *)
Fairness == WF_vars(Step)

Spec == Init /\ [][Next]_vars /\ Fairness

-----------------------------------------------------------------------------
(* Properties.                                                             *)

(***************************************************************************)
(* A result is never made from part of the shares: when the dealer returns *)
(* every conversation has been completed, whatever else has failed.        *)
(***************************************************************************)
ResultMeansComplete == pc[DealerIdx] = "returned" => \A c \in Conv : conv[c] = "taken"

(***************************************************************************)
(* SepPSI::run returns a result only when every participant has returned:  *)
(* it destroys them, and whoever still ran would run in freed objects.     *)
(***************************************************************************)
ResultOfAll == res = "result" => \A q \in Party : pc[q] = "returned"

(***************************************************************************)
(* Each participant closes its sockets when it is through, at its own      *)
(* time.  Without a fault no task of another one is in need of them: none  *)
(* throws.                                                                 *)
(***************************************************************************)
NoFaultNoError == fault = {} /\ broken = {} => threw = {}

(***************************************************************************)
(* The tasks hold views into the vectors of the coroutine that started     *)
(* them.  One is still active in a later phase of its owner, or after it   *)
(* has ended, only if the owner has failed in the task's own phase.        *)
(***************************************************************************)
TasksLeftOnlyByFailure ==
    \A t \in Task : Active(t) =>
        pc[Owner(t)] \in IF t.conv.kind = "zs" THEN {"zs", "zsFailed"} ELSE {"rc", "rcFailed"}

(* A task that has not thrown is awaited next by its owner.                *)
IsAwaitedNext(t) ==
    /\ t.conv.kind = pc[Owner(t)]
    /\ ~Done(t) /\ t \notin threw
    /\ \A u \in Awaited(Owner(t)) : AwaitedBefore(u, t) => Done(u)

OtherEnd(t) == IF t.end = "send" THEN Recv(t.conv) ELSE Send(t.conv)

(* Participants each of which awaits a task whose other end has thrown: an *)
(* end that belongs to another of them, who does not get to see that.      *)
WaitInACircle ==
    LET Unanswered == {t \in threw : IsAwaitedNext(OtherEnd(t))}
    IN  \E S \in SUBSET {Owner(t) : t \in Unanswered} \ {{}} :
            \A q \in S : \E t \in Unanswered : Owner(t) \in S /\ Peer(t) = q

(***************************************************************************)
(* With sockets that close, failures end all: nobody waits forever for     *)
(* somebody who is gone, although only the next task in order is awaited   *)
(* (sep_psi.cpp:156).  The one exception are participants that wait in a   *)
(* circle: none of them is gone.                                           *)
(***************************************************************************)
EverybodyEnds == <>[](mode = "asio" => (\A q \in Party : Ended(q)) \/ WaitInACircle)

(***************************************************************************)
(* SepPSI::run, whose sockets stay open, returns, unless it waits forever  *)
(* for a participant that waits itself, while one of a higher index has    *)
(* failed whose error it never looks at (sep_psi.cpp:1155, 1207), or for   *)
(* participants that wait in a circle.                                     *)
(***************************************************************************)
WaitsPastTheError ==
    /\ taskIdx < NParties /\ ~Ended(taskIdx)
    /\ \E q \in taskIdx + 1 .. NParties - 1 : Failed(q)

RunEndsOrWaits ==
    <>[](mode = "run" => res # "none" \/ WaitsPastTheError \/ WaitInACircle)
==============================================================================
