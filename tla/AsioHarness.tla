---------------------------- MODULE AsioHarness ----------------------------
(***************************************************************************)
(* test_with_asio of experiments/exp.cpp, with the participants of SepPSI. *)
(*                                                                         *)
(* Every participant has an io_context, a thread that runs it, and a work  *)
(* guard that keeps the thread running while there is nothing to do.  The  *)
(* coroutine of a party is started on a thread of its own, that of the     *)
(* dealer (participant 0) on the thread of the harness; from its first     *)
(* wait on, a coroutine runs on the thread of its io_context.  When the    *)
(* dealer has returned, the harness releases one participant after the     *)
(* other: guard, thread, coroutine.                                        *)
(*                                                                         *)
(* Of the protocol is modelled when a participant can leave a phase: what  *)
(* SepPSI's DriftIsBounded and DealerReturnsLast say of it.                *)
(***************************************************************************)
EXTENDS Participants

VARIABLES
    empty,  \* the sets have no elements: online() throws
    main,   \* where the harness is
    next,   \* the participant its loops are at
    phase,  \* phase[i]: how far the coroutine of i is
    guard,  \* guard[i]: iocWorks[i].mWork is there
    io      \* io[i]: the thread that runs iocWorks[i]

harnessVars == <<empty, main, next, phase, guard, io>>

(* The phases of standaloneWithAsio, in order.  In the middle four the     *)
(* coroutine waits for something that is pending on its io_context.        *)
None == 0
Connecting == 1
Offline == 2
ZeroSharing == 3
Reconstruction == 4
Returned == 5
Failed == 6

Waiting(i) == phase[i] \in Connecting .. Reconstruction
Ended(i) == phase[i] \in {Returned, Failed}

(* Faulty variant: the io_contexts have no work guard.                     *)
BugHarnessInit ==
    /\ empty \in BOOLEAN
    /\ main = "launch"
    /\ next = 0
    /\ phase = [i \in Party |-> None]
    /\ guard = [i \in Party |-> FALSE]
    /\ io = [i \in Party |-> "none"]

HarnessInit ==
    /\ empty \in BOOLEAN
    /\ main = "launch"
    /\ next = 0
    /\ phase = [i \in Party |-> None]
    /\ guard = [i \in Party |-> TRUE]
    /\ io = [i \in Party |-> "none"]

-----------------------------------------------------------------------------
(* The participants' threads.                                              *)

(* The coroutine of i starts; it runs up to its first wait.                *)
Begin(i) ==
    /\ phase[i] = None
    /\ io[i] # "none"
    /\ i = 0 => main = "dealer"
    /\ phase' = [phase EXCEPT ![i] = Connecting]
    /\ UNCHANGED <<empty, main, next, guard, io>>

(***************************************************************************)
(* What i waits for happens, and its coroutine goes on to the next phase   *)
(* on the thread of its io_context.  It leaves a phase when all others     *)
(* have come to it; only a party may leave the last one before that.       *)
(***************************************************************************)
Advance(i) ==
    /\ Waiting(i)
    /\ io[i] = "running"
    /\ ~ (phase[i] = Offline /\ empty)
    /\ \/ phase[i] = Reconstruction /\ i # 0
       \/ \A q \in Party : phase[q] >= phase[i]
    /\ phase' = [phase EXCEPT ![i] = @ + 1]
    /\ UNCHANGED <<empty, main, next, guard, io>>

(* Faulty variant: the instances of the others are still waited for.       *)
BugThrow(i) ==
    /\ phase[i] = Offline /\ empty
    /\ io[i] = "running"
    /\ \A q \in Party \ {i} : phase[q] \in ZeroSharing .. Returned
    /\ phase' = [phase EXCEPT ![i] = Failed]
    /\ UNCHANGED <<empty, main, next, guard, io>>

(* online() throws: the coroutine ends with the exception.                 *)
Throw(i) ==
    /\ phase[i] = Offline /\ empty
    /\ io[i] = "running"
    /\ \A q \in Party : phase[q] >= Offline
    /\ phase' = [phase EXCEPT ![i] = Failed]
    /\ UNCHANGED <<empty, main, next, guard, io>>

(* run() returns when there is neither a guard nor anything pending.       *)
StopRunning(i) ==
    /\ io[i] = "running"
    /\ ~ guard[i]
    /\ ~ Waiting(i)
    /\ io' = [io EXCEPT ![i] = "ended"]
    /\ UNCHANGED <<empty, main, next, phase, guard>>

-----------------------------------------------------------------------------
(* The harness.                                                            *)

(* The two std::async of the next participant.                             *)
LaunchParticipant ==
    /\ main = "launch"
    /\ io' = [io EXCEPT ![next] = "running"]
    /\ IF next + 1 < NParties THEN next' = next + 1 /\ main' = main
                              ELSE next' = 0 /\ main' = "dealer"
    /\ UNCHANGED <<empty, phase, guard>>

(* The dealer's coroutine has returned its result.                         *)
SeeResult ==
    /\ main = "dealer"
    /\ phase[0] = Returned
    /\ main' = "release"
    /\ UNCHANGED <<empty, next, phase, guard, io>>

(* The dealer's coroutine has thrown: the harness leaves.                  *)
SeeError ==
    /\ main = "dealer"
    /\ phase[0] = Failed
    /\ main' = "leave"
    /\ UNCHANGED <<empty, next, phase, guard, io>>

(* Faulty variant: the guard is left for the destructor.                   *)
BugRelease ==
    /\ main = "release"
    /\ main' = "join"
    /\ UNCHANGED <<empty, next, phase, guard, io>>

(* mWork.reset() of the next participant.                                  *)
Release ==
    /\ main = "release"
    /\ guard' = [guard EXCEPT ![next] = FALSE]
    /\ main' = "join"
    /\ UNCHANGED <<empty, next, phase, io>>

(* Its run_fs and its future have been waited for.                         *)
Join ==
    /\ main = "join"
    /\ io[next] = "ended"
    /\ Ended(next)
    /\ IF next + 1 < NParties THEN next' = next + 1 /\ main' = "release"
                              ELSE next' = next /\ main' = "leave"
    /\ UNCHANGED <<empty, phase, guard, io>>

(***************************************************************************)
(* The destructors of futures and run_fs wait for their threads; they run  *)
(* before that of iocWorks, which holds the guards.                        *)
(***************************************************************************)
Leave ==
    /\ main = "leave"
    /\ \A i \in Party \ {0} : Ended(i)
    /\ \A i \in Party : io[i] = "ended"
    /\ main' = "returned"
    /\ UNCHANGED <<empty, next, phase, guard, io>>

Main == LaunchParticipant \/ SeeResult \/ SeeError \/ Release \/ Join \/ Leave
Thread(i) == Begin(i) \/ Advance(i) \/ Throw(i) \/ StopRunning(i)

(* Nothing is left to do once the harness has returned.                    *)
HarnessOver == main = "returned" /\ UNCHANGED harnessVars

HarnessNext == Main \/ (\E i \in Party : Thread(i)) \/ HarnessOver

(* All threads run.                                                        *)
HarnessFairness == WF_harnessVars(Main) /\ \A i \in Party : WF_harnessVars(Thread(i))

HarnessSpec == HarnessInit /\ [][HarnessNext]_harnessVars /\ HarnessFairness

-----------------------------------------------------------------------------
(***************************************************************************)
(* No io_context is abandoned by its thread while the coroutine that needs *)
(* it has something left to do, not even before it has begun: the guards   *)
(* are released late enough, and a coroutine always has something pending. *)
(***************************************************************************)
NoContextAbandoned == \A i \in Party : io[i] = "ended" => Ended(i)

(* Every coroutine ends, with a result or with an exception.               *)
CoroutinesEnd == <>\A i \in Party : Ended(i)

(* The harness gets past all its threads when the dealer has a result.     *)
ResultIsReported == (phase[0] = Returned) ~> (main = "returned")

(***************************************************************************)
(* test_with_asio returns: with a result, or after it has reported an      *)
(* error (exp.cpp:287-288).                                                *)
(***************************************************************************)
HarnessReturns == <>(main = "returned")
=============================================================================
