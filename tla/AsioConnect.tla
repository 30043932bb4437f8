----------------------------- MODULE AsioConnect -----------------------------
(***************************************************************************)
(* How the participants of standaloneWithAsio get connected, in SepPSI     *)
(* (sepVolePSI/sep_psi.cpp) and in MonoPSI (monoVolePSI/mono_psi.cpp).     *)
(*                                                                         *)
(* Every conversation has a TCP connection on a port of its own for each   *)
(* of its phases, two in SepPSI (offline, online) and one in MonoPSI: the  *)
(* OPPRF receiver accepts, the sender connects.  A participant opens its   *)
(* connections one at a time and waits for each.  It connects to the       *)
(* participants after it, from the last one down, accepts from everybody,  *)
(* connects to those before it, and then does the connections for          *)
(* reconstruction.  Whether all get connected depends on how the orders    *)
(* of all participants fit together.                                       *)
(*                                                                         *)
(* A connection completes only while a thread runs its io_context.  In     *)
(* SepPSI a participant has one io_context, which its caller runs.  In     *)
(* MonoPSI it has one for every connection: it allocates them first, and   *)
(* starts the thread of each right before it opens the connection.         *)
(***************************************************************************)
EXTENDS Participants, Sequences, FiniteSets

CONSTANTS
    DealerIdx,  \* the index of the dealer
    Programs,   \* which of "sep" and "mono" the participants may run
    BasePort    \* the ports of each kind start at BasePort[kind][phase]

Kind == {"zs", "rc"}

ASSUME DealerAssumption == DealerIdx \in Party
ASSUME ProgramsAssumption == Programs \subseteq {"sep", "mono"}
ASSUME BasePortAssumption == BasePort \in [Kind -> [1 .. 2 -> Nat]]

(***************************************************************************)
(* The caller has to choose bases that leave each other room for a port    *)
(* for every pair of participants.  (The bases of test_with_asio are 5000  *)
(* apart, enough for 70 participants.)                                     *)
(***************************************************************************)
ASSUME BasesApart ==
    \A k, l \in Kind, h, i \in 1 .. 2 :
        \/ k = l /\ h = i
        \/ BasePort[k][h] + NParties * NParties <= BasePort[l][i]
        \/ BasePort[l][i] + NParties * NParties <= BasePort[k][h]

VARIABLES
    program,    \* which they run
    at,         \* at[p]: which connection p is waiting for
    listening,  \* the acceptors that are open, with whose they are
    links,      \* the TCP connections there are, as pairs of ends
    filled,     \* filled[p]: the sockets p holds
    running,    \* the ends whose own io_context a thread has been started for
    aborted     \* the process has used an io_context that does not exist

vars == <<program, at, listening, links, filled, running, aborted>>

-----------------------------------------------------------------------------
(* The programs.                                                           *)

Phase == IF program = "sep" THEN 1 .. 2 ELSE {1}

End(act, kind, from, to, phase) ==
    [act |-> act, kind |-> kind, from |-> from, to |-> to, phase |-> phase]

Owner(e) == IF e.act = "connect" THEN e.from ELSE e.to

(* Faulty variant: all connections of a conversation use the first base.   *)
BugPort(e) == BasePort[e.kind][1] + (e.from * NParties + e.to)

(* The port of a connection.                                               *)
Port(e) == BasePort[e.kind][e.phase] + (e.from * NParties + e.to)

(* The loops over participants, as the sequences of indices they go through.*)
DownToAfter(p) == [k \in 1 .. NParties - 1 - p |-> NParties - k]
AllBut(p)      == [k \in 1 .. NParties - 1 |-> IF k <= p THEN k - 1 ELSE k]
DownFrom(p)    == [k \in 1 .. p |-> p - k]

(* What p does for each of the participants of one loop.                   *)
Connects(p, peers) == [k \in DOMAIN peers |-> End("connect", "zs", p, peers[k], 1)]
Accepts(p, peers)  == [k \in DOMAIN peers |-> End("accept", "zs", peers[k], p, 1)]
RcConnect(p)       == <<End("connect", "rc", p, DealerIdx, 1)>>
RcAccepts(p, peers) == [k \in DOMAIN peers |-> End("accept", "rc", peers[k], p, 1)]

(* Faulty variant: everybody accepts before it connects.                   *)
BugPairs(p) == Accepts(p, AllBut(p)) \o Connects(p, DownToAfter(p))
               \o Connects(p, DownFrom(p))
               \o IF p = DealerIdx THEN RcAccepts(p, AllBut(p)) ELSE RcConnect(p)

Pairs(p) == Connects(p, DownToAfter(p)) \o Accepts(p, AllBut(p))
            \o Connects(p, DownFrom(p))
            \o IF p = DealerIdx THEN RcAccepts(p, AllBut(p)) ELSE RcConnect(p)

(* Faulty variant: all connections are made as the first one.              *)
BugOp(p, s) == Pairs(p)[(s - 1) \div Cardinality(Phase) + 1]

(* Each comes as a connection for every phase, one after the other.        *)
Steps(p) == Cardinality(Phase) * Len(Pairs(p))
Op(p, s) == [Pairs(p)[(s - 1) \div Cardinality(Phase) + 1]
                EXCEPT !.phase = ((s - 1) % Cardinality(Phase)) + 1]

Init ==
    /\ program \in Programs
    /\ at = [p \in Party |-> 1]
    /\ listening = {}
    /\ links = {}
    /\ filled = [p \in Party |-> {}]
    /\ running = {}
    /\ aborted = FALSE

Busy(p) == at[p] <= Steps(p)
Now(p) == Op(p, at[p])

-----------------------------------------------------------------------------
(* The io_contexts of the connections.                                     *)

(***************************************************************************)
(* Whether there is one for e.  In MonoPSI the loop that allocates them    *)
(* does so for zero sharing, and for reconstruction at the dealer only: a  *)
(* party's sendIocwForRC stays a null pointer.                             *)
(***************************************************************************)
Allocated(e) == program = "sep" \/ e.kind = "zs" \/ e.act = "accept"

(* The thread of the next connection is started.                           *)
Launch(p) ==
    /\ program = "mono"
    /\ Busy(p)
    /\ Allocated(Now(p))
    /\ Now(p) \notin running
    /\ running' = running \cup {Now(p)}
    /\ UNCHANGED <<program, at, listening, links, filled, aborted>>

(* There is no io_context to run: the null pointer is followed.            *)
LaunchNothing(p) ==
    /\ Busy(p)
    /\ ~ Allocated(Now(p))
    /\ aborted' = TRUE
    /\ UNCHANGED <<program, at, listening, links, filled, running>>

(* The next connection can be opened, since its io_context is run.         *)
Running(p) == Busy(p) /\ (program = "sep" \/ Now(p) \in running)

-----------------------------------------------------------------------------
(* AsioAcceptor: the port is opened when the participant gets there.       *)
Listen(p) ==
    /\ Running(p)
    /\ Now(p).act = "accept"
    /\ Now(p) \notin listening
    /\ listening' = listening \cup {Now(p)}
    /\ UNCHANGED <<program, at, links, filled, running, aborted>>

(***************************************************************************)
(* AsioConnect: it is retried until somebody listens on the port, and then *)
(* completes, whether or not the acceptor has seen it yet: as long as the  *)
(* port is open, whoever connects is connected to it.                      *)
(***************************************************************************)
Connect(p) ==
    /\ Running(p)
    /\ Now(p).act = "connect"
    /\ \E e \in listening :
          /\ Port(e) = Port(Now(p))
          /\ links' = links \cup {<<Now(p), e>>}
    /\ filled' = [filled EXCEPT ![p] = @ \cup {Now(p)}]
    /\ at' = [at EXCEPT ![p] = @ + 1]
    /\ UNCHANGED <<program, listening, running, aborted>>

(* The acceptor has its connection: it is closed.                          *)
Accept(p) ==
    /\ Running(p)
    /\ Now(p) \in listening
    /\ \E l \in links : l[2] = Now(p)
    /\ listening' = listening \ {Now(p)}
    /\ filled' = [filled EXCEPT ![p] = @ \cup {Now(p)}]
    /\ at' = [at EXCEPT ![p] = @ + 1]
    /\ UNCHANGED <<program, links, running, aborted>>

PartyStep(p) == /\ ~ aborted
                /\ \/ Launch(p) \/ LaunchNothing(p)
                   \/ Listen(p) \/ Connect(p) \/ Accept(p)

Connected == \A p \in Party : ~ Busy(p)

(* Nothing is left to do once everybody is connected or the process gone.  *)
Terminated == (Connected \/ aborted) /\ UNCHANGED vars

Next == (\E p \in Party : PartyStep(p)) \/ Terminated

(* Threads run, Asio completes what can be completed, connects are retried.*)
Fairness == \A p \in Party : WF_vars(PartyStep(p))

Spec == Init /\ [][Next]_vars /\ Fairness

-----------------------------------------------------------------------------
(* Properties.                                                             *)

(* The ends of the connections p needs, by what SepPSI uses them for.      *)
Needed(p) ==
    {End("connect", "zs", p, q, h) : q \in Party \ {p}, h \in Phase}
    \cup {End("accept", "zs", q, p, h) : q \in Party \ {p}, h \in Phase}
    \cup IF p = DealerIdx
         THEN {End("accept", "rc", q, p, h) : q \in Party \ {p}, h \in Phase}
         ELSE {End("connect", "rc", p, DealerIdx, h) : h \in Phase}

(***************************************************************************)
(* Every TCP connection joins the two ends of one conversation in one      *)
(* phase, although they are told apart by nothing but computed port        *)
(* numbers, and no two acceptors are ever open on one port.                *)
(***************************************************************************)
RightPeer ==
    /\ \A l \in links : l[1] = [l[2] EXCEPT !.act = "connect"]
    /\ \A e, f \in listening : Port(e) = Port(f) => e = f

(***************************************************************************)
(* A participant that goes on after its connections has all the sockets    *)
(* its constructor is given, each joined to the acceptor or the connector  *)
(* of a peer.                                                              *)
(***************************************************************************)
ReadyMeansWired ==
    \A p \in Party : ~ Busy(p) =>
        /\ filled[p] = Needed(p)
        /\ \A e \in filled[p] : \E l \in links : e \in {l[1], l[2]}

(***************************************************************************)
(* Everybody gets connected, unless the process ends: the orders never     *)
(* wait for each other, nor for a thread.                                  *)
(***************************************************************************)
EverybodyConnects == <>(Connected \/ aborted)

(***************************************************************************)
(* Every io_context that is run exists, so that everybody gets connected   *)
(* (experiments/main.cpp:107-113 runs MonoPSI unless told otherwise, and   *)
(* its test is to end in "OK", exp.cpp:319).                               *)
(***************************************************************************)
ContextsExist == ~ aborted

-----------------------------------------------------------------------------
(* The inductive invariant behind the safety properties.                   *)

AllEnds == [act : {"connect", "accept"}, kind : Kind, from : Party, to : Party,
            phase : 1 .. 2]

(* The shape of the state (the locals of standaloneWithAsio).              *)
TypeOK ==
    /\ program \in Programs
    /\ at \in [Party -> Nat \ {0}]
    /\ \A p \in Party : at[p] <= Steps(p) + 1
    /\ listening \subseteq {e \in AllEnds : e.act = "accept"}
    /\ links \subseteq AllEnds \X AllEnds
    /\ DOMAIN filled = Party
    /\ running \subseteq AllEnds
    /\ aborted \in BOOLEAN

(* A link joins a connector to an acceptor on the port it was given.       *)
LinksInv == \A l \in links : /\ l[1].act = "connect" /\ l[2].act = "accept"
                             /\ Port(l[1]) = Port(l[2])

(* A participant holds the sockets of its steps so far, all of them linked.*)
FilledInv ==
    \A p \in Party :
        /\ filled[p] = {Op(p, s) : s \in 1 .. at[p] - 1}
        /\ \A e \in filled[p] : \E l \in links : e \in {l[1], l[2]}
=============================================================================
