# MultiVolePSI in TLA+

MultiVolePSI computes the intersection of the sets of `n` participants.  One of
them, the *dealer*, learns the intersection.  The code under `src/MultiVolePSI`
builds on OPPRF instances between pairs of participants (a *sender* programs a
value for each of its elements, a *receiver* decodes a value for each of its own
and gets the programmed one for a common element), written as coroutines over
message sockets.  This directory models its core and checks it with TLC and TLAPS.

## 1. Inventory

| part | source | state | operations | hard because | correct when |
|---|---|---|---|---|---|
| protocol, two phases | `sepVolePSI/sep_psi.cpp` | share vectors, OPPRF objects, tasks | `offline`, `online` of party and dealer; `SepPSI::offline/online/run` | 2(n-1) eager tasks per participant, no barrier in `standaloneWithAsio`, views into coroutine frames | the dealer returns the intersection; everybody returns; no instance is used unprepared; no task outlives its frame |
| OPPRF | `sepVolePSI/sep_opprf.cpp` | Paxos parameters, `mP` | `offline_*`, `online_*`, `eval` | wraps the OPRF on the same untagged socket; output buffer reused | the receiver decodes what was programmed |
| OPRF | `sepVolePSI/sep_oprf.cpp` | VOLE shares, `mPrepared`, `mW` | `offline_*`, `online_*`, `eval` | chunk loops at both ends; commit-and-open variant | both ends evaluate one function |
| connection set-up | `sep_psi.cpp`, `standaloneWithAsio` | sockets, acceptors | blocking connects and accepts in a fixed order | circular waits; only port numbers tell connections apart | all get connected, to the right peer |
| local sockets | `sockets/sockets.cpp` | socket vectors | `createLASocketsFor*` | | pairs are joined |
| one-phase protocol | `monoVolePSI/mono_psi.cpp` | as the two-phase one | `MonoPSI::online/run`, `online` of party and dealer | eager tasks and views as above; `run` destroys the participants | returns the intersection, and nothing is left running |
| its connection set-up | `mono_psi.cpp`, `standaloneWithAsio` | sockets, an io_context and a thread for each | as above, a thread started before each connection | circular waits; a context nobody allocates | all get connected on contexts that exist |
| inputs | `experiments/exp.cpp` | sets being filled, generators | `createPartySets`, `randomSet*`, `getIntersection` | near misses, repeated seeds, full sets | sets have one size and the common items in common; every participant matters |
| errors | `sep_psi.cpp`, `mono_psi.cpp` | exceptions stored in tasks, open sockets | the await loops, the end of `run` | tasks awaited in index order, tasks left behind, sockets that close one participant at a time | no result from incomplete shares; everybody gets out |
| harness | `experiments/exp.cpp` | futures, io threads, work guards | `test`, `test_with_asio` | order in which threads are released; the error path | no thread leaves early; the harness ends |
| playground, front end, build | `pg/`, `sockets_pg/`, `frontend/`, `psi.cpp`, CMake files | none of the product's | | | |

Participants interact only by messages: each OPPRF instance has an offline and an
online socket.  `SepPSI::run` adds one interaction, `online()` of all starts when
`offline()` of all is complete; `standaloneWithAsio` has none.  The libraries (VOLE,
Paxos encodings, coproto sockets, macoro tasks) are git submodules that are not
in the repository; they are modelled from how this code uses them.

`PROJECT.json` lists the hazards line by line, with the properties that cover them
and, for those without one, why.

## 2. Modules

| module | models | state and actions |
|---|---|---|
| `Blocks` | `oc::block` under XOR | a block is a set of atoms; `(+)` is the symmetric difference; `XorSum(I, f)` holds the atoms that occur an odd number of times |
| `Sharing` | what the two protocols share: participants, instances, and the values they exchange | atoms `Share`, `Noise`; the zero-sharing and reconstruction values as formulas of the input sets |
| `Psi` | what the program promises (abstract) | `Submit(p)`, `Deliver`, `Return(p)` |
| `SepPSI` | `offline()` and `online()` of all participants | `pc[p]` is the line of the coroutine of `p` between two awaits; `vole[c]`, `opprf[c]` the last message of OPPRF instance `c` offline and online; the share vectors under the code's names |
| `Conversation` | what one OPPRF instance promises (abstract) | seed, answer, payload, taken; or refused, if not prepared |
| `SepOpprf` | the sender's calls against the receiver's, offline and online, OPPRF and OPRF | `plan` is the sequence of calls, `sAt`, `rAt` the one each end is at; the two coroutines, the offline message, two online queues, the vectors `p` and `mB`, the chunk loop of each end |
| `PsiFaults` | `online()` of all participants, and `run`, of SepPSI and MonoPSI, when something fails | `pc[p]` is the phase of `p`, `conv[c]` how far a conversation is, `threw` the tasks that have thrown, `closed` whose sockets are closed; `taskIdx`, `res` belong to `run` |
| `Participants` | what `AsioConnect` and `AsioHarness` share | the participants' indices |
| `AsioConnect` | the connection phase of `standaloneWithAsio`, of SepPSI and of MonoPSI | `at[p]` is the position of `p` in its program of connects and accepts; acceptors, TCP connections; for MonoPSI the io_contexts that a thread runs |
| `RowBuffer` | the rows of `SepOpprfReceiver::online_receive`, `SepOpprfSender::online_send` and `eval` in memory | `mem[a]` is the byte at address `a`; one action per row made |
| `MonoPSI` | `MonoPSI::run`, and `online()` of all participants | `started`, `awaited` are the positions of the loops of `MonoPSI::online`; `pc`, `opprf` and the share vectors as in `SepPSI` |
| `PartySets` | `createPartySets` and the functions it calls | a block inserted per action; a random block is its generator's seed and its place in the sequence |
| `AsioHarness` | `test_with_asio` | `main` is where the harness is; per participant a coroutine phase, a work guard, an io thread |
| `SharingProofs` | lemmas on XOR sums of shares | |
| `SepPSIProofs`, `MonoPSIProofs`, `SepOpprfProofs`, `PsiFaultsProofs`, `PartySetsProofs`, `RowBufferProofs` | theorems about the modules they are named after | |
| `AsioProofs` | theorems about `AsioConnect` and `AsioHarness` | |
| `MC...` | finite instances | |

How they compose: `AsioConnect` is what a participant does before `StartOffline` of
`SepPSI` (participants leave it at different times, and `SepPSI` lets them start
at any time).  `SepPSI` composes 2 conversations for each pair of participants
and one from each party to the dealer; each of them implements `Conversation`
(`ImplementsConversations`), and so does `SepOpprf`, message by message.
`MonoPSI` implements the same `Psi` as `SepPSI`.  `PsiFaults` has the control of both
alone, with the conversations in three steps, and adds the exceptions; that it is
their control is checked and proved too (`ImplementsFaultless`).  `AsioHarness` runs the
participants of `SepPSI`, of which it knows only what `DriftIsBounded` and
`DealerReturnsLast` state.  `PartySets` makes the inputs.

**SepPSI and the code.**  `StartOffline` and `StartOnline` are the loops that start
the eager tasks (`sep_psi.cpp:46`, `:136`).  An eager task runs from then on,
whatever its participant does, so the actions of a conversation ask only that the
tasks have been started, never that they are still awaited.  `EndOfflineZS`,
`EndOffline`, `DealerEndOffline`, `EndOnlineZS`, `EndOnline` and `Reconstruct` are
the ends of the await loops with the code that follows up to the next one; that
the loops await in index order makes no difference to when they end, since no
task depends on being awaited.  `barrier` selects `SepPSI::run` or
`standaloneWithAsio`.

**Data.**  A drawn share is an atom `Share(p, q, x)`, and what a receiver decodes
for an element that was not programmed is an atom `Noise(c, x)`.  So two random
blocks are equal only if they are the same draw: the model leaves out the 2^-40
collisions the parameters allow for, and nothing else, since the protocol only
ever XORs blocks and compares them with zero.

**SepOpprf and the code.**  One action runs from one receive to the next; where
a step of the code sends and goes on to a receive, the send is in the action. A
block is a set of atoms: block `i` of `a` and of `c` of the VOLE made by the g-th offline
call, and block `i` of the encoding made in call `k`.  Initially the sender's `mB[i]` is
`a (+) c`; what it receives is added to it, and when it evaluates the receiver's
elements it finds `mB[i]` plus the encoding.  That is the receiver's `a` if every
block came with `c` added once and nothing was left in `mB` from another call.  `D`
multiplies everything at the sender and is left out, since multiplication by a
nonzero `D` keeps equal what is equal and apart what is not.  The VOLE itself is
libOTe's: a request and a correction on the offline socket.  That one VOLE object
can be used for a second VOLE is an assumption about that library.

**PsiFaults and the code.**  A conversation is `open` until seed, answer and payload
have passed, then `payload`, then `taken`; that they pass in one step makes no difference
to who waits for whom, since a task that has thrown passes nothing further either
way.  `Fail` follows the await loops: the exception of a task is seen when all tasks
before it, by the peer's index and sending before receiving, have returned.
`SepPSI::run` destroys the participants when it returns (`Alive`); over asio the
sockets of a participant are closed when its coroutine is destroyed (`Close`).  Two
things are the libraries': a task that its caller no longer awaits may go on or not,
so both are possible and neither is fair; and what was handed to a socket arrives
although the socket is closed, unless the sender failed with the send under way.
`Faults` is a constant: sets of tasks that may throw.  Each of them does so at any time,
or never, which includes the throws of `online_send` and `online_receive` themselves (an empty set, `sep_opprf.cpp:94`; an
instance whose offline phase failed, `sep_oprf.cpp:55` and `:334`, which gets that far
because `SepPSI::run` drops the error of `offline`, `sep_psi.cpp:1195`).

**MonoPSI and the code.**  volePSI's OPPRF is a submodule that is not in the
repository.  Of it the model has what its use shows: both ends take part before
the sender encodes its values, and the receiver gets what was programmed.  The
sender's values are read when it encodes them, not when the task is started, so
that a frame that changes too early is seen (`NoTaskOutlivesItsFrame`).

**RowBuffer and the code.**  The buffer starts at an aligned address, as a vector
of blocks does; behind it are the values to program, if they have memory of their
own, and `temp`.  A row expanded from an output some byte of which was overwritten
holds something else.

**AsioHarness and the code.**  In the phases between `Connecting` and `Reconstruction`
a coroutine waits for something that is pending on its io_context, so that
`io_context::run` does not return.  `SeeError` takes the branch the handler is
written for: `v.error()` throws.

**Sends.**  The repository does not say when `co_await socket.send(...)` completes.
`buffered` covers both answers, when the socket has taken the message and when
the peer has received it.

## 3. Runs

| run | instance | shows |
|---|---|---|
| `protocol` | 3 participants, the dealer in the middle. With the barrier of `SepPSI::run`: every assignment of sets of two of 3 elements up to their names, sends that complete on receipt. Without it: one assignment, buffered sends; 125 000 states | the result is the intersection and zero shares cancel exactly; drift is at most a phase, nothing is used unprepared, no task outlives its frame, the dealer returns when nobody needs it; all return; `Psi` is implemented with its liveness; each instance is a `Conversation`; the online phase is that of `PsiFaults` without faults |
| `faults` | 3 participants, the dealer in the middle; any tasks of one participant's zero sharing throw, or any ends of the conversations between two participants, or a connection breaks; `run` with either kind of send, asio with buffered sends; 433 000 states | no result from incomplete shares, nor before all have returned; over asio all coroutines end, unless some wait in a circle; `run` ends, or waits past the error of a later participant or for such a circle; without a fault nobody sees one |
| `opprf` | vectors of 1 to 15 blocks, chunks of 8, offline then online; vectors of 1 and of 12 blocks in four other sequences of calls; both modes with either kind of send; 2 300 states | messages are taken for what they are; the correction is complete; the value is right exactly when the call has a VOLE of its own; both ends return or throw, or stop where their sends cross in the malicious mode without buffers; `Conversation` is implemented |
| `opprf_long` | vectors of 16, 17, 24 and 30 blocks, chunks of 8 | **violation**, see below |
| `connect` | 5 participants of SepPSI or MonoPSI, the dealer in the middle, the harness's port bases; 4 000 states | nobody waits forever for a connection or for a thread; connections join the right peers; whoever goes on is fully connected |
| `rows` | up to 5 rows of up to 34 bytes, for the sender and its `eval`, and for the receiver where `(n*m) % 16 <= m - 16` or rows are at most a block; 2 900 states | every row is its own addend plus its own OPRF output |
| `rows_tight` | the other shapes within these bounds | **violation**, see below |
| `party_sets` | up to 4 participants, 0 to 4 common items, set sizes 0 to 9; 2 600 states | the expected result is the common items; one size; nobody is redundant; the filling ends |
| `mono` | 3 participants, every assignment of sets of two of 3 elements; 40 000 states | `run` returns the intersection, with nothing left running; `Psi` is implemented; the control, with the caller's loops, is that of `PsiFaults` without faults |
| `mono_contexts` | 5 participants of MonoPSI, dealer first | **violation**, see below |
| `harness` | 5 participants, sets with elements and empty sets; 540 states | no io thread leaves early; every coroutine ends; the harness returns when there is a result |
| `harness_error` | the same | **violation**, see below |

Why the bounds are enough.  Three participants are the first number for which the
roles differ: a party has another party, the dealer, and two instances with each;
an element can be lacked by one, by two, by the dealer alone.  With 3 elements
there is one for each of these cases at a time.  In `protocol` and `mono` the set of the
last participant is fixed, since the elements, which the protocol never compares but
for equality, can be renamed; in `protocol` so is which of the other two sets comes
first.  The two halves of `protocol` are the mode in
which most has to wait and the one in which least has to.  The theorems below remove
these bounds, and hold for every combination.  In `faults` what may throw is all of
a participant's zero sharing (its set is empty), or whatever two participants do with
each other (instances that were not prepared, or cannot be encoded), one task of it or
several: with the dealer in the middle the faults are before, at and after each
participant that waits, in either phase.  The invariants are proved for every set of
tasks that may throw.  Chunks of 8 blocks are
the smallest the unrolled loops treat as the code treats 2^28; up to 15 blocks
both loops see an empty, a partial and a full last chunk.  The other sequences of
calls are online without offline, online twice on one VOLE, two VOLEs before one
use, and use after use each with a VOLE; what a call finds depends on the one
before it and on whether any VOLE was made.  Five participants give
`connect` participants with peers on both sides, and a dealer with both.  Rows of
up to 34 bytes are shorter than, equal to, and up to two bytes longer than two
blocks; whether a row overtakes an output depends on `(n*m) % 16` and `m` alone, and
with `m` of 31 or more never happens, since alignment takes off at most 15 bytes.
In `party_sets` there are sets smaller than the common items, full before, amid and
after the near misses, and for participant 0 sets that repeat all common items
before they get full.  In `harness` the dealer, which the harness treats apart, and
parties before and after each other in its loops are all there with three; five
are used since they are cheap.

Fairness.  A coroutine whose awaited task is complete is resumed, and a message in
a socket is delivered while an `io_context` runs (or, for local sockets, by the
coroutine that sends it).  So every participant and every conversation is weakly
fair in `SepPSI`, the protocol as a whole in `PsiFaults` (which ends after finitely many
steps, so that weak fairness of all its steps is that of each), though neither
faults nor tasks left behind are, both ends in `SepOpprf`, and every participant in `AsioConnect`,
where a connect is also retried until somebody listens.  `MonoPSI` is fair in the
same way, with `MonoPSI::online` as one more process; in `AsioHarness` every thread is weakly fair, since the operating
system runs all of them, and `PartySets` is a sequential program that goes on.
Strong fairness is used nowhere.  These specifications stutter when everything has
returned, so that TLC's deadlock check finds any other stop; it is
off only in `AsioHarness`, which does stop with empty sets, in `PsiFaults`, where `run`
may wait forever, and in `SepOpprf`, where the malicious mode without buffers and the
vectors of `opprf_long` make it stop.  In the passing runs of these, liveness properties
say which stops there are.

Each property has a mutant in `PROJECT.json`, a plausible bug next to the code it
replaces in the module (`Bug...`), that TLC finds with it.

### Findings

`opprf_long`: the chunk loop of `SepOprfReceiver::online_receive` is wrong from two
full chunks (2^29 blocks) on.  It shortens `p` (`sep_oprf.cpp:414-415`) before it
uses `p.size()` as the bound of the tail loop (`:437`) and to recognise the last
chunk (`:443`).  With exactly two chunks, the first message is the second half of
`p`, to which `c` was never added, and `p` is moved away before the second
iteration.  With more, the tail loop adds `c` to blocks of the next chunk, which
adds it again.  Below two chunks the loop is right (`opprf`).

`rows_tight`: with rows of 17 to 30 bytes and `(n*m) % 16 > m - 16` (`n >= 2`), row `n-2`
overwrites the beginning of the last OPRF output, from which row `n-1` is made next
(`sep_opprf.cpp:237-243`, `:278-283`).  Row `n-2` ends at `(n-1)*m`, and the last output
starts at `n*m - (n*m) % 16 - 16`; when rows exceed a block by less than alignment
takes off, that is lower.  SepPSI uses rows of one block, to which it does not happen.

`mono_contexts`: a party of `MonoPSI::standaloneWithAsio` dereferences `sendIocwForRC`
(`mono_psi.cpp:390`), a pointer that nothing is assigned to.  `connect` shows that
the connections before that fit together.

`harness_error`: when the dealer's coroutine fails, `test_with_asio` prints the error and
returns (`exp.cpp:279-290`), and the destructors then wait for io threads whose work
guards nobody has released: `iocWorks`, declared first, is destroyed last.  Empty sets
are one way to get there.

Four remarks rather than findings.  `faults` shows when `SepPSI::run` (and
`MonoPSI::run`) reports an error: when the participants before the one that failed
can return, or fail themselves.  Otherwise, for example when participant 1 fails in
zero sharing before participant 0 has its share from it, `run` never gets to its
`"error!"` (`sep_psi.cpp:1211`), since participant 0 is awaited first and the local
sockets of participant 1 stay open.  Over asio this does not happen.

But when several tasks throw, participants can wait in a circle, over asio too
(`WaitInACircle`).  Say those in which 0 and 2 receive from each other have both thrown:
each of the two awaits its sending task first, whose other end is gone.  Neither
gets to the exception it would end by, so no socket closes, and whoever needs a message of
theirs waits as well.  One task that throws is not enough for a circle, since its owner
waits for other tasks, none of which has lost its other end.

`opprf` shows that an OPPRF object gives wrong values, without an error, when it is used
online twice after one offline call: `mPrepared` records that there was a VOLE, not
that it is unused.  `SepPSI` uses each object once.

`opprf` shows too that the malicious variant needs sockets that buffer: with sends that
complete on receipt the sender opens `ws` (`sep_oprf.cpp:72`) before it receives chunks and
the receiver sends chunks before it receives `ws`, and both stop there (`SendsCross`).  Nothing
in the repository states the contrary, and `SepPSI` never sets `mMalicious`.

## 4. Proofs

Each `...Proofs` module proves that an inductive invariant, defined at the end of the
module it is about, holds initially and in each step, one action at a time, and then
draws the properties from it.  The theorems hold for all values of the constants that
meet the named assumptions.

| module | theorem | statement |
|---|---|---|
| `SepPSIProofs` | `TypeCorrect` | `Spec => []TypeOK` |
| | `DriftBounded` | `Spec => []DriftIsBounded` |
| | `PreparedFirst` | `Spec => PreparedBeforeUse` |
| | `FramesOutliveTasks` | `Spec => NoTaskOutlivesItsFrame` |
| | `DealerLast` | `Spec => []DealerReturnsLast` |
| | `Correctness` | `Spec => []ResultIsIntersection` |
| | `ZeroSharing` | `Spec => []SharesCancelExactly` |
| | `Refinement` | `Spec => ImplementsIdealSafely`, the safety part of `ImplementsIdeal` |
| | `Conversations` | `Spec => ImplementsConversations` |
| | `ControlOfPsiFaults` | `Spec => ImplementsFaultless` |
| `MonoPSIProofs` | `NothingLeft` | `Spec => []NothingLeftBehind` |
| | `FramesOutliveTasks` | `Spec => NoTaskOutlivesItsFrame` |
| | `Correctness` | `Spec => []RunReturnsIntersection` |
| | `Refinement` | `Spec => ImplementsIdealSafely` |
| | `ControlOfPsiFaults` | `Spec => ImplementsFaultless` |
| `PsiFaultsProofs` | `CompleteResult` | `Spec => []ResultMeansComplete` |
| | `RunAwaitsAll` | `Spec => []ResultOfAll` |
| | `ClosingIsHarmless` | `Spec => []NoFaultNoError` |
| | `LeftOnlyByFailure` | `Spec => []TasksLeftOnlyByFailure` |
| `SepOpprfProofs` | `MessagesAreExpected` | `Spec => []Framing` |
| | `EveryBlockIsMasked` | `ShortVectors` implies `Spec => []CorrectionIsMasked` |
| | `FreshCallsAreRight` | `ShortVectors` implies `Spec => []RightExactlyWhenFresh` |
| | `FirstCallConverses` | `ShortVectors` implies that `Spec` implements the steps of `Conversation` |
| `RowBufferProofs` | `RowsAreOwn` | `RoomyCases` implies `Spec => []RowsFromOwnOutputs` |
| | `LastRowIsNot` | `TightCases` implies `Spec => [](pc = "done" => ~ RowsFromOwnOutputs)` |
| | `RowsOfUsualSizesAreOwn` | `UsualSizes`, received rows of at most 16 bytes or of 31 or more, implies `Spec => []RowsFromOwnOutputs` |
| `AsioProofs` | `PeersAreRight` | `Spec => []RightPeer` |
| | `ReadyIsWired` | `Spec => []ReadyMeansWired` |
| | `NobodyAbandoned` | `HarnessSpec => []NoContextAbandoned` |
| `PartySetsProofs` | `Expected` | `Spec => []ExpectsCommonItems` |
| | `Sizes` | `Spec => []SameSizes` |
| | `EverybodyMatters` | `Spec => []NobodyIsRedundant` |

**Algebra** (`SharingProofs`).  An atom that occurs in exactly one summand is in the sum
(`XorOnce`), one that occurs in exactly two is not (`XorTwice`), and an atom of the sum
occurs in a summand (`XorFrom`).  No induction over the set of participants is needed:
each `Share(p, q, x)` occurs in the zero shares of `p` and of `q` and nowhere else, so it
cancels if both own `x`; if somebody lacks `x`, the `Noise` decoded from it occurs once
and survives.  `SharesCancel` and `NoiseSurvives` say so of the zero shares,
`DealerSumZero` and `OwnersCancel` of what the dealer adds up.  They are about the values
both protocols exchange, and both correctness proofs rest on them.

**`SepPSI`**, from the assumptions on its constants, for every assignment of sets and both
settings of `barrier` and of `buffered`.  The invariant is `TypeOK /\ ControlInv /\ DataInv`.
`ControlInv` relates phases and messages, both ways: a message that has been passed shows
that its sender has reached the phase in which it is sent (`SentByEnds`); a participant
that has left a phase has both ends' last messages of all its conversations there
(`Awaited`).  The drift bound is not inductive by itself: that `q` is online when `p` has
combined its shares follows only from the message `q` must have sent, which is what the
two halves chain together.  `DataInv` gives, for each vector, its content as a formula of
the input sets alone.  It is what makes the value of a payload known after its sender
has moved on.

`Conversations` ties the protocol to the OPPRF below it.  For each instance at once, a step
of the protocol is a step of `Conversation` or leaves it alone.  The steps follow from
the guards; what has to be shown is `right`, which is said of vectors: the receiver has,
under each element of both sets, what the sender's vector has *now*, when the payload is
taken and in every later step, of whomever.  By `DataInv` what was decoded and the
vector are the same formula of the sets, and the vectors are not written once they
have been sent.  `FirstCallConverses` says of `SepOpprf` that it implements the same
`Conversation`, so that the messages the protocol assumes are those its OPPRF sends.  That
none is refused is not said here, where instances are taken to be prepared, but by
`PreparedFirst`.

`ControlOfPsiFaults` is the other way out of `SepPSI`: with vectors and offline phases
forgotten (`Stage`, `Channel`), each step is one of `PsiFaults` in which no fault
happens (`Faults` is `{{}}`).  `Awaited` in `PsiFaults` is a set of tasks of which all must be done before a
participant goes on; in `SepPSI` the same is said of the messages.  That a payload passes only between
two tasks that have been started needs `SentByEnds`.  So the results about failures are
about a control that the two protocols are proved to have when nothing fails.

**`MonoPSI`** in the same way.  Here `ControlInv` has three parts: the loops of `MonoPSI::online` (`CallerInv`: nobody is awaited before all are
started), the ends of an instance (`BothEndsStarted`) and their tasks (`TasksAwaited`).
That nothing is left when `run` destroys the participants follows from the first and
the third.  Its `ControlOfPsiFaults` includes the caller: the loop that starts the participants
starts one that is `ready`, and the loop that awaits them is `AwaitNext` of `PsiFaults`.

**`PsiFaults`**, for any number of participants and any sets of tasks that may throw, at any
time.  `FaultsInv` says that a participant leaves a phase
by failing or with all its tasks there done (`ZsFinished`, `RcFinished`), that a
message which has been passed shows where both of its ends have been (`PassedByBoth`),
and that `run` has awaited in order (`AwaitedReturned`, `ResultAfterAll`).  The dealer's
result then goes back through its messages to each party, and through theirs to the
zero sharing between any two.  `ClosedEnded` and `Faultless` are for the opposite
case: without a fault a socket is closed only by somebody who has ended, having done
all its tasks, hence with nobody left to disturb.

**`SepOpprf`**.  `WireInv` holds for any size of the vectors, plan, mode and kind of socket.
Its core is `SyncInv`, which has for each line the receiver may wait at the lines
the sender may be at and the messages between them.  The chunks, of which there may be
any number under way, are one formula (`ChunksFrom`: the i-th message has the chunk
that starts at `pp + i * Chunk`, and the last one ends at `n`).  So no message is taken
for another although nothing tags them, not even where the sender is already in the
next call.  On top of it, `MaskInv` has what is left of `p` untouched and the chunks
under way masked once; `ShareInv` has in `mB` a VOLE alone after an offline call, and
after an online one a trace of its encoding that no later call but a new VOLE removes;
`PayloadInv` concludes what `mP` is worth.  `FreshCallsAreRight` is about every sequence of calls.
The last three theorems have the hypothesis

    ShortVectors == \A case \in Cases : case.n < 2 * Chunk

which cannot be dropped: from two full chunks on the code is wrong (`opprf_long`).
It allows for vectors of up to 2^29 - 1 blocks in the code's units.
`FirstCallConverses` maps the first online call to `Conversation`.

**`RowBuffer`**, for any number and any size of rows.  With outputs of 16 bytes in a buffer
with rows of `m > 16` bytes, the receiver puts the outputs at the end, moved down to an
aligned address.  A row overwrites no output that is still needed if what the alignment
takes off is no more than what a row has beyond an output:

    Roomy(rows, bytes) == bytes > BlockSize => (rows * bytes) % BlockSize <= bytes - BlockSize

(`RowsBehind`).  `RoomyInv` then has, for each row still to be made, its output and its
addend in place, and the rows before made.  The hypothesis of `RowsAreOwn`, that the
receiver's cases are roomy, is exact: by `LastRowIsNot` the last row is wrong in every
other case, since a row before it has overwritten the start of the last output
(`TightInv`).  It can fail only for rows of 17 to 30 bytes: rows of other sizes
are right in any number (`RowsOfUsualSizesAreOwn`), among them the rows of 16 that the
protocols here use.

**`AsioConnect`**, for any number of participants, both programs, any order of steps.  It
needs one assumption more, `BasesApart`: the four port bases, of either kind of
connection and each phase, are at least `NParties^2` apart.  `test_with_asio` has them 5000
apart, so that it holds for up to 70 participants.  Then a port, a base plus
`from * NParties + to`, belongs to one conversation in one phase (`Port`).

**`PartySets`**, for any number of participants, of common items and of elements.
`ContentsInv` says where each block of a set can come from, `SizeInv` how many there
are; `IndexInv` has the indices of the near misses, all of which get into a set when it
has room for them (`Room`), and each of which is lacked by one participant only.

**`AsioHarness`**, for any number of participants.  The invariant adds three facts: guards
are released, and the harness is in its final loop, only when the dealer has returned;
and when the dealer has returned, everybody has come to reconstruction.  So a coroutine
whose guard is gone has begun, and as its thread stops only while it does not wait, it
has ended.

Before they were proved, the invariants were checked by TLC on the instances of section 3.
In that of `SepOpprf` the quantifier `\A k \in Nat` over traces was restricted to 0..9 for
this, which is more calls than any plan there has.

Only model-checked is liveness, which the prover cannot handle: `Termination`,
`EverybodyConnects`, `ResultIsReported`, `CoroutinesEnd`, `RunEnds`, `SetsGetFull`,
`EverybodyEnds`, `RunEndsOrWaits`, and the fairness that `ImplementsIdeal` and
`ImplementsConversation` add to the steps proved above.

## 5. Not modelled

Randomness and what it hides (the model is about correctness, not secrecy); the
Paxos encodings, the VOLE and volePSI's OPPRF (libraries; the solver's failure
probability is left out); timers and logging; a connection that
breaks where tasks throw by themselves as well; faults in the offline phase other than by
what they leave unprepared.

What MonoPSI's `standaloneWithAsio` would do after the connections, online on several io
threads, is not reached: the process ends before (`mono_contexts`).  A model of it
would have no state of the program in it.

`test`, `test_with_print` and the command line are a call and a print: `test` checks
that what was returned is common, so after an error, when `run` returns nothing, it
prints `OK`.  The playground and the front end are no part of the product: trial
programs, and copies of the protocol that the modelled code has replaced.

## 6. What is left

Every safety invariant and action property that the passing runs check is also a
theorem; four of the theorems have a hypothesis that section 4 gives (`ShortVectors`, `RoomyCases`,
`BasesApart`).  Liveness stays with TLC, and so does the fairness in the refinements of `Psi`
and `Conversation`.

With libOTe's and volePSI's sources at hand, their two messages of a VOLE and the two
preparing steps of `MonoPSI`'s OPPRF could be modelled instead of taken from their use.
