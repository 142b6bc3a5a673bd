# DisruptorForCpp: specification, model checking and proofs

DisruptorForCpp is a header-only C++ library (`src/include/`) for passing events
between threads through a ring buffer without locks: producers claim sequence
numbers, write the events into slots and publish them; event processors wait for
a sequence, handle the events and record how far they are, and that in turn is
what the producers wait for. This directory holds TLA+ models of it, the
TLC runs that check them and TLAPS proofs of the safety of both Sequencers and of the
timed wait.

## 1. Inventory

| Component | Source | State | Operations |
|---|---|---|---|
| Sequence | `sequence.h` | one atomic `int64_t`, padded | `GetSequence`, `SetSequence`, `IncrementAndGet` (called by the tests only), `CompareAndSet`; `GetMinimumSequence` over a vector |
| RingBuffer | `ring_buffer.h` | array of events, its size | `operator[]` |
| SingleThreadStrategy | `claim_strategy.h:97-169` | cached cursor, cached gating sequence | `IncrementAndGet`, `HasAvailableCapacity`, `Publish` (2), `IsAvailable`, `GetHighesetPublishedSequence` |
| MultiThreadStrategy | `claim_strategy.h:173-294` | shared cached gating sequence, `_available_buffer` | the same |
| WaitStrategy | `wait_strategy.h` | BlockingStrategy: mutex and condition variable; the others none | `WaitFor`, timed `WaitFor`, `SignalAllWhenBlocking` |
| SequenceBarrier | `sequence_barrier.h` | `_alerted`, dependents | `WaitFor` (2), `SetAlerted`, `SignalAllWhenBlocking` |
| Sequencer | `sequencer.h` | `_cursor`, `_gating_sequences`, ring and strategies | `Next`, `Publish` (2), `HasAvailableCapacity`, `SetGatingSequences`, `NewBarrier`, `GetCursor` |
| EventProcessor | `event/event_processor.h` | `_running`, `_sequence` | `Run`, `Stop` |
| EventProducer | `event/event_producer.h` | none | `PublishEvent` with a translator, or with an event to move |
| EventHandler, EventTranslator | `event/event_interface.h` | the client's | `OnEvent`, `OnStart`, `OnShutdown`, `TranslateTo` |
| Log2 | `utils.h` | none | the shift of the flags |
| Benchmarks | `benchmark/` | client programs | topologies, set-up, waiting until drained, stopping |

Threads and what they share:

    producer threads --claim--> _cursor / caches --write--> slots --publish--> _cursor or flags
          ^                                                                        |
          | GetMinimumSequence(_gating_sequences)              SequenceBarrier::WaitFor
          |                                                                        v
    processors' _sequence <--record-- processor threads: OnEvent(slot) <-----------+
                                                 ^ alerted, notify
                                 controlling thread: Stop

What is hard, component by component, and what makes each correct:

* **Claiming** decides by values that are old when used: the cached gating
  sequence, the minimum over several Sequences loaded one after the other, and,
  with several producers, the cursor before the compare-and-set. Correct means:
  claims are disjoint and in order, and no slot is claimed while some processor,
  gating or not, has still to handle what is in it.
* **Publishing** must come after the write, batch by batch, and with several
  producers out of claim order. Correct means: a processor only sees events
  that are written, in order, once.
* **Waiting** on a condition variable, with the cursor first loaded without the
  lock, must lose no wakeup; then the spin on the dependents must end.
* **Stopping** races the start of `Run`, the wait and the processors that share a
  barrier, and leaves a signal value in a Sequence others read.
* **The whole** must not come to a state where producer and processors wait for
  each other.
* **Set-up and shutdown** belong to the client: the gating Sequences must be set
  before the first claim, and before it stops the processors the client waits until
  the last Sequences have reached `GetCursor`, which with several producers is what
  has been claimed. Correct means: then every processor has handled everything.
* **A timed wait** takes its deadline from a clock that may be set, keeps a retry
  counter across rounds and probes the flags after its answer. Correct means: no
  early timeout, no answer that is not ready, and it returns.

`PROJECT.json` lists every hazard at its line with the properties about it.

## 2. Modules

| Module | Models |
|---|---|
| `SequenceDefs` | the special cursor values, one iteration of `GetMinimumSequence`, the slot index, the wrap point |
| `WaitStrategy` | `SequenceBarrier::WaitFor` and the four wait strategies, a step for each load of an atomic and each acquisition of the mutex |
| `EventProcessor` | `Run` on every processor's thread, `Stop` on the client's controlling thread |
| `Sequencer` | what a Sequencer has around its claim strategy: the ring and `_gating_sequences`, `SetGatingSequences`, the `PublishEvent` overloads, what the client waits for before it stops |
| `SingleProducer` | a Sequencer with `SingleThreadStrategy`, one producer thread, the processors |
| `MultiProducer` | a Sequencer with `MultiThreadStrategy`, several producer threads, the processors |
| `Disruptor` | the abstract specification: a bounded multicast log, no threads, caches or atomics |
| `TimedWait` | `WaitFor` with a timeout, of the four wait and both claim strategies: one thread, its retry counter and deadline, the probe of the flags, and an environment that claims and publishes, dependents that handle, record and are stopped, alerts, time, and a clock that is set |
| `RingArithmetic` | the mask of `RingBuffer`, the shift of the flags, `Log2` and the commented assertion, on words of `Width` bits |
| `ProcessorInv` | the invariants of the event processors, in front of either claim strategy |
| `SingleProducerInv`, `MultiProducerInv`, `TimedWaitInv` | the inductive invariants of `SingleProducer`, `MultiProducer` and `TimedWait`, in named parts |
| `ProcessorProofs` | the lemmas about the event processors |
| `SingleProducerProofs`, `MultiProducerProofs`, `TimedWaitProofs`, `DisruptorProofs` | the theorems (section 5) |
| `MCSingleProducer`, `MCMultiProducer` | topologies for TLC; the second also states the two properties of `RingArithmetic`, looked at while the Sequencer is being built, where the code has its assertion |

How the state corresponds to the code:

* `cursor`, `sequence`, `alerted`, `running`, `mutex` are the shared objects of the
  same names. `pc` is where a processor's thread is in `Run` and in the `WaitFor` it
  has called; `next`, `available` are its locals; `unread` is what is left of the loop
  of `GetMinimumSequence`. `producerPc`, `writing`, `minimum`, `ungated` are the same
  for a producer, `cursorCache` and `gatingCache` the caches of the strategies.
* An event is the sequence it was written for, so "the slot holds the event of
  sequence s" is `slots[CalculateIndex(s)] = s`.
* An action is one access to shared memory with the local work up to the next
  one. `OnEvent` and `TranslateTo` are one step each; while `pc[c] = "handle"` and
  `next[c] <= available[c]` the processor is inside `OnEvent` and may read the slot at
  any time before the step, which is why `UnhandledIntact` speaks of every state.
* `gating` is `_gating_sequences`: empty until the client calls `SetGatingSequences`.
  `GatingFirst` is the discipline of the client: TRUE where it makes that call before
  the first claim, as every test and benchmark that builds a Sequencer does (the tests of a
  claim strategy alone also give it an empty vector). The minimum over no Sequences is
  `LONG_MAX`, as in the code.
* `Overloads` are the ways an event gets into its slot: by a translator, moved, or
  "copy", for an event that cannot be moved: `PublishEventImpl` then copies its bytes over the
  local pointer (`event_producer.h:75`) and the slot keeps what it had. It copies
  `sizeof(T)` bytes, so that a type larger than a pointer would overwrite the stack around
  it: the model takes such an event to be no larger than a pointer.
* `IncrementAndGet` asked for a batch larger than the ring goes through its loop like
  any other; it never returns, and on the way must harm nothing.
* `GetMinimumSequence` loads in the order of the vector; the client builds the
  vector, so the loads come in any order here.
* BusySpin, Yielding and Sleeping touch the same shared state in the same
  order. What they do between two rounds (nothing, yield, count down, sleep)
  touches nothing another thread sees, and is no step.
* `SignalAllWhenBlocking` (lock, notify_all, unlock) is one step: nothing is read
  under the lock and each woken thread has to acquire it again.
* `_available_buffer` is plain memory. With `FlagsOrdered` true the flag follows the
  event; with `FlagsOrdered` false it may also precede it, one of the outcomes the
  data race allows (for the overload that publishes slot by slot).
* The slots and flags are written as remainder and quotient; `RingArithmetic`
  compares them with the masks and shifts of the code for every size and sequence.
* In `WaitStrategy`, `ReadCursor`, `ReadDependent` and `CheckAlert` stand for the loop of
  BusySpin, Yielding and Sleeping alike (`map` names one of the three loops for
  each), and for the unlocked parts of BlockingStrategy.

`Disruptor` promises: sequences are claimed in order, a claim waits until every
processor is done with what it replaces, each claimed sequence is published
once, every processor handles every published sequence once, in order, after its
dependents. `SingleProducer` implements it with `claimed` the cached cursor once
`IncrementAndGet` returns, `published` the sequences up to the cursor, `handled`
`next - 1`. `MultiProducer` implements it with `claimed` the cursor and `published` the
sequences whose flag has reached their round of the ring.

## 3. Runs

| Run | Instance | States | Shows |
|---|---|---|---|
| `diamond` | 3 processors, blocking, the last one gates, ring 2, batches 1..3, sequences to 4 | 644 000 | `IInv`, honest capacity, no lost wakeup, no circular wait, drained means handled, refinement; batches smaller than the ring, as large, and larger |
| `multicast_stop` | 2 processors on one barrier, blocking, stopped at any time, ring 2, moved batches of 2 and 3, sequences to 3 | 645 000 | safety under shared, cleared and lost alerts; `Stop` ends the `Run` it finds unless a processor starts |
| `live_pipeline` | blocking pipeline, ring 1, copied events, sequences to 2, stopped | 76 000 | everything handled, publications return, `Stop` joins |
| `multi_pipeline_stop` | 2 producers, batches 1..3, ring 2, translated events, blocking pipeline, stopped | 2 200 000 | `MultiInv`, races of claims, flags and cache, no lost wakeup, no circular wait, drained means handled, refinement |
| `multi_reordered` | 2 producers, 2 calls each, batches 1 and 2, flags unordered; words of 6 bits | 2 980 000 | `MultiInv`, claims and the shared cache do not depend on the order of flag and event, a producer writes its own claim only; the ring arithmetic |
| `multi_live` | 2 producers, 1 spinning processor, stopped | 127 000 | everything claimed is handled, calls return, `Stop` joins |
| `run_again` | `Run`, `Stop`, `Run` | violation | finding 1 |
| `stop_while_starting` | `Stop` while `Run` starts | violation | finding 2 |
| `flag_before_event` | flags unordered | violation | finding 3 |
| `timed` | all wait and claim strategies, 0 or 2 dependents, stopped or not, timeout of 1 tick, clock set | 1 100 000 | `TimedInv`, no early timeout, no unready answer, no missed signal, calls return |
| `timed_dependents` | BlockingStrategy, 0 or 1 dependent | violation | finding 4 |
| `late_gating` | a claim before `SetGatingSequences` | violation | finding 5 |

The properties:

* `TypeOK` (one per specification): ranges; in particular `LONG_MAX` of an
  unfinished scan reaches no cache, and a flag counts no more wraps than the
  claims could make.
* `UnhandledIntact`: no published event is overwritten before every processor has
  returned from handling it. `HandlesWritten`: what a processor handles is in its
  slot. `ClaimedSlotsFree`: what a producer has claimed, or is about to on the word of the shared
  cache, every processor has handled in its former slot, although a delayed producer may
  have set the cache back.
* `CapacityHonest`: a yes of `HasAvailableCapacity` stays true until the next claim.
* `DrainedHandled`: once the last processors' Sequences have reached the cursor, every
  processor has returned from `OnEvent` for everything published and, with several
  producers, for everything claimed: a client that stops then loses nothing.
* `GatingRespected` (violated, finding 5): whenever the gating Sequences are set, no
  claim gets more than a ring ahead of them.
* `AssertionNeeded`: the commented assertion of `RingBuffer` is exactly the condition
  under which sequences less than a ring apart have slots of their own.
  `FlagAndIndexExact`: for these sizes slot and flag are remainder and quotient.
* `RecordsConsumed`: until the first `Stop`, a Sequence is exactly what its
  processor has consumed whenever it waits.
* `NoCircularWait`: until the first `Stop`, producers and processors do not wait for
  one another in a circle. Some processor handles or finds what it waits for (with
  several producers: or a producer has a batch to finish, on which it waits for nobody), or
  everything is handled and a claim that fits the ring at all finds room.
* `OwnClaims`: what a producer writes and publishes is of its own claim, and nobody
  else has claimed it.
* `NoLostWakeup`: whoever sleeps although its sequence is there, or its barrier
  alerted, is still to be notified.
* `ImplementsDisruptor`: refinement of `Disruptor`, an action property over every step.
* `NeverEarly`, `AnswerReady`, `NoMissedSignal`: the answers of a timed wait. A timeout is not
  reported before it has passed, unless the clock was set forward meanwhile; a
  sequence is answered only when everything from the one requested up to it is published
  and handled by every dependent (with several producers the probe may stop one short of
  the request, where that is claimed and not published); no sleeper misses its signal.
* `EverythingHandled`, `PublishCompletes` / `CallsReturn`, `StopJoins`, `StopEnds`, `TimedReturns`:
  liveness. `StopJoins` is for a client that stops once every processor runs, each on a barrier of
  its own; `StopEnds` for one that stops at any moment, on a barrier that is shared: a `Stop` then
  ends the `Run` it finds, unless a processor on that barrier starts, with nothing asked of the
  producer.

**Bounds.** `MaxSequence` (single producer) and `MaxCalls` (several) bound what is
published, `MaxRuns` how often `Run` is called, `MaxAlarms` the alerts, spurious
wakeups and settings of the clock of `TimedWait`; `BufferSize`, the processors and the batch sizes are small.
The ring wraps, a batch of the size of the ring is claimed and a claim has to
wait in every safety run of the Sequencers; a batch straddles the end of the
ring in `diamond`, `multi_pipeline_stop` and `multi_reordered`, and a batch larger than the ring is
asked for in `diamond`, `multicast_stop` and `multi_pipeline_stop`. Two calls of each producer
(`multi_reordered`) let one that is delayed between its scan and its store of the shared cache find
it newer than its own minimum. `MaxSetBack` bounds how far before the moment of the call a clock is
set back. Sequence numbers only
matter up to their slot and round, so two rounds show a stale cache or a stale
flag; the minimum of two Sequences loaded one after the other takes two
dependents (`diamond`) or two gating processors (`multicast_stop`). `Width = 6` leaves sizes up to 31, of which
1, 2, 4, 8 and 16 pass the assertion, and sequences that wrap each of them; mask and shift
work bit by bit, so that wider words add nothing new.
The proofs (section 5) remove these bounds for every safety property but the two of
`RingArithmetic`.

`CHECK_DEADLOCK FALSE` is set only where everything may legitimately be over:
producers done, all processors stopped. Elsewhere TLC looks for deadlocks too, but a
processor that spins and a client that may always ask `HasAvailableCapacity` leave few
states without a step: that nobody waits for ever is what the liveness
properties say.

**Fairness.** `FairSpec` assumes strong fairness of each thread once it is inside a call
(`ProducerStep`, `RunStep`, `StopStep`). Only the steps that acquire the mutex (`Lock`, `Signal`,
`StopSignal`) can be disabled by another thread, and of these it says that a thread that finds the
mutex free again and again is not for ever overtaken; of all the others it says no more than weak
fairness, that a scheduler lets every thread go on. Nothing is asked of the client: it may never
publish, run or stop. `ProcessorFairSpec` (`multicast_stop`) leaves the producer out, which may
stand still anywhere. `SpuriousWake` has no fairness, so no
liveness property depends on it. Liveness of handling and of publishing is stated
up to the first `Stop`: a stopped gating processor holds its producers up for ever,
by design of the library. In `MultiProducer` the number of competing calls is
bounded, as the compare-and-set loop alone is not free of starvation. `TimedWait` assumes
that time passes, that the waiting thread runs, and that whoever published or
set an alert gets to signal; `MaxAlarms` bounds alerts and spurious wakeups, since each
of them makes BlockingStrategy start its whole timeout again, and a clock set back again and
again moves the deadlines of the others away.

## 4. Findings

1. **`run_again`** (`event_processor.h:61`, `:70`). `Stop` makes `WaitFor` return
   `kAlertedSignal`, and `Run` stores that -2 as its Sequence, which is meant to record
   what was consumed (`sequencer.h:107-108`). A second `Run` starts from -1: it hands
   sequence -1, published by nobody, to the handler, and then everything again.
   Producers that gate on the Sequence see -2 too; that is safe (`multicast_stop`).
2. **`stop_while_starting`** (`event_processor.h:56`). `Run` stores `_running = true` and
   then clears the alert. A `Stop` in between sets the alert just before it is
   cleared, and the thread waits for ever; joining it, as
   `test/event_test.cc:106-107` does after `Stop`, does not return.
3. **`flag_before_event`** (`claim_strategy.h:291`). The flags are plain integers; an
   event may become visible after its flag, and is then not "safely read"
   (`claim_strategy.h:76`).
4. **`timed_dependents`** (`wait_strategy.h:399`). A timed `WaitFor` of BlockingStrategy spins on
   its dependents without looking at the timeout, and does not return while one of
   them stands still; `wait_strategy.h:86-87` promises `kTimeoutSignal` (while `:124-127` says of
   BlockingStrategy that the spin on the dependents is cancelled by an alert, and not by the timeout).
5. **`late_gating`** (`claim_strategy.h:126`). A claim made before `SetGatingSequences`
   stores the minimum over no Sequences, `LONG_MAX`, in the producer's cache. No wrap
   point exceeds it, so the Sequences set afterwards are never looked at, and the producer
   overwrites events still to be handled; `sequencer.h:55-56` says they "gate
   producers to prevent the ring buffer wrapping". Every test and benchmark that
   builds a Sequencer sets them first (`GatingFirst`).

Not a run, but to be known to a reader of the models: with several producers the
cursor is what has been *claimed* (`claim_strategy.h:218`), although `sequencer.h:62`
describes `GetCursor` as "the cursor indicating the published sequence". A client that
waits for its Sequences to reach it waits for more, which is safe (`DrainedHandled`).

## 5. Proofs

TLC checks the runs' instances; the theorems hold for every ring size that is a power
of two, every topology, wait strategy, set of batch sizes, number of producers and
number of sequences, with processors stopped at any moment.

| Module | Theorem | Statement | Assumes |
|---|---|---|---|
| `SingleProducerProofs` | `InductiveInvariant` | `Spec => []IInv` | `Client` |
| | `TypeCorrect` | `Spec => []TypeOK` | `Client` |
| | `NeverOverwritten` | `Spec => []UnhandledIntact` | `Client`, written |
| | `DrainedTheorem` | `Spec => []DrainedHandled` | `Client` |
| | `CapacityTheorem` | `Spec => []CapacityHonest` | `Client` |
| | `NoWakeupLost` | `Spec => []NoLostWakeup` | - |
| | `PublishedHandled` | `Spec => []HandlesPublished` | `Client` |
| | `GatingTheorem` | `Spec => []GatingRespected` | `Client` |
| | `ConsumedRecorded` | `Spec => []RecordsConsumed` | `Client` |
| | `NoCircle` | `Spec => []NoCircularWait` | `Client` |
| | `Refinement` | `Spec => ImplementsDisruptor` | `Client` |
| | `LogKept` | `Spec => [](L!InOrder /\ L!Bounded)` | `Client` |
| `MultiProducerProofs` | `MultiInductive` | `Spec => []MultiInv` | `Client` |
| | `MultiTypeCorrect` | `Spec => []TypeOK` | `Client` |
| | `MultiClaimedSlotsFree` | `Spec => []ClaimedSlotsFree` | `Client` |
| | `MultiDrained` | `Spec => []DrainedHandled` | `Client` |
| | `MultiNeverOverwritten` | `Spec => []UnhandledIntact` | `Client`, written, ordered |
| | `MultiHandlesWritten` | `Spec => []HandlesWritten` | `Client`, written, ordered |
| | `MultiRefinement` | `Spec => ImplementsDisruptor` | `Client` |
| | `MultiLogKept` | `Spec => [](L!InOrder /\ L!Bounded)` | `Client` |
| | `MultiConsumedRecorded` | `Spec => []RecordsConsumed` | `Client` |
| | `MultiNoCircle` | `Spec => []NoCircularWait` | `Client` |
| | `MultiNoWakeupLost` | `Spec => []NoLostWakeup` | - |
| | `MultiOwnClaims` | `Spec => []OwnClaims` | - |
| `TimedWaitProofs` | `TimedInductive` | `Spec => []TimedInv` | - |
| | `TimedTypeCorrect` | `Spec => []TypeOK` | - |
| | `TimeoutNeverEarly` | `Spec => []NeverEarly` | - |
| | `AnswersReady` | `Spec => []AnswerReady` | - |
| | `SignalNeverMissed` | `Spec => []NoMissedSignal` | - |
| `DisruptorProofs` | `LogSafe` | `Spec => [](InOrder /\ Bounded)` | `Dependents` a graph on `Consumers` |

`ProcessorProofs` holds the lemmas about the event processors that both Sequencers use.

**Assumptions.** The named ones of the modules: the ring size is a power of two; walking
the dependencies back from the gating processors reaches every processor
(`GatingAssumption`: "last level consumers", `sequencer.h:57`); and no processors depend on one
another in a circle, as a barrier is made of Sequences of processors that exist already
(`DependencyAssumption`: of any processors, one depends on none of the others,
`event_processor.h:39`, `sequencer.h:68`). In the last column:

* `Client`: no processor is run twice (finding 1 is what happens otherwise), and the
  gating Sequences are set before the first claim (finding 5). Every client of a Sequencer in
  the repository does both.
* *written*: no event is published by the overload that does not write it
  (`event_producer.h:75`). The invariants themselves hold with that overload too.
* *ordered*: a flag becomes visible after its event. `flag_before_event` shows that
  it is needed; the claims, the cache and the refinement do not depend on it.

Batches may be larger than the ring in all of them, and no wakeup is lost, and no claim
overlaps another, even with processors run again or the gating Sequences set late.

### The processors (`ProcessorInv`)

* `ProgressInv`: a Sequence is behind its processor, the processor behind the
  cursor and the processors it depends on. It holds with the signal -2 in a
  Sequence too: -2 is behind everything.
* `StartInv`: a processor not yet running has not moved.
* `ScanInv`, `WaitedInv`: a minimum over Sequences loaded at different times is no
  snapshot of anything, but since every processor only moves forward it is
  behind the *present* progress of each one loaded. This is what makes the
  non-atomic `GetMinimumSequence` safe.
* `MutexInv` (for the wakeups only, and for every client): the mutex is held exactly
  between the lock and the next release, so that a notification finds nobody between
  the test of the cursor and the sleep.
* `ConsumedInv` (until the first `Stop`): no barrier is alerted, so that a wait ends with
  something to handle, or, after a probe of the flags, with what is handled already
  ("at least nextSequence - 1", `claim_strategy.h:81`).

Each action of a processor preserves these by a lemma of its own. Both Sequencers'
proofs cite them; what a processor does to the part they do not mention is stated once,
in `ProcessorEffect` and `ProcessorMoves`.

**No circular wait.** `SomeReady` is the argument, for either claim strategy. Suppose no
processor is handling; then by `ConsumedInv` each Sequence is all that its processor has
handled. Of the processors behind the cursor take one whose dependents are all beyond it
(`DependencyAssumption`): their Sequences have reached the cursor, and so what the first one
waits for. If none is behind, every Sequence has reached the cursor, and the claim of another
ring from there finds room (`RoomWhenHandled`). With several producers `OwnedInv` adds that the
sequence has been published if no producer has a batch to finish, and `FlaggedRaised` that the
probe finds its flag.

### One producer (`IInv`)

* `GatingInv`: the cache, and the minimum being computed, are behind every processor,
  not the gating ones alone: `GatingCoversAll` derives it from `GatingAssumption` by
  taking the processors above the bound for its set.
* `ScannedMinimum`, `ClaimFits`: an unfinished scan starts from `LONG_MAX`, but a finished
  one has loaded a Sequence, so that `LONG_MAX` never becomes the cache; and a claim that
  is granted is no larger than the ring, although one asked for may be.
* `ClaimInv`: where cursor, loop variable and cached cursor stand, step by step;
  after a claim everything to be written is less than a ring ahead of the cache.
* `SlotsInv`: every event written and not handled by all is in its slot. A write
  cannot hit one of them: by the above they are less than a ring apart from the
  sequence written, and `IndexDistinct` shows that such sequences differ in their slot.

`DrainedTheorem` follows from `ProgressInv` and `GatingCoversAll`: what the gating Sequences
have reached, the processors they depend on have handled. `CapacityHonest`,
`RecordsConsumed` and `NoCircularWait` need strengthenings of their own on top of `IInv`
(`CapacityInv`, `ConsumedInv`); `NoLostWakeup` does without it (`WakeInv`). The refinement maps
each action to a step of `Disruptor` or to a stutter: `ClaimRefines` covers the two ways a
claim ends, `OnEvent` is `Handle`, `Publish` is `Publish` of the range between the old and
the new cursor.

### Several producers (`MultiInv`)

The cursor no longer says what is published, and no invariant may mention one
producer alone. On top of `ProcInv`:

* `GatingInv`: the cursor is less than a ring ahead of every processor, and the shared
  cache behind every processor. A producer delayed between its scan and its store of the
  cache can only store an older, smaller minimum; one that reaches the compare-and-set
  knows its wrap point to be behind everybody *whatever the others do meanwhile*, since
  processors only move forward, and if it wins, the cursor is still the one it computed from.
* `ClaimInv`: the ranges of two producers past their compare-and-set are disjoint. It
  is inductive because a range that is won begins at the cursor, where all others end.
* `OwnedInv`: every claimed sequence is either raised, that is, its flag has reached this
  round of the ring or a later one, or owned by a producer that has still to
  publish it; never both, and no processor is beyond an owned sequence. This is the
  strengthening on which the rest depends: without "never both" the flag of an
  earlier round could pass for one of this round.
* `ProbeInv`: what a processor has probed is raised, and stays so: a flag is only
  overwritten by a later round, which a processor that has not handled the sequence
  holds back. For the same reason `Flagged` and `Raised` agree on what is unhandled
  (`FlaggedRaised`): the equality the code tests is never missed by overshooting.
* `SlotsInv`: what is filled in and not yet published, and what is raised and not yet
  handled, is in its slot.

For the refinement a raised sequence stays in `Published` and a publication adds exactly
the sequences whose flags it sets; a compare-and-set that wins is `Claim`. `WakeInv`, for
the wakeups, speaks of producers that have moved the cursor: whoever sleeps although its
sequence is claimed is still owed the notification of one of them.

`OwnClaims` is proved once more without `MultiInv`, for a client that keeps to nothing: from
`RaceInv` (the cursor is behind nothing that was loaded from it or claimed) alone.

### The timed wait (`TimedInv`)

* `DeadlineInv`: what is left until the deadline and what has elapsed add up to the
  timeout or more, unless the clock was set forward; BlockingStrategy, which starts
  the whole timeout again after each wakeup, only ever adds to it.
* `ProgressInv`: what a dependent has handled is published, and its Sequence is not ahead of
  that; a dependent that is alerted sets its Sequence back to -2, but what it has handled stays.
* `ScanInv`: the minimum over the dependents is behind what each one loaded has handled. It
  would not do to say that it is behind their Sequences: one may be set back after its load,
  before the answer.
* `ProbeInv`: the flags found set are set; the range probed is handled by every dependent.
* `SignalInv`: between its test of the cursor and its sleep the thread holds the mutex, so
  that whoever moves the cursor meanwhile has still to signal.

### The bounded log

`LogSafe` says what `Disruptor` promises: a consumer handles without a gap what is published,
up to where it is and after its dependents, and claimed sequences that some consumer has
still to handle are less than a ring apart. `LogKept` and `MultiLogKept` carry it over to
the two Sequencers, by their refinements and nothing else.

### Only model-checked

* Liveness (`EverythingHandled`, `PublishCompletes`, `CallsReturn`, `StopJoins`,
  `StopEnds`, `TimedReturns`): fairness and ENABLED are out of the prover's reach. The safety it rests on
  is proved: nobody sleeps through what it waits for (`NoLostWakeup`) and nobody waits in a circle
  (`NoCircularWait`).
* `AssertionNeeded` and `FlagAndIndexExact`: the bitwise operators of `RingArithmetic` are
  defined by recursion, out of its reach too. The theorems are about slots and flags as
  remainder and quotient; that the masks and shifts of the code are these is checked
  for words of `Width` bits.
* What the violation runs show: a counterexample is an instance by nature.

## 6. Not modelled

* `SetGatingSequences` while a producer is inside the Sequencer: it replaces a vector
  the producer iterates over, which no outcome short of undefined behaviour describes.
* The memory model below sequential consistency, other than the flags: one producer's
  cursor and the Sequences are published with release and read with acquire. With several
  producers the cursor moves by a compare-and-set that is `memory_order_relaxed`
  (`sequence.h:78`) and orders nothing but the claims; the events are ordered by the flags or not
  at all, which is what `FlagsOrdered` is about (finding 3).
* `Sequence::IncrementAndGet`, by which only tests move a Sequence.
* The flag of a negative sequence, which the code shifts as an unsigned number: none is
  published, and none probed before a second `Run`, to which no property of several producers
  extends.
* What is left in an event that a batch has moved from, padding, allocation, and
  64-bit overflow of sequence numbers (centuries at any real rate).
* Two threads in `Run` of one processor: nothing promises it, and no client does it.
* `NewBarrier` as an operation: the topology is fixed in the constants, as the clients
  build it before they start any thread.
* The measurements of the benchmarks, and the contents of `OnEvent`, `OnStart` and
  `OnShutdown`, which are the client's.

## 7. What is left

The models, their runs, and the proofs of every safety property within the prover's reach are
done. What could still be strengthened:

1. The theorems that assume `Client`, for a client that runs a processor again: what
   still holds of the other processors then (the -2 in the Sequence holds the producers up),
   and what does not (finding 1), as a weaker invariant of its own.
2. `TimedWait` against the untimed wait: that its answers are those `WaitFor`
   without a timeout could give.
