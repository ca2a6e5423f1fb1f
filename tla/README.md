# morpho-v2: specification and proofs

morpho-v2 is a long-lived "cognitive companion": a Rust service that answers
messages and, in the background, turns the log of what was said into memories,
beliefs, goals, predictions and a self model. All of its knowledge lives in
one append-only journal that is folded into memory. Nothing is ever computed
twice from the conversation, so a lost event, a record applied in half, a row
overwritten by an agent that never saw it, or a cursor that moved too far is a
permanent error of the companion's memory. These are the mistakes that this
directory specifies, model-checks and, for the store, the state engine, the agents over it,
the worker, the requests beside it, the context composer and the recording, excludes by proof.

Paths such as `worker.rs:76` mean `src/src/worker.rs`; `README.md:26` and
`SPEC.md:1009` are the repository's own documents, `src/README.md`, `src/SPEC.md`.

1. [Inventory](#1-inventory)
2. [Modules and how they correspond to the code](#2-modules-and-how-they-correspond-to-the-code)
3. [Runs: what is checked and what it shows](#3-runs-what-is-checked-and-what-it-shows)
4. [What is proved](#4-what-is-proved)
5. [Disagreements between code and documents](#5-disagreements-between-code-and-documents)
6. [What is not modelled](#6-what-is-not-modelled)
7. [Plan](#7-plan)
8. [How to run](#8-how-to-run)

## 1. Inventory

    clients --> HTTP API --> interact ----append_event---->  Store  ---> journal.jsonl
                   |            |  ^                          |  ^        vectors.f32
                   |        composer (reads)                  |  |
                   |            |                             |  |
                   |            +-- interaction agent --+     |  |
                   v                                    v     |  |
          admin /cycle ---+                      engine.commit_one
                          v                             ^     |
    loop (main) --> worker.cycle --> four consumers ----+     | events_after,
                          |          consolidation -----+     | cursors
                          |          reflection --------+     |
                          +-- snapshot, set_cursor -----------+

Everything shared is behind one mutex (`Services.store`), which is never held
across an await; the cycle lock (`Services.cycle_lock`) is a `try_lock` held
through a whole cycle. Model calls (chat, embeddings) are the awaits.

| component | state | operations | what is hard |
|---|---|---|---|
| **Storage engine** `store/{mod,journal,vectors}.rs` | two files, `Journal.{len,seq}`, `Vectors.slots`, the folded `State` | `open`, `append`, `append_event`, `append_commit`, `set_cursor`, `bump_failures`, `snapshot`, `read_at` | a kill or a loss of power between any two of: vector, sync, line, sync, apply; torn writes; `open` syncs nothing; a disk that returns errors; offsets and ids that must agree before and after a restart |
| **Derived state** `store/state.rs` | tables, transitions, proposals, cursors, events, snapshots, slots | `apply`; `events_after`, `similar`, `find_entity` and the listings | ids are used as positions; one `apply` for live and replayed records |
| **Snapshots** `snapshots.rs` | a journal record | `take_snapshot`, `replay(up_to)` | a replay that stops in the middle of the journal |
| **State engine** `state/{engine,models}.rs` | none of its own; sole writer of the cognitive tables | `commit` (embed all, then one by one), `commit_one`: validate, fold a duplicate, 13 operations | many rows per commit; folding changes the operation; versions, provenance and vectors must follow |
| **Agents** `agents/*.rs` | none | read state, ask the model, propose | every proposal speaks of a state that is gone when it is committed |
| **Worker** `worker.rs`, `main.rs` | cursor rows (position and failures), the cycle lock | loop, `cycle`, four consumers, reflection trigger | two sources of cycles, retries and skips, errors that leave in the middle, crashes, events arriving all along |
| **Interaction** `interact.rs` | none | embed, append user event, interaction agent, compose and chat, embed, append assistant event | several tasks at once, and beside a cycle; four awaits between the id of the message and its use; a reply that never comes |
| **Composer, ranking** `context/*.rs` | none | fill sections within a token budget | carry of what earlier sections left, rounding, titles that cost nothing |
| **Model client** `llm.rs` | the record/replay cache and its file | chat, embed, retries, save | retry counts, replay misses, a file rewritten in place after every call |
| **Evaluation binary** `bin/eval.rs` | none | run or replay a scenario, save at the end | errors that were tolerated while recording |
| **HTTP API** `api.rs` | none | handlers | dropped requests |
| **Ids, formatting, configuration** | - | - | - |

What makes each correct, and where it is stated:

* *Storage*: a record is in the log with all its effects or not at all; what was
  answered survives kills and losses of power; open never refuses a file that a crash left; ids
  are positions; a slot is a whole vector of its object; a snapshot is read back
  from its offset (`Store`, `Ledger`).
* *Engine*: every row can be traced through the log without a gap; a version
  names one state; provenance is never lost, also through a merge; a row is found
  by the vector of the text it has now (`Engine`).
* *Agents over the engine*: what is over stays over; live rows say the same only after a merge
  or a revival; what came from an event leads back to it, though agents race (`Agents`).
* *Worker*: one cycle at a time; nothing between a cursor and its predecessor is
  lost; a batch is given up only after its failures; a proposal is not committed
  twice without a cause; every event is consumed and reflected on in the end
  (`Worker`, `Delivery`).
* *Interaction*: a reply is attached to its own message whatever else is recorded
  meanwhile; no consumer sees a reply and has lost its message; what was answered is
  reflected on (`Interaction`).
* *Composer*: the lines kept cost no more than the budget, and no line that fits is left
  out (`Composer`). The text exceeds the budget, by the titles (section 5).
* *Model client*: what was recorded is replayed as it was, a run that ended well is
  on disk, every run ends (`Recording`).

The hazards of the code, one by one with their lines and the properties that
catch them, are listed in `PROJECT.json` under `hazards`.

## 2. Modules and how they correspond to the code

| module | what it is | instance for TLC |
|---|---|---|
| `Delivery` | abstract: what the worker promises each consumer of the log | refined by `Worker` |
| `Worker` | `worker.rs` and the cursor rows | `MCWorker` |
| `Worker_proofs` | theorems about `Worker` | - |
| `Ledger` | abstract: an atomic, durable log and the state it stands for | refined by `Store` |
| `Store` | `store/`, `State::apply`, `snapshots.rs` | `MCStore` |
| `Store_proofs` | theorems about `Store` | - |
| `FoldTheorems` | lemmas: induction over naturals and sequences, and what a left fold computes | - |
| `Engine` | `commit_one` and all it calls; properties of the engine | extended by the next two |
| `Harness` | the engine under arbitrary proposals | `MCHarness` |
| `Engine_proofs` | theorems about `Engine`, and about it under `Harness` | - |
| `Agents` | the engine under the worker's agents and concurrent clients | `MCAgents` |
| `Agents_proofs` | theorems about `Agents`, over those about `Engine` | - |
| `Interaction` | `interact.rs` beside the worker: extends `Worker` and implements it | `MCInteraction` |
| `Interaction_proofs` | theorems about `Interaction`, over those about `Worker` | - |
| `Composer` | the packing of `composer.rs` | `MCComposer` |
| `Composer_proofs` | theorems about `Composer` | - |
| `Recording` | `llm.rs` in the driver of `bin/eval.rs` | `MCRecording` |
| `Recording_proofs` | theorems about `Recording` | - |

The exact lines behind each definition are in `PROJECT.json`, `map`.

### Worker

`pc[r]` says where the cycle of runner `r` (the loop of `main.rs`, an admin
request) is. A label is a place where other tasks run: an await, or the gap
between two takings of the store mutex. So `fetch`, `advance`, `give up`,
`trigger`, `snapshot` and `mark` are one mutex section each, and `agent`,
`embed`, `consolidate`, `reflect` are awaits. `commit` is left after one
proposal at a time because `engine::commit` takes the mutex for each.

* `BatchFirst`/`BatchLast` are `events_after(cursor, 20)`: the code *skips as many
  events as the cursor's id says*, so ids must be positions (shown in `Store`).
* `AgentFails` is the error arm: `bump_failures`, and once the counter reaches
  the limit, `set_cursor` in a mutex section of its own (`Skip`). A crash in
  between is possible, and modelled.
* `commit_all(..).await?`, and the store's errors, leave the cycle with no failure
  counted: `EmbedFails`, `StoreFails`. A replay miss also leaves (`AgentMisses`).
  A dropped request ends at an await (`Cancel`). `remove(0)` on an empty
  embedding answer panics, in an agent or in a commit, the maintenance agents' too: the loop's
  task is gone for good (`Panic`).
* `Trigger` reads `last_id` *before* consolidation and reflection; `Mark` writes
  it *after* the snapshot, which covers more events.
* The in-memory rows survive a `Crash`: `Store` shows that they equal the journal.

An event is a position, a proposal is the event it is about; what commits do
to the tables is left to `Engine`/`Agents`. The maintenance agents' errors are
logged and passed over, so `Maintain` is the same step with or without one.
`delivered`, `skipped`, `attempts`, `applied` and `interrupted` are history
variables that no guard reads, except that the bound `MaxInterrupts` limits
how often a half-committed batch is abandoned.

### Store

A file is a sequence of *cells*: a journal line is two (the second ends with
the newline), a vector is two, so a write can be torn. An operation holds the
mutex through the stages `vector -> vector_sync -> journal -> journal_sync`. It can die before each,
in two ways. `Kill` ends the process: what was written is the page cache's and is read by the next
one, and only the one write under way may be there in part. `PowerLoss` ends the machine, with the process or
after it: each file keeps what a sync has covered (`synced`, `vsynced`) and any part of the rest; with
`MultiByte` it may be cut inside a character. `Open` reads the journal, cuts the
torn line and the torn vector, and folds with the same `Apply` that is used live. It *syncs nothing*
(`journal.rs:47-80`): a whole line that a kill left is folded and served, and a later loss of power can
still take it back, until the next append syncs the file.

`Ledger` therefore counts how many records are `kept`. A writer that is answered keeps all of
them; one that died may leave its record, which a `Stop` may take again as long as it is not kept. In
the mapping, `kept` is the number of lines that a sync has covered.

`op` is the state of the operation, not shared with another: the mutex is the
reason for `op = Idle` in `Begin`. `DiskFault` actions are writes and syncs that
return an error and leave the process alive, or a file that cannot be mapped anew after its sync
(`VectorRemapFails`). Timestamps, texts and vector
numbers are left out; a row is the id of the transition that wrote it.

### Engine, Harness, Agents

`CommitOne` is `commit_one` as one action, since it runs under the mutex; the
crash inside it is in `Store`. It validates, folds a near-duplicate (which turns a
`create_memory` into a reinforcement, and a `create_belief` into more support, and
drops the vector), applies one of 13 operations to get transitions, upserts
their rows, and records the proposal as accepted or rejected. Two texts are
*equal* when they are within the deduplication threshold (or, for goals,
equal up to case), so similarity is taken to be transitive.

`Valid` begins with `Parses`, the rules of `parse_payload`. `EngineSpec` commits *any* proposal
that one can think of, in any order; only that a merge names distinct memories is
assumed, since `consolidation.rs:119` sees to it and the engine does not.

`Harness` offers every operation with legal and illegal arguments (rows that
do not exist, stale versions, missing evidence, forbidden capabilities), in any
order: the engine must hold up whoever calls.

`Agents` is what really calls: a run of an agent reads the state in `Run`, and its
proposals are committed later one by one (`CommitNext`), interleaved with those of
other tasks, or lost (`Abandon`: a dropped request, an error, a crash). The
worker has one run at a time, by `SingleFlight`; each client has its own. What the
model answers is free within what each agent lets through (ids it showed,
statuses of the schema, merged or decayed rows excluded from later lists):

* `memory.rs` and `beliefs.rs` make one call for each event of the batch and put the answers one after the
  other, so their batch is any sequence of what they may propose, and names a row as often as it likes.
* Goals, reflection and consolidation go through one answer, operation by operation (`OneAnswer`,
  `InOrder`, `ConsolidationBatches`). What asks open questions comes last and once, with all of them merged.
* `goals.rs:98` reads the working state only after the model has answered. `Conflicts` stands for
  what it has found by then; `ReadWorking` reads the state and makes the proposal.
* Reflection names no source events, and what it gives as evidence (`Cited`) is what the model cites: an
  event, memories, or ids of nothing. The engine takes the events among them as the sources.

`MaxAnswers` and `MaxEach` bound how many proposals there are and how many of a kind; the code
has no such bound, and the proofs are for any value of them. `QuestionsNotLost` is
what a document asks for and the code does not give: see section 5.

### Interaction

The composition of requests and cycles on one log. `phase[c]` is the await at which
the request of client `c` is; `RecordMessage` and `RecordReply` are the two
sections of the store's mutex that `append` takes (vector and event; the crash
between the two is in `Store`). `Record` is Worker's `Publish` together with the
entry that is published, so the clients' writes are what Worker leaves open as
"an event arrives". `GiveUpRequest` is every early end: a `?`, a replay miss, a
panic of the task, a client that hangs up (axum drops its future at an await).
`Interpret` has one outcome, since an error of the interaction agent is logged and
the reply is composed from the state as it is. `CrashAll` is Worker's `Crash` with the
requests. `Background` is a step of the worker that leaves the requests alone.

### Composer

`Line` is one turn of the loop in `fill`, `EndSection` one of the loop over
`SECTIONS`. The lines are drawn one after the other, by length: what is in
them, and in which order ranking puts them, is arbitrary, so the properties hold of
any state that is composed. `Allotted` is the product of the budget with the
share, truncated: integer arithmetic in percent, which agrees with the code's
`f64` for each budget from 0 to 200000 (computed, not proved). `text` counts the
characters of the prompt with titles, separators and line breaks.

### Recording

One state machine for a scenario run (`phase`): `Ask` looks the keys up, `Answer`, `Retry`
and `Refuse` are the service's ways to answer an attempt of `post`, `Save` writes the
file, `LastSave` is the save of `run_scenario` after the outcome. The rest of
the program - `interact`, cycles, or the control bot - is *any* deterministic function of the
answers it got: `program` draws its next move when a history of outcomes first
occurs, and keeps it for later runs. That it is such a function is what seeded
ids, and keys without timestamps, are for; ages enter ranking and decay in whole
days, so it is true of runs shorter than a day. `fs::write` truncates and then
writes, hence `Torn`. A run without an API key acts as a strict one.

## 3. Runs: what is checked and what it shows

Runs that pass:

| run | instance and bounds | shows |
|---|---|---|
| `worker_safety` | loop and one admin request, one consumer, 3 events, batches of 2, 2 proposals kept, 2 failures, every fault | `SingleFlight`, `NoEventLost`, `CommittedOnce`, `FailuresCountHead`, `ReflectedIsSnapshotted`, and `Delivery` is implemented (`TypeOK`, `GivenUpAfterMaxFailures` and `CursorsNeverRetreat` are left to the proofs) |
| `worker_liveness` | two consumers, one embedding and one not, 2 events, failing agents and cancelled requests, fairness | `EveryEventConsumed`, `EveryEventReflected` |
| `store` | 3 journal lines of every kind, 3 objects, 2 kills or losses of power, 1 disk error | `TypeOK`, `AlwaysOpens`, `SlotsHoldVectors`, `SnapshotsReadable`, `IdsArePositions`, `ReplayRows`, and `Ledger` is implemented while the disk returns no error |
| `engine` | 4 commits of any of 13 operations, 2 texts, 2 names | `EngineTypeOK`, `AuditTrail`, `VersionsCountTransitions`, `VectorsMatchText`, `EntitiesResolve`, `ProvenanceGrows`, `MergeKeepsSources` |
| `agents` | 3 runs of any of 7 agents, the worker and one client, 2 proposals each (for consolidation, any decays, then one merge, generalization and contradiction), two texts, one question | `Grounded`, `LiveRowsDistinct`, `LiveMemoriesDistinct`, `EndedMemoriesStay` |
| `interaction` | the loop, two clients, two requests, one consumer, batches of 2, one crash, fairness | `RepliesMatch`, `MessagesHandledFirst`, `AnswersReflected` |
| `composer` | budgets 0, 9, 20 and 33; up to four lines of 0, 3, 4 or 19 characters in each of seven sections | `LinesWithinBudget`, `NothingFittingDropped` |
| `recording` | two keys, answers of which two are kept as one, two calls, three runs, three attempts, two crashes or failed writes, fairness | `ReplayReproduces`, `RecordedIsOnDisk`, `RunsEnd` |

Runs that end in a counterexample, each for one statement of a document or
comment, are in section 5.

**Are the bounds enough?** Three events and batches of two give a full batch, a
batch that grows between two attempts, and a second batch after a skip. Two
failures separate "retried" from "given up"; `MaxAttempts` (3) exceeds it, so
that a counter at its limit can be bumped once more after a crash between
`bump_failures` and the skip. One interrupt per consumer separates "twice with
a cause" from "twice". One consumer suffices for the safety properties because the
rows of consumers are disjoint (the proofs are for any number); the order
between consumers matters for starvation, so the liveness runs have two. Three
journal lines and two deaths give a recovery whose own writes are torn
again, a line after a torn one, and a line that a kill leaves, `open` serves and a loss of power takes back. Four commits make a memory, a second, a merge
and one more change of each; five commits were also checked, once (4.4
million states). Three runs of agents with two open queues (the worker's and a client's) cover
each pair of agents reading before the other's commit, and a run that reads
what they left. Two texts in `agents` are the least with which two memories live side by
side, to be merged, generalized and contradicted, and few enough that most new
rows are near-duplicates. Two requests and a crash
are the least in which a reply can be attached to the wrong message, and four
events in batches of two let a message and its reply fall into one batch or into two. The
budgets of `composer` leave each section nothing, less than a line, one line or more
with a carry; the lengths are both ends of one token, the shortest of two, and a
line that only a carry can hold (every budget and length: by proof). Three runs
are a recording that fails, one that succeeds and a replay; two faults tear or
lose a write twice; two calls suffice for a second call whose keys partly are the
first's.

Symmetry is used in `engine` (texts, names) and `agents` (texts), where no
liveness is checked. Deadlock is not checked in the `store`, `engine`, `agents`, `composer` and `recording` runs: the
system stops there (a composition is done, a torn recording starts no run) or the bounds end the
behaviour. It is checked for the worker,
which can always publish, tick or begin until its bounds; a runner is never
stuck, since the lock is only tried.

**Fairness** (`Worker!Fairness`), and why the code justifies it:

* `WF(Step(r))`: tokio polls each ready task; every model call returns, since
  the HTTP client has a timeout and a fixed number of attempts (`llm.rs`), and
  the store mutex is held for a bounded time.
* `WF(Begin(Loop))`: the loop sleeps `worker_poll_seconds` and calls `cycle`; weak
  fairness is enough, since a taken lock is released by `Step` and a bounded
  number of admin requests can take it.
* `WF(Tick)`: time passes, so `idle_reflect_seconds` elapse.
* `Interaction!InteractionFairness` adds `WF(Progress(c))`: a request goes on, as each of
  its model calls returns. None for `Ask` and `GiveUpRequest`.
* `Recording!FairSpec` has `WF(Progress)`: the driver is one task, and each attempt of
  a call ends after the client's timeout (`llm.rs:87`) at the latest.
* No fairness for `Publish`, admin requests, cancellation or faults: nobody must call.

Faults that never end defeat progress by the code's own design (a loop that
panicked is not restarted, an embedding service that keeps failing starves
everybody); the liveness run takes those that the worker is built to absorb.
The bounds on failures matter here: `MaxAttempts` is above `MaxFailures`, so the
agent may fail at every attempt and its batch is then skipped.

## 4. What is proved

TLAPS checks forty-three theorems in seven modules, and the lemmas they rest on.

**The worker.** `Worker_proofs` holds nine, for any number of
runners, consumers and events, any batch size, any settings and any set of
faults. They assume only what `Worker` assumes of its constants
(`RunnerAssumption`, `ConsumerAssumption`, `SettingsAssumption`,
`FaultsAssumption`, `BoundsAssumption`: types, at least one consumer, a batch
size of at least one, the loop being a runner).

| theorem | statement |
|---|---|
| `TypeCorrect` | `Spec => []TypeOK` |
| `CyclesAreSingleFlight` | `Spec => []SingleFlight` |
| `NothingLost` | `Spec => []NoEventLost` |
| `CounterIsOfHead` | `Spec => []FailuresCountHead` |
| `GivenUpInTime` | `Spec => GivenUpAfterMaxFailures` |
| `CursorsAdvance` | `Spec => CursorsNeverRetreat` |
| `ReflectedAreSnapshotted` | `Spec => []ReflectedIsSnapshotted` |
| `ProposalsCommittedOnce` | `Spec => []CommittedOnce` |
| `WorkerImplementsDelivery` | `Spec => ImplementsDelivery`, with the log, cursors and failure counters as they are and the history variables for what was handled and dropped |

**The argument.** None of these but the first two is inductive. The inductive
invariant is

    Inv == TypeOK /\ SingleFlight /\ PositionInv

`PositionInv` has two parts. `RowInv`, of each consumer's row: its cursor is within the
log, the events behind it are the delivered and the skipped ones, the failure
counter is the number of failed attempts of the *next* event, and no event beyond
the next batch has been in a failed one. `BatchInv`, of each runner inside
a cycle: its batch begins right after the *current* cursor of its consumer, ends in
the log, has every event that was tried before, and, in `give up`, the counter has reached the limit. `BatchInv` is what single
flight buys: the cursor the batch was read at is still the cursor when it is
written, though several awaits lie between. Only one runner is inside a cycle,
so a step of another cannot move that cursor; a crash or a fault drops the
batch and the claim with it. From `Inv`, `NothingLost` and `CounterIsOfHead` are
parts; `GivenUpInTime` follows from `BatchInv` at `Skip`, and the refinement
from one lemma per kind of step: `Advance` is `Handle`, `Skip` is `Drop`,
`AgentFails` is `Fail`, `Publish` is `Publish` and all else stutters.

`ReflectInv` (for the reflection): the id a runner has read is at least the reflection
cursor and in the log, and once in `mark`, the snapshot covers it; `CommitInv` (for
`ProposalsCommittedOnce`): of the events ahead of a cursor, each has at most as many
commits as batches were interrupted, and one more if the present batch has
already committed it. Each has its step lemma, one case per action.

**Requests beside the worker.** `Interaction_proofs`, for any number of clients, requests and
crashes (assumptions: those of `Worker` and `InteractionAssumption`, by which the log's
bound leaves room for two events per request):

| theorem | statement |
|---|---|
| `InteractionTypeCorrect` | `InteractionSpec => []InteractionTypeOK` |
| `RepliesMatched` | `InteractionSpec => []RepliesMatch` |
| `MessagesFirst` | `InteractionSpec => []MessagesHandledFirst` |

Each action is one of Worker's or leaves its variables alone: the composition is written so. The lemma
`WorkerWithin` says it, and lets two of the worker's theorems be used here.
`RepliesMatch` is not inductive; `ReplyInv` adds what connects a request to the log: a
request that has recorded its message (`InFlight`) holds the id of an entry that is its client's,
a message, and has no reply yet, and two clients' ids differ. `MessagesFirst` then
needs no induction of its own: a handled reply is behind the cursor, its message is
earlier (`RepliesMatch`), hence behind the cursor too, and `NothingLost` says that
everything there was handled or given up.

**The store.** `Store_proofs`, for any number of journal lines, records, vectors, kills, losses of power and
disk faults (assumptions: `BoundsAssumption`, `MultiByteAssumption`, which are the types of the
constants):

| theorem | statement |
|---|---|
| `StoreInvariant` | `Spec => []StoreInv`, the inductive invariant |
| `StoreTypeCorrect` | `Spec => []TypeOK` |
| `StoreOpens` | `~MultiByte => (Spec => []AlwaysOpens)`: without characters of several bytes, no crash leaves a file that is refused (with them it can: section 5) |
| `StoreSlots` | `Spec => []SlotsHoldVectors` |
| `StoreSnapshots` | `Spec => []SnapshotsReadable` |
| `StoreIds` | `Spec => []IdsArePositions` |
| `StoreReplay` | `Spec => []ReplayRows` |
| `StoreKeepsPromise` | `Spec => ImplementsLedger` |

    StoreInv == StoreTypes /\ CountInv /\ UncutInv /\ (Intact => IntactInv)

The first three parts hold on any disk: the types; memory is never ahead of the file; without
`MultiByte` no character is cut. `Intact` says that no write or sync has returned an error, and
`IntactInv` is why the rest holds then. It has three parts.

* `LogInv`: the file is whole lines, numbered one after the other, and at most one torn one; and every *beginning*
  of these lines is `Sound`: it folds to a memory whose ids are positions, whose snapshots' offsets are
  where their lines begin, and whose slots are vectors that a sync has covered. Every beginning, because a
  loss of power may leave any line the last one; covered by a sync, because it must leave the vectors then.
* `LiveInv`: while the process is up, memory is the fold of the acknowledged lines, and `op.stage` determines
  the ends of both files. This is where the order *vector, sync, line, sync, apply* pays: a line is
  written only after the sync of the vector that it names.
* and while it is down, memory is empty.

For the refinement: `JournalSync` adds one line and keeps them all, for its sync covers the whole file; `Kill`
and `PowerLoss` are stops, which leave at least what a sync has covered; `Open` serves what
is there, adds nothing and keeps no more than before. `ReplayRows`
is by induction over the lines of the journal: up to the line where the transitions reach
`up_to` a replay has all that memory had then, and from there on it has the same rows.

The fold and the induction come from the lemmas of `FoldTheorems`: a left
fold of any operator is the iteration it should be. They rest on the least element of a set of
naturals rather than on the library's induction rules, which take an operator as a parameter.

**The engine.** `Engine_proofs`, for every sequence of proposals whatever (`EngineSpec`), any number
of texts and rows. The one assumption on constants, `EngineAssumption`, is that `None` is neither an id nor
a text; the one on proposals is that a merge names distinct memories.

| theorem | statement |
|---|---|
| `EngineInvariant` | `EngineSpec => []EngineInv`, the inductive invariant |
| `EngineTypeCorrect` | `EngineSpec => []EngineTypeOK` |
| `AuditTrailHolds` | `EngineSpec => []AuditTrail` |
| `VersionsHold` | `EngineSpec => []VersionsCountTransitions` |
| `VectorsHold` | `EngineSpec => []VectorsMatchText` |
| `EntitiesHold` | `EngineSpec => []EntitiesResolve` |
| `ProvenanceHolds` | `EngineSpec => ProvenanceGrows` |
| `HarnessDrivesEngine` | `HarnessSpec => EngineSpec`: what TLC runs is a case of what is proved |
| `MergeKeepsSourcesHolds` | `HarnessSpec => MergeKeepsSources` (evidence must be events here, or a proposal could claim to come from a memory that it does not merge) |

    EngineInv == Shape(tables) /\ Logged(tables, transitions) /\ Traced(tables, transitions)
                   /\ VectorsInv /\ EntitiesResolve

`Shape`: each table is a sequence of rows with the fields and statuses of its kind. `Logged`: each
transition is of a row there is. `Traced`: the transitions of an object lead to its row without a gap
and are as many as its version says, and there are none of an object that is not there.

The proof has two halves. The first takes the operations one by one: each transition of each of the 13
either creates the next row of its table or changes a row there is (`Creates`, `Updates`), with
the fields of its kind, version one or one more than before, all it was based on, the embedded text exactly
where it is marked for embedding, and a new entity only where the name and kind were not found (`Fits`). It is a lemma for each
operation (`CreateMemoryFits`, ..., `MergeFits`), then `ApplyFits`, `FoldedIs` (a near-duplicate becomes an update
without a text) and `CommitFits`. The second half never looks at an operation again: `AllDone`
writes fitting transitions one after the other, by induction over their sequence, and keeps `Shape`, `Logged` and
`Traced`. Each `before` was read before the *first* of them was written, so it is
the row that the log leads to only if no other transition of the commit has the same object: this is where
the merges' distinct memories come in (`Steps`), and with a memory named twice the chain does break (section 5).

**The agents.** `Agents_proofs`, for any number of clients, runs, answers, texts and questions, with
batches lost at any point (assumptions: `AgentsAssumption`, the types of the constants and that the worker is
no client, and the engine's):

| theorem | statement |
|---|---|
| `AgentsInvariant` | `Spec => []AgentsInv`, the inductive invariant |
| `GroundedHolds` | `Spec => []Grounded` |
| `LiveRowsDistinctHolds` | `Spec => []LiveRowsDistinct` |
| `LiveMemoriesDistinctHolds` | `Spec => []LiveMemoriesDistinct` |
| `EndedMemoriesStayHolds` | `Spec => EndedMemoriesStay` |
| `AgentsDriveEngine` | `Spec => EngineSpec` |
| `EngineUnderAgents` | the engine's invariants and `ProvenanceGrows`, of `Spec` |

    AgentsInv == EngineInv /\ Queued /\ Grounded /\ LiveMemoriesDistinct /\ LiveRowsDistinct

What the rows owe to the agents is in `Queued`, which says what a batch that was made of
one state still has to do with the present one. A batch is `Ready` if the memories it touches live *now*, none of
them is ended by a proposal earlier in the batch, each proposal means what agents mean (`Meant`: an episodic memory
comes from an event, directly or through a memory it merges; a belief comes from an event or rests on a memory
there is *now*), and, if it is a client's, it touches no memory at all. The last is why
nobody else can end a memory between the reading and the commit: only the worker's batches touch
them (`Touches`, `Ends`), and the cycle lock gives the worker one at a time. That
each agent hands over such a batch is one lemma per agent (`MemoryReady`, ..., `ConsolidationReady`);
consolidation is the interesting one, since it ends memories before it goes on: what it merges and
generalizes is what decay has left, and no two merges of one answer share a memory. Of goals and beliefs
`Ready` asks nothing of the kind: an answer may name one twice, end it and take it up again.

After a commit each row is one that was there and was changed as its proposal says, or is new (`RowAfter`).
A changed row keeps its text; a new one is unlike every live
row (`NewIsUnlike`): `create_goal` looks for a duplicate, and a near-duplicate is folded, *which finds it
because the vectors are those of the present texts* (`VectorsHold`). Only a merge writes its row without
looking. So two live goals or beliefs that are alike were so before, or one of them was out of use
and is live now, and the transition that did it is in the log (`RevivedNow`), where it stays (`LogGrows`,
`StillRevived`). Two live memories were so before, or a merge has just created one and its transition is in the log
(`MergeLogged`); a memory cannot come back, for nothing touches it.

`Grounded` is kept because evidence and sources only grow (`RowsGrow`) and no memory changes its kind, so what
was traceable stays so (`StillTraceable`), also the evidence of proposals that wait.

**The composer.** `Composer_proofs`, for every set of budgets and lengths
(`ComposerAssumption`: natural numbers):

| theorem | statement |
|---|---|
| `ComposerTypeCorrect` | `Spec => [](TypeOK /\ WithinGrant)`: no section overdraws its grant, so no carry is negative |
| `BudgetKept` | `Spec => []LinesWithinBudget` |
| `PromptBounded` | `Spec => []TextBounded` |
| `FillIsGreedy` | `Spec => []NothingFittingDropped` |

`BudgetKept` rests on `GrantsCovered`: a hundred times what was spent and granted so far is
at most the budget times the shares so far, in percent; a truncated share can only
fall short, and a carry moves tokens without making any. `PromptBounded` rests on `TextCovered`:
the characters so far are at most four for each token spent, plus the titles and separators so far, because
`tokens` rounds up by enough to pay for the line break (`TokensPay`); the titles of
all seven sections come to 125 characters, hence the 32 tokens.

**The recording.** `Recording_proofs`, for all keys, answers, programs, attempts and
faults (`RecordingAssumption`: answers are natural numbers, at least one attempt):

| theorem | statement |
|---|---|
| `RecordingTypeCorrect` | `Spec => []RecordingTypeOK` |
| `RecordedOnDisk` | `Spec => RecordedIsOnDisk` |
| `ReplayReproduced` | `Spec => []ReplayReproduces` |

Three invariants carry them. `DiskInv`: what was recorded is in every file that can be read, and
in the cache of a run under way, which differs from the file only while it
is dirty; hence a save that succeeds has all the answers, whichever write failed
before it. `PathInv`: each outcome in a history is that of the call which the program makes
after the outcomes before it, and a recorded history is one where it finishes.
`ReplayInv`, over those two: a replay of a run without errors is on that run's path. When it
asks, the recorded run asked the same (`PathInv`, one program), the cache has what it
was answered (`DiskInv`), so the replay gets the same outcome and is a step
further (`ReplayHit`); it cannot ask beyond the recorded end, where the program finishes.

**Only model-checked:** liveness (`EveryEventConsumed`, `EveryEventReflected`, `AnswersReflected`,
`RunsEnd`), for fairness and ENABLED are beyond the prover. Every invariant and every other action property of the
passing runs is also proved.

## 5. Disagreements between code and documents

Each is a run whose counterexample TLC finds.

* `worker_starved` (`EveryEventConsumed`): `README.md:40` says a failing batch is retried and
  skipped after `CONSUMER_MAX_FAILURES`. When embedding its proposals
  fails, `?` at `worker.rs:76` leaves the cycle: no failure is counted, the batch is
  taken for ever, later consumers and the reflection starve.
* `store_torn_text` (`AlwaysOpens`): `README.md:26` and `journal.rs:46` say a torn final
  line is dropped on open. If the tear is inside a character of several
  bytes, `read_to_string` refuses the whole file first.
* `store_disk_fault` (`LiveEqualsFold`): `state.rs:119` says one mutation path for the live state
  and the fold. After a sync that returned an error the line is in the file and
  not in memory.
* `agents_questions` (`QuestionsNotLost`): `SPEC.md:1009` asks for optimistic concurrency; agents
  write a whole list merged into an earlier read, without `expected_version`, and
  overwrite each other's open questions. In the trace two clients' requests read, each asks one question, and
  the second commit replaces what the first has written.

Seen while modelling, and not kept as runs:

* An answer of `goals.rs`, or two answers of `beliefs.rs` to different events, may end a row and take it up
  again. If another row with its text is created in between, two live rows say the same. `LiveRowsDistinct`
  says that there is no other way; no document forbids this one.
* `SPEC.md:316` says that semantic memories should retain provenance.
  A pattern of reflection keeps the ids that the model cites, which nobody looks up (`reflection.rs:150`), and
  no source events; if the model cites an id of nothing, so does the memory. For what does not
  depend on these ids - episodic memories, beliefs and goals - `Grounded` holds.
* `tests/worker.rs:135` asserts, for its data, that a prompt is within its budget of 600
  tokens, and `SPEC.md:1080` asks for it in general. `fill` uses the budget up with lines, and the titles come on
  top: TLC, given that budget and up to three lines of 239 characters in each section, finds a prompt
  of 623. So "within the budget" is no property here: only the *lines* are (`LinesWithinBudget`). By theorem `PromptBounded`
  the excess is at most 32 tokens, for every budget.
* A complete line that a kill left unsynced is served by `open` and may be lost afterwards
  (`journal.rs:47-80`). What was answered is not affected: `ImplementsLedger` says how far this goes.
* An event that joins a failing batch at its last attempt is skipped after one failure of its
  own, since the batch is read anew (`worker.rs:48`) while the counter goes on. `README.md:40`
  speaks of the batch; the counter is right for its first event (`FailuresCountHead`).
* `snapshots.rs:30` says replay stops after transition `up_to`. Only transitions
  are cut; proposals, events, cursors and slots of later records are still applied.
  What does hold is `ReplayRows`: the *rows* are those of that moment.
* A contradicted belief may become active again and keeps the `valid_until` of its
  contradiction (`engine.rs:442`, against `SPEC.md:818`). No code reads it.
* `merge_memories` with one id twice passes `validate` (`models.rs:319`, `engine.rs:395`), and would leave
  a gap in the audit trail: both of its transitions begin with the row before the merge. The only
  caller removes repetitions (`consolidation.rs:119`).
* The manifest names the *first* `included` rows (`composer.rs:211`), which need not be the ones that
  were kept, for `fill` passes over a long line and goes on.
* An error that was tolerated while recording is not in the recording: its strict
  replay ends with a miss, against `README.md:53-56`. `strict && cache_misses > 0`
  (`eval.rs:442`) never holds, since a strict run counts no miss; it does not matter, as the miss is an error.

## 6. What is not modelled

* Which rows the composer reads and how ranking scores them: arithmetic on floats, and nothing
  is changed. The manifest.
* The API's read-only handlers and the listing queries behind them.
* In `llm.rs` the stand-in for tests and the counters; in `bin/eval.rs` the scores, the
  comparison with a baseline and the output.
* Ids, formatting, configuration: ids are assumed never to repeat, settings are constants.
* Concurrent calls of the recorded client: the driver makes one at a time.
* In the engine: number ranges, origins, deadlines and importance; timestamps; names that
  begin with `ent_`, which `find_entity` would read as ids; an empty new summary.
* In the agents: prompts, scores and ages. A new memory is active, though one of little importance would be a
  candidate: both live, and are treated alike but for what reflection is shown. A memory may decay if nobody has
  reinforced it, whatever its age; the interaction agent's entities (in `Harness` instead); its goals
  lack the link to a predecessor.
* A poisoned store mutex; a disk error followed by further writes is modelled, but
  only its first consequence is stated. In `Worker`, a record whose write failed is not in the log; in the code one
  whose *sync* failed is in the file, and the next start folds it (run `store_disk_fault`).
* What a loss of power does beyond cutting a file short: a later page kept and an earlier one lost, the cut of
  `open` undone. And a loss of power during a recording, which `fs::write` (`llm.rs:319`) never syncs: `Recording` has
  kills of the process only.

## 7. Plan

Order of the work; the first ten are done.

1. `Delivery`, `Worker`: the behaviour that can lose data. Safety, liveness, refinement, proofs.
2. `Ledger`, `Store`: the ground that the worker stands on.
3. `Engine`, `Harness`: what one commit does.
4. `Agents`: commits that interleave.
5. `Interaction`: requests beside the worker, on one log, and its proofs.
6. `Composer`: the budget, and its proofs.
7. `Recording`: attempts, the cache, its file, record and replay, and its proofs.
8. `FoldTheorems`, `Store_proofs`: folds, and every property of the store.
9. `Engine_proofs`: every property of the engine.
10. `Agents_proofs`: what `Agents` adds to it.
11. The provenance that `GET /why/{id}` shows, against `Grounded`.

## 8. How to run

    tlc -workers 2 -config WorkerSafety.cfg MCWorker
    tlapm Worker_proofs.tla

`PROJECT.json` names each run's module and configuration. For every property it also
lists a *mutant*: a definition next to the one it replaces (marked "mutant" in
the modules), a plausible slip in that code, under which TLC finds the property
violated. The mutants are used by nothing in the specifications.
