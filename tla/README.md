# TLA+ models of the KV transfer observability plugin

The plugin watches KV-cache transfers of a vLLM host. Host callbacks become
typed source records, a normalizer turns them into canonical observations, and
a background writer appends those to a bounded JSONL file; a second writer
publishes descriptor inventories as files. Nothing may block or break the host,
so every part is bounded and drops what it cannot take. These specifications
state what remains true about the evidence nevertheless. Paths below are
relative to `src/vllm_hust_kv_transfer_observability/`.

## The system

| Part | State | Operations | Interacts with |
|---|---|---|---|
| `normalization.py` `LifecycleNormalizer` | pending submissions, completed restores, admissions, `evidence_valid`, `closed`, under one lock | `normalize` (six record kinds), `close` | called by the adapter and by the offline validator |
| `events.py` `JsonlKVTransferEventSink` | queue, stop event, `closed`, counters, file and directory descriptors; a writer thread | `emit`, `flush`, `close`, the writer's loop, `_write_record` under `flock` | the adapter; other processes through the file |
| `native.py` `VllmOffloadingObserverBinding` | callbacks, pending jobs, under its own lock | `register`, `unregister`, `_observe_host`, host facts, correlated records | the host's API; the adapter's callbacks |
| `adapter.py` `KVTransferHostAdapter` | state, resources, counters; a lifecycle lock and a state lock | `start`, `stop`, four callbacks, cleanup | binding, normalizer, sink, capture |
| `descriptors.py` | queue, writer, condition variable; the capture directory | `capture`, publication, `close` | the adapter; other processes through the directory |
| `plugin.py` | process-wide adapter, binding, registered pid | `register_plugin`, `stop_plugin`, after-fork hook | the host's plugin loader |
| `validation.py` | none (reads an artifact) | two chain validators, descriptor check | replays records through a `LifecycleNormalizer` |
| `schema.py`, `host_facts.py`, `correlated.py`, `config.py`, `b134.py` | none | construction and validation of values | everything |

What is hard: callbacks of several host threads race with start, stop and the
writers; a record may be lost at the normalizer, the queue, the file's size
limit or to an I/O error, and the parts must not disagree afterwards; the event
file and the capture directory are shared by processes that may die between two
system calls; the host forks at any moment, which copies locks, descriptors and
half made registrations; a timed-out shutdown is retried; long legal call
sequences edit three correlation tables; a recovery is judged offline from the
records of several processes without a common clock. `PROJECT.json` lists these hazards with their lines
and the properties that cover them.

## Modules

* **CanonicalStream** - the abstract specification: which canonical record may
  follow which, decided from the stream alone. `ChainBacked` is what an auditor
  of the stream wants.
* **LifecycleNormalizer** - `normalization.py`. One action per handler, each
  with its rejections, its capacity loss and its success; `DropClosed` and
  `DropDisabled` are the prologue of `normalize`. One lock covers a call, so a
  call is an action. A receipt is reduced to its process uuid, a byte count to
  its presence. `emitted` is a history of the returned records. It implements
  CanonicalStream with `stream <- emitted` and
  `live <- evidence_valid /\ ~closed` (`ImplementsStream`).
* **EventSink** - `events.py` without the file: `emit` and `close` are atomic
  (they hold `_state_lock`), the writer and `flush` go one shared read or write
  at a time, in particular the two reads of the loop condition.
* **SharedEventFile** - `_write_record` one system call per action, several
  processes on one file, failure of each call, death anywhere, and forks. The
  `flock` belongs to the opened file, so a forked child's copy of the descriptor
  keeps a lock whose holder died or failed to unlock, until the child's hook
  (`_abandon_after_fork`) closes it.
* **HostTransfers** - the composition of host (external), binding, adapter,
  LifecycleNormalizer (by INSTANCE) and a queue length. The binding's lock is
  held across the adapter's callback, so a callback is one action.
* **HostAdapter** - `start`, `stop`, `_close_prepared_resources` step by step,
  with callbacks split where the code releases `_state_lock`. Normalizer, sink
  and capture are reduced to open/closed and a writer with a backlog.
* **DescriptorCapture** - queue, condition variable, writer and publication by
  system call, several processes competing for one file name.
* **RestoreChain** - `validation.py` `validate_restore_chain`: an artifact read
  record by record, the summary of each episode, and the replay through a
  private LifecycleNormalizer (by INSTANCE) whose answer must be the record read.
  The function hands over to the next one when the request has correlated records.
* **CorrelatedChain** - `correlated.py` and `validate_correlated_restore_chain`.
  The protocol's host is external: scheduler and workers, each with a clock of
  its own, generations that change at a restart, errors, and reports that are
  lost or repeated. `episodes` is what happened, `artifact` what was recorded;
  the judge is a pure operator on the artifact, `Accepted`, with one operator per
  block of the function. It judges in every state, so also an artifact that was
  cut off.
* **PluginFork** - `plugin.py` in a tree of processes, with the steps of
  `register` and `unregister` at the host's two registries (either may raise),
  the end of `start` and `stop`, and the after-fork hook. An adapter with its
  binding, writers and descriptors is one number. A process may fork at any step;
  the child gets copies of all objects (`adapter`, `bound`, `connected`, `held`),
  none of the threads (`writing`), and empty registries.
* **LifecycleProofs** - theorems about LifecycleNormalizer, the refinement of
  CanonicalStream among them.
* **EventsProofs** - theorems about the two modules of `events.py`, SharedEventFile
  and EventSink. It extends both, which is why EventSink's specification is called
  `SinkSpec` and its variable for the file's content `order`.
* **HostTransfersProofs**, **HostAdapterProofs**, **DescriptorCaptureProofs**,
  **PluginForkProofs**, **RestoreChainProofs**, **CorrelatedChainProofs** - theorems
  about the module each is named for.
* **MC...** - model values, views and symmetry for TLC.

Variables and actions carry the names of the code's fields and methods where
TLA+ allows it. Operators whose comment begins with "Mutant of" are plausible
wrong versions of a definition; no specification uses them. `PROJECT.json`
pairs each checked property with the one that must break it.

## Runs

| Run | Question | Bounds |
|---|---|---|
| lifecycle_chain | Do tables and records stay consistent and within their limits through restore, admission and compute of two identities? Does evidence end for capacity only when the stream shows a limit reached? Is the stream one CanonicalStream allows? | 3 transfers against a table of 2, 2 epochs, 1 admission, 2 instants, 6 records |
| lifecycle_roster | Does an admission name all completed restores? (No: finding.) | 2 transfers |
| event_sink | Accounting, order, honesty of `flush`, nothing stranded; are accepted records settled, does a closed writer exit? | queue of 2, 4 emits, 2 closers, 1 flusher |
| shared_file | Size bound, integrity of records, release of the lock | 2 processes, records of 1 or 2 cells, file of 5, 1 fork |
| host_transfers | Do the two tables agree, is the file ordered under loss, does the normalizer keep the stream contract for preserves and restores without retention? | 3 jobs against tables of 2, queue of 1, 5 records |
| host_transfers_loss | Is evidence lost only when the host is full? (No: finding.) | as above, well-formed ends only |
| host_adapter | Is stop() truthful, are abandoned writers harmless, do counters balance? | 2 starts, 2 callback threads, 2 calls |
| descriptor_capture | Are published files complete and stable, does `close` drain? | 2 processes, 1 name, 2 submissions each |
| restore_chain | Does the offline validator accept the complete and well ordered recoveries and no others? | 10 records, 2 epochs and an identity without one, 2 transfers, 4 receipts |
| correlated_chain | Did what the correlated validator accepts really happen? Does it accept what went well? | 2 workers, 2 jobs, 2 episodes, roster limit of 4 pairs, 2 restores and 2 faults, together 3 |
| plugin_fork | Does a process only ever serve through its own, reachable adapter; is a registered process served; do repeated stops succeed? | a process and its forked children, two alive at a time, 2 adapters |
| plugin_fork_copies | Does an attached process hold only its own descriptors? (No: finding.) | as above |

Why the bounds are enough to be interesting: every table, queue and file has
room for fewer entries than the run offers, so each limit is met and passed;
two identities, processes or threads compete in every run; six records admit a
full chain of start, completion, admission and compute followed by another
start of the same transfer, ten read records admit two interleaved recoveries,
and two instants distinguish before, equal and later. `MaxRecords`, `MaxEmits`,
`MaxTimeouts`, `MaxWrites`, `MaxForks`, `MaxStarts`, `MaxCalls`, `MaxSubmits`,
`MaxLog`, `MaxAdapters`, `MaxEpisodes`, `MaxRestores`, `MaxFaults` and
`MaxTrouble` exist only to make the models finite. Two admissions at a time occur
in restore_chain only; for the tables of the normalizer they are covered for all
limits by the theorems. In correlated_chain two restores with one fault, or one
restore with two faults, cover the pairs of errors that a single check could
confuse; MaxRoster is met exactly by two jobs of two workers.

`CHECK_DEADLOCK FALSE` is set where the system really may stop: a closed and
drained sink, a stopped adapter, a finished validation or recovery, dead
processes, a host with no jobs left. The views leave out only history that no action reads before writing it.

## Fairness

EventSink assumes that the writer thread keeps running and that `_write_record`
returns, with any result; nobody has to emit, close or flush. SharedEventFile
and DescriptorCapture assume the same of a writer inside its system calls, as
long as its process lives. Python threads are scheduled by the operating
system and the loops contain no unbounded waits other than those calls and, for
`flock`, the other processes, which SharedEventFile models; there a forked child
is assumed to run its hook, which CPython calls in the child before anything else.
PluginFork assumes that a call that began goes on, that a writer told to stop
exits, and that a caller who was answered False asks again: the last is an
assumption about the host, and `FailedStopsRecover` says that asking again is enough. I/O that blocks for
ever is outside; the code documents that it cannot cancel it. The safety runs
of HostAdapter need no fairness: `join` may time out at any moment.

## What the runs showed

Three runs end in a counterexample, on purpose.

* **LossNeedsFullHost** (`host_transfers_loss`). When the sink's queue is full,
  `KVTransferHostAdapter.observe` returns False after the normalizer has stored
  the submission. The binding then does not follow the job and drops the report
  of its end, so the normalizer's entry stays for ever. Enough of those disable
  all evidence while the host is far from the limit. `LeftoversExplained` and
  `BindingWithinNormalizer` show that this, a malformed end report and `stop`
  are the only ways the two tables can differ. The leak is one entry per refused
  submission, so a queue that overflows now and then is enough.
* **ExactRoster** (`lifecycle_roster`). An admission may name some of the
  restores completed for its identity; the documentation says exact. The
  offline validator does require the complete roster.
* **AttachedHoldsOwn** (`plugin_fork_copies`). The hook abandons the adapter in
  `_ADAPTER`, which `register_plugin` sets only after `start()` has opened the
  destinations. If another thread forks in between, or after a failed start whose
  writer is still alive, the child keeps the copied descriptors when it attaches
  its own adapter. The copies are harmless to the records (`ServingIsOwned` holds
  nevertheless), but they stay open, with any lock the parent held.

One more observation needs no run of its own. A failed `start()` forgets its
resources even if their writers are still alive, so a later `start()` may open
the same destination beside one, which the comment in `stop()` says not to do.
`UnownedWritersIdle` shows why it does no harm: such a writer has nothing queued
and accepts nothing, because no callback is served before the adapter is ACTIVE.

## Proofs

Eight modules of theorems, for all values of the constants that satisfy the
assumption of the component's module (limits are naturals, at least 1 where the
constructors demand it; timestamps are naturals; nothing is assumed about the
number of threads, processes or names; only the two offline validators need
finitely many transfers and identities, ranks and jobs). The bounds of the models
(`MaxRecords`, `MaxForks` and so on) are arbitrary naturals there. Every module
follows one plan: an inductive invariant `IInv`, which the runs' configurations
confirm on small instances, one lemma per action or per kind of change, `InitInv`,
the step lemma, `Invariance`, and one theorem per property of the runs.

**LifecycleProofs**: `TypeOK`, `AdmissionsBacked`, `NeverPendingAndRestored`,
the limits (`WithinCapacity`) and `InvalidLeavesTables`. `AdmissionsBacked` is not
inductive: a completion of a transfer that already has a receipt would overwrite it, and a
first compute deletes receipts another admission might name. `IInv` adds that no
transfer is in both transfer tables (from the duplicate test of
`_transfer_submitted`), and `ConsumeAdmission` uses that receipts carry the identity
they were completed for, so two admissions never share one.

Its second part proves `Spec => ImplementsStream`, the refinement, and
`FirstComputeBacked`. The normalizer decides by its tables, CanonicalStream by
looking back over the records. `Linked` says that the two agree while evidence is
produced: an entry of a table is a record that nothing has answered, and the
reverse. It is given up when evidence ends, since closing empties the tables;
then the refinement needs only that nothing is returned any more. Each handler's
guards on the tables are shown to be the abstract guards on the stream, and every
other outcome a stutter or the abstract end of evidence. `CapacityExact`
follows from `Linked`: the tables hold only entries the stream leaves unanswered.

**EventsProofs**, about EventSink: `QueueTypeOK`, `Accounted`, `NothingStranded`,
`FileInOrder`, `FlushHonest`. Records are numbers in order of acceptance; `QueueInv`
says that file, record in hand and queue hold consecutive ones, that
`unfinished_tasks` counts what is queued, in hand or not yet reported done, and that
the writer past its first read of the loop condition knows that `close` was called.
The last is why nothing is stranded: an emit between the two reads is refused.

The same module, about SharedEventFile: `TypeOK`, `FileBounded`, `WrittenIntact`,
`LinesSeparate`. Who is past `flock` holds the lock (`Owned`), so the size it read is
still the file's until it writes (`Sized`), the cells after that size are its own
record (`Current`) and a truncation removes only those (`Kept`). A forked child's copy of the
descriptor can only prolong a lock: the hook that closes the copy releases the lock
only when its holder is no longer past `flock`, which keeps `Owned` true.

**HostTransfersProofs**: `TypeOK`, `BindingWithinNormalizer`, `LeftoversExplained`,
`EndsFollowStarts`, `StreamContract`. What the normalizer returns and does to its table is summed up
in `SubmittedEffect` and `ReportedEffect`; `Followed` says that the last queued
record of a job in the binding is the start the binding remembers, and with the
agreement of the two tables the record of an end fits it, whatever the queue
refused in between.
`DrivesNormalizer` proves the composition a refinement of
LifecycleNormalizer: every callback, `stop` and sink step is a call that module
allows, or a stutter. The prover does not take the theorems of an instantiated
module as facts, so `StreamContract`, that the records returned to the callbacks
are a stream CanonicalStream allows, has a proof of its own, with the `Linked` of
LifecycleProofs reduced to what the host can bring about: it makes no recovery
calls, so a completed restore is never consumed.

**HostAdapterProofs**: `UnownedWritersIdle`, `StopHonest`, `CallsAccounted`,
`DescriptorsBalance`. `Held` is the fact about callbacks: the resources they read
under `_state_lock` are the current ones of an adapter that is ACTIVE or STOPPING,
or their writers have exited. So a failed start's writers, which no callback can
hold, stay empty. `Closing` records what `_close_prepared_resources` has done and
makes the result of `stop` true. The counters are related to the callbacks in
progress by cardinalities; for descriptors the records waiting in the current
capture are added, which suffices because no other generation has any.

**DescriptorCaptureProofs**: `TypeOK`, `FinalComplete`, `WrittenStays`,
`LeftoversExplained`, `Drained`. Past its `link` a writer owns the name, complete and
not yet counted (`Owned`), so the only removal of a final name, the rollback,
never meets a counted one; `Explained` attributes every other file.

**PluginForkProofs**: `ServingIsOwned`, `RegisteredServes`. A live process remembers
its own pid or none, since a pid is not given away while its owner lives, so the
hook in a child always drops what it inherited; and a process registers only
adapters it constructed, since a child's host registries start empty.

**RestoreChainProofs**: `JudgesExactly`. The property compares what the judge
decides, from summaries and a replay, with what the records say about each other
(`WellPlaced`). `Following` states that the two agree while the judge reads: each
episode's summary is what its records add up to; the transfers and receipts seen
are those of the records; an entry of the replayed normalizer's tables is a start, a
completion or an admission that the log has and nothing has answered. `MayFollow`
spells `WellPlaced` out for the record to be read next. Then `Decision`: a record
passes the checks and comes back unchanged from the replay exactly when it may
follow, in one lemma per event kind, and reading it keeps `Following`, since the summaries change
by the same rule as the log. `Judgement`, the verdict in terms of the log alone, is
what stays after the judge stops. The replayed normalizer must not run into its
own limits (`NeverFull`): the theorem is about artifacts with fewer transfers and
identities than the 4096 the code gives its tables; a larger one may be refused. A
later record never changes an earlier one's place, so what was accepted stays right.

**CorrelatedChainProofs**: `AcceptedHappened`, `HealthyAccepted`. The judge sees
records only. `Witnessed` says that what a record tells has happened; for a first
compute also that the completions stamped before it, by the clock of the same
worker, had happened before it. With the receipts of one incarnation per rank that
is all an accepted artifact needs, so no bound on losses, repetitions or restarts
matters. For the converse `Exact`, which holds while there is no fault, equates the
records of an episode whose roster fits the limit with its deeds, one record each,
in the order the judge demands; what is left is that each shape passes
`__post_init__` (`Shaped` and the lemmas after it). Both directions need that
schedulers number episodes afresh (`Numbered`), and the second that ranks and jobs
are finite sets.

Only model-checked is liveness (`AcceptedSettles`, `CloseDrains`, `LockFreed`,
`CloseEnds`, `FailedStopsRecover`): reasoning with fairness and ENABLED is beyond the
prover.

## Not modelled

* Host facts pass the adapter and take queue places, but their fields do not
  matter to any other part. Serialization, record shapes, configuration, static
  vocabularies and the tools under `tools/` are data or scripts without state.
* `validate_descriptors` and the parsing of an artifact in `validation.py`: a
  comparison of two files.
* End reports that contradict their submission in rank, request or operation
  (`native.py`) have no action of their own: the binding drops them like malformed
  ones, and one that is repeated correctly changes nothing the first time.
* In CorrelatedChain a scheduler restarts only between recoveries, and an episode
  of a request begins after its previous one finished. Block counts, compute kinds
  and the ranges of fields are left out.
* SharedEventFile opens in one step: a death between `os.open` and the assignment
  of the field, and the descriptor `_open_descriptor` leaks when its `fstat` raises
  (`events.py:178`), are not told apart from a file that was never opened. Neither
  holds the lock, but the leak costs the process a descriptor each time.
* HostAdapter has no exception out of `sink.close` (`adapter.py:256-258`): with the
  timeout passed there it raises nothing.
* Hazards without a property: two threads that call `observe()` directly could
  enqueue records in another order than they were normalized (`adapter.py:278`);
  the only caller in the repository, the native binding, holds its lock around the
  callback, and HostTransfers models that one; the plugin's globals are unsynchronized, but the
  host's loader and `atexit` call it from one thread; `_observe_correlated_host`
  reads `_callbacks` twice without the lock, which only an interpreter that
  switches threads between the two reads could disturb; a descriptor number freed
  just before a fork could be reused when the child closes it, but numbers are
  abstracted to opened files.

## Plan

Every safety property of the passing runs is a theorem. What would come next is a
larger model, not more proof: the correlated reports of `native.py` as actions of
HostTransfers, so that CorrelatedChain's host and the binding meet, and
`validate_descriptors` against the files DescriptorCapture publishes.
