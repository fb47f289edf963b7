# Maestro-Orchestrator: formal models

TLA+ models of the parts of Maestro-Orchestrator whose correctness depends on
interleavings, restarts, lost messages and long sequences of legal calls, with
TLC runs over small instances and TLAPS proofs for every instance. Paths are
relative to the repository's root (`src/` here); `M` stands for `src/maestro`.

## 1. The system

Maestro sends a prompt to several language models, lets them deliberate,
measures dissent, aggregates by quorum, and records every session. Around that
loop stand an analysis that proposes changes to Maestro itself and can inject
them, a network of hosts that hold weight shards, a cluster of instances,
plugins, an updater, and a store of signed knowledge cartridges.

| Component | State it keeps | Operations | Interacts with |
|---|---|---|---|
| Self-improvement (`self_improve.py`, `api_self_improve.py`) | `data/improvements/cycle_*.json` | run a cycle, inject a cycle, roll back one injection or a cycle | VIR, injector, guard; four HTTP endpoints, two in worker threads, two on the event loop |
| Code injector (`applicator.py`) | variables of the running process, source files, `data/runtime_config.json` | apply (runtime, source, config), rollback, rollback_cycle | rollback ledger, guard, `importlib.reload` |
| Rollback ledger (`rollback.py`) | `data/rollbacks/log.json`, backups; a copy per `RollbackLog` | snapshot, mark, query | injector |
| Injection guard (`injection_guard.py`) | times of the injections it let through | category, bounds, rate limit, smoke test | injector, engine |
| MAGI_VIR (`magi_vir.py`) | sandbox directories; the saved thresholds and directories | validate a batch of proposals | patches `aggregator`, `session`, `r2` of the running process |
| Sessions and R2 (`session.py`, `r2.py`) | session files, ledger files | save, list, score | every orchestration; VIR |
| Orchestration, deliberation (`orchestrator.py`, `deliberation.py`) | one request's answers per round | ask, deliberate, aggregate, stream | agents, plugins' hooks, dissent, aggregator, sessions, R2 |
| Aggregation, dissent (`aggregator.py`, `dissent.py`) | thresholds | cluster, quorum, confidence | orchestration |
| Shard registry and proofs (`shard_registry.py`, `storage_proof.py`, `agents/shard.py`, `node_server.py`, `api_storage.py`) | hosts with status and reputation; pending challenges | register, heartbeat, challenge, validate, build a pipeline, fail over | node servers over HTTP |
| LAN discovery (`lan_discovery.py`) | peers with adjacency and last-seen time; node status | beacon, handshake, prune | UDP datagrams |
| Cluster (`cluster.py`, `state_bus.py`, `api_cluster.py`, `instances.py`) | instance registry, frozen shard counts, task records in Redis | spawn, stop, dispatch, complete | Docker, Redis |
| Plugins (`plugins/manager.py`) | plugin states, hooks and their owners, snapshots | load, enable, disable, unload, reload, restore | orchestration's hook points |
| Updater (`updater.py`) | work tree, stash, VERSION, poll state | check, apply, poll | git |
| Librarian (`librarian/`) | objects, bodies, head and version links | commit, load, anchor | signatures |
| Whirlpool (`whirlpool/`) | ingestion buffers | ingest, admit | librarian |
| Router (`router/`) | none (functions of a graph) | distance, conformity | librarian |
| Shard downloads (`shard_manager.py`, `shard_utils.py`) | weight files, `manifest.json`, `node_shards.json`, downloads in progress | download, index, status, configure, remove | background threads and the event loop of a storage node |
| Keys (`keyring.py`, `api_keys.py`, `cli_keys.py`) | `.env` files, the process's environment | set, remove, validate | server and command line on the same files |
| Analysis (`dissent.py`, `ncg/drift.py`, `r2.py`, `magi.py`, `introspect.py`, `optimization.py`) | the R2 ledger | score and index a session, analyse, propose | self-improvement engine |
| Agents, router, front ends, packaging | none, or presentation | one HTTP call; functions; views | |

What is hard in it, component by component, is the list of hazards in
`PROJECT.json`, each at its line. What makes each component correct:

* **Injection**: nothing reaches the system that the guard refuses or a cycle's
  outcome forbids; the ledger tells the truth about what was done and undone;
  undoing everything gives back the program as shipped; a failed smoke test
  leaves nothing of its cycle in force.
* **VIR**: a validation leaves the running process and the live data as they were.
* **LAN discovery**: an adjacency is confirmed only by two live sides; a node
  is formed exactly while it has a quorum.
* **Registry, proofs**: a host that goes on running is registered with what it
  holds; its standing is what the answers in its name earned; a pipeline that can
  cover every layer does, in order and with as few hosts as any.
* **Cluster**: one instance per number and one shard per index; a task is run
  by a shard that owns it and stays on the bus as a task or a result.
* **Orchestration**: every agent's last good answer, and no error text, counts
  for the quorum.
* **Plugins**: the hooks in force are those of the enabled plugins.
* **Updater**: local changes survive an update; one that failed half way is
  offered again.
* **Librarian**: a head names a manifest that verifies and whose body is there.
* **Downloads**: what a manifest lists is on disk and can be read.
* **Keys**: a restart finds every key as it was last asked for.
* **Analysis**: a proposal answers something the sessions showed, within bounds;
  nothing dangerous goes unanswered; a trend is told the right way round.
* **Whirlpool**: a cycle reports what it took, once.

## 2. Modules

| Module | Models |
|---|---|
| `Injection` | self-improvement endpoints, injector, ledger, guard, the threshold part of MAGI_VIR |
| `VirSandbox` | the session and R2 directories while a validation's benchmarks redirect them |
| `Analysis` | from measured sessions to proposals: dissent, drift, R2, MAGI, introspection, optimization |
| `LanDiscovery` | the shard discovery engine, its handshake and its node status |
| `ShardNetwork` | registration, heartbeats, pipelines, inference and failover of weight hosts |
| `StorageProof` | challenges, answers, contributions, reputation and status of weight hosts |
| `Downloads` | the weight shards of a storage node: download, index, manifest, configuration |
| `Cluster` | tasks on the Redis bus and the shards that run them |
| `Instances` | spawning and stopping cluster members on one host |
| `Orchestration` | one prompt through both endpoints: agents, rounds, aggregation, saving; extends `Aggregation` |
| `Aggregation` | clustering, quorum, confidence and reported views, as operators |
| `Council` | the abstract deliberation that `Orchestration` implements |
| `Plugins` | the plugin manager: lifecycle, dependencies, hooks, snapshots |
| `Updater` | checks, updates in a work tree or a container, settings |
| `LibrarianStore` | anchoring and the commit of signed cartridges, step by step |
| `Whirlpool` | ingestion cycles over their adapters |
| `Keyring` | the `.env` files of the server and the command line |
| `Services` | the nine components that share no state with each other, side by side |
| `Lists` | Python's comprehension over a list, as an operator |
| `MCInjection`, `MCLan`, `MCOrchestration`, `MCPlugins`, `MCUpdater`, `MCShardNetwork`, `MCDownloads`, `MCAnalysis` | instances for TLC |
| `MCServices` | small constants for `Services` |
| `InjectionProofs`, `LanProofs`, `OrchestrationProofs`, `UpdaterProofs`, `PluginsProofs`, `ShardNetworkProofs` | theorems of the module they are named after |
| `ServicesProofs` | theorems of `Services`, with one section for each component |
| `Recursion` | lemmas about induction, recursive functions, folds, kept lists and sums |

Definitions commented "Slip" are plausible mistakes in the definition below
them, made to see that the properties notice; nothing else uses them.

### 2.1 Injection

**Processes.** `POST /cycle` and `POST /inject/{id}` are `asyncio.to_thread`
calls, so each runs in a worker thread (`Threads`) next to the others;
`POST /rollback/...` run on the event loop (`EventLoop`), one after another. A
request is a record of `req`: its program counter `pc`, the batch and the
position in it, the copy `mem` of the ledger its `RollbackLog` read, the image
`img` of the file or module it read, the entries `undo` it still has to undo.

**Shared state.** `live` is the module's variables in the process, `source` the
same variables in the file, `config` the overlay, `disk` the ledger file,
`entry` the contents of the entries, `cycle` the cycle records on disk.

**Steps.** One action is the stretch of a request between two accesses to
something shared:

| Code | Actions |
|---|---|
| `run_cycle` up to validation | `StartCycle` |
| `MagiVIR._apply_threshold_overrides`, one threshold at a time | `Override` |
| the benchmarks of `MagiVIR.validate` | `Benchmark` |
| `MagiVIR._restore_thresholds`, one threshold at a time | `Restore` |
| the recommendation, the opt-in gate of `_try_auto_inject` | `Recommend` |
| `inject_cycle` | `StartInject` |
| `CodeInjector.__init__`, `RollbackLog._load` | `Open`, `Load` |
| `apply`, refused | `Skip` |
| `apply`, runtime | `ReadOriginal`, `SetRuntime`, `Record`, `Save` |
| `apply`, config | `ReadOriginal`, `TruncateConfig`, `WriteConfig`, `Record`, `Save` |
| `apply`, source | `ReadOriginal`, `Record`, `Save`, `PatchSource`, `Reload` |
| end of `apply_batch`, smoke test | `EndBatch`, `SmokeTest` |
| `rollback` | `UndoRuntime`; `UndoSource`, `UndoReload`; `UndoConfig`, `RewriteConfig`; then `Mark`, `SaveMark` |
| `rollback_cycle`, its endpoint | `StartRollback`, `StartRollbackCycle`, `EndUndo` |
| `_persist_cycle` | `TruncateRecord`, `Persist` |
| the process is stopped and started | `Crash`: requests and variables are lost, files stay, a file being written is `Torn` |

**Abstractions.** A batch of proposals is one of `Batches`: analysis only reads.
Its verdict is any outcome, the smoke test passes, fails or raises, and a reload
succeeds or raises, all nondeterministically. Values are small numbers;
`float(str(x)) = x` for finite floats. Ledger entries never change but for
their status and are named by fresh ids, so a copy of the ledger is a function
from ids to status and contents are kept once. All injectable variables belong
to one Python module. `MinVal` and `MaxVal` give each threshold of the strategy
tables the bounds of its strategy; `check_bounds` lets other targets through,
and values that are no number, but parameter updates are proposed for the
thresholds alone and with numbers (`optimization.py:245-290`). A `code_patch` and a configuration change that touch no
target of the model's, requests that answer 404 and read-only requests change
nothing and have no action. Disk writes do not fail, except by a crash between
truncation and write. Times are left out: a whole behaviour lies within one
hour, which is when the rate limit matters.

**History variables** (read by properties only): `done`, `undone` (injections
made, put back), `serial` (no request has overlapped another or was cut short),
`lifo` (whatever was put back was the newest of those that share its target),
`stuck` (source patches whose module would not reload when they were put back)
and the counters `started`, `crashes` of the bounds.

**Properties.**

* `TypeOK`.
* `OnlyApproved`: under any interleaving and any restart nothing blocked,
  unlisted or out of bounds, and nothing of a cycle on record as rejected,
  reaches the ledger; without the opt-in only cycles already on record.
* `LedgerTruthful`: under any interleaving and any restart the ledger file
  claims no rollback that did not happen, and no runtime or config injection
  that did not happen.
* `LedgerExact`: as long as requests come one at a time, the file has every
  injection with its true status.
* `NothingInForceAsShipped`: one at a time, each rollback newest first among
  those that share a target; when all is rolled back, process, source and
  overlay are as shipped, whatever mixture of kinds came before.
* `SmokeFailureUndone`: the automatic rollback leaves nothing of its cycle but
  what would not reload when it was put back.

### 2.2 LanDiscovery

**Processes.** Every session runs one `ShardDiscoveryEngine` on one event loop,
so a callback runs to its end before the next: one action is one datagram
handled or one turn of a loop of one session.

| Code | Actions |
|---|---|
| `start`, `stop` | `Start`, `Stop` |
| `_beacon_loop`, `_send_beacon`, `_on_beacon`, `_initiate_handshake` | `Beacon(s, p)`: a beacon of `s` handled by `p` |
| `datagram_received`, `_handle_message` | `Receive`, `Handle` |
| `_on_handshake_init`, `_on_handshake_ack`, `_on_handshake_confirm` | actions of the same names |
| `_prune_loop`, `_evaluate_node_status` | `Prune`, `Evaluate` |
| `PeerShard.is_alive` turning false | `Silence` |
| UDP | `Lose`, `Vanish`; the second disjunct of `Receive` delivers a datagram and keeps it, to come again |

**State.** `adjacency[p][s]` is what `p` holds of `s` (`engine.peers`), `heard[p]`
the peers that are alive for `p`, `node[p]` the members of its node, `net` the
directed datagrams on their way.

**Abstractions.** Time is seen through `is_alive` only. A beacon arrives at once
or is lost (it then does not happen). Two equal datagrams in flight are one.
`DISCOVERED` lasts only within a handler. Which adjacent peers become the
members of a node is left open (the code takes them in the order of discovery).
A session that stops for good may come back under a new uid, as another member
of `Shards`. A datagram goes to a machine, not to a session: the handlers do not
read the `target_uid` it carries, and drop what carries their own uid, which
every session draws anew.

**Properties.**

* `TypeOK`: with it, that no session is a peer of its own.
* `ConfirmedBothWays`: no adjacency is one-sided, whatever is lost, repeated or
  late.
* `NodeBacked`: a node has exactly its quorum of members and each knows the
  session that reports it.
* `AdjacencyForms`, `StoppedGivenUp`, `NodeSettles`: two running sessions become
  adjacent; a stopped one is given up by all, for good, though a last datagram
  of it may still be on its way; a session comes to report a node exactly if a
  quorum runs.

### 2.3 Orchestration, Council, Aggregation

**Processes.** The agents of one request are tasks of one event loop: `/api/ask`
waits for all with `gather`, `/api/ask/stream` takes each answer as it comes.
A task runs undisturbed between two awaits; that stretch is one action.

| Code | Actions |
|---|---|
| `run_orchestration_async`, `run_orchestration_stream`: an agent's answer | `AnswerFirst` |
| all tasks are through, deliberation or not | `Collect` |
| `_deliberate_one` up to its `await`, its result, an exception | `Ask`, `AnswerAgain`, `RaiseAgain` |
| `gather` of a round, `current_responses = new_responses` | `EndRound` |
| the filter of failures, `DissentAnalyzer.analyze`, `aggregate_responses` | `AggregateAnswers`, with `Counted`, `Distances`, `Aggregate`, `Verdict` |
| saving the session, R2's score, each in a `try` | `SaveSession`, `Score` |

**State.** `answers` is `named_responses`, later `current_responses`, and `order`
the order of its keys, which differs between the endpoints: the aggregation
matches names and texts by position. `errors` is `agent_errors`, `members` is
`clean_names`, `shown` what a prompt of this round contains, `reply` the results
of the round so far.

**Abstractions.** A text is one of `Answers` or the one failure `Failed`, which
stands for every string that `_ERROR_PATTERN` matches; how far two of them are
apart is part of the metric. An error string that the pattern does not match is
an answer, as it is to the code (section 3). Agents return strings, as
`agents/base.py` asks; a null content of a provider's reply is left out. The metric is chosen with the request; how it
is computed from words is left out. `rounds = 0` stands for deliberation
switched off. The council is not empty and its names are distinct. Plugin hooks
observe only; NCG, the content of R2's score, the events of the stream and the
order of minority views are left out.

**Properties.**

* `TypeOK`.
* `FairBoard`: whoever is asked first, agents of one round are shown the same
  texts of the same round.
* `FailedStayOut`: an agent that failed at first is never asked again and never
  shown.
* `ViewsOwned`: names and texts stay matched, in every order of arrival.
* `MeanLinkage`: each agent is held only against those that had joined before
  it; still the finished cluster has a mean pairwise distance below the
  threshold.
* `Answered`: every request is answered.
* `ImplementsCouncil`: the interleaved tasks amount to rounds in which all
  reconsider at once. `stage` maps from `phase`, and while the first answers come
  in the abstract council has none.

The greedy clustering depends on the order of the answers: with distances
0.40, 0.45 and 0.80 the same three answers can give a majority of either pair.
The code promises nothing else, so no property says otherwise.

### 2.4 VirSandbox

**Processes.** A validation (`v \in Validations`) is a worker thread; a request's
saving is on the event loop. A thread is interrupted between any two accesses to
the two module variables `session._DEFAULT_DIR` and `r2._DEFAULT_LEDGER_DIR`
(`dir`), hence one action for each.

| Code | Actions |
|---|---|
| `SelfImprovementEngine.__init__`, MAGI's reading | `Analyse` |
| `_create_sandbox`, `validate` | `CreateSandbox` |
| `_run_benchmark_prompt`: originals, the two variables, stores, writes, `finally` | `SaveDirs`, `Redirect`, `BuildStore`, `WriteRecord`, `Restore`; a failure is the second disjunct of `WriteRecord` |
| `_cleanup_sandbox` | `CleanUp` |
| a request's stores and writes | `OpenStore`, `Persist` |

**Property.** `VirIsolated`: wherever a benchmark fails, nothing of it gets into
the system's directories or into what MAGI reads; the variables point back; and a
request that built its stores outside benchmarks has its records in place. The
code promises no more: a request that builds a store while a benchmark runs
(`meddled`) may lose its session, and overlapping validations (`Overlap`) may
leave a variable redirected, as `vir_leak` shows for the thresholds.

### 2.5 Analysis

Operators, one per function of the code: `Agreement`, `Outliers`, `HighDissent`
(`dissent.py`), `Drift`, `Collapse`, `Compressed` (`ncg/drift.py`), `Grade`,
`Confidence`, `Raised`, `Trend` (`r2.py`), `Recommendations` and its parts
(`magi.py`), `SignalCodeMap`, `Places`, `Targets` (`introspect.py`),
`ThresholdProposals` and its siblings (`optimization.py`). Around them a small
state machine: `Index` a session, `TearEntry`, `Analyse`, `Adopt` a threshold and
begin again.

**Abstractions.** A session is what is measured of it. Distances, agreement and
confidence are in ten-thousandths, the precision the code rounds to; thresholds
and lengths in hundredths, so the last bit of a float is lost: in the code a
threshold of 0.30000000000000004 is still above its bound of 0.3, and one more
proposal is made to lower it to the bound. The
complexity ranking (`Hotspots`) and the places in the source are those of the
present source tree.

**Properties.** `ProposalsRight`: a proposed threshold moves in its strategy's
direction and within its bounds however often proposals are adopted, every change
answers something that was read, no two collide; and a suspicious session always
leads to a change of either threshold unless that is at its limit.
`TrendTruthful` is violated, see section 3.

### 2.6 ShardNetwork and StorageProof

| Code | Actions of `ShardNetwork` |
|---|---|
| `node_server.lifespan`, `_load_shard_config`, `_register_with_orchestrator` | `StartNode`, `StopNode` |
| `_heartbeat_loop` | `Tick`, `Heartbeat` |
| HTTP | `Deliver`, `DeliverAndAgain`, `Lose` |
| `register`, `unregister`, `_save_node`, `_load_nodes` | `Register` in `Deliver`, `Unregister`, `RestartOrchestrator` |
| `ShardAgent.fetch`, `_execute_pipeline`, `_forward_to_node`, `_failover` | `Route`, `Forward`, `Failover`, `GiveUp` |
| `build_inference_pipeline`, `find_nodes_for_shard` | operators `Pipelines`, `Alternatives` |

`Pipelines` is the set of pipelines the greedy construction can give: ties fall
to the order of a dictionary. Nothing in the program changes a registered host's
status, locality or reputation, so they are not state; nor does anything give
`ShardAgent` a proof engine (`plugin.py:41` of the plugin that makes it passes
none), so its filter by reputation (`shard.py:78`) never applies.
`PipelinesExact` says that greedy is exact: a pipeline goes through the layers in
order and without a gap, and where the hosts hold every layer it covers every
layer, with as few hosts as any choice could. What is returned where a layer is
missing is not what the docstring says: `FullCoverageOrNothing` is violated
(section 3). `RegisteredInTheEnd` is
liveness: a host that goes on running is registered with the shards it holds for
good, though late registrations bring back old ones in between.

`StorageProof` has `Issue`, `Validate`, `Evict`, `AddContribution`, `Restart`. Score and
status are integers in ten-thousandths computed as in the code.
`ReputationEarned`: the status, which is changed by rules that look at the status
before it, always says what the score says; and no answer counts twice and none
that was not asked for, across restarts that forget what is pending. An answer
is credited to the host it names, which nothing compares with the host that was
challenged (`storage_proof.py:208`, `236-238`), so a host's own challenges bound
its answers only together with the history variable `strays`, the answers it is
credited with for challenges of others less those that others have of its own.
`run_challenge_cycle`, `validate_response`, `evict_if_necessary` and
`add_r2_contribution` have no caller outside the tests; the model calls them in
any order.

### 2.7 Downloads

`PostDownload`, `Begin`, `ListFiles`, `Fetch` are the background task of
`download_shards`; `Scan`, `Index`, `OpenManifest`, `WriteManifest` are
`index_shards`, which status requests and configurations run on the event loop
too (`Status`, `GenerateConfig`); `Clear`, `RemoveModel`, `Restart`. Several threads
index one directory at once, because `Clear` lets a second download begin.
A model may be removed at any time. The index goes on: it passes over the files
that are gone, lists those it found before, and writes into a directory made
anew, or into a file that has no name any more; the history variable `overtaken`
has the threads this happened to, and `spoiled` says that one of them wrote the
manifest. `ManifestTruthful`: a manifest lists nothing that cannot be read, and
unless it is spoiled, all it lists is on disk, and if it is complete, there is a
file for every layer up to the last one it lists. That a complete manifest has
every layer of the model is what the comment says and the code does not know:
`CompleteHasEveryLayer` is violated (section 3).

### 2.8 Cluster and Instances

`Cluster`: `StartShard`, `EndShard`, `RestartHub`, `RedisGoesAndComes` are the
processes and the bus; `Assign`, `Resolve`, `Forward` are `dispatch_task`;
`Store`, `Clear` the two commands of `complete_task`. Each process has the number
of shards it was started with; announcements outlive their processes.
`TasksAccounted`: a task that reached the bus is there as a task or as a result,
and whoever ran it owns it under its own count.

`Instances`: `Spawn` with `ChooseRole`, `EnsureRedis`, `CleanUp`, `Up`; `Stop` and
`StopAll` with `Down`, `Tidy`, `RedisDown`; the registry's `Load`, `Truncate`,
`Write`; `Broadcast`; `Die` (a container) and `Crash` (the process). Every command
may fail, those whose failure the code does not look at too: `docker ps`
(`Seen`: then nothing seems to run), `compose down`, publishing into Redis and
the removal of Redis. The history variables follow what that can cost: `missed`
has the members that a command failed to stop, or that did not seem to run when
the shared Redis was to go, and `settled` says that the last operation went
through to its end and published. `ClusterConsistent`: registered members have
an index each and there is one orchestrator at most; no member but a missed one
outlives the shared Redis; and where the last operation is settled, what Redis
publishes between operations is the registry. `Overlap = FALSE`: two spawns at
once do take one index.

### 2.9 Plugins

Requests run without an `await`, so one is served at a time and most are one
action; `enable`, which calls itself along dependencies, is taken apart into its
calls (`stack`: `Descend`, `Overflow`, `Activate`), and so is `restore_snapshot`
(`queue`: `RestoreRequest`, `RestoreNext`). `RunHook` is one step of `run_hooks`,
which awaits a hook and goes on in a list that may have changed.
`ChangeDirectory` is the operator.

* `HooksAccounted`: every hook in force has its owner on record, none is that of
  a disabled plugin, and a run calls no hook twice and in order of registration.
* `RestoredAsSaved`: a restored snapshot leaves what it had enabled enabled or in
  error, nothing else but dependencies, and its configurations in place.
* `EveryRequestAnswered`: also when dependencies form a cycle, which ends in
  Python's recursion limit (`RecursionLimit`).

### 2.10 Updater

Two threads (`Jobs`): the polling loop and a request. `Wake`, `Request`;
`GetLocalCommit`, `GetRemoteCommit`, `CheckFails` are the check; `HasLocalChanges`,
`Stash`, `StashFails`, `Pull`, `Pop` the update of a work tree (a stash that fails
is popped all the same, and takes what an earlier one left on top); `BeginClone`, `Cloned`,
`Preserve`, `RemoveTree`, `Copy`, `RestoreOwn`, `WriteVersion`, `ApplyFails` that of
a container; `Configure`, `Push`, `Edit`, `Restart` the rest.

* `NothingHidden`: a container whose VERSION is the newest commit runs that
  commit, so a sync that failed half way is offered again.
* `NothingOfTheUserLost`: settings and the built frontend survive, unless a sync
  broke off or settings were saved during one (`exposed`); every local edit is in
  the tree or in the stash.
* `Updated`: with automatic updates on for good the newest commit arrives and
  stays, pushes made meanwhile included, and in a container both directories hold
  it: a sync that was broken off is carried out again (`Arrived`).

`Overlap = FALSE` lets no two applies into a container at once; nothing in the
code does, and with two of them a directory can be removed under the other's
copy.

### 2.11 LibrarianStore

`Anchor` is `Scribe.anchor`; `Begin` the verification in `commit`; then the commit in
eleven steps: `OpenTemp`, `WriteTemp`, `RenameTemp` for manifest and body (`_atomic_write`),
`ClearLink`, `MakeLink`, `SwingLink` for head and version (`_atomic_symlink`).
`Crash` may follow any of them. `HeadsLoad`: what a head or a version names loads,
with its body and enough trusted signatures. `Overlap = FALSE`: the name of a
temporary file is fixed by the final one, and two commits of one object at a time
can publish a file that is not written yet.

### 2.12 Whirlpool

`Begin`, `ServeQueue`, `OpenClient`, `Refuse`, `Fetch`, `FetchFails`, `FetchSucceeds`,
`CloseClient`, `Closed`, `Return` are `run_ingest_cycle` and the generators of the two
adapters between their awaits; `FeedItems`, `RecordFailure`, `Cancel` come from
outside. `StatsAddUp`: an adapter's items are those of its sources, a cycle that
returned reports exactly what its adapters yielded for it, an item that was fed
is queued or was taken once.

### 2.13 Keyring

`Change` with `OpenFile` and `WriteFile` is `set_key`, `remove_key` and `set_remote` of
the server and the command line. Keys are changed in the environment before the
file, the update remote (`Remotes`), by the server alone, after it; `Validate`, `Answered`; `Restart`,
`Interrupt`, `PlaceFile`. Where a key is written (`EnvPath`) and what is loaded at
the start (`LoadPath`) are two expressions of the code. `KeysKept`: a restart finds
every key as it was last asked for, and a validation that says a key is valid
speaks of the key it shows. Assumed: `MAESTRO_ENV_FILE` is set (`EnvFileSet`), no
`.env` stands in a place that is looked up before (`StrayFirst`), one change at a
time (`Overlap`), no process ended while it wrote (`cut`).

## 3. Runs

| Run | Bounds | Shows |
|---|---|---|
| `injection` | 2 workers and the event loop, 2 cycles; 5 requests one at a time with 3 batches of all kinds, or requests and restarts up to 3 that overlap or are cut short, with 2 batches and 3 entries; 1 restart | all properties of 2.1 |
| `lan` | 2 sessions, quorum 2, 1 datagram lost or repeated, 2 silences, 1 stop | all properties of 2.2 |
| `orchestration` | 3 agents, 3 answers and the failure, up to 2 rounds, both endpoints, 2 metrics | all properties of 2.3 |
| `plugins` | 3 plugins in a chain that can become a cycle, 4 requests, 1 snapshot, 1 run of hooks | all properties of 2.9 |
| `updater` | 2 pushes, 1 request, 2 failures, 2 saves, 2 edits, 1 restart, both modes | all properties of 2.10 |
| `shard_network` | 3 hosts, 4 layers, 2 faults | `TypeOK`, `PipelinesExact`, `RegisteredInTheEnd` |
| `services` | see below | `TypeOK` of each module and one property of each of nine components |
| `cycle_rollback` | 4 requests one at a time | violation: a cycle injected twice and rolled back does not return to what was shipped |
| `vir_leak` | 2 overlapping cycles | violation: a proposal that was never injected stays in force |
| `trend` | up to 4 sessions of four agents | violation: a decline is reported as an improvement |
| `partial_pipeline` | 3 hosts, 4 layers, no faults | violation: a pipeline that ends before a gap is returned and run |
| `manifest_complete` | 2 files, the last layer in the second, 1 download | violation: the manifest of the first file alone is complete |

`services` checks `Services`, which instantiates nine modules that share no state. Interleaving them would
multiply their states and show nothing, so `moving` chooses the one component a
behaviour is made of; the others keep one initial state. The bounds are in
`MCServices`: instances 4 numbers, 6 operations, 4 faults; cluster 2 tasks, 2
hosts, counts 2 and 3, 2 starts, 2 faults; storage proofs 2 hosts, 2 challenge ids,
2 challenges and 3 contributions each, a window of 2, 1 restart; downloads 2 files, one
unreadable, 2 threads and the event loop, 3 requests; librarian 2 manifests of
one cartridge that share a body, 3 keys of which 2 are trusted and needed, 2
crashes; sandbox 2 validations of 2 prompts one after the other, 1 request;
analysis 3 kinds of sessions, 4 entries, 4 adoptions; whirlpool 3 adapters, 2
cycles; keys 2 variables, 4 requests, files with repeated assignments.

Why the bounds are enough. Three requests of injection are the least in which one reads the
ledger, a second changes it, and a third acts on what the first wrote back; two
workers and the event loop are all the kinds of thread there are, and a third
worker is symmetric to the first two. Five sequential requests allow to inject a
cycle, inject it again, undo both and go on. One restart suffices for each
single torn file and for each request cut short. The batches hold every kind,
every category, values on both sides of the bounds, and two kinds that meet on
one target. `MaxEntries` never keeps a request from recording: it is at least
what the requests of the run can record.

Two sessions are the whole of a handshake, since a session answers each datagram
by what it holds of its sender alone, and the least quorum with a member; one
lost or repeated datagram and two silences let a handshake be cut and begun
again, and a stop comes after either. What more sessions and larger quorums can
do to the safety properties is proved (section 5). Of orchestration, three agents are two
that debate and one that failed, and the smallest council whose clustering
depends on who joined before; two rounds let a failure of the first be an
agent's own text in the second.

Three plugins are the least chain with a middle, and the least cycle that is not
a pair; four requests install a cycle, enable, save and restore. Two pushes let
one arrive during the application of the other, two failures let a retry fail
too, or a stash and the pull after it. Three hosts overlap, leave a gap and tie; two faults are a loss and a
restart, or a stale registration and a removal. A second fault after a first is
what the crash bounds of the other components allow: a crash among what a crash
left behind. The instance manager needs four faults and five operations to
register members, lose Redis, stop one of them and go on; the proof asked for that
case first (section 5). Adopting four times moves a threshold to its bound from where it is
shipped.

Deadlock is not checked
(`CHECK_DEADLOCK FALSE`) where a behaviour ends because its bounds are used up.

The `CONSTRAINT` of `injection` (`InBounds`) keeps two kinds of behaviour: as
long as requests come one at a time there may be five, with batches of all
kinds; once two overlap or one is cut short there are three at most, with the
two batches meant for that. It forbids no interleaving of those.

**The five violations** are disagreements of the code with its own
documentation; `PROJECT.json` quotes the lines. The two of injection have one
root: the engine was written for one request at a time, and objects made per
request hold what is shared. The trend compares the halves of a list that is
sorted the other way
round. The last two are answers to "is it all there" given without knowing all:
a pipeline that stops at the first layer nobody holds, and a manifest that
compares the layers it lists with themselves.

**Other disagreements** met while modelling, which no run is spent on:

* Overlapping requests drop each other's entries from the ledger (`rollback.py:76`),
  which its docstring calls append-only (`rollback.py:5`).
* The hourly cap (`injection_guard.py:8`) counts in a guard made per request.
* A lost handshake datagram is never sent again (`lan_discovery.py:361`), while
  beacons keep the pair half-way; sessions that share a machine receive each
  other's replies (`lan_discovery.py:432`).
* An agent that fails in a round returns an error text, which replaces its
  earlier answer (`deliberation.py:243`); `docs/architecture.md:39` has it keep that answer.
* `_ERROR_PATTERN` is said to match "the error-string conventions used by all agent
  implementations" (`orchestrator.py:18-19`), but not what `ShardAgent` returns
  without hosts, without trusted ones or when a pipeline fails (`agents/shard.py:70`,
  `75`, `85`, `134`, `149`): these count as answers.
* A provider may answer with a null content (`agents/sol.py:47`); `/api/ask` then
  raises (`orchestrator.py:154`); `docs/architecture.md:33` promises "the pipeline is
  never aborted by a single agent failure".
* A storage proof is credited to whoever the answer names (`storage_proof.py:236`).
* All members of a cluster are not "within SIMILARITY_THRESHOLD of each other"
  (`aggregator.py:9`); their mean is (`MeanLinkage`).
* Overlapping spawns, commits of one cartridge, applies in a container and
  changes of keys do collide: each module has a constant that lets them
  (`Overlap`), and the run that leaves them out says so.
* A key is written to the first `.env` that is there, and loaded from another
  place (`keyring.py:75`, `orchestrator_foundry.py:6`), so with a stray `.env` it is lost.

## 4. Fairness

Injection, and every component of the run `services`: none is assumed and only
safety is stated. Nothing in the code retries an injection, a commit, a
download or a spawn, and no caller waits for one to be undone.

Plugins (`FairSpec`): a handler runs to its end, weak fairness of `Proceed`.

Updater (`FairSpec`): `_poll_loop` catches what a cycle raises and wakes up again,
and threads go on: weak fairness of `Wake` and of each thread's next step.
Failures, pushes and restarts are not fair, and bounded.

Shard network (`FairSpec`): the heartbeat loop runs as long as its host does, and
a registration that is not lost arrives: weak fairness of `Tick`, `Heartbeat` and
`Deliver`. Losses are not fair, and bounded.

LAN discovery (`FairSpec`): `_beacon_loop` and `_prune_loop` run as long as the
session does (the first catches what sending raises, nothing in the second
raises), hence weak fairness of `Prune(p)` and `Beacon(s, p)`, which a stopped session disables; an event loop
gets to every datagram that waits, hence weak fairness of the handling of each
datagram; time passes, hence a stopped session falls silent. Silences of a
session that runs and faults of the network are not fair, and bounded: from some
point on the network delivers, which is what the liveness of a protocol without
retransmission can be asked under. `AdjacencyForms` and `NodeSettles` ask where no
handshake datagram was lost or repeated (`faults = 0`): one that is lost is enough
to stop a pair for good (section 3). `StoppedGivenUp` asks always.

Orchestration (`FairSpec`): every call to an agent ends, by its HTTP time limit
if by nothing else, and the event loop runs what is ready: weak fairness of each
agent's steps and of the pipeline's. Which text comes is never fair.

## 5. Proofs

`InjectionProofs` proves, for any number of workers, cycles, requests and
restarts, any batches and any bounds (`ConstantsAssumption`, `TornAssumption`):

* `TypeCorrect`: `Spec => []TypeOK`. `TypeOK` is not inductive: that the id a
  request works on is an entry, that the proposal it works on exists and is of
  the kind its program counter says, and that what it undoes is recorded, is
  `InPlace`. `Typed` is both. One lemma per action.
* `LedgerTruthfulAlways`: `Spec => []LedgerTruthful`. The file is written from
  copies that any request may have read at any time, so the strengthening
  `Honest` says the same of every copy in memory as of the file, and of a
  request about to mark an entry that it has been put back. It is inductive
  because `done` and `undone` only grow: a stale copy is still true.
* `OnlyApprovedAlways`: `Spec => []OnlyApproved`. The strengthening `Approved`
  speaks of the requests on their way: whoever is past the gate has a verdict
  or a record that allows it, and a cycle id is given out once, so the record
  written at the end is that of the cycle whose injections were made.
* `LedgerExactAlways`: `Spec => []LedgerExact`. The invariant `Exact` speaks of
  behaviours whose requests came one at a time and ran to their end (`serial`):
  at most one request is at work; the file agrees with `entry` and `undone`
  unless it is torn, and the request's copy does while it is used; the one entry
  that is recorded and not done is the source patch in hand, which the code
  records before it makes it. `ExactStep` reduces each action to the record of
  the request that takes it.
* `NothingInForceAsShippedAlways`: `Spec => []NothingInForceAsShipped`. What a
  rollback puts back is what its entry says, so the invariant `Shipped` says
  what entries may say while injections are in force: the eldest on a target
  holds the shipped value, unless a source patch came before it, and the eldest
  patch holds the shipped file (`ModuleRight`, `SourceRight`, `ConfigRight`).
  Each kind has a lemma for coming into force at the end and for leaving when
  nothing newer conflicts with it; the patch is the hard one, since it resets
  every variable of the module whatever else is in force. `InHand` is what a
  request has changed and not recorded, or put back and not marked.
* `SmokeFailureUndoneAlways`: `Spec => SmokeFailureUndone`, from the same
  invariant: what a failed cycle has in force is on its list (the request's copy
  of the ledger is exact, by `Exact`) or in `stuck`, since a rollback that raises
  is the only one that leaves its entry.

`LanProofs` proves, for any finite set of sessions, any quorum and any number of
faults, silences and stops (`LanAssumption`):

* `LanTypeCorrect`: `Spec => []TypeOK`.
* `ConfirmedBothWaysAlways` and `NodeBackedAlways`, assuming one session on each
  machine (`OneSessionPerHost`; on a shared machine a reply reaches another session,
  and the property fails).
  Nobody who is known is ever forgotten, so the strengthening `RepliesKnow` is
  stable under loss, repetition and delay: whoever has a reply on its way to a
  peer knows that peer. A node is chosen among confirmed peers, each of which
  knows the shard already; `Backed` carries that over to the later states.

`OrchestrationProofs` proves, for any council, texts, metrics, thresholds and
number of rounds (`OrchestrationAssumption`, `ThresholdAssumption`), with one
lemma per action:

* `OrchestrationTypeCorrect`: `Spec => []TypeOK`. That no round too many is held
  needs `Paced`, which says in which phase a round may begin.
* `FairBoardAlways`, `FailedStayOutAlways`. Two prompts of one round are made at
  different times; that they agree follows from `Boards`: whatever was shown is
  what the unchanged answers still give. `Apart` says who failed and who takes
  part.
* `CouncilImplemented`: `Spec => Deliberation!Spec`, by the initial states and,
  for each action, a step of `Council` or a stutter, from the same invariant.
* `ViewsOwnedAlways`: `Spec => []ViewsOwned`. `Listed` keeps the list of names
  complete while answers come in any order; from there on it is a fact about
  `Aggregate` (`Reported`): the position of a name is that of its answer, whoever
  was left out of the list before.
* `MeanLinkageAlways`: `Spec => []MeanLinkage`. The code holds an agent only
  against those that joined before it. That this is enough goes through every
  loop of the clustering (`SweepGroups`, `GrowGroups`, `ClustersNear`,
  `MajorityNear`): each cluster is `Near`, every member's mean distance to those
  before it is below the threshold; and a mean of all pairs is made of such rows
  (`RowsAddUp`), as distances are the same both ways.

`UpdaterProofs` proves, for any number of pushes, requests, failures, saved
settings, edits and restarts (`UpdaterAssumption`):

* `UpdaterTypeCorrect`: `Spec => []TypeOK`, overlapping applies included. The
  strengthening `Modes` keeps the steps of the two ways to apply apart.
* `NothingHiddenAlways`, `NothingOfTheUserLostAlways`, assuming no two applies at
  once in a container (`Overlap = FALSE`). `Track` follows a sync: the
  directories it has passed hold its clone, which is newer than VERSION;
  `Behind` says that VERSION is behind the remote whenever the directories are
  not all of its commit. `Safekept` says where the user's files are at each
  step: in place, or with the job that preserved them. `EditsKept` is inductive
  with the types alone.

`PluginsProofs` proves, for any plugins, dependencies, directories, hooks and
snapshots and any limit of the recursion above the number of plugins
(`PluginsAssumption`), with one lemma per action:

* `PluginsTypeCorrect`: `Spec => []TypeOK`.
* `HooksAccountedAlways`: `Spec => []HooksAccounted`. That a run calls no hook
  twice though the list changes under it follows from `Ordered`: hooks are
  numbered as they are made, so the list is sorted and whatever a run has still
  to call is younger than all it called.
* `RestoredAsSavedAlways`: `Spec => []RestoredAsSaved`. `Restoring` says it of a
  restore on its way: each plugin of the snapshot is enabled, in error, or still
  has its turn in `queue` or `stack`, and whoever is on the stack is needed by one
  of them; that the stack never leaves what they need, cycles included, is a
  property of the closure.

`ShardNetworkProofs` proves, for any hosts, models, layers and faults
(`ShardAssumption`):

* `ShardNetworkTypeCorrect`: `Spec => []TypeOK`.
* `PipelinesExactAlways`: `Spec => []PipelinesExact`, of every registry there can
  be. What the recursion gives is a chain (`PipelinesChain`, by induction from the
  last layer): each host begins where the one before ends, and none reaches
  further. So the layers at which the hosts of a chain take over are held by no
  host twice, and whatever covers them needs a host for each (`ChainExact`).

`ServicesProofs` proves about the components of `Services`, under their
assumptions (`ServicesAssumption`) and for any of their constants. A section
has the invariant of one component and a lemma for each of its actions;
`ServicesInv` puts them together, since the component that moves keeps its own
and nobody reads another's variables.

* `ClusterConsistentAlways` (instances): `InstancesInv` follows an operation from
  the registry it read to the one it publishes. The number it chose is free as
  long as nobody else writes (`Overlap = FALSE`); what runs when Redis goes is in
  `missed`, since `stop_all` has each container it saw on its list and stops it or
  misses it; and Redis holds what the file does, where it was published, until
  the next operation writes.
* `TasksAccountedAlways` (cluster): `ClusterInHand` carries ownership from the
  moment a shard takes a task, under its own count, to the result it writes, and
  `Store` before `Clear` keeps the task in one of the two hashes.
* `ReputationEarnedAlways` (storage proofs): `ProofsInv` says of memory and file
  that a status is the one its score gives, by cases over the rules that look at
  the status before it, and that the answers counted and those awaited are
  together no more than the challenges issued and the strays: an answer takes one
  from those awaited of the host that was asked, and counts for the host it names. A score is within its scale
  because it is a weighted mean of means.
* `ManifestTruthfulAlways` (downloads): whatever a thread has found and not yet
  written down can be read, and is still on disk unless the thread is `overtaken`
  (`DownloadsInv`); a coverage of one range from 0 covers each number up to the
  last (`DownloadsCompleteCovers`).
* `HeadsLoadAlways` (librarian): files and links are only replaced by a rename,
  so it is enough that whatever stands in its place is complete
  (`LibrarianComplete`), and that a commit has in place what its step relies on
  (`LibrarianPlaced`); what interrupted commits left among the temporary files
  is opened anew before it is used.
* `VirIsolatedAlways` (sandbox): `SandboxDirected` gives the two variables at each
  step of a benchmark, and `SandboxKept` says how far a request is that no
  benchmark came in between of.
* `ProposalsRightAlways` (analysis): `AnalysisReasoned` says of each proposal of
  the last analysis why it is there, a strategy and a signal that was read or a
  recommendation above "info"; `AnalysisWithin` keeps thresholds within the
  bounds of their strategies while proposals are adopted. `AnalysisEntryIs` joins
  two modules of the code: a session R2 grades suspicious has raised the signal
  that the optimization engine's strategies answer.
* `StatsAddUpAlways` (whirlpool): an adapter's total is the sum over its sources
  (`WhirlpoolRight`); a cycle on its way has counted the adapters behind it
  (`WhirlpoolConsistent`); items are queued or taken once (`WhirlpoolConserved`).
* `KeysKeptAlways` (keys), with `MAESTRO_ENV_FILE` set, no `.env` placed before that
  one, one change at a time and none cut while it writes: what a change read and has not written yet leads to what
  is asked for (`KeyringLeads`), as the last assignment of a variable counts
  (`KeyringLoadedIs`) and a change leaves one of each.
* `ServicesTypeCorrect`: `Spec => []TypeOK`, from the same invariants. It is more
  than a list of sets where the code computes: agreement, drift and confidence
  are fractions, since no pair of agents is farther apart than 1 and a mean is no
  more than what it is of (`SumSparse`, `AnalysisRoundedBounded`), and a reputation stays
  in its scale.

`Recursion` has what these proofs need of recursive definitions. The library's
induction theorems take an operator, which the provers cannot instantiate; here a
set stands for the property and a function for the step (`Induction`,
`SubsetInduction`), from the well-foundedness of the natural numbers. On these
rest the existence of functions defined by recursion on a number, a list or a
finite set, and what folds, `Keep` and sums compute. The models therefore write
comprehensions with `Keep` and not with `SelectSeq`, whose recursion a proof cannot
open.

Every invariant and action property of the passing runs is thus a theorem. Only
model-checked are the liveness properties (`AdjacencyForms`, `StoppedGivenUp`,
`NodeSettles`, `Answered`, `EveryRequestAnswered`, `Updated`,
`RegisteredInTheEnd`): fairness is `ENABLED`, which this prover cannot reach.

## 6. Plan

| | Modules | State |
|---|---|---|
| 1 | `Injection` | done; next: a ledger of atomic injections as abstract specification |
| 2 | `LanDiscovery` | done |
| 3 | `Aggregation`, `Orchestration`, `Council` | done |
| 4 | `VirSandbox` | done |
| 5 | `ShardNetwork`, `StorageProof`, `Downloads` | done, but for streaming, latency and attestations |
| 6 | `Cluster`, `Instances` | done, but for health and networks |
| 7 | `Plugins` | done, but for events, agents and `validate`, which nothing calls |
| 8 | `Updater` | done, but for rebuilding the image |
| 9 | `LibrarianStore`, `Whirlpool` | done; federation and admission are not implemented in the code |
| 10 | `Analysis`, `Keyring` | done |
| 11 | router operators against reference definitions on bounded graphs | open: floating-point vectors, and the server does not use them |
| 12 | theorems of `Plugins`, `ShardNetwork` and the components of `Services` | done |
| 13 | theorems of `Aggregation` (`ViewsOwned`, `MeanLinkage`) | done |
| 14 | theorems on what injections leave (`NothingInForceAsShipped`, `SmokeFailureUndone`) | done |

## 7. Not modelled

* Agents: one HTTP call each, external; they answer, fail or raise in
  `Orchestration`.
* Librarian federation, router admission, the whirlpool's vortex and types:
  interfaces whose bodies raise `NotImplementedError`, and records.
* Context router: pure functions of floating-point vectors and a benchmark over
  them, which the server does not use.
* Shard selection wizard: a dialogue over what other parts return.
* Transport security (TLS pins), dependency resolver (pip at start-up), front
  ends (CLI, TUI, web), web server, dashboard and packaging: input, output,
  wrappers of libraries, presentation.

What is left out within a modelled component is in its section and in the notes
of `PROJECT.json`.
