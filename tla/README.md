# gosh.startrek memory server: TLA+ models, checks and proofs

The repository is a long-term memory server for language-model agents. A
process (`src/src/mcp_server.py`) serves MCP tools over one `MemoryServer`
object per *memory key* (`src/src/memory.py`); each key is persisted in one
SQLite file (`src/src/storage.py`) that several processes may open at once.
Writing to a memory means: put the message in a durable log, extract facts from
it with language models, keep the raw text and the facts, rebuild the embedding
index. All of it happens in coroutines that are suspended on model calls, in
processes that may die, on a store other processes write too.

Contents: 1 inventory · 2 plan · 3 the modules · 4 the runs · 5 bounds and
fairness · 6 proofs · 7 what the models show about the code · 8 not modelled.

## 1. Inventory

Paths below omit the leading `src/` of `src/src/...`.

### Ingress queue (write log) — `src/memory.py`, `src/storage.py`, `src/mcp_server.py`
*State.* Table `write_log` (one row per message: `extraction_state` pending /
in_progress / complete / failed, `extraction_attempts`, lease owner and expiry);
tables `raw_sessions` and facts; in each process `_raw_sessions`,
`_all_granular`, the exact-dedup index, and `_active_sync_message_ids`.
*Operations.* `append_write_log`, `claim_write_log_entries`,
`mark_write_state`, `persist_projection_delta`, `save_facts` (with
`_sync_write_log_from_snapshot` and `_prune_write_log_from_snapshot`);
`process_write_log_once`; the polling loop `_run_write_log_workers`.
*Interactions.* `memory_write` appends a row and returns a receipt;
`memory_write_status` reads it; a worker in every process claims rows under a
lease and runs `store()` on them; clients run `store()` themselves.
*Hard.* Two processes claim from one table; marks compare no lease owner;
a crash between claim and mark; snapshots of a process rewrite and prune rows
it knows nothing of; cancellation, time-outs, failed transactions.
*Correct when* no accepted message is lost or stranded; a message is worked on
once at a time; a complete row has content behind it; each message is settled.

### Client contract of the queue — `src/mcp_server.py`
`memory_write` / `memory_write_status`: a receipt is owed until done or given up.

### Sessions — `src/memory.py:14000-14900`, `src/storage.py:4229-4488`
*State.* `_raw_sessions`, `_all_granular`, the version index `_dedup_index`, the
tables `raw_sessions` (one row per session number) and `facts` (one row per id).
*Operations.* `store()` with exact dedup, canonicalization, extraction with a
retry, upsert by key and versions; persistence of the difference, or of all.
*Hard.* Decisions taken before an `await` and used after it; versions of a session
that reuse ids; two ways to write the same tables; restarts.
*Correct when* one version of a session is current, a key has one session, and
what is active in memory is what a restart will find.

### Artifact lifecycle — `src/memory.py:22200-22500`
`edit`, `retract`, `purge`, `redact`, `get_versions`: change or hide facts and
raw sessions of an artifact, then save everything. *Hard.* They run between the
steps of extractions and index builds. *Correct when* what was retracted or
redacted does not come back, and one version of an artifact is current.

### Index freshness and build lease — `src/memory.py:4769-4870, 17987-18335`, `src/storage.py:4781-5001`
*State.* `_tiers_dirty`, `_index_snapshot_version`, `_data_dict` in a process;
the dirty mark, debounce times and build lease in the key's store.
*Operations.* mark dirty, acquire, build (awaiting models and embeddings), release.
*Hard.* Writes during a build; two builders; lease expiry; backoff.
*Correct when* a build in the background is taken up again after every write
it missed, and what is served is not older than the index says it is.

### Authority store — `src/membership.py`, `src/storage.py:577-1196`
*State.* The tables `authority_meta`, `principals`, `principal_tokens`,
`swarms` and `swarm_memberships` of one SQLite file, shared by the processes of
a data directory. *Operations.* bootstrap; create and disable a principal; issue
and revoke a token; create a swarm; grant and revoke a membership; and every
read of the memberships, which ends the rows that have expired.
*Hard.* Each tool reads, decides and writes in separate transactions.
*Correct when* a store has one root, no write refers to a row that is not
there, and a late write ends only what its call has seen.

### Courier — `src/courier.py`, `src/mcp_server.py:2229-2311, 3316-3355`
*State.* Subscriptions and a watermark per key, the tables of connections and
of routes from subscriptions to them. *Operations.* subscribe, unsubscribe,
connect, disconnect, poll. *Hard.* The watermark is the newest time stamp seen,
while facts are stamped before they are saved; tokens, memberships and
connections change between a subscription and its pushes. *Correct when* a fact
is pushed once, is not passed over, and nothing is pushed into a closed connection.

### MAL (self-tuning) — `src/mal/*.py`
*State.* One JSON file per feedback event, artifact and run, `control.json`,
`convergence.json`, directories of generations and a pointer to the live one,
and a lock in memory. *Operations.* configure, feedback, trigger, rollback.
*Hard.* A run writes a dozen files, any of which may be the last. *Correct when*
the pointer names a complete configuration and no feedback counts twice.

### Recall continuations — `src/memory.py:13208-13678`, `src/mcp_server.py:1157-1256`
*State.* A table of handles, each with pages and the identity it was made for.
*Operations.* a recall leaves a handle, `get_more_context` turns its pages.
*Hard.* Expiry, restarts, lost replies, changing memberships.
*Correct when* the pages are the candidates in order, read by their caller only.

### Document ingest — `src/memory.py:7723-7967, 15702-16337`
*State.* `_episode_corpus`, `raw_source_parts`, `_raw_sessions`, facts, the
version of each part, `_active_sync_message_ids`, and their tables.
*Operations.* `memory_ingest_document`, `memory_write` and the queue worker;
reserve, extract, aggregate, commit, roll back. *Hard.* Parts of a document are
ingested together; a failure undoes a reservation the others may have built on.
*Correct when* ids are distinct, a committed part stays, and the tables are
what the process has in memory.

### Migrations — `src/storage.py:2023-2346, 5004-5249`
*State.* The legacy JSON and NPZ files of a key, its SQLite store and its schema.
*Operations.* `memory_migrate_jsonnpz`; the change of the schema when a store is
opened. *Hard.* Several transactions and renamings, any of which may be the last.
*Correct when* what is reported as migrated is in the store, and whatever
stopped an import, the next one finds what it needs.

### Registry, ACL, configuration — `src/mcp_server.py`, `src/memory.py`
One `MemoryServer` per key, filled on demand; per-fact access checks.

### The rest
Secrets, ingest of code bases, extraction prompts,
retrieval and ranking, temporal rules, the container graph, inference, CLI and
configuration: see section 8.

PROJECT.json lists the same components with their files, and the hazards of
the code line by line with the properties that guard them.

## 2. Plan

1. `WriteLog`, `IngressContract`, `WriteLogProofs` — done: the queue is where
   processes, crashes and model calls meet, and everything stored passes it.
2. `IndexLifecycle` — modelled, checked and proved: dirty flags, snapshot
   versions, lease, builds and the writes that overtake them. Left:
   `reextract`, `edit`, `run_index_scheduler_once`.
3. `Authority`, `Courier`, `MAL`, `Continuations` — modelled, checked and proved,
   each on its own: they share no state.
4. `DocumentIngest` — modelled, checked and proved for documents in parts.
5. `Sessions`, `Migrations` — modelled, checked and proved: versions, upsert by key and
   the lifecycle operations over both ways of writing the tables; the import of
   legacy files and the change of the schema. Left: ingest of code bases.
6. Proofs: section 6. Left to TLC is liveness.

## 3. The modules

### WriteLog
The write log of one key, the processes (`Servers`) that share it, their
workers and the `store()` calls of their clients.

| variable | code |
|---|---|
| `row[m]` | the row of `write_log`: state, attempts, lease none / live / expired |
| `durable[m]` | what SQLite holds of the message: its `raw_sessions` row and facts |
| `mem[s][m]` | the same in `_raw_sessions` and `_all_granular` of process `s` |
| `jobs[s]` | coroutines of `_store_impl_write_through` suspended in `s`, with what they wait for |
| `batch[s]` | entries the worker of `s` claimed and has not marked, with the attempts it read |
| `verdict[s]` | the result the worker of `s` got from `store()` and is about to write |

| action | code |
|---|---|
| `Write` | `memory_write` → `append_write_log` |
| `StoreBegin` | `store()` up to its first `await`, with the duplicate check |
| `Canonicalized` | the canonicalizer returned: `append_write_log`, the message is noted in `_active_sync_message_ids` |
| `CanonicalizationFails` | the text is not semantically ready: raw session kept, row completed |
| `Commit` | facts, or none after the retry: projections and row in one transaction |
| `CliTimeout` | `LocalCliTimeoutError`: raw session kept, row left |
| `JobRaises`, `PersistFails` | an exception before, or in, the transaction |
| `Claim` | `claim_write_log_entries` |
| `SkipActive`, `AlreadyStored`, `StartExtraction`, `MarkResult` | the body of the loop of `process_write_log_once` |
| `Snapshot` | `save_facts` of a whole process, by index builds and the like |
| `Retract`, `Purge` | lifecycle calls, which save a snapshot |
| `Reload`, `Restart`, `LeaseExpires` | the admin reload, a death, the clock |

*Granularity.* A process is one asyncio loop, so code between two awaits is one
step. No `async with self._file_lock` body contains an `await`, so that lock is
never contended and adds no step. Two transactions of one callback are two
actions, since other processes and crashes fall between them; `LoopFree` keeps
the other tasks of the process out meanwhile.

*Abstractions.* A message stands for its row, raw session and facts; of its
text only what exact dedup compares is kept (`Content`). Messages have distinct
turn numbers and none is a version of another. Time is the expiry of a lease;
a failed row's backoff is not waited for (it is never reached, section 7).
Which eligible rows a claim takes and the order within a batch are left open,
a superset of the order of the code.

`Environment` chooses the events a run is exposed to; it stands in the guards
of those actions and nowhere else, so that a property can be checked with
exactly the events it survives.

Operators marked *Slip* are not part of the specification: each is a plausible
mistake in the definition that follows it, used to confirm that the property
next to it in PROJECT.json can tell the mistake from the code.

### IndexLifecycle
The fact lists of each process on one key, the tiers derived from them, the
embedding index over both, and the dirty mark and build lease in the key's store.

| variable | code |
|---|---|
| `mem[s]` | `_all_granular`, `_all_cons` and `_all_cross` of process `s`: granular facts per artifact, asserted derived facts, aggregated facts |
| `tiersDirty[s]` | `_tiers_dirty` |
| `index[s]` | `_data_dict`: the facts it is of and the texts its vectors are of |
| `prints[s]` | `_emb_fingerprints` |
| `build[c]` | one call of `build_index`: where it is suspended, its attempt, `moved` (its `snapshot_version` is not the current one), the facts it collected, its snapshot and vectors, `leased` (its lease has not run out) |
| `disk` | facts, fingerprints and embeddings in SQLite |
| `status` | the row of `index_status` |

| action | code |
|---|---|
| `Store`, `IngestAsserted`, `Retract`, `Purge`, `Redact` | the parts of the client calls after their model calls |
| `RecallSchedules` | `_schedule_full_index_after_recall_if_needed` |
| `BuildRequested`, `Acquire`, `Skipped` | `memory_build_index`, the lease |
| `StartAggregation`, `Aggregated`, `UseTiers` | `_rebuild_tiers` around its awaits; the start of an attempt |
| `UseCache`, `StartEmbedding`, `Embedded` | saved vectors, or new ones around the await of the embedder |
| `Commit`, `Retry`, `AwaitRaises`, `Release`, `ReleaseFailed` | the ways an attempt ends |
| `LeaseExpires`, `BackoffEnds`, `Reload`, `Restart` | the clock, the admin reload, a death |

*Abstractions.* An artifact is one source with one granular fact and, if it was
asserted, one asserted derived fact; aggregation finds something in every
source; every fact is embedded. `_rebuild_tiers` awaits once per source and
`build_index` once per tier: one await each, since both work on lists they
collected before the first. Debounce times are left out: only
`run_index_scheduler_once` waits for them, and no code of the server calls it.

### Authority
The authority store and the processes on it. A tool is a chain of writes: its
first action makes the checks and puts the next write in `call[s]`, and each
`Write...` action is one transaction. `Bootstrap` is one step, because
`bootstrap_admin_once` holds the write lock throughout.

| variable | code |
|---|---|
| `seal` | `bootstrap_state` of `authority_meta` |
| `principals`, `tokens`, `swarms` | the tables; a token also has who issued it and whether it is over (revoked or expired) |
| `rows[w][p]`, `lastRow` | the active row of `swarm_memberships`; ids in order of insertion |
| `call[s]` | the write that the tool running in process `s` does next |

`CallLost` is a process that dies, or a transaction that raises, between two
writes. `TokenExpires` and `RowExpires` are the clock.

### Courier
One key, the facts that writers stamp and save, the callers' rights, and the
tables `subs` (`_subscriptions`), `routes` (`sub_to_conn`) and `conns`. `polled`
and `looked` are history variables. `Late` are facts that are stamped some time
before they are saved: those of an aggregation, and those of another process.

### MAL
One binding. `job` is what the process is doing, with the phase between two
files; `events`, `artifacts`, `gens`, `pointer`, `workspace`, `streak` and
`enabled` are the files, `lock` the lock in memory. A configuration is the set of
changes it contains, by kind (settings and leaves, the extraction model,
prompts), because the three are composed, copied and read differently.

### Continuations
`handles` is the table; `memberships` what each caller's token resolves to;
`reader` a history of what was received and of who made and read the handle, for
the properties: ranks stand for candidates, in the order the recall found them.

### DocumentIngest
A *run* is one call of `ingest_document` and, at the same time, the version it
makes. `run[r]` says what it is for, where it is suspended and, once it has
reserved, its episodes and the snapshot a rollback restores.

| variable | code |
|---|---|
| `doc[s]` | the episodes of a source in `_episode_corpus` |
| `text[s][p]` | `raw_source_parts`: whose text is stored |
| `sessions`, `facts`, `current` | `_raw_sessions`, `_all_granular`, the version of each part |
| `tables`, `log` | the tables of these, and the state in `write_log` |
| `active`, `worker` | `_active_sync_message_ids`; the run of the queue worker |

`Overlap` says which messages may be in flight together, `Faults` which
failures happen. They stand in guards only: the first separates what holds when
a client sends its parts one after the other from what holds when it does not.

### Sessions
The conversation sessions of one key in one process.

| variable | code |
|---|---|
| `raws`, `facts`, `current` | `_raw_sessions`, `_all_granular`, `_dedup_index` |
| `rows`, `saved` | the tables `raw_sessions` (by number) and `facts` (in `sort_order`) |
| `calls[c]` | a `store()` in flight: what it read when it was called, and what it waits for |
| `last` | the last version given; a bound of the model |

| action | code |
|---|---|
| `Store`, `Locked` | `store()` up to the canonicalizer: version, artifact, what it will replace, the lock of its key |
| `Unready`, `TimedOut`, `FoundNothing`, `Found` | the ways it ends, each with its transaction |
| `Edit`, `Retract`, `Purge`, `Redact` | the lifecycle calls, which write a snapshot |
| `Restart` | the lists read back, and the version index rebuilt from them |

The two ways of writing are modelled by what they do to ids: `FactRows` (of
`persist_projection_delta`) replaces the row of an id in place and renames an id
that occurs twice *in this call*; `Snapshot` makes the table equal to the list, ids
renamed by position, and is rolled back if two renamed ids meet.

`Uses` says which numbers clients store under which keys, or under none, and `Events`
what happens besides. One of these is "overlap": without it what is of one number comes
in turn, which the code does not enforce (`store()` locks a key, not a number). A restart
decides which version is the newest by timestamps, which are in the order of the versions
only without overlaps, so the two are not combined (`SessionAssumption`).

### Migrations
One key with legacy files, or with a store of the first schema. `files` and `db`
are what is on disk, `tmp` the store that is being made, `job` the import or the
opening that goes on, `server` what a process holds, `answer` what the tool has
reported. An import is `BeginImport`, `SaveFacts`, `SaveEmbeddings`, `Verify`, `Install`, `Rename`
(once per file), `Reply`, in this `Order`; the change of the schema is `NewTables` and
`Copy`, two steps because `executescript` commits the transaction begun before it.

### Composites
Four runs explore several parts at once: `MCQueues` (two settings of `WriteLog`),
`MCServices` (`Authority`, `Courier`, `DocumentIngest` with the parts in turn, and
`IndexLifecycle`), `MCPipelines` (two settings of `IndexLifecycle`, `DocumentIngest` with
parts that overlap, and `MAL`) and `MCLifecycle` (`Migrations`, `Sessions` and
`Continuations`). The parts have no state in common, so no behaviour is lost by
exploring each on its own: a variable `part` that never changes says which. A composite
EXTENDS the modules whose properties it checks, so that a run and a theorem name the
same definition. The properties of a module hold in different settings, which is why some
modules are in two composites, and why `MCSessions` is a further instance of `Sessions`:
there calls overlap, and texts cannot be canonicalized where there are no keys.

### IngressContract
What a client of `memory_write` may rely on: a status per message (unknown,
owed, done, given up) and the messages something is stored of. A message is
done only if a text equal to its own is held. Messages other clients store with
`store()` have no status and may be held. `IngressRefinement` maps `row` to
`status` and `durable` to `held`; `KeepsContract` says that every step of
`WriteLog` with one process is a step of the contract or a stutter.
`MCIngressContract` is its instance for TLC.

### The modules of proofs
`WriteLogProofs`, `IndexLifecycleProofs`, `DocumentIngestProofs`, `MALProofs`,
`MigrationsProofs`, `SessionsProofs`, `ServicesProofs` (the authority, the courier and the
continuations) and, for what they share, `InductionLemmas` (section 6).

## 4. The runs

| run | instance | shows |
|---|---|---|
| `queues` | 1 process, an asynchronous and a synchronous message of one text, 3 attempts, all events but purge and reload; 2 processes, 2 messages, 2 attempts, snapshots | types; no row is stranded, no snapshot drops an owed message, no process is twice in `store()` with a message, the worker is sequential, a message held active is not extracted again, and a complete row has content behind it (while no process dies) |
| `contract` | 1 process, 2 asynchronous messages of one text and a synchronous one of another, crash, purge, reload ... | the queue implements `IngressContract`; one copy of a text |
| `settles` | 2 processes, one may die, 2 asynchronous messages of one text, batches of one, extractions may raise | every accepted message is settled, and given up only when its attempts are used up |
| `lifecycle` | migrations: every set of legacy files, 8 lists of old numbers, deaths and exceptions; sessions: 3 numbers, 4 versions, 2 keys, each number under one of them, 2 calls, every event but unready texts and overlaps; 2 continuations, 2 readers, 2 pages of 2, up to 5 candidates | session numbers become a key; what is reported as migrated is stored, and what is not can be imported; the facts active in memory are those active on disk, and of one version; the pages of a continuation are read in order, by its caller |
| `overlapping` | sessions: 2 numbers, 3 versions, 2 calls that overlap, edits, retractions, purges, timeouts; with 1 key or none, and without keys but with unready texts | types and keys of the tables; a key has one session |
| `index_builds` | 1 process, 2 calls, 2 attempts, 1 artifact, every event but a build that outlasts its lease | every build ends, however often it is overtaken |
| `services` | the authority of 2 processes, 2 principals, 2 tokens, 1 swarm, 2 rows; a courier with 2 facts (one late, one shared), 2 subscriptions, 1 connection; documents as in `pipelines`, one message at a time, with failing extractions; an index: 1 process, 2 build calls of 2 attempts, 2 artifacts, failing model calls, retract, purge | a store has one root, and a late grant or revocation ends only a row it has seen; a courier pushes a fact once, passes none over, and routes to open connections only; a failed ingest takes its reservation back; an index called ready covers exactly the facts |
| `pipelines` | two indexes: 1 process, 2 build calls of one attempt, 2 artifacts, a crash, failing transactions and model calls, retract, purge; 2 processes with a build each, 1 artifact, leases that run out under a build, reloads, a crash; documents: 1 source, 2 parts, 3 ingests of up to 2 episodes, parts together, unready texts, failing aggregations, crashes; MAL: 2 events, 2 runs, 2 generations, 2 faults | the lease admits one build, and every fact in an index has the vector of its own text; ids are distinct, a committed part stays, the tables are what the process has, a message is in one call; the pointer names a complete configuration, no feedback counts twice |
| `v_*` | small instances | the disagreements of section 7 |

## 5. Bounds and fairness

Two messages are enough for a batch with a next entry and for a duplicate pair;
`contract` has three so that a duplicate, its original and an unrelated step of
the queue coexist. `BatchSize` 2 lets a batch be partly done when its lease runs
out; `settles` has batches of one, since liveness with larger ones is beyond the
time a run should take, and two workers still hold both rows at once.
`MaxAttempts` is 3 in the code; 2 is used where liveness or two processes make
the state space large, and it keeps a retry between a first and a last attempt.
`MaxCrashes` bounds the deaths of a run: one death can already fall between any
two transactions, and the store it leaves is a start state for everything that
follows. The counter of attempts saturates at the threshold, beyond which no
code reads it.

In `IndexLifecycle` two artifacts let a fact arrive, or another one leave with
equal counts, while a build is suspended. `build_index` makes 5 attempts;
`MaxTries` 2 has an attempt after which there is another and one after which
there is none, and 1, used where two processes or failing transactions make the
state space large, has the second kind only. Two calls are a build and one that
meets its lease. In `index_builds` one artifact is enough, since it can be
retracted, redacted and reloaded under a build as often as one likes.

In `Sessions` a third version is the one that meets a row the second has renamed
or left, and a fourth one that a restart or an edit came before; extractions of one and
two facts let a version have more, as many and fewer facts than the one before. Two keys
and three numbers are a session that is replaced under its own number, one that is
replaced under another, and one beside them. Two calls wait for a key or overlap.
Calls in flight are interchangeable (symmetry).

In `Migrations` the lists of old numbers have a number that is missing, one that
is taken, one that is the position of another session, and all three of them at once.

In `services` two processes are a call that is late and the one that overtook
it, and `MaxRows` 2 is a membership and the one that replaced it. One late fact
beside one that is not lets either be saved first. In `lifecycle` five candidates on two
pages of two are an exact fill, one page too few and one candidate too many. Model
values of `Principals` and `Tokens` are interchangeable (symmetry; the properties
are safety properties). In `pipelines` two faults are a run of MAL that dies and one
that dies on what the first has left; three ingests are a version, the next one of
the same part and another part beside them, or a message, its retry and another part.

*Fairness* (`FairSpec`). In `WriteLog`, `_run_write_log_workers` polls in a loop that catches
exceptions, so a worker with something to do does it: weak fairness of
`WorkerStep`. A call to a model returns or raises (providers have time-outs)
and asyncio resumes runnable tasks first in, first out: strong fairness of the
steps of a job, since `LoopFree` turns them off while the worker writes a
result. The clock runs: weak fairness of `LeaseExpires`. Nothing is assumed of
clients, snapshots, failures or restarts; an extraction may fail every time.

In `IndexLifecycle` only the steps of a running build are fair, strongly,
because other builds of the process turn them off while they are between two
transactions. Leases and backoffs need not end for a build to end.

`CHECK_DEADLOCK FALSE`: the system may come to rest with everything settled.

## 6. Proofs

Proofs are in modules of their own, one per component. A theorem holds for every
value of the constants that meets its assumptions. Where an assumption excludes
an event of `Environment`, `Events`, `Faults` or `Incidents`, the property fails with that event, alone
or together with another one, as section 7 says. Four assumptions are there for
the proof and TLC finds no violation without them on small instances: of
`CompletedIsBacked` the purges and, without disk errors, the reloads; of
`OneOfEachText` the disk errors; of `VectorsBelong` the slow builds. Each table
is followed by why its properties are not inductive and what the invariant adds.

*The queue* (`WriteLogProofs`). For every set of messages and processes, every
`MaxAttempts`, `BatchSize` of at least 1 and every `Environment` (`ConfigAssumption`):

| theorem | property |
|---|---|
| `TypeCorrect` | `TypeOK` |
| `NothingStranded` | `Reclaimable` |
| `OwedKept` | `OwedIsKept` |
| `OneCallPerMessage` | `OneExtractionPerServer` |
| `OneEntryAtATime` | `WorkerSequential` |
| `NothingExtractedTwice` | `StoredNotInFlight`, assuming no reloads |

`Reclaimable` and `OwedIsKept` follow from a classification of what a step can
do to one row (`RowChange`, lemma `RowSteps`). The other three need an
inductive invariant `IInv`: `OneExtractionPerServer` is not inductive, since
the worker consults `_active_sync_message_ids`, in which a client's call
appears only after it was canonicalized. Until then nothing else may mention
its message (`FreshUntilLogged`: no row, no copy in any memory, no batch, no
other call), and when the worker starts an entry no call or result of its own
may be outstanding (`WorkerSequential`). `JobFootprint`, `JobSteps` and
`FreshStep` say what a step can do to a call and to a message nobody knows.

`NothingExtractedTwice` assumes `"reload"` away because a reload replaces the
lists of a process under calls that run on: after a failed transaction the
property then no longer holds (section 7).

*What the queue reports* (`WriteLogProofs`):

| theorem | property | assuming |
|---|---|---|
| `CompletedIsBacked` | `CompleteIsBacked` | no purge, no reload |
| `GivenUpIsExhausted` | `FailedIsExhausted` | no purge; one process, or no snapshot and no retract |
| `OneOfEachText` | `SameContentOnce` | one process, of each text at most one message that is not queued, no disk error |
| `ContractKept` | `KeepsContract`: `WriteLog` implements `IngressContract` | one process, no disk error, no timeout of a local CLI |

`BackedInv` adds to the first that what is stored is in some memory and that a
good result of `store()` has a copy behind it. The second needs that the attempts a worker has read are attempts
its row has counted (`ChargeInv`), which a row that is deleted and appended again
breaks. With one process, memory and table agree on what is held (`InStep`), and a
worker starts only texts of which nothing is held (`NoneBefore`). The refinement
needs besides that nothing is stored of a queued message before its row is
complete and that its row is owed while a call works on it (`ContractInv`): a step of
the queue then maps to the step of the contract that its row and its copy take.

*The index* (`IndexLifecycleProofs`). For any finite set of artifacts, any calls
and attempts (`IndexAssumption`):

| theorem | property | assuming |
|---|---|---|
| `IndexTypeCorrect` | `TypeOK` | |
| `OneBuildAtATime` | `SingleFlight` | leases outlast builds, or a process makes one call at a time |
| `ReadyCoversTheFacts` | `ReadyIsCurrent` | one process; the only events are failing model calls, retractions, purges |
| `VectorsBelong` | `VectorsMatch` | one process; no redaction, reload or slow build |

`LeaseInv` says that the lease is with a build that runs and that the status row
names its process. `ReadyIsCurrent` is about the moment after a build, and a build decides
long before: `ReadyInv` adds that what a build has collected is what there is, or its
snapshot version is not the current one (`Follows`), and that an index that is
outdated is marked or is the business of a build that runs (`Owed`). `VectorsMatch` is
the hardest: saved vectors are accepted when their *number* is that of the facts.
`VectorInv` says why that suffices without redactions: between the lists vectors were
made of and those of now, facts were only added and purged (`ListsGrew`), and what was purged does not come back,
so equal numbers mean equal facts, or lists that no build will collect again
(`CountsTell`; lemmas `SameOrLost`, `GrownStaysLost`).

*Document ingest* (`DocumentIngestProofs`). For any sources, parts, runs and
bound of episodes:

| theorem | property | assuming |
|---|---|---|
| `DocTypeCorrect` | `DocTypeOK` | |
| `OneCallPerMessage` | `OneRunPerMessage` | |
| `IdsNeverClash` | `EpisodeIdsDiffer` | `PartsApart`: messages in turn, or parts together and no failing extraction |
| `CommittedPartsStay` | `CommittedStays` | `PartsApart` |
| `RestartLosesNothing` | `RowsOfEveryCommit` | `PartsApart`, and messages in flight together are of one source |
| `ReservationsTakenBack` | `ReservedOrStored` | messages in turn, no failing aggregation |

A run captures the document when it reserves and writes it, or restores it, two
awaits later. `CorpusInv` therefore says what the corpus, the facts, the texts and
the versions say of every part, in the process and on disk, and what a run in
flight has captured relative to them; `SessionsInv` that the number a run will
give its session is nobody else's; `StoredInv` that what a failed run goes back to
has been stored.

*MAL* (`MALProofs`). For any events, with limits that are numbers:

| theorem | property |
|---|---|
| `MALTypeCorrect` | `MALTypeOK` |
| `EvidenceUsedOnce` | `UsedOnce` |
| `PointerStaysLive` | `PointerIsLive` |

A run writes a dozen files, so each needs what the files say in between: the
events a job holds are reserved by it and serve no applied change (`EventsInv`), the
artifact it applies is the last one (`JobInv`), and what is staged and promoted is the
configuration of the job, which was decided on (`FilesInv`).

*Recall continuations* (`ServicesProofs`). For any handles, readers and groups,
and pages of any size and number:

| theorem | property |
|---|---|
| `HandleTypeCorrect` | `ContinuationTypeOK` |
| `ReadsInOrder` | `ReadInOrder` |
| `ReadsAreTheCallers` | `ReadByItsCaller` |

`HandleInv`: while a reader reads straight on, it holds exactly the candidates before
the page its handle gives out next. What a page adds to them is lemma `ChunkIs`.

*The authority store* (`ServicesProofs`). For every set of principals, tokens,
swarms and processes, any roles granted and any `MaxRows` (`AuthAssumption`):

| theorem | property |
|---|---|
| `AuthTypeCorrect` | `AuthTypeOK` |
| `RootIsOne` | `OneRoot` |
| `LateWritesEndNothing` | `OnlySeenRowsEnd` |

`AuthTypeOK` is not inductive: a write trusts what its call has checked, so `AuthInv`
adds `CallsRefer` (the principal, swarm and row of a call in flight are there: no
table ever loses a row). `OneRoot` needs in addition that the token of a root
is one of the admin tokens a bootstrap looks for (`RootIsAdmin`); `OnlySeenRowsEnd` needs
only that ids of rows are never given twice, which the types say.

*The courier* (`ServicesProofs`). For any facts, subscriptions and connections:

| theorem | property |
|---|---|
| `CourierTypeCorrect` | `CourierTypeOK`, for finitely many facts |
| `NothingSlipsBy` | `NothingSkipped` |
| `ClosingLeavesNothing` | `Routed` |
| `PushedAtMostOnce` | `PolledOnce` |

`NothingSkipped` and `PolledOnce` rest on `Stamps`: no stamp, and no watermark, is later than
the newest. `PolledOnce` needs `Pushed`, which says that a fact pushed to a
subscription that still receives is one that was saved, at or below its
watermark: a step that makes a receiver or moves the watermark back must
therefore start with a subscription nothing was pushed to (`PushedKept`). The types
bound the stamps by the number of facts, because the clock moves once for each (`Counted`).

*Migrations* (`MigrationsProofs`). For any old stores:

| theorem | property | assuming |
|---|---|---|
| `MigrationTypeCorrect` | `MigrationTypeOK` | |
| `ReportedIsStored` | `MigratedIsStored` | no process opens a key before its import |
| `ImportedOrImportable` | `Importable` | the same |

`MigrationInv` says what the store in the making holds before each step of an import,
that the main file is put aside first and behind all of them, and that a process has
in memory what it found, so that its snapshots take nothing back.

`MigrationTypeOK` says that the numbers `Renumbered` gives are distinct, whatever
list it is given: a property of a recursive function, proved by induction over the
positions (lemma `RenumberedIs`).

*Sessions* (`SessionsProofs`). For any numbers, calls, versions and sizes:

| theorem | property | assuming |
|---|---|---|
| `SessionTypeCorrect` | `SessionTypeOK` | |
| `KeysAreReplaced` | `OnePerKey` | no unready text; no restart, or no purge |
| `OneVersionIsActive` | `OneActive` | no restart, no overlap |
| `ActiveStaysStored` | `ActiveIsKept` | no keys (`PlainAssumption`), no restart, no overlap |
| `KeyedIsSaved` | `ActiveIsSaved` | each number under one key (`ApartAssumption`), no unready text, no overlap |
| `KeyedIsOneVersion` | `OneActive` and `OnePerKey` | the same |

The lists and tables are computed by filters and folds, so the module first proves what
these return, by induction over the positions: a sublist has the members it was asked
for, each once (`SublistIs`); ids are made distinct, and rows written one by one have the
last fact of each id and no other id twice (`DistinctBy`, `FactRowsBy`).

`KeyInv` adds to the types that each row belongs to a session in memory, or a restart could
bring a replaced one back. `OneActive` needs that a call in flight replaces the version that
is current (`CallsInv`), which is what an overlap breaks. `ActiveIsKept` rests on `KeptInv`: each
active fact has a row of its version that no renaming and no other version takes, because
ids tell number, position and edits apart (`IdInv`) and later calls bring later versions
(`FreshInv`). Where each number has one key, all ids are distinct: a session is replaced
with all its facts, edited ones too, before its number is used again. `ApartInv` says so
as an equality, that the table *is* the list, which a restart then reads back.
The two assume that 0 is no number, because the model marks with it the ids
an edit makes; the code makes them of a prefix.

*Induction* (`InductionLemmas`). The induction theorems of the library take the property to
prove as an operator, which the provers cannot instantiate. Here it is a set of numbers
(`SetInduction`), and the base is that the order of the naturals is well-founded. From it
follow the maximum of a bounded set and what the recursive functions above compute.

Only model-checked is liveness under fairness, which is out of the prover's reach:
`Settles` and `BuildsEnd`. What the runs check besides is proved. Only proved, and in no run, are
`AuthTypeOK`, `TypeOK` of the index and `ActiveIsKept`; the other properties of these modules
say more about a small instance.

## 7. What the models show about the code

Four disagreements with what the repository says are runs (PROJECT.json, findings):

* `v_purged`: a purge while a build aggregates is undone when the build installs
  the lists it collected before.
* `v_parts`: when parts of a document are ingested together and one fails, its
  rollback restores the document as it was when that part began, and the ids
  another part has reserved are given away again.
* `v_versions`: a session is stored three times, with two facts, one and one. The
  second call writes the superseded facts of the first next to its own under ids
  that collide, so one row is renamed by its position in this call; the third does
  not know that row. After a restart superseded facts are active again.
* `v_applied`: a change of an extraction prompt is evaluated, accepted and applied,
  and nothing reads it: the applied prompts go to files, the server looks in
  `active_config.json`.

The modules state further properties that do not hold. TLC refutes each in
seconds on an instance like those of the `v_*` runs, with the events named:

| property | module, events | what happens |
|---|---|---|
| `RetractionIsFinal` | `WriteLog`, `retract`, with a synchronous message | an entry claimed before its message was retracted is extracted again and is active afterwards |
| `SingleExtraction` | `WriteLog`, none, 2 processes | a `store()` leaves its row pending and unclaimed, so a worker of another process extracts the message at the same time |
| `SameContentOnce` | `WriteLog`, none, 2 synchronous messages | two concurrent `store()` calls of one text are both stored |
| `BuiltIsAggregated` | `IndexLifecycle`, none | `ingest_asserted_facts` clears the flag an earlier `store()` set, so its source is not aggregated |
| `AssertedIsKept` | `IndexLifecycle`, none | facts asserted while a build aggregates are dropped when the build installs its lists; `tests/test_ingest_asserted.py:583`: "Derived-tier rebuild must preserve authoritative asserted derived tiers." |
| `DerivedSurvivesRestart` | `IndexLifecycle`, `crash` | aggregated facts are saved and rejected when they are loaded: they carry no version and their source does; `memory.py:4581`: "Keep asserted derived tiers and source-aggregation cross facts." |
| `TimedOutStaysOwed` | `WriteLog`, `cli_timeout`, `snapshot`, a synchronous message | a `store()` whose local CLI timed out leaves its row pending for a retry; the next snapshot completes it, and the retry never comes; `CHANGELOG.md:80-81` |
| `AllTiersDelivered` | `Courier`, a late fact | a fact stamped before a poll and saved after it is below the watermark |
| `UnlockedAtTheEnd` | `MAL`, `io_error` or a named event that is not queued | a trigger that raises in `reserve`, `consume` or `record_outcome` keeps the lock until the process ends |
| `OnePerKey` | `Sessions`, `unready` | a keyed call whose text cannot be canonicalized replaces nothing, and the key has two sessions; `mcp_server.py:729`: "upsert_by_key: if set, replaces existing session with same key" |
| `OneActive` | `Sessions`, `overlap` | two calls for one number in flight together have read the same version to replace, and both leave theirs active |
| `MigratedIsStored` | `Migrations`, `early` | a process that opens a key before its import and stores something makes the import answer "already_migrated, verified": nothing of the legacy files was read |
| `CanBeOpened` | `Migrations`, `raise` or `crash` | a change of the schema that stops after `executescript` leaves the `_new` tables, which the next opening fails to make; the key cannot be opened again |
| `NumbersStay` | `Migrations`, none | old numbers 1, 1, 2 become 1, 2, 3: a session loses its own number to one that had a taken number |
| `OutdatedIsOwed` | `IndexLifecycle`, `crash` | the build that ends `ingest_asserted_facts` is skipped for the lease of a dead process: the index is outdated and nothing is marked |

Limits of the properties that hold, found while choosing the instances:

* `FailedIsExhausted` fails with purges or with snapshots of two processes: a
  row that is pruned and appended again under a worker is marked failed by the
  attempts of the old entry.
* `StoredNotInFlight` fails with reloads and disk errors together, and with two
  processes.
* `CompleteIsBacked` fails with disk errors and a crash (memory had what the
  rolled-back transaction lost), and with purges and two processes.
* The row of a duplicate is complete and the duplicate holds nothing of its
  own, so the next snapshot prunes it and its status becomes unknown:
  `IngressContract.Forget` states that.
* `EpisodeIdsDiffer` needs that extractions succeed or that parts come in turn
  (`v_parts`), and `ReservedOrStored` that aggregations succeed and parts come
  in turn. With two sources in flight together two runs take one session number,
  the primary key of `raw_sessions` (`_next_document_session_num` looks at one
  source), and `RowsOfEveryCommit` fails.
* A rollback of MAL keeps the prompts of the live generation
  (`build_workspace_for_rollback`, which would not, has no caller); a change after
  it builds on the latest artifact, not on what is live; a change of the model is
  dropped by the next change (`_compute_materialized_state` does not take it over).
* `VectorsMatch` fails with redactions (a build suspended on the embedder
  commits the vectors of the redacted text: `redact` does not change the
  snapshot version), with reloads, disk errors and a crash together, and with
  two processes (one takes the saved vectors of the other).
* `OneActive` needs that calls have keys or that the process is not restarted
  (`v_versions`). `ActiveIsSaved` fails when two keys share a number (the delete of a
  replaced session takes a row of another version with the same id), and
  `ActiveIsKept`, the half of it that calls without keys keep, after a restart from five
  versions on.
* `OnePerKey` fails when purges meet restarts and a number is stored with and without a
  key: the snapshot of a purge may be refused (next item), the row of the purged session
  stays, and a restart brings it back beside the one that took its key meanwhile.
* A snapshot is refused when an id renamed by position meets one renamed so before.
* `MigratedIsStored` and `Importable` are about facts and corpus. An import into a store
  that was opened before and that dies after its first transaction leaves the vectors
  unimported, and the next call says that all is verified; they are made again by a build.
* `SingleFlight` fails for two calls of one process whose leases run out, which
  share a worker id: the late release of the first ends the lease of the second.
* `ReadyIsCurrent` fails with redactions, reloads, restarts, disk errors or slow
  builds (the first three change the facts and mark nothing), and with two processes: the release of one clears the mark the other made before its build.
* Skipping an entry in flight keeps the attempt the claim charged.
* The branch of the claim that retries failed rows after a backoff is never
  taken: a failed row has used up its attempts (`FailedIsExhausted`).

## 8. Not modelled

Components planned for later modules are listed in section 2. Left out for
good: language-model prompting and text post-processing, ranking and
retrieval, temporal rules, provider clients, importers, CLI, TLS and
configuration (input, output or pure functions over text and floating-point
numbers, no shared state); secrets; the container graph (rebuilt from the corpus
on each change). The JSON and NPZ storages have no log and no second process; of
their formats only what an import reads is modelled. Within `store()`: librarian and
temporal projections, and the path without SQLite. Most lines of the repository are
of these kinds (prompts, parsing, ranking, planning of answers), which is why the map
covers a small share of them and most of the code that changes shared state.
