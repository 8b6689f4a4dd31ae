# A TLA+ model of rabbitmq-mcp

rabbitmq-mcp is an MCP server that lets a language model find and call the
operations of the RabbitMQ Management HTTP API. This directory holds TLA+
modules that model the parts of it whose behaviour is hard to test, the TLC
configurations that check them on small instances, and proofs, checked by
TLAPS, that the most important results hold for every size of instance.

Paths below are relative to the repository's `src/` unless they say otherwise.

## 1. Inventory

### The parts of the system

| Part | Source | State it keeps | Operations |
|---|---|---|---|
| Circuit breaker | `core/circuit_breaker.rs` | `state`, `failure_count`, `opened_at` behind a lock | `execute`, `on_success`, `on_failure` |
| Rate limiter | `core/rate_limiter.rs` | the instants granted, behind a lock | `acquire` |
| API client | `services/api_client.rs` | one breaker, one limiter, the configuration | `execute`, `dispatch` |
| `call` tool | `tools/call_tool.rs`, `core/mcp_server.rs` | none of its own; takes the shared auth mutex | `call`, `call_operation`, `run_tool` |
| HTTP gate | `http/server.rs`, `http/auth_extractor.rs`, `http/localhost_detector.rs` | none | `auth_gate`, `extract_request_credentials`, `/healthz`, `/metrics` |
| Auth manager | `auth/auth_manager.rs`, `auth/strategies/basic.rs` | `cached_credentials` | `credentials`, `apply_auth_headers`, `login` |
| Credential storage | `core/credential_storage.rs` | the OS keychain's entry, the encrypted fallback file | `save_`, `load_`, `delete_credential` |
| Endpoint store | `data/store.rs` | the extracted file, the paths and connections cached per process | `resolve_store_path`, `cached_store_connection`, queries |
| Populate embeddings | `bin/populate_embeddings.rs` | the raw and the compressed store file | `ensure_raw_db`, `populate_one`, `recompress_and_remove_raw` |
| Shutdown handler | `core/shutdown_handler.rs`, `main.rs` | the registered cleanups | `on_shutdown`, `shutdown`, `install_shutdown_handlers` |
| Health checks | `core/health_check_manager.rs`, `core/component_registry.rs` | each component's status | `register`, `run_once`, `start`, `overall_status` |
| Configuration | `core/config_manager.rs`, `core/config_schema.rs` | none | `load_config` |
| Setup wizard | `cli/setup_wizard.rs` | none; writes credentials and settings | `run_setup_wizard`, `persist_selection_at` |
| Query cache | `core/cache_manager.rs` | entries with an expiry (no code uses it) | `get`, `set`, `clear` |
| Schema validation | `validation/validator.rs` | compiled schemas, memoised | `validate_input`, `validate_output` |
| Output | `core/logger.rs`, `core/otel.rs`, `core/sanitizer.rs`, `http/metrics.rs` | one counter map | logging, tracing, redaction, `/metrics` |
| Prompts, embeddings, command line | `prompts/`, `services/embedding_service.rs`, `cli/` | none | static texts, a language model, sequential commands |

### How they interact

A tool call comes in over stdio or over HTTP. Over HTTP `auth_gate` lets it
pass when it comes from localhost or brings a credential header. rmcp runs each
call as a task of its own. `call` looks the operation up in the endpoint store,
takes the mutex of the one `AuthManager` all sessions share, and holds it while
`call_operation` validates the arguments, makes a new `ApiClient` (with a new
breaker and a new limiter) and awaits its `execute`: limiter, URL, credential
header, breaker, then `dispatch`, which sends the request and sends it again
when the transport fails. The answer is validated, a mismatch only logged, and
reported. Beside the calls run the health-check loop, which writes the
component registry that `/healthz` reads, and the shutdown handler's task.
Other processes (the setup wizard, further servers, `populate_embeddings`) meet
the server in the keychain, the credentials file and the store files.

### What is hard about it, and what makes it correct

* **Circuit breaker.** The lock is free while the wrapped call runs, so results
  arrive in any order, also from calls admitted in an earlier state, or never.
  Correct is: state and count agree, the reset timeout counts from the last
  failure, nothing is admitted too soon, the open state is left.
* **Rate limiter.** It reads the clock before it takes the lock. Correct is: the
  limit holds per window, memory is bounded, nobody is refused without cause.
* **Call pipeline.** Concurrent calls share one mutex and one credential cache;
  requests are lost, late, or repeated. Correct is: no credential crosses from
  one call or from the operator to another call, every call ends, what is
  reported agrees with what happened at the API.
* **Credential storage.** A read-modify-write without a lock over two places of
  storage, one of which may come and go, by several processes that may crash.
* **Endpoint store.** Several processes, perhaps of several builds, extract,
  rename over and open one file, with retries made under a lock; several tasks
  of one process load it at the same time. Correct is: nobody opens a partial
  file, a process serves the store it embeds, all its callers share one copy.
* **Populate embeddings.** A crash between decompress, update, compress, remove,
  and a working copy git does not see. Correct is: one complete copy survives,
  nothing half done is folded back, and running it again mends what it can.
* **Shutdown and health checks.** A signal in the middle of the start, cleanups
  registered after it, checks that do not return, a status older than what it
  describes. Correct is: a signal ends the process after the cleanups it found,
  and `/healthz` agrees with a world that has been steady for a round and comes
  to follow a change that lasts.
* **Configuration.** Five layers merged key by key, each read on its own, while
  a wizard truncates and writes one of them, and operators write others by hand
  with as few keys as they like. Correct is: setting by setting the layer that
  ought to win does, and a command mixes two deployments only where a layer names
  half of one.

## 2. Plan

Written in the order of importance; each step composes or reuses the former.

1. `BreakerRules`, `CircuitBreaker` (done): the rules of one breaker, then any
   number of callers around them.
2. `RateLimiter` (done).
3. `CallPipeline` (done), over `BreakerRules`, with the abstract specification
   `CallContract` it implements.
4. `CredentialStorage` (done): keychain, file and the write-back of
   `credentials()` by several processes; a run for what the documentation says
   of the credentials setup saved.
5. `StoreExtraction` (done): the remembered path and the cached connection,
   rename with retries, by processes of several builds; it implements the abstract
   `StoreContract`.
6. `PopulateEmbeddings` (done): a crash at every step, the rerun after it, and
   releases checked out in between.
7. `Lifecycle` (done): start-up order, cleanups, signals and health checks.
8. `Configuration` (done): the cascade, read while setups write its files.

What is left is small: a composition of `StoreContract` with `CallPipeline`, where
a lookup is now one step. `core/cache_manager.rs` was planned and is left out: no
code of the program uses it.

## 3. Modules

| Module | Kind |
|---|---|
| `BreakerRules` | the breaker's transition rules as operators on one record; no variables |
| `CircuitBreaker` | concurrent callers of one breaker |
| `RateLimiter`, `MCRateLimiter` | concurrent callers of one limiter; its symmetry for TLC |
| `CallContract` | what a call promises, abstractly |
| `CallPipeline` | concurrent calls from the gate to the API |
| `CredentialStorage` | servers and setups around the keychain and the encrypted file |
| `StoreExtraction`, `MCStoreExtraction` | processes and their tasks around the extracted store file; which task of which process asks, for TLC |
| `StoreContract` | what `cached_store_connection` promises, abstractly |
| `PopulateEmbeddings` | the command's runs and their crashes on the store files |
| `Lifecycle`, `MCLifecycle` | one server process: start, signals, cleanups, health checks; its list of checks for TLC |
| `Configuration`, `MCConfiguration` | wizards that write and commands that read the configuration; what operators write by hand, for TLC |
| `CircuitBreakerProofs`, `RateLimiterProofs`, `CallPipelineProofs`, `CredentialStorageProofs`, `StoreExtractionProofs`, `PopulateEmbeddingsProofs`, `LifecycleProofs`, `ConfigurationProofs` | the theorems; what the first and the third need of `BreakerRules` is proved where it is needed |

### BreakerRules and CircuitBreaker (`core/circuit_breaker.rs`)

The two critical sections of `execute` are actions; the call in between is a
caller in `in_flight`. `Begin` and `Rejected` are the first section, with its
outcomes; `Succeed` and `Fail` are the second, `on_success` and `on_failure`;
`Dropped` is the future dropped at its await, after which neither ever runs.
`opened_at` is an `Instant` of which the code asks only whether `reset_timeout`
has elapsed since, so the model keeps its age, which `Tick` advances and which
stops at `ResetTimeout`. `failure_count` is a `u32` without a cap that is only ever
compared with the threshold, set to zero and incremented, so all its values from
the threshold on behave alike; `CountCap` stands for the large ones. It is a bound
of the model, not of the code. `stale`, `trials` and `fail_age` are history variables: no
guard reads them.

### RateLimiter (`core/rate_limiter.rs`)

`Arrive` is `Instant::now()`, `Grants` and `Exceeded` are the critical section
with its two outcomes; other callers and `Tick` may come in between. `granted`
records when each call was really granted, which the code does not know.
`MaxSkew` bounds how long a caller waits between clock and lock; the code has
no such bound, and `LimitPerUnskewedWindow` says what the limit is worth for
each value of it.

### CallPipeline and CallContract

`Arrive` and `Unauthorized` are `auth_gate` (and stdio, which has no gate);
`Lookup`, `NotFound` the endpoint lookup; `Lock` tokio's mutex, which is fair:
`queue` is its queue. `Invalid` is `validate_input`; `RefusedEarly` (`RateLimited` or
`BadUrl`) and `Execute` are `ApiClient::execute` up to the breaker; `BadMethod` is the
way out of `dispatch` before its loop (`Method::from_bytes`), which the breaker counts
as a failure though nothing was sent; `Send`, `Responded`, `StatusError` and
`TransportError` are one turn of the loop. `Finish`
is the end of `run_tool`, where the guard is dropped. `Receive` is the API,
which is external: it may act on a request any time after it was sent, also
after the client gave it up, or never.

Credentials are abstracted to whose they are: a call's own, or the operator's.
The catalogue, the arguments, URL and body are abstracted to whether they are
accepted. Where `credentials()` finds the operator's credential is abstracted to
its three outcomes: missing; found; or found and cached but not written back,
which fails this call and lets the next one succeed. The model has no clock: all
its calls fall within one window of the limiter and one reset timeout of the
breaker, the case in which both ought to act.

`CallContract` knows only phases and effects. The refinement maps `result` and
`pc` to a phase, and the requests received to effects.

### CredentialStorage (`core/credential_storage.rs`, `credentials()`, the setup wizard)

A server without a cached credential loads (`KeychainLoad`, or `KeychainMiss`
and then `FileLoad` or `FileMiss`), caches what it found and writes it back; a
setup only saves. A save is `KeychainSave`, or `KeychainRefuses` followed by
`FileTruncate` and `FileWrite`, the two halves of `fs::write`. Each is one access
to something shared, so every interleaving of the processes is there.
`FileFails` and `Crash` may end a save at each point. `Flap` is the keychain's
service starting or stopping.

A credential is named by the setup that made it. Its raw form (as the wizard
saves it) and its normalised form are not told apart, except that they differ in
length: what one writer leaves of another's longer text is no JSON (`Overlay`).
The file holds one account, the only one the program uses, so the map that
`save_to_file` reads and extends is that entry. A server whose environment
provides the credential never comes near the storage.

`newest` and `mishaps` are history variables; no guard reads them. A mishap is
marked where it happens: `flapped` (the keychain came or went), `raced` (a setup
reached the storage while another process had a credential in hand), `torn` (a
save ended after it had truncated the file). The properties say what holds
without them; the code excludes none of them, and the violated run shows what
`raced` alone leads to.

### StoreExtraction (`data/store.rs`, the store's check in `main.rs`)

`resolve_store_path` holds the lock of `EXTRACTED` from its lookup to its
insertion: `ResolveHit`, or `ResolveMiss`, `WriteTmp` (the two halves of
`fs::write` on the temporary file), and `Rename`, `RenameRetry` or
`RenameGivesUp`. `cached_in_memory_connection` holds the lock of `CACHE` twice:
`LookupHit` or `LookupMiss`, then, unlocked, `Open` (or `OpenFails`) and
`Backup`, then `Insert`. `Probe` is the health check that opens the file.
`Fails` is an error in the middle, `Restart` the end of a process wherever it is
and the start of another, perhaps rebuilt; `Clean` is the operating system
emptying its temporary directory.

A file's contents are named by the build that embeds them, or `"Partial"` while
they are written. A file that is open keeps its contents when another is renamed
over it. The code asks a failed rename for no reason, and neither does the model: a
rename may fail whatever the state, because another process has the file open (as on
Windows), because the temporary file is gone, or for any other reason. `Clean`
removes the store, temporary files, or both; a temporary file removed while it is
written stays gone, and every rename of it fails. `replaced`, a history variable, has the processes over whose file
a process of another build has renamed its own.

`StoreContract` knows only which connection each process has and who holds it: the
first answer settles it, and nothing changes it before a restart, which is how
`store.rs:200-201` puts it. The refinement maps the owner in the `CACHE` and the
copy it made to the connection. That a connection is not `None` is an assumption of
its own (`CopyAssumption`), which only this refinement needs.

`store.rs:55-58` says that a rebuilt binary "can never be shadowed by a stale
leftover". `OwnStoreUnlessReplaced` is what the code keeps of it: another build's
process that extracts after this one did and before this one has loaded its copy
does shadow it. A process whose file was cleaned away before it had loaded its
copy remembers the path and fails every call (`OpenFails`) until it is restarted,
or another process extracts again.

### PopulateEmbeddings (`bin/populate_embeddings.rs`)

`Start` is `main` with its targets, `RawExists`, `DecompressZst` and `WriteRaw`
are `ensure_raw_db`; `SelectRows`, then `DeleteRow` and `InsertRow` for each row,
`populate_one`, where each statement is a transaction of its own; `Check` is
`missing_operation_ids`; `CreateZst`, `WriteZst` and `RemoveRaw` are
`recompress_and_remove_raw`. `Crash` ends a run at any point, `EmbedFails` is the
embedding service's error. `Release` is a new store checked out, which replaces
the `.db.zst` file and does not touch the ignored `.db`.

A store is its release and the operations that have an embedding. Targets and
rows are taken in any order, where the code has a fixed one. `targets`,
`released` and `shadowed` are history variables.

Three things the model shows of the code, besides its properties.
`populate_embeddings.rs:35-38` leaves a raw file that exists untouched and takes
it for the working copy: one cut off by a crash makes every later run fail
(`Stuck`) until somebody removes it. The same rule makes a run overwrite a newer
release with the old working copy (`shadowed`). And line 231 folds a store back
before the mismatch found in it fails the run; `NothingIsMissing` proves that,
with one run at a time, there never is one.

### Lifecycle (`main.rs`, `core/shutdown_handler.rs`, `core/health_check_manager.rs`, `core/component_registry.rs`, `/healthz`)

`main` goes through `Stages` in the order of `run_harness_server`, and may fail
where it has a `?`. From `InstallHandlers` on the handler's task runs beside it:
until that task has installed its handler (`Listen`) a signal kills the process;
after that the first takes the cleanups registered by then (`Shutdown`), `Cleanup`
runs them one by one, and `ExitOnSignal` ends the process; further signals are
ignored. From `StartLoop` on the health loop runs too: `HealthTick`, one
`CheckReturns` or `CheckTimesOut` per check, `RunOnceEnds`. `Change` is the world
the checks ask: up, down, or silent.

The cleanup that aborts the loop takes effect where the loop yields. The store's
check never does: it opens a file within one poll, so it goes on after the abort
(`"finishing"`) until the loop meets something to wait for (`Yields`) or its round is
over (`RunOnceEnds`), and the timeout around it cannot cut it off (`Blocking`).
The program registers one check; the manager takes any list, and the run has a
second one after it that does yield, so that the rest of a round is there.
`QuietAfterTracing` therefore does not say that nothing logs after tracing has been
shut down: the rest of a round that the abort met in or after a blocking check may
(`health_check_manager.rs:59`), and neither `main` nor the HTTP server is stopped by
any cleanup. It says that nothing else of the loop does.

`steady`, a history variable, says that the world is as it was when the loop last
ticked: once the round it began is over, `/healthz` must agree with that world
(`HealthzIsTruthful`).

Cleanups are run after a signal only: not when the client of a stdio server goes
away (`Disconnect`), nor when the start fails (`StartupFails`).

### Configuration (`core/config_manager.rs`, `cli/setup_wizard.rs`, `main.rs`)

A layer is a function from the keys it has to values, and `Over` is
`Map::extend`. `Launch` is a command started in a directory and an environment,
with the variables `start` and `http` set themselves; `ReadLocal`, `ReadGlobal`
and `Resolve` (which reads the system's file) are the layers below it, each read
on its own. A wizard's `Answered` truncates the file it was told to write,
`Persist` writes it, `PersistFails` does not.

A command may be launched in the environment a wizard printed for the client of a
stdio server, in a `.env` file as docker compose reads it (the program itself never
reads one), or in one set by hand. `EnvOverrides` takes from it the variables
`env_overrides` knows; the user name and the password, which the wizard does write
into its `.env` (`setup_wizard.rs:178-185`) and prints, are not among them. What
operators write by hand, as an environment or as any of the three files, is the
parameter `ByHand`: any set of layers, each with any subset of the keys.
`MCConfiguration` gives it three: nothing; a url alone; and `.env.example`, which has
a url, an `auth_method` and no version.

So layers have gaps, and two things follow that the model shows of the code. A
command given only `RABBITMQ_MCP_URL` and nothing else is refused, since
`auth_method` has no default: `SetupTakesHold` says that a command is refused only
then, or without a url. And a command launched in a copy of `.env.example` next to
a `~/.rabbitmq-mcp/config.yml` that a setup wrote for another server, as
`README.md:152` has it, speaks to the first in the API version of the second;
`tests/cli_smoke.rs:10-18` isolates itself from this. `MixedOnlyByGaps` says that
this takes a layer which names a url or a version alone: a wizard writes both, and
neither a write that a launch reads half done nor any order of the layers makes a
mix. No run refutes a document here: `config_manager.rs:88-90` says that the layers
are merged, and nothing says that a version belongs to a url.

The url and the version a wizard was given are both named by the wizard, and those
written by hand by `Operator`, so a configuration that mixes two is seen. `savedLocal`,
`savedGlobal`, `expected`, `patchy` and `disturbed` are history variables: `expected`
and `patchy` are computed at the launch from what the wizards were told and meant to
save, not from the files they wrote.

Beside the model: the `cli` way prints a command line with flags that the command
line of `main.rs:45-88` does not have; that is about text, and no property is. A value
that is no member of its type (an `auth_method` or a transport nobody knows) fails
`load_config` and is left out.

## 4. Runs

| Run | Bounds | Shows |
|---|---|---|
| `circuit_breaker` | 3 callers, threshold 2, timeout 2 ticks, count up to 4 | the safety properties and that the open state is left |
| `circuit_breaker_trial` | 2 callers | *violated*: half-open lets more than one trial call through |
| `rate_limiter` | 3 callers, 2 calls per 3 ticks, skew 1, 6 ticks, 4 grants | the limit per unskewed window, bounded memory, no undue refusal |
| `rate_limiter_window` | the same | *violated*: more than `limit` calls within one window |
| `call_pipeline` | 3 calls, 1 retry, rate limits 0 and 1 | isolation of credentials, serialization, retries, the end of every call, the contract |
| `call_pipeline_breaker` | 3 calls, threshold 2, no retry | *violated*: consecutive failures stop nothing |
| `credential_storage` | 2 servers, 2 setups, 1 crash, keychain may come and go | what is stored and loaded is the newest credential unless a mishap happened; not all is lost by the keychain alone; every server is served |
| `credential_storage_setup` | the same, no crash, steady keychain | *violated*: a setup's credential is overwritten by a server's write-back |
| `store_extraction` | 2 processes with 2 and 1 tasks, 2 builds, 2 retries, 2 mishaps, renames fail at any time | complete copies, the own store, no rename over one's own open file, every call ends, the contract: one connection that stays |
| `populate_embeddings` | 2 stores of 2 operations, 1 release each, 2 mishaps | a complete copy survives, nothing half done or outdated is folded back, success is true, reruns recover |
| `lifecycle` | 2 checks, the first one blocking, 2 signals, 2 changes of the world | a clean exit after a signal, no round of checks after tracing, the signal ends the process, `/healthz` agrees with a steady world and follows a change |
| `configuration` | 2 wizards, 2 directories, 1 launch, 3 layers by hand | setting by setting the right layer takes hold, and two deployments are mixed only by a layer with a gap |

Why the bounds are enough. Breaker: two calls in flight across an opening while
a third arrives are what the interleavings need; a threshold above one lets a
success interrupt a streak; a timeout of two ticks lets a failure fall in its
middle. Limiter: one caller holds an old instant while two others prune and
refill; six ticks are two windows. Pipeline: one call works, one waits, one
arrives; one retry makes a first and a last try. Storage: an old and a new
credential, one server that writes back while another loads. Extraction: two tasks of
one process race for the copy while another process, of another build, renames;
two retries are a first and a last, two mishaps a cleaned directory and a restart.
Populate: one store done, one at hand; a rerun that is stopped again. Lifecycle: a
signal and one that is ignored; a world that fails and recovers. Configuration: one
setup that hides another in each place, a file by hand above and below it; a launch
that reads before, between and after. Wizards and directories are interchangeable
there, which TLC uses as a symmetry (1.1 million states in a minute, the largest run). The theorems remove all of these bounds for the safety properties.

`RateLimiter.cfg` and `RateLimiterWindow.cfg` do not check deadlock: the
bounded clock and the bounded number of grants end every behaviour. Nor does
`CredentialStorageSetup.cfg`: without crash or keychain changes every setup ends
and every server has its credential. Nor does `Configuration.cfg`: when each
wizard has ended and the command has its configuration, nothing is left to do.

The four violated runs state what the documentation says and the code does not
do; `PROJECT.json` quotes the lines under `findings`.

### Fairness

* `CircuitBreaker`: time passes; some caller comes again and again; a call in
  flight ends (by result, or by being dropped), since `dispatch` sends finitely
  many requests, each under a timeout. Without new callers an open breaker
  stays open: only a call can leave that state.
* `CallPipeline`: the runtime polls every task, so each call that can take a
  step eventually does; a try ends in its timeout at worst. Nothing is assumed
  of callers or of the API, and nothing of which call gets the mutex: its queue
  decides that.
* `CredentialStorage`: a server without a credential asks again with every call
  it serves, and goes on with a load or save it began; a setup that has truncated
  the file goes on to write it. Nothing makes a setup begin, or a process crash.
  `MaxCrashes` bounds the crashes: servers that crash and restart for ever could
  keep the file truncated whenever one of them looks.
* `StoreExtraction`: a call that has begun goes on, until it has a connection or an
  error. Nobody has to call, to restart, or to give up waiting: a task that waits
  for the lock is served when its holder is done, or not at all if another call
  always is, which costs nothing here, since its call has not begun.
* `PopulateEmbeddings`: a run goes on, and somebody runs the command again for all
  stores. Crashes are bounded by `MaxMishaps`, since a run that is always stopped
  ends nothing.
* `Lifecycle`: the runtime runs `main`, the handler and the loop, each of which
  can take at most one step at a time. No signal has to come and no client to
  leave. A cleanup returns: one awaits nothing, the other has the exporter's
  timeout. A check that blocks its thread is given no fairness: `HealthzFollows`
  leaves it out by name (`LoopOn`).
* `Configuration`: none. It has safety properties only.

## 5. Proofs

For every number of callers or calls, every threshold, timeout, limit, window
and number of retries; for every number of processes, tasks, builds, stores,
operations, wizards, launches and directories; for every list of health checks:

* `CircuitBreakerProofs`: all its safety invariants, and
  `NoCallSoonAfterFailure`. They are inductive together, not alone: that a
  half-open breaker follows a quiet timeout needs that an open one counts from
  the last failure, which needs that the count alone decides whether it is
  closed.
* `RateLimiterProofs`: type, memory, the limit, and that refusals are due. The
  inductive invariant says that an instant held is at most `MaxSkew` old
  (`SkewBounded`), that what has been pruned was granted at least a window less
  the skew ago (`PrunedIsOld`), and that grants are finite and numbered. Two
  theorems measure what `rate_limiter_window` finds. `LimitPerWindowUnskewed`: if
  nobody waits between clock and lock, the limit holds in every window, so the
  early reading is the only cause. `TwiceTheLimitAtMost`: if nobody waits longer
  than half a window, no window holds more than twice the limit, however many
  callers wait. Every span of `Window - MaxSkew` ticks holds at most the limit,
  by the inductive invariant, and two such spans cover a window.
* `CallPipelineProofs`: its safety invariants, and that it implements
  `CallContract`. The inductive invariant adds what ties a call's place to what
  it has sent: a refused call has sent nothing, tries are sent in order, every
  answer is to a request received, the client stops at the first answer it
  reads. `NoWaiterIsLost` and `CallsOnlyGetOn` are the safety half of
  `EveryCallEnds`: the queue of the mutex has exactly those that wait, each once,
  and while it has any, somebody who is not waiting holds the mutex; and each step
  of a call lowers a count of the steps left to it, which nobody's step raises.

* `CredentialStorageProofs`: its safety invariants and `LoadsNewest`. The
  inductive invariant is a discipline for each place of storage: while nothing
  is in the keychain, whoever has a credential in hand has the newest one and a
  setup that writes has the file for itself (`FileDiscipline`, which survives a
  keychain that comes and goes); once something is there, it is the newest and
  nobody is near the file (`KeychainDiscipline`, `Steady`).

* `StoreExtractionProofs`: all its safety invariants. The inductive one says that
  whoever extracts holds the lock (`lock` names the one task that is writing or
  renaming, and its temporary file is its own, complete once it renames unless
  somebody removed it), that a
  task can only be past the resolution, or have the file open, if its process
  remembers the path, and that the file and every copy are the process's own
  build unless it was replaced. Without the second part a rename could race a
  task of its own process. `LockIsNeverLeaked` and `CallsOnlyGetOn` are the safety
  half of `EveryCallEnds`: on no path, errors and restarts included, is the lock
  left behind, and each step of a call lowers a count of the steps left to it. The
  retries are counted once for all tasks of a process; that one task cannot reset
  another's count needs that the lock names the task that renames.
  `ImplementsContract` adds that only a served caller holds an answer, that a copy
  is of a file that was there, and that the copy in the `CACHE` is one nobody is
  still making (`CopyInv`, `OwnerIsDone`): a failed or repeated copy then maps to a
  stutter.
* `PopulateEmbeddingsProofs`: all its safety invariants. The inductive one follows
  the store at hand step by step: what its working copy must hold at each `pc`, how
  many rows are still without an embedding, and that the compressed file is cut off
  only while a complete working copy of it is being folded back. Three action
  properties follow. `RunsFailByMishap`: a run fails only by an embedding that
  cannot be had or a working copy a crash cut off, which is the safety half of
  `RerunsRecover` (it needs `AtHand`, that while a run works on a store its
  working copy is there). `EmbeddedStaysEmbedded`: what is folded back is wholly
  embedded. `OnlyTargetsAreTouched`: a run changes no other store's files.
* `LifecycleProofs`: all its safety invariants. Cleanups run in reverse order of
  registration, so the inductive invariant says of every moment after the signal
  that what has been run, followed by what is still to be run, is the reverse of
  what was registered when it came (`CleanupInv`). That the loop is quiet when
  tracing ends, but for the rest of a round that blocks, needs that its abort is
  registered after the tracer's shutdown, at every stage of the start a signal may
  interrupt (`AbortComesFirst`), that an abort is only ever registered once the loop
  has started, and that a loop which goes on after its abort is in a round with a
  blocking check behind it or at hand (`FinishesARound`). `HealthzIsTruthful`
  needs that a round which began over a steady world has reported, of each check
  it is done with, what is true of it, and that every check keeps the criticality
  it was registered with.
* `ConfigurationProofs`: all its safety invariants, for any `ByHand`. The inductive
  one says that the files are what they are meant to be (`SavedIsThere`), that an
  undisturbed launch is on track: what it has found, merged over the layers it has
  still to read, is what was expected at its start (`OnTrack`, which needs that
  merging is associative, `OverAssociative`), and that a launch without a gap has
  found none and will find none (`GapFree`, `OverMatched`): a wizard that writes
  meanwhile cannot make one, since both what it truncates the file to and what it
  then writes are layers without a gap.

The assumptions are those named in the modules (`BreakerAssumption`,
`LimiterAssumption`, `PipelineAssumption`, `StorageAssumption`, `StoreAssumption`,
`CopyAssumption`, `PopulateAssumption`, `LifecycleAssumption`, `ConfigurationAssumption`): the types of
the parameters, and that names of different things differ. Two theorems about the
limiter assume more, each in its statement: how long a caller may wait for the lock.

`ClosedIffUnderThreshold`, `OpenSinceLastFailure`, `HalfOpenAfterQuiet`,
`OperatorStaysHome` and `OneConnection` are parts of these inductive invariants. They are theorems of their own and no longer
checked by a run: the properties that follow from them are.

Only model-checked: the liveness properties (`OpenIsLeft`, `EveryCallEnds` of the
pipeline and of the extraction, `EveryServerIsServed`, `RerunsRecover`, `SignalEnds`,
`HealthzFollows`), since fairness is beyond the prover, though of three of them the
half that is about single steps is proved; and the four violated ones.

## 6. Not modelled

Listed with reasons in `PROJECT.json`. In short: what libraries do (SQLite,
jsonschema, reqwest, rmcp, the keychain) beyond how the code meets them; parts
without state or order of their own (prompts, logging, metrics, schemas, the
embedding model, the command line's printing); code the program does not use
(the query cache, `login`, `delete_credential`); and the development scripts.
Modelled with one instance where the code has several independent ones:
`api_version`s of the store, accounts of the storage. Not modelled are two runs of
`populate_embeddings` at the same time, and the interval of the health checks,
which the model replaces by the loop's next round. A task aborted in the
middle of a call is modelled for the breaker and not for the pipeline, where no
code aborts one.
