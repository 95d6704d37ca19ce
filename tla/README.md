# TLA+ models of PhantomDB's Python tooling

## The system

The Python side of the repository has two parts whose correctness depends on
the order in which concurrent actors take their steps.

- `PhantomDBConnectionPool` (`src/src/clients/pool.py`) is shared by threads.
- `MigrationManager` (`src/src/migration/migration_manager.py`), driven by the
  migration CLI (`src/src/migration/cli.py`), keeps its state in files:
  - the migration files;
  - `migration_history.json`.

  Several CLI processes can run at once over the same directory and database,
  and any of them can die between two writes.

The pool hands PhantomDB REST clients to threads, takes them back, evicts
idle ones, and can be closed. Its state is:

- a `queue.Queue` of slots (`_pool`);
- a set of client ids in use (`_used`);
- a non-reentrant `threading.Lock` (`_lock`);
- a `_closed` flag.

Three more parts are modelled because their control flow decides what a
caller sees, even though each runs on one thread:

- The REST client (`src/src/clients/phantomdb.py`). Each method is one HTTP
  request through `_make_request`, which returns the answer or raises
  `PhantomDBError`. The server is not in this repository. It is modelled as a
  catalogue of databases and tables that accepts or rejects each request.
- The testing framework (`src/src/testing/framework.py`). Test processes
  (pytest-xdist workers, or several CI jobs against one server) run tests
  that each create a database named after the millisecond clock, use it and
  drop it. There are two harnesses: `PhantomDBTestCase` with `run_test_case`,
  and the `phantomdb_test` decorator.
- The Django backend's cursor (`src/src/orm/django/base.py`). Its fetch
  methods walk a position through the result of the last `execute()`.

The rest is sequential code over a single REST client, with no state shared
between threads:

- the schema manager and the migration CLI's `schema` and `export` commands;
- the PhantomDB CLI and REPL;
- the query debugger;
- the SQLAlchemy adapter;
- the Flask web app and visualizer;
- observability wrappers;
- build scripts.

`spec.md` describes only the pool. The other models are built from the code,
its docstrings and its tests (`test_migration_manager.py`).

## Modules

| module | what it is |
|---|---|
| `ConnectionPool.tla` | The pool as a multi-threaded state machine, with its properties and the mutated actions used to test them. |
| `MCConnectionPool.tla` | Model values and definitions for TLC: two threads, symmetry. |
| `ConnectionPoolProofs.tla` | TLAPS proofs: type correctness, exclusive ownership and the capacity bound. |
| `MigrationManager.tla` | The migration manager and the `create`, `migrate` and `rollback` CLI commands, as concurrent processes that may crash, with the properties and the mutated actions. |
| `MCMigrationManager.tla` | Model values and the symmetry set for TLC: one or two processes. |
| `MigrationManagerProofs.tla` | TLAPS proofs: type correctness; the history never records more than the database underwent; and, for one process without crash, the status list agrees with the database. |
| `ResultIterator.tla` | The abstract specification of a DB-API cursor: each `execute()` replaces the result set, and fetches hand out its rows in order, each once. |
| `DjangoCursor.tla` | `PhantomDBCursor` and `create_cursor()`, shown to refine `ResultIterator`. |
| `MCDjangoCursor.tla` | The statement kinds for TLC. |
| `DjangoCursorProofs.tla` | TLAPS proofs: the cursor's type correctness, and its refinement of `ResultIterator` for SELECT-only callers. |
| `PhantomDBClient.tla` | The REST client's methods as operators over the server catalogue, with lost requests and replies. Used by `TestingFramework`. |
| `TestingFramework.tla` | Test processes running `PhantomDBTestCase` tests and `phantomdb_test`-decorated tests against one server. EXTENDS `PhantomDBClient`. |
| `MCTestingFramework.tla` | Model values, sets and symmetry for TLC: one or two processes. |
| `TestingFrameworkProofs.tla` | TLAPS proofs: type correctness under both harnesses; decorated tests are isolated and drop only their own databases. |

### How `ConnectionPool` corresponds to `pool.py`

**Variables.**

| variable | models |
|---|---|
| `pool` | The queue, as a sequence of `[conn, lastUsed]` records. A connection is named by its creation index, which plays the part of `id(client)`. |
| `used` | `_used`. |
| `lock` | The holder of `_lock`, or `NoThread`. |
| `closed` | `_closed`. |
| `now` | `time.time()`, as an integer clock advanced by `Tick` up to `MaxTime`. |

**Per-thread state.** Each thread has:

- a program counter `pc`;
- the locals `start` (acquire's `start_time`), `got` (acquire's `connection_info`) and `arg` (release's argument);
- `ret`, the outcome of its last call (a handle, `PoolClosed`, `Timeout`, a status, or none).

**Caller state.** `held[t]` is the set of handles thread `t` has been given
and not yet released. `had[t]` is every handle `t` has ever been given.

**Steps.** One step is either a `with self._lock:` block, which requires the
lock to be free, or a single queue operation. `queue.Queue` is internally
synchronised, so each of its operations is atomic. The steps are:

| action | models |
|---|---|
| `AcquireCall` | Lines 84–87: the entry check of `_closed`, and `start_time`. |
| `AcquireLoop` | The loop head and `get_nowait` (89–92), and the timeout exit (119). |
| `AcquireCheckIdle` | The idle test (95), and the discard on failure (100). |
| `AcquireAddUsed` | The locked `_used.add` and the return (96–99). |
| `AcquireEmpty` | The `Empty` branch (101–117). |
| `ReleaseCall` | The unlocked `_closed` check (128–129). |
| `ReleaseLocked` | The locked body (131–141). |
| `CloseCall`, `CloseDrain`, `CloseLocked` | `close()`: set the flag, drain the queue without the lock, then clear `_used` under the lock. |
| `StatusCall`, `GetStatus` | `get_status()`, which waits for the lock. |

In `AcquireEmpty`, when `len(_used) < max`, the thread takes the lock and
calls `_create_connection`, which waits for the same lock at line 61. The
model puts the thread in `create_connection` with the lock held and gives it
no further step: `threading.Lock` is not reentrant.

**Construction.** `Init` is `__init__` followed by `_initialize_pool`. It
creates `min(min_connections, max_connections)` connections, stamped at time 0.
That minimum is how `_create_connection`'s capacity test stops construction
when `min > max`. `__init__` does not reject that case.

**Caller discipline.** The constant `CallersReleaseStale` sets what callers
pass to `release()`:

- FALSE: a caller releases only handles it holds.
- TRUE: a caller may also release a handle it held earlier.

### How `MigrationManager` corresponds to `migration_manager.py` and `cli.py`

**Constants.**

- `Procs`: the CLI processes running at once.
- `NumMigrations`: the migration files that can ever exist.
- `MaxCommands`: a bound on the commands run over all processes.
- Flags, each switching one behaviour on:
  - `UpgradesMayFail`: loading a migration file or its `upgrade()` may raise;
  - `Crashes`: a process may die between two steps.

**Data.**

- A migration file is a number in `1..NumMigrations`. Its order as a number
  is the order in which `get_migrations()` sorts file names (timestamp, then
  name).
- `create` may add any free number. That covers a file created in the same
  second sorting before, or between, existing ones.
- A history record is `[file, action]`. The timestamp, hash and name are
  left out, because no code compares them. `record_migration` writes no
  `filepath` key, which is what makes `rollback` fail (below). Only
  `apply_migration` ever records, so the action is always `applied`.

**Variables.**

| variable | models |
|---|---|
| `files` | The `.py` files in `migrations_dir`. |
| `history` | What `get_applied_migrations()` returns: the JSON list. A truncated or half-written file reads as `[]`. |
| `ups` | The database: `upgrade()` calls that completed, per migration. No `downgrade()` is ever reached. |
| `pc`, `todo`, `cur`, `buf` | Per process: the program counter and the locals. `todo` is `migrate`'s pending files; `cur` is the migration in hand; `buf` is the history that `record_migration` read. |
| `commands` | The number of CLI commands started, bounded by `MaxCommands`. |

**Steps.** One action is a step of a process that touches the files or the
database.

| action | models |
|---|---|
| `CreateMigration` | `create_migration` (30–73): one file write. |
| `MigrateStart` | `migrate`, lines 214–218: list the files, read the history, and drop the files that have an `applied` record. |
| `MigrateNext` | The loop at 221–223, in sorted order; the end of the command. |
| `MigrateUpgrade` | `apply_migration` (157–176): `upgrade(db)`, or an exception that ends the command through cli.py 177–179. |
| `RollbackStart` | cli.py 135–142: read the history. If it is empty, print and end; otherwise take its last record. |
| `RollbackRevert` | `revert_migration`, line 189: `migration_info['filepath']` raises `KeyError` on a history record, before the file is loaded or `downgrade()` runs. The handler at cli.py 177–179 ends the command. |
| `RecordRead`, `RecordTruncate`, `RecordDump` | `record_migration`'s three file operations: `get_applied_migrations()` (132), `open(..., 'w')` (146), and `json.dump` of the list read at 132 with the new record appended (147). |
| `Crash` | The process dies. Files and the database keep what was written. |

Two CLI commands are not actions:

- `status` only reads. It is the operator `AppliedFilenames`, which is the
  same expression as `migrate`'s line 218 (cli.py 156).
- `schema` and `export` only call `SchemaManager`.

### How `DjangoCursor` corresponds to `orm/django/base.py`

**Data.** A row is a pair `<<e, j>>`: row `j` of the result of the `e`-th
`execute()` call. Rows from different statements can therefore be told
apart. The SQL text, parameter substitution and logging are left out. Only the
statement kind decides what happens, because only the prefix test in
`execute()` looks at the SQL.

**Variables.** `closed`, `results`, `rowcount` and `rownumber` are the
cursor's attributes. `execs` counts `execute()` calls, bounded by `MaxExecs`.
`fetched` is what the last fetch returned.

| action | models |
|---|---|
| `CreateCursor` | `create_cursor()` (151–161) after the old cursor was closed. |
| `Execute` | `execute()` (213–287) when the request succeeds. A `SELECT` stores its records and resets `rownumber`. `INSERT`, `UPDATE`, `DELETE` and other statements store the response as a one-row result and leave `rownumber` alone. A closed cursor or a failing request raises before any assignment, so those calls are stutters. |
| `FetchOne`, `FetchMany`, `FetchAll` | The three fetch methods (304–345). Python slicing is `PySlice`. |
| `Close` | `close()` (347–355), also reached through `__exit__`. |

**Refinement.** `ResultIterator` is the cursor as a DB-API caller sees it:

- `execute()` makes all of a new result set available;
- each fetch hands out a prefix of what is left;
- `close()` discards it.

The refinement mapping takes `result` to `results`, `rows` to
`Remaining` (the rows after `rownumber`), `out` to `fetched` and `isOpen` to
`~closed`. `IteratorRefinement` is `ResultIterator`'s `Spec` under that
mapping.

### How `PhantomDBClient` and `TestingFramework` correspond to the code

**The client.** `PhantomDBClient` keeps the server's catalogue: `dbs` and
`tables`. Each client method is an operator that says what the server does
with the request. The server accepts a request unless it names a missing
database or table, or creates one that exists. In that case
`raise_for_status()` raises.

The network is a fault model. With `RequestsFail`, a request may be lost
before the server sees it, or its reply may be lost after the server applied
it. Either way `requests` raises and `_make_request` raises `PhantomDBError`.
A call therefore has three outcomes:

- `Applied`: the server changed its catalogue;
- `Raised`: the caller saw an exception;
- both, when the reply is lost.

**Test processes.** `Testers` are processes that each run up to `MaxTests`
tests. `Forms` says which harnesses they use. The test method is abstracted
to the calls that matter to the server: `create_table` on tables of
`TableNames`, then it returns or (with `BodiesFail`) raises.

**Variables.**

| variable | models |
|---|---|
| `now` | `int(time.time() * 1000)`, a clock advanced by `Tick` up to `MaxTime`. A database name is the millisecond it was taken at, so `DbNames = 0..MaxTime`. |
| `pc[p]` | Where process `p` is in its test. |
| `k[p]` | How many tests `p` has started. |
| `db[p]` | `self.test_database`, or the decorator's `test_database`. |
| `cleanups[p]` | `self.cleanup_functions`. A cleanup is `DropDbCleanup` or a table name. |
| `made[p]` | The tables the current test has created. |
| `owner[n]` | A ghost variable: the test `<<p, k[p]>>` whose create request the server applied for database `n`. No code reads it. It lets the properties say "a test's own database". |

**Steps of `run_test_case`.**

| action | models |
|---|---|
| `CaseStart` | `setUp` (74–78): the name from the clock. |
| `SetupCreate` | `_create_test_database` (91–98). On success it registers the drop lambda. On error it only warns, and `setUp` returns either way. |
| `CaseCreateTable` | The test's `create_table` (108–117). It registers a `drop_table` lambda, or re-raises. A raise ends the test through `run_test_case`'s `except` (194–201), and then `tearDown` is never called. |
| `CaseBodyReturns`, `CaseBodyRaises` | The test method returns, and `tearDown` runs (180–185). Or it raises, and `tearDown` is skipped. |
| `TeardownDrop` | `tearDown`'s `_drop_test_database` (83, 100–106). |
| `CleanupStep`, `CleanupDone` | `tearDown`'s loop over `reversed(cleanup_functions)` (85–89), one lambda per step, each warning on error. Then the passed result (187–192). |

**Steps of `phantomdb_test`.**

| action | models |
|---|---|
| `DecStart` | The name from the clock (230–233). |
| `DecCreate` | `create_database` (235–240). On error it warns and re-raises before the `try`, so nothing is dropped. |
| `DecCreateTable`, `DecBodyEnds` | The test function (244). It returns or raises, and either way the `finally` runs. |
| `DecDrop` | The `finally` clause's `drop_database` (245–251). |

The async variants (`AsyncPhantomDBTestCase`, `async_phantomdb_test`) have
the same control flow, with each call moved to an executor.

## Runs

There are twelve runs: six pass and six find a violation. The pool runs use
`MCConnectionPool` with `AcquireTimeout = 2`. `pool_safety` and
`pool_self_deadlock` use `IdleTimeout = 1` and `MaxTime = 3`. With these
values both exits of the acquire loop (timeout and success) and idle eviction
all happen. `pool_close_forgets_in_use` only needs one acquire and a close, and
uses `IdleTimeout = 2` and `MaxTime = 2`.

| run (cfg) | threads | min/max | checks | result |
|---|---|---|---|---|
| `pool_safety` (`MCConnectionPool.cfg`) | 2 | 3/2 | `TypeOK`, `ExclusiveOwnership`, `Capacity` | pass, about 1.7M distinct states, every action fires |
| `pool_self_deadlock` (`MCPoolSelfDeadlock.cfg`) | 1 | 0/1 | `AcquireCompletes` under `FairSpec` | violated: the first acquire blocks forever |
| `pool_close_forgets_in_use` (`MCPoolCloseForgetsInUse.cfg`) | 2 | 1/1 | `InUseRecordsHeld` | violated: `close()` clears `_used` while a caller still holds a handle |

**Why `pool_safety` uses min 3 and max 2.** This exercises the unvalidated
`min > max` construction, and still gives two connections for two threads to
contend for.

**Why the bounds are enough.** Two threads are enough for every pairwise race
between methods. Two connections allow:

- one connection queued while the other is held;
- an eviction while the other connection is in use;
- the capacity test at `len(_used) == max`.

**Symmetry.** Threads are a symmetry set, because no action names a
particular thread.

**Deadlock checking is off** (`CHECK_DEADLOCK FALSE`) in every run. The code
really does deadlock: once a thread is stuck in `_create_connection` holding
the lock, no thread can move again. The deadlock is reported through
`AcquireCompletes` instead.

**Fairness.** `FairSpec` assumes:

- Strong fairness on each thread's internal steps. A blocked `threading.Lock`
  waiter is woken each time the lock is freed, and a running loop keeps being
  scheduled.
- Weak fairness on the clock.

Even under these assumptions `AcquireCompletes` fails. Nothing can free a lock
whose holder is waiting for itself.

### Migration runs

Every migration run uses `MCMigrationManager`. Deadlock checking is off in
all of them: the `MaxCommands` bound ends every behaviour, so every final
state is a terminal state by construction.

| run (cfg) | processes | files/commands | behaviours | checks | result |
|---|---|---|---|---|---|
| `mig_sequential` (`MCMigrationSequential.cfg`) | 1 | 3/8 | rollback, upgrades may fail | `TypeOK`, `StatusReflectsDb` | pass, 1,110 distinct states |
| `mig_crash_concurrent` (`MCMigrationCrash.cfg`) | 2 | 3/6 | rollback, failures, crashes | `RecordsFollowUpgrades` | pass, 357,090 distinct states, a few seconds |
| `mig_rollback_noop` (`MCMigRollback.cfg`) | 1 | 2/4 | rollback | `RollbackReverts` | violated |
| `mig_crash_reapply` | 1 | 2/4 | crashes | `UpgradeAtMostOnce` | violated |

The properties:

- **`StatusReflectsDb`.** When no command is running, the `status` command's
  APPLIED list is exactly the set of migrations whose `upgrade()` completed
  once. It holds for a single process without crash: there, a failing
  upgrade ends `migrate` before it records, and `rollback` changes nothing.
- **`RecordsFollowUpgrades`.** The history never holds more `applied`
  records of a migration than completed `upgrade()` calls on it. This must
  survive two hazards:
  - lost updates between two processes' read-modify-write of the history;
  - truncation by a crash.
- **`RollbackReverts`.** An action property stating what `rollback` promises
  (it prints "Reverted migration"): when a rollback of the last recorded
  migration ends, `status` no longer lists that migration as APPLIED.
- **`UpgradeAtMostOnce`.** No migration is ever in effect twice.

**Why the bounds are enough.**

- Two processes give every interleaving of two commands' file operations.
- Three files let a new file sort before or between applied ones.
- Six to eight commands allow create–migrate–rollback–migrate sequences, with
  a crash in each of `record_migration`'s windows.
- Four commands are enough for `mig_rollback_noop`: create, migrate, rollback.

**Symmetry.** Processes are a symmetry set.

### Cursor runs

Both runs use `MCDjangoCursor`. Deadlock is checked: `Close` is always
enabled.

| run (cfg) | statements | rows/executes/sizes | checks | result |
|---|---|---|---|---|
| `cursor_select` (`MCCursorSelect.cfg`) | `SELECT` only | 4/6/{0,1,2} | `TypeOK`, `IteratorRefinement` | pass, 218 distinct states |
| `cursor_stale_position` (`MCCursorStalePosition.cfg`) | every kind | 2/3/{1} | `IteratorRefinement` | violated |

`cursor_select` shows that, for a caller that only reads, any mix of
`fetchone`, `fetchmany` (with no size, 0, 1 or 2) and `fetchall`, with
closes and new cursors in between, hands out each row of each result set
once and in order. Four rows and batch sizes up to two cover a batch that
ends inside the result, one that ends exactly at its end, and one clamped
past it.

### Testing framework runs

All three use `MCTestingFramework`. Deadlock checking is off: the session
ends when every process has run `MaxTests` tests.

| run (cfg) | processes | harness | failures | checks | result |
|---|---|---|---|---|---|
| `testing_decorator` (`MCTestingDecorator.cfg`) | 2 | decorator | tests and network | `Isolated`, `DropsOnlyOwn` | pass, 11,679 distinct states |
| `testing_faults` (`MCTestingFaults.cfg`) | 1 | both | tests and network | `TypeOK` | pass, 2,099 distinct states, every action fires |
| `testing_case_leak` (`MCTestingCaseLeak.cfg`) | 1 | `run_test_case` | tests | `NoLeak` | violated |

The properties:

- **`Isolated`.** While a test function runs, the database it was given, if
  the server has it, was created by that same test. It was not left by an
  earlier test, nor made by a test running beside it.
- **`DropsOnlyOwn`.** An action property: every database a step removes was
  created by the test of a process that takes part in the step.
- **`NoLeak`.** When no test is running, the server has no test database.

**Why the bounds are enough.** In `testing_decorator`, two processes, two
tests each and three milliseconds give:

- two tests that take the same millisecond, so the same name;
- a test that starts after another's database was left behind;
- every network outcome on every create and drop.

One table is enough, because tables do not affect which database is dropped.
`testing_faults` has two tables, so `tearDown` runs a list of three cleanups.

**Symmetry.** The processes are a symmetry set in `testing_decorator`.
`testing_faults` has one process and no symmetry.

**No liveness.** No property claims that tests finish. `_make_request`
(`phantomdb.py` 56–62) calls `session.request` with no timeout, so a server
that accepts a connection and never answers hangs the test, its teardown,
and every later test. The model lets each call return or raise: a lost
request or a lost reply is a raised error. A hung call is left out, and
assuming fairness would assume it away.

## Findings

These are the six violated runs, also listed in `PROJECT.json`.

1. **Self-deadlock** (`pool.py:105` with line 61). The only connections a
   pool ever has are the ones created at construction. With
   `min_connections = 0`, or once every connection has been evicted for
   idleness, the first acquire that finds the queue empty below capacity hangs
   the whole pool. This contradicts spec §4.1, step 2.
2. **Close forgets handles in use** (`pool.py:155`). `close()` clears
   `_used`, while spec §3 has close leave inUse untouched. A handle acquired
   before `close()` is no longer recorded: `get_status()` reports `used: 0`
   while a caller holds it.
3. **Rollback never reverts** (`migration_manager.py:189`). `rollback`
   passes the last history record to `revert_migration`, which reads
   `migration_info['filepath']`. `record_migration` (134–141) writes no
   `filepath`, so every rollback on a non-empty history raises `KeyError`
   before `downgrade()` runs. The CLI prints "Error executing command" and
   exits 1, and the migration stays applied and recorded.
4. **Crash re-applies** (`migration_manager.py:146` and line 173). `upgrade()`
   runs before its record is written, and the history file is truncated
   before it is rewritten. A crash in either window loses the record, and the
   next `migrate` runs `upgrade()` again.
5. **Stale fetch position** (`base.py:252`). Only the `SELECT` branch of
   `execute()` resets `rownumber`. Once a result's rows were fetched, the
   next `INSERT`, `UPDATE` or `DELETE` stores its one-row response while the
   position stays past it. `fetchone()` then returns `None`, so the caller
   never sees the response. The fetched result may be a `SELECT`'s or a
   non-SELECT's answer. TLC's shortest trace uses the latter: an
   `UPDATE`/`DELETE`, a `fetchone()` of its answer, a second
   `UPDATE`/`DELETE`, and a `fetchone()` that returns `None`. This breaks the DB-API contract that
   `ResultIterator` states.
6. **A failing test leaks its database** (`framework.py:185`).
   `run_test_case` calls `tearDown` only after the test method returns. When
   the method raises, the `except` clause records the failure and never
   calls `tearDown`. The test database and its tables stay on the server,
   although `tearDown`'s docstring says it "cleans up after the test case".

Other divergences and hazards, found while modelling, that no configured run
shows:

- **Close race** (`pool.py:128`/`137`). A `release()` that passed its
  unlocked `_closed` check puts its handle back after `close()` drained the
  queue. This breaks spec §3: "closed implies available is empty".
- **Handout after close** (`pool.py:84`). An acquire already in its loop
  returns a handle after `close()`. This breaks spec §4.1: "all pending
  Acquire calls fail after Close".
- **Stale release** (`pool.py:133`). Handles are identified by `id()` only.
  With `CallersReleaseStale`, TLC reports `NoDoubleCheckout` violated: one
  handle is checked out twice. This breaks spec §4.1: a double release "must
  not corrupt state".
- **Latent: `reverted` records are ignored** (`migration_manager.py:218`).
  `applied_filenames` keeps every file with an `applied` record, even with a
  later `reverted` one. Today no `reverted` record is ever written (finding
  3). If `rollback` is fixed, `migrate` would not re-apply a reverted
  migration, and `status` would still say APPLIED.
- **Concurrent migrate** (`migration_manager.py:215`). Two `migrate` commands
  that read the history before either records both apply the same
  migration.
- **Name collisions in `run_test_case`** (`framework.py:77`, 96). Two
  processes that start a test in the same millisecond share a name. Under
  `run_test_case`, the second create fails and only warns, so the second test
  runs on the first one's database, and both `tearDown`s drop it. The
  decorator re-raises the failed create, which is why `testing_decorator`
  passes.
- The capacity test in acquire (line 104) ignores the queue. This path is
  unreachable because of the self-deadlock.
- `migrate`'s `target_version` argument (and the CLI's `--target`) is ignored.

## Proofs

### The pool (`ConnectionPoolProofs.tla`, checked by `tlapm`)

The proofs hold for every set of threads and every value of the numeric
constants. The assumption used is `ConstantsAssumption`: the numbers are
naturals, and `NoThread` is not a thread.

**`TypeCorrect`: `Spec => []TypeOK`.**

- *Inductive invariant:* `TypeInv = TypeOK /\ LocalsTyped`. `LocalsTyped` says
  that a thread holding a slot (`acq_check`, `acq_add`) holds a well-typed one,
  and that a releasing thread's argument is a connection.
- *Why it is needed:* without it, the step that records `got[t].conn` in `used`
  cannot be typed.

**`OwnershipTheorem`: `~CallersReleaseStale => (Spec => []ExclusiveOwnership)`.**

`ExclusiveOwnership` is its own inductive strengthening, conjoined with
`TypeInv`. It has four parts:

- no connection is queued twice;
- no connection is queued while a thread has it in hand (held, taken off the
  queue, or being released);
- no connection is in two threads' hands;
- a thread's in-flight connection is not also in its `held` set.

Three lemmas support it:

- `ConnsOfTail` and `ConnsOfAppend` say what `get` and `put` do to the set of
  queued connections.
- `OwnershipShrinks` covers the steps that only shrink what threads have.

The hypothesis on callers is necessary: with `CallersReleaseStale`, TLC finds
a stale release that puts a handle back while another thread holds it.

**`CapacityTheorem`: `~CallersReleaseStale => (Spec => []Capacity)`, where
`Capacity` is `qsize() + len(_used) <= max_connections`.**

- *Inductive invariant:* `CapInv` adds `UsedApart` to the ownership invariant.
  `UsedApart` says that no id in `_used` is queued or in transit in an acquire.
- *The argument:* the queue has as many distinct connections as slots
  (`QueueCardinality`, a bijection argument). The queue and `_used` are
  disjoint, and both lie within the `min(min, max)` connections that were
  created. So the sum is at most `max_connections`.

**Only model-checked.** The following are checked by TLC and not proved:

- `AcquireCompletes`, a liveness property;
- the violated invariant `InUseRecordsHeld`.

TLAPS cannot prove liveness, and the violated properties are false.

### The migration manager (`MigrationManagerProofs.tla`)

The proofs hold for every finite set of processes and every number of files
and commands. The assumption used is `MigConstantsAssumption`:

- `Procs` is finite;
- the numbers are naturals;
- the flags are Booleans.

**`MigTypeCorrect`: `Spec => []TypeOK`.**

- `TypeOK` already includes one local fact: a process past `mig_next` holds
  a migration in `Mig`. With it, `TypeOK` is inductive.
- `EarliestProps` shows that `migrate`'s choice of the first pending file is
  a least element. It is taken from the well-foundedness of `<` on `Nat`.

**`RecordsFollowTheorem`: `Spec => []RecordsFollowUpgrades`.**

The property is not inductive by itself. Between `upgrade()` and
`json.dump` a process holds an upgrade that the history does not show yet,
and it writes back a copy of the history read earlier. The strengthening is
`PaidInv`:

- `Pend(i)` counts the processes inside `record_migration` that owe a
  record of migration `i`.
- `HistoryPaid`: for every migration, the `applied` records in the history
  plus `Pend` are at most the completed `upgrade()` calls.
- `BufPaid`: the same bound holds for every copy that a process is about to
  write back.

Why each step keeps `PaidInv`:

- A completed `upgrade()` adds one to both sides (`UpgradePaid`).
- The final write adds one record and removes one owing process
  (`DumpPaid`).
- Every other step, `rollback` included, only truncates, re-reads or leaves
  the history, and lets processes leave `record_migration` (`PaidMonotone`,
  `PendShrink`, `FinishPaid`).

The counting lemmas `RecordCountAppend`, `PendStep` and `PendType` rest on
`FiniteSetTheorems`.

**`StatusTheorem`: `ASSUME Sequential PROVE Spec => []StatusReflectsDb`.**

`Sequential` is the setting of the `mig_sequential` run:

- exactly one CLI process;
- no crash.

Upgrades may still raise, and `rollback` may run (it raises before it
changes anything). Each hypothesis is necessary: with two processes, or
with crashes, TLC finds `StatusReflectsDb` violated.

- *Inductive invariant:* `SeqInv`, which is `TypeOK` and `ProcInv(p)` for
  the process.
- *`Hist(p)`* is the history the process will leave once its write ends.
  Between the truncation and `json.dump`, that is the copy `buf[p]` read at
  line 132, not the empty file.
- *`Upgraded(p)`* is the set of files applied in `Hist(p)`, plus `cur[p]`
  while its record is being written.
- `ProcInv(p)` says:
  - `ups[i]` is 1 exactly for the files in `Upgraded(p)`, and 0 otherwise;
  - the pending set `todo[p]` and the file being upgraded are disjoint from
    the applied files;
  - during the truncation, `buf[p]` equals the history.
- *Why it is needed:* `StatusReflectsDb` is only stated when the process is
  idle. In the middle of `record_migration`, the history file is even
  empty.
- *Why each step keeps it:*
  - `migrate` pends only files with no applied record.
  - `upgrade()` runs only on such a file, so the count goes from 0 to 1.
  - `json.dump` writes the copy plus that file (`AppliedAppend`).
  - A raising `upgrade()`, and `rollback`, change nothing.
- When the process is idle, `Upgraded(p)` is the set of applied files in
  the history, which is the property.

### The cursor (`DjangoCursorProofs.tla`)

The assumption is `CursorConstantsAssumption`, which needs `MaxRows >= 1`.
The code stores a non-SELECT statement's answer as a one-row result, so a
result set must be able to hold one row.

**`CursorTypeCorrect`: `Spec => []TypeOK`, for every statement kind.**

- *Inductive invariant:* `CursorInv`, which is `TypeOK` plus
  `Len(results) <= MaxRows`.
- *Why it is needed:* `fetchone` and `fetchmany` set the row position from
  the length of the result set, so the length must be bounded.
- *Lemmas:*
  - `PySliceType`: Python slicing `PySlice` yields a sequence of rows.
  - `ResultSetsType`: every result set `execute()` may produce has at most
    `MaxRows` rows.

**`CursorRefinement`: `ASSUME SelectOnly PROVE Spec => IteratorRefinement`.**

- *Inductive invariant:* `PositionInv`, which is `CursorInv` plus
  `rownumber <= Len(results)`. This holds only when every statement is a
  SELECT: after an INSERT, `rowcount` and the row position disagree with the
  stored result, which is what the `cursor_stale_position` run shows. So
  the hypothesis `SelectOnly` is necessary.
- *Refinement mapping:* `Remaining`, the Python slice of the results after
  the row position. Under `PositionInv` it is `SubSeq(results,
  rownumber + 1, Len(results))` (`RemainingIsSubSeq`).
- *How the steps map:*
  - `CreateCursor` maps to `Reopen`, `Execute` to `Execute`, and `Close`
    to `Close`.
  - `fetchone`, `fetchmany` and `fetchall` each map to `Fetch`
    (`FetchRefines`). The rows returned are the first ones of `Remaining`,
    and the rest are the new `Remaining` (`SplitRemaining`,
    `PySliceIsSubSeq`).

### The testing framework (`TestingFrameworkProofs.tla`)

The proofs hold for every set of processes and every value of `MaxTests`
and `MaxTime`, with failing tests and with lost requests and replies. The
assumptions are `ClientConstantsAssumption` and
`FrameworkConstantsAssumption`, and the hypothesis `DecoratorOnly`: every
process uses `phantomdb_test`.

**`DecoratorIsolation`: `Spec => []Isolated`.**
**`DecoratorDropsOnlyOwn`: `Spec => DropsOnlyOwn`.**

- *Inductive invariant:* `IInv = DecTypeInv /\ DecoratorOwns`.
  `DecoratorOwns` says that a decorated test in its test function or its
  `finally` has its database on the server, and is recorded as its owner.
- *Why it is needed:* `Isolated` says nothing about a test in its
  `finally`. But the drop there must not remove a database that another
  test is using, and that is only known if each test past its create owns a
  database of its own.
- *Why each step keeps it:*
  - A create the server applies was for a name it did not have. So no test
    that owns a database loses it to the new owner.
  - A create that was not applied raised. `DecCreate` then sends the process
    back to idle, before the `try`.
  - A drop removes `db[p]`, which `p` owns. Two processes own different
    databases, because their tests `<<p, k[p]>>` differ (`RunsDistinct`).
  - The `run_test_case` steps cannot happen under `DecoratorOnly`.
- `DropsOnlyOwn` follows: every step allowed by `Next` and `IInv` satisfies
  `DropsOwn`, and `PTL` lifts this to the behaviour.

The hypothesis is necessary. Under `run_test_case`, a failed create only
warns, and two tests that share a millisecond share a database (see
Findings).

**`FrameworkTypeCorrect`: `Spec => []TypeOK`, for both harnesses.**

This theorem has no `DecoratorOnly` hypothesis.

- *Inductive invariant:* `TFInv = TypeOK /\ Started`. `Started` says that a
  test past its start has a database name from the clock and a test number
  in `1..MaxTests`.
- *Why it is needed:* `TypeOK` alone is not inductive. A create uses
  `db[p]` as a name, and `RecordOwner` uses `<<p, k[p]>>` as a test
  identifier.
- *Lemmas:* one per client call (`CreateDatabaseType`, `DropTableType`,
  ...). Each says that the call keeps the catalogue within the names,
  whether or not the server applies it.

### What stays with TLC

TLAPS cannot prove liveness or `ENABLED`, so this is model-checked only:

- `AcquireCompletes` (violated).

Also only model-checked:

- the violated invariants and action properties.

These are proved only under a hypothesis, explained in their sections:

- `IteratorRefinement` (SELECT-only callers);
- `StatusReflectsDb` (one process, no crash);
- `Isolated` and `DropsOnlyOwn` (decorator only);
- `ExclusiveOwnership` and `Capacity` (`~CallersReleaseStale`: callers
  release only handles they hold).

The type invariants and `RecordsFollowUpgrades` are proved for all values of
the constants.

## Not modelled

- **`SchemaManager`** (`migration/schema_manager.py`). `apply_schema`
  calls `db.select_database`, which the client does not have. So it raises
  `AttributeError` after creating the first database. It also calls
  `create_table` with the wrong arity and the missing `create_index`.
  `export_schema` fails the same way. Its control flow ends at the first
  call, so a model would only restate that.
- **The PhantomDB CLI and REPL** (`tools/`). The REPL's `current_database`
  gates every SQL statement, and goes stale after a drop. It is a candidate
  for a later model.
- **The query debugger**: an in-memory history of queries, with no
  interaction.
- **The SQLAlchemy dialect**: stubs that return mock data.
- **The Flask web app, visualizer and observability wrappers**: pure I/O and
  formatting, with no state that a model checker could explore.
- **`phantomdb_transaction`** and the testing framework's data helpers
  (`insert_data`, `select_data`, the assertions). They send one request each
  and change nothing the properties read.
- **`MigrationManager.create_schema_file` and
  `validate_migration_integrity`.** These read the database and the files
  and write a report.
- **The REST client's other methods** (`insert`, `select`, `update`,
  `delete`, transactions). No modelled component calls them in a way that
  matters to a property.
- **Build scripts, examples and tests.**

Plans for later work:

- an abstract migration specification, in which each command is one atomic
  step. `MigrationManager` would be shown to refine it for one process
  without crashes;
- an abstract pool specification, with available and in-use sets and
  atomic operations. `ConnectionPool` would be shown to refine it under a
  mapping that the close race is expected to break.
