# TLA+ specifications of Vader

Vader is a small compiled language: a compiler and tool chain in Rust (`src/`)
and a C runtime (`runtime/`) that is linked into every program. This directory
specifies the parts of it that are hard to test, model-checks them with TLC on
small instances, and proves theorems about them with TLAPS. Paths below are
relative to the root of the repository.

Run a check with `tlc -config MCVaderChan.cfg MCVaderChan`, and the proofs with
`tlapm VaderChanProofs.tla`, and the same for the other modules named `...Proofs`.

## 1. Inventory

| Component | Source | State it keeps | Operations | What is hard about it |
|---|---|---|---|---|
| Channels, goroutines | `runtime/vader_rt.c` 34-111 | ring buffer, `closed`, one mutex, two condition variables per channel | `vader_chan_make/send/recv/close`, `vader_go` | threads in any interleaving; one signal per operation; spurious wake-ups; close while others sleep |
| Programs on channels | `examples/concurrency.vd`, `src/llvm.rs` (spawn, send, `for x in ch`) | what main and the workers are doing | spawn, send, receive, close, return from main | back-pressure, a goroutine that was never created, results after close |
| Maps | `runtime/vader_rt.c` 113-208 | chained hash table | set, get, has, len | not locked |
| Arena allocator | `runtime/vader_mem.c` | blocks of each arena, thread-local `g_cur` | alloc, scope, reset, release | long sequences of nested scopes; forgotten releases; growth |
| Escape analysis | `src/llvm.rs` 613-687, 918-1047 | the names of outer heap variables | `body_escapes` and what it calls | soundness for every loop body |
| LLVM code generation | `src/llvm.rs` | symbol tables, worklists of generic instances and thunks | one function per construct | worklists that feed each other |
| Test harness | `runtime/vader_test.c`, `vader_panic` | `g_in_test`, `g_test_jmp`, counters, coverage table | run a test, report, summary, mark coverage | panics in goroutines, races on the table |
| HTTP server, router | `runtime/vader_http.c`, `vader_router.c` | `cfd`, request fields, request arena, routes | accept, read, dispatch, respond | clients that hang up, headers too long, handlers that never or twice respond, `accept` failing |
| HTTP client | `runtime/vader_http.c` 187-277 | none | one request | - |
| Postgres driver | `runtime/vader_pg.c` | socket, error text, rows of a result | connect and authenticate, query, close | messages out of step, a link that drops, waiting for ever |
| MySQL driver | `runtime/vader_mysql.c` | socket, error text, rows | greet, authenticate, query, close | the same, and packet numbers; a lost link ends a result without an error |
| MongoDB driver | `runtime/vader_mongo.c` | socket, database | connect, insert, find, update, delete, close | the same; only the first batch of a cursor is read |
| Database facade | `runtime/vader_db.c` | driver kind and handle, statement, bound values | open, exec, query, next, columns, prepare, bind, close | use of a finished statement, `?` inside a literal |
| JSON | `runtime/vader_json.c` | trees of values | parse, build, encode | text, tree, BSON and back |
| SCRAM, str, fs, time, math, fmt, os | `runtime/vader_*.c` | none | pure functions and wrappers | - |
| Lexer, parser, formatter | `src/lexer.rs`, `parser.rs`, `formatter.rs` | position in the text | scan, parse, print | print after parse is the identity |
| Type checker | `src/check.rs` | scopes, declarations | check each construct | agreement with the code generator |
| Module loader | `src/module.rs` | names of packages | load, namespace, normalise | two dependencies with one name |
| Go back end | `src/codegen.rs` | none | print | - |
| Linter | `src/lint.rs` | none | ranks of layers | - |
| Language server | `src/lsp.rs` | open documents | one handler per message | order of edits and answers |
| Package manager | `src/pkg.rs`, `cmd_add` ... in `src/main.rs` | clone cache, `vader.toml`, `vader.lock`, registry index | add, remove, fetch of a build, publish | crash between the files, two publishers at a time, a stale cache |
| Migrations | `src/migrate.rs`, `migrate_run` in `src/main.rs` | migration files, `migrations/.applied`, the database | new, up, down | SQL that fails in part, crash between SQL and list, order |
| Build driver | `src/main.rs` | `out.ll`, `out` and cached objects in the temporary directory | build, run, test | shared by all builds of the machine |
| Scaffold, templates, extension, scripts | `src/scaffold.rs`, `gen.rs`, `templates.rs`, `editors/`, `scripts/`, `packaging/` | files they write | - | - |

How they interact: the compiler emits calls into the runtime (channels, arenas,
panics, coverage) and the runtime has no other caller. The HTTP server, the
database drivers and JSON allocate through the arena of the calling thread.
`vader_panic` is shared by the runtime and by the test harness through
`g_in_test` and one global `jmp_buf`. The commands of the tool chain talk to
each other through files: `out.ll` and `out`, `vader.toml` and `vader.lock`,
`migrations/.applied`.

What would make each correct: a channel is a bounded FIFO that can be closed,
and nobody sleeps through a wake-up; an arena never reuses memory that is still
held, and its memory is bounded; the escape analysis never lets a string of an
iteration survive its reset; a test run reports every test truthfully; a client
of the HTTP server gets one answer, to its own request; a database result is
whole or an error; the list of applied migrations tells the truth about the
database.

## 2. Modules

| Module | Models | Composed of |
|---|---|---|
| `Channel` | what a channel promises: a bounded FIFO that can be closed, with atomic operations that block | - |
| `VaderChan` | `runtime/vader_rt.c` 34-104 | refines `Channel` |
| `VaderChanProofs` | theorems about `VaderChan`, among them that it implements `Channel` | extends `VaderChan` |
| `WorkerPool` | `examples/concurrency.vd` as the compiler translates it | extends `VaderChan` |
| `WorkerPoolProofs` | theorems about `WorkerPool` | extends `WorkerPool`, `VaderChanProofs` (cites its theorems) |
| `Arena` | `runtime/vader_mem.c` and the loops of `src/llvm.rs` that drive it | - |
| `ArenaProofs` | theorems about `Arena` | extends `Arena` |
| `EscapeAnalysis` | `src/llvm.rs` 613-687 and what `gen_stmt`, `gen_expr`, `gen_match` accept, next to the execution of a loop body | - |
| `TestHarness` | `runtime/vader_test.c`, `vader_panic`, the generated main | - |
| `TestHarnessProofs` | theorems about `TestHarness` | extends `TestHarness` |
| `DbConnection` | what the drivers share: the place of the client, one request, the link in both directions and its loss | - |
| `PgSession` | `runtime/vader_pg.c`, with a server | extends `DbConnection` |
| `MySession` | `runtime/vader_mysql.c`, with a server | extends `DbConnection` |
| `Json` | `runtime/vader_json.c`, the BSON part of `vader_mongo.c` (pure operators) | - |
| `MongoSession` | `runtime/vader_mongo.c`, with a server | extends `DbConnection`; constants for the conversion of documents |
| `Database` | `runtime/vader_db.c` and SQLite, over the three drivers | extends `DbConnection`, instances of the sessions |
| `Documents` | the conversion of a document that goes through MongoDB | extends `Database`, `Json` |
| `DatabaseProofs` | theorems about `Database` and the sessions in it | extends `Database` |
| `HttpServer` | `runtime/vader_http.c`, `vader_router.c`, with clients | - |
| `HttpServerProofs` | theorems about `HttpServer` | extends `HttpServer` |
| `Migrations` | `src/migrate.rs`, `migrate_run`, `build_run_program`, `compile_ir` | - |
| `MigrationsProofs` | theorems about `Migrations` | extends `Migrations` |
| `Packages` | `src/pkg.rs`, `cmd_add`, `cmd_remove`, `cmd_publish`, `write_lock`, the fetch of `module::load` | - |
| `PackagesProofs` | theorems about `Packages` | extends `Packages` |

Each `MC...` module gives the constants of one of them for TLC.

### VaderChan and Channel

`chan[c]` is the `VaderChan` struct: `buf`, `cap`, `count`, `head`, `tail`,
`closed`, the owner of the mutex `mu`, and the two sets of threads asleep on
`not_full` and `not_empty`. `pc[t]` is where a thread is in its call (`lock`,
`body`, `wait`, `unlock`), `req[t]` its arguments and `res[t]` what `recv`
copied out. The actions are `Call`, `Lock` (also the re-acquisition inside
`pthread_cond_wait`), the alternatives of a critical section (`SendWait`,
`SendDrop`, `SendPut`, `RecvWait`, `RecvEnd`, `RecvTake`, `CloseBody`),
`Unlock`, and `Spurious` for a wake-up without a signal, which POSIX allows.
A critical section after the test of its `while` is one step, since the mutex
is held; the mutex, the waits and the signals are steps and sets of their own.
`Signal` picks any waiter. A capacity below 1 becomes 1, as in
`vader_chan_make`.

`Channel` has the buffer as a sequence and one request per thread; its actions
are `Accept`, `Reject`, `Deliver`, `End` and `Shut`. `VaderChan` maps its ring
to the sequence `Contents(chan[c])` and a request to itself until the step at
which it takes effect (the put, the take, the drop, the close).

### WorkerPool

Main's place is `at` (spawn, send, collect, exited), a worker's is `live`.
`Spawn` is `vader_go`, including a `pthread_create` that fails without anybody
looking. `NextJob`, `Reply`, `Again` and `LoopEnds` are the loop that `gen_for`
emits for a channel, `Collect` is `print(<-results)`, which ignores the return
code. Every send, receive and close runs through all the steps of `VaderChan`.
When main returns the process ends.

### Arena

An arena is `[live, prev, blocks]` and two history counters, the units
allocated since the last reset (`now`) and their maximum (`most`); `cur` is
`g_cur`; sizes are in units of 16 bytes. `frames` is the stack of scopes the
program has open, of compiled loops or of `mem.scope()`. `held` remembers where
each live allocation lies. `EndIteration` is the reset the compiler emits: the
scopes that the body forgot are dropped from `frames` but their arenas are
never freed.

### EscapeAnalysis

A body is built one statement at a time, together with the verdict of
`stmt_escapes` on it and its effect on memory; any state is therefore the end
of an iteration of some body, and `Sound` compares the two. Expressions and
statements are those of `ast.rs`, without the kinds that hold no memory (numbers,
`nil`, operators but `+`, `==` and `not`) and without maps, which are like slices
here. `NamesOuterHeap`, `ExprEscapes`, `AssignEscapes` and `StmtEscapes` have every
case of their functions. Strings are `lit` or `fresh` (made by the iteration in
the arena); slices, structs and enums are objects outside of it (`malloc`).

`GenStmt` is what the backend accepts (`gen_stmt`, `gen_expr`, `gen_match`,
`gen_spawn`), since only such bodies run. It matters: `names_outer_heap` ignores
the arms of a match, so that `put(match s { _: o }, a + b)` would pass for safe; but
`gen_expr` has no case for a match ("construct not supported in the subset"), and
refuses it, as `gen_match` refuses guards and `gen_stmt` a field as a target.
The soundness of the analysis rests on these refusals.

The statement set is a constant. `MCAliasFree` leaves out four things, for each of
which `Sound` is false, by itself:

* a second name for memory from before the loop: by declaration (also of a part, as
  in `t = u.items`, or of what a channel had), as part of a struct or slice literal,
  by a pattern over an outer enum, by the variable of a loop (`row`), this or an inner one;
* a call in the head of a loop, this or an inner one, or in the index of a target
  (`t[put(o, a + b)] = s`), which the analysis does not look at;
* a call of a function that starts a goroutine which keeps its argument;
* a declaration in the body of a name that exists before the loop (the backend's
  `vars` has one entry per name, and the code after the loop then reads the new one).

`MCAliases` adds the first, which is what the violation shows.

### TestHarness

`at[t]` is where a thread is; Main runs the tests, goroutines are started by
test code and outlive it. `cov[t]` takes `vader_cov` apart into its scan, the
test of `g_nhit`, its read as the index and the stores of the entry and of the
count, because nothing locks the table. The scan stops at the first slot that holds
the function; a counted slot before it whose entry is not written yet is a null
pointer for `strcmp`, which crashes. Between the test and the read another thread
may take the last slot: then the entry is stored past the table, into the variables
that lie behind it, and later scans read there.

A panic on Main in a test is a `longjmp` to `vader_test_run`; of a goroutine between
two tests, `exit(1)`. A panic of a goroutine while a test runs is a `longjmp` to the
stack of another thread, which is undefined: the process crashes, or the running
test ends as failed, or both threads go on, on one stack.

What the process does with two threads on one stack, or with a variable that
the entry past the table overwrote (`g_failed` may be one of them), is no longer
determined by the source. The model ends there with `exit = "undefined"`: both
outcomes are steps of the model, what follows them is not, and **no property says
anything about it**. `GreenMeansPassed`, in particular, does not say that a process
which survives such a panic, or such a store, never exits with 0 although a test
failed. `failed`, `entered` and `strayed` are history variables.

### DbConnection, PgSession, MySession, MongoSession

`cl` is where the driver is: it dials, then goes through phases of its own to
`idle`, to a request (`query`, `first`, `reply` ...) and back; `failed` is a
handle that cannot be used, `killed` a death by SIGPIPE (a write on a dead link
is swallowed or raises it), `crashed` one by a memory error of the driver.
Messages are records of a type and, where it matters, a code, a sequence number
or a row. `toSrv` and `toCli` are the two directions; `Drop` loses the link and
any suffix of what was under way to the client. `srv` and `outcome` are the
server and what it made of the request. The servers are external: each asks for
any of five (Postgres), five (MySQL) or four (MongoDB) ways to let the client
in, and answers requests with success, with an error, or with an error in the
middle.

`PgSession`: TLS negotiation (the build flag is `tls`), the authentication loop,
the three reads of `scram_auth`, `pg_consume_until_ready`, the loop of `pg_run`
and its drain. A text may hold two statements. `MySession`: greeting, response,
the authentication loop with its switch of plug-in, fast and full
`caching_sha2_password`, and a query packet by packet; the server refuses a
packet whose number is not the next. An ERR packet among the rows is copied as
a row of that length: `crashed`. `MongoSession`: each operation is one write and
one reply; `posted` are the texts that were inserted. What a text becomes in BSON
and what a reply becomes as text are the constants `ToBson` and `FromBson`.

### Json

Values are records like `JVal`. A text is a sequence of symbols: punctuation,
characters, literals, numerals. `Encode`, `Parse`, `BsonDoc` and `BsonDecode`
are the recursive functions of the code, with its lenience (a missing comma or
bracket ends a list), its `obj_set` (a key that comes twice is replaced on the
way back from BSON, kept by the parser), and its numbers: integers go through a
double (`DoubleMax` for 2^53), doubles are printed with `%g` (`PrintLimit`).
`Documents` makes of them the `TextToBson` and `BsonToJson` of the driver, gives
them to `Database` as `ToBson` and `FromBson`, and states what a program may expect
of a document that was stored and found (`DocumentsIntact`). They are constants of
`Database` because its control does not depend on what they compute, and so that
the theorems about it hold for whatever they compute.

### Database

`kind` selects the driver as `vader_db_open` does. For the wire drivers the loop
`while rows.next()` runs over rows that are in memory; for SQLite each `next` is
a step of a statement, `alive` counts the statements that are prepared and not
finalized. `Break` leaves a loop early. MongoDB is not behind `std/db`; it is
here as the fourth database of a program.

### HttpServer

`pc` is the server thread in `vader_http_accept` (`accept`, `header`, `body`),
in `vader_router_serve` (`dispatch`), in a handler or in `vader_http_respond`
(`writing`). The request fields hold the name of the client whose request they
came from, so that a stale one shows. `fds` are the open descriptors, and
`silent` the clients whose handler returned without responding. Clients
(external) connect, send a header, perhaps a body, and may hang up at any step;
the header of an `Oversized` one fills the buffer of 64 KiB before its blank line,
and is treated like one that never ended. `accept` may fail at any time and must
when no descriptor is left (`NoDescriptor`); the first failure, of whatever kind,
ends `vader_router_serve` (`vader_http.c` 66, `vader_router.c` 47), although the
comment at `vader_router.c` 41 says that it "accepts forever". A write returns: a
response that does not fit the socket's buffer would block the thread for as long
as its client does not read, and that is not in the model.

### Migrations

`files[p]` counts the migrations of a project in file name order, `applied[p]`
are the lines of `.applied`, `db[p]` the migrations the database holds as a
whole, `half[p]` those of which it holds a part, `ran[p]` those whose program
ever succeeded. A session is a running command: it writes `out.ll`, compiles it
to `out`, runs it, reads the list, truncates it and writes it again (`fs::write`
truncates first). The work of a command is the set of migrations that are left
(`todo`): `up` takes the first in file name order (`Foremost`), `down` has the
last line of the list. `mark_applied` appends a line that is not there yet,
`unmark` is `Without`; no line occurs twice (part of `TypeOK`), so dropping one is
what its `retain` does.

Every step may fail and the command may be interrupted between any two
(`RunFails`, `WriteFails`, `Crash`), and `Abandoned` says what that leaves. The
SQL of a migration is a text of several statements (`migrate gen` writes one per
struct) that `vader_db_exec` runs one by one without a transaction, and a lost
link may hide that it all took effect: a program that breaks off leaves its
migration as it was, not there, in part or as a whole (`BreaksOff`). Nothing is
assumed of the SQL itself: running it twice may fail or succeed. `torn` (history)
keeps the programs that may have left something without being recorded, until a
program for the same migration succeeds: those that broke off, and those that
ended well before the command died or could not open the list. `lost` keeps the
projects whose list was truncated and not written again. A list that cannot be
read counts as empty in the code; that, a list cut in the middle of its text, and
a program that goes on after its command was killed are not in the model.

### Packages

`manifest` and `lock` are the lines of the two files, `cache` the clone in each
directory of `~/.vader/pkg` (one that was interrupted is `Broken`: its `.git`
is there, so it counts), `head` how far each upstream has moved. A command of
the developer is `dev`: `add` (by URL, or by name through the registry), then
the writing of `vader.toml`, then one fetch per dependency, each of which adds a
line to the text (`out`) or, when it fails, is passed over (`miss`), then
`vader.lock`;
or a build, one fetch per dependency. `Interrupt` ends it at any step, with the
file it was writing cut at any line. `index` is the registry's file, `pub[p]`
a publisher between reading, truncating and writing it. A project is new, or a
checkout whose lock was written elsewhere (`here`).

## 3. Runs

| Run | Instance | Shows |
|---|---|---|
| `chan` | 3 threads, 1 channel of capacity 2, 2 values | `TypeOK`, `MutexInv`, `RingInv`, `NoLostWakeup`, `ClosedForGood`, `ImplementsChannel` |
| `pool` | 2 workers, 4 jobs, two channels of capacity 1, up to 2 failed `pthread_create`, 1 spurious wake-up | `EachJobOnce`, `AllJobsPrinted`, `StuckOnlyWhenFull`, `Finishes` |
| `arena` | 3 arenas, blocks of 2 units, requests of 0 to 3 units, 2 blocks per arena | `TypeOK`, `CurIsTop`, `HeldIntact`, `OneBlockIsEnough` |
| `arena_growth` | 1 arena, 6 blocks | `BoundedMemory` is violated |
| `escape` | every body over 1104 statements without aliases (45 are refused by the backend, 412 judged safe) | `Sound` |
| `escape_alias` | the same with aliases | `Sound` is violated |
| `tests` | 2 tests, 3 functions, a coverage table with room for 2, 1 goroutine, gate at 60 % | `TypeOK`, `Isolated`, `GreenMeansPassed`, `ExitCodeRight` |
| `db` | 4 databases, 14 ways to let the program in, 3 requests, results of up to 2 rows, documents of nested JSON, the link may drop | `InStep`, `CompleteOrError`, `Delivered`, `AnswerTrue`, `Released`, `DocumentsIntact`, `Connects`, `Returns` |
| `pg_scram` | SCRAM only, the link never drops | `ScramConnects` is violated |
| `http` | 4 clients (a body, no body, 404, a header too long), handlers that respond 0 to 2 times, 2 descriptors, accept failing at any time, SIGPIPE | `TypeOK`, `AnswersOwnRequest`, `FieldsAgree`, `NoConnectionLeak`, `EveryoneServed` |
| `migrate` | 1 terminal, a project of 3 migrations and one of 1, any failures | `TypeOK`, `MarkedOnlyIfRun`, `TrackingAgrees`, `InOrder` |
| `packages` | 2 packages, one of them also at a second URL, 1 push, 1 interruption, 2 publishers | `LockFollowsManifest`, `LockTruthful`, `BuildMatchesLock`, `NoLostPublish` |

### What the properties say

* `NoLostWakeup` - while a receiver sleeps, every buffered value has a receiver
  of its own that is awake and on its way (and so for senders and free slots),
  and nobody sleeps on a closed channel. This is what one signal per operation
  has to achieve, including when a third thread takes the value first.
* `ImplementsChannel` - every behaviour is one of `Channel`: FIFO, nothing lost
  or doubled, values before close are delivered before the end is.
* `EachJobOnce` - jobs accepted and places that hold a job (buffers, hands,
  output) correspond one to one at every step. `StuckOnlyWhenFull` - the pool
  hangs only with both buffers and all hands full, or without any worker: the
  program sends all its jobs before it collects, so it does hang when there are
  more jobs than room.
* `CurIsTop` - the current arena is that of the innermost open scope.
  `HeldIntact` - allocations of open scopes do not overlap and stay inside
  their blocks. `OneBlockIsEnough` - a loop that fits a block never needs two.
* `Sound` - a loop that gets an arena leaves no reference to a string of the
  iteration.
* `Isolated`, `GreenMeansPassed`, `ExitCodeRight` - a test fails exactly if an
  assert of its own fails, as long as none fails in a goroutine; exit code 0 hides
  no failure; the code tells failures from the gate, and without goroutines the
  gate is right. None is about a process in which a panic leaves two threads on one
  stack, or the race stores past the coverage table.
* `InStep` - between requests nothing is left on the wire. `CompleteOrError` -
  a result without an error is all of the answer, and only of the answer, to
  this query; `Delivered` says the same of the rows that a loop saw.
  `AnswerTrue` - no error means that a change took effect, an error that it did
  not as a whole (a text of several statements may be half done), with the exceptions
  that the code has: rejected updates and deletes of MongoDB, and a MySQL statement
  that fails while the link is lost. `Released` - a closed connection has no descriptor left unless a loop
  was left by break. `DocumentsIntact` - what find returns is, as JSON text, what
  was inserted, but for null and the digits that doubles lose. `Connects`,
  `Returns` - connecting and requests end.
* `AnswersOwnRequest`, `FieldsAgree` - at most one response per client, to its
  own request; a client that hangs up early, or whose header is too long, is not
  answered with the fields of the one before. `NoConnectionLeak` - only handlers
  that do not respond leave connections open, nothing but an answer closes one,
  and what is open between requests, and when `serve` ends, is what they left;
  why `accept` fails makes no difference. `EveryoneServed` - a client that waits is
  answered, unless `serve` ended or a write killed the process: it does not say
  that neither happens.
* `MarkedOnlyIfRun` - what the list says is applied did run, whatever fails or is
  interrupted. `TrackingAgrees` - between commands the list is what the database
  holds, less the migrations whose `up` broke off or was not recorded
  (`TornUp`), and with those whose `down` did (`TornDown`): the command loses
  track of a migration only through its own program, and a project only by losing
  the list. So after a failing `up` the list may well be wrong about that one
  migration, without any crash: the message `failed at ...` is all the user has.
  `InOrder` - whatever is in the database, all that comes before it is too,
  excepted again what broke off.
* `LockFollowsManifest`, `LockTruthful` - the lock lists the dependencies of the
  manifest, with commits of their own repositories. `BuildMatchesLock` - builds
  on the machine that wrote the lock are made of what it lists.
  `NoLostPublish` - a publication is lost only if two overlap or one is
  interrupted.

### Disagreements with the documentation

Three runs check a sentence of the documentation that the code does not keep.

* `arena_growth`: `vader_alloc` looks at the head block only, so after a reset
  the other blocks are never used again: a loop or an HTTP server whose
  iterations need more than 64 KiB grows at each iteration, against "bounded
  memory" (`runtime/vader_http.c` 70) and "constant RSS" (`SPEC.md` 249).
* `escape_alias`: `for row in oo { row[0] = a + b }` gets an arena, though `row`
  is outer memory, against "a conservative, **sound** escape analysis"
  (`SPEC.md` 191).
* `pg_scram`: `scram_auth` consumes the AuthenticationOk that the loop around it
  then waits for, against "MD5 and SCRAM-SHA-256 authentication"
  (`README.md` 538).

Three more are in the models without a run of their own: an assert that fails in a
goroutine between two tests exits the process, against "the rest keep running"
(`README.md` 625), which is why `Isolated` excepts it; `vader_router_serve` ends at
the first `accept` that fails, against "accepts forever" (`runtime/vader_router.c`
41), which is why `EveryoneServed` allows for it; and `vader.lock` is
written but never read, so that a build on another machine is made of whatever
upstream is at, against "pins the exact resolved versions" (`docs/packages.md`
29), which is why `BuildMatchesLock` is about the machine that wrote the lock.

### Bounds, and why they are enough

* `chan`: three threads are the least for the hard case of condition variables,
  two sleepers and one that overtakes the woken one; two slots the least for a
  ring where head and tail differ without being full. Capacity 1, other numbers
  of threads and all values are covered by the proofs. Spurious wake-ups are
  not bounded.
* `pool`: with two workers and one slot per channel, 4 jobs is exactly what fits
  (1 + 1 + 2); a worker that was not created makes it one too many. Other numbers
  of workers, jobs and buffers are covered by the proofs.
* `arena`: a block of 2 units has the cases empty, half full, full and
  oversized; three arenas give a loop in a loop with a forgotten scope. Two
  blocks per arena are the least for growth, and `MaxBlocks` stops the program
  from allocating, never the allocator. `arena_growth` needs a larger bound.
* `escape`: memory is finite, so that the state space is exhausted: bodies of
  any length are covered, over nesting of depth two.
* `tests`: three functions and 60 % make two functions enough and one too few. The
  table has room for two (8192 in the code), so that it fills, that a third function
  finds it full, and that the race takes the count and an entry past its end: all
  three happen, and so do the crash of a scan and both ways to `"undefined"`.
* `db`: three requests allow an error, a success and a lost link in any order;
  two rows are the least for an error, or a lost link, in the middle of a result;
  the texts have nesting, escapes, null and numbers on both sides of the
  precision; with a batch of 1, two documents are the least of which the first
  batch is only a part.
* `http`: a client of each kind in every order, and two descriptors, so that one
  leak can be survived and two make `accept` fail; it may fail before as well.
* `migrate`: three migrations distinguish first, middle and last, and the other
  project, with one, writes the shared `out.ll` and `out` in between. Failures and
  interruptions are not bounded. Proved for any number of projects and files.
* `packages`: two dependencies that share a name, and one by name and tag, are
  every way to share or not to share a clone; one push tells a fresh clone from
  an old one. Proved for any dependencies, packages, versions and commits.

### Fairness

Safety properties assume none. `WorkerPool!FairSpec` has weak fairness of main
and of each worker: the operating system runs every runnable thread, and a
mutex is not starved for ever by one thread, since every critical section ends.
It does not require spurious wake-ups, nor fairness among waiters.
`Database!FairSpec` (and that of each session) has weak fairness of the client's
reads and of the server while it is up; that a link drops, or a program makes
another request, is never required. `HttpServer!PoliteSpec` has weak fairness of
the server thread, of `accept` failing when no descriptor is left (never
otherwise), and of clients that have connected: they send what they announced or
hang up. Without
that assumption `EveryoneServed` is false, because reads have no timeout and one
silent client stops the server; the assumption is about the environment, not the
code.

Deadlock checking is off where the system may stop: `arena` and `arena_growth` (all
arenas open and full), `escape` and `escape_alias` (the body has ended), `pool` (the hang is what `StuckOnlyWhenFull` is about), `http` and
`pg_scram` (all clients served; the connection that waits for ever).

### Mutants

Every property of every passing run has a mutant: a definition next to the
original, named in a comment `Mutant of ...`, that changes it as a plausible bug
would (a signal before the count is raised, a reset that leaves `g_cur` alone,
a drain that reads one message). With the mutant in the place of the original,
TLC finds the property violated. The mutants are used nowhere else.

## 4. Proofs

### Channels

`VaderChanProofs` proves, for any finite set of threads, any channels, any asked capacities (zero and negative ones too) and any values:

| Theorem | States |
|---|---|
| `TypeCorrect` | `Spec => []TypeOK` |
| `MutualExclusion` | `Spec => []MutexInv` |
| `RingCorrect` | `Spec => []RingInv` |
| `NoWakeupLost` | `Spec => []NoLostWakeup` |
| `ChannelImplemented` | `Spec => ImplementsChannel` |
| `ClosedStays` | `Spec => ClosedForGood` |

Assumptions: the set of threads is finite (a program has finitely many
pthreads), `Nothing` is not a thread, a value or a request, and capacities are
integers.

The argument. `TypeOK` is inductive. `MutexInv` says that the thread in `body`
or `unlock` is the owner of the mutex; it needs only `TypeOK`. `RingInv` (tail
is head plus count modulo the capacity, count within 0 .. cap, the slots in use
hold values) follows from the arithmetic of the ring, for which there are lemmas
of their own. `NoLostWakeup` is not inductive by itself, because it counts
threads that are awake: it also needs `WaitersInv`, that the two waiter sets
hold exactly threads in `wait` with a request of the right kind on this channel,
that no thread is in both, and from `MutexInv` that the thread which is between
its test and its wait is alone. The inductive invariant is therefore
`TypeOK /\ MutexInv /\ RingInv /\ WaitersInv /\ NoLostWakeup`; the step for each
action shows how the number of awake receivers and `count` change together
(`send` raises both by its signal, `recv` lowers both by leaving, a wait
happens only at count 0, a spurious wake-up can only help).
`ChannelImplemented` uses the type and ring invariants to show that every step
maps to a step of `Channel` or to none.

`ClosedStays` (`Spec => ClosedForGood`) needs `TypeOK` alone.

### Worker pool

`WorkerPoolProofs` proves all three invariants of the run, for any finite set of
workers, any number of jobs, any capacities and any number of goroutines that
were never created:

| Theorem | States |
|---|---|
| `JobsFlow` | `PoolSpec => []EachJobOnce` |
| `EverythingPrinted` | `PoolSpec => []AllJobsPrinted` |
| `HangsOnlyWhenFull` | `PoolSpec => []StuckOnlyWhenFull` |
| `PoolUsesChannels` | `PoolSpec => Spec`, that of `VaderChan` |

The last one makes the program a client of the runtime: the type, mutex, ring and
wake-up invariants of `VaderChan` hold of it, and are the first part of the
inductive invariant (`ChannelInv`). `Roles` says which calls a thread can be in at
which place of the program: main sends on `jobs` and receives on `results`, a
worker the other way round, nobody sends on a closed channel. `Flow` says where
the jobs are: the places that hold one (a slot of a ring, the value that a call
carries, the hand of a worker, a printed line) hold different jobs, and the jobs
they hold are the first ones that main had accepted. Each put and take moves a
job from one place to another; the number of places is counted by cardinalities of
finite sets, without induction. `HangsOnlyWhenFull` needs `NoLostWakeup`:
whoever sleeps does so because the channel is full or empty, so when all sleep,
both channels are full, and the count of places bounds the jobs.

### Arenas

`ArenaProofs` proves `TypesHold`, `InnermostIsCurrent` (`CurIsTop`),
`NothingOverwritten` (`HeldIntact`) and `LoopKeepsOneBlock`
(`OneBlockIsEnough`), for any number of arenas, any sizes of allocations and of
blocks, and scopes nested to any depth. None of them is inductive alone:
`vader_release` makes `prev` current, so `CurIsTop` needs the chain of `prev` to
be the stack of open scopes (`Stack`), and for that no arena may be open twice;
`HeldIntact` needs that an allocation lies in the arena of the scope it was made
in (`Owned`), or a reset would give back what another scope holds;
`OneBlockIsEnough` needs that the one block is used by what the iteration
allocated and by nothing else (`Single`). A forgotten scope keeps its arena live
and its `prev`, which is why the chain is stated from the open scopes and not
from all live arenas.

### HTTP server

`HttpServerProofs` proves all four invariants of the run, for any clients, any
routes, any number of descriptors and of responses of a handler. `Open` has
`NoConnectionLeak`, and that the connection being served is open until it is
answered, which makes it inductive. `Fields` follows the request fields through
accept, header and body: between two requests they belong to nobody, and a client
whose header is not read to its end (`Unparsed`) leaves them empty. `Answered` says that a client that was
answered is neither open nor waiting, so that a second response cannot reach it;
it needs the backlog to be without duplicates (`Types`).

### Test harness

`TestHarnessProofs` proves `TestsAreIsolated` (`Isolated`) and `GreenIsHonest`
(`GreenMeansPassed`) for any number of tests, functions and goroutines.
`Progress` ties `g_in_test`, the number of the test and the reports together,
`Blame` says that a failed assert is reported by the test it was made in, and
`Ended` what each exit code means. The variables of the coverage table do not
occur in the invariant: its race cannot touch what these two theorems say.

`ExitCodeIsRight` (`ExitCodeRight`) is about that table, in a process where no
goroutine was started (`Quiet`): `Counted` says that the first `gNhit` entries are
different functions, and are all that were entered, unless the table is full, but
for the one that is about to be added; `Verdict` takes the number to the exit code.
A program with more functions than the table holds is judged by as many as it holds
(`InTable`), on both sides of the fraction, as the code does.

`TableInBounds` (`TypeOK`) bounds the entries of the table in the same processes,
for any number of functions: `vader_cov` tests `g_nhit` before it reads the index,
and `Counted` keeps it at what it was in between. With goroutines the bound is false,
in the code and in the run, and `TypeOK` does not claim it.

### Databases

`DatabaseProofs` proves five of the six invariants of the run `db`, and one that no
run checks, for every set of the four databases, any requests, results, documents and
first batch, any number of operations, and a link that is lost at any point:

| Theorem | States |
|---|---|
| `ConversationInStep` | `[]InStep`: between two requests on a live link no message is left over |
| `ResultsComplete` | `[]CompleteOrError`: rows are those of this request, in order, and all of them if no error is reported (but for MySQL on a lost link and MongoDB beyond its first batch) |
| `LoopsDeliver` | `[]Delivered`: a loop that came to its end saw every row, unless the query failed or the link was lost |
| `AnswersTrue` | `[]AnswerTrue`: the answer to a statement that changes data is true, in the sense of that property |
| `DescriptorsReleased` | `[]Released`: a closed connection keeps no descriptor if no loop was left early; one of SQLite or MongoDB that failed to open has none |
| `FoundAsInserted` | `[]FoundWasInserted`: what a find of MongoDB returns was inserted by the program |

The invariant `DbInv` is a conjunction over the kinds, since a program has one
driver open and the variables of the link are shared. Each wire driver (`PgInv`,
`MyInv`, `MgInv`) has the same three parts:

* its types;
* while the link is up, its conversation (`Talk`): one conjunct for each place where
  the client or the server can be, saying what is under way in each direction.
  `InStep` is the conjunct for the client at rest. It needs all the others: an
  error in the middle of a result is followed by more messages, and the driver must
  read them before it rests. Once the link is lost the conversation is not claimed;
* the result: the relation between the rows the client has, those under way and
  those the database has produced.

An answer under way is described message by message, from its first to its last. For
Postgres `Counts(c)` gives to each message the number of rows the client will have
after it, so that each row message carries the next row, and the last number is that
of the rows produced if the answer is whole. For MySQL `MyRest(n)` does the same from
the position, as rows come without gaps after the n packets that describe the
columns, and the packet after the last row says how the answer ended. For MongoDB
`MgAnswer` ties the one reply to what became of the request. `CompleteOrError` and
`AnswerTrue` speak of the moment when the operation has returned, and neither is
inductive without these.

`LoopInv` is about the loop of a program over rows in memory: no request is
under way while it runs (`Resting`), and it has not seen more rows than there are.
`SqliteInv` counts the statements that are alive: one for the open loop and one for
each that was left early (`abandoned`). One of these keeps the database file open
after the close, which is why `Released` is about programs that leave no loop.

What a document becomes on its way is left open: `ToBson` and `FromBson` are any
two operators, so the theorems do not depend on the recursion in `Json`.

### Migrations

`MigrationsProofs` proves the four invariants of the run, for any number of
projects, migrations, failures and interruptions.

| Theorem | States |
|---|---|
| `TypeCorrect` | `Spec => []TypeOK`, any number of commands at a time |
| `OnlyWhatRanIsMarked` | one command at a time: `[]MarkedOnlyIfRun` |
| `ListAgreesWithDatabase` | one command at a time: `[]TrackingAgrees` |
| `MigrationsRunInOrder` | one command at a time: `[]InOrder` |

`OneSession` (at most one command runs on the machine) is a hypothesis that the
code needs: all builds write the same `out.ll` and `out`, and with two commands
at a time one runs the program of the other and marks what never ran. TLC finds
that in a few steps with two sessions.

`Shape` has the types, that a list names files of its project once each, and that a
command works on files of its project; `Honest` that the program in `out` is the
one the command has compiled, and that what is about to be marked has run.
`Tracking` is the core: for each project whose list is not lost there is an n such
that the list is 1, ..., n, or will be when the running command has written it, and
the database is `InStep` with n - migrations up to n are there unless their `down`
broke off, later ones are not unless their `up` did, and only what broke off can be
there in part. Each way for a step to end moves n or one of the two exceptions:
success moves n (`InStepRun`), breaking off adds an exception on its own side of n
(`InStepBreaks`), dying before the list is written turns the last step of n into an
exception (`InStepUnrecorded`). `TrackingAgrees` and `InOrder` are what remains of
it between commands. No assumption on crashes or on the SQL is left.

### Packages

`PackagesProofs` proves all four properties of the run, for any dependencies,
packages and versions, any number of commands, publishers and interruptions.

| Theorem | States |
|---|---|
| `NothingLost` | `Spec => []NoLostPublish` |
| `LockFollows` | `Spec => []LockFollowsManifest` |
| `LockTellsTheTruth` | `Spec => []LockTruthful` |
| `BuildsFollowTheLock` | `Spec => BuildMatchesLock` (an action property) |

The registry: the index is truncated before it is written back, so `NoLostPublish`
is not inductive. `Alone` says that as long as publishers do not overlap, the one
between these two steps is the only one, and that what it has read is complete.

The lock (`LockInv`): `Left` says which line of `vader.toml` a command has come to,
`Placed` that the lock it has made so far has an entry for each line before that
could be cloned, in order, and no other (with the lines of the entries as a witness), and
`Made` that, when none was passed over, the entries are those of the first k
clones as they are now. `Made` survives every later step because a clone that is
there never changes (`Grown`), which is the whole reason why builds, that never
read the lock, agree with it on this machine. `Origin` is the history of a clone:
whose it is depends on who asked first under that name and version. No line of
`vader.toml` is there twice (`NamedOnce`), and this is needed at each step: the
retain of `cmd_add` drops a single line, and an entry belongs to a single line.

### What is assumed, and what is only model-checked

The proofs assume the ASSUMEs of the constants and nothing else; TLC evaluates
these in every run.

Three theorems about migrations have the hypotheses given above.

Only model-checked:

* liveness (`Finishes`, `Connects`, `Returns`, `ScramConnects`, `EveryoneServed`),
  which is out of the prover's reach, as is ENABLED;
* `Sound` of `EscapeAnalysis` and `DocumentsIntact`, which are about what a recursion
  over expressions and over values computes: neither RECURSIVE operators nor
  induction over data can be handled.

## 5. Not modelled, and why

The lexer, parser, formatter, Go back end, scaffold and the stateless runtime
wrappers are sequential text transformations that unit tests cover well. The
type checker, the module loader beyond its fetches, the linter, the language
server and maps are not modelled yet. SQLite is third-party: its header
`runtime/sqlite/sqlite3.h` is most of the lines of C in the repository.
Hashes (SHA-1, MD5, SHA-256, HMAC, PBKDF2), base64, the reading of DSNs and
message texts are left out of the drivers, TLS beyond its negotiation too.
Out-of-memory is not modelled. In the models above: two migration commands at a
time (they share `out.ll` and `out`, and with two sessions `MarkedOnlyIfRun` is
false), several threads on one connection, binding of parameters (`VStmt`),
use of a SQLite statement after its end or of a MongoDB handle after close,
`\uXXXX` and control characters in JSON strings, BSON types the driver does not
know, concurrent HTTP serving, bodies with calls in loop heads or target
indices, outer names declared again or functions that leave goroutines behind (escape analysis), `mem.release` out of order, registries
behind git, lines of `vader.toml` that are cut in the middle, a write to a client
that never reads, and what a test process does after undefined behaviour that it
survives.

## 6. Plan

Done, in this order: channels and their proofs, the worker pool, arenas, escape
analysis, test harness, Postgres, HTTP, migrations, MySQL, MongoDB with JSON,
the databases together, the package manager, and the proofs about arenas, HTTP,
the test harness, the registry, the worker pool, migrations, coverage, the lock and
the databases.

Next, the most important first:

1. `Statement`: prepare, bind and run (`?` inside a literal, binding again).
2. `Monomorphize`: the worklists of `generate` and `generate_tests` (every
   instance that is referenced is emitted; it ends).
3. `VaderMap`: the hash table against a function.
4. `Modules`, `Check`, `Lint`, `Precedence`: pure algorithms against reference
   definitions over bounded programs.
5. `LanguageServer`: documents, edits and answers.

Every safety invariant of the runs that the prover can reach has its theorem; each
component of the list above should come with its own. For `EscapeAnalysis`, a version
with the verdict of each subexpression as a function over the nodes of a finite
program, in place of the recursion, would bring `Sound` within reach.
