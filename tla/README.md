# TLA+ models of sysbench

This directory holds TLA+ models of sysbench, the TLC configurations that check
them on small instances, and TLAPS proofs of the most important properties for
every value of the constants. `PROJECT.json` lists, for every definition that
models code, the source lines it stands for; for every run, its properties; the
hazards the properties are aimed at; and the theorems.

Run a model with `tlc -config MCTimers.cfg Timers` (the module of a
configuration is named in `PROJECT.json`) and check a proof with
`tlapm BarrierProofs.tla`.

## The system and its parts

| part | source | state | module |
|---|---|---|---|
| main program, command line, options | `sysbench.c` `main()`, `sb_options.c` | option table, exit status | `Main`, `Options` |
| Lua interpreters, custom commands | `sb_lua.c` | one interpreter per thread | `Main` |
| driver registry | `db_driver.c` `db_create()` | driver initialised, its mutex | `Main` |
| test runner | `sysbench.c` `run_test()`, `sb_thread.c` | threads, barriers, limits, exit status | `RunTest` |
| event loop, event generator | `sysbench.c` 688-928 | tickets, event queue, in-flight gauge, `sb_globals.error` | `EventLoop` |
| event queue | `ck_ring.h` | head, tail, slots | `Ring` |
| thread barrier | `sb_barrier.c` | count, serial, error, mutex, condition | `Barrier` |
| latency histogram | `sb_histogram.c` | slot arrays, cumulative array, lock | `Histogram` |
| timers, cumulative report, forced shutdown | `sb_timer.[ch]`, `sysbench.c` | per-thread timers and copies, spinlocks | `Timers` |
| counters | `sb_counter.[ch]` | per-thread words, two "last" copies | `Counters` |
| logger | `sb_logger.c` | last message, repeat count | `Logger` |
| random numbers | `sb_rand.c` | index and offset of the identifiers | `Rand` |
| SQL API: connections, result sets, statements | `db_driver.c`, `drv_mysql.c`, `drv_pgsql.c` | connection state, result set, statement handles | `DbConn` |
| bulk insert | `db_driver.c` 923-1070 | buffer, batch and commit counts | `BulkInsert` |
| compare driver | `drv_compare.c` | a session per server, answers, statement handles | `Compare` |
| SQL events and their restarts | `lua/internal/*.lua`, `oltp_common.lua`, `select_random_points.lua` | statement handles, transaction, session | `SqlEvent` |
| fileio test | `tests/fileio/sb_fileio.c` | request generator, claims, disk, asynchronous queues | `FileIO` |
| memory, mutex, threads, cpu tests | `tests/*` | | not modelled |
| CRC32, utilities | `crc32.c`, `sb_util.c`, `sb_list.h`, `sb_ck_pr.h` | | not modelled |

How they interact. `main()` parses the command line, loads the script and
dispatches the command. `run_test()` creates the workers and, depending on the
options, an event generator, a reports thread and a checkpoints thread, which
meet at two barriers. Workers then loop: ask `sb_more_events()`, execute an
event, record it in their timer, in the shared histogram and in their counters.
With `--rate` permission comes through the ring that the generator fills.
Reporting threads read counters, timers and histogram while workers write them.
Database events go through the SQL API of a connection that belongs to the
worker, over one of three drivers; the fileio test shares its files and its
request generator among the workers.

The composition follows that picture: `RunTest` instantiates `AbstractBarrier`
twice, and `Barrier` is shown to implement it; `EventLoop` uses an atomic FIFO
queue, and `Ring` is shown to implement one (`AbstractQueue`); `Main` extends
`Options` and holds interpreters and driver registry together, with `run_test()`
reduced to the calls they depend on.

## The modules

**Barrier, AbstractBarrier.** `sb_barrier_wait()` step by step: entry
under the mutex, the last arrival's callback, broadcast, waiters that wake (also
spuriously) and compare the serial number, which wraps modulo `SerialMod`. The
abstract barrier only knows who has arrived in the current round and what the
round's verdict was.

**EventLoop.** `sb_more_events()`, `thread_run()`, the end of `worker_thread()`
and `eventgen_thread_proc()`, one step per access to shared state. `tx_rate` is
chosen in `Init` and never changes, so that one run covers both modes. An event
may fail or be the null event at the end of a test. Time is one flag, `timeUp`.

**Ring, AbstractQueue.** `ck_ring_enqueue_spmc` and `ck_ring_dequeue_spmc`, one
step per access to shared memory in program order, with counters that wrap
modulo `CounterMod`.

**RunTest.** `run_test()` with every error return, the initialisation timeout,
warmup, joins and cancellations. A fault is a nondeterministic choice from
`Faults`. Workers are reduced to the limits they read and the events they count;
an aggregation of counters is its three shared accesses.

**Histogram.** Updates are single atomic increments; each of the four reading
functions holds the lock and moves one cell per step. The logarithmic scale is
abstracted to bucket numbers, the floating-point rank to the rounded integer.

**Timers.** Starting, stopping, checkpointing and merging timers with the
spinlock sections split into steps, and the `SIGALRM` handler of the forced
shutdown, which runs on top of any thread, including one that holds a spinlock.

**Counters.** `sb_counter_add()` as load and store, and the two aggregations as
one load per word.

**Logger.** `text_handler_process()`: the comparison with the last message and
the count are one step under `text_mutex`, the print another one after it.
`out` is the standard output, so repeat notices and interleaved prints show.

**Rand.** `sb_rand_unique()` as its atomic fetch-and-add and its return; words,
prime and mask are parameters (2^32, 4294967291 and an exclusive or in the
code). Uniform, Gaussian and string lengths are operators of the fraction that
the generator draws, an external number `n/d` below 1.

**BulkInsert.** The buffer is its lengths; rows are numbered, so that order and
duplication show. The server may refuse any statement.

**DbConn.** One API call per step (a connection belongs to one thread). `driver`
and `use_ps` are fixed in `Init`. What the server answers is the environment's
choice; the client libraries are external and appear as the set of live result
objects and the set of statements with a stored result. A read of
`rs->statement` after the statement was closed is a read of freed memory and
yields either outcome. The reconnect loops, which end with a session or when
`sb_globals.error` is set, are one step with these two outcomes.

**SqlEvent.** `thread_run()` of `sysbench.lua`, `check_error()`, and the hooks of
`oltp_common.lua` and `select_random_points.lua` for one worker. A statement
handle is the session it was prepared in, 0 when closed. Every statement may
deadlock, time out, fail for good or lose its session, and a COMMIT may take
effect although its answer is lost.

**Compare.** Every call visits the servers in turn, one step each, so that calls
of two workers interleave. A server holds the sequence of writes it executed and
answers a SELECT with it, or, as a fault, with something else. `history`
variables record whether calls failed, overlapped or were answered wrongly.

**FileIO.** `file_cmd_prepare()`, `file_prepare()`, the two request generators,
`file_execute_event()`, `file_thread_done()`, `file_done()` and cleanup. Sequential
requests are made under `exec_mutex` in one step; random ones take no lock, so
each load and each store of a shared variable is a step. The disk remembers for
every unit as which block it was last written. Asynchronous operations land at
any time after they were submitted.

**Options, Main.** The option table is a function from names to type, values and
validation. `Main` runs `main()` and the life of each thread's interpreter. A
scenario gives the command line, the configuration file, the options of the
script, the command and what may fail.

**MCSync, MCShared, MCDatabase** check several components in one run each. The
components in it share no state; a variable `part`, chosen in the initial state,
says which one moves. **MCRunTest, MCFileIO, MCMain** define the option values.

Definitions whose name contains an underscore and a capitalised remark, such as
`Released_Nothing`, are mutants: plausible mistakes in the code, kept to show
that each property would notice them. No specification uses them.

## The runs

| run | module | instance | what it shows |
|---|---|---|---|
| `MCSync` | `MCSync` | barrier: 4 threads, serial modulo 2; ring: 2 consumers, 4 slots, 7 values, counters modulo 8 | a failed callback fails its whole round (`VerdictShared`); `ImplementsAbstract`, liveness included; `ImplementsQueue`; the ring is drained (`Drains`) |
| `MCEventLoop` | `EventLoop` | 2 workers, ring of 4, 3 events, with and without `--rate` | `EventLimit`, `StampsIntact`, `ComesToRest` |
| `MCEventLoopWakeup` | `EventLoop` | 2 workers, `--rate`, no event limit | violated: `TimeLimitStops` |
| `MCRunTest` | `MCRunTest` | 2 workers; `--rate` and reports with all faults; warmup and checkpoints | `SuccessIsReal`, `SilencedBeforeFinal`, `MeasuredBound`, `RunEnds`, `ReportsAddUp` |
| `MCShared` | `MCShared` | 2 readers of 2 slots of 2 buckets; 2 workers and 2 counters; 2 loggers, 5 calls; 2 threads drawing identifiers of 4 bits | `NothingLost`, `CallsReturn`, `FinalReportComplete`, `NothingSwallowed`, `UniqueIds` |
| `MCTimers` | `Timers` | 2 workers, clock to 2, 2 events, one report and a forced shutdown | `EventsConserved`, `ReportRight` |
| `MCTimersShutdown` | `Timers` | as above, 1 event | violated: `ShutdownForced` |
| `MCDatabase` | `MCDatabase` | 2 statements, 3 results, 2 rows and fields, two drivers; buffer of 9, rows of 2 or 3, commit never or every 3 rows; 3 events of 2 statements, 3 errors, `--reconnect` 0, 1, 2 | `ResultsTracked`, `FetchSafe`, `ResultReleased`; `RowsInOrder`, `BufferFits`, `DoneCommitsAll`; `HandlesCurrent`, `EventsCommitted` |
| `MCCompare` | `Compare` | 2 workers, 3 servers, 1 write each, 1 fault | `ServersAgree`, `MismatchPrinted`, `NoFalseAlarm` |
| `MCFileIO` | `MCFileIO` | 14 sets of options, up to 2 threads, 2 files of 2 to 4 units, counter modulo 4, 1 failing call | `EndSynced`, `CountedOnce`, `FsyncOften`, `ValidationSound`, `RequestsInRange`, `RunFinishes` |
| `MCFileIOValidate` | `MCFileIO` | 2 threads, random reads and writes with `--validate` | violated: `BlockNotShared` |
| `MCMain` | `MCMain` | command lines of up to 3 of 14 options, 3 configuration files, 2 scripts; 5 commands with 13 choices of faults | `UserWins`, `ExitHonest`, `InterpretersSound`, `DriverUp` |

The comment above each property says what it states and where the code is.
Several properties hold only with an exception that the code makes necessary;
the exception is part of the formula and listed below.

The bounds are the smallest at which the cases of interest occur: two workers
race for a last event and two consumers for a slot; four threads let a round
finish while two of them lag behind; a ring of four wraps, and its counters
started at 6 modulo 8 wrap too; the queue of the event loop overflows (six events
for three places); two result sets of different width follow each other on one
connection, and a third result object exists when two have been lost; three
errors let an event be restarted after a deadlock, lose its session and fail
again during the repreparation; three servers let a call fail on the second with
the third not reached; a counter modulo 4 wraps within eight requests; three
options on a command line put a value before, between and after a configuration
file. Identifiers of four bits with the prime 11 leave five numbers that are
mapped to themselves, as the code does with the five above its prime. Every bound
is a named constant. Deadlock checking is off where the system stops by design (a
finished run, a barrier that turned everybody away, exhausted bounds).
`MCCompare` permutes the workers; its properties are invariants and action
properties, for which that is sound.

### Fairness

* `EventLoop`, `RunTest`, `Ring`: weak fairness of each thread's own steps and of
  the clock. The threads are kernel threads that the scheduler runs; nothing is
  assumed of a thread that waits for a condition, and spurious wakeups are not
  fair. The initialisation timeout is a timer, hence weakly fair.
* `Histogram`: weak fairness of readers and strong fairness of taking the lock:
  `pthread_rwlock_wrlock` does not starve a caller for ever when the lock is
  released again and again.
* `Timers`: the same for the spinlocks. Strong fairness only helps the code, so
  the violation of `ShutdownForced` does not rest on it: the handler waits for a
  lock whose holder it has interrupted.
* `Barrier`: weak fairness of a thread that is inside `sb_barrier_wait()`, and of
  nothing outside, so that the abstract liveness (a complete round is left by
  everybody) is what is shown.
* `FileIO`: weak fairness of the process as a whole (some thread's step or some
  landing operation happens as long as one can) and of the join in `main()`. The
  retry loop of `file_get_rnd_request()` is one step that waits until some block
  is not claimed and then picks one: that the loop finds such a block is left to
  the random numbers, that there is one is what `RunFinishes` shows.
* `Counters`, `Logger`, `Rand`, `BulkInsert`, `DbConn`, `SqlEvent`, `Compare`,
  `Main`: safety only.

## Where code and comments disagree

Three runs end in a violation, each recorded as a finding with the quoted text:

* `TimeLimitStops`: a worker between its failed dequeue and `pthread_cond_wait()`
  misses the generator's last broadcast, which is sent without the mutex
  (`sysbench.c` 717-721 and 903), and sleeps past `--time`.
* `ShutdownForced`: the handler takes timer spinlocks (`sysbench.c` 387, 431) that
  the interrupted thread may hold.
* `BlockNotShared`: two threads of a random fileio test with `--validate` may pick
  the same block, because nothing is locked between the test and the claim
  (`sb_fileio.c` 538-551), although a mutex is released at 557.

Other deviations are part of the models; the property that holds names them as
its exception:

* an error ends the dequeue loop with no event in hand, and its stamp is read
  (`sysbench.c` 740): `ComesToRest` shows that this needs an error;
* the in-flight gauge stays too high when a test runs dry (783): the theorem
  `GaugeAlwaysCovers` is an inequality;
* the checkpoints thread can overlap the final aggregation (1009, 1238):
  `ReportsAddUp` holds if two aggregations never overlap;
* a reporting thread that cannot create its Lua state returns before the barrier
  (947): exception of `RunEnds`, as is the missed wakeup;
* `sb_histogram_print()` of an empty histogram returns with the lock
  (`sb_histogram.c` 311): exception of `CallsReturn`;
* `sb_histogram_new()` leaves `cumulative_nevents` unset (345): `Histogram` is
  about the statically allocated latency histogram;
* `sb_timer_reset()` clears the queue time of an event under way
  (`sb_timer.c` 59), unsigned differences make stopped timers look running (75),
  and a forced shutdown computes latencies before it stops the timers
  (`sysbench.c` 405): modelled, no property claims otherwise;
* the length of a row is not tested again after a flush (`db_driver.c` 1006):
  `BufferFits` is proved for rows that are alike to the buffer;
* `rs->statement` survives a statement without result set (`db_driver.c` 486), so
  that `mysql_drv_free_results()` may take the result of a later plain query for
  the statement's and drop it: the exception of `ResultReleased`;
* the PostgreSQL driver keeps the `PGresult` of a status it has no case for
  (`drv_pgsql.c` 584): the answer `"odd"` of `DbConn`; such a result is never in
  `rs->ptr`, so no property of `DbConn` is about it;
* an event whose COMMIT took effect while the answer was lost is run again and
  committed twice: `doubtful` in `EventsCommitted`;
* `select_random_points.lua` has a `thread_init()` of its own, so `--reconnect` or
  a lost session ends its thread, although `oltp_common.lua` 72 offers
  "Reconnect after every N events": the script `"points"` of `SqlEvent`;
* `check_error()` of the compare driver looks at connection 0 only
  (`drv_compare.c` 914-926), so that a session lost on another server is never
  restored, and a failing statement has reached some servers only: `ServersAgree`
  holds until a call fails; writes of two workers may reach the servers in
  different orders, and a buffer into which no row was printed is compared all
  the same: exceptions of `ServersAgree`, `MismatchPrinted` and `NoFalseAlarm`;
* files are synced at the end before asynchronous operations have landed
  (`sb_fileio.c` 1042-1059): exception of `EndSynced`; a random test updates
  `fsynced_file` without a lock and may run past the last file (512, 579), and a
  total size that the number of files does not divide leaves requests past the
  end (1526): exceptions of `RequestsInRange`; blocks that do not divide the
  files, merged requests and other kinds of I/O fail to validate: exceptions of
  `ValidationSound`; with fewer blocks than threads the retry loop (529-548)
  never ends: exception of `RunFinishes`;
* a script option with the name of a general one replaces the user's value by its
  default, a bare flag of the script is lost when the configuration file mentions
  the option, and `--debug` overrides `--verbosity`: exceptions of `UserWins`;
* failures of `done()`, `thread_done()` and of the threads of a parallel command
  (`sb_lua.c` 990) do not reach the exit status: exceptions of `ExitHonest`;
* when a thread cannot be created `main()` tears down under the threads that run,
  and a reporting thread whose script does not load exports options to an
  interpreter that is not there: exceptions of `InterpretersSound` and `DriverUp`.

Behaviour of the server is not claimed. In particular a MySQL lock wait timeout
leaves the transaction open, and the BEGIN of the restarted event then commits
its first part; the PostgreSQL driver issues a ROLLBACK itself (`drv_pgsql.c` 565).

## The proofs

Eight modules hold the proofs, each for one or several components that it
EXTENDS. Every one shows an inductive invariant (`Init => Inv`,
`Inv /\ [Next]_vars => Inv'`) and derives the properties from it; the named
assumptions are in the component's module and TLC evaluates them in the runs.

**BarrierProofs**

* *Barrier* (`Threads` finite and not empty, `SerialMod >= 2`). `BarrierInv` says
  that the count is the number of threads missing from the round, that the mutex
  protects the callback, and that nobody waits in a round that has finished.
  From it `SharedVerdict` (`VerdictShared`) and `BarrierRefinement`: every
  behaviour of the barrier is one of the abstract barrier (safety part).

**EventProofs**

* *EventLoop* (`RingSize >= 2`, any finite set of workers, any limits).
  `EventLimit` alone is not inductive: a worker that has its ticket has not been
  granted its event yet. `TicketsBound` counts these holders too. `StampsIntact`
  needs `QueueShape` (the queue is a run of consecutive slots shorter than the
  ring) and a lemma on remainders. `GaugeCovers` is proved as it stands.
* *Ring* (`RingAssumption`: at least two slots, counters modulo a multiple of the
  size, and fewer values than the counters can tell apart, which excludes that a
  consumer sleeps through a whole turn of the counters and then succeeds).
  `RingImplementsQueue` (`ImplementsQueue`): every step of the lock-free ring is
  a step of a first-in first-out queue or leaves it as it is. `RingInv` adds that
  the producer has room for the value it copies, that a head read by a consumer
  is older than the present one by no more than the values taken since, and that
  while it still is the head, what the consumer has copied is the first value.
* *Compare* (`CompareAssumption`; any number of servers and workers).
  `CompareInv` says which writes have been issued, which servers a call has
  reached, in which order the writes arrived while no calls overlapped, and which
  answers a call has collected. From it `ServersStayAlike` and the action
  properties `AlarmsAreReal` (`NoFalseAlarm`) and `MismatchesArePrinted`
  (`MismatchPrinted`).

**RunTestProofs**

* *RunTest* (`ConfigAssumption`: no worker has the name of one of the other
  threads; any finite set of workers, any options and faults). `SuccessIsReal`
  alone is not inductive: that the main thread returns 0 says nothing of the
  workers unless it is behind their join. `RunInv` adds that behind the join all
  workers have ended and the reports are silenced, that a worker gives up and
  `worker_barrier` turns a thread away only when an error is set, and that a
  reports thread in its loop has set its flag, so that it is either cancelled or
  finds the reports silenced. From it `SuccessStaysReal` and `FinalReportSilent`.
  `StatsInv` counts the workers that have been granted an event and have not
  counted it yet, and says that nobody passes `report_barrier` before the main
  thread arrives, so that no checkpoint disturbs the warmup; from it
  `MeasuredIsBounded` (`MeasuredBound`). `EveryEventReportedOnce`
  (`ReportsAddUp`) assumes of the behaviour, as the property does, that two
  aggregations never overlap.

**MainProofs**

* *Main* (`MainAssumption`: no worker has the name of another thread; any
  scenarios). `MainInv` says where the threads can be while `main()` is
  somewhere, that a failure is on its way to the exit status, whose interpreters
  are open, and what the holder of the driver's mutex finds. From it
  `ExitStatusIsHonest`, `InterpretersAreSound` and `DriverStaysUp`. The options
  play no part in it.

**TimersProofs**

* *Induction and sums.* The library's induction theorems cannot be used with the
  installed provers; `LeastNat` and `Induct` state induction as a fact about a set
  of naturals, from the well-foundedness of `<`, and the lemmas on `SumUpTo`, the
  quotient and the remainder rest on them. `SharedProofs` uses them too.
* *Timers* (`TimersAssumption`: twice the last time is below `UINT64_MAX`; any
  number of threads). `ConservedInv` says who is inside which spinlock section,
  that a copy about to be counted is still what the timer holds, and that times
  lie in the past. From it `CheckpointsConserveEvents` (`EventsConserved`).
  `SummedInv` adds that each timer and each copy sums up the latencies that it
  stands for; from it `ReportsAreRight` (`ReportRight`), by induction over the
  merge of the copies.

**SharedProofs**

* *Histogram* (any slots, buckets and readers). `NothingLost` is inductive
  with the types and the fact that whoever merges holds the lock: `NoUpdateLost`.
* *Counters* (any number of threads and counters). `CountersInv` says that the
  workers are quiet when a final report begins and which part of the words an
  aggregation under way has read: `FinalReportIsComplete`.
* *Logger* (any finite set of threads). `NothingSwallowed` is inductive with the
  types; the work is in the sum over the lines printed: `NoMessageSwallowed`.

**DatabaseProofs**

* *DbConn* (any sets of statements and results, any bounds). `IInv` adds to the
  types that a pointer in `rs` is live and set only in `DB_CONN_RESULT_SET`, that
  only the MySQL statement `rs` names stores a result, and that values and row
  number are clear outside that state. The lemma `ReleasedClean` says that the
  release at the start of each call leaves nothing behind, `AnsweredKeeps` treats
  the answers of the server one by one. From it `TypeCorrect`, `ResultTracking`
  (which includes that the early return for a failed release is never taken) and
  `FetchSafety`.
* *BulkInsert* (any buffer length, row lengths and commit interval).
  `RowsInOrder` and `CommitCountExact` with `BufferShape` are inductive; lemmas
  about concatenation carry the order across flush and commit.
  `BufferNeverOverrun` assumes `RowsAlike`: behind any INSERT text, either every
  row fits alone or none does; without it the property is false.
* *SqlEvent* (`NWork \in Nat \ {0}`, any statements). `SqlInv` adds to the types
  that the handles are open and of the current session unless that was just lost,
  that the work behind a BEGIN is what the earlier statements of the event did,
  and how committed and counted events relate. From it `HandlesStayCurrent` and
  `CountedMeansCommitted`.
* *Rand* (`WordAssumption`: the prime is at most the number of words;
  `SeedAssumption`: the seeds are words; `MaskAssumption`: the mask is one to one;
  `PrimeAssumption`: the modulus is odd, equal residues of squares come from
  numbers that are equal or add up to it, and no two residues of numbers other
  than 0 add up to it, as for every prime that is 3 modulo 4). The permutation is
  one to one on words, by cases on which half of the range a number lies in, so
  identifiers are equal only for equal indices. `IdsUnique` alone is not
  inductive: `RandInv` adds that the indices taken are the words behind the seed,
  at distances below the number taken. `UniformInRange`, `GaussianInRange` and
  `VarstrFits` bound the operators for every fraction drawn below 1.

**FileIOProofs**

* *FileIO* (`FileIOAssumption`: the options have their types, at least one
  asynchronous operation may be queued; any set of threads, any sets of options,
  any number of faults, any modulus of the request counter). `EndSynced` alone is
  not inductive: it says nothing before the end. `Synced` says that while a file
  has unsynced data, some thread still has to sync it, either at the end of its
  own run or directly after its write; it rests on `Phased` (where the threads
  can be in each phase of the test) and `Moded` (which requests and places each
  mode admits). From it `SyncedAtTheEnd`. `Freshness` says that the writes since
  the last series of fsyncs are at most the request counter modulo the frequency,
  or a whole turn of it, and that the series stays inside the files, so a wrap of
  the counter only brings the next series forward: `FsyncsAreFrequent`.

Only model-checked: all liveness properties (they need fairness and ENABLED,
which the prover does not handle), the liveness part of `ImplementsAbstract`,
`ResultReleased` of `DbConn`, `UserWins` of `Options` and `Main`, and
`CountedOnce`, `RequestsInRange` and `ValidationSound` of `FileIO`.

## Not modelled

* The memory, mutex, threads and cpu tests: each thread counts its own requests
  down, or takes a lock and releases it; no control depends on another thread
  beyond the mutual exclusion of the library's locks. What is delicate in them is
  arithmetic of a single line: the memory test loses the remainder of total size
  by block size and threads, `--mutex-locks=0` wraps an unsigned countdown, and
  `--thread-locks=0` divides by zero.
* Pareto and Zipfian numbers (real powers and logarithms), the generator
  xoroshiro128+, CRC tables, size suffixes of options.
* The text of reports, log messages and SQL; the prepare and cleanup commands of
  the SQL scripts; conversions between Lua and C values; parameter binding.
* `--mysql-dry-run` (every driver operation then returns at once), the rotation
  of hosts and sockets, and fetching through the compare driver.
* `--help`, `--version` and the lookup of built-in tests in `main()`; allocation
  failures other than those `RunTest` and `Main` name.
* The stamp a worker reads after its dequeue, and the printed number of unfinished
  transactions: hazards listed without a property.
