# Verification of ilios

TLA+ specifications of ilios, the Ruby driver for Cassandra written in C
(`ext/ilios/*.c`), with the instances that TLC checks and theorems that TLAPS
proves. ilios is a thin layer over the DataStax C/C++ driver: what it adds, and
what can go wrong in it, is the coordination between the user's Ruby threads, two
pools of Ruby threads that run callbacks, Ruby's global VM lock (GVL) and the
driver's own IO threads.

## Inventory

| component | state | operations | interacts with |
|---|---|---|---|
| Future (`future.c`) | the CassFuture, two blocks, a mutex, a semaphore, `already_waited`, `yielded` | `on_success`, `on_failure`, `await` | pools, driver, user threads |
| Thread pools (`future.c`) | a `SizedQueue` of `QUEUE_MAX` = 100 futures and `THREAD_MAX` = 5 thread slots, for prepare and for execute | push and pop, creation and re-creation of threads, a future's turn (`future_result_yielder`) | futures, user blocks |
| Waits outside the GVL (`nogvl.c`) | none | wait for a future, hand over a request, wait for a semaphore; unblock function | driver, interrupts |
| Statement (`statement.c`) | the prepared query, a scratch statement, `bound_values`, page size, idempotence | `bind`, `page_size=`, `idempotent=`, `statement_build_for_execution` | the caller's objects, Session |
| Session (`session.c`) | the CassSession | `prepare`, `execute` and their `_async` forms | driver, Statement, Future, Result |
| Result (`result.c`) | the current page, its future, the executed statement | `next_page`, `each` | driver, iterators, user blocks |
| Cluster (`cluster.c`) | the CassCluster, the keyspace | `hosts`, the setters, `keyspace`, `connect` | driver, the caller's Array and String |
| Ownership (all of `ext/ilios`) | the handles and references in the fields of each object | creation, hand-over from future to result (`future.c:116-122`), mark and destroy functions, write barriers | garbage collector, interrupts |
| Values | none | conversions to and from CQL in `hash_cb` and `result_convert_row` | |
| Setup, accounting (`ilios.c`) | the total reported to the GC | malloc, realloc and free for the driver | allocator |

What makes each component hard, and what makes it correct:

* **Future and pools.** A registration checks whether the driver has answered and
  otherwise leaves the block to the pool; the answer may come at any point in
  between, from a thread that takes no lock. Both registrations, the pool's turn
  and `await` share flags, only some of which are read under the mutex. Blocks run
  user code with the mutex held, may raise (which kills a pool thread), and may
  register with and await other futures. The queue can be full. An exception from
  outside (`Timeout`, `Thread#raise`) can end a sleeping call. Correct means: at
  most one block runs, once, for the outcome the future has; a block that is owed a
  run is never left to nobody; `await` returns, and not before the future is
  resolved and the block has run.
* **Statement and Session.** The driver encodes a statement after the call that
  executes it has returned, while the user binds the next values (issue #12). A
  conversion written in Ruby gives other threads a turn in the middle of a bind.
  The caller's Strings and objects change after they were bound. A bind may fail
  halfway. Correct means: an execution carries the values and options the statement
  had when it was asked for, and two binds do not undo each other.
* **Result.** Pages are loaded by setting the paging state of the statement the
  result was executed with; a request may fail or be interrupted and is retried;
  the page can be replaced while it is iterated. Correct means: pages come one at a
  time and in order, and the page in hand is always readable.
* **Cluster.** `hosts` goes through an Array of the caller with a conversion at every
  element that may run Ruby code, and stops halfway at a bad one. Setters convert to C
  integers and do not look at the driver's error codes. The keyspace is a String of the
  caller that is looked at when it is set and read at `connect`. Correct means: nothing
  is read past the Array; after `hosts` the contact points are there; a session gets the
  numbers that were given last, and a keyspace with no NUL.
* **Ownership.** A driver handle is in a C frame first and in a field of a Ruby object
  later; an exception may come in between. Objects die in any order, with requests in
  flight, and hold each other through mark functions and write barriers only. Correct
  means: every handle has one owner, which frees it once; nothing is freed that a call,
  a block or a pool thread goes on to use; what is lost is lost with an exception.
* **Values.** C casts, floating-point rounding, times before the epoch. Correct means:
  a value is read back as it was bound, to the precision of the column, or refused.
* **Accounting.** Drift between requested and usable sizes; see "Not modelled".

The hazards this code is exposed to are listed, each at its line and with the
properties that cover it, in `PROJECT.json`.

## Modules

| module | what it is |
|---|---|
| `Promise` | what a future promises, with no thread in sight |
| `Future` | the futures and the pools, at the granularity of the GVL; implements `Promise` |
| `MCFuture` | values for its constants |
| `FutureProofs` | proofs: types; that one block runs, once; the hand-over from registration to queue to pool thread to `await`, and that `Future` implements `Promise` |
| `Binding` | what a statement promises to its user |
| `Statement` | bind, options and execution of one statement; implements `Binding` |
| `MCStatement` | values for its constants |
| `StatementProofs` | proofs: all that is checked of `Statement`, and that it implements `Binding` |
| `Paging` | one result: first page, `next_page`, `each` |
| `MCPaging` | names for its constants |
| `PagingProofs` | proofs: types, the page in hand, and the order of the pages |
| `Ownership` | what becomes of a driver handle, with no call and no collector in sight |
| `Handles` | the objects of the extension, the calls that make and use them, and the collector; implements `Ownership` |
| `MCHandles` | values for its constants |
| `HandlesProofs` | proofs: types, and that no handle is freed twice |
| `HandlesReach` | proofs: what is referred to exists, and what is in use is not freed |
| `HandlesOwnership` | proofs: `Handles` implements `Ownership` |
| `ColumnTypes` | one column: the conversions of `hash_cb` and `result_convert_row`, bound, read and bound again |
| `MCColumns` | values for its constants; extends `MCStatement`, so that one run checks both |
| `ColumnTypesProofs` | proofs: powers of two, rounding, and all that is checked of `ColumnTypes` |
| `Cluster` | one cluster shared by threads: contact points, settings, `connect` |
| `MCCluster` | values for its constants |
| `ClusterProofs` | proofs: all that the run of `Cluster` checks |

How they fit together: `Statement` says what a request carries, `Paging` what is done
with the answers, `Future` when the blocks are called; `Handles` has all of these calls
again, reduced to the handles they hold, and adds the collector. `MCColumns` puts
`ColumnTypes`, what a conversion gives, beside `Statement`, when it is made; they share
no state, and a behaviour of that instance is of one or the other.

Definitions have the names of the C functions they translate wherever there is
one. Operators marked "Mutant" state a plausible bug of the definition that follows
them; no specification uses them, they are there to show that a property notices.

### Future

A state has, per future, the fields of `CassandraFuture` (`outcome` stands for the
driver's future), per pool its queue, per pool slot whether its thread is alive, and
for each thread `pc[t][f]`, where it is in its call on `f`, with `stack[t]` the calls
it is nested in (a block runs inside `on_success`, `on_failure` or a pool thread's
turn, and may make calls).

*Steps.* Ruby threads run under the GVL, so C code that does not call into Ruby or
`nogvl.c` is atomic for the other Ruby threads. A step is the code between two points
where the GVL can change hands: a mutex that is taken, `SizedQueue#push` and `#pop`,
the waits of `nogvl.c`, and a block. The driver's `Resolve` takes no lock and
interleaves everywhere; within a step the code asks for the outcome once, or asks
again only when it has it and it cannot change any more.

*The code and the actions.* `future_on_success` and `future_on_failure` are one
operator `Register` with the outcome as parameter, for the two functions are the same
but for that. The guard is read before the mutex (`future.c:267`), the rest
(`Synchronized`) with the mutex held: `runNow` is the condition that the method's own
block can run at once, `wakeup_thread` that the other block is absent, so that a push
is due. `future_queue_push` is a push that may find the queue full (`push`), then the
creation of missing threads (`prepare_thread`). `future_await` goes through
`lock_await`, `await_future` (`nogvl_future_wait`) and `await_sem`
(`nogvl_sem_wait`). A pool thread pops (`WorkerPop`), waits for the future
(`WorkFuture`), takes the mutex (`WorkLock`), runs the block (`yield`) and posts in
the ensure clause (`Finish`); when the block raises, nothing rescues it and the thread
is gone (`YieldRaise`). `Interrupt` is an exception from outside in a call that
sleeps, and for `await` also the unblock function's post, which may end the wait with
or without an exception (a wakeup, a trapped signal).

*Left out.* The objects a block is called with are the subject of `Handles`;
futures of different sessions share the pools and need no distinction.
Registration from several Ractors is not modelled.

### Statement

`hashes` is every hash that was `bound_values`; `cass` every CassStatement, the first
being the scratch statement that validates. `gvl` is the holder of the GVL: a thread
keeps it through a call, gives it up where a conversion runs Ruby code, and takes it
again to go on. A call of `bind` is `statement_bind`, then for each key `Reach` (and
`Convert`, after Ruby code), then `BindReturn`; an execution is
`statement_build_for_execution`, the same keys with no hash to store into, and
`nogvl_session_execute`. A key is as it was spelled, and `ColumnOf` says which parameter
it names, for the driver takes two spellings that differ in case for the same. The keys
of a hash given to bind come in any order; those of `bound_values` in the order in which
they were stored first (`older`), which an execution follows. Values are members of
a small set with a kind: *plain* converts with no Ruby code and never changes;
*string* may be changed in place by its owner, and is snapshotted; *time* is converted
by Ruby code and its conversion is stored (`to_time`, `to_str`); *object* is converted
by Ruby code at bind and again at every execution (`to_int`, `to_f`). What a value
converts to is a content or `Invalid` (out of range, wrong type, no UUID). The
driver reads the statement (`Encode`) at any time after the request.

### Paging

`requests` are the CassFutures, `token` the paging state of the statement, `result`
the page in hand, `freed` the pages that were freed. `next_page` is three steps, with
the GVL given up between them: set the paging state, make the request, receive. The
driver encodes the paging state it finds some time after the request, and answers
with the next page or with an error. An exception from outside can end the call
before the request, after it, or when the wait is over. An iteration of `each` is a
block or an external enumerator, so `next_page` may be called in the middle of it.
Row contents are left out: a page has `Rows` rows;
what a column becomes is in `ColumnTypes`.

### Handles

`own[o]` and `ref[o]` are the fields of object `o` for driver handles and for other
Ruby objects (`ilios.h:36-90`), `call[t]` the C frame of thread `t` with the handles
only it knows. `driver[h]` is what the driver thinks of a handle: `free`, `live`, `lost`
(nobody can name it any more) or `twice` (freed when it was not live). Handles are
numbered by what they are obtained for and used again after they are freed.

*Steps.* Calls are atomic between the places where Ruby may collect or switch threads:
an allocation of a Ruby object, a request or a wait outside the GVL, a call of a block.
The driver's own allocations only adjust a counter (`ilios.c:41-61`) and do not start
the collector, so the plain stores right after a `CREATE_*` need no step of their own. `future_create` has two allocations, hence `future_create` and
`FutureCreated`.

*The collector.* `Mark(f)` is the moment at which incremental marking goes through
future `f`; for objects of other classes the moment does not matter, for their fields
are set before the next allocation. From then on the collector knows the objects it saw
(`seen`), and what a write barrier adds (`Barrier`). `Collect` ends the marking at the
roots and sweeps; the program may have dropped any of its references (`kept`). The roots
are those of the program, the stacks of the calls, and the queues and threads of the
pools (`pooled`, which stands for the queues and pools of `Future`). Each destroy
function frees only what its own fields name, so the order of a sweep does not matter;
that no two objects name the same handle is what is checked. `Exit` destroys every
object, so that what is left over afterwards was lost.

*Exceptions from outside* are taken before or after a call outside the GVL
(`Interrupted`): the frame's handles are lost, and the CassFuture that the call would have
returned. The comment at `statement.c:187-192` has every executed statement freed exactly
once; an interrupted `execute_async` does not free it, and `Ownership` allows that and
no more. A dropped enumerator loses its iterator in the same way (`Abandoned`).

*Left out.* The hash of `bind` and the String of the keyspace as objects of the
collector (both are stored with barriers and marked), the semaphore, and compaction,
which updates the same fields that are marked. The program uses a
result in one call at a time (`NotInUse`); two calls are the subject of `Paging`.

### ColumnTypes

A column of type `value_type` (`column`), the value the program binds (`bound`) and what
it read (`row`): it binds (`BindValue`), reads (`ReadRow`) and takes what it read for
the next bind (`TakeRow`), in any order; or it begins with a row that others wrote.
`hash_cb_value(type, v)` is the set of what a column may hold after `v` was bound,
or the exception; `result_convert_row_value(type, c)` is what a row gives for it.
The widths are constants. Integers are as wide as `Bits` says; a double has
`DoubleDigits` binary digits, a float `FloatDigits`; both are rounded to nearest, ties to
even (`Divide`). A floating-point number is `[m, e]`, for m times `Two[e]`; `Excess` is by how
many digits a number is too long, and it is `Representable` when those are zeros. There
is no smallest exponent: numbers near zero do not lose digits as denormal ones do. A Float
is counted in halves (so that truncation shows), a Time in parts of a
millisecond. `BindTime` is the C expression of `statement.c:136` with all of its
roundings, two in `Time#to_f` (the count of parts as a double, then the quotient) and one
in the product, and then truncation; a product that does not
fit in 64 bits is undefined in C, and is a choice of what x86 and ARM do.

How exact a time is depends on how the digits of a double and the size of the count
compare, so `TimesKept` says so: within 2^51 milliseconds of the epoch (some 70000
years) at most one is lost, and none of a whole second while the count of nanoseconds, a
multiple of 10^9 and so of 2^9, has 53 digits before those zeros: for less than 2^62 ns,
until the year 2116.

### Cluster

`contacts`, `config`, `policy` and `keyspace` are the CassCluster and the struct's
field; `string` and `array` are the caller's and change at any time (`Change`) when
another thread or a conversion has the GVL. `hosts` is `cluster_hosts` for the first
element and `HostAdded` for each turn: the element was read before the conversion, the
length is looked at after it. The five setters with one Integer are one operator with
the setting as parameter; they differ in the C type they convert to (`Converts`, `AsC`)
and in what the driver refuses (`DriverSet`). A NUL in the keyspace raises in `connect`,
where the String is read. What the driver does is external: a
blank contact point clears the list, some numbers are refused with an error code that
nobody looks at, and `connect` copies the configuration.

## Checks

"Passing" runs, and what each shows. All are exhaustive for their constants.

| run | instance | shows |
|---|---|---|
| `future_core` | 2 clients, 2 futures, 1 thread, queue of 1, blocks of `e` may raise, 1 interrupt anywhere | all safety properties, and that `Future` implements `Promise` |
| `future_live` | 2 clients share a future, another future, whose block may raise, competes for a queue of 1; pool of 2 threads | every `await` returns, every owed block runs, with one thread dead too |
| `future_nested` | a block of a prepare future awaits an execute future (README's example), 1 thread in each pool | nobody waits for ever; `await` returns after the caller's own block (`AwaitSeesOwnBlock`) and not before the future is resolved (`WaiterResolved`) |
| `statement_threads` | 2 threads, all kinds of values, a column in two spellings, 2 binds, 2 executions | executions are encoded as built and accept what bind accepted, with conversions interleaved |
| `statement_single` | 1 thread, all kinds, Strings that change, options; every column type, scaled integers, floats and times, bound, read and bound again | `Statement` implements `Binding`; what is bound is read back, to the precision of the column, or refused |
| `paging_single` | 3 pages, 2 iterations, 2 failures, 1 interrupt, the README's loop | pages in order, page in hand readable, no paging state set under a request unless an exception left it behind, the loop gets to the last page |
| `handles` | one object of each class, a client and a pool thread, collector anywhere, interrupts | every handle has one owner and is freed once; nothing in use is freed; no field refers to an object that is gone |
| `cluster` | 2 threads, 3 calls, 2 changes of the caller's Array or String | nothing read past the Array, hosts kept; the numbers handed over are those given last, of which some are refused and some wrap |

Runs that end in a violation show where the code does not do what its documentation,
a comment or a test says; `PROJECT.json` quotes the line under "findings":

| run | the program does |
|---|---|
| `await_early` | `on_failure` on a future that has succeeded posts the semaphore (`future.c:292`) before the queued `on_success` block has run; `await` returns too early |
| `pool_dead` | blocks that raise kill all threads; futures left in the queue wait for a push that may never come |
| `bind_lost` | of two binds that overlap at a conversion, one is lost without an error |
| `mutex_swept` | a future that is marked between its own allocation and that of its mutex loses the mutex: the store has no write barrier (`future.c:212`) |

Other behaviours of the code bound what the properties can say; the instances of the
passing runs, or the statement of a property, leave them out on purpose:

* a second thread's `await` returns at once, whether or not the future is resolved
  (`future.c:343`): `AwaitSeesOwnBlock` and `WaiterResolved` are about a thread that
  waited in `await` itself;
* an interrupted `await` may leave the post of the unblock function behind, or take it
  for the future's own (`nogvl.c:68`): `AwaiterNotStranded` says that this never leaves a
  thread asleep, `AwaitSeesOwnBlock` assumes that there is no interrupt;
* a thread that registers both blocks can come back before either has run
  (`await_early`): `AwaitSeesOwnBlock` is about one that gave one block only;
* a `next_page` that an exception ended leaves its request in flight, and the next one
  sets the paging state of the statement the driver may be encoding, which the comment
  at `result.c:59-61` excludes: `NoneInFlight` allows it after an interrupt;
* the CassStatement and the CassFuture of a call that an exception ended, and the
  iterator of a dropped enumerator, are lost until the process ends (`session.c:99`,
  `result.c:246`);
* some times are bound one millisecond nearer to the epoch than they are
  (`statement.c:136`): `TimesKept` allows one, and none for whole seconds whose count is
  exact as a double. Later that count is rounded too, and `test_statement.rb:206-212`, which has
  whole seconds back exactly, would fail: first at 2116-02-20 23:53:41 UTC, where 4611686021 s
  are bound as 4611686020999 ms; text is read
  back as bytes with no encoding;
* a setter of the cluster returns self when the driver refused the number, and the one
  before it stays in force; `NUM2UINT` takes a negative int as a number greater than any
  int (`cluster.c:169`): `SettingsKept` says just that of the three cases;
* a key that spells a column in another way is another key of `bound_values`, and keeps its
  place when its value changes (`statement.c:168`): the execution binds both, and the
  spelling stored later wins, even when the value given last was for the other.
  `BoundAsGiven` and `BindingSpec` are about one spelling of each column;
* two threads in `on_success` of one future can both pass the guard, which is read
  before the mutex (`future.c:267`): the second block replaces the first. `CallbackOnce`
  and `QueuedOnce` hold all the same, and allow it;
* an exception that ends a push leaves a block that nothing will run
  (`future.c:245`): `NoLostCallback` and `AwaiterNotStranded` name the futures this
  happened to (`aborted`);
* a block that awaits a future of its own pool occupies the thread that may have to run
  the other block (`future.c:129`); with all threads of the pool in that position
  nothing goes on. `future_nested` has the two futures in different pools, as in the
  README of the project;
* an object with `to_int` or `to_f` is converted again by every execution
  (`statement.c:168`): in the passing runs only Strings change after bind;
* an execution on another thread can iterate, and carry half of, a bind in progress
  (`statement.c:248`); `statement_threads` includes it, and what it checks does not
  depend on it;
* two threads in `next_page` of one result install their answers in any order, and
  `next_page` frees a page that is being iterated (`result.c:62`, `result.c:73`):
  one thread in `paging_single`, and no property of what an interrupted iteration reads.
  `PageReadable` is proved for any number of threads.

**Bounds.** Two futures are enough for one to wait in the queue or for the queue
while the other has the thread, and two clients for every race between two
registrations, or a registration and an `await`, on one future; a pool thread is the
third party. With `THREAD_MAX` = 1 and `QUEUE_MAX` = 1 the limits of 5 and 100 are
reached by two futures. `Calls` says which methods user code calls where; an instance
leaves out calls only to keep the state space small. `MaxInterrupts` = 1 in
`future_core`. Two binds and two executions are enough for a bind to overlap another
one and two executions, and for a statement to be bound again while the first request
is not encoded. The hashes given to bind have one or two keys, one of which may be
refused for its value or its name. Three pages with two failures allow a failure before
and after a page was loaded, and two in a row; `MaxRequests` in `paging_single` is the
number of requests that these failures and interrupts allow, so it never stops the run. In `handles` there is one object of each class, which
is enough for every hand-over, for each goes from one object or frame to one other; the
next object of a class can be made once the collector took the one before. Two pages and
two CassFutures of requests for results (`HANDLE_MAX`), as `next_page` holds the old and
the new ones; `LOST_MAX` lets one handle of each kind that an interrupted
`execute_async` or a dropped enumerator loses be lost: for the other kinds the steps are
the same and the state space is not. In `statement_single` the types are 3, 5, 8 and 16
bits wide; the integers are those around the bounds of every one of them. The times are all
milliseconds from -4.2 to 4.2 seconds, with the moments just before and after each and
one between, and those at the bounds of 16 bits. Doubles of 14 digits are narrower than
the widest integer, as the real ones are (53 and 64), and too narrow for most of these times in
parts of a millisecond (126 of them: an even number, so that some whole seconds are
exact, and not a power of two, so that the quotient is rounded), as the real ones are for
nanoseconds: so all three roundings happen, and a quarter of 2^14 milliseconds, the limit
of `TimesKept`, is within the times looked at. In `cluster` an int of 3 bits and the
inputs -1, 2, 5 and 9 are a number that wraps or is refused, one every setter takes, one only a cass_uint takes, and one nothing
takes; 3 calls are a number, one that is refused or wraps after it, and a `connect`. Symmetry is used in `future_core` only, where nothing is
temporal but step properties and the two clients have the same calls.

**Deadlock.** It is checked except where the system may really stop. In
`future_core` and `pool_dead`, the threads of a pool may all have died; in
`paging_single` the user is done at the last page or when the first request fails; in
`handles` the process ends, and in `cluster` the bounded calls do.

**Fairness.** `Future`: weak fairness of `Resolve` (the driver has a request timeout, so
every request ends), of every step of a thread that can run (Ruby's scheduler is
preemptive and its mutexes and queues wake their sleepers), and of the end of a block
(user code ends, unless a call of its own does not). No call by user code is ever
fair: nobody has to register or await. Weak fairness is enough for the lock because in
the instances a mutex is contended a bounded number of times. `Paging`: the driver
answers and, as in the README's loop, the user calls `next_page` again.

## Proofs

TLAPS proves the following for all values of the constants; of `Future` for every set of
futures and clients, every pool size and queue capacity and every set of calls, from
`FutureAssumption` alone.

`FutureProofs`. The stack of a thread lists the futures it has a call on, each once, and
all but the innermost are running a block (`GotoStack`: every step keeps this). With it
`TypeCorrect` follows. Pool threads wait only in their own labels, and a future that a
pool thread is past waiting for has its outcome; from that, and from `yielded` being
written only with the mutex held, `RunsOnce`: the count of a block's runs is never more
than one and only for the outcome.

`QueuedOnce`, `NoLostCallback`, `AwaiterNotStranded` and
`SingleAwaiter` are not inductive: that a registration does not push twice depends on who
holds the mutex, on which blocks are stored and on who carries the future already.
`Inv` says this one future at a time: the holder of the mutex is the thread whose call is
in its critical section (`LockInv`); whoever has the future has it because a block is
stored, and a registration that waits for the mutex finds the other block there
(`BlockInv`); one thread carries it, and then it is not queued (`CarryInv`); a block
that waits is on its way (`LostInv`); one thread waits, having set `already_waited`
(`AwaitInv`); and after a registration there is a post, one to come, or nobody left to
want one (`PostInv`). A step on one future leaves the invariant of the others alone
(`FrameInv`), so there is one lemma per action about its own future, and `NextInv` puts
them together.

On top of it stands `FutureImplementsPromise`: a registration is `Register`, or `Fire` or
nothing when it replaces a block that another one stored meanwhile; a turn is `Fire`. It
is the safety half of what `future_live` checks, for `PromiseFairSpec` has fairness. Two
action properties follow from what is known of the semaphore. `WaitersComeBackResolved`
needs that a post or a turn is only for a future that is resolved (`ResolvedInv`).
`WaiterSeesItsBlock` needs that the one block the caller gave, if it has not ended, is
still with a thread that will post after it (`PostedInv`). It assumes that no exception is
raised in `await` (`"await" \notin Interruptible`), as in the run that checks it: a signal
posts the same semaphore, and `await` then ends early.

`StatementProofs`. `Typed` says of a frame that it works on a CassStatement of its own
and on hashes that exist. `HandedOver` says who may still write to a CassStatement: the
setters and a bind to the first only, an execution to the one it made, until it hands it
over; `EncodesWhatWasBuilt` follows, for any number of threads. `ExecutedOnceBound` and
the two theorems on one thread assume that of the caller's objects only Strings and Times
change after a bind (`StringsChange`). Strings are copied and Times converted, but an
object with `to_int` or `to_f` is stored as it is, and must answer the same when it is asked again
(`KeptInv`). `BindsLastGiven` and `StatementImplementsBinding` assume one thread
(`OneThread`) and one spelling of each column (`OneSpelling`); the run `bind_lost` shows that they are false with two threads. In the middle of a
bind what was accepted is in the new hash, on top of what the old one had (`BoundInv`),
and an execution has bound, of the hash it began with, the columns it is past
(`ExecuteInv`).

`HandlesProofs`. That no handle is freed twice (`TypeOK`) is not inductive. `SlotInv` is
what it takes: a handle that is named in a field or in a frame is live, and is named
nowhere else. With what a call has at each of its places (`FrameOK`), every step moves handles
between at most two holders, obtains free ones and frees some of those the holders had
(`Moves`), so `SlotStep` is proved once, and each action only says what it moves.

`HandlesReach`. The collector keeps what `Reached` reaches, and that is closed under the
references after three steps, because of the classes: a result or a future refers to a
statement, it to a session, it to a cluster (`ReachedClosed`; no induction over
paths is needed). `ReachInv` says that objects are complete (`ObjectGood`), that the
program, the pools and the frames have objects that exist and have what the next use
needs (`HeldGood`, `FrameGood`), that one thread calls a future's block (`OneYield`), and that what the
collector saw in a future, with what the barriers added, still has all that the
future refers to, but for the mutex (`SeenInv`). `NoDanglingReference` and `InUseIsLive` follow.
Without the exception for the mutex the first is false: `mutex_swept`.

`HandlesOwnership`. `Handles` implements `Ownership`: what `SlotInv` does not say is
that nothing is forgotten. For that, every live handle is in a field or a frame
(`LeakInv`), objects that do not exist have none (`UnusedInv`), and an object that a call
still makes is known to nobody else, so that the field the call is about to store in is
empty (`MakingInv`). `LifeStep` shows once that a step which passes handles as
`Flows` says is a step of `Ownership`.

`PagingProofs`. `PageReadable` rests on what the waiting threads hold: a page a thread
waits for was not freed, is not in hand, and no other thread waits for it (`FetchInv`).
This holds for any number of threads that share a result, and so does `TypeCorrect`,
which says too that no request asks for a page past the last. `InOrder` is about one
thread: from `next_page` to the end of the wait the paging state is that of the page in
hand, so a request that was encoded meanwhile brings the page after it (`OrderInv`);
a request that was abandoned may have been encoded with any state, and is never
received. With two threads that share a result it does not hold: both ask for the same
page, one gets it and the next, and then the other puts the older page back.
`StateSetAtRest`, the comment at `result.c:59-61`, is about one thread too: until an
exception from outside comes, the only request that has not ended is the one the thread
waits for (`NoneLeft`), and in the methods of the user it waits for none.

`ClusterProofs`. `HostsKept` rests on what a thread in `hosts` has done: while the Array
is as it was and no blank made the driver forget (`since = epoch`), the element in hand
is that of the Array and those before it are contact points (`HostsInv`), whatever other
threads call. That it reads nothing past the Array is part of `TypeCorrect`. `SettingsKept`
rests on `ConfigInv`, that the CassCluster has what each
setter was given last; the conversion to C keeps a number that is not negative, and
makes one that is no int of a negative one (`AsCKeeps`), for any width of int. That only `connect` hands something to the driver is
`ConnectsOnly`. From `ClusterAssumption` alone: `Default` is no number, what lies past
the Array is no host, and the least that the driver takes is an int and not negative.

`ColumnTypesProofs` is about arithmetic that the provers do not have. `Two` is a recursive
function, and the library's induction theorems take an operator, which the
provers cannot instantiate; but the theorem that a set of natural numbers has a least one
takes none (`LeastNat`), and from it follow induction for a property given as a set
(`NatSetInduction`), that the function `Two` exists (`TwoDef`), and that the search in
`Doublings` ends. With this, `Divide` is the nearest integer (`DivideFacts`), `Nearest`
the nearest of all numbers of so many digits, with an error of no more than the number's own
part of 2^digits (`NearestFacts`), `Ratio` has that error too and none when the quotient
is an integer of so many digits (`RatioFacts`), and `Truncate` cuts off less than one
(`TruncateFacts`). Three errors, each relative to what the step before gave, add up to
less than a millisecond while the milliseconds are less than a quarter of 2^digits
(`ThreeRoundings`): this is where the limit of `TimesKept` comes from.

The inductive invariant is `ColumnsInv`: what a column holds is of its type (`Stored`), a
row is what is read from it, and either the column is an outcome of the value that the
program has, or that value was read from the column. The second is why binding
what was read changes nothing: an Integer that came from a column fits it
(`IntegerFacts`), a float is its own nearest (`FloatExact`), and no class that comes out
of a column is taken for another (`RowFacts`). `IntegersKept`, `FloatsKept`, `TimesKept`
and `RowsBind` follow for all widths and digits, the real ones among them, from
`ColumnTypesAssumption`: no integer type is wider than bigint, a float has no more digits
than a double, and FLT_MAX is a float.

The proofs assume what the modules' `ASSUME`s say and nothing else but the hypotheses
named above. `HandlesAssumption` has the classes of objects apart from each other, from
the threads and from `None`, and the bounds natural numbers.

What stays with TLC: liveness (`AwaitReturns`, `LastPageReached`) and `PromiseFairSpec`, for
fairness and `ENABLED` are out of the prover's reach. Every other property of the passing
runs is a theorem.

## Plan

1. `Future` with `Promise`, its instances and the proofs of its safety (done).
2. `Statement` with `Binding`, and `Paging`, with the proofs of their safety (done).
3. `Handles` with `Ownership` and the proofs of its safety (done).
4. `ColumnTypes` and the proofs of its properties (done).
5. `Cluster` with the proofs of its properties (done).

## Not modelled

Ractors: objects are shareable when frozen and the extension says it is Ractor-safe,
but the methods of a frozen Statement still write to it; two Ractors run without a
common lock, which needs steps of single loads and stores. The bytes of values and the
text of errors (the query's bytes are read outside the GVL, `nogvl.c:36`), the log level, the build scripts and the type signatures. Fork. The
driver and the server themselves, beyond the behaviours named above. The accounting of driver memory
(`ilios.c:41-61`): it tells the collector sizes as a hint, no decision of the extension
depends on it, and whether it drifts depends on the C allocator.
