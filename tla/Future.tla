------------------------------- MODULE Future -------------------------------
(***************************************************************************)
(* Ilios::Cassandra::Future and its thread pools (ext/ilios/future.c).     *)
(*                                                                         *)
(* Threads are the user's Ruby threads (Clients) and the pool threads      *)
(* (Workers: THREAD_MAX slots per pool).  They run under Ruby's global VM  *)
(* lock, so a step is the code between two points where the lock can       *)
(* change hands: a contended Mutex, SizedQueue#push and #pop, a wait in    *)
(* nogvl.c, or Ruby code run by a callback.  The driver's IO thread        *)
(* (Resolve) does not take the lock and interleaves with all of them.      *)
(*                                                                         *)
(* User code may call any method of any future, at top level or inside a   *)
(* callback, so a thread has a stack of calls, the innermost first.  A     *)
(* thread never has two calls in progress on one future (a recursive call  *)
(* raises at once), so pc is indexed by thread and future.                 *)
(***************************************************************************)
EXTENDS Naturals, Sequences

CONSTANTS
  Futures,        \* the futures, already returned by the _async methods
  Clients,        \* the user's threads
  None,           \* Qfalse / no owner
  KindOf,         \* future -> prepare_async or execute_async
  THREAD_MAX,     \* threads per pool
  QUEUE_MAX,      \* capacity of a pool's SizedQueue
  Calls,          \* <<code, method, future>>: what user code may call; code
                  \* is a client (top level) or a future (its callbacks)
  MayRaise,       \* the futures whose callbacks may raise
  Interruptible,  \* the calls an exception from outside may interrupt
  MaxInterrupts   \* bound on the number of interrupts

Pools == {"prepare_async", "execute_async"}
Outcomes == {"ok", "error"}
Methods == {"on_success", "on_failure", "await"}
Workers == Pools \X (1..THREAD_MAX)
Threads == Clients \cup Workers

ASSUME FutureAssumption ==
  /\ None \notin Threads
  /\ Clients \cap Workers = {}
  /\ KindOf \in [Futures -> Pools]
  /\ THREAD_MAX \in Nat \ {0}
  /\ QUEUE_MAX \in Nat \ {0}
  /\ MayRaise \subseteq Futures
  /\ Interruptible \subseteq {"lock", "push", "await"}
  /\ MaxInterrupts \in Nat

VARIABLES
  outcome,        \* the CassFuture: "pending" or its outcome
  block,          \* block[f]["ok"] is on_success_block, ["error"] on_failure_block
  mutex,          \* proc_mutex: its owner
  sem,            \* the uv semaphore
  already_waited,
  yielded,
  queue,          \* pool->queue
  alive,          \* pool->thread[i] exists and is alive
  pc,             \* pc[t][f]: where t is in its call on f
  stack,          \* stack[t]: the futures t has a call in progress on
  ran,            \* history: invocations of each block
  awaited,        \* history: the threads an await of f has returned to
  aborted,        \* history: the futures whose push was interrupted
  interrupts      \* number of interrupts so far

callVars == <<pc, stack>>
poolVars == <<queue, alive>>
historyVars == <<ran, awaited, aborted, interrupts>>
interruptVars == <<aborted, interrupts>>
vars == <<outcome, block, mutex, sem, already_waited, yielded, poolVars,
          callVars, historyVars>>

\* Asleep in a lock / running a block, mutex held / any call that holds it.
Locking == {"lock_on_success", "lock_on_failure", "lock_await"}
InCallback == {"callback", "yield"}
Holding == InCallback \cup {"push", "prepare_thread"}
Labels == {"idle", "await_future", "await_sem", "await_unwind", "work_future",
           "work_lock"} \cup Locking \cup Holding

Init ==
  /\ outcome = [f \in Futures |-> "pending"]
  /\ block = [f \in Futures |-> [o \in Outcomes |-> None]]
  /\ mutex = [f \in Futures |-> None]
  /\ sem = [f \in Futures |-> 0]
  /\ already_waited = [f \in Futures |-> FALSE]
  /\ yielded = [f \in Futures |-> FALSE]
  /\ queue = [p \in Pools |-> <<>>]
  /\ alive = [w \in Workers |-> FALSE]
  /\ pc = [t \in Threads |-> [f \in Futures |-> "idle"]]
  /\ stack = [t \in Threads |-> <<>>]
  /\ ran = [f \in Futures |-> [o \in Outcomes |-> 0]]
  /\ awaited = [f \in Futures |-> {}]
  /\ aborted = {}
  /\ interrupts = 0

-----------------------------------------------------------------------------
(* Threads, calls and the mutex.                                           *)

\* t runs user code: a client at top level, or any thread in a callback.
InUserCode(t) ==
  IF stack[t] = <<>> THEN t \in Clients ELSE pc[t][Head(stack[t])] \in InCallback

Code(t) == IF stack[t] = <<>> THEN t ELSE Head(stack[t])

MayCall(t, m, f) ==
  /\ InUserCode(t)
  /\ pc[t][f] = "idle"
  /\ <<Code(t), m, f>> \in Calls

\* t's call on f moves to label; "idle" is both before the call and after it.
Goto(t, f, label) ==
  /\ pc' = [pc EXCEPT ![t][f] = label]
  /\ stack' = [stack EXCEPT ![t] =
                 CASE pc[t][f] = "idle" /\ label # "idle" -> <<f>> \o @
                   [] pc[t][f] # "idle" /\ label = "idle" -> Tail(@)
                   [] OTHER -> @]

Unlock(f) == mutex' = [mutex EXCEPT ![f] = None]
Post(f) == sem' = [sem EXCEPT ![f] = @ + 1]

Other(o) == IF o = "ok" THEN "error" ELSE "ok"
Method(o) == IF o = "ok" THEN "on_success" ELSE "on_failure"
LockLabel(o) == IF o = "ok" THEN "lock_on_success" ELSE "lock_on_failure"

\* future_result_success_yield, future_result_failure_yield: start the block
\* for o, holding the mutex.
Yield(t, f, o, label) ==
  /\ yielded' = [yielded EXCEPT ![f] = TRUE]
  /\ ran' = [ran EXCEPT ![f][o] = @ + 1]
  /\ mutex' = [mutex EXCEPT ![f] = t]
  /\ Goto(t, f, label)

-----------------------------------------------------------------------------
(* The thread pool.                                                        *)

\* Mutant: one pool for both kinds.
SharedPool(f) == "execute_async"

future_thread_pool_get(f) == KindOf[f]

\* Mutant: one thread is created at a time.
PrepareOneThread(p) ==
  alive' = [w \in Workers |->
              alive[w] \/ (w = <<p, 1>> /\ \A i \in 1..THREAD_MAX : ~alive[<<p, i>>])]

\* Every slot of the pool that has no live thread gets a new one.
future_thread_pool_prepare_thread(p) ==
  alive' = [w \in Workers |-> alive[w] \/ w[1] = p]

HasRoom(p) == Len(queue[p]) < QUEUE_MAX

\* SizedQueue#push, in the critical section.  With the queue full, t sleeps in
\* the push and keeps the mutex.
future_queue_push(t, f) ==
  LET pool == future_thread_pool_get(f) IN
  /\ mutex' = [mutex EXCEPT ![f] = t]
  /\ \/ /\ HasRoom(pool)
        /\ queue' = [queue EXCEPT ![pool] = Append(@, f)]
        /\ Goto(t, f, "prepare_thread")
     \/ /\ ~HasRoom(pool)
        /\ Goto(t, f, "push")
        /\ UNCHANGED queue

-----------------------------------------------------------------------------
(* Future#on_success and Future#on_failure.                                *)

\* The critical section of both methods; o is the outcome the block is for.
Synchronized(t, f, o, wakeup_thread, runNow) ==
  /\ block' = [block EXCEPT ![f][o] = t]
  /\ \/ /\ outcome[f] # "pending"
        /\ Post(f)
        /\ \/ /\ runNow
              /\ Yield(t, f, o, "callback")
           \/ /\ ~runNow
              /\ Unlock(f)
              /\ Goto(t, f, "idle")
              /\ UNCHANGED <<yielded, ran>>
        /\ UNCHANGED queue
     \/ /\ outcome[f] = "pending"
        /\ \/ /\ wakeup_thread
              /\ future_queue_push(t, f)
           \/ /\ ~wakeup_thread
              /\ Unlock(f)
              /\ Goto(t, f, "idle")
              /\ UNCHANGED queue
        /\ UNCHANGED <<sem, yielded, ran>>
  /\ UNCHANGED <<outcome, already_waited, alive, awaited, interruptVars>>

FirstBlock(f, o) == block[f][Other(o)] = None
RunNow(f, o) == ~yielded[f] /\ outcome[f] = o

\* Mutants: every registration pushes; only on_success pushes; the outcome is
\* not compared.
SynchronizeAlwaysPush(t, f, o) == Synchronized(t, f, o, TRUE, RunNow(f, o))
SynchronizeSuccessPush(t, f, o) == Synchronized(t, f, o, o = "ok", RunNow(f, o))
SynchronizeAnyOutcome(t, f, o) == Synchronized(t, f, o, FirstBlock(f, o), ~yielded[f])

Synchronize(t, f, o) == Synchronized(t, f, o, FirstBlock(f, o), RunNow(f, o))

\* The guard is read before the mutex is taken.
Register(t, f, o) ==
  /\ MayCall(t, Method(o), f)
  /\ block[f][o] = None
  /\ \/ /\ mutex[f] = None
        /\ Synchronize(t, f, o)
     \/ /\ mutex[f] # None
        /\ Goto(t, f, LockLabel(o))
        /\ UNCHANGED <<outcome, block, mutex, sem, already_waited, yielded,
                       poolVars, historyVars>>

future_on_success(t, f) == Register(t, f, "ok")
future_on_failure(t, f) == Register(t, f, "error")

\* A thread asleep in rb_mutex_synchronize gets the mutex.
LockToRegister(t, f) ==
  /\ mutex[f] = None
  /\ \E o \in Outcomes : pc[t][f] = LockLabel(o) /\ Synchronize(t, f, o)

\* A thread asleep in SizedQueue#push finds room.
ResumePush(t, f) ==
  /\ pc[t][f] = "push"
  /\ HasRoom(future_thread_pool_get(f))
  /\ future_queue_push(t, f)
  /\ UNCHANGED <<outcome, block, sem, already_waited, yielded, alive, historyVars>>

\* After the push the threads, then out of the critical section.  Ruby's own
\* push is a Ruby method, so other threads may run before this step.
PrepareThread(t, f) ==
  /\ pc[t][f] = "prepare_thread"
  /\ future_thread_pool_prepare_thread(future_thread_pool_get(f))
  /\ Unlock(f)
  /\ Goto(t, f, "idle")
  /\ UNCHANGED <<outcome, block, sem, already_waited, yielded, queue, historyVars>>

\* A block run by the registering thread ends.  If it raises, the method
\* raises: the mutex is released all the same.
EndCallback(t, f) ==
  /\ pc[t][f] = "callback"
  /\ Head(stack[t]) = f
  /\ Unlock(f)
  /\ Goto(t, f, "idle")
  /\ UNCHANGED <<outcome, block, sem, already_waited, yielded, poolVars, historyVars>>

-----------------------------------------------------------------------------
(* Future#await.                                                           *)

Return(t, f) ==
  /\ awaited' = [awaited EXCEPT ![f] = @ \cup {t}]
  /\ Goto(t, f, "idle")

\* Mutant: already_waited is not set.
CheckWaitedUnset(t, f) ==
  /\ \/ already_waited[f] /\ Return(t, f)
     \/ ~already_waited[f] /\ Goto(t, f, "await_future") /\ UNCHANGED awaited
  /\ UNCHANGED <<outcome, block, mutex, sem, already_waited, yielded, poolVars,
                 ran, interruptVars>>

\* The critical section: only the first caller goes on to wait.
CheckWaited(t, f) ==
  /\ \/ /\ already_waited[f]
        /\ Return(t, f)
        /\ UNCHANGED already_waited
     \/ /\ ~already_waited[f]
        /\ already_waited' = [already_waited EXCEPT ![f] = TRUE]
        /\ Goto(t, f, "await_future")
        /\ UNCHANGED awaited
  /\ UNCHANGED <<outcome, block, mutex, sem, yielded, poolVars, ran, interruptVars>>

future_await(t, f) ==
  /\ MayCall(t, "await", f)
  /\ \/ /\ mutex[f] = None
        /\ CheckWaited(t, f)
     \/ /\ mutex[f] # None
        /\ Goto(t, f, "lock_await")
        /\ UNCHANGED <<outcome, block, mutex, sem, already_waited, yielded,
                       poolVars, historyVars>>

LockToAwait(t, f) ==
  /\ pc[t][f] = "lock_await"
  /\ mutex[f] = None
  /\ CheckWaited(t, f)

HasBlock(f) == \E o \in Outcomes : block[f][o] # None

\* Mutants: the semaphore is not waited for; the blocks are read first.
AwaitFutureOnly(t, f) ==
  /\ pc[t][f] = "await_future"
  /\ outcome[f] # "pending"
  /\ Return(t, f)
  /\ UNCHANGED <<outcome, block, mutex, sem, already_waited, yielded, poolVars,
                 ran, interruptVars>>
AwaitFutureBlocksFirst(t, f) ==
  /\ pc[t][f] = "await_future"
  /\ \/ outcome[f] # "pending" /\ HasBlock(f) /\ Goto(t, f, "await_sem") /\ UNCHANGED awaited
     \/ ~HasBlock(f) /\ Return(t, f)
  /\ UNCHANGED <<outcome, block, mutex, sem, already_waited, yielded, poolVars,
                 ran, interruptVars>>

\* nogvl_future_wait returns; the blocks are read without the mutex.
AwaitFuture(t, f) ==
  /\ pc[t][f] = "await_future"
  /\ outcome[f] # "pending"
  /\ \/ /\ HasBlock(f)
        /\ Goto(t, f, "await_sem")
        /\ UNCHANGED awaited
     \/ /\ ~HasBlock(f)
        /\ Return(t, f)
  /\ UNCHANGED <<outcome, block, mutex, sem, already_waited, yielded, poolVars,
                 ran, interruptVars>>

\* Mutant: a try instead of a wait.
AwaitSemTry(t, f) ==
  /\ pc[t][f] = "await_sem"
  /\ sem' = [sem EXCEPT ![f] = @ - 1]
  /\ Return(t, f)
  /\ UNCHANGED <<outcome, block, mutex, already_waited, yielded, poolVars, ran,
                 interruptVars>>

\* uv_sem_wait returns; await_unwind is a wait that an exception has ended.
AwaitSem(t, f) ==
  /\ sem[f] > 0
  /\ sem' = [sem EXCEPT ![f] = @ - 1]
  /\ \/ /\ pc[t][f] = "await_sem"
        /\ Return(t, f)
     \/ /\ pc[t][f] = "await_unwind"
        /\ Goto(t, f, "idle")
        /\ UNCHANGED awaited
  /\ UNCHANGED <<outcome, block, mutex, already_waited, yielded, poolVars, ran,
                 interruptVars>>

-----------------------------------------------------------------------------
(* The pool's threads: future_result_yielder_thread.                       *)

future_queue_pop(w, f) ==
  /\ queue[w[1]] # <<>>
  /\ f = Head(queue[w[1]])
  /\ queue' = [queue EXCEPT ![w[1]] = Tail(@)]

\* An idle thread pops a future and starts to wait for it.
WorkerPop(w, f) ==
  /\ alive[w]
  /\ stack[w] = <<>>
  /\ future_queue_pop(w, f)
  /\ Goto(w, f, "work_future")
  /\ UNCHANGED <<outcome, block, mutex, sem, already_waited, yielded, alive,
                 historyVars>>

\* Mutant: no post.
FinishNoPost(w, f) ==
  /\ Unlock(f)
  /\ Goto(w, f, "idle")
  /\ UNCHANGED sem

\* The end of a future's turn; future_result_yielder_ensure posts in any case.
Finish(w, f) ==
  /\ Unlock(f)
  /\ Post(f)
  /\ Goto(w, f, "idle")

\* The critical section.
YielderSynchronized(w, f, run) ==
  /\ \/ /\ run
        /\ Yield(w, f, outcome[f], "yield")
        /\ UNCHANGED <<sem, already_waited>>
     \/ /\ ~run
        /\ already_waited' = [already_waited EXCEPT ![f] = TRUE]
        /\ Finish(w, f)
        /\ UNCHANGED <<yielded, ran>>
  /\ UNCHANGED <<outcome, block, poolVars, awaited, interruptVars>>

HasOwnBlock(f) == block[f][outcome[f]] # None

\* Mutant: yielded is not checked.
YielderUnguarded(w, f) == YielderSynchronized(w, f, HasOwnBlock(f))

future_result_yielder_synchronize(w, f) ==
  YielderSynchronized(w, f, ~yielded[f] /\ HasOwnBlock(f))

\* nogvl_future_wait returns, and the mutex is taken or waited for.
WorkFuture(w, f) ==
  /\ pc[w][f] = "work_future"
  /\ outcome[f] # "pending"
  /\ \/ /\ mutex[f] = None
        /\ future_result_yielder_synchronize(w, f)
     \/ /\ mutex[f] # None
        /\ Goto(w, f, "work_lock")
        /\ UNCHANGED <<outcome, block, mutex, sem, already_waited, yielded,
                       poolVars, historyVars>>

WorkLock(w, f) ==
  /\ pc[w][f] = "work_lock"
  /\ mutex[f] = None
  /\ future_result_yielder_synchronize(w, f)

\* The block returns.
YieldReturn(w, f) ==
  /\ pc[w][f] = "yield"
  /\ Head(stack[w]) = f
  /\ already_waited' = [already_waited EXCEPT ![f] = TRUE]
  /\ Finish(w, f)
  /\ UNCHANGED <<outcome, block, yielded, poolVars, historyVars>>

\* Mutant: no rb_ensure, so no post.
YieldRaiseNoEnsure(w, f) ==
  /\ pc[w][f] = "yield"
  /\ Head(stack[w]) = f
  /\ f \in MayRaise
  /\ FinishNoPost(w, f)
  /\ alive' = [alive EXCEPT ![w] = FALSE]
  /\ UNCHANGED <<outcome, block, already_waited, yielded, queue, historyVars>>

\* The block raises: nothing rescues the exception and the thread dies.
YieldRaise(w, f) ==
  /\ pc[w][f] = "yield"
  /\ Head(stack[w]) = f
  /\ f \in MayRaise
  /\ Finish(w, f)
  /\ alive' = [alive EXCEPT ![w] = FALSE]
  /\ UNCHANGED <<outcome, block, already_waited, yielded, queue, historyVars>>

-----------------------------------------------------------------------------
(* Thread#raise, Timeout, Thread#wakeup and signals.                       *)

\* The call ends with an exception, and with it its critical section.  Of a wait
\* outside the GVL this is one that is noticed before it starts, or at the end of
\* nogvl_future_wait.
Abort(t, f) ==
  /\ \/ /\ "lock" \in Interruptible
        /\ pc[t][f] \in Locking
        /\ UNCHANGED <<mutex, aborted>>
     \/ /\ "push" \in Interruptible
        /\ pc[t][f] = "push"
        /\ Unlock(f)
        /\ aborted' = aborted \cup {f}
     \/ /\ "push" \in Interruptible
        /\ pc[t][f] = "prepare_thread"
        /\ Unlock(f)
        /\ UNCHANGED aborted
     \/ /\ "await" \in Interruptible
        /\ pc[t][f] \in {"await_future", "await_sem"}
        /\ UNCHANGED <<mutex, aborted>>
  /\ Goto(t, f, "idle")
  /\ UNCHANGED sem

\* nogvl_sem_wait_ubf posts so that the wait ends: with an exception, or, for a
\* wakeup or a trapped signal, as if the future's own post had come.
nogvl_sem_wait_ubf(t, f) ==
  /\ "await" \in Interruptible
  /\ pc[t][f] = "await_sem"
  /\ Post(f)
  /\ \E label \in {"await_unwind", "await_sem"} : Goto(t, f, label)
  /\ UNCHANGED <<mutex, aborted>>

Interrupt(t, f) ==
  /\ interrupts < MaxInterrupts
  /\ interrupts' = interrupts + 1
  /\ Abort(t, f) \/ nogvl_sem_wait_ubf(t, f)
  /\ UNCHANGED <<outcome, block, already_waited, yielded, poolVars, ran, awaited>>

-----------------------------------------------------------------------------

\* The driver ends the request; it does so in every case, for it times out.
Resolve(f) ==
  /\ outcome[f] = "pending"
  /\ \E o \in Outcomes : outcome' = [outcome EXCEPT ![f] = o]
  /\ UNCHANGED <<block, mutex, sem, already_waited, yielded, poolVars, callVars,
                 historyVars>>

\* The steps that user code chooses to take, and those that follow from them.
Call(t, f) == future_on_success(t, f) \/ future_on_failure(t, f) \/ future_await(t, f)

Resume(t, f) ==
  \/ LockToRegister(t, f)
  \/ ResumePush(t, f)
  \/ PrepareThread(t, f)
  \/ EndCallback(t, f)
  \/ LockToAwait(t, f)
  \/ AwaitFuture(t, f)
  \/ AwaitSem(t, f)

Work(w, f) ==
  \/ WorkerPop(w, f)
  \/ WorkFuture(w, f)
  \/ WorkLock(w, f)
  \/ YieldReturn(w, f)
  \/ YieldRaise(w, f)

Next ==
  \E f \in Futures :
    \/ Resolve(f)
    \/ \E t \in Threads : Call(t, f) \/ Resume(t, f) \/ Interrupt(t, f)
    \/ \E w \in Workers : Work(w, f)

Spec == Init /\ [][Next]_vars

\* The driver ends every request, a block ends unless a call of its own does
\* not, and the scheduler runs every thread that can run.  Nothing obliges user
\* code to make a call.
Fairness ==
  \A f \in Futures :
    /\ WF_vars(Resolve(f))
    /\ \A t \in Threads : WF_vars(Resume(t, f))
    /\ \A w \in Workers : WF_vars(Work(w, f))

FairSpec == Spec /\ Fairness

-----------------------------------------------------------------------------
(* Properties.                                                             *)

\* Every variable keeps its type; a semaphore never goes below zero.
TypeOK ==
  /\ outcome \in [Futures -> {"pending"} \cup Outcomes]
  /\ block \in [Futures -> [Outcomes -> Threads \cup {None}]]
  /\ mutex \in [Futures -> Threads \cup {None}]
  /\ sem \in [Futures -> Nat]
  /\ already_waited \in [Futures -> BOOLEAN]
  /\ yielded \in [Futures -> BOOLEAN]
  /\ queue \in [Pools -> Seq(Futures)]
  /\ alive \in [Workers -> BOOLEAN]
  /\ pc \in [Threads -> [Futures -> Labels]]
  /\ stack \in [Threads -> Seq(Futures)]
  /\ ran \in [Futures -> [Outcomes -> Nat]]
  /\ awaited \in [Futures -> SUBSET Threads]
  /\ aborted \subseteq Futures
  /\ interrupts \in 0..MaxInterrupts

\* However registrations, the pool and the driver interleave, a future runs one
\* block at most, once, and only the one for the outcome it has (yielded, checked
\* at future.c:149, 236 and 293).
CallbackOnce ==
  \A f \in Futures :
    /\ \A o \in Outcomes : ran[f][o] > 0 => outcome[f] = o /\ ran[f][o] = 1
    /\ yielded[f] <=> \E o \in Outcomes : ran[f][o] > 0

\* The calls that will bring f's turn to run its block, or are that turn.
Carrying == {"push", "work_future", "work_lock", "yield"}

Carriers(f) == {t \in Threads : pc[t][f] \in Carrying}
Queued(f) == \E q \in Pools : \E i \in 1..Len(queue[q]) : queue[q][i] = f
Carried(f) == Carriers(f) # {} \/ Queued(f)

\* A future is handed to the pool once (the comment at future.c:228): it is
\* never in two places of the queues, with two threads, or in both.
QueuedOnce ==
  /\ \A q, r \in Pools : \A i \in 1..Len(queue[q]), j \in 1..Len(queue[r]) :
       queue[q][i] = queue[r][j] => q = r /\ i = j
  /\ \A f \in Futures :
       /\ \A s, t \in Carriers(f) : s = t
       /\ Carriers(f) # {} => ~Queued(f)

\* The block for the outcome that f has, or may still have, was given and none
\* was started.
Waiting(f) ==
  /\ ~yielded[f]
  /\ IF outcome[f] = "pending" THEN HasBlock(f) ELSE block[f][outcome[f]] # None

\* A block that waits for its future is on its way: the check and the push of
\* one registration and the outcome seen by another never leave it to nobody.
\* An exception that ends a push from outside is the one way to lose it.
NoLostCallback == \A f \in Futures : Waiting(f) => Carried(f) \/ f \in aborted

\* A thread that sleeps on the semaphore has a post, or the turn that ends with
\* one is still to come (future.c:181, 235, 292 against 351-352).
AwaiterNotStranded ==
  \A f \in Futures :
    (\E t \in Threads : pc[t][f] = "await_sem") =>
      sem[f] > 0 \/ Carried(f) \/ f \in aborted

Awaiting == {"await_future", "await_sem", "await_unwind"}

\* A future is waited for by one thread: already_waited lets the first through
\* and sends the others back (future.c:342-348), so a post wakes that thread.
SingleAwaiter ==
  \A f \in Futures : \A s, t \in Threads :
    pc[s][f] \in Awaiting /\ pc[t][f] \in Awaiting => s = t

CallbackDone(f) == yielded[f] /\ \A t \in Threads : pc[t][f] \notin InCallback

\* When await returns to the thread that gave the block for the outcome, that
\* block has ended (test_session.rb:87-89 counts on it).
AwaitSeesCallback ==
  [][\A f \in Futures : \A t \in awaited'[f] \ awaited[f] :
       outcome[f] \in Outcomes /\ block[f][outcome[f]] = t => CallbackDone(f)]_vars

\* A thread that gave only the block for the outcome, and went to await before
\* the future was resolved or the block had run, comes back after that block's
\* end (future.c:334-352), whatever other threads and the block itself do.
AwaitSeesOwnBlock ==
  [][\A f \in Futures : \A t \in awaited'[f] \ awaited[f] :
       /\ outcome[f] \in Outcomes /\ pc[t][f] \in Awaiting
       /\ block[f][outcome[f]] = t /\ block[f][Other(outcome[f])] = None
       => CallbackDone(f)]_vars

\* A thread that waited, in await itself, for the future or for the semaphore
\* comes back only when the future is resolved: no post comes before.
WaiterResolved ==
  [][\A f \in Futures : \A t \in awaited'[f] \ awaited[f] :
       pc[t][f] \in Awaiting => outcome[f] # "pending"]_vars

\* A block that is given for the outcome its future has or gets is run
\* (future.c:252).
CallbackRuns == \A f \in Futures : Waiting(f) /\ outcome[f] # "pending" ~> yielded[f]

\* await always returns, whatever is registered meanwhile and by whom.
AwaitReturns ==
  \A f \in Futures : \A t \in Threads :
    pc[t][f] \in Awaiting \cup {"lock_await"} ~> pc[t][f] = "idle"

-----------------------------------------------------------------------------
(* The abstract specification.                                             *)

Registered(f) == {o \in Outcomes : block[f][o] # None}
Fired(f) ==
  IF ran[f]["ok"] > 0 THEN "ok" ELSE IF ran[f]["error"] > 0 THEN "error" ELSE "none"

P == INSTANCE Promise WITH
       registered <- [f \in Futures |-> Registered(f)],
       fired <- [f \in Futures |-> Fired(f)]

\* The futures keep what Promise.tla promises; under fairness, every block that
\* is owed a run gets it.
PromiseSpec == P!Spec
PromiseFairSpec == P!FairSpec
=============================================================================
