------------------------------ MODULE Handles ------------------------------
(***************************************************************************)
(* Who owns the driver's handles (CassSession, CassFuture, CassStatement   *)
(* and the rest): the fields of the extension's Ruby objects, or the C     *)
(* frames of the calls in progress, from the call that obtains a handle to *)
(* the function that frees it; and when Ruby's collector ends an object.   *)
(*                                                                         *)
(* A call runs under the VM lock from one place where Ruby may collect or  *)
(* switch threads to the next: an allocation of a Ruby object, a request   *)
(* or a wait outside the lock, a call of a block.  The collector's steps   *)
(* fall between these.  What was freed may be allocated again.             *)
(***************************************************************************)
EXTENDS Naturals, FiniteSets

CONSTANTS
  Clusters, Sessions, Statements, Futures, Results,  \* the extension's objects
  Procs, Mutexes,      \* the futures' blocks and their proc_mutex
  Clients, Workers,    \* threads of the program and of the pools
  None,
  HANDLE_MAX,          \* bound on the handles of each kind that exist at once
  LOST_MAX             \* bound on the handles of each kind that are lost

Kinds == {"cluster", "session", "prepared", "scratch", "executed", "executed_async",
          "request", "request_async", "request_result", "result", "iterator"}

Threads == Clients \cup Workers
Classes == <<Clusters, Sessions, Statements, Futures, Results, Procs, Mutexes>>
Objects ==
  Clusters \cup Sessions \cup Statements \cup Futures \cup Results \cup Procs \cup Mutexes

\* Handles are numbered by what they are obtained for.
Handles == UNION {{u} \X (1..HANDLE_MAX[u]) : u \in Kinds}

ASSUME HandlesAssumption ==
  /\ HANDLE_MAX \in [Kinds -> Nat] /\ LOST_MAX \in [Kinds -> Nat]
  /\ \A i, j \in 1..7 : i # j => Classes[i] \cap Classes[j] = {}
  /\ Threads \cap Objects = {}
  /\ None \notin Objects \cup Threads \cup Handles

\* The fields for handles, and for other objects, in the struct of each class.
HandleFields(o) ==
  CASE o \in Clusters -> {"cluster"}
    [] o \in Sessions -> {"session"}
    [] o \in Statements -> {"statement", "prepared"}
    [] o \in Futures -> {"future", "executed"}
    [] o \in Results -> {"result", "future", "executed"}
    [] OTHER -> {}
RefFields(o) ==
  CASE o \in Sessions -> {"cluster"}
    [] o \in Statements -> {"session"}
    [] o \in Futures -> {"session", "statement", "on_success", "on_failure", "mutex"}
    [] o \in Results -> {"statement"}
    [] OTHER -> {}

VARIABLES
  driver,        \* driver[h]: whether handle h is free, live, lost or freed twice
  live,          \* the Ruby objects that exist
  own, ref,      \* the handles and the references in the fields of each
  outcome,       \* outcome[f]: of the CassFuture of future f
  yielded,       \* yielded[f]: the field of future f
  pooled,        \* the futures in the queue or the hands of a pool
  call,          \* call[t]: the frame of the call that t is in
  held,          \* the objects the program refers to
  seen,          \* seen[f]: what the collector found in f, if it marked through it
  exiting        \* the process is over

objectVars == <<live, own, ref>>
futureVars == <<outcome, yielded, pooled>>
vars == <<driver, objectVars, futureVars, call, held, seen, exiting>>

Idle == [op |-> "none", at |-> "idle", self |-> None, arg |-> None, obj |-> None,
         future |-> None, executed |-> None, iterator |-> None]
NoHandles(o) == [k \in HandleFields(o) |-> None]
NoRefs(o) == [k \in RefFields(o) |-> None]

Init ==
  /\ driver = [h \in Handles |-> "free"]
  /\ live = {}
  /\ own = [o \in Objects |-> NoHandles(o)]
  /\ ref = [o \in Objects |-> NoRefs(o)]
  /\ outcome = [f \in Futures |-> "pending"]
  /\ yielded = [f \in Futures |-> FALSE]
  /\ pooled = {}
  /\ call = [t \in Threads |-> Idle]
  /\ held = {}
  /\ seen = [f \in Futures |-> None]
  /\ exiting = FALSE

-----------------------------------------------------------------------------
Unallocated(u) == {i \in 1..HANDLE_MAX[u] : driver[<<u, i>>] = "free"}
Available(U) == \A u \in U : Unallocated(u) # {}

\* Any of them would do.
Fresh(u) == <<u, CHOOSE i \in Unallocated(u) : TRUE>>

\* The driver obtains the handles in new and frees those in old.
Driver(new, old) ==
  driver' = [h \in Handles |->
    CASE h \in new -> "live"
      [] h \in old -> IF driver[h] = "live" THEN "free" ELSE "twice"
      [] OTHER -> driver[h]]

\* What the frame of a call holds: handles, and references on the VM's stack.
FrameHandles(t) == {call[t].future, call[t].executed, call[t].iterator} \ {None}
FrameRefs(t) == {call[t].self, call[t].arg, call[t].obj} \ {None}

At(t, op, at) == call[t].op = op /\ call[t].at = at
CanCall(t) == call[t] = Idle /\ ~exiting
Enter(t, frame) == call' = [call EXCEPT ![t] = frame]
Return(t) == Enter(t, Idle)

Held(S) == held \cap S
Unused(S) == S \ live

\* TypedData_Make_Struct, and the stores that follow it.
Create(o, handles, refs) ==
  /\ live' = live \cup {o}
  /\ own' = [own EXCEPT ![o] = [k \in HandleFields(o) |->
                                  IF k \in DOMAIN handles THEN handles[k] ELSE None]]
  /\ ref' = [ref EXCEPT ![o] = [k \in RefFields(o) |->
                                  IF k \in DOMAIN refs THEN refs[k] ELSE None]]

\* Where future f's mutex is held: while it runs a callback.
Locked(f) == \E t \in Threads : call[t].self = f /\ call[t].at = "yield"

-----------------------------------------------------------------------------
(* Cluster and Session.                                                    *)

cluster_initialize(t) ==
  /\ CanCall(t) /\ Available({"cluster"})
  /\ \E c \in Unused(Clusters) :
       /\ Create(c, [cluster |-> Fresh("cluster")], <<>>)
       /\ held' = held \cup {c}
  /\ Driver({Fresh("cluster")}, {})
  /\ UNCHANGED <<futureVars, call, seen, exiting>>

cluster_connect(t) ==
  /\ CanCall(t) /\ Available({"session", "request"})
  /\ \E c \in Held(Clusters), s \in Unused(Sessions) :
       /\ Create(s, [session |-> Fresh("session")], [cluster |-> c])
       /\ Enter(t, [Idle EXCEPT !.op = "connect", !.at = "wait", !.self = c, !.obj = s,
                                !.future = Fresh("request")])
  /\ Driver({Fresh("session"), Fresh("request")}, {})
  /\ UNCHANGED <<futureVars, held, seen, exiting>>

\* The session, which the program keeps instead of the cluster, or an error.
Connected(t) ==
  /\ At(t, "connect", "wait")
  /\ held' \in {held, (held \ {call[t].self}) \cup {call[t].obj}}
  /\ Driver({}, {call[t].future})
  /\ Return(t)
  /\ UNCHANGED <<objectVars, futureVars, seen, exiting>>

session_prepare(t, op) ==
  /\ CanCall(t)
  /\ \E s \in Held(Sessions) :
       Enter(t, [Idle EXCEPT !.op = op, !.at = "submit", !.self = s])
  /\ UNCHANGED <<driver, objectVars, futureVars, held, seen, exiting>>

\* An execution has a CassStatement of its own.
session_execute(t, op, kind) ==
  /\ CanCall(t) /\ Available({kind})
  /\ \E s \in Held(Sessions), st \in Held(Statements) :
       Enter(t, [Idle EXCEPT !.op = op, !.at = "build", !.self = s, !.arg = st,
                             !.executed = Fresh(kind)])
  /\ Driver({Fresh(kind)}, {})
  /\ UNCHANGED <<objectVars, futureVars, held, seen, exiting>>

\* When a value cannot be bound again, the statement is freed and it raises.
statement_build_for_execution(t) ==
  /\ call[t].at = "build"
  /\ \/ /\ call' = [call EXCEPT ![t].at = "submit"]
        /\ UNCHANGED driver
     \/ /\ Driver({}, {call[t].executed})
        /\ Return(t)
  /\ UNCHANGED <<objectVars, futureVars, held, seen, exiting>>

RequestOf(op) ==
  CASE op = "prepare" -> "request"
    [] op \in {"prepare_async", "execute_async"} -> "request_async"
    [] op \in {"execute", "next_page"} -> "request_result"

\* The request is made outside the VM lock; the frame keeps its CassFuture.
nogvl_session_request(t) ==
  LET kind == RequestOf(call[t].op) IN
  /\ call[t].at = "submit" /\ Available({kind})
  /\ call' = [call EXCEPT ![t].future = Fresh(kind),
                ![t].at = IF call[t].op \in {"prepare", "next_page"} THEN "wait" ELSE "create"]
  /\ Driver({Fresh(kind)}, {})
  /\ UNCHANGED <<objectVars, futureVars, held, seen, exiting>>

NewStatement(s) ==
  \E st \in Unused(Statements) :
    /\ Create(st, [prepared |-> Fresh("prepared"), statement |-> Fresh("scratch")], [session |-> s])
    /\ held' = held \cup {st}

Prepared(t) ==
  /\ At(t, "prepare", "wait")
  /\ \/ /\ Driver({}, {call[t].future})
        /\ UNCHANGED <<objectVars, held>>
     \/ /\ Available({"prepared", "scratch"})
        /\ NewStatement(call[t].self)
        /\ Driver({Fresh("prepared"), Fresh("scratch")}, {call[t].future})
  /\ Return(t)
  /\ UNCHANGED <<futureVars, seen, exiting>>

\* The future is complete but for its mutex, the next object to be allocated.
future_create(t) ==
  /\ call[t].op \in {"prepare_async", "execute_async"} /\ call[t].at = "create"
  /\ \E f \in Unused(Futures) :
       /\ Create(f, [future |-> call[t].future],
                    [session |-> call[t].self, statement |-> call[t].arg])
       /\ call' = [call EXCEPT ![t].at = "mutex", ![t].obj = f, ![t].future = None]
  /\ UNCHANGED <<driver, futureVars, held, seen, exiting>>

\* The mutex is stored without a write barrier.  Then execute_async leaves its
\* statement to the future.
FutureCreated(t) ==
  /\ call[t].at = "mutex"
  /\ \E m \in Unused(Mutexes) :
       /\ live' = live \cup {m}
       /\ ref' = [ref EXCEPT ![call[t].obj].mutex = m]
  /\ own' = [own EXCEPT ![call[t].obj].executed = call[t].executed]
  /\ held' = held \cup {call[t].obj}
  /\ Return(t)
  /\ UNCHANGED <<driver, futureVars, seen, exiting>>

-----------------------------------------------------------------------------
(* Result.                                                                 *)

\* Session#execute gives everything to the result before it waits.
ResultCreated(t) ==
  /\ At(t, "execute", "create")
  /\ \E r \in Unused(Results) :
       /\ Create(r, [future |-> call[t].future, executed |-> call[t].executed],
                    [statement |-> call[t].arg])
       /\ call' = [call EXCEPT ![t].at = "wait", ![t].obj = r,
                               ![t].future = None, ![t].executed = None]
  /\ UNCHANGED <<driver, futureVars, held, seen, exiting>>

result_await(t) ==
  /\ At(t, "execute", "wait")
  /\ \/ UNCHANGED <<driver, own, held>>
     \/ /\ Available({"result"})
        /\ own' = [own EXCEPT ![call[t].obj].result = Fresh("result")]
        /\ held' = held \cup {call[t].obj}
        /\ Driver({Fresh("result")}, {})
  /\ Return(t)
  /\ UNCHANGED <<live, ref, futureVars, seen, exiting>>

\* The program uses a result in one call at a time.
NotInUse(r) == \A t \in Threads : call[t].self # r

result_next_page(t) ==
  /\ CanCall(t)
  /\ \E r \in Held(Results) :
       /\ NotInUse(r)
       /\ Enter(t, [Idle EXCEPT !.op = "next_page", !.at = "submit", !.self = r])
  /\ UNCHANGED <<driver, objectVars, futureVars, held, seen, exiting>>

\* Mutant: the CassFuture of the page before is not freed.
NextPageKeepFuture(t) ==
  LET r == call[t].self IN
  /\ At(t, "next_page", "wait")
  /\ \/ /\ Driver({}, {call[t].future})
        /\ UNCHANGED own
     \/ /\ Available({"result"})
        /\ own' = [own EXCEPT ![r].result = Fresh("result"), ![r].future = call[t].future]
        /\ Driver({Fresh("result")}, {own[r].result})
  /\ Return(t)
  /\ UNCHANGED <<live, ref, futureVars, held, seen, exiting>>

\* The page and the CassFuture of the page before are freed.
NextPage(t) ==
  LET r == call[t].self IN
  /\ At(t, "next_page", "wait")
  /\ \/ /\ Driver({}, {call[t].future})
        /\ UNCHANGED own
     \/ /\ Available({"result"})
        /\ own' = [own EXCEPT ![r].result = Fresh("result"), ![r].future = call[t].future]
        /\ Driver({Fresh("result")}, {own[r].result, own[r].future})
  /\ Return(t)
  /\ UNCHANGED <<live, ref, futureVars, held, seen, exiting>>

result_each(t) ==
  /\ CanCall(t) /\ Available({"iterator"})
  /\ \E r \in Held(Results) :
       /\ NotInUse(r)
       /\ Enter(t, [Idle EXCEPT !.op = "each", !.at = "block", !.self = r,
                                !.iterator = Fresh("iterator")])
  /\ Driver({Fresh("iterator")}, {})
  /\ UNCHANGED <<objectVars, futureVars, held, seen, exiting>>

result_each_ensure(t) ==
  /\ call[t].at = "block"
  /\ Driver({}, {call[t].iterator})
  /\ Return(t)
  /\ UNCHANGED <<objectVars, futureVars, held, seen, exiting>>

-----------------------------------------------------------------------------
(* Future.                                                                 *)

\* Mutant: a plain store.
BarrierNone(f, o) == UNCHANGED seen

\* RB_OBJ_WRITE: what is stored in an object that was marked is marked too.
Barrier(f, o) == seen' = [seen EXCEPT ![f] = IF @ = None THEN None ELSE @ \cup {o}]

BlockOf == [success |-> "on_success", failure |-> "on_failure"]

\* The block is stored.  It runs here when the future is ready; the first one
\* of a pending future takes it to the pool.
future_on(t, f, method) ==
  /\ CanCall(t) /\ f \in held
  /\ ref[f][method] = None /\ ~Locked(f)
  /\ \E b \in Unused(Procs) :
       /\ live' = live \cup {b}
       /\ ref' = [ref EXCEPT ![f][method] = b]
       /\ Barrier(f, b)
  /\ IF outcome[f] = "pending"
     THEN /\ pooled' = pooled \cup {f}
          /\ UNCHANGED <<yielded, call>>
     ELSE /\ yielded' = [yielded EXCEPT ![f] = @ \/ BlockOf[outcome[f]] = method]
          /\ call' = IF ~yielded[f] /\ outcome[f] = "success" /\ method = "on_success"
                     THEN [call EXCEPT ![t] = [Idle EXCEPT !.at = "yield", !.self = f]]
                     ELSE call
          /\ UNCHANGED pooled
  /\ UNCHANGED <<driver, own, outcome, held, exiting>>

\* A thread of the pool waited for a future and took its mutex.
future_result_yielder_synchronize(w) ==
  \E f \in pooled :
    LET due == ~yielded[f] /\ ref[f][BlockOf[outcome[f]]] # None IN
    /\ CanCall(w) /\ outcome[f] # "pending" /\ ~Locked(f)
    /\ pooled' = pooled \ {f}
    /\ yielded' = [yielded EXCEPT ![f] = @ \/ due]
    /\ IF due /\ outcome[f] = "success"
       THEN Enter(w, [Idle EXCEPT !.at = "yield", !.self = f])
       ELSE UNCHANGED call
    /\ UNCHANGED <<driver, objectVars, outcome, held, seen, exiting>>

\* Mutant: the future keeps the statement that the result takes.
SuccessYieldKeep(t) ==
  LET f == call[t].self IN
  /\ call[t].at = "yield"
  /\ \/ UNCHANGED <<driver, objectVars, held>>
     \/ /\ ref[f].statement # None /\ Available({"result"})
        /\ \E r \in Unused(Results) :
             /\ Create(r, [result |-> Fresh("result"), executed |-> own[f].executed],
                          [statement |-> ref[f].statement])
             /\ held' = held \cup {r}
        /\ Driver({Fresh("result")}, {})
  /\ Return(t)
  /\ UNCHANGED <<futureVars, seen, exiting>>

\* A block with parameters is given a Statement or a Result; the Result takes
\* the executed statement from the future.
future_result_success_yield(t) ==
  LET f == call[t].self IN
  /\ call[t].at = "yield"
  /\ \/ UNCHANGED <<driver, objectVars, held>>
     \/ /\ ref[f].statement = None /\ Available({"prepared", "scratch"})
        /\ NewStatement(ref[f].session)
        /\ Driver({Fresh("prepared"), Fresh("scratch")}, {})
     \/ /\ ref[f].statement # None /\ Available({"result"})
        /\ \E r \in Unused(Results) :
             /\ live' = live \cup {r}
             /\ own' = [own EXCEPT ![r].result = Fresh("result"),
                                   ![r].executed = own[f].executed, ![f].executed = None]
             /\ ref' = [ref EXCEPT ![r].statement = ref[f].statement]
             /\ held' = held \cup {r}
        /\ Driver({Fresh("result")}, {})
  /\ Return(t)
  /\ UNCHANGED <<futureVars, seen, exiting>>

future_await(t) ==
  /\ CanCall(t)
  /\ \E f \in Held(Futures) :
       Enter(t, [Idle EXCEPT !.op = "await", !.at = "wait", !.self = f])
  /\ UNCHANGED <<driver, objectVars, futureVars, held, seen, exiting>>

Awaited(t) ==
  /\ At(t, "await", "wait")
  /\ outcome[call[t].self] # "pending"
  /\ Return(t)
  /\ UNCHANGED <<driver, objectVars, futureVars, held, seen, exiting>>

\* The driver sets the CassFuture.
Resolve(f) ==
  /\ f \in live /\ outcome[f] = "pending"
  /\ \E end \in {"success", "failure"} : outcome' = [outcome EXCEPT ![f] = end]
  /\ UNCHANGED <<driver, objectVars, yielded, pooled, call, held, seen, exiting>>

-----------------------------------------------------------------------------
(* What the program does besides.                                          *)

CanLose(H) ==
  \A u \in Kinds :
    Cardinality({h \in Handles : h[1] = u /\ (h \in H \/ driver[h] = "lost")}) <= LOST_MAX[u]
Lose(H) ==
  driver' = [h \in Handles |-> IF h \in H THEN "lost" ELSE driver[h]]

\* An exception from another thread is taken before a request or a wait, or
\* at its end, when the CassFuture it would have returned is lost as well.
Interrupted(t) ==
  LET unanswered == call[t].at = "submit" /\ Available({RequestOf(call[t].op)}) IN
  /\ t \in Clients /\ call[t].at \in {"submit", "wait"}
  /\ \E H \in {FrameHandles(t)} \cup
              (IF unanswered THEN {FrameHandles(t) \cup {Fresh(RequestOf(call[t].op))}} ELSE {}) :
       CanLose(H) /\ Lose(H)
  /\ Return(t)
  /\ UNCHANGED <<objectVars, futureVars, held, seen, exiting>>

\* An external enumerator is dropped: its fiber never comes to the ensure.
Abandoned(t) ==
  /\ call[t].at = "block"
  /\ CanLose(FrameHandles(t)) /\ Lose(FrameHandles(t))
  /\ Return(t)
  /\ UNCHANGED <<objectVars, futureVars, held, seen, exiting>>

-----------------------------------------------------------------------------
(* The collector.                                                          *)

\* Mutant: statement_mark leaves the session out.
MarkFieldsShort(o) ==
  CASE o \in Sessions -> {"cluster"}
    [] o \in Futures -> {"session", "statement", "on_success", "on_failure", "mutex"}
    [] o \in Results -> {"statement"}
    [] OTHER -> {}

\* The fields that a class's mark function marks.
MarkFields(o) ==
  CASE o \in Sessions -> {"cluster"}
    [] o \in Statements -> {"session"}
    [] o \in Futures -> {"session", "statement", "on_success", "on_failure", "mutex"}
    [] o \in Results -> {"statement"}
    [] OTHER -> {}
Marked(o) == {ref[o][k] : k \in MarkFields(o)} \ {None}

\* Only the references of a future change once other objects are allocated,
\* so only for a future does it matter when the collector marks through it.
Children(o) == IF o \in Futures /\ seen[o] # None THEN seen[o] ELSE Marked(o)

\* What is reached from the roots, of which the program keeps some.  The longest
\* path: a result's or a future's statement, session and cluster.
With(S) == S \cup UNION {Children(o) : o \in S}
Reached(kept) ==
  LET roots == kept \cup pooled \cup UNION {FrameRefs(t) : t \in Threads}
      one == With(roots)
      two == With(one)
  IN  With(two)

\* A step of the incremental marking.
Mark(f) ==
  /\ f \in Reached(held) /\ seen[f] = None
  /\ seen' = [seen EXCEPT ![f] = Marked(f)]
  /\ UNCHANGED <<driver, objectVars, futureVars, call, held, exiting>>

Owned(o) == {own[o][k] : k \in DOMAIN own[o]} \ {None}

\* The *_destroy functions of the objects in dead.  Each frees what is in its
\* own fields, so that their order does not matter.
Destroy(dead) ==
  /\ Driver({}, UNION {Owned(o) : o \in dead})
  /\ live' = live \ dead
  /\ own' = [o \in Objects |-> IF o \in dead THEN NoHandles(o) ELSE own[o]]
  /\ ref' = [o \in Objects |-> IF o \in dead THEN NoRefs(o) ELSE ref[o]]
  /\ outcome' = [f \in Futures |-> IF f \in dead THEN "pending" ELSE outcome[f]]
  /\ yielded' = [f \in Futures |-> f \notin dead /\ yielded[f]]
  /\ seen' = [f \in Futures |-> None]

\* The marking ends with another look at the roots, and the sweep follows.  The
\* program may have dropped any of its references before.
Collect ==
  /\ \E kept \in SUBSET held :
       /\ held' = kept
       /\ Destroy(live \ Reached(kept))
  /\ UNCHANGED <<pooled, call, exiting>>

\* When the program's calls are over the process may end: every object goes.
Exit ==
  /\ ~exiting /\ \A t \in Threads : call[t] = Idle
  /\ exiting' = TRUE
  /\ Destroy(live)
  /\ held' = {} /\ pooled' = {}
  /\ UNCHANGED call

-----------------------------------------------------------------------------
Call(t) ==
  \/ cluster_initialize(t) \/ cluster_connect(t) \/ Connected(t)
  \/ session_prepare(t, "prepare") \/ session_prepare(t, "prepare_async")
  \/ session_execute(t, "execute", "executed")
  \/ session_execute(t, "execute_async", "executed_async")
  \/ statement_build_for_execution(t) \/ nogvl_session_request(t)
  \/ Prepared(t) \/ future_create(t) \/ FutureCreated(t)
  \/ ResultCreated(t) \/ result_await(t)
  \/ result_next_page(t) \/ NextPage(t) \/ result_each(t) \/ result_each_ensure(t)
  \/ \E f \in Futures : future_on(t, f, "on_success") \/ future_on(t, f, "on_failure")
  \/ future_await(t) \/ Awaited(t)
  \/ Interrupted(t) \/ Abandoned(t)

Next ==
  \/ \E t \in Clients : Call(t)
  \/ \E w \in Workers : future_result_yielder_synchronize(w)
  \/ \E t \in Threads : future_result_success_yield(t)
  \/ \E f \in Futures : Resolve(f) \/ Mark(f)
  \/ Collect \/ Exit

Spec == Init /\ [][Next]_vars

-----------------------------------------------------------------------------
\* Owners and what they own; a freed handle that is still named counts.
Owns ==
  (UNION {{o} \X Owned(o) : o \in live}) \cup (UNION {{t} \X FrameHandles(t) : t \in Threads})
InState(states) == {h \in Handles : driver[h] \in states}

Life == INSTANCE Ownership WITH
  Calls <- Threads, Givers <- Futures, Takers <- Results,
  owns <- Owns, existing <- InState({"live", "lost"}), lost <- InState({"lost"})
OwnershipSpec == Life!Spec

SessionOf(r) == ref[ref[r].statement].session
Uses(t) ==
  CASE call[t].op \in {"prepare", "prepare_async"} /\ call[t].at = "submit" ->
         {own[call[t].self].session}
    [] call[t].op \in {"execute", "execute_async"} /\ call[t].at = "submit" ->
         {own[call[t].self].session, call[t].executed}
    [] At(t, "next_page", "submit") ->
         {own[SessionOf(call[t].self)].session, own[call[t].self].executed}
    [] call[t].op \in {"connect", "prepare", "next_page"} /\ call[t].at = "wait" ->
         {call[t].future}
    [] At(t, "execute", "wait") -> {own[call[t].obj].future}
    [] call[t].op = "await" -> {own[call[t].self].future}
    [] At(t, "each", "block") -> {own[call[t].self].result, call[t].iterator}
    [] OTHER -> {}

\* What a call outside the VM lock, a block or a thread of a pool goes on to use
\* is not freed meanwhile, whatever Ruby collects: the chain of mark functions
\* keeps it (session.c:143, statement.c:295, result.c:254, future.c:360-364).
UsesLive ==
  \A h \in (UNION {Uses(t) : t \in Threads}) \cup {own[f].future : f \in pooled} :
     h # None /\ driver[h] = "live"

\* An object in a field is not collected before the object it is a field of,
\* also when it is stored in one that was marked (the write barriers of
\* future.c:232, 289); of the mutex, see MutexLive.
ReferencesLive ==
  \A o \in live : \A k \in RefFields(o) \ {"mutex"} : ref[o][k] \in live \cup {None}

\* So is a future's mutex, for "write barriers when mutating WB_PROTECTED
\* structs" are used (CHANGELOG.md).
MutexLive == \A f \in live \cap Futures : ref[f].mutex \in live \cup {None}

\* Every variable keeps its type; no handle is freed twice (ilios.h:66-78).
TypeOK ==
  /\ driver \in [Handles -> {"free", "live", "lost"}]
  /\ live \subseteq Objects /\ held \subseteq Objects /\ pooled \subseteq Futures
  /\ \A o \in Objects :
       /\ own[o] \in [HandleFields(o) -> Handles \cup {None}]
       /\ ref[o] \in [RefFields(o) -> Objects \cup {None}]
  /\ outcome \in [Futures -> {"pending", "success", "failure"}]
  /\ yielded \in [Futures -> BOOLEAN]
  /\ \A t \in Threads :
       /\ DOMAIN call[t] = DOMAIN Idle
       /\ FrameHandles(t) \subseteq Handles /\ FrameRefs(t) \subseteq Objects
  /\ \A f \in Futures : seen[f] = None \/ seen[f] \subseteq Objects
  /\ exiting \in BOOLEAN
=============================================================================
