---------------------------- MODULE HandlesReach ----------------------------
(* What the collector keeps, in Handles.tla: theorems that what is referred  *)
(* to is live, and that what is in use is not freed, for any objects,        *)
(* threads and numbers of handles.                                           *)
EXTENDS HandlesProofs

-----------------------------------------------------------------------------
(* The invariant.                                                            *)

\* An object that exists refers to objects that exist, and has the fields that
\* its class is created with.
ObjectGood(o) ==
  /\ \A k \in RefFields(o) \ {"mutex"} : ref[o][k] \in live \cup {None}
  /\ o \in Sessions => own[o]["session"] # None
  /\ o \in Statements => ref[o]["session"] # None
  /\ o \in Futures => own[o]["future"] # None /\ ref[o]["session"] # None
  /\ o \in Results => own[o]["executed"] # None /\ ref[o]["statement"] # None

\* The program and the pools have complete objects only: a result has its page,
\* and a future of an execution has the statement, until it calls its block.
HeldGood(o) ==
  /\ o \in live
  /\ o \in Results => own[o]["result"] # None
  /\ o \in Futures /\ ref[o]["statement"] # None /\ ~yielded[o] => own[o]["executed"] # None

FrameGood(k) ==
  /\ {k.self, k.arg, k.obj} \subseteq live \cup {None}
  /\ k.at = "block" => own[k.self]["result"] # None
  /\ k.op = "execute" /\ k.at = "wait" => own[k.obj]["future"] # None
  /\ k.at = "mutex" => ref[k.obj]["statement"] = k.arg
  /\ k.at = "yield" => /\ yielded[k.self]
                       /\ ref[k.self]["statement"] # None => own[k.self]["executed"] # None

\* A block is called by one thread.
OneYield ==
  \A t, u \in Threads :
    call[t].at = "yield" /\ call[u].at = "yield" /\ call[t].self = call[u].self => t = u

\* What the collector found in a future still has all of its references, but
\* for the mutex.
SeenInv ==
  \A f \in Futures :
    seen[f] # None =>
      /\ f \in live
      /\ \A k \in RefFields(f) \ {"mutex"} : ref[f][k] \in seen[f] \cup {None}
      /\ seen[f] \subseteq Sessions \cup Statements \cup Procs \cup Mutexes

ReachInv ==
  /\ \A o \in live : ObjectGood(o)
  /\ \A o \in held \cup pooled : HeldGood(o)
  /\ \A t \in Threads : FrameGood(call[t])
  /\ OneYield
  /\ SeenInv

-----------------------------------------------------------------------------
(* Everything that is reached is reached in three steps: a result or a future *)
(* refers to a statement, it to a session, it to a cluster.                  *)

Below1 == Clusters \cup Procs \cup Mutexes
Below2 == Sessions \cup Below1
Below3 == Statements \cup Below2

LEMMA MarksAll == \A o \in Objects : MarkFields(o) = RefFields(o)
BY ClassesApart, FieldsOf DEF MarkFields, Objects

LEMMA ChildrenBelow ==
  ASSUME Typed, SeenInv, NEW o \in Objects
  PROVE  /\ Children(o) \subseteq Below3
         /\ o \in Below3 => Children(o) \subseteq Below2
         /\ o \in Below2 => Children(o) \subseteq Below1
         /\ o \in Below1 => Children(o) = {}
<1>1. Marked(o) = {ref[o][k] : k \in RefFields(o)} \ {None}
  BY MarksAll DEF Marked
<1>2. \A k \in RefFields(o) : ref[o][k] \in Class(o, k) \cup {None}
  BY DEF Typed, RefOK
<1>3. CASE o \in Futures
  <2>1. \A k \in RefFields(o) : Class(o, k) \subseteq Sessions \cup Statements \cup Procs \cup Mutexes
    BY <1>3, FieldsOf DEF Class
  <2>2. Children(o) \subseteq Below3
    BY <1>1, <1>2, <1>3, <2>1 DEF Children, SeenInv, Below3, Below2, Below1
  <2> QED
    BY <1>3, <2>2, ClassesApart DEF Below3, Below2, Below1
<1>4. CASE o \notin Futures
  <2>1. Children(o) = {ref[o][k] : k \in RefFields(o)} \ {None}
    BY <1>1, <1>4 DEF Children
  <2>2. CASE o \in Results
    BY <1>2, <2>1, <2>2, FieldsOf, ClassesApart DEF Class, Below3, Below2, Below1
  <2>3. CASE o \in Statements
    BY <1>2, <2>1, <2>3, FieldsOf, ClassesApart DEF Class, Below3, Below2, Below1
  <2>4. CASE o \in Sessions
    BY <1>2, <2>1, <2>4, FieldsOf, ClassesApart DEF Class, Below3, Below2, Below1
  <2>5. CASE o \in Below1
    BY <2>1, <2>5, FieldsOf DEF Below1
  <2> QED
    BY <1>4, <2>2, <2>3, <2>4, <2>5 DEF Objects, Below1
<1> QED
  BY <1>3, <1>4

LEMMA ReachedClosed ==
  ASSUME Typed, SeenInv, NEW kept \in SUBSET Objects
  PROVE  /\ kept \cup pooled \cup UNION {FrameRefs(t) : t \in Threads} \subseteq Reached(kept)
         /\ \A o \in Reached(kept) : Children(o) \subseteq Reached(kept)
         /\ Reached(kept) \subseteq
              Below3 \cup kept \cup pooled \cup UNION {FrameRefs(t) : t \in Threads}
<1> DEFINE roots == kept \cup pooled \cup UNION {FrameRefs(t) : t \in Threads}
           one == With(roots)
           two == With(one)
           three == With(two)
<1>1. Reached(kept) = three
  BY DEF Reached
<1>2. roots \subseteq Objects
  BY FrameHandlesType DEF Typed, PlainOK, Objects
<1>3. Below1 \subseteq Below2 /\ Below2 \subseteq Below3 /\ Below3 \subseteq Objects
  BY DEF Below1, Below2, Below3, Objects
<1> HIDE DEF roots
<1>4. \A S : S \subseteq With(S) /\ (\A o \in S : Children(o) \subseteq With(S))
             /\ (\A x \in With(S) \ S : \E o \in S : x \in Children(o))
  BY DEF With
<1>5. \A x \in one \ roots : x \in Below3
  BY <1>2, <1>4, ChildrenBelow
<1>6. one \subseteq Objects
  BY <1>2, <1>3, <1>5
<1>7. \A x \in two \ one : x \in Below2
  <2> TAKE x \in two \ one
  <2>1. PICK o \in one : x \in Children(o)
    BY <1>4
  <2>2. o \notin roots
    BY <1>4, <2>1
  <2> QED
    BY <1>5, <1>6, <2>1, <2>2, ChildrenBelow
<1>8. two \subseteq Objects
  BY <1>3, <1>6, <1>7
<1>9. \A x \in three \ two : x \in Below1
  <2> TAKE x \in three \ two
  <2>1. PICK o \in two : x \in Children(o)
    BY <1>4
  <2>2. o \notin one
    BY <1>4, <2>1
  <2> QED
    BY <1>7, <1>8, <2>1, <2>2, ChildrenBelow
<1>10. three \subseteq Objects
  BY <1>3, <1>8, <1>9
<1>11. \A o \in three : Children(o) \subseteq three
  <2> TAKE o \in three
  <2>1. CASE o \in two
    BY <1>4, <2>1
  <2>2. CASE o \notin two
    BY <1>9, <1>10, <2>2, ChildrenBelow
  <2> QED
    BY <2>1, <2>2
<1>12. roots \subseteq three
  BY <1>4
<1>13. three \subseteq Below3 \cup roots
  BY <1>3, <1>5, <1>7, <1>9
<1> QED
  BY <1>1, <1>11, <1>12, <1>13 DEF roots

-----------------------------------------------------------------------------
(* What a step that takes nothing away keeps.                                *)

\* A future of a prepare has no executed statement to keep.
Counts(o, k) == o \in Futures /\ k = "executed" => ref[o]["statement"] # None

Grows ==
  /\ live \subseteq live'
  /\ \A o \in live :
       /\ \A k \in HandleFields(o) : own[o][k] # None /\ Counts(o, k) => own'[o][k] # None
       /\ \A k \in RefFields(o) \ {"on_success", "on_failure", "mutex"} : ref'[o][k] = ref[o][k]
  /\ \A f \in Futures : yielded[f] => yielded'[f]

LEMMA HeldKept ==
  ASSUME Grows, NEW o, HeldGood(o)
  PROVE  HeldGood(o)'
BY FieldsOf, ClassesApart DEF Grows, HeldGood, Counts

LEMMA FrameKept ==
  ASSUME Grows, NEW k, FrameOK(k), FrameGood(k)
  PROVE  FrameGood(k)'
<1>1. {k.self, k.arg, k.obj} \subseteq live' \cup {None}
  BY DEF Grows, FrameGood
<1>2. ASSUME k.at = "block" PROVE own'[k.self]["result"] # None
  <2>1. k.op = "each" /\ k.self \in Results
    BY <1>2, IdleOK DEF FrameOK, PlaceOK, Frames
  <2>2. k.self \in live
    BY <2>1, HandlesAssumption DEF FrameGood, Objects
  <2> QED
    BY <1>2, <2>1, <2>2, FieldsOf, ClassesApart DEF Grows, FrameGood, Counts
<1>3. ASSUME k.op = "execute", k.at = "wait" PROVE own'[k.obj]["future"] # None
  <2>1. k.obj \in Results
    BY <1>3 DEF FrameOK
  <2>2. k.obj \in live
    BY <2>1, HandlesAssumption DEF FrameGood, Objects
  <2> QED
    BY <1>3, <2>1, <2>2, FieldsOf, ClassesApart DEF Grows, FrameGood, Counts
<1>4. ASSUME k.at = "mutex" PROVE ref'[k.obj]["statement"] = k.arg
  <2>1. k.obj \in Futures
    BY <1>4 DEF FrameOK
  <2>2. k.obj \in live
    BY <2>1, HandlesAssumption DEF FrameGood, Objects
  <2> QED
    BY <1>4, <2>1, <2>2, FieldsOf, ClassesApart DEF Grows, FrameGood, Counts
<1>5. ASSUME k.at = "yield"
      PROVE  yielded'[k.self] /\ (ref'[k.self]["statement"] # None => own'[k.self]["executed"] # None)
  <2>1. k.self \in Futures
    BY <1>5 DEF FrameOK
  <2>2. k.self \in live
    BY <2>1, HandlesAssumption DEF FrameGood, Objects
  <2> QED
    BY <1>5, <2>1, <2>2, FieldsOf, ClassesApart DEF Grows, FrameGood, Counts
<1> QED
  BY <1>1, <1>2, <1>3, <1>4, <1>5 DEF FrameGood

LEMMA ObjectKept ==
  ASSUME Grows, NEW o \in live, ObjectGood(o), live \subseteq Objects,
         \A k \in RefFields(o) \cap {"on_success", "on_failure"} : ref'[o][k] \in live' \cup {None}
  PROVE  ObjectGood(o)'
<1>1. \A k \in RefFields(o) \ {"mutex"} : ref'[o][k] \in live' \cup {None}
  BY DEF Grows, ObjectGood
<1>2. o \in Sessions => own'[o]["session"] # None
  BY FieldsOf, ClassesApart DEF Grows, ObjectGood, Counts
<1>3. o \in Statements => ref'[o]["session"] # None
  BY FieldsOf, ClassesApart DEF Grows, ObjectGood, Counts
<1>4. o \in Futures => own'[o]["future"] # None /\ ref'[o]["session"] # None
  BY FieldsOf, ClassesApart DEF Grows, ObjectGood, Counts
<1>5. o \in Results => own'[o]["executed"] # None /\ ref'[o]["statement"] # None
  BY FieldsOf, ClassesApart DEF Grows, ObjectGood, Counts
<1> QED
  BY <1>1, <1>2, <1>3, <1>4, <1>5 DEF ObjectGood

\* A step of a call that stores no block and calls none.
LEMMA CallReach ==
  ASSUME Typed, ReachInv, Grows, UNCHANGED seen,
         \A f \in live \cap Futures : /\ ref'[f]["on_success"] = ref[f]["on_success"]
                                      /\ ref'[f]["on_failure"] = ref[f]["on_failure"],
         \A o \in live' \ live : ObjectGood(o)',
         \A o \in (held' \cup pooled') \ (held \cup pooled) : HeldGood(o)',
         NEW t \in Threads, NEW k, FrameGood(k)', k.at # "yield", call' = [call EXCEPT ![t] = k]
  PROVE  ReachInv'
<1>1. call'[t] = k /\ \A u \in Threads \ {t} : call'[u] = call[u]
  BY DEF Typed, CallOK
<1>2. ASSUME NEW o \in live' PROVE ObjectGood(o)'
  <2>1. CASE o \in live
    <3>1. \A b \in RefFields(o) \cap {"on_success", "on_failure"} : ref'[o][b] \in live' \cup {None}
      <4>1. RefFields(o) \cap {"on_success", "on_failure"} # {} => o \in Futures
        BY <2>1, FieldsOf DEF Typed, PlainOK, Objects
      <4> QED
        BY <2>1, <4>1, FieldsOf DEF ReachInv, ObjectGood, Grows
    <3> QED
      BY <2>1, <3>1, ObjectKept DEF ReachInv, Typed, PlainOK
  <2> QED
    BY <2>1
<1>3. \A o \in held' \cup pooled' : HeldGood(o)'
  BY HeldKept DEF ReachInv
<1>4. ASSUME NEW u \in Threads PROVE FrameGood(call[u])'
  <2>1. CASE u = t
    BY <1>1, <2>1 DEF FrameGood
  <2>2. CASE u # t
    <3>1. PICK j : j = call[u] /\ FrameOK(j) /\ FrameGood(j)
      BY DEF ReachInv, Typed, CallOK
    <3>2. FrameGood(j)'
      BY <3>1, FrameKept
    <3>3. call'[u] = j
      BY <1>1, <2>2, <3>1
    <3> QED
      BY <3>2, <3>3 DEF FrameGood
  <2> QED
    BY <2>1, <2>2
<1>5. OneYield'
  BY <1>1 DEF ReachInv, OneYield
<1>6. SeenInv'
  <2> SUFFICES ASSUME NEW f \in Futures, seen[f] # None
               PROVE  /\ f \in live'
                      /\ \A j \in RefFields(f) \ {"mutex"} : ref'[f][j] \in seen[f] \cup {None}
                      /\ seen[f] \subseteq Sessions \cup Statements \cup Procs \cup Mutexes
    BY DEF SeenInv
  <2>1. /\ f \in live
        /\ \A j \in RefFields(f) \ {"mutex"} : ref[f][j] \in seen[f] \cup {None}
        /\ seen[f] \subseteq Sessions \cup Statements \cup Procs \cup Mutexes
    BY DEF ReachInv, SeenInv
  <2>2. \A j \in RefFields(f) \ {"mutex"} : ref'[f][j] = ref[f][j]
    BY <2>1, FieldsOf DEF Grows
  <2> QED
    BY <2>1, <2>2 DEF Grows
<1> QED
  BY <1>2, <1>3, <1>4, <1>5, <1>6 DEF ReachInv

LEMMA FrameReach ==
  ASSUME Typed, ReachInv, UNCHANGED <<objectVars, futureVars, held, seen>>,
         NEW t \in Threads, NEW k, FrameOK(k), FrameGood(k), k.at # "yield", call' = [call EXCEPT ![t] = k]
  PROVE  ReachInv'
<1>1. Grows /\ live' = live /\ ref' = ref /\ held' = held /\ pooled' = pooled
  BY DEF Grows, objectVars, futureVars
<1>2. FrameGood(k)'
  BY <1>1, FrameKept
<1> QED
  BY <1>1, <1>2, CallReach

LEMMA IdleGood ==
  /\ FrameGood(Idle) /\ FrameGood(Idle)'
  /\ Idle.at # "yield"
BY DEF FrameGood, Idle

LEMMA ReturnReach ==
  ASSUME Typed, ReachInv, UNCHANGED <<objectVars, futureVars, held, seen>>, NEW t \in Threads, Return(t)
  PROVE  ReachInv'
<1>1. call' = [call EXCEPT ![t] = Idle]
  BY DEF Return, Enter
<1> QED
  BY <1>1, FrameReach, IdleGood, IdleOK

LEMMA HeldLive == ASSUME ReachInv PROVE held \subseteq live /\ pooled \subseteq live
BY DEF ReachInv, HeldGood

-----------------------------------------------------------------------------
(* The steps of the calls.                                                   *)

LEMMA PrepareReach ==
  ASSUME Typed, Typed', ReachInv, NEW t \in Threads, NEW op \in {"prepare", "prepare_async"},
         session_prepare(t, op)
  PROVE  ReachInv'
<1>1. PICK s \in Held(Sessions) :
        call' = [call EXCEPT ![t] = [Idle EXCEPT !.op = op, !.at = "submit", !.self = s]]
  BY DEF session_prepare, Enter
<1> DEFINE k == [Idle EXCEPT !.op = op, !.at = "submit", !.self = s]
<1>2. s \in live
  BY HeldLive DEF Held
<1>3. k.op = op /\ k.at = "submit" /\ k.self = s /\ k.arg = None /\ k.obj = None
  BY DEF Idle
<1>4. call' = [call EXCEPT ![t] = k]
  BY <1>1
<1> HIDE DEF k
<1>5. FrameOK(k)
  BY <1>4 DEF Typed, CallOK
<1>6. FrameGood(k)
  BY <1>2, <1>3 DEF FrameGood
<1> QED
  BY <1>3, <1>4, <1>5, <1>6, FrameReach DEF session_prepare

LEMMA ExecuteReach ==
  ASSUME Typed, Typed', ReachInv, NEW t \in Threads, NEW op \in {"execute", "execute_async"}, NEW kind,
         session_execute(t, op, kind)
  PROVE  ReachInv'
<1>1. PICK s \in Held(Sessions), st \in Held(Statements) :
        call' = [call EXCEPT ![t] = [Idle EXCEPT !.op = op, !.at = "build", !.self = s, !.arg = st,
                                                 !.executed = Fresh(kind)]]
  BY DEF session_execute, Enter
<1> DEFINE k == [Idle EXCEPT !.op = op, !.at = "build", !.self = s, !.arg = st, !.executed = Fresh(kind)]
<1>2. s \in live /\ st \in live
  BY HeldLive DEF Held
<1>3. k.op = op /\ k.at = "build" /\ k.self = s /\ k.arg = st /\ k.obj = None
  BY DEF Idle
<1>4. call' = [call EXCEPT ![t] = k]
  BY <1>1
<1> HIDE DEF k
<1>5. FrameOK(k)
  BY <1>4 DEF Typed, CallOK
<1>6. FrameGood(k)
  BY <1>2, <1>3 DEF FrameGood
<1> QED
  BY <1>3, <1>4, <1>5, <1>6, FrameReach DEF session_execute

\* A call that goes on to wait for the driver has what it had.
LEMMA OnwardReach ==
  ASSUME Typed, Typed', ReachInv, UNCHANGED <<objectVars, futureVars, held, seen>>,
         NEW t \in Threads, NEW k, call' = [call EXCEPT ![t] = k],
         k.op = call[t].op, k.self = call[t].self, k.arg = call[t].arg, k.obj = call[t].obj,
         k.at \in {"submit", "create"} \/ (k.at = "wait" /\ k.op \in {"prepare", "next_page"})
  PROVE  ReachInv'
<1>1. FrameOK(k)
  BY DEF Typed, CallOK
<1>2. FrameGood(call[t])
  BY DEF ReachInv
<1>3. FrameGood(k)
  BY <1>2 DEF FrameGood
<1> QED
  BY <1>1, <1>3, FrameReach

LEMMA BuildReach ==
  ASSUME Typed, Typed', ReachInv, NEW t \in Threads, statement_build_for_execution(t)
  PROVE  ReachInv'
<1>1. UNCHANGED <<objectVars, futureVars, held, seen>>
  BY DEF statement_build_for_execution
<1>2. CASE call' = [call EXCEPT ![t].at = "submit"]
  <2> DEFINE k == [call[t] EXCEPT !.at = "submit"]
  <2>1. k.op = call[t].op /\ k.at = "submit" /\ k.self = call[t].self /\ k.arg = call[t].arg /\ k.obj = call[t].obj
    BY DEF Typed, CallOK, Frames
  <2>2. call' = [call EXCEPT ![t] = k]
    BY <1>2
  <2> HIDE DEF k
  <2> QED
    BY <1>1, <2>1, <2>2, OnwardReach
<1>3. CASE Return(t)
  BY <1>1, <1>3, ReturnReach
<1> QED
  BY <1>2, <1>3 DEF statement_build_for_execution

LEMMA RequestReach ==
  ASSUME Typed, Typed', ReachInv, NEW t \in Threads, nogvl_session_request(t)
  PROVE  ReachInv'
<1> DEFINE place == IF call[t].op \in {"prepare", "next_page"} THEN "wait" ELSE "create"
           k == [call[t] EXCEPT !.future = Fresh(RequestOf(call[t].op)), !.at = place]
<1>1. UNCHANGED <<objectVars, futureVars, held, seen>>
  BY DEF nogvl_session_request
<1>2. place = "create" \/ (place = "wait" /\ call[t].op \in {"prepare", "next_page"})
  OBVIOUS
<1>3. call' = [call EXCEPT ![t] = k]
  BY DEF nogvl_session_request
<1> HIDE DEF place
<1>4. k.op = call[t].op /\ k.at = place /\ k.self = call[t].self /\ k.arg = call[t].arg /\ k.obj = call[t].obj
  BY DEF Typed, CallOK, Frames
<1> HIDE DEF k
<1> QED
  BY <1>1, <1>2, <1>3, <1>4, OnwardReach

LEMMA NextPageBeginReach ==
  ASSUME Typed, Typed', ReachInv, NEW t \in Threads, result_next_page(t)
  PROVE  ReachInv'
<1>1. PICK r \in Held(Results) :
        call' = [call EXCEPT ![t] = [Idle EXCEPT !.op = "next_page", !.at = "submit", !.self = r]]
  BY DEF result_next_page, Enter
<1> DEFINE k == [Idle EXCEPT !.op = "next_page", !.at = "submit", !.self = r]
<1>2. r \in live
  BY HeldLive DEF Held
<1>3. k.op = "next_page" /\ k.at = "submit" /\ k.self = r /\ k.arg = None /\ k.obj = None
  BY DEF Idle
<1>4. call' = [call EXCEPT ![t] = k]
  BY <1>1
<1> HIDE DEF k
<1>5. FrameOK(k)
  BY <1>4 DEF Typed, CallOK
<1>6. FrameGood(k)
  BY <1>2, <1>3 DEF FrameGood
<1> QED
  BY <1>3, <1>4, <1>5, <1>6, FrameReach DEF result_next_page

LEMMA EachReach ==
  ASSUME Typed, Typed', ReachInv, NEW t \in Threads, result_each(t)
  PROVE  ReachInv'
<1>1. PICK r \in Held(Results) :
        call' = [call EXCEPT ![t] = [Idle EXCEPT !.op = "each", !.at = "block", !.self = r,
                                                 !.iterator = Fresh("iterator")]]
  BY DEF result_each, Enter
<1> DEFINE k == [Idle EXCEPT !.op = "each", !.at = "block", !.self = r, !.iterator = Fresh("iterator")]
<1>2. r \in live /\ own[r]["result"] # None
  BY DEF Held, ReachInv, HeldGood
<1>3. k.op = "each" /\ k.at = "block" /\ k.self = r /\ k.arg = None /\ k.obj = None
  BY DEF Idle
<1>4. call' = [call EXCEPT ![t] = k]
  BY <1>1
<1> HIDE DEF k
<1>5. FrameOK(k)
  BY <1>4 DEF Typed, CallOK
<1>6. FrameGood(k)
  BY <1>2, <1>3 DEF FrameGood
<1> QED
  BY <1>3, <1>4, <1>5, <1>6, FrameReach DEF result_each

LEMMA AwaitReach ==
  ASSUME Typed, Typed', ReachInv, NEW t \in Threads, future_await(t)
  PROVE  ReachInv'
<1>1. PICK f \in Held(Futures) :
        call' = [call EXCEPT ![t] = [Idle EXCEPT !.op = "await", !.at = "wait", !.self = f]]
  BY DEF future_await, Enter
<1> DEFINE k == [Idle EXCEPT !.op = "await", !.at = "wait", !.self = f]
<1>2. f \in live
  BY HeldLive DEF Held
<1>3. k.op = "await" /\ k.at = "wait" /\ k.self = f /\ k.arg = None /\ k.obj = None
  BY DEF Idle
<1>4. call' = [call EXCEPT ![t] = k]
  BY <1>1
<1> HIDE DEF k
<1>5. FrameOK(k)
  BY <1>4 DEF Typed, CallOK
<1>6. FrameGood(k)
  BY <1>2, <1>3 DEF FrameGood
<1> QED
  BY <1>3, <1>4, <1>5, <1>6, FrameReach DEF future_await

LEMMA OverReach ==
  ASSUME Typed, ReachInv, NEW t \in Threads,
         result_each_ensure(t) \/ Awaited(t) \/ Interrupted(t) \/ Abandoned(t)
  PROVE  ReachInv'
BY ReturnReach DEF result_each_ensure, Awaited, Interrupted, Abandoned

LEMMA CreateGrows ==
  ASSUME Typed, NEW o \in Objects, o \notin live, NEW handles, NEW refs, Create(o, handles, refs),
         UNCHANGED yielded
  PROVE  /\ Grows /\ live' = live \cup {o}
         /\ own'[o] = Given(HandleFields(o), handles) /\ ref'[o] = Given(RefFields(o), refs)
         /\ \A p \in Objects \ {o} : own'[p] = own[p] /\ ref'[p] = ref[p]
<1>1. own'[o] = Given(HandleFields(o), handles) /\ \A p \in Objects \ {o} : own'[p] = own[p]
  BY DEF Create, Given, Typed, OwnOK
<1>2. ref'[o] = Given(RefFields(o), refs) /\ \A p \in Objects \ {o} : ref'[p] = ref[p]
  BY DEF Create, Given, Typed, RefOK
<1>3. live' = live \cup {o} /\ live \subseteq Objects \ {o}
  BY DEF Create, Typed, PlainOK
<1>4. Grows
  BY <1>1, <1>2, <1>3 DEF Grows
<1> QED
  BY <1>1, <1>2, <1>3, <1>4

\* A step of a call that creates an object.
LEMMA CreateReach ==
  ASSUME Typed, ReachInv, UNCHANGED <<yielded, seen>>,
         NEW o \in Objects, o \notin live, NEW handles, NEW refs, Create(o, handles, refs),
         ObjectGood(o)', held' \subseteq held \cup {o}, o \in held' => HeldGood(o)', UNCHANGED pooled,
         NEW t \in Threads, NEW k, FrameGood(k)', k.at # "yield", call' = [call EXCEPT ![t] = k]
  PROVE  ReachInv'
<1>1. /\ Grows /\ live' = live \cup {o}
      /\ \A p \in Objects \ {o} : own'[p] = own[p] /\ ref'[p] = ref[p]
  BY CreateGrows
<1>2. \A f \in live \cap Futures : /\ ref'[f]["on_success"] = ref[f]["on_success"]
                                  /\ ref'[f]["on_failure"] = ref[f]["on_failure"]
  BY <1>1 DEF Objects
<1>3. \A p \in live' \ live : ObjectGood(p)'
  <2> TAKE p \in live' \ live
  <2> QED
    BY <1>1
<1>4. \A p \in (held' \cup pooled') \ (held \cup pooled) : HeldGood(p)'
  <2> TAKE p \in (held' \cup pooled') \ (held \cup pooled)
  <2> QED
    BY DEF HeldGood
<1> QED
  BY <1>1, <1>2, <1>3, <1>4, CallReach

LEMMA InitializeReach ==
  ASSUME Typed, Typed', ReachInv, NEW t \in Threads, cluster_initialize(t)
  PROVE  ReachInv'
<1>1. PICK c \in Unused(Clusters) :
        Create(c, [cluster |-> Fresh("cluster")], <<>>) /\ held' = held \cup {c}
  BY DEF cluster_initialize
<1>2. c \in Clusters /\ c \in Objects /\ c \notin live
  BY DEF Unused, Objects
<1>3. UNCHANGED <<yielded, seen, pooled, call>> /\ call[t] = Idle
  BY DEF cluster_initialize, futureVars, CanCall
<1>4. call' = [call EXCEPT ![t] = Idle]
  BY <1>3 DEF Typed, CallOK
<1>5. c \in live'
  BY <1>1 DEF Create
<1>6. c \notin Sessions /\ c \notin Statements /\ c \notin Futures /\ c \notin Results /\ RefFields(c) = {}
  BY <1>2, ClassesApart, FieldsOf
<1>7. ObjectGood(c)' /\ HeldGood(c)'
  BY <1>5, <1>6 DEF ObjectGood, HeldGood
<1> QED
  BY <1>1, <1>2, <1>3, <1>4, <1>7, IdleGood, CreateReach

LEMMA ConnectReach ==
  ASSUME Typed, Typed', ReachInv, NEW t \in Threads, cluster_connect(t)
  PROVE  ReachInv'
<1>1. PICK c \in Held(Clusters), s \in Unused(Sessions) :
        /\ Create(s, [session |-> Fresh("session")], [cluster |-> c])
        /\ Enter(t, [Idle EXCEPT !.op = "connect", !.at = "wait", !.self = c, !.obj = s,
                                 !.future = Fresh("request")])
  BY DEF cluster_connect
<1>0. PICK k : k = [Idle EXCEPT !.op = "connect", !.at = "wait", !.self = c, !.obj = s,
                                !.future = Fresh("request")]
  OBVIOUS
<1>2. c \in live /\ s \in Sessions /\ s \in Objects /\ s \notin live
  BY HeldLive DEF Held, Unused, Objects
<1>3. UNCHANGED <<yielded, seen, pooled, held>>
  BY DEF cluster_connect, futureVars
<1>4. k.op = "connect" /\ k.at = "wait" /\ k.self = c /\ k.arg = None /\ k.obj = s
  BY <1>0 DEF Idle
<1>5. call' = [call EXCEPT ![t] = k]
  BY <1>0, <1>1 DEF Enter
<1>6. /\ live' = live \cup {s} /\ own'[s] = Given(HandleFields(s), [session |-> Fresh("session")])
      /\ ref'[s] = Given(RefFields(s), [cluster |-> c])
  BY <1>1, <1>2, <1>3, CreateGrows
<1>7. FrameGood(k)'
  BY <1>2, <1>4, <1>6 DEF FrameGood
<1>8. Fresh("session") # None
  BY FreshFree DEF cluster_connect, Available, Kinds
<1>9. own'[s]["session"] = Fresh("session") /\ ref'[s]["cluster"] = c
  BY <1>2, <1>6, FieldsOf DEF Given
<1>10. s \notin Statements /\ s \notin Futures /\ s \notin Results /\ RefFields(s) = {"cluster"}
  BY <1>2, ClassesApart, FieldsOf
<1>11. ObjectGood(s)'
  BY <1>2, <1>6, <1>8, <1>9, <1>10 DEF ObjectGood
<1>12. s \notin held
  BY <1>2, HeldLive
<1> QED
  BY <1>1, <1>2, <1>3, <1>4, <1>5, <1>7, <1>11, <1>12, CreateReach

LEMMA ConnectedReach ==
  ASSUME Typed, Typed', ReachInv, NEW t \in Threads, Connected(t)
  PROVE  ReachInv'
<1>1. UNCHANGED objectVars /\ UNCHANGED futureVars /\ UNCHANGED seen /\ held' \subseteq held \cup {call[t].obj}
  BY DEF Connected
<1>2. call' = [call EXCEPT ![t] = Idle]
  BY DEF Connected, Return, Enter
<1>3. Grows
  BY <1>1 DEF Grows, objectVars, futureVars
<1>4. PICK s : s = call[t].obj
  OBVIOUS
<1>5. s \in Sessions
  BY <1>4 DEF Typed, CallOK, FrameOK, Connected, At
<1>6. s \in live /\ s \notin Futures /\ s \notin Results
  BY <1>4, <1>5, ClassesApart, HandlesAssumption DEF ReachInv, FrameGood, Objects
<1>7. HeldGood(s)'
  BY <1>1, <1>6 DEF HeldGood, objectVars
<1>8. \A o \in (held' \cup pooled') \ (held \cup pooled) : HeldGood(o)'
  <2> TAKE o \in (held' \cup pooled') \ (held \cup pooled)
  <2>1. o = s
    BY <1>1, <1>4 DEF futureVars
  <2> QED
    BY <1>7, <2>1
<1> QED
  BY <1>1, <1>2, <1>3, <1>8, IdleGood, CallReach DEF objectVars

LEMMA NewStatementReach ==
  ASSUME Typed, ReachInv, NEW t \in Threads, NEW s \in live \cap Sessions, NewStatement(s),
         UNCHANGED <<futureVars, seen>>, Available({"prepared", "scratch"}), Return(t)
  PROVE  ReachInv'
<1>1. PICK st \in Unused(Statements) :
        /\ Create(st, [prepared |-> Fresh("prepared"), statement |-> Fresh("scratch")], [session |-> s])
        /\ held' = held \cup {st}
  BY DEF NewStatement
<1>2. st \in Statements /\ st \in Objects /\ st \notin live
  BY DEF Unused, Objects
<1>3. call' = [call EXCEPT ![t] = Idle] /\ UNCHANGED <<yielded, seen, pooled>>
  BY DEF Return, Enter, futureVars
<1>4. live' = live \cup {st} /\ ref'[st] = Given(RefFields(st), [session |-> s])
  BY <1>1, <1>2, <1>3, CreateGrows
<1>5. st \notin Sessions /\ st \notin Futures /\ st \notin Results /\ RefFields(st) = {"session"}
  BY <1>2, ClassesApart, FieldsOf
<1>6. ref'[st]["session"] = s /\ s # None
  BY <1>4, <1>5, HandlesAssumption DEF Given, Objects
<1>7. ObjectGood(st)' /\ HeldGood(st)'
  BY <1>4, <1>5, <1>6 DEF ObjectGood, HeldGood
<1> QED
  BY <1>1, <1>2, <1>3, <1>7, IdleGood, CreateReach

\* What the frame of a call refers to.
LEMMA FrameLive ==
  ASSUME ReachInv, NEW t \in Threads
  PROVE  /\ call[t].self \in Objects => call[t].self \in live
         /\ call[t].arg \in Objects => call[t].arg \in live
         /\ call[t].obj \in Objects => call[t].obj \in live
BY HandlesAssumption DEF ReachInv, FrameGood

LEMMA PreparedReach ==
  ASSUME Typed, Typed', ReachInv, NEW t \in Threads, Prepared(t)
  PROVE  ReachInv'
<1>1. CASE UNCHANGED <<objectVars, held>>
  BY <1>1, ReturnReach DEF Prepared
<1>2. CASE Available({"prepared", "scratch"}) /\ NewStatement(call[t].self)
  <2>1. PICK s \in Sessions : s = call[t].self
    BY DEF Typed, CallOK, FrameOK, Prepared, At
  <2>2. s \in live
    BY <2>1, FrameLive DEF Objects
  <2> QED
    BY <1>2, <2>1, <2>2, NewStatementReach DEF Prepared
<1> QED
  BY <1>1, <1>2 DEF Prepared

LEMMA FutureCreateReach ==
  ASSUME Typed, Typed', ReachInv, NEW t \in Threads, future_create(t)
  PROVE  ReachInv'
<1>0. PICK c : c = call[t]
  OBVIOUS
<1>1. PICK f \in Unused(Futures) :
        /\ Create(f, [future |-> c.future], [session |-> c.self, statement |-> c.arg])
        /\ call' = [call EXCEPT ![t].at = "mutex", ![t].obj = f, ![t].future = None]
  BY <1>0 DEF future_create
<1>2. PICK k : k = [c EXCEPT !.at = "mutex", !.obj = f, !.future = None]
  OBVIOUS
<1>3. f \in Futures /\ f \in Objects /\ f \notin live
  BY DEF Unused, Objects
<1>4. /\ c \in Frames /\ FrameOK(c) /\ c.at = "create" /\ c.self \in Sessions
      /\ c.op \in {"prepare_async", "execute_async"}
  BY <1>0 DEF Typed, CallOK, future_create, FrameOK, Executing
<1>5. c.self \in live /\ c.arg \in live \cup {None}
  BY <1>0, <1>4, FrameLive DEF Objects, ReachInv, FrameGood
<1>6. k.op = c.op /\ k.at = "mutex" /\ k.self = c.self /\ k.arg = c.arg /\ k.obj = f
  BY <1>2, <1>4 DEF Frames
<1>7. call' = [call EXCEPT ![t] = k]
  BY <1>0, <1>1, <1>2
<1>8. UNCHANGED <<yielded, seen, pooled, held>>
  BY DEF future_create, futureVars
<1>9. /\ live' = live \cup {f} /\ own'[f] = Given(HandleFields(f), [future |-> c.future])
      /\ ref'[f] = Given(RefFields(f), [session |-> c.self, statement |-> c.arg])
  BY <1>1, <1>3, <1>8, CreateGrows
<1>10. /\ f \notin Sessions /\ f \notin Statements /\ f \notin Results
       /\ HandleFields(f) = {"future", "executed"}
       /\ RefFields(f) = {"session", "statement", "on_success", "on_failure", "mutex"}
  BY <1>3, ClassesApart, FieldsOf
<1>11. own'[f]["future"] = c.future /\ c.future # None
  BY <1>4, <1>9, <1>10 DEF Given, FrameOK
<1>12. /\ ref'[f]["session"] = c.self /\ ref'[f]["statement"] = c.arg /\ c.self # None
       /\ ref'[f]["on_success"] = None /\ ref'[f]["on_failure"] = None
  BY <1>4, <1>9, <1>10, HandlesAssumption DEF Given, Objects
<1>13. ObjectGood(f)'
  BY <1>5, <1>9, <1>10, <1>11, <1>12 DEF ObjectGood
<1>14. FrameGood(k)'
  BY <1>4, <1>5, <1>6, <1>9, <1>12 DEF FrameGood
<1>15. f \notin held
  BY <1>3, HeldLive
<1> QED
  BY <1>1, <1>3, <1>6, <1>7, <1>8, <1>13, <1>14, <1>15, CreateReach

LEMMA ResultCreatedReach ==
  ASSUME Typed, Typed', ReachInv, NEW t \in Threads, ResultCreated(t)
  PROVE  ReachInv'
<1>0. PICK c : c = call[t]
  OBVIOUS
<1>1. PICK r \in Unused(Results) :
        /\ Create(r, [future |-> c.future, executed |-> c.executed], [statement |-> c.arg])
        /\ call' = [call EXCEPT ![t].at = "wait", ![t].obj = r, ![t].future = None, ![t].executed = None]
  BY <1>0 DEF ResultCreated
<1>2. PICK k : k = [c EXCEPT !.at = "wait", !.obj = r, !.future = None, !.executed = None]
  OBVIOUS
<1>3. r \in Results /\ r \in Objects /\ r \notin live
  BY DEF Unused, Objects
<1>4. /\ c \in Frames /\ FrameOK(c) /\ c.at = "create" /\ c.op = "execute" /\ c.self \in Sessions
      /\ c.arg \in Statements /\ c.executed # None /\ c.future # None
  BY <1>0 DEF Typed, CallOK, ResultCreated, At, FrameOK, Executing
<1>5. c.self \in live /\ c.arg \in live
  BY <1>0, <1>4, FrameLive DEF Objects
<1>6. k.op = "execute" /\ k.at = "wait" /\ k.self = c.self /\ k.arg = c.arg /\ k.obj = r
  BY <1>2, <1>4 DEF Frames
<1>7. call' = [call EXCEPT ![t] = k]
  BY <1>0, <1>1, <1>2
<1>8. UNCHANGED <<yielded, seen, pooled, held>>
  BY DEF ResultCreated, futureVars
<1>9. /\ live' = live \cup {r}
      /\ own'[r] = Given(HandleFields(r), [future |-> c.future, executed |-> c.executed])
      /\ ref'[r] = Given(RefFields(r), [statement |-> c.arg])
  BY <1>1, <1>3, <1>8, CreateGrows
<1>10. /\ r \notin Sessions /\ r \notin Statements /\ r \notin Futures
       /\ HandleFields(r) = {"result", "future", "executed"} /\ RefFields(r) = {"statement"}
  BY <1>3, ClassesApart, FieldsOf
<1>11. own'[r]["future"] = c.future /\ own'[r]["executed"] = c.executed
  BY <1>9, <1>10 DEF Given
<1>12. ref'[r]["statement"] = c.arg /\ c.arg # None
  BY <1>4, <1>9, <1>10, HandlesAssumption DEF Given, Objects
<1>13. ObjectGood(r)'
  BY <1>4, <1>5, <1>9, <1>10, <1>11, <1>12 DEF ObjectGood
<1>14. FrameGood(k)'
  BY <1>4, <1>5, <1>6, <1>9, <1>11 DEF FrameGood
<1>15. r \notin held
  BY <1>3, HeldLive
<1> QED
  BY <1>1, <1>3, <1>6, <1>7, <1>8, <1>13, <1>14, <1>15, CreateReach

LEMMA FutureCreatedReach ==
  ASSUME Typed, Typed', ReachInv, NEW t \in Threads, FutureCreated(t)
  PROVE  ReachInv'
<1>0. PICK c, o : c = call[t] /\ o = call[t].obj
  OBVIOUS
<1>1. PICK m \in Unused(Mutexes) : live' = live \cup {m} /\ ref' = [ref EXCEPT ![o].mutex = m]
  BY <1>0 DEF FutureCreated
<1>2. own' = [own EXCEPT ![o].executed = c.executed] /\ held' = held \cup {o} /\ UNCHANGED <<yielded, pooled, seen>>
  BY <1>0 DEF FutureCreated, futureVars
<1>3. /\ FrameOK(c) /\ c.at = "mutex" /\ o \in Futures /\ o \in Objects
      /\ c.op \in {"prepare_async", "execute_async"}
  BY <1>0, IdleOK DEF Typed, CallOK, FutureCreated, FrameOK, PlaceOK, Objects, Frames
<1>4. o \in live /\ ref[o]["statement"] = c.arg
  BY <1>0, <1>3, FrameLive DEF ReachInv, FrameGood
<1>5. /\ HandleFields(o) = {"future", "executed"} /\ own[o] \in [HandleFields(o) -> Handles \cup {None}]
      /\ RefFields(o) = {"session", "statement", "on_success", "on_failure", "mutex"}
      /\ ref[o] \in [RefFields(o) -> Objects \cup {None}]
  BY <1>3, FieldsOf DEF Typed, OwnOK, RefOK
<1>6. /\ own'[o]["future"] = own[o]["future"] /\ own'[o]["executed"] = c.executed
      /\ \A p \in Objects \ {o} : own'[p] = own[p]
  BY <1>2, <1>3, <1>5 DEF Typed, OwnOK
<1>7. /\ \A k \in RefFields(o) \ {"mutex"} : ref'[o][k] = ref[o][k]
      /\ \A p \in Objects \ {o} : ref'[p] = ref[p]
  BY <1>1, <1>3, <1>5 DEF Typed, RefOK
<1>8. ref[o]["statement"] # None => c.executed # None
  BY <1>3, <1>4 DEF FrameOK, Executing
<1>9. Grows
  <2>1. live \subseteq live' /\ live \subseteq Objects
    BY <1>1 DEF Typed, PlainOK
  <2>2. \A k \in HandleFields(o) : own[o][k] # None /\ Counts(o, k) => own'[o][k] # None
    BY <1>3, <1>5, <1>6, <1>8 DEF Counts
  <2> QED
    BY <1>2, <1>6, <1>7, <2>1, <2>2 DEF Grows
<1>10. m \notin Sessions /\ m \notin Statements /\ m \notin Futures /\ m \notin Results /\ RefFields(m) = {}
  BY ClassesApart, FieldsOf DEF Unused
<1>11. ObjectGood(m)'
  BY <1>10 DEF ObjectGood
<1>12. HeldGood(o)'
  <2>1. o \in live' /\ o \notin Results
    BY <1>1, <1>3, <1>4, ClassesApart
  <2>2. ref'[o]["statement"] # None => own'[o]["executed"] # None
    BY <1>5, <1>6, <1>7, <1>8
  <2> QED
    BY <2>1, <2>2 DEF HeldGood
<1>13. \A f \in live \cap Futures : /\ ref'[f]["on_success"] = ref[f]["on_success"]
                                   /\ ref'[f]["on_failure"] = ref[f]["on_failure"]
  BY <1>5, <1>7 DEF Objects
<1>14. \A p \in live' \ live : ObjectGood(p)'
  <2> TAKE p \in live' \ live
  <2> QED
    BY <1>1, <1>11
<1>15. \A p \in (held' \cup pooled') \ (held \cup pooled) : HeldGood(p)'
  <2> TAKE p \in (held' \cup pooled') \ (held \cup pooled)
  <2> QED
    BY <1>2, <1>12
<1>16. call' = [call EXCEPT ![t] = Idle]
  BY DEF FutureCreated, Return, Enter
<1> QED
  BY <1>2, <1>9, <1>13, <1>14, <1>15, <1>16, IdleGood, CallReach

\* The page of a result is stored, and with a next one the CassFuture.
LEMMA PageReach ==
  ASSUME Typed, ReachInv, UNCHANGED <<live, ref, futureVars, seen>>, NEW t \in Threads, Return(t),
         NEW r \in live \cap Results, NEW x, x # None, NEW y, y = own[r]["future"] \/ y # None,
         own' = [own EXCEPT ![r] = [own[r] EXCEPT !.result = x, !.future = y]], held' \subseteq held \cup {r}
  PROVE  ReachInv'
<1>1. r \in Objects /\ HandleFields(r) = {"result", "future", "executed"} /\ r \notin Futures
  BY FieldsOf, ClassesApart DEF Objects
<1>2. own[r] \in [HandleFields(r) -> Handles \cup {None}]
  BY <1>1 DEF Typed, OwnOK
<1>3. /\ own'[r]["result"] = x /\ own'[r]["future"] = y /\ own'[r]["executed"] = own[r]["executed"]
      /\ \A p \in Objects \ {r} : own'[p] = own[p]
  BY <1>1, <1>2 DEF Typed, OwnOK
<1>4. Grows
  <2>1. live \subseteq Objects
    BY DEF Typed, PlainOK
  <2>2. \A k \in HandleFields(r) : own[r][k] # None => own'[r][k] # None
    BY <1>1, <1>3
  <2> QED
    BY <1>3, <2>1, <2>2 DEF Grows, futureVars
<1>5. HeldGood(r)'
  BY <1>1, <1>3 DEF HeldGood
<1>6. \A p \in (held' \cup pooled') \ (held \cup pooled) : HeldGood(p)'
  <2> TAKE p \in (held' \cup pooled') \ (held \cup pooled)
  <2> QED
    BY <1>5 DEF futureVars
<1>7. call' = [call EXCEPT ![t] = Idle]
  BY DEF Return, Enter
<1> QED
  BY <1>4, <1>6, <1>7, IdleGood, CallReach

LEMMA ResultAwaitReach ==
  ASSUME Typed, Typed', ReachInv, NEW t \in Threads, result_await(t)
  PROVE  ReachInv'
<1>1. CASE UNCHANGED <<own, held>>
  BY <1>1, ReturnReach DEF result_await, objectVars
<1>2. CASE /\ Available({"result"}) /\ own' = [own EXCEPT ![call[t].obj].result = Fresh("result")]
           /\ held' = held \cup {call[t].obj}
  <2>1. PICK r \in Results : r = call[t].obj
    BY DEF Typed, CallOK, FrameOK, result_await, At
  <2>2. r \in live /\ r \in Objects
    BY <2>1, FrameLive DEF Objects
  <2>3. PICK x, y : x = Fresh("result") /\ y = own[r]["future"]
    OBVIOUS
  <2>4. x # None
    BY <1>2, <2>3, FreshFree DEF Available, Kinds
  <2>5. HandleFields(r) = {"result", "future", "executed"} /\ own[r] \in [HandleFields(r) -> Handles \cup {None}]
    BY <2>2, FieldsOf DEF Typed, OwnOK
  <2>6. [own[r] EXCEPT !.result = x, !.future = y] = [own[r] EXCEPT !.result = x]
    BY <2>3, <2>5
  <2>7. own' = [own EXCEPT ![r] = [own[r] EXCEPT !.result = x, !.future = y]]
    BY <1>2, <2>1, <2>3, <2>6
  <2> QED
    BY <1>2, <2>1, <2>2, <2>3, <2>4, <2>7, PageReach DEF result_await
<1> QED
  BY <1>1, <1>2 DEF result_await

LEMMA NextPageReach ==
  ASSUME Typed, Typed', ReachInv, NEW t \in Threads, NextPage(t)
  PROVE  ReachInv'
<1>1. CASE UNCHANGED own
  BY <1>1, ReturnReach DEF NextPage, objectVars
<1>2. CASE /\ Available({"result"})
           /\ own' = [own EXCEPT ![call[t].self].result = Fresh("result"), ![call[t].self].future = call[t].future]
  <2>1. PICK r \in Results : r = call[t].self
    BY DEF Typed, CallOK, FrameOK, NextPage, At
  <2>2. r \in live
    BY <2>1, FrameLive DEF Objects
  <2>3. PICK x, y : x = Fresh("result") /\ y = call[t].future
    OBVIOUS
  <2>4. x # None
    BY <1>2, <2>3, FreshFree DEF Available, Kinds
  <2>5. y # None
    BY <2>3 DEF Typed, CallOK, FrameOK, NextPage, At
  <2>6. own' = [own EXCEPT ![r] = [own[r] EXCEPT !.result = x, !.future = y]]
    BY <1>2, <2>1, <2>2, <2>3 DEF Typed, OwnOK, Objects
  <2> QED
    BY <2>1, <2>2, <2>4, <2>5, <2>6, PageReach DEF NextPage
<1> QED
  BY <1>1, <1>2 DEF NextPage

\* A thread goes on to call the block of a future, for the first time.
LEMMA YieldReach ==
  ASSUME Typed, ReachInv, Grows, UNCHANGED own, NEW t \in Threads, NEW f \in Futures, HeldGood(f),
         yielded'[f], ~yielded[f], call' = [call EXCEPT ![t] = YieldFrame(f)]
  PROVE  (\A u \in Threads : FrameGood(call[u]))' /\ OneYield'
<1>1. call'[t] = YieldFrame(f) /\ \A u \in Threads \ {t} : call'[u] = call[u]
  BY DEF Typed, CallOK
<1>2. f \in live /\ f \in live' /\ RefFields(f) = {"session", "statement", "on_success", "on_failure", "mutex"}
  BY FieldsOf DEF HeldGood, Grows
<1>3. ref'[f]["statement"] # None => own'[f]["executed"] # None
  BY <1>2 DEF HeldGood, Grows
<1>4. /\ YieldFrame(f).self = f /\ YieldFrame(f).arg = None /\ YieldFrame(f).obj = None
      /\ YieldFrame(f).at = "yield" /\ YieldFrame(f).op = "none"
  BY DEF YieldFrame, Idle
<1>5. ASSUME NEW u \in Threads PROVE FrameGood(call[u])'
  <2>1. CASE u = t
    BY <1>1, <1>2, <1>3, <1>4, <2>1 DEF FrameGood
  <2>2. CASE u # t
    <3>1. PICK j : j = call[u] /\ FrameOK(j) /\ FrameGood(j)
      BY DEF ReachInv, Typed, CallOK
    <3>2. FrameGood(j)'
      BY <3>1, FrameKept
    <3>3. call'[u] = j
      BY <1>1, <2>2, <3>1
    <3> QED
      BY <3>2, <3>3 DEF FrameGood
  <2> QED
    BY <2>1, <2>2
<1>6. \A u \in Threads : call[u].at = "yield" => call[u].self # f
  BY DEF ReachInv, FrameGood
<1>7. OneYield'
  BY <1>1, <1>4, <1>6 DEF ReachInv, OneYield
<1> QED
  BY <1>5, <1>7

LEMMA FramesKept ==
  ASSUME Typed, ReachInv, Grows, UNCHANGED call
  PROVE  (\A u \in Threads : FrameGood(call[u]))' /\ OneYield'
<1>1. ASSUME NEW u \in Threads PROVE FrameGood(call[u])'
  <2>1. PICK j : j = call[u] /\ FrameOK(j) /\ FrameGood(j)
    BY DEF ReachInv, Typed, CallOK
  <2>2. FrameGood(j)'
    BY <2>1, FrameKept
  <2> QED
    BY <2>1, <2>2 DEF FrameGood
<1>2. OneYield'
  BY DEF ReachInv, OneYield
<1> QED
  BY <1>1, <1>2

LEMMA FutureOnReach ==
  ASSUME Typed, Typed', ReachInv, NEW t \in Threads, NEW f \in Futures, NEW method \in {"on_success", "on_failure"},
         future_on(t, f, method)
  PROVE  ReachInv'
<1>1. PICK b \in Unused(Procs) :
        /\ live' = live \cup {b}
        /\ ref' = [ref EXCEPT ![f][method] = b]
        /\ Barrier(f, b)
  BY DEF future_on
<1>2. f \in held /\ HeldGood(f) /\ f \in live /\ f \in Objects /\ b \in Procs
  BY DEF future_on, ReachInv, HeldGood, Objects, Unused
<1>3. RefFields(f) = {"session", "statement", "on_success", "on_failure", "mutex"}
  BY FieldsOf
<1>4. /\ ref'[f][method] = b /\ \A k \in RefFields(f) \ {method} : ref'[f][k] = ref[f][k]
      /\ \A p \in Objects \ {f} : ref'[p] = ref[p]
  BY <1>1, <1>2, <1>3 DEF Typed, RefOK
<1>5. UNCHANGED <<own, held, outcome>> /\ pooled' \subseteq pooled \cup {f}
  BY DEF future_on
<1>6. yielded \in [Futures -> BOOLEAN] /\ yielded' \in [Futures -> BOOLEAN]
  BY DEF Typed, PlainOK
<1>7. /\ \A g \in Futures : yielded[g] => yielded'[g]
  <2>1. \A g \in Futures \ {f} : yielded'[g] = yielded[g]
    BY <1>6 DEF future_on
  <2>2. yielded[f] => yielded'[f]
    BY <1>6 DEF future_on
  <2> QED
    BY <2>1, <2>2
<1>8. Grows
  <2>1. live \subseteq live' /\ live \subseteq Objects
    BY <1>1 DEF Typed, PlainOK
  <2>2. \A o \in live : \A k \in RefFields(o) \ {"on_success", "on_failure", "mutex"} : ref'[o][k] = ref[o][k]
    BY <1>4, <2>1
  <2> QED
    BY <1>5, <1>7, <2>1, <2>2 DEF Grows
<1>9. ASSUME NEW o \in live' PROVE ObjectGood(o)'
  <2>1. CASE o \in live
    <3>1. o \in Objects /\ live \subseteq Objects
      BY <2>1 DEF Typed, PlainOK
    <3>2. \A k \in RefFields(o) \cap {"on_success", "on_failure"} : ref'[o][k] \in live' \cup {None}
      <4>1. CASE o = f
        BY <1>1, <1>2, <1>3, <1>4, <4>1 DEF ReachInv, ObjectGood
      <4>2. CASE o # f
        BY <1>1, <1>4, <2>1, <3>1, <4>2 DEF ReachInv, ObjectGood
      <4> QED
        BY <4>1, <4>2
    <3> QED
      BY <1>8, <2>1, <3>1, <3>2, ObjectKept DEF ReachInv
  <2>2. CASE o = b
    <3>1. o \notin Sessions /\ o \notin Statements /\ o \notin Futures /\ o \notin Results /\ RefFields(o) = {}
      BY <1>2, <2>2, ClassesApart, FieldsOf
    <3> QED
      BY <3>1 DEF ObjectGood
  <2> QED
    BY <1>1, <2>1, <2>2
<1>10. \A o \in held' \cup pooled' : HeldGood(o)'
  BY <1>2, <1>5, <1>8, HeldKept DEF ReachInv
<1>11. (\A u \in Threads : FrameGood(call[u]))' /\ OneYield'
  <2>1. CASE UNCHANGED call
    BY <1>8, <2>1, FramesKept
  <2>2. CASE /\ ~yielded[f] /\ yielded'[f]
             /\ call' = [call EXCEPT ![t] = YieldFrame(f)]
    BY <1>2, <1>5, <1>8, <2>2, YieldReach
  <2>3. CASE outcome[f] # "pending" /\ ~yielded[f] /\ outcome[f] = "success" /\ method = "on_success"
    <3>1. yielded'[f]
      BY <1>6, <2>3 DEF future_on, BlockOf
    <3>2. call' = [call EXCEPT ![t] = YieldFrame(f)]
      BY <2>3 DEF future_on, YieldFrame
    <3> QED
      BY <2>2, <2>3, <3>1, <3>2
  <2> QED
    BY <2>1, <2>3 DEF future_on
<1>12. SeenInv'
  <2> SUFFICES ASSUME NEW g \in Futures, seen'[g] # None
               PROVE  /\ g \in live'
                      /\ \A j \in RefFields(g) \ {"mutex"} : ref'[g][j] \in seen'[g] \cup {None}
                      /\ seen'[g] \subseteq Sessions \cup Statements \cup Procs \cup Mutexes
    BY DEF SeenInv
  <2>1. seen \in [Futures -> {None} \cup SUBSET Objects]
    BY DEF Typed, PlainOK
  <2>2. /\ seen[g] # None
        /\ g # f => seen'[g] = seen[g]
        /\ g = f => seen'[g] = seen[g] \cup {b}
    BY <1>1, <2>1 DEF Barrier
  <2>3. /\ g \in live
        /\ \A j \in RefFields(g) \ {"mutex"} : ref[g][j] \in seen[g] \cup {None}
        /\ seen[g] \subseteq Sessions \cup Statements \cup Procs \cup Mutexes
    BY <2>2 DEF ReachInv, SeenInv
  <2>4. CASE g = f
    BY <1>1, <1>2, <1>4, <2>2, <2>3, <2>4
  <2>5. CASE g # f
    BY <1>1, <1>4, <2>2, <2>3, <2>5 DEF Objects
  <2> QED
    BY <2>4, <2>5
<1> QED
  BY <1>9, <1>10, <1>11, <1>12 DEF ReachInv

LEMMA YielderReach ==
  ASSUME Typed, Typed', ReachInv, NEW w \in Workers, future_result_yielder_synchronize(w)
  PROVE  ReachInv'
<1>1. PICK f \in pooled :
        LET due == ~yielded[f] /\ ref[f][BlockOf[outcome[f]]] # None IN
        /\ pooled' = pooled \ {f}
        /\ yielded' = [yielded EXCEPT ![f] = @ \/ due]
        /\ IF due /\ outcome[f] = "success"
           THEN Enter(w, [Idle EXCEPT !.at = "yield", !.self = f])
           ELSE UNCHANGED call
        /\ UNCHANGED <<driver, objectVars, outcome, held, seen, exiting>>
  BY DEF future_result_yielder_synchronize
<1>2. f \in Futures /\ w \in Threads /\ HeldGood(f)
  BY DEF Typed, PlainOK, Threads, ReachInv
<1>3. yielded \in [Futures -> BOOLEAN] /\ yielded' \in [Futures -> BOOLEAN]
  BY DEF Typed, PlainOK
<1>4. Grows
  <2>1. \A g \in Futures \ {f} : yielded'[g] = yielded[g]
    BY <1>1, <1>3
  <2>2. yielded[f] => yielded'[f]
    BY <1>1, <1>2, <1>3
  <2> QED
    BY <1>1, <2>1, <2>2 DEF Grows, objectVars
<1>5. (\A o \in live : ObjectGood(o))'
  BY <1>1 DEF ReachInv, ObjectGood, objectVars
<1>6. \A o \in held' \cup pooled' : HeldGood(o)'
  BY <1>1, <1>4, HeldKept DEF ReachInv
<1>7. SeenInv'
  BY <1>1 DEF ReachInv, SeenInv, objectVars
<1>8. (\A u \in Threads : FrameGood(call[u]))' /\ OneYield'
  <2>1. CASE UNCHANGED call
    BY <1>4, <2>1, FramesKept
  <2>2. CASE Enter(w, [Idle EXCEPT !.at = "yield", !.self = f]) /\ ~yielded[f] /\ ref[f][BlockOf[outcome[f]]] # None
    <3>1. yielded'[f]
      BY <1>1, <1>2, <1>3, <2>2
    <3>2. call' = [call EXCEPT ![w] = YieldFrame(f)]
      BY <2>2 DEF Enter, YieldFrame
    <3>3. UNCHANGED own
      BY <1>1 DEF objectVars
    <3> QED
      BY <1>2, <1>4, <2>2, <3>1, <3>2, <3>3, YieldReach
  <2> QED
    BY <1>1, <2>1, <2>2
<1> QED
  BY <1>5, <1>6, <1>7, <1>8 DEF ReachInv

\* The executed statement goes from the future to a new result.
LEMMA HandOverReach ==
  ASSUME Typed, ReachInv, UNCHANGED <<futureVars, seen>>,
         NEW t \in Threads, NEW f \in Futures, f = call[t].self, call[t].at = "yield", Return(t),
         ref[f]["statement"] # None, NEW r \in Unused(Results), NEW x, x # None,
         live' = live \cup {r},
         own' = [own EXCEPT ![r].result = x, ![r].executed = own[f].executed, ![f].executed = None],
         ref' = [ref EXCEPT ![r].statement = ref[f].statement],
         held' = held \cup {r}
  PROVE  ReachInv'
<1>1. /\ f \in live /\ f \in Objects /\ yielded[f] /\ own[f]["executed"] # None
      /\ ref[f]["statement"] \in live
  <2>1. FrameGood(call[t]) /\ f \in Objects
    BY DEF ReachInv, Objects
  <2>2. f \in live /\ yielded[f] /\ own[f]["executed"] # None
    BY <2>1, HandlesAssumption DEF FrameGood
  <2> QED
    BY <2>1, <2>2, FieldsOf DEF ReachInv, ObjectGood
<1>2. r \in Results /\ r \in Objects /\ r \notin live /\ r # f /\ r \notin Futures
  BY ClassesApart DEF Unused, Objects
<1>3. /\ HandleFields(r) = {"result", "future", "executed"} /\ own[r] \in [HandleFields(r) -> Handles \cup {None}]
      /\ HandleFields(f) = {"future", "executed"} /\ own[f] \in [HandleFields(f) -> Handles \cup {None}]
      /\ RefFields(r) = {"statement"} /\ ref[r] \in [RefFields(r) -> Objects \cup {None}]
  BY <1>1, <1>2, FieldsOf DEF Typed, OwnOK, RefOK
<1>4. /\ own'[r]["result"] = x /\ own'[r]["executed"] = own[f]["executed"]
      /\ own'[f]["future"] = own[f]["future"]
      /\ \A p \in Objects \ {r, f} : own'[p] = own[p]
  BY <1>1, <1>2, <1>3 DEF Typed, OwnOK
<1>5. /\ ref'[r]["statement"] = ref[f]["statement"]
      /\ \A p \in Objects \ {r} : ref'[p] = ref[p]
  BY <1>2, <1>3 DEF Typed, RefOK
<1>6. live \subseteq Objects \ {r}
  BY <1>2 DEF Typed, PlainOK
<1>7. call'[t] = Idle /\ \A u \in Threads \ {t} : call'[u] = call[u]
  BY DEF Return, Enter, Typed, CallOK
<1>8. ASSUME NEW o \in live' PROVE ObjectGood(o)'
  <2>1. CASE o = r
    <3>1. o \notin Sessions /\ o \notin Statements /\ o \notin Futures
      BY <1>2, <2>1, ClassesApart
    <3>2. ref'[o]["statement"] \in live' \cup {None}
      BY <1>1, <1>5, <2>1
    <3>3. own'[o]["executed"] # None /\ ref'[o]["statement"] # None
      BY <1>1, <1>4, <1>5, <2>1
    <3> QED
      BY <1>3, <2>1, <3>1, <3>2, <3>3 DEF ObjectGood
  <2>2. CASE o = f
    <3>1. o \notin Sessions /\ o \notin Statements /\ o \notin Results
      BY <2>2, ClassesApart
    <3>2. ObjectGood(f) /\ ref'[f] = ref[f] /\ own'[f]["future"] = own[f]["future"]
      BY <1>1, <1>2, <1>4, <1>5 DEF ReachInv
    <3> QED
      BY <2>2, <3>1, <3>2 DEF ObjectGood
  <2>3. CASE o \in live \ {f}
    <3>1. own'[o] = own[o] /\ ref'[o] = ref[o] /\ ObjectGood(o)
      BY <1>4, <1>5, <1>6, <2>3 DEF ReachInv
    <3>2. \A k \in RefFields(o) \ {"mutex"} : ref'[o][k] \in live' \cup {None}
      BY <3>1 DEF ObjectGood
    <3> QED
      BY <3>1, <3>2 DEF ObjectGood
  <2> QED
    BY <2>1, <2>2, <2>3
<1>9. ASSUME NEW o \in held' \cup pooled' PROVE HeldGood(o)'
  <2>1. CASE o = r
    BY <1>2, <1>4, <2>1 DEF HeldGood
  <2>2. CASE o = f
    BY <1>1, <2>2, ClassesApart DEF HeldGood, futureVars
  <2>3. CASE o # r /\ o # f
    <3>1. HeldGood(o)
      BY <2>3 DEF ReachInv, futureVars
    <3>2. own'[o] = own[o] /\ ref'[o] = ref[o] /\ o \in live'
      BY <1>4, <1>5, <1>6, <2>3, <3>1 DEF HeldGood
    <3> QED
      BY <3>1, <3>2 DEF HeldGood, futureVars
  <2> QED
    BY <2>1, <2>2, <2>3
<1>10. ASSUME NEW u \in Threads PROVE FrameGood(call[u])'
  <2>1. CASE u = t
    <3>1. call'[u] = Idle
      BY <1>7, <2>1
    <3> QED
      BY <3>1, IdleGood DEF FrameGood
  <2>2. CASE u # t
    <3>1. PICK k : k = call[u]
      OBVIOUS
    <3>2. FrameOK(k) /\ FrameGood(k) /\ call'[u] = k
      BY <1>7, <2>2, <3>1 DEF ReachInv, Typed, CallOK
    <3>3. {k.self, k.arg, k.obj} \subseteq live' \cup {None}
      BY <3>2 DEF FrameGood
    <3>4. ASSUME k.at = "block" PROVE own'[k.self]["result"] # None
      <4>1. k.self \in Results
        BY <3>2, <3>4, IdleOK DEF FrameOK, PlaceOK, Frames
      <4>2. k.self \in live /\ k.self \in Objects
        BY <3>2, <4>1, HandlesAssumption DEF FrameGood, Objects
      <4>3. own'[k.self] = own[k.self]
        BY <1>2, <1>4, <4>1, <4>2, ClassesApart
      <4> QED
        BY <3>2, <3>4, <4>3 DEF FrameGood
    <3>5. ASSUME k.op = "execute", k.at = "wait" PROVE own'[k.obj]["future"] # None
      <4>1. k.obj \in Results
        BY <3>2, <3>5 DEF FrameOK
      <4>2. k.obj \in live /\ k.obj \in Objects
        BY <3>2, <4>1, HandlesAssumption DEF FrameGood, Objects
      <4>3. own'[k.obj] = own[k.obj]
        BY <1>2, <1>4, <4>1, <4>2, ClassesApart
      <4> QED
        BY <3>2, <3>5, <4>3 DEF FrameGood
    <3>6. ASSUME k.at = "mutex" PROVE ref'[k.obj]["statement"] = k.arg
      <4>1. k.obj \in Futures /\ k.obj \in Objects
        BY <3>2, <3>6 DEF FrameOK, Objects
      <4> QED
        BY <1>2, <1>5, <3>2, <3>6, <4>1 DEF FrameGood
    <3>7. ASSUME k.at = "yield"
          PROVE  yielded'[k.self] /\ (ref'[k.self]["statement"] # None => own'[k.self]["executed"] # None)
      <4>1. k.self \in Futures /\ k.self \in Objects
        BY <3>2, <3>7 DEF FrameOK, Objects
      <4>2. k.self # f
        BY <2>2, <3>1, <3>7 DEF ReachInv, OneYield
      <4>3. own'[k.self] = own[k.self] /\ ref'[k.self] = ref[k.self]
        BY <1>2, <1>4, <1>5, <4>1, <4>2
      <4> QED
        BY <3>2, <3>7, <4>3 DEF FrameGood, futureVars
    <3>8. FrameGood(k)'
      BY <3>3, <3>4, <3>5, <3>6, <3>7 DEF FrameGood
    <3> QED
      BY <3>2, <3>8 DEF FrameGood
  <2> QED
    BY <2>1, <2>2
<1>11. OneYield'
  BY <1>7, IdleGood DEF ReachInv, OneYield
<1>12. SeenInv'
  <2> SUFFICES ASSUME NEW g \in Futures, seen[g] # None
               PROVE  /\ g \in live'
                      /\ \A j \in RefFields(g) \ {"mutex"} : ref'[g][j] \in seen[g] \cup {None}
                      /\ seen[g] \subseteq Sessions \cup Statements \cup Procs \cup Mutexes
    BY DEF SeenInv
  <2>1. ref'[g] = ref[g]
    BY <1>2, <1>5 DEF Objects
  <2> QED
    BY <2>1 DEF ReachInv, SeenInv
<1> QED
  BY <1>8, <1>9, <1>10, <1>11, <1>12 DEF ReachInv

LEMMA SuccessYieldReach ==
  ASSUME Typed, Typed', ReachInv, NEW t \in Threads, future_result_success_yield(t)
  PROVE  ReachInv'
<1>1. PICK f \in Futures : f = call[t].self
  BY DEF Typed, CallOK, future_result_success_yield, FrameOK
<1>2. f \in live
  BY <1>1, FrameLive DEF Objects
<1>3. Return(t) /\ UNCHANGED <<futureVars, seen>> /\ call[t].at = "yield"
  BY DEF future_result_success_yield
<1>4. CASE UNCHANGED <<objectVars, held>>
  BY <1>3, <1>4, ReturnReach
<1>5. CASE Available({"prepared", "scratch"}) /\ NewStatement(ref[f].session)
  <2>1. PICK s : s = ref[f]["session"]
    OBVIOUS
  <2>2. RefFields(f) = {"session", "statement", "on_success", "on_failure", "mutex"}
    BY FieldsOf
  <2>3. s \in Sessions
    BY <1>2, <2>1, <2>2 DEF Typed, RefOK, Class, ReachInv, ObjectGood, Objects
  <2>4. s \in live
    BY <1>2, <2>1, <2>2 DEF ReachInv, ObjectGood
  <2> QED
    BY <1>3, <1>5, <2>1, <2>3, <2>4, NewStatementReach
<1>6. CASE /\ ref[f].statement # None /\ Available({"result"})
           /\ \E r \in Unused(Results) :
                /\ live' = live \cup {r}
                /\ own' = [own EXCEPT ![r].result = Fresh("result"),
                                      ![r].executed = own[f].executed, ![f].executed = None]
                /\ ref' = [ref EXCEPT ![r].statement = ref[f].statement]
                /\ held' = held \cup {r}
  <2>1. PICK x : x = Fresh("result")
    OBVIOUS
  <2>2. x # None
    BY <1>6, <2>1, FreshFree DEF Available, Kinds
  <2>3. PICK r \in Unused(Results) :
          /\ live' = live \cup {r}
          /\ own' = [own EXCEPT ![r].result = x, ![r].executed = own[f].executed, ![f].executed = None]
          /\ ref' = [ref EXCEPT ![r].statement = ref[f].statement]
          /\ held' = held \cup {r}
    BY <1>6, <2>1
  <2>4. ref[f]["statement"] # None
    BY <1>6
  <2> QED
    BY <1>1, <1>3, <2>2, <2>3, <2>4, HandOverReach
<1> QED
  BY <1>1, <1>4, <1>5, <1>6 DEF future_result_success_yield

LEMMA ResolveReach == ASSUME Typed, ReachInv, NEW f \in Futures, Resolve(f) PROVE ReachInv'
<1>1. UNCHANGED <<objectVars, yielded, pooled, call, held, seen>>
  BY DEF Resolve
<1>2. (\A o \in live : ObjectGood(o))' /\ (\A o \in held \cup pooled : HeldGood(o))'
  BY <1>1 DEF ReachInv, ObjectGood, HeldGood, objectVars
<1>3. (\A t \in Threads : FrameGood(call[t]))'
  BY <1>1 DEF ReachInv, FrameGood, objectVars
<1>4. OneYield' /\ SeenInv'
  BY <1>1 DEF ReachInv, OneYield, SeenInv, objectVars
<1> QED
  BY <1>2, <1>3, <1>4 DEF ReachInv

-----------------------------------------------------------------------------
(* The collector.                                                            *)

LEMMA ChildrenAll ==
  ASSUME Typed, SeenInv, NEW o \in Objects, NEW k \in RefFields(o) \ {"mutex"}, ref[o][k] # None
  PROVE  ref[o][k] \in Children(o)
<1>1. ref[o][k] \in Marked(o)
  BY MarksAll DEF Marked
<1> QED
  BY <1>1 DEF Children, SeenInv

LEMMA MarkReach == ASSUME Typed, ReachInv, NEW f \in Futures, Mark(f) PROVE ReachInv'
<1>1. UNCHANGED <<objectVars, futureVars, call, held>> /\ seen' = [seen EXCEPT ![f] = Marked(f)] /\ f \in Reached(held)
  BY DEF Mark
<1>2. (\A o \in live : ObjectGood(o))' /\ (\A o \in held \cup pooled : HeldGood(o))'
  BY <1>1 DEF ReachInv, ObjectGood, HeldGood, objectVars, futureVars
<1>3. (\A t \in Threads : FrameGood(call[t]))' /\ OneYield'
  BY <1>1 DEF ReachInv, FrameGood, OneYield, objectVars, futureVars
<1>4. f \in live
  <2>1. f \in held \cup pooled \cup UNION {FrameRefs(t) : t \in Threads}
    <3>1. f \notin Below3
      BY ClassesApart DEF Below3, Below2, Below1
    <3> QED
      BY <1>1, <3>1, ReachedClosed DEF Typed, PlainOK, ReachInv
  <2> QED
    BY <2>1, HeldLive DEF ReachInv, FrameGood, FrameRefs
<1>5. f \in Objects /\ RefFields(f) = {"session", "statement", "on_success", "on_failure", "mutex"}
  BY FieldsOf DEF Objects
<1>6. Marked(f) = {ref[f][k] : k \in RefFields(f)} \ {None}
  BY <1>5, MarksAll DEF Marked
<1>7. Marked(f) \subseteq Sessions \cup Statements \cup Procs \cup Mutexes
  <2>1. \A k \in RefFields(f) : ref[f][k] \in Class(f, k) \cup {None}
    BY <1>5 DEF Typed, RefOK
  <2>2. \A k \in RefFields(f) : Class(f, k) \subseteq Sessions \cup Statements \cup Procs \cup Mutexes
    BY <1>5 DEF Class
  <2> QED
    BY <1>6, <2>1, <2>2
<1>8. \A j \in RefFields(f) \ {"mutex"} : ref[f][j] \in Marked(f) \cup {None}
  BY <1>6
<1>9. SeenInv'
  <2> SUFFICES ASSUME NEW g \in Futures, seen'[g] # None
               PROVE  /\ g \in live
                      /\ \A j \in RefFields(g) \ {"mutex"} : ref[g][j] \in seen'[g] \cup {None}
                      /\ seen'[g] \subseteq Sessions \cup Statements \cup Procs \cup Mutexes
    BY <1>1 DEF SeenInv, objectVars
  <2>1. seen \in [Futures -> {None} \cup SUBSET Objects]
    BY DEF Typed, PlainOK
  <2>2. (g = f => seen'[g] = Marked(f)) /\ (g # f => seen'[g] = seen[g])
    BY <1>1, <2>1
  <2>3. CASE g = f
    BY <1>4, <1>7, <1>8, <2>2, <2>3
  <2>4. CASE g # f
    BY <2>2, <2>4 DEF ReachInv, SeenInv
  <2> QED
    BY <2>3, <2>4
<1> QED
  BY <1>2, <1>3, <1>9 DEF ReachInv

\* What is destroyed is not referred to by what is left.
LEMMA DestroyReach ==
  ASSUME Typed, ReachInv, NEW dead, dead \subseteq live, Destroy(dead), UNCHANGED call,
         held' \subseteq held \ dead, pooled' \subseteq pooled \ dead,
         \A t \in Threads : FrameRefs(t) \cap dead = {},
         \A o \in live \ dead : \A k \in RefFields(o) \ {"mutex"} : ref[o][k] \notin dead
  PROVE  ReachInv'
<1>1. /\ live' = live \ dead /\ live \subseteq Objects
      /\ \A o \in Objects \ dead : own'[o] = own[o] /\ ref'[o] = ref[o]
      /\ \A f \in Futures \ dead : yielded'[f] = yielded[f]
      /\ \A f \in Futures : seen'[f] = None
  BY DEF Destroy, Typed, PlainOK
<1>2. ASSUME NEW o \in live' PROVE ObjectGood(o)'
  <2>1. o \in live \ dead /\ own'[o] = own[o] /\ ref'[o] = ref[o] /\ ObjectGood(o)
    BY <1>1 DEF ReachInv
  <2>2. \A k \in RefFields(o) \ {"mutex"} : ref'[o][k] \in live' \cup {None}
    BY <1>1, <2>1 DEF ObjectGood
  <2> QED
    BY <2>1, <2>2 DEF ObjectGood
<1>3. ASSUME NEW o \in held' \cup pooled' PROVE HeldGood(o)'
  <2>1. HeldGood(o) /\ o \in live \ dead
    BY DEF ReachInv, HeldGood
  <2>2. own'[o] = own[o] /\ ref'[o] = ref[o] /\ o \in live' /\ (o \in Futures => yielded'[o] = yielded[o])
    BY <1>1, <2>1
  <2> QED
    BY <2>1, <2>2 DEF HeldGood
<1>4. ASSUME NEW t \in Threads PROVE FrameGood(call[t])'
  <2>1. PICK k : k = call[t]
    OBVIOUS
  <2>2. FrameOK(k) /\ FrameGood(k) /\ call'[t] = k
    BY <2>1 DEF ReachInv, Typed, CallOK
  <2>3. {k.self, k.arg, k.obj} \subseteq live' \cup {None}
    BY <1>1, <2>1, <2>2 DEF FrameGood, FrameRefs
  <2>4. \A x \in {k.self, k.arg, k.obj} :
          x \in Objects => /\ own'[x] = own[x] /\ ref'[x] = ref[x]
                           /\ x \in Futures => yielded'[x] = yielded[x]
    BY <1>1, <2>3, HandlesAssumption
  <2>5. k.at = "block" => k.self \in Results
    BY <2>2, IdleOK DEF FrameOK, PlaceOK, Frames
  <2>6. k.op = "execute" /\ k.at = "wait" => k.obj \in Results
    BY <2>2 DEF FrameOK
  <2>7. k.at = "mutex" => k.obj \in Futures
    BY <2>2 DEF FrameOK
  <2>8. k.at = "yield" => k.self \in Futures
    BY <2>2 DEF FrameOK
  <2>9. Results \subseteq Objects /\ Futures \subseteq Objects
    BY DEF Objects
  <2>10. FrameGood(k)'
    BY <2>2, <2>3, <2>4, <2>5, <2>6, <2>7, <2>8, <2>9 DEF FrameGood
  <2> QED
    BY <2>2, <2>10 DEF FrameGood
<1>5. OneYield' /\ SeenInv'
  BY <1>1 DEF ReachInv, OneYield, SeenInv
<1> QED
  BY <1>2, <1>3, <1>4, <1>5 DEF ReachInv

LEMMA CollectReach == ASSUME Typed, ReachInv, Collect PROVE ReachInv'
<1>1. PICK kept \in SUBSET held : held' = kept /\ Destroy(live \ Reached(kept))
  BY DEF Collect
<1>2. kept \in SUBSET Objects /\ SeenInv
  BY DEF Typed, PlainOK, ReachInv
<1>3. /\ kept \cup pooled \cup UNION {FrameRefs(t) : t \in Threads} \subseteq Reached(kept)
      /\ \A o \in Reached(kept) : Children(o) \subseteq Reached(kept)
  BY <1>2, ReachedClosed
<1>4. UNCHANGED call /\ UNCHANGED pooled
  BY DEF Collect
<1> DEFINE dead == live \ Reached(kept)
<1>5. \A o \in live \ dead : \A k \in RefFields(o) \ {"mutex"} : ref[o][k] \notin dead
  <2> TAKE o \in live \ dead
  <2> TAKE k \in RefFields(o) \ {"mutex"}
  <2>1. o \in Objects /\ o \in Reached(kept)
    BY DEF Typed, PlainOK
  <2>2. ref[o][k] # None => ref[o][k] \in Reached(kept)
    BY <1>2, <1>3, <2>1, ChildrenAll
  <2>3. None \notin live
    BY HandlesAssumption DEF Typed, PlainOK
  <2> QED
    BY <2>2, <2>3
<1>6. held' \subseteq held \ dead /\ pooled' \subseteq pooled \ dead /\ \A t \in Threads : FrameRefs(t) \cap dead = {}
  BY <1>1, <1>3, <1>4
<1>7. PICK d : d = dead
  OBVIOUS
<1>8. d \subseteq live /\ Destroy(d)
  BY <1>1, <1>7
<1> HIDE DEF dead
<1> QED
  BY <1>4, <1>5, <1>6, <1>7, <1>8, DestroyReach

LEMMA ExitReach == ASSUME Typed, ReachInv, Exit PROVE ReachInv'
<1>1. PICK d : d = live
  OBVIOUS
<1>2. d \subseteq live /\ Destroy(d) /\ held' = {} /\ pooled' = {} /\ UNCHANGED call
  BY <1>1 DEF Exit
<1>3. \A t \in Threads : FrameRefs(t) = {}
  BY DEF Exit, FrameRefs, Idle
<1> QED
  BY <1>1, <1>2, <1>3, DestroyReach

-----------------------------------------------------------------------------

LEMMA ReachInit == Init => ReachInv
<1> SUFFICES ASSUME Init PROVE ReachInv
  OBVIOUS
<1>1. \A t \in Threads : call[t] = Idle
  BY DEF Init
<1>2. OneYield
  BY <1>1, IdleGood DEF OneYield
<1>3. \A t \in Threads : FrameGood(call[t])
  BY <1>1, IdleGood
<1>4. SeenInv
  BY DEF Init, SeenInv
<1> QED
  BY <1>2, <1>3, <1>4 DEF Init, ReachInv

LEMMA CallStepReach == ASSUME Typed, Typed', ReachInv, NEW t \in Clients, Call(t) PROVE ReachInv'
<1>1. t \in Threads
  BY DEF Threads
<1>2. CASE cluster_initialize(t) \/ cluster_connect(t) \/ Connected(t)
  BY <1>1, <1>2, InitializeReach, ConnectReach, ConnectedReach
<1>3. CASE session_prepare(t, "prepare") \/ session_prepare(t, "prepare_async")
  BY <1>1, <1>3, PrepareReach
<1>4. CASE \/ session_execute(t, "execute", "executed")
           \/ session_execute(t, "execute_async", "executed_async")
  BY <1>1, <1>4, ExecuteReach
<1>5. CASE statement_build_for_execution(t) \/ nogvl_session_request(t) \/ Prepared(t)
  BY <1>1, <1>5, BuildReach, RequestReach, PreparedReach
<1>6. CASE future_create(t) \/ FutureCreated(t) \/ ResultCreated(t) \/ result_await(t)
  BY <1>1, <1>6, FutureCreateReach, FutureCreatedReach, ResultCreatedReach, ResultAwaitReach
<1>7. CASE result_next_page(t) \/ NextPage(t) \/ result_each(t) \/ result_each_ensure(t)
  BY <1>1, <1>7, NextPageBeginReach, NextPageReach, EachReach, OverReach
<1>8. CASE \E f \in Futures : future_on(t, f, "on_success") \/ future_on(t, f, "on_failure")
  BY <1>1, <1>8, FutureOnReach
<1>9. CASE future_await(t) \/ Awaited(t) \/ Interrupted(t) \/ Abandoned(t)
  BY <1>1, <1>9, AwaitReach, OverReach
<1> QED
  BY <1>2, <1>3, <1>4, <1>5, <1>6, <1>7, <1>8, <1>9 DEF Call

LEMMA ReachNext == Typed /\ Typed' /\ ReachInv /\ [Next]_vars => ReachInv'
<1> SUFFICES ASSUME Typed, Typed', ReachInv, [Next]_vars PROVE ReachInv'
  OBVIOUS
<1>1. CASE \E t \in Clients : Call(t)
  BY <1>1, CallStepReach
<1>2. CASE \E w \in Workers : future_result_yielder_synchronize(w)
  BY <1>2, YielderReach
<1>3. CASE \E t \in Threads : future_result_success_yield(t)
  BY <1>3, SuccessYieldReach
<1>4. CASE \E f \in Futures : Resolve(f) \/ Mark(f)
  BY <1>4, ResolveReach, MarkReach
<1>5. CASE Collect \/ Exit
  BY <1>5, CollectReach, ExitReach
<1>6. CASE UNCHANGED vars
  BY <1>6 DEF vars, objectVars, futureVars, ReachInv, ObjectGood, HeldGood, FrameGood, OneYield, SeenInv
<1> QED
  BY <1>1, <1>2, <1>3, <1>4, <1>5, <1>6 DEF Next

LEMMA ReachAlways == Spec => [](Typed /\ ReachInv)
<1>1. Init => Typed /\ ReachInv
  BY TypedInit, ReachInit
<1>2. (Typed /\ ReachInv) /\ [Next]_vars => (Typed /\ ReachInv)'
  BY TypedNext, ReachNext
<1> QED
  BY <1>1, <1>2, PTL DEF Spec

\* However the calls, the incremental marking and the collections interleave, no
\* object goes before one that refers to it: the mark functions mark every
\* field, and a block stored in a future that was marked already is marked too
\* (future.c:232, 289).
THEOREM NoDanglingReference == Spec => []ReferencesLive
<1>1. ReachInv => ReferencesLive
  BY DEF ReachInv, ObjectGood, ReferencesLive
<1> QED
  BY <1>1, ReachAlways, PTL

LEMMA SlotLive ==
  ASSUME Typed, NEW x \in Holders, NEW k \in Fields(x), Slot(x, k) # None
  PROVE  driver[Slot(x, k)] = "live"
BY DEF Typed, SlotInv

LEMMA UsesInUse ==
  ASSUME Typed, ReachInv, NEW t \in Threads, NEW h \in Uses(t)
  PROVE  h # None /\ driver[h] = "live"
<1> DEFINE c == call[t]
<1>1. FrameOK(c) /\ FrameGood(c) /\ c \in Frames
  BY DEF Typed, CallOK, ReachInv
<1>2. ASSUME NEW s \in Sessions \cap live PROVE own[s]["session"] # None /\ driver[own[s]["session"]] = "live"
  <2>1. s \in Objects /\ "session" \in HandleFields(s)
    BY FieldsOf DEF Objects
  <2> QED
    BY <2>1, Slots, SlotLive DEF ReachInv, ObjectGood
<1>3. ASSUME NEW k \in FrameFields, c[k] # None PROVE driver[c[k]] = "live"
  BY <1>3, Slots, SlotLive
<1>4. ASSUME NEW o \in Objects, NEW k \in HandleFields(o), own[o][k] # None PROVE driver[own[o][k]] = "live"
  BY <1>4, Slots, SlotLive
<1>5. CASE c.op \in {"prepare", "prepare_async"} /\ c.at = "submit"
  <2>1. h = own[c.self]["session"]
    BY <1>5 DEF Uses, At
  <2>2. c.self \in Sessions \cap live
    BY <1>1, <1>5, FrameLive DEF FrameOK, Objects
  <2> QED
    BY <1>2, <2>1, <2>2
<1>6. CASE c.op \in {"execute", "execute_async"} /\ c.at = "submit"
  <2>1. h \in {own[c.self]["session"], c["executed"]}
    BY <1>6 DEF Uses, At
  <2>2. c.self \in Sessions \cap live
    BY <1>1, <1>6, FrameLive DEF FrameOK, Executing, Objects
  <2>3. c["executed"] # None
    BY <1>1, <1>6 DEF FrameOK, Executing
  <2> QED
    BY <1>2, <1>3, <2>1, <2>2, <2>3 DEF FrameFields
<1>7. CASE At(t, "next_page", "submit")
  <2>1. h \in {own[SessionOf(c.self)]["session"], own[c.self]["executed"]}
    BY <1>7 DEF Uses, At
  <2>2. c.self \in Results /\ c.self \in live /\ c.self \in Objects
    BY <1>1, <1>7, FrameLive DEF FrameOK, At, Objects
  <2>3. own[c.self]["executed"] # None /\ driver[own[c.self]["executed"]] = "live"
    BY <1>4, <2>2, FieldsOf DEF ReachInv, ObjectGood
  <2>4. ref[c.self]["statement"] \in Statements /\ ref[c.self]["statement"] \in live
    BY <2>2, FieldsOf DEF ReachInv, ObjectGood, Typed, RefOK, Class
  <2>5. PICK st \in Statements : st = ref[c.self]["statement"] /\ st \in live
    BY <2>4
  <2>6. ref[st]["session"] \in Sessions /\ ref[st]["session"] \in live
    BY <2>5, FieldsOf DEF ReachInv, ObjectGood, Typed, RefOK, Class, Objects
  <2>7. SessionOf(c.self) = ref[st]["session"]
    BY <2>5 DEF SessionOf
  <2> QED
    BY <1>2, <2>1, <2>3, <2>6, <2>7
<1>8. CASE c.op \in {"connect", "prepare", "next_page"} /\ c.at = "wait"
  <2>1. h = c["future"]
    BY <1>8 DEF Uses, At
  <2>2. c["future"] # None
    BY <1>1, <1>8 DEF FrameOK
  <2> QED
    BY <1>3, <2>1, <2>2 DEF FrameFields
<1>9. CASE At(t, "execute", "wait")
  <2>1. h = own[c.obj]["future"]
    BY <1>9 DEF Uses, At
  <2>2. c.obj \in Results /\ c.obj \in Objects /\ own[c.obj]["future"] # None
    BY <1>1, <1>9 DEF FrameOK, FrameGood, At, Objects
  <2> QED
    BY <1>4, <2>1, <2>2, FieldsOf
<1>10. CASE c.op = "await"
  <2>1. h = own[c.self]["future"]
    BY <1>1, <1>10 DEF Uses, At
  <2>2. c.self \in Futures /\ c.self \in live /\ c.self \in Objects
    BY <1>1, <1>10, FrameLive DEF FrameOK, Objects
  <2> QED
    BY <1>4, <2>1, <2>2, FieldsOf DEF ReachInv, ObjectGood
<1>11. CASE At(t, "each", "block")
  <2>1. h \in {own[c.self]["result"], c["iterator"]}
    BY <1>11 DEF Uses, At
  <2>2. c.self \in Results /\ c.self \in Objects /\ own[c.self]["result"] # None /\ c["iterator"] # None
    BY <1>1, <1>11 DEF FrameOK, FrameGood, At, Objects
  <2> QED
    BY <1>3, <1>4, <2>1, <2>2, FieldsOf DEF FrameFields
<1> QED
  BY <1>5, <1>6, <1>7, <1>8, <1>9, <1>10, <1>11 DEF Uses

\* What is in use outside the VM lock, in a block or in a thread of a pool is
\* neither missing nor freed, whatever is collected meanwhile: the session is
\* kept through the statement, the statement through the result or the future,
\* and these by the frame or the pool (session.c:143, statement.c:295,
\* result.c:254, future.c:360-364).
THEOREM InUseIsLive == Spec => []UsesLive
<1>1. Typed /\ ReachInv => UsesLive
  <2> SUFFICES ASSUME Typed, ReachInv,
                      NEW h \in (UNION {Uses(t) : t \in Threads}) \cup {own[f].future : f \in pooled}
               PROVE  h # None /\ driver[h] = "live"
    BY DEF UsesLive
  <2>1. CASE \E t \in Threads : h \in Uses(t)
    BY <2>1, UsesInUse
  <2>2. CASE \E f \in pooled : h = own[f].future
    <3>1. PICK f \in pooled : h = own[f]["future"]
      BY <2>2
    <3>2. f \in Futures /\ f \in live /\ f \in Objects
      BY HeldLive DEF Typed, PlainOK, Objects
    <3>3. h # None
      BY <3>1, <3>2 DEF ReachInv, ObjectGood
    <3> QED
      BY <3>1, <3>2, <3>3, FieldsOf, Slots, SlotLive
  <2> QED
    BY <2>1, <2>2
<1> QED
  BY <1>1, ReachAlways, PTL
=============================================================================
