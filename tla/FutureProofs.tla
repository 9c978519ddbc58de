---------------------------- MODULE FutureProofs ----------------------------
(* Theorems about Future.tla, for all values of its constants.              *)
EXTENDS Future, TLAPS, SequenceTheorems

(***************************************************************************)
(* The stack of a thread lists the futures it has a call in progress on,   *)
(* each once, and all calls but the innermost are running a block.         *)
(***************************************************************************)
OnStack(t) ==
  /\ \A f \in Futures : pc[t][f] # "idle" <=> \E i \in 1..Len(stack[t]) : stack[t][i] = f
  /\ \A i, j \in 1..Len(stack[t]) : stack[t][i] = stack[t][j] => i = j
  /\ \A i \in 2..Len(stack[t]) : pc[t][stack[t][i]] \in InCallback

StackInv == \A t \in Threads : OnStack(t)

CallTypeOK ==
  /\ pc \in [Threads -> [Futures -> Labels]]
  /\ stack \in [Threads -> Seq(Futures)]

\* A step of t in its call on f that may be taken: a call starts from user code,
\* and a call that runs a block moves only when it is the innermost.
MayGoto(t, f) ==
  IF pc[t][f] = "idle"
  THEN stack[t] = <<>> \/ pc[t][Head(stack[t])] \in InCallback
  ELSE pc[t][f] \in InCallback => Head(stack[t]) = f

\* Whatever Goto does, the stack and the program counters keep agreeing.
LEMMA GotoStack ==
  ASSUME CallTypeOK, StackInv,
         NEW t \in Threads, NEW f \in Futures, NEW label \in Labels,
         MayGoto(t, f), Goto(t, f, label)
  PROVE  CallTypeOK' /\ StackInv'
<1> USE DEF CallTypeOK
<1>1. pc' \in [Threads -> [Futures -> Labels]]
  BY DEF Goto
<1>2. /\ pc'[t][f] = label
      /\ \A g \in Futures : g # f => pc'[t][g] = pc[t][g]
      /\ \A s \in Threads : s # t => pc'[s] = pc[s] /\ stack'[s] = stack[s]
  BY DEF Goto
<1>0. SUFFICES stack' \in [Threads -> Seq(Futures)] /\ OnStack(t)'
  <2>1. \A s \in Threads : s # t => OnStack(s)'
    BY <1>2 DEF StackInv, OnStack
  <2> QED
    BY <1>1, <2>1 DEF StackInv
<1> OnStack(t)
  BY DEF StackInv
<1>3. CASE pc[t][f] = "idle" /\ label # "idle"
  <2>1. stack' = [stack EXCEPT ![t] = <<f>> \o stack[t]]
    BY <1>3 DEF Goto
  <2>2. stack'[t] = <<f>> \o stack[t] /\ stack'[t] \in Seq(Futures)
    BY <2>1
  <2>3. /\ Len(stack'[t]) = Len(stack[t]) + 1
        /\ stack'[t][1] = f
        /\ \A i \in 1..Len(stack[t]) : stack'[t][i + 1] = stack[t][i]
    BY <2>2
  <2>4. stack' \in [Threads -> Seq(Futures)]
    BY <2>1, <2>2
  <2>5. \A i \in 1..Len(stack[t]) : stack[t][i] # f
    BY <1>3 DEF OnStack
  <2>6. \A i \in 2..Len(stack'[t]) : i - 1 \in 1..Len(stack[t]) /\ stack'[t][i] = stack[t][i - 1]
    BY <2>3
  <2>7. \A i \in 1..Len(stack[t]) : pc[t][stack[t][i]] \in InCallback
    BY <1>3 DEF OnStack, MayGoto
  <2> QED
    <3> DEFINE old == stack[t]
               new == stack'[t]
    <3>0. /\ Len(old) \in Nat /\ Len(new) = Len(old) + 1 /\ new[1] = f
          /\ \A i \in 1..Len(old) : i + 1 \in 1..Len(new) /\ new[i + 1] = old[i]
          /\ \A i \in 2..Len(new) : i - 1 \in 1..Len(old) /\ new[i] = old[i - 1]
          /\ \A i \in 1..Len(old) : old[i] \in Futures /\ old[i] # f
      BY <2>3, <2>5, <2>6
    <3>a. \A g \in Futures : pc[t][g] # "idle" <=> \E i \in 1..Len(old) : old[i] = g
      BY DEF OnStack
    <3>b. \A i, j \in 1..Len(old) : old[i] = old[j] => i = j
      BY DEF OnStack
    <3>c. \A i \in 1..Len(old) : pc[t][old[i]] \in InCallback
      BY <2>7
    <3> HIDE DEF old, new
    <3>1. ASSUME NEW g \in Futures
          PROVE  pc'[t][g] # "idle" <=> \E i \in 1..Len(new) : new[i] = g
      <4>1. CASE g = f
        BY <1>2, <1>3, <3>0, <4>1
      <4>2. CASE g # f
        <5>1. ASSUME NEW i \in 1..Len(new), new[i] = g
              PROVE  \E j \in 1..Len(old) : old[j] = g
          <6>1. i \in 2..Len(new)
            BY <3>0, <4>2, <5>1
          <6> QED
            BY <3>0, <5>1, <6>1
        <5>2. ASSUME NEW i \in 1..Len(old), old[i] = g
              PROVE  \E j \in 1..Len(new) : new[j] = g
          BY <3>0, <5>2
        <5> QED
          BY <1>2, <3>a, <4>2, <5>1, <5>2
      <4> QED
        BY <4>1, <4>2
    <3>2. ASSUME NEW i \in 1..Len(new), NEW j \in 1..Len(new), new[i] = new[j]
          PROVE  i = j
      <4>1. CASE i = 1 \/ j = 1
        <5>1. \A k \in 2..Len(new) : new[k] # f
          BY <3>0
        <5> QED
          BY <3>0, <3>2, <4>1, <5>1
      <4>2. CASE i # 1 /\ j # 1
        <5>1. i \in 2..Len(new) /\ j \in 2..Len(new)
          BY <3>0, <4>2
        <5>2. i - 1 = j - 1
          BY <3>0, <3>2, <3>b, <5>1
        <5> QED
          BY <3>0, <5>2
      <4> QED
        BY <4>1, <4>2
    <3>3. \A i \in 2..Len(new) : pc'[t][new[i]] \in InCallback
      BY <1>2, <3>0, <3>c
    <3> QED
      BY <2>4, <3>1, <3>2, <3>3 DEF OnStack, old, new
<1>4. CASE pc[t][f] # "idle" /\ label = "idle"
  <2>1. stack' = [stack EXCEPT ![t] = Tail(stack[t])]
    BY <1>4 DEF Goto
  <2>2. stack[t] # <<>> /\ stack[t][1] = f
    BY <1>4 DEF OnStack, MayGoto, InCallback
  <2>3. /\ stack'[t] = Tail(stack[t])
        /\ stack'[t] \in Seq(Futures)
        /\ Len(stack'[t]) = Len(stack[t]) - 1
        /\ \A i \in 1..Len(stack'[t]) : stack'[t][i] = stack[t][i + 1]
    BY <2>1, <2>2
  <2>4. stack' \in [Threads -> Seq(Futures)]
    BY <2>1, <2>3
  <2> QED
    <3>1. \A i \in 1..Len(stack'[t]) : i + 1 \in 2..Len(stack[t]) /\ stack[t][i + 1] # f
      BY <2>2, <2>3 DEF OnStack
    <3>2. \A i \in 1..Len(stack[t]) : i = 1 \/ (i - 1 \in 1..Len(stack'[t]) /\ stack'[t][i - 1] = stack[t][i])
      BY <2>3
    <3>3. ASSUME NEW g \in Futures
          PROVE  pc'[t][g] # "idle" <=> \E i \in 1..Len(stack'[t]) : stack'[t][i] = g
      <4>1. CASE g = f
        BY <1>2, <1>4, <2>3, <3>1, <4>1
      <4>2. CASE g # f
        <5>1. pc[t][g] # "idle" <=> \E i \in 1..Len(stack[t]) : stack[t][i] = g
          BY DEF OnStack
        <5>2. ASSUME NEW i \in 1..Len(stack[t]), stack[t][i] = g
              PROVE  \E j \in 1..Len(stack'[t]) : stack'[t][j] = g
          BY <2>2, <3>2, <4>2, <5>2
        <5>3. ASSUME NEW i \in 1..Len(stack'[t]), stack'[t][i] = g
              PROVE  \E j \in 1..Len(stack[t]) : stack[t][j] = g
          BY <2>3, <3>1, <5>3
        <5> QED
          BY <1>2, <4>2, <5>1, <5>2, <5>3
      <4> QED
        BY <4>1, <4>2
    <3>4. \A i, j \in 1..Len(stack'[t]) : stack'[t][i] = stack'[t][j] => i = j
      BY <2>3, <3>1 DEF OnStack
    <3>5. \A i \in 2..Len(stack'[t]) : pc'[t][stack'[t][i]] \in InCallback
      BY <1>2, <2>3, <3>1 DEF OnStack
    <3> QED
      BY <2>4, <3>3, <3>4, <3>5 DEF OnStack
<1>5. CASE ~(pc[t][f] = "idle" /\ label # "idle") /\ ~(pc[t][f] # "idle" /\ label = "idle")
  <2>1. stack' = stack
    BY <1>5 DEF Goto
  <2> QED
    <3>1. \A g \in Futures : pc'[t][g] # "idle" <=> pc[t][g] # "idle"
      BY <1>2, <1>5
    <3>2. \A i \in 2..Len(stack[t]) : stack[t][i] # f
      BY <1>5 DEF OnStack, MayGoto, InCallback
    <3> QED
      BY <1>2, <2>1, <3>1, <3>2 DEF OnStack
<1> QED
  BY <1>3, <1>4, <1>5

-----------------------------------------------------------------------------
(* Types.                                                                  *)

Typed == TypeOK /\ StackInv

LEMMA TypeGoto ==
  ASSUME Typed, NEW t \in Threads, NEW f \in Futures, NEW label \in Labels,
         MayGoto(t, f), Goto(t, f, label)
  PROVE  CallTypeOK' /\ StackInv'
BY GotoStack DEF Typed, TypeOK, CallTypeOK

LEMMA LabelsOK ==
  /\ Holding \subseteq Labels
  /\ \A o \in Outcomes : LockLabel(o) \in Labels \ InCallback
BY DEF Labels, Holding, InCallback, Locking, LockLabel, Outcomes

\* A call starts only from user code.
LEMMA CallStarts ==
  ASSUME NEW t, NEW m, NEW f, MayCall(t, m, f)
  PROVE  MayGoto(t, f)
BY DEF MayCall, InUserCode, MayGoto

LEMMA YieldType ==
  ASSUME Typed, NEW t \in Threads, NEW f \in Futures, NEW o \in Outcomes,
         NEW label \in InCallback, MayGoto(t, f), Yield(t, f, o, label)
  PROVE  /\ CallTypeOK' /\ StackInv'
         /\ mutex' \in [Futures -> Threads \cup {None}]
         /\ yielded' \in [Futures -> BOOLEAN]
         /\ ran' \in [Futures -> [Outcomes -> Nat]]
<1>1. CallTypeOK' /\ StackInv'
  BY TypeGoto, LabelsOK DEF Yield, Holding
<1>2. ran' = [ran EXCEPT ![f][o] = ran[f][o] + 1] /\ ran[f][o] \in Nat
  BY DEF Yield, Typed, TypeOK
<1> QED
  BY <1>1, <1>2 DEF Yield, Typed, TypeOK

LEMMA QueuePushType ==
  ASSUME Typed, NEW t \in Threads, NEW f \in Futures, MayGoto(t, f),
         future_queue_push(t, f)
  PROVE  /\ CallTypeOK' /\ StackInv'
         /\ mutex' \in [Futures -> Threads \cup {None}]
         /\ queue' \in [Pools -> Seq(Futures)]
<1>1. CallTypeOK' /\ StackInv'
  BY TypeGoto, LabelsOK DEF future_queue_push, Holding
<1> DEFINE pool == future_thread_pool_get(f)
<1>2. pool \in Pools
  BY FutureAssumption DEF future_thread_pool_get
<1>3. queue' = [queue EXCEPT ![pool] = Append(queue[pool], f)] \/ queue' = queue
  BY DEF future_queue_push
<1> HIDE DEF pool
<1>4. queue' \in [Pools -> Seq(Futures)]
  <2>1. queue \in [Pools -> Seq(Futures)] /\ Append(queue[pool], f) \in Seq(Futures)
    BY <1>2 DEF Typed, TypeOK
  <2> QED
    BY <1>2, <1>3, <2>1
<1>5. mutex' \in [Futures -> Threads \cup {None}]
  BY DEF future_queue_push, Typed, TypeOK
<1> QED
  BY <1>1, <1>4, <1>5

LEMMA SynchronizeType ==
  ASSUME Typed, NEW t \in Threads, NEW f \in Futures, NEW o \in Outcomes,
         MayGoto(t, f), Synchronize(t, f, o)
  PROVE  Typed'
<1> USE DEF Synchronize, Synchronized
<1>0. block' = [block EXCEPT ![f][o] = t] /\ (Post(f) \/ sem' = sem)
  OBVIOUS
<1>1. /\ block' \in [Futures -> [Outcomes -> Threads \cup {None}]]
      /\ sem' \in [Futures -> Nat]
  <2>1. block \in [Futures -> [Outcomes -> Threads \cup {None}]] /\ sem \in [Futures -> Nat]
    BY DEF Typed, TypeOK
  <2> HIDE DEF Synchronize, Synchronized
  <2>2. block' \in [Futures -> [Outcomes -> Threads \cup {None}]]
    BY <1>0, <2>1
  <2> QED
    BY <1>0, <2>1, <2>2 DEF Post
<1>2. "idle" \in Labels /\ "callback" \in InCallback
  BY DEF Labels, InCallback
<1>3. /\ CallTypeOK' /\ StackInv'
      /\ mutex' \in [Futures -> Threads \cup {None}]
      /\ yielded' \in [Futures -> BOOLEAN]
      /\ ran' \in [Futures -> [Outcomes -> Nat]]
      /\ queue' \in [Pools -> Seq(Futures)]
  <2>1. CASE Unlock(f) /\ Goto(t, f, "idle") /\ UNCHANGED <<queue, yielded, ran>>
    BY <1>2, <2>1, TypeGoto DEF Unlock, Typed, TypeOK
  <2>2. CASE Yield(t, f, o, "callback") /\ UNCHANGED queue
    BY <1>2, <2>2, YieldType DEF Typed, TypeOK
  <2>3. CASE future_queue_push(t, f) /\ UNCHANGED <<yielded, ran>>
    BY <2>3, QueuePushType DEF Typed, TypeOK
  <2> QED
    BY <2>1, <2>2, <2>3
<1> QED
  BY <1>1, <1>3 DEF Typed, TypeOK, CallTypeOK, interruptVars

LEMMA YielderType ==
  ASSUME Typed, NEW w \in Workers, NEW f \in Futures, outcome[f] \in Outcomes,
         MayGoto(w, f), future_result_yielder_synchronize(w, f)
  PROVE  Typed'
<1> USE DEF future_result_yielder_synchronize, YielderSynchronized
<1> w \in Threads
  BY DEF Threads
<1>1. "idle" \in Labels /\ "yield" \in InCallback
  BY DEF Labels, InCallback
<1>2. CASE Yield(w, f, outcome[f], "yield") /\ UNCHANGED <<sem, already_waited>>
  BY <1>1, <1>2, YieldType
     DEF Typed, TypeOK, CallTypeOK, poolVars, interruptVars
<1>3. CASE /\ already_waited' = [already_waited EXCEPT ![f] = TRUE]
           /\ Finish(w, f)
           /\ UNCHANGED <<yielded, ran>>
  <2>1. CallTypeOK' /\ StackInv'
    BY <1>1, <1>3, TypeGoto DEF Finish
  <2> QED
    BY <1>3, <2>1 DEF Typed, TypeOK, CallTypeOK, Finish, Unlock, Post, poolVars, interruptVars
<1> QED
  BY <1>2, <1>3

\* A pool thread that waits for the mutex waits with a future that is resolved.
WorkInv ==
  \A t \in Threads, f \in Futures : pc[t][f] = "work_lock" => outcome[f] # "pending"

LEMMA InitType == Init => TypeOK /\ StackInv /\ WorkInv
<1> SUFFICES ASSUME Init PROVE TypeOK /\ StackInv /\ WorkInv
  OBVIOUS
<1> USE DEF Init
<1>1. TypeOK
  BY FutureAssumption DEF TypeOK, Labels
<1>2. StackInv
  BY DEF StackInv, OnStack
<1> QED
  BY <1>1, <1>2 DEF WorkInv

LEMMA ReturnType ==
  ASSUME Typed, NEW t \in Threads, NEW f \in Futures, Return(t, f) \/ UNCHANGED awaited
  PROVE  awaited' \in [Futures -> SUBSET Threads]
<1>1. awaited \in [Futures -> SUBSET Threads] /\ awaited[f] \cup {t} \in SUBSET Threads
  BY DEF Typed, TypeOK
<1>2. awaited' = awaited \/ awaited' = [awaited EXCEPT ![f] = awaited[f] \cup {t}]
  BY DEF Return
<1> QED
  BY <1>1, <1>2

\* The steps of clients and of blocks keep the types.
LEMMA CallType ==
  ASSUME Typed, NEW t \in Threads, NEW f \in Futures, Call(t, f) \/ Resume(t, f)
  PROVE  Typed'
<1>0. {"idle", "await_future", "await_sem", "push", "prepare_thread", "lock_await"} \subseteq Labels \ InCallback
  BY DEF Labels, InCallback, Locking, Holding
<1>1. ASSUME NEW o \in Outcomes, Register(t, f, o)
      PROVE  Typed'
  <2>1. MayGoto(t, f)
    BY <1>1, CallStarts DEF Register
  <2>2. CASE Synchronize(t, f, o)
    BY <2>1, <2>2, SynchronizeType
  <2>3. CASE Goto(t, f, LockLabel(o)) /\ UNCHANGED <<outcome, block, mutex, sem,
               already_waited, yielded, poolVars, historyVars>>
    <3>1. CallTypeOK' /\ StackInv'
      BY <2>1, <2>3, LabelsOK, TypeGoto
    <3> QED
      BY <2>3, <3>1 DEF Typed, TypeOK, CallTypeOK, poolVars, historyVars
  <2> QED
    BY <1>1, <2>2, <2>3 DEF Register
<1>2. ASSUME LockToRegister(t, f)
      PROVE  Typed'
  <2>1. PICK o \in Outcomes : pc[t][f] = LockLabel(o) /\ Synchronize(t, f, o)
    BY <1>2 DEF LockToRegister
  <2>2. MayGoto(t, f)
    BY <2>1, LabelsOK DEF MayGoto, LockLabel
  <2> QED
    BY <2>1, <2>2, SynchronizeType
<1>3. ASSUME ResumePush(t, f)
      PROVE  Typed'
  <2>1. MayGoto(t, f)
    BY <1>0, <1>3 DEF ResumePush, MayGoto
  <2> QED
    BY <1>3, <2>1, QueuePushType DEF ResumePush, Typed, TypeOK, CallTypeOK, historyVars
<1>4. ASSUME PrepareThread(t, f)
      PROVE  Typed'
  <2>1. CallTypeOK' /\ StackInv'
    BY <1>0, <1>4, TypeGoto DEF PrepareThread, MayGoto
  <2>2. alive' \in [Workers -> BOOLEAN]
    BY <1>4 DEF PrepareThread, future_thread_pool_prepare_thread, Typed, TypeOK
  <2> QED
    BY <1>4, <2>1, <2>2 DEF PrepareThread, Unlock, Typed, TypeOK, CallTypeOK, historyVars
<1>5. ASSUME EndCallback(t, f)
      PROVE  Typed'
  <2>1. CallTypeOK' /\ StackInv'
    BY <1>0, <1>5, TypeGoto DEF EndCallback, MayGoto
  <2> QED
    BY <1>5, <2>1 DEF EndCallback, Unlock, Typed, TypeOK, CallTypeOK, poolVars, historyVars
<1>6. ASSUME MayGoto(t, f), CheckWaited(t, f)
      PROVE  Typed'
  <2>1. CallTypeOK' /\ StackInv'
    BY <1>0, <1>6, TypeGoto DEF CheckWaited, Return
  <2> QED
    <3>1. awaited' \in [Futures -> SUBSET Threads]
      BY <1>6, ReturnType DEF CheckWaited
    <3> QED
      BY <1>6, <2>1, <3>1 DEF CheckWaited, Typed, TypeOK, CallTypeOK, poolVars, interruptVars
<1>7. ASSUME future_await(t, f)
      PROVE  Typed'
  <2>1. MayGoto(t, f)
    BY <1>7, CallStarts DEF future_await
  <2>2. CASE Goto(t, f, "lock_await") /\ UNCHANGED <<outcome, block, mutex, sem,
               already_waited, yielded, poolVars, historyVars>>
    <3>1. CallTypeOK' /\ StackInv'
      BY <1>0, <2>1, <2>2, TypeGoto
    <3> QED
      BY <2>2, <3>1 DEF Typed, TypeOK, CallTypeOK, poolVars, historyVars
  <2> QED
    BY <1>6, <1>7, <2>1, <2>2 DEF future_await
<1>8. ASSUME LockToAwait(t, f)
      PROVE  Typed'
  BY <1>0, <1>6, <1>8 DEF LockToAwait, MayGoto
<1>9. ASSUME AwaitFuture(t, f)
      PROVE  Typed'
  <2>1. CallTypeOK' /\ StackInv'
    BY <1>0, <1>9, TypeGoto DEF AwaitFuture, Return, MayGoto
  <2> QED
    <3>1. awaited' \in [Futures -> SUBSET Threads]
      BY <1>9, ReturnType DEF AwaitFuture
    <3> QED
      BY <1>9, <2>1, <3>1 DEF AwaitFuture, Typed, TypeOK, CallTypeOK, poolVars, interruptVars
<1>10. ASSUME AwaitSem(t, f)
       PROVE  Typed'
  <2>1. CallTypeOK' /\ StackInv'
    BY <1>0, <1>10, TypeGoto DEF AwaitSem, Return, MayGoto, InCallback
  <2> QED
    <3>1. awaited' \in [Futures -> SUBSET Threads]
      BY <1>10, ReturnType DEF AwaitSem
    <3>2. sem' \in [Futures -> Nat]
      BY <1>10 DEF AwaitSem, Typed, TypeOK
    <3> QED
      BY <1>10, <2>1, <3>1, <3>2 DEF AwaitSem, Typed, TypeOK, CallTypeOK, poolVars, interruptVars
<1> QED
  BY <1>1, <1>2, <1>3, <1>4, <1>5, <1>7, <1>8, <1>9, <1>10
     DEF Call, Resume, future_on_success, future_on_failure, Outcomes

\* The steps of the pool's threads keep the types.
LEMMA WorkType ==
  ASSUME Typed, WorkInv, NEW w \in Workers, NEW f \in Futures, Work(w, f)
  PROVE  Typed'
<1> w \in Threads
  BY DEF Threads
<1>0. {"idle", "work_future", "work_lock"} \subseteq Labels \ InCallback
  BY DEF Labels, InCallback, Locking, Holding
<1>1. ASSUME WorkerPop(w, f)
      PROVE  Typed'
  <2>1. pc[w][f] = "idle"
    BY <1>1 DEF WorkerPop, Typed, StackInv, OnStack
  <2>2. CallTypeOK' /\ StackInv'
    BY <1>0, <1>1, <2>1, TypeGoto DEF WorkerPop, MayGoto
  <2>3. w[1] \in Pools
    BY DEF Workers
  <2>4. queue' \in [Pools -> Seq(Futures)]
    BY <1>1, <2>3 DEF WorkerPop, future_queue_pop, Typed, TypeOK
  <2> QED
    BY <1>1, <2>2, <2>4 DEF WorkerPop, Typed, TypeOK, CallTypeOK, historyVars
<1>2. ASSUME WorkFuture(w, f)
      PROVE  Typed'
  <2>1. MayGoto(w, f)
    BY <1>0, <1>2 DEF WorkFuture, MayGoto
  <2>2. outcome[f] \in Outcomes
    BY <1>2 DEF WorkFuture, Typed, TypeOK
  <2>3. CASE Goto(w, f, "work_lock") /\ UNCHANGED <<outcome, block, mutex, sem,
               already_waited, yielded, poolVars, historyVars>>
    <3>1. CallTypeOK' /\ StackInv'
      BY <1>0, <2>1, <2>3, TypeGoto
    <3> QED
      BY <2>3, <3>1 DEF Typed, TypeOK, CallTypeOK, poolVars, historyVars
  <2> QED
    BY <1>2, <2>1, <2>2, <2>3, YielderType DEF WorkFuture
<1>3. ASSUME WorkLock(w, f)
      PROVE  Typed'
  <2>1. MayGoto(w, f)
    BY <1>0, <1>3 DEF WorkLock, MayGoto
  <2>2. outcome[f] \in Outcomes
    BY <1>3 DEF WorkLock, WorkInv, Typed, TypeOK
  <2> QED
    BY <1>3, <2>1, <2>2, YielderType DEF WorkLock
<1>4. ASSUME pc[w][f] = "yield", Head(stack[w]) = f, Finish(w, f)
      PROVE  /\ CallTypeOK' /\ StackInv'
             /\ mutex' \in [Futures -> Threads \cup {None}]
             /\ sem' \in [Futures -> Nat]
  <2>1. CallTypeOK' /\ StackInv'
    BY <1>0, <1>4, TypeGoto DEF Finish, MayGoto
  <2> QED
    BY <1>4, <2>1 DEF Finish, Unlock, Post, Typed, TypeOK
<1>5. ASSUME YieldReturn(w, f)
      PROVE  Typed'
  BY <1>4, <1>5 DEF YieldReturn, Typed, TypeOK, CallTypeOK, poolVars, historyVars
<1>6. ASSUME YieldRaise(w, f)
      PROVE  Typed'
  BY <1>4, <1>6 DEF YieldRaise, Typed, TypeOK, CallTypeOK, historyVars
<1> QED
  BY <1>1, <1>2, <1>3, <1>5, <1>6 DEF Work

LEMMA InterruptType ==
  ASSUME Typed, NEW t \in Threads, NEW f \in Futures, Interrupt(t, f)
  PROVE  Typed'
<1>1. CallTypeOK' /\ StackInv'
  BY TypeGoto DEF Interrupt, Abort, nogvl_sem_wait_ubf, MayGoto, Labels, InCallback, Locking, Holding
<1>2. interrupts' \in 0..MaxInterrupts
  BY FutureAssumption DEF Interrupt, Typed, TypeOK
<1>3. mutex' \in [Futures -> Threads \cup {None}]
  <2>1. UNCHANGED mutex \/ Unlock(f)
    BY DEF Interrupt, Abort, nogvl_sem_wait_ubf
  <2> QED
    BY <2>1 DEF Unlock, Typed, TypeOK
<1>4. sem' \in [Futures -> Nat]
  <2>1. UNCHANGED sem \/ Post(f)
    BY DEF Interrupt, Abort, nogvl_sem_wait_ubf
  <2>2. sem \in [Futures -> Nat]
    BY DEF Typed, TypeOK
  <2> QED
    BY <2>1, <2>2 DEF Post
<1>5. aborted' \subseteq Futures
  BY DEF Interrupt, Abort, nogvl_sem_wait_ubf, Typed, TypeOK
<1> QED
  BY <1>1, <1>2, <1>3, <1>4, <1>5 DEF Interrupt, Typed, TypeOK, CallTypeOK, poolVars

LEMMA ResolveType ==
  ASSUME Typed, NEW f \in Futures, Resolve(f)
  PROVE  Typed'
<1>1. outcome' \in [Futures -> {"pending"} \cup Outcomes]
  BY DEF Resolve, Typed, TypeOK
<1>2. UNCHANGED <<pc, stack>>
  BY DEF Resolve, callVars
<1>3. StackInv'
  BY <1>2 DEF Typed, StackInv, OnStack
<1> QED
  BY <1>1, <1>3 DEF Resolve, Typed, TypeOK, poolVars, callVars, historyVars

LEMMA WorkStep ==
  ASSUME TypeOK, WorkInv, [Next]_vars
  PROVE  WorkInv'
<1>1. ASSUME NEW t \in Threads, NEW f \in Futures, NEW label, Goto(t, f, label),
             label = "work_lock" => outcome[f] # "pending", UNCHANGED outcome
      PROVE  WorkInv'
  <2>1. \A s \in Threads, g \in Futures :
          pc'[s][g] = IF s = t /\ g = f THEN label ELSE pc[s][g]
    BY <1>1 DEF Goto, TypeOK
  <2> QED
    BY <1>1, <2>1 DEF WorkInv
<1>2. ASSUME NEW t \in Threads, NEW f \in Futures, Call(t, f)
      PROVE  WorkInv'
  BY <1>1, <1>2 DEF Call, future_on_success, future_on_failure, Register, LockLabel,
     Synchronize, Synchronized, Yield, future_queue_push, future_await, CheckWaited, Return
<1>3. ASSUME NEW t \in Threads, NEW f \in Futures, Resume(t, f)
      PROVE  WorkInv'
  BY <1>1, <1>3 DEF Resume, LockToRegister, Synchronize, Synchronized, Yield,
     future_queue_push, ResumePush, PrepareThread, EndCallback, LockToAwait, CheckWaited,
     AwaitFuture, AwaitSem, Return
<1>4. ASSUME NEW t \in Threads, NEW f \in Futures, Interrupt(t, f)
      PROVE  WorkInv'
  BY <1>1, <1>4 DEF Interrupt, Abort, nogvl_sem_wait_ubf
<1>5. ASSUME NEW w \in Workers, NEW f \in Futures, Work(w, f)
      PROVE  WorkInv'
  BY <1>1, <1>5 DEF Work, WorkerPop, WorkFuture, WorkLock, YieldReturn, YieldRaise, Finish,
     future_result_yielder_synchronize, YielderSynchronized, Yield, Threads
<1>6. ASSUME NEW f \in Futures, Resolve(f)
      PROVE  WorkInv'
  <2>1. UNCHANGED pc /\ \A g \in Futures : outcome[g] # "pending" => outcome'[g] # "pending"
    BY <1>6 DEF Resolve, callVars, TypeOK, Outcomes
  <2> QED
    BY <2>1 DEF WorkInv
<1>7. ASSUME UNCHANGED vars
      PROVE  WorkInv'
  BY <1>7 DEF vars, callVars, WorkInv
<1> QED
  BY <1>2, <1>3, <1>4, <1>5, <1>6, <1>7 DEF Next

LEMMA TypeStep ==
  ASSUME Typed, WorkInv, [Next]_vars
  PROVE  Typed'
<1>1. CASE UNCHANGED vars
  BY <1>1 DEF vars, poolVars, callVars, historyVars, Typed, TypeOK, StackInv, OnStack
<1> QED
  BY <1>1, CallType, WorkType, InterruptType, ResolveType DEF Next

\* Every variable keeps its type: the queues hold futures, a program counter is
\* a label, the counters are natural numbers.
THEOREM TypeCorrect == Spec => []TypeOK
<1>1. Init => Typed /\ WorkInv
  BY InitType DEF Typed
<1>2. Typed /\ WorkInv /\ [Next]_vars => (Typed /\ WorkInv)'
  BY TypeStep, WorkStep DEF Typed
<1>3. Typed => TypeOK
  BY DEF Typed
<1> QED
  BY <1>1, <1>2, <1>3, PTL DEF Spec

-----------------------------------------------------------------------------
(* A future runs at most one block.                                        *)

LEMMA OnceStep ==
  ASSUME TypeOK, WorkInv, CallbackOnce, [Next]_vars
  PROVE  CallbackOnce'
<1>1. ASSUME NEW t \in Threads, NEW f \in Futures, NEW o \in Outcomes, NEW label,
             Yield(t, f, o, label), ~yielded[f], outcome[f] = o, UNCHANGED outcome
      PROVE  CallbackOnce'
  <2>1. \A q \in Outcomes : ran[f][q] = 0
    BY <1>1 DEF CallbackOnce, TypeOK
  <2>2. /\ \A g \in Futures : yielded'[g] = IF g = f THEN TRUE ELSE yielded[g]
        /\ \A g \in Futures, q \in Outcomes :
             ran'[g][q] = IF g = f /\ q = o THEN ran[f][o] + 1 ELSE ran[g][q]
    BY <1>1 DEF Yield, TypeOK
  <2>3. ASSUME NEW g \in Futures, g # f
        PROVE  /\ \A q \in Outcomes : ran'[g][q] = ran[g][q]
               /\ yielded'[g] = yielded[g]
    BY <2>2, <2>3
  <2>4. \A q \in Outcomes : ran'[f][q] > 0 => q = o /\ ran'[f][q] = 1
    BY <2>1, <2>2
  <2>5. yielded'[f]
    BY <1>1 DEF Yield, TypeOK
  <2>6. ran'[f][o] > 0
    BY <2>1, <2>2
  <2> QED
    BY <1>1, <2>3, <2>4, <2>5, <2>6 DEF CallbackOnce
<1>2. ASSUME UNCHANGED <<outcome, yielded, ran>>
      PROVE  CallbackOnce'
  BY <1>2 DEF CallbackOnce
<1>3. ASSUME NEW t \in Threads, NEW f \in Futures, NEW o \in Outcomes, Synchronize(t, f, o)
      PROVE  CallbackOnce'
  BY <1>1, <1>2, <1>3 DEF Synchronize, Synchronized, RunNow
<1>4. ASSUME NEW t \in Threads, NEW f \in Futures, Call(t, f)
      PROVE  CallbackOnce'
  BY <1>2, <1>3, <1>4 DEF Call, future_on_success, future_on_failure, Register, future_await,
     CheckWaited, Return, historyVars, Outcomes
<1>5. ASSUME NEW t \in Threads, NEW f \in Futures, Resume(t, f)
      PROVE  CallbackOnce'
  BY <1>2, <1>3, <1>5 DEF Resume, LockToRegister, ResumePush, PrepareThread, EndCallback,
     LockToAwait, CheckWaited, AwaitFuture, AwaitSem, Return, historyVars
<1>6. ASSUME NEW t \in Threads, NEW f \in Futures, Interrupt(t, f)
      PROVE  CallbackOnce'
  BY <1>2, <1>6 DEF Interrupt
<1>7. ASSUME NEW w \in Workers, NEW f \in Futures, outcome[f] # "pending",
             future_result_yielder_synchronize(w, f)
      PROVE  CallbackOnce'
  <2>1. outcome[f] \in Outcomes /\ w \in Threads
    BY <1>7 DEF TypeOK, Threads
  <2> QED
    BY <1>1, <1>2, <1>7, <2>1 DEF future_result_yielder_synchronize, YielderSynchronized
<1>8. ASSUME NEW w \in Workers, NEW f \in Futures, Work(w, f)
      PROVE  CallbackOnce'
  BY <1>2, <1>7, <1>8 DEF Work, WorkerPop, WorkFuture, WorkLock, YieldReturn, YieldRaise,
     WorkInv, Threads, historyVars
<1>9. ASSUME NEW f \in Futures, Resolve(f)
      PROVE  CallbackOnce'
  <2>1. /\ UNCHANGED <<yielded, ran>>
        /\ outcome[f] = "pending"
        /\ \A g \in Futures : g # f => outcome'[g] = outcome[g]
    BY <1>9 DEF Resolve, historyVars, TypeOK
  <2>2. \A o \in Outcomes : ~(ran[f][o] > 0)
    BY <2>1 DEF CallbackOnce, Outcomes
  <2> QED
    BY <2>1, <2>2 DEF CallbackOnce
<1>10. ASSUME UNCHANGED vars
       PROVE  CallbackOnce'
  BY <1>2, <1>10 DEF vars, historyVars
<1> QED
  BY <1>4, <1>5, <1>6, <1>8, <1>9, <1>10 DEF Next

\* A block is run by the registration that finds the future ready or by the
\* pool's turn, never by both, and only the block for the outcome.
THEOREM RunsOnce == Spec => []CallbackOnce
<1>1. Init => Typed /\ WorkInv /\ CallbackOnce
  BY InitType DEF Init, Typed, CallbackOnce, Outcomes
<1>2. Typed /\ WorkInv /\ CallbackOnce /\ [Next]_vars => (Typed /\ WorkInv /\ CallbackOnce)'
  BY TypeStep, WorkStep, OnceStep DEF Typed
<1> QED
  BY <1>1, <1>2, PTL DEF Spec

-----------------------------------------------------------------------------
(* The hand-over of a future from a registration through the queue to a     *)
(* pool thread and to await: QueuedOnce, NoLostCallback, AwaiterNotStranded *)
(* and SingleAwaiter are consequences of one inductive invariant.  With it, *)
(* what user code sees: Future implements Promise, and await keeps its word. *)

(* The inductive invariant, one future at a time.                          *)

Carries(f) == \E t \in Threads : pc[t][f] \in Carrying
OnItsWay(f) == Carries(f) \/ Queued(f)

\* The mutex is held by the thread whose call is in its critical section.
LockInv(f) == \A t \in Threads : pc[t][f] \in Holding <=> mutex[f] = t

\* Whoever has a future, or waits to register with it, is there because a block
\* has been stored; a registration that waits finds the other block stored.
BlockInv(f) ==
  /\ OnItsWay(f) => HasBlock(f)
  /\ \A t \in Threads : pc[t][f] \in Holding => HasBlock(f)
  /\ \A t \in Threads, o \in Outcomes : pc[t][f] = LockLabel(o) => block[f][Other(o)] # None

\* One thread carries the future, and then it is not queued.
CarryInv(f) ==
  /\ \A s, t \in Threads : pc[s][f] \in Carrying /\ pc[t][f] \in Carrying => s = t
  /\ Carries(f) => ~Queued(f)

LostInv(f) == Waiting(f) => OnItsWay(f) \/ f \in aborted

\* One thread waits; it has set already_waited, and sleeps only for a block.
AwaitInv(f) ==
  /\ \A t \in Threads : pc[t][f] \in Awaiting => already_waited[f]
  /\ \A s, t \in Threads : pc[s][f] \in Awaiting /\ pc[t][f] \in Awaiting => s = t
  /\ \A t \in Threads : pc[t][f] = "await_sem" => HasBlock(f)

\* After a registration there is a post, or one to come, or no one to want it.
PostInv(f) ==
  HasBlock(f) =>
    \/ sem[f] > 0
    \/ OnItsWay(f)
    \/ f \in aborted
    \/ already_waited[f] /\ \A t \in Threads : pc[t][f] \notin Awaiting

FutureInv(f) ==
  LockInv(f) /\ BlockInv(f) /\ CarryInv(f) /\ LostInv(f) /\ AwaitInv(f) /\ PostInv(f)

\* No future is twice in the queues.
Distinct ==
  \A q, r \in Pools : \A i \in 1..Len(queue[q]), j \in 1..Len(queue[r]) :
    queue[q][i] = queue[r][j] => q = r /\ i = j

-----------------------------------------------------------------------------
(* What a step on one future leaves alone.                                 *)

FrameExcept(f) ==
  \A g \in Futures \ {f} :
    /\ \A s \in Threads : pc'[s][g] = pc[s][g]
    /\ outcome'[g] = outcome[g]
    /\ block'[g] = block[g]
    /\ mutex'[g] = mutex[g]
    /\ sem'[g] = sem[g]
    /\ already_waited'[g] = already_waited[g]
    /\ yielded'[g] = yielded[g]
    /\ g \in aborted' <=> g \in aborted
    /\ Queued(g)' <=> Queued(g)

LEMMA FrameInv ==
  ASSUME NEW f \in Futures, FrameExcept(f), \A g \in Futures : FutureInv(g), FutureInv(f)'
  PROVE  \A g \in Futures : FutureInv(g)'
<1> SUFFICES ASSUME NEW g \in Futures, g # f PROVE FutureInv(g)'
  OBVIOUS
<1>1. /\ \A s \in Threads : pc'[s][g] = pc[s][g]
      /\ outcome'[g] = outcome[g] /\ block'[g] = block[g] /\ mutex'[g] = mutex[g]
      /\ sem'[g] = sem[g] /\ already_waited'[g] = already_waited[g] /\ yielded'[g] = yielded[g]
      /\ g \in aborted' <=> g \in aborted
      /\ Queued(g)' <=> Queued(g)
  BY DEF FrameExcept
<1>2. FutureInv(g)
  OBVIOUS
<1>3. (OnItsWay(g)' <=> OnItsWay(g)) /\ (Carries(g)' <=> Carries(g)) /\ (HasBlock(g)' <=> HasBlock(g))
  BY <1>1 DEF OnItsWay, Carries, HasBlock
<1>4. Waiting(g)' <=> Waiting(g)
  BY <1>1, <1>3 DEF Waiting
<1>5. LockInv(g)'
  BY <1>1, <1>2 DEF FutureInv, LockInv
<1>6. BlockInv(g)'
  BY <1>1, <1>2, <1>3 DEF FutureInv, BlockInv
<1>7. CarryInv(g)'
  BY <1>1, <1>2, <1>3 DEF FutureInv, CarryInv
<1>8. LostInv(g)'
  BY <1>1, <1>2, <1>3, <1>4 DEF FutureInv, LostInv
<1>9. AwaitInv(g)'
  BY <1>1, <1>2, <1>3 DEF FutureInv, AwaitInv
<1>10. PostInv(g)'
  BY <1>1, <1>2, <1>3 DEF FutureInv, PostInv
<1> QED
  BY <1>5, <1>6, <1>7, <1>8, <1>9, <1>10 DEF FutureInv

LEMMA GotoPc ==
  ASSUME TypeOK, NEW t \in Threads, NEW f \in Futures, NEW label, Goto(t, f, label)
  PROVE  \A s \in Threads, g \in Futures :
           pc'[s][g] = IF s = t /\ g = f THEN label ELSE pc[s][g]
BY DEF Goto, TypeOK

\* Appending a future that is not queued.
LEMMA AppendQueued ==
  ASSUME TypeOK, Distinct, NEW q \in Pools, NEW f \in Futures, ~Queued(f),
         queue' = [queue EXCEPT ![q] = Append(queue[q], f)]
  PROVE  /\ Distinct'
         /\ \A g \in Futures : Queued(g)' <=> Queued(g) \/ g = f
<1>1. queue \in [Pools -> Seq(Futures)]
  BY DEF TypeOK
<1>2. /\ \A r \in Pools : r # q => queue'[r] = queue[r]
      /\ Len(queue[q]) \in Nat
      /\ Len(queue'[q]) = Len(queue[q]) + 1
      /\ \A i \in 1..Len(queue[q]) : queue'[q][i] = queue[q][i]
      /\ queue'[q][Len(queue[q]) + 1] = f
  BY <1>1
<1>3. \A r \in Pools : \A i \in 1..Len(queue[r]) : queue[r][i] # f
  BY DEF Queued
<1>4. \A r \in Pools : \A i \in 1..Len(queue[r]) : i \in 1..Len(queue'[r]) /\ queue'[r][i] = queue[r][i]
  <2> TAKE r \in Pools
  <2>1. CASE r = q
    BY <1>2, <2>1
  <2>2. CASE r # q
    BY <1>2, <2>2
  <2> QED
    BY <2>1, <2>2
<1>5. \A r \in Pools : \A i \in 1..Len(queue'[r]) :
        \/ i \in 1..Len(queue[r]) /\ queue'[r][i] = queue[r][i]
        \/ r = q /\ i = Len(queue[q]) + 1 /\ queue'[r][i] = f
  <2> TAKE r \in Pools
  <2>1. CASE r = q
    BY <1>2, <2>1
  <2>2. CASE r # q
    BY <1>2, <2>2
  <2> QED
    BY <2>1, <2>2
<1>6. Distinct'
  <2> SUFFICES ASSUME NEW a \in Pools, NEW b \in Pools,
                      NEW i \in 1..Len(queue'[a]), NEW j \in 1..Len(queue'[b]),
                      queue'[a][i] = queue'[b][j]
               PROVE  a = b /\ i = j
    BY DEF Distinct
  <2>1. CASE i \in 1..Len(queue[a]) /\ queue'[a][i] = queue[a][i]
    <3>1. j \in 1..Len(queue[b]) /\ queue'[b][j] = queue[b][j]
      BY <1>3, <1>5, <2>1
    <3> QED
      BY <2>1, <3>1 DEF Distinct
  <2>2. CASE a = q /\ i = Len(queue[q]) + 1 /\ queue'[a][i] = f
    <3>1. b = q /\ j = Len(queue[q]) + 1
      BY <1>3, <1>5, <2>2
    <3> QED
      BY <2>2, <3>1
  <2> QED
    BY <1>5, <2>1, <2>2
<1>7. ASSUME NEW g \in Futures
      PROVE  Queued(g)' <=> Queued(g) \/ g = f
  <2>1. ASSUME Queued(g)'
        PROVE  Queued(g) \/ g = f
    BY <1>5, <2>1 DEF Queued
  <2>2. ASSUME Queued(g)
        PROVE  Queued(g)'
    BY <1>4, <2>2 DEF Queued
  <2>3. Queued(f)'
    BY <1>2 DEF Queued
  <2> QED
    BY <2>1, <2>2, <2>3
<1> QED
  BY <1>6, <1>7

\* Taking the head of a queue.
LEMMA TailQueued ==
  ASSUME TypeOK, Distinct, NEW q \in Pools, queue[q] # <<>>, NEW f, f = Head(queue[q]),
         queue' = [queue EXCEPT ![q] = Tail(queue[q])]
  PROVE  /\ Distinct'
         /\ Queued(f)
         /\ ~Queued(f)'
         /\ \A g \in Futures : g # f => (Queued(g)' <=> Queued(g))
<1>1. queue \in [Pools -> Seq(Futures)]
  BY DEF TypeOK
<1>2. /\ \A r \in Pools : r # q => queue'[r] = queue[r]
      /\ Len(queue[q]) \in Nat /\ Len(queue[q]) > 0
      /\ Len(queue'[q]) = Len(queue[q]) - 1
      /\ \A i \in 1..Len(queue'[q]) : queue'[q][i] = queue[q][i + 1]
      /\ queue[q][1] = f
  BY <1>1
<1>3. \A r \in Pools : \A i \in 1..Len(queue'[r]) :
        \E k \in 1..Len(queue[r]) : /\ queue'[r][i] = queue[r][k]
                                    /\ k = IF r = q THEN i + 1 ELSE i
  <2> TAKE r \in Pools
  <2>1. CASE r = q
    BY <1>2, <2>1
  <2>2. CASE r # q
    BY <1>2, <2>2
  <2> QED
    BY <2>1, <2>2
<1>4. \A r \in Pools : \A k \in 1..Len(queue[r]) :
        \/ r = q /\ k = 1
        \/ \E i \in 1..Len(queue'[r]) : queue'[r][i] = queue[r][k]
  <2> TAKE r \in Pools
  <2>1. CASE r = q
    <3> TAKE k \in 1..Len(queue[r])
    <3>1. k # 1 => k - 1 \in 1..Len(queue'[q]) /\ queue'[q][k - 1] = queue[q][k]
      BY <1>2, <2>1
    <3> QED
      BY <2>1, <3>1
  <2>2. CASE r # q
    BY <1>2, <2>2
  <2> QED
    BY <2>1, <2>2
<1>5. Distinct'
  <2> SUFFICES ASSUME NEW a \in Pools, NEW b \in Pools,
                      NEW i \in 1..Len(queue'[a]), NEW j \in 1..Len(queue'[b]),
                      queue'[a][i] = queue'[b][j]
               PROVE  a = b /\ i = j
    BY DEF Distinct
  <2>1. PICK k \in 1..Len(queue[a]) : queue'[a][i] = queue[a][k] /\ k = IF a = q THEN i + 1 ELSE i
    BY <1>3
  <2>2. PICK l \in 1..Len(queue[b]) : queue'[b][j] = queue[b][l] /\ l = IF b = q THEN j + 1 ELSE j
    BY <1>3
  <2>3. a = b /\ k = l
    BY <2>1, <2>2 DEF Distinct
  <2> QED
    BY <2>1, <2>2, <2>3
<1>6. Queued(f)
  BY <1>2 DEF Queued
<1>7. ~Queued(f)'
  <2> SUFFICES ASSUME NEW r \in Pools, NEW i \in 1..Len(queue'[r]), queue'[r][i] = f
               PROVE  FALSE
    BY DEF Queued
  <2>1. PICK k \in 1..Len(queue[r]) : queue'[r][i] = queue[r][k] /\ k = IF r = q THEN i + 1 ELSE i
    BY <1>3
  <2>2. r = q /\ k = 1
    BY <1>2, <2>1 DEF Distinct
  <2> QED
    BY <2>1, <2>2
<1>8. ASSUME NEW g \in Futures, g # f
      PROVE  Queued(g)' <=> Queued(g)
  <2>1. ASSUME Queued(g)'
        PROVE  Queued(g)
    BY <1>3, <2>1 DEF Queued
  <2>2. ASSUME Queued(g)
        PROVE  Queued(g)'
    <3>1. PICK r \in Pools : \E k \in 1..Len(queue[r]) : queue[r][k] = g
      BY <2>2 DEF Queued
    <3>2. PICK k \in 1..Len(queue[r]) : queue[r][k] = g
      BY <3>1
    <3>3. ~(r = q /\ k = 1)
      BY <1>2, <1>8, <3>2
    <3> QED
      BY <1>4, <3>2, <3>3 DEF Queued
  <2> QED
    BY <2>1, <2>2
<1> QED
  BY <1>5, <1>6, <1>7, <1>8

LEMMA SameQueued ==
  ASSUME UNCHANGED queue
  PROVE  (Distinct => Distinct') /\ \A g \in Futures : Queued(g)' <=> Queued(g)
BY DEF Distinct, Queued

-----------------------------------------------------------------------------
(* One lemma per action.  Inv is the whole inductive invariant, and Step(f) *)
(* what each action on f establishes.                                       *)

Inv == Typed /\ WorkInv /\ Distinct /\ \A f \in Futures : FutureInv(f)
Step(f) == Distinct' /\ FrameExcept(f) /\ FutureInv(f)'

\* All sets of labels, expanded.
LEMMA LabelSets ==
  /\ Holding = {"callback", "yield", "push", "prepare_thread"}
  /\ Carrying = {"push", "work_future", "work_lock", "yield"}
  /\ Awaiting = {"await_future", "await_sem", "await_unwind"}
  /\ LockLabel("ok") = "lock_on_success" /\ LockLabel("error") = "lock_on_failure"
  /\ Other("ok") = "error" /\ Other("error") = "ok"
BY DEF Holding, InCallback, Carrying, Awaiting, LockLabel, Other

\* A push by a thread that puts the future in the queue or sleeps.
LEMMA QueuePushed ==
  ASSUME TypeOK, Distinct, NEW t \in Threads, NEW f \in Futures, ~Queued(f),
         future_queue_push(t, f)
  PROVE  \E label \in {"push", "prepare_thread"} :
           /\ \A s \in Threads, g \in Futures :
                pc'[s][g] = IF s = t /\ g = f THEN label ELSE pc[s][g]
           /\ Distinct'
           /\ \A g \in Futures : g # f => (Queued(g)' <=> Queued(g))
           /\ Queued(f)' <=> label = "prepare_thread"
<1> DEFINE pool == future_thread_pool_get(f)
<1>1. pool \in Pools
  BY FutureAssumption DEF future_thread_pool_get
<1>2. CASE queue' = [queue EXCEPT ![pool] = Append(queue[pool], f)] /\ Goto(t, f, "prepare_thread")
  <2> HIDE DEF pool
  <2>1. Distinct' /\ \A g \in Futures : Queued(g)' <=> Queued(g) \/ g = f
    BY <1>1, <1>2, AppendQueued
  <2>2. \A s \in Threads, g \in Futures :
          pc'[s][g] = IF s = t /\ g = f THEN "prepare_thread" ELSE pc[s][g]
    BY <1>2, GotoPc
  <2> QED
    BY <2>1, <2>2
<1>3. CASE UNCHANGED queue /\ Goto(t, f, "push")
  <2>1. \A s \in Threads, g \in Futures :
          pc'[s][g] = IF s = t /\ g = f THEN "push" ELSE pc[s][g]
    BY <1>3, GotoPc
  <2> QED
    BY <1>3, <2>1, SameQueued
<1> QED
  BY <1>2, <1>3 DEF future_queue_push

LEMMA SynchronizeStep ==
  ASSUME Inv, NEW t \in Threads, NEW f \in Futures, NEW o \in Outcomes,
         mutex[f] = None, Synchronize(t, f, o),
         pc[t][f] = LockLabel(o) \/ (pc[t][f] = "idle" /\ block[f][o] = None)
  PROVE  Step(f)
<1> TypeOK /\ Distinct /\ FutureInv(f)
  BY DEF Inv, Typed
<1>1. /\ block' = [block EXCEPT ![f][o] = t]
      /\ UNCHANGED <<outcome, already_waited, aborted>>
  BY DEF Synchronize, Synchronized, interruptVars
<1>2. /\ \A g \in Futures : g # f => block'[g] = block[g]
      /\ block'[f][o] = t /\ t # None
      /\ \A q \in Outcomes : q # o => block'[f][q] = block[f][q]
  BY <1>1, FutureAssumption DEF TypeOK
<1>3. /\ HasBlock(f)'
      /\ \A q \in Outcomes : block[f][q] # None => block'[f][q] # None
  BY <1>2 DEF HasBlock
<1>4. /\ \A s \in Threads : pc[s][f] \notin Holding
      /\ pc[t][f] \notin Carrying /\ pc[t][f] \notin Awaiting
  <2>1. \A s \in Threads : mutex[f] # s
    BY FutureAssumption
  <2> QED
    BY <2>1, LabelSets DEF FutureInv, LockInv, Outcomes
<1>5. \A s \in Threads, q \in Outcomes : s # t => (pc[s][f] = LockLabel(q) => block'[f][Other(q)] # None)
  BY <1>3, LabelSets DEF FutureInv, BlockInv, Outcomes
<1>6. CASE outcome[f] # "pending"
  <2>0. /\ Post(f) /\ UNCHANGED queue
        /\ \/ RunNow(f, o) /\ Yield(t, f, o, "callback")
           \/ ~RunNow(f, o) /\ Unlock(f) /\ Goto(t, f, "idle") /\ UNCHANGED <<yielded, ran>>
    BY <1>6 DEF Synchronize, Synchronized
  <2>1. PICK label \in {"callback", "idle"} :
          /\ \A s \in Threads, g \in Futures :
               pc'[s][g] = IF s = t /\ g = f THEN label ELSE pc[s][g]
          /\ mutex' = [mutex EXCEPT ![f] = IF label = "callback" THEN t ELSE None]
          /\ yielded' = IF label = "callback" THEN [yielded EXCEPT ![f] = TRUE] ELSE yielded
          /\ label = "idle" => yielded[f] \/ outcome[f] # o
    <3>1. CASE RunNow(f, o) /\ Yield(t, f, o, "callback")
      BY <3>1, GotoPc DEF Yield
    <3>2. CASE ~RunNow(f, o) /\ Unlock(f) /\ Goto(t, f, "idle") /\ UNCHANGED <<yielded, ran>>
      BY <3>2, GotoPc DEF Unlock, RunNow, TypeOK
    <3> QED
      BY <2>0, <3>1, <3>2
  <2>2. sem'[f] > 0 /\ \A g \in Futures : g # f => sem'[g] = sem[g]
    BY <2>0 DEF Post, TypeOK
  <2>3. Distinct' /\ \A g \in Futures : Queued(g)' <=> Queued(g)
    BY <2>0, SameQueued
  <2>4. FrameExcept(f)
    BY <1>1, <1>2, <2>1, <2>2, <2>3 DEF FrameExcept, TypeOK
  <2>5. Carries(f)' <=> Carries(f)
    BY <1>4, <2>1, LabelSets DEF Carries
  <2>6. LockInv(f)'
    BY <1>4, <2>1, FutureAssumption, LabelSets DEF LockInv, TypeOK
  <2>7. BlockInv(f)'
    BY <1>3, <1>5, <2>1, LabelSets DEF BlockInv, Outcomes
  <2>8. CarryInv(f)'
    BY <1>4, <2>1, <2>3, <2>5, LabelSets DEF FutureInv, CarryInv
  <2>9. LostInv(f)'
    <3>1. Waiting(f)' => Waiting(f)
      BY <1>1, <1>2, <1>6, <2>1 DEF Waiting, TypeOK
    <3> QED
      BY <1>1, <2>3, <2>5, <3>1 DEF FutureInv, LostInv, OnItsWay
  <2>10. AwaitInv(f)'
    BY <1>1, <1>3, <1>4, <2>1, LabelSets DEF FutureInv, AwaitInv
  <2>11. PostInv(f)'
    BY <2>2 DEF PostInv
  <2> QED
    BY <2>3, <2>4, <2>6, <2>7, <2>8, <2>9, <2>10, <2>11 DEF Step, FutureInv
<1>7. CASE outcome[f] = "pending" /\ ~FirstBlock(f, o)
  <2>0. Unlock(f) /\ Goto(t, f, "idle") /\ UNCHANGED <<queue, sem, yielded>>
    BY <1>7 DEF Synchronize, Synchronized
  <2>1. \A s \in Threads, g \in Futures :
          pc'[s][g] = IF s = t /\ g = f THEN "idle" ELSE pc[s][g]
    BY <2>0, GotoPc
  <2>2. HasBlock(f)
    BY <1>7 DEF FirstBlock, HasBlock, Other, Outcomes
  <2>3. Distinct' /\ \A g \in Futures : Queued(g)' <=> Queued(g)
    BY <2>0, SameQueued
  <2>4. FrameExcept(f)
    BY <1>1, <1>2, <2>0, <2>1, <2>3 DEF FrameExcept, Unlock, TypeOK
  <2>5. Carries(f)' <=> Carries(f)
    BY <1>4, <2>1, LabelSets DEF Carries
  <2>6. LockInv(f)'
    BY <1>4, <2>0, <2>1, FutureAssumption, LabelSets DEF LockInv, Unlock, TypeOK
  <2>7. BlockInv(f)'
    BY <1>3, <1>5, <2>1, LabelSets DEF BlockInv, Outcomes
  <2>8. CarryInv(f)'
    BY <1>4, <2>1, <2>3, <2>5, LabelSets DEF FutureInv, CarryInv
  <2>9. LostInv(f)'
    BY <1>1, <1>7, <2>0, <2>2, <2>3, <2>5 DEF FutureInv, LostInv, OnItsWay, Waiting
  <2>10. AwaitInv(f)'
    BY <1>1, <1>3, <1>4, <2>1, LabelSets DEF FutureInv, AwaitInv
  <2>11. PostInv(f)'
    BY <1>1, <2>0, <2>1, <2>2, <2>3, <2>5, LabelSets DEF FutureInv, PostInv, OnItsWay
  <2> QED
    BY <2>3, <2>4, <2>6, <2>7, <2>8, <2>9, <2>10, <2>11 DEF Step, FutureInv
<1>8. CASE outcome[f] = "pending" /\ FirstBlock(f, o)
  <2>0. future_queue_push(t, f) /\ UNCHANGED <<sem, yielded>>
    BY <1>8 DEF Synchronize, Synchronized
  <2>1. ~HasBlock(f)
    BY <1>8, LabelSets DEF FirstBlock, HasBlock, FutureInv, BlockInv, Outcomes
  <2>2. ~OnItsWay(f)
    BY <2>1 DEF FutureInv, BlockInv
  <2>3. PICK label \in {"push", "prepare_thread"} :
          /\ \A s \in Threads, g \in Futures :
               pc'[s][g] = IF s = t /\ g = f THEN label ELSE pc[s][g]
          /\ Distinct'
          /\ \A g \in Futures : g # f => (Queued(g)' <=> Queued(g))
          /\ Queued(f)' <=> label = "prepare_thread"
    <3>1. ~Queued(f)
      BY <2>2 DEF OnItsWay
    <3> QED
      BY <2>0, <3>1, QueuePushed
  <2>4. mutex' = [mutex EXCEPT ![f] = t]
    BY <2>0 DEF future_queue_push
  <2>5. FrameExcept(f)
    BY <1>1, <1>2, <2>0, <2>3, <2>4 DEF FrameExcept, TypeOK
  <2>6. OnItsWay(f)' /\ (Carries(f)' => ~Queued(f)')
    BY <2>2, <2>3, LabelSets DEF OnItsWay, Carries
  <2>7. LockInv(f)'
    BY <1>4, <2>3, <2>4, FutureAssumption, LabelSets DEF LockInv, TypeOK
  <2>8. BlockInv(f)'
    BY <1>3, <1>5, <2>3, LabelSets DEF BlockInv, Outcomes
  <2>9. CarryInv(f)'
    BY <2>2, <2>3, <2>6, LabelSets DEF CarryInv, OnItsWay, Carries
  <2>10. AwaitInv(f)'
    BY <1>1, <1>3, <1>4, <2>3, LabelSets DEF FutureInv, AwaitInv
  <2>11. LostInv(f)' /\ PostInv(f)'
    BY <2>6 DEF LostInv, PostInv
  <2> QED
    BY <2>3, <2>5, <2>7, <2>8, <2>9, <2>10, <2>11 DEF Step, FutureInv
<1> QED
  BY <1>6, <1>7, <1>8

\* The part of Step that is the same for every step that stores no block, does
\* not touch the queue and moves t's call on f to label.
LEMMA MoveStep ==
  ASSUME Inv, NEW t \in Threads, NEW f \in Futures, NEW label, Goto(t, f, label),
         UNCHANGED <<outcome, block, queue>>
  PROVE  /\ Distinct'
         /\ \A g \in Futures : Queued(g)' <=> Queued(g)
         /\ \A s \in Threads, g \in Futures :
              pc'[s][g] = IF s = t /\ g = f THEN label ELSE pc[s][g]
         /\ HasBlock(f)' <=> HasBlock(f)
BY SameQueued, GotoPc DEF Inv, Typed, HasBlock

\* A thread asleep in the push finds room, or looks again in vain.
LEMMA ResumePushStep ==
  ASSUME Inv, NEW t \in Threads, NEW f \in Futures, ResumePush(t, f)
  PROVE  Step(f)
<1> TypeOK /\ Distinct /\ FutureInv(f)
  BY DEF Inv, Typed
<1>1. /\ pc[t][f] = "push" /\ mutex' = [mutex EXCEPT ![f] = t]
      /\ future_queue_push(t, f)
      /\ UNCHANGED <<outcome, block, sem, already_waited, yielded, aborted>>
  BY DEF ResumePush, future_queue_push, historyVars
<1>2. Carries(f) /\ ~Queued(f)
  BY <1>1, LabelSets DEF FutureInv, CarryInv, Carries
<1>3. PICK label \in {"push", "prepare_thread"} :
        /\ \A s \in Threads, g \in Futures :
             pc'[s][g] = IF s = t /\ g = f THEN label ELSE pc[s][g]
        /\ Distinct'
        /\ \A g \in Futures : g # f => (Queued(g)' <=> Queued(g))
        /\ Queued(f)' <=> label = "prepare_thread"
  BY <1>1, <1>2, QueuePushed
<1>4. FrameExcept(f)
  BY <1>1, <1>3 DEF FrameExcept, TypeOK
<1>5. HasBlock(f) /\ HasBlock(f)' /\ mutex[f] = t /\ mutex'[f] = t
  BY <1>1, <1>2, LabelSets DEF FutureInv, BlockInv, LockInv, OnItsWay, HasBlock, TypeOK
<1>6. \A s \in Threads : s # t => pc[s][f] \notin Carrying
  BY <1>1, LabelSets DEF FutureInv, CarryInv
<1>7. OnItsWay(f)' /\ (Carries(f)' => ~Queued(f)')
  BY <1>3, <1>6, LabelSets DEF OnItsWay, Carries
<1>8. LockInv(f)'
  BY <1>1, <1>3, <1>5, LabelSets DEF FutureInv, LockInv
<1>9. BlockInv(f)'
  BY <1>1, <1>3, <1>5, LabelSets DEF FutureInv, BlockInv, Outcomes
<1>10. CarryInv(f)'
  BY <1>3, <1>6, <1>7, LabelSets DEF CarryInv
<1>11. AwaitInv(f)'
  BY <1>1, <1>3, <1>5, LabelSets DEF FutureInv, AwaitInv
<1>12. LostInv(f)' /\ PostInv(f)'
  BY <1>7 DEF LostInv, PostInv
<1> QED
  BY <1>3, <1>4, <1>8, <1>9, <1>10, <1>11, <1>12 DEF Step, FutureInv

\* Steps that leave a critical section without a post, and those that sleep for
\* a mutex: nothing about the future's way to the pool changes.
LEMMA QuietStep ==
  ASSUME Inv, NEW t \in Threads, NEW f \in Futures, NEW label, Goto(t, f, label),
         pc[t][f] \notin Carrying \cup Awaiting,
         label \in {"idle", "lock_await"} \cup {LockLabel(o) : o \in Outcomes},
         \A o \in Outcomes : label = LockLabel(o) => block[f][Other(o)] # None,
         IF pc[t][f] \in Holding THEN Unlock(f) ELSE UNCHANGED mutex,
         UNCHANGED <<outcome, block, queue, sem, already_waited, yielded, aborted>>
  PROVE  Step(f)
<1> TypeOK /\ Distinct /\ FutureInv(f)
  BY DEF Inv, Typed
<1>1. /\ Distinct'
      /\ \A g \in Futures : Queued(g)' <=> Queued(g)
      /\ \A s \in Threads, g \in Futures :
           pc'[s][g] = IF s = t /\ g = f THEN label ELSE pc[s][g]
      /\ HasBlock(f)' <=> HasBlock(f)
  BY MoveStep
<1>2. label \notin Holding /\ label \notin Carrying /\ label \notin Awaiting
  BY LabelSets DEF Outcomes
<1>3. FrameExcept(f)
  BY <1>1 DEF FrameExcept, Unlock, TypeOK
<1>4. (Carries(f)' <=> Carries(f)) /\ (OnItsWay(f)' <=> OnItsWay(f))
  BY <1>1, <1>2 DEF Carries, OnItsWay
<1>5. LockInv(f)'
  <2>1. CASE pc[t][f] \in Holding
    <3>1. mutex[f] = t /\ mutex'[f] = None
      BY <2>1 DEF FutureInv, LockInv, Unlock, TypeOK
    <3>2. \A s \in Threads : pc'[s][f] \notin Holding
      BY <1>1, <1>2, <3>1 DEF FutureInv, LockInv
    <3> QED
      BY <3>1, <3>2, FutureAssumption DEF LockInv
  <2>2. CASE pc[t][f] \notin Holding
    BY <1>1, <1>2, <2>2 DEF FutureInv, LockInv
  <2> QED
    BY <2>1, <2>2
<1>6. BlockInv(f)'
  BY <1>1, <1>2, <1>4 DEF FutureInv, BlockInv
<1>7. CarryInv(f)'
  BY <1>1, <1>2, <1>4 DEF FutureInv, CarryInv
<1>8. LostInv(f)'
  BY <1>1, <1>4 DEF FutureInv, LostInv, Waiting
<1>9. AwaitInv(f)'
  BY <1>1, <1>2, LabelSets DEF FutureInv, AwaitInv
<1>10. PostInv(f)'
  BY <1>1, <1>2, <1>4 DEF FutureInv, PostInv
<1> QED
  BY <1>1, <1>3, <1>5, <1>6, <1>7, <1>8, <1>9, <1>10 DEF Step, FutureInv

\* A registration sleeps for the mutex only while a holder has stored a block.
LEMMA RegisterStep ==
  ASSUME Inv, NEW t \in Threads, NEW f \in Futures, NEW o \in Outcomes, Register(t, f, o)
  PROVE  Step(f)
<1>1. pc[t][f] = "idle" /\ block[f][o] = None
  BY DEF Register, MayCall
<1>2. CASE mutex[f] = None /\ Synchronize(t, f, o)
  BY <1>1, <1>2, SynchronizeStep
<1>3. CASE /\ mutex[f] # None
           /\ Goto(t, f, LockLabel(o))
           /\ UNCHANGED <<outcome, block, mutex, sem, already_waited, yielded,
                          poolVars, historyVars>>
  <2>1. mutex[f] \in Threads /\ pc[mutex[f]][f] \in Holding
    BY <1>3 DEF Inv, Typed, TypeOK, FutureInv, LockInv
  <2>2. HasBlock(f)
    BY <2>1 DEF Inv, FutureInv, BlockInv
  <2>3. block[f][Other(o)] # None
    BY <1>1, <2>2, LabelSets DEF HasBlock, Outcomes
  <2>4. \A q \in Outcomes : LockLabel(o) = LockLabel(q) => o = q
    BY LabelSets DEF Outcomes
  <2> QED
    BY <1>1, <1>3, <2>3, <2>4, QuietStep, LabelSets DEF poolVars, historyVars
<1> QED
  BY <1>2, <1>3 DEF Register

\* The critical section of await: the first caller goes on, the others return.
CheckWaitedPre(t, f) == pc[t][f] \in {"idle", "lock_await"} /\ CheckWaited(t, f)

LEMMA CheckWaitedStep ==
  ASSUME Inv, NEW t \in Threads, NEW f \in Futures, CheckWaitedPre(t, f)
  PROVE  Step(f)
<1> TypeOK /\ Distinct /\ FutureInv(f)
  BY DEF Inv, Typed
<1>0. UNCHANGED <<outcome, block, mutex, sem, yielded, queue, aborted>>
  BY DEF CheckWaitedPre, CheckWaited, poolVars, interruptVars
<1>1. pc[t][f] \notin Carrying \cup Awaiting \cup Holding
  BY LabelSets DEF CheckWaitedPre
<1>2. CASE already_waited[f]
  BY <1>0, <1>1, <1>2, QuietStep, LabelSets DEF CheckWaitedPre, CheckWaited, Return, Outcomes
<1>3. CASE ~already_waited[f]
  <2>0. Goto(t, f, "await_future") /\ already_waited' = [already_waited EXCEPT ![f] = TRUE]
    BY <1>3 DEF CheckWaitedPre, CheckWaited
  <2>1. /\ Distinct'
        /\ \A g \in Futures : Queued(g)' <=> Queued(g)
        /\ \A s \in Threads, g \in Futures :
             pc'[s][g] = IF s = t /\ g = f THEN "await_future" ELSE pc[s][g]
        /\ HasBlock(f)' <=> HasBlock(f)
    BY <1>0, <2>0, MoveStep
  <2>2. FrameExcept(f)
    BY <1>0, <2>0, <2>1 DEF FrameExcept, TypeOK
  <2>3. (Carries(f)' <=> Carries(f)) /\ (OnItsWay(f)' <=> OnItsWay(f))
    BY <1>1, <2>1, LabelSets DEF Carries, OnItsWay
  <2>4. LockInv(f)' /\ BlockInv(f)' /\ CarryInv(f)'
    BY <1>0, <1>1, <2>1, <2>3, LabelSets DEF FutureInv, LockInv, BlockInv, CarryInv, Outcomes
  <2>5. LostInv(f)'
    BY <1>0, <2>1, <2>3 DEF FutureInv, LostInv, Waiting
  <2>6. \A s \in Threads : pc[s][f] \notin Awaiting
    BY <1>3 DEF FutureInv, AwaitInv
  <2>7. AwaitInv(f)'
    BY <2>0, <2>1, <2>6, LabelSets DEF AwaitInv, TypeOK
  <2>8. PostInv(f)'
    BY <1>0, <1>3, <2>1, <2>3 DEF FutureInv, PostInv
  <2> QED
    BY <2>1, <2>2, <2>4, <2>5, <2>7, <2>8 DEF Step, FutureInv
<1> QED
  BY <1>2, <1>3

\* Steps of the thread that waits: it goes on to the semaphore, or returns.
LEMMA AwaiterStep ==
  ASSUME Inv, NEW t \in Threads, NEW f \in Futures, pc[t][f] \in Awaiting,
         NEW label \in {"idle", "await_sem", "await_unwind"}, Goto(t, f, label),
         label = "await_sem" => HasBlock(f),
         label # "idle" /\ sem[f] > 0 => sem'[f] > 0,
         \A g \in Futures : g # f => sem'[g] = sem[g],
         UNCHANGED <<outcome, block, queue, mutex, already_waited, yielded, aborted>>
  PROVE  Step(f)
<1> TypeOK /\ Distinct /\ FutureInv(f)
  BY DEF Inv, Typed
<1>1. /\ Distinct'
      /\ \A g \in Futures : Queued(g)' <=> Queued(g)
      /\ \A s \in Threads, g \in Futures :
           pc'[s][g] = IF s = t /\ g = f THEN label ELSE pc[s][g]
      /\ HasBlock(f)' <=> HasBlock(f)
  BY MoveStep
<1>2. FrameExcept(f)
  BY <1>1 DEF FrameExcept, TypeOK
<1>3. (Carries(f)' <=> Carries(f)) /\ (OnItsWay(f)' <=> OnItsWay(f))
  BY <1>1, LabelSets DEF Carries, OnItsWay
<1>4. LockInv(f)' /\ BlockInv(f)' /\ CarryInv(f)'
  BY <1>1, <1>3, LabelSets DEF FutureInv, LockInv, BlockInv, CarryInv, Outcomes
<1>5. LostInv(f)'
  BY <1>1, <1>3 DEF FutureInv, LostInv, Waiting
<1>6. already_waited[f] /\ \A s \in Threads : s # t => pc[s][f] \notin Awaiting
  BY DEF FutureInv, AwaitInv
<1>7. AwaitInv(f)'
  BY <1>1, <1>6, LabelSets DEF FutureInv, AwaitInv
<1>8. PostInv(f)'
  <2>1. CASE label = "idle"
    BY <1>1, <1>6, <2>1, LabelSets DEF PostInv
  <2>2. CASE label # "idle"
    BY <1>1, <1>3, <2>2 DEF FutureInv, PostInv
  <2> QED
    BY <2>1, <2>2
<1> QED
  BY <1>1, <1>2, <1>4, <1>5, <1>7, <1>8 DEF Step, FutureInv

LEMMA CallStep ==
  ASSUME Inv, NEW t \in Threads, NEW f \in Futures, Call(t, f)
  PROVE  Step(f)
<1>1. ASSUME future_await(t, f)
      PROVE  Step(f)
  <2>1. pc[t][f] = "idle"
    BY <1>1 DEF future_await, MayCall
  <2>2. CASE mutex[f] = None /\ CheckWaited(t, f)
    BY <2>1, <2>2, CheckWaitedStep DEF CheckWaitedPre
  <2>3. CASE /\ Goto(t, f, "lock_await")
             /\ UNCHANGED <<outcome, block, mutex, sem, already_waited, yielded,
                            poolVars, historyVars>>
    BY <2>1, <2>3, QuietStep, LabelSets DEF poolVars, historyVars, Outcomes
  <2> QED
    BY <1>1, <2>2, <2>3 DEF future_await
<1> QED
  BY <1>1, RegisterStep DEF Call, future_on_success, future_on_failure, Outcomes

LEMMA ResumeStep ==
  ASSUME Inv, NEW t \in Threads, NEW f \in Futures, Resume(t, f)
  PROVE  Step(f)
<1>1. ASSUME LockToRegister(t, f)
      PROVE  Step(f)
  BY <1>1, SynchronizeStep DEF LockToRegister
<1>2. ASSUME PrepareThread(t, f)
      PROVE  Step(f)
  BY <1>2, QuietStep, LabelSets DEF PrepareThread, historyVars, Outcomes
<1>3. ASSUME EndCallback(t, f)
      PROVE  Step(f)
  BY <1>3, QuietStep, LabelSets DEF EndCallback, poolVars, historyVars, Outcomes
<1>4. ASSUME LockToAwait(t, f)
      PROVE  Step(f)
  BY <1>4, CheckWaitedStep DEF LockToAwait, CheckWaitedPre
<1>5. ASSUME AwaitFuture(t, f)
      PROVE  Step(f)
  BY <1>5, AwaiterStep, LabelSets DEF AwaitFuture, Return, poolVars, interruptVars
<1>6. ASSUME AwaitSem(t, f)
      PROVE  Step(f)
  <2>1. \A g \in Futures : g # f => sem'[g] = sem[g]
    BY <1>6 DEF AwaitSem, Inv, Typed, TypeOK
  <2> QED
    BY <1>6, <2>1, AwaiterStep, LabelSets DEF AwaitSem, Return, poolVars, interruptVars
<1> QED
  BY <1>1, <1>2, <1>3, <1>4, <1>5, <1>6, ResumePushStep DEF Resume

\* An exception that ends a push puts the future among the aborted ones.
LEMMA AbortPushStep ==
  ASSUME Inv, NEW t \in Threads, NEW f \in Futures, pc[t][f] = "push",
         Unlock(f), aborted' = aborted \cup {f}, Goto(t, f, "idle"),
         UNCHANGED <<outcome, block, queue, sem, already_waited, yielded>>
  PROVE  Step(f)
<1> TypeOK /\ Distinct /\ FutureInv(f)
  BY DEF Inv, Typed
<1>1. /\ Distinct'
      /\ \A g \in Futures : Queued(g)' <=> Queued(g)
      /\ \A s \in Threads, g \in Futures :
           pc'[s][g] = IF s = t /\ g = f THEN "idle" ELSE pc[s][g]
      /\ HasBlock(f)' <=> HasBlock(f)
  BY MoveStep
<1>2. FrameExcept(f)
  BY <1>1 DEF FrameExcept, Unlock, TypeOK
<1>3. mutex[f] = t /\ mutex'[f] = None
  BY LabelSets DEF FutureInv, LockInv, Unlock, TypeOK
<1>4. \A s \in Threads : pc'[s][f] \notin Holding /\ pc'[s][f] \notin Carrying
  BY <1>1, <1>3, LabelSets DEF FutureInv, LockInv, CarryInv
<1>5. LockInv(f)'
  BY <1>3, <1>4, FutureAssumption DEF LockInv
<1>6. HasBlock(f)'
  BY <1>1, LabelSets DEF FutureInv, BlockInv
<1>7. BlockInv(f)' /\ CarryInv(f)'
  BY <1>1, <1>4, <1>6, LabelSets DEF FutureInv, BlockInv, CarryInv, Carries, Outcomes
<1>8. AwaitInv(f)'
  BY <1>1, LabelSets DEF FutureInv, AwaitInv
<1>9. LostInv(f)' /\ PostInv(f)'
  BY DEF LostInv, PostInv
<1> QED
  BY <1>1, <1>2, <1>5, <1>7, <1>8, <1>9 DEF Step, FutureInv

LEMMA InterruptStep ==
  ASSUME Inv, NEW t \in Threads, NEW f \in Futures, Interrupt(t, f)
  PROVE  Step(f)
<1> UNCHANGED <<outcome, block, queue, already_waited, yielded>>
  BY DEF Interrupt, poolVars
<1>1. CASE nogvl_sem_wait_ubf(t, f)
  <2>1. sem'[f] > 0 /\ \A g \in Futures : g # f => sem'[g] = sem[g]
    BY <1>1 DEF nogvl_sem_wait_ubf, Post, Inv, Typed, TypeOK
  <2>2. HasBlock(f)
    BY <1>1 DEF nogvl_sem_wait_ubf, Inv, FutureInv, AwaitInv
  <2> QED
    BY <1>1, <2>1, <2>2, AwaiterStep, LabelSets DEF nogvl_sem_wait_ubf
<1>2. CASE Abort(t, f) /\ pc[t][f] \in Locking
  BY <1>2, QuietStep, LabelSets DEF Abort, Locking, Outcomes
<1>3. CASE Abort(t, f) /\ pc[t][f] = "push"
  BY <1>3, AbortPushStep DEF Abort, Locking
<1>4. CASE Abort(t, f) /\ pc[t][f] = "prepare_thread"
  BY <1>4, QuietStep, LabelSets DEF Abort, Locking, Outcomes
<1>5. CASE Abort(t, f) /\ pc[t][f] \in {"await_future", "await_sem"}
  BY <1>5, AwaiterStep, LabelSets DEF Abort, Locking
<1> QED
  BY <1>1, <1>2, <1>3, <1>4, <1>5 DEF Interrupt, Abort

-----------------------------------------------------------------------------
(* The pool's threads.                                                     *)

LEMMA WorkerPopStep ==
  ASSUME Inv, NEW w \in Workers, NEW f \in Futures, WorkerPop(w, f)
  PROVE  Step(f)
<1> w \in Threads
  BY DEF Threads
<1> TypeOK /\ Distinct /\ FutureInv(f)
  BY DEF Inv, Typed
<1>0. /\ w[1] \in Pools /\ queue[w[1]] # <<>> /\ f = Head(queue[w[1]])
      /\ queue' = [queue EXCEPT ![w[1]] = Tail(queue[w[1]])]
      /\ UNCHANGED <<outcome, block, mutex, sem, already_waited, yielded, aborted>>
  BY DEF WorkerPop, future_queue_pop, Workers, historyVars
<1>1. /\ Distinct' /\ Queued(f) /\ ~Queued(f)'
      /\ \A g \in Futures : g # f => (Queued(g)' <=> Queued(g))
  BY <1>0, TailQueued
<1>2. \A s \in Threads, g \in Futures :
        pc'[s][g] = IF s = w /\ g = f THEN "work_future" ELSE pc[s][g]
  BY GotoPc DEF WorkerPop
<1>3. pc[w][f] = "idle"
  BY DEF WorkerPop, Inv, Typed, StackInv, OnStack
<1>4. FrameExcept(f)
  BY <1>0, <1>1, <1>2 DEF FrameExcept
<1>5. HasBlock(f) /\ HasBlock(f)' /\ ~Carries(f)
  BY <1>0, <1>1 DEF FutureInv, BlockInv, CarryInv, OnItsWay, HasBlock
<1>6. LockInv(f)' /\ BlockInv(f)' /\ AwaitInv(f)'
  <2>1. LockInv(f)'
    BY <1>0, <1>2, <1>3, LabelSets DEF FutureInv, LockInv
  <2>2. BlockInv(f)'
    BY <1>0, <1>2, <1>5, LabelSets DEF FutureInv, BlockInv, Outcomes
  <2>3. AwaitInv(f)'
    BY <1>0, <1>2, <1>5, LabelSets DEF FutureInv, AwaitInv
  <2> QED
    BY <2>1, <2>2, <2>3
<1>7. CarryInv(f)'
  BY <1>1, <1>2, <1>5, LabelSets DEF CarryInv, Carries
<1>8. OnItsWay(f)'
  BY <1>2, LabelSets DEF OnItsWay, Carries
<1>9. LostInv(f)' /\ PostInv(f)'
  BY <1>8 DEF LostInv, PostInv
<1> QED
  BY <1>1, <1>4, <1>6, <1>7, <1>9 DEF Step, FutureInv

\* The end of a turn: a post, and no block that waits.
LEMMA FinishStep ==
  ASSUME Inv, NEW w \in Workers, NEW f \in Futures, pc[w][f] \in {"work_future", "work_lock", "yield"},
         Finish(w, f), ~Waiting(f), pc[w][f] # "yield" => mutex[f] = None,
         already_waited' \in {already_waited, [already_waited EXCEPT ![f] = TRUE]},
         UNCHANGED <<outcome, block, queue, yielded, aborted>>
  PROVE  Step(f)
<1> w \in Threads
  BY DEF Threads
<1> TypeOK /\ Distinct /\ FutureInv(f)
  BY DEF Inv, Typed
<1>1. /\ Distinct'
      /\ \A g \in Futures : Queued(g)' <=> Queued(g)
      /\ \A s \in Threads, g \in Futures :
           pc'[s][g] = IF s = w /\ g = f THEN "idle" ELSE pc[s][g]
      /\ HasBlock(f)' <=> HasBlock(f)
  BY MoveStep DEF Finish
<1>2. /\ mutex'[f] = None /\ sem'[f] > 0
      /\ \A g \in Futures : g # f => mutex'[g] = mutex[g] /\ sem'[g] = sem[g]
  BY DEF Finish, Unlock, Post, TypeOK
<1>3. FrameExcept(f)
  BY <1>1, <1>2 DEF FrameExcept, TypeOK
<1>4. \A s \in Threads : pc'[s][f] \notin Holding /\ pc'[s][f] \notin Carrying
  <2>1. \A s \in Threads : s # w => pc[s][f] \notin Carrying
    BY LabelSets DEF FutureInv, CarryInv
  <2>2. \A s \in Threads : s # w => pc[s][f] \notin Holding
    BY LabelSets, FutureAssumption DEF FutureInv, LockInv
  <2> QED
    BY <1>1, <2>1, <2>2, LabelSets
<1>5. LockInv(f)'
  BY <1>2, <1>4, FutureAssumption DEF LockInv
<1>6. HasBlock(f)'
  BY <1>1, LabelSets DEF FutureInv, BlockInv, OnItsWay, Carries
<1>7. BlockInv(f)' /\ CarryInv(f)'
  BY <1>1, <1>4, <1>6, LabelSets DEF FutureInv, BlockInv, CarryInv, Carries, Outcomes
<1>8. LostInv(f)'
  BY <1>1 DEF LostInv, Waiting
<1>9. AwaitInv(f)'
  <2>1. already_waited[f] => already_waited'[f]
    BY DEF TypeOK
  <2> QED
    BY <1>1, <2>1, LabelSets DEF FutureInv, AwaitInv
<1>10. PostInv(f)'
  BY <1>2 DEF PostInv
<1> QED
  BY <1>1, <1>3, <1>5, <1>7, <1>8, <1>9, <1>10 DEF Step, FutureInv

\* Between its pop and its block's end a turn stays with its thread.
LEMMA TurnStep ==
  ASSUME Inv, NEW w \in Workers, NEW f \in Futures, pc[w][f] \in {"work_future", "work_lock"},
         NEW label \in {"work_lock", "yield"}, Goto(w, f, label),
         label = "yield" => /\ mutex[f] = None
                            /\ mutex' = [mutex EXCEPT ![f] = w]
                            /\ yielded' = [yielded EXCEPT ![f] = TRUE],
         label = "work_lock" => UNCHANGED <<mutex, yielded>>,
         UNCHANGED <<outcome, block, queue, sem, already_waited, aborted>>
  PROVE  Step(f)
<1> w \in Threads
  BY DEF Threads
<1> TypeOK /\ Distinct /\ FutureInv(f)
  BY DEF Inv, Typed
<1>1. /\ Distinct'
      /\ \A g \in Futures : Queued(g)' <=> Queued(g)
      /\ \A s \in Threads, g \in Futures :
           pc'[s][g] = IF s = w /\ g = f THEN label ELSE pc[s][g]
      /\ HasBlock(f)' <=> HasBlock(f)
  BY MoveStep
<1>2. FrameExcept(f)
  BY <1>1 DEF FrameExcept, TypeOK
<1>3. Carries(f) /\ Carries(f)' /\ HasBlock(f)
  BY <1>1, LabelSets DEF Carries, FutureInv, BlockInv, OnItsWay
<1>4. LockInv(f)'
  <2>1. CASE label = "yield"
    <3>1. mutex'[f] = w
      BY <2>1 DEF TypeOK
    <3>2. \A s \in Threads : pc[s][f] \notin Holding
      BY <2>1, FutureAssumption DEF FutureInv, LockInv
    <3> QED
      BY <1>1, <2>1, <3>1, <3>2, LabelSets DEF LockInv
  <2>2. CASE label = "work_lock"
    BY <1>1, <2>2, LabelSets DEF FutureInv, LockInv
  <2> QED
    BY <2>1, <2>2
<1>5. BlockInv(f)' /\ CarryInv(f)' /\ AwaitInv(f)'
  BY <1>1, <1>3, LabelSets DEF FutureInv, BlockInv, CarryInv, AwaitInv, Outcomes
<1>6. LostInv(f)' /\ PostInv(f)'
  BY <1>3 DEF LostInv, PostInv, OnItsWay
<1> QED
  BY <1>1, <1>2, <1>4, <1>5, <1>6 DEF Step, FutureInv

LEMMA YielderStep ==
  ASSUME Inv, NEW w \in Workers, NEW f \in Futures, pc[w][f] \in {"work_future", "work_lock"},
         mutex[f] = None, outcome[f] # "pending", future_result_yielder_synchronize(w, f)
  PROVE  Step(f)
<1>1. CASE Yield(w, f, outcome[f], "yield") /\ UNCHANGED <<sem, already_waited>>
  BY <1>1, TurnStep DEF future_result_yielder_synchronize, YielderSynchronized, Yield,
     poolVars, interruptVars
<1>2. CASE /\ ~(~yielded[f] /\ HasOwnBlock(f))
           /\ already_waited' = [already_waited EXCEPT ![f] = TRUE]
           /\ Finish(w, f)
           /\ UNCHANGED <<yielded, ran>>
  <2>1. ~Waiting(f)
    BY <1>2 DEF Waiting, HasOwnBlock
  <2> QED
    BY <1>2, <2>1, FinishStep DEF future_result_yielder_synchronize, YielderSynchronized,
       poolVars, interruptVars
<1> QED
  BY <1>1, <1>2 DEF future_result_yielder_synchronize, YielderSynchronized

\* A block that is running counts as run.
YieldInv == \A t \in Threads, f \in Futures : pc[t][f] = "yield" => yielded[f]

LEMMA WorkerStep ==
  ASSUME Inv, YieldInv, NEW w \in Workers, NEW f \in Futures, Work(w, f)
  PROVE  Step(f)
<1> w \in Threads
  BY DEF Threads
<1>1. ASSUME WorkFuture(w, f)
      PROVE  Step(f)
  BY <1>1, YielderStep, TurnStep DEF WorkFuture, poolVars, historyVars
<1>2. ASSUME WorkLock(w, f)
      PROVE  Step(f)
  BY <1>2, YielderStep DEF WorkLock, Inv, WorkInv
<1>3. ASSUME YieldReturn(w, f) \/ YieldRaise(w, f)
      PROVE  Step(f)
  <2>1. ~Waiting(f)
    BY <1>3 DEF YieldReturn, YieldRaise, YieldInv, Waiting
  <2> QED
    BY <1>3, <2>1, FinishStep DEF YieldReturn, YieldRaise, poolVars, historyVars
<1> QED
  BY <1>1, <1>2, <1>3, WorkerPopStep DEF Work

LEMMA YieldInvStep ==
  ASSUME Typed, YieldInv, [Next]_vars
  PROVE  YieldInv'
<1> TypeOK
  BY DEF Typed
<1>1. ASSUME NEW t \in Threads, NEW f \in Futures, NEW label, Goto(t, f, label),
             label # "yield", \A g \in Futures : yielded[g] => yielded'[g]
      PROVE  YieldInv'
  <2>1. \A s \in Threads, g \in Futures :
          pc'[s][g] = IF s = t /\ g = f THEN label ELSE pc[s][g]
    BY <1>1, GotoPc
  <2> QED
    BY <1>1, <2>1 DEF YieldInv
<1>2. ASSUME NEW t \in Threads, NEW f \in Futures, NEW o, NEW label, Yield(t, f, o, label)
      PROVE  YieldInv' /\ \A g \in Futures : yielded[g] => yielded'[g]
  <2>1. \A s \in Threads, g \in Futures :
          pc'[s][g] = IF s = t /\ g = f THEN label ELSE pc[s][g]
    BY <1>2, GotoPc DEF Yield
  <2>2. yielded'[f] /\ \A g \in Futures : yielded[g] => yielded'[g]
    BY <1>2 DEF Yield, TypeOK
  <2> QED
    BY <2>1, <2>2 DEF YieldInv
<1>3. ASSUME NEW t \in Threads, NEW f \in Futures, NEW o \in Outcomes, Synchronize(t, f, o)
      PROVE  YieldInv'
  BY <1>1, <1>2, <1>3 DEF Synchronize, Synchronized, future_queue_push
<1>4. ASSUME NEW t \in Threads, NEW f \in Futures, Call(t, f)
      PROVE  YieldInv'
  BY <1>1, <1>3, <1>4 DEF Call, future_on_success, future_on_failure, Register, LockLabel,
     future_await, CheckWaited, Return, historyVars, Outcomes
<1>5. ASSUME NEW t \in Threads, NEW f \in Futures, Resume(t, f)
      PROVE  YieldInv'
  BY <1>1, <1>3, <1>5 DEF Resume, LockToRegister, ResumePush, future_queue_push, PrepareThread,
     EndCallback, LockToAwait, CheckWaited, AwaitFuture, AwaitSem, Return
<1>6. ASSUME NEW t \in Threads, NEW f \in Futures, Interrupt(t, f)
      PROVE  YieldInv'
  BY <1>1, <1>6 DEF Interrupt, Abort, nogvl_sem_wait_ubf
<1>7. ASSUME NEW w \in Workers, NEW f \in Futures, Work(w, f)
      PROVE  YieldInv'
  BY <1>1, <1>2, <1>7 DEF Work, WorkerPop, WorkFuture, WorkLock, YieldReturn, YieldRaise, Finish,
     future_result_yielder_synchronize, YielderSynchronized, Threads
<1>8. ASSUME UNCHANGED vars \/ \E f \in Futures : Resolve(f)
      PROVE  YieldInv'
  BY <1>8 DEF Resolve, vars, callVars, YieldInv
<1> QED
  BY <1>4, <1>5, <1>6, <1>7, <1>8 DEF Next

LEMMA ResolveStep ==
  ASSUME Inv, NEW f \in Futures, Resolve(f)
  PROVE  Step(f)
<1> TypeOK /\ Distinct /\ FutureInv(f)
  BY DEF Inv, Typed
<1>1. /\ UNCHANGED <<block, mutex, sem, already_waited, yielded, queue, pc, aborted>>
      /\ outcome[f] = "pending"
      /\ \A g \in Futures : g # f => outcome'[g] = outcome[g]
      /\ outcome'[f] \in Outcomes
  BY DEF Resolve, poolVars, callVars, historyVars, TypeOK
<1>2. Distinct' /\ \A g \in Futures : Queued(g)' <=> Queued(g)
  BY <1>1, SameQueued
<1>3. FrameExcept(f)
  BY <1>1, <1>2 DEF FrameExcept
<1>4. /\ Carries(f)' <=> Carries(f)
      /\ OnItsWay(f)' <=> OnItsWay(f)
      /\ HasBlock(f)' <=> HasBlock(f)
  BY <1>1, <1>2 DEF Carries, OnItsWay, HasBlock
<1>5. LockInv(f)' /\ BlockInv(f)' /\ CarryInv(f)'
  BY <1>1, <1>2, <1>4 DEF FutureInv, LockInv, BlockInv, CarryInv
<1>6. AwaitInv(f)' /\ PostInv(f)'
  BY <1>1, <1>4 DEF FutureInv, AwaitInv, PostInv
<1>7. Waiting(f)' => Waiting(f)
  BY <1>1 DEF Waiting, HasBlock, Outcomes
<1>8. LostInv(f)'
  BY <1>1, <1>4, <1>7 DEF FutureInv, LostInv
<1> QED
  BY <1>2, <1>3, <1>5, <1>6, <1>8 DEF Step, FutureInv

-----------------------------------------------------------------------------
(* The theorems.                                                           *)

IInv == Inv /\ YieldInv

LEMMA InitInv == Init => IInv
<1> SUFFICES ASSUME Init PROVE IInv
  OBVIOUS
<1> USE DEF Init
<1>1. Typed /\ WorkInv
  BY InitType DEF Typed
<1>2. Distinct /\ \A f \in Futures : ~Queued(f)
  BY DEF Distinct, Queued
<1>3. YieldInv
  BY DEF YieldInv
<1>4. ASSUME NEW f \in Futures
      PROVE  FutureInv(f)
  <2>1. ~HasBlock(f) /\ ~Carries(f) /\ ~OnItsWay(f) /\ ~Waiting(f)
    BY <1>2, LabelSets DEF HasBlock, Carries, OnItsWay, Waiting
  <2>2. \A o \in Outcomes : LockLabel(o) # "idle"
    BY LabelSets DEF Outcomes
  <2> QED
    BY <2>1, <2>2, FutureAssumption, LabelSets
       DEF FutureInv, LockInv, BlockInv, CarryInv, LostInv, AwaitInv, PostInv
<1> QED
  BY <1>1, <1>2, <1>3, <1>4 DEF IInv, Inv

LEMMA NextInv ==
  ASSUME IInv, [Next]_vars
  PROVE  IInv'
<1>1. Typed' /\ WorkInv' /\ YieldInv'
  BY TypeStep, WorkStep, YieldInvStep DEF IInv, Inv, Typed
<1>2. ASSUME NEW f \in Futures, Step(f)
      PROVE  Distinct' /\ \A g \in Futures : FutureInv(g)'
  BY <1>2, FrameInv DEF Step, IInv, Inv
<1>3. ASSUME UNCHANGED vars
      PROVE  Distinct' /\ \A g \in Futures : FutureInv(g)'
  <2>1. /\ UNCHANGED <<outcome, block, mutex, sem, already_waited, yielded, queue, pc, aborted>>
        /\ Distinct
        /\ \A g \in Futures : FutureInv(g)
    BY <1>3 DEF vars, poolVars, callVars, historyVars, IInv, Inv
  <2>2. Distinct' /\ \A g \in Futures : Queued(g)' <=> Queued(g)
    BY <2>1, SameQueued
  <2>3. ASSUME NEW f \in Futures
        PROVE  FutureInv(f)'
    <3>1. FutureInv(f)
      BY <2>1
    <3>2. /\ Carries(f)' <=> Carries(f)
          /\ HasBlock(f)' <=> HasBlock(f)
          /\ Waiting(f)' <=> Waiting(f)
      BY <2>1 DEF Carries, HasBlock, Waiting
    <3>3. OnItsWay(f)' <=> OnItsWay(f)
      BY <2>2, <3>2 DEF OnItsWay
    <3>4. LockInv(f)' /\ BlockInv(f)' /\ CarryInv(f)'
      BY <2>1, <2>2, <3>1, <3>2, <3>3 DEF FutureInv, LockInv, BlockInv, CarryInv
    <3>5. LostInv(f)' /\ AwaitInv(f)' /\ PostInv(f)'
      BY <2>1, <3>1, <3>2, <3>3 DEF FutureInv, LostInv, AwaitInv, PostInv
    <3> QED
      BY <3>4, <3>5 DEF FutureInv
  <2> QED
    BY <2>2, <2>3
<1>4. ASSUME Next
      PROVE  Distinct' /\ \A g \in Futures : FutureInv(g)'
  <2>1. \E f \in Futures : Step(f)
    BY <1>4, CallStep, ResumeStep, InterruptStep, WorkerStep, ResolveStep DEF Next, IInv
  <2> QED
    BY <1>2, <2>1
<1>5. Distinct' /\ \A g \in Futures : FutureInv(g)'
  BY <1>3, <1>4
<1> QED
  BY <1>1, <1>5 DEF IInv, Inv

LEMMA Invariance == Spec => []IInv
BY InitInv, NextInv, PTL DEF Spec

LEMMA CarriedIffOnItsWay == \A f \in Futures : Carried(f) <=> OnItsWay(f)
BY DEF Carried, Carriers, OnItsWay, Carries

\* A future is handed to the pool once (future.c:227-230, 284-287): two
\* registrations never push it twice, whatever they see of each other's block.
THEOREM HandedOverOnce == Spec => []QueuedOnce
<1>1. IInv => QueuedOnce
  BY DEF IInv, Inv, Distinct, FutureInv, CarryInv, Carries, Carriers, QueuedOnce
<1> QED
  BY <1>1, Invariance, PTL

\* A block that still has to run is carried by a thread or a queue, unless an
\* exception from outside has ended its push (future.c:232-246, 289-303).
THEOREM NothingLost == Spec => []NoLostCallback
<1>1. IInv => NoLostCallback
  BY CarriedIffOnItsWay DEF IInv, Inv, FutureInv, LostInv, NoLostCallback
<1> QED
  BY <1>1, Invariance, PTL

\* A thread asleep on the semaphore has a post or a turn to wait for
\* (future.c:176-188, 235, 292, 347-353), with the same exception.
THEOREM NoAwaiterStranded == Spec => []AwaiterNotStranded
<1>1. IInv => AwaiterNotStranded
  <2>1. "await_sem" \in Awaiting
    BY LabelSets
  <2> QED
    BY <2>1, CarriedIffOnItsWay DEF IInv, Inv, FutureInv, AwaitInv, PostInv, AwaiterNotStranded
<1> QED
  BY <1>1, Invariance, PTL

\* already_waited lets one thread wait (future.c:342-348).
THEOREM OneAwaiter == Spec => []SingleAwaiter
<1>1. IInv => SingleAwaiter
  BY DEF IInv, Inv, FutureInv, AwaitInv, SingleAwaiter
<1> QED
  BY <1>1, Invariance, PTL

-----------------------------------------------------------------------------
(* The refinement.  A registration is Register, or, over a block that another *)
(* registration has stored meanwhile, Fire or nothing; a turn that runs the   *)
(* block is Fire.                                                             *)

RegisteredMap == [f \in Futures |-> Registered(f)]
FiredMap == [f \in Futures |-> Fired(f)]
PromiseVars == <<outcome, RegisteredMap, FiredMap>>

Once == Typed /\ WorkInv /\ CallbackOnce

LEMMA BlockGiven ==
  ASSUME TypeOK, NEW f \in Futures, NEW o \in Outcomes, NEW t \in Threads,
         block' = [block EXCEPT ![f][o] = t]
  PROVE  RegisteredMap' = [RegisteredMap EXCEPT ![f] = @ \cup {o}]
<1>1. \A g \in Futures, q \in Outcomes :
        block'[g][q] = IF g = f /\ q = o THEN t ELSE block[g][q]
  BY DEF TypeOK
<1>2. t # None
  BY FutureAssumption
<1>3. \A g \in Futures : Registered(g)' = IF g = f THEN Registered(f) \cup {o} ELSE Registered(g)
  BY <1>1, <1>2 DEF Registered
<1> QED
  BY <1>3 DEF RegisteredMap

\* Started blocks, as seen through the counters.
LEMMA FiredOnce ==
  ASSUME TypeOK, CallbackOnce, NEW f \in Futures
  PROVE  Fired(f) = IF yielded[f] THEN outcome[f] ELSE "none"
BY DEF CallbackOnce, Fired, Outcomes, TypeOK

LEMMA BlockStarted ==
  ASSUME TypeOK, CallbackOnce, NEW t \in Threads, NEW f \in Futures, NEW o \in Outcomes,
         NEW label, Yield(t, f, o, label), ~yielded[f]
  PROVE  FiredMap' = [FiredMap EXCEPT ![f] = o]
<1>1. \A g \in Futures, q \in Outcomes :
        ran'[g][q] = IF g = f /\ q = o THEN ran[f][o] + 1 ELSE ran[g][q]
  BY DEF Yield, TypeOK
<1>2. \A q \in Outcomes : ran[f][q] = 0
  BY DEF CallbackOnce, TypeOK
<1>3. ASSUME NEW g \in Futures PROVE Fired(g)' = IF g = f THEN o ELSE Fired(g)
  <2>1. CASE g = f
    BY <1>1, <1>2, <2>1 DEF Fired, Outcomes
  <2>2. CASE g # f
    <3>1. \A q \in Outcomes : ran'[g][q] = ran[g][q]
      BY <1>1, <2>2
    <3> QED
      BY <2>2, <3>1 DEF Fired, Outcomes
  <2> QED
    BY <2>1, <2>2
<1> QED
  BY <1>3 DEF FiredMap

LEMMA NothingGiven ==
  ASSUME UNCHANGED <<outcome, block, ran>>
  PROVE  UNCHANGED PromiseVars
BY DEF PromiseVars, RegisteredMap, Registered, FiredMap, Fired

LEMMA SynchronizePromise ==
  ASSUME TypeOK, CallbackOnce, NEW t \in Threads, NEW f \in Futures, NEW o \in Outcomes,
         Synchronize(t, f, o)
  PROVE  P!Next \/ UNCHANGED PromiseVars
<1>1. block' = [block EXCEPT ![f][o] = t] /\ UNCHANGED outcome
  BY DEF Synchronize, Synchronized
<1>2. RegisteredMap' = [RegisteredMap EXCEPT ![f] = @ \cup {o}]
  BY <1>1, BlockGiven
<1>3. RegisteredMap[f] = Registered(f) /\ FiredMap[f] = Fired(f)
  BY DEF RegisteredMap, FiredMap
<1>4. o \in Registered(f) => UNCHANGED RegisteredMap
  BY <1>2, <1>3 DEF RegisteredMap
<1>5. Fired(f) = IF yielded[f] THEN outcome[f] ELSE "none"
  BY FiredOnce
<1>6. CASE outcome[f] # "pending" /\ RunNow(f, o)
  <2>1. Yield(t, f, o, "callback") /\ ~yielded[f] /\ outcome[f] = o
    BY <1>6 DEF Synchronize, Synchronized, RunNow
  <2>2. FiredMap' = [FiredMap EXCEPT ![f] = o]
    BY <2>1, BlockStarted
  <2>3. CASE o \in Registered(f)
    <3>1. P!Fire(f)
      BY <1>1, <1>3, <1>4, <1>5, <2>1, <2>2, <2>3 DEF P!Fire, P!Owed, RegisteredMap, FiredMap
    <3> QED
      BY <3>1 DEF P!Next
  <2>4. CASE o \notin Registered(f)
    <3>1. P!Register(f, o)
      BY <1>1, <1>2, <1>3, <1>5, <2>1, <2>2, <2>4 DEF P!Register, RegisteredMap, FiredMap
    <3> QED
      BY <3>1 DEF P!Next, P!Outcomes, Outcomes
  <2> QED
    BY <2>3, <2>4
<1>7. CASE ~(outcome[f] # "pending" /\ RunNow(f, o))
  <2>1. UNCHANGED <<yielded, ran>>
    BY <1>7 DEF Synchronize, Synchronized
  <2>2. UNCHANGED FiredMap
    BY <2>1 DEF FiredMap, Fired
  <2>3. ~(outcome[f] = o /\ Fired(f) = "none")
    BY <1>5, <1>7 DEF RunNow, Outcomes
  <2>4. CASE o \in Registered(f)
    BY <1>1, <1>4, <2>2, <2>4 DEF PromiseVars
  <2>5. CASE o \notin Registered(f)
    <3>1. FiredMap' = [FiredMap EXCEPT ![f] = IF outcome[f] = o /\ @ = "none" THEN o ELSE @]
      BY <1>3, <2>2, <2>3 DEF FiredMap
    <3>2. P!Register(f, o)
      BY <1>1, <1>2, <1>3, <2>5, <3>1 DEF P!Register, RegisteredMap, FiredMap
    <3> QED
      BY <3>2 DEF P!Next, P!Outcomes, Outcomes
  <2> QED
    BY <2>4, <2>5
<1> QED
  BY <1>6, <1>7

LEMMA YielderPromise ==
  ASSUME TypeOK, CallbackOnce, NEW w \in Workers, NEW f \in Futures, outcome[f] # "pending",
         future_result_yielder_synchronize(w, f)
  PROVE  P!Next \/ UNCHANGED PromiseVars
<1>1. UNCHANGED <<outcome, block>> /\ outcome[f] \in Outcomes /\ w \in Threads
  BY DEF future_result_yielder_synchronize, YielderSynchronized, TypeOK, Threads
<1>2. CASE ~yielded[f] /\ HasOwnBlock(f)
  <2>1. Yield(w, f, outcome[f], "yield")
    BY <1>2 DEF future_result_yielder_synchronize, YielderSynchronized
  <2>2. FiredMap' = [FiredMap EXCEPT ![f] = outcome[f]]
    BY <1>1, <1>2, <2>1, BlockStarted
  <2>3. outcome[f] \in Registered(f) /\ Fired(f) = "none"
    BY <1>1, <1>2, FiredOnce DEF HasOwnBlock, Registered
  <2>4. RegisteredMap[f] = Registered(f) /\ FiredMap[f] = Fired(f) /\ UNCHANGED RegisteredMap
    BY <1>1 DEF RegisteredMap, FiredMap, Registered
  <2>5. P!Fire(f)
    BY <1>1, <2>2, <2>3, <2>4 DEF P!Fire, P!Owed, RegisteredMap, FiredMap
  <2> QED
    BY <2>5 DEF P!Next
<1>3. CASE ~(~yielded[f] /\ HasOwnBlock(f))
  BY <1>1, <1>3, NothingGiven DEF future_result_yielder_synchronize, YielderSynchronized
<1> QED
  BY <1>2, <1>3

LEMMA NextPromise ==
  ASSUME Once, [Next]_vars
  PROVE  P!Next \/ UNCHANGED PromiseVars
<1> TypeOK /\ CallbackOnce /\ WorkInv
  BY DEF Once, Typed
<1>1. ASSUME NEW t \in Threads, NEW f \in Futures, Call(t, f)
      PROVE  P!Next \/ UNCHANGED PromiseVars
  BY <1>1, SynchronizePromise, NothingGiven DEF Call, future_on_success, future_on_failure, Register,
     future_await, CheckWaited, historyVars, Outcomes
<1>2. ASSUME NEW t \in Threads, NEW f \in Futures, Resume(t, f)
      PROVE  P!Next \/ UNCHANGED PromiseVars
  BY <1>2, SynchronizePromise, NothingGiven DEF Resume, LockToRegister, ResumePush, PrepareThread,
     EndCallback, LockToAwait, CheckWaited, AwaitFuture, AwaitSem, historyVars
<1>3. ASSUME NEW t \in Threads, NEW f \in Futures, Interrupt(t, f)
      PROVE  UNCHANGED PromiseVars
  BY <1>3, NothingGiven DEF Interrupt
<1>4. ASSUME NEW w \in Workers, NEW f \in Futures, Work(w, f)
      PROVE  P!Next \/ UNCHANGED PromiseVars
  <2>1. w \in Threads
    BY DEF Threads
  <2> QED
    BY <1>4, <2>1, YielderPromise, NothingGiven DEF Work, WorkerPop, WorkFuture, WorkLock, YieldReturn,
       YieldRaise, WorkInv, historyVars
<1>5. ASSUME NEW f \in Futures, Resolve(f)
      PROVE  P!Next
  <2>1. UNCHANGED <<RegisteredMap, FiredMap>>
    BY <1>5 DEF Resolve, historyVars, RegisteredMap, Registered, FiredMap, Fired
  <2>2. P!Resolve(f)
    BY <1>5, <2>1 DEF Resolve, P!Resolve, P!Outcomes, Outcomes, RegisteredMap, FiredMap
  <2> QED
    BY <2>2 DEF P!Next
<1>6. CASE UNCHANGED vars
  BY <1>6, NothingGiven DEF vars, historyVars
<1> QED
  BY <1>1, <1>2, <1>3, <1>4, <1>5, <1>6 DEF Next

\* Whatever registrations, interrupts, pool threads and driver do (future.c), the
\* blocks of a future are given and run as Promise.tla says: each given once, one
\* run at most, only once it is given and for the outcome the future has.
THEOREM FutureImplementsPromise == Spec => PromiseSpec
<1>1. Init => P!Init
  <2> SUFFICES ASSUME Init PROVE P!Init
    OBVIOUS
  <2>1. ASSUME NEW f \in Futures PROVE Registered(f) = {} /\ Fired(f) = "none"
    <3>1. \A o \in Outcomes : block[f][o] = None /\ ran[f][o] = 0
      BY DEF Init
    <3> QED
      BY <3>1 DEF Registered, Fired, Outcomes
  <2> QED
    BY <2>1 DEF Init, P!Init
<1>2. Once /\ [Next]_vars => [P!Next]_(P!vars)
  BY NextPromise DEF PromiseVars, P!vars, RegisteredMap, FiredMap
<1>3. Init => Once
  BY InitType DEF Init, Once, Typed, CallbackOnce, Outcomes
<1>4. Once /\ [Next]_vars => Once'
  BY TypeStep, WorkStep, OnceStep DEF Once, Typed
<1> QED
  BY <1>1, <1>2, <1>3, <1>4, PTL DEF Spec, PromiseSpec, P!Spec

-----------------------------------------------------------------------------
(* A thread that waits comes back when the future is resolved: there is no     *)
(* post before, and no turn has come to its block.                             *)

Settled == {"await_sem", "await_unwind", "work_lock"} \cup InCallback

ResolvedInv(f) ==
  /\ outcome[f] = "pending" =>
       /\ sem[f] = 0 /\ ~yielded[f]
       /\ \A t \in Threads : pc[t][f] \notin Settled
  /\ yielded[f] => HasOwnBlock(f)

\* Moves to a label that needs the future resolved are made when it is.
LEMMA ResolvedMove ==
  ASSUME TypeOK, NEW t \in Threads, NEW f \in Futures, ResolvedInv(f), NEW label, Goto(t, f, label),
         UNCHANGED <<outcome, block>>,
         outcome[f] = "pending" => label \notin Settled /\ sem'[f] = sem[f] /\ ~yielded'[f],
         yielded'[f] => yielded[f] \/ HasOwnBlock(f)
  PROVE  ResolvedInv(f)'
<1>1. \A s \in Threads : pc'[s][f] = IF s = t THEN label ELSE pc[s][f]
  BY GotoPc
<1> QED
  BY <1>1 DEF ResolvedInv, HasOwnBlock

LEMMA SynchronizeResolved ==
  ASSUME TypeOK, NEW t \in Threads, NEW f \in Futures, NEW o \in Outcomes, ResolvedInv(f),
         Synchronize(t, f, o)
  PROVE  ResolvedInv(f)'
<1>1. block' = [block EXCEPT ![f][o] = t] /\ UNCHANGED outcome /\ t # None
  BY FutureAssumption DEF Synchronize, Synchronized
<1>2. /\ block'[f][o] = t
      /\ \A q \in Outcomes : block[f][q] # None => block'[f][q] # None
  BY <1>1 DEF TypeOK
<1>3. outcome[f] \in Outcomes \/ outcome[f] = "pending"
  BY DEF TypeOK
<1>4. CASE outcome[f] # "pending"
  <2>1. yielded'[f] => yielded[f] \/ outcome[f] = o
    BY <1>4 DEF Synchronize, Synchronized, RunNow
  <2> QED
    BY <1>1, <1>2, <1>3, <1>4, <2>1 DEF ResolvedInv, HasOwnBlock
<1>5. CASE outcome[f] = "pending"
  <2>1. UNCHANGED <<sem, yielded>>
    BY <1>5 DEF Synchronize, Synchronized
  <2>2. PICK label \in {"push", "prepare_thread", "idle"} : Goto(t, f, label)
    BY <1>5 DEF Synchronize, Synchronized, future_queue_push
  <2>3. \A s \in Threads : pc'[s][f] = IF s = t THEN label ELSE pc[s][f]
    BY <2>2, GotoPc
  <2> QED
    BY <1>1, <1>5, <2>1, <2>3 DEF ResolvedInv, Settled, InCallback
<1> QED
  BY <1>4, <1>5

LEMMA CheckWaitedResolved ==
  ASSUME TypeOK, NEW t \in Threads, NEW f \in Futures, ResolvedInv(f), CheckWaited(t, f)
  PROVE  ResolvedInv(f)'
BY ResolvedMove DEF CheckWaited, Return, ResolvedInv, Settled, InCallback

LEMMA CallResolved ==
  ASSUME TypeOK, NEW t \in Threads, NEW f \in Futures, ResolvedInv(f), Call(t, f)
  PROVE  ResolvedInv(f)'
<1>1. ASSUME NEW o \in Outcomes, Register(t, f, o)
      PROVE  ResolvedInv(f)'
  <2>1. CASE Synchronize(t, f, o)
    BY <2>1, SynchronizeResolved
  <2>2. CASE Goto(t, f, LockLabel(o)) /\ UNCHANGED <<outcome, block, mutex, sem, already_waited, yielded,
                                                    poolVars, historyVars>>
    BY <2>2, ResolvedMove DEF LockLabel, ResolvedInv, Settled, InCallback
  <2> QED
    BY <1>1, <2>1, <2>2 DEF Register
<1>2. ASSUME future_await(t, f)
      PROVE  ResolvedInv(f)'
  BY <1>2, CheckWaitedResolved, ResolvedMove DEF future_await, ResolvedInv, Settled, InCallback
<1> QED
  BY <1>1, <1>2 DEF Call, future_on_success, future_on_failure, Outcomes

LEMMA ResumeResolved ==
  ASSUME TypeOK, NEW t \in Threads, NEW f \in Futures, ResolvedInv(f), Resume(t, f)
  PROVE  ResolvedInv(f)'
<1>1. CASE LockToRegister(t, f)
  BY <1>1, SynchronizeResolved DEF LockToRegister
<1>2. CASE LockToAwait(t, f)
  BY <1>2, CheckWaitedResolved DEF LockToAwait
<1>3. CASE AwaitSem(t, f)
  <2>1. outcome[f] # "pending"
    BY <1>3 DEF AwaitSem, ResolvedInv, Settled
  <2> QED
    BY <1>3, <2>1, ResolvedMove DEF AwaitSem, Return
<1>4. CASE AwaitFuture(t, f)
  BY <1>4, ResolvedMove DEF AwaitFuture, Return
<1>5. CASE ResumePush(t, f) \/ PrepareThread(t, f) \/ EndCallback(t, f)
  BY <1>5, ResolvedMove DEF ResumePush, future_queue_push, PrepareThread, EndCallback,
     ResolvedInv, Settled, InCallback
<1> QED
  BY <1>1, <1>2, <1>3, <1>4, <1>5 DEF Resume

LEMMA InterruptResolved ==
  ASSUME TypeOK, NEW t \in Threads, NEW f \in Futures, ResolvedInv(f), Interrupt(t, f)
  PROVE  ResolvedInv(f)'
<1>1. UNCHANGED <<outcome, block, yielded>>
  BY DEF Interrupt
<1>2. CASE Abort(t, f)
  BY <1>1, <1>2, ResolvedMove DEF Abort, ResolvedInv, Settled, InCallback
<1>3. CASE nogvl_sem_wait_ubf(t, f)
  <2>1. outcome[f] # "pending"
    BY <1>3 DEF nogvl_sem_wait_ubf, ResolvedInv, Settled
  <2> QED
    BY <1>1, <1>3, <2>1, ResolvedMove DEF nogvl_sem_wait_ubf
<1> QED
  BY <1>2, <1>3 DEF Interrupt

LEMMA WorkResolved ==
  ASSUME TypeOK, NEW w \in Workers, NEW f \in Futures, ResolvedInv(f), Work(w, f)
  PROVE  ResolvedInv(f)'
<1> w \in Threads
  BY DEF Threads
<1>1. ASSUME outcome[f] # "pending", future_result_yielder_synchronize(w, f)
      PROVE  ResolvedInv(f)'
  <2>1. CASE ~yielded[f] /\ HasOwnBlock(f) /\ Yield(w, f, outcome[f], "yield")
    BY <1>1, <2>1, ResolvedMove DEF future_result_yielder_synchronize, YielderSynchronized, Yield
  <2>2. CASE Finish(w, f) /\ UNCHANGED yielded
    BY <1>1, <2>2, ResolvedMove DEF future_result_yielder_synchronize, YielderSynchronized, Finish
  <2> QED
    BY <1>1, <2>1, <2>2 DEF future_result_yielder_synchronize, YielderSynchronized
<1>2. CASE WorkerPop(w, f)
  BY <1>2, ResolvedMove DEF WorkerPop, ResolvedInv, Settled, InCallback
<1>3. CASE WorkFuture(w, f)
  BY <1>1, <1>3, ResolvedMove DEF WorkFuture
<1>4. ASSUME WorkLock(w, f) \/ YieldReturn(w, f) \/ YieldRaise(w, f)
      PROVE  outcome[f] # "pending"
  BY <1>4 DEF WorkLock, YieldReturn, YieldRaise, ResolvedInv, Settled, InCallback
<1>5. CASE WorkLock(w, f)
  BY <1>1, <1>4, <1>5 DEF WorkLock
<1>6. CASE YieldReturn(w, f) \/ YieldRaise(w, f)
  BY <1>4, <1>6, ResolvedMove DEF YieldReturn, YieldRaise, Finish
<1> QED
  BY <1>2, <1>3, <1>5, <1>6 DEF Work

LEMMA ResolveResolved ==
  ASSUME TypeOK, NEW f \in Futures, ResolvedInv(f), Resolve(f)
  PROVE  ResolvedInv(f)'
<1>1. outcome'[f] # "pending" /\ ~yielded[f] /\ UNCHANGED yielded
  BY DEF Resolve, ResolvedInv, TypeOK, Outcomes
<1> QED
  BY <1>1 DEF ResolvedInv

\* A future that no step is about keeps what it has.
LEMMA OtherResolved ==
  ASSUME NEW f \in Futures, FrameExcept(f), NEW g \in Futures, g # f, ResolvedInv(g)
  PROVE  ResolvedInv(g)'
BY DEF FrameExcept, ResolvedInv, HasOwnBlock

AllResolved == \A f \in Futures : ResolvedInv(f)

LEMMA NextResolved ==
  ASSUME IInv, AllResolved, [Next]_vars
  PROVE  AllResolved'
<1> TypeOK
  BY DEF IInv, Inv, Typed
<1>1. ASSUME NEW f \in Futures, Step(f), ResolvedInv(f)' PROVE AllResolved'
  BY <1>1, OtherResolved DEF AllResolved, Step
<1>2. ASSUME NEW t \in Threads, NEW f \in Futures, Call(t, f) \/ Resume(t, f) \/ Interrupt(t, f)
      PROVE  AllResolved'
  BY <1>1, <1>2, CallStep, ResumeStep, InterruptStep, CallResolved, ResumeResolved, InterruptResolved
     DEF AllResolved, IInv
<1>3. ASSUME NEW w \in Workers, NEW f \in Futures, Work(w, f)
      PROVE  AllResolved'
  BY <1>1, <1>3, WorkerStep, WorkResolved DEF AllResolved, IInv
<1>4. ASSUME NEW f \in Futures, Resolve(f)
      PROVE  AllResolved'
  BY <1>1, <1>4, ResolveStep, ResolveResolved DEF AllResolved, IInv
<1>5. CASE UNCHANGED vars
  BY <1>5 DEF vars, callVars, AllResolved, ResolvedInv, HasOwnBlock
<1> QED
  BY <1>2, <1>3, <1>4, <1>5 DEF Next

LEMMA ResolvedInvariance == Spec => [](IInv /\ AllResolved)
<1>1. Init => AllResolved
  <2> SUFFICES ASSUME Init, NEW f \in Futures PROVE ResolvedInv(f)
    BY DEF AllResolved
  <2>1. sem[f] = 0 /\ ~yielded[f] /\ \A t \in Threads : pc[t][f] = "idle"
    BY DEF Init
  <2> QED
    BY <2>1 DEF ResolvedInv, Settled, InCallback
<1> QED
  BY <1>1, InitInv, NextInv, NextResolved, PTL DEF Spec

\* Where a thread comes back from a wait.
LEMMA WaitReturns ==
  ASSUME TypeOK, [Next]_vars, NEW f \in Futures, NEW t \in awaited'[f] \ awaited[f],
         pc[t][f] \in Awaiting
  PROVE  \/ pc[t][f] = "await_future" /\ outcome[f] # "pending" /\ ~HasBlock(f)
         \/ pc[t][f] = "await_sem" /\ sem[f] > 0
<1>1. ASSUME NEW s \in Threads, NEW g \in Futures, Return(s, g)
      PROVE  f = g /\ t = s
  BY <1>1 DEF Return, TypeOK
<1>2. ~UNCHANGED awaited
  OBVIOUS
<1>3. ASSUME NEW s \in Threads, NEW g \in Futures, CheckWaited(s, g), pc[s][g] \in {"idle", "lock_await"}
      PROVE  FALSE
  BY <1>1, <1>2, <1>3, LabelSets DEF CheckWaited
<1>4. ASSUME NEW s \in Threads, NEW g \in Futures, Call(s, g) PROVE FALSE
  BY <1>2, <1>3, <1>4 DEF Call, future_on_success, future_on_failure, Register, Synchronize, Synchronized,
     future_await, MayCall, historyVars
<1>5. ASSUME NEW s \in Threads, NEW g \in Futures, Resume(s, g)
      PROVE  f = g /\ t = s /\ (AwaitFuture(t, f) \/ AwaitSem(t, f))
  BY <1>1, <1>2, <1>3, <1>5 DEF Resume, LockToRegister, Synchronize, Synchronized, ResumePush,
     PrepareThread, EndCallback, LockToAwait, AwaitFuture, AwaitSem, historyVars
<1>6. ASSUME AwaitFuture(t, f) \/ AwaitSem(t, f)
      PROVE  \/ pc[t][f] = "await_future" /\ outcome[f] # "pending" /\ ~HasBlock(f)
             \/ pc[t][f] = "await_sem" /\ sem[f] > 0
  BY <1>2, <1>6 DEF AwaitFuture, AwaitSem
<1>7. ASSUME NEW g \in Futures, NEW w \in Workers, Work(w, g) PROVE UNCHANGED awaited
  BY <1>7 DEF Work, WorkerPop, WorkFuture, WorkLock, YieldReturn, YieldRaise, historyVars,
     future_result_yielder_synchronize, YielderSynchronized
<1>8. ASSUME NEW g \in Futures, Resolve(g) \/ \E s \in Threads : Interrupt(s, g) PROVE UNCHANGED awaited
  BY <1>8 DEF Resolve, Interrupt, historyVars
<1> QED
  BY <1>2, <1>4, <1>5, <1>6, <1>7, <1>8 DEF Next, vars, historyVars

\* await does not return from a wait before the future is resolved: there is no
\* post, from a registration, a turn or an interrupt, for a future that is still
\* pending (future.c:176-188, 235, 292, 347-353).
THEOREM WaitersComeBackResolved == Spec => WaiterResolved
<1>1. IInv /\ AllResolved /\ [Next]_vars =>
        [\A f \in Futures : \A t \in awaited'[f] \ awaited[f] :
           pc[t][f] \in Awaiting => outcome[f] # "pending"]_vars
  <2> SUFFICES ASSUME IInv, AllResolved, [Next]_vars, NEW f \in Futures,
                      NEW t \in awaited'[f] \ awaited[f], pc[t][f] \in Awaiting
               PROVE  outcome[f] # "pending"
    OBVIOUS
  <2>1. IInv' /\ TypeOK
    BY NextInv DEF IInv, Inv, Typed
  <2>2. t \in Threads
    BY <2>1 DEF IInv, Inv, Typed, TypeOK
  <2> QED
    BY <2>1, <2>2, WaitReturns DEF AllResolved, ResolvedInv, Settled
<1> QED
  BY <1>1, ResolvedInvariance, PTL DEF Spec, WaiterResolved

-----------------------------------------------------------------------------
(* A thread that gave the only block there is: a post comes with that block's  *)
(* start in the thread itself, or with its end in a turn.                      *)

\* The block for the outcome is there, and none for the other.
SoleBlock(f) == outcome[f] \in Outcomes /\ HasOwnBlock(f) /\ block[f][Other(outcome[f])] = None

PostedInv(f) ==
  SoleBlock(f) /\ sem[f] > 0 =>
    /\ yielded[f]
    /\ \A t \in Threads : pc[t][f] \in InCallback => t = block[f][outcome[f]]

LEMMA PostedMove ==
  ASSUME TypeOK, NEW t \in Threads, NEW f \in Futures, PostedInv(f), NEW label, Goto(t, f, label),
         label \notin InCallback, UNCHANGED <<outcome, block, yielded>>,
         sem'[f] > 0 => sem[f] > 0
  PROVE  PostedInv(f)'
<1>1. \A s \in Threads : pc'[s][f] = IF s = t THEN label ELSE pc[s][f]
  BY GotoPc
<1> QED
  BY <1>1 DEF PostedInv, SoleBlock, HasOwnBlock

\* With the mutex free no block of the future is running.
LEMMA NoneRuns ==
  ASSUME NEW f \in Futures, FutureInv(f), mutex[f] = None
  PROVE  \A s \in Threads : pc[s][f] \notin InCallback
BY FutureAssumption DEF FutureInv, LockInv, Holding

LEMMA SynchronizePosted ==
  ASSUME Inv, NEW t \in Threads, NEW f \in Futures, NEW o \in Outcomes, ResolvedInv(f),
         mutex[f] = None, Synchronize(t, f, o),
         pc[t][f] = LockLabel(o) \/ (pc[t][f] = "idle" /\ block[f][o] = None)
  PROVE  PostedInv(f)'
<1> TypeOK /\ FutureInv(f)
  BY DEF Inv, Typed
<1>1. block' = [block EXCEPT ![f][o] = t] /\ UNCHANGED outcome /\ t # None
  BY FutureAssumption DEF Synchronize, Synchronized
<1>2. block'[f][o] = t /\ \A q \in Outcomes : q # o => block'[f][q] = block[f][q]
  BY <1>1 DEF TypeOK
<1> SUFFICES ASSUME SoleBlock(f)'
             PROVE  /\ yielded'[f]
                    /\ \A s \in Threads : pc'[s][f] \in InCallback => s = block'[f][outcome'[f]]
  BY DEF PostedInv
<1>3. outcome[f] = o /\ block[f][Other(o)] = None
  BY <1>1, <1>2, LabelSets DEF SoleBlock, Outcomes
<1>4. block[f][o] = None
  BY <1>3 DEF FutureInv, BlockInv
<1>5. ~yielded[f]
  BY <1>3, <1>4 DEF ResolvedInv, HasOwnBlock
<1>6. Yield(t, f, o, "callback")
  BY <1>3, <1>5 DEF Synchronize, Synchronized, RunNow, Outcomes
<1>7. yielded'[f] /\ \A s \in Threads : s # t => pc'[s][f] = pc[s][f]
  BY <1>6, GotoPc DEF Yield, TypeOK
<1> QED
  BY <1>1, <1>2, <1>3, <1>7, NoneRuns

LEMMA YielderPosted ==
  ASSUME Inv, NEW w \in Workers, NEW f \in Futures, PostedInv(f), mutex[f] = None,
         future_result_yielder_synchronize(w, f)
  PROVE  PostedInv(f)'
<1> TypeOK /\ w \in Threads
  BY DEF Inv, Typed, Threads
<1>1. UNCHANGED <<outcome, block>> /\ \A s \in Threads : pc[s][f] \notin InCallback
  BY NoneRuns DEF future_result_yielder_synchronize, YielderSynchronized, Inv
<1>2. CASE ~yielded[f] /\ UNCHANGED sem
  BY <1>1, <1>2 DEF PostedInv, SoleBlock, HasOwnBlock
<1>3. CASE ~(~yielded[f] /\ HasOwnBlock(f)) /\ Finish(w, f) /\ UNCHANGED yielded
  <2>1. \A s \in Threads : pc'[s][f] \notin InCallback
    BY <1>1, <1>3, GotoPc DEF Finish, InCallback
  <2> QED
    BY <1>1, <1>3, <2>1 DEF PostedInv, SoleBlock, HasOwnBlock
<1> QED
  BY <1>2, <1>3 DEF future_result_yielder_synchronize, YielderSynchronized

LEMMA CallPosted ==
  ASSUME Inv, NEW t \in Threads, NEW f \in Futures, ResolvedInv(f), PostedInv(f), Call(t, f)
  PROVE  PostedInv(f)'
<1> TypeOK
  BY DEF Inv, Typed
<1>1. ASSUME NEW o \in Outcomes, Register(t, f, o)
      PROVE  PostedInv(f)'
  <2>1. CASE mutex[f] = None /\ Synchronize(t, f, o)
    BY <1>1, <2>1, SynchronizePosted DEF Register, MayCall
  <2>2. CASE Goto(t, f, LockLabel(o)) /\ UNCHANGED <<outcome, block, mutex, sem, already_waited, yielded,
                                                    poolVars, historyVars>>
    BY <2>2, PostedMove DEF LockLabel, InCallback
  <2> QED
    BY <1>1, <2>1, <2>2 DEF Register
<1>2. ASSUME future_await(t, f)
      PROVE  PostedInv(f)'
  BY <1>2, PostedMove DEF future_await, CheckWaited, Return, InCallback
<1> QED
  BY <1>1, <1>2 DEF Call, future_on_success, future_on_failure, Outcomes

LEMMA ResumePosted ==
  ASSUME Inv, NEW t \in Threads, NEW f \in Futures, ResolvedInv(f), PostedInv(f), Resume(t, f)
  PROVE  PostedInv(f)'
<1> TypeOK
  BY DEF Inv, Typed
<1>1. CASE LockToRegister(t, f)
  BY <1>1, SynchronizePosted DEF LockToRegister
<1>2. CASE LockToAwait(t, f)
  BY <1>2, PostedMove DEF LockToAwait, CheckWaited, Return, InCallback
<1>3. CASE AwaitSem(t, f)
  BY <1>3, PostedMove DEF AwaitSem, Return, InCallback
<1>4. CASE AwaitFuture(t, f)
  BY <1>4, PostedMove DEF AwaitFuture, Return, InCallback
<1>5. CASE ResumePush(t, f) \/ PrepareThread(t, f) \/ EndCallback(t, f)
  BY <1>5, PostedMove DEF ResumePush, future_queue_push, PrepareThread, EndCallback, InCallback
<1> QED
  BY <1>1, <1>2, <1>3, <1>4, <1>5 DEF Resume

LEMMA WorkPosted ==
  ASSUME Inv, YieldInv, NEW w \in Workers, NEW f \in Futures, PostedInv(f), Work(w, f)
  PROVE  PostedInv(f)'
<1> TypeOK /\ w \in Threads
  BY DEF Inv, Typed, Threads
<1>1. CASE WorkerPop(w, f)
  BY <1>1, PostedMove DEF WorkerPop, InCallback
<1>2. CASE WorkFuture(w, f)
  BY <1>2, YielderPosted, PostedMove DEF WorkFuture, InCallback
<1>3. CASE WorkLock(w, f)
  BY <1>3, YielderPosted DEF WorkLock
<1>4. CASE YieldReturn(w, f) \/ YieldRaise(w, f)
  <2>1. pc[w][f] = "yield" /\ yielded[f] /\ UNCHANGED <<outcome, block, yielded>>
    BY <1>4 DEF YieldReturn, YieldRaise, YieldInv
  <2>2. \A s \in Threads : s # w => pc[s][f] \notin InCallback
    BY <2>1 DEF Inv, FutureInv, LockInv, Holding, InCallback
  <2>3. \A s \in Threads : pc'[s][f] \notin InCallback
    BY <1>4, <2>2, GotoPc DEF YieldReturn, YieldRaise, Finish, InCallback
  <2> QED
    BY <2>1, <2>3 DEF PostedInv
<1> QED
  BY <1>1, <1>2, <1>3, <1>4 DEF Work

AllPosted == \A f \in Futures : PostedInv(f)

LEMMA OtherPosted ==
  ASSUME NEW f \in Futures, FrameExcept(f), NEW g \in Futures, g # f, PostedInv(g)
  PROVE  PostedInv(g)'
BY DEF FrameExcept, PostedInv, SoleBlock, HasOwnBlock

LEMMA NextPosted ==
  ASSUME "await" \notin Interruptible, IInv, AllResolved, AllPosted, [Next]_vars
  PROVE  AllPosted'
<1> TypeOK
  BY DEF IInv, Inv, Typed
<1>1. ASSUME NEW f \in Futures, Step(f), PostedInv(f)' PROVE AllPosted'
  BY <1>1, OtherPosted DEF AllPosted, Step
<1>2. ASSUME NEW t \in Threads, NEW f \in Futures, Interrupt(t, f)
      PROVE  PostedInv(f)'
  BY <1>2, PostedMove DEF Interrupt, Abort, nogvl_sem_wait_ubf, InCallback, AllPosted
<1>3. ASSUME NEW t \in Threads, NEW f \in Futures, Call(t, f) \/ Resume(t, f) \/ Interrupt(t, f)
      PROVE  AllPosted'
  BY <1>1, <1>2, <1>3, CallStep, ResumeStep, InterruptStep, CallPosted, ResumePosted
     DEF AllResolved, AllPosted, IInv
<1>4. ASSUME NEW w \in Workers, NEW f \in Futures, Work(w, f)
      PROVE  AllPosted'
  BY <1>1, <1>4, WorkerStep, WorkPosted DEF AllPosted, IInv
<1>5. ASSUME NEW f \in Futures, Resolve(f)
      PROVE  AllPosted'
  <2>1. sem'[f] = 0
    BY <1>5 DEF Resolve, AllResolved, ResolvedInv
  <2> QED
    BY <1>1, <1>5, <2>1, ResolveStep DEF PostedInv, IInv
<1>6. CASE UNCHANGED vars
  BY <1>6 DEF vars, callVars, AllPosted, PostedInv, SoleBlock, HasOwnBlock
<1> QED
  BY <1>3, <1>4, <1>5, <1>6 DEF Next

\* A thread that gave only the block for the outcome, and waits, comes back after
\* that block's end (future.c:181, 235, 292, 347-353), whatever other threads and
\* the block do.  A signal or a wakeup posts as well, so that a wait which may be
\* interrupted can end before.
THEOREM WaiterSeesItsBlock ==
  ASSUME "await" \notin Interruptible
  PROVE  Spec => AwaitSeesOwnBlock
<1>1. Init => AllPosted
  <2> SUFFICES ASSUME Init, NEW f \in Futures PROVE PostedInv(f)
    BY DEF AllPosted
  <2>1. sem[f] = 0
    BY DEF Init
  <2> QED
    BY <2>1 DEF PostedInv
<1>2. IInv /\ AllResolved /\ AllPosted /\ [Next]_vars => AllPosted'
  BY NextPosted
<1>3. IInv /\ AllResolved /\ AllPosted /\ [Next]_vars =>
        [\A f \in Futures : \A t \in awaited'[f] \ awaited[f] :
           /\ outcome[f] \in Outcomes /\ pc[t][f] \in Awaiting
           /\ block[f][outcome[f]] = t /\ block[f][Other(outcome[f])] = None
           => CallbackDone(f)]_vars
  <2> SUFFICES ASSUME IInv, AllPosted, [Next]_vars, NEW f \in Futures,
                      NEW t \in awaited'[f] \ awaited[f],
                      outcome[f] \in Outcomes, pc[t][f] \in Awaiting,
                      block[f][outcome[f]] = t, block[f][Other(outcome[f])] = None
               PROVE  CallbackDone(f)
    OBVIOUS
  <2>1. IInv' /\ TypeOK
    BY NextInv DEF IInv, Inv, Typed
  <2>2. t \in Threads /\ t # None
    BY <2>1, FutureAssumption DEF IInv, Inv, Typed, TypeOK
  <2>3. SoleBlock(f) /\ HasBlock(f)
    BY <2>2 DEF SoleBlock, HasOwnBlock, HasBlock
  <2>4. pc[t][f] = "await_sem" /\ sem[f] > 0
    BY <2>1, <2>3, WaitReturns
  <2>5. yielded[f] /\ \A s \in Threads : pc[s][f] \in InCallback => s = t
    BY <2>3, <2>4 DEF AllPosted, PostedInv
  <2> QED
    BY <2>4, <2>5 DEF CallbackDone, InCallback
<1> QED
  BY <1>1, <1>2, <1>3, ResolvedInvariance, PTL DEF Spec, AwaitSeesOwnBlock
=============================================================================
