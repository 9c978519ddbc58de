---------------------------- MODULE PagingProofs ----------------------------
(* Theorems about Paging.tla: any number of threads, iterations, pages,     *)
(* failures and interrupts.                                                 *)
EXTENDS Paging, TLAPS, SequenceTheorems

-----------------------------------------------------------------------------
(* The page in hand.  A page that a thread waits for is not in hand, was    *)
(* not freed, and no other thread waits for it.                             *)

Fetching(t) == pc[t] = "future_wait"

FetchInv ==
  /\ result # 0 => result \notin freed /\ requests[result].state = "ok"
  /\ result = 0 => freed = {} /\ \A t \in Threads : pc[t] \in {"idle", "result_await"}
  /\ \A t \in Threads : pc[t] = "result_await" => t = Opener /\ result = 0
  /\ \A t \in Threads : Fetching(t) => req[t] # result /\ req[t] \notin freed
  /\ \A s, t \in Threads : Fetching(s) /\ Fetching(t) /\ req[s] = req[t] => s = t

-----------------------------------------------------------------------------
(* Types.  No request asks past the last page because the paging state is   *)
(* set only from a page with another one after it.                          *)

Typed == TypeOK /\ token < LastPage

Request == [state : {"sent", "encoded", "ok", "error"}, page : 0..LastPage]
Iterator(n) == [result : 1..n, rows : 0..Rows] \cup {None}

LEMMA TypedFacts ==
  ASSUME Typed
  PROVE  /\ requests \in Seq(Request) /\ Len(requests) \in Nat
         /\ \A r \in 1..Len(requests) : requests[r] \in Request
         /\ iterator \in [Iterations -> Iterator(Len(requests))]
<1>1. requests \in Seq(Request) /\ iterator \in [Iterations -> Iterator(Len(requests))]
  BY DEF Typed, TypeOK, Request, Iterator
<1>2. Len(requests) \in Nat /\ \A r \in 1..Len(requests) : requests[r] \in Request
  BY <1>1, ElementOfSeq, LenProperties
<1> QED
  BY <1>1, <1>2

LEMMA InitTyped == Init => Typed
<1> SUFFICES ASSUME Init PROVE Typed
  OBVIOUS
<1> USE PagingAssumption DEF Init
<1>1. Sent \in Request
  BY DEF Sent, Request
<1>2. requests \in Seq(Request) /\ Len(requests) = 1
  BY <1>1
<1> QED
  BY <1>2 DEF Typed, TypeOK, Request

\* A request of the driver gets another state or page.
LEMMA SetRequest ==
  ASSUME Typed, NEW r \in 1..Len(requests), NEW x \in Request,
         requests' = [requests EXCEPT ![r] = x]
  PROVE  requests' \in Seq(Request) /\ Len(requests') = Len(requests)
BY TypedFacts, ExceptSeq

LEMMA NextTyped ==
  ASSUME Typed, FetchInv, [Next]_vars
  PROVE  Typed'
<1> USE PagingAssumption
<1>0. TypeOK /\ token < LastPage /\ requests \in Seq(Request)
  BY TypedFacts DEF Typed
<1>1. ASSUME NEW r \in 1..Len(requests), Driver(r)
      PROVE  Typed'
  <2>1. requests[r] \in Request /\ token \in 0..LastPage
    BY <1>0, TypedFacts DEF TypeOK
  <2>2. CASE Encode(r)
    <3>1. [state |-> "encoded", page |-> token + 1] \in Request
      BY <1>0, <2>1 DEF Request
    <3>2. requests' \in Seq(Request) /\ Len(requests') = Len(requests)
      BY <2>2, <3>1, SetRequest DEF Encode
    <3> QED
      BY <1>0, <2>2, <3>2 DEF Encode, Typed, TypeOK, Request, resultVars, threadVars
  <2>3. CASE Respond(r)
    <3>1. \A x \in {"ok", "error"} : [requests[r] EXCEPT !.state = x] \in Request
      BY <2>1 DEF Request
    <3>2. requests' = [requests EXCEPT ![r] = [requests[r] EXCEPT !.state = "ok"]]
          \/ requests' = [requests EXCEPT ![r] = [requests[r] EXCEPT !.state = "error"]]
      BY <2>3 DEF Respond
    <3>3. requests' \in Seq(Request) /\ Len(requests') = Len(requests)
      BY <3>1, <3>2, SetRequest
    <3>4. errors' \in 0..MaxErrors
      BY <1>0, <2>3 DEF Respond, TypeOK
    <3> QED
      BY <1>0, <2>3, <3>3, <3>4 DEF Respond, Typed, TypeOK, Request, resultVars, threadVars
  <2> QED
    BY <1>1, <2>2, <2>3 DEF Driver
<1>2. ASSUME NEW t \in Threads, NextPage(t)
      PROVE  Typed'
  <2>1. CASE result_await(t)
    <3>1. 1 \in 1..Len(requests)
      BY <1>0 DEF TypeOK
    <3> QED
      BY <1>0, <2>1, <3>1 DEF result_await, Goto, Typed, TypeOK, driverVars
  <2>2. CASE result_next_page(t)
    <3>1. token' \in 0..LastPage /\ token' < LastPage
      BY <1>0, <2>2, TypedFacts DEF result_next_page, Page, TypeOK, Request
    <3> QED
      BY <1>0, <2>2, <3>1 DEF result_next_page, Goto, Typed, TypeOK, driverVars
  <2>3. CASE nogvl_session_execute(t)
    <3>1. Sent \in Request
      BY DEF Sent, Request
    <3>2. requests' \in Seq(Request) /\ Len(requests') = Len(requests) + 1
      BY <1>0, <2>3, <3>1 DEF nogvl_session_execute
    <3>3. req' \in [Threads -> 1..Len(requests')]
      BY <1>0, <2>3, <3>2 DEF nogvl_session_execute, TypeOK
    <3>4. iterator \in [Iterations -> Iterator(Len(requests'))]
      <4>1. Iterator(Len(requests)) \subseteq Iterator(Len(requests'))
        BY <1>0, <3>2 DEF Iterator
      <4> QED
        BY <4>1, TypedFacts
    <3>5. result' \in 0..Len(requests') /\ freed' \subseteq 1..Len(requests')
      BY <1>0, <2>3, <3>2 DEF nogvl_session_execute, TypeOK, resultVars
    <3> QED
      BY <1>0, <2>3, <3>2, <3>3, <3>4, <3>5
         DEF nogvl_session_execute, Goto, Typed, TypeOK, Request, Iterator, resultVars
  <2>4. CASE Receive(t)
    <3>1. req[t] \in 1..Len(requests) /\ result \in 0..Len(requests) /\ Len(requests) \in Nat
      BY <1>0 DEF TypeOK
    <3>2. result # 0
      BY <2>4 DEF Receive, FetchInv
    <3>3. result' \in 0..Len(requests) /\ freed' \subseteq 1..Len(requests)
      <4>1. freed \subseteq 1..Len(requests) /\ result \in 1..Len(requests)
        BY <1>0, <3>1, <3>2 DEF TypeOK
      <4>2. \/ freed' = freed \cup {result} /\ result' = req[t]
            \/ freed' = freed /\ result' = result
        BY <2>4 DEF Receive
      <4>3. result' \in 0..Len(requests)
        BY <3>1, <4>1, <4>2
      <4>4. freed \cup {result} \subseteq 1..Len(requests)
        BY <4>1
      <4> QED
        BY <4>2, <4>3, <4>4
    <3> QED
      BY <1>0, <2>4, <3>3 DEF Receive, Goto, Typed, TypeOK, driverVars
  <2> QED
    BY <1>2, <2>1, <2>2, <2>3, <2>4 DEF NextPage
<1>3. ASSUME NEW t \in Threads, Interrupt(t)
      PROVE  Typed'
  BY <1>0, <1>3 DEF Interrupt, Goto, Typed, TypeOK, driverVars, resultVars
<1>4. ASSUME NEW t \in Threads, NEW i \in Iterations, Each(t, i)
      PROVE  Typed'
  <2>1. iterator' \in [Iterations -> Iterator(Len(requests))]
    <3>1. CASE result_each(t, i)
      BY <1>0, <3>1, TypedFacts DEF result_each, InRuby, TypeOK, Iterator
    <3>2. CASE result_each_body(t, i)
      BY <1>0, <3>2, TypedFacts DEF result_each_body, Iterator
    <3>3. CASE result_each_ensure(t, i)
      BY <3>3, TypedFacts DEF result_each_ensure, Iterator
    <3> QED
      BY <1>4, <3>1, <3>2, <3>3 DEF Each
  <2>2. UNCHANGED <<driverVars, resultVars, threadVars>>
    BY <1>4 DEF Each, result_each, result_each_body, result_each_ensure
  <2> QED
    BY <1>0, <2>1, <2>2 DEF Typed, TypeOK, Iterator, driverVars, resultVars, threadVars
<1>5. CASE UNCHANGED vars
  BY <1>0, <1>5 DEF vars, driverVars, resultVars, threadVars, Typed, TypeOK
<1> QED
  BY <1>1, <1>2, <1>3, <1>4, <1>5 DEF Next

-----------------------------------------------------------------------------
(* Preservation of the second half, and the theorems.                       *)

LEMMA InitFetch == Init => FetchInv
BY PagingAssumption DEF Init, FetchInv, Fetching

LEMMA NextFetch ==
  ASSUME Typed, FetchInv, [Next]_vars
  PROVE  FetchInv'
<1> USE PagingAssumption DEF Typed, TypeOK
<1>1. ASSUME NEW r \in 1..Len(requests), Driver(r)
      PROVE  FetchInv'
  <2>1. /\ UNCHANGED <<resultVars, threadVars>>
        /\ \A q \in 1..Len(requests) : requests[q].state = "ok" => requests'[q].state = "ok"
    <3>1. \A q \in 1..Len(requests) : requests[q] \in Request
      BY TypedFacts DEF Typed
    <3>2. CASE Encode(r)
      BY <3>1, <3>2 DEF Encode
    <3>3. CASE Respond(r)
      <4>1. /\ UNCHANGED <<resultVars, threadVars>>
            /\ \/ requests' = [requests EXCEPT ![r].state = "ok"]
               \/ ~Ended(r) /\ requests' = [requests EXCEPT ![r].state = "error"]
        BY <3>3 DEF Respond
      <4>2. requests \in [1..Len(requests) -> Request]
        BY TypedFacts, LenProperties DEF Typed
      <4>3. ASSUME NEW q \in 1..Len(requests), requests[q].state = "ok"
            PROVE  requests'[q].state = "ok"
        <5>1. CASE q = r
          BY <4>1, <4>2, <4>3, <5>1 DEF Ended, Request
        <5>2. CASE q # r
          BY <4>1, <4>2, <4>3, <5>2
        <5> QED
          BY <5>1, <5>2
      <4> QED
        BY <4>1, <4>3
    <3> QED
      BY <1>1, <3>2, <3>3 DEF Driver
  <2> QED
    BY <2>1 DEF FetchInv, Fetching, resultVars, threadVars
<1>2. ASSUME NEW t \in Threads, NextPage(t)
      PROVE  FetchInv'
  <2>1. CASE result_await(t)
    BY <2>1 DEF result_await, Goto, driverVars, FetchInv, Fetching
  <2>2. CASE result_next_page(t)
    BY <2>2 DEF result_next_page, Goto, driverVars, FetchInv, Fetching
  <2>3. CASE nogvl_session_execute(t)
    <3>1. /\ requests' = Append(requests, Sent)
          /\ Len(requests') = Len(requests) + 1
          /\ \A q \in 1..Len(requests) : requests'[q] = requests[q]
          /\ req' = [req EXCEPT ![t] = Len(requests) + 1]
          /\ pc' = [pc EXCEPT ![t] = "future_wait"]
          /\ pc[t] = "session_execute"
          /\ UNCHANGED <<result, freed>>
      BY <2>3 DEF nogvl_session_execute, Goto, Sent, resultVars
    <3>2. result # 0
      BY <3>1 DEF FetchInv
    <3> QED
      BY <3>1, <3>2 DEF FetchInv, Fetching
  <2>4. CASE Receive(t)
    <3>1. result # 0
      BY <2>4 DEF Receive, FetchInv
    <3> QED
      BY <2>4, <3>1 DEF Receive, Goto, driverVars, FetchInv, Fetching
  <2> QED
    BY <1>2, <2>1, <2>2, <2>3, <2>4 DEF NextPage
<1>3. ASSUME NEW t \in Threads, Interrupt(t)
      PROVE  FetchInv'
  BY <1>3 DEF Interrupt, Goto, driverVars, resultVars, FetchInv, Fetching
<1>4. ASSUME NEW t \in Threads, NEW i \in Iterations, Each(t, i)
      PROVE  FetchInv'
  <2>1. UNCHANGED <<driverVars, resultVars, threadVars>>
    BY <1>4 DEF Each, result_each, result_each_body, result_each_ensure
  <2> QED
    BY <2>1 DEF driverVars, resultVars, threadVars, FetchInv, Fetching
<1>5. CASE UNCHANGED vars
  BY <1>5 DEF vars, driverVars, resultVars, threadVars, FetchInv, Fetching
<1> QED
  BY <1>1, <1>2, <1>3, <1>4, <1>5 DEF Next

LEMMA InductiveInvariant == Spec => [](Typed /\ FetchInv)
<1>1. Init => Typed /\ FetchInv
  BY InitTyped, InitFetch
<1>2. Typed /\ FetchInv /\ [Next]_vars => (Typed /\ FetchInv)'
  BY NextTyped, NextFetch
<1> QED
  BY <1>1, <1>2, PTL DEF Spec

\* Every variable of Paging keeps its type, and no request asks for a page past
\* the last (the check of has_more_pages in result.c:52).
THEOREM TypeCorrect == Spec => []TypeOK
<1>1. Typed => TypeOK
  BY DEF Typed
<1> QED
  BY InductiveInvariant, <1>1, PTL

\* The page in hand is there and was answered without an error, after any
\* failures, interrupts and interleavings of next_page (result.c:68-79).
THEOREM AlwaysReadable == Spec => []PageReadable
<1>1. FetchInv => PageReadable
  BY DEF FetchInv, PageReadable
<1> QED
  BY InductiveInvariant, <1>1, PTL

-----------------------------------------------------------------------------
(* One thread fetches the pages in order.  The paging state it set is still  *)
(* that of the page in hand when the IO thread reads it, so the answer is    *)
(* the page after the one in hand; an abandoned request is never received.   *)

OneThread == Threads = {Opener}

Awaited(t) == pc[t] \in {"result_await", "future_wait"}

OrderInv ==
  \A t \in Threads :
    /\ pc[t] # "idle" => token = CurrentPage
    /\ pc[t] = "result_await" => req[t] = 1
    /\ Awaited(t) /\ requests[req[t]].state \in {"encoded", "ok"} =>
         Page(req[t]) = CurrentPage + 1

\* An answer leaves every page number, and makes no page out of an unread request.
LEMMA RespondFacts ==
  ASSUME Typed, NEW r \in 1..Len(requests), Respond(r), NEW q \in 1..Len(requests)
  PROVE  /\ requests'[q].page = requests[q].page
         /\ requests'[q].state \in {"encoded", "ok"} =>
              requests[q].state \in {"encoded", "ok"}
<1>1. requests \in [1..Len(requests) -> Request]
  BY TypedFacts, LenProperties DEF Typed
<1>2. \/ /\ requests[r].state = "encoded"
         /\ requests' = [requests EXCEPT ![r].state = "ok"]
      \/ requests' = [requests EXCEPT ![r].state = "error"]
  BY DEF Respond
<1>3. CASE q = r
  BY <1>1, <1>2, <1>3 DEF Request
<1>4. CASE q # r
  BY <1>1, <1>2, <1>4
<1> QED
  BY <1>3, <1>4

LEMMA InitOrder == Init => OrderInv
<1> SUFFICES ASSUME Init, NEW t \in Threads
             PROVE  /\ token = 0 /\ CurrentPage = 0 /\ req[t] = 1
                    /\ requests[1].state = "sent"
  BY DEF Init, OrderInv
<1> QED
  BY DEF Init, CurrentPage, Sent

\* The order and what it rests on are kept together: a page received is the
\* next one only because its request was encoded with the state of this one.
LEMMA NextOrder ==
  ASSUME OneThread, Typed, FetchInv, OrderInv, [Next]_vars
  PROVE  OrderInv' /\ CurrentPage' \in {CurrentPage, CurrentPage + 1}
<1> USE PagingAssumption
<1>0. /\ requests \in [1..Len(requests) -> Request] /\ Len(requests) \in Nat
      /\ result \in 0..Len(requests) /\ req \in [Threads -> 1..Len(requests)]
      /\ pc \in [Threads -> {"idle", "result_await", "session_execute", "future_wait"}]
      /\ CurrentPage \in Nat /\ token \in Nat
  <2>0. requests \in [1..Len(requests) -> Request] /\ Len(requests) \in Nat
    BY TypedFacts, LenProperties
  <2>1. result \in 0..Len(requests) /\ token \in Nat
    BY DEF Typed, TypeOK
  <2>2. CurrentPage \in Nat
    BY <2>0, <2>1 DEF CurrentPage, Page, Request
  <2> QED
    BY <2>0, <2>1, <2>2 DEF Typed, TypeOK
<1>1. ASSUME NEW r \in 1..Len(requests), Driver(r)
      PROVE  OrderInv' /\ CurrentPage' = CurrentPage
  <2>1. UNCHANGED <<token, result, pc, req>>
    BY <1>1 DEF Driver, Encode, Respond, resultVars, threadVars
  <2>2. ASSUME NEW q \in 1..Len(requests), requests[q].state = "ok"
        PROVE  requests'[q].page = requests[q].page
    <3>1. CASE Encode(r)
      BY <1>0, <2>2, <3>1 DEF Encode, Request
    <3>2. CASE Respond(r)
      BY <3>2, RespondFacts
    <3> QED
      BY <1>1, <3>1, <3>2 DEF Driver
  <2>3. CurrentPage' = CurrentPage
    <3>1. result # 0 => result \in 1..Len(requests) /\ requests[result].state = "ok"
      BY <1>0 DEF FetchInv
    <3> QED
      BY <2>1, <2>2, <3>1 DEF CurrentPage, Page
  <2>4. ASSUME NEW t \in Threads, Awaited(t), requests'[req[t]].state \in {"encoded", "ok"}
        PROVE  requests'[req[t]].page = CurrentPage + 1
    <3>1. req[t] \in 1..Len(requests) /\ pc[t] # "idle"
      BY <1>0, <2>4 DEF Awaited
    <3>2. CASE Encode(r)
      <4>1. CASE req[t] = r
        BY <1>0, <3>1, <3>2, <4>1 DEF Encode, OrderInv
      <4>2. CASE req[t] # r
        BY <1>0, <2>4, <3>1, <3>2, <4>2 DEF Encode, OrderInv, Page
      <4> QED
        BY <4>1, <4>2
    <3>3. CASE Respond(r)
      BY <2>4, <3>1, <3>3, RespondFacts DEF OrderInv, Page
    <3> QED
      BY <1>1, <3>2, <3>3 DEF Driver
  <2> QED
    BY <2>1, <2>3, <2>4 DEF OrderInv, Awaited, Page
<1>2. ASSUME NEW t \in Threads, NextPage(t)
      PROVE  OrderInv' /\ CurrentPage' \in {CurrentPage, CurrentPage + 1}
  <2>0. t = Opener /\ \A s \in Threads : s = t
    BY DEF OneThread
  <2>1. CASE result_await(t)
    <3>1. CurrentPage = 0 /\ (requests[1].state = "ok" => Page(1) = 1)
      BY <2>1 DEF result_await, FetchInv, OrderInv, Awaited, CurrentPage, Page
    <3>2. CurrentPage' \in {0, 1}
      BY <2>1, <3>1 DEF result_await, CurrentPage, Page, driverVars
    <3>3. pc'[t] = "idle"
      BY <1>0, <2>1 DEF result_await, Goto
    <3> QED
      BY <2>0, <3>1, <3>2, <3>3 DEF OrderInv, Awaited
  <2>2. CASE result_next_page(t)
    <3>1. pc'[t] = "session_execute" /\ CurrentPage' = CurrentPage /\ token' = CurrentPage
      BY <1>0, <2>2 DEF result_next_page, Goto, CurrentPage, Page, driverVars
    <3> QED
      BY <2>0, <3>1 DEF OrderInv, Awaited
  <2>3. CASE nogvl_session_execute(t)
    <3>1. /\ \A q \in 1..Len(requests) : requests'[q] = requests[q]
          /\ requests'[req'[t]].state = "sent"
          /\ pc'[t] = "future_wait" /\ pc[t] # "idle"
          /\ token' = token /\ result' = result
      <4>1. requests' = Append(requests, Sent) /\ Len(requests') = Len(requests) + 1
        BY <2>3, TypedFacts DEF nogvl_session_execute, Typed, TypeOK
      <4>2. req'[t] = Len(requests) + 1
        BY <1>0, <2>3, <4>1 DEF nogvl_session_execute
      <4> QED
        BY <1>0, <2>3, <4>1, <4>2, TypedFacts
           DEF nogvl_session_execute, Goto, Sent, resultVars
    <3>2. CurrentPage' = CurrentPage
      BY <1>0, <3>1 DEF CurrentPage, Page
    <3> QED
      BY <2>0, <3>1, <3>2 DEF OrderInv
  <2>4. CASE Receive(t)
    <3>1. /\ pc'[t] = "idle" /\ requests' = requests
          /\ \/ result' = result
             \/ result' = req[t] /\ requests[req[t]].state = "ok" /\ Awaited(t)
      BY <1>0, <2>4 DEF Receive, Goto, driverVars, Awaited
    <3>2. CurrentPage' \in {CurrentPage, CurrentPage + 1}
      BY <1>0, <3>1 DEF OrderInv, CurrentPage, Page
    <3> QED
      BY <2>0, <3>1, <3>2 DEF OrderInv, Awaited
  <2> QED
    BY <1>2, <2>1, <2>2, <2>3, <2>4 DEF NextPage
<1>3. ASSUME NEW t \in Threads, Interrupt(t)
      PROVE  OrderInv' /\ CurrentPage' = CurrentPage
  <2>1. pc'[t] = "idle" /\ UNCHANGED <<requests, result>>
    BY <1>0, <1>3 DEF Interrupt, Goto, driverVars, resultVars
  <2>2. \A s \in Threads : s = t
    BY DEF OneThread
  <2> QED
    BY <2>1, <2>2 DEF OrderInv, Awaited, CurrentPage, Page
<1>4. ASSUME UNCHANGED <<driverVars, resultVars, threadVars>>
      PROVE  OrderInv' /\ CurrentPage' = CurrentPage
  BY <1>4 DEF OrderInv, Awaited, CurrentPage, Page, driverVars, resultVars, threadVars
<1>5. ASSUME NEW t \in Threads, NEW i \in Iterations, Each(t, i)
      PROVE  UNCHANGED <<driverVars, resultVars, threadVars>>
  BY <1>5 DEF Each, result_each, result_each_body, result_each_ensure
<1> QED
  BY <1>1, <1>2, <1>3, <1>4, <1>5 DEF Next, vars

\* One thread gets the pages one after the other, whatever requests failed or
\* were abandoned, for any number of pages and any delay before the IO thread
\* reads the statement (result.c:59-79).
THEOREM InOrder ==
  ASSUME OneThread
  PROVE  Spec => PagesInOrder
<1>1. Init => Typed /\ FetchInv /\ OrderInv
  BY InitTyped, InitFetch, InitOrder
<1>2. Typed /\ FetchInv /\ OrderInv /\ [Next]_vars =>
        (Typed /\ FetchInv /\ OrderInv)'
  BY NextTyped, NextFetch, NextOrder
<1>3. Typed /\ FetchInv /\ OrderInv /\ [Next]_vars =>
        [CurrentPage' \in {CurrentPage, CurrentPage + 1}]_vars
  BY NextOrder
<1> QED
  BY <1>1, <1>2, <1>3, PTL DEF Spec, PagesInOrder

-----------------------------------------------------------------------------
(* One thread that is not interrupted leaves no request behind: the only one *)
(* that has not ended is the one it waits for.                               *)

NoneLeft ==
  interrupts > 0 \/
    \A r \in 1..Len(requests) : Ended(r) \/ \E t \in Threads : Awaited(t) /\ req[t] = r

\* A step of the driver ends requests and reopens none.
LEMMA DriverEnds ==
  ASSUME Typed, NEW r \in 1..Len(requests), Driver(r),
         NEW q \in 1..Len(requests), Ended(q)
  PROVE  Ended(q)'
<1>1. requests \in [1..Len(requests) -> Request]
  BY TypedFacts, LenProperties
<1>2. CASE Encode(r)
  BY <1>1, <1>2 DEF Encode, Ended
<1>3. CASE Respond(r)
  <2>1. \/ requests' = [requests EXCEPT ![r].state = "ok"]
        \/ requests' = [requests EXCEPT ![r].state = "error"]
    BY <1>3 DEF Respond
  <2>2. CASE q = r
    BY <1>1, <2>1, <2>2 DEF Ended, Request
  <2>3. CASE q # r
    BY <1>1, <2>1, <2>3 DEF Ended
  <2> QED
    BY <2>2, <2>3
<1> QED
  BY <1>2, <1>3 DEF Driver

LEMMA InitLeft == Init => NoneLeft
BY PagingAssumption DEF Init, NoneLeft, Awaited, Sent

LEMMA NextLeft ==
  ASSUME OneThread, Typed, OrderInv, NoneLeft, [Next]_vars
  PROVE  NoneLeft'
<1> USE PagingAssumption
<1>0. /\ requests \in Seq(Request) /\ Len(requests) \in Nat
      /\ req \in [Threads -> 1..Len(requests)] /\ interrupts \in Nat
      /\ pc \in [Threads -> {"idle", "result_await", "session_execute", "future_wait"}]
  BY TypedFacts DEF Typed, TypeOK
<1>1. ASSUME NEW r \in 1..Len(requests), Driver(r)
      PROVE  NoneLeft'
  <2>1. UNCHANGED <<pc, req, interrupts>>
    BY <1>1 DEF Driver, Encode, Respond, threadVars
  <2>2. Len(requests') = Len(requests)
    BY <1>0, <1>1 DEF Driver, Encode, Respond
  <2>3. \A q \in 1..Len(requests) : Ended(q) => Ended(q)'
    BY <1>1, DriverEnds
  <2> QED
    BY <2>1, <2>2, <2>3 DEF NoneLeft, Awaited
<1>2. ASSUME NEW t \in Threads, NextPage(t)
      PROVE  NoneLeft'
  <2>0. t = Opener /\ \A s \in Threads : s = t
    BY DEF OneThread
  <2>1. CASE result_await(t)
    <3>1. req[t] = 1 /\ Ended(1) /\ UNCHANGED <<requests, interrupts>>
      BY <2>1 DEF result_await, OrderInv, driverVars
    <3> QED
      BY <2>0, <3>1 DEF NoneLeft, Ended
  <2>2. CASE result_next_page(t)
    BY <2>0, <2>2 DEF result_next_page, NoneLeft, Awaited, Ended, driverVars
  <2>3. CASE nogvl_session_execute(t)
    <3>1. /\ Len(requests') = Len(requests) + 1
          /\ \A q \in 1..Len(requests) : requests'[q] = requests[q]
          /\ interrupts' = interrupts
      BY <1>0, <2>3 DEF nogvl_session_execute, Sent
    <3>2. pc'[t] = "future_wait" /\ req'[t] = Len(requests) + 1
      BY <1>0, <2>3, <3>1 DEF nogvl_session_execute, Goto
    <3>3. interrupts > 0 \/ \A q \in 1..Len(requests) : Ended(q)
      BY <2>0, <2>3 DEF NoneLeft, Awaited, nogvl_session_execute
    <3> QED
      BY <1>0, <3>1, <3>2, <3>3 DEF NoneLeft, Awaited, Ended
  <2>4. CASE Receive(t)
    <3>1. Ended(req[t]) /\ UNCHANGED <<requests, interrupts>>
      BY <2>4 DEF Receive, Ended, driverVars
    <3> QED
      BY <2>0, <3>1 DEF NoneLeft, Ended
  <2> QED
    BY <1>2, <2>1, <2>2, <2>3, <2>4 DEF NextPage
<1>3. ASSUME NEW t \in Threads, Interrupt(t)
      PROVE  NoneLeft'
  BY <1>0, <1>3 DEF Interrupt, NoneLeft
<1>4. ASSUME UNCHANGED <<driverVars, resultVars, threadVars>>
      PROVE  NoneLeft'
  BY <1>4 DEF NoneLeft, Awaited, Ended, driverVars, threadVars
<1>5. ASSUME NEW t \in Threads, NEW i \in Iterations, Each(t, i)
      PROVE  UNCHANGED <<driverVars, resultVars, threadVars>>
  BY <1>5 DEF Each, result_each, result_each_body, result_each_ensure
<1> QED
  BY <1>1, <1>2, <1>3, <1>4, <1>5 DEF Next, vars

\* What the comment at result.c:59-61 says of one thread: it sets the paging state
\* only while no request made with the statement is still to be answered, unless an
\* exception from outside left one behind.
THEOREM StateSetAtRest ==
  ASSUME OneThread
  PROVE  Spec => NoneInFlight
<1>1. Init => Typed /\ FetchInv /\ OrderInv /\ NoneLeft
  BY InitTyped, InitFetch, InitOrder, InitLeft
<1>2. Typed /\ FetchInv /\ OrderInv /\ NoneLeft /\ [Next]_vars =>
        (Typed /\ FetchInv /\ OrderInv /\ NoneLeft)'
  BY NextTyped, NextFetch, NextOrder, NextLeft
<1>3. NoneLeft =>
        [(\E t \in Threads : pc[t] = "idle" /\ pc'[t] = "session_execute") =>
           interrupts > 0 \/ \A r \in 1..Len(requests) : Ended(r)]_vars
  BY DEF OneThread, NoneLeft, Awaited
<1> QED
  BY <1>1, <1>2, <1>3, PTL DEF Spec, NoneInFlight
=============================================================================
