------------------------------- MODULE Paging -------------------------------
(***************************************************************************)
(* One Ilios::Cassandra::Result (ext/ilios/result.c): the first page,      *)
(* which Session#execute waits for, the pages that next_page loads after   *)
(* it with the CassStatement the result was executed with, and the         *)
(* iterations of each, as blocks and as external enumerators.              *)
(*                                                                         *)
(* A thread gives up the VM lock where it hands a request to the driver    *)
(* and where it waits for the answer; an exception from outside is taken   *)
(* there too.  The driver's IO thread reads the statement some time after  *)
(* the request is made.                                                    *)
(***************************************************************************)
EXTENDS Naturals, Sequences

CONSTANTS
  Threads,
  Opener,         \* the thread in Session#execute
  Iterations,     \* calls of each and their enumerators
  None,
  LastPage,       \* the pages of the query are 1..LastPage
  Rows,           \* rows in each page
  MaxRequests,    \* bound on the requests
  MaxErrors,      \* bound on the requests that fail
  MaxInterrupts   \* bound on the exceptions from outside

ASSUME PagingAssumption ==
  /\ Opener \in Threads
  /\ LastPage \in Nat \ {0}
  /\ Rows \in Nat
  /\ MaxRequests \in Nat /\ MaxErrors \in Nat /\ MaxInterrupts \in Nat

VARIABLES
  requests,       \* the CassFutures; a request's CassResult has its number
  token,          \* the statement's paging state: after which page to go on
  result,         \* the CassResult of the Result, 0 before the first
  freed,          \* the CassResults that were freed
  pc,
  req,            \* the request a thread waits for
  iterator,       \* iterator[i]: the CassResult it walks and the rows it gave
  errors, interrupts

driverVars == <<requests, errors>>
resultVars == <<token, result, freed>>
threadVars == <<pc, req, interrupts>>
vars == <<driverVars, resultVars, threadVars, iterator>>

Sent == [state |-> "sent", page |-> 0]

Init ==
  /\ requests = <<Sent>>
  /\ token = 0
  /\ result = 0
  /\ freed = {}
  /\ pc = [t \in Threads |-> IF t = Opener THEN "result_await" ELSE "idle"]
  /\ req = [t \in Threads |-> 1]
  /\ iterator = [i \in Iterations |-> None]
  /\ errors = 0
  /\ interrupts = 0

Page(r) == requests[r].page
Ended(r) == requests[r].state \in {"ok", "error"}
Goto(t, label) == pc' = [pc EXCEPT ![t] = label]

-----------------------------------------------------------------------------
(* The driver.                                                             *)

\* The IO thread encodes the request with the paging state it finds.
Encode(r) ==
  /\ requests[r].state = "sent"
  /\ requests' = [requests EXCEPT ![r] = [state |-> "encoded", page |-> token + 1]]
  /\ UNCHANGED <<errors, resultVars, threadVars, iterator>>

\* The request ends with its page or with an error.
Respond(r) ==
  /\ \/ /\ requests[r].state = "encoded"
        /\ requests' = [requests EXCEPT ![r].state = "ok"]
        /\ UNCHANGED errors
     \/ /\ ~Ended(r)
        /\ errors < MaxErrors
        /\ errors' = errors + 1
        /\ requests' = [requests EXCEPT ![r].state = "error"]
  /\ UNCHANGED <<resultVars, threadVars, iterator>>

-----------------------------------------------------------------------------
(* The first page, in Session#execute.                                     *)

\* On an error the Result is dropped.
result_await(t) ==
  /\ pc[t] = "result_await"
  /\ Ended(1)
  /\ result' = IF requests[1].state = "ok" THEN 1 ELSE 0
  /\ Goto(t, "idle")
  /\ UNCHANGED <<driverVars, token, freed, req, interrupts, iterator>>

-----------------------------------------------------------------------------
(* Result#next_page.                                                       *)

\* Mutants: the last page is not noticed; the paging state is not set.
NextPageAlways(t) ==
  /\ pc[t] = "idle"
  /\ result # 0
  /\ Len(requests) < MaxRequests
  /\ token' = Page(result)
  /\ Goto(t, "session_execute")
  /\ UNCHANGED <<driverVars, result, freed, req, interrupts, iterator>>
NextPageUnset(t) ==
  /\ pc[t] = "idle"
  /\ result # 0
  /\ Page(result) < LastPage
  /\ Len(requests) < MaxRequests
  /\ Goto(t, "session_execute")
  /\ UNCHANGED <<driverVars, resultVars, req, interrupts, iterator>>

\* On the last page there is nothing to do.
result_next_page(t) ==
  /\ pc[t] = "idle"
  /\ result # 0
  /\ Page(result) < LastPage
  /\ Len(requests) < MaxRequests
  /\ token' = Page(result)
  /\ Goto(t, "session_execute")
  /\ UNCHANGED <<driverVars, result, freed, req, interrupts, iterator>>

\* Mutant: the thread does not wait for the answer.
ExecuteNoWait(t) ==
  /\ pc[t] = "session_execute"
  /\ requests' = Append(requests, Sent)
  /\ req' = [req EXCEPT ![t] = Len(requests')]
  /\ Goto(t, "idle")
  /\ UNCHANGED <<errors, resultVars, interrupts, iterator>>

nogvl_session_execute(t) ==
  /\ pc[t] = "session_execute"
  /\ requests' = Append(requests, Sent)
  /\ req' = [req EXCEPT ![t] = Len(requests')]
  /\ Goto(t, "future_wait")
  /\ UNCHANGED <<errors, resultVars, interrupts, iterator>>

\* Mutants: the old page is freed before the error is looked at; the error is
\* not looked at.
ReceiveFreeFirst(t) ==
  /\ pc[t] = "future_wait"
  /\ Ended(req[t])
  /\ freed' = freed \cup {result}
  /\ result' = IF requests[req[t]].state = "ok" THEN req[t] ELSE result
  /\ Goto(t, "idle")
  /\ UNCHANGED <<driverVars, token, req, interrupts, iterator>>
ReceiveAny(t) ==
  /\ pc[t] = "future_wait"
  /\ Ended(req[t])
  /\ freed' = freed \cup {result}
  /\ result' = req[t]
  /\ Goto(t, "idle")
  /\ UNCHANGED <<driverVars, token, req, interrupts, iterator>>

\* The wait ends: the page takes the place of the old one, or next_page raises.
Receive(t) ==
  /\ pc[t] = "future_wait"
  /\ \/ /\ requests[req[t]].state = "ok"
        /\ freed' = freed \cup {result}
        /\ result' = req[t]
     \/ /\ requests[req[t]].state = "error"
        /\ UNCHANGED <<freed, result>>
  /\ Goto(t, "idle")
  /\ UNCHANGED <<driverVars, token, req, interrupts, iterator>>

\* An exception from outside, before the request is made, once it is made, or
\* when the wait is over.
Interrupt(t) ==
  /\ interrupts < MaxInterrupts
  /\ interrupts' = interrupts + 1
  /\ pc[t] # "idle"
  /\ Goto(t, "idle")
  /\ UNCHANGED <<driverVars, resultVars, req, iterator>>

-----------------------------------------------------------------------------
(* Result#each.  A block may leave early, an enumerator be put aside.      *)

InRuby(t) == pc[t] = "idle" /\ result # 0

result_each(t, i) ==
  /\ InRuby(t)
  /\ iterator[i] = None
  /\ iterator' = [iterator EXCEPT ![i] = [result |-> result, rows |-> 0]]
  /\ UNCHANGED <<driverVars, resultVars, threadVars>>

\* rb_yield of the next row.
result_each_body(t, i) ==
  /\ InRuby(t)
  /\ iterator[i] # None
  /\ iterator[i].rows < Rows
  /\ iterator' = [iterator EXCEPT ![i].rows = @ + 1]
  /\ UNCHANGED <<driverVars, resultVars, threadVars>>

result_each_ensure(t, i) ==
  /\ InRuby(t)
  /\ iterator[i] # None
  /\ iterator' = [iterator EXCEPT ![i] = None]
  /\ UNCHANGED <<driverVars, resultVars, threadVars>>

-----------------------------------------------------------------------------

Driver(r) == Encode(r) \/ Respond(r)
NextPage(t) == result_await(t) \/ result_next_page(t) \/ nogvl_session_execute(t) \/ Receive(t)
Each(t, i) == result_each(t, i) \/ result_each_body(t, i) \/ result_each_ensure(t, i)

Next ==
  \/ \E r \in 1..Len(requests) : Driver(r)
  \/ \E t \in Threads : NextPage(t) \/ Interrupt(t) \/ \E i \in Iterations : Each(t, i)

Spec == Init /\ [][Next]_vars

\* The driver ends every request, and the opener goes on while there are pages,
\* as in README.md's loop.
Fairness ==
  /\ \A r \in 1..MaxRequests : WF_vars(r \in 1..Len(requests) /\ Driver(r))
  /\ \A t \in Threads :
       WF_vars(result_await(t) \/ nogvl_session_execute(t) \/ Receive(t))
  /\ WF_vars(result_next_page(Opener))

FairSpec == Spec /\ Fairness

-----------------------------------------------------------------------------
(* Properties.                                                             *)

\* Every variable keeps its type, and no request asks for a page past the last.
TypeOK ==
  /\ requests \in Seq([state : {"sent", "encoded", "ok", "error"}, page : 0..LastPage])
  /\ token \in 0..LastPage
  /\ result \in 0..Len(requests)
  /\ freed \subseteq 1..Len(requests)
  /\ pc \in [Threads -> {"idle", "result_await", "session_execute", "future_wait"}]
  /\ req \in [Threads -> 1..Len(requests)]
  /\ iterator \in [Iterations -> [result : 1..Len(requests), rows : 0..Rows] \cup {None}]
  /\ errors \in 0..MaxErrors /\ interrupts \in 0..MaxInterrupts

CurrentPage == IF result = 0 THEN 0 ELSE Page(result)

\* The page in hand is the next one or the same, whatever requests failed or
\* were abandoned in between (result.c:62, 68-79).
PagesInOrder == [][CurrentPage' \in {CurrentPage, CurrentPage + 1}]_vars

\* The page in hand can be read: after a failed next_page it is the page fetched
\* before it (test_result.rb:144).
PageReadable ==
  result # 0 => result \notin freed /\ requests[result].state = "ok"

\* A user who goes on until next_page returns nil gets to the last page, past
\* the requests that fail (the loop of README.md).
LastPageReached == result # 0 ~> result # 0 /\ Page(result) = LastPage

\* The paging state is set only when no request made with the statement is
\* still to be answered, as the comment at result.c:59-61 says: so it is unless
\* an exception from outside left a request behind.
NoneInFlight ==
  [][(\E t \in Threads : pc[t] = "idle" /\ pc'[t] = "session_execute") =>
       interrupts > 0 \/ \A r \in 1..Len(requests) : Ended(r)]_vars
=============================================================================
