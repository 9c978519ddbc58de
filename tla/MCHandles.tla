----------------------------- MODULE MCHandles -----------------------------
(* Values for the constants of Handles: one object of each class, a client  *)
(* and a thread of a pool.                                                  *)
EXTENDS Handles, TLC

CONSTANTS c1, s1, p1, f1, r1, b1, m1, t1, w1  \* the objects and the threads

\* next_page holds two pages and two CassFutures for a while.
TwoPages == [u \in Kinds |-> IF u \in {"result", "request_result"} THEN 2 ELSE 1]

\* What an interrupted execute_async and a dropped enumerator lose.
LostAsync ==
  [u \in Kinds |-> IF u \in {"executed_async", "request_async", "iterator"} THEN 1 ELSE 0]
LostNone == [u \in Kinds |-> 0]
=============================================================================
