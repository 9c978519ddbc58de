------------------------------ MODULE MCFuture ------------------------------
(* Values for the constants of Future: two futures, and what user code calls. *)
EXTENDS Future, TLC

CONSTANTS p, e, c1, c2  \* the futures and the clients

\* Both futures in the pool of execute_async, or one in each.
OnePool == [f \in Futures |-> "execute_async"]
TwoPools == [f \in Futures |-> IF f = p THEN "prepare_async" ELSE "execute_async"]

\* Both clients call any method of e, and register one block with p.
CoreCalls == ({c1, c2} \X Methods \X {e}) \cup ({c1, c2} \X {"on_success"} \X {p})

\* One client calls any method of p, the other awaits p and registers with e.
LiveCalls == ({c1} \X Methods \X {p}) \cup {<<c2, "await", p>>, <<c2, "on_success", e>>}

\* The callback of p registers with e and waits for it.
NestedCalls == ({c1} \X Methods \X {p, e}) \cup ({p} \X Methods \X {e})

Symmetry == Permutations({c1, c2})
=============================================================================
