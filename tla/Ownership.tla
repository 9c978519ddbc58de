----------------------------- MODULE Ownership -----------------------------
(* What becomes of a handle of the driver: it has one owner at a time, which *)
(* frees it once, or it is lost with a call that an exception cut short      *)
(* (ilios.h:66-78, statement.c:204-207).                                     *)

CONSTANTS
  Calls, Objects,  \* the owners
  Givers, Takers   \* the objects that a handle may pass from, and to

VARIABLES
  owns,            \* the pairs of an owner and a handle
  existing,        \* the handles that are not freed
  lost             \* those that a call forgot

Owned(R) == {p[2] : p \in R}

Init == owns = {} /\ existing = {} /\ lost = {}

\* From a call to the object it makes, or from a giver to a taker.
MayPass(x, y) == (x \in Calls /\ y \in Objects) \/ (x \in Givers /\ y \in Takers)

\* A handle that is new to its owner is fresh or comes from the one before.
Next ==
  LET before == owns
      after == owns'
  IN
  /\ \A p \in after \ before :
       p[2] \in existing => \E q \in before : q[2] = p[2] /\ MayPass(q[1], p[1])
  /\ \A p, q \in after : p[2] = q[2] => p = q
  /\ existing' = Owned(after) \cup lost'
  /\ lost \subseteq lost'
  /\ \A h \in lost' \ lost : h \in existing => \E q \in before : q[2] = h /\ q[1] \in Calls

Spec == Init /\ [][Next]_<<owns, existing, lost>>
=============================================================================
