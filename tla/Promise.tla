------------------------------ MODULE Promise ------------------------------
(***************************************************************************)
(* What Ilios::Cassandra::Future promises, with no thread in sight.  A     *)
(* future resolves once, to "ok" or to "error".  A block may be registered *)
(* for either outcome, before or after the future resolves.  At most one   *)
(* block is ever run, only for the outcome the future has, and a block     *)
(* that is owed a run gets it.                                             *)
(*                                                                         *)
(* Future.tla implements this specification.                               *)
(***************************************************************************)
CONSTANT Futures

Outcomes == {"ok", "error"}

VARIABLES
  outcome,     \* "pending", then the outcome the request ended with
  registered,  \* the outcomes for which a block has been given
  fired        \* the outcome whose block has been started, or "none"

vars == <<outcome, registered, fired>>

Init ==
  /\ outcome = [f \in Futures |-> "pending"]
  /\ registered = [f \in Futures |-> {}]
  /\ fired = [f \in Futures |-> "none"]

\* The block for the outcome has been given and no block has been started.
Owed(f) == outcome[f] \in registered[f] /\ fired[f] = "none"

Resolve(f) ==
  /\ outcome[f] = "pending"
  /\ \E o \in Outcomes : outcome' = [outcome EXCEPT ![f] = o]
  /\ UNCHANGED <<registered, fired>>

\* A block given while the future is pending waits; one given for the outcome
\* that the future already has is run at once, unless a block was run before.
Register(f, o) ==
  /\ o \notin registered[f]
  /\ registered' = [registered EXCEPT ![f] = @ \cup {o}]
  /\ fired' = [fired EXCEPT ![f] = IF outcome[f] = o /\ @ = "none" THEN o ELSE @]
  /\ UNCHANGED outcome

Fire(f) ==
  /\ Owed(f)
  /\ fired' = [fired EXCEPT ![f] = outcome[f]]
  /\ UNCHANGED <<outcome, registered>>

Next ==
  \E f \in Futures :
    \/ Resolve(f)
    \/ \E o \in Outcomes : Register(f, o)
    \/ Fire(f)

Spec == Init /\ [][Next]_vars

FairSpec == Spec /\ \A f \in Futures : WF_vars(Fire(f))
=============================================================================
