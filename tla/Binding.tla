------------------------------- MODULE Binding -------------------------------
(***************************************************************************)
(* What a Statement promises to its user: a set of bound values and two    *)
(* settings, and executions that carry what was bound and set when they    *)
(* were asked for, whatever happens to the statement or to the caller's    *)
(* objects afterwards.  Statement.tla implements it.                       *)
(***************************************************************************)
EXTENDS Sequences

CONSTANTS Columns, Contents, Unbound, PageSizes, DEFAULT_PAGE_SIZE

VARIABLES values, page_size, idempotent, sent

vars == <<values, page_size, idempotent, sent>>

Init ==
  /\ values = [c \in Columns |-> Unbound]
  /\ page_size = DEFAULT_PAGE_SIZE
  /\ idempotent = FALSE
  /\ sent = <<>>

\* One value of a bind.  A bind that fails keeps the values it came to first.
Bind ==
  /\ \E c \in Columns, x \in Contents : values' = [values EXCEPT ![c] = x]
  /\ UNCHANGED <<page_size, idempotent, sent>>

SetPageSize ==
  /\ page_size' \in PageSizes
  /\ UNCHANGED <<values, idempotent, sent>>

SetIdempotent ==
  /\ idempotent' \in BOOLEAN
  /\ UNCHANGED <<values, page_size, sent>>

Execute ==
  /\ sent' = Append(sent, [page_size |-> page_size, idempotent |-> idempotent,
                           values |-> values])
  /\ UNCHANGED <<values, page_size, idempotent>>

Next == Bind \/ SetPageSize \/ SetIdempotent \/ Execute

Spec == Init /\ [][Next]_vars
=============================================================================
