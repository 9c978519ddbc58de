----------------------------- MODULE Statement -----------------------------
(***************************************************************************)
(* One Ilios::Cassandra::Statement (ext/ilios/statement.c) and its         *)
(* executions (ext/ilios/session.c).                                       *)
(*                                                                         *)
(* The user's threads bind values, set options and execute the statement,  *)
(* while the driver's IO thread encodes what was executed.  A thread keeps *)
(* Ruby's global VM lock (gvl) through a call and gives it up only where a *)
(* conversion runs Ruby code (to_int, to_f, to_time) and where a request   *)
(* is handed to the driver.  The caller's objects may change meanwhile.    *)
(***************************************************************************)
EXTENDS Naturals, Sequences

CONSTANTS
  Threads,
  None,
  Columns,            \* the parameters of the prepared query
  Names,              \* the keys users may give
  ColumnOf,           \* the parameter that a key names; the driver takes two
                      \* that differ in case for the same
  Values,             \* the Ruby objects users may give
  KindOf,             \* "plain" (an Integer, nil...), "string", "time" (bind
                      \* converts it by to_time or to_str and stores that) or
                      \* "object" (responds to to_int or to_f)
  Contents,           \* what values convert to
  Invalid,            \* out of range, no such conversion, not a UUID
  InitialContent,     \* value -> what it converts to at first
  Mutable,            \* the values that user code changes in place
  Arguments,          \* the hashes given to bind: functions on sets of names
  PageSizes,
  DEFAULT_PAGE_SIZE,
  Unbound,
  MaxBinds,           \* bound on the calls of bind
  MaxExecutions       \* bound on the executions

Known == DOMAIN ColumnOf
Conversions == Contents \cup {Invalid}
Stored == Contents \cup Values \cup {Unbound}

ASSUME StatementAssumption ==
  /\ None \notin Threads
  /\ Known \subseteq Names /\ ColumnOf \in [Known -> Columns]
  /\ \A c \in Columns : c \in Known /\ ColumnOf[c] = c
  /\ KindOf \in [Values -> {"plain", "string", "time", "object"}]
  /\ InitialContent \in [Values -> Conversions]
  /\ Mutable \subseteq {v \in Values : KindOf[v] \in {"string", "object"}}
  /\ \A arg \in Arguments : DOMAIN arg \subseteq Names /\ \A n \in DOMAIN arg : arg[n] \in Values
  /\ DEFAULT_PAGE_SIZE \in PageSizes
  /\ Invalid \notin Contents /\ Unbound \notin Conversions
  /\ Values \cap (Conversions \cup {Unbound}) = {}
  /\ MaxBinds \in Nat /\ MaxExecutions \in Nat

VARIABLES
  gvl,            \* the thread that holds the VM lock
  call,           \* call[t]: the call t is in
  hashes,         \* every hash that was bound_values, in order
  older,          \* of each, its pairs of keys, the one that came first first
  bound_values,   \* index of the current one, 0 for nil
  page_size,
  idempotent,
  cass,           \* the CassStatements; the first is the scratch statement
  requests,       \* what was handed to the driver
  content,        \* what each of the user's objects converts to
  given           \* history: the last value accepted for each column

hashVars == <<hashes, older>>
statementVars == <<hashes, older, bound_values, page_size, idempotent, given>>
vars == <<gvl, call, statementVars, cass, requests, content>>

Empty == [c \in Columns |-> Unbound]
NoKeys == [n \in Known |-> Unbound]
Idle == [op |-> "idle", arg |-> <<>>, hash |-> 0, todo |-> {}, at |-> None, stmt |-> 1]
DefaultCass == [page_size |-> DEFAULT_PAGE_SIZE, idempotent |-> FALSE, values |-> Empty]

Init ==
  /\ gvl = None
  /\ call = [t \in Threads |-> Idle]
  /\ hashes = <<>> /\ older = <<>>
  /\ bound_values = 0
  /\ page_size = DEFAULT_PAGE_SIZE
  /\ idempotent = "unset"
  /\ cass = <<DefaultCass>>
  /\ requests = <<>>
  /\ content = InitialContent
  /\ given = Empty

-----------------------------------------------------------------------------
(* Calls and the VM lock.                                                  *)

Enter(t) == gvl = None /\ gvl' = t /\ call[t].op = "idle"

\* t's call goes on, after a conversion or with the lock still held.
Running(t) == gvl = t /\ call[t].at = None
Resuming(t) == gvl = None /\ gvl' = t /\ call[t].at # None

Leave(t) == gvl' = None /\ call' = [call EXCEPT ![t] = Idle]

-----------------------------------------------------------------------------
(* hash_cb: one key of a hash is validated and bound to a CassStatement.   *)

\* The value a stored or given one converts to now.
Converted(v) == IF v \in Values THEN content[v] ELSE v

\* The conversion runs Ruby code.  A stored value is never of kind "time":
\* the Time it was converted to is stored.
RunsRuby(v) == v \in Values /\ KindOf[v] \in {"time", "object"}

\* Mutant: the caller's String itself is stored.
StoreUnfrozen(v) == IF KindOf[v] \in {"string", "object"} THEN v ELSE content[v]

\* A String is snapshotted and a Time stored; any other object is kept as is.
Store(v) == IF KindOf[v] = "object" THEN v ELSE content[v]

Keys(hash) == {n \in Known : hash[n] # Unbound}

\* rb_hash_foreach is running on the hash.
Iterated(h) == \E t \in Threads : call[t].op = "execute" /\ call[t].hash = h

Done(t, name) ==
  call' = [call EXCEPT ![t].todo = @ \ {name}, ![t].at = None]

\* A value of an execution: args.ctx.bound_values is nil, nothing is stored.
Rebound(t, name) == Done(t, name) /\ gvl' = t /\ UNCHANGED <<hashVars, given>>

\* A value of a bind: a key is as it was spelled, and stays where it came first.
\* Ruby refuses a new key in a hash that is iterated.
Aset(t, name, v) ==
  LET h == call[t].hash
      new == hashes[h][name] = Unbound
  IN \/ /\ new /\ Iterated(h)
        /\ Leave(t)
        /\ UNCHANGED <<hashVars, given>>
     \/ /\ ~(new /\ Iterated(h))
        /\ hashes' = [hashes EXCEPT ![h][name] = Store(v)]
        /\ older' = IF new THEN [older EXCEPT ![h] = @ \cup (Keys(hashes[h]) \X {name})]
                           ELSE older
        /\ given' = [given EXCEPT ![ColumnOf[name]] = content[v]]
        /\ Done(t, name)
        /\ gvl' = t

\* Mutant: no check.
AcceptedAlways(v) == TRUE

\* In range and of the right type, a valid UUID.
Accepted(v) == Converted(v) # Invalid

\* From the conversion on.
hash_cb(t, name, v) ==
  /\ \/ /\ ~Accepted(v)
        /\ Leave(t)
        /\ UNCHANGED <<cass, hashVars, given>>
     \/ /\ Accepted(v)
        /\ cass' = [cass EXCEPT ![call[t].stmt].values[ColumnOf[name]] = Converted(v)]
        /\ \/ call[t].op = "bind" /\ Aset(t, name, v)
           \/ call[t].op = "execute" /\ Rebound(t, name)
  /\ UNCHANGED <<bound_values, page_size, idempotent, requests, content>>

ValueAt(t, name) ==
  IF call[t].op = "bind" THEN call[t].arg[name] ELSE hashes[call[t].hash][name]

\* The hash of a bind has its keys in any order, a hash that is bound in its own.
IsNext(t, name) ==
  /\ name \in call[t].todo
  /\ call[t].op = "execute" => \A n \in call[t].todo : <<n, name>> \notin older[call[t].hash]

\* The iteration comes to a key: no such parameter, a conversion that runs Ruby
\* code, or straight on.
Reach(t, name) ==
  /\ Running(t)
  /\ IsNext(t, name)
  /\ \/ /\ name \notin Known
        /\ Leave(t)
        /\ UNCHANGED <<statementVars, cass, requests, content>>
     \/ /\ name \in Known /\ RunsRuby(ValueAt(t, name))
        /\ call' = [call EXCEPT ![t].at = <<name, ValueAt(t, name)>>]
        /\ gvl' = None
        /\ UNCHANGED <<statementVars, cass, requests, content>>
     \/ /\ name \in Known /\ ~RunsRuby(ValueAt(t, name))
        /\ hash_cb(t, name, ValueAt(t, name))

\* The Ruby code has returned.
Convert(t) ==
  /\ Resuming(t)
  /\ hash_cb(t, call[t].at[1], call[t].at[2])

-----------------------------------------------------------------------------
(* Statement#bind, #page_size= and #idempotent=.                           *)

Current == IF bound_values = 0 THEN NoKeys ELSE hashes[bound_values]
CurrentOlder == IF bound_values = 0 THEN {} ELSE older[bound_values]

\* Mutant: the values bound before are not kept.
BindAfresh(t, arg) ==
  /\ Enter(t)
  /\ Len(hashes) < MaxBinds
  /\ hashes' = Append(hashes, NoKeys) /\ older' = Append(older, {})
  /\ bound_values' = Len(hashes')
  /\ call' = [call EXCEPT ![t] =
                [Idle EXCEPT !.op = "bind", !.arg = arg, !.hash = Len(hashes'), !.todo = DOMAIN arg]]
  /\ UNCHANGED <<page_size, idempotent, given, cass, requests, content>>

\* The copy becomes bound_values before the values are merged into it.
statement_bind(t, arg) ==
  /\ Enter(t)
  /\ Len(hashes) < MaxBinds
  /\ hashes' = Append(hashes, Current) /\ older' = Append(older, CurrentOlder)
  /\ bound_values' = Len(hashes')
  /\ call' = [call EXCEPT ![t] =
                [Idle EXCEPT !.op = "bind", !.arg = arg, !.hash = Len(hashes'), !.todo = DOMAIN arg]]
  /\ UNCHANGED <<page_size, idempotent, given, cass, requests, content>>

BindReturn(t) ==
  /\ Running(t)
  /\ call[t].op = "bind" /\ call[t].todo = {}
  /\ Leave(t)
  /\ UNCHANGED <<statementVars, cass, requests, content>>

\* The two setters run to their end: the lock is not given up.
statement_page_size(t, n) ==
  /\ gvl = None /\ call[t].op = "idle"
  /\ page_size' = n
  /\ cass' = [cass EXCEPT ![1].page_size = n]
  /\ UNCHANGED <<gvl, call, hashVars, bound_values, idempotent, given, requests, content>>

statement_idempotent(t, b) ==
  /\ gvl = None /\ call[t].op = "idle"
  /\ idempotent' = IF b THEN "true" ELSE "false"
  /\ cass' = [cass EXCEPT ![1].idempotent = b]
  /\ UNCHANGED <<gvl, call, hashVars, bound_values, page_size, given, requests, content>>

-----------------------------------------------------------------------------
(* Session#execute and #execute_async, up to the request.                  *)

\* Mutants: the scratch statement is executed, as before issue #12; the options
\* are not set.
ExecuteScratch(t) ==
  /\ Enter(t)
  /\ Len(cass) <= MaxExecutions
  /\ cass' = Append(cass, DefaultCass)
  /\ call' = [call EXCEPT ![t] = [Idle EXCEPT !.op = "execute"]]
  /\ UNCHANGED <<statementVars, requests, content>>
PreparedDefault(n) == DefaultCass

\* cass_prepared_bind, and the options.
NewCass(n) ==
  [page_size |-> n, idempotent |-> idempotent = "true", values |-> Empty]

\* A CassStatement of its own, with the options and then the bound values.
statement_build_for_execution(t) ==
  /\ Enter(t)
  /\ Len(cass) <= MaxExecutions
  /\ cass' = Append(cass, NewCass(page_size))
  /\ call' = [call EXCEPT ![t] =
                [Idle EXCEPT !.op = "execute", !.hash = bound_values, !.stmt = Len(cass'),
                             !.todo = Keys(Current)]]
  /\ UNCHANGED <<statementVars, requests, content>>

\* The driver takes the request, to encode it in its own time.
nogvl_session_execute(t) ==
  /\ Running(t)
  /\ call[t].op = "execute" /\ call[t].todo = {}
  /\ requests' = Append(requests, [stmt |-> call[t].stmt, built |-> cass[call[t].stmt],
                                   encoded |-> {}])
  /\ Leave(t)
  /\ UNCHANGED <<statementVars, cass, content>>

-----------------------------------------------------------------------------

\* The driver's IO thread, which does not take the lock, reads the statement.
Encode(n) ==
  /\ requests[n].encoded = {}
  /\ requests' = [requests EXCEPT ![n].encoded = {cass[requests[n].stmt]}]
  /\ UNCHANGED <<gvl, call, statementVars, cass, content>>

\* User code changes an object that it has given, or will give, to bind.
Mutate(v, x) ==
  /\ gvl = None
  /\ content' = [content EXCEPT ![v] = x]
  /\ UNCHANGED <<gvl, call, statementVars, cass, requests>>

Next ==
  \/ \E t \in Threads :
       \/ \E arg \in Arguments : statement_bind(t, arg)
       \/ \E name \in Names : Reach(t, name)
       \/ Convert(t)
       \/ BindReturn(t)
       \/ \E n \in PageSizes : statement_page_size(t, n)
       \/ \E b \in BOOLEAN : statement_idempotent(t, b)
       \/ statement_build_for_execution(t)
       \/ nogvl_session_execute(t)
  \/ \E n \in 1..Len(requests) : Encode(n)
  \/ \E v \in Mutable, x \in Conversions : Mutate(v, x)

Spec == Init /\ [][Next]_vars

-----------------------------------------------------------------------------
(* Properties.                                                             *)

CassStatement == [page_size : PageSizes, idempotent : BOOLEAN,
                  values : [Columns -> Contents \cup {Unbound}]]

\* Every variable keeps its type; a CassStatement holds accepted values only.
TypeOK ==
  /\ gvl \in Threads \cup {None}
  /\ hashes \in Seq([Known -> Stored])
  /\ older \in Seq(SUBSET (Known \X Known)) /\ Len(older) = Len(hashes)
  /\ bound_values \in 0..Len(hashes)
  /\ page_size \in PageSizes
  /\ idempotent \in {"unset", "false", "true"}
  /\ cass \in Seq(CassStatement)
  /\ requests \in Seq([stmt : 1..Len(cass), built : CassStatement, encoded : SUBSET CassStatement])
  /\ content \in [Values -> Conversions]
  /\ given \in [Columns -> Contents \cup {Unbound}]
  /\ \A t \in Threads :
       /\ call[t].op \in {"idle", "bind", "execute"}
       /\ call[t].hash \in 0..Len(hashes)
       /\ call[t].todo \subseteq Names
       /\ call[t].stmt \in 1..Len(cass)

\* The driver encodes what was there when the request was made, though it does
\* so later (session.c:96-97): no bind, no option and no other execution
\* reaches a statement that was handed over.
EncodedAsBuilt == \A n \in 1..Len(requests) : requests[n].encoded \subseteq {requests[n].built}

\* What an execution would bind for a column: of its spellings, the last one's.
BoundTo(c) ==
  LET keys == {n \in Keys(Current) : ColumnOf[n] = c}
      IsLast(n) == \A m \in keys \ {n} : <<n, m>> \notin older[bound_values]
  IN IF keys = {} THEN Unbound ELSE Current[CHOOSE n \in keys : IsLast(n)]

\* Between calls the current hash gives the last value accepted for each column
\* (statement.c:222): what one bind stored, another does not undo.  A program
\* that spells a column in two ways does it itself: an older key keeps its place.
BoundAsGiven ==
  (\A t \in Threads : call[t].op # "bind") =>
    \A c \in Columns : Converted(BoundTo(c)) = given[c]

\* What bind has accepted is accepted by every execution (statement.c:227-229,
\* session.c:113-114: only bind raises for a value).
ExecutionsAccepted ==
  [][\A t \in Threads :
       call[t].op = "execute" /\ call'[t].op = "idle" => Len(requests') > Len(requests)]_vars

B == INSTANCE Binding WITH
       values <- given,
       idempotent <- (idempotent = "true"),
       sent <- [n \in 1..Len(requests) |-> requests[n].built]

\* The statement keeps what Binding.tla promises.
BindingSpec == B!Spec
=============================================================================
