--------------------------- MODULE StatementProofs ---------------------------
(* Theorems about Statement.tla: any threads, columns, values, hashes and    *)
(* page sizes, any number of binds, executions and requests.                 *)
EXTENDS Statement, TLAPS, SequenceTheorems

-----------------------------------------------------------------------------
(* Types.  A bind works on the scratch statement, with values of the user;  *)
(* an execution on a statement of its own, with values that are bound.      *)

Frames ==
  [op : {"idle", "bind", "execute"}, arg : Arguments \cup {<<>>}, hash : Nat, todo : SUBSET Names,
   at : {None} \cup (Known \X Values), stmt : Nat]

BindFrame(k) ==
  /\ k.arg \in Arguments /\ k.todo \subseteq DOMAIN k.arg
  /\ k.hash \in 1..Len(hashes) /\ k.stmt = 1

ExecuteFrame(k) ==
  /\ k.todo \subseteq Known
  /\ k.hash \in 0..Len(hashes) /\ k.stmt \in 2..Len(cass)
  /\ k.todo # {} => k.hash # 0
  /\ \A c \in k.todo : hashes[k.hash][c] # Unbound

FrameOK(k) ==
  /\ k \in Frames
  /\ k.op = "idle" => k = Idle
  /\ k.op = "bind" => BindFrame(k)
  /\ k.op = "execute" => ExecuteFrame(k)

FrameInv == call \in [Threads -> Frames] /\ \A t \in Threads : FrameOK(call[t])

Typed == TypeOK /\ FrameInv /\ Len(cass) > 0

-----------------------------------------------------------------------------
(* Who may still write to a CassStatement: the setters and every bind to    *)
(* the first, an execution to its own until it hands it over.               *)

HandedOver ==
  /\ \A n \in 1..Len(requests) :
       /\ requests[n].stmt # 1
       /\ requests[n].built = cass[requests[n].stmt]
       /\ requests[n].encoded \subseteq {requests[n].built}
  /\ \A t \in Threads, n \in 1..Len(requests) :
       call[t].op = "execute" => call[t].stmt # requests[n].stmt
  /\ \A s, t \in Threads :
       call[s].op = "execute" /\ call[t].op = "execute" /\ call[s].stmt = call[t].stmt => s = t

-----------------------------------------------------------------------------
(* When only Strings change after they were given: what is stored is kept   *)
(* apart from them, and stays acceptable.                                   *)

StringsChange == \A v \in Mutable : KindOf[v] = "string"

Kept(v) == (v \in Values => KindOf[v] = "object") /\ Accepted(v)

KeptInv ==
  /\ \A h \in 1..Len(hashes), c \in Known : Kept(hashes[h][c])
  /\ \A t \in Threads : call[t].op = "execute" /\ call[t].at # None => Kept(call[t].at[2])

-----------------------------------------------------------------------------
(* With one thread besides, and one spelling of each column: the current    *)
(* hash is what was given, and an execution has come to the columns that    *)
(* are not left to do.                                                      *)

OneThread == \A s, t \in Threads : s = t

OneSpelling == \A m, n \in Known : ColumnOf[m] = ColumnOf[n] => m = n

BoundInv ==
  /\ \A c \in Columns : Converted(Current[c]) = given[c]
  /\ \A t \in Threads : call[t].op # "idle" => call[t].hash = bound_values

ExecuteInv ==
  \A t \in Threads : call[t].op = "execute" =>
    LET st == cass[call[t].stmt] IN
    /\ st.page_size = page_size
    /\ st.idempotent = (idempotent = "true")
    /\ \A c \in Columns \ call[t].todo : st.values[c] = given[c]
    /\ call[t].at # None => call[t].at[2] = Current[call[t].at[1]]

-----------------------------------------------------------------------------
(* What the operators give.                                                *)

LEMMA TypedFacts ==
  ASSUME Typed
  PROVE  /\ Len(hashes) \in Nat /\ Len(cass) \in Nat \ {0} /\ Len(requests) \in Nat
         /\ \A h \in 1..Len(hashes) : hashes[h] \in [Known -> Stored]
         /\ \A i \in 1..Len(cass) : cass[i] \in CassStatement
         /\ \A n \in 1..Len(requests) :
              requests[n] \in [stmt : 1..Len(cass), built : CassStatement, encoded : SUBSET CassStatement]
<1> DEFINE Requests == [stmt : 1..Len(cass), built : CassStatement, encoded : SUBSET CassStatement]
<1>1. hashes \in Seq([Known -> Stored]) /\ cass \in Seq(CassStatement) /\ Len(cass) > 0
  BY DEF Typed, TypeOK
<1>2. requests \in Seq(Requests)
  BY DEF Typed, TypeOK
<1> HIDE DEF Requests
<1>3. /\ Len(hashes) \in Nat /\ Len(cass) \in Nat \ {0} /\ Len(requests) \in Nat
  BY <1>1, <1>2, LenProperties
<1>4. \A n \in 1..Len(requests) : requests[n] \in Requests
  BY <1>2, ElementOfSeq
<1>5. /\ \A h \in 1..Len(hashes) : hashes[h] \in [Known -> Stored]
      /\ \A i \in 1..Len(cass) : cass[i] \in CassStatement
  BY <1>1, ElementOfSeq
<1> QED
  BY <1>3, <1>4, <1>5 DEF Requests

LEMMA CurrentType ==
  ASSUME Typed
  PROVE  Current \in [Known -> Stored]
BY TypedFacts DEF Current, NoKeys, Stored, Typed, TypeOK

\* What is accepted is converted to a content.
LEMMA AcceptedType ==
  ASSUME Typed, NEW v \in Stored, v # Unbound, Accepted(v)
  PROVE  Converted(v) \in Contents
BY StatementAssumption DEF Typed, TypeOK, Accepted, Converted, Stored, Conversions

\* What bind stores for an accepted value converts to the same.
LEMMA StoreType ==
  ASSUME Typed, NEW v \in Values, Accepted(v)
  PROVE  /\ Store(v) \in Stored /\ Store(v) # Unbound
         /\ content[v] \in Contents
         /\ Converted(Store(v)) = content[v]
         /\ Kept(Store(v))
<1>1. content[v] \in Contents /\ content[v] \notin Values /\ content[v] # Unbound
  BY StatementAssumption DEF Typed, TypeOK, Accepted, Converted, Conversions
<1>2. v # Unbound /\ Invalid \notin Contents
  BY StatementAssumption
<1> QED
  BY <1>1, <1>2 DEF Store, Converted, Kept, Accepted, Stored

LEMMA CassWritten ==
  ASSUME Typed, NEW i \in 1..Len(cass), NEW st \in CassStatement, cass' = [cass EXCEPT ![i] = st]
  PROVE  /\ cass' \in Seq(CassStatement) /\ Len(cass') = Len(cass)
         /\ \A j \in 1..Len(cass) : cass'[j] = IF j = i THEN st ELSE cass[j]
<1>1. cass \in Seq(CassStatement)
  BY DEF Typed, TypeOK
<1> QED
  BY <1>1, ExceptSeq

LEMMA CassAppended ==
  ASSUME Typed, NEW st \in CassStatement, cass' = Append(cass, st), UNCHANGED requests
  PROVE  /\ cass' \in Seq(CassStatement) /\ Len(cass') = Len(cass) + 1
         /\ \A j \in 1..Len(cass) : cass'[j] = cass[j]
         /\ cass'[Len(cass) + 1] = st
         /\ requests' \in Seq([stmt : 1..Len(cass'), built : CassStatement, encoded : SUBSET CassStatement])
<1>1. cass \in Seq(CassStatement)
  BY DEF Typed, TypeOK
<1>2. /\ cass' \in Seq(CassStatement) /\ Len(cass') = Len(cass) + 1
      /\ \A j \in 1..Len(cass) : cass'[j] = cass[j]
      /\ cass'[Len(cass) + 1] = st
  BY <1>1, AppendProperties
<1>3. 1..Len(cass) \subseteq 1..Len(cass')
  BY <1>2, TypedFacts
<1> DEFINE Before == [stmt : 1..Len(cass), built : CassStatement, encoded : SUBSET CassStatement]
           After == [stmt : 1..Len(cass'), built : CassStatement, encoded : SUBSET CassStatement]
<1>4. Before \subseteq After
  BY <1>3
<1>5. requests \in Seq(Before)
  BY DEF Typed, TypeOK
<1> HIDE DEF Before, After
<1>6. requests \in Seq(After)
  BY <1>4, <1>5, SeqMonotonic
<1> QED
  BY <1>2, <1>6 DEF After

LEMMA HashWritten ==
  ASSUME Typed, NEW h \in 1..Len(hashes), NEW name \in Known, NEW x \in Stored,
         hashes' = [hashes EXCEPT ![h][name] = x]
  PROVE  /\ hashes' \in Seq([Known -> Stored]) /\ Len(hashes') = Len(hashes)
         /\ \A g \in 1..Len(hashes), c \in Known :
              hashes'[g][c] = IF g = h /\ c = name THEN x ELSE hashes[g][c]
<1> DEFINE hash == [hashes[h] EXCEPT ![name] = x]
<1>1. hashes \in Seq([Known -> Stored]) /\ hashes[h] \in [Known -> Stored]
  BY TypedFacts DEF Typed, TypeOK
<1>2. hash \in [Known -> Stored] /\ hashes' = [hashes EXCEPT ![h] = hash]
  BY <1>1
<1>3. \A c \in Known : hash[c] = IF c = name THEN x ELSE hashes[h][c]
  BY <1>1
<1> HIDE DEF hash
<1>4. /\ hashes' \in Seq([Known -> Stored]) /\ Len(hashes') = Len(hashes)
      /\ \A g \in 1..Len(hashes) : hashes'[g] = IF g = h THEN hash ELSE hashes[g]
  BY <1>1, <1>2, ExceptSeq
<1> QED
  BY <1>3, <1>4

LEMMA OlderType ==
  ASSUME Typed, NEW h \in 1..Len(hashes)
  PROVE  older[h] \in SUBSET (Known \X Known)
<1> DEFINE Pairs == SUBSET (Known \X Known)
<1>1. older \in Seq(Pairs) /\ h \in 1..Len(older)
  BY DEF Typed, TypeOK
<1> HIDE DEF Pairs
<1>2. older[h] \in Pairs
  BY <1>1, ElementOfSeq
<1> QED
  BY <1>2 DEF Pairs

\* What a new key adds to the order of a hash.
LEMMA OlderWritten ==
  ASSUME Typed, NEW h \in 1..Len(hashes), NEW pairs \in SUBSET (Known \X Known),
         older' = [older EXCEPT ![h] = pairs]
  PROVE  older' \in Seq(SUBSET (Known \X Known)) /\ Len(older') = Len(older)
<1> DEFINE Pairs == SUBSET (Known \X Known)
<1>1. older \in Seq(Pairs) /\ h \in 1..Len(older)
  BY DEF Typed, TypeOK
<1> HIDE DEF Pairs
<1>2. ASSUME NEW P, NEW p \in P, older \in Seq(P), older' = [older EXCEPT ![h] = p]
      PROVE  older' \in Seq(P) /\ Len(older') = Len(older)
  BY <1>1, <1>2, ExceptSeq
<1> QED
  BY <1>1, <1>2 DEF Pairs

\* The order of the hash that a bind starts with.
LEMMA OlderAppended ==
  ASSUME Typed, older' = Append(older, CurrentOlder)
  PROVE  older' \in Seq(SUBSET (Known \X Known)) /\ Len(older') = Len(older) + 1
<1> DEFINE Pairs == SUBSET (Known \X Known)
<1>1. older \in Seq(Pairs) /\ bound_values \in 0..Len(older) /\ Len(older) \in Nat
  BY TypedFacts DEF Typed, TypeOK
<1>2. {} \in Pairs
  OBVIOUS
<1> HIDE DEF Pairs
<1>3. CurrentOlder \in Pairs
  BY <1>1, <1>2, ElementOfSeq DEF CurrentOlder
<1>4. older' \in Seq(Pairs) /\ Len(older') = Len(older) + 1
  BY <1>1, <1>3, AppendProperties
<1> QED
  BY <1>4 DEF Pairs

-----------------------------------------------------------------------------
(* A value of a bind or of an execution: what hash_cb may do.               *)

\* The CassStatement of t's call gets x for the column name.
Written(t, name, x) ==
  /\ cass' = [cass EXCEPT ![call[t].stmt].values[ColumnOf[name]] = x]
  /\ x \in Contents
  /\ cass' \in Seq(CassStatement) /\ Len(cass') = Len(cass)
  /\ \A j \in 1..Len(cass) : j # call[t].stmt => cass'[j] = cass[j]
  /\ cass'[call[t].stmt] = [cass[call[t].stmt] EXCEPT !.values = [@ EXCEPT ![ColumnOf[name]] = x]]

BindsValue(t, name, v) ==
  /\ call[t].op = "bind" /\ v \in Values /\ Accepted(v)
  /\ Written(t, name, content[v])
  /\ hashes' = [hashes EXCEPT ![call[t].hash][name] = Store(v)]
  /\ older' \in Seq(SUBSET (Known \X Known)) /\ Len(older') = Len(older)
  /\ given' = [given EXCEPT ![ColumnOf[name]] = content[v]]
  /\ Done(t, name)

BindRefused(t, name) ==
  /\ call[t].op = "bind"
  /\ \E x \in Contents : Written(t, name, x)
  /\ UNCHANGED <<hashes, older, given>>
  /\ Leave(t)

RebindsValue(t, name, v) ==
  /\ call[t].op = "execute"
  /\ Accepted(v) /\ Written(t, name, Converted(v))
  /\ UNCHANGED <<hashes, older, given>>
  /\ Done(t, name)

Rejected(t, v) ==
  /\ ~Accepted(v)
  /\ UNCHANGED <<cass, hashes, older, given>>
  /\ Leave(t)

\* The value is one of the user's in a bind, and one that is bound in an execution.
Supplied(t, v) ==
  IF call[t].op = "bind" THEN v \in Values ELSE v \in Stored /\ v # Unbound

LEMMA HashCbCases ==
  ASSUME Typed, NEW t \in Threads, NEW name \in Known, NEW v, call[t].op # "idle",
         Supplied(t, v), hash_cb(t, name, v)
  PROVE  /\ UNCHANGED <<bound_values, page_size, idempotent, requests, content>>
         /\ gvl' \in {t, None}
         /\ \/ BindsValue(t, name, v)
            \/ BindRefused(t, name)
            \/ RebindsValue(t, name, v)
            \/ Rejected(t, v)
<1>1. UNCHANGED <<bound_values, page_size, idempotent, requests, content>>
  BY DEF hash_cb
<1>2. CASE ~Accepted(v)
  BY <1>1, <1>2 DEF hash_cb, Rejected, Leave, hashVars
<1>3. CASE Accepted(v)
  <2> DEFINE i == call[t].stmt
             x == Converted(v)
             st == [cass[i] EXCEPT !.values = [@ EXCEPT ![ColumnOf[name]] = x]]
  <2>1. v \in Stored /\ v # Unbound
    BY StatementAssumption DEF Supplied, Stored
  <2>2. x \in Contents
    BY <1>3, <2>1, AcceptedType
  <2>3. i \in 1..Len(cass)
    BY TypedFacts DEF Typed, FrameInv, FrameOK, BindFrame, ExecuteFrame, Frames
  <2>4. cass[i] \in CassStatement
    BY <2>3, TypedFacts
  <2>5. st \in CassStatement
    BY <2>2, <2>4 DEF CassStatement
  <2>6. cass' = [cass EXCEPT ![i].values[ColumnOf[name]] = x] /\ cass' = [cass EXCEPT ![i] = st]
    BY <1>3 DEF hash_cb
  <2> HIDE DEF st
  <2>7. /\ cass' \in Seq(CassStatement) /\ Len(cass') = Len(cass)
        /\ \A j \in 1..Len(cass) : cass'[j] = IF j = i THEN st ELSE cass[j]
    BY <2>3, <2>5, <2>6, CassWritten
  <2>8. Written(t, name, x)
    BY <2>2, <2>3, <2>6, <2>7 DEF Written, st
  <2>9. CASE call[t].op = "bind"
    <3>1. v \in Values /\ x = content[v]
      BY <2>9 DEF Supplied, Converted
    <3>2. Aset(t, name, v)
      BY <1>3, <2>9 DEF hash_cb
    <3>3. CASE Leave(t) /\ UNCHANGED <<hashes, older, given>>
      BY <1>1, <2>2, <2>8, <2>9, <3>3 DEF BindRefused, Leave
    <3>4. CASE ~(Leave(t) /\ UNCHANGED <<hashes, older, given>>)
      <4>1. /\ hashes' = [hashes EXCEPT ![call[t].hash][name] = Store(v)]
            /\ given' = [given EXCEPT ![ColumnOf[name]] = content[v]]
            /\ Done(t, name)
            /\ gvl' = t
            /\ \/ older' = older
               \/ older' = [older EXCEPT ![call[t].hash] =
                               @ \cup (Keys(hashes[call[t].hash]) \X {name})]
        BY <3>2, <3>4 DEF Aset, hashVars
      <4>2. call[t].hash \in 1..Len(hashes)
        BY <2>9 DEF Typed, FrameInv, FrameOK, BindFrame
      <4>3. older' \in Seq(SUBSET (Known \X Known)) /\ Len(older') = Len(older)
        <5>1. CASE older' = older
          BY <5>1 DEF Typed, TypeOK
        <5>2. CASE older' # older
          <6>1. PICK pairs : pairs = older[call[t].hash] \cup (Keys(hashes[call[t].hash]) \X {name})
            OBVIOUS
          <6>2. older[call[t].hash] \in SUBSET (Known \X Known)
            BY <4>2, OlderType
          <6>3. pairs \in SUBSET (Known \X Known)
            BY <6>1, <6>2 DEF Keys
          <6>4. older' = [older EXCEPT ![call[t].hash] = pairs]
            BY <4>1, <5>2, <6>1
          <6> QED
            BY <4>2, <6>3, <6>4, OlderWritten
        <5> QED
          BY <5>1, <5>2
      <4> QED
        BY <1>1, <1>3, <2>8, <2>9, <3>1, <4>1, <4>3 DEF BindsValue
    <3> QED
      BY <3>3, <3>4
  <2>10. CASE call[t].op = "execute"
    BY <1>1, <1>3, <2>8, <2>10 DEF hash_cb, Rebound, RebindsValue, hashVars
  <2> QED
    BY <2>9, <2>10 DEF Typed, FrameInv, FrameOK, Frames
<1> QED
  BY <1>2, <1>3

-----------------------------------------------------------------------------
(* Types, one step per action.                                             *)

LEMMA IdleOK == Idle \in Frames /\ FrameOK(Idle)
BY DEF FrameOK, Frames, Idle

\* Neither a hash nor the list of CassStatements loses what a frame relies on.
Grows ==
  /\ Len(hashes') >= Len(hashes) /\ Len(cass') >= Len(cass)
  /\ \A h \in 1..Len(hashes), c \in Known : hashes[h][c] # Unbound => hashes'[h][c] # Unbound

LEMMA FrameKept ==
  ASSUME Typed, Grows, Len(hashes') \in Nat, Len(cass') \in Nat, NEW k, FrameOK(k)
  PROVE  FrameOK(k)'
<1>1. Len(hashes) \in Nat /\ Len(cass) \in Nat
  BY TypedFacts
<1>2. k.op = "bind" => BindFrame(k)'
  BY <1>1 DEF FrameOK, BindFrame, Grows
<1>3. k.op = "execute" => ExecuteFrame(k)'
  BY <1>1 DEF FrameOK, ExecuteFrame, Grows
<1> QED
  BY <1>2, <1>3 DEF FrameOK

LEMMA FramesStep ==
  ASSUME Typed, Grows, Len(hashes') \in Nat, Len(cass') \in Nat,
         NEW t \in Threads, NEW k, call' = [call EXCEPT ![t] = k], FrameOK(k)'
  PROVE  FrameInv'
<1>1. call' \in [Threads -> Frames] /\ \A s \in Threads : s # t => call'[s] = call[s]
  BY DEF Typed, FrameInv, FrameOK
<1>2. \A s \in Threads : s # t => FrameOK(call[s])'
  BY <1>1, FrameKept DEF Typed, FrameInv, FrameOK, BindFrame, ExecuteFrame
<1> QED
  BY <1>1, <1>2 DEF Typed, FrameInv

LEMMA LeaveOK ==
  ASSUME Typed, Grows, Len(hashes') \in Nat, Len(cass') \in Nat, NEW t \in Threads,
         call' = [call EXCEPT ![t] = Idle]
  PROVE  FrameInv'
BY FramesStep, FrameKept, IdleOK

\* A key is done: the others are left.
LEMMA DoneFrame ==
  ASSUME Typed, NEW t \in Threads, NEW name, Done(t, name)
  PROVE  \E k \in Frames :
           /\ k.op = call[t].op /\ k.arg = call[t].arg /\ k.hash = call[t].hash
           /\ k.stmt = call[t].stmt /\ k.todo = call[t].todo \ {name} /\ k.at = None
           /\ call' = [call EXCEPT ![t] = k] /\ call'[t] = k
           /\ \A s \in Threads : s # t => call'[s] = call[s]
<1> DEFINE k == [call[t] EXCEPT !.todo = @ \ {name}, !.at = None]
<1>1. call[t] \in Frames
  BY DEF Typed, FrameInv
<1>2. /\ k \in Frames /\ k.op = call[t].op /\ k.arg = call[t].arg /\ k.hash = call[t].hash
      /\ k.stmt = call[t].stmt /\ k.todo = call[t].todo \ {name} /\ k.at = None
  BY <1>1 DEF Frames
<1>3. call' = [call EXCEPT ![t] = k]
  BY <1>1 DEF Done, Typed, FrameInv, Frames
<1> HIDE DEF k
<1>4. call'[t] = k /\ \A s \in Threads : s # t => call'[s] = call[s]
  BY <1>3 DEF Typed, FrameInv
<1> QED
  BY <1>2, <1>3, <1>4

LEMMA DoneOK ==
  ASSUME Typed, Grows, Len(hashes') \in Nat, Len(cass') \in Nat,
         NEW t \in Threads, NEW name, call[t].op # "idle", Done(t, name)
  PROVE  FrameInv'
<1>1. PICK k \in Frames :
        /\ k.op = call[t].op /\ k.arg = call[t].arg /\ k.hash = call[t].hash
        /\ k.stmt = call[t].stmt /\ k.todo = call[t].todo \ {name}
        /\ call' = [call EXCEPT ![t] = k]
  BY DoneFrame
<1>2. FrameOK(call[t])
  BY DEF Typed, FrameInv
<1>3. FrameOK(k)
  BY <1>1, <1>2 DEF FrameOK, BindFrame, ExecuteFrame
<1> QED
  BY <1>1, <1>3, FrameKept, FramesStep

LEMMA SameSizes ==
  ASSUME Typed, UNCHANGED <<hashes, cass>>
  PROVE  Grows /\ Len(hashes') \in Nat /\ Len(cass') \in Nat
BY TypedFacts DEF Grows


\* What is left to show of a step besides FrameInv.
DataOK ==
  /\ gvl \in Threads \cup {None}
  /\ hashes \in Seq([Known -> Stored]) /\ bound_values \in 0..Len(hashes)
  /\ older \in Seq(SUBSET (Known \X Known)) /\ Len(older) = Len(hashes)
  /\ page_size \in PageSizes /\ idempotent \in {"unset", "false", "true"}
  /\ cass \in Seq(CassStatement) /\ Len(cass) > 0
  /\ requests \in Seq([stmt : 1..Len(cass), built : CassStatement, encoded : SUBSET CassStatement])
  /\ content \in [Values -> Conversions] /\ given \in [Columns -> Contents \cup {Unbound}]

LEMMA TypedParts == Typed <=> DataOK /\ FrameInv
<1>1. Typed => DataOK /\ FrameInv
  BY DEF Typed, TypeOK, DataOK
<1>2. ASSUME DataOK, FrameInv
      PROVE  Typed
  <2>1. Len(hashes) \in Nat /\ Len(cass) \in Nat \ {0}
    BY <1>2, LenProperties DEF DataOK
  <2>2. ASSUME NEW t \in Threads
        PROVE  /\ call[t].op \in {"idle", "bind", "execute"}
               /\ call[t].hash \in 0..Len(hashes)
               /\ call[t].todo \subseteq Names
               /\ call[t].stmt \in 1..Len(cass)
    <3>1. call[t] \in Frames /\ FrameOK(call[t])
      BY <1>2 DEF FrameInv
    <3>2. CASE call[t].op = "idle"
      BY <2>1, <3>1, <3>2 DEF FrameOK, Idle
    <3>3. CASE call[t].op = "bind"
      BY <2>1, <3>1, <3>3 DEF FrameOK, BindFrame, Frames
    <3>4. CASE call[t].op = "execute"
      BY <2>1, <3>1, <3>4 DEF FrameOK, ExecuteFrame, Frames
    <3> QED
      BY <3>1, <3>2, <3>3, <3>4 DEF Frames
  <2> QED
    BY <1>2, <2>2 DEF Typed, TypeOK, DataOK
<1> QED
  BY <1>1, <1>2

LEMMA TypedStep ==
  ASSUME DataOK', FrameInv'
  PROVE  Typed'
BY TypedParts, PTL

LEMMA ReachSupplied ==
  ASSUME Typed, NEW t \in Threads, NEW name \in call[t].todo
  PROVE  /\ call[t].op # "idle"
         /\ Supplied(t, ValueAt(t, name))
<1>1. FrameOK(call[t]) /\ call[t].op \in {"idle", "bind", "execute"}
  BY DEF Typed, FrameInv, Frames
<1>2. call[t].op # "idle"
  BY <1>1 DEF FrameOK, Idle
<1>3. CASE call[t].op = "bind"
  <2>1. call[t].arg \in Arguments /\ name \in DOMAIN call[t].arg
    BY <1>1, <1>3 DEF FrameOK, BindFrame
  <2> QED
    BY <1>3, <2>1, StatementAssumption DEF Supplied, ValueAt
<1>4. CASE call[t].op = "execute"
  <2>1. name \in Known /\ call[t].hash \in 1..Len(hashes) /\ hashes[call[t].hash][name] # Unbound
    BY <1>1, <1>4, TypedFacts DEF FrameOK, ExecuteFrame
  <2> QED
    BY <1>4, <2>1, TypedFacts DEF Supplied, ValueAt
<1> QED
  BY <1>1, <1>2, <1>3, <1>4

LEMMA ResumeSupplied ==
  ASSUME Typed, NEW t \in Threads, call[t].at # None
  PROVE  /\ call[t].op # "idle"
         /\ call[t].at[1] \in Known
         /\ Supplied(t, call[t].at[2])
<1>1. FrameOK(call[t]) /\ call[t].op \in {"idle", "bind", "execute"} /\ call[t].at \in Known \X Values
  BY DEF Typed, FrameInv, Frames
<1>2. call[t].op # "idle"
  BY <1>1 DEF FrameOK, Idle
<1>3. call[t].at[1] \in Known /\ call[t].at[2] \in Values
  BY <1>1
<1> QED
  BY <1>2, <1>3, StatementAssumption DEF Supplied, Stored

LEMMA HashCbTyped ==
  ASSUME Typed, NEW t \in Threads, NEW name \in Known, NEW v, call[t].op # "idle",
         Supplied(t, v), hash_cb(t, name, v)
  PROVE  Typed'
<1>1. /\ UNCHANGED <<bound_values, page_size, idempotent, requests, content>>
      /\ gvl' \in {t, None}
  BY HashCbCases
<1>2. ASSUME Grows, Len(hashes') = Len(hashes), hashes' \in Seq([Known -> Stored]),
             Len(cass') = Len(cass), cass' \in Seq(CassStatement),
             given' \in [Columns -> Contents \cup {Unbound}],
             older' \in Seq(SUBSET (Known \X Known)), Len(older') = Len(older),
             Leave(t) \/ Done(t, name)
      PROVE  Typed'
  <2>1. FrameInv'
    BY <1>2, LeaveOK, DoneOK, TypedFacts DEF Leave
  <2>2. gvl' \in Threads \cup {None} /\ bound_values' \in 0..Len(hashes')
    BY <1>1, <1>2 DEF Typed, TypeOK
  <2>3. requests' \in Seq([stmt : 1..Len(cass'), built : CassStatement, encoded : SUBSET CassStatement])
    BY <1>1, <1>2 DEF Typed, TypeOK
  <2>4. DataOK'
    BY <1>1, <1>2, <2>2, <2>3 DEF Typed, TypeOK, DataOK
  <2> QED
    BY <2>1, <2>4, TypedStep
<1>3. ASSUME NEW x, Written(t, name, x), UNCHANGED hashes
      PROVE  /\ Grows /\ Len(hashes') = Len(hashes) /\ hashes' \in Seq([Known -> Stored])
             /\ Len(cass') = Len(cass) /\ cass' \in Seq(CassStatement)
  BY <1>3, TypedFacts DEF Written, Grows, Typed, TypeOK
<1>4. CASE BindsValue(t, name, v)
  <2>1. call[t].hash \in 1..Len(hashes) /\ Store(v) \in Stored /\ Store(v) # Unbound /\ content[v] \in Contents
    BY <1>4, StoreType DEF BindsValue, Typed, FrameInv, FrameOK, BindFrame
  <2>2. /\ hashes' \in Seq([Known -> Stored]) /\ Len(hashes') = Len(hashes)
        /\ \A g \in 1..Len(hashes), c \in Known :
             hashes'[g][c] = IF g = call[t].hash /\ c = name THEN Store(v) ELSE hashes[g][c]
    <3>1. hashes' = [hashes EXCEPT ![call[t].hash][name] = Store(v)]
      BY <1>4 DEF BindsValue
    <3> QED
      BY <2>1, <3>1, HashWritten
  <2>3. Len(cass') = Len(cass) /\ cass' \in Seq(CassStatement)
    BY <1>4 DEF BindsValue, Written
  <2>4. Grows
    BY <2>1, <2>2, <2>3, TypedFacts DEF Grows
  <2>5. given' \in [Columns -> Contents \cup {Unbound}]
    <3>1. ColumnOf[name] \in Columns
      BY StatementAssumption
    <3> QED
      BY <1>4, <2>1, <3>1 DEF BindsValue, Typed, TypeOK
  <2> QED
    BY <1>2, <1>4, <2>2, <2>3, <2>4, <2>5 DEF BindsValue
<1>5. CASE BindRefused(t, name)
  BY <1>2, <1>3, <1>5 DEF BindRefused, Typed, TypeOK
<1>6. CASE RebindsValue(t, name, v)
  BY <1>2, <1>3, <1>6 DEF RebindsValue, Typed, TypeOK
<1>7. CASE Rejected(t, v)
  BY <1>2, <1>7, SameSizes DEF Rejected, Typed, TypeOK
<1> QED
  BY <1>4, <1>5, <1>6, <1>7, HashCbCases

LEMMA InitTyped == Init => Typed
<1> SUFFICES ASSUME Init PROVE Typed
  OBVIOUS
<1>1. DefaultCass \in CassStatement /\ cass = <<DefaultCass>>
  BY StatementAssumption DEF Init, DefaultCass, CassStatement, Empty
<1> HIDE DEF DefaultCass
<1>2. cass \in Seq(CassStatement) /\ Len(cass) = 1
  BY <1>1
<1>3. hashes \in Seq([Known -> Stored]) /\ Len(hashes) = 0
  BY EmptySeq DEF Init
<1>4. requests \in Seq([stmt : 1..Len(cass), built : CassStatement, encoded : SUBSET CassStatement])
  BY EmptySeq DEF Init
<1>5. FrameInv
  BY IdleOK DEF Init, FrameInv
<1>6. /\ gvl \in Threads \cup {None} /\ bound_values \in 0..Len(hashes)
      /\ page_size \in PageSizes /\ idempotent \in {"unset", "false", "true"}
      /\ content \in [Values -> Conversions] /\ given \in [Columns -> Contents \cup {Unbound}]
  BY <1>3, StatementAssumption DEF Init, Empty
<1>7. older \in Seq(SUBSET (Known \X Known)) /\ Len(older) = 0
  <2> DEFINE Pairs == SUBSET (Known \X Known)
  <2> HIDE DEF Pairs
  <2>1. older \in Seq(Pairs) /\ Len(older) = 0
    BY EmptySeq DEF Init
  <2> QED
    BY <2>1 DEF Pairs
<1>8. DataOK
  BY <1>2, <1>3, <1>4, <1>6, <1>7 DEF DataOK
<1> QED
  BY <1>5, <1>8, TypedParts

\* The copy of the current hash that a bind works on.
LEMMA BindStarts ==
  ASSUME Typed, NEW t \in Threads, NEW arg \in Arguments, statement_bind(t, arg)
  PROVE  /\ hashes' \in Seq([Known -> Stored]) /\ Len(hashes') = Len(hashes) + 1
         /\ \A h \in 1..Len(hashes) : hashes'[h] = hashes[h]
         /\ hashes'[Len(hashes')] = Current
         /\ Typed'
<1>1. /\ hashes' = Append(hashes, Current) /\ bound_values' = Len(hashes')
      /\ UNCHANGED <<page_size, idempotent, given, cass, requests, content>>
  BY DEF statement_bind
<1>2. /\ hashes' \in Seq([Known -> Stored]) /\ Len(hashes') = Len(hashes) + 1
      /\ \A h \in 1..Len(hashes) : hashes'[h] = hashes[h]
      /\ hashes'[Len(hashes) + 1] = Current
  <2>1. hashes \in Seq([Known -> Stored]) /\ Current \in [Known -> Stored]
    BY CurrentType DEF Typed, TypeOK
  <2> QED
    BY <1>1, <2>1, AppendProperties
<1>3. Grows /\ Len(hashes') \in Nat /\ Len(cass') \in Nat
  BY <1>1, <1>2, TypedFacts DEF Grows
<1>4. FrameInv'
  <2>1. PICK k : k = [Idle EXCEPT !.op = "bind", !.arg = arg, !.hash = Len(hashes'), !.todo = DOMAIN arg]
    OBVIOUS
  <2>2. /\ k.op = "bind" /\ k.arg = arg /\ k.hash = Len(hashes') /\ k.todo = DOMAIN arg
        /\ k.stmt = 1 /\ k \in Frames
    BY <1>3, <2>1, StatementAssumption DEF Frames, Idle
  <2>3. call' = [call EXCEPT ![t] = k]
    BY <2>1 DEF statement_bind
  <2>4. k.hash \in 1..Len(hashes')
    BY <1>2, <1>3, <2>2, TypedFacts
  <2>5. FrameOK(k)'
    BY <2>2, <2>4 DEF FrameOK, BindFrame
  <2> QED
    BY <1>3, <2>3, <2>5, FramesStep
<1>5. gvl' \in Threads \cup {None} /\ bound_values' \in 0..Len(hashes')
  BY <1>1, <1>3 DEF statement_bind, Enter
<1>6. DataOK'
  <2>1. older' \in Seq(SUBSET (Known \X Known)) /\ Len(older') = Len(older) + 1
    BY OlderAppended DEF statement_bind
  <2> QED
    BY <1>1, <1>2, <1>5, <2>1 DEF Typed, TypeOK, DataOK
<1> QED
  BY <1>2, <1>4, <1>6, TypedStep

\* An execution starts with a CassStatement of its own, the last.
LEMMA ExecuteStarts ==
  ASSUME Typed, NEW t \in Threads, statement_build_for_execution(t)
  PROVE  /\ cass' \in Seq(CassStatement) /\ Len(cass') = Len(cass) + 1
         /\ \A j \in 1..Len(cass) : cass'[j] = cass[j]
         /\ cass'[Len(cass')] = NewCass(page_size)
         /\ \A s \in Threads : s # t => call'[s] = call[s]
         /\ call'[t].op = "execute" /\ call'[t].stmt = Len(cass') /\ call'[t].hash = bound_values
         /\ call'[t].at = None /\ call'[t].todo = Keys(Current)
         /\ Typed'
<1>1. /\ cass' = Append(cass, NewCass(page_size))
      /\ UNCHANGED <<statementVars, requests, content>>
  BY DEF statement_build_for_execution
<1>2. NewCass(page_size) \in CassStatement
  BY DEF NewCass, CassStatement, Empty, Typed, TypeOK
<1>3. /\ cass' \in Seq(CassStatement) /\ Len(cass') = Len(cass) + 1
      /\ \A j \in 1..Len(cass) : cass'[j] = cass[j]
      /\ cass'[Len(cass) + 1] = NewCass(page_size)
      /\ requests' \in Seq([stmt : 1..Len(cass'), built : CassStatement, encoded : SUBSET CassStatement])
  BY <1>1, <1>2, CassAppended
<1>4. Grows /\ Len(hashes') \in Nat /\ Len(cass') \in Nat /\ UNCHANGED hashes
  BY <1>1, <1>3, TypedFacts DEF Grows, statementVars
<1> DEFINE todo == Keys(Current)
<1>5. PICK k : k = [Idle EXCEPT !.op = "execute", !.hash = bound_values, !.stmt = Len(cass'), !.todo = todo]
  OBVIOUS
<1>6. /\ k.op = "execute" /\ k.hash = bound_values /\ k.stmt = Len(cass') /\ k.at = None
      /\ k.todo = todo /\ k \in Frames
  <2>1. todo \in SUBSET Names /\ bound_values \in Nat
    BY TypedFacts, StatementAssumption DEF Keys, Typed, TypeOK
  <2> HIDE DEF todo
  <2> QED
    BY <1>4, <1>5, <2>1 DEF Frames, Idle
<1>7. call' = [call EXCEPT ![t] = k]
  BY <1>5 DEF statement_build_for_execution
<1>8. FrameOK(k)'
  <2>1. bound_values \in 0..Len(hashes) /\ k.stmt \in 2..Len(cass')
    BY <1>3, <1>6, TypedFacts DEF Typed, TypeOK
  <2>2. ASSUME NEW c \in k.todo
        PROVE  k.hash # 0 /\ hashes[k.hash][c] # Unbound
    BY <1>6 DEF Keys, Current, NoKeys
  <2>3. ExecuteFrame(k)'
    BY <1>4, <1>6, <2>1, <2>2 DEF ExecuteFrame, Keys
  <2> QED
    BY <1>6, <2>3 DEF FrameOK
<1>9. FrameInv'
  BY <1>4, <1>7, <1>8, FramesStep
<1>10. DataOK'
  BY <1>1, <1>3 DEF statement_build_for_execution, Enter, statementVars, Typed, TypeOK, DataOK
<1>11. call'[t] = k /\ \A s \in Threads : s # t => call'[s] = call[s]
  BY <1>7 DEF Typed, FrameInv
<1> QED
  BY <1>3, <1>6, <1>9, <1>10, <1>11, TypedStep

\* The request takes over the CassStatement of the call.
LEMMA RequestMade ==
  ASSUME Typed, NEW t \in Threads, nogvl_session_execute(t)
  PROVE  /\ Len(requests') = Len(requests) + 1
         /\ \A n \in 1..Len(requests) : requests'[n] = requests[n]
         /\ requests'[Len(requests) + 1] =
              [stmt |-> call[t].stmt, built |-> cass[call[t].stmt], encoded |-> {}]
         /\ Typed'
<1> DEFINE request == [stmt |-> call[t].stmt, built |-> cass[call[t].stmt], encoded |-> {}]
           Requests == [stmt : 1..Len(cass), built : CassStatement, encoded : SUBSET CassStatement]
<1>1. requests' = Append(requests, request) /\ UNCHANGED <<statementVars, cass, content>>
  BY DEF nogvl_session_execute
<1>2. call[t].stmt \in 1..Len(cass)
  BY DEF Typed, TypeOK
<1>3. request \in Requests /\ requests \in Seq(Requests)
  BY <1>2, TypedFacts DEF Typed, TypeOK
<1> HIDE DEF request, Requests
<1>4. /\ requests' \in Seq(Requests) /\ Len(requests') = Len(requests) + 1
      /\ \A n \in 1..Len(requests) : requests'[n] = requests[n]
      /\ requests'[Len(requests) + 1] = request
  BY <1>1, <1>3, AppendProperties
<1>5. FrameInv'
  BY <1>1, SameSizes, LeaveOK DEF nogvl_session_execute, Leave, statementVars
<1>6. requests' \in Seq([stmt : 1..Len(cass'), built : CassStatement, encoded : SUBSET CassStatement])
  BY <1>1, <1>4 DEF Requests
<1>7. DataOK'
  BY <1>1, <1>6 DEF nogvl_session_execute, Leave, statementVars, Typed, TypeOK, DataOK
<1> QED
  BY <1>4, <1>5, <1>7, TypedStep DEF request

\* A setter writes to the first CassStatement.
LEMMA SetterWrites ==
  ASSUME Typed, NEW t \in Threads,
         \/ \E n \in PageSizes : statement_page_size(t, n)
         \/ \E b \in BOOLEAN : statement_idempotent(t, b)
  PROVE  /\ Len(cass') = Len(cass)
         /\ \A j \in 1..Len(cass) : j # 1 => cass'[j] = cass[j]
         /\ Typed'
<1>1. /\ UNCHANGED <<gvl, call, hashes, older, bound_values, given, requests, content>>
      /\ page_size' \in PageSizes /\ idempotent' \in {"unset", "false", "true"}
      /\ \E st \in CassStatement : cass' = [cass EXCEPT ![1] = st]
  <2>1. 1 \in 1..Len(cass) /\ cass[1] \in CassStatement
    BY TypedFacts
  <2>2. CASE \E n \in PageSizes : statement_page_size(t, n)
    <3>1. PICK n \in PageSizes : statement_page_size(t, n)
      BY <2>2
    <3>2. [cass[1] EXCEPT !.page_size = n] \in CassStatement
      BY <2>1 DEF CassStatement
    <3> QED
      BY <3>1, <3>2 DEF statement_page_size, hashVars, Typed, TypeOK
  <2>3. CASE \E b \in BOOLEAN : statement_idempotent(t, b)
    <3>1. PICK b \in BOOLEAN : statement_idempotent(t, b)
      BY <2>3
    <3>2. [cass[1] EXCEPT !.idempotent = b] \in CassStatement
      BY <2>1 DEF CassStatement
    <3> QED
      BY <3>1, <3>2 DEF statement_idempotent, hashVars, Typed, TypeOK
  <2> QED
    BY <2>2, <2>3
<1>2. PICK st \in CassStatement : cass' = [cass EXCEPT ![1] = st]
  BY <1>1
<1>3. /\ cass' \in Seq(CassStatement) /\ Len(cass') = Len(cass)
      /\ \A j \in 1..Len(cass) : j # 1 => cass'[j] = cass[j]
  <2>1. 1 \in 1..Len(cass)
    BY TypedFacts
  <2> QED
    BY <1>2, <2>1, CassWritten
<1>4. FrameInv'
  <2>1. Grows
    BY <1>1, <1>3, TypedFacts DEF Grows
  <2> QED
    BY <1>1, <1>3, <2>1, TypedFacts, FrameKept DEF Typed, FrameInv
<1>5. DataOK'
  BY <1>1, <1>3 DEF Typed, TypeOK, DataOK
<1> QED
  BY <1>3, <1>4, <1>5, TypedStep

LEMMA EncodeTyped ==
  ASSUME Typed, NEW n \in 1..Len(requests), Encode(n)
  PROVE  /\ Len(requests') = Len(requests)
         /\ \A m \in 1..Len(requests) : m # n => requests'[m] = requests[m]
         /\ requests'[n] = [requests[n] EXCEPT !.encoded = {cass[requests[n].stmt]}]
         /\ Typed'
<1> DEFINE request == [requests[n] EXCEPT !.encoded = {cass[requests[n].stmt]}]
           Requests == [stmt : 1..Len(cass), built : CassStatement, encoded : SUBSET CassStatement]
<1>1. requests' = [requests EXCEPT ![n] = request] /\ UNCHANGED <<gvl, call, statementVars, cass, content>>
  BY DEF Encode
<1>2. request \in Requests /\ requests \in Seq(Requests)
  BY TypedFacts DEF Typed, TypeOK
<1> HIDE DEF request, Requests
<1>3. /\ requests' \in Seq(Requests) /\ Len(requests') = Len(requests)
      /\ \A m \in 1..Len(requests) : requests'[m] = IF m = n THEN request ELSE requests[m]
  BY <1>1, <1>2, ExceptSeq
<1>4. FrameInv'
  BY <1>1, SameSizes, FrameKept DEF Typed, FrameInv, statementVars
<1>5. requests' \in Seq([stmt : 1..Len(cass'), built : CassStatement, encoded : SUBSET CassStatement])
  BY <1>1, <1>3 DEF Requests
<1>6. DataOK'
  BY <1>1, <1>5 DEF statementVars, Typed, TypeOK, DataOK
<1> QED
  BY <1>3, <1>4, <1>6, TypedStep DEF request

\* A key for which the frame alone changes: it is left, or a conversion starts.
LEMMA QuietTyped ==
  ASSUME Typed, NEW t \in Threads, NEW k, FrameOK(k), call' = [call EXCEPT ![t] = k],
         gvl' \in Threads \cup {None}, UNCHANGED <<statementVars, cass, requests, content>>
  PROVE  Typed'
<1>1. FrameInv'
  BY SameSizes, FrameKept, FramesStep DEF statementVars
<1>2. DataOK'
  BY DEF statementVars, Typed, TypeOK, DataOK
<1> QED
  BY <1>1, <1>2, TypedStep

LEMMA ReachCases ==
  ASSUME Typed, NEW t \in Threads, NEW name \in Names, Reach(t, name)
  PROVE  /\ call[t].op # "idle" /\ Supplied(t, ValueAt(t, name))
         /\ \/ Leave(t) /\ UNCHANGED <<statementVars, cass, requests, content>> /\ name \notin Known
            \/ /\ name \in Known /\ ValueAt(t, name) \in Values
               /\ call' = [call EXCEPT ![t].at = <<name, ValueAt(t, name)>>] /\ gvl' = None
               /\ UNCHANGED <<statementVars, cass, requests, content>>
            \/ name \in Known /\ hash_cb(t, name, ValueAt(t, name))
BY ReachSupplied DEF Reach, IsNext, RunsRuby

LEMMA NextTyped ==
  ASSUME Typed, [Next]_vars
  PROVE  Typed'
<1>1. ASSUME NEW t \in Threads, NEW name \in Names, Reach(t, name) PROVE Typed'
  <2>1. CASE Leave(t) /\ UNCHANGED <<statementVars, cass, requests, content>>
    BY <2>1, QuietTyped, IdleOK DEF Leave
  <2>2. CASE /\ name \in Known /\ ValueAt(t, name) \in Values
             /\ call' = [call EXCEPT ![t].at = <<name, ValueAt(t, name)>>] /\ gvl' = None
             /\ UNCHANGED <<statementVars, cass, requests, content>>
    <3>1. PICK k : k = [call[t] EXCEPT !.at = <<name, ValueAt(t, name)>>]
      OBVIOUS
    <3>2. call[t] \in Frames /\ FrameOK(call[t]) /\ call[t].op # "idle"
      BY <1>1, ReachCases DEF Typed, FrameInv
    <3>3. /\ k \in Frames /\ k.op = call[t].op /\ k.arg = call[t].arg
          /\ k.hash = call[t].hash /\ k.todo = call[t].todo /\ k.stmt = call[t].stmt
      BY <2>2, <3>1, <3>2 DEF Frames
    <3>4. FrameOK(k)
      BY <3>2, <3>3 DEF FrameOK, BindFrame, ExecuteFrame
    <3> QED
      BY <2>2, <3>1, <3>4, QuietTyped
  <2>3. CASE name \in Known /\ hash_cb(t, name, ValueAt(t, name))
    BY <1>1, <2>3, ReachCases, HashCbTyped
  <2> QED
    BY <1>1, <2>1, <2>2, <2>3, ReachCases
<1>2. ASSUME NEW t \in Threads, Convert(t) PROVE Typed'
  BY <1>2, ResumeSupplied, HashCbTyped DEF Convert, Resuming
<1>3. ASSUME NEW t \in Threads, BindReturn(t) PROVE Typed'
  BY <1>3, QuietTyped, IdleOK DEF BindReturn, Leave
<1>4. ASSUME NEW v \in Mutable, NEW x \in Conversions, Mutate(v, x) PROVE Typed'
  <2>1. FrameInv'
    BY <1>4, SameSizes, FrameKept DEF Mutate, Typed, FrameInv, statementVars
  <2>2. DataOK'
    BY <1>4 DEF Mutate, statementVars, Typed, TypeOK, DataOK
  <2> QED
    BY <2>1, <2>2, TypedStep
<1>5. CASE UNCHANGED vars
  <2>1. FrameInv'
    BY <1>5, SameSizes, FrameKept DEF vars, Typed, FrameInv, statementVars
  <2>2. DataOK'
    BY <1>5 DEF vars, statementVars, Typed, TypeOK, DataOK
  <2> QED
    BY <2>1, <2>2, TypedStep
<1> QED
  BY <1>1, <1>2, <1>3, <1>4, <1>5, BindStarts, ExecuteStarts, RequestMade, SetterWrites, EncodeTyped
     DEF Next

\* Every variable keeps its type: whatever threads, objects and orders there
\* are, a CassStatement is only ever given contents (statement.c:68-229), and a
\* request names one that exists.
THEOREM TypeCorrect == Spec => []TypeOK
<1>1. Typed => TypeOK
  BY DEF Typed
<1> QED
  BY <1>1, InitTyped, NextTyped, PTL DEF Spec

-----------------------------------------------------------------------------
(* What was handed over stays as it was.                                   *)

\* A step that starts no execution, and writes to no CassStatement but i, which
\* was not handed over.
LEMMA WriteKeeps ==
  ASSUME Typed, HandedOver, NEW i, UNCHANGED requests,
         \A j \in 1..Len(cass) : j # i => cass'[j] = cass[j],
         \A n \in 1..Len(requests) : requests[n].stmt # i,
         \A s \in Threads : call'[s].op = "execute" =>
                              call[s].op = "execute" /\ call'[s].stmt = call[s].stmt
  PROVE  HandedOver'
<1>1. \A n \in 1..Len(requests) : requests[n].stmt \in 1..Len(cass)
  BY TypedFacts
<1>2. \A n \in 1..Len(requests) : cass'[requests[n].stmt] = cass[requests[n].stmt]
  BY <1>1
<1> QED
  BY <1>2 DEF HandedOver

LEMMA DoneKeepsCall ==
  ASSUME Typed, NEW t \in Threads, NEW name, Done(t, name) \/ Leave(t)
  PROVE  \A s \in Threads : call'[s].op = "execute" =>
                              call[s].op = "execute" /\ call'[s].stmt = call[s].stmt
<1>1. CASE Leave(t)
  BY <1>1 DEF Leave, Idle, Typed, FrameInv
<1>2. CASE Done(t, name)
  BY <1>2, DoneFrame
<1> QED
  BY <1>1, <1>2

LEMMA HashCbKeeps ==
  ASSUME Typed, HandedOver, NEW t \in Threads, NEW name \in Known, NEW v, call[t].op # "idle",
         Supplied(t, v), hash_cb(t, name, v)
  PROVE  HandedOver'
<1>1. UNCHANGED requests
  BY HashCbCases
<1>2. FrameOK(call[t])
  BY DEF Typed, FrameInv
<1>3. \A n \in 1..Len(requests) : requests[n].stmt # call[t].stmt
  BY <1>2 DEF HandedOver, FrameOK, BindFrame, Frames
<1>4. Done(t, name) \/ Leave(t)
  BY HashCbCases DEF BindsValue, BindRefused, RebindsValue, Rejected
<1>5. \A j \in 1..Len(cass) : j # call[t].stmt => cass'[j] = cass[j]
  <2>1. cass' = cass \/ \E x : Written(t, name, x)
    BY HashCbCases DEF BindsValue, BindRefused, RebindsValue, Rejected
  <2> QED
    BY <2>1 DEF Written
<1> QED
  BY <1>1, <1>3, <1>4, <1>5, DoneKeepsCall, WriteKeeps

LEMMA NextHandedOver ==
  ASSUME Typed, HandedOver, [Next]_vars
  PROVE  HandedOver'
<1>1. ASSUME UNCHANGED <<cass, requests>>,
             \A s \in Threads : call'[s].op = "execute" =>
                                  call[s].op = "execute" /\ call'[s].stmt = call[s].stmt
      PROVE  HandedOver'
  BY <1>1 DEF HandedOver
<1>2. ASSUME NEW t \in Threads, NEW name \in Names, Reach(t, name) PROVE HandedOver'
  <2>1. CASE Leave(t) /\ UNCHANGED <<statementVars, cass, requests, content>>
    BY <1>1, <2>1, DoneKeepsCall
  <2>2. CASE /\ call' = [call EXCEPT ![t].at = <<name, ValueAt(t, name)>>]
             /\ UNCHANGED <<statementVars, cass, requests, content>>
    <3>1. \A s \in Threads : call'[s].op = call[s].op /\ call'[s].stmt = call[s].stmt
      BY <2>2 DEF Typed, FrameInv, Frames
    <3> QED
      BY <1>1, <2>2, <3>1
  <2>3. CASE name \in Known /\ hash_cb(t, name, ValueAt(t, name))
    BY <1>2, <2>3, ReachCases, HashCbKeeps
  <2> QED
    BY <1>2, <2>1, <2>2, <2>3, ReachCases
<1>3. ASSUME NEW t \in Threads, Convert(t) PROVE HandedOver'
  BY <1>3, ResumeSupplied, HashCbKeeps DEF Convert, Resuming
<1>4. ASSUME NEW t \in Threads, BindReturn(t) PROVE HandedOver'
  BY <1>1, <1>4, DoneKeepsCall DEF BindReturn
<1>5. ASSUME NEW t \in Threads, NEW arg \in Arguments, statement_bind(t, arg) PROVE HandedOver'
  BY <1>1, <1>5 DEF statement_bind, Idle, Typed, FrameInv
<1>6. ASSUME NEW t \in Threads, \/ \E n \in PageSizes : statement_page_size(t, n)
                                \/ \E b \in BOOLEAN : statement_idempotent(t, b)
      PROVE  HandedOver'
  <2>1. UNCHANGED <<call, requests>> /\ \A j \in 1..Len(cass) : j # 1 => cass'[j] = cass[j]
    BY <1>6, SetterWrites DEF statement_page_size, statement_idempotent, hashVars
  <2>2. \A n \in 1..Len(requests) : requests[n].stmt # 1
    BY DEF HandedOver
  <2> QED
    BY <2>1, <2>2, WriteKeeps
<1>7. ASSUME NEW t \in Threads, statement_build_for_execution(t) PROVE HandedOver'
  <2>1. UNCHANGED requests /\ Len(cass) \in Nat \ {0} /\ call[t].op = "idle"
    BY <1>7, TypedFacts DEF statement_build_for_execution, Enter
  <2>2. /\ Len(cass') = Len(cass) + 1 /\ \A j \in 1..Len(cass) : cass'[j] = cass[j]
        /\ \A s \in Threads : s # t => call'[s] = call[s]
        /\ call'[t].op = "execute" /\ call'[t].stmt = Len(cass) + 1
    BY <1>7, ExecuteStarts
  <2>3. \A n \in 1..Len(requests) : requests[n].stmt \in 1..Len(cass)
    BY TypedFacts
  <2>4. \A s \in Threads : call[s].stmt \in 1..Len(cass)
    BY DEF Typed, TypeOK
  <2>5. \A n \in 1..Len(requests) : cass'[requests[n].stmt] = cass[requests[n].stmt]
    BY <2>2, <2>3
  <2>6. \A k \in 1..Len(cass) : k # Len(cass) + 1
    BY <2>1
  <2>7. \A s \in Threads, n \in 1..Len(requests) :
          call'[s].op = "execute" => call'[s].stmt # requests[n].stmt
    BY <2>2, <2>3, <2>6 DEF HandedOver
  <2>8. \A r, s \in Threads :
          call'[r].op = "execute" /\ call'[s].op = "execute" /\ call'[r].stmt = call'[s].stmt => r = s
    BY <2>2, <2>4, <2>6 DEF HandedOver
  <2> QED
    BY <2>1, <2>5, <2>7, <2>8 DEF HandedOver
<1>8. ASSUME NEW t \in Threads, nogvl_session_execute(t) PROVE HandedOver'
  <2> DEFINE N == Len(requests)
             request == [stmt |-> call[t].stmt, built |-> cass[call[t].stmt], encoded |-> {}]
  <2>1. /\ N \in Nat /\ Len(requests') = N + 1
        /\ \A n \in 1..N : requests'[n] = requests[n]
        /\ requests'[N + 1] = request
    BY <1>8, RequestMade, TypedFacts
  <2>2. /\ call[t].op = "execute" /\ UNCHANGED cass
        /\ call'[t] = Idle /\ \A s \in Threads : s # t => call'[s] = call[s]
    BY <1>8 DEF nogvl_session_execute, Leave, Typed, FrameInv
  <2>3. request.stmt = call[t].stmt /\ request.stmt # 1 /\ request.built = cass[call[t].stmt] /\ request.encoded = {}
    BY <2>2 DEF Typed, FrameInv, FrameOK, ExecuteFrame
  <2> HIDE DEF request
  <2>4. \A n \in 1..Len(requests') : n = N + 1 \/ n \in 1..N
    BY <2>1
  <2>5. \A n \in 1..Len(requests') :
          /\ requests'[n].stmt # 1
          /\ requests'[n].built = cass'[requests'[n].stmt]
          /\ requests'[n].encoded \subseteq {requests'[n].built}
    BY <2>1, <2>2, <2>3, <2>4 DEF HandedOver
  <2>6. \A s \in Threads : call'[s].op = "execute" => s # t /\ call[s].op = "execute" /\ call'[s] = call[s]
    BY <2>2 DEF Idle
  <2>7. \A s \in Threads, n \in 1..Len(requests') :
          call'[s].op = "execute" => call'[s].stmt # requests'[n].stmt
    BY <2>1, <2>2, <2>3, <2>4, <2>6 DEF HandedOver
  <2>8. \A r, s \in Threads :
          call'[r].op = "execute" /\ call'[s].op = "execute" /\ call'[r].stmt = call'[s].stmt => r = s
    BY <2>6 DEF HandedOver
  <2> QED
    BY <2>5, <2>7, <2>8 DEF HandedOver
<1>9. ASSUME NEW n \in 1..Len(requests), Encode(n) PROVE HandedOver'
  <2>1. /\ Len(requests') = Len(requests)
        /\ \A m \in 1..Len(requests) : m # n => requests'[m] = requests[m]
        /\ requests'[n] = [requests[n] EXCEPT !.encoded = {cass[requests[n].stmt]}]
        /\ UNCHANGED <<cass, call>>
    BY <1>9, EncodeTyped DEF Encode
  <2>2. /\ requests'[n].stmt = requests[n].stmt /\ requests'[n].built = requests[n].built
        /\ requests'[n].encoded = {cass[requests[n].stmt]}
    BY <2>1, TypedFacts
  <2>3. \A m \in 1..Len(requests) :
          /\ requests'[m].stmt = requests[m].stmt /\ requests'[m].built = requests[m].built
          /\ requests'[m].encoded \subseteq {requests'[m].built}
    BY <2>1, <2>2 DEF HandedOver
  <2> QED
    BY <2>1, <2>3 DEF HandedOver
<1>10. ASSUME NEW v \in Mutable, NEW x \in Conversions, Mutate(v, x) PROVE HandedOver'
  BY <1>1, <1>10 DEF Mutate
<1>11. CASE UNCHANGED vars
  BY <1>1, <1>11 DEF vars
<1> QED
  BY <1>2, <1>3, <1>4, <1>5, <1>6, <1>7, <1>8, <1>9, <1>10, <1>11 DEF Next

LEMMA Invariance == Spec => [](Typed /\ HandedOver)
<1>1. Init => HandedOver
  BY DEF Init, HandedOver, Idle
<1> QED
  BY <1>1, InitTyped, NextTyped, NextHandedOver, PTL DEF Spec

\* The driver reads a CassStatement at any time after it was handed over, on its
\* own thread, and reads what was there then (statement.c:197-229,
\* session.c:96-97): no bind, setter or other execution of any thread writes to
\* it.  It is executed by the call that built it, and by no other.
THEOREM EncodesWhatWasBuilt == Spec => []EncodedAsBuilt
<1>1. HandedOver => EncodedAsBuilt
  BY DEF HandedOver, EncodedAsBuilt
<1> QED
  BY <1>1, Invariance, PTL

-----------------------------------------------------------------------------
(* What bind has accepted.  The values that are stored are objects that do  *)
(* not change, and contents.                                               *)

LEMMA HashCbKept ==
  ASSUME Typed, KeptInv, NEW t \in Threads, NEW name \in Known, NEW v, call[t].op # "idle",
         Supplied(t, v), hash_cb(t, name, v)
  PROVE  KeptInv'
<1>1. UNCHANGED content
  BY HashCbCases
<1>2. \A w : Kept(w)' <=> Kept(w)
  BY <1>1 DEF Kept, Accepted, Converted
<1>3. \A s \in Threads : call'[s].op = "execute" /\ call'[s].at # None =>
                           call[s].op = "execute" /\ call'[s].at = call[s].at
  <2>1. CASE Leave(t)
    BY <2>1 DEF Leave, Idle, Typed, FrameInv
  <2>2. CASE Done(t, name)
    BY <2>2, DoneFrame
  <2> QED
    BY <2>1, <2>2, HashCbCases DEF BindsValue, BindRefused, RebindsValue, Rejected
<1>4. \A h \in 1..Len(hashes'), c \in Known : Kept(hashes'[h][c])
  <2>1. CASE UNCHANGED hashes
    BY <2>1 DEF KeptInv
  <2>2. CASE BindsValue(t, name, v)
    <3>1. call[t].hash \in 1..Len(hashes) /\ Store(v) \in Stored /\ Kept(Store(v))
      BY <2>2, StoreType DEF BindsValue, Typed, FrameInv, FrameOK, BindFrame
    <3>2. hashes' = [hashes EXCEPT ![call[t].hash][name] = Store(v)]
      BY <2>2 DEF BindsValue
    <3>3. /\ Len(hashes') = Len(hashes)
          /\ \A g \in 1..Len(hashes), c \in Known :
               hashes'[g][c] = IF g = call[t].hash /\ c = name THEN Store(v) ELSE hashes[g][c]
      BY <3>1, <3>2, HashWritten
    <3> QED
      BY <3>1, <3>3 DEF KeptInv
  <2> QED
    BY <2>1, <2>2, HashCbCases DEF BindRefused, RebindsValue, Rejected
<1> QED
  BY <1>2, <1>3, <1>4 DEF KeptInv

LEMMA NextKept ==
  ASSUME StringsChange, Typed, KeptInv, [Next]_vars
  PROVE  KeptInv'
<1>1. ASSUME UNCHANGED <<hashes, content>>,
             \A s \in Threads : call'[s].op = "execute" /\ call'[s].at # None =>
               \/ call[s].op = "execute" /\ call'[s].at = call[s].at
               \/ Kept(call'[s].at[2])
      PROVE  KeptInv'
  <2>1. \A w : Kept(w)' <=> Kept(w)
    BY <1>1 DEF Kept, Accepted, Converted
  <2> QED
    BY <1>1, <2>1 DEF KeptInv
<1>2. ASSUME NEW t \in Threads, NEW name \in Names, Reach(t, name) PROVE KeptInv'
  <2>1. CASE Leave(t) /\ UNCHANGED <<statementVars, cass, requests, content>>
    BY <1>1, <2>1 DEF Leave, Idle, Typed, FrameInv, statementVars
  <2>2. CASE /\ name \in Known
             /\ call' = [call EXCEPT ![t].at = <<name, ValueAt(t, name)>>]
             /\ UNCHANGED <<statementVars, cass, requests, content>>
    <3>1. /\ \A s \in Threads : s # t => call'[s] = call[s]
          /\ call'[t].op = call[t].op /\ call'[t].at = <<name, ValueAt(t, name)>>
      BY <2>2 DEF Typed, FrameInv, Frames
    <3>2. call[t].op = "execute" => Kept(ValueAt(t, name))
      <4>1. call[t].op = "execute" => call[t].hash \in 1..Len(hashes)
        BY <1>2, TypedFacts DEF Reach, IsNext, Typed, FrameInv, FrameOK, ExecuteFrame
      <4> QED
        BY <2>2, <4>1 DEF ValueAt, KeptInv
    <3> QED
      BY <1>1, <2>2, <3>1, <3>2 DEF statementVars
  <2>3. CASE name \in Known /\ hash_cb(t, name, ValueAt(t, name))
    BY <1>2, <2>3, ReachCases, HashCbKept
  <2> QED
    BY <1>2, <2>1, <2>2, <2>3, ReachCases
<1>3. ASSUME NEW t \in Threads, Convert(t) PROVE KeptInv'
  BY <1>3, ResumeSupplied, HashCbKept DEF Convert, Resuming
<1>4. ASSUME NEW t \in Threads, BindReturn(t) \/ nogvl_session_execute(t) PROVE KeptInv'
  BY <1>1, <1>4 DEF BindReturn, nogvl_session_execute, Leave, Idle, Typed, FrameInv, statementVars
<1>5. ASSUME NEW t \in Threads, NEW arg \in Arguments, statement_bind(t, arg) PROVE KeptInv'
  <2>1. /\ Len(hashes') = Len(hashes) + 1 /\ \A h \in 1..Len(hashes) : hashes'[h] = hashes[h]
        /\ hashes'[Len(hashes) + 1] = Current /\ Len(hashes) \in Nat
    BY <1>5, BindStarts, TypedFacts
  <2>2. \A w : Kept(w)' <=> Kept(w)
    BY <1>5 DEF statement_bind, Kept, Accepted, Converted
  <2>3. \A c \in Known : Kept(Current[c])
    <3>1. Kept(Unbound)
      BY StatementAssumption DEF Kept, Accepted, Converted, Conversions
    <3>2. bound_values # 0 => bound_values \in 1..Len(hashes)
      BY <2>1 DEF Typed, TypeOK
    <3> QED
      BY <3>1, <3>2 DEF Current, NoKeys, KeptInv
  <2>4. \A s \in Threads : call'[s].op = "execute" => call'[s] = call[s]
    BY <1>5 DEF statement_bind, Idle, Typed, FrameInv
  <2>5. \A h \in 1..Len(hashes') : h \in 1..Len(hashes) \/ h = Len(hashes) + 1
    BY <2>1
  <2>6. \A h \in 1..Len(hashes'), c \in Known : Kept(hashes'[h][c])
    BY <2>1, <2>3, <2>5 DEF KeptInv
  <2> QED
    BY <2>2, <2>4, <2>6 DEF KeptInv
<1>6. ASSUME NEW t \in Threads, \/ \E n \in PageSizes : statement_page_size(t, n)
                                \/ \E b \in BOOLEAN : statement_idempotent(t, b)
      PROVE  KeptInv'
  BY <1>1, <1>6 DEF statement_page_size, statement_idempotent, hashVars
<1>7. ASSUME NEW t \in Threads, statement_build_for_execution(t) PROVE KeptInv'
  BY <1>1, <1>7, ExecuteStarts DEF statement_build_for_execution, statementVars
<1>8. ASSUME NEW n \in 1..Len(requests), Encode(n) PROVE KeptInv'
  BY <1>1, <1>8 DEF Encode, statementVars
<1>9. ASSUME NEW v \in Mutable, NEW x \in Conversions, Mutate(v, x) PROVE KeptInv'
  <2>1. \A w : w # v => Converted(w)' = Converted(w)
    BY <1>9 DEF Mutate, Converted, Typed, TypeOK
  <2>2. v \in Values /\ KindOf[v] # "object"
    BY StatementAssumption DEF StringsChange
  <2>3. \A w : Kept(w) => Kept(w)'
    BY <2>1, <2>2 DEF Kept, Accepted
  <2> QED
    BY <1>9, <2>3 DEF Mutate, statementVars, KeptInv
<1>10. CASE UNCHANGED vars
  BY <1>1, <1>10 DEF vars, statementVars
<1> QED
  BY <1>2, <1>3, <1>4, <1>5, <1>6, <1>7, <1>8, <1>9, <1>10 DEF Next

\* Whose call a step is about: the others keep theirs.
LEMMA OtherCalls ==
  ASSUME Typed, NEW t \in Threads, NEW k, call' = [call EXCEPT ![t] = k]
  PROVE  call'[t] = k /\ \A s \in Threads : s # t => call'[s] = call[s]
BY DEF Typed, FrameInv

\* An execution that comes to a value which was stored is not refused.
LEMMA ExecutionStays ==
  ASSUME Typed, NEW t \in Threads, NEW name \in Known, NEW v, call[t].op # "idle",
         Supplied(t, v), hash_cb(t, name, v), call[t].op = "execute" => Kept(v)
  PROVE  \A s \in Threads : call[s].op = "execute" => call'[s].op = "execute"
<1>1. CASE RebindsValue(t, name, v)
  BY <1>1, DoneFrame DEF RebindsValue
<1>2. CASE call[t].op # "execute" /\ (Leave(t) \/ Done(t, name))
  BY <1>2, DoneFrame, OtherCalls DEF Leave
<1> QED
  BY <1>1, <1>2, HashCbCases DEF BindsValue, BindRefused, Rejected, Kept

LEMMA NextAccepted ==
  ASSUME Typed, KeptInv, [Next]_vars, NEW t \in Threads,
         call[t].op = "execute", call'[t].op = "idle"
  PROVE  Len(requests') > Len(requests)
<1>0. ASSUME NEW s \in Threads, nogvl_session_execute(s) PROVE Len(requests') > Len(requests)
  <2>1. Len(requests') = Len(requests) + 1 /\ Len(requests) \in Nat
    BY <1>0, RequestMade, TypedFacts
  <2> QED
    BY <2>1
<1> SUFFICES ASSUME \A s \in Threads : ~nogvl_session_execute(s)
             PROVE  call'[t].op = "execute"
  BY <1>0
<1>1. ASSUME NEW s \in Threads, NEW name \in Names, Reach(s, name) PROVE call'[t].op = "execute"
  <2>1. FrameOK(call[s]) /\ name \in call[s].todo
    BY <1>1 DEF Typed, FrameInv, Reach, IsNext
  <2>2. CASE Leave(s) /\ name \notin Known
    BY <2>1, <2>2, OtherCalls DEF Leave, FrameOK, ExecuteFrame
  <2>3. CASE call' = [call EXCEPT ![s].at = <<name, ValueAt(s, name)>>]
    BY <2>3 DEF Typed, FrameInv, Frames
  <2>4. CASE name \in Known /\ hash_cb(s, name, ValueAt(s, name))
    <3>1. call[s].op = "execute" => Kept(ValueAt(s, name))
      BY <2>1, <2>4, TypedFacts DEF FrameOK, ExecuteFrame, ValueAt, KeptInv
    <3> QED
      BY <1>1, <2>4, <3>1, ReachCases, ExecutionStays
  <2> QED
    BY <1>1, <2>2, <2>3, <2>4, ReachCases
<1>2. ASSUME NEW s \in Threads, Convert(s) PROVE call'[t].op = "execute"
  BY <1>2, ResumeSupplied, ExecutionStays DEF Convert, Resuming, KeptInv
<1>3. ASSUME NEW s \in Threads, BindReturn(s) PROVE call'[t].op = "execute"
  BY <1>3, OtherCalls DEF BindReturn, Leave
<1>4. ASSUME NEW s \in Threads, NEW arg \in Arguments, statement_bind(s, arg)
      PROVE  call'[t].op = "execute"
  BY <1>4, OtherCalls DEF statement_bind, Enter
<1>5. ASSUME NEW s \in Threads, statement_build_for_execution(s) PROVE call'[t].op = "execute"
  BY <1>5, ExecuteStarts
<1>6. ASSUME UNCHANGED call PROVE call'[t].op = "execute"
  BY <1>6
<1> QED
  BY <1>1, <1>2, <1>3, <1>4, <1>5, <1>6
     DEF Next, vars, statement_page_size, statement_idempotent, Encode, Mutate

\* A value that bind has stored is not refused when it is bound again for an
\* execution (statement.c:215-229, session.c:113-114), by whatever threads the
\* statement is used: as long as the objects with to_int or to_f answer the same,
\* for these are stored themselves.  Strings and Times may change.
THEOREM ExecutedOnceBound ==
  ASSUME StringsChange
  PROVE  Spec => ExecutionsAccepted
<1>1. Init => KeptInv
  BY DEF Init, KeptInv, Idle
<1>2. Typed /\ KeptInv /\ [Next]_vars => KeptInv'
  BY NextKept
<1>3. Typed /\ KeptInv /\ [Next]_vars =>
        [\A t \in Threads : call[t].op = "execute" /\ call'[t].op = "idle" =>
                              Len(requests') > Len(requests)]_vars
  BY NextAccepted
<1>4. Spec => [](Typed /\ KeptInv)
  BY <1>1, <1>2, InitTyped, NextTyped, PTL DEF Spec
<1> QED
  BY <1>3, <1>4, PTL DEF Spec, ExecutionsAccepted

-----------------------------------------------------------------------------
(* One thread: what is bound is what was given, and what is executed.       *)

OneInv == Typed /\ KeptInv /\ BoundInv /\ ExecuteInv

\* A key is then the column that it names.
LEMMA OneSpells ==
  ASSUME OneSpelling
  PROVE  Known = Columns /\ \A c \in Columns : ColumnOf[c] = c
<1>1. ASSUME NEW n \in Known PROVE n \in Columns
  <2>1. ColumnOf[n] \in Columns
    BY StatementAssumption
  <2>2. ColumnOf[n] \in Known /\ ColumnOf[ColumnOf[n]] = ColumnOf[n]
    BY <2>1, StatementAssumption
  <2> QED
    BY <2>1, <2>2 DEF OneSpelling
<1> QED
  BY <1>1, StatementAssumption

LEMMA BoundToCurrent ==
  ASSUME OneSpelling, NEW c \in Columns
  PROVE  BoundTo(c) = Current[c]
<1> DEFINE keys == {n \in Keys(Current) : ColumnOf[n] = c}
           IsLast(n) == \A m \in keys \ {n} : <<n, m>> \notin older[bound_values]
<1>1. Known = Columns /\ \A n \in Columns : ColumnOf[n] = n
  BY OneSpells
<1>2. BoundTo(c) = IF keys = {} THEN Unbound ELSE Current[CHOOSE n \in keys : IsLast(n)]
  BY DEF BoundTo
<1>3. keys = IF Current[c] = Unbound THEN {} ELSE {c}
  BY <1>1 DEF Keys
<1>4. CASE Current[c] = Unbound
  BY <1>2, <1>3, <1>4
<1>5. CASE Current[c] # Unbound
  <2>1. keys = {c} /\ IsLast(c)
    BY <1>3, <1>5
  <2>2. (CHOOSE n \in keys : IsLast(n)) = c
    BY <2>1
  <2> QED
    BY <1>2, <2>1, <2>2
<1> QED
  BY <1>4, <1>5

\* In a bind or an execution of the only thread, the hash is the current one.
LEMMA CurrentHash ==
  ASSUME Typed, BoundInv, NEW t \in Threads, call[t].op # "idle", call[t].hash # 0
  PROVE  call[t].hash = bound_values /\ bound_values \in 1..Len(hashes) /\ Current = hashes[call[t].hash]
<1>1. call[t].hash = bound_values /\ bound_values \in 0..Len(hashes)
  BY DEF BoundInv, Typed, TypeOK
<1> QED
  BY <1>1, TypedFacts DEF Current

\* A step that starts no call and leaves the hashes and what they convert to.
LEMMA BoundKept ==
  ASSUME BoundInv, UNCHANGED <<hashes, bound_values, given, content>>,
         \A t \in Threads : call'[t].op # "idle" =>
                              call[t].op # "idle" /\ call'[t].hash = call[t].hash
  PROVE  BoundInv' /\ Current' = Current
<1>1. Current' = Current
  BY DEF Current
<1>2. \A v : Converted(v)' = Converted(v)
  BY DEF Converted
<1> QED
  BY <1>1, <1>2 DEF BoundInv

\* Where the value of an execution comes from.
LEMMA RebindsGiven ==
  ASSUME OneSpelling, OneInv, NEW t \in Threads, call[t].op = "execute"
  PROVE  /\ call[t].at # None => Converted(call[t].at[2]) = given[call[t].at[1]]
         /\ \A name \in call[t].todo :
              ValueAt(t, name) = Current[name] /\ Converted(ValueAt(t, name)) = given[name]
<1> Known = Columns /\ \A c \in Columns : ColumnOf[c] = c
  BY OneSpells
<1>1. FrameOK(call[t]) /\ call[t].at \in {None} \cup (Columns \X Values)
  BY DEF OneInv, Typed, FrameInv, Frames
<1>2. call[t].at # None => call[t].at[1] \in Columns /\ call[t].at[2] = Current[call[t].at[1]]
  BY <1>1 DEF OneInv, ExecuteInv
<1>3. ASSUME NEW name \in call[t].todo
      PROVE  name \in Columns /\ ValueAt(t, name) = Current[name]
  <2>1. call[t].hash # 0 /\ name \in Columns
    BY <1>1 DEF FrameOK, ExecuteFrame
  <2> QED
    BY <2>1, CurrentHash DEF OneInv, ValueAt
<1> QED
  BY <1>2, <1>3 DEF OneInv, BoundInv

LEMMA HashCbBound ==
  ASSUME OneThread, OneSpelling, OneInv, NEW t \in Threads, NEW name \in Known, NEW v, call[t].op # "idle",
         Supplied(t, v), hash_cb(t, name, v),
         call[t].op = "execute" => Converted(v) = given[name]
  PROVE  BoundInv' /\ ExecuteInv'
<1> Known = Columns /\ \A c \in Columns : ColumnOf[c] = c
  BY OneSpells
<1> Typed /\ BoundInv /\ ExecuteInv
  BY DEF OneInv
<1>1. UNCHANGED <<bound_values, page_size, idempotent, content>>
  BY HashCbCases
<1>2. \A s \in Threads : s = t
  BY DEF OneThread
<1>3. CASE Leave(t) /\ UNCHANGED <<hashes, older, given>>
  <2>1. call'[t] = Idle
    BY <1>3, OtherCalls DEF Leave
  <2>2. BoundInv'
    BY <1>1, <1>2, <1>3, <2>1, BoundKept DEF Idle
  <2> QED
    BY <1>2, <2>1, <2>2 DEF ExecuteInv, Idle
<1>4. CASE BindsValue(t, name, v)
  <2>1. call[t].hash \in 1..Len(hashes) /\ Store(v) \in Stored /\ Converted(Store(v)) = content[v]
    BY <1>4, StoreType DEF BindsValue, Typed, FrameInv, FrameOK, BindFrame
  <2>2. bound_values = call[t].hash /\ bound_values # 0 /\ Current = hashes[call[t].hash]
    BY <2>1, CurrentHash, TypedFacts
  <2>3. /\ hashes' = [hashes EXCEPT ![call[t].hash][name] = Store(v)]
        /\ given' = [given EXCEPT ![name] = content[v]]
    BY <1>4 DEF BindsValue
  <2>4. \A c \in Columns : hashes'[call[t].hash][c] = IF c = name THEN Store(v) ELSE Current[c]
    <3>1. name \in Known /\ hashes' = [hashes EXCEPT ![call[t].hash][name] = Store(v)]
      BY <2>3
    <3>2. \A g \in 1..Len(hashes), c \in Known :
            hashes'[g][c] = IF g = call[t].hash /\ c = name THEN Store(v) ELSE hashes[g][c]
      BY ONLY Typed, <2>1, <3>1, HashWritten
    <3> QED
      BY <2>1, <2>2, <3>2
  <2>5. \A c \in Columns : Current'[c] = IF c = name THEN Store(v) ELSE Current[c]
    BY <1>1, <2>2, <2>4 DEF Current
  <2>6. \A c \in Columns : given'[c] = IF c = name THEN content[v] ELSE given[c]
    BY <2>3 DEF Typed, TypeOK
  <2>7. \A w : Converted(w)' = Converted(w)
    BY <1>1 DEF Converted
  <2>8. call'[t].op = "bind" /\ call'[t].hash = bound_values'
    BY <1>1, <1>4, <2>2, DoneFrame DEF BindsValue
  <2>9. \A c \in Columns : Converted(Current[c])' = given'[c]
    BY <2>1, <2>5, <2>6, <2>7 DEF BoundInv
  <2> QED
    BY <1>2, <2>8, <2>9 DEF BoundInv, ExecuteInv
<1>5. CASE RebindsValue(t, name, v)
  <2>1. PICK k \in Frames :
          /\ k.op = "execute" /\ k.hash = call[t].hash /\ k.stmt = call[t].stmt
          /\ k.todo = call[t].todo \ {name} /\ k.at = None /\ call'[t] = k
    BY <1>5, DoneFrame DEF RebindsValue
  <2>2. BoundInv' /\ Current' = Current /\ UNCHANGED given
    <3>1. UNCHANGED <<hashes, older, given>>
      BY <1>5 DEF RebindsValue
    <3> QED
      BY <1>1, <1>2, <1>5, <2>1, <3>1, BoundKept DEF RebindsValue
  <2>3. cass[call[t].stmt] \in CassStatement
    BY TypedFacts DEF Typed, TypeOK
  <2>4. /\ cass'[k.stmt].page_size = cass[k.stmt].page_size
        /\ cass'[k.stmt].idempotent = cass[k.stmt].idempotent
        /\ \A c \in Columns : cass'[k.stmt].values[c] =
                                IF c = name THEN given[name] ELSE cass[k.stmt].values[c]
    BY <1>5, <2>1, <2>3 DEF RebindsValue, Written, CassStatement
  <2>5. \A c \in Columns \ k.todo : c = name \/ c \in Columns \ call[t].todo
    BY <2>1
  <2>6. /\ cass[k.stmt].page_size = page_size
        /\ cass[k.stmt].idempotent = (idempotent = "true")
        /\ \A c \in Columns \ call[t].todo : cass[k.stmt].values[c] = given[c]
    BY <1>5, <2>1 DEF ExecuteInv, RebindsValue
  <2>7. /\ cass'[k.stmt].page_size = page_size'
        /\ cass'[k.stmt].idempotent = (idempotent' = "true")
        /\ \A c \in Columns \ k.todo : cass'[k.stmt].values[c] = given'[c]
    BY <1>1, <2>2, <2>4, <2>5, <2>6
  <2> QED
    BY <1>2, <2>1, <2>2, <2>7 DEF ExecuteInv
<1> QED
  BY <1>3, <1>4, <1>5, HashCbCases DEF BindRefused, Rejected

LEMMA NextBound ==
  ASSUME OneThread, OneSpelling, StringsChange, OneInv, [Next]_vars
  PROVE  BoundInv' /\ ExecuteInv'
<1> Known = Columns /\ \A c \in Columns : ColumnOf[c] = c
  BY OneSpells
<1> Typed /\ KeptInv /\ BoundInv /\ ExecuteInv
  BY DEF OneInv
<1>1. ASSUME UNCHANGED <<hashes, bound_values, given, content>>, NEW t \in Threads, call'[t].op = "idle"
      PROVE  BoundInv' /\ ExecuteInv'
  <2>1. \A s \in Threads : call'[s].op = "idle"
    BY <1>1 DEF OneThread
  <2> QED
    BY <1>1, <2>1, BoundKept DEF ExecuteInv
<1>0. ASSUME UNCHANGED <<hashes, bound_values, given, content>>, NEW t \in Threads, Leave(t)
      PROVE  BoundInv' /\ ExecuteInv'
  <2>1. call'[t] = Idle
    BY <1>0, OtherCalls DEF Leave
  <2>2. call'[t].op = "idle"
    BY <2>1 DEF Idle
  <2> QED
    BY <1>0, <1>1, <2>2
<1>2. ASSUME NEW t \in Threads, NEW name \in Names, Reach(t, name) PROVE BoundInv' /\ ExecuteInv'
  <2>1. CASE Leave(t) /\ UNCHANGED <<statementVars, cass, requests, content>>
    BY <1>0, <2>1 DEF statementVars
  <2>2. CASE /\ name \in Known
             /\ call' = [call EXCEPT ![t].at = <<name, ValueAt(t, name)>>]
             /\ UNCHANGED <<statementVars, cass, requests, content>>
    <3>1. /\ call'[t].op = call[t].op /\ call'[t].hash = call[t].hash /\ call'[t].stmt = call[t].stmt
          /\ call'[t].todo = call[t].todo /\ call'[t].at = <<name, ValueAt(t, name)>>
      BY <2>2 DEF Typed, FrameInv, Frames
    <3>2. \A s \in Threads : s = t
      BY DEF OneThread
    <3>3. BoundInv' /\ Current' = Current
      BY <2>2, <3>1, <3>2, BoundKept DEF statementVars
    <3>4. call[t].op = "execute" => ValueAt(t, name) = Current[name]
      BY <1>2, RebindsGiven DEF Reach, IsNext
    <3> QED
      BY <2>2, <3>1, <3>2, <3>3, <3>4 DEF ExecuteInv, statementVars
  <2>3. CASE name \in Known /\ hash_cb(t, name, ValueAt(t, name))
    <3>1. call[t].op = "execute" => Converted(ValueAt(t, name)) = given[name]
      BY <1>2, RebindsGiven DEF Reach, IsNext
    <3> QED
      BY <1>2, <2>3, <3>1, ReachCases, HashCbBound
  <2> QED
    BY <1>2, <2>1, <2>2, <2>3, ReachCases
<1>3. ASSUME NEW t \in Threads, Convert(t) PROVE BoundInv' /\ ExecuteInv'
  <2>1. call[t].at # None /\ hash_cb(t, call[t].at[1], call[t].at[2])
    BY <1>3 DEF Convert, Resuming
  <2>2. call[t].op = "execute" => Converted(call[t].at[2]) = given[call[t].at[1]]
    BY <2>1, RebindsGiven
  <2> QED
    BY <2>1, <2>2, ResumeSupplied, HashCbBound
<1>4. ASSUME NEW t \in Threads, BindReturn(t) \/ nogvl_session_execute(t) PROVE BoundInv' /\ ExecuteInv'
  BY <1>0, <1>4 DEF BindReturn, nogvl_session_execute, statementVars
<1>5. ASSUME NEW t \in Threads, NEW arg \in Arguments, statement_bind(t, arg)
      PROVE  BoundInv' /\ ExecuteInv'
  <2>1. /\ bound_values' = Len(hashes') /\ UNCHANGED <<given, content>>
        /\ call'[t].op = "bind" /\ call'[t].hash = Len(hashes')
    BY <1>5 DEF statement_bind, Idle, Typed, FrameInv
  <2>2. Len(hashes') = Len(hashes) + 1 /\ hashes'[Len(hashes')] = Current /\ Len(hashes) \in Nat
    BY <1>5, BindStarts, TypedFacts
  <2>3. Current' = Current
    BY <2>1, <2>2 DEF Current
  <2>4. \A v : Converted(v)' = Converted(v)
    BY <2>1 DEF Converted
  <2>5. \A s \in Threads : s = t
    BY DEF OneThread
  <2> QED
    BY <2>1, <2>3, <2>4, <2>5 DEF BoundInv, ExecuteInv
<1>6. ASSUME NEW t \in Threads, \/ \E n \in PageSizes : statement_page_size(t, n)
                                \/ \E b \in BOOLEAN : statement_idempotent(t, b)
      PROVE  BoundInv' /\ ExecuteInv'
  BY <1>1, <1>6 DEF statement_page_size, statement_idempotent, hashVars
<1>7. ASSUME NEW t \in Threads, statement_build_for_execution(t) PROVE BoundInv' /\ ExecuteInv'
  <2>1. /\ cass'[Len(cass')] = NewCass(page_size) /\ call'[t].stmt = Len(cass')
        /\ call'[t].hash = bound_values /\ call'[t].at = None
        /\ call'[t].todo = Keys(Current)
        /\ UNCHANGED <<statementVars, content>>
    BY <1>7, ExecuteStarts DEF statement_build_for_execution
  <2>2. Current' = Current /\ \A v : Converted(v)' = Converted(v)
    BY <2>1 DEF Current, Converted, statementVars
  <2>3. \A s \in Threads : s = t
    BY DEF OneThread
  <2>4. BoundInv'
    BY <2>1, <2>2, <2>3 DEF BoundInv, statementVars
  <2>5. \A c \in Columns : Current[c] = Unbound => given[c] = Unbound
    BY StatementAssumption DEF BoundInv, Converted
  <2>6. /\ cass'[call'[t].stmt].page_size = page_size'
        /\ cass'[call'[t].stmt].idempotent = (idempotent' = "true")
        /\ \A c \in Columns \ call'[t].todo : cass'[call'[t].stmt].values[c] = given'[c]
    BY <2>1, <2>5 DEF NewCass, Empty, Keys, statementVars
  <2> QED
    BY <2>1, <2>3, <2>4, <2>6 DEF ExecuteInv
<1>8. ASSUME NEW n \in 1..Len(requests), Encode(n) PROVE BoundInv' /\ ExecuteInv'
  <2>1. UNCHANGED <<statementVars, content, call, cass>>
    BY <1>8 DEF Encode
  <2> QED
    BY <2>1, BoundKept DEF ExecuteInv, statementVars
<1>9. ASSUME NEW v \in Mutable, NEW x \in Conversions, Mutate(v, x) PROVE BoundInv' /\ ExecuteInv'
  <2>1. \A w : w # v => Converted(w)' = Converted(w)
    BY <1>9 DEF Mutate, Converted, Typed, TypeOK
  <2>2. v \in Values /\ KindOf[v] # "object"
    BY StatementAssumption DEF StringsChange
  <2>3. \A c \in Columns : Kept(Current[c])
    <3>1. Kept(Unbound)
      BY StatementAssumption DEF Kept, Accepted, Converted, Conversions
    <3>2. bound_values # 0 => bound_values \in 1..Len(hashes)
      BY TypedFacts DEF Typed, TypeOK
    <3> QED
      BY <3>1, <3>2 DEF Current, NoKeys, KeptInv
  <2>4. \A c \in Columns : Converted(Current[c])' = Converted(Current[c])
    <3>1. \A c \in Columns : Current[c] # v
      BY <2>2, <2>3 DEF Kept
    <3>2. Current' = Current
      BY <1>9 DEF Mutate, statementVars, Current
    <3> QED
      BY <2>1, <3>1, <3>2
  <2> QED
    BY <1>9, <2>4 DEF Mutate, statementVars, BoundInv, ExecuteInv, Current
<1>10. CASE UNCHANGED vars
  <2>1. UNCHANGED <<statementVars, content, call, cass>>
    BY <1>10 DEF vars
  <2> QED
    BY <2>1, BoundKept DEF ExecuteInv, statementVars
<1> QED
  BY <1>2, <1>3, <1>4, <1>5, <1>6, <1>7, <1>8, <1>9, <1>10 DEF Next

LEMMA OneInvariance ==
  ASSUME OneThread, OneSpelling, StringsChange
  PROVE  Spec => []OneInv
<1>1. Init => OneInv
  <2> SUFFICES ASSUME Init PROVE OneInv
    OBVIOUS
  <2>1. KeptInv
    BY DEF Init, KeptInv, Idle
  <2>2. BoundInv /\ ExecuteInv
    BY StatementAssumption DEF Init, BoundInv, ExecuteInv, Current, NoKeys, Empty, Converted, Idle
  <2> QED
    BY <2>1, <2>2, InitTyped DEF OneInv
<1>2. OneInv /\ [Next]_vars => OneInv'
  BY NextTyped, NextKept, NextBound DEF OneInv
<1> QED
  BY <1>1, <1>2, PTL DEF Spec

\* With one thread, and one spelling of each column, the current hash always
\* converts to the last value accepted for each column (statement.c:222), also in
\* the middle of a bind.  With two threads it does not: see bind_lost.
THEOREM BindsLastGiven ==
  ASSUME OneThread, OneSpelling, StringsChange
  PROVE  Spec => []BoundAsGiven
<1>1. OneInv => BoundAsGiven
  BY BoundToCurrent DEF OneInv, BoundInv, BoundAsGiven
<1> QED
  BY <1>1, OneInvariance, PTL

-----------------------------------------------------------------------------
(* One thread: Statement implements Binding.                               *)

Sent == [n \in 1..Len(requests) |-> requests[n].built]

LEMMA SentKept ==
  ASSUME Len(requests') = Len(requests),
         \A n \in 1..Len(requests) : requests'[n].built = requests[n].built
  PROVE  Sent' = Sent
BY DEF Sent

LEMMA SentAppended ==
  ASSUME Typed, Typed', Len(requests') = Len(requests) + 1,
         \A n \in 1..Len(requests) : requests'[n] = requests[n],
         NEW st \in CassStatement, requests'[Len(requests) + 1].built = st
  PROVE  Sent' = Append(Sent, st)
<1> DEFINE m == Len(requests)
<1>1. m \in Nat /\ Len(requests') = m + 1
  BY TypedFacts
<1>2. \A n \in 1..m : requests[n].built \in CassStatement
  BY TypedFacts
<1>3. \A n \in 1..m + 1 : requests'[n].built = IF n = m + 1 THEN st ELSE requests[n].built
  BY <1>1
<1> HIDE DEF m
<1>4. Sent = [n \in 1..m |-> requests[n].built] /\ Sent' = [n \in 1..m + 1 |-> requests'[n].built]
  BY <1>1 DEF Sent, m
<1>5. Sent \in Seq(CassStatement) /\ Len(Sent) = m
  BY <1>1, <1>2, <1>4
<1>6. Sent' \in Seq(CassStatement) /\ Len(Sent') = m + 1
  BY <1>1, <1>2, <1>3, <1>4
<1>7. /\ Append(Sent, st) \in Seq(CassStatement) /\ Len(Append(Sent, st)) = m + 1
      /\ \A n \in 1..m : Append(Sent, st)[n] = Sent[n]
      /\ Append(Sent, st)[m + 1] = st
  BY <1>1, <1>5, AppendProperties
<1>8. \A n \in 1..m + 1 : Sent'[n] = Append(Sent, st)[n]
  <2> TAKE n \in 1..m + 1
  <2>1. n \in 1..m \/ n = m + 1
    BY <1>1
  <2> QED
    BY <1>1, <1>3, <1>4, <1>7, <2>1
<1> QED
  BY <1>6, <1>7, <1>8, SeqEqual

\* What an execution hands over is what was given and set.
LEMMA BuiltAsGiven ==
  ASSUME OneInv, NEW t \in Threads, call[t].op = "execute", call[t].todo = {}
  PROVE  cass[call[t].stmt] =
           [page_size |-> page_size, idempotent |-> (idempotent = "true"), values |-> given]
<1>1. PICK st : st = cass[call[t].stmt]
  OBVIOUS
<1>2. st \in CassStatement
  BY <1>1, TypedFacts DEF OneInv, Typed, TypeOK
<1>3. /\ st.page_size = page_size /\ st.idempotent = (idempotent = "true")
      /\ \A c \in Columns : st.values[c] = given[c]
  BY <1>1 DEF OneInv, ExecuteInv
<1>4. st.values = given
  BY <1>2, <1>3 DEF CassStatement, OneInv, Typed, TypeOK
<1>5. st = [page_size |-> st.page_size, idempotent |-> st.idempotent, values |-> st.values]
  BY <1>2 DEF CassStatement
<1> QED
  BY <1>1, <1>3, <1>4, <1>5

BindingVars == <<given, page_size, idempotent = "true", Sent>>

LEMMA HashCbBinding ==
  ASSUME Typed, NEW t \in Threads, NEW name \in Known, NEW v, call[t].op # "idle",
         Supplied(t, v), hash_cb(t, name, v)
  PROVE  B!Bind \/ UNCHANGED BindingVars
<1>1. UNCHANGED <<page_size, idempotent, requests>>
  BY HashCbCases
<1>2. UNCHANGED Sent
  BY <1>1 DEF Sent
<1>3. CASE UNCHANGED given
  BY <1>1, <1>2, <1>3 DEF BindingVars
<1>4. CASE BindsValue(t, name, v)
  <2>1. /\ given' = [given EXCEPT ![ColumnOf[name]] = content[v]] /\ content[v] \in Contents
        /\ ColumnOf[name] \in Columns
    BY <1>4, StatementAssumption DEF BindsValue, Written
  <2> QED
    BY <1>1, <1>2, <2>1 DEF B!Bind, Sent
<1> QED
  BY <1>3, <1>4, HashCbCases DEF BindRefused, RebindsValue, Rejected

LEMMA NextBinding ==
  ASSUME OneInv, [Next]_vars
  PROVE  B!Next \/ UNCHANGED BindingVars
<1> Typed
  BY DEF OneInv
<1>1. ASSUME UNCHANGED <<given, page_size, idempotent, requests>> PROVE UNCHANGED BindingVars
  BY <1>1 DEF BindingVars, Sent
<1>2. ASSUME NEW t \in Threads, NEW name \in Names, Reach(t, name)
      PROVE  B!Next \/ UNCHANGED BindingVars
  <2>1. CASE UNCHANGED <<statementVars, cass, requests, content>>
    BY <1>1, <2>1 DEF statementVars
  <2>2. CASE name \in Known /\ hash_cb(t, name, ValueAt(t, name))
    BY <1>2, <2>2, ReachCases, HashCbBinding DEF B!Next
  <2> QED
    BY <1>2, <2>1, <2>2, ReachCases
<1>3. ASSUME NEW t \in Threads, Convert(t) PROVE B!Next \/ UNCHANGED BindingVars
  BY <1>3, ResumeSupplied, HashCbBinding DEF Convert, Resuming, B!Next
<1>4. ASSUME NEW t \in Threads, NEW n \in PageSizes, statement_page_size(t, n) PROVE B!SetPageSize
  <2>1. page_size' \in PageSizes /\ UNCHANGED <<given, idempotent, requests>>
    BY <1>4 DEF statement_page_size
  <2> QED
    BY <2>1 DEF B!SetPageSize
<1>5. ASSUME NEW t \in Threads, NEW b \in BOOLEAN, statement_idempotent(t, b) PROVE B!SetIdempotent
  <2>1. UNCHANGED <<given, page_size, requests>>
    BY <1>5 DEF statement_idempotent
  <2> QED
    BY <2>1 DEF B!SetIdempotent
<1>6. ASSUME NEW t \in Threads, nogvl_session_execute(t) PROVE B!Execute
  <2>1. call[t].op = "execute" /\ call[t].todo = {} /\ UNCHANGED <<given, page_size, idempotent>>
    BY <1>6 DEF nogvl_session_execute, statementVars
  <2>2. Sent' = Append(Sent, cass[call[t].stmt])
    <3>1. PICK st \in CassStatement : st = cass[call[t].stmt]
      BY TypedFacts DEF Typed, TypeOK
    <3>2. /\ Len(requests') = Len(requests) + 1
          /\ \A n \in 1..Len(requests) : requests'[n] = requests[n]
          /\ requests'[Len(requests) + 1] =
               [stmt |-> call[t].stmt, built |-> cass[call[t].stmt], encoded |-> {}]
      BY <1>6, RequestMade
    <3>3. requests'[Len(requests) + 1].built = st
      BY <3>1, <3>2
    <3>4. Typed'
      BY NextTyped
    <3> QED
      BY <3>1, <3>2, <3>3, <3>4, SentAppended
  <2> QED
    BY <2>1, <2>2, BuiltAsGiven DEF B!Execute, Sent
<1>7. ASSUME NEW t \in Threads, \/ BindReturn(t)
                                \/ statement_build_for_execution(t)
                                \/ \E arg \in Arguments : statement_bind(t, arg)
      PROVE  UNCHANGED BindingVars
  BY <1>1, <1>7 DEF BindReturn, statement_build_for_execution, statement_bind, statementVars
<1>8. ASSUME NEW n \in 1..Len(requests), Encode(n) PROVE UNCHANGED BindingVars
  <2>1. /\ Len(requests') = Len(requests)
        /\ \A m \in 1..Len(requests) : requests'[m].built = requests[m].built
    <3>1. requests[n] \in [stmt : 1..Len(cass), built : CassStatement, encoded : SUBSET CassStatement]
      BY TypedFacts
    <3>2. requests'[n].built = requests[n].built
      BY <1>8, <3>1, EncodeTyped
    <3> QED
      BY <1>8, <3>2, EncodeTyped
  <2> QED
    BY <1>8, <2>1, SentKept DEF Encode, statementVars, BindingVars
<1>9. ASSUME NEW v \in Mutable, NEW x \in Conversions, Mutate(v, x) PROVE UNCHANGED BindingVars
  BY <1>1, <1>9 DEF Mutate, statementVars
<1>10. CASE UNCHANGED vars
  BY <1>1, <1>10 DEF vars, statementVars
<1> QED
  BY <1>2, <1>3, <1>4, <1>5, <1>6, <1>7, <1>8, <1>9, <1>10 DEF Next, B!Next

\* With one thread, and one spelling of each column, a statement is what
\* Binding.tla promises: every execution carries the values accepted last and the
\* options set last (statement.c:222, session.c:94-98), whatever is bound, set or
\* executed afterwards and whatever becomes of the caller's Strings.
THEOREM StatementImplementsBinding ==
  ASSUME OneThread, OneSpelling, StringsChange
  PROVE  Spec => BindingSpec
<1>1. Init => B!Init
  <2> SUFFICES ASSUME Init PROVE B!Init
    OBVIOUS
  <2>1. Len(requests) = 0
    BY DEF Init
  <2>2. [n \in 1..Len(requests) |-> requests[n].built] = <<>>
    BY <2>1
  <2> QED
    BY <2>2 DEF Init, B!Init, Empty
<1>2. OneInv /\ [Next]_vars => [B!Next]_(B!vars)
  BY NextBinding DEF BindingVars, B!vars, Sent
<1> QED
  BY <1>1, <1>2, OneInvariance, PTL DEF Spec, BindingSpec, B!Spec
=============================================================================
