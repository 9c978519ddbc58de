---------------------------- MODULE HandlesProofs ----------------------------
(* Theorems about Handles.tla, for any objects, threads and numbers of       *)
(* handles.                                                                  *)
EXTENDS Handles, TLAPS

-----------------------------------------------------------------------------
(* What the operators give.                                                *)

LEMMA ClassesApart ==
  /\ \A o \in Clusters : o \notin Sessions \cup Statements \cup Futures \cup Results \cup Procs \cup Mutexes
  /\ \A o \in Sessions : o \notin Statements \cup Futures \cup Results \cup Procs \cup Mutexes
  /\ \A o \in Statements : o \notin Futures \cup Results \cup Procs \cup Mutexes
  /\ \A o \in Futures : o \notin Results \cup Procs \cup Mutexes
  /\ \A o \in Results : o \notin Procs \cup Mutexes
  /\ \A o \in Procs : o \notin Mutexes
<1>1. /\ 1 \in 1..7 /\ 2 \in 1..7 /\ 3 \in 1..7 /\ 4 \in 1..7 /\ 5 \in 1..7 /\ 6 \in 1..7 /\ 7 \in 1..7
      /\ Classes[1] = Clusters /\ Classes[2] = Sessions /\ Classes[3] = Statements
      /\ Classes[4] = Futures /\ Classes[5] = Results /\ Classes[6] = Procs /\ Classes[7] = Mutexes
  BY DEF Classes
<1> HIDE DEF Classes
<1>2. \A i, j \in 1..7 : i # j => Classes[i] \cap Classes[j] = {}
  BY HandlesAssumption
<1>3. /\ Clusters \cap Sessions = {} /\ Clusters \cap Statements = {} /\ Clusters \cap Futures = {}
      /\ Clusters \cap Results = {} /\ Clusters \cap Procs = {} /\ Clusters \cap Mutexes = {}
  BY <1>1, <1>2
<1>4. /\ Sessions \cap Statements = {} /\ Sessions \cap Futures = {} /\ Sessions \cap Results = {}
      /\ Sessions \cap Procs = {} /\ Sessions \cap Mutexes = {}
      /\ Statements \cap Futures = {} /\ Statements \cap Results = {}
      /\ Statements \cap Procs = {} /\ Statements \cap Mutexes = {}
  BY <1>1, <1>2
<1>5. /\ Futures \cap Results = {} /\ Futures \cap Procs = {} /\ Futures \cap Mutexes = {}
      /\ Results \cap Procs = {} /\ Results \cap Mutexes = {} /\ Procs \cap Mutexes = {}
  BY <1>1, <1>2
<1> QED
  BY <1>3, <1>4, <1>5

LEMMA FieldsOf ==
  /\ \A o \in Clusters : HandleFields(o) = {"cluster"} /\ RefFields(o) = {}
  /\ \A o \in Sessions : HandleFields(o) = {"session"} /\ RefFields(o) = {"cluster"}
  /\ \A o \in Statements : HandleFields(o) = {"statement", "prepared"} /\ RefFields(o) = {"session"}
  /\ \A o \in Futures :
       /\ HandleFields(o) = {"future", "executed"}
       /\ RefFields(o) = {"session", "statement", "on_success", "on_failure", "mutex"}
  /\ \A o \in Results : HandleFields(o) = {"result", "future", "executed"} /\ RefFields(o) = {"statement"}
  /\ \A o \in Procs \cup Mutexes : HandleFields(o) = {} /\ RefFields(o) = {}
BY ClassesApart DEF HandleFields, RefFields

LEMMA FreshFree ==
  ASSUME NEW u \in Kinds, Unallocated(u) # {}
  PROVE  Fresh(u) \in Handles /\ driver[Fresh(u)] = "free" /\ Fresh(u)[1] = u /\ Fresh(u) # None
<1> DEFINE i == CHOOSE i \in Unallocated(u) : TRUE
<1>1. i \in Unallocated(u)
  OBVIOUS
<1>2. i \in 1..HANDLE_MAX[u] /\ driver[<<u, i>>] = "free" /\ Fresh(u) = <<u, i>>
  BY <1>1 DEF Unallocated, Fresh
<1> HIDE DEF i
<1> QED
  BY <1>2, HandlesAssumption DEF Handles

-----------------------------------------------------------------------------
(* Types.  The frame of a call has what its operation has come to.         *)

Frames ==
  [op : {"none", "connect", "prepare", "prepare_async", "execute", "execute_async", "next_page",
         "each", "await"},
   at : {"idle", "build", "submit", "create", "mutex", "wait", "block", "yield"},
   self : Objects \cup {None}, arg : Objects \cup {None}, obj : Objects \cup {None},
   future : Handles \cup {None}, executed : Handles \cup {None}, iterator : Handles \cup {None}]

Executing(k) == k.op \in {"execute", "execute_async"}

\* Where each operation may be.
PlaceOK(k) ==
  /\ k.op = "none" => k = Idle \/ k.at = "yield"
  /\ k.at = "yield" => k.op = "none"
  /\ k.op = "connect" => k.at = "wait"
  /\ k.op = "prepare" => k.at \in {"submit", "wait"}
  /\ k.op = "prepare_async" => k.at \in {"submit", "create", "mutex"}
  /\ k.op = "execute" => k.at \in {"build", "submit", "create", "wait"}
  /\ k.op = "execute_async" => k.at \in {"build", "submit", "create", "mutex"}
  /\ k.op = "next_page" => k.at \in {"submit", "wait"}
  /\ k.op = "each" => k.at = "block"
  /\ k.op = "await" => k.at = "wait"

\* The objects and the handles of a frame.
FrameOK(k) ==
  /\ k \in Frames /\ PlaceOK(k)
  /\ k.at = "yield" => k.self \in Futures
  /\ k.op = "connect" => k.self \in Clusters /\ k.obj \in Sessions
  /\ k.op \in {"prepare", "prepare_async"} => k.self \in Sessions /\ k.arg = None
  /\ Executing(k) => k.self \in Sessions /\ k.arg \in Statements
  /\ k.op \in {"next_page", "each"} => k.self \in Results
  /\ k.op = "await" => k.self \in Futures
  /\ k.at = "mutex" => k.obj \in Futures
  /\ k.op = "execute" /\ k.at = "wait" => k.obj \in Results
  /\ k.future # None <=> \/ k.at = "create"
                         \/ k.op \in {"connect", "prepare", "next_page"} /\ k.at = "wait"
  /\ k.executed # None <=> Executing(k) /\ k.at # "wait"
  /\ k.iterator # None <=> k.op = "each"

CallOK == call \in [Threads -> Frames] /\ \A t \in Threads : FrameOK(call[t])

OwnOK ==
  /\ own = [o \in Objects |-> own[o]]
  /\ \A o \in Objects : own[o] \in [HandleFields(o) -> Handles \cup {None}]

\* Each reference is to an object of the class it is for.
Class(o, k) ==
  CASE k = "cluster" -> Clusters
    [] k = "session" -> Sessions
    [] k = "statement" -> Statements
    [] k = "mutex" -> Mutexes
    [] OTHER -> Procs

RefOK ==
  /\ ref = [o \in Objects |-> ref[o]]
  /\ \A o \in Objects : /\ ref[o] \in [RefFields(o) -> Objects \cup {None}]
                         /\ \A k \in RefFields(o) : ref[o][k] \in Class(o, k) \cup {None}

DriverOK == driver \in [Handles -> {"free", "live", "lost"}]

PlainOK ==
  /\ live \subseteq Objects /\ held \subseteq Objects /\ pooled \subseteq Futures
  /\ outcome \in [Futures -> {"pending", "success", "failure"}]
  /\ yielded \in [Futures -> BOOLEAN]
  /\ seen \in [Futures -> {None} \cup SUBSET Objects]
  /\ exiting \in BOOLEAN

-----------------------------------------------------------------------------
(* Where handles are: each in one field or frame, and live.                *)

FrameFields == {"future", "executed", "iterator"}
Holders == Objects \cup Threads
Fields(x) == IF x \in Threads THEN FrameFields ELSE HandleFields(x)
Slot(x, k) == IF x \in Threads THEN call[x][k] ELSE own[x][k]

SlotInv ==
  /\ \A x \in Holders : \A k \in Fields(x) :
       Slot(x, k) # None => Slot(x, k) \in Handles /\ driver[Slot(x, k)] = "live"
  /\ \A x, y \in Holders : \A k \in Fields(x), l \in Fields(y) :
       Slot(x, k) = Slot(y, l) /\ Slot(x, k) # None => x = y /\ k = l

Typed == DriverOK /\ CallOK /\ OwnOK /\ RefOK /\ PlainOK /\ SlotInv

\* A step moves handles among the holders in C: it obtains those in new, and
\* frees, or loses, those in old.
Moves(C, new, old) ==
  /\ C \subseteq Holders
  /\ new \subseteq Handles /\ \A h \in new : driver[h] = "free"
  /\ \A h \in old : h = None \/ \E x \in C : \E k \in Fields(x) : h = Slot(x, k)
  /\ \A x \in Holders \ C : \A k \in Fields(x) : Slot(x, k)' = Slot(x, k)
  /\ \A x \in C : \A k \in Fields(x) :
       \/ Slot(x, k)' \in {None} \cup new
       \/ \E y \in C : \E l \in Fields(y) : Slot(x, k)' = Slot(y, l) /\ Slot(y, l) \notin old
  /\ \A x, y \in C : \A k \in Fields(x), l \in Fields(y) :
       Slot(x, k)' = Slot(y, l)' /\ Slot(x, k)' # None => x = y /\ k = l

LEMMA DriverStep ==
  ASSUME SlotInv, DriverOK, NEW C, NEW new, NEW old, Moves(C, new, old), Driver(new, old)
  PROVE  /\ DriverOK'
         /\ \A h \in new : driver'[h] = "live"
         /\ \A h \in Handles \ old : driver[h] = "live" => driver'[h] = "live"
<1>1. \A h \in old \cap Handles : driver[h] = "live"
  BY HandlesAssumption DEF Moves, SlotInv
<1> DEFINE After(h) == CASE h \in new -> "live"
                         [] h \in old -> IF driver[h] = "live" THEN "free" ELSE "twice"
                         [] OTHER -> driver[h]
<1>2. new \cap old = {} /\ new \subseteq Handles
  BY <1>1 DEF Moves
<1>3. \A h \in new : After(h) = "live"
  BY <1>2
<1>4. ASSUME NEW h \in Handles, h \notin new, h \in old PROVE After(h) = "free"
  <2>1. driver[h] = "live"
    BY <1>1, <1>4
  <2> QED
    BY <1>4, <2>1
<1>5. ASSUME NEW h \in Handles, h \notin new, h \notin old PROVE After(h) = driver[h]
  BY <1>5
<1>6. driver' = [h \in Handles |-> After(h)]
  BY DEF Driver
<1> HIDE DEF After
<1>7. /\ \A h \in Handles : h \in new => driver'[h] = "live"
      /\ \A h \in Handles : h \notin new /\ h \in old => driver'[h] = "free"
      /\ \A h \in Handles : h \notin new /\ h \notin old => driver'[h] = driver[h]
      /\ driver' = [h \in Handles |-> driver'[h]]
  BY <1>3, <1>4, <1>5, <1>6
<1>8. \A h \in Handles : driver'[h] \in {"free", "live", "lost"}
  BY <1>7 DEF DriverOK
<1>9. DriverOK'
  BY <1>7, <1>8 DEF DriverOK
<1> QED
  BY <1>7, <1>9 DEF Moves

LEMMA SlotStep ==
  ASSUME SlotInv, NEW C, NEW new, NEW old, Moves(C, new, old),
         \A h \in new : driver'[h] = "live",
         \A h \in Handles \ old : driver[h] = "live" => driver'[h] = "live"
  PROVE  SlotInv'
<1>1. ASSUME NEW x \in Holders \ C, NEW k \in Fields(x), Slot(x, k) # None
      PROVE  Slot(x, k) \notin new \cup old
  BY <1>1 DEF Moves, SlotInv
<1>2. ASSUME NEW x \in Holders \ C, NEW k \in Fields(x), Slot(x, k)' # None
      PROVE  Slot(x, k)' \in Handles /\ driver'[Slot(x, k)'] = "live"
  <2>1. Slot(x, k)' = Slot(x, k)
    BY DEF Moves
  <2> QED
    BY <1>1, <1>2, <2>1 DEF SlotInv
<1>3. ASSUME NEW x \in C, NEW k \in Fields(x), Slot(x, k)' # None
      PROVE  Slot(x, k)' \in Handles /\ driver'[Slot(x, k)'] = "live"
  <2>1. CASE Slot(x, k)' \in new
    BY <2>1 DEF Moves
  <2>2. CASE \E y \in C : \E l \in Fields(y) : Slot(x, k)' = Slot(y, l) /\ Slot(y, l) \notin old
    <3>1. PICK y \in C : \E l \in Fields(y) : Slot(x, k)' = Slot(y, l) /\ Slot(y, l) \notin old
      BY <2>2
    <3>2. PICK l \in Fields(y) : Slot(x, k)' = Slot(y, l) /\ Slot(y, l) \notin old
      BY <3>1
    <3>3. y \in Holders
      BY DEF Moves
    <3>4. Slot(y, l) \in Handles /\ driver[Slot(y, l)] = "live"
      BY <1>3, <3>2, <3>3 DEF SlotInv
    <3> QED
      BY <3>2, <3>4 DEF Moves
  <2> QED
    BY <1>3, <2>1, <2>2 DEF Moves
<1>4. ASSUME NEW x \in C, NEW k \in Fields(x), NEW y \in Holders \ C, NEW l \in Fields(y),
             Slot(x, k)' = Slot(y, l)', Slot(x, k)' # None
      PROVE  FALSE
  <2>1. Slot(y, l)' = Slot(y, l) /\ Slot(y, l) # None
    BY <1>4 DEF Moves
  <2>2. Slot(x, k)' \notin new
    BY <1>1, <1>4, <2>1
  <2>3. PICK z \in C : \E m \in Fields(z) : Slot(x, k)' = Slot(z, m)
    BY <1>4, <2>2 DEF Moves
  <2>4. z \in Holders /\ z # y
    BY DEF Moves
  <2> QED
    BY <1>4, <2>1, <2>3, <2>4 DEF SlotInv
<1>5. ASSUME NEW x \in Holders \ C, NEW k \in Fields(x), NEW y \in Holders \ C, NEW l \in Fields(y),
             Slot(x, k)' = Slot(y, l)', Slot(x, k)' # None
      PROVE  x = y /\ k = l
  <2>1. Slot(x, k)' = Slot(x, k) /\ Slot(y, l)' = Slot(y, l)
    BY DEF Moves
  <2>2. x \in Holders /\ y \in Holders /\ Slot(x, k) = Slot(y, l) /\ Slot(x, k) # None
    BY <1>5, <2>1
  <2>3. \A a, b \in Holders : \A i \in Fields(a), j \in Fields(b) :
          Slot(a, i) = Slot(b, j) /\ Slot(a, i) # None => a = b /\ i = j
    BY DEF SlotInv
  <2> QED
    BY <2>2, <2>3
<1>6. \A x, y \in C : \A k \in Fields(x), l \in Fields(y) :
        Slot(x, k)' = Slot(y, l)' /\ Slot(x, k)' # None => x = y /\ k = l
  BY DEF Moves
<1>7. \A x \in Holders : \A k \in Fields(x) :
        Slot(x, k)' # None => Slot(x, k)' \in Handles /\ driver'[Slot(x, k)'] = "live"
  BY <1>2, <1>3
<1>8. \A x, y \in Holders : \A k \in Fields(x), l \in Fields(y) :
        Slot(x, k)' = Slot(y, l)' /\ Slot(x, k)' # None => x = y /\ k = l
  BY <1>4, <1>5, <1>6
<1> QED
  BY <1>7, <1>8 DEF SlotInv

-----------------------------------------------------------------------------
(* What a step that changes one frame, or one frame and one object, keeps. *)

LEMMA CallStep ==
  ASSUME CallOK, NEW t \in Threads, NEW k, FrameOK(k), call' = [call EXCEPT ![t] = k]
  PROVE  CallOK' /\ call'[t] = k /\ \A u \in Threads \ {t} : call'[u] = call[u]
<1>1. call'[t] = k /\ \A u \in Threads \ {t} : call'[u] = call[u]
  BY DEF CallOK
<1>2. \A u \in Threads : FrameOK(call'[u])
  BY <1>1 DEF CallOK
<1>3. call' \in [Threads -> Frames]
  BY DEF CallOK, FrameOK
<1> QED
  BY <1>1, <1>2, <1>3 DEF CallOK

LEMMA OwnStep ==
  ASSUME OwnOK, NEW o \in Objects, NEW r \in [HandleFields(o) -> Handles \cup {None}],
         own' = [own EXCEPT ![o] = r]
  PROVE  OwnOK' /\ own'[o] = r /\ \A p \in Objects \ {o} : own'[p] = own[p]
<1>1. own'[o] = r /\ \A p \in Objects \ {o} : own'[p] = own[p]
  BY DEF OwnOK
<1> QED
  BY <1>1 DEF OwnOK

LEMMA Slots ==
  /\ \A t \in Threads : t \in Holders /\ Fields(t) = FrameFields /\ \A k : Slot(t, k) = call[t][k]
  /\ \A o \in Objects : /\ o \in Holders /\ o \notin Threads /\ Fields(o) = HandleFields(o)
                         /\ \A k : Slot(o, k) = own[o][k]
BY HandlesAssumption DEF Holders, Fields, Slot

LEMMA SlotsAfter ==
  /\ \A t \in Threads : \A k : Slot(t, k)' = call'[t][k]
  /\ \A o \in Objects : \A k : Slot(o, k)' = own'[o][k]
BY HandlesAssumption DEF Slot

\* A call takes in handles, keeps some and frees the rest.
Keeps(t, k, new, old) ==
  /\ new \subseteq Handles /\ \A h \in new : driver[h] = "free"
  /\ \A h \in old : h = None \/ \E j \in FrameFields : h = call[t][j]
  /\ \A j \in FrameFields : k[j] \in {None} \cup new \/ (k[j] = call[t][j] /\ k[j] \notin old)
  /\ \A i, j \in FrameFields : i # j => k[i] # k[j] \/ k[i] = None

LEMMA FrameStep ==
  ASSUME SlotInv, DriverOK, CallOK, OwnOK, UNCHANGED own,
         NEW t \in Threads, NEW k, FrameOK(k), call' = [call EXCEPT ![t] = k],
         NEW new, NEW old, Keeps(t, k, new, old)
  PROVE  Moves({t}, new, old) /\ CallOK' /\ OwnOK'
<1>1. CallOK' /\ call'[t] = k /\ \A u \in Threads \ {t} : call'[u] = call[u]
  BY CallStep
<1>2. OwnOK'
  BY DEF OwnOK
<1>3. \A x \in Holders \ {t} : \A j \in Fields(x) : Slot(x, j)' = Slot(x, j)
  BY <1>1, Slots, SlotsAfter DEF Holders
<1>4. \A x \in {t} : \A j \in Fields(x) :
       \/ Slot(x, j)' \in {None} \cup new
       \/ \E y \in {t} : \E l \in Fields(y) : Slot(x, j)' = Slot(y, l) /\ Slot(y, l) \notin old
  BY <1>1, Slots, SlotsAfter DEF Keeps
<1>5. \A x, y \in {t} : \A j \in Fields(x), l \in Fields(y) :
       Slot(x, j)' = Slot(y, l)' /\ Slot(x, j)' # None => x = y /\ j = l
  BY <1>1, Slots, SlotsAfter DEF Keeps
<1>6. \A h \in old : h = None \/ \E x \in {t} : \E j \in Fields(x) : h = Slot(x, j)
  BY Slots DEF Keeps
<1> QED
  BY <1>1, <1>2, <1>3, <1>4, <1>5, <1>6, Slots DEF Moves, Keeps

\* So with an object, to which the call may pass what it had.
Had(t, o) == {call[t][j] : j \in FrameFields} \cup {own[o][j] : j \in HandleFields(o)}
Passes(t, k, o, r, new, old) ==
  /\ new \subseteq Handles /\ \A h \in new : driver[h] = "free"
  /\ old \subseteq Had(t, o) \cup {None}
  /\ \A j \in FrameFields : k[j] \in {None} \cup new \cup (Had(t, o) \ old)
  /\ \A j \in HandleFields(o) : r[j] \in {None} \cup new \cup (Had(t, o) \ old)
  /\ \A i, j \in FrameFields : i # j => k[i] # k[j] \/ k[i] = None
  /\ \A i, j \in HandleFields(o) : i # j => r[i] # r[j] \/ r[i] = None
  /\ \A i \in FrameFields, j \in HandleFields(o) : k[i] # r[j] \/ k[i] = None

LEMMA ObjectStep ==
  ASSUME SlotInv, DriverOK, CallOK, OwnOK,
         NEW t \in Threads, NEW k, FrameOK(k), call' = [call EXCEPT ![t] = k],
         NEW o \in Objects, NEW r \in [HandleFields(o) -> Handles \cup {None}],
         own' = [own EXCEPT ![o] = r],
         NEW new, NEW old, Passes(t, k, o, r, new, old)
  PROVE  Moves({t, o}, new, old) /\ CallOK' /\ OwnOK'
<1>1. CallOK' /\ call'[t] = k /\ \A u \in Threads \ {t} : call'[u] = call[u]
  BY CallStep
<1>2. OwnOK' /\ own'[o] = r /\ \A p \in Objects \ {o} : own'[p] = own[p]
  BY OwnStep
<1>3. \A x \in Holders \ {t, o} : \A j \in Fields(x) : Slot(x, j)' = Slot(x, j)
  BY <1>1, <1>2, Slots, SlotsAfter DEF Holders
<1>4. \A h \in Had(t, o) : \E y \in {t, o} : \E l \in Fields(y) : h = Slot(y, l)
  BY Slots DEF Had
<1>5. ASSUME NEW x \in {t, o}, NEW j \in Fields(x)
      PROVE  Slot(x, j)' \in {None} \cup new \cup (Had(t, o) \ old)
  <2>1. CASE x = t
    BY <1>1, <2>1, Slots, SlotsAfter DEF Passes
  <2>2. CASE x = o
    BY <1>2, <2>2, Slots, SlotsAfter DEF Passes
  <2> QED
    BY <2>1, <2>2
<1>6. ASSUME NEW x \in {t, o}, NEW y \in {t, o}, NEW j \in Fields(x), NEW l \in Fields(y),
             Slot(x, j)' = Slot(y, l)', Slot(x, j)' # None
      PROVE  x = y /\ j = l
  <2>1. CASE x = t /\ y = t
    BY <1>1, <1>6, <2>1, Slots, SlotsAfter DEF Passes
  <2>2. CASE x = o /\ y = o
    BY <1>2, <1>6, <2>2, Slots, SlotsAfter DEF Passes
  <2>3. CASE x = t /\ y = o
    BY <1>1, <1>2, <1>6, <2>3, Slots, SlotsAfter DEF Passes
  <2>4. CASE x = o /\ y = t
    BY <1>1, <1>2, <1>6, <2>4, Slots, SlotsAfter DEF Passes
  <2> QED
    BY <2>1, <2>2, <2>3, <2>4
<1>7. \A h \in old : h = None \/ \E x \in {t, o} : \E j \in Fields(x) : h = Slot(x, j)
  BY <1>4 DEF Passes
<1>8. \A x \in {t, o} : \A j \in Fields(x) :
       \/ Slot(x, j)' \in {None} \cup new
       \/ \E y \in {t, o} : \E l \in Fields(y) : Slot(x, j)' = Slot(y, l) /\ Slot(y, l) \notin old
  BY <1>4, <1>5
<1>9. {t, o} \subseteq Holders
  BY DEF Holders
<1> HIDE DEF Had
<1> QED
  BY <1>1, <1>2, <1>3, <1>6, <1>7, <1>8, <1>9 DEF Moves, Passes

LEMMA Moved ==
  ASSUME SlotInv, DriverOK, NEW C, NEW new, NEW old, Moves(C, new, old),
         Driver(new, old) \/ (new = {} /\ UNCHANGED driver)
  PROVE  DriverOK' /\ SlotInv'
<1>1. CASE Driver(new, old)
  BY <1>1, DriverStep, SlotStep
<1>2. CASE new = {} /\ UNCHANGED driver
  BY <1>2, SlotStep DEF DriverOK
<1> QED
  BY <1>1, <1>2

LEMMA RefStep ==
  ASSUME RefOK, NEW o \in Objects, NEW r \in [RefFields(o) -> Objects \cup {None}],
         \A k \in RefFields(o) : r[k] \in Class(o, k) \cup {None}, ref' = [ref EXCEPT ![o] = r]
  PROVE  RefOK' /\ ref'[o] = r /\ \A p \in Objects \ {o} : ref'[p] = ref[p]
<1>1. ref'[o] = r /\ \A p \in Objects \ {o} : ref'[p] = ref[p]
  BY DEF RefOK
<1> QED
  BY <1>1 DEF RefOK, Class

\* The fields of an object that is created.
Given(fields, values) == [k \in fields |-> IF k \in DOMAIN values THEN values[k] ELSE None]

LEMMA CreateStep ==
  ASSUME RefOK, live \subseteq Objects, NEW o \in Objects, NEW handles, NEW refs,
         Create(o, handles, refs),
         \A k \in RefFields(o) \cap DOMAIN refs : refs[k] \in Objects \cap Class(o, k) \/ refs[k] = None
  PROVE  /\ own' = [own EXCEPT ![o] = Given(HandleFields(o), handles)]
         /\ RefOK' /\ live' \subseteq Objects
<1> DEFINE r == Given(RefFields(o), refs)
<1>1. r \in [RefFields(o) -> Objects \cup {None}] /\ \A k \in RefFields(o) : r[k] \in Class(o, k) \cup {None}
  BY DEF Given
<1>2. ref' = [ref EXCEPT ![o] = r]
  BY DEF Create, Given
<1> HIDE DEF r
<1>3. RefOK'
  BY <1>1, <1>2, RefStep
<1> QED
  BY <1>3 DEF Create, Given

LEMMA FrameTyped ==
  ASSUME Typed, UNCHANGED own, RefOK', PlainOK',
         NEW t \in Threads, NEW k, FrameOK(k), call' = [call EXCEPT ![t] = k],
         NEW new, NEW old, Keeps(t, k, new, old), Driver(new, old) \/ (new = {} /\ UNCHANGED driver)
  PROVE  Typed'
<1>1. Moves({t}, new, old) /\ CallOK' /\ OwnOK'
  BY FrameStep DEF Typed
<1>2. DriverOK' /\ SlotInv'
  BY <1>1, Moved DEF Typed
<1> QED
  BY <1>1, <1>2 DEF Typed

LEMMA ObjectTyped ==
  ASSUME Typed, RefOK', PlainOK',
         NEW t \in Threads, NEW k, FrameOK(k), call' = [call EXCEPT ![t] = k],
         NEW o \in Objects, NEW r \in [HandleFields(o) -> Handles \cup {None}],
         own' = [own EXCEPT ![o] = r],
         NEW new, NEW old, Passes(t, k, o, r, new, old), Driver(new, old) \/ (new = {} /\ UNCHANGED driver)
  PROVE  Typed'
<1>1. Moves({t, o}, new, old) /\ CallOK' /\ OwnOK'
  BY ObjectStep DEF Typed
<1>2. DriverOK' /\ SlotInv'
  BY <1>1, Moved DEF Typed
<1> QED
  BY <1>1, <1>2 DEF Typed

LEMMA IdleOK ==
  /\ FrameOK(Idle) /\ Idle.at = "idle"
  /\ Idle["future"] = None /\ Idle["executed"] = None /\ Idle["iterator"] = None
<1>1. /\ Idle \in Frames /\ Idle.op = "none" /\ Idle.at = "idle"
      /\ Idle["future"] = None /\ Idle["executed"] = None /\ Idle["iterator"] = None
  BY DEF Idle, Frames
<1> QED
  BY <1>1 DEF FrameOK, PlaceOK, Executing

\* A call that is over has freed what its frame held.
LEMMA ReturnTyped ==
  ASSUME Typed, UNCHANGED own, RefOK', PlainOK', NEW t \in Threads, Return(t),
         NEW old, \A h \in old : h = None \/ \E j \in FrameFields : h = call[t][j],
         Driver({}, old)
  PROVE  Typed'
<1>1. Keeps(t, Idle, {}, old)
  BY IdleOK DEF Keeps, FrameFields
<1>2. call' = [call EXCEPT ![t] = Idle]
  BY DEF Return, Enter
<1> QED
  BY <1>1, <1>2, FrameTyped, IdleOK

LEMMA ReturnOnlyTyped ==
  ASSUME Typed, UNCHANGED <<own, driver>>, RefOK', PlainOK', NEW t \in Threads, Return(t)
  PROVE  Typed'
<1>1. Keeps(t, Idle, {}, {})
  BY IdleOK DEF Keeps, FrameFields
<1>2. call' = [call EXCEPT ![t] = Idle]
  BY DEF Return, Enter
<1> QED
  BY <1>1, <1>2, FrameTyped, IdleOK

\* Nothing is stored in a field.
LEMMA ObjectsKept ==
  ASSUME Typed, UNCHANGED objectVars
  PROVE  UNCHANGED own /\ RefOK' /\ live' \subseteq Objects
BY DEF Typed, RefOK, PlainOK, objectVars

-----------------------------------------------------------------------------
(* No call frees a handle twice: one lemma for each action.                *)

LEMMA ConnectTyped ==
  ASSUME Typed, NEW t \in Threads, cluster_connect(t)
  PROVE  Typed'
<1>1. PICK c \in Held(Clusters), s \in Unused(Sessions) :
        /\ Create(s, [session |-> Fresh("session")], [cluster |-> c])
        /\ Enter(t, [Idle EXCEPT !.op = "connect", !.at = "wait", !.self = c, !.obj = s,
                                 !.future = Fresh("request")])
  BY DEF cluster_connect
<1> DEFINE k == [Idle EXCEPT !.op = "connect", !.at = "wait", !.self = c, !.obj = s,
                             !.future = Fresh("request")]
           r == Given(HandleFields(s), [session |-> Fresh("session")])
           new == {Fresh("session"), Fresh("request")}
<1>2. c \in Clusters /\ s \in Sessions /\ c \in Objects /\ s \in Objects
  BY DEF Held, Unused, Objects
<1>3. /\ Fresh("session") \in Handles /\ driver[Fresh("session")] = "free"
      /\ Fresh("request") \in Handles /\ driver[Fresh("request")] = "free"
      /\ Fresh("session") # Fresh("request") /\ Fresh("session") # None /\ Fresh("request") # None
  <2>1. "session" \in Kinds /\ "request" \in Kinds
    BY DEF Kinds
  <2> QED
    BY <2>1, FreshFree, HandlesAssumption DEF cluster_connect, Available
<1>4. FrameOK(k)
  <2>1. /\ k \in Frames /\ k.op = "connect" /\ k.at = "wait" /\ k.self = c /\ k.obj = s
        /\ k.future = Fresh("request") /\ k.executed = None /\ k.iterator = None
    BY <1>2, <1>3 DEF Idle, Frames
  <2> QED
    BY <2>1, <1>2, <1>3 DEF FrameOK, PlaceOK, Executing
<1>5. own' = [own EXCEPT ![s] = r] /\ RefOK' /\ live' \subseteq Objects
  BY <1>1, <1>2, CreateStep, FieldsOf DEF Typed, PlainOK, Class
<1>6. HandleFields(s) = {"session"} /\ r["session"] = Fresh("session") /\ r \in [HandleFields(s) -> Handles \cup {None}]
  BY <1>2, <1>3, FieldsOf DEF Given
<1>7. k["future"] = Fresh("request") /\ k["executed"] = None /\ k["iterator"] = None
  BY DEF Idle
<1>8. call' = [call EXCEPT ![t] = k]
  BY <1>1 DEF Enter
<1> HIDE DEF k, r
<1>9. Passes(t, k, s, r, new, {})
  BY <1>3, <1>6, <1>7 DEF Passes, FrameFields
<1>10. Driver(new, {})
  BY DEF cluster_connect
<1>11. PlainOK'
  BY <1>5 DEF cluster_connect, Typed, PlainOK, futureVars
<1> HIDE DEF new
<1> QED
  BY <1>2, <1>4, <1>5, <1>6, <1>8, <1>9, <1>10, <1>11, ObjectTyped

LEMMA InitializeTyped ==
  ASSUME Typed, NEW t \in Threads, cluster_initialize(t)
  PROVE  Typed'
<1>1. PICK c \in Unused(Clusters) :
        Create(c, [cluster |-> Fresh("cluster")], <<>>) /\ held' = held \cup {c}
  BY DEF cluster_initialize
<1> DEFINE r == Given(HandleFields(c), [cluster |-> Fresh("cluster")])
           new == {Fresh("cluster")}
<1>2. c \in Clusters /\ c \in Objects
  BY DEF Unused, Objects
<1>3. Fresh("cluster") \in Handles /\ driver[Fresh("cluster")] = "free"
  BY FreshFree DEF cluster_initialize, Available, Kinds
<1>4. own' = [own EXCEPT ![c] = r] /\ RefOK' /\ live' \subseteq Objects
  BY <1>1, <1>2, CreateStep, FieldsOf DEF Typed, PlainOK
<1>5. HandleFields(c) = {"cluster"} /\ r["cluster"] = Fresh("cluster") /\ r \in [HandleFields(c) -> Handles \cup {None}]
  BY <1>2, <1>3, FieldsOf DEF Given
<1> DEFINE k == call[t]
<1>6. FrameOK(k) /\ call' = [call EXCEPT ![t] = k]
  BY DEF Typed, CallOK, cluster_initialize
<1>7. k["future"] = None /\ k["executed"] = None /\ k["iterator"] = None
  BY IdleOK DEF cluster_initialize, CanCall
<1> HIDE DEF k, r
<1>8. Passes(t, k, c, r, new, {})
  BY <1>3, <1>5, <1>7 DEF Passes, FrameFields
<1>9. Driver(new, {})
  BY DEF cluster_initialize
<1>10. PlainOK'
  BY <1>1, <1>2, <1>4 DEF cluster_initialize, Typed, PlainOK, futureVars
<1> HIDE DEF new
<1> QED
  BY <1>2, <1>4, <1>5, <1>6, <1>8, <1>9, <1>10, ObjectTyped

LEMMA ConnectedTyped ==
  ASSUME Typed, NEW t \in Threads, Connected(t)
  PROVE  Typed'
<1>1. FrameOK(call[t]) /\ call[t].op = "connect" /\ call[t].obj \in Objects
  BY DEF Typed, CallOK, Connected, At, FrameOK, Objects
<1>2. UNCHANGED own /\ RefOK' /\ live' \subseteq Objects
  BY ObjectsKept DEF Connected
<1>3. PlainOK'
  BY <1>1, <1>2 DEF Connected, Typed, PlainOK, futureVars
<1>4. \A h \in {call[t].future} : h = None \/ \E j \in FrameFields : h = call[t][j]
  BY DEF FrameFields
<1> QED
  BY <1>2, <1>3, <1>4, ReturnTyped DEF Connected

LEMMA PrepareTyped ==
  ASSUME Typed, NEW t \in Threads, NEW op \in {"prepare", "prepare_async"}, session_prepare(t, op)
  PROVE  Typed'
<1>1. PICK s \in Held(Sessions) :
        call' = [call EXCEPT ![t] = [Idle EXCEPT !.op = op, !.at = "submit", !.self = s]]
  BY DEF session_prepare, Enter
<1> DEFINE k == [Idle EXCEPT !.op = op, !.at = "submit", !.self = s]
<1>2. s \in Sessions /\ s \in Objects
  BY DEF Held, Objects
<1>3. /\ k \in Frames /\ k.op = op /\ k.at = "submit" /\ k.self = s /\ k.arg = None
      /\ k.future = None /\ k.executed = None /\ k.iterator = None
      /\ k["future"] = None /\ k["executed"] = None /\ k["iterator"] = None
  BY <1>2 DEF Idle, Frames
<1>4. call' = [call EXCEPT ![t] = k]
  BY <1>1
<1> HIDE DEF k
<1>5. FrameOK(k)
  BY <1>2, <1>3 DEF FrameOK, PlaceOK, Executing
<1>6. Keeps(t, k, {}, {})
  BY <1>3 DEF Keeps, FrameFields
<1>7. UNCHANGED own /\ RefOK' /\ live' \subseteq Objects
  BY ObjectsKept DEF session_prepare
<1>8. PlainOK'
  BY <1>7 DEF session_prepare, Typed, PlainOK, futureVars
<1> QED
  BY <1>4, <1>5, <1>6, <1>7, <1>8, FrameTyped DEF session_prepare

LEMMA ExecuteTyped ==
  ASSUME Typed, NEW t \in Threads, NEW op \in {"execute", "execute_async"}, NEW kind \in Kinds,
         session_execute(t, op, kind)
  PROVE  Typed'
<1>1. PICK s \in Held(Sessions), st \in Held(Statements) :
        call' = [call EXCEPT ![t] = [Idle EXCEPT !.op = op, !.at = "build", !.self = s, !.arg = st,
                                                 !.executed = Fresh(kind)]]
  BY DEF session_execute, Enter
<1> DEFINE k == [Idle EXCEPT !.op = op, !.at = "build", !.self = s, !.arg = st, !.executed = Fresh(kind)]
           new == {Fresh(kind)}
<1>2. s \in Sessions /\ s \in Objects /\ st \in Statements /\ st \in Objects
  BY DEF Held, Objects
<1>3. Fresh(kind) \in Handles /\ driver[Fresh(kind)] = "free" /\ Fresh(kind) # None
  BY FreshFree DEF session_execute, Available
<1>4. /\ k \in Frames /\ k.op = op /\ k.at = "build" /\ k.self = s /\ k.arg = st
      /\ k.future = None /\ k.executed = Fresh(kind) /\ k.iterator = None
      /\ k["future"] = None /\ k["executed"] = Fresh(kind) /\ k["iterator"] = None
  BY <1>2, <1>3 DEF Idle, Frames
<1>5. call' = [call EXCEPT ![t] = k]
  BY <1>1
<1> HIDE DEF k
<1>6. FrameOK(k)
  BY <1>2, <1>3, <1>4 DEF FrameOK, PlaceOK, Executing
<1>7. Keeps(t, k, new, {})
  BY <1>3, <1>4 DEF Keeps, FrameFields
<1>8. UNCHANGED own /\ RefOK' /\ live' \subseteq Objects
  BY ObjectsKept DEF session_execute
<1>9. PlainOK'
  BY <1>8 DEF session_execute, Typed, PlainOK, futureVars
<1>10. Driver(new, {})
  BY DEF session_execute
<1> HIDE DEF new
<1> QED
  BY <1>5, <1>6, <1>7, <1>8, <1>9, <1>10, FrameTyped

LEMMA BuildTyped ==
  ASSUME Typed, NEW t \in Threads, statement_build_for_execution(t)
  PROVE  Typed'
<1>1. UNCHANGED own /\ RefOK' /\ live' \subseteq Objects
  BY ObjectsKept DEF statement_build_for_execution
<1>2. PlainOK'
  BY <1>1 DEF statement_build_for_execution, Typed, PlainOK, futureVars
<1>3. CASE UNCHANGED driver /\ call' = [call EXCEPT ![t].at = "submit"]
  <2> DEFINE k == [call[t] EXCEPT !.at = "submit"]
  <2>1. call' = [call EXCEPT ![t] = k]
    BY <1>3
  <2>2. call[t] \in Frames /\ FrameOK(call[t])
    BY DEF Typed, CallOK
  <2>3. /\ k \in Frames /\ k.op = call[t].op /\ k.at = "submit" /\ k.self = call[t].self
        /\ k.arg = call[t].arg /\ k.future = call[t].future /\ k.executed = call[t].executed
        /\ k.iterator = call[t].iterator
    BY <2>2 DEF Frames
  <2> HIDE DEF k
  <2>4. Executing(call[t])
    BY <2>2, IdleOK DEF statement_build_for_execution, FrameOK, PlaceOK, Executing, Frames
  <2>5. FrameOK(k)
    BY <2>2, <2>3, <2>4 DEF FrameOK, PlaceOK, Executing, statement_build_for_execution
  <2>6. call[t].future = None /\ call[t].iterator = None
    BY <2>2, <2>4 DEF FrameOK, Executing, statement_build_for_execution
  <2>7. k["future"] = None /\ k["iterator"] = None /\ k["executed"] = call[t]["executed"]
    BY <2>3, <2>6
  <2>8. Keeps(t, k, {}, {})
    BY <2>7 DEF Keeps, FrameFields
  <2> QED
    BY <1>1, <1>2, <1>3, <2>1, <2>5, <2>8, FrameTyped
<1>4. CASE Driver({}, {call[t].executed}) /\ Return(t)
  <2>1. \A h \in {call[t].executed} : h = None \/ \E j \in FrameFields : h = call[t][j]
    BY DEF FrameFields
  <2> QED
    BY <1>1, <1>2, <1>4, <2>1, ReturnTyped
<1> QED
  BY <1>3, <1>4 DEF statement_build_for_execution

LEMMA RequestTyped ==
  ASSUME Typed, NEW t \in Threads, nogvl_session_request(t)
  PROVE  Typed'
<1> DEFINE kind == RequestOf(call[t].op)
           place == IF call[t].op \in {"prepare", "next_page"} THEN "wait" ELSE "create"
           k == [call[t] EXCEPT !.future = Fresh(kind), !.at = place]
           new == {Fresh(kind)}
<1>1. UNCHANGED own /\ RefOK' /\ live' \subseteq Objects
  BY ObjectsKept DEF nogvl_session_request
<1>2. PlainOK'
  BY <1>1 DEF nogvl_session_request, Typed, PlainOK, futureVars
<1>3. call[t] \in Frames /\ FrameOK(call[t]) /\ call[t].at = "submit"
  BY DEF Typed, CallOK, nogvl_session_request
<1>4. call[t].op \in {"prepare", "prepare_async", "execute", "execute_async", "next_page"}
  BY <1>3, IdleOK DEF FrameOK, PlaceOK, Frames
<1>5. kind \in Kinds
  BY <1>4 DEF RequestOf, Kinds
<1>6. Fresh(kind) \in Handles /\ driver[Fresh(kind)] = "free" /\ Fresh(kind) # None
  BY <1>5, FreshFree DEF nogvl_session_request, Available
<1>7. call' = [call EXCEPT ![t] = k] /\ Driver(new, {})
  BY DEF nogvl_session_request
<1>8. /\ call[t].op \in {"prepare", "next_page"} => place = "wait"
      /\ call[t].op \notin {"prepare", "next_page"} => place = "create"
  OBVIOUS
<1> HIDE DEF place, kind
<1>9. /\ k \in Frames /\ k.op = call[t].op /\ k.at = place /\ k.self = call[t].self
      /\ k.arg = call[t].arg /\ k.obj = call[t].obj
      /\ k.future = Fresh(kind) /\ k.executed = call[t].executed /\ k.iterator = call[t].iterator
  BY <1>3, <1>6, <1>8 DEF Frames
<1> HIDE DEF k
<1>10. FrameOK(k)
  BY <1>3, <1>4, <1>6, <1>8, <1>9 DEF FrameOK, PlaceOK, Executing
<1>11. call[t].iterator = None
  BY <1>3, <1>4 DEF FrameOK
<1>12. call[t].executed = None \/ driver[call[t].executed] = "live"
  BY Slots, <1>3 DEF Typed, SlotInv, FrameFields
<1>13. k["future"] = Fresh(kind) /\ k["iterator"] = None /\ k["executed"] = call[t]["executed"]
  BY <1>9, <1>11
<1>14. Keeps(t, k, new, {})
  BY <1>6, <1>12, <1>13 DEF Keeps, FrameFields
<1> HIDE DEF new
<1> QED
  BY <1>1, <1>2, <1>7, <1>10, <1>14, FrameTyped

LEMMA NewStatementTyped ==
  ASSUME Typed, NEW t \in Threads, NEW s \in Sessions \cup {None}, NewStatement(s),
         Available({"prepared", "scratch"}), Return(t), UNCHANGED <<futureVars, seen, exiting>>,
         NEW old, \A h \in old : \E j \in FrameFields : h = call[t][j],
         Driver({Fresh("prepared"), Fresh("scratch")}, old)
  PROVE  Typed'
<1>1. PICK st \in Unused(Statements) :
        /\ Create(st, [prepared |-> Fresh("prepared"), statement |-> Fresh("scratch")], [session |-> s])
        /\ held' = held \cup {st}
  BY DEF NewStatement
<1> DEFINE values == [prepared |-> Fresh("prepared"), statement |-> Fresh("scratch")]
           r == Given(HandleFields(st), values)
           new == {Fresh("prepared"), Fresh("scratch")}
<1>2. st \in Statements /\ st \in Objects /\ Sessions \subseteq Objects
  BY DEF Unused, Objects
<1>3. /\ Fresh("prepared") \in Handles /\ driver[Fresh("prepared")] = "free"
      /\ Fresh("scratch") \in Handles /\ driver[Fresh("scratch")] = "free"
      /\ Fresh("prepared") # Fresh("scratch")
  <2>1. "prepared" \in Kinds /\ "scratch" \in Kinds
    BY DEF Kinds
  <2> QED
    BY <2>1, FreshFree DEF Available
<1>4. own' = [own EXCEPT ![st] = r] /\ RefOK' /\ live' \subseteq Objects
  BY <1>1, <1>2, CreateStep, FieldsOf DEF Typed, PlainOK, Class
<1>5. /\ HandleFields(st) = {"prepared", "statement"}
      /\ r["prepared"] = Fresh("prepared") /\ r["statement"] = Fresh("scratch")
      /\ r \in [HandleFields(st) -> Handles \cup {None}]
  BY <1>2, <1>3, FieldsOf DEF Given
<1> HIDE DEF r
<1>6. Passes(t, Idle, st, r, new, old)
  BY <1>3, <1>5, IdleOK DEF Passes, FrameFields, Had
<1>7. PlainOK'
  BY <1>1, <1>2, <1>4 DEF Typed, PlainOK, futureVars
<1>8. call' = [call EXCEPT ![t] = Idle]
  BY DEF Return, Enter
<1> HIDE DEF new
<1>9. Driver(new, old)
  BY DEF new
<1> QED
  BY <1>2, <1>4, <1>5, <1>6, <1>7, <1>8, <1>9, IdleOK, ObjectTyped

LEMMA PreparedTyped ==
  ASSUME Typed, NEW t \in Threads, Prepared(t)
  PROVE  Typed'
<1>1. FrameOK(call[t]) /\ call[t].op = "prepare" /\ call[t].self \in Sessions
  BY DEF Typed, CallOK, Prepared, At, FrameOK
<1>2. CASE Driver({}, {call[t].future}) /\ UNCHANGED <<objectVars, held>>
  <2>1. UNCHANGED own /\ RefOK' /\ live' \subseteq Objects
    BY <1>2, ObjectsKept
  <2>2. PlainOK'
    BY <1>2, <2>1 DEF Prepared, Typed, PlainOK, futureVars
  <2>3. \A h \in {call[t].future} : h = None \/ \E j \in FrameFields : h = call[t][j]
    BY DEF FrameFields
  <2> QED
    BY <1>2, <2>1, <2>2, <2>3, ReturnTyped DEF Prepared
<1>3. CASE /\ Available({"prepared", "scratch"}) /\ NewStatement(call[t].self)
           /\ Driver({Fresh("prepared"), Fresh("scratch")}, {call[t].future})
  <2>1. \A h \in {call[t].future} : \E j \in FrameFields : h = call[t][j]
    BY DEF FrameFields
  <2>2. Return(t) /\ UNCHANGED <<futureVars, seen, exiting>>
    BY DEF Prepared
  <2>3. PICK s \in Sessions : s = call[t].self
    BY <1>1
  <2>4. PICK old : old = {call[t].future}
    OBVIOUS
  <2> QED
    BY <1>3, <2>1, <2>2, <2>3, <2>4, NewStatementTyped
<1> QED
  BY <1>2, <1>3 DEF Prepared

LEMMA FutureCreateTyped ==
  ASSUME Typed, NEW t \in Threads, future_create(t)
  PROVE  Typed'
<1> DEFINE c == call[t]
<1>1. PICK f \in Unused(Futures) :
        /\ Create(f, [future |-> c.future], [session |-> c.self, statement |-> c.arg])
        /\ call' = [call EXCEPT ![t].at = "mutex", ![t].obj = f, ![t].future = None]
  BY DEF future_create
<1> DEFINE k == [c EXCEPT !.at = "mutex", !.obj = f, !.future = None]
           r == Given(HandleFields(f), [future |-> c.future])
<1>2. f \in Futures /\ f \in Objects
  BY DEF Unused, Objects
<1>3. /\ c \in Frames /\ FrameOK(c) /\ c.op \in {"prepare_async", "execute_async"} /\ c.at = "create"
      /\ c.self \in Sessions /\ c.arg \in Statements \cup {None}
      /\ c.future \in Handles /\ c.iterator = None
  BY DEF Typed, CallOK, future_create, FrameOK, Frames, Executing
<1>4. /\ k \in Frames /\ k.op = c.op /\ k.at = "mutex" /\ k.self = c.self /\ k.arg = c.arg /\ k.obj = f
      /\ k.future = None /\ k.executed = c.executed /\ k.iterator = c.iterator
  BY <1>2, <1>3 DEF Frames
<1>5. call' = [call EXCEPT ![t] = k]
  BY <1>1
<1> HIDE DEF k
<1>6. FrameOK(k)
  BY <1>2, <1>3, <1>4 DEF FrameOK, PlaceOK, Executing
<1>7. Sessions \subseteq Objects /\ Statements \subseteq Objects
  BY DEF Objects
<1>8. own' = [own EXCEPT ![f] = r] /\ RefOK' /\ live' \subseteq Objects
  BY <1>1, <1>2, <1>3, <1>7, CreateStep, FieldsOf DEF Typed, PlainOK, Class
<1>9. /\ HandleFields(f) = {"future", "executed"} /\ r["future"] = c.future /\ r["executed"] = None
      /\ r \in [HandleFields(f) -> Handles \cup {None}]
  BY <1>2, <1>3, FieldsOf DEF Given
<1> HIDE DEF r
<1>10. k["future"] = None /\ k["executed"] = c["executed"] /\ k["iterator"] = None
  BY <1>3, <1>4
<1>11. c["executed"] # c["future"]
  <2>1. t \in Holders /\ Fields(t) = FrameFields /\ Slot(t, "executed") = c["executed"] /\ Slot(t, "future") = c["future"]
    BY Slots
  <2>2. c["future"] # None
    BY <1>3, HandlesAssumption
  <2> QED
    BY <2>1, <2>2 DEF Typed, SlotInv, FrameFields
<1>12. Passes(t, k, f, r, {}, {})
  BY <1>9, <1>10, <1>11 DEF Passes, FrameFields, Had
<1>13. PlainOK'
  BY <1>8 DEF future_create, Typed, PlainOK, futureVars
<1>14. UNCHANGED driver
  BY DEF future_create
<1> QED
  BY <1>2, <1>5, <1>6, <1>8, <1>9, <1>12, <1>13, <1>14, ObjectTyped

\* The handles of a frame and of an object are apart.
LEMMA Apart ==
  ASSUME SlotInv, NEW t \in Threads, NEW o \in Objects
  PROVE  /\ \A i, j \in FrameFields : call[t][i] = call[t][j] /\ call[t][i] # None => i = j
         /\ \A i, j \in HandleFields(o) : own[o][i] = own[o][j] /\ own[o][i] # None => i = j
         /\ \A i \in FrameFields, j \in HandleFields(o) : call[t][i] = own[o][j] => call[t][i] = None
         /\ \A i \in FrameFields : call[t][i] = None \/ driver[call[t][i]] = "live"
         /\ \A j \in HandleFields(o) : own[o][j] = None \/ driver[own[o][j]] = "live"
<1>1. /\ t \in Holders /\ Fields(t) = FrameFields /\ \A k : Slot(t, k) = call[t][k]
      /\ o \in Holders /\ o # t /\ Fields(o) = HandleFields(o) /\ \A k : Slot(o, k) = own[o][k]
  BY Slots
<1>2. /\ \A i \in Fields(t) : Slot(t, i) # None => driver[Slot(t, i)] = "live"
      /\ \A j \in Fields(o) : Slot(o, j) # None => driver[Slot(o, j)] = "live"
      /\ \A i, j \in Fields(t) : Slot(t, i) = Slot(t, j) /\ Slot(t, i) # None => i = j
      /\ \A i, j \in Fields(o) : Slot(o, i) = Slot(o, j) /\ Slot(o, i) # None => i = j
      /\ \A i \in Fields(t), j \in Fields(o) : Slot(t, i) = Slot(o, j) => Slot(t, i) = None
  BY <1>1 DEF SlotInv
<1> QED
  BY <1>1, <1>2

LEMMA FutureCreatedTyped ==
  ASSUME Typed, NEW t \in Threads, FutureCreated(t)
  PROVE  Typed'
<1> DEFINE c == call[t]
           o == call[t].obj
<1>1. PICK m \in Unused(Mutexes) : live' = live \cup {m} /\ ref' = [ref EXCEPT ![o].mutex = m]
  BY DEF FutureCreated
<1> DEFINE r == [own[o] EXCEPT !.executed = c.executed]
           q == [ref[o] EXCEPT !.mutex = m]
<1>2. m \in Mutexes /\ m \in Objects
  BY DEF Unused, Objects
<1>3. c \in Frames /\ FrameOK(c) /\ o \in Futures /\ o \in Objects
  BY DEF Typed, CallOK, FutureCreated, FrameOK, Objects
<1>4. /\ HandleFields(o) = {"future", "executed"} /\ own[o] \in [HandleFields(o) -> Handles \cup {None}]
      /\ RefFields(o) = {"session", "statement", "on_success", "on_failure", "mutex"}
      /\ ref[o] \in [RefFields(o) -> Objects \cup {None}]
      /\ \A k \in RefFields(o) : ref[o][k] \in Class(o, k) \cup {None}
  BY <1>3, FieldsOf DEF Typed, OwnOK, RefOK
<1>5. own' = [own EXCEPT ![o] = r] /\ ref' = [ref EXCEPT ![o] = q]
  BY <1>1 DEF FutureCreated
<1>6. /\ r \in [HandleFields(o) -> Handles \cup {None}]
      /\ r["future"] = own[o]["future"] /\ r["executed"] = c["executed"]
  BY <1>3, <1>4 DEF Frames
<1>7. q \in [RefFields(o) -> Objects \cup {None}] /\ \A k \in RefFields(o) : q[k] \in Class(o, k) \cup {None}
  <2>1. q["mutex"] = m /\ \A k \in RefFields(o) \ {"mutex"} : q[k] = ref[o][k]
    BY <1>4
  <2>2. q \in [RefFields(o) -> Objects \cup {None}]
    BY <1>2, <1>4
  <2> HIDE DEF q
  <2>3. Class(o, "mutex") = Mutexes
    BY DEF Class
  <2> QED
    BY <1>2, <1>4, <2>1, <2>2, <2>3
<1> HIDE DEF r, q
<1>8. RefOK'
  BY <1>3, <1>5, <1>7, RefStep DEF Typed
<1>9. Passes(t, Idle, o, r, {}, {})
  <2>1. c["executed"] = own[o]["future"] => c["executed"] = None
    BY <1>3, <1>4, Apart DEF Typed, FrameFields
  <2> QED
    BY <1>4, <1>6, <2>1, IdleOK DEF Passes, FrameFields, Had
<1>10. PlainOK'
  BY <1>1, <1>2, <1>3 DEF FutureCreated, Typed, PlainOK, futureVars
<1>11. UNCHANGED driver /\ call' = [call EXCEPT ![t] = Idle]
  BY DEF FutureCreated, Return, Enter
<1> HIDE DEF o
<1> QED
  BY <1>3, <1>5, <1>6, <1>8, <1>9, <1>10, <1>11, IdleOK, ObjectTyped

LEMMA ResultCreatedTyped ==
  ASSUME Typed, NEW t \in Threads, ResultCreated(t)
  PROVE  Typed'
<1> DEFINE c == call[t]
<1>1. PICK o \in Unused(Results) :
        /\ Create(o, [future |-> c.future, executed |-> c.executed], [statement |-> c.arg])
        /\ call' = [call EXCEPT ![t].at = "wait", ![t].obj = o, ![t].future = None, ![t].executed = None]
  BY DEF ResultCreated
<1> DEFINE k == [c EXCEPT !.at = "wait", !.obj = o, !.future = None, !.executed = None]
           r == Given(HandleFields(o), [future |-> c.future, executed |-> c.executed])
<1>2. o \in Results /\ o \in Objects
  BY DEF Unused, Objects
<1>3. /\ c \in Frames /\ FrameOK(c) /\ c.op = "execute" /\ c.at = "create"
      /\ c.self \in Sessions /\ c.arg \in Statements /\ c.arg \in Objects
      /\ c.future \in Handles /\ c.executed \in Handles /\ c.iterator = None
  BY DEF Typed, CallOK, ResultCreated, At, FrameOK, Frames, Executing, Objects
<1>4. /\ k \in Frames /\ k.op = c.op /\ k.at = "wait" /\ k.self = c.self /\ k.arg = c.arg /\ k.obj = o
      /\ k.future = None /\ k.executed = None /\ k.iterator = None
      /\ k["future"] = None /\ k["executed"] = None /\ k["iterator"] = None
  BY <1>2, <1>3 DEF Frames
<1>5. call' = [call EXCEPT ![t] = k]
  BY <1>1
<1> HIDE DEF k
<1>6. FrameOK(k)
  BY <1>2, <1>3, <1>4 DEF FrameOK, PlaceOK, Executing
<1>7. own' = [own EXCEPT ![o] = r] /\ RefOK' /\ live' \subseteq Objects
  BY <1>1, <1>2, <1>3, CreateStep, FieldsOf DEF Typed, PlainOK, Class
<1>8. /\ HandleFields(o) = {"result", "future", "executed"} /\ r["result"] = None
      /\ r["future"] = c["future"] /\ r["executed"] = c["executed"]
      /\ r \in [HandleFields(o) -> Handles \cup {None}]
  BY <1>2, <1>3, FieldsOf DEF Given
<1> HIDE DEF r
<1>9. c["executed"] # c["future"]
  <2>1. c["future"] # None
    BY <1>3, HandlesAssumption
  <2> QED
    BY <1>2, <2>1, Apart DEF Typed, FrameFields
<1>10. Passes(t, k, o, r, {}, {})
  BY <1>4, <1>8, <1>9 DEF Passes, FrameFields, Had
<1>11. PlainOK'
  BY <1>7 DEF ResultCreated, Typed, PlainOK, futureVars
<1>12. UNCHANGED driver
  BY DEF ResultCreated
<1> QED
  BY <1>2, <1>5, <1>6, <1>7, <1>8, <1>10, <1>11, <1>12, ObjectTyped

LEMMA ResultAwaitTyped ==
  ASSUME Typed, NEW t \in Threads, result_await(t)
  PROVE  Typed'
<1> DEFINE c == call[t]
           o == call[t].obj
<1>1. c \in Frames /\ FrameOK(c) /\ c.op = "execute" /\ c.at = "wait" /\ o \in Results /\ o \in Objects
  BY DEF Typed, CallOK, result_await, At, FrameOK, Objects
<1>2. c["future"] = None /\ c["executed"] = None /\ c["iterator"] = None
  BY <1>1 DEF FrameOK, Executing
<1>3. RefOK' /\ live' \subseteq Objects
  BY DEF result_await, Typed, RefOK, PlainOK
<1>4. PlainOK'
  BY <1>1, <1>3 DEF result_await, Typed, PlainOK, futureVars
<1>5. Return(t)
  BY DEF result_await
<1>6. CASE UNCHANGED <<driver, own, held>>
  BY <1>3, <1>4, <1>5, <1>6, ReturnOnlyTyped
<1>7. CASE /\ Available({"result"}) /\ own' = [own EXCEPT ![o].result = Fresh("result")]
           /\ Driver({Fresh("result")}, {})
  <2> DEFINE r == [own[o] EXCEPT !.result = Fresh("result")]
             new == {Fresh("result")}
  <2>1. Fresh("result") \in Handles /\ driver[Fresh("result")] = "free"
    BY <1>7, FreshFree DEF Available, Kinds
  <2>2. HandleFields(o) = {"result", "future", "executed"} /\ own[o] \in [HandleFields(o) -> Handles \cup {None}]
    BY <1>1, FieldsOf DEF Typed, OwnOK
  <2>3. own' = [own EXCEPT ![o] = r] /\ Driver(new, {})
    BY <1>7
  <2>4. /\ r \in [HandleFields(o) -> Handles \cup {None}] /\ r["result"] = Fresh("result")
        /\ r["future"] = own[o]["future"] /\ r["executed"] = own[o]["executed"]
    BY <2>1, <2>2
  <2> HIDE DEF r
  <2>5. /\ own[o]["future"] = own[o]["executed"] => own[o]["future"] = None
        /\ own[o]["future"] # Fresh("result") /\ own[o]["executed"] # Fresh("result")
    BY <1>1, <2>1, <2>2, Apart, HandlesAssumption DEF Typed
  <2>6. Passes(t, Idle, o, r, new, {})
    BY <2>1, <2>2, <2>4, <2>5, IdleOK DEF Passes, FrameFields, Had
  <2>7. call' = [call EXCEPT ![t] = Idle]
    BY <1>5 DEF Return, Enter
  <2> HIDE DEF new
  <2> QED
    BY <1>1, <1>3, <1>4, <2>3, <2>4, <2>6, <2>7, IdleOK, ObjectTyped
<1> QED
  BY <1>6, <1>7 DEF result_await

LEMMA NextPageBeginTyped ==
  ASSUME Typed, NEW t \in Threads, result_next_page(t)
  PROVE  Typed'
<1>1. PICK r \in Held(Results) :
        call' = [call EXCEPT ![t] = [Idle EXCEPT !.op = "next_page", !.at = "submit", !.self = r]]
  BY DEF result_next_page, Enter
<1> DEFINE k == [Idle EXCEPT !.op = "next_page", !.at = "submit", !.self = r]
<1>2. r \in Results /\ r \in Objects
  BY DEF Held, Objects
<1>3. /\ k \in Frames /\ k.op = "next_page" /\ k.at = "submit" /\ k.self = r
      /\ k["future"] = None /\ k["executed"] = None /\ k["iterator"] = None
  BY <1>2 DEF Idle, Frames
<1>4. call' = [call EXCEPT ![t] = k]
  BY <1>1
<1> HIDE DEF k
<1>5. FrameOK(k)
  BY <1>2, <1>3 DEF FrameOK, PlaceOK, Executing
<1>6. Keeps(t, k, {}, {})
  BY <1>3 DEF Keeps, FrameFields
<1>7. UNCHANGED own /\ RefOK' /\ live' \subseteq Objects
  BY ObjectsKept DEF result_next_page
<1>8. PlainOK'
  BY <1>7 DEF result_next_page, Typed, PlainOK, futureVars
<1> QED
  BY <1>4, <1>5, <1>6, <1>7, <1>8, FrameTyped DEF result_next_page

LEMMA NextPageTyped ==
  ASSUME Typed, NEW t \in Threads, NextPage(t)
  PROVE  Typed'
<1> DEFINE c == call[t]
           o == call[t].self
<1>1. /\ c \in Frames /\ FrameOK(c) /\ c.op = "next_page" /\ c.at = "wait" /\ o \in Results /\ o \in Objects
      /\ c.future \in Handles
  BY DEF Typed, CallOK, NextPage, At, FrameOK, Objects, Frames
<1>2. RefOK' /\ live' \subseteq Objects
  BY DEF NextPage, Typed, RefOK, PlainOK
<1>3. PlainOK'
  BY <1>2 DEF NextPage, Typed, PlainOK, futureVars
<1>4. Return(t)
  BY DEF NextPage
<1>5. CASE Driver({}, {c.future}) /\ UNCHANGED own
  <2>1. \A h \in {c.future} : h = None \/ \E j \in FrameFields : h = call[t][j]
    BY DEF FrameFields
  <2> QED
    BY <1>2, <1>3, <1>4, <1>5, <2>1, ReturnTyped
<1>6. CASE /\ Available({"result"})
           /\ own' = [own EXCEPT ![o].result = Fresh("result"), ![o].future = c.future]
           /\ Driver({Fresh("result")}, {own[o].result, own[o].future})
  <2> DEFINE r == [own[o] EXCEPT !.result = Fresh("result"), !.future = c.future]
             new == {Fresh("result")}
             old == {own[o].result, own[o].future}
  <2>1. Fresh("result") \in Handles /\ driver[Fresh("result")] = "free"
    BY <1>6, FreshFree DEF Available, Kinds
  <2>2. HandleFields(o) = {"result", "future", "executed"} /\ own[o] \in [HandleFields(o) -> Handles \cup {None}]
    BY <1>1, FieldsOf DEF Typed, OwnOK
  <2>3. own' = [own EXCEPT ![o] = r] /\ Driver(new, old)
    BY <1>6
  <2>4. /\ r \in [HandleFields(o) -> Handles \cup {None}] /\ r["result"] = Fresh("result")
        /\ r["future"] = c["future"] /\ r["executed"] = own[o]["executed"]
    BY <1>1, <2>1, <2>2
  <2>5. old = {own[o]["result"], own[o]["future"]}
    OBVIOUS
  <2> HIDE DEF r, old
  <2>6. c["future"] # None /\ driver[c["future"]] = "live" /\ c["future"] # Fresh("result")
    BY <1>1, <2>1, Apart, HandlesAssumption DEF Typed, FrameFields
  <2>7. own[o]["executed"] # Fresh("result")
    BY <1>1, <2>1, <2>2, Apart, HandlesAssumption DEF Typed
  <2>8. own[o]["executed"] = None \/ own[o]["executed"] \notin old \cup {c["future"]}
    BY <1>1, <2>2, <2>5, Apart DEF Typed, FrameFields
  <2>9. c["future"] \notin old
    BY <1>1, <2>2, <2>5, <2>6, Apart DEF Typed, FrameFields
  <2>10. Passes(t, Idle, o, r, new, old)
    <3>1. old \subseteq Had(t, o)
      BY <2>2, <2>5 DEF Had
    <3>2. c["future"] \in Had(t, o) /\ own[o]["executed"] \in Had(t, o)
      BY <2>2 DEF Had, FrameFields
    <3>3. \A j \in HandleFields(o) : r[j] \in {None} \cup new \cup (Had(t, o) \ old)
      BY <2>2, <2>4, <2>8, <2>9, <3>2
    <3>4. \A i, j \in HandleFields(o) : i # j => r[i] # r[j] \/ r[i] = None
      BY <2>2, <2>4, <2>6, <2>7, <2>8
    <3> QED
      BY <2>1, <3>1, <3>3, <3>4, IdleOK DEF Passes, FrameFields
  <2>11. call' = [call EXCEPT ![t] = Idle]
    BY <1>4 DEF Return, Enter
  <2> HIDE DEF new
  <2> QED
    BY <1>1, <1>2, <1>3, <2>3, <2>4, <2>10, <2>11, IdleOK, ObjectTyped
<1> QED
  BY <1>5, <1>6 DEF NextPage

LEMMA EachTyped ==
  ASSUME Typed, NEW t \in Threads, result_each(t)
  PROVE  Typed'
<1>1. PICK r \in Held(Results) :
        call' = [call EXCEPT ![t] = [Idle EXCEPT !.op = "each", !.at = "block", !.self = r,
                                                 !.iterator = Fresh("iterator")]]
  BY DEF result_each, Enter
<1> DEFINE k == [Idle EXCEPT !.op = "each", !.at = "block", !.self = r, !.iterator = Fresh("iterator")]
           new == {Fresh("iterator")}
<1>2. r \in Results /\ r \in Objects
  BY DEF Held, Objects
<1>3. Fresh("iterator") \in Handles /\ driver[Fresh("iterator")] = "free" /\ Fresh("iterator") # None
  BY FreshFree DEF result_each, Available, Kinds
<1>4. /\ k \in Frames /\ k.op = "each" /\ k.at = "block" /\ k.self = r
      /\ k["future"] = None /\ k["executed"] = None /\ k["iterator"] = Fresh("iterator")
  BY <1>2, <1>3 DEF Idle, Frames
<1>5. call' = [call EXCEPT ![t] = k]
  BY <1>1
<1> HIDE DEF k
<1>6. FrameOK(k)
  BY <1>2, <1>3, <1>4 DEF FrameOK, PlaceOK, Executing
<1>7. Keeps(t, k, new, {})
  BY <1>3, <1>4 DEF Keeps, FrameFields
<1>8. UNCHANGED own /\ RefOK' /\ live' \subseteq Objects
  BY ObjectsKept DEF result_each
<1>9. PlainOK'
  BY <1>8 DEF result_each, Typed, PlainOK, futureVars
<1>10. Driver(new, {})
  BY DEF result_each
<1> HIDE DEF new
<1> QED
  BY <1>5, <1>6, <1>7, <1>8, <1>9, <1>10, FrameTyped

LEMMA EachEnsureTyped ==
  ASSUME Typed, NEW t \in Threads, result_each_ensure(t)
  PROVE  Typed'
<1>1. UNCHANGED own /\ RefOK' /\ live' \subseteq Objects
  BY ObjectsKept DEF result_each_ensure
<1>2. PlainOK'
  BY <1>1 DEF result_each_ensure, Typed, PlainOK, futureVars
<1>3. \A h \in {call[t].iterator} : h = None \/ \E j \in FrameFields : h = call[t][j]
  BY DEF FrameFields
<1> QED
  BY <1>1, <1>2, <1>3, ReturnTyped DEF result_each_ensure

\* The frame of a thread that calls a block.
YieldFrame(f) == [Idle EXCEPT !.at = "yield", !.self = f]

LEMMA YieldFrameOK ==
  ASSUME NEW f \in Futures
  PROVE  /\ FrameOK(YieldFrame(f))
         /\ YieldFrame(f)["future"] = None /\ YieldFrame(f)["executed"] = None
         /\ YieldFrame(f)["iterator"] = None
<1> DEFINE k == YieldFrame(f)
<1>1. /\ k \in Frames /\ k.op = "none" /\ k.at = "yield" /\ k.self = f
      /\ k["future"] = None /\ k["executed"] = None /\ k["iterator"] = None
  BY DEF YieldFrame, Idle, Frames, Objects
<1> HIDE DEF k
<1>2. FrameOK(k)
  BY <1>1 DEF FrameOK, PlaceOK, Executing
<1> QED
  BY <1>1, <1>2 DEF k

LEMMA FutureOnTyped ==
  ASSUME Typed, NEW t \in Threads, NEW f \in Futures, NEW method \in {"on_success", "on_failure"},
         future_on(t, f, method)
  PROVE  Typed'
<1>1. PICK b \in Unused(Procs) :
        /\ live' = live \cup {b}
        /\ ref' = [ref EXCEPT ![f][method] = b]
        /\ Barrier(f, b)
  BY DEF future_on
<1> DEFINE q == [ref[f] EXCEPT ![method] = b]
<1>2. b \in Procs /\ b \in Objects /\ f \in Objects
  BY DEF Unused, Objects
<1>3. /\ RefFields(f) = {"session", "statement", "on_success", "on_failure", "mutex"}
      /\ ref[f] \in [RefFields(f) -> Objects \cup {None}]
      /\ \A k \in RefFields(f) : ref[f][k] \in Class(f, k) \cup {None}
  BY <1>2, FieldsOf DEF Typed, RefOK
<1>4. q[method] = b /\ \A k \in RefFields(f) \ {method} : q[k] = ref[f][k]
  BY <1>3
<1>5. q \in [RefFields(f) -> Objects \cup {None}]
  BY <1>2, <1>3
<1>6. ref' = [ref EXCEPT ![f] = q]
  BY <1>1
<1> HIDE DEF q
<1>7. Class(f, method) = Procs
  BY DEF Class
<1>8. RefOK'
  BY <1>2, <1>3, <1>4, <1>5, <1>6, <1>7, RefStep DEF Typed
<1>9. seen' \in [Futures -> {None} \cup SUBSET Objects]
  <2>1. seen \in [Futures -> {None} \cup SUBSET Objects]
    BY DEF Typed, PlainOK
  <2>2. (IF seen[f] = None THEN None ELSE seen[f] \cup {b}) \in {None} \cup SUBSET Objects
    BY <1>2, <2>1
  <2> QED
    BY <1>1, <2>1, <2>2 DEF Barrier
<1>10. PlainOK'
  <2>1. live' \subseteq Objects /\ held' \subseteq Objects /\ exiting' \in BOOLEAN
    BY <1>1, <1>2 DEF future_on, Typed, PlainOK
  <2>2. pooled' \subseteq Futures /\ outcome' \in [Futures -> {"pending", "success", "failure"}]
    BY DEF future_on, Typed, PlainOK
  <2>3. yielded' \in [Futures -> BOOLEAN]
    BY DEF future_on, Typed, PlainOK
  <2> QED
    BY <1>9, <2>1, <2>2, <2>3 DEF PlainOK
<1>11. UNCHANGED own /\ UNCHANGED driver
  BY DEF future_on
<1>12. call[t] = Idle
  BY DEF future_on, CanCall
<1>13. CASE call' = [call EXCEPT ![t] = YieldFrame(f)]
  <2>1. Keeps(t, YieldFrame(f), {}, {})
    BY YieldFrameOK DEF Keeps, FrameFields
  <2> QED
    BY <1>8, <1>10, <1>11, <1>13, <2>1, FrameTyped, YieldFrameOK
<1>14. CASE call' = call
  <2>1. Keeps(t, Idle, {}, {}) /\ call' = [call EXCEPT ![t] = Idle]
    BY <1>12, <1>14, IdleOK DEF Keeps, FrameFields, Typed, CallOK
  <2> QED
    BY <1>8, <1>10, <1>11, <2>1, FrameTyped, IdleOK
<1> QED
  BY <1>13, <1>14 DEF future_on, YieldFrame

LEMMA YielderTyped ==
  ASSUME Typed, NEW w \in Workers, future_result_yielder_synchronize(w)
  PROVE  Typed'
<1>1. PICK f \in pooled :
        /\ CanCall(w) /\ pooled' = pooled \ {f}
        /\ yielded' = [yielded EXCEPT ![f] = @ \/ (~yielded[f] /\ ref[f][BlockOf[outcome[f]]] # None)]
        /\ Enter(w, [Idle EXCEPT !.at = "yield", !.self = f]) \/ UNCHANGED call
        /\ UNCHANGED <<driver, objectVars, outcome, held, seen, exiting>>
  BY DEF future_result_yielder_synchronize
<1>2. f \in Futures /\ w \in Threads
  BY DEF Typed, PlainOK, Threads
<1>3. UNCHANGED own /\ RefOK' /\ live' \subseteq Objects
  BY <1>1, ObjectsKept
<1>4. yielded' \in [Futures -> BOOLEAN]
  BY <1>1, <1>2 DEF Typed, PlainOK
<1>5. PlainOK'
  BY <1>1, <1>3, <1>4 DEF Typed, PlainOK
<1>6. CASE Enter(w, [Idle EXCEPT !.at = "yield", !.self = f])
  <2>1. Keeps(w, YieldFrame(f), {}, {})
    BY <1>2, YieldFrameOK DEF Keeps, FrameFields
  <2>2. call' = [call EXCEPT ![w] = YieldFrame(f)]
    BY <1>6 DEF Enter, YieldFrame
  <2> QED
    BY <1>1, <1>2, <1>3, <1>5, <2>1, <2>2, FrameTyped, YieldFrameOK
<1>7. CASE UNCHANGED call
  <2>1. Keeps(w, Idle, {}, {}) /\ call' = [call EXCEPT ![w] = Idle]
    BY <1>1, <1>2, <1>7, IdleOK DEF Keeps, FrameFields, Typed, CallOK, CanCall
  <2> QED
    BY <1>1, <1>2, <1>3, <1>5, <2>1, FrameTyped, IdleOK
<1> QED
  BY <1>1, <1>6, <1>7

LEMMA AwaitTyped ==
  ASSUME Typed, NEW t \in Threads, future_await(t)
  PROVE  Typed'
<1>1. PICK f \in Held(Futures) :
        call' = [call EXCEPT ![t] = [Idle EXCEPT !.op = "await", !.at = "wait", !.self = f]]
  BY DEF future_await, Enter
<1> DEFINE k == [Idle EXCEPT !.op = "await", !.at = "wait", !.self = f]
<1>2. f \in Futures /\ f \in Objects
  BY DEF Held, Objects
<1>3. /\ k \in Frames /\ k.op = "await" /\ k.at = "wait" /\ k.self = f
      /\ k["future"] = None /\ k["executed"] = None /\ k["iterator"] = None
  BY <1>2 DEF Idle, Frames
<1>4. call' = [call EXCEPT ![t] = k]
  BY <1>1
<1> HIDE DEF k
<1>5. FrameOK(k)
  BY <1>2, <1>3 DEF FrameOK, PlaceOK, Executing
<1>6. Keeps(t, k, {}, {})
  BY <1>3 DEF Keeps, FrameFields
<1>7. UNCHANGED own /\ RefOK' /\ live' \subseteq Objects
  BY ObjectsKept DEF future_await
<1>8. PlainOK'
  BY <1>7 DEF future_await, Typed, PlainOK, futureVars
<1> QED
  BY <1>4, <1>5, <1>6, <1>7, <1>8, FrameTyped DEF future_await

LEMMA AwaitedTyped ==
  ASSUME Typed, NEW t \in Threads, Awaited(t)
  PROVE  Typed'
<1>1. UNCHANGED own /\ RefOK' /\ live' \subseteq Objects
  BY ObjectsKept DEF Awaited
<1>2. PlainOK'
  BY <1>1 DEF Awaited, Typed, PlainOK, futureVars
<1> QED
  BY <1>1, <1>2, ReturnOnlyTyped DEF Awaited

LEMMA SuccessYieldTyped ==
  ASSUME Typed, NEW t \in Threads, future_result_success_yield(t)
  PROVE  Typed'
<1> DEFINE c == call[t]
<1>0. PICK f \in Futures : f = call[t].self
  BY DEF Typed, CallOK, future_result_success_yield, FrameOK
<1>1. c \in Frames /\ FrameOK(c) /\ f \in Futures /\ f \in Objects
  BY DEF Typed, CallOK, Objects
<1>2. /\ RefFields(f) = {"session", "statement", "on_success", "on_failure", "mutex"}
      /\ HandleFields(f) = {"future", "executed"} /\ own[f] \in [HandleFields(f) -> Handles \cup {None}]
      /\ ref[f].session \in Sessions \cup {None} /\ ref[f].statement \in Statements \cup {None}
  BY <1>1, FieldsOf DEF Typed, RefOK, OwnOK, Class
<1>3. Return(t) /\ UNCHANGED <<futureVars, seen, exiting>>
  BY DEF future_result_success_yield
<1>4. CASE UNCHANGED <<driver, objectVars, held>>
  <2>1. UNCHANGED own /\ RefOK' /\ live' \subseteq Objects
    BY <1>4, ObjectsKept
  <2>2. PlainOK'
    BY <1>3, <1>4, <2>1 DEF Typed, PlainOK, futureVars
  <2> QED
    BY <1>3, <1>4, <2>1, <2>2, ReturnOnlyTyped
<1>5. CASE /\ Available({"prepared", "scratch"}) /\ NewStatement(ref[f].session)
           /\ Driver({Fresh("prepared"), Fresh("scratch")}, {})
  <2>1. PICK s \in Sessions \cup {None} : s = ref[f].session
    BY <1>2
  <2>2. PICK old : old = {}
    OBVIOUS
  <2> QED
    BY <1>3, <1>5, <2>1, <2>2, NewStatementTyped
<1>6. CASE /\ Available({"result"})
           /\ \E r \in Unused(Results) :
                /\ live' = live \cup {r}
                /\ own' = [own EXCEPT ![r].result = Fresh("result"),
                                      ![r].executed = own[f].executed, ![f].executed = None]
                /\ ref' = [ref EXCEPT ![r].statement = ref[f].statement]
                /\ held' = held \cup {r}
           /\ Driver({Fresh("result")}, {})
  <2>1. PICK r \in Unused(Results) :
          /\ live' = live \cup {r}
          /\ own' = [own EXCEPT ![r].result = Fresh("result"),
                                ![r].executed = own[f].executed, ![f].executed = None]
          /\ ref' = [ref EXCEPT ![r].statement = ref[f].statement]
          /\ held' = held \cup {r}
    BY <1>6
  <2> DEFINE new == {Fresh("result")}
  <2>2. r \in Results /\ r \in Objects /\ r # f
    BY <1>1, ClassesApart DEF Unused, Objects
  <2>3. HandleFields(r) = {"result", "future", "executed"} /\ own[r] \in [HandleFields(r) -> Handles \cup {None}]
    BY <2>2, FieldsOf DEF Typed, OwnOK
  <2>4. Fresh("result") \in Handles /\ driver[Fresh("result")] = "free" /\ Fresh("result") # None
    BY <1>6, FreshFree DEF Available, Kinds
  <2>5. /\ own'[r]["result"] = Fresh("result") /\ own'[r]["future"] = own[r]["future"]
        /\ own'[r]["executed"] = own[f]["executed"]
        /\ own'[f]["executed"] = None /\ own'[f]["future"] = own[f]["future"]
        /\ \A p \in Objects \ {r, f} : own'[p] = own[p]
    BY <1>1, <1>2, <2>1, <2>2, <2>3 DEF Typed, OwnOK
  <2>6. own' = [p \in Objects |-> own'[p]]
    BY <2>1 DEF Typed, OwnOK
  <2>7. own'[r] \in [HandleFields(r) -> Handles \cup {None}] /\ own'[f] \in [HandleFields(f) -> Handles \cup {None}]
    BY <1>1, <1>2, <2>1, <2>2, <2>3, <2>4 DEF Typed, OwnOK
  <2>8. OwnOK'
    BY <2>5, <2>6, <2>7 DEF Typed, OwnOK
  <2>9. call' = [call EXCEPT ![t] = Idle]
    BY <1>3 DEF Return, Enter
  <2>10. CallOK' /\ call'[t] = Idle /\ \A u \in Threads \ {t} : call'[u] = call[u]
    BY <2>9, CallStep, IdleOK DEF Typed
  <2>11. c["future"] = None /\ c["executed"] = None /\ c["iterator"] = None
    BY <1>1 DEF future_result_success_yield, FrameOK, PlaceOK, Executing
  <2>12. Slot(r, "executed") = own[r]["executed"] /\ Slot(r, "future") = own[r]["future"]
         /\ Slot(f, "executed") = own[f]["executed"] /\ Slot(f, "future") = own[f]["future"]
    BY <1>1, <2>2, Slots
  <2>13. /\ Fields(r) = {"result", "future", "executed"} /\ Fields(f) = {"future", "executed"}
         /\ r \in Holders /\ f \in Holders
    BY <1>1, <1>2, <2>2, <2>3, Slots
  <2>14. /\ Slot(r, "result")' = Fresh("result") /\ Slot(r, "future")' = Slot(r, "future")
         /\ Slot(r, "executed")' = Slot(f, "executed")
         /\ Slot(f, "executed")' = None /\ Slot(f, "future")' = Slot(f, "future")
    BY <1>1, <2>2, <2>5, <2>12, SlotsAfter
  <2>15. \A x \in Holders \ {r, f} : \A j \in Fields(x) : Slot(x, j)' = Slot(x, j)
    <3>1. ASSUME NEW x \in Objects \ {r, f}, NEW j PROVE Slot(x, j)' = Slot(x, j)
      BY <2>5, Slots, SlotsAfter
    <3>2. ASSUME NEW x \in Threads \ {t}, NEW j PROVE Slot(x, j)' = Slot(x, j)
      BY <2>10, Slots, SlotsAfter
    <3>3. ASSUME NEW j \in Fields(t) PROVE Slot(t, j)' = Slot(t, j)
      BY <2>10, <2>11, Slots, SlotsAfter, IdleOK DEF FrameFields
    <3> QED
      BY <3>1, <3>2, <3>3 DEF Holders
  <2>16. /\ Slot(r, "future") # Fresh("result") /\ Slot(f, "executed") # Fresh("result")
         /\ Slot(f, "future") # Fresh("result")
    BY <2>4, <2>13 DEF Typed, SlotInv
  <2>17. /\ Slot(r, "future") = Slot(f, "executed") => Slot(r, "future") = None
         /\ Slot(r, "future") = Slot(f, "future") => Slot(r, "future") = None
         /\ Slot(f, "executed") = Slot(f, "future") => Slot(f, "future") = None
    BY <2>2, <2>13 DEF Typed, SlotInv
  <2>18. \A x \in {r, f} : \A k \in Fields(x) :
           \/ Slot(x, k)' \in {None} \cup new
           \/ \E y \in {r, f} : \E l \in Fields(y) : Slot(x, k)' = Slot(y, l) /\ Slot(y, l) \notin {}
    BY <2>13, <2>14
  <2>19. \A x, y \in {r, f} : \A k \in Fields(x), l \in Fields(y) :
           Slot(x, k)' = Slot(y, l)' /\ Slot(x, k)' # None => x = y /\ k = l
    BY <2>2, <2>4, <2>13, <2>14, <2>16, <2>17
  <2>20. Moves({r, f}, new, {})
    BY <2>4, <2>13, <2>15, <2>18, <2>19 DEF Moves
  <2>21. DriverOK' /\ SlotInv'
    BY <1>6, <2>20, Moved DEF Typed
  <2>22. RefOK'
    <3> DEFINE q == [ref[r] EXCEPT !.statement = ref[f].statement]
    <3>1. RefFields(r) = {"statement"} /\ ref[r] \in [RefFields(r) -> Objects \cup {None}]
      BY <2>2, FieldsOf DEF Typed, RefOK
    <3>2. q["statement"] = ref[f].statement /\ q \in [RefFields(r) -> Objects \cup {None}]
      BY <1>2, <3>1 DEF Objects
    <3>3. Class(r, "statement") = Statements
      BY DEF Class
    <3>4. ref' = [ref EXCEPT ![r] = q]
      BY <2>1
    <3> HIDE DEF q
    <3> QED
      BY <1>2, <2>2, <3>1, <3>2, <3>3, <3>4, RefStep DEF Typed
  <2>23. PlainOK'
    BY <1>3, <2>1, <2>2 DEF Typed, PlainOK, futureVars
  <2> QED
    BY <2>8, <2>10, <2>21, <2>22, <2>23 DEF Typed
<1> QED
  BY <1>0, <1>4, <1>5, <1>6 DEF future_result_success_yield

\* What is lost was the frame's, or was given by the driver to nobody.
LEMMA LostTyped ==
  ASSUME Typed, NEW t \in Threads, NEW H, H \subseteq Handles, Lose(H), Return(t),
         \A h \in H : driver[h] = "free" \/ h \in FrameHandles(t),
         UNCHANGED <<objectVars, futureVars, held, seen, exiting>>
  PROVE  Typed'
<1>1. Keeps(t, Idle, {}, FrameHandles(t))
  BY IdleOK DEF Keeps, FrameFields, FrameHandles
<1>2. call' = [call EXCEPT ![t] = Idle]
  BY DEF Return, Enter
<1>3. UNCHANGED own /\ RefOK' /\ live' \subseteq Objects
  BY ObjectsKept
<1>4. Moves({t}, {}, FrameHandles(t)) /\ CallOK' /\ OwnOK'
  BY <1>1, <1>2, <1>3, FrameStep, IdleOK DEF Typed
<1>5. DriverOK' /\ \A h \in Handles \ FrameHandles(t) : driver[h] = "live" => driver'[h] = "live"
  BY DEF Lose, Typed, DriverOK
<1>6. SlotInv'
  BY <1>4, <1>5, SlotStep DEF Typed
<1>7. PlainOK'
  BY <1>3 DEF Typed, PlainOK, futureVars
<1> QED
  BY <1>3, <1>4, <1>5, <1>6, <1>7 DEF Typed

LEMMA FrameHandlesType ==
  ASSUME Typed, NEW t \in Threads
  PROVE  FrameHandles(t) \subseteq Handles /\ FrameRefs(t) \subseteq Objects
BY DEF Typed, CallOK, Frames, FrameHandles, FrameRefs

LEMMA InterruptedTyped ==
  ASSUME Typed, NEW t \in Threads, Interrupted(t)
  PROVE  Typed'
<1> DEFINE kind == RequestOf(call[t].op)
           unanswered == call[t].at = "submit" /\ Available({kind})
<1>1. PICK H \in {FrameHandles(t)} \cup (IF unanswered THEN {FrameHandles(t) \cup {Fresh(kind)}} ELSE {}) :
        Lose(H)
  BY DEF Interrupted
<1>2. ASSUME unanswered PROVE Fresh(kind) \in Handles /\ driver[Fresh(kind)] = "free"
  <2>1. FrameOK(call[t]) /\ call[t] \in Frames
    BY DEF Typed, CallOK
  <2>2. call[t].op \in {"prepare", "prepare_async", "execute", "execute_async", "next_page"}
    BY <1>2, <2>1, IdleOK DEF FrameOK, PlaceOK, Frames
  <2>3. kind \in Kinds
    BY <2>2 DEF RequestOf, Kinds
  <2> QED
    BY <1>2, <2>3, FreshFree DEF Available
<1> HIDE DEF kind
<1>3. H \subseteq Handles /\ \A h \in H : driver[h] = "free" \/ h \in FrameHandles(t)
  BY <1>1, <1>2, FrameHandlesType
<1> QED
  BY <1>1, <1>3, LostTyped DEF Interrupted

LEMMA AbandonedTyped ==
  ASSUME Typed, NEW t \in Threads, Abandoned(t)
  PROVE  Typed'
BY LostTyped, FrameHandlesType DEF Abandoned

-----------------------------------------------------------------------------
(* Nor does the collector.                                                 *)

LEMMA NoneOf ==
  /\ \A o : \A k \in HandleFields(o) : NoHandles(o)[k] = None
  /\ \A o : \A k \in RefFields(o) : NoRefs(o)[k] = None
  /\ \A o : NoHandles(o) \in [HandleFields(o) -> Handles \cup {None}]
  /\ \A o : NoRefs(o) \in [RefFields(o) -> Objects \cup {None}]
BY DEF NoHandles, NoRefs

LEMMA DestroyTyped ==
  ASSUME Typed, NEW dead, dead \subseteq live, Destroy(dead),
         held' \subseteq Objects, pooled' \subseteq Futures, exiting' \in BOOLEAN, UNCHANGED call
  PROVE  Typed'
<1> DEFINE old == UNION {Owned(o) : o \in dead}
<1>1. dead \subseteq Objects
  BY DEF Typed, PlainOK
<1>2. /\ \A o \in dead : own'[o] = NoHandles(o) /\ ref'[o] = NoRefs(o)
      /\ \A o \in Objects \ dead : own'[o] = own[o] /\ ref'[o] = ref[o]
      /\ own' = [o \in Objects |-> own'[o]] /\ ref' = [o \in Objects |-> ref'[o]]
  BY <1>1 DEF Destroy
<1>3. \A o \in Objects : own'[o] \in [HandleFields(o) -> Handles \cup {None}]
  BY <1>2, NoneOf DEF Typed, OwnOK
<1>4. \A o \in Objects : /\ ref'[o] \in [RefFields(o) -> Objects \cup {None}]
                          /\ \A k \in RefFields(o) : ref'[o][k] \in Class(o, k) \cup {None}
  BY <1>2, NoneOf DEF Typed, RefOK
<1>5. OwnOK'
  BY <1>2, <1>3 DEF OwnOK
<1>6. RefOK'
  BY <1>2, <1>4 DEF RefOK, Class
<1>7. CallOK'
  BY DEF Typed, CallOK
<1>8. ASSUME NEW h \in old
      PROVE  h = None \/ \E x \in dead : \E k \in Fields(x) : h = Slot(x, k)
  <2>1. PICK o \in dead : h \in Owned(o)
    OBVIOUS
  <2>2. DOMAIN own[o] = HandleFields(o)
    BY <1>1 DEF Typed, OwnOK
  <2>3. PICK k \in HandleFields(o) : h = own[o][k]
    BY <2>1, <2>2 DEF Owned
  <2> QED
    BY <1>1, <2>3, Slots
<1>9. \A x \in Holders \ dead : \A k \in Fields(x) : Slot(x, k)' = Slot(x, k)
  BY <1>2, Slots, SlotsAfter DEF Holders
<1>10. \A x \in dead : \A k \in Fields(x) : Slot(x, k)' = None
  BY <1>1, <1>2, Slots, SlotsAfter, NoneOf
<1> HIDE DEF old
<1>11. Moves(dead, {}, old)
  BY <1>1, <1>8, <1>9, <1>10 DEF Moves, Holders
<1>12. Driver({}, old)
  BY DEF Destroy, old
<1>13. DriverOK' /\ SlotInv'
  BY <1>11, <1>12, Moved DEF Typed
<1>14. PlainOK'
  <2>1. live' \subseteq Objects
    BY DEF Destroy, Typed, PlainOK
  <2>2. outcome' \in [Futures -> {"pending", "success", "failure"}] /\ yielded' \in [Futures -> BOOLEAN]
    BY DEF Destroy, Typed, PlainOK
  <2>3. seen' \in [Futures -> {None} \cup SUBSET Objects]
    BY DEF Destroy
  <2> QED
    BY <2>1, <2>2, <2>3 DEF PlainOK
<1> QED
  BY <1>5, <1>6, <1>7, <1>13, <1>14 DEF Typed

LEMMA CollectTyped == ASSUME Typed, Collect PROVE Typed'
<1>1. PICK kept \in SUBSET held : held' = kept /\ Destroy(live \ Reached(kept))
  BY DEF Collect
<1>2. held' \subseteq Objects /\ pooled' \subseteq Futures /\ exiting' \in BOOLEAN /\ UNCHANGED call
  BY <1>1 DEF Collect, Typed, PlainOK
<1> QED
  BY <1>1, <1>2, DestroyTyped

LEMMA ExitTyped == ASSUME Typed, Exit PROVE Typed'
BY DestroyTyped DEF Exit

\* What only concerns the futures and the marking.
LEMMA ResolveTyped == ASSUME Typed, NEW f \in Futures, Resolve(f) PROVE Typed'
<1>1. DriverOK' /\ CallOK' /\ OwnOK' /\ RefOK' /\ live' \subseteq Objects
  BY ObjectsKept DEF Resolve, Typed, DriverOK, CallOK, OwnOK
<1>2. SlotInv'
  BY DEF Resolve, objectVars, Typed, SlotInv, Slot, Fields
<1>3. PlainOK'
  BY <1>1 DEF Resolve, Typed, PlainOK
<1> QED
  BY <1>1, <1>2, <1>3 DEF Typed

LEMMA MarkTyped == ASSUME Typed, NEW f \in Futures, Mark(f) PROVE Typed'
<1>1. DriverOK' /\ CallOK' /\ OwnOK' /\ RefOK' /\ live' \subseteq Objects
  BY ObjectsKept DEF Mark, Typed, DriverOK, CallOK, OwnOK
<1>2. SlotInv'
  BY DEF Mark, objectVars, Typed, SlotInv, Slot, Fields
<1>3. Marked(f) \subseteq Objects
  <2>1. ref[f] \in [RefFields(f) -> Objects \cup {None}] /\ MarkFields(f) \subseteq RefFields(f)
    BY ClassesApart, FieldsOf DEF Typed, RefOK, MarkFields, Objects
  <2> QED
    BY <2>1 DEF Marked
<1>4. PlainOK'
  BY <1>1, <1>3 DEF Mark, Typed, PlainOK, futureVars
<1> QED
  BY <1>1, <1>2, <1>4 DEF Typed

-----------------------------------------------------------------------------

LEMMA TypedInit == Init => Typed
<1> SUFFICES ASSUME Init PROVE Typed
  OBVIOUS
<1>1. \A o \in Objects : own[o] = NoHandles(o) /\ ref[o] = NoRefs(o)
  BY DEF Init
<1>2. OwnOK
  BY <1>1, NoneOf DEF Init, OwnOK
<1>3. RefOK
  BY <1>1, NoneOf DEF Init, RefOK
<1>4. CallOK
  BY IdleOK DEF Init, CallOK, FrameOK
<1>5. \A x \in Holders : \A k \in Fields(x) : Slot(x, k) = None
  <2>1. ASSUME NEW x \in Objects, NEW k \in HandleFields(x) PROVE Slot(x, k) = None
    BY <1>1, Slots, NoneOf
  <2>2. ASSUME NEW t \in Threads, NEW k \in FrameFields PROVE Slot(t, k) = None
    BY Slots, IdleOK DEF Init, FrameFields
  <2> QED
    BY <2>1, <2>2, Slots DEF Holders
<1>6. SlotInv
  BY <1>5 DEF SlotInv
<1>7. DriverOK /\ PlainOK
  BY DEF Init, DriverOK, PlainOK
<1> QED
  BY <1>2, <1>3, <1>4, <1>6, <1>7 DEF Typed

LEMMA CallTyped == ASSUME Typed, NEW t \in Clients, Call(t) PROVE Typed'
<1>1. t \in Threads
  BY DEF Threads
<1>2. CASE cluster_initialize(t) \/ cluster_connect(t) \/ Connected(t)
  BY <1>1, <1>2, InitializeTyped, ConnectTyped, ConnectedTyped
<1>3. CASE session_prepare(t, "prepare") \/ session_prepare(t, "prepare_async")
  BY <1>1, <1>3, PrepareTyped
<1>4. CASE \/ session_execute(t, "execute", "executed")
           \/ session_execute(t, "execute_async", "executed_async")
  BY <1>1, <1>4, ExecuteTyped DEF Kinds
<1>5. CASE statement_build_for_execution(t) \/ nogvl_session_request(t) \/ Prepared(t)
  BY <1>1, <1>5, BuildTyped, RequestTyped, PreparedTyped
<1>6. CASE future_create(t) \/ FutureCreated(t) \/ ResultCreated(t) \/ result_await(t)
  BY <1>1, <1>6, FutureCreateTyped, FutureCreatedTyped, ResultCreatedTyped, ResultAwaitTyped
<1>7. CASE result_next_page(t) \/ NextPage(t) \/ result_each(t) \/ result_each_ensure(t)
  BY <1>1, <1>7, NextPageBeginTyped, NextPageTyped, EachTyped, EachEnsureTyped
<1>8. CASE \E f \in Futures : future_on(t, f, "on_success") \/ future_on(t, f, "on_failure")
  BY <1>1, <1>8, FutureOnTyped
<1>9. CASE future_await(t) \/ Awaited(t) \/ Interrupted(t) \/ Abandoned(t)
  BY <1>1, <1>9, AwaitTyped, AwaitedTyped, InterruptedTyped, AbandonedTyped
<1> QED
  BY <1>2, <1>3, <1>4, <1>5, <1>6, <1>7, <1>8, <1>9 DEF Call

LEMMA TypedNext == Typed /\ [Next]_vars => Typed'
<1> SUFFICES ASSUME Typed, [Next]_vars PROVE Typed'
  OBVIOUS
<1>1. CASE \E t \in Clients : Call(t)
  BY <1>1, CallTyped
<1>2. CASE \E w \in Workers : future_result_yielder_synchronize(w)
  BY <1>2, YielderTyped
<1>3. CASE \E t \in Threads : future_result_success_yield(t)
  BY <1>3, SuccessYieldTyped
<1>4. CASE \E f \in Futures : Resolve(f) \/ Mark(f)
  BY <1>4, ResolveTyped, MarkTyped
<1>5. CASE Collect \/ Exit
  BY <1>5, CollectTyped, ExitTyped
<1>6. CASE UNCHANGED vars
  <2>1. DriverOK' /\ CallOK' /\ OwnOK' /\ RefOK'
    BY <1>6, ObjectsKept DEF vars, Typed, DriverOK, CallOK, OwnOK, objectVars
  <2>2. PlainOK'
    BY <1>6 DEF vars, objectVars, futureVars, Typed, PlainOK
  <2>3. SlotInv'
    BY <1>6 DEF vars, objectVars, Typed, SlotInv, Slot, Fields
  <2> QED
    BY <2>1, <2>2, <2>3 DEF Typed
<1> QED
  BY <1>1, <1>2, <1>3, <1>4, <1>5, <1>6 DEF Next

LEMMA TypedAlways == Spec => []Typed
BY TypedInit, TypedNext, PTL DEF Spec

\* Whatever the calls, the blocks, the interrupts and the collector do, and in
\* whatever order, no handle is freed twice: each is in one field of one object
\* or frame (ilios.h:66-78, and the hand-overs of future.c:116-122,
\* session.c:100-106 and result.c:124-127).
THEOREM TypeCorrect == Spec => []TypeOK
<1>1. Typed => TypeOK
  <2> SUFFICES ASSUME Typed PROVE TypeOK
    OBVIOUS
  <2>1. \A t \in Threads : /\ DOMAIN call[t] = DOMAIN Idle
                            /\ FrameHandles(t) \subseteq Handles /\ FrameRefs(t) \subseteq Objects
    BY FrameHandlesType DEF Typed, CallOK, Frames, Idle
  <2>2. \A f \in Futures : seen[f] = None \/ seen[f] \subseteq Objects
    BY DEF Typed, PlainOK
  <2> QED
    BY <2>1, <2>2 DEF TypeOK, Typed, DriverOK, OwnOK, RefOK, PlainOK
<1> QED
  BY <1>1, TypedAlways, PTL
=============================================================================
