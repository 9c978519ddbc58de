-------------------------- MODULE HandlesOwnership --------------------------
(* Handles.tla implements Ownership.tla, for any objects, threads and        *)
(* numbers of handles: each handle has one owner, and none is forgotten but  *)
(* by a call that an exception cuts short.                                   *)
EXTENDS HandlesReach

-----------------------------------------------------------------------------
(* The invariant.                                                            *)

\* An object that does not exist has no handles.
UnusedInv == \A o \in Objects \ live : \A k \in HandleFields(o) : own[o][k] = None

\* A call has the object it makes for itself, until the object is complete.
Making(k) == k.at = "mutex" \/ (k.op = "execute" /\ k.at = "wait")

MakingInv ==
  \A t \in Threads : Making(call[t]) =>
    LET o == call[t].obj IN
    /\ o \notin held \cup pooled
    /\ \A u \in Threads : call[u].self # o
    /\ \A u \in Threads \ {t} : Making(call[u]) => call[u].obj # o
    /\ call[t].at = "mutex" => own[o]["executed"] = None
    /\ call[t].op = "execute" => own[o]["result"] = None

\* Every handle that is live is in a field or a frame.
LeakInv ==
  \A h \in Handles : driver[h] = "live" => \E x \in Holders : \E k \in Fields(x) : Slot(x, k) = h

WholeInv == UnusedInv /\ MakingInv /\ LeakInv

-----------------------------------------------------------------------------
(* A step of Ownership, from what happens to the fields and the frames.      *)

\* What Owns is, once the objects that do not exist have nothing.
OwnsSlots ==
  /\ \A p \in Owns : p = <<p[1], p[2]>>
  /\ \A x, h : <<x, h>> \in Owns <=> x \in Holders /\ h # None /\ \E k \in Fields(x) : Slot(x, k) = h

LEMMA OwnsAre == Typed /\ UnusedInv => OwnsSlots
<1> SUFFICES ASSUME Typed, UnusedInv PROVE OwnsSlots
  OBVIOUS
<1> DEFINE O == UNION {{o} \X Owned(o) : o \in live}
           T == UNION {{t} \X FrameHandles(t) : t \in Threads}
<1>1. live \subseteq Objects
  BY DEF Typed, PlainOK
<1>2. \A o \in Objects : \A h : h \in Owned(o) <=> h # None /\ \E k \in HandleFields(o) : own[o][k] = h
  BY DEF Owned, Typed, OwnOK
<1>3. \A t \in Threads : \A h : h \in FrameHandles(t) <=> h # None /\ \E k \in FrameFields : call[t][k] = h
  BY DEF FrameHandles, FrameFields
<1>4. \A x, h : <<x, h>> \in O <=> x \in live /\ h \in Owned(x)
  OBVIOUS
<1>5. \A x, h : <<x, h>> \in T <=> x \in Threads /\ h \in FrameHandles(x)
  OBVIOUS
<1>6. \A p \in O \cup T : p = <<p[1], p[2]>>
  OBVIOUS
<1>7. Owns = O \cup T
  BY DEF Owns
<1> HIDE DEF O, T
<1>8. \A x \in Objects : \A h : <<x, h>> \in Owns <=> h # None /\ \E k \in Fields(x) : Slot(x, k) = h
  <2> TAKE x \in Objects
  <2>1. x \notin Threads /\ Fields(x) = HandleFields(x) /\ \A k : Slot(x, k) = own[x][k]
    BY Slots
  <2>2. x \notin live => \A h \in Owned(x) : FALSE
    BY <1>2 DEF UnusedInv
  <2> QED
    BY <1>2, <1>4, <1>5, <1>7, <2>1, <2>2
<1>9. \A x \in Threads : \A h : <<x, h>> \in Owns <=> h # None /\ \E k \in Fields(x) : Slot(x, k) = h
  <2> TAKE x \in Threads
  <2>1. x \notin live /\ Fields(x) = FrameFields /\ \A k : Slot(x, k) = call[x][k]
    BY <1>1, Slots
  <2> QED
    BY <1>3, <1>4, <1>5, <1>7, <2>1
<1>10. \A x, h : <<x, h>> \in Owns => x \in Holders
  BY <1>1, <1>4, <1>5, <1>7 DEF Holders
<1>11. \A p \in Owns : p = <<p[1], p[2]>>
  BY <1>6, <1>7
<1>12. \A x, h : <<x, h>> \in Owns <=> x \in Holders /\ h # None /\ \E k \in Fields(x) : Slot(x, k) = h
  BY <1>8, <1>9, <1>10 DEF Holders
<1> QED
  BY <1>11, <1>12 DEF OwnsSlots

LEMMA OwnsAreAfter == Typed' /\ UnusedInv' => OwnsSlots'
BY OwnsAre, PTL

\* The driver obtains those in new, and no others stay live than those that
\* are not in old; what is lost stays lost, and was in a frame or nowhere.
Turns(new, old) ==
  /\ \A h \in new : driver[h] = "free"
  /\ \A h \in Handles : driver'[h] = "live" => h \in new \/ (driver[h] = "live" /\ h \notin old)
  /\ \A h \in Handles : driver[h] = "lost" => driver'[h] = "lost"
  /\ \A h \in Handles :
       driver'[h] = "lost" /\ driver[h] # "lost" =>
         driver[h] = "free" \/ \E t \in Threads : \E k \in FrameFields : h = call[t][k]

\* The holders in C are the ones whose handles change: a handle comes from the
\* driver or from one that may pass it, and none is forgotten.
Flows(C, new, old) ==
  /\ C \subseteq Holders
  /\ \A x \in Holders \ C : \A k \in Fields(x) : Slot(x, k)' = Slot(x, k)
  /\ \A x \in C : \A k \in Fields(x) :
       \/ Slot(x, k)' \in {None} \cup new
       \/ \E y \in C : /\ y = x \/ Life!MayPass(y, x)
                       /\ \E l \in Fields(y) : Slot(x, k)' = Slot(y, l)
  /\ \A x \in C : \A k \in Fields(x) :
       \/ Slot(x, k) \in {None} \cup old
       \/ \E y \in C : \E l \in Fields(y) : Slot(y, l)' = Slot(x, k)
  /\ \A h \in new : \E x \in C : \E k \in Fields(x) : Slot(x, k)' = h

LEMMA LifeStep ==
  ASSUME Typed, Typed', UnusedInv, UnusedInv', LeakInv,
         NEW C, NEW new, NEW old, Turns(new, old), Flows(C, new, old)
  PROVE  LeakInv' /\ Life!Next
<1>1. OwnsSlots /\ OwnsSlots'
  BY OwnsAre, OwnsAreAfter
<1>2. LeakInv'
  <2> SUFFICES ASSUME NEW h \in Handles, driver'[h] = "live"
               PROVE  \E x \in Holders : \E k \in Fields(x) : Slot(x, k)' = h
    BY DEF LeakInv, Holders, Fields
  <2>1. CASE h \in new
    BY <2>1 DEF Flows
  <2>2. CASE driver[h] = "live" /\ h \notin old
    <3>1. PICK x \in Holders : \E k \in Fields(x) : Slot(x, k) = h
      BY <2>2 DEF LeakInv
    <3>2. PICK k \in Fields(x) : Slot(x, k) = h
      BY <3>1
    <3>3. h # None
      BY HandlesAssumption
    <3>4. CASE x \notin C
      BY <3>2, <3>4 DEF Flows
    <3>5. CASE x \in C
      BY <2>2, <3>2, <3>3, <3>5 DEF Flows
    <3> QED
      BY <3>4, <3>5
  <2> QED
    BY <2>1, <2>2 DEF Turns
<1>3. \A x \in Holders : \A k \in Fields(x) :
        Slot(x, k)' # None => Slot(x, k)' \in Handles /\ driver'[Slot(x, k)'] = "live"
  BY DEF Typed, SlotInv, Holders, Fields
<1>4. \A x, h : <<x, h>> \in Owns' <=>
                  x \in Holders /\ h # None /\ \E k \in Fields(x) : Slot(x, k)' = h
  BY <1>1 DEF OwnsSlots, Holders, Fields
<1>5. \A x, h : <<x, h>> \in Owns <=> x \in Holders /\ h # None /\ \E k \in Fields(x) : Slot(x, k) = h
  BY <1>1 DEF OwnsSlots
<1>6. (\A p \in Owns : p = <<p[1], p[2]>>) /\ (\A p \in Owns' : p = <<p[1], p[2]>>)
  BY <1>1 DEF OwnsSlots
<1>7. ASSUME NEW p \in Owns' \ Owns, p[2] \in InState({"live", "lost"})
      PROVE  \E q \in Owns : q[2] = p[2] /\ Life!MayPass(q[1], p[1])
  <2>1. PICK x, h : p = <<x, h>> /\ x = p[1] /\ h = p[2]
    BY <1>6
  <2>2. x \in Holders /\ h # None
    BY <1>4, <2>1
  <2>3. PICK k \in Fields(x) : Slot(x, k)' = h
    BY <1>4, <2>1
  <2>4. h \in Handles /\ driver'[h] = "live" /\ driver[h] \in {"live", "lost"}
    BY <1>3, <1>7, <2>1, <2>2, <2>3 DEF InState
  <2>5. h \notin new
    BY <2>4 DEF Turns
  <2>6. ~ \E l \in Fields(x) : Slot(x, l) = h
    BY <1>5, <2>1, <2>2
  <2>7. x \in C
    BY <2>2, <2>3, <2>6 DEF Flows
  <2>8. PICK y \in C : Life!MayPass(y, x) /\ \E l \in Fields(y) : Slot(y, l) = h
    BY <2>2, <2>3, <2>5, <2>6, <2>7 DEF Flows
  <2>9. y \in Holders
    BY DEF Flows
  <2>10. <<y, h>> \in Owns
    BY <1>5, <2>2, <2>8, <2>9
  <2> QED
    BY <2>1, <2>8, <2>10
<1>8. ASSUME NEW p \in Owns', NEW q \in Owns', p[2] = q[2]
      PROVE  p = q
  <2>1. PICK x, h : p = <<x, h>> /\ q = <<q[1], h>>
    BY <1>6, <1>8
  <2>2. PICK y : q = <<y, h>>
    BY <2>1
  <2>3. /\ x \in Holders /\ y \in Holders /\ h # None
        /\ (\E k \in Fields(x) : Slot(x, k)' = h) /\ \E l \in Fields(y) : Slot(y, l)' = h
    BY <1>4, <2>1, <2>2
  <2>4. \A a, b \in Holders : \A k \in Fields(a), l \in Fields(b) :
          Slot(a, k)' = Slot(b, l)' /\ Slot(a, k)' # None => a = b
    BY DEF Typed, SlotInv, Holders, Fields
  <2>5. x = y
    BY <2>3, <2>4
  <2> QED
    BY <2>1, <2>2, <2>5
<1>9. InState({"live", "lost"})' = {p[2] : p \in Owns'} \cup InState({"lost"})'
  <2>1. ASSUME NEW h \in Handles, driver'[h] = "live" PROVE \E p \in Owns' : p[2] = h
    <3>1. PICK x \in Holders : \E k \in Fields(x) : Slot(x, k)' = h
      BY <1>2, <2>1 DEF LeakInv, Holders, Fields
    <3>2. h # None
      BY HandlesAssumption
    <3>3. <<x, h>> \in Owns'
      BY <1>4, <3>1, <3>2
    <3> QED
      BY <3>3
  <2>2. ASSUME NEW p \in Owns' PROVE p[2] \in Handles /\ driver'[p[2]] = "live"
    <3>1. PICK x, h : p = <<x, h>> /\ h = p[2]
      BY <1>6
    <3> QED
      BY <1>3, <1>4, <3>1
  <2> QED
    BY <2>1, <2>2 DEF InState
<1>10. InState({"lost"}) \subseteq InState({"lost"})'
  BY DEF InState, Turns
<1>11. ASSUME NEW h \in InState({"lost"})' \ InState({"lost"}), h \in InState({"live", "lost"})
       PROVE  \E q \in Owns : q[2] = h /\ q[1] \in Threads
  <2>1. h \in Handles /\ driver'[h] = "lost" /\ driver[h] = "live"
    BY <1>11 DEF InState
  <2>2. PICK t \in Threads : \E k \in FrameFields : h = call[t][k]
    BY <2>1 DEF Turns
  <2>3. t \in Holders /\ h # None /\ \E k \in Fields(t) : Slot(t, k) = h
    BY <2>1, <2>2, Slots, HandlesAssumption
  <2>4. <<t, h>> \in Owns
    BY <1>5, <2>3
  <2> QED
    BY <2>2, <2>4
<1>12. Life!Next
  BY <1>7, <1>8, <1>9, <1>10, <1>11 DEF Life!Next, Life!Owned
<1> QED
  BY <1>2, <1>12

-----------------------------------------------------------------------------
(* A step that changes one frame, or one frame and one object.               *)

\* Nobody else comes to an object that a call makes.
Takes(t, k) ==
  /\ k.self \in {None, call[t].self} \cup held \cup pooled
  /\ \A o \in (held' \cup pooled') \ (held \cup pooled) :
       o \notin live \/ o \in Sessions \/ (Making(call[t]) /\ o = call[t].obj)
  /\ \A o \in live : own'[o] = own[o] \/ o = call[t].self \/ (Making(call[t]) /\ o = call[t].obj)
  /\ Making(k) =>
       /\ k.obj \notin live /\ k.obj # k.self /\ UNCHANGED <<held, pooled>>
       /\ k.at = "mutex" => own'[k.obj]["executed"] = None
       /\ k.op = "execute" => own'[k.obj]["result"] = None

LEMMA MakingKept ==
  ASSUME Typed, ReachInv, MakingInv, NEW t \in Threads, NEW k, FrameOK(k), Takes(t, k),
         call' = [call EXCEPT ![t] = k]
  PROVE  MakingInv'
<1>1. call'[t] = k /\ \A u \in Threads \ {t} : call'[u] = call[u]
  BY DEF Typed, CallOK
<1>2. held \cup pooled \subseteq live
  BY HeldLive
<1>3. ASSUME NEW u \in Threads, Making(call[u])
      PROVE  /\ call[u].obj \in Futures \cup Results /\ call[u].obj \in live
             /\ call[u].obj \notin held \cup pooled
             /\ \A v \in Threads : call[v].self # call[u].obj
             /\ \A v \in Threads \ {u} : Making(call[v]) => call[v].obj # call[u].obj
             /\ call[u].at = "mutex" => own[call[u].obj]["executed"] = None
             /\ call[u].op = "execute" => own[call[u].obj]["result"] = None
  <2>1. FrameOK(call[u]) /\ FrameGood(call[u])
    BY DEF Typed, CallOK, ReachInv
  <2>2. call[u].obj \in Futures \cup Results
    BY <1>3, <2>1 DEF Making, FrameOK
  <2>3. call[u].obj \in live
    BY <2>1, <2>2, HandlesAssumption DEF FrameGood, Objects
  <2> QED
    BY <1>3, <2>2, <2>3 DEF MakingInv
<1>4. ASSUME NEW u \in Threads, u # t, Making(call'[u])
      PROVE  /\ call'[u].obj \notin held' \cup pooled'
             /\ \A v \in Threads : call'[v].self # call'[u].obj
             /\ \A v \in Threads \ {u} : Making(call'[v]) => call'[v].obj # call'[u].obj
             /\ call'[u].at = "mutex" => own'[call'[u].obj]["executed"] = None
             /\ call'[u].op = "execute" => own'[call'[u].obj]["result"] = None
  <2>1. PICK o : o = call[u].obj
    OBVIOUS
  <2>2. /\ call'[u] = call[u] /\ Making(call[u])
        /\ o \in Futures \cup Results /\ o \in live /\ o \notin held \cup pooled
        /\ \A v \in Threads : call[v].self # o
        /\ \A v \in Threads \ {u} : Making(call[v]) => call[v].obj # o
        /\ call[u].at = "mutex" => own[o]["executed"] = None
        /\ call[u].op = "execute" => own[o]["result"] = None
    BY <1>1, <1>3, <1>4, <2>1
  <2>3. o \notin Sessions /\ o # None
    BY <2>2, ClassesApart, HandlesAssumption DEF Objects
  <2>4. o \notin held' \cup pooled'
    BY <1>4, <2>2, <2>3 DEF Takes
  <2>5. k.self # o
    BY <2>2, <2>3 DEF Takes
  <2>6. Making(k) => k.obj # o
    BY <2>2 DEF Takes
  <2>7. own'[o] = own[o]
    BY <1>4, <2>2 DEF Takes
  <2> QED
    BY <1>1, <2>1, <2>2, <2>4, <2>5, <2>6, <2>7
<1>5. ASSUME Making(k)
      PROVE  /\ k.obj \notin held' \cup pooled'
             /\ \A v \in Threads : call'[v].self # k.obj
             /\ \A v \in Threads \ {t} : Making(call'[v]) => call'[v].obj # k.obj
             /\ k.at = "mutex" => own'[k.obj]["executed"] = None
             /\ k.op = "execute" => own'[k.obj]["result"] = None
  <2>1. k.obj \in Futures \cup Results
    BY <1>5 DEF Making, FrameOK
  <2>2. k.obj \notin live /\ k.obj # k.self /\ k.obj # None
    BY <1>5, <2>1, HandlesAssumption DEF Takes, Objects
  <2>3. \A v \in Threads : call[v].self \in live \cup {None}
    BY DEF ReachInv, FrameGood
  <2> QED
    BY <1>1, <1>2, <1>3, <1>5, <2>2, <2>3 DEF Takes
<1> QED
  BY <1>1, <1>4, <1>5 DEF MakingInv

\* The handles that a call takes in, keeps and frees.
FrameFlow(t, k, new, old) ==
  /\ \A j \in FrameFields : k[j] \in {None} \cup new \/ \E l \in FrameFields : k[j] = call[t][l]
  /\ \A j \in FrameFields : call[t][j] \in {None} \cup old \/ \E l \in FrameFields : k[l] = call[t][j]
  /\ \A h \in new : \E j \in FrameFields : k[j] = h

LEMMA FrameLife ==
  ASSUME Typed, Typed', ReachInv, WholeInv, UNCHANGED own, live \subseteq live',
         NEW t \in Threads, NEW k, call' = [call EXCEPT ![t] = k], Takes(t, k),
         NEW new, NEW old, Turns(new, old), FrameFlow(t, k, new, old)
  PROVE  WholeInv' /\ Life!Next
<1>1. call'[t] = k /\ FrameOK(k) /\ \A u \in Threads \ {t} : call'[u] = call[u]
  BY DEF Typed, CallOK
<1>2. UnusedInv'
  BY DEF WholeInv, UnusedInv
<1>3. MakingInv'
  BY <1>1, MakingKept DEF WholeInv
<1>4. \A x \in Holders \ {t} : \A j \in Fields(x) : Slot(x, j)' = Slot(x, j)
  BY <1>1, Slots, SlotsAfter DEF Holders
<1>5. /\ t \in Holders /\ Fields(t) = FrameFields
      /\ \A j : Slot(t, j) = call[t][j] /\ Slot(t, j)' = k[j]
  BY <1>1, Slots, SlotsAfter
<1>6. Flows({t}, new, old)
  BY <1>4, <1>5 DEF Flows, FrameFlow
<1> QED
  BY <1>2, <1>3, <1>6, LifeStep DEF WholeInv

\* So with an object, to which the call may pass what it had.
ObjectFlow(t, k, o, r, new, old) ==
  /\ \A j \in FrameFields : k[j] \in {None} \cup new \/ \E l \in FrameFields : k[j] = call[t][l]
  /\ \A j \in HandleFields(o) :
       \/ r[j] \in {None} \cup new
       \/ \E l \in FrameFields : r[j] = call[t][l]
       \/ \E l \in HandleFields(o) : r[j] = own[o][l]
  /\ \A j \in FrameFields :
       \/ call[t][j] \in {None} \cup old
       \/ \E l \in FrameFields : k[l] = call[t][j]
       \/ \E l \in HandleFields(o) : r[l] = call[t][j]
  /\ \A j \in HandleFields(o) :
       own[o][j] \in {None} \cup old \/ \E l \in HandleFields(o) : r[l] = own[o][j]
  /\ \A h \in new : (\E j \in FrameFields : k[j] = h) \/ \E j \in HandleFields(o) : r[j] = h

LEMMA ObjectLife ==
  ASSUME Typed, Typed', ReachInv, WholeInv, live \subseteq live',
         NEW t \in Threads, NEW k, call' = [call EXCEPT ![t] = k], Takes(t, k),
         NEW o \in Objects, o \in live', NEW r, own' = [own EXCEPT ![o] = r],
         NEW new, NEW old, Turns(new, old), ObjectFlow(t, k, o, r, new, old)
  PROVE  WholeInv' /\ Life!Next
<1>1. call'[t] = k /\ FrameOK(k) /\ \A u \in Threads \ {t} : call'[u] = call[u]
  BY DEF Typed, CallOK
<1>2. own'[o] = r /\ \A p \in Objects \ {o} : own'[p] = own[p]
  BY DEF Typed, OwnOK
<1>3. UnusedInv'
  BY <1>2 DEF WholeInv, UnusedInv
<1>4. MakingInv'
  BY <1>1, MakingKept DEF WholeInv
<1>5. \A x \in Holders \ {t, o} : \A j \in Fields(x) : Slot(x, j)' = Slot(x, j)
  BY <1>1, <1>2, Slots, SlotsAfter DEF Holders
<1>6. /\ t \in Holders /\ Fields(t) = FrameFields
      /\ \A j : Slot(t, j) = call[t][j] /\ Slot(t, j)' = k[j]
  BY <1>1, Slots, SlotsAfter
<1>7. /\ o \in Holders /\ Fields(o) = HandleFields(o)
      /\ \A j : Slot(o, j) = own[o][j] /\ Slot(o, j)' = r[j]
  BY <1>2, Slots, SlotsAfter
<1>8. Life!MayPass(t, o)
  BY DEF Life!MayPass
<1>9. \A x \in {t, o} : \A j \in Fields(x) :
        \/ Slot(x, j)' \in {None} \cup new
        \/ \E y \in {t, o} : /\ y = x \/ Life!MayPass(y, x)
                            /\ \E l \in Fields(y) : Slot(x, j)' = Slot(y, l)
  BY <1>6, <1>7, <1>8 DEF ObjectFlow
<1>10. \A x \in {t, o} : \A j \in Fields(x) :
         \/ Slot(x, j) \in {None} \cup old
         \/ \E y \in {t, o} : \E l \in Fields(y) : Slot(y, l)' = Slot(x, j)
  BY <1>6, <1>7 DEF ObjectFlow
<1>11. \A h \in new : \E x \in {t, o} : \E j \in Fields(x) : Slot(x, j)' = h
  BY <1>6, <1>7 DEF ObjectFlow
<1>12. Flows({t, o}, new, old)
  BY <1>5, <1>6, <1>7, <1>9, <1>10, <1>11 DEF Flows
<1> QED
  BY <1>3, <1>4, <1>12, LifeStep DEF WholeInv

LEMMA DriverTurns ==
  ASSUME NEW new, NEW old, Driver(new, old),
         \A h \in new : driver[h] = "free", \A h \in old \cap Handles : driver[h] = "live"
  PROVE  Turns(new, old)
<1> DEFINE After(h) == CASE h \in new -> "live"
                         [] h \in old -> IF driver[h] = "live" THEN "free" ELSE "twice"
                         [] OTHER -> driver[h]
<1>1. new \cap old \cap Handles = {}
  OBVIOUS
<1>2. /\ \A h \in Handles : h \in new => After(h) = "live"
      /\ \A h \in Handles : h \in old => After(h) = "free"
      /\ \A h \in Handles : h \notin new /\ h \notin old => After(h) = driver[h]
  BY <1>1
<1>3. driver' = [h \in Handles |-> After(h)]
  BY DEF Driver
<1> HIDE DEF After
<1>4. \A h \in Handles : driver'[h] = After(h)
  BY <1>3
<1> QED
  BY <1>2, <1>4 DEF Turns

LEMMA SameTurns ==
  ASSUME UNCHANGED driver
  PROVE  Turns({}, {})
BY DEF Turns

LEMMA PlainTakes ==
  ASSUME NEW t \in Threads, NEW k, k.self \in {None, call[t].self} \cup held \cup pooled,
         ~Making(k), held' \cup pooled' \subseteq held \cup pooled, UNCHANGED own
  PROVE  Takes(t, k)
BY DEF Takes

LEMMA IdleNotMaking == ~Making(Idle) /\ Idle.self = None
BY DEF Making, Idle

\* What the frame of a call holds is live.
LEMMA HandlesLive ==
  ASSUME Typed, NEW t \in Threads
  PROVE  \A j \in FrameFields : call[t][j] = None \/ driver[call[t][j]] = "live"
<1>1. /\ t \in Holders /\ Fields(t) = FrameFields /\ \A j : Slot(t, j) = call[t][j]
  BY Slots
<1>2. \A j \in Fields(t) : Slot(t, j) # None => driver[Slot(t, j)] = "live"
  BY <1>1 DEF Typed, SlotInv
<1> QED
  BY <1>1, <1>2

\* A call that is over: it frees what its frame has.
LEMMA ReturnLife ==
  ASSUME Typed, Typed', ReachInv, WholeInv, UNCHANGED <<own, pooled>>, live \subseteq live', held' \subseteq held,
         NEW t \in Threads, Return(t), NEW old, Driver({}, old) \/ (old = {} /\ UNCHANGED driver),
         \A h \in old : \E j \in FrameFields : h = call[t][j],
         \A j \in FrameFields : call[t][j] \in {None} \cup old
  PROVE  WholeInv' /\ Life!Next
<1>1. \A h \in old \cap Handles : driver[h] = "live"
  <2> TAKE h \in old \cap Handles
  <2>1. PICK j \in FrameFields : h = call[t][j]
    OBVIOUS
  <2> QED
    BY <2>1, HandlesLive, HandlesAssumption
<1>2. Turns({}, old)
  BY <1>1, DriverTurns, SameTurns
<1>3. Takes(t, Idle)
  BY PlainTakes, IdleNotMaking
<1>4. FrameFlow(t, Idle, {}, old)
  BY IdleOK DEF FrameFlow, FrameFields
<1>5. call' = [call EXCEPT ![t] = Idle]
  BY DEF Return, Enter
<1> QED
  BY <1>2, <1>3, <1>4, <1>5, FrameLife

\* A call that begins: its frame has handles that are fresh, or none.
Begins(t, k, new) ==
  /\ call[t] = Idle /\ call' = [call EXCEPT ![t] = k]
  /\ k.self \in held \cup pooled /\ ~Making(k)
  /\ Driver(new, {}) \/ (new = {} /\ UNCHANGED driver)
  /\ \A h \in new : driver[h] = "free" /\ \E j \in FrameFields : k[j] = h
  /\ \A j \in FrameFields : k[j] \in {None} \cup new

LEMMA BeginLife ==
  ASSUME Typed, Typed', ReachInv, WholeInv, own' = own, held' \cup pooled' \subseteq held \cup pooled,
         live \subseteq live', NEW t \in Threads, NEW k, NEW new, Begins(t, k, new)
  PROVE  WholeInv' /\ Life!Next
<1>1. Turns(new, {})
  BY DriverTurns, SameTurns DEF Begins
<1>2. Takes(t, k)
  BY PlainTakes DEF Begins
<1>3. FrameFlow(t, k, new, {})
  BY IdleOK DEF FrameFlow, FrameFields, Begins
<1>4. call' = [call EXCEPT ![t] = k]
  BY DEF Begins
<1> QED
  BY <1>1, <1>2, <1>3, <1>4, FrameLife

\* Steps that have to do with no handles.
LEMMA SameLife ==
  ASSUME Typed, Typed', ReachInv, WholeInv, UNCHANGED <<driver, own, call>>, live \subseteq live',
         held' \cup pooled' \subseteq held \cup pooled
  PROVE  WholeInv' /\ Life!Next
<1>1. UnusedInv'
  BY DEF WholeInv, UnusedInv
<1>2. MakingInv'
  BY DEF WholeInv, MakingInv
<1>3. Flows({}, {}, {})
  BY DEF Flows, Slot, Fields
<1> QED
  BY <1>1, <1>2, <1>3, SameTurns, LifeStep DEF WholeInv

-----------------------------------------------------------------------------
(* The steps of the calls.                                                   *)

LEMMA PrepareLife ==
  ASSUME Typed, Typed', ReachInv, WholeInv, NEW t \in Threads, NEW op \in {"prepare", "prepare_async"},
         session_prepare(t, op)
  PROVE  WholeInv' /\ Life!Next
<1>1. PICK s \in Held(Sessions) :
        call' = [call EXCEPT ![t] = [Idle EXCEPT !.op = op, !.at = "submit", !.self = s]]
  BY DEF session_prepare, Enter
<1>2. PICK k : k = [Idle EXCEPT !.op = op, !.at = "submit", !.self = s]
  OBVIOUS
<1>3. /\ k.self \in held /\ ~Making(k) /\ k["future"] = None /\ k["executed"] = None /\ k["iterator"] = None
  BY <1>2 DEF Idle, Making, Held
<1>4. Begins(t, k, {})
  BY <1>1, <1>2, <1>3 DEF Begins, session_prepare, CanCall, FrameFields
<1>5. own' = own /\ pooled' = pooled /\ held' = held /\ live' = live
  BY DEF session_prepare, objectVars, futureVars
<1> QED
  BY <1>4, <1>5, BeginLife

LEMMA ExecuteLife ==
  ASSUME Typed, Typed', ReachInv, WholeInv, NEW t \in Threads,
         NEW op \in {"execute", "execute_async"}, NEW kind \in Kinds, session_execute(t, op, kind)
  PROVE  WholeInv' /\ Life!Next
<1>1. PICK s \in Held(Sessions), st \in Held(Statements) :
        call' = [call EXCEPT ![t] = [Idle EXCEPT !.op = op, !.at = "build", !.self = s, !.arg = st,
                                                 !.executed = Fresh(kind)]]
  BY DEF session_execute, Enter
<1>2. PICK k : k = [Idle EXCEPT !.op = op, !.at = "build", !.self = s, !.arg = st, !.executed = Fresh(kind)]
  OBVIOUS
<1>3. PICK new : new = {Fresh(kind)}
  OBVIOUS
<1>4. /\ k.self \in held /\ ~Making(k)
      /\ k["future"] = None /\ k["executed"] = Fresh(kind) /\ k["iterator"] = None
  BY <1>2 DEF Idle, Making, Held
<1>5. driver[Fresh(kind)] = "free"
  BY FreshFree DEF session_execute, Available
<1>6. /\ Driver(new, {}) /\ call[t] = Idle
      /\ own' = own /\ pooled' = pooled /\ held' = held /\ live' = live
  BY <1>3 DEF session_execute, objectVars, futureVars, CanCall
<1>7. /\ \A j \in FrameFields : k[j] \in {None} \cup new
      /\ \A h \in new : \E j \in FrameFields : k[j] = h
  BY <1>3, <1>4 DEF FrameFields
<1>8. Begins(t, k, new)
  BY <1>1, <1>2, <1>3, <1>4, <1>5, <1>6, <1>7 DEF Begins
<1> QED
  BY <1>6, <1>8, BeginLife

LEMMA NextPageBeginLife ==
  ASSUME Typed, Typed', ReachInv, WholeInv, NEW t \in Threads, result_next_page(t)
  PROVE  WholeInv' /\ Life!Next
<1>1. PICK r \in Held(Results) :
        call' = [call EXCEPT ![t] = [Idle EXCEPT !.op = "next_page", !.at = "submit", !.self = r]]
  BY DEF result_next_page, Enter
<1>2. PICK k : k = [Idle EXCEPT !.op = "next_page", !.at = "submit", !.self = r]
  OBVIOUS
<1>3. k.self \in held /\ ~Making(k) /\ k["future"] = None /\ k["executed"] = None /\ k["iterator"] = None
  BY <1>2 DEF Idle, Making, Held
<1>4. Begins(t, k, {})
  BY <1>1, <1>2, <1>3 DEF Begins, result_next_page, CanCall, FrameFields
<1>5. own' = own /\ pooled' = pooled /\ held' = held /\ live' = live
  BY DEF result_next_page, objectVars, futureVars
<1> QED
  BY <1>4, <1>5, BeginLife

LEMMA EachLife ==
  ASSUME Typed, Typed', ReachInv, WholeInv, NEW t \in Threads, result_each(t)
  PROVE  WholeInv' /\ Life!Next
<1>1. PICK r \in Held(Results) :
        call' = [call EXCEPT ![t] = [Idle EXCEPT !.op = "each", !.at = "block", !.self = r,
                                                 !.iterator = Fresh("iterator")]]
  BY DEF result_each, Enter
<1>2. PICK k : k = [Idle EXCEPT !.op = "each", !.at = "block", !.self = r, !.iterator = Fresh("iterator")]
  OBVIOUS
<1>3. PICK new : new = {Fresh("iterator")}
  OBVIOUS
<1>4. /\ k.self \in held /\ ~Making(k)
      /\ k["future"] = None /\ k["executed"] = None /\ k["iterator"] = Fresh("iterator")
  BY <1>2 DEF Idle, Making, Held
<1>5. driver[Fresh("iterator")] = "free"
  BY FreshFree DEF result_each, Available, Kinds
<1>6. /\ Driver(new, {}) /\ call[t] = Idle
      /\ own' = own /\ pooled' = pooled /\ held' = held /\ live' = live
  BY <1>3 DEF result_each, objectVars, futureVars, CanCall
<1>7. /\ \A j \in FrameFields : k[j] \in {None} \cup new
      /\ \A h \in new : \E j \in FrameFields : k[j] = h
  BY <1>3, <1>4 DEF FrameFields
<1>8. Begins(t, k, new)
  BY <1>1, <1>2, <1>3, <1>4, <1>5, <1>6, <1>7 DEF Begins
<1> QED
  BY <1>6, <1>8, BeginLife

LEMMA AwaitLife ==
  ASSUME Typed, Typed', ReachInv, WholeInv, NEW t \in Threads, future_await(t)
  PROVE  WholeInv' /\ Life!Next
<1>1. PICK f \in Held(Futures) :
        call' = [call EXCEPT ![t] = [Idle EXCEPT !.op = "await", !.at = "wait", !.self = f]]
  BY DEF future_await, Enter
<1>2. PICK k : k = [Idle EXCEPT !.op = "await", !.at = "wait", !.self = f]
  OBVIOUS
<1>3. k.self \in held /\ ~Making(k) /\ k["future"] = None /\ k["executed"] = None /\ k["iterator"] = None
  BY <1>2 DEF Idle, Making, Held
<1>4. Begins(t, k, {})
  BY <1>1, <1>2, <1>3 DEF Begins, future_await, CanCall, FrameFields
<1>5. own' = own /\ pooled' = pooled /\ held' = held /\ live' = live
  BY DEF future_await, objectVars, futureVars
<1> QED
  BY <1>4, <1>5, BeginLife

\* The handles that a frame has, by what its operation has come to.
LEMMA FrameHas ==
  ASSUME Typed, NEW t \in Threads
  PROVE  /\ FrameOK(call[t])
         /\ call[t].op \in {"connect", "prepare", "next_page"} => call[t]["executed"] = None /\ call[t]["iterator"] = None
         /\ call[t].at \in {"build", "submit"} => call[t]["future"] = None
         /\ call[t].at \in {"build", "submit", "create", "mutex"} => call[t]["iterator"] = None
         /\ call[t].at \in {"mutex", "yield", "block"} => call[t]["future"] = None
         /\ call[t].at \in {"yield", "block"} => call[t]["executed"] = None
         /\ call[t].at \in {"yield", "wait"} => call[t]["iterator"] = None /\ call[t]["executed"] = None
         /\ call[t].op \in {"await", "execute"} /\ call[t].at = "wait" => call[t]["future"] = None
<1>1. FrameOK(call[t]) /\ call[t] \in Frames
  BY DEF Typed, CallOK
<1> QED
  BY <1>1, IdleOK DEF FrameOK, PlaceOK, Executing, Frames

LEMMA ConnectedLife ==
  ASSUME Typed, Typed', ReachInv, WholeInv, NEW t \in Threads, Connected(t)
  PROVE  WholeInv' /\ Life!Next
<1>1. /\ call[t].op = "connect" /\ call[t].at = "wait" /\ call[t].obj \in Sessions
      /\ call[t]["executed"] = None /\ call[t]["iterator"] = None
  BY FrameHas DEF Connected, At, FrameOK
<1>2. PICK old : old = {call[t]["future"]}
  OBVIOUS
<1>3. Turns({}, old)
  <2>1. \A h \in old \cap Handles : driver[h] = "live"
    BY <1>2, HandlesLive, HandlesAssumption DEF FrameFields
  <2>2. Driver({}, old)
    BY <1>2 DEF Connected
  <2> QED
    BY <2>1, <2>2, DriverTurns
<1>4. own' = own /\ pooled' = pooled /\ live' = live /\ call' = [call EXCEPT ![t] = Idle]
  BY DEF Connected, objectVars, futureVars, Return, Enter
<1>5. Takes(t, Idle)
  BY <1>1, <1>4, IdleNotMaking DEF Takes, Connected
<1>6. FrameFlow(t, Idle, {}, old)
  BY <1>1, <1>2, IdleOK DEF FrameFlow, FrameFields
<1> QED
  BY <1>3, <1>4, <1>5, <1>6, FrameLife

LEMMA BuildLife ==
  ASSUME Typed, Typed', ReachInv, WholeInv, NEW t \in Threads, statement_build_for_execution(t)
  PROVE  WholeInv' /\ Life!Next
<1>1. call[t].at = "build" /\ call[t]["future"] = None /\ call[t]["iterator"] = None /\ Executing(call[t])
  BY FrameHas, IdleOK DEF statement_build_for_execution, FrameOK, PlaceOK, Executing, Frames
<1>2. own' = own /\ pooled' = pooled /\ live' = live /\ held' = held
  BY DEF statement_build_for_execution, objectVars, futureVars
<1>3. CASE UNCHANGED driver /\ call' = [call EXCEPT ![t].at = "submit"]
  <2>1. PICK k : k = [call[t] EXCEPT !.at = "submit"]
    OBVIOUS
  <2>2. call' = [call EXCEPT ![t] = k]
    BY <1>3, <2>1
  <2>3. /\ k.self = call[t].self /\ k.at = "submit"
        /\ k["future"] = call[t]["future"] /\ k["iterator"] = call[t]["iterator"]
        /\ k["executed"] = call[t]["executed"]
    BY <2>1 DEF Typed, CallOK, Frames
  <2>4. Takes(t, k)
    BY <1>2, <2>3, PlainTakes DEF Making
  <2>5. FrameFlow(t, k, {}, {})
    BY <2>3 DEF FrameFlow, FrameFields
  <2> QED
    BY <1>2, <1>3, <2>2, <2>4, <2>5, SameTurns, FrameLife
<1>4. CASE Driver({}, {call[t].executed}) /\ Return(t)
  <2>1. PICK old : old = {call[t]["executed"]}
    OBVIOUS
  <2>2. Driver({}, old) /\ \A h \in old : \E j \in FrameFields : h = call[t][j]
    BY <1>4, <2>1 DEF FrameFields
  <2>3. \A j \in FrameFields : call[t][j] \in {None} \cup old
    BY <1>1, <2>1 DEF FrameFields
  <2> QED
    BY <1>2, <1>4, <2>2, <2>3, ReturnLife
<1> QED
  BY <1>3, <1>4 DEF statement_build_for_execution

LEMMA RequestLife ==
  ASSUME Typed, Typed', ReachInv, WholeInv, NEW t \in Threads, nogvl_session_request(t)
  PROVE  WholeInv' /\ Life!Next
<1>1. PICK kind : kind = RequestOf(call[t].op)
  OBVIOUS
<1>2. PICK place : place = IF call[t].op \in {"prepare", "next_page"} THEN "wait" ELSE "create"
  OBVIOUS
<1>3. PICK k : k = [call[t] EXCEPT !.future = Fresh(kind), !.at = place]
  OBVIOUS
<1>4. PICK new : new = {Fresh(kind)}
  OBVIOUS
<1>5. /\ call[t].at = "submit" /\ call[t]["future"] = None /\ call[t]["iterator"] = None
      /\ call[t].op \in {"prepare", "prepare_async", "execute", "execute_async", "next_page"}
  BY FrameHas, IdleOK DEF nogvl_session_request, FrameOK, PlaceOK, Frames
<1>6. Fresh(kind) \in Handles /\ driver[Fresh(kind)] = "free"
  <2>1. kind \in Kinds
    BY <1>1, <1>5 DEF RequestOf, Kinds
  <2> QED
    BY <1>1, <2>1, FreshFree DEF nogvl_session_request, Available
<1>7. call' = [call EXCEPT ![t] = k] /\ Driver(new, {})
  BY <1>1, <1>2, <1>3, <1>4 DEF nogvl_session_request
<1>8. own' = own /\ pooled' = pooled /\ live' = live /\ held' = held
  BY DEF nogvl_session_request, objectVars, futureVars
<1>9. /\ k.self = call[t].self /\ k.op = call[t].op /\ k.at = place
      /\ k["future"] = Fresh(kind) /\ k["iterator"] = None /\ k["executed"] = call[t]["executed"]
  BY <1>3, <1>5 DEF Typed, CallOK, Frames
<1>10. Takes(t, k)
  BY <1>2, <1>8, <1>9, PlainTakes DEF Making
<1>11. FrameFlow(t, k, new, {})
  BY <1>4, <1>5, <1>9 DEF FrameFlow, FrameFields
<1>12. Turns(new, {})
  BY <1>4, <1>6, <1>7, DriverTurns
<1> QED
  BY <1>7, <1>8, <1>10, <1>11, <1>12, FrameLife

LEMMA EachEnsureLife ==
  ASSUME Typed, Typed', ReachInv, WholeInv, NEW t \in Threads, result_each_ensure(t)
  PROVE  WholeInv' /\ Life!Next
<1>1. PICK old : old = {call[t]["iterator"]}
  OBVIOUS
<1>2. Driver({}, old) /\ Return(t) /\ \A h \in old : \E j \in FrameFields : h = call[t][j]
  BY <1>1 DEF result_each_ensure, FrameFields
<1>3. \A j \in FrameFields : call[t][j] \in {None} \cup old
  BY <1>1, FrameHas DEF FrameFields, result_each_ensure
<1>4. own' = own /\ pooled' = pooled /\ live' = live /\ held' = held
  BY DEF result_each_ensure, objectVars, futureVars
<1> QED
  BY <1>2, <1>3, <1>4, ReturnLife

LEMMA AwaitedLife ==
  ASSUME Typed, Typed', ReachInv, WholeInv, NEW t \in Threads, Awaited(t)
  PROVE  WholeInv' /\ Life!Next
<1>1. \A j \in FrameFields : call[t][j] \in {None} \cup {}
  BY FrameHas DEF FrameFields, Awaited, At
<1>2. /\ own' = own /\ pooled' = pooled /\ live' = live /\ held' = held
      /\ UNCHANGED driver /\ Return(t)
  BY DEF Awaited, objectVars, futureVars
<1> QED
  BY <1>1, <1>2, ReturnLife

-----------------------------------------------------------------------------
(* The steps that create an object or store in one.                          *)

LEMMA CreateLife ==
  ASSUME Typed, Typed', ReachInv, WholeInv,
         NEW t \in Threads, NEW k, call' = [call EXCEPT ![t] = k], Takes(t, k),
         NEW o \in Objects, o \notin live, NEW handles, NEW refs, Create(o, handles, refs),
         NEW new, NEW old, Turns(new, old),
         ObjectFlow(t, k, o, Given(HandleFields(o), handles), new, old)
  PROVE  WholeInv' /\ Life!Next
<1>1. own' = [own EXCEPT ![o] = Given(HandleFields(o), handles)]
  BY DEF Create, Given
<1>2. live \subseteq live' /\ o \in live'
  BY DEF Create
<1> QED
  BY <1>1, <1>2, ObjectLife

LEMMA CreateTakes ==
  ASSUME Typed, NEW t \in Threads, NEW k,
         NEW o \in Objects, o \notin live, NEW handles, NEW refs, Create(o, handles, refs),
         k.self \in {None, call[t].self} \cup held \cup pooled,
         held' \cup pooled' \subseteq held \cup pooled \cup {o},
         Making(k) => /\ k.obj = o /\ k.self # o /\ UNCHANGED <<held, pooled>>
                      /\ k.at = "mutex" => own'[o]["executed"] = None
                      /\ k.op = "execute" => own'[o]["result"] = None
  PROVE  Takes(t, k)
<1>1. \A p \in live : own'[p] = own[p]
  BY DEF Create, Typed, OwnOK, PlainOK
<1> QED
  BY <1>1 DEF Takes

\* What an object that does not exist has.
LEMMA UnusedHas ==
  ASSUME WholeInv, NEW o \in Objects, o \notin live
  PROVE  \A j \in HandleFields(o) : own[o][j] = None
BY DEF WholeInv, UnusedInv

LEMMA InitializeLife ==
  ASSUME Typed, Typed', ReachInv, WholeInv, NEW t \in Threads, cluster_initialize(t)
  PROVE  WholeInv' /\ Life!Next
<1>1. PICK c \in Unused(Clusters) :
        Create(c, [cluster |-> Fresh("cluster")], <<>>) /\ held' = held \cup {c}
  BY DEF cluster_initialize
<1>2. c \in Clusters /\ c \in Objects /\ c \notin live
  BY DEF Unused, Objects
<1>3. PICK new : new = {Fresh("cluster")}
  OBVIOUS
<1>4. PICK r : r = Given(HandleFields(c), [cluster |-> Fresh("cluster")])
  OBVIOUS
<1>5. HandleFields(c) = {"cluster"} /\ r["cluster"] = Fresh("cluster")
  BY <1>2, <1>4, FieldsOf DEF Given
<1>6. call[t] = Idle /\ call' = [call EXCEPT ![t] = Idle] /\ pooled' = pooled
  BY DEF cluster_initialize, CanCall, futureVars, Typed, CallOK
<1>7. Turns(new, {})
  <2>1. driver[Fresh("cluster")] = "free"
    BY FreshFree DEF cluster_initialize, Available, Kinds
  <2> QED
    BY <1>3, <2>1, DriverTurns DEF cluster_initialize
<1>8. Takes(t, Idle)
  BY <1>1, <1>2, <1>6, CreateTakes, IdleNotMaking
<1>9. ObjectFlow(t, Idle, c, r, new, {})
  BY <1>2, <1>3, <1>5, <1>6, IdleOK, UnusedHas DEF ObjectFlow, FrameFields
<1> QED
  BY <1>1, <1>2, <1>4, <1>6, <1>7, <1>8, <1>9, CreateLife

LEMMA ConnectLife ==
  ASSUME Typed, Typed', ReachInv, WholeInv, NEW t \in Threads, cluster_connect(t)
  PROVE  WholeInv' /\ Life!Next
<1>1. PICK c \in Held(Clusters), s \in Unused(Sessions) :
        /\ Create(s, [session |-> Fresh("session")], [cluster |-> c])
        /\ Enter(t, [Idle EXCEPT !.op = "connect", !.at = "wait", !.self = c, !.obj = s,
                                 !.future = Fresh("request")])
  BY DEF cluster_connect
<1>2. s \in Sessions /\ s \in Objects /\ s \notin live /\ c \in held
  BY DEF Unused, Held, Objects
<1>3. PICK k : k = [Idle EXCEPT !.op = "connect", !.at = "wait", !.self = c, !.obj = s,
                                !.future = Fresh("request")]
  OBVIOUS
<1>4. PICK new : new = {Fresh("session"), Fresh("request")}
  OBVIOUS
<1>5. PICK r : r = Given(HandleFields(s), [session |-> Fresh("session")])
  OBVIOUS
<1>6. HandleFields(s) = {"session"} /\ r["session"] = Fresh("session")
  BY <1>2, <1>5, FieldsOf DEF Given
<1>7. /\ call[t] = Idle /\ call' = [call EXCEPT ![t] = k]
      /\ pooled' = pooled /\ held' = held
  BY <1>1, <1>3 DEF cluster_connect, CanCall, futureVars, Enter
<1>8. /\ k.self = c /\ k.op = "connect" /\ k.at = "wait"
      /\ k["future"] = Fresh("request") /\ k["executed"] = None /\ k["iterator"] = None
  BY <1>3 DEF Idle
<1>9. Turns(new, {})
  <2>1. driver[Fresh("session")] = "free" /\ driver[Fresh("request")] = "free"
    <3>1. "session" \in Kinds /\ "request" \in Kinds
      BY DEF Kinds
    <3> QED
      BY <3>1, FreshFree DEF cluster_connect, Available
  <2> QED
    BY <1>4, <2>1, DriverTurns DEF cluster_connect
<1>10. Takes(t, k)
  BY <1>1, <1>2, <1>7, <1>8, CreateTakes DEF Making
<1>11. ObjectFlow(t, k, s, r, new, {})
  BY <1>2, <1>4, <1>6, <1>7, <1>8, IdleOK, UnusedHas DEF ObjectFlow, FrameFields
<1> QED
  BY <1>1, <1>2, <1>5, <1>7, <1>9, <1>10, <1>11, CreateLife

LEMMA NewStatementLife ==
  ASSUME Typed, Typed', ReachInv, WholeInv, NEW t \in Threads, NEW s, NewStatement(s),
         Available({"prepared", "scratch"}), Return(t), UNCHANGED futureVars,
         NEW old, \A h \in old : \E j \in FrameFields : h = call[t][j],
         \A j \in FrameFields : call[t][j] \in {None} \cup old,
         Driver({Fresh("prepared"), Fresh("scratch")}, old)
  PROVE  WholeInv' /\ Life!Next
<1>1. PICK st \in Unused(Statements) :
        /\ Create(st, [prepared |-> Fresh("prepared"), statement |-> Fresh("scratch")], [session |-> s])
        /\ held' = held \cup {st}
  BY DEF NewStatement
<1>2. st \in Statements /\ st \in Objects /\ st \notin live
  BY DEF Unused, Objects
<1>3. PICK new : new = {Fresh("prepared"), Fresh("scratch")}
  OBVIOUS
<1>4. PICK r : r = Given(HandleFields(st), [prepared |-> Fresh("prepared"), statement |-> Fresh("scratch")])
  OBVIOUS
<1>5. /\ HandleFields(st) = {"prepared", "statement"}
      /\ r["prepared"] = Fresh("prepared") /\ r["statement"] = Fresh("scratch")
  BY <1>2, <1>4, FieldsOf DEF Given
<1>6. call' = [call EXCEPT ![t] = Idle] /\ pooled' = pooled
  BY DEF Return, Enter, futureVars
<1>7. Turns(new, old)
  <2>1. "prepared" \in Kinds /\ "scratch" \in Kinds
    BY DEF Kinds
  <2>2. driver[Fresh("prepared")] = "free" /\ driver[Fresh("scratch")] = "free"
    BY <2>1, FreshFree DEF Available
  <2>3. ASSUME NEW h \in old \cap Handles PROVE driver[h] = "live"
    <3>1. PICK j \in FrameFields : h = call[t][j]
      OBVIOUS
    <3> QED
      BY <3>1, HandlesLive, HandlesAssumption
  <2> QED
    BY <1>3, <2>2, <2>3, DriverTurns
<1>8. Takes(t, Idle)
  BY <1>1, <1>2, <1>6, CreateTakes, IdleNotMaking
<1>9. ObjectFlow(t, Idle, st, r, new, old)
  BY <1>2, <1>3, <1>5, IdleOK, UnusedHas DEF ObjectFlow, FrameFields
<1> QED
  BY <1>1, <1>2, <1>4, <1>6, <1>7, <1>8, <1>9, CreateLife

LEMMA PreparedLife ==
  ASSUME Typed, Typed', ReachInv, WholeInv, NEW t \in Threads, Prepared(t)
  PROVE  WholeInv' /\ Life!Next
<1>1. PICK old : old = {call[t].future}
  OBVIOUS
<1>2. call[t]["executed"] = None /\ call[t]["iterator"] = None
  BY FrameHas DEF Prepared, At
<1>3. /\ \A h \in old : \E j \in FrameFields : h = call[t][j]
      /\ \A j \in FrameFields : call[t][j] \in {None} \cup old
  BY <1>1, <1>2 DEF FrameFields
<1>4. Return(t) /\ UNCHANGED futureVars /\ pooled' = pooled
  BY DEF Prepared, futureVars
<1>5. CASE Driver({}, {call[t].future}) /\ UNCHANGED <<objectVars, held>>
  BY <1>1, <1>3, <1>4, <1>5, ReturnLife DEF objectVars
<1>6. CASE /\ Available({"prepared", "scratch"}) /\ NewStatement(call[t].self)
           /\ Driver({Fresh("prepared"), Fresh("scratch")}, {call[t].future})
  BY <1>1, <1>3, <1>4, <1>6, NewStatementLife
<1> QED
  BY <1>5, <1>6 DEF Prepared

LEMMA FutureCreateLife ==
  ASSUME Typed, Typed', ReachInv, WholeInv, NEW t \in Threads, future_create(t)
  PROVE  WholeInv' /\ Life!Next
<1>1. PICK f \in Unused(Futures) :
        /\ Create(f, [future |-> call[t].future], [session |-> call[t].self, statement |-> call[t].arg])
        /\ call' = [call EXCEPT ![t].at = "mutex", ![t].obj = f, ![t].future = None]
  BY DEF future_create
<1>2. f \in Futures /\ f \in Objects /\ f \notin live
  BY DEF Unused, Objects
<1>3. PICK k : k = [call[t] EXCEPT !.at = "mutex", !.obj = f, !.future = None]
  OBVIOUS
<1>4. PICK r : r = Given(HandleFields(f), [future |-> call[t].future])
  OBVIOUS
<1>5. HandleFields(f) = {"future", "executed"} /\ r["future"] = call[t]["future"] /\ r["executed"] = None
  BY <1>2, <1>4, FieldsOf DEF Given
<1>6. /\ call' = [call EXCEPT ![t] = k] /\ k.obj = f /\ k.self = call[t].self /\ k.op = call[t].op
      /\ k["future"] = None /\ k["executed"] = call[t]["executed"] /\ k["iterator"] = call[t]["iterator"]
  BY <1>1, <1>3 DEF Typed, CallOK, Frames
<1>7. call[t]["iterator"] = None /\ call[t].self \in Sessions /\ call[t].op \in {"prepare_async", "execute_async"}
  BY FrameHas DEF future_create, FrameOK, Executing
<1>8. own'[f] = r
  BY <1>1, <1>2, <1>4, CreateGrows DEF future_create, futureVars
<1>9. pooled' = pooled /\ held' = held /\ UNCHANGED driver
  BY DEF future_create, futureVars
<1>10. k.self # f /\ k.op # "execute"
  BY <1>2, <1>6, <1>7, ClassesApart
<1>11. Takes(t, k)
  BY <1>1, <1>2, <1>5, <1>6, <1>8, <1>9, <1>10, CreateTakes
<1>12. ObjectFlow(t, k, f, r, {}, {})
  BY <1>2, <1>5, <1>6, <1>7, UnusedHas DEF ObjectFlow, FrameFields
<1> QED
  BY <1>1, <1>2, <1>4, <1>6, <1>9, <1>11, <1>12, SameTurns, CreateLife

LEMMA ResultCreatedLife ==
  ASSUME Typed, Typed', ReachInv, WholeInv, NEW t \in Threads, ResultCreated(t)
  PROVE  WholeInv' /\ Life!Next
<1>1. PICK o \in Unused(Results) :
        /\ Create(o, [future |-> call[t].future, executed |-> call[t].executed], [statement |-> call[t].arg])
        /\ call' = [call EXCEPT ![t].at = "wait", ![t].obj = o, ![t].future = None, ![t].executed = None]
  BY DEF ResultCreated
<1>2. o \in Results /\ o \in Objects /\ o \notin live
  BY DEF Unused, Objects
<1>3. PICK k : k = [call[t] EXCEPT !.at = "wait", !.obj = o, !.future = None, !.executed = None]
  OBVIOUS
<1>4. PICK r : r = Given(HandleFields(o), [future |-> call[t].future, executed |-> call[t].executed])
  OBVIOUS
<1>5. /\ HandleFields(o) = {"result", "future", "executed"} /\ r["result"] = None
      /\ r["future"] = call[t]["future"] /\ r["executed"] = call[t]["executed"]
  BY <1>2, <1>4, FieldsOf DEF Given
<1>6. /\ call' = [call EXCEPT ![t] = k] /\ k.obj = o /\ k.self = call[t].self /\ k.at = "wait"
      /\ k["future"] = None /\ k["executed"] = None /\ k["iterator"] = call[t]["iterator"]
  BY <1>1, <1>3 DEF Typed, CallOK, Frames
<1>7. call[t]["iterator"] = None /\ call[t].self \in Sessions
  BY FrameHas DEF ResultCreated, At, FrameOK, Executing
<1>8. own'[o] = r
  BY <1>1, <1>2, <1>4, CreateGrows DEF ResultCreated, futureVars
<1>9. pooled' = pooled /\ held' = held /\ UNCHANGED driver
  BY DEF ResultCreated, futureVars
<1>10. k.self # o
  BY <1>2, <1>6, <1>7, ClassesApart
<1>11. Takes(t, k)
  BY <1>1, <1>2, <1>5, <1>6, <1>8, <1>9, <1>10, CreateTakes
<1>12. ObjectFlow(t, k, o, r, {}, {})
  BY <1>2, <1>5, <1>6, <1>7, UnusedHas DEF ObjectFlow, FrameFields
<1> QED
  BY <1>1, <1>2, <1>4, <1>6, <1>9, <1>11, <1>12, SameTurns, CreateLife

\* An object that a call makes is live.
LEMMA MadeLive ==
  ASSUME Typed, ReachInv, WholeInv, NEW t \in Threads, Making(call[t])
  PROVE  /\ call[t].obj \in Objects /\ call[t].obj \in live
         /\ call[t].at = "mutex" => own[call[t].obj]["executed"] = None
         /\ call[t].op = "execute" => own[call[t].obj]["result"] = None
<1>1. FrameOK(call[t]) /\ FrameGood(call[t])
  BY DEF Typed, CallOK, ReachInv
<1>2. call[t].obj \in Objects
  BY <1>1 DEF Making, FrameOK, Objects
<1>3. call[t].obj \in live
  BY <1>1, <1>2, HandlesAssumption DEF FrameGood
<1> QED
  BY <1>2, <1>3 DEF WholeInv, MakingInv

LEMMA FutureCreatedLife ==
  ASSUME Typed, Typed', ReachInv, WholeInv, NEW t \in Threads, FutureCreated(t)
  PROVE  WholeInv' /\ Life!Next
<1>1. PICK o : o = call[t].obj
  OBVIOUS
<1>2. Making(call[t]) /\ call[t].at = "mutex"
  BY DEF Making, FutureCreated
<1>3. o \in Objects /\ o \in live /\ own[o]["executed"] = None /\ o \in Futures
  BY <1>1, <1>2, MadeLive, FrameHas DEF FrameOK
<1>4. PICK r : r = [own[o] EXCEPT !.executed = call[t].executed]
  OBVIOUS
<1>5. /\ own' = [own EXCEPT ![o] = r] /\ live \subseteq live' /\ call' = [call EXCEPT ![t] = Idle]
      /\ held' = held \cup {o} /\ pooled' = pooled /\ UNCHANGED driver
  BY <1>1, <1>4 DEF FutureCreated, Return, Enter, futureVars
<1>6. /\ HandleFields(o) = {"future", "executed"}
      /\ r["future"] = own[o]["future"] /\ r["executed"] = call[t]["executed"]
  BY <1>3, <1>4, FieldsOf DEF Typed, OwnOK
<1>7. call[t]["future"] = None /\ call[t]["iterator"] = None
  BY <1>2, FrameHas
<1>8. Takes(t, Idle)
  <2>1. \A p \in live : p = o \/ own'[p] = own[p]
    BY <1>5 DEF Typed, OwnOK, PlainOK
  <2> QED
    BY <1>1, <1>2, <1>5, <2>1, IdleNotMaking DEF Takes
<1>9. ObjectFlow(t, Idle, o, r, {}, {})
  BY <1>3, <1>6, <1>7, IdleOK DEF ObjectFlow, FrameFields
<1> QED
  BY <1>3, <1>5, <1>8, <1>9, SameTurns, ObjectLife

LEMMA ResultAwaitLife ==
  ASSUME Typed, Typed', ReachInv, WholeInv, NEW t \in Threads, result_await(t)
  PROVE  WholeInv' /\ Life!Next
<1>1. PICK o : o = call[t].obj
  OBVIOUS
<1>2. Making(call[t]) /\ call[t].op = "execute" /\ call[t].at = "wait"
  BY DEF Making, result_await, At
<1>3. o \in Objects /\ o \in live /\ own[o]["result"] = None /\ o \in Results
  BY <1>1, <1>2, MadeLive, FrameHas DEF FrameOK
<1>4. call[t]["future"] = None /\ call[t]["iterator"] = None /\ call[t]["executed"] = None
  BY <1>2, FrameHas
<1>5. Return(t) /\ live' = live /\ pooled' = pooled
  BY DEF result_await, futureVars
<1>6. CASE UNCHANGED <<driver, own, held>>
  BY <1>4, <1>5, <1>6, ReturnLife DEF FrameFields
<1>7. CASE /\ Available({"result"}) /\ own' = [own EXCEPT ![o].result = Fresh("result")]
           /\ held' = held \cup {o} /\ Driver({Fresh("result")}, {})
  <2>1. PICK new : new = {Fresh("result")}
    OBVIOUS
  <2>2. PICK r : r = [own[o] EXCEPT !.result = Fresh("result")]
    OBVIOUS
  <2>3. own' = [own EXCEPT ![o] = r] /\ call' = [call EXCEPT ![t] = Idle]
    BY <1>5, <1>7, <2>2 DEF Return, Enter
  <2>4. /\ HandleFields(o) = {"result", "future", "executed"} /\ r["result"] = Fresh("result")
        /\ r["future"] = own[o]["future"] /\ r["executed"] = own[o]["executed"]
    BY <1>3, <2>2, FieldsOf DEF Typed, OwnOK
  <2>5. Turns(new, {})
    BY <1>7, <2>1, FreshFree, DriverTurns DEF Available, Kinds
  <2>6. Takes(t, Idle)
    <3>1. \A p \in live : p = o \/ own'[p] = own[p]
      BY <2>3 DEF Typed, OwnOK, PlainOK
    <3> QED
      BY <1>1, <1>2, <1>5, <1>7, <3>1, IdleNotMaking DEF Takes
  <2>7. ObjectFlow(t, Idle, o, r, new, {})
    BY <1>3, <1>4, <2>1, <2>4, IdleOK DEF ObjectFlow, FrameFields
  <2> QED
    BY <1>3, <1>5, <2>3, <2>5, <2>6, <2>7, ObjectLife
<1> QED
  BY <1>1, <1>6, <1>7 DEF result_await

LEMMA NextPageLife ==
  ASSUME Typed, Typed', ReachInv, WholeInv, NEW t \in Threads, NextPage(t)
  PROVE  WholeInv' /\ Life!Next
<1>1. PICK o : o = call[t].self
  OBVIOUS
<1>2. /\ o \in Results /\ o \in Objects /\ FrameGood(call[t])
      /\ call[t]["executed"] = None /\ call[t]["iterator"] = None
  BY <1>1, FrameHas DEF NextPage, At, FrameOK, Objects, ReachInv
<1>3. o \in live
  BY <1>1, <1>2, HandlesAssumption DEF FrameGood
<1>4. Return(t) /\ live' = live /\ pooled' = pooled /\ held' = held
  BY DEF NextPage, futureVars
<1>5. CASE Driver({}, {call[t].future}) /\ UNCHANGED own
  <2>1. PICK old : old = {call[t].future}
    OBVIOUS
  <2>2. /\ \A h \in old : \E j \in FrameFields : h = call[t][j]
        /\ \A j \in FrameFields : call[t][j] \in {None} \cup old
    BY <1>2, <2>1 DEF FrameFields
  <2> QED
    BY <1>4, <1>5, <2>1, <2>2, ReturnLife
<1>6. CASE /\ Available({"result"})
           /\ own' = [own EXCEPT ![o].result = Fresh("result"), ![o].future = call[t].future]
           /\ Driver({Fresh("result")}, {own[o].result, own[o].future})
  <2>1. PICK new : new = {Fresh("result")}
    OBVIOUS
  <2>2. PICK old : old = {own[o]["result"], own[o]["future"]}
    OBVIOUS
  <2>3. PICK r : r = [own[o] EXCEPT !.result = Fresh("result"), !.future = call[t].future]
    OBVIOUS
  <2>4. HandleFields(o) = {"result", "future", "executed"} /\ own[o] \in [HandleFields(o) -> Handles \cup {None}]
    BY <1>2, FieldsOf DEF Typed, OwnOK
  <2>5. own' = [own EXCEPT ![o] = r] /\ call' = [call EXCEPT ![t] = Idle]
    BY <1>4, <1>6, <2>3, <2>4 DEF Return, Enter
  <2>6. /\ r["result"] = Fresh("result")
        /\ r["future"] = call[t]["future"] /\ r["executed"] = own[o]["executed"]
    BY <2>3, <2>4
  <2>7. Turns(new, old)
    <3>1. \A j \in HandleFields(o) : own[o][j] = None \/ driver[own[o][j]] = "live"
      BY <1>2, Apart DEF Typed
    <3>2. \A h \in old \cap Handles : driver[h] = "live"
      BY <2>2, <2>4, <3>1, HandlesAssumption
    <3>3. driver[Fresh("result")] = "free"
      BY <1>6, FreshFree DEF Available, Kinds
    <3> QED
      BY <1>6, <2>1, <2>2, <3>2, <3>3, DriverTurns
  <2>8. Takes(t, Idle)
    <3>1. \A p \in live : p = o \/ own'[p] = own[p]
      BY <2>5 DEF Typed, OwnOK, PlainOK
    <3> QED
      BY <1>1, <1>4, <3>1, IdleNotMaking DEF Takes
  <2>9. ObjectFlow(t, Idle, o, r, new, old)
    BY <1>2, <2>1, <2>2, <2>4, <2>6, IdleOK DEF ObjectFlow, FrameFields
  <2> QED
    BY <1>2, <1>3, <1>4, <2>5, <2>7, <2>8, <2>9, ObjectLife
<1> QED
  BY <1>1, <1>5, <1>6 DEF NextPage

LEMMA YieldFrameNotMaking ==
  ASSUME NEW f \in Futures
  PROVE  ~Making(YieldFrame(f)) /\ YieldFrame(f).self = f
BY DEF Making, YieldFrame, Idle

LEMMA FutureOnLife ==
  ASSUME Typed, Typed', ReachInv, WholeInv, NEW t \in Threads, NEW f \in Futures,
         NEW method \in {"on_success", "on_failure"}, future_on(t, f, method)
  PROVE  WholeInv' /\ Life!Next
<1>1. call[t] = Idle /\ f \in held /\ own' = own /\ held' = held /\ UNCHANGED driver
  BY DEF future_on, CanCall
<1>2. live \subseteq live' /\ held' \cup pooled' \subseteq held \cup pooled
  BY <1>1 DEF future_on
<1>3. CASE call' = [call EXCEPT ![t] = YieldFrame(f)]
  <2>1. Begins(t, YieldFrame(f), {})
    BY <1>1, <1>3, YieldFrameOK, YieldFrameNotMaking DEF Begins, FrameFields
  <2> QED
    BY <1>1, <1>2, <2>1, BeginLife
<1>4. CASE call' = call
  BY <1>1, <1>2, <1>4, SameLife
<1> QED
  BY <1>3, <1>4 DEF future_on, YieldFrame

LEMMA YielderLife ==
  ASSUME Typed, Typed', ReachInv, WholeInv, NEW w \in Workers, future_result_yielder_synchronize(w)
  PROVE  WholeInv' /\ Life!Next
<1>1. PICK f \in pooled :
        /\ CanCall(w) /\ pooled' = pooled \ {f}
        /\ Enter(w, [Idle EXCEPT !.at = "yield", !.self = f]) \/ UNCHANGED call
        /\ UNCHANGED <<driver, objectVars, outcome, held, seen, exiting>>
  BY DEF future_result_yielder_synchronize
<1>2. f \in Futures /\ w \in Threads
  BY DEF Typed, PlainOK, Threads
<1>3. /\ call[w] = Idle /\ own' = own /\ live' = live /\ UNCHANGED driver
      /\ held' \cup pooled' \subseteq held \cup pooled
  BY <1>1 DEF CanCall, objectVars
<1>4. CASE Enter(w, [Idle EXCEPT !.at = "yield", !.self = f])
  <2>1. Begins(w, YieldFrame(f), {})
    BY <1>2, <1>3, <1>4, YieldFrameOK, YieldFrameNotMaking DEF Begins, FrameFields, Enter, YieldFrame
  <2> QED
    BY <1>2, <1>3, <2>1, BeginLife
<1>5. CASE UNCHANGED call
  BY <1>3, <1>5, SameLife
<1> QED
  BY <1>1, <1>4, <1>5

LEMMA SuccessYieldLife ==
  ASSUME Typed, Typed', ReachInv, WholeInv, NEW t \in Threads, future_result_success_yield(t)
  PROVE  WholeInv' /\ Life!Next
<1>1. PICK f \in Futures : f = call[t].self
  BY FrameHas DEF future_result_success_yield, FrameOK
<1>2. /\ call[t].at = "yield" /\ call[t]["future"] = None
      /\ call[t]["executed"] = None /\ call[t]["iterator"] = None
  BY FrameHas DEF future_result_success_yield
<1>3. Return(t) /\ UNCHANGED futureVars /\ pooled' = pooled
  BY DEF future_result_success_yield, futureVars
<1>4. \A j \in FrameFields : call[t][j] \in {None} \cup {}
  BY <1>2 DEF FrameFields
<1>5. CASE UNCHANGED <<driver, objectVars, held>>
  BY <1>3, <1>4, <1>5, ReturnLife DEF objectVars
<1>6. CASE /\ Available({"prepared", "scratch"}) /\ NewStatement(ref[f].session)
           /\ Driver({Fresh("prepared"), Fresh("scratch")}, {})
  <2>1. PICK s : s = ref[f].session
    OBVIOUS
  <2> QED
    BY <1>3, <1>4, <1>6, <2>1, NewStatementLife
<1>7. ASSUME Available({"result"}), Driver({Fresh("result")}, {}),
             NEW r \in Unused(Results), live' = live \cup {r},
             own' = [own EXCEPT ![r].result = Fresh("result"),
                                ![r].executed = own[f].executed, ![f].executed = None],
             held' = held \cup {r}
      PROVE  WholeInv' /\ Life!Next
  <2>1. PICK new : new = {Fresh("result")}
    OBVIOUS
  <2>2. r \in Results /\ r \in Objects /\ r \notin live /\ r # f /\ f \in Objects
    BY ClassesApart DEF Unused, Objects
  <2>3. f \in live
    BY <1>1, <2>2, HandlesAssumption DEF ReachInv, FrameGood
  <2>4. /\ HandleFields(r) = {"result", "future", "executed"} /\ HandleFields(f) = {"future", "executed"}
        /\ own[r] \in [HandleFields(r) -> Handles \cup {None}] /\ own[f] \in [HandleFields(f) -> Handles \cup {None}]
    BY <2>2, FieldsOf DEF Typed, OwnOK
  <2>5. /\ own'[r]["result"] = Fresh("result") /\ own'[r]["future"] = None
        /\ own'[r]["executed"] = own[f]["executed"]
        /\ own'[f]["executed"] = None /\ own'[f]["future"] = own[f]["future"]
        /\ \A p \in Objects \ {r, f} : own'[p] = own[p]
    BY <1>7, <2>2, <2>4, UnusedHas DEF Typed, OwnOK
  <2>6. /\ call' = [call EXCEPT ![t] = Idle] /\ call'[t] = Idle
        /\ \A u \in Threads \ {t} : call'[u] = call[u]
    BY <1>3 DEF Return, Enter, Typed, CallOK
  <2>7. UnusedInv'
    <3>1. ASSUME NEW p \in Objects \ live' PROVE p \notin live /\ own'[p] = own[p]
      BY <1>7, <2>3, <2>5
    <3> QED
      BY <3>1 DEF WholeInv, UnusedInv
  <2>8. Takes(t, Idle)
    <3>1. \A p \in live : own'[p] = own[p] \/ p = call[t].self
      BY <1>1, <2>2, <2>5 DEF Typed, PlainOK
    <3> QED
      BY <1>3, <1>7, <2>2, <3>1, IdleNotMaking DEF Takes
  <2>9. MakingInv'
    BY <2>6, <2>8, MakingKept, IdleOK DEF WholeInv
  <2>10. Turns(new, {})
    BY <1>7, <2>1, FreshFree, DriverTurns DEF Available, Kinds
  <2>11. /\ Fields(r) = {"result", "future", "executed"} /\ Fields(f) = {"future", "executed"}
         /\ r \in Holders /\ f \in Holders
    BY <2>2, <2>4, Slots
  <2>12. /\ Slot(r, "result") = None /\ Slot(r, "future") = None /\ Slot(r, "executed") = None
         /\ Slot(f, "executed") = own[f]["executed"] /\ Slot(f, "future") = own[f]["future"]
    BY <2>2, <2>4, Slots, UnusedHas
  <2>13. /\ Slot(r, "result")' = Fresh("result") /\ Slot(r, "future")' = None
         /\ Slot(r, "executed")' = Slot(f, "executed")
         /\ Slot(f, "executed")' = None /\ Slot(f, "future")' = Slot(f, "future")
    BY <2>2, <2>5, <2>12, SlotsAfter
  <2>14. \A x \in Holders \ {r, f} : \A j \in Fields(x) : Slot(x, j)' = Slot(x, j)
    <3>1. ASSUME NEW x \in Objects \ {r, f}, NEW j PROVE Slot(x, j)' = Slot(x, j)
      BY <2>5, Slots, SlotsAfter
    <3>2. ASSUME NEW x \in Threads \ {t}, NEW j PROVE Slot(x, j)' = Slot(x, j)
      BY <2>6, Slots, SlotsAfter
    <3>3. ASSUME NEW j \in Fields(t) PROVE Slot(t, j)' = Slot(t, j)
      BY <1>2, <2>6, Slots, SlotsAfter, IdleOK DEF FrameFields
    <3> QED
      BY <3>1, <3>2, <3>3 DEF Holders
  <2>15. Life!MayPass(f, r)
    BY <2>2 DEF Life!MayPass
  <2>16. Flows({r, f}, new, {})
    BY <2>1, <2>11, <2>12, <2>13, <2>14, <2>15 DEF Flows
  <2> QED
    BY <2>7, <2>9, <2>10, <2>16, LifeStep DEF WholeInv
<1> QED
  BY <1>1, <1>5, <1>6, <1>7 DEF future_result_success_yield

\* What is lost was the frame's, or was given by the driver to nobody.
LEMMA LostLife ==
  ASSUME Typed, Typed', ReachInv, WholeInv, NEW t \in Threads, NEW H, Lose(H), Return(t),
         FrameHandles(t) \subseteq H, \A h \in H : driver[h] = "free" \/ h \in FrameHandles(t),
         UNCHANGED <<objectVars, futureVars, held, seen, exiting>>
  PROVE  WholeInv' /\ Life!Next
<1>1. \A h \in FrameHandles(t) : \E j \in FrameFields : h = call[t][j]
  BY DEF FrameHandles, FrameFields
<1>2. \A j \in FrameFields : call[t][j] \in {None} \cup H
  BY DEF FrameHandles, FrameFields
<1>3. /\ \A h \in Handles \cap H : driver'[h] = "lost"
      /\ \A h \in Handles \ H : driver'[h] = driver[h]
  BY DEF Lose
<1>4. Turns({}, H)
  BY <1>1, <1>3 DEF Turns
<1>5. /\ own' = own /\ live' = live /\ held' \cup pooled' \subseteq held \cup pooled
      /\ call' = [call EXCEPT ![t] = Idle]
  BY DEF Return, Enter, objectVars, futureVars
<1>6. Takes(t, Idle)
  BY <1>5, PlainTakes, IdleNotMaking
<1>7. FrameFlow(t, Idle, {}, H)
  BY <1>2, IdleOK DEF FrameFlow, FrameFields
<1> QED
  BY <1>4, <1>5, <1>6, <1>7, FrameLife

LEMMA InterruptedLife ==
  ASSUME Typed, Typed', ReachInv, WholeInv, NEW t \in Threads, Interrupted(t)
  PROVE  WholeInv' /\ Life!Next
<1>1. PICK kind : kind = RequestOf(call[t].op)
  OBVIOUS
<1> DEFINE unanswered == call[t].at = "submit" /\ Available({kind})
<1>2. PICK H \in {FrameHandles(t)} \cup (IF unanswered THEN {FrameHandles(t) \cup {Fresh(kind)}} ELSE {}) :
        Lose(H)
  BY <1>1 DEF Interrupted
<1>3. ASSUME unanswered PROVE driver[Fresh(kind)] = "free"
  <2>1. call[t].op \in {"prepare", "prepare_async", "execute", "execute_async", "next_page"}
    BY <1>3, FrameHas, IdleOK DEF FrameOK, PlaceOK, Frames
  <2>2. kind \in Kinds
    BY <1>1, <2>1 DEF RequestOf, Kinds
  <2> QED
    BY <1>3, <2>2, FreshFree DEF Available
<1>4. FrameHandles(t) \subseteq H /\ \A h \in H : driver[h] = "free" \/ h \in FrameHandles(t)
  BY <1>2, <1>3
<1> QED
  BY <1>2, <1>4, LostLife DEF Interrupted

LEMMA AbandonedLife ==
  ASSUME Typed, Typed', ReachInv, WholeInv, NEW t \in Threads, Abandoned(t)
  PROVE  WholeInv' /\ Life!Next
<1>1. PICK H : H = FrameHandles(t)
  OBVIOUS
<1> QED
  BY <1>1, LostLife DEF Abandoned

-----------------------------------------------------------------------------
(* The steps of the collector.                                               *)

LEMMA DestroyLife ==
  ASSUME Typed, Typed', ReachInv, WholeInv, NEW dead, dead \subseteq live, Destroy(dead),
         UNCHANGED call, held' \cup pooled' \subseteq held \cup pooled,
         \A t \in Threads : Making(call[t]) => call[t].obj \notin dead
  PROVE  WholeInv' /\ Life!Next
<1>1. PICK old : old = UNION {Owned(o) : o \in dead}
  OBVIOUS
<1>2. dead \subseteq Objects
  BY DEF Typed, PlainOK
<1>3. /\ \A o \in dead : own'[o] = NoHandles(o)
      /\ \A o \in Objects \ dead : own'[o] = own[o]
      /\ live' = live \ dead /\ Driver({}, old)
  BY <1>1, <1>2 DEF Destroy
<1>4. \A o \in dead : \A h : h \in Owned(o) <=> h # None /\ \E k \in Fields(o) : h = Slot(o, k)
  BY <1>2, Slots DEF Owned, Typed, OwnOK
<1>5. \A x \in Holders \ dead : \A k \in Fields(x) : Slot(x, k)' = Slot(x, k)
  BY <1>3, Slots, SlotsAfter DEF Holders
<1>6. \A x \in dead : \A k \in Fields(x) : Slot(x, k)' = None /\ Slot(x, k) \in {None} \cup old
  BY <1>1, <1>2, <1>3, <1>4, Slots, SlotsAfter, NoneOf
<1>7. Flows(dead, {}, old)
  BY <1>2, <1>5, <1>6 DEF Flows, Holders
<1>8. Turns({}, old)
  <2>1. ASSUME NEW h \in old \cap Handles PROVE driver[h] = "live"
    <3>1. PICK o \in dead : h \in Owned(o)
      BY <1>1
    <3>2. PICK k \in Fields(o) : h = Slot(o, k) /\ h # None
      BY <1>4, <3>1
    <3>3. o \in Holders
      BY <1>2 DEF Holders
    <3> QED
      BY <3>2, <3>3 DEF Typed, SlotInv
  <2> QED
    BY <1>3, <2>1, DriverTurns
<1>9. UnusedInv'
  BY <1>3, NoneOf DEF WholeInv, UnusedInv
<1>10. MakingInv'
  <2>1. \A t \in Threads : Making(call[t]) => own'[call[t].obj] = own[call[t].obj]
    BY <1>3, MadeLive
  <2> QED
    BY <2>1 DEF WholeInv, MakingInv
<1> QED
  BY <1>7, <1>8, <1>9, <1>10, LifeStep DEF WholeInv

LEMMA CollectLife ==
  ASSUME Typed, Typed', ReachInv, WholeInv, Collect
  PROVE  WholeInv' /\ Life!Next
<1>1. PICK kept \in SUBSET held : held' = kept /\ Destroy(live \ Reached(kept))
  BY DEF Collect
<1>2. PICK dead : dead = live \ Reached(kept)
  OBVIOUS
<1>3. UNION {FrameRefs(t) : t \in Threads} \subseteq Reached(kept)
  BY ReachedClosed DEF ReachInv, Typed, PlainOK
<1>4. \A t \in Threads : Making(call[t]) => call[t].obj \in FrameRefs(t)
  BY MadeLive, HandlesAssumption DEF FrameRefs
<1>5. \A t \in Threads : Making(call[t]) => call[t].obj \notin dead
  BY <1>2, <1>3, <1>4
<1> QED
  BY <1>1, <1>2, <1>5, DestroyLife DEF Collect

LEMMA ExitLife ==
  ASSUME Typed, Typed', ReachInv, WholeInv, Exit
  PROVE  WholeInv' /\ Life!Next
<1>1. \A t \in Threads : ~Making(call[t])
  BY IdleNotMaking DEF Exit
<1> QED
  BY <1>1, DestroyLife DEF Exit

-----------------------------------------------------------------------------

LEMMA CallLife ==
  ASSUME Typed, Typed', ReachInv, WholeInv, NEW t \in Clients, Call(t)
  PROVE  WholeInv' /\ Life!Next
<1>1. t \in Threads
  BY DEF Threads
<1>2. CASE cluster_initialize(t) \/ cluster_connect(t) \/ Connected(t)
  BY <1>1, <1>2, InitializeLife, ConnectLife, ConnectedLife
<1>3. CASE session_prepare(t, "prepare") \/ session_prepare(t, "prepare_async")
  BY <1>1, <1>3, PrepareLife
<1>4. CASE \/ session_execute(t, "execute", "executed")
           \/ session_execute(t, "execute_async", "executed_async")
  BY <1>1, <1>4, ExecuteLife DEF Kinds
<1>5. CASE statement_build_for_execution(t) \/ nogvl_session_request(t) \/ Prepared(t)
  BY <1>1, <1>5, BuildLife, RequestLife, PreparedLife
<1>6. CASE future_create(t) \/ FutureCreated(t) \/ ResultCreated(t) \/ result_await(t)
  BY <1>1, <1>6, FutureCreateLife, FutureCreatedLife, ResultCreatedLife, ResultAwaitLife
<1>7. CASE result_next_page(t) \/ NextPage(t) \/ result_each(t) \/ result_each_ensure(t)
  BY <1>1, <1>7, NextPageBeginLife, NextPageLife, EachLife, EachEnsureLife
<1>8. CASE \E f \in Futures : future_on(t, f, "on_success") \/ future_on(t, f, "on_failure")
  BY <1>1, <1>8, FutureOnLife
<1>9. CASE future_await(t) \/ Awaited(t) \/ Interrupted(t) \/ Abandoned(t)
  BY <1>1, <1>9, AwaitLife, AwaitedLife, InterruptedLife, AbandonedLife
<1> QED
  BY <1>2, <1>3, <1>4, <1>5, <1>6, <1>7, <1>8, <1>9 DEF Call

LEMMA NextLife ==
  Typed /\ Typed' /\ ReachInv /\ WholeInv /\ [Next]_vars =>
    WholeInv' /\ [Life!Next]_<<Owns, InState({"live", "lost"}), InState({"lost"})>>
<1> SUFFICES ASSUME Typed, Typed', ReachInv, WholeInv, [Next]_vars
             PROVE  WholeInv' /\ [Life!Next]_<<Owns, InState({"live", "lost"}), InState({"lost"})>>
  OBVIOUS
<1>1. CASE \E t \in Clients : Call(t)
  BY <1>1, CallLife
<1>2. CASE \E w \in Workers : future_result_yielder_synchronize(w)
  BY <1>2, YielderLife
<1>3. CASE \E t \in Threads : future_result_success_yield(t)
  BY <1>3, SuccessYieldLife
<1>4. CASE \E f \in Futures : Resolve(f) \/ Mark(f)
  <2>1. UNCHANGED <<driver, own, live, call, held, pooled>>
    BY <1>4 DEF Resolve, Mark, objectVars, futureVars
  <2> QED
    BY <2>1, SameLife
<1>5. CASE Collect \/ Exit
  BY <1>5, CollectLife, ExitLife
<1>6. CASE UNCHANGED vars
  <2>1. UNCHANGED <<driver, own, live, call, held, pooled>>
    BY <1>6 DEF vars, objectVars, futureVars
  <2> QED
    BY <2>1, SameLife
<1> QED
  BY <1>1, <1>2, <1>3, <1>4, <1>5, <1>6 DEF Next

LEMMA InitLife == Init => WholeInv /\ Life!Init
<1> SUFFICES ASSUME Init PROVE WholeInv /\ Life!Init
  OBVIOUS
<1>1. UnusedInv
  BY NoneOf DEF Init, UnusedInv
<1>2. MakingInv
  BY IdleNotMaking DEF Init, MakingInv
<1>3. LeakInv
  BY DEF Init, LeakInv
<1>4. InState({"live", "lost"}) = {} /\ InState({"lost"}) = {}
  BY DEF Init, InState
<1>5. Owns = {}
  <2>1. \A t \in Threads : FrameHandles(t) = {}
    BY IdleOK DEF Init, FrameHandles
  <2> QED
    BY <2>1 DEF Init, Owns
<1> QED
  BY <1>1, <1>2, <1>3, <1>4, <1>5 DEF WholeInv, Life!Init

LEMMA WholeAlways == Spec => []WholeInv
BY InitLife, NextLife, TypedAlways, ReachAlways, PTL DEF Spec

\* Each handle of the driver has one owner at a time: a call, then the object
\* it makes, and of a future's executed statement the result it is handed to;
\* its owner frees it, and none is forgotten but by a call that an exception
\* cuts short (ilios.h:66-78, statement.c:204-207, future.c:116-122).
THEOREM HandlesImplementOwnership == Spec => OwnershipSpec
BY InitLife, NextLife, WholeAlways, TypedAlways, ReachAlways, PTL DEF Spec, OwnershipSpec, Life!Spec
=============================================================================
