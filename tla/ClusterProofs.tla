---------------------------- MODULE ClusterProofs ----------------------------
(* Theorems about Cluster.tla: any threads, hosts, Arrays, settings and      *)
(* numbers, any width of int, any number of calls and changes.               *)
EXTENDS Cluster, TLAPS

-----------------------------------------------------------------------------
(* Types.                                                                  *)

LEMMA ArrayFacts ==
  ASSUME TypeOK
  PROVE  /\ array \in Seq(Hosts \cup {Blank, Bad}) /\ Len(array) \in Nat
         /\ \A i \in 1..Len(array) : array[i] \in Hosts \cup {Blank, Bad}
BY ClusterAssumption DEF TypeOK

\* What op says of a frame.
LEMMA FrameFacts ==
  ASSUME TypeOK, NEW t \in Threads
  PROVE  /\ call[t].op = "hosts" <=> call[t] \in HostsFrames
         /\ call[t].op = "connect" <=> call[t] \in ConnectFrames
         /\ call[t].op = "idle" <=> call[t] = Idle
BY DEF TypeOK, Idle, HostsFrames, ConnectFrames

LEMMA ReadHostType ==
  ASSUME TypeOK, NEW i \in Nat \ {0}, NEW since \in Nat, MoreHosts(i)
  PROVE  ReadHost(i, since) \in HostsFrames /\ ReadHost(i, since).host = array[i]
<1>1. array[i] \in Hosts \cup {Blank, Bad} /\ i <= Len(array)
  BY ArrayFacts DEF MoreHosts
<1> QED
  BY <1>1 DEF ReadHost, HostsFrames

LEMMA HandedType ==
  ASSUME TypeOK
  PROVE  Handed(IF keyspace THEN string ELSE None) \in ConnectFrames
BY DEF Handed, ConnectFrames, TypeOK

\* The conversion to C gives a number of the type.  It keeps one that is not
\* negative, and makes one that is no int of a negative one when it is unsigned.
LEMMA AsCKeeps ==
  ASSUME NEW o \in Settings, NEW n \in Inputs, Converts(o, n)
  PROVE  /\ AsC(o, n) \in Int /\ AsC(o, n) <= UintMax
         /\ n >= 0 => AsC(o, n) = n
         /\ o \in Unsigned /\ n < 0 => AsC(o, n) > IntMax
<1>1. n \in Int /\ IntMax \in Nat /\ UintMax \in Nat /\ UintMax = 2 * IntMax + 1
  BY ClusterAssumption DEF UintMax
<1>2. CASE o \in Unsigned
  <2> DEFINE width == UintMax + 1
  <2>1. width \in Nat /\ width > 0
    BY <1>1
  <2>2. n % width \in 0..(width - 1)
    BY <1>1, <2>1
  <2>3. n >= 0 => n < width
    BY <1>1, <1>2 DEF Converts, InInt
  <2>4. n >= 0 => n % width = n
    BY <1>1, <2>1, <2>3
  <2>5. n < 0 => n % width > IntMax
    <3>1. n < 0 => -IntMax - 1 <= n
      BY <1>1, <1>2 DEF Converts, InInt
    <3>2. n < 0 => n % width = n + width
      BY <1>1, <2>1, <3>1
    <3> QED
      BY <1>1, <3>1, <3>2
  <2> QED
    BY <1>1, <1>2, <2>2, <2>4, <2>5 DEF AsC
<1>3. CASE o \notin Unsigned
  BY <1>1, <1>3 DEF AsC, Converts, InInt
<1> QED
  BY <1>2, <1>3

LEMMA InitTypeOK == Init => TypeOK
<1> SUFFICES ASSUME Init PROVE TypeOK
  OBVIOUS
<1>1. call \in [Threads -> {Idle} \cup HostsFrames \cup ConnectFrames]
  BY DEF Init
<1>2. config \in [Settings -> 0..UintMax \cup {Default}] /\ wanted \in [Settings -> Inputs \cup {Default}]
  BY DEF Init
<1>3. calls \in 0..MaxCalls /\ changes \in 0..MaxChanges /\ epoch \in Nat
  BY ClusterAssumption DEF Init
<1> QED
  BY <1>1, <1>2, <1>3 DEF Init, TypeOK

LEMMA NextTypeOK ==
  ASSUME TypeOK, [Next]_vars
  PROVE  TypeOK'
<1> USE ClusterAssumption DEF clusterVars, programVars
<1>1. ASSUME NEW t \in Threads, cluster_hosts(t) PROVE TypeOK'
  <2>1. call' \in [Threads -> {Idle} \cup HostsFrames \cup ConnectFrames]
    <3>1. MoreHosts(1) => ReadHost(1, epoch) \in HostsFrames
      BY ReadHostType DEF TypeOK
    <3> QED
      BY <1>1, <3>1 DEF cluster_hosts, Enter, CallEnds, TypeOK
  <2>2. calls' \in 0..MaxCalls
    BY <1>1 DEF cluster_hosts, CanCall, Enter, CallEnds, TypeOK
  <2> QED
    BY <1>1, <2>1, <2>2 DEF cluster_hosts, TypeOK
<1>2. ASSUME NEW t \in Threads, HostAdded(t) PROVE TypeOK'
  <2>1. call[t] \in HostsFrames
    BY <1>2, FrameFacts DEF HostAdded
  <2>2. call[t].at + 1 \in Nat \ {0} /\ call[t].since \in Nat /\ call[t].host \in Hosts \cup {Blank, Bad}
    BY <2>1 DEF HostsFrames
  <2>3. call' \in [Threads -> {Idle} \cup HostsFrames \cup ConnectFrames] /\ calls' = calls
    <3>1. MoreHosts(call[t].at + 1) => ReadHost(call[t].at + 1, call[t].since) \in HostsFrames
      BY <2>2, ReadHostType
    <3> QED
      BY <1>2, <3>1 DEF HostAdded, Return, TypeOK
  <2>4. contacts' \in SUBSET Hosts /\ epoch' \in Nat
    BY <1>2, <2>2 DEF HostAdded, TypeOK
  <2> QED
    BY <1>2, <2>3, <2>4 DEF HostAdded, TypeOK
<1>3. ASSUME NEW t \in Threads, NEW o \in Settings, cluster_set(t, o) PROVE TypeOK'
  <2>1. config' \in [Settings -> 0..UintMax \cup {Default}] /\ wanted' \in [Settings -> Inputs \cup {Default}]
    <3>1. PICK n \in Inputs :
            IF Converts(o, n)
            THEN /\ DriverSet(o, AsC(o, n))
                 /\ wanted' = IF Refused(o, n) THEN wanted ELSE [wanted EXCEPT ![o] = n]
            ELSE UNCHANGED <<config, wanted>>
      BY <1>3 DEF cluster_set
    <3>2. Converts(o, n) /\ AsC(o, n) >= Minimum[o] => AsC(o, n) \in 0..UintMax
      BY AsCKeeps, ClusterAssumption DEF UintMax
    <3> QED
      BY <3>1, <3>2 DEF DriverSet, TypeOK
  <2> QED
    BY <1>3, <2>1 DEF cluster_set, CanCall, CallEnds, TypeOK
<1>4. ASSUME NEW t \in Threads, cluster_constant_speculative_execution_policy(t) PROVE TypeOK'
  <2>1. policy' \in (Nat \X Nat) \cup {None}
    BY <1>4 DEF cluster_constant_speculative_execution_policy, TypeOK
  <2> QED
    BY <1>4, <2>1 DEF cluster_constant_speculative_execution_policy, CanCall, CallEnds, TypeOK
<1>5. ASSUME NEW t \in Threads, cluster_keyspace(t) PROVE TypeOK'
  BY <1>5 DEF cluster_keyspace, CanCall, CallEnds, TypeOK
<1>6. ASSUME NEW t \in Threads, cluster_connect(t) PROVE TypeOK'
  <2>1. call' \in [Threads -> {Idle} \cup HostsFrames \cup ConnectFrames]
    BY <1>6, HandedType DEF cluster_connect, Enter, CallEnds, TypeOK
  <2>2. calls' \in 0..MaxCalls
    BY <1>6 DEF cluster_connect, CanCall, Enter, CallEnds, TypeOK
  <2> QED
    BY <1>6, <2>1, <2>2 DEF cluster_connect, TypeOK
<1>7. ASSUME NEW t \in Threads, Connected(t) PROVE TypeOK'
  BY <1>7 DEF Connected, Return, TypeOK
<1>8. CASE Change
  BY <1>8 DEF Change, TypeOK
<1>9. CASE UNCHANGED vars
  BY <1>9 DEF vars, TypeOK
<1> QED
  BY <1>1, <1>2, <1>3, <1>4, <1>5, <1>6, <1>7, <1>8, <1>9 DEF Next

\* Every variable keeps its type (ext/ilios/cluster.c).
THEOREM TypeCorrect == Spec => []TypeOK
<1>1. Init => TypeOK
  BY InitTypeOK
<1>2. TypeOK /\ [Next]_vars => TypeOK'
  BY NextTypeOK
<1> QED
  BY <1>1, <1>2, PTL DEF Spec

-----------------------------------------------------------------------------
(* hosts.  While the Array is as it was and no blank came, the elements     *)
(* before the one in hand are contact points.                               *)

HostsInv ==
  \A t \in Threads : call[t].op = "hosts" =>
    /\ call[t].since <= epoch
    /\ call[t].since = epoch =>
         /\ call[t].at <= Len(array) /\ call[t].host = array[call[t].at]
         /\ \A i \in 1..Len(array) : i < call[t].at => array[i] \in contacts

\* A step that adds no blank, keeps the Array, the contact points and the calls
\* that are in hosts.
LEMMA HostsKeep ==
  ASSUME HostsInv, array' = array, contacts \subseteq contacts', epoch' = epoch,
         \A t \in Threads : call'[t].op = "hosts" => call'[t] = call[t]
  PROVE  HostsInv'
BY DEF HostsInv

LEMMA NextHostsInv ==
  ASSUME TypeOK, HostsInv, [Next]_vars
  PROVE  HostsInv'
<1> USE DEF clusterVars, programVars
<1>1. ASSUME NEW t \in Threads, cluster_hosts(t) PROVE HostsInv'
  <2> SUFFICES ASSUME NEW s \in Threads, call'[s].op = "hosts"
               PROVE  /\ call'[s].since <= epoch'
                      /\ call'[s].since = epoch' =>
                           /\ call'[s].at <= Len(array') /\ call'[s].host = array'[call'[s].at]
                           /\ \A i \in 1..Len(array') : i < call'[s].at => array'[i] \in contacts'
    BY DEF HostsInv
  <2>1. UNCHANGED <<array, contacts, epoch>> /\ epoch \in Nat
    BY <1>1 DEF cluster_hosts, TypeOK
  <2>2. CASE call'[s] = call[s]
    BY <2>1, <2>2 DEF HostsInv
  <2>3. CASE call'[s] # call[s]
    <3>1. call'[s] = ReadHost(1, epoch) /\ MoreHosts(1)
      BY <1>1, <2>3 DEF cluster_hosts, Enter, CallEnds, TypeOK
    <3> QED
      BY <2>1, <3>1, ArrayFacts DEF ReadHost, MoreHosts
  <2> QED
    BY <2>2, <2>3
<1>2. ASSUME NEW t \in Threads, HostAdded(t) PROVE HostsInv'
  <2> DEFINE frame == call[t]
  <2> SUFFICES ASSUME NEW s \in Threads, call'[s].op = "hosts"
               PROVE  /\ call'[s].since <= epoch'
                      /\ call'[s].since = epoch' =>
                           /\ call'[s].at <= Len(array') /\ call'[s].host = array'[call'[s].at]
                           /\ \A i \in 1..Len(array') : i < call'[s].at => array'[i] \in contacts'
    BY DEF HostsInv
  <2>1. /\ frame.op = "hosts" /\ frame.at \in Nat \ {0} /\ frame.since \in Nat
        /\ frame.since <= epoch /\ epoch \in Nat /\ array' = array
    BY <1>2, FrameFacts DEF HostAdded, HostsFrames, HostsInv, TypeOK
  <2>2. CASE frame.host = Blank /\ frame.host # Bad
    <3>1. epoch' = epoch + 1
      BY <1>2, <2>2 DEF HostAdded
    <3>2. call'[s].since \in Nat /\ call'[s].since <= epoch
      <4>1. CASE s = t
        <5>1. call'[s] = Idle \/ call'[s] = ReadHost(frame.at + 1, frame.since)
          BY <1>2, <4>1 DEF HostAdded, Return, Enter, TypeOK
        <5> QED
          BY <2>1, <5>1 DEF ReadHost, Idle
      <4>2. CASE s # t
        <5>1. call'[s] = call[s]
          BY <1>2, <4>2 DEF HostAdded, Return, Enter, TypeOK
        <5> QED
          BY <5>1, FrameFacts DEF HostsInv, HostsFrames
      <4> QED
        BY <4>1, <4>2
    <3> QED
      BY <2>1, <3>1, <3>2
  <2>3. CASE frame.host # Blank \/ frame.host = Bad
    <3>1. epoch' = epoch /\ contacts \subseteq contacts'
      BY <1>2, <2>3 DEF HostAdded
    <3>2. CASE call'[s] = call[s]
      BY <2>1, <3>1, <3>2 DEF HostsInv
    <3>3. CASE call'[s] # call[s]
      <4>1. /\ s = t /\ call'[s] = ReadHost(frame.at + 1, frame.since)
            /\ MoreHosts(frame.at + 1) /\ contacts' = contacts \cup {frame.host}
        <5>1. s = t
          BY <1>2, <3>3 DEF HostAdded, Return, Enter, TypeOK
        <5>2. call'[s] # Idle
          BY DEF Idle
        <5> QED
          BY <1>2, <2>3, <5>1, <5>2 DEF HostAdded, Return, Enter, TypeOK
      <4>2. /\ call'[s].since = frame.since /\ call'[s].at = frame.at + 1
            /\ frame.at + 1 <= Len(array) /\ call'[s].host = array[frame.at + 1]
        BY <4>1 DEF ReadHost, MoreHosts
      <4>3. ASSUME frame.since = epoch, NEW i \in 1..Len(array), i < frame.at + 1
            PROVE  array[i] \in contacts'
        <5>1. CASE i < frame.at
          BY <2>1, <3>1, <4>3, <5>1 DEF HostsInv
        <5>2. CASE i = frame.at
          BY <2>1, <4>1, <4>3, <5>2 DEF HostsInv
        <5> QED
          BY <2>1, <4>3, <5>1, <5>2
      <4> QED
        BY <2>1, <3>1, <4>2, <4>3
    <3> QED
      BY <3>2, <3>3
  <2> QED
    BY <2>2, <2>3
<1>3. ASSUME NEW t \in Threads, NEW o \in Settings, cluster_set(t, o) PROVE HostsInv'
  BY <1>3, HostsKeep DEF cluster_set, CallEnds
<1>4. ASSUME NEW t \in Threads, cluster_constant_speculative_execution_policy(t) PROVE HostsInv'
  BY <1>4, HostsKeep DEF cluster_constant_speculative_execution_policy, CallEnds
<1>5. ASSUME NEW t \in Threads, cluster_keyspace(t) PROVE HostsInv'
  BY <1>5, HostsKeep DEF cluster_keyspace, CallEnds
<1>6. ASSUME NEW t \in Threads, cluster_connect(t) PROVE HostsInv'
  <2>1. \A s \in Threads : call'[s].op = "hosts" => call'[s] = call[s]
    BY <1>6 DEF cluster_connect, Enter, CallEnds, Handed, TypeOK
  <2> QED
    BY <1>6, <2>1, HostsKeep DEF cluster_connect
<1>7. ASSUME NEW t \in Threads, Connected(t) PROVE HostsInv'
  <2>1. \A s \in Threads : call'[s].op = "hosts" => call'[s] = call[s]
    BY <1>7 DEF Connected, Return, Idle, TypeOK
  <2> QED
    BY <1>7, <2>1, HostsKeep DEF Connected
<1>8. CASE Change
  <2>1. CASE array' = array /\ epoch' = epoch
    BY <1>8, <2>1, HostsKeep DEF Change
  <2>2. CASE epoch' = epoch + 1
    <3>1. \A s \in Threads : call[s].op = "hosts" =>
            call[s].since \in Nat /\ call[s].since <= epoch /\ epoch \in Nat
      BY FrameFacts DEF HostsInv, HostsFrames, TypeOK
    <3> QED
      BY <1>8, <2>2, <3>1 DEF Change, HostsInv
  <2> QED
    BY <1>8, <2>1, <2>2 DEF Change
<1>9. CASE UNCHANGED vars
  BY <1>9, HostsKeep DEF vars
<1> QED
  BY <1>1, <1>2, <1>3, <1>4, <1>5, <1>6, <1>7, <1>8, <1>9 DEF Next

LEMMA HostsInvariant == Spec => [](TypeOK /\ HostsInv)
<1>1. Init => TypeOK /\ HostsInv
  BY InitTypeOK DEF Init, HostsInv, Idle
<1>2. TypeOK /\ HostsInv /\ [Next]_vars => TypeOK' /\ HostsInv'
  BY NextTypeOK, NextHostsInv
<1> QED
  BY <1>1, <1>2, PTL DEF Spec

\* When hosts returns self, the hosts of an Array that nobody changed are contact
\* points, whatever other threads call meanwhile (cluster.c:97-100).
THEOREM HostsStay == Spec => HostsKept
<1> DEFINE Done(t) ==
      /\ call[t].op = "hosts" /\ call[t].host # Bad
      /\ call'[t] = Idle /\ epoch' = call[t].since
      => \A i \in DOMAIN array : array[i] \in contacts'
<1>1. TypeOK /\ HostsInv /\ [Next]_vars => [\A t \in Threads : Done(t)]_vars
  <2> SUFFICES ASSUME TypeOK, HostsInv, Next, NEW t \in Threads,
                      call[t].op = "hosts", call[t].host # Bad,
                      call'[t] = Idle, epoch' = call[t].since
               PROVE  \A i \in DOMAIN array : array[i] \in contacts'
    BY DEF vars, clusterVars, programVars
  <2>1. call[t] \in HostsFrames /\ call[t] # Idle /\ epoch \in Nat
    BY FrameFacts DEF TypeOK, Idle
  <2>2. HostAdded(t)
    <3>1. \A s \in Threads : s # t => ~HostAdded(s)
      BY <2>1 DEF HostAdded, Return, Enter, TypeOK
    <3>2. \A s \in Threads : ~Connected(s)
      BY <2>1 DEF Connected, Return, TypeOK
    <3>3. \A s \in Threads : ~cluster_hosts(s) /\ ~cluster_connect(s)
      BY <2>1 DEF cluster_hosts, cluster_connect, CanCall, Enter, CallEnds, TypeOK
    <3>4. \A s \in Threads :
            /\ \A o \in Settings : ~cluster_set(s, o)
            /\ ~cluster_constant_speculative_execution_policy(s) /\ ~cluster_keyspace(s)
      BY <2>1 DEF cluster_set, cluster_constant_speculative_execution_policy, cluster_keyspace, CallEnds
    <3>5. ~Change
      BY <2>1 DEF Change
    <3> QED
      BY <3>1, <3>2, <3>3, <3>4, <3>5 DEF Next
  <2>3. call[t].since <= epoch /\ call[t].since \in Nat
    BY <2>1 DEF HostsInv, HostsFrames
  <2>4. call[t].host # Blank /\ epoch' = epoch /\ contacts' = contacts \cup {call[t].host}
    BY <2>1, <2>2, <2>3 DEF HostAdded
  <2>5. ~MoreHosts(call[t].at + 1)
    BY <2>1, <2>2 DEF HostAdded, ReadHost, Idle, TypeOK
  <2>6. call[t].at \in Nat /\ Len(array) \in Nat /\ DOMAIN array = 1..Len(array)
    BY <2>1, ArrayFacts DEF HostsFrames
  <2>7. /\ call[t].at <= Len(array) /\ call[t].host = array[call[t].at]
        /\ \A i \in 1..Len(array) : i < call[t].at => array[i] \in contacts
    BY <2>4 DEF HostsInv
  <2>8. call[t].at = Len(array)
    BY <2>5, <2>6, <2>7 DEF MoreHosts
  <2>9. ASSUME NEW i \in 1..Len(array) PROVE array[i] \in contacts'
    <3>1. CASE i < call[t].at
      BY <2>4, <2>7, <3>1
    <3>2. CASE i = call[t].at
      BY <2>4, <2>7, <3>2
    <3> QED
      BY <2>6, <2>8, <3>1, <3>2
  <2> QED
    BY <2>6, <2>9
<1> QED
  BY <1>1, HostsInvariant, PTL DEF Spec, HostsKept

-----------------------------------------------------------------------------
(* connect.                                                                *)

\* What the CassCluster has, as SettingsKept says it.
InForce(set, given) ==
  \/ given = Default /\ set = Default
  \/ given # Default /\ given >= 0 /\ set = given
  \/ given # Default /\ given < 0 /\ set > IntMax

ConfigInv == \A o \in Settings : InForce(config[o], wanted[o])

LEMMA NextConfigInv ==
  ASSUME TypeOK, ConfigInv, [Next]_vars
  PROVE  ConfigInv'
<1> USE DEF clusterVars, programVars
<1>1. ASSUME NEW t \in Threads, NEW o \in Settings, cluster_set(t, o) PROVE ConfigInv'
  <2>1. PICK n \in Inputs :
          IF Converts(o, n)
          THEN /\ DriverSet(o, AsC(o, n))
               /\ wanted' = IF Refused(o, n) THEN wanted ELSE [wanted EXCEPT ![o] = n]
          ELSE UNCHANGED <<config, wanted>>
    BY <1>1 DEF cluster_set
  <2>2. CASE ~Converts(o, n)
    BY <2>1, <2>2 DEF ConfigInv
  <2>3. CASE Converts(o, n)
    <3>1. n # Default /\ n \in Int /\ Minimum[o] \in Nat /\ Minimum[o] <= IntMax /\ IntMax \in Nat
      BY ClusterAssumption
    <3>2. /\ AsC(o, n) \in Int
          /\ n >= 0 => AsC(o, n) = n
          /\ o \in Unsigned /\ n < 0 => AsC(o, n) > IntMax
      BY <2>3, AsCKeeps
    <3>3. CASE Refused(o, n)
      <4>1. AsC(o, n) < Minimum[o]
        <5>1. CASE n >= 0
          BY <3>2, <3>3, <5>1 DEF Refused
        <5>2. CASE n < 0
          BY <3>1, <3>3, <5>2 DEF Refused, AsC
        <5> QED
          BY <3>1, <5>1, <5>2
      <4>2. UNCHANGED <<config, wanted>>
        BY <2>1, <2>3, <3>1, <3>2, <3>3, <4>1 DEF DriverSet
      <4> QED
        BY <4>2 DEF ConfigInv
    <3>4. CASE ~Refused(o, n)
      <4>1. AsC(o, n) >= Minimum[o]
        BY <3>1, <3>2, <3>4 DEF Refused
      <4>2. config' = [config EXCEPT ![o] = AsC(o, n)] /\ wanted' = [wanted EXCEPT ![o] = n]
        BY <2>1, <2>3, <3>4, <4>1 DEF DriverSet
      <4>3. \A q \in Settings : q # o => config'[q] = config[q] /\ wanted'[q] = wanted[q]
        BY <4>2 DEF TypeOK
      <4>4. config'[o] = AsC(o, n) /\ wanted'[o] = n
        BY <4>2 DEF TypeOK
      <4>5. n < 0 => o \in Unsigned
        BY <3>1, <3>4 DEF Refused
      <4>6. InForce(config'[o], wanted'[o])
        BY <3>1, <3>2, <4>4, <4>5 DEF InForce
      <4> QED
        BY <4>3, <4>6 DEF ConfigInv
    <3> QED
      BY <3>3, <3>4
  <2> QED
    BY <2>2, <2>3
<1>2. CASE UNCHANGED <<config, wanted>>
  BY <1>2 DEF ConfigInv
<1>3. CASE UNCHANGED vars
  BY <1>2, <1>3 DEF vars
<1> QED
  BY <1>1, <1>2, <1>3 DEF Next, cluster_hosts, HostAdded, cluster_keyspace, cluster_connect,
     cluster_constant_speculative_execution_policy, Connected, Change

\* Only connect enters connect.
LEMMA ConnectsOnly ==
  ASSUME TypeOK, Next, NEW t \in Threads, Connects(t)
  PROVE  /\ call'[t] = Handed(IF keyspace THEN string ELSE None)
         /\ ~(keyspace /\ string = WithNul)
<1>1. call'[t] # call[t] /\ call'[t] # Idle /\ call'[t].op # "hosts"
  BY DEF Connects, Idle
<1>2. cluster_connect(t)
  <2>1. \A s \in Threads : ~HostAdded(s) /\ ~Connected(s) /\ ~cluster_hosts(s)
    BY <1>1 DEF HostAdded, Connected, cluster_hosts, Return, Enter, CallEnds, ReadHost, TypeOK
  <2>2. \A s \in Threads :
          /\ \A o \in Settings : ~cluster_set(s, o)
          /\ ~cluster_constant_speculative_execution_policy(s) /\ ~cluster_keyspace(s)
    BY <1>1 DEF cluster_set, cluster_constant_speculative_execution_policy, cluster_keyspace, CallEnds
  <2>3. ~Change
    BY <1>1 DEF Change
  <2>4. \A s \in Threads : s # t => ~cluster_connect(s)
    BY <1>1 DEF cluster_connect, Enter, CallEnds, TypeOK
  <2> QED
    BY <2>1, <2>2, <2>3, <2>4 DEF Next
<1> QED
  BY <1>1, <1>2 DEF cluster_connect, Enter, CallEnds, TypeOK

\* A session gets the numbers that the setters were given last, but those that the
\* driver refused: none is overwritten by another setting, and none wraps but a
\* negative one of an unsigned setting, whatever the width of an int.
THEOREM SettingsStay == Spec => SettingsKept
<1> DEFINE Kept(t, o) == Connects(t) => InForce(call'[t].config[o], wanted[o])
<1>1. TypeOK /\ ConfigInv /\ [Next]_vars => [\A t \in Threads, o \in Settings : Kept(t, o)]_vars
  <2> SUFFICES ASSUME TypeOK, ConfigInv, Next, NEW t \in Threads, NEW o \in Settings, Connects(t)
               PROVE  Kept(t, o)
    BY DEF vars, clusterVars, programVars
  <2>1. call'[t].config = config
    BY ConnectsOnly DEF Handed
  <2> QED
    BY <2>1 DEF ConfigInv
<1>2. Init => TypeOK /\ ConfigInv
  BY InitTypeOK DEF Init, ConfigInv, InForce
<1>3. TypeOK /\ ConfigInv /\ [Next]_vars => TypeOK' /\ ConfigInv'
  BY NextTypeOK, NextConfigInv
<1> QED
  BY <1>1, <1>2, <1>3, PTL DEF Spec, SettingsKept, InForce
=============================================================================
