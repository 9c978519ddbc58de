------------------------------- MODULE Cluster -------------------------------
(***************************************************************************)
(* One Ilios::Cassandra::Cluster (ext/ilios/cluster.c) that the threads of *)
(* a program share: its contact points, settings and keyspace, and what    *)
(* connect hands to the driver.                                            *)
(*                                                                         *)
(* The Array of hosts and the String of the keyspace stay the program's.   *)
(* It may change them whenever a method lets go of the VM lock: hosts in   *)
(* the to_str of a host, which a String does without, connect in its wait. *)
(***************************************************************************)
EXTENDS Integers, Sequences

CONSTANTS
  Threads,
  Hosts,           \* contact points
  Blank, Bad,      \* the empty String, and what is no String or has a NUL
  PastEnd,         \* what a read past the end of the Array would give
  Settings,        \* the setters with one Integer
  Unsigned,        \* those that take a cass_uint
  Minimum,         \* Minimum[o]: the least that the driver takes
  Inputs,          \* the Integers that setters are given
  IntMax,          \* the greatest int
  Keyspaces,       \* what a String may spell
  WithNul,         \* one that has a NUL
  Arrays,          \* what the Array may hold
  Default, None,
  MaxCalls,        \* bound on the calls of the program
  MaxChanges       \* bound on its changes of the Array and the String

ASSUME ClusterAssumption ==
  /\ Unsigned \subseteq Settings
  /\ IntMax \in Nat
  /\ Inputs \subseteq Int
  /\ Minimum \in [Settings -> Nat] /\ \A o \in Settings : Minimum[o] <= IntMax
  /\ Default \notin Int /\ None \notin Keyspaces
  /\ PastEnd \notin Hosts \cup {Blank, Bad}
  /\ WithNul \in Keyspaces
  /\ \A a \in Arrays : a \in Seq(Hosts \cup {Blank, Bad})
  /\ MaxCalls \in Nat /\ MaxChanges \in Nat

VARIABLES
  contacts,        \* the contact points of the CassCluster
  config,          \* its settings
  policy,          \* its speculative executions: their delay and their number
  keyspace,        \* whether a String was given for the keyspace
  string, array,   \* the program's String and Array
  call,            \* call[t]: the method that t is in
  calls, changes,  \* their numbers
  wanted,          \* history: what each setter was given last that was not refused
  epoch            \* history: changes of the Array, and blanks, so far

clusterVars == <<contacts, config, policy, keyspace>>
programVars == <<string, array, changes>>
vars == <<clusterVars, programVars, call, calls, wanted, epoch>>

Idle == [op |-> "idle"]

Init ==
  /\ contacts = {} /\ policy = None /\ keyspace = FALSE
  /\ config = [o \in Settings |-> Default]
  /\ string \in Keyspaces /\ array \in Arrays
  /\ call = [t \in Threads |-> Idle]
  /\ calls = 0 /\ changes = 0
  /\ wanted = [o \in Settings |-> Default]
  /\ epoch = 0

CanCall(t) == call[t] = Idle /\ calls < MaxCalls
Enter(t, frame) == call' = [call EXCEPT ![t] = frame] /\ calls' = calls + 1
CallEnds == calls' = calls + 1 /\ UNCHANGED call
Return(t) == call' = [call EXCEPT ![t] = Idle] /\ UNCHANGED calls

-----------------------------------------------------------------------------
(* hosts.                                                                  *)

\* Mutants: the loop goes one too far; it ends one too soon.
MoreHostsFar(i) == i <= Len(array) + 1
MoreHostsShort(i) == i < Len(array)

\* The length is looked at in every turn.
MoreHosts(i) == i <= Len(array)

\* RARRAY_AREF, then to_str.
ReadHost(i, since) ==
  [op |-> "hosts", at |-> i, host |-> IF i <= Len(array) THEN array[i] ELSE PastEnd,
   since |-> since]

\* Not an Array or an empty one raises.
cluster_hosts(t) ==
  /\ CanCall(t)
  /\ IF MoreHosts(1) /\ array # <<>> THEN Enter(t, ReadHost(1, epoch)) ELSE CallEnds
  /\ UNCHANGED <<clusterVars, programVars, wanted, epoch>>

\* One that is no String raises, with those before it added.  A blank makes the
\* driver forget all contact points.
HostAdded(t) ==
  LET frame == call[t] IN
  /\ frame.op = "hosts"
  /\ \/ /\ frame.host = Bad
        /\ Return(t)
        /\ UNCHANGED <<contacts, epoch>>
     \/ /\ frame.host # Bad
        /\ contacts' = IF frame.host = Blank THEN {} ELSE contacts \cup {frame.host}
        /\ epoch' = IF frame.host = Blank THEN epoch + 1 ELSE epoch
        /\ IF MoreHosts(frame.at + 1)
           THEN /\ call' = [call EXCEPT ![t] = ReadHost(frame.at + 1, frame.since)]
                /\ UNCHANGED calls
           ELSE Return(t)
  /\ UNCHANGED <<config, policy, keyspace, programVars, wanted>>

-----------------------------------------------------------------------------
(* The settings.                                                           *)

UintMax == 2 * IntMax + 1
InInt(n) == -IntMax - 1 <= n /\ n <= IntMax

\* NUM2INT takes any int.  NUM2UINT takes an int or a cass_uint, modulo its width.
Converts(o, n) == InInt(n) \/ (o \in Unsigned /\ 0 <= n /\ n <= UintMax)
AsC(o, n) == IF o \in Unsigned THEN n % (UintMax + 1) ELSE n

\* Mutant: connect_timeout sets the request timeout.
DriverSetSwapped(o, n) ==
  IF n >= Minimum[o]
  THEN config' = [config EXCEPT ![IF o = "connect_timeout" THEN "request_timeout" ELSE o] = n]
  ELSE UNCHANGED config

\* The driver refuses some values; the error code is not looked at.
DriverSet(o, n) ==
  IF n >= Minimum[o] THEN config' = [config EXCEPT ![o] = n] ELSE UNCHANGED config

\* What the driver refuses of the numbers that C gives it as they are.
Refused(o, n) == (o \in Unsigned => n >= 0) /\ n < Minimum[o]

\* port, protocol_version, connect_timeout, request_timeout, resolve_timeout:
\* the conversion raises, or the setter returns self.
cluster_set(t, o) ==
  /\ CanCall(t) /\ CallEnds
  /\ \E n \in Inputs :
       IF Converts(o, n)
       THEN /\ DriverSet(o, AsC(o, n))
            /\ wanted' = IF Refused(o, n) THEN wanted ELSE [wanted EXCEPT ![o] = n]
       ELSE UNCHANGED <<config, wanted>>
  /\ UNCHANGED <<contacts, policy, keyspace, programVars, epoch>>

\* The numbers are converted to be looked at, which may raise, and again to be
\* used: an object's to_int may answer with others, that the driver looks at.
cluster_constant_speculative_execution_policy(t) ==
  /\ CanCall(t) /\ CallEnds
  /\ \/ UNCHANGED policy
     \/ \E delay, executions \in Inputs :
          /\ delay >= 0 /\ executions >= 0 /\ InInt(executions)
          /\ policy' = <<delay, executions>>
  /\ UNCHANGED <<contacts, config, keyspace, programVars, wanted, epoch>>

\* The String itself is kept.
cluster_keyspace(t) ==
  /\ CanCall(t) /\ CallEnds
  /\ keyspace' = TRUE
  /\ UNCHANGED <<contacts, config, policy, programVars, wanted, epoch>>

-----------------------------------------------------------------------------
(* connect.                                                                *)

Handed(name) ==
  [op |-> "connect", contacts |-> contacts, config |-> config, policy |-> policy,
   keyspace |-> name]

\* A NUL in the keyspace raises only here, where it is read.  The driver copies
\* what it is handed.
cluster_connect(t) ==
  /\ CanCall(t)
  /\ IF keyspace /\ string = WithNul
     THEN CallEnds
     ELSE Enter(t, Handed(IF keyspace THEN string ELSE None))
  /\ UNCHANGED <<clusterVars, programVars, wanted, epoch>>

\* A session, or a ConnectError, as when there are no contact points.
Connected(t) ==
  /\ call[t].op = "connect"
  /\ Return(t)
  /\ UNCHANGED <<clusterVars, programVars, wanted, epoch>>

-----------------------------------------------------------------------------
\* The program changes its Array or its String.
Change ==
  /\ changes < MaxChanges /\ changes' = changes + 1
  /\ \/ /\ array' \in Arrays \ {array}
        /\ epoch' = epoch + 1
        /\ UNCHANGED string
     \/ /\ string' \in Keyspaces \ {string}
        /\ UNCHANGED <<array, epoch>>
  /\ UNCHANGED <<clusterVars, call, calls, wanted>>

Next ==
  \/ \E t \in Threads :
       \/ cluster_hosts(t) \/ HostAdded(t)
       \/ \E o \in Settings : cluster_set(t, o)
       \/ cluster_constant_speculative_execution_policy(t)
       \/ cluster_keyspace(t) \/ cluster_connect(t) \/ Connected(t)
  \/ Change

Spec == Init /\ [][Next]_vars

-----------------------------------------------------------------------------
(* Properties.                                                             *)

HostsFrames ==
  [op : {"hosts"}, at : Nat \ {0}, host : Hosts \cup {Blank, Bad}, since : Nat]
ConnectFrames ==
  [op : {"connect"}, contacts : SUBSET Hosts,
   config : [Settings -> 0..UintMax \cup {Default}],
   policy : (Nat \X Nat) \cup {None}, keyspace : Keyspaces \cup {None}]

\* Every variable keeps its type.  What hosts reads is a host of the Array and
\* nothing past its end, though the to_str of a host or another thread may have
\* made it shorter meanwhile (cluster.c:97).
TypeOK ==
  /\ contacts \in SUBSET Hosts
  /\ config \in [Settings -> 0..UintMax \cup {Default}]
  /\ policy \in (Nat \X Nat) \cup {None}
  /\ keyspace \in BOOLEAN
  /\ string \in Keyspaces /\ array \in Arrays
  /\ call \in [Threads -> {Idle} \cup HostsFrames \cup ConnectFrames]
  /\ calls \in 0..MaxCalls /\ changes \in 0..MaxChanges
  /\ wanted \in [Settings -> Inputs \cup {Default}]
  /\ epoch \in Nat

\* When hosts returns self, every host of its Array is a contact point, unless
\* the Array was changed or a blank made the driver forget (cluster.c:97-100).
HostsKept ==
  [][\A t \in Threads :
       /\ call[t].op = "hosts" /\ call[t].host # Bad
       /\ call'[t] = Idle /\ epoch' = call[t].since
       => \A i \in DOMAIN array : array[i] \in contacts']_vars

Connects(t) == call[t] = Idle /\ call'[t].op = "connect"

\* The session gets what each setter was given last, by whatever thread: a number
\* as it is; a negative one, which no setter with an unsigned number refuses, as
\* one that no int is (cluster.c:169).  A number that the driver refuses leaves the
\* one before it in force, though the setter returns self.
SettingsKept ==
  [][\A t \in Threads, o \in Settings :
       Connects(t) =>
         \/ wanted[o] = Default /\ call'[t].config[o] = Default
         \/ wanted[o] # Default /\ wanted[o] >= 0 /\ call'[t].config[o] = wanted[o]
         \/ wanted[o] # Default /\ wanted[o] < 0 /\ call'[t].config[o] > IntMax]_vars
=============================================================================
