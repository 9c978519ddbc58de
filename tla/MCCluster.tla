------------------------------ MODULE MCCluster ------------------------------
(* Values for the constants of Cluster: an int of 3 bits, a port and two       *)
(* timeouts.                                                                   *)
EXTENDS Cluster, TLC

CONSTANTS h1, h2

Least == "port" :> 1 @@ "connect_timeout" :> 0 @@ "request_timeout" :> 0

\* Refused or taken modulo 2^3, an int, a cass_uint, neither.
Numbers == {-1, 2, 5, 9}

\* From no host to three, good and bad, with a blank.
HostArrays == {<<>>, <<h1>>, <<h1, h2>>, <<h2, Bad, h1>>, <<h1, Blank, h2>>}
=============================================================================
