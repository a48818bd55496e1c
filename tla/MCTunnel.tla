------------------------------- MODULE MCTunnel -------------------------------
(* Instances of Tunnel: one client, a server, a link that breaks.             *)
EXTENDS Tunnel

CONSTANTS p1

OneReverse == <<p1>>

(* Bound: either there is one session, with a local and a reverse connection  *)
(* at any time, or there are several, without either.  What it cuts off is    *)
(* steps nothing obliges the environment to take: a dial that succeeds, a     *)
(* local connection, a connection to the reverse port.                        *)
OneSessionOrNoConnection ==
    \/ \A i, j \in Sessions : sess[i] # "none" /\ sess[j] # "none" => i = j
    \/ /\ \A c \in FConns : fconn[c].st = "new"
       /\ \A c \in RConns : rconn[c].st = "new"
=============================================================================
