------------------------------ MODULE PortLease ------------------------------
(***************************************************************************)
(* What a server with --reverse promises to its mux sessions about ports,  *)
(* without streams, listeners and the order of clean-up.  A session asks   *)
(* for one port at a time; it is lent only a port that nobody holds, and   *)
(* refused only for a cause.  It gives its ports back when it ends, and is *)
(* over only without any.  A connection to a port belongs to the session   *)
(* that holds it then.                                                     *)
(***************************************************************************)
CONSTANTS
    Sessions, Ports, Conns,
    Lending,    \* ports are lent at all
    MayRefuse,  \* a port may be unavailable though no session holds it
    MayBreak,   \* a port may be lost by itself
    Nobody

VARIABLES
    stage,   \* "none", "accept" (it may ask), "closing", "done"
    wants,   \* {}, or the one port a session has asked for
    holder,  \* of each port, or Nobody
    conns    \* connections to ports: state, port and session

vars == <<stage, wants, holder, conns>>

Init ==
    /\ stage = [i \in Sessions |-> "none"]
    /\ wants = [i \in Sessions |-> {}]
    /\ holder = [p \in Ports |-> Nobody]
    /\ conns = [c \in Conns |-> [st |-> "new", port |-> Nobody, sess |-> Nobody]]

Move(i, from, to) ==
    /\ stage[i] = from
    /\ stage' = [stage EXCEPT ![i] = to]
    /\ UNCHANGED <<wants, holder, conns>>

Begin(i) == Move(i, "none", "accept")
End(i) == wants[i] = {} /\ Move(i, "accept", "closing")
Over(i) == (\A p \in Ports : holder[p] # i) /\ Move(i, "closing", "done")

Ask(i, p) ==
    /\ stage[i] = "accept"
    /\ wants[i] = {}
    /\ wants' = [wants EXCEPT ![i] = {p}]
    /\ UNCHANGED <<stage, holder, conns>>

Answered(i, p) ==
    /\ wants[i] = {p}
    /\ wants' = [wants EXCEPT ![i] = {}]
    /\ UNCHANGED <<stage, conns>>

Lend(i, p) ==
    /\ Answered(i, p)
    /\ Lending /\ holder[p] = Nobody
    /\ holder' = [holder EXCEPT ![p] = i]

Refuse(i, p) ==
    /\ Answered(i, p)
    /\ ~Lending \/ holder[p] # Nobody \/ MayRefuse
    /\ UNCHANGED holder

GiveBack(p) ==
    /\ holder[p] # Nobody
    /\ MayBreak \/ stage[holder[p]] = "closing"
    /\ holder' = [holder EXCEPT ![p] = Nobody]
    /\ UNCHANGED <<stage, wants, conns>>

Call(c, p) ==
    /\ holder[p] # Nobody
    /\ conns[c].st = "new"
    /\ conns' = [conns EXCEPT ![c] = [st |-> "accepted", port |-> p, sess |-> holder[p]]]
    /\ UNCHANGED <<stage, wants, holder>>

\* It is relayed by its session, or closed.
Serve(c) ==
    /\ \E x \in {"relaying", "closed"} :
           /\ conns[c].st \in {"accepted", "relaying"} \ {x}
           /\ conns' = [conns EXCEPT ![c].st = x]
    /\ UNCHANGED <<stage, wants, holder>>

Next ==
    \/ \E i \in Sessions : Begin(i) \/ End(i) \/ Over(i)
    \/ \E i \in Sessions, p \in Ports : Ask(i, p) \/ Lend(i, p) \/ Refuse(i, p)
    \/ \E p \in Ports : GiveBack(p) \/ \E c \in Conns : Call(c, p)
    \/ \E c \in Conns : Serve(c)

Spec == Init /\ [][Next]_vars
=============================================================================
