------------------------------ MODULE RelayPipe ------------------------------
(***************************************************************************)
(* What relay.Relay promises to its callers, without copiers, buffers and  *)
(* counters: of what the peer at each end sends the first part, byte by    *)
(* byte, reaches the other end.  A direction stops once all of it has, or  *)
(* because a connection is dead or was closed when the other direction     *)
(* stopped.  When both have stopped, and not before, the totals are told,  *)
(* once.                                                                   *)
(***************************************************************************)
EXTENDS Naturals

CONSTANTS Ends, Other(_)

VARIABLES
    half,     \* closing the end leaves its reads open
    sent,     \* bytes that the peer at the end has sent
    eof,      \* it sends no more
    err,      \* the connection is dead
    passed,   \* bytes from the end that have reached the other one
    stopped,  \* no more will
    report    \* {}, or {totals} when they have been told

vars == <<half, sent, eof, err, passed, stopped, report>>

Init ==
    /\ half \in [Ends -> BOOLEAN]
    /\ sent = [e \in Ends |-> 0]
    /\ eof = [e \in Ends |-> FALSE]
    /\ err = [e \in Ends |-> FALSE]
    /\ passed = [e \in Ends |-> 0]
    /\ stopped = [e \in Ends |-> FALSE]
    /\ report = {}

Pass(e) ==
    /\ ~stopped[e] /\ ~err[Other(e)]
    /\ passed[e] < sent[e]
    /\ passed' = [passed EXCEPT ![e] = @ + 1]
    /\ UNCHANGED <<half, sent, eof, err, stopped, report>>

Stop(e) ==
    /\ ~stopped[e]
    /\ \/ eof[e] /\ passed[e] = sent[e]
       \/ err[e] \/ err[Other(e)]
       \/ stopped[Other(e)] /\ ~half[e]
    /\ stopped' = [stopped EXCEPT ![e] = TRUE]
    /\ UNCHANGED <<half, sent, eof, err, passed, report>>

Tell ==
    /\ \A e \in Ends : stopped[e]
    /\ report = {}
    /\ report' = {passed}
    /\ UNCHANGED <<half, sent, eof, err, passed, stopped>>

\* The peers and the transport.
Send(e) ==
    /\ ~eof[e]
    /\ sent' = [sent EXCEPT ![e] = @ + 1]
    /\ UNCHANGED <<half, eof, err, passed, stopped, report>>

End(e) ==
    /\ eof' = [eof EXCEPT ![e] = TRUE]
    /\ UNCHANGED <<half, sent, err, passed, stopped, report>>

Die(e) ==
    /\ err' = [err EXCEPT ![e] = TRUE]
    /\ UNCHANGED <<half, sent, eof, passed, stopped, report>>

Next == Tell \/ \E e \in Ends : Pass(e) \/ Stop(e) \/ Send(e) \/ End(e) \/ Die(e)

Spec == Init /\ [][Next]_vars
=============================================================================
