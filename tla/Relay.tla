-------------------------------- MODULE Relay --------------------------------
(***************************************************************************)
(* relay.Relay(a, b): two goroutines copy between two connections.  The    *)
(* copier that reads from end e writes to Other(e) through a               *)
(* countingWriter, and closes Other(e) when its io.Copy returns.  Relay    *)
(* returns the two counts when both copiers are done.                      *)
(* Closing a TCP connection or a WebSocket ends both directions; closing a *)
(* yamux stream ends only the direction written (half), and yamux drops    *)
(* the stream if the other direction stays open for too long after that.   *)
(***************************************************************************)
EXTENDS Naturals

CONSTANTS
    MaxSend,  \* bound: bytes a peer sends
    Window,   \* bytes an end takes before its peer has to read
    BufSize   \* io.Copy's buffer

ASSUME RelayAssumption ==
    /\ MaxSend \in Nat
    /\ Window \in Nat \ {0}
    /\ BufSize \in Nat \ {0}

Ends == {"a", "b"}
Other(e) == IF e = "a" THEN "b" ELSE "a"

VARIABLES
    half,    \* closing the end leaves its reads open (a yamux stream)
    sent,    \* bytes the peer at each end has sent
    eof,     \* the peer has ended its direction
    err,     \* the connection is dead
    rd,      \* bytes read from each end
    wr,      \* bytes written to each end
    got,     \* of those, the bytes the peer has taken
    closed,  \* Relay has closed the end
    pc,      \* the copier that reads from the end
    chunk,   \* size of the Write call it is in
    buf,     \* bytes of that call not yet written
    n        \* countingWriter.n of the writer to each end

vars == <<half, sent, eof, err, rd, wr, got, closed, pc, chunk, buf, n>>

Init ==
    /\ half \in [Ends -> BOOLEAN]
    /\ sent = [e \in Ends |-> 0]
    /\ eof = [e \in Ends |-> FALSE]
    /\ err = [e \in Ends |-> FALSE]
    /\ rd = [e \in Ends |-> 0]
    /\ wr = [e \in Ends |-> 0]
    /\ got = [e \in Ends |-> 0]
    /\ closed = [e \in Ends |-> FALSE]
    /\ pc = [e \in Ends |-> "read"]
    /\ chunk = [e \in Ends |-> 0]
    /\ buf = [e \in Ends |-> 0]
    /\ n = [e \in Ends |-> 0]

ReadClosed(e) == closed[e] /\ ~half[e]

-----------------------------------------------------------------------------
(* cp(dst, src): src is e, dst is Other(e) *)

\* src.Read returns data; what arrived before an error may still be read.
Read(e) ==
    /\ pc[e] = "read"
    /\ ~ReadClosed(e)
    /\ \E m \in 1..BufSize :
           /\ rd[e] + m <= sent[e]
           /\ rd' = [rd EXCEPT ![e] = @ + m]
           /\ chunk' = [chunk EXCEPT ![e] = m]
           /\ buf' = [buf EXCEPT ![e] = m]
    /\ pc' = [pc EXCEPT ![e] = "write"]
    /\ UNCHANGED <<half, sent, eof, err, wr, got, closed, n>>

\* Mutant: the end of the stream is seen before the data in front of it.
ReadEndEarly(e) ==
    /\ pc[e] = "read"
    /\ eof[e] \/ err[e] \/ ReadClosed(e)
    /\ pc' = [pc EXCEPT ![e] = "close"]
    /\ UNCHANGED <<half, sent, eof, err, rd, wr, got, closed, chunk, buf, n>>

\* src.Read returns io.EOF or an error: io.Copy returns.
ReadEnd(e) ==
    /\ pc[e] = "read"
    /\ (eof[e] /\ rd[e] = sent[e]) \/ err[e] \/ ReadClosed(e)
    /\ pc' = [pc EXCEPT ![e] = "close"]
    /\ UNCHANGED <<half, sent, eof, err, rd, wr, got, closed, chunk, buf, n>>

\* dst.Write makes progress; it waits while the peer does not read.
WriteByte(e) ==
    /\ pc[e] = "write"
    /\ buf[e] > 0
    /\ ~err[Other(e)]
    /\ wr[Other(e)] - got[Other(e)] < Window
    /\ wr' = [wr EXCEPT ![Other(e)] = @ + 1]
    /\ buf' = [buf EXCEPT ![e] = @ - 1]
    /\ UNCHANGED <<half, sent, eof, err, rd, got, closed, pc, chunk, n>>

\* countingWriter.Write: all is written, add it to the count.
WriteDone(e) ==
    /\ pc[e] = "write"
    /\ buf[e] = 0
    /\ n' = [n EXCEPT ![Other(e)] = @ + chunk[e]]
    /\ chunk' = [chunk EXCEPT ![e] = 0]
    /\ pc' = [pc EXCEPT ![e] = "read"]
    /\ UNCHANGED <<half, sent, eof, err, rd, wr, got, closed, buf>>

\* Mutant: the count is advanced by what was to be written.
WriteErrorCountsAll(e) ==
    /\ pc[e] = "write"
    /\ buf[e] > 0
    /\ err[Other(e)]
    /\ n' = [n EXCEPT ![Other(e)] = @ + chunk[e]]
    /\ chunk' = [chunk EXCEPT ![e] = 0]
    /\ buf' = [buf EXCEPT ![e] = 0]
    /\ pc' = [pc EXCEPT ![e] = "close"]
    /\ UNCHANGED <<half, sent, eof, err, rd, wr, got, closed>>

\* The write fails part of the way: the part is counted, io.Copy returns.
WriteError(e) ==
    /\ pc[e] = "write"
    /\ buf[e] > 0
    /\ err[Other(e)]
    /\ n' = [n EXCEPT ![Other(e)] = @ + (chunk[e] - buf[e])]
    /\ chunk' = [chunk EXCEPT ![e] = 0]
    /\ buf' = [buf EXCEPT ![e] = 0]
    /\ pc' = [pc EXCEPT ![e] = "close"]
    /\ UNCHANGED <<half, sent, eof, err, rd, wr, got, closed>>

\* Mutant: dst is wrapped in something that cannot be closed.
CloseSkipped(e) ==
    /\ pc[e] = "close"
    /\ pc' = [pc EXCEPT ![e] = "done"]
    /\ UNCHANGED <<half, sent, eof, err, rd, wr, got, closed, chunk, buf, n>>

\* dst.Close, then wg.Done.
Close(e) ==
    /\ pc[e] = "close"
    /\ closed' = [closed EXCEPT ![Other(e)] = TRUE]
    /\ pc' = [pc EXCEPT ![e] = "done"]
    /\ UNCHANGED <<half, sent, eof, err, rd, wr, got, chunk, buf, n>>

Copy(e) ==
    \/ Read(e) \/ ReadEnd(e) \/ WriteByte(e) \/ WriteDone(e) \/ WriteError(e)
    \/ Close(e)

\* Mutant: the wait is for one copier.
ReturnedEarly == \E e \in Ends : pc[e] = "done"

\* wg.Wait: Relay returns n["a"], n["b"].
Returned == \A e \in Ends : pc[e] = "done"

-----------------------------------------------------------------------------
(* The peers, the transport, and yamux's StreamCloseTimeout *)

PeerSend(e) ==
    /\ ~eof[e] /\ ~err[e] /\ ~ReadClosed(e)
    /\ sent[e] < MaxSend
    /\ sent' = [sent EXCEPT ![e] = @ + 1]
    /\ UNCHANGED <<half, eof, err, rd, wr, got, closed, pc, chunk, buf, n>>

PeerEnd(e) ==
    /\ ~eof[e] /\ ~err[e]
    /\ eof' = [eof EXCEPT ![e] = TRUE]
    /\ UNCHANGED <<half, sent, err, rd, wr, got, closed, pc, chunk, buf, n>>

PeerReceive(e) ==
    /\ got[e] < wr[e]
    /\ got' = [got EXCEPT ![e] = @ + 1]
    /\ UNCHANGED <<half, sent, eof, err, rd, wr, closed, pc, chunk, buf, n>>

Reset(e) ==
    /\ ~err[e]
    /\ err' = [err EXCEPT ![e] = TRUE]
    /\ UNCHANGED <<half, sent, eof, rd, wr, got, closed, pc, chunk, buf, n>>

\* A half-closed stream whose peer does not end its direction is dropped.
CloseTimeout(e) ==
    /\ half[e] /\ closed[e] /\ ~eof[e] /\ ~err[e]
    /\ err' = [err EXCEPT ![e] = TRUE]
    /\ UNCHANGED <<half, sent, eof, rd, wr, got, closed, pc, chunk, buf, n>>

Next ==
    \E e \in Ends :
        Copy(e) \/ PeerSend(e) \/ PeerEnd(e) \/ PeerReceive(e) \/ Reset(e) \/ CloseTimeout(e)

\* Peers are assumed to read what they are sent, never to send or to stop.
Fairness == \A e \in Ends : WF_vars(Copy(e)) /\ WF_vars(PeerReceive(e)) /\ WF_vars(CloseTimeout(e))

Spec == Init /\ [][Next]_vars
FairSpec == Spec /\ Fairness

-----------------------------------------------------------------------------
TypeOK ==
    /\ half \in [Ends -> BOOLEAN]
    /\ sent \in [Ends -> Nat]
    /\ eof \in [Ends -> BOOLEAN]
    /\ err \in [Ends -> BOOLEAN]
    /\ rd \in [Ends -> Nat]
    /\ wr \in [Ends -> Nat]
    /\ got \in [Ends -> Nat]
    /\ closed \in [Ends -> BOOLEAN]
    /\ pc \in [Ends -> {"read", "write", "close", "done"}]
    /\ chunk \in [Ends -> 0..BufSize]
    /\ buf \in [Ends -> 0..BufSize]
    /\ n \in [Ends -> Nat]

(* The counts Relay returns, which go to the audit log and the statistics,  *)
(* are the bytes written to each end, also after a write that failed part   *)
(* of the way (relay.go countingWriter.Write).                              *)
CountsExact == Returned => \A e \in Ends : n[e] = wr[e]

(* A copier stops early only for a reason: unless a connection died, all    *)
(* that the peer sent before its EOF has been written to the other end, or  *)
(* the other copier closed the whole connection.  In particular the stop of *)
(* one direction never cuts off what comes in on a yamux stream.            *)
NoSilentLoss ==
    \A e \in Ends :
        pc[e] \in {"close", "done"} /\ ~err[e] /\ ~err[Other(e)] =>
            \/ eof[e] /\ wr[Other(e)] = sent[e]
            \/ ReadClosed(e)

Pipe ==
    INSTANCE RelayPipe
        WITH passed <- [e \in Ends |-> wr[Other(e)]],
             stopped <- [e \in Ends |-> pc[e] \in {"close", "done"}],
             report <- IF Returned THEN {[e \in Ends |-> n[Other(e)]]} ELSE {}

(* Two copiers with buffers and counters of their own, and the closes by    *)
(* which they stop each other, are a pipe in each direction: what arrives   *)
(* is the first part of what was sent, a direction that has stopped stays   *)
(* so, and the totals are told when both have, as what was passed on.       *)
ImplementsPipe == Pipe!Spec

(* "until one side reaches EOF or an error": when a side ends, Relay        *)
(* returns and has closed both ends, which none of its callers closes, if   *)
(* the peers read what they are sent.                                       *)
Terminates ==
    \A e \in Ends : (eof[e] \/ err[e]) ~> (Returned /\ \A x \in Ends : closed[x])
=============================================================================
