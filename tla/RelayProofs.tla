----------------------------- MODULE RelayProofs -----------------------------
(***************************************************************************)
(* Proofs about Relay for any amount of data, window and buffer size, and  *)
(* for every pairing of ends that close fully or by halves, up to the      *)
(* refinement of RelayPipe.                                                *)
(***************************************************************************)
EXTENDS Relay, TLAPS

\* What has been written to an end is its count and the part of a Write call
\* that is not counted yet; outside a Write call nothing is pending.
Counted ==
    \A e \in Ends :
        /\ wr[Other(e)] = n[Other(e)] + chunk[e] - buf[e]
        /\ buf[e] <= chunk[e]
        /\ pc[e] # "write" => chunk[e] = 0 /\ buf[e] = 0

\* A running copier has written all it has read, but for its buffer.
InOrder ==
    \A e \in Ends :
        /\ rd[e] <= sent[e]
        /\ pc[e] \in {"read", "write"} => wr[Other(e)] + buf[e] = rd[e]

IInv == TypeOK /\ Counted /\ InOrder /\ NoSilentLoss

-----------------------------------------------------------------------------
(* The other end is an end, and the other one's other end is this one.     *)
LEMMA OtherEnd == \A e \in Ends : Other(e) \in Ends /\ Other(e) # e /\ Other(Other(e)) = e
BY DEF Ends, Other

(* When Relay starts nothing has been read or written.                     *)
LEMMA InitIInv == Init => IInv
BY OtherEnd, RelayAssumption DEF Init, IInv, TypeOK, Counted, InOrder, NoSilentLoss

(* Every step of a copier, a peer or the transport keeps the invariant.    *)
LEMMA NextIInv == IInv /\ [Next]_vars => IInv'
<1> SUFFICES ASSUME IInv, [Next]_vars PROVE IInv'
    OBVIOUS
<1> USE OtherEnd, RelayAssumption DEF IInv
<1>1. ASSUME NEW e \in Ends, Read(e) PROVE IInv'
    <2>1. TypeOK'
        BY <1>1 DEF Read, TypeOK
    <2>2. Counted'
        BY <1>1 DEF Read, TypeOK, Counted
    <2>3. InOrder'
        BY <1>1 DEF Read, TypeOK, Counted, InOrder
    <2>4. NoSilentLoss'
        BY <1>1 DEF Read, TypeOK, NoSilentLoss, ReadClosed
    <2> QED BY <2>1, <2>2, <2>3, <2>4
<1>2. ASSUME NEW e \in Ends, ReadEnd(e) PROVE IInv'
    <2>1. TypeOK' /\ Counted' /\ InOrder'
        BY <1>2 DEF ReadEnd, TypeOK, Counted, InOrder
    <2>2. buf[e] = 0 /\ wr[Other(e)] = rd[e]
        BY <1>2 DEF ReadEnd, TypeOK, Counted, InOrder
    <2>3. (eof[e] /\ wr[Other(e)] = sent[e]) \/ err[e] \/ ReadClosed(e)
        BY <1>2, <2>2 DEF ReadEnd
    <2>4. NoSilentLoss'
        BY <1>2, <2>3 DEF ReadEnd, TypeOK, NoSilentLoss, ReadClosed
    <2> QED BY <2>1, <2>4
<1>3. ASSUME NEW e \in Ends, WriteByte(e) PROVE IInv'
    <2>1. TypeOK'
        BY <1>3 DEF WriteByte, TypeOK
    <2>2. Counted' /\ InOrder'
        BY <1>3 DEF WriteByte, TypeOK, Counted, InOrder
    <2>3. NoSilentLoss'
        BY <1>3 DEF WriteByte, TypeOK, NoSilentLoss, ReadClosed
    <2> QED BY <2>1, <2>2, <2>3
<1>4. ASSUME NEW e \in Ends, WriteDone(e) PROVE IInv'
    <2>1. TypeOK'
        BY <1>4 DEF WriteDone, TypeOK
    <2>2. Counted' /\ InOrder'
        BY <1>4 DEF WriteDone, TypeOK, Counted, InOrder
    <2>3. NoSilentLoss'
        BY <1>4 DEF WriteDone, TypeOK, NoSilentLoss, ReadClosed
    <2> QED BY <2>1, <2>2, <2>3
<1>5. ASSUME NEW e \in Ends, WriteError(e) PROVE IInv'
    <2>1. TypeOK'
        BY <1>5 DEF WriteError, TypeOK, Counted
    <2>2. Counted' /\ InOrder'
        BY <1>5 DEF WriteError, TypeOK, Counted, InOrder
    <2>3. NoSilentLoss'
        BY <1>5 DEF WriteError, TypeOK, NoSilentLoss, ReadClosed
    <2> QED BY <2>1, <2>2, <2>3
<1>6. ASSUME NEW e \in Ends, Close(e) PROVE IInv'
    <2>1. TypeOK' /\ Counted' /\ InOrder'
        BY <1>6 DEF Close, TypeOK, Counted, InOrder
    <2>2. NoSilentLoss'
        BY <1>6 DEF Close, TypeOK, NoSilentLoss, ReadClosed
    <2> QED BY <2>1, <2>2
<1>7. ASSUME NEW e \in Ends, PeerSend(e) PROVE IInv'
    <2>1. TypeOK' /\ Counted' /\ InOrder'
        BY <1>7 DEF PeerSend, TypeOK, Counted, InOrder
    <2>2. NoSilentLoss'
        BY <1>7 DEF PeerSend, TypeOK, NoSilentLoss, ReadClosed
    <2> QED BY <2>1, <2>2
<1>8. ASSUME NEW e \in Ends, PeerEnd(e) PROVE IInv'
    <2>1. TypeOK' /\ Counted' /\ InOrder'
        BY <1>8 DEF PeerEnd, TypeOK, Counted, InOrder
    <2>2. NoSilentLoss'
        BY <1>8 DEF PeerEnd, TypeOK, NoSilentLoss, ReadClosed
    <2> QED BY <2>1, <2>2
<1>9. ASSUME NEW e \in Ends, PeerReceive(e) PROVE IInv'
    BY <1>9 DEF PeerReceive, TypeOK, Counted, InOrder, NoSilentLoss, ReadClosed
<1>10. ASSUME NEW e \in Ends, Reset(e) \/ CloseTimeout(e) PROVE IInv'
    <2>1. TypeOK' /\ Counted' /\ InOrder'
        BY <1>10 DEF Reset, CloseTimeout, TypeOK, Counted, InOrder
    <2>2. NoSilentLoss'
        BY <1>10 DEF Reset, CloseTimeout, TypeOK, NoSilentLoss, ReadClosed
    <2> QED BY <2>1, <2>2
<1>11. CASE UNCHANGED vars
    BY <1>11 DEF vars, TypeOK, Counted, InOrder, NoSilentLoss, ReadClosed
<1> QED
    BY <1>1, <1>2, <1>3, <1>4, <1>5, <1>6, <1>7, <1>8, <1>9, <1>10, <1>11 DEF Next, Copy

(* The inductive invariant holds in every reachable state.                 *)
THEOREM Inductive == Spec => []IInv
BY InitIInv, NextIInv, PTL DEF Spec

(* Type correctness of Relay.                                              *)
THEOREM TypeCorrect == Spec => []TypeOK
<1>1. IInv => TypeOK
    BY DEF IInv
<1> QED BY <1>1, Inductive, PTL

(* Relay returns exactly the bytes written, whatever failed.               *)
THEOREM CountsCorrect == Spec => []CountsExact
<1>1. IInv => CountsExact
    BY OtherEnd DEF IInv, TypeOK, Counted, CountsExact, Returned
<1> QED BY <1>1, Inductive, PTL

(* Relay drops nothing without a cause.                                    *)
THEOREM LossHasCause == Spec => []NoSilentLoss
<1>1. IInv => NoSilentLoss
    BY DEF IInv
<1> QED BY <1>1, Inductive, PTL

-----------------------------------------------------------------------------
(* The refinement needs to know in addition who closes an end: the copier  *)
(* that writes to it, when it is done.                                     *)
ClosedByCopier == \A e \in Ends : closed[e] => pc[Other(e)] = "done"

LEMMA ClosersNext == TypeOK /\ ClosedByCopier /\ [Next]_vars => ClosedByCopier'
<1> SUFFICES ASSUME TypeOK, ClosedByCopier, [Next]_vars PROVE ClosedByCopier'
    OBVIOUS
<1> USE OtherEnd DEF TypeOK, ClosedByCopier
<1>1. ASSUME NEW e \in Ends, Read(e) \/ ReadEnd(e) \/ WriteByte(e) \/ WriteDone(e) \/ WriteError(e)
      PROVE  ClosedByCopier'
    BY <1>1 DEF Read, ReadEnd, WriteByte, WriteDone, WriteError
<1>2. ASSUME NEW e \in Ends, Close(e) PROVE ClosedByCopier'
    BY <1>2 DEF Close
<1>3. ASSUME NEW e \in Ends,
             PeerSend(e) \/ PeerEnd(e) \/ PeerReceive(e) \/ Reset(e) \/ CloseTimeout(e)
      PROVE  ClosedByCopier'
    BY <1>3 DEF PeerSend, PeerEnd, PeerReceive, Reset, CloseTimeout
<1>4. CASE UNCHANGED vars
    BY <1>4 DEF vars
<1> QED BY <1>1, <1>2, <1>3, <1>4 DEF Next, Copy

\* What the pipe shows of the relay.
Passed == [e \in Ends |-> wr[Other(e)]]
Stopped == [e \in Ends |-> pc[e] \in {"close", "done"}]
Report == IF Returned THEN {[e \in Ends |-> n[Other(e)]]} ELSE {}

(* Where no copier moves on, Relay returns no more and no less than before.*)
LEMMA NotReturned ==
    ASSUME TypeOK, pc' = pc, n' = n
    PROVE  Stopped' = Stopped /\ Report' = Report
BY DEF Stopped, Report, Returned

(* A copier at work means that Relay has not returned.                     *)
LEMMA StillWorking ==
    ASSUME TypeOK, NEW e \in Ends, pc[e] # "done", pc'[e] # "done"
    PROVE  Report = {} /\ Report' = {}
BY DEF Report, Returned

(* Each step of a copier, a peer or the transport is a step of the pipe or *)
(* changes nothing in it.                                                  *)
LEMMA PipeNext == IInv /\ ClosedByCopier /\ [Next]_vars => [Pipe!Next]_(Pipe!vars)
<1> SUFFICES ASSUME IInv, ClosedByCopier, [Next]_vars PROVE [Pipe!Next]_(Pipe!vars)
    OBVIOUS
<1> USE OtherEnd DEF IInv
<1>1. ASSUME NEW e \in Ends, Read(e) \/ WriteDone(e) PROVE UNCHANGED Pipe!vars
    <2>1. Passed' = Passed /\ UNCHANGED <<half, sent, eof, err>>
        BY <1>1 DEF Read, WriteDone, Passed
    <2>2. Stopped' = Stopped /\ pc[e] # "done" /\ pc'[e] # "done"
        BY <1>1 DEF Read, WriteDone, Stopped, TypeOK
    <2> QED BY <2>1, <2>2, StillWorking DEF Pipe!vars, Passed, Stopped, Report
<1>2. ASSUME NEW e \in Ends, ReadEnd(e) \/ WriteError(e) PROVE Pipe!Stop(e)
    <2>1. Passed' = Passed /\ UNCHANGED <<half, sent, eof, err>>
        BY <1>2 DEF ReadEnd, WriteError, Passed
    <2>2. ~Stopped[e] /\ Stopped' = [Stopped EXCEPT ![e] = TRUE] /\ pc[e] # "done" /\ pc'[e] # "done"
        BY <1>2 DEF ReadEnd, WriteError, Stopped, TypeOK
    <2>3. \/ eof[e] /\ Passed[e] = sent[e]
          \/ err[e] \/ err[Other(e)]
          \/ Stopped[Other(e)] /\ ~half[e]
        <3>1. CASE ReadEnd(e)
            <4>1. Passed[e] = rd[e]
                <5>1. buf[e] = 0 /\ wr[Other(e)] = rd[e]
                    BY <3>1 DEF ReadEnd, TypeOK, InOrder, Counted
                <5> QED BY <5>1 DEF Passed
            <4>2. ReadClosed(e) => Stopped[Other(e)] /\ ~half[e]
                BY DEF ReadClosed, ClosedByCopier, Stopped
            <4> QED BY <3>1, <4>1, <4>2 DEF ReadEnd
        <3>2. CASE WriteError(e)
            BY <3>2 DEF WriteError
        <3> QED BY <1>2, <3>1, <3>2
    <2> QED BY <2>1, <2>2, <2>3, StillWorking DEF Pipe!Stop, Passed, Stopped, Report
<1>3. ASSUME NEW e \in Ends, WriteByte(e) PROVE Pipe!Pass(e)
    <2>1. /\ Passed' = [Passed EXCEPT ![e] = @ + 1]
          /\ UNCHANGED <<half, sent, eof, err>> /\ ~err[Other(e)]
        <3>1. \A x \in Ends : wr'[Other(x)] = IF x = e THEN wr[Other(x)] + 1 ELSE wr[Other(x)]
            <4>1. \A x \in Ends : Other(x) = Other(e) => x = e
                OBVIOUS
            <4> QED BY <1>3, <4>1 DEF WriteByte, TypeOK
        <3>2. Passed' = [x \in Ends |-> IF x = e THEN wr[Other(x)] + 1 ELSE wr[Other(x)]]
            BY <3>1 DEF Passed
        <3> QED BY <1>3, <3>2 DEF WriteByte, Passed
    <2>2. Passed[e] < sent[e]
        BY <1>3 DEF WriteByte, TypeOK, InOrder, Passed
    <2>3. ~Stopped[e] /\ pc' = pc /\ n' = n
        BY <1>3 DEF WriteByte, Stopped
    <2> QED BY <2>1, <2>2, <2>3, NotReturned DEF Pipe!Pass, Passed, Stopped, Report
<1>4. ASSUME NEW e \in Ends, Close(e) PROVE Pipe!Tell \/ UNCHANGED Pipe!vars
    <2>1. UNCHANGED <<half, sent, eof, err, wr, n>> /\ pc[e] = "close" /\ pc' = [pc EXCEPT ![e] = "done"]
        BY <1>4 DEF Close
    <2>2. Passed' = Passed /\ Stopped' = Stopped /\ Report = {}
        BY <2>1 DEF Passed, Stopped, TypeOK, Report, Returned
    <2>3. CASE Returned'
        <3>1. \A x \in Ends : Stopped[x] /\ pc'[x] = "done"
            BY <2>2, <2>3 DEF Returned, Stopped
        <3>2. \A x \in Ends : pc[x] # "write"
            BY <3>1 DEF Stopped
        <3>3. \A x \in Ends : n[Other(x)] = wr[Other(x)]
            BY <3>2 DEF Counted, TypeOK
        <3>4. Report' = {Passed}
            BY <2>1, <2>3, <3>3 DEF Report, Passed
        <3> QED BY <2>1, <2>2, <3>1, <3>4 DEF Pipe!Tell, Passed, Stopped, Report
    <2>4. CASE ~Returned'
        <3>1. Report' = Report
            BY <2>2, <2>4 DEF Report
        <3> QED BY <2>1, <2>2, <3>1 DEF Pipe!vars, Passed, Stopped, Report
    <2> QED BY <2>3, <2>4
<1>5. ASSUME NEW e \in Ends,
             PeerSend(e) \/ PeerEnd(e) \/ PeerReceive(e) \/ Reset(e) \/ CloseTimeout(e)
      PROVE  Pipe!Send(e) \/ Pipe!End(e) \/ Pipe!Die(e) \/ UNCHANGED Pipe!vars
    <2>1. UNCHANGED <<pc, n, wr>>
        BY <1>5 DEF PeerSend, PeerEnd, PeerReceive, Reset, CloseTimeout
    <2>2. Passed' = Passed /\ Stopped' = Stopped /\ Report' = Report
        BY <2>1, NotReturned DEF Passed
    <2> QED BY <1>5, <2>2 DEF PeerSend, PeerEnd, PeerReceive, Reset, CloseTimeout, Pipe!Send, Pipe!End,
                              Pipe!Die, Pipe!vars, Passed, Stopped, Report
<1>6. CASE UNCHANGED vars
    <2>1. Passed' = Passed /\ Stopped' = Stopped /\ Report' = Report
        BY <1>6, NotReturned DEF vars, Passed
    <2> QED BY <1>6, <2>1 DEF vars, Pipe!vars, Passed, Stopped, Report
<1> QED BY <1>1, <1>2, <1>3, <1>4, <1>5, <1>6 DEF Next, Copy, Pipe!Next

(* ImplementsPipe for any amount of data, window and buffer size and every *)
(* pairing of ends: Relay passes on a first part of each direction, stops  *)
(* a direction for good and for a cause, and tells the totals once         *)
(* (relay.go Relay, countingWriter.Write).                                 *)
THEOREM RelayIsPipe == Spec => ImplementsPipe
<1>1. Init => Pipe!Init
    <2> SUFFICES ASSUME Init PROVE Pipe!Init
        OBVIOUS
    <2>1. Passed = [e \in Ends |-> 0]
        BY OtherEnd DEF Init, Passed
    <2>2. Stopped = [e \in Ends |-> FALSE]
        <3>1. \A e \in Ends : (pc[e] \in {"close", "done"}) = FALSE
            BY DEF Init
        <3> QED BY <3>1, Zenon DEF Stopped
    <2>3. Report = {}
        BY DEF Init, Report, Returned, Ends
    <2> QED BY <2>1, <2>2, <2>3 DEF Init, Pipe!Init, Passed, Stopped, Report
<1>2. Init => ClosedByCopier
    BY DEF Init, ClosedByCopier
<1>3. Spec => []ClosedByCopier
    <2>1. IInv => TypeOK
        BY DEF IInv
    <2> QED BY <1>2, <2>1, ClosersNext, Inductive, PTL DEF Spec
<1> QED BY <1>1, <1>3, PipeNext, Inductive, PTL DEF Spec, ImplementsPipe, Pipe!Spec
=============================================================================
