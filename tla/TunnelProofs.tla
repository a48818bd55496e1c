----------------------------- MODULE TunnelProofs -----------------------------
(***************************************************************************)
(* Proofs about MuxServer for any number of sessions, streams, reverse     *)
(* ports and connections and for clients that send anything at any time,   *)
(* and about Tunnel, where the client is the one of the repository.  That  *)
(* client is one of the arbitrary clients of MuxServer, so that what is    *)
(* shown of the server first holds in the composition too.                 *)
(***************************************************************************)
EXTENDS Tunnel, TLAPS

-----------------------------------------------------------------------------
(* The server and an arbitrary client *)

\* A handler is at a header exactly while it holds a stream.
HeaderHoldsStream == \A i \in Sessions : hpc[i] = "header" <=> cur[i] # None

\* A session that does not exist yet has no handler.
Unserved == \A i \in Sessions : sess[i] = "none" => hpc[i] = "none"

IInv ==
    TypeOK /\ HeaderHoldsStream /\ Unserved /\ ListenersOwned /\ StreamsOnce

-----------------------------------------------------------------------------
(* No session is served and no port bound at the start.                    *)
LEMMA InitIInv == Init => IInv
<1> SUFFICES ASSUME Init PROVE IInv
    OBVIOUS
<1>1. TypeOK
    BY MuxServerAssumption DEF Init, TypeOK, NoHeader
<1>2. HeaderHoldsStream /\ Unserved /\ ListenersOwned /\ StreamsOnce
    BY DEF Init, HeaderHoldsStream, Unserved, ListenersOwned, StreamsOnce
<1> QED BY <1>1, <1>2 DEF IInv

(* A stream at a header is a stream, and reads as one.                     *)
LEMMA AtHeader ==
    ASSUME IInv, NEW i \in Sessions, hpc[i] = "header"
    PROVE  /\ cur[i] \in Streams
           /\ st[cur[i]] = "reading"
           /\ hdr[cur[i]].cmd = "bind" => hdr[cur[i]].addr \in Ports
<1>1. cur[i] \in Streams /\ st[cur[i]] = "reading"
    BY DEF IInv, TypeOK, HeaderHoldsStream, StreamsOnce
<1>2. hdr[cur[i]] \in Headers \cup {NoHeader}
    BY <1>1 DEF IInv, TypeOK
<1>3. ASSUME NEW h \in Headers \cup {NoHeader}, h.cmd = "bind" PROVE h.addr \in Ports
    BY <1>3 DEF Headers, NoHeader
<1> QED BY <1>1, <1>2, <1>3

(* Going on with the next stream keeps what does not concern ports.        *)
LEMMA NextStreamKeeps ==
    ASSUME IInv, NEW i \in Sessions, hpc[i] = "header",
           NEW x \in {"dialing", "bound", "closed"}, NextStream(i, x)
    PROVE  /\ sess' \in [Sessions -> {"none", "up", "closed"}]
           /\ hpc' \in [Sessions -> {"none", "accept", "header", "closing", "done"}]
           /\ backlog' \in [Sessions -> Seq(Streams)]
           /\ cur' \in [Sessions -> Streams \cup {None}]
           /\ hdr' \in [Streams -> Headers \cup {NoHeader}]
           /\ st' \in [Streams -> {"new", "queued", "reading", "dialing", "relaying", "bound",
                                   "closed"}]
           /\ rconn' = rconn
           /\ HeaderHoldsStream' /\ Unserved' /\ StreamsOnce'
<1> USE AtHeader, MuxServerAssumption
<1>1. HeaderHoldsStream' /\ Unserved'
    BY DEF NextStream, IInv, TypeOK, HeaderHoldsStream, Unserved
<1>2. StreamsOnce'
    BY DEF NextStream, IInv, TypeOK, StreamsOnce
<1> QED BY <1>1, <1>2 DEF NextStream, IInv, TypeOK

(* A step that touches neither streams nor handlers keeps StreamsOnce and  *)
(* the facts about handlers.                                               *)
LEMMA StreamsUntouched ==
    ASSUME IInv, UNCHANGED <<hpc, backlog, cur, st>>
    PROVE  HeaderHoldsStream' /\ StreamsOnce'
BY DEF IInv, HeaderHoldsStream, StreamsOnce

(* A step that touches neither ports nor handlers keeps ListenersOwned.    *)
LEMMA PortsUntouched ==
    ASSUME IInv, UNCHANGED <<hpc, owner, listeners>>
    PROVE  ListenersOwned'
BY DEF IInv, ListenersOwned

(* Taking the first stream of an accept queue leaves the queues in order.  *)
LEMMA PopBacklog ==
    ASSUME IInv, NEW i \in Sessions, backlog[i] # <<>>,
           NEW x \in {"reading", "closed"},
           st' = [st EXCEPT ![Head(backlog[i])] = x],
           backlog' = [backlog EXCEPT ![i] = Tail(@)]
    PROVE  /\ Head(backlog[i]) \in Streams
           /\ st[Head(backlog[i])] = "queued"
           /\ backlog' \in [Sessions -> Seq(Streams)]
           /\ \A j \in Sessions : \A n \in 1..Len(backlog'[j]) : st'[backlog'[j][n]] = "queued"
           /\ \A j, l \in Sessions : \A m \in 1..Len(backlog'[j]), n \in 1..Len(backlog'[l]) :
                  backlog'[j][m] = backlog'[l][n] => j = l /\ m = n
<1> DEFINE s == Head(backlog[i])
<1>1. /\ backlog[i] \in Seq(Streams)
      /\ s \in Streams /\ Len(backlog[i]) \in Nat /\ Len(backlog[i]) >= 1 /\ s = backlog[i][1]
      /\ Tail(backlog[i]) \in Seq(Streams)
      /\ Len(Tail(backlog[i])) = Len(backlog[i]) - 1
      /\ \A n \in 1..Len(Tail(backlog[i])) : Tail(backlog[i])[n] = backlog[i][n + 1]
    BY DEF IInv, TypeOK
<1>2. st[s] = "queued"
    BY <1>1 DEF IInv, StreamsOnce
<1>3. backlog' \in [Sessions -> Seq(Streams)]
    BY <1>1 DEF IInv, TypeOK
<1> DEFINE Old(j, n) == IF j = i THEN n + 1 ELSE n
<1>4. ASSUME NEW j \in Sessions, NEW n \in 1..Len(backlog'[j])
      PROVE  /\ Old(j, n) \in 1..Len(backlog[j])
             /\ backlog'[j][n] = backlog[j][Old(j, n)]
             /\ backlog'[j][n] \in Streams
             /\ backlog'[j][n] # s
    <2>1. Old(j, n) \in 1..Len(backlog[j]) /\ backlog'[j][n] = backlog[j][Old(j, n)]
        BY <1>1 DEF IInv, TypeOK
    <2>2. backlog[j][Old(j, n)] \in Streams
        BY <2>1 DEF IInv, TypeOK
    <2>3. j = i => Old(j, n) # 1
        BY <1>1, <1>3
    <2>4. backlog[j][Old(j, n)] # backlog[i][1]
        BY <1>1, <2>1, <2>3 DEF IInv, StreamsOnce
    <2> QED BY <1>1, <2>1, <2>2, <2>4
<1>5. ASSUME NEW j \in Sessions, NEW n \in 1..Len(backlog'[j])
      PROVE  st'[backlog'[j][n]] = "queued"
    <2>1. st[backlog'[j][n]] = "queued"
        BY <1>4 DEF IInv, StreamsOnce
    <2> QED BY <1>4, <2>1 DEF IInv, TypeOK
<1>6. ASSUME NEW j \in Sessions, NEW l \in Sessions,
             NEW m \in 1..Len(backlog'[j]), NEW n \in 1..Len(backlog'[l]),
             backlog'[j][m] = backlog'[l][n]
      PROVE  j = l /\ m = n
    <2>1. j = l /\ Old(j, m) = Old(l, n)
        BY <1>4, <1>6 DEF IInv, StreamsOnce
    <2> QED BY <1>3, <2>1
<1> QED BY <1>1, <1>2, <1>3, <1>5, <1>6

(* The steps of a handler keep the invariant.                              *)
LEMMA HandlerIInv == ASSUME IInv, NEW i \in Sessions, Handler(i) PROVE IInv'
<1> USE MuxServerAssumption DEF IInv
<1>1. CASE AcceptStream(i)
    <2>1. backlog[i] # <<>> /\ cur[i] = None
        BY <1>1 DEF AcceptStream, HeaderHoldsStream
    <2>2. TypeOK' /\ HeaderHoldsStream' /\ Unserved' /\ ListenersOwned'
        BY <1>1, <2>1, PopBacklog
           DEF AcceptStream, TypeOK, HeaderHoldsStream, Unserved, ListenersOwned
    <2>3. \A j \in Sessions : cur'[j] # None => st'[cur'[j]] = "reading"
        BY <1>1, <2>1, PopBacklog DEF AcceptStream, TypeOK, StreamsOnce
    <2>4. \A j, l \in Sessions : cur'[j] = cur'[l] /\ cur'[j] # None => j = l
        <3>1. st[Head(backlog[i])] = "queued"
            BY <1>1, <2>1, PopBacklog DEF AcceptStream
        <3>2. \A j \in Sessions : cur[j] # None => cur[j] # Head(backlog[i])
            BY <3>1 DEF StreamsOnce
        <3>3. \A j \in Sessions : cur'[j] = IF j = i THEN Head(backlog[i]) ELSE cur[j]
            BY <1>1 DEF AcceptStream, TypeOK
        <3> QED BY <3>2, <3>3 DEF StreamsOnce
    <2>5. StreamsOnce'
        BY <1>1, <2>1, <2>3, <2>4, PopBacklog DEF AcceptStream, StreamsOnce
    <2> QED BY <2>2, <2>5
<1>2. CASE AcceptAckError(i)
    <2>1. backlog[i] # <<>> /\ cur[i] = None
        BY <1>2 DEF AcceptAckError, HeaderHoldsStream
    <2>2. TypeOK' /\ HeaderHoldsStream' /\ Unserved' /\ ListenersOwned'
        BY <1>2, <2>1, PopBacklog
           DEF AcceptAckError, TypeOK, HeaderHoldsStream, Unserved, ListenersOwned
    <2>3. \A j \in Sessions : cur'[j] # None => st'[cur'[j]] = "reading"
        <3>1. st[Head(backlog[i])] = "queued"
            BY <1>2, <2>1, PopBacklog DEF AcceptAckError
        <3>2. \A j \in Sessions : cur[j] # None => cur[j] \in Streams /\ cur[j] # Head(backlog[i])
            BY <3>1 DEF TypeOK, StreamsOnce
        <3> QED BY <1>2, <3>2 DEF AcceptAckError, TypeOK, StreamsOnce
    <2>4. \A j, l \in Sessions : cur'[j] = cur'[l] /\ cur'[j] # None => j = l
        BY <1>2 DEF AcceptAckError, StreamsOnce
    <2>5. StreamsOnce'
        BY <1>2, <2>1, <2>3, <2>4, PopBacklog DEF AcceptAckError, StreamsOnce
    <2> QED BY <2>2, <2>5
<1>3. CASE HeaderError(i) \/ HeaderBindRefused(i) \/ HeaderUnknown(i)
    <2>1. hpc[i] = "header" /\ NextStream(i, "closed") /\ UNCHANGED <<owner, listeners>>
        BY <1>3 DEF HeaderError, HeaderBindRefused, HeaderUnknown
    <2>2. ListenersOwned'
        BY <2>1 DEF NextStream, TypeOK, ListenersOwned
    <2> QED BY <2>1, <2>2, NextStreamKeeps DEF TypeOK
<1>4. CASE HeaderConnect(i)
    <2>1. hpc[i] = "header" /\ NextStream(i, "dialing") /\ UNCHANGED <<owner, listeners>>
        BY <1>4 DEF HeaderConnect
    <2>2. ListenersOwned'
        BY <2>1 DEF NextStream, TypeOK, ListenersOwned
    <2> QED BY <2>1, <2>2, NextStreamKeeps DEF TypeOK
<1>5. CASE HeaderBind(i)
    <2>1. hpc[i] = "header" /\ NextStream(i, "bound") /\ hdr[cur[i]].addr \in Ports
        BY <1>5, AtHeader DEF HeaderBind
    <2>2. owner' \in [Ports -> Sessions \cup {None}] /\ listeners' \in [Sessions -> SUBSET Ports]
        BY <1>5, <2>1 DEF HeaderBind, TypeOK
    <2>3. ListenersOwned'
        BY <1>5, <2>1 DEF HeaderBind, NextStream, TypeOK, ListenersOwned
    <2> QED BY <2>1, <2>2, <2>3, NextStreamKeeps DEF TypeOK
<1>6. CASE AcceptError(i)
    BY <1>6 DEF AcceptError, TypeOK, HeaderHoldsStream, Unserved, ListenersOwned, StreamsOnce
<1>7. CASE Finish(i)
    BY <1>7 DEF Finish, TypeOK, HeaderHoldsStream, Unserved, ListenersOwned, StreamsOnce
<1>8. ASSUME NEW p \in Ports, CloseListener(i, p) PROVE IInv'
    <2>1. TypeOK' /\ Unserved'
        BY <1>8 DEF CloseListener, TypeOK, Unserved
    <2>2. ListenersOwned'
        BY <1>8 DEF CloseListener, TypeOK, ListenersOwned
    <2>3. HeaderHoldsStream' /\ StreamsOnce'
        BY <1>8, StreamsUntouched DEF CloseListener
    <2> QED BY <2>1, <2>2, <2>3
<1> QED BY <1>1, <1>2, <1>3, <1>4, <1>5, <1>6, <1>7, <1>8 DEF Handler

(* The steps of a goroutine that serves a CmdConnect stream keep it.       *)
LEMMA ConnectIInv == ASSUME IInv, NEW s \in Streams, Connect(s) PROVE IInv'
<1>1. /\ st[s] \in {"dialing", "relaying"}
      /\ \E x \in {"relaying", "closed"} : st' = [st EXCEPT ![s] = x]
      /\ UNCHANGED <<sess, hpc, backlog, cur, hdr, owner, listeners, rconn>>
    BY DEF Connect, ConnectFail, ConnectOK, ConnectEnd
<1>2. TypeOK' /\ HeaderHoldsStream' /\ Unserved' /\ ListenersOwned'
    BY <1>1 DEF IInv, TypeOK, HeaderHoldsStream, Unserved, ListenersOwned
<1>3. StreamsOnce'
    BY <1>1 DEF IInv, TypeOK, StreamsOnce
<1> QED BY <1>2, <1>3 DEF IInv

(* So do the accept loops of reverse listeners and their connections.      *)
LEMMA ReverseIInv ==
    ASSUME IInv,
           \/ \E p \in Ports : ReverseAcceptError(p) \/ \E c \in RConns : ReverseAccept(p, c)
           \/ \E c \in RConns : ReverseConn(c)
    PROVE  IInv'
<1> USE MuxServerAssumption DEF IInv
<1>1. ASSUME NEW p \in Ports, ReverseAcceptError(p) PROVE IInv'
    <2>1. TypeOK' /\ Unserved' /\ ListenersOwned'
        BY <1>1 DEF ReverseAcceptError, TypeOK, Unserved, ListenersOwned
    <2> QED BY <1>1, <2>1, StreamsUntouched DEF ReverseAcceptError
<1>2. ASSUME NEW p \in Ports, NEW c \in RConns, ReverseAccept(p, c) PROVE IInv'
    <2>1. TypeOK' /\ Unserved'
        BY <1>2 DEF ReverseAccept, TypeOK, Unserved
    <2> QED BY <1>2, <2>1, StreamsUntouched, PortsUntouched DEF ReverseAccept
<1>3. ASSUME NEW c \in RConns, ReverseConn(c) PROVE IInv'
    <2>1. /\ rconn[c].st # "new"
          /\ \E x \in {"opened", "relaying", "closed"} : rconn' = [rconn EXCEPT ![c].st = x]
          /\ UNCHANGED <<sess, hpc, backlog, cur, hdr, st, owner, listeners>>
        BY <1>3 DEF ReverseConn, ReverseOpen, ReverseOpenError, ReverseHeader, ReverseHeaderError,
                    ReverseEnd, SetConn
    <2>2. PICK x \in {"opened", "relaying", "closed"} : rconn' = [rconn EXCEPT ![c].st = x]
        BY <2>1
    <2> DEFINE R == [st : {"new", "accepted", "opened", "relaying", "closed"},
                     port : Ports \cup {None}, sess : Sessions \cup {None}]
    <2>3. rconn' \in [RConns -> R]
        <3>1. rconn \in [RConns -> R]
            BY DEF TypeOK
        <3>2. \A r \in R : [r EXCEPT !.st = x] \in R
            OBVIOUS
        <3> HIDE DEF R
        <3> QED BY <2>2, <3>1, <3>2
    <2>4. TypeOK' /\ Unserved'
        BY <2>1, <2>3 DEF TypeOK, Unserved
    <2> QED BY <2>1, <2>4, StreamsUntouched, PortsUntouched
<1> QED BY <1>1, <1>2, <1>3

(* And so does whatever a client or the transport does.                    *)
LEMMA ClientsIInv == ASSUME IInv, Clients PROVE IInv'
<1> USE MuxServerAssumption DEF IInv
<1>1. ASSUME NEW i \in Sessions, SessionLost(i) PROVE IInv'
    <2>1. TypeOK' /\ Unserved'
        BY <1>1 DEF SessionLost, TypeOK, Unserved
    <2> QED BY <1>1, <2>1, StreamsUntouched, PortsUntouched DEF SessionLost
<1>2. ASSUME NEW i \in Sessions, Upgrade(i) PROVE IInv'
    <2>1. TypeOK' /\ Unserved'
        BY <1>2 DEF Upgrade, TypeOK, Unserved
    <2>2. ListenersOwned'
        BY <1>2 DEF Upgrade, TypeOK, ListenersOwned
    <2>3. HeaderHoldsStream'
        BY <1>2 DEF Upgrade, TypeOK, HeaderHoldsStream, Unserved
    <2>4. StreamsOnce'
        BY <1>2 DEF Upgrade, StreamsOnce
    <2> QED BY <2>1, <2>2, <2>3, <2>4
<1>3. ASSUME NEW s \in Streams, NEW h \in Headers, ClientHeader(s, h) PROVE IInv'
    <2>1. TypeOK' /\ Unserved'
        BY <1>3 DEF ClientHeader, TypeOK, Unserved
    <2> QED BY <1>3, <2>1, StreamsUntouched, PortsUntouched DEF ClientHeader
<1>4. ASSUME NEW s \in Streams, NEW i \in Sessions, ClientOpen(s, i) PROVE IInv'
    <2>1. TypeOK' /\ HeaderHoldsStream' /\ Unserved' /\ ListenersOwned'
        BY <1>4 DEF ClientOpen, TypeOK, HeaderHoldsStream, Unserved, ListenersOwned
    <2>2. StreamsOnce'
        <3>1. /\ Len(Append(backlog[i], s)) = Len(backlog[i]) + 1
              /\ \A n \in 1..Len(backlog[i]) : Append(backlog[i], s)[n] = backlog[i][n]
              /\ Append(backlog[i], s)[Len(backlog[i]) + 1] = s
              /\ Len(backlog[i]) \in Nat
            BY DEF TypeOK
        <3>2. \A j \in Sessions : \A n \in 1..Len(backlog'[j]) :
                  \/ n \in 1..Len(backlog[j]) /\ backlog'[j][n] = backlog[j][n]
                  \/ j = i /\ n = Len(backlog[i]) + 1 /\ backlog'[j][n] = s
            BY <1>4, <3>1 DEF ClientOpen, TypeOK
        <3>3. \A j \in Sessions : \A n \in 1..Len(backlog[j]) :
                  backlog[j][n] # s /\ backlog[j][n] \in Streams
            BY <1>4 DEF ClientOpen, TypeOK, StreamsOnce
        <3>4. \A j \in Sessions : cur'[j] # None => st'[cur'[j]] = "reading"
            BY <1>4 DEF ClientOpen, TypeOK, StreamsOnce
        <3>5. \A j, l \in Sessions : cur'[j] = cur'[l] /\ cur'[j] # None => j = l
            BY <1>4 DEF ClientOpen, StreamsOnce
        <3>6. \A j \in Sessions : \A n \in 1..Len(backlog'[j]) : st'[backlog'[j][n]] = "queued"
            BY <1>4, <3>2, <3>3 DEF ClientOpen, TypeOK, StreamsOnce
        <3>7. \A j, l \in Sessions : \A m \in 1..Len(backlog'[j]), n \in 1..Len(backlog'[l]) :
                  backlog'[j][m] = backlog'[l][n] => j = l /\ m = n
            BY <3>2, <3>3 DEF StreamsOnce
        <3> QED BY <3>4, <3>5, <3>6, <3>7 DEF StreamsOnce
    <2> QED BY <2>1, <2>2
<1>5. ASSUME NEW s \in Streams, ClientOpenLost(s) PROVE IInv'
    <2>1. TypeOK' /\ HeaderHoldsStream' /\ Unserved' /\ ListenersOwned'
        BY <1>5 DEF ClientOpenLost, TypeOK, HeaderHoldsStream, Unserved, ListenersOwned
    <2>2. StreamsOnce'
        BY <1>5 DEF ClientOpenLost, TypeOK, StreamsOnce
    <2> QED BY <2>1, <2>2
<1> QED BY <1>1, <1>2, <1>3, <1>4, <1>5 DEF Clients

(* Every step keeps the invariant.                                         *)
LEMMA NextIInv == IInv /\ [Next]_vars => IInv'
<1> SUFFICES ASSUME IInv, [Next]_vars PROVE IInv'
    OBVIOUS
<1>1. CASE UNCHANGED vars
    BY <1>1 DEF vars, IInv, TypeOK, HeaderHoldsStream, Unserved, ListenersOwned, StreamsOnce
<1>2. CASE Server
    BY <1>2, HandlerIInv, ConnectIInv, ReverseIInv DEF Server
<1>3. CASE Clients
    BY <1>3, ClientsIInv
<1> QED BY <1>1, <1>2, <1>3 DEF Next

(* The inductive invariant holds in every reachable state.                 *)
THEOREM Inductive == Spec => []IInv
BY InitIInv, NextIInv, PTL DEF Spec

(* Type correctness of the server's mux sessions.                          *)
THEOREM TypeCorrect == Spec => []TypeOK
<1>1. IInv => TypeOK
    BY DEF IInv
<1> QED BY <1>1, Inductive, PTL

(* No reverse listener outlives the handler that opened it.                *)
THEOREM ListenersBelong == Spec => []ListenersOwned
<1>1. IInv => ListenersOwned
    BY DEF IInv
<1> QED BY <1>1, Inductive, PTL

(* Every stream is handled once.                                           *)
THEOREM StreamsHandledOnce == Spec => []StreamsOnce
<1>1. IInv => StreamsOnce
    BY DEF IInv
<1> QED BY <1>1, Inductive, PTL

-----------------------------------------------------------------------------
(* Ports as a lease *)

\* What the variables of PortLease stand for.
Stage == [i \in Sessions |-> IF hpc[i] = "header" THEN "accept" ELSE hpc[i]]
Wants == [i \in Sessions |-> Wanted(i)]
Served(c) == IF rconn[c].st = "opened" THEN [rconn[c] EXCEPT !.st = "accepted"] ELSE rconn[c]
Conns == [c \in RConns |-> Served(c)]

ConnRecords == [st : {"new", "accepted", "opened", "relaying", "closed"},
                port : Ports \cup {None}, sess : Sessions \cup {None}]

\* The same, of a record.
AsServed(x) == IF x.st = "opened" THEN [st |-> "accepted", port |-> x.port, sess |-> x.sess] ELSE x

LEMMA RecordOf ==
    ASSUME NEW x \in ConnRecords
    PROVE  /\ x = [st |-> x.st, port |-> x.port, sess |-> x.sess]
           /\ \A y : [x EXCEPT !.st = y] = [st |-> y, port |-> x.port, sess |-> x.sess]
           /\ x.st \in {"new", "accepted", "opened", "relaying", "closed"}
BY DEF ConnRecords

(* Nothing is asked or moved while handlers and headers stay.              *)
LEMMA StageStays ==
    ASSUME UNCHANGED <<hpc, cur, hdr>>
    PROVE  Stage' = Stage /\ Wants' = Wants
BY DEF Stage, Wants, Wanted

LEMMA ConnsStay ==
    ASSUME rconn' = rconn
    PROVE  Conns' = Conns
BY DEF Conns, Served

(* A step of one handler moves that session only.                          *)
LEMMA StageMoves ==
    ASSUME TypeOK, NEW i \in Sessions, UNCHANGED <<hdr, rconn>>,
           \A j \in Sessions : j # i => hpc'[j] = hpc[j] /\ cur'[j] = cur[j]
    PROVE  /\ Stage' = [Stage EXCEPT ![i] = IF hpc'[i] = "header" THEN "accept" ELSE hpc'[i]]
           /\ Wants' = [Wants EXCEPT ![i] = Wants'[i]]
           /\ Conns' = Conns
<1>1. \A j \in Sessions : j # i => Wanted(j)' = Wanted(j)
    BY DEF Wanted
<1> QED BY <1>1, ConnsStay DEF Stage, Wants

(* The handler at a header whose command is not a bind has been asked for  *)
(* nothing; one at a bind, for a port.                                     *)
LEMMA WantedAt ==
    ASSUME IInv, NEW i \in Sessions
    PROVE  /\ hpc[i] # "header" => Wants[i] = {}
           /\ hpc[i] = "header" /\ hdr[cur[i]].cmd # "bind" => Wants[i] = {}
           /\ hpc[i] = "header" /\ hdr[cur[i]].cmd = "bind" =>
                  Wants[i] = {hdr[cur[i]].addr} /\ hdr[cur[i]].addr \in Ports
BY AtHeader DEF Wants, Wanted

LEMMA LeaseOf ==
    ASSUME Stage' = Stage, Wants' = Wants, owner' = owner, Conns' = Conns
    PROVE  UNCHANGED Lease!vars
BY DEF Lease!vars, Stage, Wants, Conns, Served

(* Each step of a handler is one of the lease or concerns no port.         *)
LEMMA HandlerLeases ==
    ASSUME IInv, IInv', NEW i \in Sessions, Handler(i)
    PROVE  Lease!Next \/ UNCHANGED Lease!vars
<1> USE DEF IInv
<1>1. TypeOK /\ TypeOK' /\ None \notin Sessions
    BY MuxServerAssumption
<1>2. CASE AcceptStream(i)
    <2>1. /\ hpc[i] = "accept" /\ hpc'[i] = "header" /\ UNCHANGED <<hdr, rconn, owner>>
          /\ \A j \in Sessions : j # i => hpc'[j] = hpc[j] /\ cur'[j] = cur[j]
        BY <1>1, <1>2 DEF AcceptStream, TypeOK
    <2>2. Stage' = Stage /\ Wants' = [Wants EXCEPT ![i] = Wants'[i]] /\ Conns' = Conns
        BY <1>1, <2>1, StageMoves DEF Stage
    <2>3. Wants[i] = {} /\ Stage[i] = "accept"
        BY <2>1, WantedAt DEF Stage
    <2>4. Wants'[i] = {} \/ \E p \in Ports : Wants'[i] = {p}
        <3>1. cur'[i] \in Streams
            BY <1>1, <2>1 DEF HeaderHoldsStream, TypeOK
        <3>2. hdr'[cur'[i]] \in Headers \cup {NoHeader}
            BY <1>1, <3>1 DEF TypeOK
        <3>3. \A h \in Headers \cup {NoHeader} : h.cmd = "bind" => h.addr \in Ports
            BY DEF Headers, NoHeader
        <3> QED BY <2>1, <3>2, <3>3 DEF Wants, Wanted
    <2>5. CASE Wants'[i] = {}
        <3>1. Wants' = Wants
            BY <2>2, <2>3, <2>5 DEF Wants
        <3> QED BY <2>1, <2>2, <3>1, LeaseOf
    <2>6. ASSUME NEW p \in Ports, Wants'[i] = {p}
          PROVE  Lease!Ask(i, p)
        BY <2>1, <2>2, <2>3, <2>6 DEF Lease!Ask, Stage, Wants, Conns, Served
    <2> QED BY <2>4, <2>5, <2>6 DEF Lease!Next
<1>3. ASSUME NEW x \in {"dialing", "bound", "closed"}, NextStream(i, x), hpc[i] = "header"
      PROVE  /\ Stage' = Stage /\ Stage[i] = "accept" /\ Conns' = Conns
             /\ Wants' = [Wants EXCEPT ![i] = {}]
    <2>1. /\ hpc'[i] = "accept" /\ UNCHANGED <<hdr, rconn>>
          /\ \A j \in Sessions : j # i => hpc'[j] = hpc[j] /\ cur'[j] = cur[j]
        BY <1>1, <1>3 DEF NextStream, TypeOK
    <2>2. Wants'[i] = {}
        BY <2>1 DEF Wants, Wanted
    <2> QED BY <1>1, <1>3, <2>1, <2>2, StageMoves DEF Stage
<1>4. CASE HeaderError(i) \/ HeaderConnect(i) \/ HeaderUnknown(i)
    <2>1. /\ hpc[i] = "header" /\ hdr[cur[i]].cmd # "bind" /\ owner' = owner
          /\ \E x \in {"dialing", "bound", "closed"} : NextStream(i, x)
        BY <1>4 DEF HeaderError, HeaderConnect, HeaderUnknown, NoHeader
    <2>2. Wants' = Wants
        BY <1>3, <2>1, WantedAt DEF Wants
    <2> QED BY <1>3, <2>1, <2>2, LeaseOf
<1>5. CASE HeaderBindRefused(i) \/ HeaderBind(i)
    <2> DEFINE p == hdr[cur[i]].addr
    <2>1. hpc[i] = "header" /\ hdr[cur[i]].cmd = "bind"
        BY <1>5 DEF HeaderBindRefused, HeaderBind
    <2>2. Wants[i] = {p} /\ p \in Ports
        BY <2>1, WantedAt
    <2>3. \E x \in {"dialing", "bound", "closed"} : NextStream(i, x)
        BY <1>5 DEF HeaderBindRefused, HeaderBind
    <2>4. Lease!Answered(i, p)
        BY <1>3, <2>1, <2>2, <2>3 DEF Lease!Answered, Stage, Wants, Conns, Served
    <2>5. CASE HeaderBindRefused(i)
        <3>1. Lease!Refuse(i, p)
            BY <2>4, <2>5 DEF HeaderBindRefused, Lease!Refuse
        <3> QED BY <2>2, <3>1 DEF Lease!Next
    <2>6. CASE HeaderBind(i)
        <3>1. Lease!Lend(i, p)
            BY <2>4, <2>6 DEF HeaderBind, Lease!Lend
        <3> QED BY <2>2, <3>1 DEF Lease!Next
    <2> QED BY <1>5, <2>5, <2>6
<1>6. CASE AcceptError(i) \/ AcceptAckError(i)
    <2>1. /\ hpc[i] = "accept" /\ hpc'[i] = "closing" /\ UNCHANGED <<hdr, rconn, owner>>
          /\ \A j \in Sessions : j # i => hpc'[j] = hpc[j] /\ cur'[j] = cur[j]
        BY <1>1, <1>6 DEF AcceptError, AcceptAckError, TypeOK
    <2>2. Wants[i] = {} /\ Wants'[i] = {} /\ Stage[i] = "accept"
        BY <2>1 DEF Wants, Wanted, Stage
    <2>3. Stage' = [Stage EXCEPT ![i] = "closing"] /\ Wants' = Wants /\ Conns' = Conns
        BY <1>1, <2>1, <2>2, StageMoves DEF Wants
    <2>4. Lease!End(i)
        BY <2>1, <2>2, <2>3 DEF Lease!End, Lease!Move, Stage, Wants, Conns, Served
    <2> QED BY <2>4 DEF Lease!Next
<1>7. CASE Finish(i)
    <2>1. /\ hpc[i] = "closing" /\ hpc'[i] = "done" /\ UNCHANGED <<hdr, rconn, owner>>
          /\ \A j \in Sessions : j # i => hpc'[j] = hpc[j] /\ cur'[j] = cur[j]
          /\ listeners[i] = {}
        BY <1>1, <1>7 DEF Finish, TypeOK
    <2>2. Wants[i] = {} /\ Wants'[i] = {} /\ Stage[i] = "closing"
        BY <2>1 DEF Wants, Wanted, Stage
    <2>3. Stage' = [Stage EXCEPT ![i] = "done"] /\ Wants' = Wants /\ Conns' = Conns
        BY <1>1, <2>1, <2>2, StageMoves DEF Wants
    <2>4. \A p \in Ports : owner[p] # i
        BY <1>1, <2>1 DEF ListenersOwned
    <2>5. Lease!Over(i)
        BY <2>1, <2>2, <2>3, <2>4 DEF Lease!Over, Lease!Move, Stage, Wants, Conns, Served
    <2> QED BY <2>5 DEF Lease!Next
<1>8. ASSUME NEW p \in Ports, CloseListener(i, p)
      PROVE  Lease!Next \/ UNCHANGED Lease!vars
    <2>1. Stage' = Stage /\ Wants' = Wants /\ Conns' = Conns
        BY <1>8, StageStays, ConnsStay DEF CloseListener
    <2>2. CASE owner[p] = i
        <3>1. Lease!GiveBack(p)
            BY <1>1, <1>8, <2>1, <2>2 DEF CloseListener, Lease!GiveBack, Stage, Wants, Conns, Served
        <3> QED BY <3>1 DEF Lease!Next
    <2>3. CASE owner[p] # i
        <3>1. owner' = owner
            BY <1>1, <1>8, <2>3 DEF CloseListener, TypeOK
        <3> QED BY <2>1, <3>1, LeaseOf
    <2> QED BY <2>2, <2>3
<1> QED BY <1>2, <1>4, <1>5, <1>6, <1>7, <1>8 DEF Handler

(* Each connection to a port is one of the lease.                          *)
LEMMA ReverseLeases ==
    ASSUME IInv, NEW c \in RConns, ReverseConn(c) \/ \E p \in Ports : ReverseAccept(p, c)
    PROVE  Lease!Next \/ UNCHANGED Lease!vars
<1> USE DEF IInv
<1>1. rconn \in [RConns -> ConnRecords] /\ owner \in [Ports -> Sessions \cup {None}]
    BY DEF TypeOK, ConnRecords
<1>2. UNCHANGED <<hpc, cur, hdr, owner>>
    BY DEF ReverseConn, ReverseOpen, ReverseOpenError, ReverseHeader, ReverseHeaderError, ReverseEnd,
           ReverseAccept
<1>3. Stage' = Stage /\ Wants' = Wants
    BY <1>2, StageStays
<1>4. \A d \in RConns : Conns[d] = AsServed(rconn[d])
    BY <1>1, RecordOf DEF Conns, Served, AsServed
<1>5. ASSUME NEW p \in Ports, ReverseAccept(p, c)
      PROVE  Lease!Next
    <2>1. /\ owner[p] # None /\ rconn[c].st = "new"
          /\ rconn' = [rconn EXCEPT ![c] = [st |-> "accepted", port |-> p, sess |-> owner[p]]]
        BY <1>5 DEF ReverseAccept
    <2>2. Conns[c].st = "new"
        BY <2>1, <1>4 DEF AsServed
    <2>3. Conns' = [Conns EXCEPT ![c] = [st |-> "accepted", port |-> p, sess |-> owner[p]]]
        BY <1>1, <2>1 DEF Conns, Served
    <2>4. Lease!Call(c, p)
        BY <1>2, <1>3, <2>1, <2>2, <2>3 DEF Lease!Call, Stage, Wants, Conns, Served
    <2> QED BY <2>4 DEF Lease!Next
<1>6. ASSUME NEW x \in {"opened", "relaying", "closed"}, rconn[c].st \in {"accepted", "opened", "relaying"},
             rconn' = [rconn EXCEPT ![c] = [st |-> x, port |-> rconn[c].port, sess |-> rconn[c].sess]],
             rconn[c].st = "relaying" => x = "closed"
      PROVE  Lease!Next \/ UNCHANGED Lease!vars
    <2>1. /\ rconn[c] \in ConnRecords
          /\ rconn'[c] = [st |-> x, port |-> rconn[c].port, sess |-> rconn[c].sess]
          /\ \A d \in RConns : d # c => rconn'[d] = rconn[d]
        BY <1>1, <1>6
    <2>2. /\ \A d \in RConns : d # c => Conns'[d] = Conns[d]
          /\ Conns'[c] = IF x = "opened" THEN [rconn'[c] EXCEPT !.st = "accepted"] ELSE rconn'[c]
        BY <2>1 DEF Conns, Served
    <2> DEFINE y == IF rconn[c].st = "opened" THEN "accepted" ELSE rconn[c].st
    <2>3. /\ Conns[c] = [st |-> y, port |-> rconn[c].port, sess |-> rconn[c].sess]
          /\ y \in {"accepted", "relaying"} /\ (y = "relaying" => x = "closed")
        BY <1>4, <1>6, <2>1, RecordOf DEF AsServed
    <2>4. y # x \/ x = "opened"
        BY <1>6
    <2> HIDE DEF y
    <2>5. CASE x = "opened"
        <3>1. y = "accepted"
            BY <2>3, <2>5
        <3>2. Conns'[c] = [st |-> "accepted", port |-> rconn[c].port, sess |-> rconn[c].sess]
            BY <2>1, <2>2, <2>5
        <3>3. Conns' = Conns
            BY <2>2, <2>3, <3>1, <3>2 DEF Conns
        <3> QED BY <1>2, <1>3, <3>3, LeaseOf
    <2>6. CASE x # "opened"
        <3>1. Conns'[c] = [st |-> x, port |-> rconn[c].port, sess |-> rconn[c].sess]
            BY <2>1, <2>2, <2>6
        <3>2. [Conns[c] EXCEPT !.st = x] = [st |-> x, port |-> rconn[c].port, sess |-> rconn[c].sess]
            BY <2>3
        <3>3. Conns' = [Conns EXCEPT ![c].st = x]
            BY <2>2, <3>1, <3>2 DEF Conns
        <3>4. Conns[c].st = y
            BY <2>3
        <3>5. Lease!Serve(c)
            <4>1. x \in {"relaying", "closed"} /\ Conns[c].st \in {"accepted", "relaying"} \ {x}
                BY <2>3, <2>4, <2>6, <3>4
            <4> QED BY <1>2, <1>3, <3>3, <4>1 DEF Lease!Serve, Stage, Wants, Conns, Served
        <3> QED BY <3>5 DEF Lease!Next
    <2> QED BY <2>5, <2>6
<1>7. CASE ReverseConn(c)
    <2>1. PICK x \in {"opened", "relaying", "closed"} :
              /\ rconn' = [rconn EXCEPT ![c].st = x]
              /\ rconn[c].st \in {"accepted", "opened", "relaying"}
              /\ rconn[c].st = "relaying" => x = "closed"
        BY <1>7 DEF ReverseConn, ReverseOpen, ReverseOpenError, ReverseHeader, ReverseHeaderError,
                    ReverseEnd, SetConn
    <2>2. rconn' = [rconn EXCEPT ![c] = [st |-> x, port |-> rconn[c].port, sess |-> rconn[c].sess]]
        <3>1. rconn[c] \in ConnRecords /\ rconn' = [rconn EXCEPT ![c] = [rconn[c] EXCEPT !.st = x]]
            BY <1>1, <2>1
        <3> QED BY <3>1, RecordOf
    <2> QED BY <1>6, <2>1, <2>2
<1> QED BY <1>5, <1>7

(* A header that arrives at the handler that waits for it is what asks.    *)
LEMMA ClientsLease ==
    ASSUME IInv, Clients
    PROVE  Lease!Next \/ UNCHANGED Lease!vars
<1> USE DEF IInv
<1>1. ASSUME NEW i \in Sessions, Upgrade(i)
      PROVE  Lease!Next
    <2>1. /\ hpc[i] = "none" /\ hpc'[i] = "accept" /\ UNCHANGED <<hdr, rconn, owner>>
          /\ \A j \in Sessions : j # i => hpc'[j] = hpc[j] /\ cur'[j] = cur[j]
        BY <1>1 DEF Upgrade, TypeOK, Unserved
    <2>2. Wants[i] = {} /\ Wants'[i] = {} /\ Stage[i] = "none"
        BY <2>1 DEF Wants, Wanted, Stage
    <2>3. Stage' = [Stage EXCEPT ![i] = "accept"] /\ Wants' = Wants /\ Conns' = Conns
        BY <2>1, <2>2, StageMoves DEF Wants
    <2>4. Lease!Begin(i)
        BY <2>1, <2>2, <2>3 DEF Lease!Begin, Lease!Move, Stage, Wants, Conns, Served
    <2> QED BY <2>4 DEF Lease!Next
<1>2. CASE \/ \E i \in Sessions : SessionLost(i)
           \/ \E s \in Streams : ClientOpenLost(s) \/ \E i \in Sessions : ClientOpen(s, i)
    <2>1. UNCHANGED <<hpc, cur, hdr, owner, rconn>>
        BY <1>2 DEF SessionLost, ClientOpenLost, ClientOpen
    <2> QED BY <2>1, StageStays, ConnsStay, LeaseOf
<1>3. ASSUME NEW s \in Streams, NEW h \in Headers, ClientHeader(s, h)
      PROVE  Lease!Next \/ UNCHANGED Lease!vars
    <2>1. /\ hdr[s] = NoHeader /\ hdr' = [hdr EXCEPT ![s] = h]
          /\ UNCHANGED <<hpc, cur, owner, rconn>>
        BY <1>3 DEF ClientHeader
    <2>2. Stage' = Stage /\ Conns' = Conns
        BY <2>1, ConnsStay DEF Stage
    <2>3. \A j \in Sessions : ~(hpc[j] = "header" /\ cur[j] = s) => Wants'[j] = Wants[j]
        BY <2>1, AtHeader DEF Wants, Wanted, TypeOK
    <2>4. CASE \A j \in Sessions : ~(hpc[j] = "header" /\ cur[j] = s)
        <3>1. Wants' = Wants
            BY <2>3, <2>4 DEF Wants
        <3> QED BY <2>1, <2>2, <3>1, LeaseOf
    <2>5. ASSUME NEW i \in Sessions, hpc[i] = "header", cur[i] = s
          PROVE  Lease!Next \/ UNCHANGED Lease!vars
        <3>1. \A j \in Sessions : j # i => Wants'[j] = Wants[j]
            BY <2>3, <2>5, AtHeader, MuxServerAssumption DEF StreamsOnce
        <3>2. Wants' = [Wants EXCEPT ![i] = Wants'[i]]
            BY <3>1 DEF Wants
        <3>3. Wants[i] = {} /\ Stage[i] = "accept"
            BY <2>1, <2>5 DEF Wants, Wanted, Stage, NoHeader
        <3>4. hdr'[cur'[i]] = h
            BY <2>1, <2>5 DEF TypeOK
        <3>5. CASE h.cmd # "bind"
            <4>1. Wants'[i] = {}
                BY <3>4, <3>5 DEF Wants, Wanted
            <4>2. Wants' = Wants
                BY <3>2, <3>3, <4>1 DEF Wants
            <4> QED BY <2>1, <2>2, <4>2, LeaseOf
        <3>6. CASE h.cmd = "bind"
            <4>1. h.addr \in Ports
                BY <3>6 DEF Headers
            <4>2. Wants'[i] = {h.addr}
                BY <2>1, <2>5, <3>4, <3>6 DEF Wants, Wanted
            <4>3. Lease!Ask(i, h.addr)
                BY <2>1, <2>2, <3>2, <3>3, <4>2 DEF Lease!Ask, Stage, Wants, Conns, Served
            <4> QED BY <4>1, <4>3 DEF Lease!Next
        <3> QED BY <3>5, <3>6
    <2> QED BY <2>4, <2>5
<1> QED BY <1>1, <1>2, <1>3 DEF Clients

LEMMA LeaseNext == IInv /\ IInv' /\ [Next]_vars => [Lease!Next]_(Lease!vars)
<1> SUFFICES ASSUME IInv, IInv', [Next]_vars
             PROVE  Lease!Next \/ UNCHANGED Lease!vars
    OBVIOUS
<1>1. ASSUME NEW s \in Streams, Connect(s)
      PROVE  UNCHANGED Lease!vars
    <2>1. UNCHANGED <<hpc, cur, hdr, owner, rconn>>
        BY <1>1 DEF Connect, ConnectFail, ConnectOK, ConnectEnd
    <2> QED BY <2>1, StageStays, ConnsStay, LeaseOf
<1>2. ASSUME NEW p \in Ports, ReverseAcceptError(p)
      PROVE  Lease!Next
    <2>1. Stage' = Stage /\ Wants' = Wants /\ Conns' = Conns
        BY <1>2, StageStays, ConnsStay DEF ReverseAcceptError
    <2>2. Lease!GiveBack(p)
        BY <1>2, <2>1 DEF ReverseAcceptError, Lease!GiveBack, Stage, Wants, Conns, Served
    <2> QED BY <2>2 DEF Lease!Next
<1>3. CASE UNCHANGED vars
    <2>1. UNCHANGED <<hpc, cur, hdr, owner, rconn>>
        BY <1>3 DEF vars
    <2> QED BY <2>1, StageStays, ConnsStay, LeaseOf
<1> QED BY <1>1, <1>2, <1>3, HandlerLeases, ReverseLeases, ClientsLease DEF Next, Server

(* ImplementsLease for any sessions, streams and ports: whatever clients   *)
(* send, however handlers are cut off and for whatever cause a port cannot *)
(* be bound, a bind request gets a port no session has or is refused, no   *)
(* session loses its port by another one's clean-up or is over with a port,*)
(* and a connection is carried by the session that held the port when it   *)
(* came (server.go muxHandler, handleReverseBind, handleReverseConn).      *)
THEOREM ServerLeases == Spec => ImplementsLease
<1>1. Init => Lease!Init
    BY DEF Init, Lease!Init, Wanted
<1> QED BY <1>1, LeaseNext, Inductive, PTL DEF Spec, ImplementsLease, Lease!Spec

-----------------------------------------------------------------------------
(* The server and the forward client *)

\* The client's variables have their types; TTypeOK without the server's.
ClientTypeOK ==
    /\ cpc \in {"dial", "bind", "bindHeader", "watch", "drain", "exit"}
    /\ cs \in Sessions \cup {None}
    /\ up \in [Sessions -> {"none", "up", "closed"}]
    /\ broken \in [Sessions -> BOOLEAN]
    /\ k \in 1..(Len(Reverses) + 1)
    /\ bs \in Streams \cup {None}
    /\ fl \in [Forwards -> {"off", "starting", "listening"}]
    /\ ar \in {"off", "running"}
    /\ fconn \in [FConns -> [st : {"new", "accepted", "opened", "relaying", "closed"},
                             sess : Sessions \cup {None}, str : Streams \cup {None}]]
    /\ lconn \in [RConns -> {"none", "dialing", "relaying", "closed"}]

\* While a round lasts, and while a listener of it runs, there is a session.
SessionOfRound ==
    /\ cpc \in {"bind", "bindHeader", "watch", "drain"} => cs \in Sessions
    /\ \A f \in Forwards : fl[f] # "off" => cs \in Sessions
    /\ \A c \in FConns : fconn[c].st # "new" => fconn[c].sess \in Sessions

\* An end that is up has another end, and no session is closed by the server
\* without the transport being useless afterwards.
EndsAgree ==
    \A i \in Sessions :
        /\ up[i] # "none" => sess[i] # "none"
        /\ sess[i] = "closed" => broken[i]

\* Streams that were opened and still wait for the client to write a header:
\* the one registerReverseBind works on, and those of forwardConn.
Unwritten(s) == s \in Streams /\ st[s] # "new" /\ hdr[s] = NoHeader
HeadersOnce ==
    /\ cpc = "bindHeader" => Unwritten(bs)
    /\ \A c \in FConns : fconn[c].st = "opened" =>
           /\ Unwritten(fconn[c].str)
           /\ cpc = "bindHeader" => fconn[c].str # bs
    /\ \A c, d \in FConns :
           fconn[c].st = "opened" /\ fconn[d].st = "opened" /\ fconn[c].str = fconn[d].str => c = d
    /\ \A s \in Streams : st[s] = "new" => hdr[s] = NoHeader

\* There is a specification to register when a header is to be written.
Registering == cpc = "bindHeader" => k \in DOMAIN Reverses

\* What the client adds to the server's invariant.
CInv ==
    /\ ClientTypeOK /\ SessionOfRound /\ EndsAgree
    /\ HeadersOnce /\ Registering /\ OneClientSession

TInv == IInv /\ CInv

-----------------------------------------------------------------------------
(* The steps of the client and of the transport, seen from the server.     *)

(* A stream the client opens is one that some client opens, or lost.       *)
LEMMA OpenIsClients ==
    ASSUME TInv, NEW i \in Sessions, NEW s \in Streams, Open(i, s)
    PROVE  /\ ClientOpen(s, i) \/ ClientOpenLost(s)
           /\ Unwritten(s)'
<1>1. sess[i] # "none" /\ (~broken[i] => sess[i] = "up")
    BY DEF Open, TInv, CInv, EndsAgree, IInv, TypeOK
<1>2. ClientOpen(s, i) \/ ClientOpenLost(s)
    BY <1>1 DEF Open, TInv, CInv, ClientTypeOK, IInv, TypeOK, ClientOpen, ClientOpenLost
<1>3. Unwritten(s)'
    BY DEF Open, Unwritten, TInv, CInv, HeadersOnce, IInv, TypeOK
<1> QED BY <1>2, <1>3

(* A header the client writes is one that some client writes, or is lost.  *)
LEMMA SendIsClients ==
    ASSUME TInv, NEW i \in Sessions, NEW s \in Streams, NEW h \in Headers,
           Unwritten(s), SendHeader(i, s, h)
    PROVE  ClientHeader(s, h) \/ UNCHANGED vars
<1>1. CASE broken[i]
    BY <1>1 DEF SendHeader, vars, TInv, CInv, IInv, TypeOK
<1>2. CASE ~broken[i]
    BY <1>2 DEF SendHeader, ClientHeader, Unwritten
<1> QED BY <1>1, <1>2

(* The headers this client writes are headers.                             *)
LEMMA ClientsHeaders ==
    /\ [cmd |-> "connect", addr |-> None] \in Headers
    /\ k \in DOMAIN Reverses => [cmd |-> "bind", addr |-> Reverses[k]] \in Headers
<1>1. \A n \in DOMAIN Reverses : Reverses[n] \in Ports
    BY TunnelAssumption
<1> QED BY <1>1 DEF Headers

(* Each step of the composition is a step of the server with some clients. *)
LEMMA StepIsServers == TInv /\ [TNext]_tvars => [Next]_vars
<1> SUFFICES ASSUME TInv, [TNext]_tvars PROVE [Next]_vars
    OBVIOUS
<1> USE DEF CInv
<1>1. ASSUME NEW i \in Sessions, DialSession(i) PROVE Next
    BY <1>1 DEF DialSession, Next, Clients
<1>2. ASSUME NEW s \in Streams, BindOpen(s) PROVE Next
    <2>1. cs \in Sessions /\ Open(cs, s)
        BY <1>2 DEF BindOpen, TInv, SessionOfRound
    <2>2. ClientOpen(s, cs) \/ ClientOpenLost(s)
        BY <2>1, OpenIsClients
    <2> QED BY <2>1, <2>2 DEF Next, Clients
<1>3. ASSUME BindHeader PROVE [Next]_vars
    <2> DEFINE h == [cmd |-> "bind", addr |-> Reverses[k]]
    <2>1. cs \in Sessions /\ bs \in Streams /\ Unwritten(bs) /\ SendHeader(cs, bs, h)
        BY <1>3 DEF BindHeader, TInv, SessionOfRound, HeadersOnce, Unwritten
    <2>2. h \in Headers
        BY <1>3, ClientsHeaders DEF BindHeader, TInv, Registering
    <2> HIDE DEF h
    <2>3. ClientHeader(bs, h) \/ UNCHANGED vars
        BY <2>1, <2>2, SendIsClients
    <2> QED BY <2>1, <2>2, <2>3 DEF Next, Clients
<1>4. ASSUME NEW c \in FConns, NEW s \in Streams, FConnOpen(c, s) PROVE Next
    <2> DEFINE i == fconn[c].sess
    <2>1. i \in Sessions /\ Open(i, s)
        BY <1>4 DEF FConnOpen, TInv, SessionOfRound
    <2> HIDE DEF i
    <2>2. ClientOpen(s, i) \/ ClientOpenLost(s)
        BY <2>1, OpenIsClients
    <2> QED BY <2>1, <2>2 DEF Next, Clients
<1>5. ASSUME NEW c \in FConns, FConnHeader(c) PROVE [Next]_vars
    <2> DEFINE i == fconn[c].sess
               s == fconn[c].str
               h == [cmd |-> "connect", addr |-> None]
    <2>1. i \in Sessions /\ s \in Streams /\ Unwritten(s) /\ SendHeader(i, s, h)
        BY <1>5 DEF FConnHeader, TInv, SessionOfRound, HeadersOnce, Unwritten
    <2>2. h \in Headers
        BY ClientsHeaders
    <2> HIDE DEF i, s, h
    <2>3. ClientHeader(s, h) \/ UNCHANGED vars
        BY <2>1, <2>2, SendIsClients
    <2> QED BY <2>1, <2>2, <2>3 DEF Next, Clients
<1>6. ASSUME \/ DialGiveUp \/ BindError \/ Watch \/ Lost \/ Redial
             \/ \E f \in Forwards : ListenerStart(f) \/ ListenerError(f)
             \/ \E f \in Forwards, c \in FConns : LocalAccept(f, c)
             \/ \E c \in FConns : FConnError(c) \/ FConnEnd(c)
             \/ AcceptReverseError
             \/ \E c \in RConns : AcceptReverse(c) \/ LocalDial(c) \/ LocalEnd(c)
             \/ \E i \in Sessions : Break(i) \/ ClientDetects(i)
      PROVE  UNCHANGED vars
    BY <1>6 DEF DialGiveUp, BindError, Watch, Lost, Redial, ListenerStart, ListenerError,
                LocalAccept, FConnError, FConnEnd, AcceptReverseError, AcceptReverse, LocalDial,
                LocalEnd, Break, ClientDetects
<1>7. ASSUME NEW i \in Sessions, ServerDetects(i) PROVE Next
    BY <1>7 DEF ServerDetects, Next, Clients
<1>8. ASSUME ServerStep PROVE Next
    BY <1>8 DEF ServerStep, Next
<1>9. CASE UNCHANGED tvars
    BY <1>9 DEF tvars
<1> QED
    BY <1>1, <1>2, <1>3, <1>4, <1>5, <1>6, <1>7, <1>8, <1>9
       DEF TNext, Client, Forward, FConn

-----------------------------------------------------------------------------
(* The server writes no headers, uses no stream anew, starts no session,   *)
(* and closes one only when its handler ends.                              *)
LEMMA ServerKeeps ==
    ASSUME IInv, Server
    PROVE  /\ hdr' = hdr
           /\ \A s \in Streams : st'[s] = "new" <=> st[s] = "new"
           /\ \A i \in Sessions : sess'[i] = "none" <=> sess[i] = "none"
           /\ \A i \in Sessions : sess'[i] = "closed" => sess[i] = "closed" \/ hpc'[i] = "done"
<1> USE DEF IInv, TypeOK
<1>1. ASSUME NEW i \in Sessions, Handler(i), hpc[i] = "header"
      PROVE  /\ hdr' = hdr /\ sess' = sess
             /\ \A s \in Streams : st'[s] = "new" <=> st[s] = "new"
    <2>1. cur[i] \in Streams /\ st[cur[i]] = "reading"
        BY <1>1, AtHeader
    <2> QED
        BY <1>1, <2>1
           DEF Handler, NextStream, HeaderError, HeaderConnect, HeaderBindRefused, HeaderBind,
               HeaderUnknown, AcceptStream, AcceptError, AcceptAckError, Finish, CloseListener
<1>2. ASSUME NEW i \in Sessions, AcceptStream(i) \/ AcceptAckError(i)
      PROVE  /\ hdr' = hdr /\ sess' = sess
             /\ \A s \in Streams : st'[s] = "new" <=> st[s] = "new"
    <2>1. backlog[i] # <<>> /\ backlog[i] \in Seq(Streams)
        BY <1>2 DEF AcceptStream, AcceptAckError
    <2>2. Head(backlog[i]) = backlog[i][1] /\ 1 \in 1..Len(backlog[i])
        BY <2>1
    <2>3. st[Head(backlog[i])] = "queued"
        BY <2>2 DEF StreamsOnce
    <2> QED BY <1>2, <2>3 DEF AcceptStream, AcceptAckError
<1>3. ASSUME NEW i \in Sessions, AcceptError(i) \/ \E p \in Ports : CloseListener(i, p)
      PROVE  hdr' = hdr /\ sess' = sess /\ st' = st
    BY <1>3 DEF AcceptError, CloseListener
<1>4. ASSUME NEW i \in Sessions, Finish(i)
      PROVE  /\ hdr' = hdr /\ st' = st
             /\ sess[i] # "none"
             /\ \A j \in Sessions : sess'[j] = IF j = i THEN "closed" ELSE sess[j]
             /\ hpc'[i] = "done"
    BY <1>4 DEF Finish, Unserved
<1>5. ASSUME NEW s \in Streams, Connect(s)
      PROVE  /\ hdr' = hdr /\ sess' = sess
             /\ \A x \in Streams : st'[x] = "new" <=> st[x] = "new"
    BY <1>5 DEF Connect, ConnectFail, ConnectOK, ConnectEnd
<1>6. ASSUME \/ \E p \in Ports : ReverseAcceptError(p) \/ \E c \in RConns : ReverseAccept(p, c)
             \/ \E c \in RConns : ReverseConn(c)
      PROVE  hdr' = hdr /\ sess' = sess /\ st' = st
    BY <1>6 DEF ReverseAcceptError, ReverseAccept, ReverseConn, ReverseOpen, ReverseOpenError,
                ReverseHeader, ReverseHeaderError, ReverseEnd
<1>7. ASSUME NEW i \in Sessions, Handler(i)
      PROVE  \/ hpc[i] = "header" \/ AcceptStream(i) \/ AcceptAckError(i) \/ AcceptError(i)
             \/ Finish(i) \/ \E p \in Ports : CloseListener(i, p)
    BY <1>7 DEF Handler, HeaderError, HeaderConnect, HeaderBindRefused, HeaderBind, HeaderUnknown
<1> QED BY <1>1, <1>2, <1>3, <1>4, <1>5, <1>6, <1>7 DEF Server

(* The client has no session, and nothing is under way, at the start.      *)
LEMMA InitTInv == TInit => TInv
<1> SUFFICES ASSUME TInit PROVE TInv
    OBVIOUS
<1>1. IInv
    BY InitIInv DEF TInit
<1>2. ClientTypeOK
    <2>1. Len(Reverses) \in Nat
        BY TunnelAssumption
    <2> QED BY <2>1 DEF TInit, ClientTypeOK
<1>3. SessionOfRound /\ EndsAgree /\ HeadersOnce /\ Registering /\ OneClientSession
    BY DEF TInit, Init, SessionOfRound, EndsAgree, HeadersOnce, Registering, OneClientSession
<1> QED BY <1>1, <1>2, <1>3 DEF TInv, CInv

-----------------------------------------------------------------------------
(* Forward keeps what the client adds to the invariant.                    *)
LEMMA ForwardCInv == ASSUME TInv, Forward PROVE CInv'
<1> USE TunnelAssumption DEF TInv, CInv
<1>1. Len(Reverses) \in Nat
    BY TunnelAssumption
<1>2. ASSUME NEW i \in Sessions, DialSession(i) PROVE CInv'
    <2> USE <1>2 DEF DialSession, Upgrade
    <2>1. ClientTypeOK' /\ SessionOfRound'
        BY <1>1 DEF ClientTypeOK, SessionOfRound
    <2>2. EndsAgree'
        BY DEF EndsAgree, ClientTypeOK, IInv, TypeOK
    <2>3. HeadersOnce' /\ Registering'
        BY DEF HeadersOnce, Unwritten, Registering
    <2>4. OneClientSession'
        BY DEF OneClientSession, ClientTypeOK
    <2> QED BY <2>1, <2>2, <2>3, <2>4
<1>3. ASSUME NEW s \in Streams, BindOpen(s) PROVE CInv'
    <2> USE <1>3 DEF BindOpen
    <2>1. cs \in Sessions /\ Open(cs, s)
        BY DEF SessionOfRound
    <2>2. Unwritten(s)' /\ st[s] = "new"
        BY <2>1, OpenIsClients DEF Open
    <2>3. ClientTypeOK' /\ SessionOfRound' /\ EndsAgree' /\ OneClientSession'
        BY <2>1 DEF ClientTypeOK, SessionOfRound, EndsAgree, OneClientSession, Open
    <2>4. \A x \in Streams : st'[x] = "new" => st[x] = "new"
        BY <2>1 DEF Open, IInv, TypeOK
    <2>5. \A x \in Streams : Unwritten(x) => Unwritten(x)' /\ x # s
        BY <2>1, <2>2 DEF Open, Unwritten, IInv, TypeOK
    <2>6. HeadersOnce'
        BY <2>1, <2>2, <2>4, <2>5 DEF HeadersOnce, Unwritten, Open
    <2>7. Registering'
        BY <1>1 DEF Registering, ClientTypeOK
    <2> QED BY <2>3, <2>6, <2>7
<1>4. ASSUME BindHeader PROVE CInv'
    <2> USE <1>4 DEF BindHeader
    <2>1. ClientTypeOK' /\ SessionOfRound' /\ EndsAgree' /\ OneClientSession' /\ Registering'
        BY <1>1 DEF ClientTypeOK, SessionOfRound, EndsAgree, OneClientSession, Registering,
                    SendHeader
    <2>2. st' = st /\ \A x \in Streams : x # bs => hdr'[x] = hdr[x]
        BY DEF SendHeader, IInv, TypeOK
    <2>3. HeadersOnce'
        BY <2>2 DEF HeadersOnce, Unwritten
    <2> QED BY <2>1, <2>3
<1>5. ASSUME DialGiveUp \/ BindError \/ Watch \/ Lost \/ Redial PROVE CInv'
    <2> USE <1>5 DEF DialGiveUp, BindError, Watch, Lost, Redial
    <2>1. UNCHANGED vars
        OBVIOUS
    <2>2. ASSUME BindError PROVE k \in 1..Len(Reverses)
        <3>1. CASE cpc = "bindHeader"
            BY <3>1, <1>1 DEF Registering
        <3>2. CASE cpc = "bind" /\ k <= Len(Reverses)
            BY <3>2, <1>1 DEF ClientTypeOK
        <3> QED BY <2>2, <3>1, <3>2
    <2>3. k' \in 1..(Len(Reverses) + 1)
        BY <1>1, <2>2 DEF ClientTypeOK
    <2>4. ClientTypeOK'
        BY <2>3 DEF ClientTypeOK
    <2>5. SessionOfRound'
        BY DEF SessionOfRound
    <2>6. EndsAgree'
        BY <2>1 DEF EndsAgree, ClientTypeOK, vars
    <2>7. HeadersOnce' /\ Registering'
        BY <2>1 DEF HeadersOnce, Unwritten, Registering, vars
    <2>8. OneClientSession'
        BY DEF OneClientSession
    <2> QED BY <2>4, <2>5, <2>6, <2>7, <2>8
<1> QED BY <1>2, <1>3, <1>4, <1>5 DEF Forward

(* So do the forward listeners and the connections they accept.            *)
LEMMA FConnCInv ==
    ASSUME TInv,
           \/ \E f \in Forwards : ListenerStart(f) \/ ListenerError(f)
           \/ \E f \in Forwards, c \in FConns : LocalAccept(f, c)
           \/ \E c \in FConns : FConn(c)
    PROVE  CInv'
<1> USE DEF TInv, CInv
<1>1. ASSUME NEW f \in Forwards, ListenerStart(f) \/ ListenerError(f) PROVE CInv'
    <2> USE <1>1 DEF ListenerStart, ListenerError
    <2>1. UNCHANGED <<vars, cpc, cs, up, broken, k, bs, ar, fconn, lconn>>
        OBVIOUS
    <2>2. ClientTypeOK' /\ SessionOfRound'
        BY DEF ClientTypeOK, SessionOfRound
    <2> QED
        BY <2>1, <2>2 DEF EndsAgree, HeadersOnce, Unwritten, Registering, OneClientSession, vars
<1>2. ASSUME NEW f \in Forwards, NEW c \in FConns, LocalAccept(f, c) PROVE CInv'
    <2> USE <1>2 DEF LocalAccept
    <2>1. ClientTypeOK'
        BY DEF ClientTypeOK
    <2>2. SessionOfRound'
        BY DEF SessionOfRound, ClientTypeOK
    <2>3. HeadersOnce'
        BY DEF HeadersOnce, Unwritten, ClientTypeOK, vars
    <2> QED BY <2>1, <2>2, <2>3 DEF EndsAgree, Registering, OneClientSession, vars
<1>3. ASSUME NEW c \in FConns, NEW s \in Streams, FConnOpen(c, s) PROVE CInv'
    <2> USE <1>3 DEF FConnOpen
    <2> DEFINE i == fconn[c].sess
    <2>1. i \in Sessions /\ Open(i, s)
        BY DEF SessionOfRound
    <2> HIDE DEF i
    <2>2. Unwritten(s)' /\ st[s] = "new"
        BY <2>1, OpenIsClients DEF Open
    <2>3. ClientTypeOK'
        BY DEF ClientTypeOK
    <2>4. SessionOfRound'
        BY DEF SessionOfRound, ClientTypeOK
    <2>5. EndsAgree' /\ Registering' /\ OneClientSession'
        BY <2>1 DEF EndsAgree, Registering, OneClientSession, Open
    <2>6. \A x \in Streams : st'[x] = "new" => st[x] = "new"
        BY <2>1 DEF Open, IInv, TypeOK
    <2>7. \A x \in Streams : Unwritten(x) => Unwritten(x)' /\ x # s
        BY <2>1, <2>2 DEF Open, Unwritten, IInv, TypeOK
    <2>8. /\ fconn'[c].st = "opened" /\ fconn'[c].str = s
          /\ \A d \in FConns : d # c => fconn'[d] = fconn[d]
        BY DEF ClientTypeOK
    <2>9. hdr' = hdr
        BY <2>1 DEF Open
    <2>10. cpc' = "bindHeader" => Unwritten(bs)' /\ bs # s
        BY <2>7 DEF HeadersOnce, Unwritten
    <2>11. \A d \in FConns : d # c /\ fconn'[d].st = "opened" =>
               /\ Unwritten(fconn[d].str)' /\ fconn'[d].str # s
               /\ cpc' = "bindHeader" => fconn'[d].str # bs'
        BY <2>7, <2>8 DEF HeadersOnce, Unwritten
    <2>12. ASSUME NEW d \in FConns, NEW e \in FConns,
                  fconn'[d].st = "opened", fconn'[e].st = "opened", fconn'[d].str = fconn'[e].str
           PROVE  d = e
        <3>1. CASE d # c /\ e # c
            BY <2>8, <2>12, <3>1 DEF HeadersOnce
        <3>2. CASE d = c \/ e = c
            BY <2>8, <2>11, <2>12, <3>2
        <3> QED BY <3>1, <3>2
    <2>13. \A x \in Streams : st'[x] = "new" => hdr'[x] = NoHeader
        BY <2>6, <2>9 DEF HeadersOnce
    <2>14. \A d \in FConns : fconn'[d].st = "opened" =>
               /\ Unwritten(fconn[d].str)'
               /\ cpc' = "bindHeader" => fconn'[d].str # bs'
        BY <2>2, <2>8, <2>10, <2>11
    <2>15. HeadersOnce'
        BY <2>10, <2>12, <2>13, <2>14 DEF HeadersOnce
    <2> QED BY <2>3, <2>4, <2>5, <2>15
<1>4. ASSUME NEW c \in FConns, FConnHeader(c) PROVE CInv'
    <2> USE <1>4 DEF FConnHeader
    <2>1. ClientTypeOK'
        BY DEF ClientTypeOK, SetConn, SetFConn
    <2>2. SessionOfRound'
        BY DEF SessionOfRound, ClientTypeOK, SetFConn
    <2>3. EndsAgree' /\ Registering' /\ OneClientSession'
        BY DEF EndsAgree, Registering, OneClientSession, SendHeader
    <2>4. st' = st /\ \A x \in Streams : x # fconn[c].str => hdr'[x] = hdr[x]
        BY DEF SendHeader, IInv, TypeOK
    <2>5. /\ fconn'[c].st # "opened"
          /\ \A d \in FConns : d # c => fconn'[d] = fconn[d]
        BY DEF SetFConn, ClientTypeOK
    <2>6. HeadersOnce'
        BY <2>4, <2>5 DEF HeadersOnce, Unwritten
    <2> QED BY <2>1, <2>2, <2>3, <2>6
<1>5. ASSUME NEW c \in FConns, FConnError(c) \/ FConnEnd(c) PROVE CInv'
    <2> USE <1>5 DEF FConnError, FConnEnd
    <2>1. UNCHANGED <<vars, cpc, cs, up, broken, k, bs, fl, ar, lconn>>
        OBVIOUS
    <2>2. ClientTypeOK'
        BY DEF ClientTypeOK, SetFConn
    <2>3. /\ fconn[c].st # "new" /\ fconn'[c].st # "opened" /\ fconn'[c].sess = fconn[c].sess
          /\ \A d \in FConns : d # c => fconn'[d] = fconn[d]
        BY DEF SetFConn, ClientTypeOK
    <2>4. SessionOfRound'
        BY <2>1, <2>3 DEF SessionOfRound
    <2>5. HeadersOnce'
        BY <2>1, <2>3 DEF HeadersOnce, Unwritten, vars
    <2> QED BY <2>1, <2>2, <2>4, <2>5 DEF EndsAgree, Registering, OneClientSession, vars
<1> QED BY <1>1, <1>2, <1>3, <1>4, <1>5 DEF FConn

(* So do the goroutines that serve reverse streams, and the transport.     *)
LEMMA OthersCInv ==
    ASSUME TInv,
           \/ AcceptReverseError
           \/ \E c \in RConns : AcceptReverse(c) \/ LocalDial(c) \/ LocalEnd(c)
           \/ \E i \in Sessions : Break(i) \/ ClientDetects(i) \/ ServerDetects(i)
    PROVE  CInv'
<1> USE DEF TInv, CInv
<1>1. ASSUME \/ AcceptReverseError
             \/ \E c \in RConns : AcceptReverse(c) \/ LocalDial(c) \/ LocalEnd(c)
      PROVE  CInv'
    <2>1. /\ UNCHANGED <<vars, cpc, cs, up, broken, k, bs, fl, fconn>>
          /\ ar' \in {"off", "running"}
          /\ lconn' \in [RConns -> {"none", "dialing", "relaying", "closed"}]
        BY <1>1 DEF AcceptReverseError, AcceptReverse, LocalDial, LocalEnd, ClientTypeOK
    <2>2. ClientTypeOK' /\ SessionOfRound'
        BY <2>1 DEF ClientTypeOK, SessionOfRound
    <2> QED
        BY <2>1, <2>2 DEF EndsAgree, HeadersOnce, Unwritten, Registering, OneClientSession, vars
<1>2. ASSUME NEW i \in Sessions, Break(i) \/ ClientDetects(i) PROVE CInv'
    <2> USE <1>2 DEF Break, ClientDetects
    <2>1. UNCHANGED <<vars, cpc, cs, k, bs, fl, ar, fconn, lconn>>
        OBVIOUS
    <2>2. ClientTypeOK' /\ SessionOfRound'
        BY DEF ClientTypeOK, SessionOfRound
    <2>3. EndsAgree' /\ OneClientSession'
        BY <2>1 DEF EndsAgree, OneClientSession, ClientTypeOK, vars
    <2> QED BY <2>1, <2>2, <2>3 DEF HeadersOnce, Unwritten, Registering, vars
<1>3. ASSUME NEW i \in Sessions, ServerDetects(i) PROVE CInv'
    <2> USE <1>3 DEF ServerDetects, SessionLost, cvars
    <2>1. ClientTypeOK' /\ SessionOfRound' /\ OneClientSession'
        BY DEF ClientTypeOK, SessionOfRound, OneClientSession
    <2>2. EndsAgree'
        BY DEF EndsAgree, IInv, TypeOK
    <2> QED BY <2>1, <2>2 DEF HeadersOnce, Unwritten, Registering
<1> QED BY <1>1, <1>2, <1>3

(* So does the server, which writes none of the client's variables.        *)
LEMMA ServerCInv == ASSUME TInv, ServerStep PROVE CInv'
<1> USE DEF TInv, CInv
<1>1. Server /\ UNCHANGED <<cpc, cs, up, k, bs, fl, ar, fconn, lconn>>
    BY DEF ServerStep
<1>2. \A i \in Sessions : broken'[i] = (broken[i] \/ hpc'[i] = "done")
    BY DEF ServerStep
<1>3. broken' \in [Sessions -> BOOLEAN]
    BY DEF ServerStep, ClientTypeOK
<1>4. ClientTypeOK' /\ SessionOfRound' /\ OneClientSession'
    BY <1>1, <1>3 DEF ClientTypeOK, SessionOfRound, OneClientSession
<1>5. EndsAgree'
    BY <1>1, <1>2, ServerKeeps DEF EndsAgree
<1>6. HeadersOnce' /\ Registering'
    <2>1. \A s : Unwritten(s) => Unwritten(s)'
        BY <1>1, ServerKeeps DEF Unwritten
    <2> QED BY <1>1, <2>1, ServerKeeps DEF HeadersOnce, Registering
<1> QED BY <1>4, <1>5, <1>6

(* Every step of the composition keeps the invariant.                      *)
LEMMA NextTInv == TInv /\ [TNext]_tvars => TInv'
<1> SUFFICES ASSUME TInv, [TNext]_tvars PROVE TInv'
    OBVIOUS
<1>1. IInv'
    BY StepIsServers, NextIInv DEF TInv
<1>2. CASE UNCHANGED tvars
    <2>1. UNCHANGED vars /\ UNCHANGED cvars
        BY <1>2 DEF tvars
    <2>2. CInv'
        BY <2>1
           DEF TInv, CInv, vars, cvars, ClientTypeOK, SessionOfRound, EndsAgree, HeadersOnce,
               Unwritten, Registering, OneClientSession
    <2> QED BY <1>1, <2>2 DEF TInv
<1>3. CASE TNext
    <2>1. CInv'
        BY <1>3, ForwardCInv, FConnCInv, OthersCInv, ServerCInv DEF TNext, Client
    <2> QED BY <1>1, <2>1 DEF TInv
<1> QED BY <1>2, <1>3

(* The inductive invariant of the composition.                             *)
THEOREM TInductive == TSpec => []TInv
BY InitTInv, NextTInv, PTL DEF TSpec

(* Type correctness of the client's Forward and of the server below it.    *)
THEOREM TunnelTypeCorrect == TSpec => []TTypeOK
<1>1. TInv => TTypeOK
    BY DEF TInv, CInv, IInv, ClientTypeOK, TTypeOK
<1> QED BY <1>1, TInductive, PTL

(* The client never keeps two sessions to the server.                      *)
THEOREM OneSession == TSpec => []OneClientSession
<1>1. TInv => OneClientSession
    BY DEF TInv, CInv
<1> QED BY <1>1, TInductive, PTL

(* With this client, over a transport that may break unnoticed, the server *)
(* behaves as MuxServer says: what is shown there of any clients applies.  *)
THEOREM ImplementsMuxServer == TSpec => Spec
<1>1. TInit => Init
    BY DEF TInit
<1> QED BY <1>1, TInductive, StepIsServers, PTL DEF TSpec, Spec

(* So in the composition no listener outlives its handler either.          *)
THEOREM TunnelListeners == TSpec => []ListenersOwned
BY ImplementsMuxServer, ListenersBelong, PTL

(* And the forward client's server lends ports as it does to any client.   *)
THEOREM TunnelLeases == TSpec => ImplementsLease
BY ImplementsMuxServer, ServerLeases, PTL
=============================================================================
