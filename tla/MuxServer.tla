------------------------------ MODULE MuxServer ------------------------------
(***************************************************************************)
(* The server's multiplexed sessions: muxHandler and the goroutines it     *)
(* starts (handleMuxConnect, handleReverseBind, handleReverseConn).  One   *)
(* handler runs per WebSocket accepted on /mux.  It accepts yamux streams  *)
(* one after the other, reads each stream's command header in its own      *)
(* loop, and owns the reverse listeners its client asked for.  The clients *)
(* here are arbitrary: they open streams, send any header or none, and     *)
(* their sessions break at any time.                                       *)
(***************************************************************************)
EXTENDS Naturals, Sequences

CONSTANTS
    Sessions,  \* mux sessions, bound: each is used once
    Streams,   \* streams clients open, bound: each is used once
    RConns,    \* connections to reverse listeners, bound: each is used once
    Ports,     \* addresses reverse listeners bind
    Reverse,   \* cfg.Reverse: --reverse was given
    BindMayFail,    \* net.Listen may fail on a port no session has bound: another
                    \* process has it, it is privileged, the address is no address
    AcceptMayFail,  \* ln.Accept may fail on an open listener (out of descriptors)
    None

ASSUME MuxServerAssumption ==
    /\ None \notin Sessions \cup Streams \cup Ports
    /\ Reverse \in BOOLEAN
    /\ BindMayFail \in BOOLEAN
    /\ AcceptMayFail \in BOOLEAN

VARIABLES
    sess,       \* the server's end of each yamux session
    hpc,        \* where the handler of each session is
    backlog,    \* streams opened and not yet accepted, per session
    cur,        \* the stream whose header the handler reads
    hdr,        \* the header that has arrived on each stream
    st,         \* the server's end of each stream
    owner,      \* the session whose listener is bound to each port
    listeners,  \* reverseListeners of each handler, the closed ones included
    rconn       \* connections accepted by reverse listeners

vars == <<sess, hpc, backlog, cur, hdr, st, owner, listeners, rconn>>

\* What ReadHeader makes of a stream's first bytes.  "bad" is a header cut
\* short or too long, "other" a command byte that the server does not know.
NoHeader == [cmd |-> "none", addr |-> None]
Headers ==
    [cmd : {"bind"}, addr : Ports]
        \cup [cmd : {"connect", "other", "bad"}, addr : {None}]

Init ==
    /\ sess = [i \in Sessions |-> "none"]
    /\ hpc = [i \in Sessions |-> "none"]
    /\ backlog = [i \in Sessions |-> <<>>]
    /\ cur = [i \in Sessions |-> None]
    /\ hdr = [s \in Streams |-> NoHeader]
    /\ st = [s \in Streams |-> "new"]
    /\ owner = [p \in Ports |-> None]
    /\ listeners = [i \in Sessions |-> {}]
    /\ rconn = [c \in RConns |-> [st |-> "new", port |-> None, sess |-> None]]

-----------------------------------------------------------------------------
(* muxHandler *)

\* The request is authenticated, the WebSocket accepted, yamux started.
Upgrade(i) ==
    /\ sess[i] = "none"
    /\ sess' = [sess EXCEPT ![i] = "up"]
    /\ hpc' = [hpc EXCEPT ![i] = "accept"]
    /\ UNCHANGED <<backlog, cur, hdr, st, owner, listeners, rconn>>

\* session.Accept returns the next stream.  Its select may still do so when
\* the session is closed.
AcceptStream(i) ==
    /\ hpc[i] = "accept"
    /\ backlog[i] # <<>>
    /\ cur' = [cur EXCEPT ![i] = Head(backlog[i])]
    /\ st' = [st EXCEPT ![Head(backlog[i])] = "reading"]
    /\ backlog' = [backlog EXCEPT ![i] = Tail(@)]
    /\ hpc' = [hpc EXCEPT ![i] = "header"]
    /\ UNCHANGED <<sess, hdr, owner, listeners, rconn>>

\* The loop goes on with the next stream, the current one being left in state x.
NextStream(i, x) ==
    /\ st' = [st EXCEPT ![cur[i]] = x]
    /\ cur' = [cur EXCEPT ![i] = None]
    /\ hpc' = [hpc EXCEPT ![i] = "accept"]
    /\ UNCHANGED <<sess, backlog, hdr, rconn>>

\* Mutant: a session that closes does not wake up the read of a header.
HeaderErrorOnlyBad(i) ==
    /\ hpc[i] = "header"
    /\ hdr[cur[i]].cmd = "bad"
    /\ NextStream(i, "closed")
    /\ UNCHANGED <<owner, listeners>>

\* ReadHeader fails: the header is truncated or its address too long, or the
\* session closed before all of it arrived.
HeaderError(i) ==
    /\ hpc[i] = "header"
    /\ \/ hdr[cur[i]].cmd = "bad"
       \/ sess[i] = "closed" /\ hdr[cur[i]] = NoHeader
    /\ NextStream(i, "closed")
    /\ UNCHANGED <<owner, listeners>>

\* CmdConnect: a goroutine of its own dials the target.
HeaderConnect(i) ==
    /\ hpc[i] = "header"
    /\ hdr[cur[i]].cmd = "connect"
    /\ NextStream(i, "dialing")
    /\ UNCHANGED <<owner, listeners>>

\* CmdReverseBind without --reverse, or net.Listen fails: a session has the
\* port, or the address cannot be bound for a cause of its own.
HeaderBindRefused(i) ==
    /\ hpc[i] = "header"
    /\ hdr[cur[i]].cmd = "bind"
    /\ ~Reverse \/ owner[hdr[cur[i]].addr] # None \/ BindMayFail
    /\ NextStream(i, "closed")
    /\ UNCHANGED <<owner, listeners>>

\* Mutant: the new listener is not remembered for the deferred clean-up.
HeaderBindForgets(i) ==
    /\ hpc[i] = "header"
    /\ hdr[cur[i]].cmd = "bind"
    /\ Reverse
    /\ owner[hdr[cur[i]].addr] = None
    /\ owner' = [owner EXCEPT ![hdr[cur[i]].addr] = i]
    /\ NextStream(i, "bound")
    /\ UNCHANGED listeners

\* CmdReverseBind: handleReverseBind listens, the handler remembers the
\* listener.  The stream is neither answered nor closed.
HeaderBind(i) ==
    /\ hpc[i] = "header"
    /\ hdr[cur[i]].cmd = "bind"
    /\ Reverse
    /\ owner[hdr[cur[i]].addr] = None
    /\ owner' = [owner EXCEPT ![hdr[cur[i]].addr] = i]
    /\ listeners' = [listeners EXCEPT ![i] = @ \cup {hdr[cur[i]].addr}]
    /\ NextStream(i, "bound")

\* Any other command byte.
HeaderUnknown(i) ==
    /\ hpc[i] = "header"
    /\ hdr[cur[i]].cmd = "other"
    /\ NextStream(i, "closed")
    /\ UNCHANGED <<owner, listeners>>

\* session.Accept fails: leave the loop.
AcceptError(i) ==
    /\ hpc[i] = "accept"
    /\ sess[i] = "closed"
    /\ hpc' = [hpc EXCEPT ![i] = "closing"]
    /\ UNCHANGED <<sess, backlog, cur, hdr, st, owner, listeners, rconn>>

\* session.Accept takes a stream but cannot acknowledge it in time: it fails
\* on a session that is up, and the handler gives the session up.
AcceptAckError(i) ==
    /\ hpc[i] = "accept"
    /\ backlog[i] # <<>>
    /\ st' = [st EXCEPT ![Head(backlog[i])] = "closed"]
    /\ backlog' = [backlog EXCEPT ![i] = Tail(@)]
    /\ hpc' = [hpc EXCEPT ![i] = "closing"]
    /\ UNCHANGED <<sess, cur, hdr, owner, listeners, rconn>>

\* The deferred loop closes a listener; one that is closed already, and whose
\* port another session may have bound since, is left alone.
CloseListener(i, p) ==
    /\ hpc[i] = "closing"
    /\ p \in listeners[i]
    /\ listeners' = [listeners EXCEPT ![i] = @ \ {p}]
    /\ owner' = [owner EXCEPT ![p] = IF @ = i THEN None ELSE @]
    /\ UNCHANGED <<sess, hpc, backlog, cur, hdr, st, rconn>>

\* The last deferred call is session.Close.
Finish(i) ==
    /\ hpc[i] = "closing"
    /\ listeners[i] = {}
    /\ sess' = [sess EXCEPT ![i] = "closed"]
    /\ hpc' = [hpc EXCEPT ![i] = "done"]
    /\ UNCHANGED <<backlog, cur, hdr, st, owner, listeners, rconn>>

Handler(i) ==
    \/ AcceptStream(i) \/ HeaderError(i) \/ HeaderConnect(i)
    \/ HeaderBindRefused(i) \/ HeaderBind(i) \/ HeaderUnknown(i)
    \/ AcceptError(i) \/ AcceptAckError(i) \/ Finish(i)
    \/ \E p \in Ports : CloseListener(i, p)

-----------------------------------------------------------------------------
(* handleMuxConnect: one goroutine per accepted CmdConnect stream *)

\* validateTarget refuses the target or the dial fails; the stream is closed.
ConnectFail(s) ==
    /\ st[s] = "dialing"
    /\ st' = [st EXCEPT ![s] = "closed"]
    /\ UNCHANGED <<sess, hpc, backlog, cur, hdr, owner, listeners, rconn>>

ConnectOK(s) ==
    /\ st[s] = "dialing"
    /\ st' = [st EXCEPT ![s] = "relaying"]
    /\ UNCHANGED <<sess, hpc, backlog, cur, hdr, owner, listeners, rconn>>

\* relay.Relay returns; the deferred stream.Close follows.
ConnectEnd(s) ==
    /\ st[s] = "relaying"
    /\ st' = [st EXCEPT ![s] = "closed"]
    /\ UNCHANGED <<sess, hpc, backlog, cur, hdr, owner, listeners, rconn>>

-----------------------------------------------------------------------------
(* handleReverseBind's accept loop, and handleReverseConn *)

SetConn(c, x) == rconn' = [rconn EXCEPT ![c].st = x]

\* Mutant: the accept loop serves whichever session is up.
ReverseAcceptAnySession(p, c) ==
    /\ owner[p] # None
    /\ rconn[c].st = "new"
    /\ \E i \in Sessions :
           /\ sess[i] = "up"
           /\ rconn' = [rconn EXCEPT ![c] = [st |-> "accepted", port |-> p, sess |-> i]]
    /\ UNCHANGED <<sess, hpc, backlog, cur, hdr, st, owner, listeners>>

\* ln.Accept returns a connection; handleReverseConn gets a goroutine.
ReverseAccept(p, c) ==
    /\ owner[p] # None
    /\ rconn[c].st = "new"
    /\ rconn' = [rconn EXCEPT ![c] = [st |-> "accepted", port |-> p, sess |-> owner[p]]]
    /\ UNCHANGED <<sess, hpc, backlog, cur, hdr, st, owner, listeners>>

\* ln.Accept fails although nobody closed the listener: the loop returns and
\* its deferred ln.Close frees the port.
ReverseAcceptError(p) ==
    /\ AcceptMayFail
    /\ owner[p] # None
    /\ owner' = [owner EXCEPT ![p] = None]
    /\ UNCHANGED <<sess, hpc, backlog, cur, hdr, st, listeners, rconn>>

\* session.Open, on a session that may have closed since.
ReverseOpen(c) ==
    /\ rconn[c].st = "accepted"
    /\ sess[rconn[c].sess] = "up"
    /\ SetConn(c, "opened")
    /\ UNCHANGED <<sess, hpc, backlog, cur, hdr, st, owner, listeners>>

\* Mutant: the error path of session.Open forgets the accepted connection.
ReverseOpenErrorLeaks(c) ==
    /\ rconn[c].st = "accepted"
    /\ sess[rconn[c].sess] # "up"
    /\ UNCHANGED vars

ReverseOpenError(c) ==
    /\ rconn[c].st = "accepted"
    /\ SetConn(c, "closed")
    /\ UNCHANGED <<sess, hpc, backlog, cur, hdr, st, owner, listeners>>

\* WriteHeader, then relay.Relay; or the error path closes both ends.
ReverseHeader(c) ==
    /\ rconn[c].st = "opened"
    /\ SetConn(c, "relaying")
    /\ UNCHANGED <<sess, hpc, backlog, cur, hdr, st, owner, listeners>>

ReverseHeaderError(c) ==
    /\ rconn[c].st = "opened"
    /\ SetConn(c, "closed")
    /\ UNCHANGED <<sess, hpc, backlog, cur, hdr, st, owner, listeners>>

ReverseEnd(c) ==
    /\ rconn[c].st = "relaying"
    /\ SetConn(c, "closed")
    /\ UNCHANGED <<sess, hpc, backlog, cur, hdr, st, owner, listeners>>

Connect(s) == ConnectFail(s) \/ ConnectOK(s) \/ ConnectEnd(s)

ReverseConn(c) ==
    \/ ReverseOpen(c) \/ ReverseOpenError(c)
    \/ ReverseHeader(c) \/ ReverseHeaderError(c) \/ ReverseEnd(c)

Server ==
    \/ \E i \in Sessions : Handler(i)
    \/ \E s \in Streams : Connect(s)
    \/ \E p \in Ports : ReverseAcceptError(p) \/ \E c \in RConns : ReverseAccept(p, c)
    \/ \E c \in RConns : ReverseConn(c)

-----------------------------------------------------------------------------
(* Environment: arbitrary clients and an unreliable transport *)

ClientOpen(s, i) ==
    /\ sess[i] = "up"
    /\ st[s] = "new"
    /\ st' = [st EXCEPT ![s] = "queued"]
    /\ backlog' = [backlog EXCEPT ![i] = Append(@, s)]
    /\ UNCHANGED <<sess, hpc, cur, hdr, owner, listeners, rconn>>

\* The transport no longer carries data, which neither end has noticed.
ClientOpenLost(s) ==
    /\ st[s] = "new"
    /\ st' = [st EXCEPT ![s] = "closed"]
    /\ UNCHANGED <<sess, hpc, backlog, cur, hdr, owner, listeners, rconn>>

\* A header may arrive on a stream that the server has closed already.
ClientHeader(s, h) ==
    /\ st[s] # "new"
    /\ hdr[s] = NoHeader
    /\ hdr' = [hdr EXCEPT ![s] = h]
    /\ UNCHANGED <<sess, hpc, backlog, cur, st, owner, listeners, rconn>>

SessionLost(i) ==
    /\ sess[i] = "up"
    /\ sess' = [sess EXCEPT ![i] = "closed"]
    /\ UNCHANGED <<hpc, backlog, cur, hdr, st, owner, listeners, rconn>>

Clients ==
    \/ \E i \in Sessions : Upgrade(i) \/ SessionLost(i)
    \/ \E s \in Streams : ClientOpenLost(s) \/ \E i \in Sessions : ClientOpen(s, i)
    \/ \E s \in Streams, h \in Headers : ClientHeader(s, h)

Next == Server \/ Clients

\* Goroutines that can run do.  Nothing obliges a client to send a header.
Fairness ==
    /\ \A i \in Sessions : WF_vars(Handler(i))
    /\ \A c \in RConns : WF_vars(ReverseConn(c))

Spec == Init /\ [][Next]_vars
FairSpec == Spec /\ Fairness

-----------------------------------------------------------------------------
TypeOK ==
    /\ sess \in [Sessions -> {"none", "up", "closed"}]
    /\ hpc \in [Sessions -> {"none", "accept", "header", "closing", "done"}]
    /\ backlog \in [Sessions -> Seq(Streams)]
    /\ cur \in [Sessions -> Streams \cup {None}]
    /\ hdr \in [Streams -> Headers \cup {NoHeader}]
    /\ st \in [Streams -> {"new", "queued", "reading", "dialing", "relaying", "bound", "closed"}]
    /\ owner \in [Ports -> Sessions \cup {None}]
    /\ listeners \in [Sessions -> SUBSET Ports]
    /\ rconn \in [RConns -> [st : {"new", "accepted", "opened", "relaying", "closed"},
                             port : Ports \cup {None}, sess : Sessions \cup {None}]]

(* A reverse listener never outlives the handler that opened it: the port   *)
(* of a bound listener is on its handler's list, and that handler has not   *)
(* finished (server.go muxHandler, deferred clean-up).                      *)
ListenersOwned ==
    \A p \in Ports : owner[p] # None =>
        /\ p \in listeners[owner[p]]
        /\ hpc[owner[p]] \in {"accept", "header", "closing"}

Wanted(i) ==
    IF hpc[i] = "header" /\ hdr[cur[i]].cmd = "bind" THEN {hdr[cur[i]].addr} ELSE {}

Lease ==
    INSTANCE PortLease
        WITH Conns <- RConns, Lending <- Reverse, MayRefuse <- BindMayFail,
             MayBreak <- AcceptMayFail, Nobody <- None,
             stage <- [i \in Sessions |-> IF hpc[i] = "header" THEN "accept" ELSE hpc[i]],
             wants <- [i \in Sessions |-> Wanted(i)],
             holder <- owner,
             conns <- [c \in RConns |->
                          IF rconn[c].st = "opened" THEN [rconn[c] EXCEPT !.st = "accepted"] ELSE rconn[c]]

(* Handlers, header streams, lists of listeners and deferred closes are a   *)
(* lease of ports: a bind request gets a port that no session has, or is    *)
(* refused because one has it, because --reverse is not set or because      *)
(* net.Listen fails on it anyway; a port has one session at a time, which   *)
(* loses it only by a failing listener or by its own end, the clean-up of   *)
(* another session included; a session is over only without ports, and a    *)
(* connection is carried by the session that held the port when it came     *)
(* (server.go muxHandler, handleReverseBind, handleReverseConn).            *)
ImplementsLease == Lease!Spec

(* Each stream is handled once: it waits at one place of one accept queue,  *)
(* or its header is read by one handler, or it has left both (server.go     *)
(* muxHandler, one accept loop per session).                                *)
StreamsOnce ==
    /\ \A i \in Sessions : cur[i] # None => st[cur[i]] = "reading"
    /\ \A i, j \in Sessions : cur[i] = cur[j] /\ cur[i] # None => i = j
    /\ \A i \in Sessions : \A n \in 1..Len(backlog[i]) : st[backlog[i][n]] = "queued"
    /\ \A i, j \in Sessions : \A m \in 1..Len(backlog[i]), n \in 1..Len(backlog[j]) :
           backlog[i][m] = backlog[j][n] => i = j /\ m = n

(* When a session closes its ports are released, whatever the handler was   *)
(* doing: even blocked on a header the client never sent.                   *)
PortsReleased ==
    \A i \in Sessions, p \in Ports :
        (sess[i] = "closed" /\ hpc[i] # "none") ~> (owner[p] # i)

(* A connection to a reverse port is relayed or closed, never forgotten,    *)
(* even when the session closes between ln.Accept and session.Open.         *)
ReverseConnResolved ==
    \A c \in RConns : rconn[c].st = "accepted" ~> rconn[c].st \in {"relaying", "closed"}
=============================================================================
