-------------------------------- MODULE Tunnel --------------------------------
(***************************************************************************)
(* longsocks forward: the client's Forward loop composed with the server's *)
(* mux sessions (MuxServer).  Forward dials a session, starts a listener   *)
(* per forward, registers its reverse ports, starts the loop that accepts  *)
(* reverse streams, waits for the session to close, and starts again once  *)
(* the goroutines it counts in its WaitGroup have returned.                *)
(* The two ends of a session see the loss of the transport at different    *)
(* times: yamux closes an end whose keepalive or write is not answered.    *)
(* What is sent in between is lost without an error.                       *)
(***************************************************************************)
EXTENDS MuxServer, FiniteSets

CONSTANTS
    Forwards,     \* -L specifications
    Reverses,     \* ports of the -R specifications, in order
    FConns,       \* local connections to forward listeners, bound: used once
    LimitRetries  \* --max-retry-count is not negative

ASSUME TunnelAssumption ==
    /\ Reverses \in Seq(Ports)
    /\ LimitRetries \in BOOLEAN
    /\ Cardinality(Streams) >= Cardinality(Sessions) * Len(Reverses) + Cardinality(FConns)

VARIABLES
    cpc,     \* where Forward is
    cs,      \* the session of the current round
    up,      \* the client's end of each yamux session
    broken,  \* the transport of the session no longer carries data
    k,       \* the reverse specification being registered
    bs,      \* the stream registerReverseBind has opened
    fl,      \* runForwardListener, per forward
    ar,      \* acceptReverseStreams
    fconn,   \* forwardConn, per local connection
    lconn    \* the client's half of each reverse connection

cvars == <<cpc, cs, up, broken, k, bs, fl, ar, fconn, lconn>>
tvars == <<vars, cvars>>

TInit ==
    /\ Init
    /\ cpc = "dial"
    /\ cs = None
    /\ up = [i \in Sessions |-> "none"]
    /\ broken = [i \in Sessions |-> FALSE]
    /\ k = 1
    /\ bs = None
    /\ fl = [f \in Forwards |-> "off"]
    /\ ar = "off"
    /\ fconn = [c \in FConns |-> [st |-> "new", sess |-> None, str |-> None]]
    /\ lconn = [c \in RConns |-> "none"]

-----------------------------------------------------------------------------
(* The client's end of a session *)

\* session.Open on the client: the stream joins the server's accept queue
\* unless the transport is broken, when it is lost and nobody notices yet.
\* Unused streams and sessions are alike: the first one is taken.
Open(i, s) ==
    /\ up[i] = "up"
    /\ st[s] = "new"
    /\ s = CHOOSE x \in Streams : st[x] = "new"
    /\ st' = [st EXCEPT ![s] = IF broken[i] THEN "closed" ELSE "queued"]
    /\ backlog' = [backlog EXCEPT ![i] = IF broken[i] THEN @ ELSE Append(@, s)]
    /\ UNCHANGED <<sess, hpc, cur, hdr, owner, listeners, rconn>>

\* session.Open or a write fails: the session is closed, or the write timed
\* out because the transport is broken.
WriteFails(i) == up[i] = "closed" \/ broken[i]

\* mux.WriteHeader on stream s of session i.
SendHeader(i, s, h) ==
    /\ up[i] = "up"
    /\ hdr' = [hdr EXCEPT ![s] = IF broken[i] THEN @ ELSE h]
    /\ UNCHANGED <<sess, hpc, backlog, cur, st, owner, listeners, rconn>>

-----------------------------------------------------------------------------
(* Forward *)

\* dialMuxSession succeeds: the server starts a handler, the client starts
\* the forward listeners and goes on to the reverse specifications.
DialSession(i) ==
    /\ cpc = "dial"
    /\ Upgrade(i)
    /\ i = CHOOSE x \in Sessions : sess[x] = "none"
    /\ cs' = i
    /\ up' = [up EXCEPT ![i] = "up"]
    /\ fl' = [f \in Forwards |-> "starting"]
    /\ k' = 1
    /\ cpc' = "bind"
    /\ UNCHANGED <<broken, bs, ar, fconn, lconn>>

\* dialMuxSession runs out of retries: Forward returns the error.
DialGiveUp ==
    /\ cpc = "dial"
    /\ LimitRetries
    /\ cpc' = "exit"
    /\ UNCHANGED <<vars, cs, up, broken, k, bs, fl, ar, fconn, lconn>>

\* registerReverseBind: open a stream ...
BindOpen(s) ==
    /\ cpc = "bind"
    /\ k <= Len(Reverses)
    /\ Open(cs, s)
    /\ bs' = s
    /\ cpc' = "bindHeader"
    /\ UNCHANGED <<cs, up, broken, k, fl, ar, fconn, lconn>>

\* ... and write the header.  There is no answer to wait for.
BindHeader ==
    /\ cpc = "bindHeader"
    /\ SendHeader(cs, bs, [cmd |-> "bind", addr |-> Reverses[k]])
    /\ k' = k + 1
    /\ bs' = None
    /\ cpc' = "bind"
    /\ UNCHANGED <<cs, up, broken, fl, ar, fconn, lconn>>

\* Either fails: log it and go on with the next specification.
BindError ==
    /\ (cpc = "bind" /\ k <= Len(Reverses)) \/ cpc = "bindHeader"
    /\ WriteFails(cs)
    /\ k' = k + 1
    /\ bs' = None
    /\ cpc' = "bind"
    /\ UNCHANGED <<vars, cs, up, broken, fl, ar, fconn, lconn>>

\* All are registered: accept reverse streams, wait for the session's end.
Watch ==
    /\ cpc = "bind"
    /\ k > Len(Reverses)
    /\ ar' = IF Reverses # <<>> THEN "running" ELSE "off"
    /\ cpc' = "watch"
    /\ UNCHANGED <<vars, cs, up, broken, k, bs, fl, fconn, lconn>>

\* Mutant: a failed write counts as the loss, and session.Close is missing.
LostUnclosed ==
    /\ cpc = "watch"
    /\ WriteFails(cs)
    /\ cpc' = "drain"
    /\ UNCHANGED <<vars, cs, up, broken, k, bs, fl, ar, fconn, lconn>>

\* "session lost, reconnecting": session.Close, then wg.Wait.
Lost ==
    /\ cpc = "watch"
    /\ up[cs] = "closed"
    /\ broken' = [broken EXCEPT ![cs] = TRUE]
    /\ cpc' = "drain"
    /\ UNCHANGED <<vars, cs, up, k, bs, fl, ar, fconn, lconn>>

\* wg.Wait returns: every forward listener and the accept loop have ended.
Redial ==
    /\ cpc = "drain"
    /\ \A f \in Forwards : fl[f] = "off"
    /\ ar = "off"
    /\ cpc' = "dial"
    /\ UNCHANGED <<vars, cs, up, broken, k, bs, fl, ar, fconn, lconn>>

Forward ==
    \/ \E i \in Sessions : DialSession(i)
    \/ DialGiveUp
    \/ \E s \in Streams : BindOpen(s)
    \/ BindHeader \/ BindError \/ Watch \/ Lost \/ Redial

-----------------------------------------------------------------------------
(* runForwardListener and forwardConn *)

ListenerStart(f) ==
    /\ fl[f] = "starting"
    /\ fl' = [fl EXCEPT ![f] = "listening"]
    /\ UNCHANGED <<vars, cpc, cs, up, broken, k, bs, ar, fconn, lconn>>

\* net.Listen fails, or ln.Accept does: the goroutine returns the error.
ListenerError(f) ==
    /\ fl[f] = "starting" \/ (fl[f] = "listening" /\ AcceptMayFail)
    /\ fl' = [fl EXCEPT ![f] = "off"]
    /\ UNCHANGED <<vars, cpc, cs, up, broken, k, bs, ar, fconn, lconn>>

SetFConn(c, x) == fconn' = [fconn EXCEPT ![c].st = x]

\* ln.Accept returns a connection, the session being closed or not.
LocalAccept(f, c) ==
    /\ fl[f] = "listening"
    /\ fconn[c].st = "new"
    /\ fconn' = [fconn EXCEPT ![c] = [st |-> "accepted", sess |-> cs, str |-> None]]
    /\ UNCHANGED <<vars, cpc, cs, up, broken, k, bs, fl, ar, lconn>>

FConnOpen(c, s) ==
    /\ fconn[c].st = "accepted"
    /\ Open(fconn[c].sess, s)
    /\ fconn' = [fconn EXCEPT ![c].st = "opened", ![c].str = s]
    /\ UNCHANGED <<cpc, cs, up, broken, k, bs, fl, ar, lconn>>

\* Mutant: forwardConn relays without a header.
FConnHeaderForgets(c) ==
    /\ fconn[c].st = "opened"
    /\ SetFConn(c, "relaying")
    /\ UNCHANGED <<vars, cpc, cs, up, broken, k, bs, fl, ar, lconn>>

FConnHeader(c) ==
    /\ fconn[c].st = "opened"
    /\ SendHeader(fconn[c].sess, fconn[c].str, [cmd |-> "connect", addr |-> None])
    /\ SetFConn(c, "relaying")
    /\ UNCHANGED <<cpc, cs, up, broken, k, bs, fl, ar, lconn>>

\* Mutant: the local connection is closed only when the stream was opened.
FConnErrorLeaks(c) ==
    /\ fconn[c].st = "opened"
    /\ WriteFails(fconn[c].sess)
    /\ SetFConn(c, "closed")
    /\ UNCHANGED <<vars, cpc, cs, up, broken, k, bs, fl, ar, lconn>>

FConnError(c) ==
    /\ fconn[c].st \in {"accepted", "opened"}
    /\ WriteFails(fconn[c].sess)
    /\ SetFConn(c, "closed")
    /\ UNCHANGED <<vars, cpc, cs, up, broken, k, bs, fl, ar, lconn>>

\* relay.Relay returns.
FConnEnd(c) ==
    /\ fconn[c].st = "relaying"
    /\ SetFConn(c, "closed")
    /\ UNCHANGED <<vars, cpc, cs, up, broken, k, bs, fl, ar, lconn>>

FConn(c) ==
    \/ \E s \in Streams : FConnOpen(c, s)
    \/ FConnHeader(c) \/ FConnError(c) \/ FConnEnd(c)

-----------------------------------------------------------------------------
(* acceptReverseStreams and handleLocalReverseConn *)

\* A reverse stream arrives with its header; reverseLookup knows its port.
AcceptReverse(c) ==
    /\ ar = "running"
    /\ rconn[c].st = "relaying"
    /\ rconn[c].sess = cs
    /\ lconn[c] = "none"
    /\ ~broken[cs]
    /\ lconn' = [lconn EXCEPT ![c] =
                     IF \E n \in DOMAIN Reverses : Reverses[n] = rconn[c].port
                     THEN "dialing" ELSE "closed"]
    /\ UNCHANGED <<vars, cpc, cs, up, broken, k, bs, fl, ar, fconn>>

\* Mutant: the loop goes on after an error.
AcceptReverseContinues ==
    /\ ar = "running"
    /\ WriteFails(cs)
    /\ UNCHANGED tvars

\* session.Accept fails: the loop returns.
AcceptReverseError ==
    /\ ar = "running"
    /\ WriteFails(cs)
    /\ ar' = "off"
    /\ UNCHANGED <<vars, cpc, cs, up, broken, k, bs, fl, fconn, lconn>>

\* The local target is dialed; the error path closes the stream.
LocalDial(c) ==
    /\ lconn[c] = "dialing"
    /\ \E x \in {"relaying", "closed"} : lconn' = [lconn EXCEPT ![c] = x]
    /\ UNCHANGED <<vars, cpc, cs, up, broken, k, bs, fl, ar, fconn>>

LocalEnd(c) ==
    /\ lconn[c] = "relaying"
    /\ lconn' = [lconn EXCEPT ![c] = "closed"]
    /\ UNCHANGED <<vars, cpc, cs, up, broken, k, bs, fl, ar, fconn>>

Client ==
    \/ Forward
    \/ \E f \in Forwards : ListenerStart(f) \/ ListenerError(f)
    \/ \E f \in Forwards, c \in FConns : LocalAccept(f, c)
    \/ \E c \in FConns : FConn(c)
    \/ AcceptReverseError
    \/ \E c \in RConns : AcceptReverse(c) \/ LocalDial(c) \/ LocalEnd(c)

-----------------------------------------------------------------------------
(* The transport and the two yamux ends *)

Break(i) ==
    /\ sess[i] = "up"
    /\ ~broken[i]
    /\ broken' = [broken EXCEPT ![i] = TRUE]
    /\ UNCHANGED <<vars, cpc, cs, up, k, bs, fl, ar, fconn, lconn>>

\* The server's end notices: a read error, a keepalive that is not answered.
ServerDetects(i) ==
    /\ broken[i]
    /\ SessionLost(i)
    /\ UNCHANGED cvars

\* The client's end notices.
ClientDetects(i) ==
    /\ broken[i]
    /\ up[i] = "up"
    /\ up' = [up EXCEPT ![i] = "closed"]
    /\ UNCHANGED <<vars, cpc, cs, broken, k, bs, fl, ar, fconn, lconn>>

\* A step of the server.  A handler that ends closes the WebSocket.
ServerStep ==
    /\ Server
    /\ broken' = [i \in Sessions |-> broken[i] \/ hpc'[i] = "done"]
    /\ UNCHANGED <<cpc, cs, up, k, bs, fl, ar, fconn, lconn>>

TNext ==
    \/ Client
    \/ ServerStep
    \/ \E i \in Sessions : Break(i) \/ ServerDetects(i) \/ ClientDetects(i)

\* Goroutines that can run do, and yamux's keepalive notices a broken
\* transport.  Nothing makes a local client connect, a relay end, a dial
\* return or a listener fail.
TFairness ==
    /\ WF_tvars(cpc # "dial" /\ Forward)
    /\ WF_tvars(AcceptReverseError)
    /\ \A f \in Forwards : WF_tvars(ListenerStart(f))
    /\ \A c \in FConns : WF_tvars(FConn(c))
    /\ \A i \in Sessions :
           /\ WF_tvars(Handler(i) /\ ServerStep)
           /\ WF_tvars(ServerDetects(i))
           /\ WF_tvars(ClientDetects(i))

TSpec == TInit /\ [][TNext]_tvars /\ TFairness

-----------------------------------------------------------------------------
TTypeOK ==
    /\ TypeOK
    /\ cpc \in {"dial", "bind", "bindHeader", "watch", "drain", "exit"}
    /\ cs \in Sessions \cup {None}
    /\ up \in [Sessions -> {"none", "up", "closed"}]
    /\ broken \in [Sessions -> BOOLEAN]
    /\ k \in 1..(Len(Reverses) + 1)
    /\ bs \in Streams \cup {None}
    /\ fl \in [Forwards -> {"off", "starting", "listening"}]
    /\ ar \in {"off", "running"}
    /\ fconn \in [FConns -> [st : {"new", "accepted", "opened", "relaying", "closed"},
                             sess : Sessions \cup {None}, str : Streams \cup {None}]]
    /\ lconn \in [RConns -> {"none", "dialing", "relaying", "closed"}]

(* The client never keeps two sessions to the server: an end that is up     *)
(* belongs to the round Forward is in, and there is none while it dials     *)
(* (forward.go Forward).                                                    *)
OneClientSession ==
    \A i \in Sessions : up[i] = "up" => i = cs /\ cpc \notin {"drain", "dial", "exit"}

(* forward.go: "It reconnects automatically when the session is lost."      *)
(* README.md: "The client reconnects automatically with exponential backoff *)
(* when the server connection is lost."                                     *)
RedialsAfterLoss ==
    \A i \in Sessions :
        (cs = i /\ broken[i] /\ cpc \in {"bind", "bindHeader", "watch", "drain"})
            ~> (cpc = "dial")

(* After a loss Forward dials again, at whatever moment of its round the    *)
(* transport breaks and in whatever order the two ends notice, unless a     *)
(* forward listener goes on listening for ever: wg.Wait returns, and the    *)
(* accept loop of reverse streams does not outlive the session (forward.go).*)
RedialsUnlessListening ==
    (cs # None /\ broken[cs] /\ cpc \in {"bind", "bindHeader", "watch", "drain"})
        ~> (cpc = "dial" \/ \E f \in Forwards : [](fl[f] = "listening"))

(* Even when the client disappears between opening a stream and writing its *)
(* header, the server's handler of that session ends, and frees its ports.  *)
StaleHandlerEnds ==
    \A i \in Sessions : up[i] = "closed" ~> (hpc[i] = "done" /\ \A p \in Ports : owner[p] # i)

(* The handler reads headers in its accept loop, so one stream can hold up  *)
(* those behind it; but every stream this client opens is accepted, unless  *)
(* the session ends first.                                                  *)
Waiting(s) ==
    \E i \in Sessions : hpc[i] # "done" /\ \E n \in DOMAIN backlog[i] : backlog[i][n] = s
StreamsAccepted == \A s \in Streams : Waiting(s) ~> ~Waiting(s)

(* A connection to a forward listener is relayed or closed, even when its   *)
(* session is closed by the time forwardConn opens a stream.                *)
LocalConnResolved ==
    \A c \in FConns : fconn[c].st = "accepted" ~> fconn[c].st \in {"relaying", "closed"}

(* README.md, reverse port forwarding: "The server binds the port and       *)
(* forwards incoming connections back to the client."  Once Forward has     *)
(* logged "reverse registered" for its ports, the server listens on them    *)
(* for this session, unless the session breaks.                             *)
ReverseRestored ==
    \A i \in Sessions :
        (cs = i /\ cpc = "watch")
            ~> (broken[i] \/ \A n \in DOMAIN Reverses : owner[Reverses[n]] = i)
=============================================================================
