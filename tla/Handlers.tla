------------------------------- MODULE Handlers -------------------------------
(***************************************************************************)
(* The handlers that serve one connection per request: the server's        *)
(* connectHandler for SOCKS5 over WebSocket and connectHTTPHandler for HTTP *)
(* CONNECT, and the client's connectProxy.handleConnect, whose target is a  *)
(* WebSocket to the server; and the accounting that the server's drive:     *)
(* audit events, the Prometheus metrics fed by those events, and the        *)
(* StatsAggregator with its periodic report, which reads four atomic        *)
(* counters one after the other.                                            *)
(***************************************************************************)
EXTENDS Integers, FiniteSets, Functions

CONSTANTS
    Conns,      \* requests, bound: each is served once
    Tokens,     \* identities; NoToken when authentication is off
    NoToken,
    Unknown,    \* the label that stands for NoToken in the metrics
    WithStats,  \* cfg.Stats != nil
    MaxBytes    \* bound: bytes a relay moves in one direction

ASSUME HandlersAssumption ==
    /\ IsFiniteSet(Conns)
    /\ IsFiniteSet(Tokens)
    /\ NoToken \in Tokens
    /\ Unknown \notin Tokens
    /\ WithStats \in BOOLEAN
    /\ MaxBytes \in Nat

VARIABLES
    pc,      \* where each handler is
    kind,    \* "ws" and "http" on the server, "proxy" on the client
    token,   \* tokenName
    client,  \* the client's connection: the HTTP server's, ours, or closed
    target,  \* tcpConn, or the proxy's wsConn
    bytes,   \* what relay.Relay returned
    metrics, \* per label: connections total and active, bytes
    denied,  \* AuthFailuresTotal
    stats,   \* StatsAggregator
    run,     \* where StatsAggregator.Run is
    snap,    \* the counters Run has loaded for the report in progress
    report   \* the last report logged

vars == <<pc, kind, token, client, target, bytes, metrics, denied, stats, run, snap, report>>

Kinds == {"ws", "http", "proxy"}
Audited(c) == kind[c] # "proxy"

Labels == (Tokens \ {NoToken}) \cup {Unknown}
Label(t) == IF t = NoToken THEN Unknown ELSE t
NoCounts == [active |-> 0, total |-> 0, tx |-> 0, rx |-> 0]
NoBytes == [tx |-> 0, rx |-> 0]

Init ==
    /\ pc = [c \in Conns |-> "new"]
    /\ kind = [c \in Conns |-> "ws"]
    /\ token = [c \in Conns |-> NoToken]
    /\ client = [c \in Conns |-> "none"]
    /\ target = [c \in Conns |-> "none"]
    /\ bytes = [c \in Conns |-> NoBytes]
    /\ metrics = [l \in Labels |-> NoCounts]
    /\ denied = 0
    /\ stats = NoCounts
    /\ run = "idle"
    /\ snap = NoCounts
    /\ report = NoCounts

accounts == <<metrics, denied, stats>>
reporting == <<run, snap, report>>

Goto(c, l) == pc' = [pc EXCEPT ![c] = l]
SetClient(c, x) == client' = [client EXCEPT ![c] = x]
SetTarget(c, x) == target' = [target EXCEPT ![c] = x]

-----------------------------------------------------------------------------
(* connectHandler and connectHTTPHandler up to the relay *)

\* net/http starts the handler of a request.  The proxy asks for no token.
Arrive(c, k, t) ==
    /\ pc[c] = "new"
    /\ k = "proxy" => t = NoToken
    /\ kind' = [kind EXCEPT ![c] = k]
    /\ token' = [token EXCEPT ![c] = t]
    /\ SetClient(c, "http")
    /\ Goto(c, "check")
    /\ UNCHANGED <<target, bytes, accounts, reporting>>

\* authenticateRequest answers 401 and logs auth.failure.
AuthFailure(c) ==
    /\ pc[c] = "check"
    /\ Audited(c)
    /\ denied' = denied + 1
    /\ SetClient(c, "answered")
    /\ Goto(c, "done")
    /\ UNCHANGED <<kind, token, target, bytes, metrics, stats, reporting>>

\* Wrong method, no target or a blocked one: an HTTP error is the answer.
Refuse(c) ==
    /\ pc[c] = "check"
    /\ SetClient(c, "answered")
    /\ Goto(c, "done")
    /\ UNCHANGED <<kind, token, target, bytes, accounts, reporting>>

Admit(c) ==
    /\ pc[c] = "check"
    /\ Goto(c, IF kind[c] = "ws" THEN "accept" ELSE "dial")
    /\ UNCHANGED <<kind, token, client, target, bytes, accounts, reporting>>

\* websocket.Accept: the WebSocket is established before the target is dialed.
Accept(c) ==
    /\ pc[c] = "accept"
    /\ \/ SetClient(c, "ours") /\ Goto(c, "dial")
       \/ SetClient(c, "answered") /\ Goto(c, "done")
    /\ UNCHANGED <<kind, token, target, bytes, accounts, reporting>>

\* Mutant: the WebSocket stays open when the target cannot be reached.
DialErrorLeaks(c) ==
    /\ pc[c] = "dial"
    /\ SetClient(c, IF kind[c] = "ws" THEN "ours" ELSE "answered")
    /\ Goto(c, "done")
    /\ UNCHANGED <<kind, token, target, bytes, accounts, reporting>>

\* net.DialTimeout or the proxy's dialServer fails: close the WebSocket, or answer 502.
DialError(c) ==
    /\ pc[c] = "dial"
    /\ SetClient(c, IF kind[c] = "ws" THEN "closed" ELSE "answered")
    /\ Goto(c, "done")
    /\ UNCHANGED <<kind, token, target, bytes, accounts, reporting>>

DialOK(c) ==
    /\ pc[c] = "dial"
    /\ SetTarget(c, "open")
    /\ Goto(c, IF kind[c] = "ws" THEN "logOpen" ELSE "hijack")
    /\ UNCHANGED <<kind, token, client, bytes, accounts, reporting>>

\* Hijack takes the connection over from net/http, or fails: close the target.
Hijack(c) ==
    /\ pc[c] = "hijack"
    /\ \/ SetClient(c, "ours") /\ UNCHANGED target
          /\ Goto(c, IF Audited(c) THEN "logOpen" ELSE "relay")
       \/ SetClient(c, "answered") /\ SetTarget(c, "closed") /\ Goto(c, "done")
    /\ UNCHANGED <<kind, token, bytes, accounts, reporting>>

-----------------------------------------------------------------------------
(* Accounting around the relay *)

\* audit.LogOpen; MetricsHandler.Handle counts the event under its label.
LogOpen(c) ==
    /\ pc[c] = "logOpen"
    /\ metrics' = [metrics EXCEPT ![Label(token[c])].total = @ + 1,
                                  ![Label(token[c])].active = @ + 1]
    /\ Goto(c, IF WithStats THEN "openActive" ELSE "relay")
    /\ UNCHANGED <<kind, token, client, target, bytes, denied, stats, reporting>>

\* StatsAggregator.ConnectionOpened: two atomic additions.
OpenActive(c) ==
    /\ pc[c] = "openActive"
    /\ stats' = [stats EXCEPT !.active = @ + 1]
    /\ Goto(c, "openTotal")
    /\ UNCHANGED <<kind, token, client, target, bytes, metrics, denied, reporting>>

OpenTotal(c) ==
    /\ pc[c] = "openTotal"
    /\ stats' = [stats EXCEPT !.total = @ + 1]
    /\ Goto(c, "relay")
    /\ UNCHANGED <<kind, token, client, target, bytes, metrics, denied, reporting>>

\* relay.Relay returns: both ends are closed (module Relay).
RelayReturns(c, tx, rx) ==
    /\ pc[c] = "relay"
    /\ bytes' = [bytes EXCEPT ![c] = [tx |-> tx, rx |-> rx]]
    /\ SetClient(c, "closed")
    /\ SetTarget(c, "closed")
    /\ Goto(c, IF Audited(c) THEN "logClose" ELSE "done")
    /\ UNCHANGED <<kind, token, accounts, reporting>>

\* Mutant: the close event does not map the empty name to its label.
LogCloseOtherLabel(c) ==
    /\ pc[c] = "logClose"
    /\ metrics' = [metrics EXCEPT ![Unknown].active = @ - 1,
                                  ![Unknown].tx = @ + bytes[c].tx,
                                  ![Unknown].rx = @ + bytes[c].rx]
    /\ Goto(c, IF WithStats THEN "closeActive" ELSE "done")
    /\ UNCHANGED <<kind, token, client, target, bytes, denied, stats, reporting>>

\* audit.LogClose and MetricsHandler.Handle.
LogClose(c) ==
    /\ pc[c] = "logClose"
    /\ metrics' = [metrics EXCEPT ![Label(token[c])].active = @ - 1,
                                  ![Label(token[c])].tx = @ + bytes[c].tx,
                                  ![Label(token[c])].rx = @ + bytes[c].rx]
    /\ Goto(c, IF WithStats THEN "closeActive" ELSE "done")
    /\ UNCHANGED <<kind, token, client, target, bytes, denied, stats, reporting>>

\* Mutant: a closed connection is taken off the total too.
CloseActiveTotal(c) ==
    /\ pc[c] = "closeActive"
    /\ stats' = [stats EXCEPT !.active = @ - 1, !.total = @ - 1]
    /\ Goto(c, "closeTx")
    /\ UNCHANGED <<kind, token, client, target, bytes, metrics, denied, reporting>>

\* StatsAggregator.ConnectionClosed: three atomic additions.
CloseActive(c) ==
    /\ pc[c] = "closeActive"
    /\ stats' = [stats EXCEPT !.active = @ - 1]
    /\ Goto(c, "closeTx")
    /\ UNCHANGED <<kind, token, client, target, bytes, metrics, denied, reporting>>

\* Mutant: the two byte counts are swapped.
CloseTxSwapped(c) ==
    /\ pc[c] = "closeTx"
    /\ stats' = [stats EXCEPT !.tx = @ + bytes[c].rx]
    /\ Goto(c, "closeRx")
    /\ UNCHANGED <<kind, token, client, target, bytes, metrics, denied, reporting>>

CloseTx(c) ==
    /\ pc[c] = "closeTx"
    /\ stats' = [stats EXCEPT !.tx = @ + bytes[c].tx]
    /\ Goto(c, "closeRx")
    /\ UNCHANGED <<kind, token, client, target, bytes, metrics, denied, reporting>>

CloseRx(c) ==
    /\ pc[c] = "closeRx"
    /\ stats' = [stats EXCEPT !.rx = @ + bytes[c].rx]
    /\ Goto(c, "done")
    /\ UNCHANGED <<kind, token, client, target, bytes, metrics, denied, reporting>>

-----------------------------------------------------------------------------
(* StatsAggregator.Run: four loads, then the log record *)

Loads == [idle |-> "active", active |-> "total", total |-> "tx", tx |-> "rx"]

\* The ticker fires, or Run goes on to load the next counter.
Load ==
    /\ WithStats
    /\ run \in DOMAIN Loads
    /\ run' = Loads[run]
    /\ snap' = [snap EXCEPT ![Loads[run]] = stats[Loads[run]]]
    /\ UNCHANGED <<pc, kind, token, client, target, bytes, accounts, report>>

LogReport ==
    /\ run = "rx"
    /\ report' = snap
    /\ run' = "idle"
    /\ UNCHANGED <<pc, kind, token, client, target, bytes, accounts, snap>>

Serve(c) ==
    \/ AuthFailure(c) \/ Refuse(c) \/ Admit(c) \/ Accept(c) \/ DialError(c) \/ DialOK(c)
    \/ Hijack(c) \/ LogOpen(c) \/ OpenActive(c) \/ OpenTotal(c)
    \/ \E tx, rx \in 0..MaxBytes : RelayReturns(c, tx, rx)
    \/ LogClose(c) \/ CloseActive(c) \/ CloseTx(c) \/ CloseRx(c)

Next ==
    \/ \E c \in Conns, k \in Kinds, t \in Tokens : Arrive(c, k, t)
    \/ \E c \in Conns : Serve(c)
    \/ Load \/ LogReport

Spec == Init /\ [][Next]_vars

-----------------------------------------------------------------------------
Counts == [active : Int, total : Int, tx : Int, rx : Int]

TypeOK ==
    /\ pc \in [Conns -> {"new", "check", "accept", "dial", "hijack", "logOpen", "openActive",
                         "openTotal", "relay", "logClose", "closeActive", "closeTx",
                         "closeRx", "done"}]
    /\ kind \in [Conns -> Kinds]
    /\ token \in [Conns -> Tokens]
    /\ client \in [Conns -> {"none", "http", "ours", "answered", "closed"}]
    /\ target \in [Conns -> {"none", "open", "closed"}]
    /\ bytes \in [Conns -> [tx : 0..MaxBytes, rx : 0..MaxBytes]]
    /\ metrics \in [Labels -> Counts]
    /\ denied \in Nat
    /\ stats \in Counts
    /\ run \in {"idle", "active", "total", "tx", "rx"}
    /\ snap \in Counts
    /\ report \in Counts

(* A handler that has returned leaves nothing open: neither a connection it *)
(* took over from net/http nor the one it dialed, on any of its paths       *)
(* (server.go connectHandler, connectHTTPHandler; connect.go handleConnect).*)
NothingLeftOpen ==
    \A c \in Conns : pc[c] = "done" =>
        client[c] \in {"answered", "closed"} /\ target[c] # "open"

Opened(l) ==
    {c \in Conns : /\ Audited(c) /\ Label(token[c]) = l
                   /\ target[c] # "none" /\ client[c] = "closed"}

(* When the handlers are idle the metrics have returned to zero active      *)
(* connections under every label, and count each relayed connection and its *)
(* bytes once (metrics.go Handle).                                          *)
Idle == \A c \in Conns : pc[c] \in {"new", "done"}
MetricsBalanced ==
    Idle => \A l \in Labels :
        metrics[l] = [active |-> 0, total |-> Cardinality(Opened(l)),
                      tx |-> SumFunctionOnSet([c \in Conns |-> bytes[c].tx], Opened(l)),
                      rx |-> SumFunctionOnSet([c \in Conns |-> bytes[c].rx], Opened(l))]

(* Two sources, one truth: when the handlers are idle the periodic          *)
(* statistics, updated outside the log, equal the metrics summed over the   *)
(* labels (stats.go against metrics.go).                                    *)
OverLabels(d) == SumFunctionOnSet([l \in Labels |-> metrics[l][d]], Labels)
StatsAgree ==
    Idle /\ WithStats =>
        stats = [active |-> OverLabels("active"), total |-> OverLabels("total"),
                 tx |-> OverLabels("tx"), rx |-> OverLabels("rx")]

(* A report is not a snapshot: its four loads interleave with the handlers. *)
(* Yet totals never go backwards from one report to the next (stats.go Run).*)
ReportsMonotone ==
    [][report'.total >= report.total /\ report'.tx >= report.tx /\ report'.rx >= report.rx]_vars
=============================================================================
