------------------------------ MODULE DialRetry ------------------------------
(***************************************************************************)
(* The client's dial loops: makeDialer (SOCKS5), dialServer (HTTP CONNECT),*)
(* dialMuxSession (multiplexed) and NewUDPRelay.  Each dials a WebSocket   *)
(* (dialWebSocket), checks the pinned fingerprint, for a mux session       *)
(* starts yamux on it, and after any error asks the backoff for a delay.   *)
(* One loop runs from its first dial to its result.                        *)
(***************************************************************************)
EXTENDS Backoff

CONSTANTS
    MaxRetryCounts,  \* values of --max-retry-count
    MaxIntervals,    \* values of --max-retry-interval, in milliseconds
    JitterPct,       \* jitter factors, in percent
    AttemptBound     \* where the model stops counting attempts

ASSUME DialRetryAssumption ==
    /\ MaxRetryCounts \subseteq Int
    /\ MaxIntervals \subseteq Int
    /\ JitterPct \subseteq 50..149
    /\ AttemptBound \in Nat
    /\ \A m \in MaxRetryCounts : m < AttemptBound

Kinds == {"makeDialer", "dialServer", "dialMuxSession", "NewUDPRelay"}
Fingerprints == {"pinned", "other"}

VARIABLES
    cfg,      \* the loop's kind, whether a fingerprint is pinned, its limits
    pc,       \* where the loop is
    bo,       \* its Backoff
    delay,    \* the delay it sleeps for, 0 when it does not sleep
    ctxDone,  \* the caller's context is done
    served,   \* the fingerprint the server serves now
    ws,       \* the fingerprint behind the open WebSocket, "none" if closed
    udp,      \* NewUDPRelay's local socket
    dials     \* history: WebSocket dials so far

vars == <<cfg, pc, bo, delay, ctxDone, served, ws, udp, dials>>

Configs == [kind : Kinds, pinned : BOOLEAN,
            maxRetries : MaxRetryCounts, maxInterval : MaxIntervals]

\* Every loop creates its Backoff afresh; NewUDPRelay binds its socket first.
Init ==
    /\ cfg \in Configs
    /\ pc = "dial"
    /\ bo = New(cfg.maxRetries, cfg.maxInterval)
    /\ delay = 0
    /\ ctxDone = FALSE
    /\ served \in Fingerprints
    /\ ws = "none"
    /\ udp = IF cfg.kind = "NewUDPRelay" THEN "open" ELSE "none"
    /\ dials = 0

\* Only dialServer gets a context that can be done, that of the HTTP request;
\* the other loops run with the background context.
Cancellable == cfg.kind = "dialServer"

CountDial == dials' = IF dials <= AttemptBound THEN dials + 1 ELSE dials

\* After an error: sleep if the backoff permits a retry, give up otherwise.
\* NewUDPRelay closes its socket when it gives up.
Retry ==
    \/ /\ Permitted(bo)
       /\ pc' = "sleep"
       /\ \E j \in JitterPct : delay' = Delay(bo, j)
       /\ bo' = Advance(bo, AttemptBound)
       /\ udp' = udp
    \/ /\ ~Permitted(bo)
       /\ pc' = "exhausted"
       /\ delay' = 0
       /\ bo' = bo
       /\ udp' = IF udp = "open" THEN "closed" ELSE udp

\* websocket.Dial fails: unreachable, refused by the server, or cancelled.
DialError ==
    /\ pc = "dial"
    /\ CountDial
    /\ Retry
    /\ UNCHANGED <<cfg, ctxDone, served, ws>>

\* websocket.Dial succeeds; the response carries the fingerprint header.
DialOpen ==
    /\ pc = "dial"
    /\ ~ctxDone
    /\ CountDial
    /\ ws' = served
    /\ pc' = "opened"
    /\ UNCHANGED <<cfg, bo, delay, ctxDone, served, udp>>

\* Mutant: the rejected WebSocket is left open.
MismatchLeavesOpen ==
    /\ pc = "opened"
    /\ cfg.pinned
    /\ ws # "pinned"
    /\ Retry
    /\ UNCHANGED <<cfg, ctxDone, served, ws, dials>>

\* The fingerprint is not the pinned one: CloseNow, and an error.
Mismatch ==
    /\ pc = "opened"
    /\ cfg.pinned
    /\ ws # "pinned"
    /\ ws' = "none"
    /\ Retry
    /\ UNCHANGED <<cfg, ctxDone, served, dials>>

\* tryDialMux only: yamux.Client fails, CloseNow, and an error.
YamuxError ==
    /\ pc = "opened"
    /\ cfg.kind = "dialMuxSession"
    /\ cfg.pinned => ws = "pinned"
    /\ ws' = "none"
    /\ Retry
    /\ UNCHANGED <<cfg, ctxDone, served, dials>>

Connect ==
    /\ pc = "opened"
    /\ cfg.pinned => ws = "pinned"
    /\ pc' = "connected"
    /\ UNCHANGED <<cfg, bo, delay, ctxDone, served, ws, udp, dials>>

\* The timer of the select (or time.Sleep) fires.
Wake ==
    /\ pc = "sleep"
    /\ pc' = "dial"
    /\ delay' = 0
    /\ UNCHANGED <<cfg, bo, ctxDone, served, ws, udp, dials>>

\* Mutant: the wait does not watch the context.
CancelIgnored ==
    /\ pc = "cancelled"
    /\ UNCHANGED vars

\* The select sees ctx.Done() first.
Cancel ==
    /\ pc = "sleep"
    /\ Cancellable
    /\ ctxDone
    /\ pc' = "cancelled"
    /\ delay' = 0
    /\ UNCHANGED <<cfg, bo, ctxDone, served, ws, udp, dials>>

\* Environment: the HTTP client leaves; the server restarts with another key.
CallerGone ==
    /\ Cancellable
    /\ ~ctxDone
    /\ pc \in {"dial", "opened", "sleep"}
    /\ ctxDone' = TRUE
    /\ UNCHANGED <<cfg, pc, bo, delay, served, ws, udp, dials>>

ServerRestart ==
    /\ pc \in {"dial", "opened", "sleep"}
    /\ served' \in Fingerprints \ {served}
    /\ UNCHANGED <<cfg, pc, bo, delay, ctxDone, ws, udp, dials>>

\* What the loop does by itself, and what takes an answer of the server.
Proceed == Mismatch \/ YamuxError \/ Connect \/ Wake \/ Cancel
Answer == DialError \/ DialOpen

Loop == Proceed \/ Answer

Next == Loop \/ CallerGone \/ ServerRestart

\* A goroutine that can run does.  A select whose two channels are both ready
\* picks one at random, so it does not ignore ctx.Done() for ever.  Nothing
\* makes a server answer: websocket.Dial has no deadline and returns for sure
\* only when its context is done.
Fairness ==
    /\ WF_vars(Proceed)
    /\ WF_vars(ctxDone /\ DialError)
    /\ SF_vars(Cancel)

Spec == Init /\ [][Next]_vars /\ Fairness

-----------------------------------------------------------------------------
Results == {"connected", "exhausted", "cancelled"}

TypeOK ==
    /\ cfg \in Configs
    /\ pc \in {"dial", "opened", "sleep"} \cup Results
    /\ bo \in [attempt : 0..AttemptBound, maxRetries : Int, maxInterval : Nat \ {0}]
    /\ delay \in Nat
    /\ ctxDone \in BOOLEAN
    /\ served \in Fingerprints
    /\ ws \in Fingerprints \cup {"none"}
    /\ udp \in {"none", "open", "closed"}
    /\ dials \in 0..(AttemptBound + 1)

(* A retry limit of m allows m retries after the first dial, neither one    *)
(* more nor one less, whichever mix of refused dials, fingerprint           *)
(* mismatches and yamux failures used them up; without a limit the loop     *)
(* never gives up (backoff.go Next, max-retry-count).                       *)
RetryBudget ==
    /\ cfg.maxRetries > 0 => dials <= cfg.maxRetries + 1
    /\ pc = "exhausted" => cfg.maxRetries > 0 /\ dials = cfg.maxRetries + 1

(* A loop that gives up leaves no socket open: not a WebSocket rejected for *)
(* its fingerprint (dial.go CloseNow), not one yamux refused (session.go),  *)
(* not NewUDPRelay's local socket; and it holds none while it sleeps.       *)
NoLeakedSocket ==
    /\ pc \in {"dial", "sleep", "exhausted", "cancelled"} => ws = "none"
    /\ pc \in {"exhausted", "cancelled"} => udp # "open"

(* Before its k-th retry the loop sleeps between a half and one and a half  *)
(* times min(2^(k-1) s, maximum interval) (backoff.go Next; backoff_test.go *)
(* states the bound of one and a half times the maximum).                   *)
DelayWindow ==
    pc = "sleep" /\ bo.attempt < AttemptBound =>
        LET cap == bo.maxInterval
            exp == Second * 2^(bo.attempt - 1)
        IN  /\ 2 * delay <= 3 * cap
            /\ 2 * delay <= 3 * exp
            /\ 2 * (delay + 1) > cap \/ 2 * (delay + 1) > exp

(* A loop whose HTTP client has left ends, in the middle of a dial or of a  *)
(* wait (connect.go dialServer), and a loop with a retry limit ends unless  *)
(* it waits for ever in one dial that the server never answers: that is the *)
(* only place without a deadline (dial.go dialWebSocket).                   *)
Settles ==
    /\ ctxDone ~> pc \in Results
    /\ cfg.maxRetries > 0 ~> (pc \in Results \/ [](pc = "dial"))
=============================================================================
