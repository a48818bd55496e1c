------------------------------ MODULE MuxDialer ------------------------------
(***************************************************************************)
(* client.muxDialer: the SOCKS5 client's --mux mode.  Concurrent SOCKS5    *)
(* connections (callers) share one yamux session, kept in d.session under  *)
(* the mutex d.mu.  getSession dials a new session, with retries, while    *)
(* holding the mutex; dial opens a stream on the session it was given,     *)
(* without the mutex, and forgets d.session when that fails.               *)
(* Sessions are numbered in the order in which they are established.       *)
(***************************************************************************)
EXTENDS Backoff, FiniteSets

CONSTANTS
    Callers,         \* goroutines of the SOCKS5 server
    MaxRetries,      \* --max-retry-count
    OpenMayTimeout,  \* a write on a live session may time out
    MaxSessions,     \* bound: sessions established
    AttemptBound,    \* bound: where attempts stop being counted
    None             \* nobody holds the mutex

ASSUME MuxDialerAssumption ==
    /\ None \notin Callers
    /\ MaxRetries \in Int
    /\ OpenMayTimeout \in BOOLEAN
    /\ MaxSessions \in Nat
    /\ AttemptBound \in Nat
    /\ MaxRetries < AttemptBound

Nil == 0

VARIABLES
    mu,       \* the caller that holds d.mu, or None
    session,  \* d.session, or Nil
    live,     \* sessions that are not closed
    made,     \* number of sessions established so far
    dropped,  \* history: sessions that the error path of dial forgot
    pc,       \* where each caller is
    held,     \* the session getSession returned to each caller
    bo        \* the Backoff of each caller's dialMuxSession

vars == <<mu, session, live, made, dropped, pc, held, bo>>

Init ==
    /\ mu = None
    /\ session = Nil
    /\ live = {}
    /\ made = 0
    /\ dropped = {}
    /\ pc = [c \in Callers |-> "idle"]
    /\ held = [c \in Callers |-> Nil]
    /\ bo = [c \in Callers |-> New(MaxRetries, 0)]

Goto(c, l) == pc' = [pc EXCEPT ![c] = l]

\* A SOCKS5 connection arrives and go-socks5 calls dial.
Dial(c) ==
    /\ pc[c] = "idle"
    /\ Goto(c, "lock")
    /\ UNCHANGED <<mu, session, live, made, dropped, held, bo>>

\* getSession: the session exists and is not closed; lock, read, unlock.
GetHit(c) ==
    /\ pc[c] = "lock"
    /\ mu = None
    /\ session \in live
    /\ held' = [held EXCEPT ![c] = session]
    /\ Goto(c, "open")
    /\ UNCHANGED <<mu, session, live, made, dropped, bo>>

\* Mutant: the mutex is not held while dialing.
GetMissUnlocked(c) ==
    /\ pc[c] = "lock"
    /\ mu = None
    /\ session \notin live
    /\ bo' = [bo EXCEPT ![c] = New(MaxRetries, 0)]
    /\ Goto(c, "dial")
    /\ UNCHANGED <<mu, session, live, made, dropped, held>>

\* getSession: no session or a closed one; lock and start dialMuxSession.
GetMiss(c) ==
    /\ pc[c] = "lock"
    /\ mu = None
    /\ session \notin live
    /\ mu' = c
    /\ bo' = [bo EXCEPT ![c] = New(MaxRetries, 0)]
    /\ Goto(c, "dial")
    /\ UNCHANGED <<session, live, made, dropped, held>>

\* tryDialMux succeeds: store the session, unlock, return it.
DialOK(c) ==
    /\ pc[c] = "dial"
    /\ made < MaxSessions
    /\ made' = made + 1
    /\ live' = live \cup {made + 1}
    /\ session' = made + 1
    /\ held' = [held EXCEPT ![c] = made + 1]
    /\ mu' = None
    /\ Goto(c, "open")
    /\ UNCHANGED <<dropped, bo>>

\* tryDialMux fails: wait for the backoff, if it permits another attempt.
DialRetry(c) ==
    /\ pc[c] = "dial"
    /\ Permitted(bo[c])
    /\ bo' = [bo EXCEPT ![c] = Advance(bo[c], AttemptBound)]
    /\ Goto(c, "sleep")
    /\ UNCHANGED <<mu, session, live, made, dropped, held>>

\* Mutant: the exit with an error forgets to unlock.
GiveUpLocked(c) ==
    /\ pc[c] = "dial"
    /\ ~Permitted(bo[c])
    /\ Goto(c, "idle")
    /\ UNCHANGED <<mu, session, live, made, dropped, held, bo>>

\* tryDialMux fails for the last time: unlock, dial returns the error.
GiveUp(c) ==
    /\ pc[c] = "dial"
    /\ ~Permitted(bo[c])
    /\ mu' = None
    /\ Goto(c, "idle")
    /\ UNCHANGED <<session, live, made, dropped, held, bo>>

\* The delay is over; the context of dialMuxSession is never done here.
Wake(c) ==
    /\ pc[c] = "sleep"
    /\ Goto(c, "dial")
    /\ UNCHANGED <<mu, session, live, made, dropped, held, bo>>

\* session.Open on the session this caller holds, which may be closed or
\* replaced by now.  A write that times out fails on a live session too.
OpenOK(c) ==
    /\ pc[c] = "open"
    /\ held[c] \in live
    /\ Goto(c, "header")
    /\ UNCHANGED <<mu, session, live, made, dropped, held, bo>>

OpenError(c) ==
    /\ pc[c] = "open"
    /\ held[c] \notin live \/ OpenMayTimeout
    /\ Goto(c, "clear")
    /\ UNCHANGED <<mu, session, live, made, dropped, held, bo>>

\* Mutant: forgetting a session goes back to the one before it.
ClearToPrevious(c) ==
    /\ pc[c] = "clear"
    /\ mu = None
    /\ dropped' = dropped \cup ({session} \ {Nil})
    /\ session' = session - 1
    /\ Goto(c, "idle")
    /\ UNCHANGED <<mu, live, made, held, bo>>

\* The error path of dial: lock, d.session = nil, unlock.  Whatever session
\* is stored now is forgotten, and it is not closed.
Clear(c) ==
    /\ pc[c] = "clear"
    /\ mu = None
    /\ dropped' = dropped \cup ({session} \ {Nil})
    /\ session' = Nil
    /\ Goto(c, "idle")
    /\ UNCHANGED <<mu, live, made, held, bo>>

\* WriteHeader succeeds, or fails and the stream is closed; dial returns.
WriteHeader(c) ==
    /\ pc[c] = "header"
    /\ Goto(c, "idle")
    /\ UNCHANGED <<mu, session, live, made, dropped, held, bo>>

\* Environment: the transport or the server closes a session.
Lose(s) ==
    /\ s \in live
    /\ live' = live \ {s}
    /\ UNCHANGED <<mu, session, made, dropped, pc, held, bo>>

Acquire(c) == GetHit(c) \/ GetMiss(c) \/ Clear(c)

\* What takes an answer of the server to the WebSocket dial, which has no
\* deadline, and what a caller does by itself.
Answered(c) == DialOK(c) \/ DialRetry(c) \/ GiveUp(c)
Proceed(c) == Wake(c) \/ OpenOK(c) \/ OpenError(c) \/ WriteHeader(c)

Next ==
    \/ \E c \in Callers : Dial(c) \/ Acquire(c) \/ Answered(c) \/ Proceed(c)
    \/ \E s \in live : Lose(s)

\* A goroutine that can run does, and Go's mutex hands the lock to whoever
\* has waited for more than a millisecond, so no waiter starves.  That the
\* server answers a dial is not assumed.
Fairness ==
    /\ \A c \in Callers : WF_vars(Proceed(c))
    /\ \A c \in Callers : SF_vars(Acquire(c))

Spec == Init /\ [][Next]_vars
FairSpec == Spec /\ Fairness

-----------------------------------------------------------------------------
TypeOK ==
    /\ mu \in Callers \cup {None}
    /\ made \in Nat
    /\ session \in 0..made
    /\ live \subseteq 1..made
    /\ dropped \subseteq 1..made
    /\ pc \in [Callers -> {"idle", "lock", "dial", "sleep", "open", "clear", "header"}]
    /\ held \in [Callers -> 0..made]
    /\ bo \in [Callers -> [attempt : Nat, maxRetries : Int, maxInterval : Int]]

(* The dialer loses track of an open session in one way only: the error     *)
(* path of dial.  Every session that is still open is the one new streams   *)
(* use, or was forgotten there (client.go getSession and dial).             *)
LiveAccounted == live \subseteq {session} \cup dropped

(* A dial that takes arbitrarily long never overwrites a working session:   *)
(* a session that is open stays d.session until dial forgets it.            *)
NeverReplacesLive == [][(session \in live) => (session' \in {session, Nil})]_vars

(* While a session is being dialed no usable session is stored, so a dial   *)
(* in progress never costs a second WebSocket by itself.                    *)
NoRedundantDial == \A c \in Callers : pc[c] \in {"dial", "sleep"} => session \notin live

(* With limited retries every dial of a SOCKS5 connection returns, with a   *)
(* stream or an error, whatever happens to the sessions, unless the server  *)
(* never answers one WebSocket dial: that dial is made with d.mu held and   *)
(* without a deadline (client.go getSession, dial.go), so it stops every    *)
(* caller that comes to getSession or to the error path.  Nothing else      *)
(* does: no exit keeps the mutex and no waiter starves.                     *)
DialReturns ==
    \A c \in Callers :
        pc[c] = "lock" ~> (pc[c] = "idle" \/ \E d \in Callers : [](pc[d] = "dial"))

\* Callers that wait for getSession ask, those that work with its result hold.
Pool == INSTANCE SessionPool WITH
            MayForget <- OpenMayTimeout,
            current <- session,
            open <- live,
            asking <- {c \in Callers : pc[c] \in {"lock", "dial", "sleep"}},
            given <- [c \in Callers |-> IF pc[c] \in {"open", "header", "clear"} THEN held[c] ELSE Nil]

(* getSession and dial, with a mutex that is held through retries and       *)
(* released on four paths, keep the promise of SessionPool: callers get a   *)
(* session that is current and open, or are refused, at one moment each,    *)
(* and are refused only when there is no open session to give.              *)
ImplementsPool == Pool!Spec

(* README.md: "With --mux, the client establishes a single persistent       *)
(* WebSocket and multiplexes all SOCKS5 connections over it".               *)
SingleSession == Cardinality(live) <= 1
=============================================================================
