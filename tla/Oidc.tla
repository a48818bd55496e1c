--------------------------------- MODULE Oidc ---------------------------------
(***************************************************************************)
(* auth.OIDCAuthenticator: bearer tokens are verified against a cached key *)
(* set (jwks).  An hourly loop refreshes the cache; a request whose token  *)
(* does not verify refreshes it too and tries once more.  Refreshes run    *)
(* concurrently: each fetches two documents without a lock and then        *)
(* installs its result under the lock, whatever was installed meanwhile.   *)
(* The provider replaces its keys one by one, in order.                    *)
(***************************************************************************)
EXTENDS Naturals

CONSTANTS
    Requests,     \* requests with a bearer token, bound: each is made once
    Loop,         \* the goroutine of watchLoop
    MaxRotations  \* bound: key rotations at the provider

ASSUME OidcAssumption ==
    /\ Loop \notin Requests
    /\ MaxRotations \in Nat

Procs == Requests \cup {Loop}
Kids == 0..(MaxRotations + 1)
NoKid == MaxRotations + 2  \* of a token that names none of the provider's keys

\* The keys the provider publishes after v rotations: the current one and
\* its successor, announced ahead of its use.
Published(v) == {v, v + 1}

VARIABLES
    idp,      \* rotations so far
    jwks,     \* a.jwks
    pc,       \* where each goroutine is
    fetched,  \* the key set a refresh has fetched and not yet installed
    kid,      \* the key that signed each request's token
    since,    \* history: rotations when the request began
    failed,   \* history: the provider failed this request's refresh
    raced     \* history: somebody installed keys between refresh and retry

vars == <<idp, jwks, pc, fetched, kid, since, failed, raced>>

\* NewOIDCAuthenticator has fetched the keys once.
Init ==
    /\ idp = 0
    /\ jwks = Published(0)
    /\ pc = [p \in Procs |-> "idle"]
    /\ fetched = [p \in Procs |-> {}]
    /\ kid = [r \in Requests |-> 0]
    /\ since = [r \in Requests |-> 0]
    /\ failed = [r \in Requests |-> FALSE]
    /\ raced = [r \in Requests |-> FALSE]

Goto(p, l) == pc' = [pc EXCEPT ![p] = l]
request == <<kid, since>>
history == <<failed, raced>>

-----------------------------------------------------------------------------
(* Authenticate *)

\* A token that is not expired arrives, signed with any key.
Begin(r, x) ==
    /\ pc[r] = "idle"
    /\ kid' = [kid EXCEPT ![r] = x]
    /\ since' = [since EXCEPT ![r] = idp]
    /\ Goto(r, "parse")
    /\ UNCHANGED <<idp, jwks, fetched, history>>

\* ParseWithClaims with keyFuncFromJWKS: the key is in the cache or not.
Verified(r) == kid[r] \in jwks

\* Issuer, audience and identity claim are right, or the token is unfit.
Decide(r) == \E x \in {"accepted", "unfit"} : Goto(r, x)

ParseOK(r) ==
    /\ pc[r] = "parse"
    /\ Verified(r)
    /\ Decide(r)
    /\ UNCHANGED <<idp, jwks, fetched, request, history>>

\* The signature does not verify: refresh before the second attempt.
ParseError(r) ==
    /\ pc[r] = "parse"
    /\ ~Verified(r)
    /\ Goto(r, "discovery")
    /\ UNCHANGED <<idp, jwks, fetched, request, history>>

\* Mutant: the error of the first attempt is returned after the refresh.
RetryNever(r) ==
    /\ pc[r] = "retry"
    /\ Goto(r, "refused")
    /\ UNCHANGED <<idp, jwks, fetched, request, history>>

\* The second attempt, with whatever keys are installed now.
Retry(r) ==
    /\ pc[r] = "retry"
    /\ IF Verified(r) THEN Decide(r) ELSE Goto(r, "refused")
    /\ UNCHANGED <<idp, jwks, fetched, request, history>>

-----------------------------------------------------------------------------
(* refreshJWKS, called by requests and by watchLoop *)

\* The hourly ticker fires.
Tick ==
    /\ pc[Loop] = "idle"
    /\ Goto(Loop, "discovery")
    /\ UNCHANGED <<idp, jwks, fetched, request, history>>

FetchDiscovery(p) ==
    /\ pc[p] = "discovery"
    /\ Goto(p, "keys")
    /\ UNCHANGED <<idp, jwks, fetched, request, history>>

\* Mutant: the answer comes from a cache.
FetchJWKSCached(p) ==
    /\ pc[p] = "keys"
    /\ fetched' = [fetched EXCEPT ![p] = jwks]
    /\ Goto(p, "install")
    /\ UNCHANGED <<idp, jwks, request, history>>

FetchJWKS(p) ==
    /\ pc[p] = "keys"
    /\ fetched' = [fetched EXCEPT ![p] = Published(idp)]
    /\ Goto(p, "install")
    /\ UNCHANGED <<idp, jwks, request, history>>

Fail(p) == failed' = [q \in Requests |-> failed[q] \/ q = p]

\* The answer holds keys parseJWK cannot use: they are skipped.
FetchUnusable(p) ==
    /\ pc[p] = "keys"
    /\ fetched' = [fetched EXCEPT ![p] = {}]
    /\ Fail(p)
    /\ Goto(p, "install")
    /\ UNCHANGED <<idp, jwks, request, raced>>

\* One of the two GETs fails: the cache is left alone.  The request is
\* refused, the loop waits for its next tick.
RefreshError(p) ==
    /\ pc[p] \in {"discovery", "keys"}
    /\ Fail(p)
    /\ Goto(p, IF p = Loop THEN "idle" ELSE "refused")
    /\ UNCHANGED <<idp, jwks, fetched, request, raced>>

Install(p) ==
    /\ pc[p] = "install"
    /\ jwks' = fetched[p]
    /\ fetched' = [fetched EXCEPT ![p] = {}]
    /\ raced' = [q \in Requests |-> raced[q] \/ pc[q] = "retry"]
    /\ Goto(p, IF p = Loop THEN "idle" ELSE "retry")
    /\ UNCHANGED <<idp, request, failed>>

Refresh(p) == FetchDiscovery(p) \/ FetchJWKS(p) \/ FetchUnusable(p) \/ RefreshError(p) \/ Install(p)

-----------------------------------------------------------------------------
\* The provider's next key takes over.
Rotate ==
    /\ idp < MaxRotations
    /\ idp' = idp + 1
    /\ UNCHANGED <<jwks, pc, fetched, request, history>>

Request(r) == ParseOK(r) \/ ParseError(r) \/ Retry(r)

Next ==
    \/ \E r \in Requests, x \in Kids \cup {NoKid} : Begin(r, x)
    \/ \E r \in Requests : Request(r)
    \/ \E p \in Procs : Refresh(p)
    \/ Tick
    \/ Rotate

Spec == Init /\ [][Next]_vars

-----------------------------------------------------------------------------
TypeOK ==
    /\ idp \in 0..MaxRotations
    /\ jwks \subseteq Kids
    /\ pc \in [Procs -> {"idle", "parse", "discovery", "keys", "install", "retry",
                         "accepted", "unfit", "refused"}]
    /\ pc[Loop] \in {"idle", "discovery", "keys", "install"}
    /\ fetched \in [Procs -> SUBSET Kids]
    /\ kid \in [Requests -> Kids \cup {NoKid}]
    /\ since \in [Requests -> 0..MaxRotations]
    /\ failed \in [Requests -> BOOLEAN]
    /\ raced \in [Requests -> BOOLEAN]

(* A token whose key is published from the start of the request to its end  *)
(* and that is not unfit is refused for two reasons only: the provider failed the refresh, or *)
(* another refresh installed its keys between this one's and the retry      *)
(* (oidc.go Authenticate).                                                  *)
RefusedForCause ==
    \A r \in Requests :
        pc[r] = "refused" /\ kid[r] \in Published(since[r]) \cap Published(idp) =>
            failed[r] \/ raced[r]

(* However refreshes overtake each other, the cache ends up with the keys   *)
(* the provider publishes once it stops replacing them (oidc.go watchLoop). *)
Converges == <>[][idp' = idp]_idp => []<>(jwks = Published(idp))
=============================================================================
