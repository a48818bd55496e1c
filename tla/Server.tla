-------------------------------- MODULE Server --------------------------------
(***************************************************************************)
(* longsocks server: runServer checks its flags, opens what they ask for   *)
(* and builds the chain of authenticators; ListenAndServe registers a      *)
(* handler per mode.  Then requests arrive while the watch loops reload.   *)
(* Whatever fails before that ends the program, and the deferred calls     *)
(* stop the loops that run.  A request passes the chain layer by layer,    *)
(* without a lock over the whole.                                          *)
(***************************************************************************)
EXTENDS TokenReload, Oidc, JwtKeys

CONSTANTS
    CommandLines,  \* what the flags of longsocks server are set to
    ServerToken,   \* the value of --token and of LONGSOCKS_TOKEN
    Clients(_)     \* bound: pairs of a request made to a server with such
                   \* flags and what it brings

ASSUME ServerAssumption ==
    /\ ServerToken \in Values
    /\ Entries \subseteq (Subjects \cup TokenIds) \ {""}
    /\ \A fl \in CommandLines : fl.modes \in Seq([name : STRING, blanks : BOOLEAN])
    /\ \A fl \in CommandLines : fl.jwtKey \in KeyFiles

VARIABLES
    flags,    \* the command line, and env: LONGSOCKS_TOKEN is set
    spc,      \* where runServer is
    mi,       \* index into the modes
    routes,   \* patterns registered with http.ServeMux
    chain,    \* the authenticators, by name
    bearer,   \* what each request brings
    at,       \* where authenticateRequest is with it
    layer,    \* index into the chain
    good      \* history: the layers that would have accepted it ever since

startVars == <<flags, spc, mi, routes, chain>>
requestVars == <<bearer, at, layer, good>>
svars == <<startVars, requestVars, reloadVars, vars>>

-----------------------------------------------------------------------------
(* runServer *)

\* Modes are names that may have blanks around them: --modes "socks5, connect".
SocksModes == {"socks5", "socks5-udp"}
ValidModes == SocksModes \cup {"connect"}
Named(m) == \E n \in DOMAIN flags.modes : flags.modes[n] = [name |-> m, blanks |-> FALSE]

\* The reloads are set up as their constructors leave them until they run.
ServerInit ==
    /\ flags \in CommandLines
    /\ spc = "check"
    /\ mi = 1
    /\ routes = {}
    /\ chain = <<>>
    /\ bearer = [r \in Requests |-> [kind |-> "none"]]
    /\ at = [r \in Requests |-> "new"]
    /\ layer = [r \in Requests |-> 1]
    /\ good = [r \in Requests |-> {}]
    /\ ReloadInit
    /\ ~flags.dir => dir = [n \in Names |-> "absent"]
    /\ ~flags.revoke => rev = [st |-> "absent", subs |-> {}]
    /\ Init

Start(from, to) == spc = from /\ spc' = to /\ UNCHANGED <<flags, requestVars>>

\* runServer returns; the deferred calls stop every loop.
Return(from) ==
    /\ Start(from, "returned")
    /\ watched' = {}
    /\ UNCHANGED <<mi, routes, chain, disk, dirVars, revVars, always, vars>>

FlagsValid ==
    /\ ~(flags.token /\ flags.dir)
    /\ flags.auto => flags.domain
    /\ flags.cert = flags.key
    /\ \A n \in DOMAIN flags.modes : flags.modes[n].name \in ValidModes

\* Names are compared trimmed and passed on as they are.
CheckFlags == IF FlagsValid
              THEN Start("check", "audit") /\ UNCHANGED <<mi, routes, chain, reloadVars, vars>>
              ELSE Return("check")

\* The audit log is opened; metrics and statistics cannot fail to start here.
OpenAudit == Start("audit", "token") /\ UNCHANGED <<mi, routes, chain, reloadVars, vars>>
OpenAuditError == flags.audit /\ Return("audit")

\* The environment variable stands in for --token, next to --tokens-dir too.
AddStaticToken ==
    /\ Start("token", "dir")
    /\ chain' = IF flags.token \/ flags.env THEN <<"token">> ELSE <<>>
    /\ UNCHANGED <<mi, routes, reloadVars, vars>>

\* A constructor succeeds: its loop runs and its layer is the chain's next.
Add(name) ==
    /\ chain' = Append(chain, name)
    /\ watched' = watched \cup {name}
    /\ UNCHANGED <<mi, routes, disk, dirVars, revVars, always, vars>>

Skip == UNCHANGED <<mi, routes, chain, reloadVars, vars>>

NewStaticDir ==
    \/ Start("dir", "jwt") /\ flags.dir /\ dpc = "ok" /\ Add("dir")
    \/ Start("dir", "jwt") /\ ~flags.dir /\ Skip
    \/ Return("dir") /\ flags.dir /\ dpc = "failed"

\* Mutant: a server whose JWT key cannot be loaded starts without that layer.
NewJWTLenient ==
    \/ Start("jwt", "oidc") /\ flags.jwt /\ (flags.revoke => rpc = "ok") /\ Add("jwt")
    \/ Start("jwt", "oidc") /\ Skip

KeyUsable == BuildKeyFunc(flags.jwtKey) # Error

\* The key file may be missing too.  Without a --jwt-revoke-file
\* nothing is loaded, and nothing watched.
NewJWT ==
    \/ Start("jwt", "oidc") /\ flags.jwt /\ KeyUsable /\ (flags.revoke => rpc = "ok") /\ Add("jwt")
    \/ Start("jwt", "oidc") /\ ~flags.jwt /\ Skip
    \/ Return("jwt") /\ flags.jwt /\ rpc \in {"idle", "failed"}

NewOIDC ==
    \/ Start("oidc", "key") /\ flags.oidc /\ Add("oidc")
    \/ Start("oidc", "key") /\ ~flags.oidc /\ Skip
    \/ Return("oidc") /\ flags.oidc

\* LoadOrGenerate reads the key file, or makes a key that nothing can refuse.
LoadKey == Start("key", "routes") /\ routes' = {"/healthz"} /\ UNCHANGED <<mi, chain, reloadVars, vars>>
LoadKeyError == flags.keyfile /\ Return("key")

-----------------------------------------------------------------------------
(* ListenAndServe *)

Modes == IF flags.modes = <<>> THEN <<[name |-> "socks5", blanks |-> FALSE]>> ELSE flags.modes

\* The pattern that the first loop registers for a mode: names match exactly.
Pattern(m) ==
    CASE m.blanks -> {}
      [] m.name \in SocksModes -> {"/connect"}
      [] OTHER -> {"/connect-http"}

\* One turn of the loop.  http.ServeMux panics when a pattern is there already.
Register ==
    /\ mi <= Len(Modes)
    /\ Pattern(Modes[mi]) \cap routes = {}
    /\ Start("routes", "routes")
    /\ routes' = routes \cup Pattern(Modes[mi])
    /\ mi' = mi + 1
    /\ UNCHANGED <<chain, reloadVars, vars>>

RegisterPanic ==
    /\ mi <= Len(Modes)
    /\ Pattern(Modes[mi]) \cap routes # {}
    /\ Start("routes", "panicked")
    /\ watched' = {}
    /\ UNCHANGED <<mi, routes, chain, disk, dirVars, revVars, always, vars>>

\* Mutant: the second loop looks at the first mode only.
RegisterRestFirstOnly ==
    /\ mi > Len(Modes)
    /\ Start("routes", "listen")
    /\ routes' = routes \cup {"/mux"}
           \cup {p \in {"/connect-udp"} : Modes[1] = [name |-> "socks5-udp", blanks |-> FALSE]}
    /\ UNCHANGED <<mi, chain, reloadVars, vars>>

\* The second loop stops at the first match; /mux is always there.
RegisterRest ==
    /\ mi > Len(Modes)
    /\ Start("routes", "listen")
    /\ routes' = routes \cup {"/mux"} \cup {p \in {"/connect-udp"} : Named("socks5-udp")}
    /\ UNCHANGED <<mi, chain, reloadVars, vars>>

Tls == flags.auto \/ (flags.cert /\ flags.key)

\* buildMTLSConfig: a CA file that cannot be loaded is logged and left out;
\* without TLS nothing looks at it.
ClientCerts == Tls /\ flags.ca = "good"

\* The listener, or its certificate, cannot be had: ListenAndServe returns.
\* Once up it is taken not to fail.
Listen == Start("listen", "serving") /\ Skip
ListenError == Return("listen")

Startup ==
    \/ CheckFlags \/ OpenAudit \/ OpenAuditError \/ AddStaticToken
    \/ NewStaticDir \/ NewJWT \/ NewOIDC \/ LoadKey \/ LoadKeyError
    \/ Register \/ RegisterPanic \/ RegisterRest \/ Listen \/ ListenError

-----------------------------------------------------------------------------
(* authenticateRequest and AuthChain.Authenticate *)

\* Bearer tokens: a static value; a JWT of longsocks token issue; one from the
\* OIDC provider; or none.  A client certificate that the CA has signed counts
\* before any of them.
Bearers ==
    [kind : {"static"}, value : Values] \cup [kind : {"jwt"}, token : {t \in Tokens : Signed(t)}]
        \cup [kind : {"oidc", "none", "cert"}]

ASSUME ClientsAssumption == \A fl \in CommandLines : Clients(fl) \subseteq Requests \X Bearers

\* The layer accepts the token now.
Accepts(name, b) ==
    CASE name = "token" -> b.kind = "static" /\ b.value = ServerToken
      [] name = "dir" -> b.kind = "static" /\ StaticName(b.value) # NoName
      [] name = "jwt" -> /\ b.kind = "jwt"
                         /\ JwtAccepts(flags.jwtKey, b.token)
                         /\ flags.revoke => ~Revoked({b.token.sub, b.token.jti})
      [] OTHER -> FALSE

Accepting(b) == {name \in ToSet(chain) : Accepts(name, b)}

Arrive(r, b) ==
    /\ spc = "serving"
    /\ at[r] = "new"
    /\ b.kind = "cert" => ClientCerts
    /\ bearer' = [bearer EXCEPT ![r] = b]
    /\ good' = [good EXCEPT ![r] = Accepting(b)]
    /\ at' = [at EXCEPT ![r] = IF b.kind = "cert" \/ chain = <<>> THEN "accepted"
                               ELSE IF b.kind = "none" THEN "refused" ELSE "chain"]
    /\ UNCHANGED <<startVars, layer, reloadVars, vars>>

\* Mutant: the first layer that refuses the token ends the search.
TryFirstOnly(r) ==
    /\ at[r] = "chain"
    /\ layer[r] <= Len(chain)
    /\ chain[layer[r]] # "oidc"
    /\ at' = [at EXCEPT ![r] = IF Accepts(chain[layer[r]], bearer[r]) THEN "accepted" ELSE "refused"]
    /\ UNCHANGED <<startVars, bearer, layer, good, reloadVars, vars>>

\* One layer, the OIDC authenticator apart: the next one follows an error.
Try(r) ==
    /\ at[r] = "chain"
    /\ layer[r] <= Len(chain)
    /\ chain[layer[r]] # "oidc"
    /\ IF Accepts(chain[layer[r]], bearer[r])
       THEN at' = [at EXCEPT ![r] = "accepted"] /\ UNCHANGED layer
       ELSE layer' = [layer EXCEPT ![r] = @ + 1] /\ UNCHANGED at
    /\ UNCHANGED <<startVars, bearer, good, reloadVars, vars>>

\* The OIDC authenticator, which is the last.  A token that is not the
\* provider's has no key there.
TryOidc(r) ==
    /\ at[r] = "chain"
    /\ layer[r] <= Len(chain)
    /\ chain[layer[r]] = "oidc"
    /\ IF bearer[r].kind = "oidc"
       THEN \E x \in Kids : Begin(r, x)
       ELSE Begin(r, NoKid)
    /\ at' = [at EXCEPT ![r] = "oidc"]
    /\ UNCHANGED <<startVars, bearer, layer, good, reloadVars>>

Refuse(r) ==
    /\ at[r] = "chain"
    /\ layer[r] > Len(chain)
    /\ at' = [at EXCEPT ![r] = "refused"]
    /\ UNCHANGED <<startVars, bearer, layer, good, reloadVars, vars>>

Authenticate(r) == Try(r) \/ TryOidc(r) \/ Refuse(r)

-----------------------------------------------------------------------------
(* The loops, and the world around the server *)

\* What the layers accept may change: good keeps those that still do.
Observed(A) ==
    /\ A
    /\ UNCHANGED <<startVars, bearer, at, layer, vars>>
    /\ good' = [r \in Requests |-> good[r] \cap Accepting(bearer[r])']

\* A loop is not seen to work before the server is up.
DirStep == flags.dir /\ spc \in {"dir", "serving"} /\ Observed(DirReload)
RevStep == flags.jwt /\ flags.revoke /\ spc \in {"jwt", "serving"} /\ Observed(RevReload)

Editing ==
    /\ \/ flags.dir /\ spc \in {"dir", "serving"} /\ (EditDir \/ EditListable)
       \/ flags.jwt /\ flags.revoke /\ spc \in {"jwt", "serving"} /\ (EditReplace \/ EditInPlace)
    /\ UNCHANGED <<startVars, requestVars, vars>>

Other == UNCHANGED <<startVars, requestVars, reloadVars>>
OidcRequest(r) == Request(r) /\ Other
OidcRefresh(p) == Refresh(p) /\ Other
\* A rotation during the start is one before it or after it.
OidcTick == spc = "serving" /\ "oidc" \in watched /\ Tick /\ Other
OidcRotate == spc = "serving" /\ "oidc" \in watched /\ Rotate /\ Other

ServerNext ==
    \/ Startup
    \/ \E p \in Clients(flags) : Arrive(p[1], p[2])
    \/ \E r \in Requests : Authenticate(r) \/ OidcRequest(r)
    \/ DirStep \/ RevStep \/ Editing
    \/ \E p \in Procs : OidcRefresh(p)
    \/ OidcTick \/ OidcRotate

\* Tickers tick and the loops run; a provider asked again and again by the
\* loop answers once in a while.  Nothing is asked of requests.
ServerFairness ==
    /\ WF_svars(Startup)
    /\ WF_svars(DirStep)
    /\ WF_svars(RevStep)
    /\ WF_svars(OidcTick)
    /\ WF_svars(OidcRefresh(Loop))
    /\ SF_svars(FetchDiscovery(Loop) /\ Other)
    /\ SF_svars(FetchJWKS(Loop) /\ Other)

ServerSpec == ServerInit /\ [][ServerNext]_svars /\ ServerFairness

-----------------------------------------------------------------------------
ServerTypeOK ==
    /\ ReloadTypeOK
    /\ TypeOK
    /\ spc \in {"check", "audit", "token", "dir", "jwt", "oidc", "key", "routes", "listen",
                "serving", "returned", "panicked"}
    /\ mi \in 1..(Len(Modes) + 1)
    /\ routes \subseteq {"/healthz", "/connect", "/connect-http", "/connect-udp", "/mux"}
    /\ chain \in Seq({"token", "dir", "jwt", "oidc"})
    /\ bearer \in [Requests -> Bearers]
    /\ at \in [Requests -> {"new", "chain", "oidc", "accepted", "refused"}]
    /\ \A r \in Requests : layer[r] \in 1..(Len(chain) + 1) /\ good[r] \subseteq ToSet(chain)

With(layers, name, asked) == IF asked THEN Append(layers, name) ELSE layers

\* The layers for bearer tokens that are asked for, in the order of README.md.
BearerLayers ==
    With(With(With(With(<<>>, "token", flags.token \/ flags.env), "dir", flags.dir),
              "jwt", flags.jwt), "oidc", flags.oidc)

(* README.md: "Enable any combination" of five layers.  Four of them judge  *)
(* bearer tokens: whatever fails on the way, a server that serves has those *)
(* its flags and environment name, all and in order, and a request with     *)
(* neither token nor certificate gets in only where none of the four was    *)
(* named (cmd/server.go runServer, server.go authenticateRequest).  Not of  *)
(* the fifth, mutual TLS: a --tls-ca that cannot be loaded is logged and    *)
(* left out (server.go buildMTLSConfig), one without TLS is not looked at,  *)
(* and if it was the only layer everybody gets in.                          *)
BearerLayersComplete ==
    /\ spc = "serving" => chain = BearerLayers
    /\ \A r \in Requests :
           at[r] = "accepted" /\ bearer[r].kind = "none" => BearerLayers = <<>>

(* README.md: "a request only needs to pass one layer."  A request that was *)
(* refused brought no token that one of the layers would have accepted all  *)
(* the time from its arrival on, whichever layers were asked before         *)
(* (auth.go AuthChain.Authenticate, server.go authenticateRequest).  The    *)
(* OIDC layer, which may fail to reach its provider, has RefusedForCause.   *)
OneLayerSuffices == \A r \in Requests : at[r] = "refused" => good[r] = {}

Decided(r) == bearer[r].kind = "jwt" /\ at[r] \in {"accepted", "refused"}

IsPublicHalf(f, g) == g.form \in PrivateForms /\ f.family = g.family /\ f.id = g.id

(* README.md: "Start the server with the same key".  A token issued for a   *)
(* name is accepted exactly by a server with the same secret or, whatever   *)
(* the encodings of the two files, with a half of the key pair whose        *)
(* private half has signed it.  The text of a PEM file signs too, as hs256, *)
(* the default, asks for: no server accepts that (issuer.go IssueToken,     *)
(* jwt.go buildKeyFunc).                                                    *)
KeyHoldersAccepted ==
    \A r \in Requests :
        LET t == bearer[r].token
            g == flags.jwtKey
        IN  Decided(r) /\ flags.jwt /\ ~flags.revoke =>
                (at[r] = "accepted" <=>
                    t.sub # "" /\ IF g.form = "text" THEN t.file = g
                                  ELSE IsPublicHalf(g, t.file) /\ t.alg \in {"rs256", "es256"})

\* The paths that the client of a mode dials: makeDialer, NewUDPRelay,
\* connectProxy.dialServer; and any client with a session, dialMuxSession.
Paths(m) ==
    CASE m \in {"socks5", "connect"} -> {"/connect"}
      [] m = "socks5-udp" -> {"/connect", "/connect-udp"}
      [] OTHER -> {"/mux"}

Offered(m) == [name |-> m, blanks |-> FALSE] \in ToSet(Modes)

(* A server that is up answers the SOCKS5 clients of each mode it offers at *)
(* every path they dial, wherever the mode stands in the list, and clients  *)
(* with a session always (server.go ListenAndServe against client.go        *)
(* makeDialer, udp.go NewUDPRelay and session.go dialMuxSession).           *)
SocksPathsServed ==
    spc = "serving" =>
        \A m \in SocksModes \cup {"mux"} : m = "mux" \/ Offered(m) => Paths(m) \subseteq routes

(* README.md: "The server can enable multiple modes simultaneously; the     *)
(* client selects one mode per instance."  The start does not panic, and a  *)
(* server that is up answers the clients of each mode it offers, connect    *)
(* among them, at every path they dial (server.go ListenAndServe against    *)
(* client.go, udp.go and connect.go).                                       *)
EndpointsServed ==
    /\ spc # "panicked"
    /\ spc = "serving" => \A m \in ValidModes : Offered(m) => Paths(m) \subseteq routes
=============================================================================
