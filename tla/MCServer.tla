------------------------------ MODULE MCServer ------------------------------
(* Instances of Server: one authentication layer that reloads at a time, or  *)
(* layers without a state of their own; every key file; every list of one or *)
(* two modes.                                                                *)
EXTENDS Server

CONSTANTS r1, v1, f1, f2

Secret1 == [form |-> "text", family |-> "none", id |-> 1]
Default == [token |-> FALSE, env |-> FALSE, dir |-> FALSE, jwt |-> FALSE, jwtKey |-> Secret1,
            revoke |-> FALSE, oidc |-> FALSE, audit |-> FALSE, keyfile |-> FALSE, modes |-> <<>>,
            auto |-> FALSE, domain |-> FALSE, cert |-> FALSE, key |-> FALSE, ca |-> "none"]

Mode == [name : ValidModes \cup {"http"}, blanks : BOOLEAN]
Lines ==
    {[Default EXCEPT !.modes = m] : m \in UNION {[1..n -> Mode] : n \in 1..2}}
    \cup {[Default EXCEPT !.auto = a, !.domain = d, !.cert = c, !.key = k, !.ca = ca, !.env = TRUE] :
              a \in BOOLEAN, d \in BOOLEAN, c \in BOOLEAN, k \in BOOLEAN, ca \in {"none", "good", "bad"}}
    \cup {[Default EXCEPT !.token = t, !.env = TRUE, !.dir = TRUE] : t \in BOOLEAN}
    \cup {[Default EXCEPT !.jwt = TRUE, !.jwtKey = f] : f \in KeyFiles}
    \cup {[Default EXCEPT !.env = TRUE, !.jwt = TRUE, !.revoke = TRUE, !.audit = TRUE, !.keyfile = TRUE]}
    \cup {[Default EXCEPT !.token = t, !.oidc = TRUE] : t \in BOOLEAN}

\* README.md, "Enabling all modes", and the connect mode "on its own".
Listed(names) == [n \in DOMAIN names |-> [name |-> names[n], blanks |-> FALSE]]
DocumentedLines ==
    {[Default EXCEPT !.modes = Listed(m)] : m \in {<<"socks5", "connect", "socks5-udp">>, <<"connect">>}}

\* Tokens for a layer that such a server has, and some other one: whatever can
\* be signed where keys are the question, the server's own where revocation is.
JwtsOf(fl) ==
    IF fl.revoke THEN [file : {fl.jwtKey}, alg : {"hs256"}, sub : Subjects \ {""}, jti : TokenIds]
    ELSE {t \in [file : KeyFiles, alg : Algorithms, sub : {"", "ci-runner"}, jti : {"id1"}] : Signed(t)}
ClientsOf(fl) ==
    {r1} \X ({[kind |-> "none"], [kind |-> "cert"]}
             \cup {b \in [kind : {"static"}, value : Values] : fl.dir \/ (fl.token /\ b.value = v1)}
             \cup {[kind |-> "jwt", token |-> t] : t \in IF fl.jwt THEN JwtsOf(fl) ELSE {}}
             \cup {b \in [kind : {"oidc"}] : fl.oidc})

FilesOf == <<f1, f2>>
=============================================================================
