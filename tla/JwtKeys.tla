------------------------------- MODULE JwtKeys -------------------------------
(***************************************************************************)
(* Key files and the tokens they sign and verify: buildKeyFunc of jwt.go   *)
(* against IssueToken and VerifyToken of issuer.go.  A key file is text,   *)
(* or a PEM block of some encoding that holds a key of some family; `id'   *)
(* tells key pairs and secrets apart.  The HMAC key is the trimmed text of *)
(* the whole file, whatever it holds.                                      *)
(***************************************************************************)
EXTENDS Naturals

CONSTANTS
    KeyIds,    \* key pairs and secrets
    Subjects,  \* names that tokens are issued for: "" is possible
    TokenIds   \* uuids

\* The encodings x509 parses, and the families of keys that each can hold.
PublicForms == {"PKCS1PublicKey", "PKIX"}
PrivateForms == {"PKCS1", "PKCS8", "EC"}
Families(form) ==
    CASE form \in {"PKCS1PublicKey", "PKCS1"} -> {"rsa"}
      [] form = "EC" -> {"p256", "p384"}
      [] form \in {"PKIX", "PKCS8"} -> {"rsa", "p256", "p384", "ed25519"}
      [] OTHER -> {"none"}
KeyFiles ==
    UNION {[form : {f}, family : Families(f), id : KeyIds] :
               f \in PublicForms \cup PrivateForms \cup {"text", "other"}}

Algorithms == {"", "hs256", "rs256", "es256", "none"}
Error == [kind |-> "error"]

\* A private key of one of the families fs, from the forms its parser tries.
ParsePrivate(f, forms, fs) ==
    IF f.form \in forms /\ f.family \in fs THEN [kind |-> "private", family |-> f.family, id |-> f.id]
    ELSE Error
ParseRSAPrivateKey(f) == ParsePrivate(f, {"PKCS1", "PKCS8"}, {"rsa"})
ParseECPrivateKey(f) == ParsePrivate(f, {"EC", "PKCS8"}, {"p256", "p384"})

Secret(f) == [kind |-> "secret", file |-> f]

\* IssueToken: what the token is signed with.  ES256 signs with P-256 keys only.
IssueKey(f, alg) ==
    CASE alg \in {"", "hs256"} -> Secret(f)
      [] alg = "rs256" -> ParseRSAPrivateKey(f)
      [] alg = "es256" -> LET k == ParseECPrivateKey(f)
                          IN  IF k # Error /\ k.family = "p256" THEN k ELSE Error
      [] OTHER -> Error

\* Mutant: the file is not looked at for a PEM block.
BuildKeyFuncText(f) == Secret(f)

\* buildKeyFunc: the public key of a PEM block, or the text as a secret.
BuildKeyFunc(f) ==
    IF f.form = "text" THEN Secret(f)
    ELSE IF f.family \in {"rsa", "p256", "p384"}
    THEN [kind |-> "public", family |-> f.family, id |-> f.id]
    ELSE Error

\* The library verifies a signature made with s; rsaKeyFunc and ecdsaKeyFunc
\* refuse a method of another family before.
Verifies(k, s) ==
    \/ k.kind = "secret" /\ s = k
    \/ k.kind = "public" /\ s.kind = "private" /\ s.family = k.family /\ s.id = k.id

\* A token is what IssueToken was asked for: key file, algorithm, name, and
\* the identifier it was given.
Tokens == [file : KeyFiles, alg : Algorithms, sub : Subjects, jti : TokenIds]
Signed(t) == IssueKey(t.file, t.alg) # Error

VerifyToken(f, t) == Verifies(BuildKeyFunc(f), IssueKey(t.file, t.alg))

\* JWTAuthenticator.Authenticate asks for a subject too; revocation apart.
JwtAccepts(f, t) == VerifyToken(f, t) /\ t.sub # ""
=============================================================================
