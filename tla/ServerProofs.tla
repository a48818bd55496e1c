----------------------------- MODULE ServerProofs -----------------------------
(***************************************************************************)
(* Proofs about Server for any command line, any files and any number of   *)
(* edits, key rotations and requests: no server runs without a layer for   *)
(* bearer tokens that it was asked for, static tokens are those of one     *)
(* pass over their files, revocations stick, and a refusal has a cause.    *)
(***************************************************************************)
EXTENDS Server, TLAPS

-----------------------------------------------------------------------------
(* The chain of authenticators *)

Chain1 == With(<<>>, "token", flags.token \/ flags.env)
Chain2 == With(Chain1, "dir", flags.dir)
Chain3 == With(Chain2, "jwt", flags.jwt)
Chain4 == With(Chain3, "oidc", flags.oidc)

Built == {"key", "routes", "listen", "serving"}

ChainInv ==
    /\ spc = "dir" => chain = Chain1
    /\ spc = "jwt" => chain = Chain2
    /\ spc = "oidc" => chain = Chain3
    /\ spc \in Built => chain = Chain4

(* Steps of requests, loops, files and provider leave the start alone.     *)
LEMMA StartOnlyStarts ==
    ASSUME [ServerNext]_svars
    PROVE  Startup \/ UNCHANGED startVars
BY DEF ServerNext, svars, Arrive, Authenticate, Try, TryOidc, Refuse, OidcRequest, DirStep, RevStep,
       Observed, Editing, OidcRefresh, OidcTick, OidcRotate, Other, startVars

(* Each step of runServer keeps the chain in step with its place.          *)
LEMMA ChainStep ==
    ASSUME ChainInv, [ServerNext]_svars
    PROVE  ChainInv'
<1> DEFINE Same == UNCHANGED <<Chain1, Chain2, Chain3, Chain4>>
<1>a. flags' = flags => Same
    BY DEF Chain1, Chain2, Chain3, Chain4
<1> HIDE DEF Same
<1>1. CASE UNCHANGED startVars
    BY <1>1, <1>a DEF ChainInv, startVars, Built, Same, Chain1, Chain2, Chain3, Chain4
<1>2. CASE Startup
    <2> USE DEF ChainInv, Start, Return, Skip, Add, Built
    <2>1. flags' = flags
        BY <1>2 DEF Startup, CheckFlags, OpenAudit, OpenAuditError, AddStaticToken, NewStaticDir,
                    NewJWT, NewOIDC, LoadKey, LoadKeyError, Register, RegisterPanic, RegisterRest,
                    Listen, ListenError
    <2>2. Chain1' = Chain1 /\ Chain2' = Chain2 /\ Chain3' = Chain3 /\ Chain4' = Chain4
        BY <2>1, <1>a DEF Same
    <2>3. CASE CheckFlags \/ OpenAudit \/ OpenAuditError \/ LoadKeyError \/ RegisterPanic
        BY <2>3 DEF CheckFlags, OpenAudit, OpenAuditError, LoadKeyError, RegisterPanic
    <2>4. CASE AddStaticToken
        BY <2>2, <2>4 DEF AddStaticToken, Chain1, With
    <2>5. CASE NewStaticDir
        BY <2>2, <2>5 DEF NewStaticDir, Chain2, With
    <2>6. CASE NewJWT
        BY <2>2, <2>6 DEF NewJWT, Chain3, With
    <2>7. CASE NewOIDC
        BY <2>2, <2>7 DEF NewOIDC, Chain4, With
    <2>8. CASE LoadKey \/ Register \/ RegisterRest \/ Listen \/ ListenError
        BY <2>2, <2>8 DEF LoadKey, Register, RegisterRest, Listen, ListenError
    <2> QED BY <1>2, <2>3, <2>4, <2>5, <2>6, <2>7, <2>8 DEF Startup
<1> QED BY <1>1, <1>2, StartOnlyStarts

-----------------------------------------------------------------------------
(* Revocations *)

FileTypes ==
    /\ rev.st = "absent" => rev.subs = {}
    /\ rev \in [st : {"file", "long", "unreadable", "absent"}, subs : SUBSET Entries]
    /\ fd \in [subs : SUBSET Entries, long : BOOLEAN, same : BOOLEAN]

\* Entries that were always in the file are in the opened one and in the
\* installed set; before the first load there are none.
Kept ==
    /\ rev.st # "absent" => always \subseteq rev.subs
    /\ rpc = "scan" => always \subseteq fd.subs
    /\ rpc = "ok" \/ "jwt" \in watched => always \subseteq revoked
    /\ ~flags.revoke => always = {}

RevInv == FileTypes /\ Kept

(* A reload installs no set that lacks an entry the file has always had;   *)
(* one that fails or finds no file leaves the old set (jwt.go              *)
(* loadRevocations).                                                       *)
LEMMA RevReloadKeeps ==
    ASSUME RevInv, RevReload, flags.revoke, flags' = flags
    PROVE  RevInv'
<1>1. rev' = rev /\ watched' = watched
    BY DEF RevReload, disk
<1>2. FileTypes'
    <2>1. rev \in [st : {"file", "long", "unreadable", "absent"}, subs : SUBSET Entries]
        BY DEF RevInv, FileTypes
    <2>2. \/ fd' = fd \/ fd' = NoFile
          \/ fd' = [subs |-> rev.subs, long |-> rev.st = "long", same |-> TRUE]
        <3>1. CASE ScanRevocations
            BY <3>1 DEF ScanRevocations, RevDone
        <3>2. CASE OpenRevocations /\ rev.st \in {"absent", "unreadable"}
            BY <3>2 DEF OpenRevocations, RevMissing, RevDone
        <3>3. CASE OpenRevocations /\ rev.st \notin {"absent", "unreadable"}
            BY <3>3 DEF OpenRevocations
        <3> QED BY <3>1, <3>2, <3>3 DEF RevReload
    <2> DEFINE b == rev.st = "long"
    <2>3. b \in BOOLEAN /\ rev.subs \in SUBSET Entries
        BY <2>1
    <2> HIDE DEF b
    <2>4. NoFile \in [subs : SUBSET Entries, long : BOOLEAN, same : BOOLEAN]
        BY DEF NoFile
    <2>5. [subs |-> rev.subs, long |-> b, same |-> TRUE]
              \in [subs : SUBSET Entries, long : BOOLEAN, same : BOOLEAN]
        BY <2>3
    <2>6. fd' \in [subs : SUBSET Entries, long : BOOLEAN, same : BOOLEAN]
        BY <2>2, <2>4, <2>5 DEF RevInv, FileTypes, b
    <2> QED BY <1>1, <2>1, <2>6 DEF RevInv, FileTypes
<1>3. Kept'
    <2>1. Kept /\ (rev.st = "absent" => rev.subs = {})
        BY DEF RevInv, FileTypes
    <2>2. CASE OpenRevocations
        <3>1. CASE rev.st = "absent"
            BY <1>1, <2>1, <2>2, <3>1 DEF Kept, OpenRevocations, RevMissing, RevDone
        <3>2. CASE rev.st = "unreadable"
            BY <1>1, <2>1, <2>2, <3>2 DEF Kept, OpenRevocations, RevDone
        <3>3. CASE rev.st # "absent" /\ rev.st # "unreadable"
            <4>1. /\ rpc' = "scan" /\ fd'.subs = rev.subs /\ revoked' = revoked
                  /\ always' = IF "jwt" \in watched THEN always ELSE rev.subs
                BY <2>2, <3>3 DEF OpenRevocations
            <4> QED BY <1>1, <2>1, <3>3, <4>1 DEF Kept
        <3> QED BY <3>1, <3>2, <3>3
    <2>3. CASE ScanRevocations
        BY <1>1, <2>1, <2>3 DEF Kept, ScanRevocations, RevDone
    <2> QED BY <2>2, <2>3 DEF RevReload
<1> QED BY <1>2, <1>3 DEF RevInv

(* An edit of the file takes entries off those it has always had, and      *)
(* changes an opened file only where that is still the file's.             *)
LEMMA EditKeeps ==
    ASSUME RevInv, EditReplace \/ EditInPlace, flags' = flags
    PROVE  RevInv'
<1>1. FileTypes /\ Kept
    BY DEF RevInv
<1>2. CASE EditReplace
    <2>1. /\ rev'.st = "absent" => rev'.subs = {}
          /\ rev' \in [st : {"file", "long", "unreadable", "absent"}, subs : SUBSET Entries]
        BY <1>2 DEF EditReplace, RevFiles
    <2>2. fd' = [subs |-> fd.subs, long |-> fd.long, same |-> FALSE]
        BY <1>1, <1>2 DEF EditReplace, FileTypes
    <2>3. fd' \in [subs : SUBSET Entries, long : BOOLEAN, same : BOOLEAN] /\ fd'.subs = fd.subs
        BY <1>1, <2>2 DEF FileTypes
    <2>4. Kept'
        BY <1>1, <1>2, <2>1, <2>3 DEF EditReplace, Kept
    <2> QED BY <2>1, <2>3, <2>4 DEF RevInv, FileTypes
<1>3. CASE EditInPlace
    <2>1. PICK x \in {{}} \cup {rev.subs \cup {e} : e \in Entries} : rev' = [rev EXCEPT !.subs = x]
        BY <1>3 DEF EditInPlace
    <2>2. x \subseteq Entries
        BY <1>1 DEF FileTypes
    <2>3. rev' = [st |-> "file", subs |-> x]
        BY <1>1, <1>3, <2>1 DEF EditInPlace, FileTypes
    <2>4. /\ always' = always \cap x /\ rev'.subs = x /\ rev'.st = "file"
          /\ UNCHANGED <<watched, rpc, revoked>>
        BY <1>3, <2>3 DEF EditInPlace
    <2>5. fd' = IF fd.same THEN [subs |-> x, long |-> fd.long, same |-> TRUE] ELSE fd
        <3>1. fd' = IF fd.same THEN [fd EXCEPT !.subs = x] ELSE fd
            BY <1>3, <2>4 DEF EditInPlace
        <3>2. [fd EXCEPT !.subs = x] = [subs |-> x, long |-> fd.long, same |-> fd.same]
            BY <1>1 DEF FileTypes
        <3>3. CASE fd.same
            <4>1. fd.same = TRUE
                BY <1>1, <3>3 DEF FileTypes
            <4> QED BY <3>1, <3>2, <4>1
        <3>4. CASE ~fd.same
            BY <3>1, <3>4
        <3> QED BY <3>3, <3>4
    <2>6. /\ fd' \in [subs : SUBSET Entries, long : BOOLEAN, same : BOOLEAN]
          /\ fd'.subs = x \/ fd'.subs = fd.subs
        BY <1>1, <2>2, <2>5 DEF FileTypes
    <2>7. FileTypes'
        BY <2>2, <2>3, <2>4, <2>6 DEF FileTypes
    <2>8. Kept'
        BY <1>1, <2>4, <2>6 DEF Kept
    <2> QED BY <2>7, <2>8 DEF RevInv
<1> QED BY <1>2, <1>3

(* The constructor of the JWT layer is done with its first load before the *)
(* layer is added; no other step of the start touches the list.            *)
LEMMA StartupReload ==
    ASSUME Startup
    PROVE  /\ UNCHANGED <<flags, disk, dirVars, revVars, always>>
           /\ "jwt" \in watched' => "jwt" \in watched \/ (flags.revoke => rpc = "ok")
<1> USE DEF Start, Return, Skip, Add, reloadVars
<1>1. CASE CheckFlags \/ OpenAudit \/ OpenAuditError \/ AddStaticToken
    BY <1>1 DEF CheckFlags, OpenAudit, OpenAuditError, AddStaticToken
<1>2. CASE NewStaticDir
    BY <1>2 DEF NewStaticDir
<1>3. CASE NewJWT
    BY <1>3 DEF NewJWT
<1>4. CASE NewOIDC
    BY <1>4 DEF NewOIDC
<1>5. CASE LoadKey \/ LoadKeyError \/ Register \/ RegisterPanic \/ RegisterRest
    BY <1>5 DEF LoadKey, LoadKeyError, Register, RegisterPanic, RegisterRest
<1>6. CASE Listen \/ ListenError
    BY <1>6 DEF Listen, ListenError
<1> QED BY <1>1, <1>2, <1>3, <1>4, <1>5, <1>6 DEF Startup

(* Steps of requests and of the OIDC layer touch no file and no reload.    *)
LEMMA RequestsReadOnly ==
    ASSUME \/ \E p \in Clients(flags) : Arrive(p[1], p[2])
           \/ \E r \in Requests : Authenticate(r) \/ OidcRequest(r)
           \/ \E p \in Procs : OidcRefresh(p)
           \/ OidcTick \/ OidcRotate
           \/ UNCHANGED svars
    PROVE  UNCHANGED <<startVars, reloadVars>>
BY DEF Arrive, Authenticate, Try, TryOidc, Refuse, OidcRequest, OidcRefresh, OidcTick, OidcRotate,
       Other, svars

(* Every step of the server keeps the invariant of the revocations.        *)
LEMMA RevStepKeeps ==
    ASSUME RevInv, [ServerNext]_svars
    PROVE  RevInv'
<1>1. CASE Startup
    <2>1. UNCHANGED <<flags, rev, rpc, fd, revoked, always>>
        BY <1>1, StartupReload DEF disk, revVars
    <2> QED BY <1>1, <2>1, StartupReload DEF RevInv, FileTypes, Kept
<1>2. CASE UNCHANGED <<startVars, reloadVars>>
    BY <1>2 DEF RevInv, FileTypes, Kept, startVars, reloadVars, disk, revVars
<1>3. CASE DirStep
    BY <1>3 DEF DirStep, Observed, DirReload, startVars, disk, revVars, RevInv, FileTypes, Kept
<1>4. CASE RevStep
    <2>1. RevReload /\ flags.revoke /\ flags' = flags
        BY <1>4 DEF RevStep, Observed, startVars
    <2> QED BY <2>1, RevReloadKeeps
<1>5. CASE Editing
    <2>1. flags' = flags
        BY <1>5 DEF Editing, startVars
    <2>2. CASE EditDir \/ EditListable
        BY <2>1, <2>2 DEF EditDir, EditListable, dirVars, revVars, RevInv, FileTypes, Kept
    <2>3. CASE EditReplace \/ EditInPlace
        BY <2>1, <2>3, EditKeeps
    <2> QED BY <1>5, <2>2, <2>3 DEF Editing
<1> QED BY <1>1, <1>2, <1>3, <1>4, <1>5, RequestsReadOnly DEF ServerNext

(* RevocationSticks for any files and any number of edits and reloads:     *)
(* what the file has named all the time stays revoked (jwt.go).            *)
THEOREM RevocationsStick == ServerSpec => []RevocationSticks
<1>1. ServerInit => RevInv
    BY DEF ServerInit, ReloadInit, RevFiles, NoFile, RevInv, FileTypes, Kept
<1>2. RevInv /\ [ServerNext]_svars => RevInv'
    BY RevStepKeeps
<1>3. RevInv => RevocationSticks
    BY DEF RevInv, Kept, RevocationSticks, Revoked
<1> QED BY <1>1, <1>2, <1>3, PTL DEF ServerSpec

-----------------------------------------------------------------------------
(* Static tokens *)

\* The map t has only pairs of S.
OnDisk(t, S) == \A v \in Values : t[v] # NoName => <<t[v], v>> \in S

\* The map t accepts the value of p in the name of its file or of a later one.
Covers(t, p) == t[p[2]] # NoName /\ Pos(t[p[2]]) >= Pos(p[1])

\* A reload has seen what is on disk, has it in its map unless the file is yet
\* to be read, and the files in its map come before those yet to be read.
Reading ==
    /\ span.kept \subseteq Pairs(dir) /\ Pairs(dir) \subseteq span.seen
    /\ OnDisk(loaded, span.seen)
    /\ \A p \in span.kept : p[1] \in todo \/ Covers(loaded, p)
    /\ \A v \in Values, m \in todo : loaded[v] # NoName => Pos(loaded[v]) <= Pos(m)

DirInv ==
    /\ DirTypeOK
    /\ dpc = "reading" => Reading
    /\ dpc # "reading" => loaded = NoTokens
    /\ OnDisk(tokens, last.seen)
    /\ \A p \in last.kept : Covers(tokens, p)

(* A file has a place in the listing.                                      *)
LEMMA Places ==
    ASSUME NEW n \in Names
    PROVE  Pos(n) \in Nat
<1>1. \E i \in DOMAIN Files : Files[i] = n
    BY DEF Names, ToSet
<1>2. Pos(n) \in DOMAIN Files
    BY <1>1 DEF Pos
<1>3. Files \in Seq(Names)
    BY ReloadAssumption
<1> QED BY <1>2, <1>3

(* What a reload has seen is a set of files and their values.              *)
LEMMA SpansOf ==
    /\ Nothing \in Spans /\ Nothing.seen = {} /\ Nothing.kept = {}
    /\ \A S, T \in SUBSET (Names \X Values) : [seen |-> S, kept |-> T] \in Spans
    /\ \A s \in Spans : s.seen \subseteq Names \X Values /\ s.kept \subseteq Names \X Values
BY DEF Spans, Nothing

(* A reload that ends forgets what it has read.                            *)
LEMMA DirDoneKeeps ==
    ASSUME NEW result \in {"ok", "failed"}, DirDone(result)
    PROVE  /\ dpc' \in {"idle", "ok", "failed"} /\ dpc' # "reading"
           /\ todo' = {} /\ loaded' = NoTokens /\ loaded' \in [Values -> Names \cup {NoName}]
           /\ span' = Nothing /\ span' \in Spans
BY SpansOf DEF DirDone, NoTokens

(* A server starts with no static tokens and none read.                    *)
LEMMA DirInvInit ==
    ASSUME ServerInit
    PROVE  DirInv
<1>1. /\ dir \in [Names -> Contents] /\ todo = {} /\ loaded = NoTokens /\ tokens = NoTokens
      /\ span = Nothing /\ last = Nothing /\ dpc = "idle"
    BY DEF ServerInit, ReloadInit
<1>2. NoTokens \in [Values -> Names \cup {NoName}] /\ \A v \in Values : NoTokens[v] = NoName
    BY DEF NoTokens
<1>3. DirTypeOK
    BY <1>1, <1>2, SpansOf DEF DirTypeOK
<1> QED BY <1>1, <1>2, <1>3, SpansOf DEF DirInv, OnDisk, Covers

(* os.ReadDir starts a map with nothing in it (static.go reload).          *)
LEMMA ReadDirKeeps ==
    ASSUME DirInv, ReadDir, dir' = dir
    PROVE  DirInv'
<1>1. dpc # "reading" /\ loaded = NoTokens /\ UNCHANGED <<tokens, last>>
    BY DEF ReadDir, Ready, DirInv
<1>2. loaded' = NoTokens
    BY <1>1, DirDoneKeeps DEF ReadDir
<1>3. NoTokens \in [Values -> Names \cup {NoName}] /\ \A v \in Values : NoTokens[v] = NoName
    BY DEF NoTokens
<1>4. CASE listable
    <2>1. /\ dpc' = "reading" /\ todo' = {n \in Names : dir[n] # "absent"}
          /\ span' = [seen |-> Pairs(dir), kept |-> Pairs(dir)]
        BY <1>4 DEF ReadDir
    <2>2. span'.seen = Pairs(dir) /\ span'.kept = Pairs(dir)
        BY <2>1
    <2>3. \A p \in Pairs(dir) : p[1] \in Names /\ dir[p[1]] # "absent"
        BY ReloadAssumption DEF Pairs
    <2>4. Pairs(dir) \in SUBSET (Names \X Values)
        BY DEF Pairs
    <2>5. span' \in Spans
        BY <2>1, <2>4, SpansOf
    <2>6. DirTypeOK'
        BY <1>1, <1>2, <1>3, <2>1, <2>5 DEF DirInv, DirTypeOK
    <2>7. Pairs(dir)' = Pairs(dir)
        BY DEF Pairs
    <2>8. Reading'
        BY <1>2, <1>3, <2>1, <2>2, <2>3, <2>7 DEF Reading, OnDisk
    <2> QED BY <1>1, <2>1, <2>6, <2>8 DEF DirInv, OnDisk, Covers
<1>5. CASE ~listable
    <2>1. /\ dpc' \in {"idle", "ok", "failed"} /\ dpc' # "reading" /\ todo' = {}
          /\ span' \in Spans
        BY <1>5, DirDoneKeeps DEF ReadDir
    <2>2. DirTypeOK'
        BY <1>1, <1>2, <1>3, <2>1 DEF DirInv, DirTypeOK
    <2> QED BY <1>1, <1>2, <2>1, <2>2 DEF DirInv, OnDisk, Covers
<1> QED BY <1>4, <1>5

(* A file's value goes to the file, which comes after all files read       *)
(* before it (static.go reload).                                           *)
LEMMA ReadFileKeeps ==
    ASSUME DirInv, ReadFile, dir' = dir
    PROVE  DirInv'
<1>1. dpc = "reading" /\ Reading /\ DirTypeOK /\ UNCHANGED <<tokens, last>>
    BY DEF ReadFile, DirInv
<1>2. PICK n \in todo :
          /\ \A m \in todo : Pos(n) <= Pos(m)
          /\ IF dir[n] \in {"unreadable", "absent"} THEN DirDone("failed")
             ELSE /\ todo' = todo \ {n}
                  /\ loaded' = IF dir[n] = "blank" THEN loaded ELSE [loaded EXCEPT ![dir[n]] = n]
                  /\ UNCHANGED <<dpc, span>>
    BY DEF ReadFile
<1>3. CASE dir[n] \in {"unreadable", "absent"}
    <2>1. /\ dpc' \in {"idle", "ok", "failed"} /\ dpc' # "reading"
          /\ todo' = {} /\ loaded' = NoTokens /\ loaded' \in [Values -> Names \cup {NoName}]
          /\ span' \in Spans
        BY <1>2, <1>3, DirDoneKeeps
    <2>2. DirTypeOK'
        BY <1>1, <2>1 DEF DirTypeOK
    <2> QED BY <1>1, <2>1, <2>2 DEF DirInv, OnDisk, Covers
<1>4. CASE dir[n] \notin {"unreadable", "absent"}
    <2>1. /\ todo' = todo \ {n} /\ UNCHANGED <<dpc, span>>
          /\ loaded' = IF dir[n] = "blank" THEN loaded ELSE [loaded EXCEPT ![dir[n]] = n]
        BY <1>2, <1>4
    <2>2. n \in Names /\ NoName \notin Names /\ dir[n] \in Values \cup {"blank"}
        BY <1>1, <1>4, ReloadAssumption DEF DirTypeOK, Contents
    <2>3. Pairs(dir)' = Pairs(dir)
        BY DEF Pairs
    <2>4. \A v \in Values : loaded[v] # NoName => loaded[v] \in Names /\ Pos(loaded[v]) \in Nat
        BY <1>1, Places DEF DirTypeOK
    <2>5. \A m \in Names : Pos(m) \in Nat
        BY Places
    <2>6. \A p \in span.kept : p[1] \in Names /\ p[2] \in Values /\ dir[p[1]] = p[2]
        BY <1>1 DEF Reading, Pairs
    <2>7. CASE dir[n] = "blank"
        <3>1. loaded' = loaded
            BY <2>1, <2>7
        <3>2. \A p \in span.kept : p[1] # n
            BY <2>6, <2>7, ReloadAssumption
        <3>3. Reading'
            BY <1>1, <2>1, <2>3, <3>1, <3>2 DEF Reading, OnDisk, Covers
        <3>4. DirTypeOK'
            BY <1>1, <2>1, <3>1 DEF DirTypeOK
        <3> QED BY <1>1, <2>1, <3>3, <3>4 DEF DirInv, OnDisk, Covers
    <2>8. CASE dir[n] # "blank"
        <3> DEFINE x == dir[n]
        <3>1. x \in Values /\ <<n, x>> \in Pairs(dir)
            BY <2>2, <2>8 DEF Pairs
        <3>2. loaded' = [loaded EXCEPT ![x] = n]
            BY <2>1, <2>8
        <3>3. x = dir[n]
            OBVIOUS
        <3> HIDE DEF x
        <3>4. /\ loaded' \in [Values -> Names \cup {NoName}]
              /\ \A v \in Values : loaded'[v] = IF v = x THEN n ELSE loaded[v]
            BY <1>1, <2>2, <3>1, <3>2 DEF DirTypeOK
        <3>5. OnDisk(loaded, span.seen)'
            BY <1>1, <2>1, <3>1, <3>4 DEF Reading, OnDisk
        <3>6. ASSUME NEW p \in span.kept
              PROVE  p[1] \in todo' \/ Covers(loaded', p)
            <4>1. CASE p[2] = x
                <5>1. loaded'[p[2]] = n /\ n # NoName
                    BY <2>2, <2>6, <3>4, <4>1
                <5>2. CASE p[1] = n
                    BY <2>2, <2>5, <5>1, <5>2 DEF Covers
                <5>3. CASE p[1] # n /\ p[1] \notin todo
                    <6>1. loaded[p[2]] # NoName /\ Pos(loaded[p[2]]) >= Pos(p[1])
                        BY <1>1, <5>3 DEF Reading, Covers
                    <6>2. Pos(loaded[p[2]]) <= Pos(n)
                        BY <1>1, <2>6, <6>1 DEF Reading
                    <6>3. Pos(n) >= Pos(p[1])
                        BY <2>2, <2>4, <2>5, <2>6, <6>1, <6>2
                    <6> QED BY <5>1, <6>3 DEF Covers
                <5>4. CASE p[1] # n /\ p[1] \in todo
                    BY <2>1, <5>4
                <5> QED BY <5>2, <5>3, <5>4
            <4>2. CASE p[2] # x
                <5>1. p[1] # n
                    BY <2>6, <3>3, <4>2
                <5>2. loaded'[p[2]] = loaded[p[2]]
                    BY <2>6, <3>4, <4>2
                <5> QED BY <1>1, <2>1, <5>1, <5>2 DEF Reading, Covers
            <4> QED BY <4>1, <4>2
        <3>7. \A v \in Values, m \in todo' : loaded'[v] # NoName => Pos(loaded'[v]) <= Pos(m)
            BY <1>1, <1>2, <2>1, <3>4 DEF Reading
        <3>8. Reading'
            BY <1>1, <2>1, <2>3, <3>5, <3>6, <3>7 DEF Reading, Covers
        <3>9. DirTypeOK'
            BY <1>1, <2>1, <3>4 DEF DirTypeOK
        <3> QED BY <1>1, <2>1, <3>8, <3>9 DEF DirInv, OnDisk, Covers
    <2> QED BY <2>7, <2>8
<1> QED BY <1>3, <1>4

(* When no file is left, what was on disk all the time is in the map that  *)
(* is installed (static.go reload).                                        *)
LEMMA InstallKeeps ==
    ASSUME DirInv, InstallTokens, dir' = dir
    PROVE  DirInv'
<1>1. /\ Reading /\ DirTypeOK /\ todo = {}
      /\ tokens' = loaded /\ last' = span
    BY DEF InstallTokens, DirInv
<1>2. /\ dpc' \in {"idle", "ok", "failed"} /\ dpc' # "reading"
      /\ todo' = {} /\ loaded' = NoTokens /\ loaded' \in [Values -> Names \cup {NoName}]
      /\ span' \in Spans
    BY DirDoneKeeps DEF InstallTokens
<1>3. DirTypeOK'
    BY <1>1, <1>2 DEF DirTypeOK
<1>4. OnDisk(tokens, last.seen)' /\ \A p \in last'.kept : Covers(tokens', p)
    BY <1>1 DEF Reading, OnDisk
<1> QED BY <1>2, <1>3, <1>4 DEF DirInv, Covers

(* An edit adds to what a reload has seen and takes off what it has seen   *)
(* all the time.                                                           *)
LEMMA EditDirKeeps ==
    ASSUME DirInv, EditDir
    PROVE  DirInv'
<1>1. DirTypeOK /\ UNCHANGED <<dpc, todo, loaded, tokens, last>>
    BY DEF DirInv, EditDir
<1>2. dir' \in [Names -> Contents]
    BY <1>1 DEF EditDir, DirTypeOK
<1>3. CASE dpc # "reading"
    <2>1. span' = span
        BY <1>3 DEF EditDir
    <2> QED BY <1>1, <1>2, <1>3, <2>1 DEF DirInv, DirTypeOK, OnDisk, Covers
<1>4. CASE dpc = "reading"
    <2>1. span' = [seen |-> span.seen \cup Pairs(dir'), kept |-> span.kept \cap Pairs(dir')]
        BY <1>4 DEF EditDir
    <2>2. span'.seen = span.seen \cup Pairs(dir') /\ span'.kept = span.kept \cap Pairs(dir')
        BY <2>1
    <2>3. Reading
        BY <1>4 DEF DirInv
    <2>4. Reading'
        BY <1>1, <2>2, <2>3 DEF Reading, OnDisk, Covers, Pairs
    <2>5. Pairs(dir') \in SUBSET (Names \X Values)
        BY DEF Pairs
    <2>6. span' \in Spans
        <3>1. span.seen \cup Pairs(dir') \in SUBSET (Names \X Values)
            BY <1>1, <2>5, SpansOf DEF DirTypeOK
        <3>2. span.kept \cap Pairs(dir') \in SUBSET (Names \X Values)
            BY <2>5
        <3> QED BY <2>1, <3>1, <3>2, SpansOf
    <2>7. DirTypeOK'
        BY <1>1, <1>2, <2>6 DEF DirTypeOK
    <2> QED BY <1>1, <1>4, <2>4, <2>7 DEF DirInv, OnDisk, Covers
<1> QED BY <1>3, <1>4

(* Every step of the server keeps the invariant of the static tokens.      *)
LEMMA DirStepKeeps ==
    ASSUME DirInv, [ServerNext]_svars
    PROVE  DirInv'
<1>1. ASSUME UNCHANGED <<dir, dirVars>>
      PROVE  DirInv'
    BY <1>1 DEF dirVars, DirInv, DirTypeOK, Reading, Pairs, OnDisk, Covers
<1>2. CASE DirStep
    <2>1. dir' = dir /\ (ReadDir \/ ReadFile \/ InstallTokens)
        BY <1>2 DEF DirStep, Observed, DirReload, disk
    <2> QED BY <2>1, ReadDirKeeps, ReadFileKeeps, InstallKeeps
<1>3. CASE Editing
    <2>1. CASE EditDir
        BY <2>1, EditDirKeeps
    <2>2. CASE EditListable \/ EditReplace \/ EditInPlace
        <3>1. UNCHANGED <<dir, dirVars>>
            BY <2>2 DEF EditListable, EditReplace, EditInPlace
        <3> QED BY <1>1, <3>1
    <2> QED BY <1>3, <2>1, <2>2 DEF Editing
<1>4. CASE Startup
    <2>1. UNCHANGED <<disk, dirVars>>
        BY <1>4, StartupReload
    <2> QED BY <1>1, <2>1 DEF disk
<1>5. CASE RevStep
    <2>1. UNCHANGED <<disk, dirVars>>
        BY <1>5 DEF RevStep, Observed, RevReload
    <2> QED BY <1>1, <2>1 DEF disk
<1>6. CASE UNCHANGED <<startVars, reloadVars>>
    BY <1>1, <1>6 DEF reloadVars, disk
<1> QED BY <1>2, <1>3, <1>4, <1>5, <1>6, RequestsReadOnly DEF ServerNext

(* TokensFollowDisk for any files, any number of edits and of failed       *)
(* reloads: the tokens in use are those of one pass over the directory     *)
(* (static.go reload, Authenticate).                                       *)
THEOREM TokensAreOfOnePass == ServerSpec => []TokensFollowDisk
<1>1. ServerInit => DirInv
    BY DirInvInit
<1>2. DirInv /\ [ServerNext]_svars => DirInv'
    BY DirStepKeeps
<1>3. DirInv => TokensFollowDisk
    BY DEF DirInv, OnDisk, Covers, TokensFollowDisk, StaticName
<1> QED BY <1>1, <1>2, <1>3, PTL DEF ServerSpec

-----------------------------------------------------------------------------
(* Refusals of the OIDC layer *)

\* S is what the provider has published at some time of the request.
Current(r, S) == \E v \in since[r]..idp : S = Published(v)

Excused(r) == failed[r] \/ raced[r]

OidcTypes ==
    /\ idp \in Nat
    /\ DOMAIN pc = Procs /\ DOMAIN fetched = Procs
    /\ kid \in [Requests -> Nat] /\ since \in [Requests -> Nat]

\* A refresh brings keys of the time of the request, and the retry uses them
\* unless they were replaced meanwhile.
Fresh(r) ==
    /\ since[r] <= idp
    /\ pc[r] = "install" => failed[r] \/ Current(r, fetched[r])
    /\ pc[r] = "retry" => Excused(r) \/ Current(r, jwks)
    /\ pc[r] = "refused" => Excused(r) \/ kid[r] \notin Published(since[r]) \/ kid[r] < idp

OidcInv == OidcTypes /\ \A r \in Requests : Fresh(r)

(* A key that was published when the request began and is not in a set of  *)
(* its time has been replaced for good.                                    *)
LEMMA MissingKeyIsOld ==
    ASSUME OidcTypes, NEW r \in Requests, NEW S, Current(r, S), kid[r] \notin S
    PROVE  kid[r] \notin Published(since[r]) \/ kid[r] < idp
<1>1. PICK v \in since[r]..idp : S = Published(v)
    BY DEF Current
<1>2. since[r] \in Nat /\ idp \in Nat /\ kid[r] \in Nat
    BY DEF OidcTypes
<1> QED BY <1>1, <1>2 DEF Published

(* Steps of the OIDC layer keep the variables' types.                      *)
LEMMA OidcTypesKept ==
    ASSUME OidcTypes, [Next]_vars
    PROVE  OidcTypes'
<1> USE OidcAssumption DEF OidcTypes, Goto, request, history, Procs
<1>1. ASSUME NEW r \in Requests, NEW x \in Kids \cup {NoKid}, Begin(r, x)
      PROVE  OidcTypes'
    BY <1>1 DEF Begin, Kids, NoKid
<1>2. ASSUME NEW r \in Requests, Request(r)
      PROVE  OidcTypes'
    BY <1>2 DEF Request, ParseOK, ParseError, Retry, Decide
<1>3. ASSUME NEW p \in Procs, Refresh(p)
      PROVE  OidcTypes'
    <2>1. CASE FetchDiscovery(p) \/ FetchJWKS(p)
        BY <2>1 DEF FetchDiscovery, FetchJWKS
    <2>2. CASE FetchUnusable(p) \/ RefreshError(p)
        BY <2>2 DEF FetchUnusable, RefreshError, Fail
    <2>3. CASE Install(p)
        BY <2>3 DEF Install
    <2> QED BY <1>3, <2>1, <2>2, <2>3 DEF Refresh
<1>4. CASE Tick \/ Rotate \/ UNCHANGED vars
    BY <1>4 DEF Tick, Rotate, vars
<1> QED BY <1>1, <1>2, <1>3, <1>4 DEF Next

(* Steps of the OIDC layer keep what is known of the keys of a request     *)
(* (oidc.go Authenticate, refreshJWKS).                                    *)
LEMMA FreshKept ==
    ASSUME OidcInv, [Next]_vars, NEW r \in Requests
    PROVE  Fresh(r)'
<1>1. OidcTypes /\ OidcTypes' /\ Fresh(r)
    BY OidcTypesKept DEF OidcInv
<1>2. Loop # r /\ r \in Procs
    BY OidcAssumption DEF Procs
<1>3. ASSUME NEW q \in Requests, NEW x \in Kids \cup {NoKid}, Begin(q, x)
      PROVE  Fresh(r)'
    <2>1. /\ UNCHANGED <<idp, jwks, fetched, failed, raced>>
          /\ q # r => pc'[r] = pc[r] /\ kid'[r] = kid[r] /\ since'[r] = since[r]
          /\ q = r => pc'[r] = "parse" /\ since'[r] = idp
        BY <1>1, <1>2, <1>3 DEF Begin, Goto, history, OidcTypes
    <2> QED BY <1>1, <2>1 DEF Fresh, Current, Excused, OidcTypes
<1>4. ASSUME NEW q \in Requests, Request(q)
      PROVE  Fresh(r)'
    <2>1. /\ UNCHANGED <<idp, jwks, fetched, failed, raced, kid, since>>
          /\ q # r => pc'[r] = pc[r]
        BY <1>1, <1>2, <1>4
        DEF Request, ParseOK, ParseError, Retry, Decide, Goto, request, history, OidcTypes
    <2>2. CASE q # r
        BY <1>1, <2>1, <2>2 DEF Fresh, Current, Excused
    <2>3. CASE q = r
        <3>1. \/ pc'[r] \in {"accepted", "unfit", "discovery"}
              \/ pc[r] = "retry" /\ pc'[r] = "refused" /\ kid[r] \notin jwks
            BY <1>1, <1>2, <1>4, <2>3
            DEF Request, ParseOK, ParseError, Retry, Decide, Verified, Goto, OidcTypes
        <3>2. CASE pc'[r] \in {"accepted", "unfit", "discovery"}
            BY <1>1, <2>1, <3>2 DEF Fresh
        <3>3. CASE pc[r] = "retry" /\ pc'[r] = "refused" /\ kid[r] \notin jwks
            BY <1>1, <2>1, <3>3, MissingKeyIsOld DEF Fresh, Excused
        <3> QED BY <3>1, <3>2, <3>3
    <2> QED BY <2>2, <2>3
<1>5. ASSUME NEW p \in Procs, FetchDiscovery(p) \/ FetchJWKS(p)
      PROVE  Fresh(r)'
    <2>1. /\ UNCHANGED <<idp, jwks, failed, raced, kid, since>>
          /\ p # r => pc'[r] = pc[r] /\ fetched'[r] = fetched[r]
          /\ p = r => pc'[r] = "keys" \/ (pc'[r] = "install" /\ fetched'[r] = Published(idp))
        BY <1>1, <1>2, <1>5 DEF FetchDiscovery, FetchJWKS, Goto, request, history, OidcTypes
    <2>2. since[r] <= idp => idp \in since[r]..idp
        BY <1>1 DEF OidcTypes
    <2> QED BY <1>1, <2>1, <2>2 DEF Fresh, Current, Excused
<1>6. ASSUME NEW p \in Procs, FetchUnusable(p) \/ RefreshError(p)
      PROVE  Fresh(r)'
    <2>1. /\ UNCHANGED <<idp, jwks, raced, kid, since>>
          /\ p # r => pc'[r] = pc[r] /\ fetched'[r] = fetched[r] /\ (failed'[r] <=> failed[r])
          /\ p = r => failed'[r]
        BY <1>1, <1>2, <1>6 DEF FetchUnusable, RefreshError, Fail, Goto, request, OidcTypes
    <2> QED BY <1>1, <2>1 DEF Fresh, Current, Excused
<1>7. ASSUME NEW p \in Procs, Install(p)
      PROVE  Fresh(r)'
    <2>1. /\ UNCHANGED <<idp, failed, kid, since>>
          /\ raced'[r] = (raced[r] \/ pc[r] = "retry")
          /\ jwks' = fetched[p]
          /\ p # r => pc'[r] = pc[r] /\ fetched'[r] = fetched[r]
          /\ p = r => pc[r] = "install" /\ pc'[r] = "retry"
        BY <1>1, <1>2, <1>7 DEF Install, Goto, request, OidcTypes
    <2>2. CASE p = r
        BY <1>1, <2>1, <2>2 DEF Fresh, Current, Excused
    <2>3. CASE p # r
        BY <1>1, <2>1, <2>3 DEF Fresh, Current, Excused
    <2> QED BY <2>2, <2>3
<1>8. CASE Tick
    <2>1. UNCHANGED <<idp, jwks, fetched, failed, raced, kid, since>> /\ pc'[r] = pc[r]
        BY <1>1, <1>2, <1>8 DEF Tick, Goto, request, history, OidcTypes
    <2> QED BY <1>1, <2>1 DEF Fresh, Current, Excused
<1>9. CASE Rotate
    <2>1. idp' = idp + 1 /\ UNCHANGED <<jwks, pc, fetched, failed, raced, kid, since>>
        BY <1>9 DEF Rotate, request, history
    <2>2. (since[r]..idp \subseteq since[r]..idp' /\ since[r] <= idp') \/ ~(since[r] <= idp)
        BY <1>1, <2>1 DEF OidcTypes
    <2>3. kid[r] < idp => kid[r] < idp'
        BY <1>1, <2>1 DEF OidcTypes
    <2> QED BY <1>1, <2>1, <2>2, <2>3 DEF Fresh, Current, Excused
<1>10. CASE UNCHANGED vars
    BY <1>1, <1>10 DEF vars, Fresh, Current, Excused
<1> QED BY <1>3, <1>4, <1>5, <1>6, <1>7, <1>8, <1>9, <1>10 DEF Next, Refresh

(* The steps of the server are steps of the OIDC layer or leave it alone.  *)
LEMMA ServerTakesOidcSteps ==
    ASSUME [ServerNext]_svars
    PROVE  [Next]_vars
<1>1. CASE Startup
    BY <1>1 DEF Startup, CheckFlags, OpenAudit, OpenAuditError, AddStaticToken, NewStaticDir, NewJWT,
                NewOIDC, LoadKey, LoadKeyError, Register, RegisterPanic, RegisterRest, Listen,
                ListenError, Return, Skip, Add
<1>2. CASE \/ \E p \in Clients(flags) : Arrive(p[1], p[2])
           \/ DirStep \/ RevStep \/ Editing \/ UNCHANGED svars
    BY <1>2 DEF Arrive, DirStep, RevStep, Observed, Editing, svars
<1>3. ASSUME NEW r \in Requests, Authenticate(r) \/ OidcRequest(r)
      PROVE  [Next]_vars
    BY <1>3 DEF Authenticate, Try, TryOidc, Refuse, OidcRequest, Next
<1>4. CASE (\E p \in Procs : OidcRefresh(p)) \/ OidcTick \/ OidcRotate
    BY <1>4 DEF OidcRefresh, OidcTick, OidcRotate, Next
<1> QED BY <1>1, <1>2, <1>3, <1>4 DEF ServerNext

(* RefusedForCause for any number of requests and rotations: only a failed *)
(* refresh, or another refresh between its own and the retry, makes the    *)
(* OIDC layer refuse a key that was published all the time (oidc.go).      *)
THEOREM RefusalsHaveCause == ServerSpec => []RefusedForCause
<1>1. ServerInit => OidcInv
    BY OidcAssumption DEF ServerInit, Init, OidcInv, OidcTypes, Fresh, Procs
<1>2. OidcInv /\ [ServerNext]_svars => OidcInv'
    BY ServerTakesOidcSteps, OidcTypesKept, FreshKept DEF OidcInv
<1>3. OidcInv => RefusedForCause
    <2> SUFFICES ASSUME OidcInv, NEW r \in Requests, pc[r] = "refused",
                        kid[r] \in Published(since[r]) \cap Published(idp)
                 PROVE  failed[r] \/ raced[r]
        BY DEF RefusedForCause
    <2>1. Excused(r) \/ kid[r] \notin Published(since[r]) \/ kid[r] < idp
        BY DEF OidcInv, Fresh
    <2>2. kid[r] \in Nat /\ idp \in Nat
        BY DEF OidcInv, OidcTypes
    <2>3. ~(kid[r] < idp)
        BY <2>2 DEF Published
    <2> QED BY <2>1, <2>3 DEF Excused
<1> QED BY <1>1, <1>2, <1>3, PTL DEF ServerSpec

-----------------------------------------------------------------------------
(* Requests in the chain *)

LayerNames == {"token", "dir", "jwt", "oidc"}

\* The layers from index k on.
From(k) == {chain[n] : n \in k..Len(chain)}

Asked(r) ==
    /\ at[r] = "new" => good[r] = {} /\ layer[r] = 1
    /\ at[r] # "new" => spc = "serving" /\ good[r] \subseteq Accepting(bearer[r])
    /\ at[r] = "chain" => layer[r] \in Nat \ {0} /\ good[r] \subseteq From(layer[r])
    /\ at[r] = "refused" => good[r] = {}
    /\ at[r] = "accepted" /\ bearer[r].kind = "none" => chain = <<>>

RequestTypes ==
    /\ flags \in CommandLines /\ chain \in Seq(LayerNames)
    /\ DOMAIN at = Requests /\ DOMAIN good = Requests
    /\ DOMAIN layer = Requests /\ DOMAIN bearer = Requests

ChainedInv == RequestTypes /\ \A r \in Requests : Asked(r)

(* The layers are those from the first on.                                 *)
LEMMA AllLayers ==
    ASSUME chain \in Seq(LayerNames)
    PROVE  ToSet(chain) = From(1) /\ \A k \in Nat \ {0} : k > Len(chain) => From(k) = {}
BY DEF ToSet, From

(* A request arrives at the first layer, or is decided at once.            *)
LEMMA ArriveKeeps ==
    ASSUME ChainedInv, NEW q \in Requests, NEW b, Arrive(q, b)
    PROVE  ChainedInv'
<1>1. RequestTypes /\ RequestTypes'
    BY DEF ChainedInv, RequestTypes, Arrive, startVars
<1>2. ASSUME NEW r \in Requests, r # q
      PROVE  Asked(r)'
    BY <1>1, <1>2 DEF ChainedInv, RequestTypes, Asked, Arrive, startVars, reloadVars, dirVars, revVars,
                      Accepting, Accepts, StaticName, Revoked, From
<1>3. Asked(q)'
    <2>1. /\ bearer'[q] = b /\ good'[q] = Accepting(b) /\ layer'[q] = 1
          /\ at'[q] = IF b.kind = "cert" \/ chain = <<>> THEN "accepted"
                      ELSE IF b.kind = "none" THEN "refused" ELSE "chain"
          /\ spc = "serving" /\ UNCHANGED <<flags, spc, chain, tokens, revoked>>
        BY DEF Arrive, ChainedInv, RequestTypes, Asked, startVars, reloadVars, dirVars, revVars
    <2>2. Accepting(b)' = Accepting(b) /\ From(1)' = From(1)
        BY <2>1 DEF Accepting, Accepts, StaticName, Revoked, From
    <2>3. Accepting(b) \subseteq From(1)
        BY <1>1, AllLayers DEF RequestTypes, Accepting
    <2>4. b.kind = "none" => Accepting(b) = {}
        BY DEF Accepting, Accepts
    <2> QED BY <2>1, <2>2, <2>3, <2>4 DEF Asked
<1> QED BY <1>1, <1>2, <1>3 DEF ChainedInv

(* A layer that refuses the token is passed; it is none of those that have *)
(* accepted it all the time (auth.go AuthChain.Authenticate).              *)
LEMMA AuthenticateKeeps ==
    ASSUME ChainedInv, NEW q \in Requests, Authenticate(q)
    PROVE  ChainedInv'
<1>1. /\ UNCHANGED <<flags, spc, chain, tokens, revoked, bearer, good>>
      /\ RequestTypes /\ RequestTypes'
    BY DEF Authenticate, Try, TryOidc, Refuse, startVars, reloadVars, dirVars, revVars, ChainedInv,
           RequestTypes
<1>2. \A k, c : From(k)' = From(k) /\ Accepting(c)' = Accepting(c)
    BY <1>1 DEF From, Accepting, Accepts, StaticName, Revoked
<1>3. ASSUME NEW r \in Requests, r # q
      PROVE  Asked(r)'
    <2>1. at'[r] = at[r] /\ layer'[r] = layer[r]
        BY <1>3 DEF Authenticate, Try, TryOidc, Refuse, ChainedInv, RequestTypes
    <2> QED BY <1>1, <1>2, <2>1 DEF Asked, ChainedInv
<1>4. Asked(q)'
    <2>1. at[q] = "chain" /\ Asked(q)
        BY DEF Authenticate, Try, TryOidc, Refuse, ChainedInv
    <2>2. CASE Try(q) /\ Accepts(chain[layer[q]], bearer[q])
        <3>1. at'[q] = "accepted"
            BY <1>1, <2>2 DEF Try, RequestTypes
        <3>2. bearer[q].kind # "none"
            BY <2>2 DEF Accepts
        <3> QED BY <1>1, <1>2, <2>1, <3>1, <3>2 DEF Asked
    <2>3. CASE Try(q) /\ ~Accepts(chain[layer[q]], bearer[q])
        <3>1. at'[q] = "chain" /\ layer'[q] = layer[q] + 1 /\ layer[q] <= Len(chain)
            BY <1>1, <2>1, <2>3 DEF Try, RequestTypes
        <3>2. chain[layer[q]] \notin good[q]
            BY <2>1, <2>3 DEF Asked, Accepting
        <3>3. layer[q] \in Nat \ {0} /\ Len(chain) \in Nat
            BY <1>1, <2>1 DEF Asked, RequestTypes
        <3>4. \A n \in layer[q]..Len(chain) : n = layer[q] \/ n \in (layer[q] + 1)..Len(chain)
            BY <3>3
        <3>5. good[q] \subseteq From(layer[q] + 1)
            BY <2>1, <3>2, <3>4 DEF Asked, From
        <3> QED BY <1>1, <1>2, <2>1, <3>1, <3>3, <3>5 DEF Asked
    <2>4. CASE TryOidc(q)
        <3>1. at'[q] = "oidc"
            BY <1>1, <2>4 DEF TryOidc, RequestTypes
        <3> QED BY <1>1, <1>2, <2>1, <3>1 DEF Asked
    <2>5. CASE Refuse(q)
        <3>1. at'[q] = "refused" /\ layer[q] > Len(chain)
            BY <1>1, <2>5 DEF Refuse, RequestTypes
        <3>2. good[q] = {}
            BY <1>1, <2>1, <3>1, AllLayers DEF Asked, RequestTypes
        <3> QED BY <1>1, <1>2, <2>1, <3>1, <3>2 DEF Asked
    <2> QED BY <2>2, <2>3, <2>4, <2>5 DEF Authenticate
<1> QED BY <1>1, <1>3, <1>4 DEF ChainedInv

(* A reload may take a layer off those that accept a token, never add one. *)
LEMMA ReloadKeeps ==
    ASSUME ChainedInv, DirStep \/ RevStep
    PROVE  ChainedInv'
<1>1. /\ UNCHANGED <<startVars, bearer, at, layer>>
      /\ good' = [r \in Requests |-> good[r] \cap Accepting(bearer[r])']
    BY DEF DirStep, RevStep, Observed
<1>2. RequestTypes'
    BY <1>1 DEF ChainedInv, RequestTypes, startVars
<1>3. ASSUME NEW r \in Requests
      PROVE  Asked(r)'
    <2>1. good'[r] \subseteq good[r] /\ good'[r] \subseteq Accepting(bearer[r])'
        BY <1>1
    <2>2. \A k : From(k)' = From(k)
        BY <1>1 DEF From, startVars
    <2> QED BY <1>1, <2>1, <2>2 DEF ChainedInv, Asked, startVars
<1> QED BY <1>2, <1>3 DEF ChainedInv

(* The chain is built before any request arrives.                          *)
LEMMA StartupKeeps ==
    ASSUME ChainedInv, Startup
    PROVE  ChainedInv'
<1>1. spc # "serving" /\ UNCHANGED <<flags, requestVars>>
    BY DEF Startup, CheckFlags, OpenAudit, OpenAuditError, AddStaticToken, NewStaticDir, NewJWT, NewOIDC,
           LoadKey, LoadKeyError, Register, RegisterPanic, RegisterRest, Listen, ListenError, Start,
           Return
<1>2. chain \in Seq(LayerNames)
    BY DEF ChainedInv, RequestTypes
<1>3. \/ chain' = chain
      \/ chain' = <<"token">> \/ chain' = <<>>
      \/ \E l \in {"dir", "jwt", "oidc"} : chain' = Append(chain, l)
    <2>1. CASE CheckFlags \/ OpenAudit \/ OpenAuditError
        BY <2>1 DEF CheckFlags, OpenAudit, OpenAuditError, Return
    <2>2. CASE AddStaticToken
        BY <2>2 DEF AddStaticToken
    <2>3. CASE NewStaticDir \/ NewJWT \/ NewOIDC
        BY <2>3 DEF NewStaticDir, NewJWT, NewOIDC, Add, Skip, Return
    <2>4. CASE \/ LoadKey \/ LoadKeyError \/ Register \/ RegisterPanic \/ RegisterRest
               \/ Listen \/ ListenError
        BY <2>4 DEF LoadKey, LoadKeyError, Register, RegisterPanic, RegisterRest, Listen, ListenError,
                    Skip, Return
    <2> QED BY <2>1, <2>2, <2>3, <2>4 DEF Startup
<1>4. <<"token">> \in Seq(LayerNames) /\ <<>> \in Seq(LayerNames)
    BY DEF LayerNames
<1>5. \A l \in {"dir", "jwt", "oidc"} : Append(chain, l) \in Seq(LayerNames)
    BY <1>2 DEF LayerNames
<1>6. chain' \in Seq(LayerNames)
    BY <1>2, <1>3, <1>4, <1>5
<1> QED BY <1>1, <1>6 DEF ChainedInv, RequestTypes, Asked, requestVars

(* Every step keeps the invariant of the requests.                         *)
LEMMA ChainedKept ==
    ASSUME ChainedInv, [ServerNext]_svars
    PROVE  ChainedInv'
<1>1. CASE UNCHANGED <<startVars, requestVars, tokens, revoked>>
    <2>1. \A k, b : From(k)' = From(k) /\ Accepting(b)' = Accepting(b)
        BY <1>1 DEF From, Accepting, Accepts, StaticName, Revoked, startVars
    <2> QED BY <1>1, <2>1 DEF ChainedInv, RequestTypes, Asked, startVars, requestVars
<1>2. CASE Editing
    <2>1. UNCHANGED <<startVars, requestVars, tokens, revoked>>
        BY <1>2 DEF Editing, EditDir, EditListable, EditReplace, EditInPlace, dirVars, revVars
    <2> QED BY <1>1, <2>1
<1>3. CASE \/ \E r \in Requests : OidcRequest(r)
           \/ \E p \in Procs : OidcRefresh(p)
           \/ OidcTick \/ OidcRotate \/ UNCHANGED svars
    <2>1. UNCHANGED <<startVars, requestVars, tokens, revoked>>
        BY <1>3 DEF OidcRequest, OidcRefresh, OidcTick, OidcRotate, Other, svars, reloadVars, dirVars,
                    revVars
    <2> QED BY <1>1, <2>1
<1>4. CASE \E p \in Clients(flags) : Arrive(p[1], p[2])
    <2>1. PICK p \in Clients(flags) : Arrive(p[1], p[2])
        BY <1>4
    <2>2. p[1] \in Requests
        BY <2>1, ClientsAssumption DEF ChainedInv, RequestTypes
    <2> QED BY <2>1, <2>2, ArriveKeeps
<1> QED
    BY <1>2, <1>3, <1>4, AuthenticateKeeps, ReloadKeeps, StartupKeeps DEF ServerNext

(* BearerLayersComplete for every command line and every request: a server *)
(* that serves asks all the bearer layers it was started with, and lets    *)
(* nobody in without a token or a certificate unless there are none        *)
(* (cmd/server.go runServer, server.go authenticateRequest).               *)
THEOREM AllBearerLayersAsked == ServerSpec => []BearerLayersComplete
<1>1. ServerInit => ChainInv /\ ChainedInv
    BY DEF ServerInit, ChainInv, Built, ChainedInv, RequestTypes, Asked, LayerNames
<1>2. ChainInv /\ [ServerNext]_svars => ChainInv'
    BY ChainStep
<1>3. ChainedInv /\ [ServerNext]_svars => ChainedInv'
    BY ChainedKept
<1>4. ChainInv /\ ChainedInv => BearerLayersComplete
    <2> SUFFICES ASSUME ChainInv, ChainedInv PROVE BearerLayersComplete
        OBVIOUS
    <2>1. Chain4 = BearerLayers
        BY DEF BearerLayers, Chain1, Chain2, Chain3, Chain4
    <2>2. spc = "serving" => chain = BearerLayers
        BY <2>1 DEF ChainInv, Built
    <2>3. ASSUME NEW r \in Requests, at[r] = "accepted", bearer[r].kind = "none"
          PROVE  BearerLayers = <<>>
        BY <2>2, <2>3 DEF ChainedInv, Asked
    <2> QED BY <2>2, <2>3 DEF BearerLayersComplete
<1> QED BY <1>1, <1>2, <1>3, <1>4, PTL DEF ServerSpec

(* OneLayerSuffices for any chain, any token and any reloads: who is       *)
(* refused by the chain had no layer on its side all the time (auth.go     *)
(* AuthChain.Authenticate).                                                *)
THEOREM OneLayerIsEnough == ServerSpec => []OneLayerSuffices
<1>1. ServerInit => ChainedInv
    BY DEF ServerInit, ChainedInv, RequestTypes, Asked, LayerNames
<1>2. ChainedInv /\ [ServerNext]_svars => ChainedInv'
    BY ChainedKept
<1>3. ChainedInv => OneLayerSuffices
    BY DEF ChainedInv, Asked, OneLayerSuffices
<1> QED BY <1>1, <1>2, <1>3, PTL DEF ServerSpec

-----------------------------------------------------------------------------
(* Routing *)

\* The modes before index k have their patterns.
Registered(k) == \A n \in 1..(k - 1) : Pattern(Modes[n]) \subseteq routes

RouteInv ==
    /\ flags \in CommandLines
    /\ spc \in {"check", "audit", "token", "dir", "jwt", "oidc", "key"} => mi = 1
    /\ spc = "routes" => mi \in 1..(Len(Modes) + 1) /\ Registered(mi)
    /\ spc \in {"listen", "serving"} =>
           /\ \A n \in DOMAIN Modes : Pattern(Modes[n]) \subseteq routes
           /\ "/mux" \in routes
           /\ Named("socks5-udp") => "/connect-udp" \in routes

(* A list of modes is a sequence.                                          *)
LEMMA ModesAreListed ==
    ASSUME flags \in CommandLines
    PROVE  Len(Modes) \in Nat /\ DOMAIN Modes = 1..Len(Modes)
<1> DEFINE T == [name : STRING, blanks : BOOLEAN]
<1>1. flags.modes \in Seq(T)
    BY ServerAssumption
<1> HIDE DEF T
<1>2. Len(flags.modes) \in Nat /\ DOMAIN flags.modes = 1..Len(flags.modes)
    BY <1>1
<1> DEFINE d == [name |-> "socks5", blanks |-> FALSE]
<1>3. Modes = IF flags.modes = <<>> THEN <<d>> ELSE flags.modes
    BY DEF Modes
<1> HIDE DEF d
<1>4. Len(<<d>>) = 1 /\ DOMAIN <<d>> = 1..1
    OBVIOUS
<1>5. CASE flags.modes = <<>>
    BY <1>3, <1>4, <1>5
<1>6. CASE flags.modes # <<>>
    BY <1>2, <1>3, <1>6
<1> QED BY <1>5, <1>6

(* The two loops of ListenAndServe keep count of the patterns.             *)
LEMMA RouteStep ==
    ASSUME RouteInv, [ServerNext]_svars
    PROVE  RouteInv'
<1>1. flags \in CommandLines /\ Len(Modes) \in Nat /\ DOMAIN Modes = 1..Len(Modes)
    BY ModesAreListed DEF RouteInv
<1>2. ASSUME flags' = flags
      PROVE  /\ flags' \in CommandLines /\ Modes' = Modes
             /\ \A m : Named(m)' <=> Named(m)
             /\ \A m : Pattern(m)' = Pattern(m)
    BY <1>1, <1>2 DEF Modes, Named, Pattern
<1>3. CASE UNCHANGED startVars
    BY <1>1, <1>2, <1>3 DEF startVars, RouteInv, Registered
<1>4. CASE Startup
    <2>1. flags' = flags
        BY <1>4 DEF Startup, CheckFlags, OpenAudit, OpenAuditError, AddStaticToken, NewStaticDir,
                    NewJWT, NewOIDC, LoadKey, LoadKeyError, Register, RegisterPanic, RegisterRest,
                    Listen, ListenError, Start, Return
    <2>2. CASE CheckFlags \/ OpenAudit \/ OpenAuditError \/ AddStaticToken \/ LoadKeyError
        BY <1>2, <2>1, <2>2 DEF CheckFlags, OpenAudit, OpenAuditError, AddStaticToken, LoadKeyError,
                                Start, Return, RouteInv
    <2>3. CASE NewStaticDir \/ NewJWT \/ NewOIDC
        BY <1>2, <2>1, <2>3 DEF NewStaticDir, NewJWT, NewOIDC, Add, Skip, Start, Return, RouteInv
    <2>4. CASE LoadKey
        <3>1. mi' = 1 /\ routes' = {"/healthz"} /\ spc' = "routes"
            BY <2>4 DEF LoadKey, Start, RouteInv
        <3>2. mi' \in 1..(Len(Modes)' + 1) /\ 1..(mi' - 1) = {}
            BY <1>1, <1>2, <2>1, <3>1
        <3>3. Registered(mi)'
            BY <3>1, <3>2 DEF Registered
        <3> QED BY <1>2, <2>1, <3>1, <3>2, <3>3 DEF RouteInv
    <2>5. CASE Register
        <3>1. /\ spc = "routes" /\ spc' = "routes" /\ mi' = mi + 1 /\ mi \in 1..Len(Modes)
              /\ routes' = routes \cup Pattern(Modes[mi]) /\ Registered(mi)
            BY <1>1, <2>5 DEF Register, Start, RouteInv
        <3>2. /\ mi' \in 1..(Len(Modes)' + 1)
              /\ \A n \in 1..(mi' - 1) : n \in 1..(mi - 1) \/ n = mi
            BY <1>1, <1>2, <2>1, <3>1
        <3>3. \A n \in 1..(mi' - 1) : Pattern(Modes[n]) \subseteq routes'
            BY <3>1, <3>2 DEF Registered
        <3>4. Registered(mi)'
            BY <1>2, <2>1, <3>3 DEF Registered
        <3> QED BY <1>2, <2>1, <3>1, <3>2, <3>4 DEF RouteInv
    <2>6. CASE RegisterPanic
        <3>1. spc' = "panicked"
            BY <2>6 DEF RegisterPanic, Start
        <3> QED BY <1>2, <2>1, <3>1 DEF RouteInv
    <2>7. CASE RegisterRest
        <3>1. /\ spc = "routes" /\ spc' = "listen" /\ mi > Len(Modes) /\ mi \in 1..(Len(Modes) + 1)
              /\ Registered(mi)
              /\ routes' = routes \cup {"/mux"} \cup {p \in {"/connect-udp"} : Named("socks5-udp")}
            BY <2>7 DEF RegisterRest, Start, RouteInv
        <3>2. 1..(mi - 1) = DOMAIN Modes
            BY <1>1, <3>1
        <3>3. \A n \in DOMAIN Modes : Pattern(Modes[n]) \subseteq routes
            BY <3>1, <3>2 DEF Registered
        <3> QED BY <1>2, <2>1, <3>1, <3>3 DEF RouteInv
    <2>8. CASE Listen \/ ListenError
        BY <1>2, <2>1, <2>8 DEF Listen, ListenError, Skip, Start, Return, RouteInv
    <2> QED BY <1>4, <2>2, <2>3, <2>4, <2>5, <2>6, <2>7, <2>8 DEF Startup
<1> QED BY <1>3, <1>4, StartOnlyStarts

(* SocksPathsServed for any list of modes: who is up serves every path     *)
(* that the SOCKS5 clients of its modes and clients with a session dial    *)
(* (server.go ListenAndServe).                                             *)
THEOREM PathsServed == ServerSpec => []SocksPathsServed
<1>1. ServerInit => RouteInv
    BY DEF ServerInit, RouteInv
<1>2. RouteInv /\ [ServerNext]_svars => RouteInv'
    BY RouteStep
<1>3. RouteInv => SocksPathsServed
    <2> SUFFICES ASSUME RouteInv, spc = "serving", NEW m \in SocksModes \cup {"mux"},
                        m = "mux" \/ Offered(m)
                 PROVE  Paths(m) \subseteq routes
        BY DEF SocksPathsServed
    <2>1. CASE m = "mux"
        BY <2>1 DEF Paths, RouteInv
    <2>2. CASE m # "mux"
        <3>1. PICK n \in DOMAIN Modes : Modes[n] = [name |-> m, blanks |-> FALSE]
            BY <2>2 DEF Offered, ToSet
        <3>2. "/connect" \in Pattern(Modes[n])
            BY <2>2, <3>1 DEF Pattern, SocksModes
        <3>3. flags.modes = <<>> => m = "socks5"
            BY <3>1 DEF Modes
        <3>4. flags.modes # <<>> => Named(m)
            BY <3>1 DEF Modes, Named
        <3> QED BY <2>2, <3>2, <3>3, <3>4 DEF RouteInv, Paths, SocksModes
    <2> QED BY <2>1, <2>2
<1> QED BY <1>1, <1>2, <1>3, PTL DEF ServerSpec

-----------------------------------------------------------------------------
(* Keys and the tokens signed with them *)

\* What a key file of the server's accepts of the signed tokens.
HoldsKey(g, t) ==
    IF g.form = "text" THEN t.file = g
    ELSE IsPublicHalf(g, t.file) /\ t.alg \in {"rs256", "es256"}

(* Every key file has a form and a family that fits it.                    *)
LEMMA KeyFileForms ==
    ASSUME NEW f \in KeyFiles
    PROVE  /\ f.form \in PublicForms \cup PrivateForms \cup {"text", "other"}
           /\ f.family \in Families(f.form)
<1>1. PICK x \in PublicForms \cup PrivateForms \cup {"text", "other"} :
          f \in [form : {x}, family : Families(x), id : KeyIds]
    BY DEF KeyFiles
<1>2. f.form = x /\ f.family \in Families(x)
    BY <1>1
<1> QED BY <1>2

(* A signature is the secret that a whole file is, or that of a private    *)
(* key (issuer.go IssueToken).                                             *)
LEMMA SignatureKinds ==
    ASSUME NEW t \in Tokens, Signed(t)
    PROVE  \/ /\ t.alg \in {"", "hs256"}
              /\ IssueKey(t.file, t.alg) = [kind |-> "secret", file |-> t.file]
           \/ /\ t.alg \in {"rs256", "es256"}
              /\ IssueKey(t.file, t.alg) =
                     [kind |-> "private", family |-> t.file.family, id |-> t.file.id]
              /\ t.file.form \in PrivateForms
              /\ t.file.family \in {"rsa", "p256"}
<1>1. t.alg \in Algorithms
    BY DEF Tokens
<1>2. CASE t.alg \in {"", "hs256"}
    BY <1>2 DEF IssueKey, Secret
<1>3. CASE t.alg = "rs256"
    BY <1>3 DEF Signed, IssueKey, ParseRSAPrivateKey, ParsePrivate, PrivateForms
<1>4. CASE t.alg = "es256"
    BY <1>4 DEF Signed, IssueKey, ParseECPrivateKey, ParsePrivate, PrivateForms
<1>5. CASE t.alg = "none"
    BY <1>5 DEF Signed, IssueKey
<1> QED BY <1>1, <1>2, <1>3, <1>4, <1>5 DEF Algorithms

(* The library accepts exactly the signatures of the other half of the     *)
(* server's key (jwt.go buildKeyFunc, rsaKeyFunc, ecdsaKeyFunc).           *)
LEMMA KeysFit ==
    ASSUME NEW g \in KeyFiles, NEW t \in Tokens, Signed(t)
    PROVE  VerifyToken(g, t) <=> HoldsKey(g, t)
<1> DEFINE k == BuildKeyFunc(g)
           s == IssueKey(t.file, t.alg)
<1>1. VerifyToken(g, t) <=> \/ k.kind = "secret" /\ s = k
                            \/ k.kind = "public" /\ s.kind = "private"
                                   /\ s.family = k.family /\ s.id = k.id
    BY DEF VerifyToken, Verifies
<1>2. \/ g.form = "text" /\ k = [kind |-> "secret", file |-> g]
      \/ /\ g.form # "text" /\ g.family \in {"rsa", "p256", "p384"}
         /\ k = [kind |-> "public", family |-> g.family, id |-> g.id]
      \/ g.form # "text" /\ g.family \notin {"rsa", "p256", "p384"} /\ k = [kind |-> "error"]
    BY DEF BuildKeyFunc, Secret, Error
<1> HIDE DEF k, s
<1>3. CASE t.alg \in {"", "hs256"} /\ s = [kind |-> "secret", file |-> t.file]
    <2>1. s.kind = "secret" /\ s.file = t.file /\ t.alg \notin {"rs256", "es256"}
        BY <1>3
    <2>2. CASE g.form = "text" /\ k = [kind |-> "secret", file |-> g]
        <3>1. k.kind = "secret" /\ k.file = g
            BY <2>2
        <3>2. s = k <=> t.file = g
            BY <1>3, <2>1, <2>2, <3>1
        <3> QED BY <1>1, <2>2, <3>1, <3>2 DEF HoldsKey
    <2>3. CASE g.form # "text"
        <3>1. k.kind # "secret" /\ s.kind # "private"
            BY <1>2, <2>1, <2>3
        <3> QED BY <1>1, <2>1, <2>3, <3>1 DEF HoldsKey
    <2> QED BY <1>2, <2>2, <2>3
<1>4. CASE /\ t.alg \in {"rs256", "es256"}
           /\ s = [kind |-> "private", family |-> t.file.family, id |-> t.file.id]
           /\ t.file.form \in PrivateForms /\ t.file.family \in {"rsa", "p256"}
    <2>1. s.kind = "private" /\ s.family = t.file.family /\ s.id = t.file.id
        BY <1>4
    <2>2. CASE g.form = "text" /\ k = [kind |-> "secret", file |-> g]
        <3>1. k.kind = "secret" /\ t.file # g
            BY <1>4, <2>2 DEF PrivateForms
        <3>2. s # k
            BY <2>1, <3>1
        <3> QED BY <1>1, <2>2, <3>1, <3>2 DEF HoldsKey
    <2>3. CASE /\ g.form # "text" /\ g.family \in {"rsa", "p256", "p384"}
               /\ k = [kind |-> "public", family |-> g.family, id |-> g.id]
        <3>1. k.kind = "public" /\ k.family = g.family /\ k.id = g.id
            BY <2>3
        <3> QED BY <1>1, <1>4, <2>1, <2>3, <3>1 DEF HoldsKey, IsPublicHalf
    <2>4. CASE g.form # "text" /\ g.family \notin {"rsa", "p256", "p384"} /\ k = [kind |-> "error"]
        <3>1. k.kind = "error"
            BY <2>4
        <3> QED BY <1>1, <1>4, <2>4, <3>1 DEF HoldsKey, IsPublicHalf
    <2> QED BY <1>2, <2>2, <2>3, <2>4
<1> QED BY <1>3, <1>4, SignatureKinds DEF s

\* A request with a JWT where the JWT layer's answer cannot change.
Settled(r) == at[r] # "new" /\ bearer[r].kind = "jwt" /\ flags.jwt /\ ~flags.revoke

(* A server asked for a JWT layer has one.                                 *)
LEMMA HasJwtLayer ==
    ASSUME ChainInv, ChainedInv, spc = "serving", flags.jwt
    PROVE  "jwt" \in ToSet(chain)
<1>1. chain \in Seq(LayerNames) /\ chain = Chain4
    BY DEF ChainedInv, RequestTypes, ChainInv, Built
<1>2. Chain2 \in Seq(LayerNames)
    <2>1. \A q \in Seq(LayerNames), n \in LayerNames : Append(q, n) \in Seq(LayerNames)
        OBVIOUS
    <2>2. <<>> \in Seq(LayerNames) /\ "token" \in LayerNames /\ "dir" \in LayerNames
        BY DEF LayerNames
    <2>3. Chain1 \in Seq(LayerNames)
        BY <2>1, <2>2 DEF Chain1, With
    <2> QED BY <2>1, <2>2, <2>3 DEF Chain2, With
<1>3. Chain3 = Append(Chain2, "jwt")
    BY DEF Chain3, With
<1>4. Chain3 \in Seq(LayerNames) /\ Len(Chain3) = Len(Chain2) + 1 /\ Len(Chain2) \in Nat
          /\ Chain3[Len(Chain2) + 1] = "jwt"
    BY <1>2, <1>3 DEF LayerNames
<1>5. Chain4 = Chain3 \/ Chain4 = Append(Chain3, "oidc")
    BY DEF Chain4, With
<1>6. Len(Chain2) + 1 \in 1..Len(Chain4) /\ Chain4[Len(Chain2) + 1] = "jwt"
    BY <1>4, <1>5 DEF LayerNames
<1> QED BY <1>1, <1>6, AllLayers DEF From

\* The part of KeyInv that is about one request.
KeyFacts(r) ==
    /\ at[r] # "new" => bearer[r] \in Bearers
    /\ Settled(r) /\ at[r] = "accepted" => JwtAccepts(flags.jwtKey, bearer[r].token)
    /\ Settled(r) /\ at[r] \in {"chain", "refused"}
           /\ JwtAccepts(flags.jwtKey, bearer[r].token) => "jwt" \in good[r]

KeyInv == \A r \in Requests : KeyFacts(r)

(* A token that the key fits is one the JWT layer accepts from its arrival *)
(* on (jwt.go Authenticate).                                               *)
LEMMA ArriveKey ==
    ASSUME ChainInv, ChainedInv, NEW r \in Requests, NEW b \in Bearers, Arrive(r, b)
    PROVE  KeyFacts(r)'
<1>1. /\ bearer'[r] = b /\ good'[r] = Accepting(b) /\ flags' = flags /\ spc = "serving"
      /\ at'[r] = IF b.kind = "cert" \/ chain = <<>> THEN "accepted"
                  ELSE IF b.kind = "none" THEN "refused" ELSE "chain"
    BY DEF Arrive, startVars, ChainedInv, RequestTypes
<1>2. ASSUME b.kind = "jwt", flags.jwt, ~flags.revoke
      PROVE  /\ at'[r] = "chain"
             /\ JwtAccepts(flags.jwtKey, b.token) => "jwt" \in good'[r]
    <2>1. "jwt" \in ToSet(chain)
        BY <1>1, <1>2, HasJwtLayer
    <2>2. chain # <<>>
        BY <2>1 DEF ToSet
    <2> QED BY <1>1, <1>2, <2>1, <2>2 DEF Accepting, Accepts
<1> QED BY <1>1, <1>2 DEF KeyFacts, Settled

(* Only the JWT layer accepts a JWT, and it asks for the key.              *)
LEMMA AuthenticateKey ==
    ASSUME ChainedInv, NEW r \in Requests, KeyFacts(r), Authenticate(r)
    PROVE  KeyFacts(r)'
<1>1. UNCHANGED <<flags, bearer, good>> /\ at[r] = "chain" /\ DOMAIN at = Requests
    BY DEF Authenticate, Try, TryOidc, Refuse, startVars, ChainedInv, RequestTypes
<1>2. CASE at'[r] = "accepted"
    <2>1. Accepts(chain[layer[r]], bearer[r])
        BY <1>1, <1>2 DEF Authenticate, Try, TryOidc, Refuse
    <2>2. bearer[r].kind = "jwt" => JwtAccepts(flags.jwtKey, bearer[r].token)
        BY <2>1 DEF Accepts
    <2> QED BY <1>1, <1>2, <2>2 DEF KeyFacts, Settled
<1>3. CASE at'[r] \in {"chain", "refused", "oidc"}
    BY <1>1, <1>3 DEF KeyFacts, Settled
<1>4. at'[r] \in {"chain", "refused", "oidc", "accepted"}
    BY <1>1 DEF Authenticate, Try, TryOidc, Refuse
<1> QED BY <1>2, <1>3, <1>4

(* Without a revocation file no reload changes what the JWT layer says.    *)
LEMMA ReloadKey ==
    ASSUME ChainInv, ChainedInv, NEW r \in Requests, KeyFacts(r), DirStep \/ RevStep
    PROVE  KeyFacts(r)'
<1>1. /\ UNCHANGED <<flags, spc, chain, bearer, at>>
      /\ good'[r] = good[r] \cap Accepting(bearer[r])'
    BY DEF DirStep, RevStep, Observed, startVars
<1>2. ASSUME Settled(r), JwtAccepts(flags.jwtKey, bearer[r].token)
      PROVE  "jwt" \in Accepting(bearer[r])'
    <2>1. spc = "serving" /\ flags.jwt /\ bearer[r].kind = "jwt" /\ ~flags.revoke
        BY <1>2 DEF Settled, ChainedInv, Asked
    <2>2. "jwt" \in ToSet(chain)
        BY <2>1, HasJwtLayer
    <2>3. "jwt" \in ToSet(chain)' /\ Accepts("jwt", bearer[r])'
        BY <1>1, <1>2, <2>1, <2>2 DEF Accepts
    <2> QED BY <2>3 DEF Accepting
<1>3. Settled(r)' <=> Settled(r)
    BY <1>1 DEF Settled
<1> QED BY <1>1, <1>2, <1>3 DEF KeyFacts

(* Every step keeps the invariant of the keys.                             *)
LEMMA KeyStep ==
    ASSUME ChainInv, ChainedInv, KeyInv, [ServerNext]_svars
    PROVE  KeyInv'
<1> SUFFICES ASSUME NEW r \in Requests
             PROVE  KeyFacts(r)'
    BY DEF KeyInv
<1>1. KeyFacts(r) /\ flags \in CommandLines
    BY DEF KeyInv, ChainedInv, RequestTypes
<1>2. ASSUME UNCHANGED <<flags, bearer[r], at[r], good[r]>>
      PROVE  KeyFacts(r)'
    BY <1>1, <1>2 DEF KeyFacts, Settled
<1>3. ASSUME NEW p \in Clients(flags), Arrive(p[1], p[2])
      PROVE  KeyFacts(r)'
    <2>1. p[1] \in Requests /\ p[2] \in Bearers
        BY <1>1, ClientsAssumption
    <2>2. CASE p[1] = r
        BY <1>3, <2>1, <2>2, ArriveKey
    <2>3. CASE p[1] # r
        <3>1. UNCHANGED <<flags, bearer[r], at[r], good[r]>>
            BY <1>3, <2>3 DEF Arrive, startVars, ChainedInv, RequestTypes
        <3> QED BY <1>2, <3>1
    <2> QED BY <2>2, <2>3
<1>4. ASSUME NEW q \in Requests, Authenticate(q)
      PROVE  KeyFacts(r)'
    <2>1. CASE q = r
        BY <1>1, <1>4, <2>1, AuthenticateKey
    <2>2. CASE q # r
        <3>1. UNCHANGED <<flags, bearer[r], at[r], good[r]>>
            BY <1>4, <2>2 DEF Authenticate, Try, TryOidc, Refuse, startVars, ChainedInv, RequestTypes
        <3> QED BY <1>2, <3>1
    <2> QED BY <2>1, <2>2
<1>5. CASE DirStep \/ RevStep
    BY <1>1, <1>5, ReloadKey
<1>6. CASE Startup
    <2>1. UNCHANGED <<flags, requestVars>>
        BY <1>6 DEF Startup, CheckFlags, OpenAudit, OpenAuditError, AddStaticToken, NewStaticDir, NewJWT,
               NewOIDC, LoadKey, LoadKeyError, Register, RegisterPanic, RegisterRest, Listen,
               ListenError, Start, Return
    <2> QED BY <1>2, <2>1 DEF requestVars
<1>7. CASE \/ Editing \/ (\E q \in Requests : OidcRequest(q)) \/ (\E p \in Procs : OidcRefresh(p))
           \/ OidcTick \/ OidcRotate \/ UNCHANGED svars
    <2>1. UNCHANGED <<flags, requestVars>>
        BY <1>7 DEF Editing, OidcRequest, OidcRefresh, OidcTick, OidcRotate, Other, startVars, svars
    <2> QED BY <1>2, <2>1 DEF requestVars
<1> QED BY <1>3, <1>4, <1>5, <1>6, <1>7 DEF ServerNext

(* KeyHoldersAccepted for every key file and every token: the JWT layer    *)
(* accepts the tokens of those who have the other half of its key, or its  *)
(* secret, and no others (jwt.go, issuer.go).                              *)
THEOREM KeyHoldersPass == ServerSpec => []KeyHoldersAccepted
<1> DEFINE I == ChainInv /\ ChainedInv /\ KeyInv
<1>1. ServerInit => I
    <2>1. ServerInit => ChainInv
        BY DEF ServerInit, ChainInv, Built
    <2>2. ServerInit => ChainedInv
        BY DEF ServerInit, ChainedInv, RequestTypes, Asked
    <2>3. ServerInit => KeyInv
        BY DEF ServerInit, KeyInv, KeyFacts, Settled
    <2> QED BY <2>1, <2>2, <2>3
<1>2. I /\ [ServerNext]_svars => I'
    BY ChainStep, ChainedKept, KeyStep
<1>3. I => KeyHoldersAccepted
    <2> SUFFICES ASSUME I, NEW r \in Requests, Decided(r), flags.jwt, ~flags.revoke
                 PROVE  at[r] = "accepted" <=> bearer[r].token.sub # ""
                                                  /\ HoldsKey(flags.jwtKey, bearer[r].token)
        BY DEF KeyHoldersAccepted, HoldsKey
    <2>1. bearer[r].kind = "jwt" /\ at[r] \in {"accepted", "refused"} /\ Settled(r) /\ KeyFacts(r)
          /\ Asked(r)
        BY DEF Decided, Settled, KeyInv, ChainedInv
    <2>2. bearer[r].token \in Tokens /\ Signed(bearer[r].token)
        <3>1. bearer[r] \in Bearers
            BY <2>1 DEF KeyFacts
        <3> QED BY <2>1, <3>1 DEF Bearers
    <2>3. flags.jwtKey \in KeyFiles
        BY ServerAssumption DEF ChainedInv, RequestTypes
    <2>4. JwtAccepts(flags.jwtKey, bearer[r].token) <=>
              bearer[r].token.sub # "" /\ HoldsKey(flags.jwtKey, bearer[r].token)
        BY <2>2, <2>3, KeysFit DEF JwtAccepts
    <2>5. at[r] = "accepted" <=> JwtAccepts(flags.jwtKey, bearer[r].token)
        BY <2>1 DEF KeyFacts, Asked
    <2> QED BY <2>4, <2>5
<1> QED BY <1>1, <1>2, <1>3, PTL DEF ServerSpec

-----------------------------------------------------------------------------
(* The OIDC layer of a server, and types *)

(* A server implements the specification of its OIDC layer: whatever the   *)
(* start, the chain and the other layers do, its key set changes by the    *)
(* layer's own steps only, so what is said of the layer by itself is true  *)
(* in every server (oidc.go; cmd/server.go runServer).                     *)
THEOREM ServerRunsOidc == ServerSpec => Spec
<1>1. ServerInit => Init
    BY DEF ServerInit
<1>2. [ServerNext]_svars => [Next]_vars
    BY ServerTakesOidcSteps
<1> QED BY <1>1, <1>2, PTL DEF ServerSpec, Spec

(* Steps of the OIDC layer keep its type invariant.                        *)
LEMMA OidcTypeKept ==
    ASSUME TypeOK, [Next]_vars
    PROVE  TypeOK'
<1> DEFINE PCs == {"idle", "parse", "discovery", "keys", "install", "retry", "accepted", "unfit",
                   "refused"}
           LoopPCs == {"idle", "discovery", "keys", "install"}
<1>1. /\ Loop \notin Requests /\ MaxRotations \in Nat /\ Loop \in Procs
      /\ \A r \in Requests : r \in Procs
    BY OidcAssumption DEF Procs
<1>2. \A v \in 0..MaxRotations : Published(v) \subseteq Kids
    BY <1>1 DEF Published, Kids
<1>3. ASSUME NEW p \in Procs, NEW l \in PCs, Goto(p, l), p = Loop => l \in LoopPCs
      PROVE  pc' \in [Procs -> PCs] /\ pc'[Loop] \in LoopPCs
    BY <1>1, <1>3 DEF Goto, TypeOK
<1>4. ASSUME NEW r \in Requests, NEW x \in Kids \cup {NoKid}, Begin(r, x)
      PROVE  TypeOK'
    <2>1. pc' \in [Procs -> PCs] /\ pc'[Loop] \in LoopPCs
        BY <1>1, <1>3, <1>4 DEF Begin
    <2> QED BY <1>4, <2>1 DEF Begin, history, TypeOK
<1>5. ASSUME NEW r \in Requests, Request(r)
      PROVE  TypeOK'
    <2>1. /\ UNCHANGED <<idp, jwks, fetched, request, history>>
          /\ \E l \in PCs : Goto(r, l)
        BY <1>5 DEF Request, ParseOK, ParseError, Retry, Decide
    <2>2. pc' \in [Procs -> PCs] /\ pc'[Loop] \in LoopPCs
        BY <1>1, <1>3, <2>1
    <2> QED BY <2>1, <2>2 DEF request, history, TypeOK
<1>6. ASSUME NEW p \in Procs, Refresh(p)
      PROVE  TypeOK'
    <2>1. UNCHANGED <<idp, kid, since>>
        BY <1>6 DEF Refresh, FetchDiscovery, FetchJWKS, FetchUnusable, RefreshError, Install, request
    <2>2. pc' \in [Procs -> PCs] /\ pc'[Loop] \in LoopPCs
        <3>1. \E l \in PCs : Goto(p, l) /\ (p = Loop => l \in LoopPCs)
            BY <1>1, <1>6 DEF Refresh, FetchDiscovery, FetchJWKS, FetchUnusable, RefreshError, Install
        <3> QED BY <1>3, <3>1
    <2>3. fetched' \in [Procs -> SUBSET Kids] /\ jwks' \subseteq Kids
        BY <1>2, <1>6
        DEF Refresh, FetchDiscovery, FetchJWKS, FetchUnusable, RefreshError, Install, TypeOK
    <2>4. failed' \in [Requests -> BOOLEAN]
        BY <1>6 DEF Refresh, FetchDiscovery, FetchJWKS, FetchUnusable, RefreshError, Install, Fail,
                    history, TypeOK
    <2>5. raced' \in [Requests -> BOOLEAN]
        BY <1>6 DEF Refresh, FetchDiscovery, FetchJWKS, FetchUnusable, RefreshError, Install, history,
                    TypeOK
    <2> QED BY <2>1, <2>2, <2>3, <2>4, <2>5 DEF TypeOK
<1>7. CASE Tick
    <2>1. pc' \in [Procs -> PCs] /\ pc'[Loop] \in LoopPCs
        BY <1>1, <1>3, <1>7 DEF Tick
    <2> QED BY <1>7, <2>1 DEF Tick, request, history, TypeOK
<1>8. CASE Rotate \/ UNCHANGED vars
    BY <1>1, <1>8 DEF Rotate, vars, request, history, TypeOK
<1> QED BY <1>4, <1>5, <1>6, <1>7, <1>8 DEF Next

\* What TypeOK, DirInv and RevInv leave of the type invariant.
StartTypes ==
    /\ spc \in {"check", "audit", "token", "dir", "jwt", "oidc", "key", "routes", "listen",
                "serving", "returned", "panicked"}
    /\ mi \in 1..(Len(Modes) + 1)
    /\ routes \subseteq {"/healthz", "/connect", "/connect-http", "/connect-udp", "/mux"}

BearerTypes ==
    /\ bearer \in [Requests -> Bearers]
    /\ at \in [Requests -> {"new", "chain", "oidc", "accepted", "refused"}]
    /\ \A r \in Requests : layer[r] \in 1..(Len(chain) + 1) /\ good[r] \subseteq ToSet(chain)

FileStates ==
    /\ edits \in 0..MaxEdits
    /\ listable \in BOOLEAN
    /\ watched \subseteq {"dir", "jwt", "oidc"}
    /\ rpc \in {"idle", "scan", "ok", "failed"}
    /\ revoked \subseteq Entries
    /\ always \subseteq Entries

Invs == DirInv /\ RevInv /\ ChainedInv /\ RouteInv /\ TypeOK
Typed == Invs /\ StartTypes /\ BearerTypes /\ FileStates

(* What each reload and edit leaves of files and lists (static.go, jwt.go).*)
LEMMA FileStatesKept ==
    ASSUME Typed, [ServerNext]_svars
    PROVE  FileStates'
<1>1. /\ FileStates /\ FileTypes /\ fd.subs \subseteq Entries /\ rev.subs \subseteq Entries
      /\ MaxEdits \in Nat
    BY ReloadAssumption DEF Typed, Invs, RevInv, FileTypes
<1>2. CASE Startup
    <2>1. UNCHANGED <<disk, rpc, revoked, always>>
        BY <1>2, StartupReload DEF revVars
    <2>2. watched' \subseteq {"dir", "jwt", "oidc"}
        BY <1>1, <1>2
        DEF Startup, CheckFlags, OpenAudit, OpenAuditError, AddStaticToken, NewStaticDir, NewJWT,
            NewOIDC, LoadKey, LoadKeyError, Register, RegisterPanic, RegisterRest, Listen, ListenError,
            Return, Skip, Add, reloadVars, FileStates
    <2> QED BY <1>1, <2>1, <2>2 DEF disk, FileStates
<1>3. CASE UNCHANGED <<startVars, reloadVars>>
    BY <1>1, <1>3 DEF reloadVars, disk, revVars, FileStates
<1>4. CASE DirStep
    BY <1>1, <1>4 DEF DirStep, Observed, DirReload, disk, revVars, FileStates
<1>5. CASE RevStep
    <2>1. RevReload
        BY <1>5 DEF RevStep, Observed
    <2>2. UNCHANGED <<edits, listable, watched>>
        BY <2>1 DEF RevReload, disk
    <2>3. CASE OpenRevocations
        BY <1>1, <2>2, <2>3 DEF OpenRevocations, RevMissing, RevDone, FileStates
    <2>4. CASE ScanRevocations
        BY <1>1, <2>2, <2>4 DEF ScanRevocations, RevDone, FileStates
    <2> QED BY <2>1, <2>3, <2>4 DEF RevReload
<1>6. CASE Editing
    <2>1. edits' \in 0..MaxEdits /\ UNCHANGED <<watched, rpc, revoked>>
        BY <1>1, <1>6 DEF Editing, EditDir, EditListable, EditReplace, EditInPlace, Edit, dirVars,
                          revVars, FileStates
    <2>2. listable' \in BOOLEAN
        BY <1>1, <1>6 DEF Editing, EditDir, EditListable, EditReplace, EditInPlace, FileStates
    <2>3. always' \subseteq always
        BY <1>6 DEF Editing, EditDir, EditListable, EditReplace, EditInPlace
    <2> QED BY <1>1, <2>1, <2>2, <2>3 DEF FileStates
<1> QED BY <1>2, <1>3, <1>4, <1>5, <1>6, RequestsReadOnly DEF ServerNext

(* The start goes from place to place and registers the server's paths.    *)
LEMMA StartTypesKept ==
    ASSUME Typed, [ServerNext]_svars
    PROVE  StartTypes'
<1>1. StartTypes /\ RouteInv /\ Len(Modes) \in Nat
    BY ModesAreListed DEF Typed, Invs, RouteInv
<1>2. CASE UNCHANGED startVars
    BY <1>1, <1>2 DEF StartTypes, startVars, Modes
<1>3. CASE Startup
    <2>1. Modes' = Modes
        BY <1>3, StartupReload DEF Modes
    <2>2. mi' \in 1..(Len(Modes) + 1)
        BY <1>1, <1>3
        DEF Startup, CheckFlags, OpenAudit, OpenAuditError, AddStaticToken, NewStaticDir, NewJWT,
            NewOIDC, LoadKey, LoadKeyError, Register, RegisterPanic, RegisterRest, Listen, ListenError,
            Return, Skip, Add, StartTypes
    <2>3. \A m : Pattern(m) \subseteq {"/connect", "/connect-http"}
        BY DEF Pattern
    <2>4. routes' \subseteq {"/healthz", "/connect", "/connect-http", "/connect-udp", "/mux"}
        BY <1>1, <1>3, <2>3
        DEF Startup, CheckFlags, OpenAudit, OpenAuditError, AddStaticToken, NewStaticDir, NewJWT,
            NewOIDC, LoadKey, LoadKeyError, Register, RegisterPanic, RegisterRest, Listen, ListenError,
            Return, Skip, Add, StartTypes
    <2>5. spc' \in {"check", "audit", "token", "dir", "jwt", "oidc", "key", "routes", "listen",
                    "serving", "returned", "panicked"}
        BY <1>3
        DEF Startup, CheckFlags, OpenAudit, OpenAuditError, AddStaticToken, NewStaticDir, NewJWT,
            NewOIDC, LoadKey, LoadKeyError, Register, RegisterPanic, RegisterRest, Listen, ListenError,
            Start, Return
    <2> QED BY <2>1, <2>2, <2>4, <2>5 DEF StartTypes
<1> QED BY <1>2, <1>3, StartOnlyStarts

(* A request never passes more layers than the chain has (auth.go          *)
(* AuthChain.Authenticate).                                                *)
LEMMA BearerTypesKept ==
    ASSUME Typed, [ServerNext]_svars
    PROVE  BearerTypes'
<1>1. /\ BearerTypes /\ RequestTypes /\ RequestTypes' /\ Len(chain) \in Nat /\ Len(chain') \in Nat
      /\ \A r \in Requests : Asked(r)
    BY ChainedKept DEF Typed, Invs, ChainedInv, RequestTypes
<1>2. CASE UNCHANGED <<startVars, requestVars>>
    BY <1>1, <1>2 DEF BearerTypes, startVars, requestVars
<1>3. CASE Startup
    <2>1. spc # "serving" /\ UNCHANGED requestVars
        BY <1>3 DEF Startup, CheckFlags, OpenAudit, OpenAuditError, AddStaticToken, NewStaticDir, NewJWT,
                    NewOIDC, LoadKey, LoadKeyError, Register, RegisterPanic, RegisterRest, Listen,
                    ListenError, Start, Return
    <2>2. \A r \in Requests : layer'[r] = 1 /\ good'[r] = {}
        BY <1>1, <2>1 DEF Asked, requestVars
    <2> QED BY <1>1, <2>1, <2>2 DEF BearerTypes, requestVars
<1>4. CASE \E p \in Clients(flags) : Arrive(p[1], p[2])
    <2>1. PICK p \in Clients(flags) : Arrive(p[1], p[2])
        BY <1>4
    <2>2. p \in Requests \X Bearers
        BY <1>1, ClientsAssumption DEF RequestTypes
    <2> DEFINE q == p[1]
               b == p[2]
    <2>3. q \in Requests /\ b \in Bearers /\ Arrive(q, b)
        BY <2>1, <2>2
    <2> HIDE DEF q, b
    <2>4. Accepting(b) \subseteq ToSet(chain)
        BY DEF Accepting
    <2>5. \A r \in Requests : good'[r] \subseteq ToSet(chain)
        BY <1>1, <2>3, <2>4 DEF Arrive, RequestTypes, BearerTypes
    <2>6. /\ bearer' \in [Requests -> Bearers]
          /\ at' \in [Requests -> {"new", "chain", "oidc", "accepted", "refused"}]
        BY <1>1, <2>3 DEF Arrive, BearerTypes
    <2> QED BY <1>1, <2>3, <2>5, <2>6 DEF Arrive, BearerTypes, startVars
<1>5. ASSUME NEW q \in Requests, Authenticate(q)
      PROVE  BearerTypes'
    <2>1. UNCHANGED <<startVars, bearer, good>>
        BY <1>5 DEF Authenticate, Try, TryOidc, Refuse
    <2>2. at' \in [Requests -> {"new", "chain", "oidc", "accepted", "refused"}]
        BY <1>1, <1>5 DEF Authenticate, Try, TryOidc, Refuse, BearerTypes
    <2>3. \A r \in Requests : layer'[r] \in 1..(Len(chain) + 1)
        <3>1. layer[q] \in 1..(Len(chain) + 1) /\ \A r \in Requests : layer[r] \in 1..(Len(chain) + 1)
            BY <1>1 DEF BearerTypes
        <3>2. CASE Try(q)
            <4>1. \A r \in Requests : r # q => layer'[r] = layer[r]
                BY <1>1, <3>2 DEF Try, RequestTypes
            <4>2. layer[q] <= Len(chain) /\ layer'[q] \in {layer[q], layer[q] + 1}
                BY <1>1, <3>2 DEF Try, RequestTypes
            <4>3. layer'[q] \in 1..(Len(chain) + 1)
                BY <1>1, <3>1, <4>2
            <4> QED BY <3>1, <4>1, <4>3
        <3>3. CASE TryOidc(q) \/ Refuse(q)
            BY <3>1, <3>3 DEF TryOidc, Refuse
        <3> QED BY <1>5, <3>2, <3>3 DEF Authenticate
    <2> QED BY <1>1, <2>1, <2>2, <2>3 DEF BearerTypes, startVars
<1>6. CASE DirStep \/ RevStep
    <2>1. /\ UNCHANGED <<startVars, bearer, at, layer>>
          /\ good' = [r \in Requests |-> good[r] \cap Accepting(bearer[r])']
        BY <1>6 DEF DirStep, RevStep, Observed
    <2>2. \A r \in Requests : good'[r] \subseteq good[r]
        BY <2>1
    <2> QED BY <1>1, <2>1, <2>2 DEF BearerTypes, startVars
<1>7. CASE \/ Editing \/ OidcTick \/ OidcRotate \/ UNCHANGED svars
           \/ \E r \in Requests : OidcRequest(r)
           \/ \E p \in Procs : OidcRefresh(p)
    BY <1>2, <1>7 DEF Editing, OidcRequest, OidcRefresh, OidcTick, OidcRotate, Other, svars
<1> QED BY <1>3, <1>4, <1>5, <1>6, <1>7 DEF ServerNext

(* The type invariant of the whole server, for any command line, files and *)
(* requests: places of the start, of the reloads, of the requests and of   *)
(* the refreshes, what the maps, lists and key sets hold, and the layer    *)
(* that each request has come to, which the chain's length bounds          *)
(* (cmd/server.go, server.go, static.go, jwt.go, auth.go, oidc.go).        *)
THEOREM ServerTyped == ServerSpec => []ServerTypeOK
<1>1. ServerInit => Typed
    <2> SUFFICES ASSUME ServerInit PROVE Typed
        OBVIOUS
    <2>1. DirInv
        BY DirInvInit
    <2>2. RevInv
        BY DEF ServerInit, ReloadInit, RevFiles, NoFile, RevInv, FileTypes, Kept
    <2>3. ChainedInv
        BY DEF ServerInit, ChainedInv, RequestTypes, Asked, LayerNames
    <2>4. RouteInv
        BY DEF ServerInit, RouteInv
    <2>5. TypeOK
        BY OidcAssumption DEF ServerInit, Init, TypeOK, Published, Kids, Procs
    <2>6. Len(Modes) \in Nat
        BY <2>4, ModesAreListed DEF RouteInv
    <2>7. StartTypes
        BY <2>6 DEF ServerInit, StartTypes
    <2>8. BearerTypes
        <3>1. [kind |-> "none"] \in Bearers
            BY DEF Bearers
        <3>2. chain = <<>>
            BY DEF ServerInit
        <3> QED BY <3>1, <3>2 DEF ServerInit, BearerTypes
    <2>9. FileStates
        BY ReloadAssumption DEF ServerInit, ReloadInit, FileStates
    <2> QED BY <2>1, <2>2, <2>3, <2>4, <2>5, <2>7, <2>8, <2>9 DEF Typed, Invs
<1>2. Typed /\ [ServerNext]_svars => Typed'
    <2> SUFFICES ASSUME Typed, [ServerNext]_svars PROVE Typed'
        OBVIOUS
    <2>1. Invs'
        BY DirStepKeeps, RevStepKeeps, ChainedKept, RouteStep, ServerTakesOidcSteps, OidcTypeKept
        DEF Typed, Invs
    <2> QED BY <2>1, StartTypesKept, BearerTypesKept, FileStatesKept DEF Typed
<1>3. Typed => ServerTypeOK
    <2> SUFFICES ASSUME Typed PROVE ServerTypeOK
        OBVIOUS
    <2>1. ReloadTypeOK
        <3>1. rev \in RevFiles
            BY DEF Typed, Invs, RevInv, FileTypes, RevFiles
        <3>2. RevTypeOK
            BY <3>1 DEF Typed, Invs, RevInv, FileTypes, FileStates, RevTypeOK
        <3> QED BY <3>2 DEF Typed, Invs, DirInv, FileStates, ReloadTypeOK
    <2>2. chain \in Seq({"token", "dir", "jwt", "oidc"})
        BY DEF Typed, Invs, ChainedInv, RequestTypes, LayerNames
    <2> QED BY <2>1, <2>2 DEF Typed, Invs, StartTypes, BearerTypes, ServerTypeOK
<1> QED BY <1>1, <1>2, <1>3, PTL DEF ServerSpec
=============================================================================
