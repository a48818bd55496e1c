----------------------------- MODULE TokenReload -----------------------------
(***************************************************************************)
(* The two files the server's authenticators read again every 30 seconds,  *)
(* while they are edited: the directory of static tokens                   *)
(* (auth.StaticAuthenticator) and the list of revoked subjects and token   *)
(* identifiers (auth.JWTAuthenticator).  A reload works on files that      *)
(* change under it, builds a new set without a lock and installs it as a   *)
(* whole; an error leaves the old set in place until the next tick.        *)
(* The constructors make the first reload, the loops all others.           *)
(***************************************************************************)
EXTENDS Naturals, Sequences, SequencesExt, FiniteSets

CONSTANTS
    Files,      \* token files in the order of os.ReadDir; hidden files and
                \* directories are skipped by the loop and are not listed
    Values,     \* token values
    Entries,    \* what a line of the revocation file can name: a sub or a jti
    NoName,     \* no token of that value
    MaxEdits    \* bound: edits of the files

Names == ToSet(Files)

ASSUME ReloadAssumption ==
    /\ Files \in Seq(Names) /\ IsInjective(Files)
    /\ NoName \notin Names
    /\ Values \cap {"blank", "unreadable", "absent"} = {}
    /\ MaxEdits \in Nat

\* The position of a file in the listing.
Pos(n) == CHOOSE i \in DOMAIN Files : Files[i] = n

\* A file holds a value, only blanks, cannot be read, or is not there.
Contents == Values \cup {"blank", "unreadable", "absent"}
\* The revocation file: one with a line above the scanner's 64 KiB is "long".
RevFiles == [st : {"file", "long", "unreadable"}, subs : SUBSET Entries]
    \cup [st : {"absent"}, subs : {{}}]

VARIABLES
    edits,    \* edits made so far
    dir,      \* what each token file holds
    listable, \* os.ReadDir succeeds
    watched,  \* reloads whose watch loop has been started
    dpc,      \* StaticAuthenticator.reload
    todo,     \* directory entries not yet read, in the order of Files
    loaded,   \* the map being built, from value to name
    tokens,   \* s.tokens
    span,     \* history: pairs <<name, value>> on disk at some time and all
    last,     \* the time during this reload, and during the last installed
    rev,      \* the revocation file
    rpc,      \* JWTAuthenticator.loadRevocations
    fd,       \* the opened file: its content and whether the path still names it
    revoked,  \* a.revoked
    always    \* history: entries of every content since the first reload

dirVars == <<dpc, todo, loaded, tokens, span, last>>
revVars == <<rpc, fd, revoked>>
disk == <<edits, dir, listable, rev>>
reloadVars == <<disk, watched, dirVars, revVars, always>>

NoTokens == [v \in Values |-> NoName]
Pairs(d) == {p \in Names \X Values : d[p[1]] = p[2]}
Nothing == [seen |-> {}, kept |-> {}]
NoFile == [subs |-> {}, long |-> FALSE, same |-> FALSE]

ReloadInit ==
    /\ edits = 0
    /\ dir \in [Names -> Contents]
    /\ listable = TRUE
    /\ watched = {}
    /\ dpc = "idle"
    /\ todo = {}
    /\ loaded = NoTokens
    /\ tokens = NoTokens
    /\ span = Nothing
    /\ last = Nothing
    /\ rev \in RevFiles
    /\ rpc = "idle"
    /\ fd = NoFile
    /\ revoked = {}
    /\ always = {}

\* A reload may start: the constructor's only one, or the loop's next.
Ready(p, name) == p = "idle" \/ (p = "ok" /\ name \in watched)

-----------------------------------------------------------------------------
(* StaticAuthenticator.reload *)

\* Mutant: an error ends the loop.
DirDoneEnds(result) ==
    /\ dpc' = result
    /\ todo' = {}
    /\ loaded' = NoTokens
    /\ span' = Nothing

\* It ends: the loop waits for its next tick, the constructor is told.
DirDone(result) ==
    /\ dpc' = IF "dir" \in watched THEN "idle" ELSE result
    /\ todo' = {}
    /\ loaded' = NoTokens
    /\ span' = Nothing

\* os.ReadDir returns the entries that are there now.
ReadDir ==
    /\ Ready(dpc, "dir")
    /\ IF listable
       THEN /\ dpc' = "reading"
            /\ todo' = {n \in Names : dir[n] # "absent"}
            /\ span' = [seen |-> Pairs(dir), kept |-> Pairs(dir)]
            /\ UNCHANGED loaded
       ELSE DirDone("failed")
    /\ UNCHANGED <<tokens, last>>

\* One turn of the loop, for the next entry of the listing: a later file takes
\* a value over from an earlier one; a file that is gone by now or cannot be
\* read ends the reload.
ReadFile ==
    /\ dpc = "reading"
    /\ \E n \in todo :
           /\ \A m \in todo : Pos(n) <= Pos(m)
           /\ IF dir[n] \in {"unreadable", "absent"} THEN DirDone("failed")
              ELSE /\ todo' = todo \ {n}
                   /\ loaded' = IF dir[n] = "blank" THEN loaded ELSE [loaded EXCEPT ![dir[n]] = n]
                   /\ UNCHANGED <<dpc, span>>
    /\ UNCHANGED <<tokens, last>>

\* Mutant: the new tokens are added to the old ones.
InstallTokensMerged ==
    /\ dpc = "reading"
    /\ todo = {}
    /\ tokens' = [v \in Values |-> IF loaded[v] = NoName THEN tokens[v] ELSE loaded[v]]
    /\ last' = span
    /\ DirDone("ok")

\* s.tokens = tokens, under the lock.
InstallTokens ==
    /\ dpc = "reading"
    /\ todo = {}
    /\ tokens' = loaded
    /\ last' = span
    /\ DirDone("ok")

DirReload == (ReadDir \/ ReadFile \/ InstallTokens) /\ UNCHANGED <<disk, watched, revVars, always>>

\* Authenticate: the map does not change while it is searched.
StaticName(v) == tokens[v]

-----------------------------------------------------------------------------
(* JWTAuthenticator.loadRevocations *)

RevDone(result) == rpc' = (IF "jwt" \in watched THEN "idle" ELSE result) /\ fd' = NoFile

\* Mutant: a file that is not there revokes nothing.
RevMissingClears == revoked' = {} /\ RevDone("ok")

\* A file that is not there is no error and changes nothing.
RevMissing == UNCHANGED revoked /\ RevDone("ok")

OpenRevocations ==
    /\ Ready(rpc, "jwt")
    /\ CASE rev.st = "absent" -> RevMissing
         [] rev.st = "unreadable" -> RevDone("failed") /\ UNCHANGED revoked
         [] OTHER -> /\ rpc' = "scan"
                     /\ fd' = [subs |-> rev.subs, long |-> rev.st = "long", same |-> TRUE]
                     /\ UNCHANGED revoked
    /\ always' = IF "jwt" \in watched THEN always ELSE rev.subs

\* The scanner reads what the file it has opened holds now; a line that is
\* too long is an error.
ScanRevocations ==
    /\ rpc = "scan"
    /\ revoked' = IF fd.long THEN revoked ELSE fd.subs
    /\ RevDone(IF fd.long THEN "failed" ELSE "ok")
    /\ UNCHANGED always

RevReload == (OpenRevocations \/ ScanRevocations) /\ UNCHANGED <<disk, watched, dirVars>>

\* Authenticate: the token's sub or jti is on the list.
Revoked(ids) == ids \cap revoked # {}

-----------------------------------------------------------------------------
(* The operator edits the files; a reload that runs sees the change from    *)
(* there on.                                                                *)
Edit ==
    /\ edits < MaxEdits
    /\ edits' = edits + 1

EditDir ==
    /\ Edit
    /\ \E n \in Names, x \in Contents : dir' = [dir EXCEPT ![n] = x]
    /\ span' = IF dpc # "reading" THEN span
               ELSE [seen |-> span.seen \cup Pairs(dir'), kept |-> span.kept \cap Pairs(dir')]
    /\ UNCHANGED <<listable, rev, watched, dpc, todo, loaded, tokens, last, revVars, always>>

\* The directory is moved away or back, or its mode changes.
EditListable ==
    /\ Edit
    /\ listable' = ~listable
    /\ UNCHANGED <<dir, rev, watched, dirVars, revVars, always>>

\* Another file takes the path, or none does: an opened file stays as it is.
EditReplace ==
    /\ Edit
    /\ rev' \in RevFiles
    /\ fd' = [fd EXCEPT !.same = FALSE]
    /\ always' = IF rev'.st = "absent" THEN always ELSE always \cap rev'.subs
    /\ UNCHANGED <<dir, listable, watched, dirVars, rpc, revoked>>

\* The file is written in place: truncated first, then lines are added.
EditInPlace ==
    /\ Edit
    /\ rev.st = "file"
    /\ \E x \in {{}} \cup {rev.subs \cup {e} : e \in Entries} : rev' = [rev EXCEPT !.subs = x]
    /\ fd' = IF fd.same THEN [fd EXCEPT !.subs = rev'.subs] ELSE fd
    /\ always' = always \cap rev'.subs
    /\ UNCHANGED <<dir, listable, watched, dirVars, rpc, revoked>>

-----------------------------------------------------------------------------
Spans == [seen : SUBSET (Names \X Values), kept : SUBSET (Names \X Values)]

DirTypeOK ==
    /\ dir \in [Names -> Contents]
    /\ dpc \in {"idle", "reading", "ok", "failed"}
    /\ todo \subseteq Names
    /\ loaded \in [Values -> Names \cup {NoName}]
    /\ tokens \in [Values -> Names \cup {NoName}]
    /\ span \in Spans /\ last \in Spans

RevTypeOK ==
    /\ rev \in RevFiles
    /\ rpc \in {"idle", "scan", "ok", "failed"}
    /\ fd \in [subs : SUBSET Entries, long : BOOLEAN, same : BOOLEAN]
    /\ revoked \subseteq Entries
    /\ always \subseteq Entries

ReloadTypeOK ==
    /\ edits \in 0..MaxEdits
    /\ listable \in BOOLEAN
    /\ watched \subseteq {"dir", "jwt", "oidc"}
    /\ DirTypeOK /\ RevTypeOK

(* Files may come, go and change while a reload reads them one by one, and  *)
(* any reload may fail: the tokens in use are still those of one pass.      *)
(* Every token was on disk under its name at some time of the last          *)
(* successful reload; every token that was there all that time is accepted, *)
(* in the name of that file or of a later one with the same value           *)
(* (static.go reload, Authenticate).                                        *)
TokensFollowDisk ==
    /\ \A v \in Values : StaticName(v) # NoName => <<StaticName(v), v>> \in last.seen
    /\ \A p \in last.kept : StaticName(p[2]) # NoName /\ Pos(StaticName(p[2])) >= Pos(p[1])

(* An entry that every content of the revocation file has had since the     *)
(* server read it first stays revoked, through failed reloads and through   *)
(* times when the file is missing (jwt.go loadRevocations).  A file that is *)
(* truncated and written again does not give that: a reload in between      *)
(* lifts the revocation until the next one.                                 *)
RevocationSticks == "jwt" \in watched => \A e \in always : Revoked({e})

\* What a reload of an unchanging directory ends with.
Outcome(d) ==
    [v \in Values |->
        LET holders == SelectSeq(Files, LAMBDA n : d[n] = v)
        IN  IF holders = <<>> THEN NoName ELSE holders[Len(holders)]]

Readable == listable /\ \A n \in Names : dir[n] # "unreadable"

(* README.md: "Adding or removing files takes effect without restarting the *)
(* server" and "The revoke file is watched for changes."  They do, once all *)
(* token files that are there can be read and the revocation file is a file *)
(* again, whatever failed before.                                           *)
FilesCatchUp ==
    /\ <>[]("dir" \in watched /\ Readable) /\ <>[][dir' = dir]_dir => <>[](tokens = Outcome(dir))
    /\ <>[]("jwt" \in watched /\ rev.st = "file") /\ <>[][rev' = rev]_rev => <>[](revoked = rev.subs)
=============================================================================
