----------------------------- MODULE SessionPool -----------------------------
(***************************************************************************)
(* What the SOCKS5 client's --mux mode promises to the connections that    *)
(* ask it for a session, without mutex, retries and waits: a caller is     *)
(* given the current session, which is open at that moment, a new one when *)
(* the current one is not open, or an error, and that only while there is  *)
(* no open session to give.  No open session is ever replaced.             *)
(***************************************************************************)
EXTENDS Naturals

CONSTANTS
    Callers,    \* those who ask
    MayForget,  \* a caller may give up a session that is open
    Nil         \* no session

VARIABLES
    current,  \* the session that is given to callers, or Nil
    open,     \* sessions that are not closed
    made,     \* number of sessions established so far
    asking,   \* callers that have asked
    given     \* what each caller has been given and not returned

vars == <<current, open, made, asking, given>>

Init ==
    /\ current = Nil
    /\ open = {}
    /\ made = 0
    /\ asking = {}
    /\ given = [c \in Callers |-> Nil]

Ask(c) ==
    /\ c \notin asking
    /\ given[c] = Nil
    /\ asking' = asking \cup {c}
    /\ UNCHANGED <<current, open, made, given>>

Answer(c, s) ==
    /\ c \in asking
    /\ asking' = asking \ {c}
    /\ given' = [given EXCEPT ![c] = s]

GetCurrent(c) ==
    /\ current \in open
    /\ Answer(c, current)
    /\ UNCHANGED <<current, open, made>>

Establish(c) ==
    /\ current \notin open
    /\ made' = made + 1
    /\ current' = made'
    /\ open' = open \cup {made'}
    /\ Answer(c, made')

Refuse(c) ==
    /\ current \notin open
    /\ Answer(c, Nil)
    /\ UNCHANGED <<current, open, made>>

Return(c) ==
    /\ given[c] # Nil
    /\ given' = [given EXCEPT ![c] = Nil]
    /\ UNCHANGED <<current, open, made, asking>>

\* The session this caller was given is of no use: no session is current,
\* whichever was.
Forget(c) ==
    /\ given[c] # Nil
    /\ given[c] \notin open \/ MayForget
    /\ current' = Nil
    /\ given' = [given EXCEPT ![c] = Nil]
    /\ UNCHANGED <<open, made, asking>>

Close(s) ==
    /\ open' = open \ {s}
    /\ UNCHANGED <<current, made, asking, given>>

Next ==
    \/ \E c \in Callers :
           Ask(c) \/ GetCurrent(c) \/ Establish(c) \/ Refuse(c) \/ Return(c) \/ Forget(c)
    \/ \E s \in open : Close(s)

Spec == Init /\ [][Next]_vars
=============================================================================
