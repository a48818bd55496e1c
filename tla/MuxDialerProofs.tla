--------------------------- MODULE MuxDialerProofs ---------------------------
(***************************************************************************)
(* Proofs about MuxDialer for any number of callers and sessions, any      *)
(* retry limit, and whether or not an open may time out.  The safety       *)
(* properties rest on one inductive invariant: the mutex is held exactly   *)
(* by the caller that dials, and while it is held no open session is       *)
(* stored.                                                                 *)
(***************************************************************************)
EXTENDS MuxDialer, TLAPS

\* Dialing callers and the holder of the mutex are the same.
DialerLocks == \A c \in Callers : pc[c] \in {"dial", "sleep"} <=> mu = c

\* The mutex is held across steps only when there is nothing to overwrite.
LockedMeansNone == mu # None => session \notin live

IInv == TypeOK /\ DialerLocks /\ LockedMeansNone /\ LiveAccounted

-----------------------------------------------------------------------------
(* A fresh Backoff is a record of the right type, and stays one.           *)
LEMMA NewType ==
    New(MaxRetries, 0) \in [attempt : Nat, maxRetries : Int, maxInterval : Int]
BY MuxDialerAssumption DEF New, DefaultMaxInterval, Second

(* Counting an attempt keeps the type of a Backoff.                        *)
LEMMA AdvanceType ==
    ASSUME NEW b \in [attempt : Nat, maxRetries : Int, maxInterval : Int]
    PROVE  Advance(b, AttemptBound) \in [attempt : Nat, maxRetries : Int, maxInterval : Int]
BY MuxDialerAssumption DEF Advance

(* The initial state of muxDialer satisfies the inductive invariant.       *)
LEMMA InitIInv == Init => IInv
<1> SUFFICES ASSUME Init PROVE IInv
    OBVIOUS
<1>1. TypeOK
    BY NewType, MuxDialerAssumption DEF Init, TypeOK, Nil
<1>2. DialerLocks /\ LockedMeansNone /\ LiveAccounted
    BY MuxDialerAssumption DEF Init, DialerLocks, LockedMeansNone, LiveAccounted
<1> QED BY <1>1, <1>2 DEF IInv

(* Every step of a caller, and every loss of a session, keeps it.          *)
LEMMA NextIInv == IInv /\ [Next]_vars => IInv'
<1> SUFFICES ASSUME IInv, [Next]_vars PROVE IInv'
    OBVIOUS
<1> USE MuxDialerAssumption DEF IInv
<1>1. ASSUME NEW c \in Callers, Dial(c) PROVE IInv'
    BY <1>1 DEF Dial, Goto, TypeOK, DialerLocks, LockedMeansNone, LiveAccounted
<1>2. ASSUME NEW c \in Callers, GetHit(c) PROVE IInv'
    BY <1>2 DEF GetHit, Goto, TypeOK, DialerLocks, LockedMeansNone, LiveAccounted
<1>3. ASSUME NEW c \in Callers, GetMiss(c) PROVE IInv'
    <2>1. TypeOK'
        BY <1>3, NewType DEF GetMiss, Goto, TypeOK
    <2>2. (DialerLocks /\ LockedMeansNone /\ LiveAccounted)'
        BY <1>3 DEF GetMiss, Goto, TypeOK, DialerLocks, LockedMeansNone, LiveAccounted
    <2> QED BY <2>1, <2>2
<1>4. ASSUME NEW c \in Callers, DialOK(c) PROVE IInv'
    <2>1. mu = c /\ live \subseteq dropped
        BY <1>4 DEF DialOK, DialerLocks, LockedMeansNone, LiveAccounted
    <2>2. TypeOK'
        BY <1>4 DEF DialOK, Goto, TypeOK
    <2>3. (DialerLocks /\ LockedMeansNone)'
        BY <1>4, <2>1 DEF DialOK, Goto, TypeOK, DialerLocks, LockedMeansNone
    <2>4. LiveAccounted'
        BY <1>4, <2>1 DEF DialOK, LiveAccounted
    <2> QED BY <2>2, <2>3, <2>4
<1>5. ASSUME NEW c \in Callers, DialRetry(c) PROVE IInv'
    <2>1. TypeOK'
        BY <1>5, AdvanceType DEF DialRetry, Goto, TypeOK
    <2>2. (DialerLocks /\ LockedMeansNone /\ LiveAccounted)'
        BY <1>5 DEF DialRetry, Goto, TypeOK, DialerLocks, LockedMeansNone, LiveAccounted
    <2> QED BY <2>1, <2>2
<1>6. ASSUME NEW c \in Callers, GiveUp(c) PROVE IInv'
    BY <1>6 DEF GiveUp, Goto, TypeOK, DialerLocks, LockedMeansNone, LiveAccounted
<1>7. ASSUME NEW c \in Callers, Wake(c) PROVE IInv'
    BY <1>7 DEF Wake, Goto, TypeOK, DialerLocks, LockedMeansNone, LiveAccounted
<1>8. ASSUME NEW c \in Callers, OpenOK(c) PROVE IInv'
    BY <1>8 DEF OpenOK, Goto, TypeOK, DialerLocks, LockedMeansNone, LiveAccounted
<1>9. ASSUME NEW c \in Callers, OpenError(c) PROVE IInv'
    BY <1>9 DEF OpenError, Goto, TypeOK, DialerLocks, LockedMeansNone, LiveAccounted
<1>10. ASSUME NEW c \in Callers, Clear(c) PROVE IInv'
    <2>1. TypeOK'
        BY <1>10 DEF Clear, Goto, TypeOK, Nil
    <2>2. (DialerLocks /\ LockedMeansNone)'
        BY <1>10 DEF Clear, Goto, TypeOK, DialerLocks, LockedMeansNone
    <2>3. LiveAccounted'
        BY <1>10 DEF Clear, TypeOK, LiveAccounted, Nil
    <2> QED BY <2>1, <2>2, <2>3
<1>11. ASSUME NEW c \in Callers, WriteHeader(c) PROVE IInv'
    BY <1>11 DEF WriteHeader, Goto, TypeOK, DialerLocks, LockedMeansNone, LiveAccounted
<1>12. ASSUME NEW s \in live, Lose(s) PROVE IInv'
    BY <1>12 DEF Lose, TypeOK, DialerLocks, LockedMeansNone, LiveAccounted
<1>13. CASE UNCHANGED vars
    BY <1>13 DEF vars, TypeOK, DialerLocks, LockedMeansNone, LiveAccounted
<1> QED
    BY <1>1, <1>2, <1>3, <1>4, <1>5, <1>6, <1>7, <1>8, <1>9, <1>10, <1>11, <1>12, <1>13
       DEF Next, Acquire, Answered, Proceed

(* The inductive invariant holds in every reachable state.                 *)
THEOREM Inductive == Spec => []IInv
BY InitIInv, NextIInv, PTL DEF Spec

(* Type correctness of muxDialer.                                          *)
THEOREM TypeCorrect == Spec => []TypeOK
<1>1. IInv => TypeOK
    BY DEF IInv
<1> QED BY <1>1, Inductive, PTL

(* muxDialer loses track of an open session only where the error path of   *)
(* dial sets d.session to nil.                                             *)
THEOREM SessionsAccounted == Spec => []LiveAccounted
<1>1. IInv => LiveAccounted
    BY DEF IInv
<1> QED BY <1>1, Inductive, PTL

(* While getSession dials, no usable session is stored.                    *)
THEOREM NoDialInVain == Spec => []NoRedundantDial
<1>1. IInv => NoRedundantDial
    BY MuxDialerAssumption DEF IInv, DialerLocks, LockedMeansNone, NoRedundantDial
<1> QED BY <1>1, Inductive, PTL

(* No step of getSession or dial replaces an open session by another one.  *)
THEOREM LiveSessionKept == Spec => NeverReplacesLive
<1>1. IInv /\ [Next]_vars => [(session \in live) => (session' \in {session, Nil})]_vars
    <2> SUFFICES ASSUME IInv, Next, session \in live
                 PROVE  session' \in {session, Nil}
        OBVIOUS
    <2>1. ASSUME NEW c \in Callers, DialOK(c) PROVE FALSE
        BY <2>1, MuxDialerAssumption DEF DialOK, IInv, DialerLocks, LockedMeansNone
    <2>2. ASSUME NEW c \in Callers, Clear(c) PROVE session' = Nil
        BY <2>2 DEF Clear
    <2> QED
        BY <2>1, <2>2 DEF Next, Acquire, Answered, Proceed, Dial, GetHit, GetMiss, DialRetry, GiveUp, Wake,
                          OpenOK, OpenError, WriteHeader, Lose
<1> QED BY <1>1, Inductive, PTL DEF Spec, NeverReplacesLive

-----------------------------------------------------------------------------
(* The refinement needs to know in addition what callers hold: a session   *)
(* when they work with one, and a closed one when they are about to forget *)
(* it, unless an open may time out.                                        *)
HeldUsable ==
    \A c \in Callers :
        /\ pc[c] \in {"open", "header", "clear"} => held[c] # Nil
        /\ pc[c] = "clear" => held[c] \notin live \/ OpenMayTimeout

(* HeldUsable holds at first and every step keeps it: sessions never open  *)
(* again, and a new one has a number nobody holds.                         *)
LEMMA HeldInit == Init => HeldUsable
BY DEF Init, HeldUsable

LEMMA HeldNext == IInv /\ HeldUsable /\ [Next]_vars => HeldUsable'
<1> SUFFICES ASSUME IInv, HeldUsable, [Next]_vars PROVE HeldUsable'
    OBVIOUS
<1> USE DEF IInv, TypeOK, HeldUsable, Nil
<1>1. ASSUME NEW c \in Callers, Dial(c) \/ GetHit(c) \/ GetMiss(c) PROVE HeldUsable'
    BY <1>1 DEF Dial, GetHit, GetMiss, Goto
<1>2. ASSUME NEW c \in Callers, DialOK(c) PROVE HeldUsable'
    BY <1>2 DEF DialOK, Goto
<1>3. ASSUME NEW c \in Callers, DialRetry(c) \/ GiveUp(c) \/ Wake(c) PROVE HeldUsable'
    BY <1>3 DEF DialRetry, GiveUp, Wake, Goto
<1>4. ASSUME NEW c \in Callers, OpenOK(c) \/ OpenError(c) \/ Clear(c) \/ WriteHeader(c)
      PROVE HeldUsable'
    BY <1>4 DEF OpenOK, OpenError, Clear, WriteHeader, Goto
<1>5. ASSUME NEW s \in live, Lose(s) PROVE HeldUsable'
    BY <1>5 DEF Lose
<1>6. CASE UNCHANGED vars
    BY <1>6 DEF vars
<1> QED BY <1>1, <1>2, <1>3, <1>4, <1>5, <1>6 DEF Next, Acquire, Answered, Proceed

(* Each step of the dialer is a step of the pool or changes nothing in it. *)
LEMMA PoolNext == IInv /\ HeldUsable /\ [Next]_vars => [Pool!Next]_(Pool!vars)
<1> SUFFICES ASSUME IInv, HeldUsable, [Next]_vars PROVE [Pool!Next]_(Pool!vars)
    OBVIOUS
<1> USE DEF IInv, TypeOK
<1>1. ASSUME NEW c \in Callers, Dial(c) PROVE Pool!Ask(c)
    BY <1>1 DEF Dial, Goto, Pool!Ask, Nil
<1>2. ASSUME NEW c \in Callers, GetHit(c) PROVE Pool!GetCurrent(c)
    BY <1>2 DEF GetHit, Goto, Pool!GetCurrent, Pool!Answer
<1>3. ASSUME NEW c \in Callers, GetMiss(c) \/ DialRetry(c) \/ Wake(c) \/ OpenOK(c) \/ OpenError(c)
      PROVE  UNCHANGED Pool!vars
    BY <1>3 DEF GetMiss, DialRetry, Wake, OpenOK, OpenError, Goto, Pool!vars
<1>4. ASSUME NEW c \in Callers, DialOK(c) PROVE Pool!Establish(c)
    <2>1. session \notin live
        BY <1>4, MuxDialerAssumption DEF DialOK, DialerLocks, LockedMeansNone
    <2> QED BY <1>4, <2>1 DEF DialOK, Goto, Pool!Establish, Pool!Answer
<1>5. ASSUME NEW c \in Callers, GiveUp(c) PROVE Pool!Refuse(c)
    <2>1. session \notin live
        BY <1>5, MuxDialerAssumption DEF GiveUp, DialerLocks, LockedMeansNone
    <2> QED BY <1>5, <2>1 DEF GiveUp, Goto, Pool!Refuse, Pool!Answer
<1>6. ASSUME NEW c \in Callers, Clear(c) PROVE Pool!Forget(c)
    BY <1>6 DEF Clear, Goto, HeldUsable, Pool!Forget
<1>7. ASSUME NEW c \in Callers, WriteHeader(c) PROVE Pool!Return(c)
    BY <1>7 DEF WriteHeader, Goto, HeldUsable, Pool!Return
<1>8. ASSUME NEW s \in live, Lose(s) PROVE Pool!Close(s)
    BY <1>8 DEF Lose, Pool!Close
<1>9. CASE UNCHANGED vars
    BY <1>9 DEF vars, Pool!vars
<1> QED
    BY <1>1, <1>2, <1>3, <1>4, <1>5, <1>6, <1>7, <1>8, <1>9 DEF Next, Acquire, Answered, Proceed, Pool!Next

(* muxDialer implements the session pool, for any number of callers and    *)
(* sessions, any retry limit, and whether or not an open may time out.     *)
THEOREM Implements == Spec => ImplementsPool
<1>1. Init => Pool!Init
    BY DEF Init, Pool!Init, Nil
<1>2. Spec => []HeldUsable
    BY HeldInit, HeldNext, Inductive, PTL DEF Spec
<1> QED
    BY <1>1, <1>2, PoolNext, Inductive, PTL DEF Spec, ImplementsPool, Pool!Spec
=============================================================================
