--------------------------- MODULE DialRetryProofs ---------------------------
(***************************************************************************)
(* Proofs about DialRetry for every retry limit, maximum interval and set  *)
(* of jitter factors: the retry budget is used exactly, the delays keep to *)
(* their window, and no socket is left behind.  The provers know nothing   *)
(* of powers of two; what the window needs of them comes from the number   *)
(* of subsets of a finite set.                                             *)
(***************************************************************************)
EXTENDS DialRetry, FiniteSetTheorems, TLAPS

(* A power of two is a positive number.                                    *)
LEMMA PowerOfTwo ==
    ASSUME NEW n \in Nat
    PROVE  2^n \in Nat \ {0}
<1>1. IsFiniteSet(1..n) /\ Cardinality(1..n) = n
    BY FS_Interval
<1>2. IsFiniteSet(SUBSET (1..n)) /\ Cardinality(SUBSET (1..n)) = 2^n
    BY <1>1, FS_SUBSET
<1>3. Cardinality(SUBSET (1..n)) \in Nat /\ Cardinality(SUBSET (1..n)) # 0
    BY <1>2, FS_CardinalityType, FS_EmptySet
<1> QED BY <1>2, <1>3

(* Jitter takes a delay to between a half and one and a half times it, the *)
(* truncation to the clock's unit included (backoff.go Next).              *)
LEMMA JitterWindow ==
    ASSUME NEW m \in Nat, NEW p \in 50..149, NEW q \in Int, q = (m * p) \div 100
    PROVE  q \in Nat /\ 2 * q <= 3 * m /\ 2 * (q + 1) > m
<1>1. m * p \in Nat /\ 50 * m <= m * p /\ m * p <= 149 * m
    OBVIOUS
<1>2. \A n \in Nat :
        n \div 100 \in Nat /\ 100 * (n \div 100) <= n /\ n < 100 * (n \div 100) + 100
    OBVIOUS
<1> QED BY <1>1, <1>2

(* The delay before its k-th retry that the backoff returns (backoff.go    *)
(* Next): a second doubled k - 1 times, or the cap, with jitter.           *)
LEMMA DelayBounds ==
    ASSUME NEW b, b.attempt \in Nat, b.maxInterval \in Nat, NEW p \in 50..149
    PROVE  LET cap == b.maxInterval
               exp == Second * 2^b.attempt
               d == Delay(b, p)
           IN  /\ d \in Nat
               /\ 2 * d <= 3 * cap
               /\ 2 * d <= 3 * exp
               /\ 2 * (d + 1) > cap \/ 2 * (d + 1) > exp
<1> DEFINE cap == b.maxInterval
           exp == Second * 2^b.attempt
           base == BaseDelay(b)
<1>1. exp \in Nat
    BY PowerOfTwo DEF Second
<1>2. base \in Nat /\ base <= cap /\ base <= exp /\ (base = cap \/ base = exp)
    BY <1>1 DEF BaseDelay
<1>3. Delay(b, p) = (base * p) \div 100
    BY DEF Delay
<1> HIDE DEF exp, base
<1>4. (base * p) \div 100 \in Int
    BY <1>2
<1>5. /\ Delay(b, p) \in Nat
      /\ 2 * Delay(b, p) <= 3 * base
      /\ 2 * (Delay(b, p) + 1) > base
    BY <1>2, <1>3, <1>4, JitterWindow
<1>6. /\ Delay(b, p) \in Nat
      /\ 2 * Delay(b, p) <= 3 * cap
      /\ 2 * Delay(b, p) <= 3 * exp
      /\ 2 * (Delay(b, p) + 1) > cap \/ 2 * (Delay(b, p) + 1) > exp
    BY <1>1, <1>2, <1>5
<1> QED BY <1>6 DEF exp

-----------------------------------------------------------------------------
\* The backoff has the limit of the loop, and with a limit every dial that
\* failed has used one attempt up, the last one excepted.
Failed == IF pc \in {"dial", "sleep", "cancelled"} THEN dials ELSE dials - 1
Budgeted ==
    /\ bo.maxRetries = cfg.maxRetries
    /\ cfg.maxRetries > 0 => bo.attempt <= cfg.maxRetries /\ bo.attempt = Failed
    /\ pc = "exhausted" => cfg.maxRetries > 0 /\ bo.attempt = cfg.maxRetries

\* Sockets are open only where the loop can still close or hand them over;
\* NewUDPRelay, which alone has a local socket, is not cancelled.
Sockets ==
    /\ ws # "none" => pc \in {"opened", "connected"}
    /\ udp = "open" => pc \notin {"exhausted", "cancelled"}
    /\ udp # "none" => ~Cancellable

RInv == TypeOK /\ Budgeted /\ Sockets /\ DelayWindow

(* A limit that the model is run with is below the bound of its counters.  *)
LEMMA LimitsBelowBound ==
    ASSUME cfg \in Configs
    PROVE  cfg.maxRetries \in Int /\ cfg.maxRetries < AttemptBound /\ AttemptBound \in Nat
BY DialRetryAssumption DEF Configs

(* Init establishes the invariant.                                         *)
LEMMA InitRInv == Init => RInv
<1> SUFFICES ASSUME Init PROVE RInv
    OBVIOUS
<1>1. cfg.maxRetries \in Int /\ cfg.maxInterval \in Int
    BY DialRetryAssumption DEF Init, Configs
<1>2. bo \in [attempt : 0..AttemptBound, maxRetries : Int, maxInterval : Nat \ {0}]
    <2>1. /\ New(cfg.maxRetries, cfg.maxInterval).maxInterval \in Nat \ {0}
          /\ New(cfg.maxRetries, cfg.maxInterval).attempt = 0
        BY <1>1 DEF New, DefaultMaxInterval, Second
    <2> QED BY <1>1, <2>1, DialRetryAssumption DEF Init, New
<1>3. TypeOK
    <2>1. cfg \in Configs /\ served \in Fingerprints /\ pc = "dial" /\ ws = "none"
        BY DEF Init
    <2>2. delay \in Nat /\ ctxDone \in BOOLEAN /\ udp \in {"none", "open", "closed"}
        BY DEF Init
    <2>3. dials \in 0..(AttemptBound + 1)
        BY DialRetryAssumption DEF Init
    <2> QED BY <1>2, <2>1, <2>2, <2>3 DEF TypeOK
<1>4. Budgeted
    BY <1>1 DEF Init, Budgeted, Failed, New
<1>5. Sockets
    BY DEF Init, Sockets, Cancellable
<1>6. DelayWindow
    BY DEF Init, DelayWindow
<1> QED BY <1>3, <1>4, <1>5, <1>6 DEF RInv

(* The error path, from a dial that is counted, keeps the invariant.       *)
LEMMA RetryRInv ==
    ASSUME TypeOK, Budgeted, udp # "none" => ~Cancellable,
           dials' \in 0..(AttemptBound + 1), cfg' = cfg, ws' = "none", Retry,
           UNCHANGED <<ctxDone, served>>,
           pc \in {"dial", "opened"},
           cfg.maxRetries > 0 => bo.attempt = dials' - 1
    PROVE  RInv'
<1> DEFINE limit == cfg.maxRetries
<1>1. limit \in Int /\ limit < AttemptBound /\ AttemptBound \in Nat
    BY LimitsBelowBound DEF TypeOK
<1>2. CASE Permitted(bo)
    <2>1. pc' = "sleep" /\ udp' = udp /\ bo' = Advance(bo, AttemptBound)
        BY <1>2 DEF Retry
    <2>2. PICK p \in JitterPct : delay' = Delay(bo, p)
        BY <1>2 DEF Retry
    <2>3. /\ bo' \in [attempt : 0..AttemptBound, maxRetries : Int, maxInterval : Nat \ {0}]
          /\ bo'.maxRetries = limit
          /\ limit > 0 => bo.attempt < limit /\ bo'.attempt = bo.attempt + 1
        BY <1>1, <1>2, <2>1 DEF Advance, Permitted, TypeOK, Budgeted
    <2>4. bo.attempt \in Nat /\ bo.maxInterval \in Nat /\ p \in 50..149
        BY <1>1, DialRetryAssumption DEF TypeOK
    <2>5. TypeOK'
        BY <2>1, <2>2, <2>3, <2>4, DelayBounds DEF TypeOK
    <2>6. Budgeted'
        BY <1>1, <2>1, <2>3 DEF Budgeted, Failed, TypeOK
    <2>7. Sockets'
        BY <2>1 DEF Sockets, Cancellable
    <2>8. ASSUME bo'.attempt < AttemptBound
          PROVE  bo'.attempt - 1 = bo.attempt /\ bo'.maxInterval = bo.maxInterval
        BY <1>1, <2>1, <2>8 DEF Advance, TypeOK
    <2>9. DelayWindow'
        BY <2>2, <2>4, <2>8, DelayBounds DEF DelayWindow
    <2> QED BY <2>5, <2>6, <2>7, <2>9 DEF RInv
<1>3. CASE ~Permitted(bo)
    <2>1. /\ pc' = "exhausted" /\ bo' = bo /\ delay' = 0
          /\ udp' = (IF udp = "open" THEN "closed" ELSE udp)
        BY <1>3 DEF Retry
    <2>2. limit > 0 /\ bo.attempt = limit
        BY <1>1, <1>3 DEF Permitted, TypeOK, Budgeted
    <2>3. TypeOK'
        BY <2>1 DEF TypeOK, Results
    <2>4. Budgeted'
        BY <1>1, <2>1, <2>2 DEF Budgeted, Failed, TypeOK
    <2>5. Sockets'
        BY <2>1 DEF Sockets, Cancellable
    <2>6. DelayWindow'
        BY <2>1 DEF DelayWindow
    <2> QED BY <2>3, <2>4, <2>5, <2>6 DEF RInv
<1> QED BY <1>2, <1>3

(* A dial is counted exactly as long as a limit is not used up.            *)
LEMMA DialCounted ==
    ASSUME RInv, CountDial, pc = "dial"
    PROVE  /\ dials' \in 0..(AttemptBound + 1)
           /\ cfg.maxRetries > 0 => dials' = dials + 1 /\ bo.attempt = dials
BY LimitsBelowBound DEF RInv, TypeOK, Budgeted, Failed, CountDial

(* Every step keeps the invariant.                                         *)
LEMMA NextRInv == RInv /\ [Next]_vars => RInv'
<1> SUFFICES ASSUME RInv, [Next]_vars PROVE RInv'
    OBVIOUS
<1> USE DEF RInv
<1>1. CASE DialError
    <2>1. ws' = "none"
        BY <1>1 DEF DialError, Sockets
    <2> QED BY <1>1, <2>1, DialCounted, RetryRInv DEF DialError, Sockets, TypeOK
<1>2. CASE DialOpen
    <2>1. TypeOK'
        BY <1>2, DialCounted DEF DialOpen, TypeOK
    <2>2. Budgeted'
        BY <1>2, DialCounted, LimitsBelowBound DEF DialOpen, Budgeted, Failed, TypeOK
    <2> QED BY <1>2, <2>1, <2>2 DEF DialOpen, Sockets, Cancellable, DelayWindow
<1>3. CASE Mismatch \/ YamuxError
    <2>1. /\ pc = "opened" /\ Retry /\ ws' = "none" /\ cfg' = cfg /\ dials' = dials
          /\ UNCHANGED <<ctxDone, served>>
        BY <1>3 DEF Mismatch, YamuxError
    <2>2. cfg.maxRetries > 0 => bo.attempt = dials - 1
        BY <2>1 DEF Budgeted, Failed
    <2> QED BY <2>1, <2>2, RetryRInv DEF Sockets, TypeOK
<1>4. CASE Connect \/ Wake \/ Cancel
    <2>1. TypeOK'
        BY <1>4 DEF Connect, Wake, Cancel, TypeOK, Results
    <2>2. Budgeted'
        BY <1>4, LimitsBelowBound DEF Connect, Wake, Cancel, Budgeted, Failed, TypeOK
    <2>3. Sockets'
        BY <1>4 DEF Connect, Wake, Cancel, Sockets, Cancellable
    <2>4. DelayWindow'
        BY <1>4 DEF Connect, Wake, Cancel, DelayWindow
    <2> QED BY <2>1, <2>2, <2>3, <2>4
<1>5. CASE CallerGone \/ ServerRestart
    <2>1. TypeOK'
        BY <1>5 DEF CallerGone, ServerRestart, TypeOK
    <2> QED BY <1>5, <2>1 DEF CallerGone, ServerRestart, Budgeted, Failed, Sockets,
                             Cancellable, DelayWindow
<1>6. CASE UNCHANGED vars
    BY <1>6 DEF vars, TypeOK, Budgeted, Failed, Sockets, Cancellable, DelayWindow
<1> QED BY <1>1, <1>2, <1>3, <1>4, <1>5, <1>6 DEF Next, Loop, Proceed, Answer

(* The inductive invariant of the dial loops.                              *)
THEOREM RInductive == Spec => []RInv
BY InitRInv, NextRInv, PTL DEF Spec

(* A limit of m allows m retries, neither more nor less, whichever errors  *)
(* used them up.                                                           *)
THEOREM BudgetKept == Spec => []RetryBudget
<1>1. RInv => RetryBudget
    BY LimitsBelowBound DEF RInv, TypeOK, Results, Budgeted, Failed, RetryBudget
<1> QED BY <1>1, RInductive, PTL

(* A loop that gives up leaves no socket open.                             *)
THEOREM SocketsClosed == Spec => []NoLeakedSocket
<1>1. RInv => NoLeakedSocket
    BY DEF RInv, TypeOK, Results, Sockets, NoLeakedSocket
<1> QED BY <1>1, RInductive, PTL

(* The loop's variables have their types, for every bound of the counters. *)
THEOREM LoopTyped == Spec => []TypeOK
BY RInductive, PTL DEF RInv

(* Before its k-th retry a loop sleeps between a half and one and a half   *)
(* times min(2^(k-1) s, maximum interval), for every k below the bound of  *)
(* the counter and whatever the configured maximum.                        *)
THEOREM DelaysInWindow == Spec => []DelayWindow
BY RInductive, PTL DEF RInv
=============================================================================
