------------------------------- MODULE Backoff -------------------------------
(***************************************************************************)
(* internal/backoff: exponential backoff with jitter.  A Backoff value is  *)
(* a record; Next of the Go code is split into the question whether a      *)
(* retry is permitted, the delays it may return, and the state after it.   *)
(* Time is counted in milliseconds.                                        *)
(***************************************************************************)
EXTENDS Integers

Second == 1000
DefaultMaxInterval == 300 * Second

\* New: a non-positive interval selects the default of five minutes.
New(maxRetries, maxInterval) ==
    [attempt     |-> 0,
     maxRetries  |-> maxRetries,
     maxInterval |-> IF maxInterval <= 0 THEN DefaultMaxInterval ELSE maxInterval]

\* Mutant: off by one in the test of the retry budget.
PermittedOneMore(b) == ~(b.maxRetries > 0 /\ b.attempt > b.maxRetries)

\* Next, first half: a maxRetries of zero (or less) means unlimited.
Permitted(b) == ~(b.maxRetries > 0 /\ b.attempt >= b.maxRetries)

\* The delay before jitter: a second doubled per attempt, capped.
BaseDelay(b) ==
    LET delay == Second * 2^b.attempt
    IN  IF delay > b.maxInterval THEN b.maxInterval ELSE delay

\* Mutant: the cap is forgotten.
DelayUncapped(b, pct) == (Second * 2^b.attempt * pct) \div 100

\* Next, second half: the delay with a jitter of pct percent, drawn from
\* [50, 150), and truncated to the clock's unit.
Delay(b, pct) == (BaseDelay(b) * pct) \div 100

\* Next counts the attempt.  Go's int is wide enough never to wrap here; the
\* model stops counting at bound, past which only unlimited retries get and
\* where the capped delay no longer depends on the count.
Advance(b, bound) ==
    [b EXCEPT !.attempt = IF @ < bound THEN @ + 1 ELSE @]
=============================================================================
