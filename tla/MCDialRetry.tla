----------------------------- MODULE MCDialRetry -----------------------------
(* Instance of DialRetry: negative, zero and small retry limits; default,    *)
(* sub-second, and several-second maximum intervals; five jitter factors.    *)
EXTENDS DialRetry

MCMaxRetryCounts == {-1, 0, 1, 3}
MCMaxIntervals == {0, 700, 3000}
MCJitterPct == {50, 75, 100, 125, 149}
=============================================================================
