---------------------------- MODULE HandlersProofs ----------------------------
(***************************************************************************)
(* Proofs about Handlers for any number of requests, tokens and bytes: a   *)
(* handler that has returned leaves no connection open, the metrics and    *)
(* the statistics account for every relayed connection and agree with each *)
(* other, and the totals of the periodic report never go backwards.        *)
(***************************************************************************)
EXTENDS Handlers, SumTheorems

LEMMA LabelOfToken ==
    ASSUME NEW t \in Tokens
    PROVE  Label(t) \in Labels
BY DEF Label, Labels

(* An event changes the metrics under one label: a connection opened, or   *)
(* it closed and its bytes are known (metrics.go Handle).                  *)
LEMMA LogOpenOneLabel ==
    ASSUME TypeOK, NEW c \in Conns, LogOpen(c)
    PROVE  LET lbl == Label(token[c])
           IN  /\ lbl \in Labels
               /\ metrics' \in [Labels -> Counts]
               /\ metrics'[lbl] = [active |-> metrics[lbl].active + 1,
                                   total |-> metrics[lbl].total + 1,
                                   tx |-> metrics[lbl].tx, rx |-> metrics[lbl].rx]
               /\ \A l \in Labels \ {lbl} : metrics'[l] = metrics[l]
<1> DEFINE lbl == Label(token[c])
<1>1. lbl \in Labels
    BY LabelOfToken DEF TypeOK
<1>2. /\ metrics \in [Labels -> Counts]
      /\ metrics' = [metrics EXCEPT ![lbl].total = @ + 1, ![lbl].active = @ + 1]
    BY DEF TypeOK, LogOpen
<1> HIDE DEF lbl
<1>3. metrics[lbl] \in Counts
    BY <1>1, <1>2
<1>4. /\ metrics'[lbl] = [active |-> metrics[lbl].active + 1,
                          total |-> metrics[lbl].total + 1,
                          tx |-> metrics[lbl].tx, rx |-> metrics[lbl].rx]
      /\ metrics'[lbl] \in Counts
      /\ \A l \in Labels \ {lbl} : metrics'[l] = metrics[l]
    BY <1>1, <1>2, <1>3 DEF Counts
<1>5. metrics' \in [Labels -> Counts]
    BY <1>1, <1>2, <1>4
<1> QED BY <1>1, <1>4, <1>5 DEF lbl

LEMMA LogCloseOneLabel ==
    ASSUME TypeOK, NEW c \in Conns, LogClose(c)
    PROVE  LET lbl == Label(token[c])
           IN  /\ lbl \in Labels
               /\ metrics' \in [Labels -> Counts]
               /\ metrics'[lbl] = [active |-> metrics[lbl].active - 1,
                                   total |-> metrics[lbl].total,
                                   tx |-> metrics[lbl].tx + bytes[c].tx,
                                   rx |-> metrics[lbl].rx + bytes[c].rx]
               /\ \A l \in Labels \ {lbl} : metrics'[l] = metrics[l]
<1> DEFINE lbl == Label(token[c])
<1>1. lbl \in Labels
    BY LabelOfToken DEF TypeOK
<1>2. /\ metrics \in [Labels -> Counts]
      /\ metrics' = [metrics EXCEPT ![lbl].active = @ - 1,
                                    ![lbl].tx = @ + bytes[c].tx,
                                    ![lbl].rx = @ + bytes[c].rx]
      /\ bytes[c].tx \in Int /\ bytes[c].rx \in Int
    BY HandlersAssumption DEF TypeOK, LogClose
<1> HIDE DEF lbl
<1>3. metrics[lbl] \in Counts
    BY <1>1, <1>2
<1>4. /\ metrics'[lbl] = [active |-> metrics[lbl].active - 1,
                          total |-> metrics[lbl].total,
                          tx |-> metrics[lbl].tx + bytes[c].tx,
                          rx |-> metrics[lbl].rx + bytes[c].rx]
      /\ metrics'[lbl] \in Counts
      /\ \A l \in Labels \ {lbl} : metrics'[l] = metrics[l]
    <2> DEFINE was == metrics[lbl]
               now == [active |-> was.active - 1, total |-> was.total,
                       tx |-> was.tx + bytes[c].tx, rx |-> was.rx + bytes[c].rx]
    <2>1. was.active \in Int /\ was.total \in Int /\ was.tx \in Int /\ was.rx \in Int
        BY <1>3 DEF Counts
    <2>2. now \in Counts
        BY <1>2, <2>1 DEF Counts
    <2>3. metrics'[lbl] = now
        BY <1>1, <1>2, <1>3 DEF Counts
    <2>4. \A l \in Labels \ {lbl} : metrics'[l] = metrics[l]
        BY <1>1, <1>2
    <2> QED BY <2>2, <2>3, <2>4
<1>5. metrics' \in [Labels -> Counts]
    BY <1>1, <1>2, <1>4
<1> QED BY <1>1, <1>4, <1>5 DEF lbl

(* Every step keeps the types.                                             *)
LEMMA NextTypeOK == TypeOK /\ [Next]_vars => TypeOK'
<1> SUFFICES ASSUME TypeOK, [Next]_vars PROVE TypeOK'
    OBVIOUS
<1> USE HandlersAssumption DEF TypeOK, Counts, Goto, SetClient, SetTarget, accounts, reporting
<1>1. ASSUME NEW c \in Conns, NEW k \in Kinds, NEW t \in Tokens, Arrive(c, k, t)
      PROVE  TypeOK'
    BY <1>1 DEF Arrive
<1>2. ASSUME NEW c \in Conns, AuthFailure(c) \/ Refuse(c) \/ Admit(c) \/ Accept(c)
      PROVE  TypeOK'
    <2>1. CASE AuthFailure(c)
        BY <2>1 DEF AuthFailure
    <2>2. CASE Refuse(c) \/ Admit(c)
        BY <2>2 DEF Refuse, Admit
    <2>3. CASE Accept(c)
        BY <2>3 DEF Accept
    <2> QED BY <1>2, <2>1, <2>2, <2>3
<1>3. ASSUME NEW c \in Conns, DialError(c) \/ DialOK(c) \/ Hijack(c)
      PROVE  TypeOK'
    BY <1>3 DEF DialError, DialOK, Hijack
<1>4. ASSUME NEW c \in Conns, LogOpen(c)
      PROVE  TypeOK'
    BY <1>4, LogOpenOneLabel DEF LogOpen
<1>5. ASSUME NEW c \in Conns, OpenActive(c) \/ OpenTotal(c)
      PROVE  TypeOK'
    <2>1. /\ stats = [active |-> stats.active, total |-> stats.total,
                     tx |-> stats.tx, rx |-> stats.rx]
          /\ stats.active + 1 \in Int /\ stats.total + 1 \in Int
        OBVIOUS
    <2>2. CASE OpenActive(c)
        <3>1. stats' = [active |-> stats.active + 1, total |-> stats.total,
                        tx |-> stats.tx, rx |-> stats.rx]
            BY <2>1, <2>2 DEF OpenActive
        <3>2. stats' \in Counts
            BY <2>1, <3>1
        <3> QED BY <2>2, <3>2 DEF OpenActive
    <2>3. CASE OpenTotal(c)
        <3>1. stats' = [active |-> stats.active, total |-> stats.total + 1,
                        tx |-> stats.tx, rx |-> stats.rx]
            BY <2>1, <2>3 DEF OpenTotal
        <3>2. stats' \in Counts
            BY <2>1, <3>1
        <3> QED BY <2>3, <3>2 DEF OpenTotal
    <2> QED BY <1>5, <2>2, <2>3
<1>6. ASSUME NEW c \in Conns, NEW tx \in 0..MaxBytes, NEW rx \in 0..MaxBytes, RelayReturns(c, tx, rx)
      PROVE  TypeOK'
    BY <1>6 DEF RelayReturns
<1>7. ASSUME NEW c \in Conns, LogClose(c)
      PROVE  TypeOK'
    BY <1>7, LogCloseOneLabel DEF LogClose
<1>8. ASSUME NEW c \in Conns, CloseActive(c) \/ CloseTx(c) \/ CloseRx(c)
      PROVE  TypeOK'
    <2>1. bytes[c].tx \in Int /\ bytes[c].rx \in Int
        OBVIOUS
    <2>2. CASE CloseActive(c)
        BY <2>2 DEF CloseActive
    <2>3. CASE CloseTx(c)
        BY <2>1, <2>3 DEF CloseTx
    <2>4. CASE CloseRx(c)
        BY <2>1, <2>4 DEF CloseRx
    <2> QED BY <1>8, <2>2, <2>3, <2>4
<1>9. CASE Load
    BY <1>9 DEF Load, Loads
<1>10. CASE LogReport \/ UNCHANGED vars
    BY <1>10 DEF LogReport, vars
<1> QED BY <1>1, <1>2, <1>3, <1>4, <1>5, <1>6, <1>7, <1>8, <1>9, <1>10 DEF Next, Serve

-----------------------------------------------------------------------------
(* What a handler holds at each of its places *)

Opening == {"logOpen", "openActive", "openTotal"}
Closing == {"logClose", "closeActive", "closeTx", "closeRx"}

Held(c) ==
    /\ pc[c] \in {"new", "check", "accept", "dial"} => target[c] = "none"
    /\ pc[c] \in Closing => client[c] = "closed" /\ target[c] = "closed"
    /\ pc[c] = "done" => client[c] \in {"answered", "closed"} /\ target[c] # "open"
    /\ pc[c] \in Opening \cup Closing => Audited(c)

HInv == TypeOK /\ \A c \in Conns : Held(c)

(* Every step of a handler keeps what it holds in step with its place.     *)
LEMMA NextHInv == HInv /\ [Next]_vars => HInv'
<1> SUFFICES ASSUME TypeOK, TypeOK', \A c \in Conns : Held(c), [Next]_vars
             PROVE  \A c \in Conns : Held(c)'
    BY NextTypeOK DEF HInv
<1> USE DEF TypeOK, Held, Opening, Closing, Audited, Goto, SetClient, SetTarget, Kinds
<1>1. ASSUME NEW c \in Conns, NEW k \in Kinds, NEW t \in Tokens, Arrive(c, k, t)
      PROVE  \A e \in Conns : Held(e)'
    BY <1>1 DEF Arrive
<1>2. ASSUME NEW c \in Conns, AuthFailure(c) \/ Refuse(c) \/ Admit(c)
      PROVE  \A e \in Conns : Held(e)'
    BY <1>2 DEF AuthFailure, Refuse, Admit
<1>3. ASSUME NEW c \in Conns, Accept(c)
      PROVE  \A e \in Conns : Held(e)'
    BY <1>3 DEF Accept
<1>4. ASSUME NEW c \in Conns, DialError(c) \/ DialOK(c)
      PROVE  \A e \in Conns : Held(e)'
    BY <1>4 DEF DialError, DialOK
<1>5. ASSUME NEW c \in Conns, Hijack(c)
      PROVE  \A e \in Conns : Held(e)'
    BY <1>5 DEF Hijack
<1>6. ASSUME NEW c \in Conns, LogOpen(c) \/ OpenActive(c) \/ OpenTotal(c)
      PROVE  \A e \in Conns : Held(e)'
    BY <1>6 DEF LogOpen, OpenActive, OpenTotal
<1>7. ASSUME NEW c \in Conns, NEW tx, NEW rx, RelayReturns(c, tx, rx)
      PROVE  \A e \in Conns : Held(e)'
    BY <1>7 DEF RelayReturns
<1>8. ASSUME NEW c \in Conns, LogClose(c) \/ CloseActive(c) \/ CloseTx(c) \/ CloseRx(c)
      PROVE  \A e \in Conns : Held(e)'
    BY <1>8 DEF LogClose, CloseActive, CloseTx, CloseRx
<1>9. CASE Load \/ LogReport \/ UNCHANGED vars
    BY <1>9 DEF Load, LogReport, vars
<1> QED BY <1>1, <1>2, <1>3, <1>4, <1>5, <1>6, <1>7, <1>8, <1>9 DEF Next, Serve

THEOREM HandlersHold == Spec => []HInv
<1>1. Init => HInv
    <2>1. Init => TypeOK
        BY HandlersAssumption DEF Init, TypeOK, Counts, NoCounts, NoBytes, Kinds
    <2> QED BY <2>1 DEF Init, HInv, Held, Opening, Closing
<1> QED BY <1>1, NextHInv, PTL DEF Spec

(* The variables have their types.                                         *)
THEOREM HandlersTyped == Spec => []TypeOK
BY HandlersHold, PTL DEF HInv

(* NothingLeftOpen for any number of requests, on every path of the three  *)
(* handlers (server.go connectHandler, connectHTTPHandler, connect.go      *)
(* handleConnect).                                                         *)
THEOREM NothingStaysOpen == Spec => []NothingLeftOpen
<1>1. HInv => NothingLeftOpen
    BY DEF HInv, Held, NothingLeftOpen
<1> QED BY <1>1, HandlersHold, PTL

-----------------------------------------------------------------------------
(* What a handler has contributed to the metrics and to the statistics *)

Fields == {"active", "total", "tx", "rx"}

\* Between its open event and its close event; past both, in the statistics
\* still; past all of it.
Open(c) == pc[c] \in {"openActive", "openTotal", "relay", "logClose"}
Relayed(c) == pc[c] = "done" /\ target[c] # "none" /\ client[c] = "closed"
Closed(c) == pc[c] \in {"closeActive", "closeTx", "closeRx"} \/ Relayed(c)

Amount(counted, n) == IF counted THEN n ELSE 0

InMetrics == [c \in Conns |->
    [active |-> Amount(Audited(c) /\ Open(c), 1),
     total |-> Amount(Audited(c) /\ (Open(c) \/ Closed(c)), 1),
     tx |-> Amount(Audited(c) /\ Closed(c), bytes[c].tx),
     rx |-> Amount(Audited(c) /\ Closed(c), bytes[c].rx)]]

InStats == [c \in Conns |->
    [active |-> Amount(Audited(c) /\ pc[c] \in {"openTotal", "relay", "logClose", "closeActive"}, 1),
     total |-> Amount(Audited(c) /\ (pc[c] \in {"relay", "logClose"} \/ Closed(c)), 1),
     tx |-> Amount(Audited(c) /\ (pc[c] = "closeRx" \/ Relayed(c)), bytes[c].tx),
     rx |-> Amount(Audited(c) /\ Relayed(c), bytes[c].rx)]]

OverConns(p, d) == SumFunctionOnSet([c \in Conns |-> p[c][d]], Conns)
OfLabel(p, t, l, d) ==
    SumFunctionOnSet([c \in Conns |-> IF Label(t[c]) = l THEN p[c][d] ELSE 0], Conns)
Totals(m, d) == SumFunctionOnSet([l \in Labels |-> m[l][d]], Labels)

\* Each label's metrics are what the handlers under it have contributed; so
\* are the metrics of all labels together, and the statistics.
Balanced ==
    \A d \in Fields :
        /\ \A l \in Labels : metrics[l][d] = OfLabel(InMetrics, token, l, d)
        /\ Totals(metrics, d) = OverConns(InMetrics, d)
        /\ WithStats => stats[d] = OverConns(InStats, d)

Contributions == [Conns -> [Fields -> Int]]

LEMMA FiniteInstances == IsFiniteSet(Conns) /\ IsFiniteSet(Labels)
<1>1. IsFiniteSet(Tokens \ {NoToken})
    BY HandlersAssumption, FS_RemoveElement
<1> QED BY <1>1, HandlersAssumption, FS_AddElement DEF Labels

LEMMA Contribute ==
    TypeOK => InMetrics \in Contributions /\ InStats \in Contributions
<1> SUFFICES ASSUME TypeOK PROVE InMetrics \in Contributions /\ InStats \in Contributions
    OBVIOUS
<1> DEFINE R == [active : Int, total : Int, tx : Int, rx : Int]
<1>1. ASSUME NEW r \in R PROVE r \in [Fields -> Int]
    BY <1>1 DEF Fields
<1>2. ASSUME NEW c \in Conns PROVE InMetrics[c] \in R /\ InStats[c] \in R
    <2>1. bytes[c].tx \in Int /\ bytes[c].rx \in Int
        BY HandlersAssumption DEF TypeOK
    <2> QED BY <2>1 DEF InMetrics, InStats, Amount
<1> QED BY <1>1, <1>2 DEF InMetrics, InStats, Contributions

LEMMA ContributeNext ==
    TypeOK' => InMetrics' \in Contributions /\ InStats' \in Contributions
<1>1. (TypeOK => InMetrics \in Contributions /\ InStats \in Contributions)'
    BY Contribute, PTL
<1> QED BY <1>1

(* When one handler's contribution changes, the sums change by as much.    *)
LEMMA OverConnsChange ==
    ASSUME NEW p \in Contributions, NEW q \in Contributions, NEW d \in Fields,
           NEW c \in Conns, \A e \in Conns \ {c} : q[e] = p[e]
    PROVE  /\ OverConns(p, d) \in Int
           /\ OverConns(q, d) = OverConns(p, d) + (q[c][d] - p[c][d])
<1> DEFINE f == [e \in Conns |-> p[e][d]]
           g == [e \in Conns |-> q[e][d]]
<1>1. \A e \in Conns : f[e] \in Int /\ g[e] \in Int
    BY DEF Contributions
<1>2. f[c] = p[c][d] /\ g[c] = q[c][d] /\ \A e \in Conns \ {c} : g[e] = f[e]
    OBVIOUS
<1>3. OverConns(p, d) = SumFunctionOnSet(f, Conns) /\ OverConns(q, d) = SumFunctionOnSet(g, Conns)
    BY DEF OverConns
<1> HIDE DEF f, g
<1>4. SumFunctionOnSet(f, Conns) \in Int
    BY <1>1, FiniteInstances, SumType
<1>5. SumFunctionOnSet(g, Conns) = SumFunctionOnSet(f, Conns) + (g[c] - f[c])
    BY <1>1, <1>2, FiniteInstances, SumChange
<1> QED BY <1>2, <1>3, <1>4, <1>5

LEMMA OfLabelChange ==
    ASSUME NEW p \in Contributions, NEW q \in Contributions, NEW d \in Fields, NEW l,
           NEW c \in Conns, \A e \in Conns \ {c} : q[e] = p[e],
           NEW t, NEW u, \A e \in Conns \ {c} : u[e] = t[e],
           u[c] = t[c] \/ p[c][d] = 0
    PROVE  OfLabel(q, u, l, d) =
               OfLabel(p, t, l, d) + (IF Label(u[c]) = l THEN q[c][d] - p[c][d] ELSE 0)
<1> DEFINE f == [e \in Conns |-> IF Label(t[e]) = l THEN p[e][d] ELSE 0]
           g == [e \in Conns |-> IF Label(u[e]) = l THEN q[e][d] ELSE 0]
<1>1. \A e \in Conns : p[e][d] \in Int /\ q[e][d] \in Int
    BY DEF Contributions
<1>2. \A e \in Conns : f[e] \in Int /\ g[e] \in Int
    BY <1>1
<1>3. \A e \in Conns \ {c} : g[e] = f[e]
    OBVIOUS
<1>4. g[c] - f[c] = (IF Label(u[c]) = l THEN q[c][d] - p[c][d] ELSE 0)
    BY <1>1
<1>5. /\ OfLabel(p, t, l, d) = SumFunctionOnSet(f, Conns)
      /\ OfLabel(q, u, l, d) = SumFunctionOnSet(g, Conns)
    BY DEF OfLabel
<1> HIDE DEF f, g
<1>6. SumFunctionOnSet(g, Conns) = SumFunctionOnSet(f, Conns) + (g[c] - f[c])
    BY <1>2, <1>3, FiniteInstances, SumChange
<1> QED BY <1>4, <1>5, <1>6

LEMMA TotalsChange ==
    ASSUME NEW m \in [Labels -> Counts], NEW n \in [Labels -> Counts], NEW d \in Fields,
           NEW lbl \in Labels, \A l \in Labels \ {lbl} : n[l] = m[l]
    PROVE  /\ Totals(m, d) \in Int
           /\ Totals(n, d) = Totals(m, d) + (n[lbl][d] - m[lbl][d])
<1> DEFINE f == [l \in Labels |-> m[l][d]]
           g == [l \in Labels |-> n[l][d]]
<1>1. \A r \in Counts : r[d] \in Int
    BY DEF Counts, Fields
<1>2. \A l \in Labels : f[l] \in Int /\ g[l] \in Int
    BY <1>1
<1>3. f[lbl] = m[lbl][d] /\ g[lbl] = n[lbl][d] /\ \A l \in Labels \ {lbl} : g[l] = f[l]
    OBVIOUS
<1>4. Totals(m, d) = SumFunctionOnSet(f, Labels) /\ Totals(n, d) = SumFunctionOnSet(g, Labels)
    BY DEF Totals
<1> HIDE DEF f, g
<1>5. SumFunctionOnSet(f, Labels) \in Int
    BY <1>2, FiniteInstances, SumType
<1>6. SumFunctionOnSet(g, Labels) = SumFunctionOnSet(f, Labels) + (g[lbl] - f[lbl])
    BY <1>2, <1>3, FiniteInstances, SumChange
<1> QED BY <1>3, <1>4, <1>5, <1>6

\* A step of handler c moves metrics and statistics by what it changes in the
\* handler's contribution.
Moves(c) ==
    /\ \A e \in Conns \ {c} : InMetrics'[e] = InMetrics[e] /\ InStats'[e] = InStats[e]
    /\ \A e \in Conns \ {c} : token'[e] = token[e]
    /\ \A l \in Labels \ {Label(token'[c])} : metrics'[l] = metrics[l]
    /\ \A d \in Fields :
        /\ token'[c] = token[c] \/ InMetrics[c][d] = 0
        /\ metrics'[Label(token'[c])][d] =
               metrics[Label(token'[c])][d] + (InMetrics'[c][d] - InMetrics[c][d])
        /\ WithStats => stats'[d] = stats[d] + (InStats'[c][d] - InStats[c][d])

LEMMA MovesKeepBalance ==
    ASSUME TypeOK, TypeOK', Balanced, NEW c \in Conns, Moves(c)
    PROVE  Balanced'
<1> DEFINE lbl == Label(token'[c])
<1>1. /\ InMetrics \in Contributions /\ InMetrics' \in Contributions
      /\ InStats \in Contributions /\ InStats' \in Contributions
    BY Contribute, ContributeNext
<1>2. lbl \in Labels
    BY LabelOfToken DEF TypeOK
<1>3. metrics \in [Labels -> Counts] /\ metrics' \in [Labels -> Counts]
    BY DEF TypeOK
<1> SUFFICES ASSUME NEW d \in Fields
             PROVE  /\ \A l \in Labels : metrics'[l][d] = OfLabel(InMetrics', token', l, d)
                    /\ Totals(metrics', d) = OverConns(InMetrics', d)
                    /\ WithStats => stats'[d] = OverConns(InStats', d)
    BY DEF Balanced
<1>4. /\ \A l \in Labels : metrics[l][d] = OfLabel(InMetrics, token, l, d)
      /\ Totals(metrics, d) = OverConns(InMetrics, d)
      /\ WithStats => stats[d] = OverConns(InStats, d)
    BY DEF Balanced
<1>5. /\ \A l \in Labels \ {lbl} : metrics'[l] = metrics[l]
      /\ metrics'[lbl][d] = metrics[lbl][d] + (InMetrics'[c][d] - InMetrics[c][d])
      /\ token'[c] = token[c] \/ InMetrics[c][d] = 0
      /\ WithStats => stats'[d] = stats[d] + (InStats'[c][d] - InStats[c][d])
    BY DEF Moves
<1>6. /\ \A e \in Conns \ {c} : InMetrics'[e] = InMetrics[e] /\ token'[e] = token[e]
      /\ \A e \in Conns \ {c} : InStats'[e] = InStats[e]
    BY DEF Moves
<1>7. InMetrics[c][d] \in Int /\ InMetrics'[c][d] \in Int
    BY <1>1 DEF Contributions
<1> HIDE DEF lbl
<1>8. ASSUME NEW l \in Labels PROVE metrics'[l][d] = OfLabel(InMetrics', token', l, d)
    <2>1. OfLabel(InMetrics', token', l, d) = OfLabel(InMetrics, token, l, d)
              + (IF lbl = l THEN InMetrics'[c][d] - InMetrics[c][d] ELSE 0)
        BY <1>1, <1>5, <1>6, OfLabelChange DEF lbl
    <2>2. metrics[l][d] \in Int
        <3>1. metrics[l] \in Counts
            BY <1>3
        <3> QED BY <3>1 DEF Counts, Fields
    <2> QED BY <1>4, <1>5, <1>7, <2>1, <2>2
<1>9. Totals(metrics', d) = OverConns(InMetrics', d)
    <2>1. Totals(metrics', d) = Totals(metrics, d) + (metrics'[lbl][d] - metrics[lbl][d])
        BY <1>2, <1>3, <1>5, TotalsChange
    <2>2. OverConns(InMetrics', d) = OverConns(InMetrics, d) + (InMetrics'[c][d] - InMetrics[c][d])
        BY <1>1, <1>6, OverConnsChange
    <2>3. metrics[lbl][d] \in Int
        <3>1. metrics[lbl] \in Counts
            BY <1>2, <1>3
        <3> QED BY <3>1 DEF Counts, Fields
    <2> QED BY <1>4, <1>5, <1>7, <2>1, <2>2, <2>3
<1>10. WithStats => stats'[d] = OverConns(InStats', d)
    <2>1. OverConns(InStats', d) = OverConns(InStats, d) + (InStats'[c][d] - InStats[c][d])
        BY <1>1, <1>6, OverConnsChange
    <2> QED BY <1>4, <1>5, <2>1
<1> QED BY <1>8, <1>9, <1>10

LEMMA OthersKeepTheirs ==
    ASSUME NEW c \in Conns,
           \A e \in Conns \ {c} :
               /\ pc'[e] = pc[e] /\ kind'[e] = kind[e] /\ bytes'[e] = bytes[e]
               /\ client'[e] = client[e] /\ target'[e] = target[e]
    PROVE  \A e \in Conns \ {c} : InMetrics'[e] = InMetrics[e] /\ InStats'[e] = InStats[e]
BY DEF InMetrics, InStats, Amount, Audited, Open, Closed, Relayed

\* A handler that is not audited, has not logged its open event, or returned
\* without one, has contributed nothing.
Uncounted(c) ==
    \/ ~Audited(c)
    \/ pc[c] \in {"new", "check", "accept", "dial", "hijack", "logOpen"}
    \/ pc[c] = "done" /\ ~Relayed(c)

LEMMA NothingContributed ==
    \A c \in Conns : Uncounted(c) => InMetrics[c] = NoCounts /\ InStats[c] = NoCounts
BY DEF Uncounted, InMetrics, InStats, Amount, Open, Closed, Relayed, NoCounts

LEMMA NothingContributedNext ==
    \A c \in Conns : Uncounted(c)' => InMetrics'[c] = NoCounts /\ InStats'[c] = NoCounts
<1>1. (\A c \in Conns : Uncounted(c) => InMetrics[c] = NoCounts /\ InStats[c] = NoCounts)'
    BY NothingContributed, PTL
<1> QED BY <1>1

(* A step between places where nothing is contributed moves nothing.       *)
LEMMA SilentMoves ==
    ASSUME TypeOK, NEW c \in Conns, UNCHANGED <<metrics, stats>>,
           \A e \in Conns \ {c} :
               /\ pc'[e] = pc[e] /\ kind'[e] = kind[e] /\ bytes'[e] = bytes[e]
               /\ client'[e] = client[e] /\ target'[e] = target[e] /\ token'[e] = token[e],
           token'[c] \in Tokens, Uncounted(c), Uncounted(c)'
    PROVE  Moves(c)
<1> DEFINE lbl == Label(token'[c])
<1>1. /\ InMetrics[c] = NoCounts /\ InStats[c] = NoCounts
      /\ InMetrics'[c] = NoCounts /\ InStats'[c] = NoCounts
    BY NothingContributed, NothingContributedNext
<1>2. \A d \in Fields : NoCounts[d] = 0
    BY DEF NoCounts, Fields
<1>3. \A d \in Fields : metrics[lbl][d] \in Int /\ stats[d] \in Int
    <2>1. metrics[lbl] \in Counts /\ stats \in Counts
        BY LabelOfToken DEF TypeOK
    <2> QED BY <2>1 DEF Counts, Fields
<1> QED BY <1>1, <1>2, <1>3, OthersKeepTheirs DEF Moves

(* The steps that change no account.                                       *)
LEMMA ArriveMoves ==
    ASSUME HInv, NEW c \in Conns, NEW k \in Kinds, NEW t \in Tokens, Arrive(c, k, t)
    PROVE  Moves(c)
<1>1. /\ UNCHANGED <<metrics, stats>> /\ token'[c] \in Tokens
      /\ \A e \in Conns \ {c} :
             /\ pc'[e] = pc[e] /\ kind'[e] = kind[e] /\ bytes'[e] = bytes[e]
             /\ client'[e] = client[e] /\ target'[e] = target[e] /\ token'[e] = token[e]
    BY DEF HInv, TypeOK, Arrive, Goto, SetClient, accounts
<1>2. pc[c] = "new" /\ pc'[c] = "check"
    BY DEF HInv, TypeOK, Arrive, Goto
<1>3. Uncounted(c) /\ Uncounted(c)'
    BY <1>2 DEF Uncounted
<1> QED BY <1>1, <1>3, SilentMoves DEF HInv

LEMMA EarlyMoves ==
    ASSUME HInv, NEW c \in Conns,
           \/ AuthFailure(c) \/ Refuse(c) \/ Admit(c) \/ Accept(c)
           \/ DialError(c) \/ DialOK(c) \/ Hijack(c)
    PROVE  Moves(c)
<1> USE DEF HInv, TypeOK, Goto, SetClient, SetTarget
<1>1. UNCHANGED <<metrics, stats, kind, bytes, token>> /\ token'[c] \in Tokens
    BY DEF AuthFailure, Refuse, Admit, Accept, DialError, DialOK, Hijack, accounts
<1>2. \A e \in Conns \ {c} :
          pc'[e] = pc[e] /\ client'[e] = client[e] /\ target'[e] = target[e]
    BY DEF AuthFailure, Refuse, Admit, Accept, DialError, DialOK, Hijack
<1>3. pc[c] \in {"check", "accept", "dial", "hijack"}
    BY DEF AuthFailure, Refuse, Admit, Accept, DialError, DialOK, Hijack
<1>4. Uncounted(c)
    BY <1>3 DEF Uncounted
<1>5. Uncounted(c)'
    <2>1. CASE AuthFailure(c) \/ Refuse(c) \/ Admit(c) \/ Accept(c)
        BY <2>1 DEF AuthFailure, Refuse, Admit, Accept, Uncounted, Relayed
    <2>2. CASE DialError(c)
        BY <2>2 DEF DialError, Uncounted, Relayed, Held
    <2>3. CASE DialOK(c)
        BY <2>3 DEF DialOK, Uncounted
    <2>4. CASE Hijack(c)
        BY <2>4 DEF Hijack, Uncounted, Relayed, Audited
    <2> QED BY <2>1, <2>2, <2>3, <2>4
<1> HIDE DEF HInv, TypeOK, Goto, SetClient, SetTarget
<1> QED BY <1>1, <1>2, <1>4, <1>5, SilentMoves DEF HInv

\* A step of handler c that leaves the other handlers, and c's name, alone.
OnlyHere(c) ==
    /\ token'[c] = token[c]
    /\ \A e \in Conns \ {c} :
           /\ pc'[e] = pc[e] /\ kind'[e] = kind[e] /\ bytes'[e] = bytes[e]
           /\ client'[e] = client[e] /\ target'[e] = target[e] /\ token'[e] = token[e]

(* The steps that update the metrics.                                      *)
LEMMA LogOpenMoves ==
    ASSUME HInv, NEW c \in Conns, LogOpen(c)
    PROVE  Moves(c)
<1> DEFINE lbl == Label(token[c])
<1>1. OnlyHere(c) /\ pc[c] = "logOpen" /\ Audited(c) /\ Audited(c)' /\ stats' = stats
    BY DEF HInv, TypeOK, Held, Opening, Audited, LogOpen, Goto, OnlyHere
<1>2. pc'[c] = (IF WithStats THEN "openActive" ELSE "relay")
    BY DEF HInv, TypeOK, LogOpen, Goto
<1>3. InMetrics[c] = NoCounts /\ InStats[c] = NoCounts
    BY <1>1, NothingContributed DEF Uncounted
<1>4. InMetrics'[c] = [active |-> 1, total |-> 1, tx |-> 0, rx |-> 0]
    BY <1>1, <1>2 DEF InMetrics, Amount, Open, Closed, Relayed
<1>5. WithStats => InStats'[c] = NoCounts
    BY <1>1, <1>2 DEF InStats, Amount, Closed, Relayed, NoCounts
<1>6. /\ lbl \in Labels
      /\ metrics'[lbl] = [active |-> metrics[lbl].active + 1, total |-> metrics[lbl].total + 1,
                          tx |-> metrics[lbl].tx, rx |-> metrics[lbl].rx]
      /\ \A l \in Labels \ {lbl} : metrics'[l] = metrics[l]
    BY LogOpenOneLabel DEF HInv
<1>7. metrics[lbl] \in Counts /\ stats \in Counts
    BY <1>6 DEF HInv, TypeOK
<1> HIDE DEF lbl
<1>8. ASSUME NEW d \in Fields
      PROVE  /\ metrics'[lbl][d] = metrics[lbl][d] + (InMetrics'[c][d] - InMetrics[c][d])
             /\ WithStats => stats'[d] = stats[d] + (InStats'[c][d] - InStats[c][d])
    BY <1>1, <1>3, <1>4, <1>5, <1>6, <1>7 DEF NoCounts, Fields, Counts
<1> QED BY <1>1, <1>6, <1>8, OthersKeepTheirs DEF Moves, OnlyHere, lbl

LEMMA LogCloseMoves ==
    ASSUME HInv, NEW c \in Conns, LogClose(c)
    PROVE  Moves(c)
<1> DEFINE lbl == Label(token[c])
<1>1. /\ OnlyHere(c) /\ pc[c] = "logClose" /\ Audited(c) /\ Audited(c)' /\ stats' = stats
      /\ client'[c] = "closed" /\ target'[c] = "closed" /\ bytes'[c] = bytes[c]
    BY DEF HInv, TypeOK, Held, Closing, Audited, LogClose, Goto, OnlyHere
<1>2. pc'[c] = (IF WithStats THEN "closeActive" ELSE "done")
    BY DEF HInv, TypeOK, LogClose, Goto
<1>3. bytes[c].tx \in Int /\ bytes[c].rx \in Int
    BY HandlersAssumption DEF HInv, TypeOK
<1>4. InMetrics[c] = [active |-> 1, total |-> 1, tx |-> 0, rx |-> 0]
    BY <1>1 DEF InMetrics, Amount, Open, Closed, Relayed
<1>5. InMetrics'[c] = [active |-> 0, total |-> 1, tx |-> bytes[c].tx, rx |-> bytes[c].rx]
    BY <1>1, <1>2 DEF InMetrics, Amount, Open, Closed, Relayed
<1>6. WithStats => /\ InStats[c] = [active |-> 1, total |-> 1, tx |-> 0, rx |-> 0]
                   /\ InStats'[c] = [active |-> 1, total |-> 1, tx |-> 0, rx |-> 0]
    BY <1>1, <1>2 DEF InStats, Amount, Closed, Relayed
<1>7. /\ lbl \in Labels
      /\ metrics'[lbl] = [active |-> metrics[lbl].active - 1, total |-> metrics[lbl].total,
                          tx |-> metrics[lbl].tx + bytes[c].tx, rx |-> metrics[lbl].rx + bytes[c].rx]
      /\ \A l \in Labels \ {lbl} : metrics'[l] = metrics[l]
    BY LogCloseOneLabel DEF HInv
<1>8. metrics[lbl] \in Counts /\ stats \in Counts
    BY <1>7 DEF HInv, TypeOK
<1> HIDE DEF lbl
<1>9. ASSUME NEW d \in Fields
      PROVE  /\ metrics'[lbl][d] = metrics[lbl][d] + (InMetrics'[c][d] - InMetrics[c][d])
             /\ WithStats => stats'[d] = stats[d] + (InStats'[c][d] - InStats[c][d])
    BY <1>1, <1>3, <1>4, <1>5, <1>6, <1>7, <1>8 DEF Fields, Counts
<1> QED BY <1>1, <1>7, <1>9, OthersKeepTheirs DEF Moves, OnlyHere, lbl

(* A step that leaves the metrics alone and adds to the statistics what    *)
(* the handler's contribution to them gains.                               *)
LEMMA StatsMove ==
    ASSUME HInv, NEW c \in Conns, OnlyHere(c), metrics' = metrics,
           InMetrics'[c] = InMetrics[c], InMetrics[c] \in [Fields -> Int],
           \A d \in Fields : WithStats => stats'[d] = stats[d] + (InStats'[c][d] - InStats[c][d])
    PROVE  Moves(c)
<1>1. Label(token[c]) \in Labels
    BY LabelOfToken DEF HInv, TypeOK
<1>2. \A d \in Fields : metrics[Label(token[c])][d] \in Int
    <2>1. metrics[Label(token[c])] \in Counts
        BY <1>1 DEF HInv, TypeOK
    <2> QED BY <2>1 DEF Counts, Fields
<1>3. \A d \in Fields : InMetrics[c][d] \in Int
    OBVIOUS
<1> QED BY <1>1, <1>2, <1>3, OthersKeepTheirs DEF Moves, OnlyHere

LEMMA RelayMoves ==
    ASSUME HInv, NEW c \in Conns, NEW tx \in 0..MaxBytes, NEW rx \in 0..MaxBytes,
           RelayReturns(c, tx, rx)
    PROVE  Moves(c)
<1>1. OnlyHere(c) /\ pc[c] = "relay" /\ kind' = kind /\ UNCHANGED <<metrics, stats>>
    BY DEF HInv, TypeOK, RelayReturns, Goto, SetClient, SetTarget, OnlyHere, accounts
<1>2. pc'[c] = (IF Audited(c) THEN "logClose" ELSE "done")
    BY DEF HInv, TypeOK, RelayReturns, Goto
<1>3. CASE Audited(c)
    <2> DEFINE one == [active |-> 1, total |-> 1, tx |-> 0, rx |-> 0]
    <2>1. InMetrics[c] = one /\ InMetrics'[c] = one /\ InStats[c] = one /\ InStats'[c] = one
        BY <1>1, <1>2, <1>3 DEF InMetrics, InStats, Amount, Audited, Open, Closed, Relayed
    <2>2. one \in [Fields -> Int]
        BY DEF Fields
    <2>3. stats \in Counts
        BY DEF HInv, TypeOK
    <2>4. \A d \in Fields : stats'[d] = stats[d] + (one[d] - one[d])
        BY <1>1, <2>3 DEF Fields, Counts
    <2> HIDE DEF one
    <2> QED BY <1>1, <2>1, <2>2, <2>4, StatsMove
<1>4. CASE ~Audited(c)
    <2>1. Uncounted(c) /\ Uncounted(c)'
        BY <1>1, <1>4 DEF Uncounted, Audited
    <2>2. token'[c] \in Tokens
        BY <1>1 DEF OnlyHere, HInv, TypeOK
    <2> QED BY <1>1, <2>1, <2>2, SilentMoves DEF OnlyHere, HInv
<1> QED BY <1>3, <1>4

(* The steps of StatsAggregator.ConnectionOpened and ConnectionClosed.     *)
LEMMA OpenStatsMove ==
    ASSUME HInv, NEW c \in Conns, OpenActive(c) \/ OpenTotal(c)
    PROVE  Moves(c)
<1> DEFINE one == [active |-> 1, total |-> 1, tx |-> 0, rx |-> 0]
<1>1. /\ OnlyHere(c) /\ kind' = kind /\ metrics' = metrics
      /\ pc[c] \in {"openActive", "openTotal"} /\ Audited(c)
      /\ stats \in Counts
    BY DEF HInv, TypeOK, Held, Opening, OpenActive, OpenTotal, Goto, OnlyHere
<1>2. pc'[c] = (IF OpenActive(c) THEN "openTotal" ELSE "relay")
    BY DEF HInv, TypeOK, OpenActive, OpenTotal, Goto
<1>3. InMetrics[c] = one /\ InMetrics'[c] = one
    BY <1>1, <1>2 DEF InMetrics, Amount, Audited, Open, Closed, Relayed
<1>4. one \in [Fields -> Int]
    BY DEF Fields
<1>5. CASE OpenActive(c)
    <2>1. /\ pc[c] = "openActive" /\ pc'[c] = "openTotal"
          /\ stats' = [stats EXCEPT !.active = @ + 1]
        BY <1>2, <1>5 DEF OpenActive
    <2>2. /\ InStats[c] = [active |-> 0, total |-> 0, tx |-> 0, rx |-> 0]
          /\ InStats'[c] = [active |-> 1, total |-> 0, tx |-> 0, rx |-> 0]
        BY <1>1, <2>1 DEF InStats, Amount, Audited, Closed, Relayed
    <2>3. \A d \in Fields : stats'[d] = stats[d] + (InStats'[c][d] - InStats[c][d])
        BY <1>1, <2>1, <2>2 DEF Fields, Counts
    <2> HIDE DEF one
    <2> QED BY <1>1, <1>3, <1>4, <2>3, StatsMove
<1>6. CASE OpenTotal(c)
    <2>1. /\ pc[c] = "openTotal" /\ pc'[c] = "relay"
          /\ stats' = [stats EXCEPT !.total = @ + 1]
        BY <1>6 DEF OpenTotal, Goto, HInv, TypeOK
    <2>2. /\ InStats[c] = [active |-> 1, total |-> 0, tx |-> 0, rx |-> 0]
          /\ InStats'[c] = [active |-> 1, total |-> 1, tx |-> 0, rx |-> 0]
        BY <1>1, <2>1 DEF InStats, Amount, Audited, Closed, Relayed
    <2>3. \A d \in Fields : stats'[d] = stats[d] + (InStats'[c][d] - InStats[c][d])
        BY <1>1, <2>1, <2>2 DEF Fields, Counts
    <2> HIDE DEF one
    <2> QED BY <1>1, <1>3, <1>4, <2>3, StatsMove
<1> QED BY <1>5, <1>6

LEMMA CloseStatsMove ==
    ASSUME HInv, NEW c \in Conns, CloseActive(c) \/ CloseTx(c) \/ CloseRx(c)
    PROVE  Moves(c)
<1> DEFINE b == bytes[c]
           all == [active |-> 0, total |-> 1, tx |-> b.tx, rx |-> b.rx]
<1>1. /\ OnlyHere(c) /\ metrics' = metrics /\ Audited(c) /\ Audited(c)' /\ stats \in Counts
      /\ pc[c] \in {"closeActive", "closeTx", "closeRx"}
      /\ client'[c] = "closed" /\ target'[c] = "closed" /\ bytes'[c] = b
    BY DEF HInv, TypeOK, Held, Closing, CloseActive, CloseTx, CloseRx, Goto, OnlyHere, Audited
<1>2. pc'[c] = (IF CloseActive(c) THEN "closeTx" ELSE IF CloseTx(c) THEN "closeRx" ELSE "done")
    BY DEF HInv, TypeOK, CloseActive, CloseTx, CloseRx, Goto
<1>3. b.tx \in Int /\ b.rx \in Int
    BY HandlersAssumption DEF HInv, TypeOK
<1>4. InMetrics[c] = all /\ InMetrics'[c] = all
    BY <1>1, <1>2 DEF InMetrics, Amount, Open, Closed, Relayed
<1>5. all \in [Fields -> Int]
    BY <1>3 DEF Fields
<1>6. CASE CloseActive(c)
    <2>1. /\ pc[c] = "closeActive" /\ pc'[c] = "closeTx"
          /\ stats' = [stats EXCEPT !.active = @ - 1]
        BY <1>2, <1>6 DEF CloseActive
    <2>2. /\ InStats[c] = [active |-> 1, total |-> 1, tx |-> 0, rx |-> 0]
          /\ InStats'[c] = [active |-> 0, total |-> 1, tx |-> 0, rx |-> 0]
        BY <1>1, <2>1 DEF InStats, Amount, Closed, Relayed
    <2>3. \A d \in Fields : stats'[d] = stats[d] + (InStats'[c][d] - InStats[c][d])
        BY <1>1, <2>1, <2>2 DEF Fields, Counts
    <2> HIDE DEF all
    <2> QED BY <1>1, <1>4, <1>5, <2>3, StatsMove
<1>7. CASE CloseTx(c)
    <2>1. /\ pc[c] = "closeTx" /\ pc'[c] = "closeRx"
          /\ stats' = [stats EXCEPT !.tx = @ + b.tx]
        BY <1>7 DEF CloseTx, Goto, HInv, TypeOK
    <2>2. /\ InStats[c] = [active |-> 0, total |-> 1, tx |-> 0, rx |-> 0]
          /\ InStats'[c] = [active |-> 0, total |-> 1, tx |-> b.tx, rx |-> 0]
        BY <1>1, <2>1 DEF InStats, Amount, Closed, Relayed
    <2>3. \A d \in Fields : stats'[d] = stats[d] + (InStats'[c][d] - InStats[c][d])
        BY <1>1, <1>3, <2>1, <2>2 DEF Fields, Counts
    <2> HIDE DEF all
    <2> QED BY <1>1, <1>4, <1>5, <2>3, StatsMove
<1>8. CASE CloseRx(c)
    <2>1. /\ pc[c] = "closeRx" /\ pc'[c] = "done"
          /\ stats' = [stats EXCEPT !.rx = @ + b.rx]
        BY <1>8 DEF CloseRx, Goto, HInv, TypeOK
    <2>2. /\ InStats[c] = [active |-> 0, total |-> 1, tx |-> b.tx, rx |-> 0]
          /\ InStats'[c] = [active |-> 0, total |-> 1, tx |-> b.tx, rx |-> b.rx]
        BY <1>1, <2>1 DEF InStats, Amount, Closed, Relayed
    <2>3. \A d \in Fields : stats'[d] = stats[d] + (InStats'[c][d] - InStats[c][d])
        BY <1>1, <1>3, <2>1, <2>2 DEF Fields, Counts
    <2> HIDE DEF all
    <2> QED BY <1>1, <1>4, <1>5, <2>3, StatsMove
<1> QED BY <1>6, <1>7, <1>8

(* The accounts stay balanced.                                             *)
LEMMA NextBalanced == HInv /\ Balanced /\ [Next]_vars => Balanced'
<1> SUFFICES ASSUME HInv, Balanced, [Next]_vars PROVE Balanced'
    OBVIOUS
<1>1. TypeOK /\ TypeOK'
    BY NextTypeOK DEF HInv
<1>2. ASSUME NEW c \in Conns, Serve(c) PROVE Moves(c)
    BY <1>2, EarlyMoves, LogOpenMoves, OpenStatsMove, RelayMoves, LogCloseMoves, CloseStatsMove
       DEF Serve
<1>3. CASE \E c \in Conns, k \in Kinds, t \in Tokens : Arrive(c, k, t)
    BY <1>1, <1>3, ArriveMoves, MovesKeepBalance
<1>4. CASE \E c \in Conns : Serve(c)
    BY <1>1, <1>2, <1>4, MovesKeepBalance
<1>5. CASE Load \/ LogReport \/ UNCHANGED vars
    <2>1. UNCHANGED <<pc, kind, token, client, target, bytes, metrics, stats>>
        BY <1>5 DEF Load, LogReport, vars, accounts
    <2>2. InMetrics' = InMetrics /\ InStats' = InStats
        BY <2>1 DEF InMetrics, InStats, Audited, Open, Closed, Relayed
    <2> QED BY <2>1, <2>2 DEF Balanced
<1> QED BY <1>3, <1>4, <1>5 DEF Next

LEMMA InitBalanced == Init => Balanced
<1> SUFFICES ASSUME Init, NEW d \in Fields
             PROVE  /\ \A l \in Labels : metrics[l][d] = OfLabel(InMetrics, token, l, d)
                    /\ Totals(metrics, d) = OverConns(InMetrics, d)
                    /\ WithStats => stats[d] = OverConns(InStats, d)
    BY DEF Balanced
<1>1. NoCounts[d] = 0
    BY DEF NoCounts, Fields
<1>2. \A c \in Conns : InMetrics[c][d] = 0 /\ InStats[c][d] = 0
    <2>1. \A c \in Conns : Uncounted(c)
        BY DEF Init, Uncounted
    <2> QED BY <1>1, <2>1, NothingContributed
<1>3. \A l \in Labels : metrics[l][d] = 0
    BY <1>1 DEF Init
<1>4. ASSUME NEW l \in Labels PROVE OfLabel(InMetrics, token, l, d) = 0
    BY <1>2, FiniteInstances, SumOfZeros DEF OfLabel
<1>5. OverConns(InMetrics, d) = 0 /\ OverConns(InStats, d) = 0
    BY <1>2, FiniteInstances, SumOfZeros DEF OverConns
<1>6. Totals(metrics, d) = 0
    BY <1>3, FiniteInstances, SumOfZeros DEF Totals
<1>7. stats[d] = 0
    BY <1>1 DEF Init
<1> QED BY <1>3, <1>4, <1>5, <1>6, <1>7

(* The inductive invariant of the accounts.                                *)
THEOREM AccountsBalance == Spec => []Balanced
BY InitBalanced, NextBalanced, HandlersHold, PTL DEF Spec

(* When the handlers are idle a relayed connection is one that counts once *)
(* in the metrics and once in the statistics.                              *)
LEMMA IdleContribution ==
    ASSUME HInv, Idle, NEW c \in Conns
    PROVE  /\ InMetrics[c] = InStats[c]
           /\ InMetrics[c] = IF c \in Opened(Label(token[c]))
                             THEN [active |-> 0, total |-> 1, tx |-> bytes[c].tx, rx |-> bytes[c].rx]
                             ELSE NoCounts
<1>1. pc[c] \in {"new", "done"} /\ (pc[c] = "new" => target[c] = "none")
    BY DEF Idle, HInv, Held
<1>2. c \in Opened(Label(token[c])) <=> Audited(c) /\ Relayed(c)
    BY <1>1 DEF Opened, Relayed
<1>3. CASE Audited(c) /\ Relayed(c)
    <2>1. pc[c] = "done"
        BY <1>3 DEF Relayed
    <2> QED BY <1>2, <1>3, <2>1 DEF InMetrics, InStats, Amount, Open, Closed
<1>4. CASE ~(Audited(c) /\ Relayed(c))
    <2>1. Uncounted(c)
        BY <1>1, <1>4 DEF Uncounted
    <2> QED BY <1>2, <1>4, <2>1, NothingContributed
<1> QED BY <1>3, <1>4

(* A field of the metrics of a label, when the handlers are idle, is the   *)
(* sum over the connections relayed under that label.                      *)
LEMMA IdleMetrics ==
    ASSUME HInv, Balanced, Idle, NEW l \in Labels, NEW d \in Fields
    PROVE  metrics[l][d] = SumFunctionOnSet([c \in Conns |-> InMetrics[c][d]], Opened(l))
<1> DEFINE f == [c \in Conns |-> IF Label(token[c]) = l THEN InMetrics[c][d] ELSE 0]
           g == [c \in Conns |-> InMetrics[c][d]]
           S == Opened(l)
<1>1. S \subseteq Conns /\ \A c \in S : Label(token[c]) = l
    BY DEF Opened
<1>2. \A c \in Conns : InMetrics[c][d] \in Int
    BY Contribute DEF HInv, Contributions
<1>3. NoCounts[d] = 0
    BY DEF NoCounts, Fields
<1>4. \A c \in Conns : f[c] \in Int
    BY <1>2
<1>5. \A c \in Conns \ S : f[c] = 0
    BY <1>3, IdleContribution
<1>6. \A c \in S : f[c] = g[c]
    BY <1>1
<1>7. IsFiniteSet(S)
    BY <1>1, FiniteInstances, FS_Subset
<1>8. metrics[l][d] = SumFunctionOnSet(f, Conns)
    BY DEF Balanced, OfLabel
<1> HIDE DEF f, g, S
<1>9. SumFunctionOnSet(f, Conns) = SumFunctionOnSet(f, S)
    BY <1>1, <1>4, <1>5, FiniteInstances, SumOverPart
<1>10. SumFunctionOnSet(f, S) = SumFunctionOnSet(g, S)
    BY <1>6, <1>7, SumOfEqual
<1> QED BY <1>8, <1>9, <1>10 DEF g, S

(* When the handlers are idle the metrics have returned to zero active     *)
(* connections under every label, and count each relayed connection and    *)
(* its bytes once, for any number of requests and tokens (metrics.go       *)
(* Handle).                                                                *)
THEOREM MetricsReturn == Spec => []MetricsBalanced
<1>1. HInv /\ Balanced => MetricsBalanced
    <2> SUFFICES ASSUME HInv, Balanced, Idle, NEW l \in Labels
                 PROVE  metrics[l] =
                            [active |-> 0, total |-> Cardinality(Opened(l)),
                             tx |-> SumFunctionOnSet([c \in Conns |-> bytes[c].tx], Opened(l)),
                             rx |-> SumFunctionOnSet([c \in Conns |-> bytes[c].rx], Opened(l))]
        BY DEF MetricsBalanced
    <2> DEFINE S == Opened(l)
    <2>1. S \subseteq Conns /\ IsFiniteSet(S)
        BY FiniteInstances, FS_Subset DEF Opened
    <2>2. ASSUME NEW c \in S
          PROVE  InMetrics[c] = [active |-> 0, total |-> 1, tx |-> bytes[c].tx, rx |-> bytes[c].rx]
        BY <2>1, IdleContribution DEF Opened
    <2> DEFINE g(d) == [c \in Conns |-> InMetrics[c][d]]
               b(d) == [c \in Conns |-> bytes[c][d]]
    <2>3. ASSUME NEW c \in S
          PROVE  /\ g("active")[c] = 0 /\ g("total")[c] = 1
                 /\ g("tx")[c] = b("tx")[c] /\ g("rx")[c] = b("rx")[c]
        <3> DEFINE m == InMetrics[c]
        <3>1. m = [active |-> 0, total |-> 1, tx |-> bytes[c].tx, rx |-> bytes[c].rx]
            BY <2>2
        <3> HIDE DEF m
        <3>2. /\ m["active"] = 0 /\ m["total"] = 1
              /\ m["tx"] = bytes[c]["tx"] /\ m["rx"] = bytes[c]["rx"]
            BY <3>1
        <3>3. c \in Conns
            BY <2>1
        <3>4. \A d \in Fields : g(d)[c] = m[d] /\ b(d)[c] = bytes[c][d]
            BY <3>3 DEF m
        <3> QED BY <3>2, <3>4 DEF Fields
    <2>4. \A d \in Fields : metrics[l][d] = SumFunctionOnSet(g(d), S)
        BY IdleMetrics
    <2> HIDE DEF S, g, b
    <2>5. metrics[l]["active"] = 0 /\ metrics[l]["total"] = Cardinality(S)
        BY <2>1, <2>3, <2>4, SumOfZeros, SumOfOnes DEF Fields
    <2>6. /\ metrics[l]["tx"] = SumFunctionOnSet(b("tx"), S)
          /\ metrics[l]["rx"] = SumFunctionOnSet(b("rx"), S)
        BY <2>1, <2>3, <2>4, SumOfEqual DEF Fields
    <2>7. metrics[l] \in Counts
        BY DEF HInv, TypeOK
    <2> QED BY <2>5, <2>6, <2>7 DEF Counts, S, b
<1> QED BY <1>1, HandlersHold, AccountsBalance, PTL

(* Two sources, one truth: when the handlers are idle the statistics equal *)
(* the metrics summed over the labels (stats.go against metrics.go).       *)
THEOREM StatsAndMetricsAgree == Spec => []StatsAgree
<1>1. HInv /\ Balanced => StatsAgree
    <2> SUFFICES ASSUME HInv, Balanced, Idle, WithStats
                 PROVE  stats = [active |-> OverLabels("active"), total |-> OverLabels("total"),
                                 tx |-> OverLabels("tx"), rx |-> OverLabels("rx")]
        BY DEF StatsAgree
    <2>1. \A c \in Conns : InMetrics[c] = InStats[c]
        BY IdleContribution
    <2>2. ASSUME NEW d \in Fields PROVE stats[d] = OverLabels(d)
        <3>1. OverConns(InMetrics, d) = OverConns(InStats, d)
            BY <2>1, FiniteInstances, SumOfEqual DEF OverConns
        <3>2. stats[d] = Totals(metrics, d)
            BY <3>1 DEF Balanced
        <3> QED BY <3>2 DEF Totals, OverLabels
    <2>3. stats \in Counts
        BY DEF HInv, TypeOK
    <2>4. /\ stats["active"] = OverLabels("active") /\ stats["total"] = OverLabels("total")
          /\ stats["tx"] = OverLabels("tx") /\ stats["rx"] = OverLabels("rx")
        BY <2>2 DEF Fields
    <2> QED BY <2>3, <2>4 DEF Counts
<1> QED BY <1>1, HandlersHold, AccountsBalance, PTL

-----------------------------------------------------------------------------
(* Reports *)

\* A counter was reported, loaded since, and has grown since.
Grown ==
    /\ report.total <= snap.total /\ snap.total <= stats.total
    /\ report.tx <= snap.tx /\ snap.tx <= stats.tx
    /\ report.rx <= snap.rx /\ snap.rx <= stats.rx

GInv == TypeOK /\ Grown

(* A load changes one field of snap, that of the next counter.             *)
LEMMA LoadOne ==
    ASSUME GInv, Load
    PROVE  /\ snap' \in Counts
           /\ snap'.total = (IF run = "active" THEN stats.total ELSE snap.total)
           /\ snap'.tx = (IF run = "total" THEN stats.tx ELSE snap.tx)
           /\ snap'.rx = (IF run = "tx" THEN stats.rx ELSE snap.rx)
           /\ run' \in {"active", "total", "tx", "rx"}
<1>1. /\ Loads["idle"] = "active" /\ Loads["active"] = "total"
      /\ Loads["total"] = "tx" /\ Loads["tx"] = "rx"
      /\ DOMAIN Loads = {"idle", "active", "total", "tx"}
    BY DEF Loads
<1>2. CASE run = "idle"
    <2>1. snap' = [snap EXCEPT !["active"] = stats["active"]] /\ run' = "active"
        BY <1>1, <1>2 DEF Load
    <2> QED BY <1>2, <2>1 DEF GInv, TypeOK, Counts
<1>3. CASE run = "active"
    <2>1. snap' = [snap EXCEPT !["total"] = stats["total"]] /\ run' = "total"
        BY <1>1, <1>3 DEF Load
    <2> QED BY <1>3, <2>1 DEF GInv, TypeOK, Counts
<1>4. CASE run = "total"
    <2>1. snap' = [snap EXCEPT !["tx"] = stats["tx"]] /\ run' = "tx"
        BY <1>1, <1>4 DEF Load
    <2> QED BY <1>4, <2>1 DEF GInv, TypeOK, Counts
<1>5. CASE run = "tx"
    <2>1. snap' = [snap EXCEPT !["rx"] = stats["rx"]] /\ run' = "rx"
        BY <1>1, <1>5 DEF Load
    <2> QED BY <1>5, <2>1 DEF GInv, TypeOK, Counts
<1> QED BY <1>1, <1>2, <1>3, <1>4, <1>5 DEF Load

(* A step keeps the invariant, and no total of a report falls.             *)
LEMMA NextGInv ==
    ASSUME GInv, [Next]_vars
    PROVE  /\ GInv'
           /\ report'.total >= report.total /\ report'.tx >= report.tx /\ report'.rx >= report.rx
<1>1. TypeOK /\ TypeOK' /\ Grown
    BY NextTypeOK DEF GInv
<1> SUFFICES /\ Grown'
             /\ report'.total >= report.total /\ report'.tx >= report.tx /\ report'.rx >= report.rx
    BY <1>1 DEF GInv
<1>2. stats \in Counts /\ snap \in Counts /\ report \in Counts
    BY <1>1 DEF TypeOK
<1>3. CASE Load
    BY <1>1, <1>2, <1>3, LoadOne DEF Load, accounts, GInv, Grown, Counts
<1>4. CASE LogReport
    BY <1>1, <1>2, <1>4 DEF LogReport, accounts, Grown, Counts
<1>5. CASE UNCHANGED <<stats, snap, report>>
    BY <1>1, <1>2, <1>5 DEF Grown, Counts
<1>6. ASSUME NEW c \in Conns, NEW k \in Kinds, NEW t \in Tokens, Arrive(c, k, t)
      PROVE  UNCHANGED <<stats, snap, report>>
    BY <1>6 DEF Arrive, accounts, reporting
<1>7. ASSUME NEW c \in Conns,
             \/ AuthFailure(c) \/ Refuse(c) \/ Admit(c) \/ Accept(c) \/ DialError(c) \/ DialOK(c)
             \/ Hijack(c) \/ LogOpen(c) \/ LogClose(c)
             \/ \E tx, rx \in 0..MaxBytes : RelayReturns(c, tx, rx)
      PROVE  UNCHANGED <<stats, snap, report>>
    BY <1>7 DEF AuthFailure, Refuse, Admit, Accept, DialError, DialOK, Hijack, LogOpen, LogClose,
                RelayReturns, accounts, reporting
<1>8. ASSUME NEW c \in Conns, OpenActive(c) \/ OpenTotal(c) \/ CloseActive(c)
      PROVE  /\ UNCHANGED <<snap, report>>
             /\ stats'.total >= stats.total /\ stats'.tx = stats.tx /\ stats'.rx = stats.rx
    BY <1>2, <1>8 DEF OpenActive, OpenTotal, CloseActive, reporting, Counts
<1>9. ASSUME NEW c \in Conns, CloseTx(c) \/ CloseRx(c)
      PROVE  /\ UNCHANGED <<snap, report>>
             /\ stats'.total = stats.total /\ stats'.tx >= stats.tx /\ stats'.rx >= stats.rx
    <2>1. bytes[c].tx \in Nat /\ bytes[c].rx \in Nat
        BY <1>1, HandlersAssumption DEF TypeOK
    <2> QED BY <1>2, <1>9, <2>1 DEF CloseTx, CloseRx, reporting, Counts
<1>10. CASE \E c \in Conns : Serve(c)
    <2>1. CASE UNCHANGED <<snap, report>> /\ stats'.total >= stats.total
               /\ stats'.tx >= stats.tx /\ stats'.rx >= stats.rx
        <3>1. stats' \in Counts
            BY <1>1 DEF TypeOK
        <3> QED BY <1>1, <1>2, <2>1, <3>1 DEF Grown, Counts
    <2>2. \A n \in Int : n >= n
        OBVIOUS
    <2>3. stats.total \in Int /\ stats.tx \in Int /\ stats.rx \in Int
        BY <1>2 DEF Counts
    <2> QED BY <1>5, <1>7, <1>8, <1>9, <1>10, <2>1, <2>2, <2>3 DEF Serve
<1>11. CASE UNCHANGED vars
    BY <1>5, <1>11 DEF vars
<1> QED BY <1>3, <1>4, <1>5, <1>6, <1>10, <1>11 DEF Next

(* ReportsMonotone: the totals of the periodic report never go backwards,  *)
(* although its loads interleave with any number of handlers (stats.go).   *)
THEOREM ReportsGoForward == Spec => ReportsMonotone
<1>1. Init => Grown
    BY DEF Init, Grown, NoCounts
<1>2. GInv /\ [Next]_vars => GInv'
    BY NextGInv
<1>3. GInv /\ [Next]_vars =>
          [report'.total >= report.total /\ report'.tx >= report.tx /\ report'.rx >= report.rx]_vars
    BY NextGInv
<1> QED BY <1>1, <1>2, <1>3, HandlersTyped, PTL DEF Spec, ReportsMonotone, GInv
=============================================================================
