----------------------- MODULE MCCorrelationAnalyzer -----------------------
(***************************************************************************)
(* The Binance/Bybit correlation check of checkCrossExchangeSpotArb over   *)
(* a few cycles.  cycleMids records every cycle's pair of mids, so that    *)
(* the alert can be compared with the Pearson correlation of the last      *)
(* WINDOW_SIZE cycles, computed the textbook (mean-centred) way.           *)
(***************************************************************************)
EXTENDS CorrelationAnalyzer

VARIABLE cycleMids

MCWindow == 3
MCMids == {Int2Q(1), Int2Q(2)}
MaxCycles == 6

MCInit == CorrInit /\ cycleMids = <<>>

MCNext == \E b, y \in Mids : RecordMids(b, y) /\ cycleMids' = Append(cycleMids, <<b, y>>)

MCSpec == MCInit /\ [][MCNext]_<<corrVars, cycleMids>>

CycleBound == Len(cycleMids) <= MaxCycles

\* Reference: Pearson's r of the pairs ps, as |r| >= t, mean-centred.
RECURSIVE SumQ(_)
SumQ(s) == IF s = <<>> THEN Zero ELSE QAdd(Head(s), SumQ(Tail(s)))

PearsonAtLeast(ps, t) ==
    LET n  == Len(ps)
        xs == [i \in 1..n |-> ps[i][1]]
        ys == [i \in 1..n |-> ps[i][2]]
        mx == QDiv(SumQ(xs), Int2Q(n))
        my == QDiv(SumQ(ys), Int2Q(n))
        cov == SumQ([i \in 1..n |-> QMul(QSub(xs[i], mx), QSub(ys[i], my))])
        vx  == SumQ([i \in 1..n |-> QMul(QSub(xs[i], mx), QSub(xs[i], mx))])
        vy  == SumQ([i \in 1..n |-> QMul(QSub(ys[i], my), QSub(ys[i], my))])
    IN  /\ n >= 2
        /\ QMul(vx, vy) # Zero
        /\ QGeq(QMul(cov, cov), QMul(QMul(t, t), QMul(vx, vy)))

RecentCycles ==
    LET k == IF Len(cycleMids) < WINDOW_SIZE THEN Len(cycleMids) ELSE WINDOW_SIZE
    IN  SubSeq(cycleMids, Len(cycleMids) - k + 1, Len(cycleMids))

\* After every checkCrossExchangeSpotArb, the alert is printed exactly when
\* the Pearson correlation of the two venues' mids over the last
\* WINDOW_SIZE cycles (the same cycles for both symbols) is below 0.85 in
\* absolute value or undefined.
AlertMatchesPearson ==
    cycleMids # <<>> => (alertRaised <=> ~PearsonAtLeast(RecentCycles, ALERT_THRESHOLD))
=============================================================================
