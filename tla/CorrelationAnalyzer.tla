------------------------- MODULE CorrelationAnalyzer -------------------------
(***************************************************************************)
(* CorrelationAnalyzer (Risk/CorrelationAnalyzer.hpp): the static          *)
(* priceHistory of bounded mid-price windows, the Pearson correlation of   *)
(* two of them and the divergence alert, and the step of                   *)
(* checkCrossExchangeSpotArb (main.cpp) that feeds them.                   *)
(*                                                                         *)
(* The alert only needs |corr| >= threshold.  With n * sumXY - sumX * sumY *)
(* as numerator and den^2 the product under std::sqrt, that is             *)
(* num^2 >= threshold^2 * den^2, and denominator == 0.0 is den^2 = 0.      *)
(***************************************************************************)
EXTENDS Integers, Sequences, Rat, RollingSeries

CONSTANTS WINDOW_SIZE,  \* CorrelationAnalyzer::WINDOW_SIZE (100)
          Mids          \* the mid prices checkCrossExchangeSpotArb can compute

VARIABLES priceHistory,  \* symbol -> the deque of mids
          alertRaised    \* whether the last displayAlertIfDiverging printed

corrVars == <<priceHistory, alertRaised>>

BTC_BINANCE == "BTC_BINANCE"
BTC_BYBIT == "BTC_BYBIT"

CorrInit ==
    /\ priceHistory = [s \in {BTC_BINANCE, BTC_BYBIT} |-> <<>>]
    /\ alertRaised = FALSE

\* Fault model: the pop_front is missing.
UpdatePriceNoEvict(hist, symbol, price) ==
    [hist EXCEPT ![symbol] = Append(@, price)]

\* updatePrice: push_back, then pop_front when over WINDOW_SIZE.
UpdatePrice(hist, symbol, price) ==
    [hist EXCEPT ![symbol] = PushBounded(@, price, WINDOW_SIZE)]

\* The five running sums of computeCorrelation's loop.
RECURSIVE Sums(_, _)
Sums(x, y) ==
    IF x = <<>> THEN [sumX |-> Zero, sumY |-> Zero, sumXY |-> Zero, sumX2 |-> Zero, sumY2 |-> Zero]
    ELSE LET r == Sums(Tail(x), Tail(y))
             a == Head(x)
             b == Head(y)
         IN  [sumX |-> QAdd(r.sumX, a), sumY |-> QAdd(r.sumY, b),
              sumXY |-> QAdd(r.sumXY, QMul(a, b)),
              sumX2 |-> QAdd(r.sumX2, QMul(a, a)), sumY2 |-> QAdd(r.sumY2, QMul(b, b))]

\* Fault model: the numerator takes sumX * sumX for sumX * sumY.
ComputeCorrelationSelfProduct(x, y) ==
    IF Len(x) # Len(y) \/ Len(x) < 2 THEN <<Zero, Zero>>
    ELSE LET s   == Sums(x, y)
             n   == Int2Q(Len(x))
             num == QSub(QMul(n, s.sumXY), QMul(s.sumX, s.sumX))
             den2 == QMul(QSub(QMul(n, s.sumX2), QMul(s.sumX, s.sumX)),
                          QSub(QMul(n, s.sumY2), QMul(s.sumY, s.sumY)))
         IN  IF den2 = Zero THEN <<Zero, Zero>> ELSE <<num, den2>>

\* computeCorrelation, as <<numerator, denominator^2>>; <<0, 0>> stands for
\* the early "return 0.0" (unequal or short windows, zero denominator).
ComputeCorrelation(x, y) ==
    IF Len(x) # Len(y) \/ Len(x) < 2 THEN <<Zero, Zero>>
    ELSE LET s   == Sums(x, y)
             n   == Int2Q(Len(x))
             num == QSub(QMul(n, s.sumXY), QMul(s.sumX, s.sumY))
             den2 == QMul(QSub(QMul(n, s.sumX2), QMul(s.sumX, s.sumX)),
                          QSub(QMul(n, s.sumY2), QMul(s.sumY, s.sumY)))
         IN  IF den2 = Zero THEN <<Zero, Zero>> ELSE <<num, den2>>

\* |getCorrelation(a, b)| >= threshold.
CorrelationAtLeast(hist, a, b, threshold) ==
    LET c == ComputeCorrelation(hist[a], hist[b])
    IN  /\ c[2] # Zero
        /\ QGeq(QMul(c[1], c[1]), QMul(QMul(threshold, threshold), c[2]))

\* displayAlertIfDiverging with its default threshold 0.85.
ALERT_THRESHOLD == Q(85, 100)

DisplayAlertIfDiverging(hist, a, b) == ~CorrelationAtLeast(hist, a, b, ALERT_THRESHOLD)

\* main.cpp:105-107: record both mids, then check the pair.
RecordMids(binanceMid, bybitMid) ==
    LET h == UpdatePrice(UpdatePrice(priceHistory, BTC_BINANCE, binanceMid), BTC_BYBIT, bybitMid)
    IN  /\ priceHistory' = h
        /\ alertRaised' = DisplayAlertIfDiverging(h, BTC_BINANCE, BTC_BYBIT)

CorrNext == \E b, y \in Mids : RecordMids(b, y)

CorrSpec == CorrInit /\ [][CorrNext]_corrVars

CorrTypeOK ==
    /\ DOMAIN priceHistory = {BTC_BINANCE, BTC_BYBIT}
    /\ \A s \in DOMAIN priceHistory : Len(priceHistory[s]) <= WINDOW_SIZE
    /\ alertRaised \in BOOLEAN
=============================================================================
