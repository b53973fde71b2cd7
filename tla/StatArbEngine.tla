--------------------------- MODULE StatArbEngine ---------------------------
(***************************************************************************)
(* StatisticalArbitrageEngine: the static spreadHistoryMap of bounded      *)
(* spread windows and the z-score mean-reversion signal, and the step of   *)
(* checkSyntheticFutures (main.cpp) that feeds it.                         *)
(*                                                                         *)
(* The z-score needs sqrt; the signal only needs |z| >= threshold, which   *)
(* for threshold >= 0 is z^2 >= threshold^2, and z^2 is the exact rational *)
(* (current - mean)^2 / (sq_sum / n).  stddev == 0.0 is sq_sum = 0.        *)
(***************************************************************************)
EXTENDS Integers, Sequences, Rat, RollingSeries

CONSTANTS MAX_HISTORY,   \* StatisticalArbitrageEngine::MAX_HISTORY (100)
          MIN_SAMPLES,   \* the "Not enough data" bound of computeZScore (20)
          Spreads        \* the spreads checkSyntheticFutures can compute

VARIABLES spreadHistoryMap,  \* key -> the deque of spreads
          signalEmitted      \* the last isMeanReversionSignal result main printed

statArbVars == <<spreadHistoryMap, signalEmitted>>

\* The only key main.cpp uses.  operator[] value-initialises a missing
\* key, so an absent key and an empty deque behave the same.
BTC_SPOT_SYNTH == "BTC_SPOT_SYNTH"

StatArbInit ==
    /\ spreadHistoryMap = [k \in {BTC_SPOT_SYNTH} |-> <<>>]
    /\ signalEmitted = FALSE

\* Fault model: the pop_front is missing.
UpdateSpreadHistoryNoEvict(map, key, spread) ==
    [map EXCEPT ![key] = Append(@, spread)]

\* Fault model: pop_front once the deque reaches MAX_HISTORY (>= for >).
UpdateSpreadHistoryEvictAtCap(map, key, spread) ==
    [map EXCEPT ![key] = LET h == Append(@, spread)
                         IN  IF Len(h) >= MAX_HISTORY THEN Tail(h) ELSE h]

\* updateSpreadHistory: push_back, then pop_front while over MAX_HISTORY.
UpdateSpreadHistory(map, key, spread) ==
    [map EXCEPT ![key] = PushBounded(@, spread, MAX_HISTORY)]

\* std::accumulate over the deque, and the loop summing squared deviations.
RECURSIVE SumSpreads(_)
SumSpreads(h) == IF h = <<>> THEN Zero ELSE QAdd(Head(h), SumSpreads(Tail(h)))

RECURSIVE SqDevSum(_, _)
SqDevSum(h, mean) ==
    IF h = <<>> THEN Zero
    ELSE QAdd(QMul(QSub(Head(h), mean), QSub(Head(h), mean)), SqDevSum(Tail(h), mean))

\* computeZScore, squared: 0 with fewer than MIN_SAMPLES samples or a flat
\* history (stddev == 0.0), else (current - mean)^2 / (sq_sum / n).
ComputeZScoreSquared(history, currentSpread) ==
    IF Len(history) < MIN_SAMPLES THEN Zero
    ELSE LET n      == Int2Q(Len(history))
             mean   == QDiv(SumSpreads(history), n)
             sqSum  == SqDevSum(history, mean)
             d      == QSub(currentSpread, mean)
         IN  IF sqSum = Zero THEN Zero ELSE QDiv(QMul(d, d), QDiv(sqSum, n))

\* isMeanReversionSignal: append the spread, then |z| >= threshold.
IsMeanReversionSignal(map, key, currentSpread, thresholdZScore) ==
    LET after == UpdateSpreadHistory(map, key, currentSpread)
    IN  [map |-> after,
         signal |-> QGeq(ComputeZScoreSquared(after[key], currentSpread),
                         QMul(thresholdZScore, thresholdZScore))]

\* main.cpp: updateSpreadHistory("BTC_SPOT_SYNTH", spread), then
\* isMeanReversionSignal("BTC_SPOT_SYNTH", spread, 2.0) appends it again.
RecordSpread(spread) ==
    LET r == IsMeanReversionSignal(UpdateSpreadHistory(spreadHistoryMap, BTC_SPOT_SYNTH, spread),
                                   BTC_SPOT_SYNTH, spread, Int2Q(2))
    IN  /\ spreadHistoryMap' = r.map
        /\ signalEmitted' = r.signal

StatArbNext == \E spread \in Spreads : RecordSpread(spread)

StatArbSpec == StatArbInit /\ [][StatArbNext]_statArbVars

StatArbTypeOK ==
    /\ DOMAIN spreadHistoryMap = {BTC_SPOT_SYNTH}
    /\ Len(spreadHistoryMap[BTC_SPOT_SYNTH]) <= MAX_HISTORY
    /\ signalEmitted \in BOOLEAN
=============================================================================
