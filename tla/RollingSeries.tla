---------------------------- MODULE RollingSeries ----------------------------
(***************************************************************************)
(* The bounded FIFO history the code keeps in several places: append the  *)
(* sample, then drop the oldest one if the history is over capacity        *)
(* (StatisticalArbitrageEngine, CorrelationAnalyzer, VaREstimator).        *)
(***************************************************************************)
EXTENDS Integers, Sequences

PushBounded(history, sample, capacity) ==
    LET h == Append(history, sample)
    IN  IF Len(h) > capacity THEN Tail(h) ELSE h
=============================================================================
