---------------------------- MODULE SpreadSignal ----------------------------
(***************************************************************************)
(* What the Statistical Arbitrage Engine promises (spec 4.4): one spread   *)
(* per decision cycle goes into a rolling window of Capacity spreads, and  *)
(* the signal of the cycle is |z| >= 2 of that spread against the window,  *)
(* neutral below MinSamples samples or on a flat window.                   *)
(***************************************************************************)
EXTENDS Integers, Sequences, Rat, RollingSeries

CONSTANTS Capacity, MinSamples, Spreads

VARIABLES window, signal

StatArb == INSTANCE StatArbEngine
               WITH MAX_HISTORY <- Capacity, MIN_SAMPLES <- MinSamples,
                    spreadHistoryMap <- [k \in {"BTC_SPOT_SYNTH"} |-> window],
                    signalEmitted <- signal

Init == window = <<>> /\ signal = FALSE

Cycle(spread) ==
    /\ window' = PushBounded(window, spread, Capacity)
    /\ signal' = QGeq(StatArb!ComputeZScoreSquared(window', spread), Int2Q(4))

Next == \E spread \in Spreads : Cycle(spread)

Spec == Init /\ [][Next]_<<window, signal>>
=============================================================================
