-------------------------- MODULE MCStatArbEngine --------------------------
(***************************************************************************)
(* The spread window of checkSyntheticFutures against what spec 4.4 says   *)
(* of it.  main.cpp records every spread twice (updateSpreadHistory, then  *)
(* isMeanReversionSignal), so the deque always holds whole pairs; the     *)
(* refinement mapping reads one spread per pair.                           *)
(***************************************************************************)
EXTENDS StatArbEngine

\* Small stand-ins for MAX_HISTORY = 100 and the 20-sample minimum: both
\* even, as in the code, and the minimum below the capacity.
MCMaxHistory == 14
MCMinSamples == 12
MCSpreads == {Int2Q(-1), Zero, Int2Q(1)}

\* One spread per recorded pair.
Pairs(h) == [i \in 1..(Len(h) \div 2) |-> h[2 * i]]

PerCycle == INSTANCE SpreadSignal
                WITH Capacity <- MAX_HISTORY \div 2, MinSamples <- MIN_SAMPLES \div 2,
                     window <- Pairs(spreadHistoryMap[BTC_SPOT_SYNTH]),
                     signal <- signalEmitted

AsSpecified == INSTANCE SpreadSignal
                   WITH Capacity <- MAX_HISTORY, MinSamples <- MIN_SAMPLES,
                        window <- Pairs(spreadHistoryMap[BTC_SPOT_SYNTH]),
                        signal <- signalEmitted

\* The double append of main.cpp:62-63 makes the engine exactly a one-spread-
\* per-cycle engine with half the capacity and half the minimum: every
\* signal main prints is the z-score of the cycle's spread against the last
\* MAX_HISTORY/2 cycles, once at least MIN_SAMPLES/2 cycles have been seen.
HalvedWindowRefinement == PerCycle!Spec

\* Spec 4.4 read per cycle: the window holds the last MAX_HISTORY cycles'
\* spreads and the signal stays neutral for the first MIN_SAMPLES cycles.
SpecifiedWindowRefinement == AsSpecified!Spec
=============================================================================
