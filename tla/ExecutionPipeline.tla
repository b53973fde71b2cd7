------------------------- MODULE ExecutionPipeline -------------------------
(***************************************************************************)
(* The execution side of a decision cycle: the two Binance/Bybit checks of *)
(* main.cpp each run as one step on a Binance and a Bybit book read while  *)
(* no connector copy is in flight, through the risk gate into              *)
(* TradeExecutor::executeTrade, the ledger and the VaR estimator.  How     *)
(* the reads interleave with the connectors is DecisionLoop's concern;     *)
(* this module asks what the ledger and the VaR report make of the trades. *)
(***************************************************************************)
EXTENDS TradeLedger

CONSTANTS
    BinanceBooks,   \* the books the Binance entry may hold
    BybitBooks      \* the books the Bybit entry may hold

\* What executeTrade reported for the last opportunity a check dispatched:
\* its TradeOutcome status, or NotDispatched when the check dispatched none.
VARIABLE outcome

pipelineVars == <<ledgerVars, outcome>>

\* The arguments main.cpp passes.
LEG_MAX_CAPITAL == Int2Q(10000)
MIN_PROFIT_THRESHOLD == Q(1, 10)
SYNTH_LEVERAGE == Q(5, 10000)
SYNTH_FUNDING == Int2Q(2)

\* The tail every check ends with: a non-empty opportunity the risk gate
\* accepts on the reference book is executed; anything else changes nothing.
Dispatch(arb, referenceBook) ==
    IF IsOpportunity(arb) /\ IsRiskAcceptable(arb, referenceBook)
    THEN ExecuteTrade(arb) /\ outcome' = TradeOutcome(arb).status
    ELSE UNCHANGED ledgerVars /\ outcome' = "NotDispatched"

\* checkCrossExchangeSpotArb: the two mids, Bybit as the real leg.
CheckCrossExchangeSpotArb(binanceReal, bybitReal) ==
    LET binanceMid == Mid(binanceReal)
        bybitMid == Mid(bybitReal)
        capital == ComputeCapitalLimit(bybitReal, binanceReal, LEG_MAX_CAPITAL)
    IN  Dispatch(EvaluateArbitrage("Bybit", "Binance", bybitMid, binanceMid,
                                   MIN_PROFIT_THRESHOLD, capital, bybitReal, binanceReal),
                 bybitReal)

\* checkSyntheticVsRealSpot: the synthetic spot from the Binance book.
CheckSyntheticVsRealSpot(binancePerp, bybitSpot) ==
    LET binanceSynthetic == ComputeSyntheticSpot(binancePerp, SYNTH_LEVERAGE, SYNTH_FUNDING)
        realBybit == Mid(bybitSpot)
        capital == ComputeCapitalLimit(bybitSpot, binancePerp, LEG_MAX_CAPITAL)
    IN  Dispatch(EvaluateArbitrage("Bybit", "Binance", realBybit, binanceSynthetic,
                                   MIN_PROFIT_THRESHOLD, capital, bybitSpot, binancePerp),
                 bybitSpot)

Init == LedgerInit /\ outcome = "NotDispatched"

Next ==
    \E bin \in BinanceBooks, byb \in BybitBooks :
        \/ CheckCrossExchangeSpotArb(bin, byb)
        \/ CheckSyntheticVsRealSpot(bin, byb)

Spec == Init /\ [][Next]_pipelineVars

\* executeTrade takes its stop-loss exit when the mock market price
\* (entryBuy + entrySell) / 2 is 1% or more below entryBuy.  Every
\* opportunity evaluateArbitrage builds buys the cheaper leg, so the
\* stop-loss never fires on a dispatched opportunity and no trade the
\* checks find is dropped at that exit.
NoStopLossExit == outcome # "StopLoss"
=============================================================================
