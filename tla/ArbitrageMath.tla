--------------------------- MODULE ArbitrageMath ---------------------------
(***************************************************************************)
(* The stateless pricing, leg-sizing, risk and execution arithmetic of the *)
(* arbitrage engine, one operator per static helper of the C++ code:       *)
(* SyntheticInstrumentCalculator, ArbitrageLegOptimizer, LiquidityAnalyzer,*)
(* RiskManager, MarketImpactEstimator, PositionManager and the pure part  *)
(* of TradeExecutor::executeTrade.  Doubles are extended rationals (Rat).  *)
(*                                                                         *)
(* An OrderBookUpdate is a record with the code's field names; the best    *)
(* prices and quantities are integers, the depth ladders are sequences of  *)
(* <<price, quantity>> pairs ordered best to worst, the price a Rat value  *)
(* and the quantity an integer.  symbol, timestamp and the strategy label  *)
(* are left out: nothing but logging reads them.                           *)
(***************************************************************************)
EXTENDS Integers, Sequences, Rat
LOCAL INSTANCE SequencesExt

\* The scalar fields of an OrderBookUpdate (MarketDataTypes.hpp).
ScalarFields == {"bestBid", "bestAsk", "bestBidQty", "bestAskQty"}

\* A value-initialised OrderBookUpdate: what unordered_map::operator[]
\* inserts, and what a connector builds from a message without the fields.
ZeroBook == [bestBid |-> 0, bestAsk |-> 0, bestBidQty |-> 0, bestAskQty |-> 0,
             bids |-> <<>>, asks |-> <<>>]

Mid(book) == Q(book.bestBid + book.bestAsk, 2)

(***************************************************************************)
(* SyntheticInstrumentCalculator: the three synthetic prices and the       *)
(* mispricing percentage.  Only the price of a SyntheticInstrument is kept;*)
(* its type and leg labels are strings for display.                        *)
(***************************************************************************)
ComputeSyntheticSpot(spotData, leverage, fundingRate) ==
    QMul(Mid(spotData), QAdd(Int2Q(1), QMul(fundingRate, leverage)))

ComputeSyntheticFuture_CarryModel(spotData, costOfCarry, timeToExpiry) ==
    QMul(Mid(spotData), QAdd(Int2Q(1), QMul(costOfCarry, timeToExpiry)))

ComputeSyntheticFuture_FundingModel(spotData, fundingRate, timeWindow) ==
    QMul(Mid(spotData), QAdd(Int2Q(1), QMul(fundingRate, timeWindow)))

ComputeMispricing(realPrice, syntheticPrice) ==
    IF syntheticPrice = Zero THEN Zero
    ELSE QMul(QDiv(QSub(realPrice, syntheticPrice), syntheticPrice), Int2Q(100))

(***************************************************************************)
(* ArbitrageOpportunity.  A default-constructed one, with an empty         *)
(* longExchange, is the "no opportunity" sentinel.                         *)
(***************************************************************************)
NoExchange == ""

Opportunity(longEx, shortEx, longP, shortP, pct, capital, longB, shortB) ==
    [longExchange |-> longEx, shortExchange |-> shortEx,
     longPrice |-> longP, shortPrice |-> shortP, profitPercentage |-> pct,
     capital |-> capital, longBook |-> longB, shortBook |-> shortB]

NoOpportunity ==
    Opportunity(NoExchange, NoExchange, Zero, Zero, Zero, Zero, ZeroBook, ZeroBook)

IsOpportunity(opp) == opp.longExchange # NoExchange

\* Fault model: the second branch takes the profit relative to the dearer
\* (short) price instead of the long one.
EvaluateArbitrageShortBase(realEx, synEx, realPrice, synPrice, minProfit, capital, realBook, synBook) ==
    LET up   == QMul(QDiv(QSub(synPrice, realPrice), realPrice), Int2Q(100))
        down == QMul(QDiv(QSub(realPrice, synPrice), realPrice), Int2Q(100))
    IN  CASE QGt(synPrice, realPrice) /\ QGeq(up, minProfit) ->
               Opportunity(realEx, synEx, realPrice, synPrice, up, capital,
                           realBook, synBook)
          [] QGt(realPrice, synPrice) /\ QGeq(down, minProfit) ->
               Opportunity(synEx, realEx, synPrice, realPrice, down, capital,
                           synBook, realBook)
          [] OTHER -> NoOpportunity

\* The long leg is the cheaper price; the profit is relative to it.  The
\* third, duplicated branch of the C++ (realPrice > syntheticPrice again) is
\* unreachable and has no counterpart here.
EvaluateArbitrage(realEx, synEx, realPrice, synPrice, minProfit, capital, realBook, synBook) ==
    LET up   == QMul(QDiv(QSub(synPrice, realPrice), realPrice), Int2Q(100))
        down == QMul(QDiv(QSub(realPrice, synPrice), synPrice), Int2Q(100))
    IN  CASE QGt(synPrice, realPrice) /\ QGeq(up, minProfit) ->
               Opportunity(realEx, synEx, realPrice, synPrice, up, capital,
                           realBook, synBook)
          [] QGt(realPrice, synPrice) /\ QGeq(down, minProfit) ->
               Opportunity(synEx, realEx, synPrice, realPrice, down, capital,
                           synBook, realBook)
          [] OTHER -> NoOpportunity

(***************************************************************************)
(* ArbitrageLegOptimizer::computeCapitalLimit: 0 on an invalid leg, else   *)
(* the least of the long cost, the short return and maxCapital.            *)
(***************************************************************************)
IntMin(a, b) == IF b < a THEN b ELSE a

ComputeCapitalLimit(longLeg, shortLeg, maxCapital) ==
    IF \/ longLeg.bestAsk <= 0 \/ longLeg.bestAskQty <= 0
       \/ shortLeg.bestBid <= 0 \/ shortLeg.bestBidQty <= 0
    THEN Zero
    ELSE LET tradeQty == IntMin(longLeg.bestAskQty, shortLeg.bestBidQty)
         IN  QMin(QMin(Int2Q(tradeQty * longLeg.bestAsk),
                       Int2Q(tradeQty * shortLeg.bestBid)), maxCapital)

(***************************************************************************)
(* LiquidityAnalyzer::isLiquiditySufficient: the quantity resting within   *)
(* 0.5% of the touch, summed up to the first level outside the band, must  *)
(* cover capital / mid on both sides.                                      *)
(***************************************************************************)
BandDepth(levels, side, limit) ==
    LET Outside(l) == IF side = "bid" THEN QLt(l[1], limit) ELSE QGt(l[1], limit)
        stop   == SelectInSeq(levels, Outside)
        inBand == IF stop = 0 THEN levels ELSE SubSeq(levels, 1, stop - 1)
    IN  FoldLeft(LAMBDA acc, lvl : acc + lvl[2], 0, inBand)

IsLiquiditySufficient(book, capital) ==
    LET requiredQty   == QDiv(capital, Mid(book))
        bidPriceLimit == QMul(Int2Q(book.bestBid), Q(995, 1000))
        askPriceLimit == QMul(Int2Q(book.bestAsk), Q(1005, 1000))
        bidDepth == BandDepth(book.bids, "bid", bidPriceLimit)
        askDepth == BandDepth(book.asks, "ask", askPriceLimit)
    IN  QGeq(Int2Q(bidDepth), requiredQty) /\ QGeq(Int2Q(askDepth), requiredQty)

(***************************************************************************)
(* RiskManager: three short-circuit rejections, in the code's order.       *)
(***************************************************************************)
MAX_CAPITAL == Int2Q(20000)
MIN_PROFIT_PERCENT == Q(1, 100)

IsRiskAcceptable(opportunity, orderBook) ==
    /\ IsLiquiditySufficient(orderBook, opportunity.capital)
    /\ ~QGt(opportunity.capital, MAX_CAPITAL)
    /\ ~QLt(QAbs(opportunity.profitPercentage), MIN_PROFIT_PERCENT)

(***************************************************************************)
(* MarketImpactEstimator::estimateSlippage (aggressiveness 0.2), in %,     *)
(* capped at 5.                                                            *)
(***************************************************************************)
EstimateSlippage(book, orderSizeUSD) ==
    LET depth == book.bestBidQty * book.bestBid + book.bestAskQty * book.bestAsk
    IN  IF depth <= 0 THEN Zero
        ELSE QMin(QMul(QMul(Q(2, 10), QDiv(orderSizeUSD, Int2Q(depth))), Int2Q(100)),
                  Int2Q(5))

(***************************************************************************)
(* PositionManager with its default risk factor and thresholds.            *)
(***************************************************************************)
ComputePositionSize(capital, entryPrice) ==
    QDiv(QMul(capital, Q(1, 100)), entryPrice)

PriceChange(entryPrice, currentPrice) ==
    QDiv(QSub(currentPrice, entryPrice), entryPrice)

\* Fault model: the comparison is reversed (change >= -threshold).
ShouldStopLossReversed(entryPrice, currentPrice) ==
    QGeq(PriceChange(entryPrice, currentPrice), Q(-1, 100))

ShouldStopLoss(entryPrice, currentPrice) ==
    QLeq(PriceChange(entryPrice, currentPrice), Q(-1, 100))

ShouldTakeProfit(entryPrice, currentPrice) ==
    QGeq(PriceChange(entryPrice, currentPrice), Q(15, 1000))

(***************************************************************************)
(* TradeExecutor::executeTrade up to the ledger write: status "Rejected"   *)
(* for capital <= 0, "StopLoss" when the stop-loss fires at the mock       *)
(* price, else "Executed" with the ExecutedTrade.  Take-profit only logs.  *)
(***************************************************************************)
TradeOutcome(opp) ==
    LET entryBuy  == opp.longPrice
        entrySell == opp.shortPrice
        quantity  == ComputePositionSize(opp.capital, entryBuy)
        mockMarketPrice == QDiv(QAdd(entryBuy, entrySell), Int2Q(2))
        slippageBuy  == EstimateSlippage(opp.longBook, opp.capital)
        slippageSell == EstimateSlippage(opp.shortBook, opp.capital)
        adjustedBuy  == QMul(entryBuy, QAdd(Int2Q(1), QDiv(slippageBuy, Int2Q(100))))
        adjustedSell == QMul(entrySell, QSub(Int2Q(1), QDiv(slippageSell, Int2Q(100))))
    IN  CASE QLeq(opp.capital, Zero) -> [status |-> "Rejected"]
          [] ShouldStopLoss(entryBuy, mockMarketPrice) -> [status |-> "StopLoss"]
          [] OTHER ->
               [status |-> "Executed",
                trade |-> [buyExchange |-> opp.longExchange,
                           sellExchange |-> opp.shortExchange,
                           buyPrice |-> entryBuy, sellPrice |-> entrySell,
                           capitalUsed |-> QMul(quantity, entryBuy),
                           profit |-> QMul(QSub(adjustedSell, adjustedBuy), quantity)]]
=============================================================================
