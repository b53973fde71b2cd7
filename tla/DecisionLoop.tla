---------------------------- MODULE DecisionLoop ----------------------------
(***************************************************************************)
(* The main thread's polling loop (main.cpp) against the connector threads *)
(* that keep writing the MarketDataAggregator: one iteration runs         *)
(* checkSyntheticFutures (OKX against the Binance book and the Binance     *)
(* funding rate), checkCrossExchangeSpotArb, checkSyntheticVsRealSpot and  *)
(* the locked printSnapshot.  checkVolatilityArbitrage and the display     *)
(* calls only print and have no step.                                      *)
(*                                                                         *)
(* Both checks read the books through the unlocked reference               *)
(* getLatestUpdates() returns, and read them again at every use: each use *)
(* is a step of its own, and sees whatever LatestViews allows at that      *)
(* moment, half-written copies included.                                   *)
(***************************************************************************)
EXTENDS MarketDataAggregator, TradeLedger, StatArbEngine, CorrelationAnalyzer

VARIABLES
    pc,            \* the main thread's position in the loop
    realPrice,     \* price of the "real" leg handed to evaluateArbitrage
    synPrice,      \* price of the other ("synthetic") leg
    capital,       \* computeCapitalLimit's result
    arb,           \* evaluateArbitrage's result (arb1 in checkSyntheticFutures)
    fundingRate,   \* checkSyntheticFutures: the rate getFundingData returned
    synFuture,     \* ... the funding-model synthetic future
    capital2,      \* ... computeCapitalLimit(okxSpot, okxSpot, 10000)
    arb2           \* ... the spot vs synthetic future opportunity

sfLocals == <<fundingRate, synFuture, capital2, arb2>>
localVars == <<realPrice, synPrice, capital, arb, sfLocals>>
\* The static histories of the two signal engines.
signalVars == <<statArbVars, corrVars>>
loopVars == <<pc, localVars, signalVars>>
vars == <<cacheVars, readVars, ledgerVars, loopVars>>

\* The arguments main.cpp passes.
LEG_MAX_CAPITAL == Int2Q(10000)
MIN_PROFIT_THRESHOLD == Q(1, 10)
SYNTH_LEVERAGE == Q(5, 10000)
SYNTH_FUNDING == Int2Q(2)
FUNDING_WINDOW == Q(7, 365)

Binance == "Binance"
Bybit == "Bybit"
OKX == "OKX"

Steps == {"sfCheck", "sfPrices", "sfFunding", "sfFuture", "sfSpread", "sfCapital",
          "sfEvaluate", "sfRisk1", "sfExecute1", "sfRisk2", "sfExecute2",
          "cxCheck", "cxMids", "cxCapital", "cxEvaluate", "cxRisk", "cxExecute",
          "srCheck", "srPrices", "srCapital", "srEvaluate", "srRisk", "srExecute",
          "snapshot"}

LoopTypeOK ==
    /\ CacheTypeOK
    /\ pc \in Steps
    /\ \A a \in {arb, arb2} : a.longExchange \in {NoExchange, Binance, Bybit, OKX}
    /\ StatArbTypeOK
    /\ CorrTypeOK

Init ==
    /\ CacheInit
    /\ LedgerInit
    /\ pc = "sfCheck"
    /\ realPrice = Zero /\ synPrice = Zero /\ capital = Zero
    /\ arb = NoOpportunity
    /\ fundingRate = Zero /\ synFuture = Zero /\ capital2 = Zero
    /\ arb2 = NoOpportunity
    /\ StatArbInit
    /\ CorrInit

\* Leaving a check function: its locals go out of scope.
ReturnTo(step) ==
    /\ pc' = step
    /\ realPrice' = Zero /\ synPrice' = Zero /\ capital' = Zero
    /\ arb' = NoOpportunity
    /\ fundingRate' = Zero /\ synFuture' = Zero /\ capital2' = Zero
    /\ arb2' = NoOpportunity

Goto(from, to) == pc = from /\ pc' = to

(***************************************************************************)
(* checkSyntheticFutures: OKX is the real spot, the Binance book gives the *)
(* synthetic spot, the Binance funding rate the synthetic future.          *)
(***************************************************************************)
SfCheck ==
    /\ pc = "sfCheck"
    /\ IF HasEntry(Binance) /\ HasEntry(OKX) THEN pc' = "sfPrices"
       ELSE pc' = "cxCheck"
    /\ UNCHANGED <<cacheVars, readVars, ledgerVars, localVars, signalVars>>

SfPrices ==
    /\ Goto("sfPrices", "sfFunding")
    /\ \E bin \in LatestViews(Binance), okx \in LatestViews(OKX) :
          /\ realPrice' = Mid(okx)
          /\ synPrice' = ComputeSyntheticSpot(bin, SYNTH_LEVERAGE, SYNTH_FUNDING)
    /\ UNCHANGED <<cacheVars, readVars, ledgerVars, capital, arb, sfLocals, signalVars>>

\* aggregator.getFundingData("Binance") takes dataMutex; nullopt returns.
SfFunding ==
    /\ pc = "sfFunding"
    /\ GetFundingData(Binance)
    /\ IF fundingSeen'[Binance] = Absent THEN ReturnTo("cxCheck")
       ELSE /\ pc' = "sfFuture"
            /\ fundingRate' = fundingSeen'[Binance].fundingRate
            /\ UNCHANGED <<realPrice, synPrice, capital, arb, synFuture, capital2, arb2>>
    /\ UNCHANGED <<ledgerVars, signalVars>>

\* computeSyntheticFuture_FundingModel(okxSpot, fundingRate, 7.0 / 365.0);
\* the mispricings and the RiskDashboard lines only print.
SfFuture ==
    /\ Goto("sfFuture", "sfSpread")
    /\ \E okx \in LatestViews(OKX) :
          synFuture' = ComputeSyntheticFuture_FundingModel(okx, fundingRate, FUNDING_WINDOW)
    /\ UNCHANGED <<cacheVars, readVars, ledgerVars, realPrice, synPrice, capital, arb,
                   fundingRate, capital2, arb2, signalVars>>

\* spread = syntheticSpot.price - realSpot, recorded twice and checked for
\* a mean-reversion signal (main.cpp:61-66).
SfSpread ==
    /\ Goto("sfSpread", "sfCapital")
    /\ RecordSpread(QSub(synPrice, realPrice))
    /\ UNCHANGED <<cacheVars, readVars, ledgerVars, localVars, corrVars>>

\* capital1 = computeCapitalLimit(okxSpot, binancePerp, 10000);
\* capital2 = computeCapitalLimit(okxSpot, okxSpot, 10000).
SfCapital ==
    /\ Goto("sfCapital", "sfEvaluate")
    /\ \E bin \in LatestViews(Binance), okx1, okx2 \in LatestViews(OKX) :
          /\ capital' = ComputeCapitalLimit(okx1, bin, LEG_MAX_CAPITAL)
          /\ capital2' = ComputeCapitalLimit(okx2, okx2, LEG_MAX_CAPITAL)
    /\ UNCHANGED <<cacheVars, readVars, ledgerVars, realPrice, synPrice, arb,
                   fundingRate, synFuture, arb2, signalVars>>

\* arb1 ("OKX" vs "Binance") and arb2 ("OKX" vs "OKX"); both are handed the
\* okxSpot and binancePerp books.
SfEvaluate ==
    /\ Goto("sfEvaluate", "sfRisk1")
    /\ \E bin1, bin2 \in LatestViews(Binance), okx1, okx2 \in LatestViews(OKX) :
          /\ arb' = EvaluateArbitrage(OKX, Binance, realPrice, synPrice,
                                      MIN_PROFIT_THRESHOLD, capital, okx1, bin1)
          /\ arb2' = EvaluateArbitrage(OKX, OKX, realPrice, synFuture,
                                       MIN_PROFIT_THRESHOLD, capital2, okx2, bin2)
    /\ UNCHANGED <<cacheVars, readVars, ledgerVars, realPrice, synPrice, capital,
                   fundingRate, synFuture, capital2, signalVars>>

SfRisk1 ==
    /\ pc = "sfRisk1"
    /\ \E okx \in LatestViews(OKX) :
          pc' = IF IsOpportunity(arb) /\ IsRiskAcceptable(arb, okx)
                THEN "sfExecute1" ELSE "sfRisk2"
    /\ UNCHANGED <<cacheVars, readVars, ledgerVars, localVars, signalVars>>

SfExecute1 ==
    /\ Goto("sfExecute1", "sfRisk2")
    /\ ExecuteTrade(arb)
    /\ UNCHANGED <<cacheVars, readVars, localVars, signalVars>>

SfRisk2 ==
    /\ pc = "sfRisk2"
    /\ \E okx \in LatestViews(OKX) :
          IF IsOpportunity(arb2) /\ IsRiskAcceptable(arb2, okx)
          THEN pc' = "sfExecute2" /\ UNCHANGED localVars
          ELSE ReturnTo("cxCheck")
    /\ UNCHANGED <<cacheVars, readVars, ledgerVars, signalVars>>

SfExecute2 ==
    /\ pc = "sfExecute2"
    /\ ExecuteTrade(arb2)
    /\ ReturnTo("cxCheck")
    /\ UNCHANGED <<cacheVars, readVars, signalVars>>

(***************************************************************************)
(* checkCrossExchangeSpotArb                                               *)
(***************************************************************************)
CxCheck ==
    /\ pc = "cxCheck"
    /\ IF HasEntry(Binance) /\ HasEntry(Bybit) THEN pc' = "cxMids"
       ELSE pc' = "srCheck"
    /\ UNCHANGED <<cacheVars, readVars, ledgerVars, localVars, signalVars>>

\* The two mids, recorded in CorrelationAnalyzer and checked for a
\* divergence alert; the mispricing line only prints.
CxMids ==
    /\ Goto("cxMids", "cxCapital")
    /\ \E bin \in LatestViews(Binance), byb \in LatestViews(Bybit) :
          /\ synPrice' = Mid(bin)
          /\ realPrice' = Mid(byb)
          /\ RecordMids(Mid(bin), Mid(byb))
    /\ UNCHANGED <<cacheVars, readVars, ledgerVars, capital, arb,
                   sfLocals, statArbVars>>

\* computeCapitalLimit(bybitReal, binanceReal, 10000): Bybit is always
\* passed as the long leg.
CxCapital ==
    /\ Goto("cxCapital", "cxEvaluate")
    /\ \E bin \in LatestViews(Binance), byb \in LatestViews(Bybit) :
          capital' = ComputeCapitalLimit(byb, bin, LEG_MAX_CAPITAL)
    /\ UNCHANGED <<cacheVars, readVars, ledgerVars, realPrice, synPrice, arb,
                   sfLocals, signalVars>>

\* evaluateArbitrage copies both books into the opportunity.
CxEvaluate ==
    /\ Goto("cxEvaluate", "cxRisk")
    /\ \E bin \in LatestViews(Binance), byb \in LatestViews(Bybit) :
          arb' = EvaluateArbitrage(Bybit, Binance, realPrice, synPrice,
                                   MIN_PROFIT_THRESHOLD, capital, byb, bin)
    /\ UNCHANGED <<cacheVars, readVars, ledgerVars, realPrice, synPrice, capital,
                   sfLocals, signalVars>>

\* !arb.longExchange.empty() && RiskManager::isRiskAcceptable(arb, bybitReal)
CxRisk ==
    /\ pc = "cxRisk"
    /\ \E byb \in LatestViews(Bybit) :
          IF IsOpportunity(arb) /\ IsRiskAcceptable(arb, byb)
          THEN pc' = "cxExecute" /\ UNCHANGED localVars
          ELSE ReturnTo("srCheck")
    /\ UNCHANGED <<cacheVars, readVars, ledgerVars, signalVars>>

CxExecute ==
    /\ pc = "cxExecute"
    /\ ExecuteTrade(arb)
    /\ ReturnTo("srCheck")
    /\ UNCHANGED <<cacheVars, readVars, signalVars>>

(***************************************************************************)
(* checkSyntheticVsRealSpot                                                *)
(***************************************************************************)
\* Fault model: the early return leaves the whole iteration, as a
\* `continue` in main would, and skips printSnapshot.
SrCheckLeavesIteration ==
    /\ pc = "srCheck"
    /\ IF HasEntry(Binance) /\ HasEntry(Bybit) THEN pc' = "srPrices"
       ELSE pc' = "sfCheck"
    /\ UNCHANGED <<cacheVars, readVars, ledgerVars, localVars, signalVars>>

SrCheck ==
    /\ pc = "srCheck"
    /\ IF HasEntry(Binance) /\ HasEntry(Bybit) THEN pc' = "srPrices"
       ELSE pc' = "snapshot"
    /\ UNCHANGED <<cacheVars, readVars, ledgerVars, localVars, signalVars>>

\* The synthetic spot from the Binance book, the real spot from Bybit (the
\* liquidity alerts only print).
SrPrices ==
    /\ Goto("srPrices", "srCapital")
    /\ \E bin \in LatestViews(Binance), byb \in LatestViews(Bybit) :
          /\ synPrice' = ComputeSyntheticSpot(bin, SYNTH_LEVERAGE, SYNTH_FUNDING)
          /\ realPrice' = Mid(byb)
    /\ UNCHANGED <<cacheVars, readVars, ledgerVars, capital, arb,
                   sfLocals, signalVars>>

SrCapital ==
    /\ Goto("srCapital", "srEvaluate")
    /\ \E bin \in LatestViews(Binance), byb \in LatestViews(Bybit) :
          capital' = ComputeCapitalLimit(byb, bin, LEG_MAX_CAPITAL)
    /\ UNCHANGED <<cacheVars, readVars, ledgerVars, realPrice, synPrice, arb,
                   sfLocals, signalVars>>

SrEvaluate ==
    /\ Goto("srEvaluate", "srRisk")
    /\ \E bin \in LatestViews(Binance), byb \in LatestViews(Bybit) :
          arb' = EvaluateArbitrage(Bybit, Binance, realPrice, synPrice,
                                   MIN_PROFIT_THRESHOLD, capital, byb, bin)
    /\ UNCHANGED <<cacheVars, readVars, ledgerVars, realPrice, synPrice, capital,
                   sfLocals, signalVars>>

SrRisk ==
    /\ pc = "srRisk"
    /\ \E byb \in LatestViews(Bybit) :
          IF IsOpportunity(arb) /\ IsRiskAcceptable(arb, byb)
          THEN pc' = "srExecute" /\ UNCHANGED localVars
          ELSE ReturnTo("snapshot")
    /\ UNCHANGED <<cacheVars, readVars, ledgerVars, signalVars>>

SrExecute ==
    /\ pc = "srExecute"
    /\ ExecuteTrade(arb)
    /\ ReturnTo("snapshot")
    /\ UNCHANGED <<cacheVars, readVars, signalVars>>

\* aggregator.printSnapshot(), then the next iteration.
Snapshot ==
    /\ Goto("snapshot", "sfCheck")
    /\ PrintSnapshot
    /\ UNCHANGED <<ledgerVars, localVars, signalVars>>

MainThread ==
    \/ SfCheck \/ SfPrices \/ SfFunding \/ SfFuture \/ SfSpread \/ SfCapital
    \/ SfEvaluate \/ SfRisk1 \/ SfExecute1 \/ SfRisk2 \/ SfExecute2
    \/ CxCheck \/ CxMids \/ CxCapital \/ CxEvaluate \/ CxRisk \/ CxExecute
    \/ SrCheck \/ SrPrices \/ SrCapital \/ SrEvaluate \/ SrRisk \/ SrExecute
    \/ Snapshot

\* The Binance, OKX and Bybit connector threads' orderBookCallback, and the
\* BinancePerp markPriceCallback, which touch nothing but the aggregator.
ConnectorBegin(v, b) == BeginUpdate(v, b) /\ UNCHANGED <<ledgerVars, loopVars>>
ConnectorEnd(v) == EndUpdate(v) /\ UNCHANGED <<ledgerVars, loopVars>>
MarkPriceBegin(v, f) == BeginUpdateFundingAndMark(v, f) /\ UNCHANGED <<ledgerVars, loopVars>>
MarkPriceEnd(v) == EndUpdateFundingAndMark(v) /\ UNCHANGED <<ledgerVars, loopVars>>

Next ==
    \/ MainThread
    \/ \E v \in BookVenues : \E b \in Feed[v] : ConnectorBegin(v, b)
    \/ \E v \in BookVenues : ConnectorEnd(v)
    \/ \E v \in FundingVenues, f \in FundingFeed : MarkPriceBegin(v, f)
    \/ \E v \in FundingVenues : MarkPriceEnd(v)

\* Every main-thread step moves pc, and its only guard besides pc is the
\* mutex getFundingData and printSnapshot take: this is
\* ENABLED <<MainThread>>_vars.
MainThreadEnabled == pc \notin {"sfFunding", "snapshot"} \/ lock = Free

\* The loop is while(true) and blocks only on dataMutex.  A connector holds
\* it for one copy per network message, so it is free again and again, and
\* the main thread is not starved: strong fairness for the main thread,
\* written with its enabling condition.  A copy a connector has started
\* completes (weak fairness).  Feeds owe nothing: no fairness on a Begin.
Spec ==
    /\ Init /\ [][Next]_vars
    /\ <>[]~MainThreadEnabled \/ []<><<MainThread>>_vars
    /\ \A v \in BookVenues : WF_vars(ConnectorEnd(v))
    /\ \A v \in FundingVenues : WF_vars(MarkPriceEnd(v))

(***************************************************************************)
(* Properties                                                              *)
(***************************************************************************)
\* The books a connector can really have delivered for venue v.
Delivered(v, b) == b \in Feed[v]

\* The opportunities the current check holds.
Opps == {arb, arb2}

\* ArbitrageOpportunity invariant (spec 3): an opportunity evaluateArbitrage
\* hands to the risk gate buys the cheaper leg and reports its profit as
\* (higher - lower) / lower * 100, at least the 0.1% threshold main.cpp
\* passes, whatever mix of book versions the checks read.
LongLegIsCheaper ==
    \A a \in Opps : IsOpportunity(a) =>
        /\ QLt(a.longPrice, a.shortPrice)
        /\ a.profitPercentage =
              QMul(QDiv(QSub(a.shortPrice, a.longPrice), a.longPrice), Int2Q(100))
        /\ QGeq(a.profitPercentage, MIN_PROFIT_THRESHOLD)

\* Spec 4.3 and 7: the capital an opportunity on two delivered books carries
\* never exceeds what computeCapitalLimit allows for its own long and short
\* legs.  main.cpp passes the long leg as a fixed venue, whichever side
\* evaluateArbitrage then buys.
CapitalFitsLegs ==
    \A a \in Opps :
        IsOpportunity(a) /\ Delivered(a.longExchange, a.longBook)
                         /\ Delivered(a.shortExchange, a.shortBook)
        => QLeq(a.capital, ComputeCapitalLimit(a.longBook, a.shortBook, LEG_MAX_CAPITAL))

\* Spec 4.1: a reader never observes a half-written snapshot, so both legs
\* of an opportunity are books a connector delivered.  The checks read the
\* map through the unlocked reference of getLatestUpdates.
NoTornLegs ==
    \A a \in Opps : IsOpportunity(a) =>
        Delivered(a.longExchange, a.longBook) /\ Delivered(a.shortExchange, a.shortBook)

\* Every book a reader of venue v's entry can see: the zero entry,
\* delivered books and any field mix of two of them.
Readable(v) ==
    {Torn(old, new, F) : old \in Feed[v] \cup {ZeroBook}, new \in Feed[v] \cup {ZeroBook},
                        F \in SUBSET ScalarFields}

\* Spec 3: each leg of an opportunity carries its own venue's book, torn or
\* not: the executor estimates that leg's slippage on it.
LegBooksMatchVenues ==
    \A a \in Opps : IsOpportunity(a) =>
        a.longBook \in Readable(a.longExchange) /\ a.shortBook \in Readable(a.shortExchange)

\* main.cpp's while (true) never stalls: every iteration, whichever early
\* return its checks take, gets through getFundingData and reaches
\* printSnapshot, and both wait for dataMutex while the connector and
\* mark-price callbacks take it for every message.  The snapshot is printed
\* again and again.
LoopKeepsCycling == []<><<Snapshot>>_vars

\* An opportunity on delivered books with positive capital under the cap
\* and a profit above the floor.
Sound(opp) ==
    /\ IsOpportunity(opp)
    /\ Delivered(opp.longExchange, opp.longBook)
    /\ Delivered(opp.shortExchange, opp.shortBook)
    /\ QGt(opp.capital, Zero) /\ ~QGt(opp.capital, MAX_CAPITAL)
    /\ ~QLt(QAbs(opp.profitPercentage), MIN_PROFIT_PERCENT)

\* An opportunity waiting at one of the four risk gates.
AtGate(opp) ==
    \/ pc \in {"sfRisk1", "cxRisk", "srRisk"} /\ opp = arb
    \/ pc = "sfRisk2" /\ opp = arb2

\* Spec 8, end to end: an opportunity the checks find on sound books is
\* admitted by RiskManager::isRiskAcceptable and executeTrade records a
\* trade.  The liquidity check reads the bids/asks ladders, which no
\* connector fills.
SoundOpportunityLeadsToTrade ==
    (\E a \in Opps : AtGate(a) /\ Sound(a)) ~> Len(tradeHistory) > 0
=============================================================================
