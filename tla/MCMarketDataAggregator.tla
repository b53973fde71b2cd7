----------------------- MODULE MCMarketDataAggregator -----------------------
(***************************************************************************)
(* Two book connectors delivering two snapshots each, one funding stream   *)
(* with two (mark, rate) pairs, one synthetic name with two values.        *)
(* Snapshots of one venue differ in every field, so any half-written copy  *)
(* is distinguishable from both.                                           *)
(***************************************************************************)
EXTENDS MarketDataAggregator

MCBookVenues == {"Binance", "Bybit"}

Book(bid, ask, bidQty, askQty) ==
    [bestBid |-> bid, bestAsk |-> ask, bestBidQty |-> bidQty,
     bestAskQty |-> askQty, bids |-> <<>>, asks |-> <<>>]

MCFeed == [v \in MCBookVenues |->
             IF v = "Binance" THEN {Book(100, 101, 5, 5), Book(103, 104, 2, 3)}
             ELSE {Book(102, 103, 4, 4), Book(99, 100, 1, 2)}]

MCFundingVenues == {"Binance"}

MCFundingFeed == {[markPrice |-> 100, fundingRate |-> Q(1, 10000)],
                  [markPrice |-> 104, fundingRate |-> Q(-3, 10000)]}

MCSyntheticNames == {"BTC_SYNTH"}
=============================================================================
