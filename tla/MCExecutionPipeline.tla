------------------------ MODULE MCExecutionPipeline ------------------------
(***************************************************************************)
(* Books with depth ladders, as the core's inbound interface allows (spec  *)
(* 6), so that the risk gate admits opportunities.  Bybit's book has mid   *)
(* 100 and 8 units within 0.5% of its touch, enough for its capital limit  *)
(* of 505 (5.05 units at the mid).  Against Binance's book with mid 103     *)
(* both checks trade and lose to slippage, by different amounts; against   *)
(* the deep book with mid 120 they gain.  Four trades fill the VaR window  *)
(* of two and evict from it twice.                                          *)
(***************************************************************************)
EXTENDS ExecutionPipeline

BookWithDepth(bid, ask, bidQty, askQty, bids, asks) ==
    [bestBid |-> bid, bestAsk |-> ask, bestBidQty |-> bidQty, bestAskQty |-> askQty,
     bids |-> bids, asks |-> asks]

BybitBook == BookWithDepth(99, 101, 5, 5, <<<<Int2Q(99), 5>>, <<Q(988, 10), 3>>>>,
                                          <<<<Int2Q(101), 5>>, <<Q(1013, 10), 3>>>>)
LossBook == BookWithDepth(102, 104, 5, 5, <<<<Int2Q(102), 5>>>>, <<<<Int2Q(104), 5>>>>)
DeepBook == BookWithDepth(119, 121, 50, 50, <<<<Int2Q(119), 50>>>>, <<<<Int2Q(121), 50>>>>)

MCBinanceBooks == {LossBook, DeepBook}
MCBybitBooks == {BybitBook}

MaxTrades == 4
LedgerBound == Len(tradeHistory) <= MaxTrades
=============================================================================
