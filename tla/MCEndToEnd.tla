---------------------------- MODULE MCEndToEnd ----------------------------
(***************************************************************************)
(* The end-to-end scenario of spec 8: venue A (bid 100, ask 101, both     *)
(* quantities 5) on Bybit, the venue the checks treat as the real leg and  *)
(* as the risk gate's reference book, and venue B (103/104, quantities 5)  *)
(* on Binance.  Bybit's ladder puts 8 units within 0.5% of the touch, so   *)
(* the liquidity check passes for the capital limit of 505.               *)
(***************************************************************************)
EXTENDS ExecutionPipeline

BookWithDepth(bid, ask, bidQty, askQty, bids, asks) ==
    [bestBid |-> bid, bestAsk |-> ask, bestBidQty |-> bidQty, bestAskQty |-> askQty,
     bids |-> bids, asks |-> asks]

VenueA == BookWithDepth(100, 101, 5, 5, <<<<Int2Q(100), 5>>, <<Q(998, 10), 3>>>>,
                                        <<<<Int2Q(101), 5>>, <<Q(1012, 10), 3>>>>)
VenueB == BookWithDepth(103, 104, 5, 5, <<<<Int2Q(103), 5>>>>, <<<<Int2Q(104), 5>>>>)

MCBinanceBooks == {VenueB}
MCBybitBooks == {VenueA}
=============================================================================
