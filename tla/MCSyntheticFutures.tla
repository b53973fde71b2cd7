------------------------- MODULE MCSyntheticFutures -------------------------
(***************************************************************************)
(* checkSyntheticFutures against the Binance and OKX connector threads and *)
(* the BinancePerp mark-price thread; Bybit is silent, so the two other    *)
(* checks return at their first test.  Binance's book 100/101 lies below  *)
(* OKX's 103/104.  The funding rates +-73/700 move the seven-day funding-  *)
(* model future 0.2% off the OKX mid, past the 0.1% threshold, in either   *)
(* direction.  OKX also quotes an empty ask (quantity 0), which zeroes     *)
(* both capital limits.  Each stream also sends a message its handler      *)
(* drops.                                                                  *)
(***************************************************************************)
EXTENDS DecisionLoop, Connectors

MCBookVenues == {"Binance", "Bybit", "OKX"}

Messages ==
    [v \in MCBookVenues |->
       CASE v = "Binance" ->
              {[b |-> 100, a |-> 101, B |-> 5, A |-> 1]}
         [] v = "OKX" ->
              {[data |-> <<[bids |-> <<<<103, 2>>>>, asks |-> <<<<104, 3>>>>]>>],
               [data |-> <<[bids |-> <<<<103, 2>>>>, asks |-> <<<<104, 0>>>>]>>],
               [data |-> <<>>]}
         [] v = "Bybit" -> {}]

MarkPriceMessages ==
    {<<[s |-> "BTCUSDT", p |-> 101, r |-> Q(73, 700)]>>,
     <<[s |-> "ETHUSDT", p |-> 7, r |-> Zero], [s |-> "BTCUSDT", p |-> 101, r |-> Q(-73, 700)]>>,
     <<[s |-> "BTCUSDT", p |-> Garbage, r |-> Q(73, 700)]>>}

MCFeed == [v \in MCBookVenues |-> UNION {Deliveries(v, m) : m \in Messages[v]}]
MCFundingFeed == UNION {BinancePerpDeliveries(m) : m \in MarkPriceMessages}
=============================================================================
