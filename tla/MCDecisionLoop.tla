--------------------------- MODULE MCDecisionLoop ---------------------------
(***************************************************************************)
(* The Binance and Bybit connector threads.  Binance sends two depth       *)
(* messages, one each side of Bybit's book, far enough apart that both     *)
(* checks find opportunities in both directions: Binance 100/101 is        *)
(* cheaper than Bybit 102/103, Binance 103/104 dearer.  Each venue also    *)
(* sends a message its handler drops.  The OKX and mark-price streams are  *)
(* silent, so checkSyntheticFutures returns at its first test.             *)
(***************************************************************************)
EXTENDS DecisionLoop, Connectors

MCBookVenues == {"Binance", "Bybit", "OKX"}

Messages ==
    [v \in MCBookVenues |->
       CASE v = "Binance" ->
              {[b |-> 100, a |-> 101, B |-> 5, A |-> 1],
               [b |-> 103, a |-> 104, B |-> 2, A |-> 3],
               [b |-> Garbage, a |-> 104, B |-> 2, A |-> 3]}
         [] v = "Bybit" ->
              {[b |-> <<<<102, 4>>>>, a |-> <<<<103, 4>>>>],
               [b |-> <<>>, a |-> <<<<103, 4>>>>]}
         [] v = "OKX" -> {}]

MCFeed == [v \in MCBookVenues |-> UNION {Deliveries(v, m) : m \in Messages[v]}]
=============================================================================
