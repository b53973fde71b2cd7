----------------------------- MODULE Connectors -----------------------------
(***************************************************************************)
(* What each venue connector's handleIncomingMessage hands to its callback *)
(* for one WebSocket message: the set of OrderBookUpdates (or FundingData) *)
(* it delivers, empty when it returns early or std::stod throws into the   *)
(* catch block.  JSON is abstracted to records: a field is a number, the   *)
(* model value Missing (key absent) or Garbage (a string stod rejects).    *)
(* A level of a bids/asks array is a <<price, quantity>> pair of such      *)
(* fields.  Only the best level is ever parsed, so the ladders of the      *)
(* delivered update stay empty.                                            *)
(***************************************************************************)
EXTENDS Integers, Sequences, Rat

CONSTANTS Missing, Garbage

Number(x) == x \notin {Missing, Garbage}

LOCAL Book(bid, ask, bidQty, askQty) ==
    [bestBid |-> bid, bestAsk |-> ask, bestBidQty |-> bidQty, bestAskQty |-> askQty,
     bids |-> <<>>, asks |-> <<>>]

\* BinanceClient: data.value(k, "0.0") defaults an absent key to 0; stod of
\* anything else that is not a number throws and nothing is delivered.
BinanceValue(x) == IF x = Missing THEN 0 ELSE x

BinanceDeliveries(msg) ==
    IF \A k \in {"b", "a", "B", "A"} : msg[k] # Garbage
    THEN {Book(BinanceValue(msg.b), BinanceValue(msg.a),
               BinanceValue(msg.B), BinanceValue(msg.A))}
    ELSE {}

\* Bybit and OKX: the best level of the "b"/"a" (bids/asks) arrays; an
\* absent or empty array returns early, a non-numeric field throws.
LevelsOK(bids, asks) ==
    /\ bids # Missing /\ asks # Missing
    /\ bids # <<>> /\ asks # <<>>

TopOfBook(bids, asks) ==
    IF Number(bids[1][1]) /\ Number(asks[1][1]) /\ Number(bids[1][2]) /\ Number(asks[1][2])
    THEN {Book(bids[1][1], asks[1][1], bids[1][2], asks[1][2])}
    ELSE {}

BybitDeliveries(msg) ==
    IF LevelsOK(msg.b, msg.a) THEN TopOfBook(msg.b, msg.a) ELSE {}

\* OKX: "data" must be a non-empty array; its first element is used.
OKXDeliveries(msg) ==
    IF msg.data = Missing \/ msg.data = <<>> THEN {}
    ELSE LET d == msg.data[1]
         IN  IF LevelsOK(d.bids, d.asks) THEN TopOfBook(d.bids, d.asks) ELSE {}

\* The client main.cpp registers under each name() (BinanceClient is
\* "Binance", OKXClient "OKX", BybitClient "Bybit").
Deliveries(v, msg) ==
    CASE v = "Binance" -> BinanceDeliveries(msg)
      [] v = "Bybit"   -> BybitDeliveries(msg)
      [] v = "OKX"     -> OKXDeliveries(msg)

(***************************************************************************)
(* BinancePerpClient: a JSON array of mark-price entries; the first entry  *)
(* for BTCUSDT is parsed and reported, then the loop breaks.  A payload    *)
(* that is not an array (Missing) is dropped.  The funding rate is a Rat.  *)
(***************************************************************************)
BinancePerpDeliveries(msg) ==
    IF msg = Missing THEN {}
    ELSE LET hits == {i \in DOMAIN msg : msg[i].s = "BTCUSDT"}
         IN  IF hits = {} THEN {}
             ELSE LET e == msg[CHOOSE i \in hits : \A j \in hits : i <= j]
                  IN  IF Number(e.p) /\ Number(e.r)
                      THEN {[markPrice |-> e.p, fundingRate |-> e.r]}
                      ELSE {}
=============================================================================
