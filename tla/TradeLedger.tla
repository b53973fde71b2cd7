----------------------------- MODULE TradeLedger -----------------------------
(***************************************************************************)
(* The state TradeExecutor::executeTrade writes: the static tradeHistory   *)
(* and totalProfit, and the P&L sample it forwards to VaREstimator::addPnL.*)
(***************************************************************************)
EXTENDS Integers, Sequences, FiniteSets, TLC, ArbitrageMath, RollingSeries
LOCAL INSTANCE SequencesExt

CONSTANT VaRCapacity   \* VaREstimator::MAX_HISTORY

VARIABLES tradeHistory, totalProfit, pnlHistory

ledgerVars == <<tradeHistory, totalProfit, pnlHistory>>

LedgerInit ==
    /\ tradeHistory = <<>>
    /\ totalProfit = Zero
    /\ pnlHistory = <<>>

\* The ledger holds trade records, and the P&L window never outgrows
\* VaREstimator::MAX_HISTORY.
LedgerTypeOK ==
    /\ \A i \in 1..Len(tradeHistory) :
          DOMAIN tradeHistory[i] = {"buyExchange", "sellExchange", "buyPrice", "sellPrice",
                                    "capitalUsed", "profit"}
    /\ Len(pnlHistory) <= VaRCapacity

\* Fault model: the eviction is missing.
AddPnLNoEvict(pnl) == pnlHistory' = Append(pnlHistory, pnl)

\* Fault model: the oldest sample is evicted one sample early.
AddPnLEarlyEvict(pnl) ==
    pnlHistory' = LET h == Append(pnlHistory, pnl)
                  IN  IF Len(h) >= VaRCapacity THEN Tail(h) ELSE h

\* VaREstimator::addPnL.
AddPnL(pnl) == pnlHistory' = PushBounded(pnlHistory, pnl, VaRCapacity)

\* executeTrade(opp): an early return leaves the ledger alone; otherwise the
\* trade is appended, its profit added to totalProfit and sent to the VaR
\* estimator, in that order.
ExecuteTrade(opp) ==
    LET out == TradeOutcome(opp)
    IN  IF out.status # "Executed" THEN UNCHANGED ledgerVars
        ELSE /\ tradeHistory' = Append(tradeHistory, out.trade)
             /\ totalProfit' = QAdd(totalProfit, out.trade.profit)
             /\ AddPnL(out.trade.profit)

Losses(history) ==
    LET negative == SelectSeq(history, LAMBDA p : QLt(p, Zero))
    IN  [i \in 1..Len(negative) |-> QNeg(negative[i])]

ComputeHistoricalVaR(history, confidenceLevel) ==
    LET losses == SortSeq(Losses(history), QLt)
        c == QSub(Int2Q(1), confidenceLevel)
        index == (c[1] * Len(losses)) \div c[2]
    IN  IF Len(losses) = 0 THEN Zero ELSE losses[index + 1]

\* The confidence levels printVaRReport asks for.
VaRLevels == {Q(95, 100), Q(99, 100)}

(***************************************************************************)
(* Reference definitions for the properties.                               *)
(***************************************************************************)
\* The sum of the profits of the recorded trades.
LedgerProfit == FoldLeft(LAMBDA acc, t : QAdd(acc, t.profit), Zero, tradeHistory)

(***************************************************************************)
(* Properties                                                              *)
(***************************************************************************)
\* executeTrade appends the trade, adds its profit to totalProfit and sends
\* it to VaREstimator::addPnL as one sequence: totalProfit is the sum of the
\* recorded profits, and the VaR window holds the profits of the last
\* MAX_HISTORY trades, oldest first, once trades have evicted samples.
LedgerAndVaRAgree ==
    LET n == Len(tradeHistory)
        kept == IF n > VaRCapacity THEN VaRCapacity ELSE n
    IN  /\ totalProfit = LedgerProfit
        /\ pnlHistory = [i \in 1..kept |-> tradeHistory[n - kept + i].profit]

RecordedTradesProfitable ==
    \A i \in DOMAIN tradeHistory : QGt(tradeHistory[i].profit, Zero)
=============================================================================
