--------------------------- MODULE TradingEngineInv ---------------------------
(***************************************************************************)
(* The inductive invariant of TradingEngine.  The wallet lock makes one    *)
(* session at a time a trader (LockInv), so the cash and the position it   *)
(* read are still the committed ones when it settles (ReadInv) and when it *)
(* commits (SettledInv).                                                   *)
(***************************************************************************)
EXTENDS TradingEngine

Trader == {"position", "insert", "execute", "rejecting", "settled"}

LockInv ==
    /\ \A s \in Sessions : pc[s] \in Trader <=> walletLock = s
    /\ \A s \in Sessions : pc[s] \in Trader => wallet.open
    /\ \A symbol \in Symbols : positionLock[symbol] \in Sessions =>
          /\ pc[positionLock[symbol]] \in {"execute", "rejecting", "settled"}
          /\ req[positionLock[symbol]].symbol = symbol

\* What a session read under its locks is what is committed.
ReadInv ==
    \A s \in Sessions :
        /\ pc[s] \in {"position", "insert", "execute"} => work[s].cash = wallet.cash
        /\ pc[s] = "insert" => req[s].symbol \notin rows
        /\ pc[s] = "execute" => work[s].position = positions[req[s].symbol]
        /\ pc[s] \notin {"idle", "open"} => req[s].quantity \in Quantities

\* What a session will commit is a fill of the committed account.
FillOf(s, price, charges) ==
    /\ CanFill(wallet.cash, positions[req[s].symbol], req[s].side, req[s].quantity,
               price, charges)
    /\ work[s].cash = wallet.cash + CashDelta(req[s].side, req[s].quantity, price, charges)
    /\ work[s].position = AfterFill(positions[req[s].symbol], req[s].side,
                                    req[s].quantity, price, charges)
    /\ work[s].fill = {FillRecord(positions[req[s].symbol], work[s].id, req[s].symbol,
                                  req[s].side, req[s].quantity, price, charges,
                                  wallet.resets)}

SettledInv ==
    \A s \in Sessions : pc[s] = "settled" =>
        \E price \in Prices, charges \in Charges : FillOf(s, price, charges)

\* Order ids are handed out and committed in order, within the bound.
IdInv ==
    /\ nextId + Cardinality(Unnumbered) <= MaxOrders + 1
    /\ \A trade \in trades : trade.order < nextId
    /\ \A s \in Sessions : pc[s] \in {"rejecting", "settled"} =>
          /\ work[s].id \in OrderIds
          /\ work[s].id < nextId
          /\ \A trade \in trades : trade.order < work[s].id

\* The rows satisfy the CHECK constraints of the schema.
RowInv ==
    /\ wallet.cash >= 0
    /\ \A symbol \in Symbols : PricedIffOpen(positions[symbol])
    /\ \A symbol \in Symbols : symbol \notin rows => positions[symbol] = Flat

IInv == TypeOK /\ LockInv /\ ReadInv /\ SettledInv /\ IdInv /\ RowInv /\ CloseOnlyNeverOpens
===============================================================================
