------------------------- MODULE TradingEngineProofs -------------------------
(***************************************************************************)
(* The safety properties of TradingEngine and its refinement of Ledger,    *)
(* for every set of sessions, symbols, quantities, prices and charges and  *)
(* every bound.  Each action preserves IInv (one lemma an action, one step *)
(* a conjunct); the properties then follow from IInv.                      *)
(***************************************************************************)
EXTENDS TradingEngineInv, AccountingProofs

\* The sentinels are of their types.
LEMMA BlankTypes ==
    /\ AnySymbol \in Symbols
    /\ NoRequest \in Request
    /\ NoOrder \in OrderRow
    /\ NoWork \in Work
    /\ Flat \in Position
    /\ PricedIffOpen(Flat)
  <1>1. AnySymbol \in Symbols
    BY DataAssumption DEF AnySymbol
  <1>2. Flat \in Position /\ PricedIffOpen(Flat)
    BY DEF Flat, Position, PricedIffOpen
  <1> QED
    BY <1>1, <1>2 DEF NoRequest, Request, NoOrder, OrderRow, NoWork, Work, Side

LEMMA InitIInv == Init => IInv
  <1> SUFFICES ASSUME Init PROVE IInv
    OBVIOUS
  <1> USE DEF Init
  <1>1. TypeOK
    BY BlankTypes DEF TypeOK
  <1>2. LockInv
    BY SessionsAssumption DEF LockInv, Trader
  <1>3. ReadInv /\ SettledInv
    BY DEF ReadInv, SettledInv
  <1>4. IdInv
    <2>1. Unnumbered = {}
      BY DEF Unnumbered, TypeOK
    <2>2. Cardinality(Unnumbered) = 0
      BY <2>1, FS_EmptySet
    <2> QED BY <2>2, DataAssumption DEF IdInv
  <1>5. RowInv
    BY BlankTypes DEF RowInv
  <1>6. CloseOnlyNeverOpens
    BY DEF CloseOnlyNeverOpens
  <1> QED BY <1>1, <1>2, <1>3, <1>4, <1>5, <1>6 DEF IInv

\* The trade row of a fill is of its type.
LEMMA FillRecordType ==
    ASSUME NEW position \in Position, NEW id \in Nat, NEW symbol \in Symbols,
           NEW side \in Side, NEW quantity \in Nat, NEW price \in Nat,
           NEW charges \in Nat, NEW epoch \in Nat
    PROVE  FillRecord(position, id, symbol, side, quantity, price, charges, epoch)
             \in TradeRow
  <1> DEFINE fill == Direction(side) * quantity
             outcome == ApplyFill(position.quantity, position.average, fill, price)
  <1>1. fill \in Int /\ position.quantity \in Int /\ position.average \in Nat
    BY DEF Direction, Position
  <1> HIDE DEF fill
  <1>2. outcome.closed \in Nat /\ outcome.realized \in Int
    BY <1>1, ApplyFillQuantities, ApplyFillRealized
  <1>3. FillRecord(position, id, symbol, side, quantity, price, charges, epoch) =
          [order |-> id, symbol |-> symbol, side |-> side, quantity |-> quantity,
           price |-> price, charges |-> charges, gross |-> outcome.realized,
           closed |-> outcome.closed, epoch |-> epoch]
    BY DEF FillRecord, fill
  <1> HIDE DEF outcome
  <1> QED BY <1>2, <1>3 DEF TradeRow

-----------------------------------------------------------------------------
(* Facts the steps share. *)

\* A fill staged by a session that takes no part in a step stays one.
LEMMA FillOfStable ==
    ASSUME NEW t \in Sessions, NEW price \in Prices, NEW charges \in Charges,
           wallet' = wallet, positions' = positions,
           req'[t] = req[t], work'[t] = work[t], FillOf(t, price, charges)
    PROVE  FillOf(t, price, charges)'
  BY DEF FillOf

\* Staged fills survive a step of s that writes no table and that does not
\* leave s itself with a new one.
LEMMA SettledStable ==
    ASSUME IInv, NEW s \in Sessions, wallet' = wallet, positions' = positions,
           \A t \in Sessions : t # s => /\ pc'[t] = pc[t]
                                        /\ req'[t] = req[t]
                                        /\ work'[t] = work[t],
           pc'[s] # "settled"
    PROVE  SettledInv'
  <1> SUFFICES ASSUME NEW t \in Sessions, pc'[t] = "settled"
               PROVE  \E price \in Prices, charges \in Charges : FillOf(t, price, charges)'
    BY DEF SettledInv
  <1>1. t # s /\ pc[t] = "settled"
    OBVIOUS
  <1>2. PICK price \in Prices, charges \in Charges : FillOf(t, price, charges)
    BY <1>1 DEF IInv, SettledInv
  <1> QED BY <1>1, <1>2, FillOfStable

\* Counting the sessions that still need an order id.
LEMMA UnnumberedFinite == IsFiniteSet(Unnumbered) /\ Cardinality(Unnumbered) \in Nat
  BY SessionsAssumption, FS_Subset, FS_CardinalityType DEF Unnumbered

LEMMA UnnumberedLeave ==
    ASSUME NEW s \in Sessions, TypeOK,
           NEW next \in {"idle", "rejecting", "settled"}, pc' = [pc EXCEPT ![s] = next]
    PROVE  /\ s \in Unnumbered => Cardinality(Unnumbered') = Cardinality(Unnumbered) - 1
           /\ s \notin Unnumbered => Cardinality(Unnumbered') = Cardinality(Unnumbered)
  <1>1. Unnumbered' = Unnumbered \ {s}
    BY DEF Unnumbered, TypeOK
  <1>2. CASE s \in Unnumbered
    BY <1>1, <1>2, UnnumberedFinite, FS_RemoveElement
  <1>3. CASE s \notin Unnumbered
    <2>1. Unnumbered' = Unnumbered
      BY <1>1, <1>3
    <2> QED BY <2>1, <1>3
  <1> QED BY <1>2, <1>3

LEMMA UnnumberedStay ==
    ASSUME NEW s \in Sessions, TypeOK, s \in Unnumbered,
           NEW next \in {"wallet", "position", "insert", "execute"},
           pc' = [pc EXCEPT ![s] = next]
    PROVE  Unnumbered' = Unnumbered
  BY DEF Unnumbered, TypeOK

-----------------------------------------------------------------------------
(* Steps that write no table. *)

\* A session that ends without a commit: WalletMissing, AdoptWallet, Abort.
LEMMA RollbackStep ==
    ASSUME IInv, NEW s \in Sessions, End(s), UNCHANGED <<tables, nextId>>
    PROVE  IInv'
  <1> USE DEF IInv, End, Release, tables
  <1>1. TypeOK'
    BY BlankTypes DEF TypeOK
  <1>2. LockInv'
    BY SessionsAssumption DEF LockInv, TypeOK, Trader
  <1>3. ReadInv'
    BY DEF ReadInv, TypeOK
  <1>4. SettledInv'
    BY SettledStable DEF TypeOK
  <1>5. IdInv'
    <2>1. Cardinality(Unnumbered') <= Cardinality(Unnumbered)
      <3>2. pc' = [pc EXCEPT ![s] = "idle"]
        OBVIOUS
      <3>3. \/ Cardinality(Unnumbered') = Cardinality(Unnumbered) - 1
            \/ Cardinality(Unnumbered') = Cardinality(Unnumbered)
        BY <3>2, UnnumberedLeave
      <3> QED BY <3>3, UnnumberedFinite
    <2>2. nextId' + Cardinality(Unnumbered') <= MaxOrders + 1
      <3>1. Cardinality(Unnumbered') \in Nat
        BY UnnumberedLeave, UnnumberedFinite, FS_CardinalityType, FS_Subset,
           SessionsAssumption DEF Unnumbered
      <3> QED BY <2>1, <3>1, UnnumberedFinite, DataAssumption DEF IdInv, TypeOK
    <2> QED BY <2>2 DEF IdInv, TypeOK
  <1>6. RowInv' /\ CloseOnlyNeverOpens'
    BY DEF RowInv, CloseOnlyNeverOpens, PricedIffOpen
  <1> QED BY <1>1, <1>2, <1>3, <1>4, <1>5, <1>6

LEMMA SubmitStep ==
    ASSUME IInv, NEW s \in Sessions, NEW side \in Side, NEW symbol \in Symbols,
           NEW quantity \in Quantities, Submit(s, side, symbol, quantity)
    PROVE  IInv'
  <1> USE DEF IInv, Submit, tables, locks
  <1>1. TypeOK'
    BY DataAssumption DEF TypeOK, Request
  <1>2. LockInv'
    BY SessionsAssumption DEF LockInv, TypeOK, Trader
  <1>3. ReadInv'
    BY DEF ReadInv, TypeOK
  <1>4. SettledInv'
    BY SettledStable DEF TypeOK
  <1>5. IdInv'
    <2>1. Unnumbered' = Unnumbered \cup {s} /\ s \notin Unnumbered
      BY DEF Unnumbered, TypeOK
    <2>2. Cardinality(Unnumbered') = Cardinality(Unnumbered) + 1
      BY <2>1, UnnumberedFinite, FS_AddElement
    <2>3. nextId' + Cardinality(Unnumbered') <= MaxOrders + 1
      BY <2>2, UnnumberedFinite, DataAssumption DEF TypeOK
    <2> QED BY <2>3 DEF IdInv, TypeOK
  <1>6. RowInv' /\ CloseOnlyNeverOpens'
    BY DEF RowInv, CloseOnlyNeverOpens, PricedIffOpen
  <1> QED BY <1>1, <1>2, <1>3, <1>4, <1>5, <1>6

LEMMA LockWalletStep ==
    ASSUME IInv, NEW s \in Sessions, LockWallet(s)
    PROVE  IInv'
  <1> USE DEF IInv, LockWallet, tables
  <1>1. TypeOK'
    BY DEF TypeOK, Work
  <1>2. LockInv'
    BY SessionsAssumption DEF LockInv, TypeOK, Trader
  <1>3. ReadInv'
    BY SessionsAssumption DEF ReadInv, LockInv, TypeOK, Trader, Work
  <1>4. SettledInv'
    BY SettledStable DEF TypeOK
  <1>5. IdInv'
    <2>1. Unnumbered' = Unnumbered
      BY UnnumberedStay DEF Unnumbered, TypeOK
    <2> QED BY <2>1 DEF IdInv, TypeOK
  <1>6. RowInv' /\ CloseOnlyNeverOpens'
    BY DEF RowInv, CloseOnlyNeverOpens, PricedIffOpen
  <1> QED BY <1>1, <1>2, <1>3, <1>4, <1>5, <1>6

LEMMA LockPositionStep ==
    ASSUME IInv, NEW s \in Sessions, LockPosition(s)
    PROVE  IInv'
  <1> USE DEF IInv, LockPosition, tables
  <1>1. TypeOK'
    BY DEF TypeOK, Work, Request
  <1>2. LockInv'
    BY SessionsAssumption DEF LockInv, TypeOK, Trader, Request
  <1>3. ReadInv'
    BY DEF ReadInv, TypeOK, Work
  <1>4. SettledInv'
    BY SettledStable DEF TypeOK
  <1>5. IdInv'
    <2>1. Unnumbered' = Unnumbered
      BY UnnumberedStay DEF Unnumbered, TypeOK
    <2> QED BY <2>1 DEF IdInv, TypeOK
  <1>6. RowInv' /\ CloseOnlyNeverOpens'
    BY DEF RowInv, CloseOnlyNeverOpens, PricedIffOpen
  <1> QED BY <1>1, <1>2, <1>3, <1>4, <1>5, <1>6

LEMMA MissPositionStep ==
    ASSUME IInv, NEW s \in Sessions, MissPosition(s)
    PROVE  IInv'
  <1> USE DEF IInv, MissPosition, tables, locks
  <1>1. TypeOK'
    BY DEF TypeOK
  <1>2. LockInv'
    BY SessionsAssumption DEF LockInv, TypeOK, Trader
  <1>3. ReadInv'
    BY DEF ReadInv, TypeOK
  <1>4. SettledInv'
    BY SettledStable DEF TypeOK
  <1>5. IdInv'
    <2>1. Unnumbered' = Unnumbered
      BY UnnumberedStay DEF Unnumbered, TypeOK
    <2> QED BY <2>1 DEF IdInv, TypeOK
  <1>6. RowInv' /\ CloseOnlyNeverOpens'
    BY DEF RowInv, CloseOnlyNeverOpens, PricedIffOpen
  <1> QED BY <1>1, <1>2, <1>3, <1>4, <1>5, <1>6

LEMMA InsertPositionStep ==
    ASSUME IInv, NEW s \in Sessions, InsertPosition(s)
    PROVE  IInv'
  <1> USE DEF IInv, InsertPosition, tables
  <1>1. TypeOK'
    BY BlankTypes DEF TypeOK, Work, Request
  <1>2. LockInv'
    BY SessionsAssumption DEF LockInv, TypeOK, Trader, Request
  <1>3. ReadInv'
    BY DEF ReadInv, RowInv, TypeOK, Work, Request
  <1>4. SettledInv'
    BY SettledStable DEF TypeOK
  <1>5. IdInv'
    <2>1. Unnumbered' = Unnumbered
      BY UnnumberedStay DEF Unnumbered, TypeOK
    <2> QED BY <2>1 DEF IdInv, TypeOK
  <1>6. RowInv' /\ CloseOnlyNeverOpens'
    BY DEF RowInv, CloseOnlyNeverOpens, PricedIffOpen
  <1> QED BY <1>1, <1>2, <1>3, <1>4, <1>5, <1>6

LEMMA FindNoWalletStep ==
    ASSUME IInv, NEW s \in Sessions, FindNoWallet(s)
    PROVE  IInv'
  <1> USE DEF IInv, FindNoWallet, tables, locks
  <1>1. TypeOK'
    BY DEF TypeOK
  <1>2. LockInv'
    BY SessionsAssumption DEF LockInv, TypeOK, Trader
  <1>3. ReadInv'
    BY DEF ReadInv, TypeOK
  <1>4. SettledInv'
    BY SettledStable DEF TypeOK
  <1>5. IdInv'
    <2>1. Unnumbered' = Unnumbered
      BY DEF Unnumbered, TypeOK
    <2> QED BY <2>1 DEF IdInv, TypeOK
  <1>6. RowInv' /\ CloseOnlyNeverOpens'
    BY DEF RowInv, CloseOnlyNeverOpens, PricedIffOpen
  <1> QED BY <1>1, <1>2, <1>3, <1>4, <1>5, <1>6

-----------------------------------------------------------------------------
(* Settlement. *)

LEMMA RejectStep ==
    ASSUME IInv, NEW s \in Sessions, Reject(s)
    PROVE  IInv'
  <1> USE DEF IInv, Reject, tables, locks
  <1>1. s \in Unnumbered
    BY DEF Unnumbered, TypeOK
  <1>2. Cardinality(Unnumbered') = Cardinality(Unnumbered) - 1
    BY <1>1, UnnumberedLeave
  <1>3. nextId \in OrderIds
    <2>1. Cardinality(Unnumbered) # 0
      BY <1>1, UnnumberedFinite, FS_EmptySet
    <2> QED BY <2>1, UnnumberedFinite, DataAssumption DEF IdInv, TypeOK, OrderIds
  <1>4. TypeOK'
    BY DEF TypeOK, Work
  <1>5. LockInv'
    BY SessionsAssumption DEF LockInv, TypeOK, Trader
  <1>6. ReadInv'
    BY DEF ReadInv, TypeOK
  <1>7. SettledInv'
    BY SettledStable DEF TypeOK
  <1>8. IdInv'
    <2>1. nextId' + Cardinality(Unnumbered') <= MaxOrders + 1
      BY <1>2, UnnumberedFinite, DataAssumption DEF IdInv, TypeOK
    <2>2. \A trade \in trades' : trade.order < nextId'
      BY DEF IdInv, TypeOK, TradeRow
    <2>3. ASSUME NEW t \in Sessions, pc'[t] \in {"rejecting", "settled"}
          PROVE  /\ work'[t].id \in OrderIds
                 /\ work'[t].id < nextId'
                 /\ \A trade \in trades' : trade.order < work'[t].id
      BY <1>3, <2>3 DEF IdInv, TypeOK, OrderIds, Work
    <2> QED BY <2>1, <2>2, <2>3 DEF IdInv
  <1>9. RowInv' /\ CloseOnlyNeverOpens'
    BY DEF RowInv, CloseOnlyNeverOpens, PricedIffOpen
  <1> QED BY <1>4, <1>5, <1>6, <1>7, <1>8, <1>9

LEMMA SettleStep ==
    ASSUME IInv, NEW s \in Sessions, Settle(s)
    PROVE  IInv'
  <1> USE DEF IInv
  <1>1. PICK price \in Prices, charges \in Charges :
          /\ CanFill(work[s].cash, work[s].position, req[s].side, req[s].quantity,
                     price, charges)
          /\ work' = [work EXCEPT ![s] =
                [id |-> nextId,
                 cash |-> @.cash + CashDelta(req[s].side, req[s].quantity, price, charges),
                 position |-> AfterFill(@.position, req[s].side, req[s].quantity,
                                        price, charges),
                 fill |-> {TradeOf(s, price, charges)}]]
    BY DEF Settle
  <1>2. /\ pc[s] = "execute" /\ nextId' = nextId + 1
        /\ pc' = [pc EXCEPT ![s] = "settled"]
        /\ UNCHANGED <<wallet, positions, rows, orders, trades, walletLock,
                       positionLock, req>>
    BY DEF Settle, tables, locks
  <1>3. /\ req[s].side \in Side /\ req[s].symbol \in Symbols
        /\ req[s].quantity \in Quantities /\ req[s].quantity \in Nat \ {0}
        /\ price \in Nat \ {0} /\ charges \in Nat
    BY <1>2, DataAssumption DEF TypeOK, ReadInv, Request
  <1>4. /\ work[s].cash = wallet.cash
        /\ work[s].position = positions[req[s].symbol]
        /\ wallet.cash \in Nat /\ positions[req[s].symbol] \in Position
        /\ PricedIffOpen(positions[req[s].symbol])
    BY <1>2, <1>3 DEF ReadInv, RowInv, TypeOK
  <1>5. s \in Unnumbered
    BY <1>2 DEF Unnumbered, TypeOK
  <1>6. Cardinality(Unnumbered') = Cardinality(Unnumbered) - 1
    BY <1>2, <1>5, UnnumberedLeave
  <1>7. nextId \in OrderIds
    <2>1. Cardinality(Unnumbered) # 0
      BY <1>5, UnnumberedFinite, FS_EmptySet
    <2> QED BY <2>1, UnnumberedFinite, DataAssumption DEF IdInv, TypeOK, OrderIds
  <1>8. work'[s] = [id |-> nextId,
                    cash |-> wallet.cash + CashDelta(req[s].side, req[s].quantity,
                                                     price, charges),
                    position |-> AfterFill(positions[req[s].symbol], req[s].side,
                                           req[s].quantity, price, charges),
                    fill |-> {FillRecord(positions[req[s].symbol], nextId, req[s].symbol,
                                         req[s].side, req[s].quantity, price, charges,
                                         wallet.resets)}]
    BY <1>1, <1>4 DEF TypeOK, TradeOf
  <1>9. FillOf(s, price, charges)'
    BY <1>1, <1>2, <1>4, <1>8 DEF FillOf
  <1>10. work'[s] \in Work
    <2>1. nextId \in Nat
      BY DEF TypeOK
    <2>2. wallet.cash + CashDelta(req[s].side, req[s].quantity, price, charges) \in Int
      BY <1>3, <1>4, AffordableLeavesNoDebt
    <2>3. AfterFill(positions[req[s].symbol], req[s].side, req[s].quantity, price, charges)
            \in Position
      BY <1>3, <1>4, AfterFillType DEF PricedIffOpen
    <2>4. FillRecord(positions[req[s].symbol], nextId, req[s].symbol, req[s].side,
                     req[s].quantity, price, charges, wallet.resets) \in TradeRow
      BY <1>3, <1>4, <2>1, FillRecordType DEF TypeOK
    <2> QED BY <1>8, <2>1, <2>2, <2>3, <2>4 DEF Work
  <1>11. TypeOK'
    BY <1>1, <1>2, <1>10 DEF TypeOK
  <1>12. LockInv'
    BY <1>2, SessionsAssumption DEF LockInv, TypeOK, Trader
  <1>13. ReadInv'
    BY <1>1, <1>2 DEF ReadInv, TypeOK
  <1>14. \A t \in Sessions : t # s => pc'[t] = pc[t] /\ req'[t] = req[t] /\ work'[t] = work[t]
    BY <1>1, <1>2 DEF TypeOK
  <1>15. SettledInv'
    <2> SUFFICES ASSUME NEW t \in Sessions, pc'[t] = "settled"
                 PROVE  \E p \in Prices, c \in Charges : FillOf(t, p, c)'
      BY DEF SettledInv
    <2>1. CASE t = s
      BY <1>9, <2>1
    <2>2. CASE t # s
      <3>1. pc[t] = "settled"
        BY <1>14, <2>2
      <3>2. PICK p \in Prices, c \in Charges : FillOf(t, p, c)
        BY <3>1 DEF SettledInv
      <3> QED BY <1>2, <1>14, <2>2, <3>2, FillOfStable
    <2> QED BY <2>1, <2>2
  <1>16. IdInv'
    <2>1. nextId' + Cardinality(Unnumbered') <= MaxOrders + 1
      BY <1>2, <1>6, UnnumberedFinite, DataAssumption DEF IdInv, TypeOK
    <2>2. \A trade \in trades' : trade.order < nextId'
      BY <1>2 DEF IdInv, TypeOK, TradeRow
    <2>3. ASSUME NEW t \in Sessions, pc'[t] \in {"rejecting", "settled"}
          PROVE  /\ work'[t].id \in OrderIds
                 /\ work'[t].id < nextId'
                 /\ \A trade \in trades' : trade.order < work'[t].id
      <3>1. CASE t = s
        BY <1>2, <1>7, <1>8, <3>1 DEF IdInv, TypeOK, OrderIds
      <3>2. CASE t # s
        BY <1>2, <1>14, <2>3, <3>2 DEF IdInv, TypeOK, OrderIds, Work
      <3> QED BY <3>1, <3>2
    <2> QED BY <2>1, <2>2, <2>3 DEF IdInv
  <1>17. RowInv' /\ CloseOnlyNeverOpens'
    BY <1>2 DEF RowInv, CloseOnlyNeverOpens, PricedIffOpen
  <1> QED BY <1>11, <1>12, <1>13, <1>15, <1>16, <1>17

-----------------------------------------------------------------------------
(* Commit. *)

\* The wallet lock leaves room for one trader.
LEMMA TraderAlone ==
    ASSUME IInv, NEW s \in Sessions, NEW t \in Sessions,
           pc[s] \in Trader, pc[t] \in Trader
    PROVE  s = t
  BY DEF IInv, LockInv

\* A session that ends takes no order id with it.
LEMMA EndFreesIds ==
    ASSUME IInv, NEW s \in Sessions, End(s), nextId' = nextId
    PROVE  nextId' + Cardinality(Unnumbered') <= MaxOrders + 1
  <1>1. pc' = [pc EXCEPT ![s] = "idle"]
    BY DEF End
  <1>2. \/ Cardinality(Unnumbered') = Cardinality(Unnumbered) - 1
        \/ Cardinality(Unnumbered') = Cardinality(Unnumbered)
    BY <1>1, UnnumberedLeave DEF IInv
  <1> QED BY <1>2, UnnumberedFinite, DataAssumption DEF IInv, IdInv, TypeOK

LEMMA CommitRejectionStep ==
    ASSUME IInv, NEW s \in Sessions, CommitRejection(s)
    PROVE  IInv'
  <1> USE DEF IInv
  <1>1. /\ pc[s] = "rejecting" /\ End(s)
        /\ orders' = [orders EXCEPT ![work[s].id] = OrderOf(s, "REJECTED")]
        /\ rows' = rows \cup {req[s].symbol}
        /\ UNCHANGED <<wallet, positions, trades, nextId>>
    BY DEF CommitRejection
  <1>2. \A t \in Sessions : pc[t] \in Trader => t = s
    BY <1>1, TraderAlone DEF Trader
  <1> USE DEF End, Release
  <1>3. TypeOK'
    <2>1. req[s] \in Request /\ req[s].symbol \in Symbols
      BY DEF TypeOK, Request
    <2>2. OrderOf(s, "REJECTED") \in OrderRow
      BY <2>1 DEF OrderOf, OrderRow, Request
    <2>3. orders' \in [OrderIds -> OrderRow]
      BY <1>1, <2>2 DEF TypeOK
    <2> QED BY <1>1, <2>1, <2>3, BlankTypes DEF TypeOK
  <1>4. LockInv'
    BY <1>1, SessionsAssumption DEF LockInv, TypeOK, Trader
  <1>5. ReadInv'
    BY <1>1, <1>2 DEF ReadInv, TypeOK, Trader
  <1>6. SettledInv'
    BY <1>1, SettledStable DEF TypeOK
  <1>7. IdInv'
    <2>1. nextId' + Cardinality(Unnumbered') <= MaxOrders + 1
      BY <1>1, EndFreesIds
    <2> QED BY <1>1, <2>1 DEF IdInv, TypeOK
  <1>8. RowInv' /\ CloseOnlyNeverOpens'
    BY <1>1 DEF RowInv, CloseOnlyNeverOpens, PricedIffOpen
  <1> QED BY <1>3, <1>4, <1>5, <1>6, <1>7, <1>8

\* What the commit of a fill writes: well-formed rows and a non-negative balance.
LEMMA SettledRows ==
    ASSUME IInv, NEW s \in Sessions, pc[s] = "settled"
    PROVE  /\ work[s].cash \in Nat
           /\ work[s].position \in Position /\ PricedIffOpen(work[s].position)
           /\ \A trade \in work[s].fill :
                 /\ trade \in TradeRow
                 /\ trade.order = work[s].id
                 /\ trade.side \in {"SELL", "BUY_TO_COVER"} => trade.closed = trade.quantity
  <1> DEFINE held == positions[req[s].symbol]
  <1>1. PICK price \in Prices, charges \in Charges : FillOf(s, price, charges)
    BY DEF IInv, SettledInv
  <1>2. /\ req[s].side \in Side /\ req[s].symbol \in Symbols
        /\ req[s].quantity \in Nat \ {0}
        /\ price \in Nat \ {0} /\ charges \in Nat
    BY DataAssumption DEF IInv, TypeOK, ReadInv, Request
  <1>3. held \in Position /\ PricedIffOpen(held) /\ wallet.cash \in Nat
    BY <1>2 DEF IInv, TypeOK, RowInv
  <1>4. work[s].cash \in Nat
    <2>1. Affordable(wallet.cash, CashDelta(req[s].side, req[s].quantity, price, charges))
      BY <1>1 DEF FillOf, CanFill
    <2>2. work[s].cash = wallet.cash + CashDelta(req[s].side, req[s].quantity, price, charges)
      BY <1>1 DEF FillOf
    <2> QED BY <1>2, <1>3, <2>1, <2>2, AffordableLeavesNoDebt
  <1>5. work[s].position \in Position /\ PricedIffOpen(work[s].position)
    <2>1. work[s].position = AfterFill(held, req[s].side, req[s].quantity, price, charges)
      BY <1>1 DEF FillOf
    <2> QED BY <1>2, <1>3, <2>1, AfterFillType DEF PricedIffOpen
  <1>6. ASSUME NEW trade \in work[s].fill
        PROVE  trade \in TradeRow /\ trade.order = work[s].id
               /\ (trade.side \in {"SELL", "BUY_TO_COVER"} => trade.closed = trade.quantity)
    <2>1. trade = FillRecord(held, work[s].id, req[s].symbol, req[s].side,
                             req[s].quantity, price, charges, wallet.resets)
      BY <1>1 DEF FillOf
    <2>2. work[s].id \in Nat /\ wallet.resets \in Nat
      BY DEF IInv, TypeOK, Work
    <2>3. trade \in TradeRow
      BY <1>2, <1>3, <2>1, <2>2, FillRecordType
    <2>4. /\ trade.order = work[s].id /\ trade.side = req[s].side
          /\ trade.quantity = req[s].quantity
          /\ trade.closed = ApplyFill(held.quantity, held.average,
                                      Direction(req[s].side) * req[s].quantity, price).closed
      BY <2>1 DEF FillRecord
    <2>5. ASSUME trade.side \in {"SELL", "BUY_TO_COVER"}
          PROVE  trade.closed = trade.quantity
      <3>1. ValidAgainstPosition(req[s].side, req[s].quantity, held.quantity)
        BY <1>1 DEF FillOf, CanFill
      <3>2. held.quantity \in Int /\ held.average \in Nat
        BY <1>3 DEF Position
      <3> QED BY <1>2, <2>4, <2>5, <3>1, <3>2, CloseOnlyClosesAll
    <2> QED BY <2>3, <2>4, <2>5
  <1> QED BY <1>4, <1>5, <1>6

LEMMA CommitFillStep ==
    ASSUME IInv, NEW s \in Sessions, CommitFill(s)
    PROVE  IInv'
  <1> USE DEF IInv
  <1>1. /\ pc[s] = "settled" /\ End(s)
        /\ wallet' = [wallet EXCEPT !.cash = work[s].cash]
        /\ positions' = [positions EXCEPT ![req[s].symbol] = work[s].position]
        /\ rows' = rows \cup {req[s].symbol}
        /\ orders' = [orders EXCEPT ![work[s].id] = OrderOf(s, "FILLED")]
        /\ trades' = trades \cup work[s].fill
        /\ nextId' = nextId
    BY DEF CommitFill
  <1>2. \A t \in Sessions : pc[t] \in Trader => t = s
    BY <1>1, TraderAlone DEF Trader
  <1>3. req[s] \in Request /\ req[s].symbol \in Symbols
    BY DEF TypeOK, Request
  <1>4. /\ work[s].cash \in Nat
        /\ work[s].position \in Position /\ PricedIffOpen(work[s].position)
        /\ \A trade \in work[s].fill :
              /\ trade \in TradeRow
              /\ trade.order = work[s].id
              /\ trade.side \in {"SELL", "BUY_TO_COVER"} => trade.closed = trade.quantity
    BY <1>1, SettledRows
  <1> USE DEF End, Release
  <1>5. TypeOK'
    <2>1. OrderOf(s, "FILLED") \in OrderRow
      BY <1>3 DEF OrderOf, OrderRow, Request
    <2>2. orders' \in [OrderIds -> OrderRow]
      BY <1>1, <2>1 DEF TypeOK
    <2>3. trades' \subseteq TradeRow
      BY <1>1, <1>4 DEF TypeOK
    <2>4. wallet' \in [open: BOOLEAN, initial: Nat, cash: Int, resets: Nat]
      BY <1>1, <1>4 DEF TypeOK
    <2>5. positions' \in [Symbols -> Position]
      BY <1>1, <1>4 DEF TypeOK
    <2> QED BY <1>1, <1>3, <2>2, <2>3, <2>4, <2>5, BlankTypes DEF TypeOK
  <1>6. LockInv'
    BY <1>1, SessionsAssumption DEF LockInv, TypeOK, Trader
  <1>7. ReadInv'
    BY <1>1, <1>2 DEF ReadInv, TypeOK, Trader
  <1>8. SettledInv'
    BY <1>1, <1>2 DEF SettledInv, TypeOK, Trader
  <1>9. IdInv'
    <2>1. nextId' + Cardinality(Unnumbered') <= MaxOrders + 1
      BY <1>1, EndFreesIds
    <2>2. \A trade \in trades' : trade.order < nextId'
      BY <1>1, <1>4 DEF IdInv
    <2>3. \A t \in Sessions : pc'[t] \notin {"rejecting", "settled"}
      BY <1>1, <1>2 DEF Trader, TypeOK
    <2> QED BY <2>1, <2>2, <2>3 DEF IdInv
  <1>10. RowInv'
    <2>1. wallet'.cash >= 0
      BY <1>1, <1>4 DEF TypeOK
    <2>2. \A symbol \in Symbols : PricedIffOpen(positions'[symbol])
      BY <1>1, <1>4 DEF RowInv, TypeOK
    <2>3. \A symbol \in Symbols : symbol \notin rows' => positions'[symbol] = Flat
      BY <1>1 DEF RowInv, TypeOK
    <2> QED BY <2>1, <2>2, <2>3 DEF RowInv, PricedIffOpen
  <1>11. CloseOnlyNeverOpens'
    BY <1>1, <1>4 DEF CloseOnlyNeverOpens
  <1> QED BY <1>5, <1>6, <1>7, <1>8, <1>9, <1>10, <1>11

-----------------------------------------------------------------------------
(* The wallet service. *)

LEMMA InsertWalletStep ==
    ASSUME IInv, NEW s \in Sessions, NEW balance \in Balances, InsertWallet(s, balance)
    PROVE  IInv'
  <1> USE DEF IInv
  <1>1. /\ pc[s] = "open" /\ ~wallet.open /\ End(s)
        /\ wallet' = [open |-> TRUE, initial |-> balance, cash |-> balance, resets |-> 0]
        /\ UNCHANGED <<positions, rows, orders, trades, nextId>>
    BY DEF InsertWallet
  <1>2. \A t \in Sessions : pc[t] \notin Trader
    BY <1>1 DEF LockInv
  <1>3. balance \in Nat
    BY DataAssumption
  <1> USE DEF End, Release
  <1>4. TypeOK'
    BY <1>1, <1>3, BlankTypes DEF TypeOK
  <1>5. LockInv'
    BY <1>1, SessionsAssumption DEF LockInv, TypeOK, Trader
  <1>6. ReadInv'
    BY <1>1, <1>2 DEF ReadInv, TypeOK, Trader
  <1>7. SettledInv'
    BY <1>1, <1>2 DEF SettledInv, TypeOK, Trader
  <1>8. IdInv'
    <2>1. nextId' + Cardinality(Unnumbered') <= MaxOrders + 1
      BY <1>1, EndFreesIds
    <2> QED BY <1>1, <2>1 DEF IdInv, TypeOK
  <1>9. RowInv' /\ CloseOnlyNeverOpens'
    BY <1>1, <1>3 DEF RowInv, CloseOnlyNeverOpens, PricedIffOpen
  <1> QED BY <1>4, <1>5, <1>6, <1>7, <1>8, <1>9

LEMMA ResetWalletStep ==
    ASSUME IInv, NEW s \in Sessions, NEW balance \in Balances, ResetWallet(s, balance)
    PROVE  IInv'
  <1> USE DEF IInv
  <1>1. /\ wallet.open /\ walletLock = Nobody
        /\ wallet' = [open |-> TRUE, initial |-> balance, cash |-> balance,
                      resets |-> wallet.resets + 1]
        /\ UNCHANGED <<positions, rows, orders, trades, nextId, walletLock, positionLock,
                       pc, req, work>>
    BY DEF ResetWallet, locks
  <1>2. \A t \in Sessions : pc[t] \notin Trader
    BY <1>1, SessionsAssumption DEF LockInv
  <1>3. balance \in Nat
    BY DataAssumption
  <1>4. TypeOK'
    <2>1. wallet.resets + 1 \in Nat
      BY DEF TypeOK
    <2> QED BY <1>1, <1>3, <2>1 DEF TypeOK
  <1>5. LockInv' /\ ReadInv' /\ SettledInv'
    BY <1>1, <1>2 DEF LockInv, ReadInv, SettledInv, TypeOK, Trader
  <1>6. IdInv'
    BY <1>1 DEF IdInv, Unnumbered
  <1>7. RowInv' /\ CloseOnlyNeverOpens'
    BY <1>1, <1>3 DEF RowInv, CloseOnlyNeverOpens, PricedIffOpen, TypeOK
  <1> QED BY <1>4, <1>5, <1>6, <1>7

LEMMA StutterStep ==
    ASSUME IInv, UNCHANGED vars
    PROVE  IInv'
  BY DEF vars, IInv, TypeOK, LockInv, ReadInv, SettledInv, FillOf, IdInv, RowInv,
         PricedIffOpen, CloseOnlyNeverOpens, Unnumbered

-----------------------------------------------------------------------------
(* Theorems *)

LEMMA NextIInv == IInv /\ [Next]_vars => IInv'
  <1> SUFFICES ASSUME IInv, [Next]_vars PROVE IInv'
    OBVIOUS
  <1>1. CASE UNCHANGED vars
    BY <1>1, StutterStep
  <1>2. ASSUME NEW s \in Sessions, NEW side \in Side, NEW symbol \in Symbols,
               NEW quantity \in Quantities, Submit(s, side, symbol, quantity)
        PROVE  IInv'
    BY <1>2, SubmitStep
  <1>3. ASSUME NEW s \in Sessions, Advance(s)
        PROVE  IInv'
    <2>1. CASE WalletMissing(s) \/ AdoptWallet(s)
      <3>1. End(s) /\ UNCHANGED <<tables, nextId>>
        BY <2>1 DEF WalletMissing, AdoptWallet
      <3> QED BY <3>1, RollbackStep
    <2>2. CASE LockWallet(s)
      BY <2>2, LockWalletStep
    <2>3. CASE LockPosition(s)
      BY <2>3, LockPositionStep
    <2>4. CASE MissPosition(s)
      BY <2>4, MissPositionStep
    <2>5. CASE InsertPosition(s)
      BY <2>5, InsertPositionStep
    <2>6. CASE Reject(s)
      BY <2>6, RejectStep
    <2>7. CASE Settle(s)
      BY <2>7, SettleStep
    <2>8. CASE CommitRejection(s)
      BY <2>8, CommitRejectionStep
    <2>9. CASE CommitFill(s)
      BY <2>9, CommitFillStep
    <2>10. CASE \E balance \in Balances : InsertWallet(s, balance)
      BY <2>10, InsertWalletStep
    <2> QED BY <1>3, <2>1, <2>2, <2>3, <2>4, <2>5, <2>6, <2>7, <2>8, <2>9, <2>10
            DEF Advance
  <1>4. ASSUME NEW s \in Sessions, FindNoWallet(s)
        PROVE  IInv'
    BY <1>4, FindNoWalletStep
  <1>5. ASSUME NEW s \in Sessions, NEW balance \in Balances, ResetWallet(s, balance)
        PROVE  IInv'
    BY <1>5, ResetWalletStep
  <1>6. ASSUME NEW s \in Sessions, Abort(s)
        PROVE  IInv'
    <2>1. End(s) /\ UNCHANGED <<tables, nextId>>
      BY <1>6 DEF Abort
    <2> QED BY <2>1, RollbackStep
  <1>7. CASE Waiting
    BY <1>7, StutterStep DEF Waiting
  <1> QED BY <1>1, <1>2, <1>3, <1>4, <1>5, <1>6, <1>7 DEF Next

\* The invariant holds in every reachable state, for every number of sessions.
THEOREM Invariance == Spec => []IInv
  BY InitIInv, NextIInv, PTL DEF Spec

\* Every table row and every session's staged rows keep their types.
THEOREM TypeCorrect == Spec => []TypeOK
  <1>1. IInv => TypeOK
    BY DEF IInv
  <1> QED BY <1>1, Invariance, PTL

\* The wallet lock serialises placement: place_order's reads and its commit
\* are never interleaved with another order's.
THEOREM Serialised == Spec => []OneTraderAtATime
  <1>1. IInv => OneTraderAtATime
    BY TraderAlone DEF OneTraderAtATime, Trading, Trader
  <1> QED BY <1>1, Invariance, PTL

\* get_or_create_for_update never meets a concurrent insert of its row.
THEOREM InsertsAlone == Spec => []NoInsertConflict
  <1>1. IInv => NoInsertConflict
    <2> SUFFICES ASSUME IInv, NEW s \in Sessions, pc[s] = "insert"
                 PROVE  req[s].symbol \notin rows /\ positionLock[req[s].symbol] = Nobody
      BY DEF NoInsertConflict
    <2>1. req[s].symbol \in Symbols
      BY DEF IInv, TypeOK, Request
    <2>2. ASSUME positionLock[req[s].symbol] \in Sessions PROVE FALSE
      <3>1. pc[positionLock[req[s].symbol]] \in {"execute", "rejecting", "settled"}
        BY <2>1, <2>2 DEF IInv, LockInv
      <3>2. positionLock[req[s].symbol] = s
        BY <2>2, <3>1, TraderAlone DEF Trader
      <3> QED BY <3>1, <3>2
    <2> QED BY <2>1, <2>2 DEF IInv, TypeOK, ReadInv
  <1> QED BY <1>1, Invariance, PTL

\* No interleaving of orders spends money the account does not have.
THEOREM Solvent == Spec => []CashNonNegative
  <1>1. IInv => CashNonNegative
    <2> SUFFICES ASSUME IInv PROVE CashNonNegative
      OBVIOUS
    <2>1. wallet.cash >= 0
      BY DEF IInv, RowInv
    <2>2. \A s \in Sessions : pc[s] = "settled" => work[s].cash >= 0
      BY SettledRows
    <2> QED BY <2>1, <2>2 DEF CashNonNegative
  <1> QED BY <1>1, Invariance, PTL

\* A position row has an entry price exactly while it is open.
THEOREM EntryPrices == Spec => []EntryPriceMatchesQuantity
  <1>1. IInv => EntryPriceMatchesQuantity
    <2> SUFFICES ASSUME IInv PROVE EntryPriceMatchesQuantity
      OBVIOUS
    <2>1. \A symbol \in Symbols : PricedIffOpen(positions[symbol])
      BY DEF IInv, RowInv
    <2>2. \A s \in Sessions : pc[s] = "settled" => PricedIffOpen(work[s].position)
      BY SettledRows
    <2> QED BY <2>1, <2>2 DEF EntryPriceMatchesQuantity
  <1> QED BY <1>1, Invariance, PTL

\* No fill of a SELL or a BUY_TO_COVER opens a position.
THEOREM ClosesOnlyClose == Spec => []CloseOnlyNeverOpens
  <1>1. IInv => CloseOnlyNeverOpens
    BY DEF IInv
  <1> QED BY <1>1, Invariance, PTL

-----------------------------------------------------------------------------
(* Refinement *)

\* The operators of the ledger are those of the engine.
LEMMA LedgerOperators ==
    /\ ledger!Flat = Flat
    /\ ledger!Side = Side
    /\ \A cash, position, side, quantity, price, charges :
          ledger!CanFill(cash, position, side, quantity, price, charges)
            <=> CanFill(cash, position, side, quantity, price, charges)
    /\ \A side, quantity, price, charges :
          ledger!CashDelta(side, quantity, price, charges)
            = CashDelta(side, quantity, price, charges)
    /\ \A position, side, quantity, price, charges :
          ledger!AfterFill(position, side, quantity, price, charges)
            = AfterFill(position, side, quantity, price, charges)
    /\ \A position, id, symbol, side, quantity, price, charges, epoch :
          ledger!FillRecord(position, id, symbol, side, quantity, price, charges, epoch)
            = FillRecord(position, id, symbol, side, quantity, price, charges, epoch)
  BY DEF ledger!Flat, Flat, ledger!Side, Side, ledger!CanFill, CanFill,
         ledger!CashDelta, CashDelta, ledger!AfterFill, AfterFill,
         ledger!FillRecord, FillRecord, ledger!ApplyFill, ApplyFill,
         ledger!ValidAgainstPosition, ValidAgainstPosition,
         ledger!Affordable, Affordable, ledger!Direction, Direction,
         ledger!RealizedPnl, RealizedPnl, ledger!WeightedAveragePrice,
         WeightedAveragePrice, ledger!HalfUp, HalfUp, ledger!Magnitude, Magnitude,
         ledger!Sign, Sign, ledger!Lesser, Lesser

LEMMA CommitFillIsFill ==
    ASSUME IInv, NEW s \in Sessions, CommitFill(s)
    PROVE  ledger!LedgerNext
  <1>1. pc[s] = "settled"
    BY DEF CommitFill
  <1>2. PICK price \in Prices, charges \in Charges : FillOf(s, price, charges)
    BY <1>1 DEF IInv, SettledInv
  <1>3. /\ req[s].side \in Side /\ req[s].symbol \in Symbols
        /\ req[s].quantity \in Quantities
        /\ work[s].id \in OrderIds
        /\ \A trade \in trades : trade.order < work[s].id
        /\ wallet.open
    BY <1>1 DEF IInv, TypeOK, Request, ReadInv, IdInv, LockInv, Trader
  <1>4. wallet' = [wallet EXCEPT !.cash =
                     @ + CashDelta(req[s].side, req[s].quantity, price, charges)]
    BY <1>2 DEF CommitFill, FillOf, IInv, TypeOK
  <1>5. positions' = [positions EXCEPT ![req[s].symbol] =
                        AfterFill(@, req[s].side, req[s].quantity, price, charges)]
    BY <1>2 DEF CommitFill, FillOf
  <1>6. trades' = trades \cup
                    {FillRecord(positions[req[s].symbol], work[s].id, req[s].symbol,
                                req[s].side, req[s].quantity, price, charges,
                                wallet.resets)}
    BY <1>2 DEF CommitFill, FillOf
  <1>7. CanFill(wallet.cash, positions[req[s].symbol], req[s].side, req[s].quantity,
                price, charges)
    BY <1>2 DEF FillOf
  <1>8. ledger!Fill(work[s].id, req[s].symbol, req[s].side, req[s].quantity,
                    price, charges)
    BY <1>3, <1>4, <1>5, <1>6, <1>7, LedgerOperators DEF ledger!Fill
  <1> QED BY <1>3, <1>8, LedgerOperators DEF ledger!LedgerNext

LEMMA StepIsLedgerStep ==
    ASSUME IInv, [Next]_vars
    PROVE  [ledger!LedgerNext]_(ledger!ledgerVars)
  <1> SUFFICES ASSUME ~UNCHANGED <<wallet, positions, trades>>
               PROVE  ledger!LedgerNext
    BY DEF ledger!ledgerVars
  <1>1. PICK s \in Sessions :
          \/ CommitFill(s)
          \/ \E balance \in Balances : InsertWallet(s, balance) \/ ResetWallet(s, balance)
    BY DEF Next, Advance, vars, tables, locks, Submit, WalletMissing, LockWallet,
           LockPosition, MissPosition, InsertPosition, Reject, Settle, CommitRejection,
           FindNoWallet, AdoptWallet, Abort, Waiting
  <1>2. CASE CommitFill(s)
    BY <1>2, CommitFillIsFill
  <1>3. ASSUME NEW balance \in Balances, InsertWallet(s, balance)
        PROVE  ledger!LedgerNext
    <2>1. ledger!Open(balance)
      BY <1>3 DEF InsertWallet, ledger!Open
    <2> QED BY <2>1 DEF ledger!LedgerNext
  <1>4. ASSUME NEW balance \in Balances, ResetWallet(s, balance)
        PROVE  ledger!LedgerNext
    <2>1. ledger!Reset(balance)
      BY <1>4 DEF ResetWallet, ledger!Reset
    <2> QED BY <2>1 DEF ledger!LedgerNext
  <1> QED BY <1>1, <1>2, <1>3, <1>4

\* Concurrent order placement is indistinguishable, in the wallet, the
\* positions and the trades it commits, from one fill at a time.
THEOREM ImplementsLedger == Spec => LedgerSpec
  <1>1. Init => ledger!LedgerInit
    BY LedgerOperators DEF Init, ledger!LedgerInit
  <1>2. IInv /\ [Next]_vars => [ledger!LedgerNext]_(ledger!ledgerVars)
    BY StepIsLedgerStep
  <1> QED BY <1>1, <1>2, Invariance, PTL DEF Spec, LedgerSpec, ledger!LedgerSpec
===============================================================================
