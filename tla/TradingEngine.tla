---------------------------- MODULE TradingEngine ----------------------------
(***************************************************************************)
(* Order placement against the one account: trading/engine.py with the     *)
(* wallet service, the position manager and the order manager it drives.   *)
(*                                                                         *)
(* Every request runs in a database session of its own.  A session's       *)
(* writes are private until it commits, so each session carries the rows   *)
(* it read and the rows it is about to write in work[s]; the variables     *)
(* wallet, positions, rows, orders and trades are the COMMITTED tables.    *)
(* The steps of a session are the statements at which it can wait for, or  *)
(* be overtaken by, another one: the two row locks, the insert of a        *)
(* missing position row, the settlement and the commit.                    *)
(***************************************************************************)
EXTENDS PositionAccounting, FiniteSets

CONSTANTS Sessions,    \* concurrent database sessions
          Symbols,     \* tradable instruments
          Quantities,  \* order sizes that pass normalise_quantity and the bound
          Prices,      \* execution prices the spread and slippage can produce
          Charges,     \* total charges a fill can carry
          Balances,    \* opening balances
          MaxOrders,   \* bound: orders ever placed
          MaxResets,   \* bound: wallet resets
          Nobody       \* the holder of a free lock

ASSUME SessionsAssumption == Nobody \notin Sessions /\ IsFiniteSet(Sessions)
ASSUME DataAssumption ==
    /\ Symbols # {} /\ IsFiniteSet(Symbols)
    /\ Quantities \subseteq Nat \ {0} /\ Prices \subseteq Nat \ {0}
    /\ Charges \subseteq Nat /\ Balances \subseteq Nat \ {0}
    /\ MaxOrders \in Nat /\ MaxResets \in Nat

OrderIds == 1 .. MaxOrders

VARIABLES wallet,       \* [open, initial, cash, resets]; resets is auxiliary
          positions,    \* [Symbols -> Position]: the row, or flat where there is none
          rows,         \* the symbols that have a row in the positions table
          orders,       \* [OrderIds -> [status, symbol, side, quantity]]
          trades,       \* the trades table
          nextId,       \* the orders sequence: it is not rolled back
          walletLock,   \* who holds the wallet row FOR UPDATE
          positionLock, \* who holds each position row, or is inserting it
          pc, req,      \* where each session is, and what it was asked
          work          \* what each session has read and is about to write

tables == <<wallet, positions, rows, orders, trades>>
locks == <<walletLock, positionLock>>
vars == <<wallet, positions, rows, orders, trades, nextId, walletLock, positionLock,
          pc, req, work>>

ledger == INSTANCE Ledger WITH account <- wallet, holdings <- positions, fills <- trades

-----------------------------------------------------------------------------
AnySymbol == CHOOSE symbol \in Symbols : TRUE

Request == [side: Side, symbol: Symbols, quantity: Nat]
NoRequest == [side |-> "BUY", symbol |-> AnySymbol, quantity |-> 0]

OrderRow == [status: {"NONE", "FILLED", "REJECTED"}, symbol: Symbols, side: Side,
             quantity: Nat]
NoOrder == [status |-> "NONE", symbol |-> AnySymbol, side |-> "BUY", quantity |-> 0]

TradeRow == [order: Nat, symbol: Symbols, side: Side, quantity: Nat, price: Nat,
             charges: Nat, gross: Int, closed: Nat, epoch: Nat]

\* cash and position: the locked rows, with the fill applied once it is priced.
\* fill: the trade to record, or {} for a rejection.
Work == [id: Nat, cash: Int, position: Position, fill: SUBSET TradeRow]
NoWork == [id |-> 0, cash |-> 0, position |-> Flat, fill |-> {}]

\* A session that has asked for a fill and has not reached the orders table.
Unnumbered == {s \in Sessions : pc[s] \in {"wallet", "position", "insert", "execute"}}

Init ==
    /\ wallet = [open |-> FALSE, initial |-> 0, cash |-> 0, resets |-> 0]
    /\ positions = [symbol \in Symbols |-> Flat]
    /\ rows = {}
    /\ orders = [id \in OrderIds |-> NoOrder]
    /\ trades = {}
    /\ nextId = 1
    /\ walletLock = Nobody
    /\ positionLock = [symbol \in Symbols |-> Nobody]
    /\ pc = [s \in Sessions |-> "idle"]
    /\ req = [s \in Sessions |-> NoRequest]
    /\ work = [s \in Sessions |-> NoWork]

-----------------------------------------------------------------------------
(* Commit and rollback end the transaction: the locks go and nothing of    *)
(* the session is left.                                                    *)

\* Fault: the position lock survives the transaction.
ReleaseWalletOnly(s) ==
    /\ walletLock' = IF walletLock = s THEN Nobody ELSE walletLock
    /\ UNCHANGED positionLock

Release(s) ==
    /\ walletLock' = IF walletLock = s THEN Nobody ELSE walletLock
    /\ positionLock' = [symbol \in Symbols |->
                          IF positionLock[symbol] = s THEN Nobody ELSE positionLock[symbol]]

End(s) ==
    /\ Release(s)
    /\ pc' = [pc EXCEPT ![s] = "idle"]
    /\ req' = [req EXCEPT ![s] = NoRequest]
    /\ work' = [work EXCEPT ![s] = NoWork]

-----------------------------------------------------------------------------
(* TradingEngine.place_order *)

\* The checks that need no row have passed (resolve_instrument,
\* normalise_quantity, _validate_request, _require_open_market).
Submit(s, side, symbol, quantity) ==
    /\ pc[s] = "idle"
    /\ nextId + Cardinality(Unnumbered) <= MaxOrders
    /\ pc' = [pc EXCEPT ![s] = "wallet"]
    /\ req' = [req EXCEPT ![s] = [side |-> side, symbol |-> symbol, quantity |-> quantity]]
    /\ UNCHANGED <<tables, locks, nextId, work>>

\* WalletNotFoundError: nothing has been written.
WalletMissing(s) ==
    /\ pc[s] = "wallet"
    /\ ~wallet.open
    /\ End(s)
    /\ UNCHANGED <<tables, nextId>>

\* Fault: the wallet is read without FOR UPDATE.
LockWalletUnlocked(s) ==
    /\ pc[s] = "wallet"
    /\ wallet.open
    /\ work' = [work EXCEPT ![s].cash = wallet.cash]
    /\ pc' = [pc EXCEPT ![s] = "position"]
    /\ UNCHANGED <<tables, nextId, locks, req>>

\* SELECT wallet ... FOR UPDATE
LockWallet(s) ==
    /\ pc[s] = "wallet"
    /\ wallet.open
    /\ walletLock = Nobody
    /\ walletLock' = s
    /\ work' = [work EXCEPT ![s].cash = wallet.cash]
    /\ pc' = [pc EXCEPT ![s] = "position"]
    /\ UNCHANGED <<tables, nextId, positionLock, req>>

\* SELECT position ... FOR UPDATE, when the row is there
LockPosition(s) ==
    /\ pc[s] = "position"
    /\ req[s].symbol \in rows
    /\ positionLock[req[s].symbol] = Nobody
    /\ positionLock' = [positionLock EXCEPT ![req[s].symbol] = s]
    /\ work' = [work EXCEPT ![s].position = positions[req[s].symbol]]
    /\ pc' = [pc EXCEPT ![s] = "execute"]
    /\ UNCHANGED <<tables, nextId, walletLock, req>>

\* ... when it is not: the select returns nothing and locks nothing
MissPosition(s) ==
    /\ pc[s] = "position"
    /\ req[s].symbol \notin rows
    /\ pc' = [pc EXCEPT ![s] = "insert"]
    /\ UNCHANGED <<tables, locks, nextId, req, work>>

\* INSERT the flat row.  A second insert of the key waits for the first one.
\* NoInsertConflict says why the IntegrityError handler is not here.
InsertPosition(s) ==
    /\ pc[s] = "insert"
    /\ req[s].symbol \notin rows
    /\ positionLock[req[s].symbol] = Nobody
    /\ positionLock' = [positionLock EXCEPT ![req[s].symbol] = s]
    /\ work' = [work EXCEPT ![s].position = Flat]
    /\ pc' = [pc EXCEPT ![s] = "execute"]
    /\ UNCHANGED <<tables, nextId, walletLock, req>>

\* The trade row of a fill of this session's request.
TradeOf(s, price, charges) ==
    FillRecord(work[s].position, nextId, req[s].symbol, req[s].side, req[s].quantity,
               price, charges, wallet.resets)

\* The order row is created PENDING and priced, and the fill is refused.
Reject(s) ==
    /\ pc[s] = "execute"
    /\ \E price \in Prices, charges \in Charges :
          ~CanFill(work[s].cash, work[s].position, req[s].side, req[s].quantity,
                   price, charges)
    /\ work' = [work EXCEPT ![s].id = nextId]
    /\ nextId' = nextId + 1
    /\ pc' = [pc EXCEPT ![s] = "rejecting"]
    /\ UNCHANGED <<tables, locks, req>>

\* The order row is created PENDING, priced, checked and settled.
Settle(s) ==
    /\ pc[s] = "execute"
    /\ \E price \in Prices, charges \in Charges :
          /\ CanFill(work[s].cash, work[s].position, req[s].side, req[s].quantity,
                     price, charges)
          /\ work' = [work EXCEPT ![s] =
                [id |-> nextId,
                 cash |-> @.cash + CashDelta(req[s].side, req[s].quantity, price, charges),
                 position |-> AfterFill(@.position, req[s].side, req[s].quantity,
                                        price, charges),
                 fill |-> {TradeOf(s, price, charges)}]]
    /\ nextId' = nextId + 1
    /\ pc' = [pc EXCEPT ![s] = "settled"]
    /\ UNCHANGED <<tables, locks, req>>

OrderOf(s, status) == [status |-> status, symbol |-> req[s].symbol,
                       side |-> req[s].side, quantity |-> req[s].quantity]

\* mark_rejected and COMMIT: the order row is kept, and with it the position
\* row this transaction may have inserted.
CommitRejection(s) ==
    /\ pc[s] = "rejecting"
    /\ orders' = [orders EXCEPT ![work[s].id] = OrderOf(s, "REJECTED")]
    /\ rows' = rows \cup {req[s].symbol}
    /\ End(s)
    /\ UNCHANGED <<wallet, positions, trades, nextId>>

\* Fault: the trade row is left to a later transaction.
CommitFillWithoutTrade(s) ==
    /\ pc[s] = "settled"
    /\ wallet' = [wallet EXCEPT !.cash = work[s].cash]
    /\ positions' = [positions EXCEPT ![req[s].symbol] = work[s].position]
    /\ rows' = rows \cup {req[s].symbol}
    /\ orders' = [orders EXCEPT ![work[s].id] = OrderOf(s, "FILLED")]
    /\ End(s)
    /\ UNCHANGED <<trades, nextId>>

\* Fault: the transaction commits before mark_filled.
CommitFillPending(s) ==
    /\ pc[s] = "settled"
    /\ wallet' = [wallet EXCEPT !.cash = work[s].cash]
    /\ positions' = [positions EXCEPT ![req[s].symbol] = work[s].position]
    /\ rows' = rows \cup {req[s].symbol}
    /\ orders' = [orders EXCEPT ![work[s].id] = OrderOf(s, "PENDING")]
    /\ trades' = trades \cup work[s].fill
    /\ End(s)
    /\ UNCHANGED nextId

CommitFill(s) ==
    /\ pc[s] = "settled"
    /\ wallet' = [wallet EXCEPT !.cash = work[s].cash]
    /\ positions' = [positions EXCEPT ![req[s].symbol] = work[s].position]
    /\ rows' = rows \cup {req[s].symbol}
    /\ orders' = [orders EXCEPT ![work[s].id] = OrderOf(s, "FILLED")]
    /\ trades' = trades \cup work[s].fill
    /\ End(s)
    /\ UNCHANGED nextId

-----------------------------------------------------------------------------
(* WalletService *)

\* initialize_wallet first looks for a wallet, holding nothing.
FindNoWallet(s) ==
    /\ pc[s] = "idle"
    /\ ~wallet.open
    /\ pc' = [pc EXCEPT ![s] = "open"]
    /\ UNCHANGED <<tables, locks, nextId, req, work>>

InsertWallet(s, balance) ==
    /\ pc[s] = "open"
    /\ ~wallet.open
    /\ wallet' = [open |-> TRUE, initial |-> balance, cash |-> balance, resets |-> 0]
    /\ End(s)
    /\ UNCHANGED <<positions, rows, orders, trades, nextId>>

\* IntegrityError: another request created it first; its row is returned.
AdoptWallet(s) ==
    /\ pc[s] = "open"
    /\ wallet.open
    /\ End(s)
    /\ UNCHANGED <<tables, nextId>>

\* reset_wallet locks, assigns and commits.  Nothing can come between, except
\* that it waits for the lock.  Without an amount it keeps the initial one.
ResetWallet(s, balance) ==
    /\ pc[s] = "idle"
    /\ wallet.open
    /\ walletLock = Nobody
    /\ wallet.resets < MaxResets
    /\ wallet' = [open |-> TRUE, initial |-> balance, cash |-> balance,
                  resets |-> wallet.resets + 1]
    /\ UNCHANGED <<positions, rows, orders, trades, nextId, locks, pc, req, work>>

\* An exception, a dropped connection or a crash: get_session rolls back.
Abort(s) ==
    /\ pc[s] # "idle"
    /\ End(s)
    /\ UNCHANGED <<tables, nextId>>

\* The server waiting for its next request.
Waiting == (\A s \in Sessions : pc[s] = "idle") /\ UNCHANGED vars

-----------------------------------------------------------------------------
\* What a session does on its own once a request has reached it.
Advance(s) ==
    \/ WalletMissing(s)  \/ LockWallet(s)
    \/ LockPosition(s)   \/ MissPosition(s) \/ InsertPosition(s)
    \/ Reject(s)         \/ Settle(s)
    \/ CommitRejection(s) \/ CommitFill(s)
    \/ AdoptWallet(s)    \/ \E balance \in Balances : InsertWallet(s, balance)

Next ==
    \/ \E s \in Sessions :
          \/ \E side \in Side, symbol \in Symbols, quantity \in Quantities :
                Submit(s, side, symbol, quantity)
          \/ Advance(s)
          \/ FindNoWallet(s)
          \/ \E balance \in Balances : ResetWallet(s, balance)
          \/ Abort(s)
    \/ Waiting

Spec == Init /\ [][Next]_vars

-----------------------------------------------------------------------------
(* Properties *)

TypeOK ==
    /\ wallet \in [open: BOOLEAN, initial: Nat, cash: Int, resets: Nat]
    /\ positions \in [Symbols -> Position]
    /\ rows \subseteq Symbols
    /\ orders \in [OrderIds -> OrderRow]
    /\ trades \subseteq TradeRow
    /\ nextId \in Nat \ {0}
    /\ walletLock \in Sessions \cup {Nobody}
    /\ positionLock \in [Symbols -> Sessions \cup {Nobody}]
    /\ pc \in [Sessions -> {"idle", "open", "wallet", "position", "insert", "execute",
                            "rejecting", "settled"}]
    /\ req \in [Sessions -> Request]
    /\ work \in [Sessions -> Work]

\* The sessions that have been granted the wallet row.
Trading == {s \in Sessions :
              pc[s] \in {"position", "insert", "execute", "rejecting", "settled"}}

\* The wallet row serialises order placement: two sessions are never both
\* between their wallet lock and their commit.
OneTraderAtATime == \A s, t \in Trading : s = t

\* A session about to insert a position row finds the key free, both of a
\* committed row and of another session's uncommitted insert: the recovery
\* path of get_or_create_for_update, whose rollback would give up the wallet
\* lock, is never taken by place_order.
NoInsertConflict ==
    \A s \in Sessions : pc[s] = "insert" =>
        /\ req[s].symbol \notin rows
        /\ positionLock[req[s].symbol] = Nobody

\* The wallet's CHECK (cash_balance >= 0) never trips at COMMIT: neither the
\* committed balance nor one about to be committed is negative, however many
\* orders were validated against the same money.
CashNonNegative ==
    /\ wallet.cash >= 0
    /\ \A s \in Sessions : pc[s] = "settled" => work[s].cash >= 0

\* positions' CHECK average_price_matches_quantity holds of every committed
\* row and of every row about to be committed: a flat position carries no
\* entry price and an open one always does.
PricedIffOpen(position) == (position.quantity = 0) <=> (position.average = 0)
EntryPriceMatchesQuantity ==
    /\ \A symbol \in Symbols : PricedIffOpen(positions[symbol])
    /\ \A s \in Sessions : pc[s] = "settled" => PricedIffOpen(work[s].position)

\* SELL and BUY_TO_COVER only ever close: at the moment it commits, all of
\* such a fill came out of the position held, so no concurrent fill can turn
\* a close into an opening trade the other way.
CloseOnlyNeverOpens ==
    \A trade \in trades :
        trade.side \in {"SELL", "BUY_TO_COVER"} => trade.closed = trade.quantity

\* Every committed change of the account is one step of the abstract ledger:
\* a fill computed from the cash and the position of that very instant, the
\* opening of a wallet that did not exist, or a reset.  Rejected, aborted and
\* half-done orders change nothing, and orders commit in the order of their
\* ids, so that "newest first" by id is newest first by settlement.
LedgerSpec == ledger!LedgerSpec

\* A request that has arrived is answered: it is filled, rejected or fails,
\* and never waits for ever for another session's row lock.
EveryRequestEnds == \A s \in Sessions : pc[s] # "idle" ~> pc[s] = "idle"
===============================================================================
