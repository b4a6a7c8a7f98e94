-------------------------- MODULE TradingBooksProofs --------------------------
(***************************************************************************)
(* The books of the engine add up, for any number of sessions, instruments *)
(* and orders and for every scale: each commit adds one trade, and moves   *)
(* every sum by that trade's amount.                                       *)
(***************************************************************************)
EXTENDS TradingBooks, TradingEngineProofs

\* The ids not yet committed, which are those to come and the one in flight.
Undecided ==
    {id \in OrderIds : \/ id >= nextId
                       \/ \E s \in Sessions : /\ pc[s] \in {"rejecting", "settled"}
                                              /\ work[s].id = id}

\* What the trade log is, beyond what its type says.
LogInv ==
    /\ IsFiniteSet(trades)
    /\ \A trade \in trades : /\ trade.order \in OrderIds
                             /\ trade.epoch <= wallet.resets
                             /\ trade.closed = 0 => trade.gross = 0
    /\ ~wallet.open => trades = {}
    /\ \A id \in Undecided : orders[id].status = "NONE"

BooksInv == LogInv /\ BooksMatchTrades

-----------------------------------------------------------------------------
(* Sums over trades *)

LEMMA TradeAmounts ==
    ASSUME NEW trade \in TradeRow
    PROVE  /\ trade.gross \in Int /\ trade.charges \in Int /\ trade.quantity \in Nat
           /\ SignedQuantity(trade) \in Int /\ TradeCash(trade) \in Int
           /\ Net(trade) \in Int /\ Profit(trade) \in Int /\ Loss(trade) \in Int
  <1>1. /\ trade.gross \in Int /\ trade.charges \in Nat /\ trade.quantity \in Nat
        /\ trade.price \in Nat /\ trade.side \in Side
    BY DEF TradeRow
  <1>2. SignedQuantity(trade) \in Int
    BY <1>1 DEF SignedQuantity, Direction
  <1>3. TradeCash(trade) \in Int
    BY <1>1, AffordableLeavesNoDebt DEF TradeCash
  <1>4. Net(trade) \in Int /\ Profit(trade) \in Int /\ Loss(trade) \in Int
    BY <1>1 DEF Net, Profit, Loss
  <1> QED BY <1>1, <1>2, <1>3, <1>4

LEMMA TradeSumsType ==
    ASSUME NEW S \in SUBSET TradeRow, IsFiniteSet(S)
    PROVE  /\ SumFunction([trade \in S |-> trade.gross]) \in Int
           /\ SumFunction([trade \in S |-> trade.charges]) \in Int
           /\ SumFunction([trade \in S |-> SignedQuantity(trade)]) \in Int
           /\ SumFunction([trade \in S |-> TradeCash(trade)]) \in Int
           /\ SumFunction([trade \in S |-> Net(trade)]) \in Int
           /\ SumFunction([trade \in S |-> Profit(trade)]) \in Int
           /\ SumFunction([trade \in S |-> Loss(trade)]) \in Int
  <1>1. ASSUME NEW f, f \in [S -> Int]
        PROVE  SumFunction(f) \in Int
    BY <1>1, SumType
  <1>2. /\ [trade \in S |-> trade.gross] \in [S -> Int]
        /\ [trade \in S |-> trade.charges] \in [S -> Int]
        /\ [trade \in S |-> SignedQuantity(trade)] \in [S -> Int]
        /\ [trade \in S |-> TradeCash(trade)] \in [S -> Int]
        /\ [trade \in S |-> Net(trade)] \in [S -> Int]
        /\ [trade \in S |-> Profit(trade)] \in [S -> Int]
        /\ [trade \in S |-> Loss(trade)] \in [S -> Int]
    BY TradeAmounts
  <1> QED BY <1>1, <1>2

\* One more trade moves every sum by its amount.
LEMMA TradeSumsGrow ==
    ASSUME NEW S \in SUBSET TradeRow, IsFiniteSet(S), NEW new \in TradeRow, new \notin S
    PROVE  /\ SumFunction([trade \in S \cup {new} |-> trade.gross])
                = SumFunction([trade \in S |-> trade.gross]) + new.gross
           /\ SumFunction([trade \in S \cup {new} |-> trade.charges])
                = SumFunction([trade \in S |-> trade.charges]) + new.charges
           /\ SumFunction([trade \in S \cup {new} |-> SignedQuantity(trade)])
                = SumFunction([trade \in S |-> SignedQuantity(trade)]) + SignedQuantity(new)
           /\ SumFunction([trade \in S \cup {new} |-> TradeCash(trade)])
                = SumFunction([trade \in S |-> TradeCash(trade)]) + TradeCash(new)
           /\ SumFunction([trade \in S \cup {new} |-> Net(trade)])
                = SumFunction([trade \in S |-> Net(trade)]) + Net(new)
           /\ SumFunction([trade \in S \cup {new} |-> Profit(trade)])
                = SumFunction([trade \in S |-> Profit(trade)]) + Profit(new)
           /\ SumFunction([trade \in S \cup {new} |-> Loss(trade)])
                = SumFunction([trade \in S |-> Loss(trade)]) + Loss(new)
  <1> DEFINE T == S \cup {new}
  <1>1. ASSUME NEW f, NEW g, f \in [S -> Int], g \in [T -> Int], \A x \in S : g[x] = f[x]
        PROVE  SumFunction(g) = SumFunction(f) + g[new]
    BY <1>1, SumGrows
  <1>2. T \subseteq TradeRow /\ new \in T /\ S \subseteq T
    OBVIOUS
  <1>3. SumFunction([trade \in T |-> trade.gross])
          = SumFunction([trade \in S |-> trade.gross]) + new.gross
    <2> DEFINE f == [trade \in S |-> trade.gross]
               g == [trade \in T |-> trade.gross]
    <2>1. f \in [S -> Int] /\ g \in [T -> Int] /\ (\A x \in S : g[x] = f[x])
          /\ g[new] = new.gross
      BY <1>2, TradeAmounts
    <2>2. SumFunction(g) = SumFunction(f) + g[new]
      <3> HIDE DEF f, g, T
      <3> QED BY <1>1, <2>1
    <2> QED BY <2>1, <2>2
  <1>4. SumFunction([trade \in T |-> trade.charges])
          = SumFunction([trade \in S |-> trade.charges]) + new.charges
    <2> DEFINE f == [trade \in S |-> trade.charges]
               g == [trade \in T |-> trade.charges]
    <2>1. f \in [S -> Int] /\ g \in [T -> Int] /\ (\A x \in S : g[x] = f[x])
          /\ g[new] = new.charges
      BY <1>2, TradeAmounts
    <2>2. SumFunction(g) = SumFunction(f) + g[new]
      <3> HIDE DEF f, g, T
      <3> QED BY <1>1, <2>1
    <2> QED BY <2>1, <2>2
  <1>5. SumFunction([trade \in T |-> SignedQuantity(trade)])
          = SumFunction([trade \in S |-> SignedQuantity(trade)]) + SignedQuantity(new)
    <2> DEFINE f == [trade \in S |-> SignedQuantity(trade)]
               g == [trade \in T |-> SignedQuantity(trade)]
    <2>1. f \in [S -> Int] /\ g \in [T -> Int] /\ (\A x \in S : g[x] = f[x])
          /\ g[new] = SignedQuantity(new)
      BY <1>2, TradeAmounts
    <2>2. SumFunction(g) = SumFunction(f) + g[new]
      <3> HIDE DEF f, g, T
      <3> QED BY <1>1, <2>1
    <2> QED BY <2>1, <2>2
  <1>6. SumFunction([trade \in T |-> TradeCash(trade)])
          = SumFunction([trade \in S |-> TradeCash(trade)]) + TradeCash(new)
    <2> DEFINE f == [trade \in S |-> TradeCash(trade)]
               g == [trade \in T |-> TradeCash(trade)]
    <2>1. f \in [S -> Int] /\ g \in [T -> Int] /\ (\A x \in S : g[x] = f[x])
          /\ g[new] = TradeCash(new)
      BY <1>2, TradeAmounts
    <2>2. SumFunction(g) = SumFunction(f) + g[new]
      <3> HIDE DEF f, g, T
      <3> QED BY <1>1, <2>1
    <2> QED BY <2>1, <2>2
  <1>7. SumFunction([trade \in T |-> Net(trade)])
          = SumFunction([trade \in S |-> Net(trade)]) + Net(new)
    <2> DEFINE f == [trade \in S |-> Net(trade)]
               g == [trade \in T |-> Net(trade)]
    <2>1. f \in [S -> Int] /\ g \in [T -> Int] /\ (\A x \in S : g[x] = f[x])
          /\ g[new] = Net(new)
      BY <1>2, TradeAmounts
    <2>2. SumFunction(g) = SumFunction(f) + g[new]
      <3> HIDE DEF f, g, T
      <3> QED BY <1>1, <2>1
    <2> QED BY <2>1, <2>2
  <1>8. SumFunction([trade \in T |-> Profit(trade)])
          = SumFunction([trade \in S |-> Profit(trade)]) + Profit(new)
    <2> DEFINE f == [trade \in S |-> Profit(trade)]
               g == [trade \in T |-> Profit(trade)]
    <2>1. f \in [S -> Int] /\ g \in [T -> Int] /\ (\A x \in S : g[x] = f[x])
          /\ g[new] = Profit(new)
      BY <1>2, TradeAmounts
    <2>2. SumFunction(g) = SumFunction(f) + g[new]
      <3> HIDE DEF f, g, T
      <3> QED BY <1>1, <2>1
    <2> QED BY <2>1, <2>2
  <1>9. SumFunction([trade \in T |-> Loss(trade)])
          = SumFunction([trade \in S |-> Loss(trade)]) + Loss(new)
    <2> DEFINE f == [trade \in S |-> Loss(trade)]
               g == [trade \in T |-> Loss(trade)]
    <2>1. f \in [S -> Int] /\ g \in [T -> Int] /\ (\A x \in S : g[x] = f[x])
          /\ g[new] = Loss(new)
      BY <1>2, TradeAmounts
    <2>2. SumFunction(g) = SumFunction(f) + g[new]
      <3> HIDE DEF f, g, T
      <3> QED BY <1>1, <2>1
    <2> QED BY <2>1, <2>2
  <1> QED BY <1>3, <1>4, <1>5, <1>6, <1>7, <1>8, <1>9

-----------------------------------------------------------------------------
(* The commit of a fill *)

\* What CommitFill does to the tables, said of the trade it adds.
Commits(s, new) ==
    /\ wallet.open
    /\ new \in TradeRow /\ new.symbol \in Symbols /\ new.quantity \in Nat \ {0}
    /\ new.order \in OrderIds /\ new.order = work[s].id
    /\ \A trade \in trades : trade.order < new.order
    /\ new = FillRecord(positions[new.symbol], new.order, new.symbol, new.side, new.quantity,
                        new.price, new.charges, wallet.resets)
    /\ CanFill(wallet.cash, positions[new.symbol], new.side, new.quantity, new.price,
               new.charges)
    /\ new.price # 0
    /\ trades' = trades \cup {new}
    /\ wallet' = [wallet EXCEPT !.cash = wallet.cash + TradeCash(new)]
    /\ positions' = [positions EXCEPT ![new.symbol] =
                        AfterFill(positions[new.symbol], new.side, new.quantity, new.price,
                                  new.charges)]
    /\ orders' = [orders EXCEPT ![new.order] = [status |-> "FILLED", symbol |-> new.symbol,
                                                side |-> new.side, quantity |-> new.quantity]]

LEMMA CommitFillCommits ==
    ASSUME IInv, NEW s \in Sessions, CommitFill(s)
    PROVE  \E new \in TradeRow :
              work[s].fill = {new} /\ new.symbol = req[s].symbol /\ Commits(s, new)
  <1>1. pc[s] = "settled"
    BY DEF CommitFill
  <1> DEFINE held == positions[req[s].symbol]
  <1>2. PICK price \in Prices, charges \in Charges : FillOf(s, price, charges)
    BY <1>1 DEF IInv, SettledInv
  <1>3. /\ req[s].side \in Side /\ req[s].symbol \in Symbols
        /\ req[s].quantity \in Nat \ {0}
        /\ price \in Nat \ {0} /\ charges \in Nat
        /\ work[s].id \in Nat /\ wallet.resets \in Nat /\ held \in Position
    BY <1>1, DataAssumption DEF IInv, TypeOK, ReadInv, Request, Work
  <1> DEFINE new == FillRecord(held, work[s].id, req[s].symbol, req[s].side,
                               req[s].quantity, price, charges, wallet.resets)
  <1>4. new \in TradeRow
    BY <1>3, FillRecordType
  <1>5. /\ new.order = work[s].id /\ new.symbol = req[s].symbol /\ new.side = req[s].side
        /\ new.quantity = req[s].quantity /\ new.price = price /\ new.charges = charges
    BY DEF FillRecord
  <1>6. /\ work[s].fill = {new}
        /\ work[s].cash = wallet.cash + TradeCash(new)
        /\ work[s].position = AfterFill(positions[new.symbol], new.side, new.quantity,
                                        new.price, new.charges)
        /\ CanFill(wallet.cash, positions[new.symbol], new.side, new.quantity, new.price,
                   new.charges)
    BY <1>2, <1>5 DEF FillOf, TradeCash
  <1>7. new = FillRecord(positions[new.symbol], new.order, new.symbol, new.side,
                         new.quantity, new.price, new.charges, wallet.resets)
    BY <1>5
  <1>8. /\ wallet.open /\ work[s].id \in OrderIds
        /\ \A trade \in trades : trade.order < work[s].id
    BY <1>1 DEF IInv, LockInv, IdInv, Trader
  <1> HIDE DEF new
  <1>9. Commits(s, new)
    BY <1>3, <1>4, <1>5, <1>6, <1>7, <1>8 DEF Commits, CommitFill, OrderOf
  <1> QED BY <1>4, <1>5, <1>6, <1>9

\* The position row moves by the trade's amounts.
LEMMA PositionMoves ==
    ASSUME NEW position \in Position, NEW id, NEW symbol, NEW side \in Side,
           NEW quantity \in Nat, NEW price \in Nat, NEW charges \in Nat, NEW epoch
    PROVE  LET after == AfterFill(position, side, quantity, price, charges)
               trade == FillRecord(position, id, symbol, side, quantity, price, charges,
                                   epoch)
           IN  /\ after.quantity = position.quantity + SignedQuantity(trade)
               /\ after.realized = position.realized + trade.gross
               /\ after.charges = position.charges + trade.charges
               /\ after.net = after.realized - after.charges
               /\ trade.closed = 0 => trade.gross = 0
               /\ trade.epoch = epoch
  <1> DEFINE outcome == ApplyFill(position.quantity, position.average,
                                  Direction(side) * quantity, price)
             after == AfterFill(position, side, quantity, price, charges)
             trade == FillRecord(position, id, symbol, side, quantity, price, charges, epoch)
  <1>1. outcome.quantity = position.quantity + Direction(side) * quantity
    BY DEF ApplyFill
  <1>2. outcome.closed = 0 => outcome.realized = 0
    BY DEF ApplyFill
  <1>3. outcome.realized \in Int /\ position.realized \in Int /\ position.charges \in Nat
    <2>1. /\ Direction(side) * quantity \in Int /\ position.quantity \in Int
          /\ position.average \in Nat
      BY DEF Direction, Position
    <2> QED BY <2>1, ApplyFillRealized DEF Position
  <1>4. after = [quantity |-> outcome.quantity, average |-> outcome.average,
                 realized |-> position.realized + outcome.realized,
                 charges |-> position.charges + charges,
                 net |-> position.realized + outcome.realized
                           - (position.charges + charges)]
    BY DEF AfterFill
  <1>5. trade = [order |-> id, symbol |-> symbol, side |-> side, quantity |-> quantity,
                 price |-> price, charges |-> charges, gross |-> outcome.realized,
                 closed |-> outcome.closed, epoch |-> epoch]
    BY DEF FillRecord
  <1>6. SignedQuantity(trade) = Direction(side) * quantity
    BY <1>5 DEF SignedQuantity
  <1> HIDE DEF outcome, after, trade
  <1>7. /\ after.quantity = outcome.quantity
        /\ after.realized = position.realized + outcome.realized
        /\ after.charges = position.charges + charges
        /\ after.net = position.realized + outcome.realized - (position.charges + charges)
    BY <1>4
  <1>8. /\ trade.gross = outcome.realized /\ trade.closed = outcome.closed
        /\ trade.charges = charges /\ trade.epoch = epoch
    BY <1>5
  <1>9. after.quantity = position.quantity + SignedQuantity(trade)
    BY <1>1, <1>6, <1>7
  <1>10. /\ after.realized = position.realized + trade.gross
        /\ after.charges = position.charges + trade.charges
        /\ after.net = after.realized - after.charges
    BY <1>7, <1>8, <1>3
  <1>11. trade.closed = 0 => trade.gross = 0
    BY <1>2, <1>8
  <1>12. trade.epoch = epoch
    BY <1>8
  <1> QED BY <1>9, <1>10, <1>11, <1>12 DEF after, trade

\* The trade a commit adds is a new one, of a known order, and moves the
\* position by its amounts.
LEMMA CommitFacts ==
    ASSUME IInv, LogInv, NEW s \in Sessions, NEW new \in TradeRow, Commits(s, new)
    PROVE  /\ new \notin trades /\ IsFiniteSet(trades')
           /\ trades \subseteq TradeRow /\ trades' \subseteq TradeRow
           /\ new.epoch = wallet.resets
           /\ new.closed = 0 => new.gross = 0
           /\ wallet'.cash = wallet.cash + TradeCash(new)
           /\ wallet'.open = wallet.open /\ wallet'.initial = wallet.initial
           /\ wallet'.resets = wallet.resets
           /\ positions[new.symbol] \in Position
           /\ positions'[new.symbol].quantity = positions[new.symbol].quantity + SignedQuantity(new)
           /\ positions'[new.symbol].realized = positions[new.symbol].realized + new.gross
           /\ positions'[new.symbol].charges = positions[new.symbol].charges + new.charges
           /\ positions'[new.symbol].net = positions'[new.symbol].realized
                                             - positions'[new.symbol].charges
           /\ \A symbol \in Symbols : symbol # new.symbol => positions'[symbol] = positions[symbol]
  <1> DEFINE held == positions[new.symbol]
             after == AfterFill(held, new.side, new.quantity, new.price, new.charges)
             trade == FillRecord(held, new.order, new.symbol, new.side, new.quantity,
                                 new.price, new.charges, wallet.resets)
  <1>1. new \notin trades
    BY DEF Commits, TradeRow
  <1>2. IsFiniteSet(trades') /\ trades \subseteq TradeRow /\ trades' \subseteq TradeRow
    BY FS_AddElement DEF Commits, LogInv, IInv, TypeOK
  <1>3. held \in Position /\ new = trade /\ positions'[new.symbol] = after
    BY DEF Commits, IInv, TypeOK
  <1>4. /\ after.quantity = held.quantity + SignedQuantity(trade)
        /\ after.realized = held.realized + trade.gross
        /\ after.charges = held.charges + trade.charges
        /\ after.net = after.realized - after.charges
        /\ trade.closed = 0 => trade.gross = 0
        /\ trade.epoch = wallet.resets
    <2>1. new.side \in Side /\ new.quantity \in Nat /\ new.price \in Nat /\ new.charges \in Nat
      BY DEF TradeRow
    <2> HIDE DEF held
    <2> QED BY <1>3, <2>1, PositionMoves
  <1>5. /\ wallet'.cash = wallet.cash + TradeCash(new)
        /\ wallet'.open = wallet.open /\ wallet'.initial = wallet.initial
        /\ wallet'.resets = wallet.resets
    BY DEF Commits, IInv, TypeOK
  <1>6. \A symbol \in Symbols : symbol # new.symbol => positions'[symbol] = positions[symbol]
    BY DEF Commits, IInv, TypeOK
  <1> HIDE DEF after, trade
  <1> QED BY <1>1, <1>2, <1>3, <1>4, <1>5, <1>6

LEMMA CommitCash ==
    ASSUME IInv, BooksInv, NEW s \in Sessions, NEW new \in TradeRow, Commits(s, new)
    PROVE  CashMatchesTrades'
  <1> DEFINE since == {trade \in trades : trade.epoch = wallet.resets}
             sum(S) == SumFunction([trade \in S |-> TradeCash(trade)])
  <1>1. /\ new \notin trades /\ trades \subseteq TradeRow /\ IsFiniteSet(trades)
        /\ new.epoch = wallet.resets
        /\ wallet'.cash = wallet.cash + TradeCash(new)
        /\ wallet'.open = wallet.open /\ wallet'.initial = wallet.initial
        /\ wallet'.resets = wallet.resets
    BY CommitFacts DEF BooksInv, LogInv
  <1>2. since' = since \cup {new} /\ new \notin since
    BY <1>1 DEF Commits
  <1>3. since \in SUBSET TradeRow /\ IsFiniteSet(since)
    BY <1>1, FS_Subset
  <1>4. sum(since \cup {new}) = sum(since) + TradeCash(new)
    <2> HIDE DEF since
    <2> QED BY <1>2, <1>3, TradeSumsGrow
  <1>5. wallet.cash = wallet.initial + sum(since)
    BY DEF BooksInv, BooksMatchTrades, CashMatchesTrades, Commits
  <1>6. sum(since) \in Int /\ TradeCash(new) \in Int /\ wallet.initial \in Int
    <2> HIDE DEF since
    <2>1. sum(since) \in Int
      BY <1>3, TradeSumsType
    <2>2. wallet.initial \in Int
      BY DEF IInv, TypeOK
    <2> QED BY <2>1, <2>2, TradeAmounts
  <1> HIDE DEF sum
  <1>7. wallet'.cash = wallet'.initial + sum(since \cup {new})
    BY <1>1, <1>4, <1>5, <1>6
  <1>8. wallet'.cash = wallet'.initial + sum(since')
    BY <1>2, <1>7
  <1> QED BY <1>8 DEF CashMatchesTrades, sum

LEMMA CommitPosition ==
    ASSUME IInv, BooksInv, NEW s \in Sessions, NEW new \in TradeRow, Commits(s, new)
    PROVE  PositionMatchesTrades'
  <1> DEFINE gross(S) == SumFunction([trade \in S |-> trade.gross])
             charges(S) == SumFunction([trade \in S |-> trade.charges])
             held(S) == SumFunction([trade \in S |-> SignedQuantity(trade)])
             Agrees(position, S) == /\ position.quantity = held(S)
                                    /\ position.realized = gross(S)
                                    /\ position.charges = charges(S)
                                    /\ position.net = gross(S) - charges(S)
  <1>1. /\ new \notin trades /\ trades \subseteq TradeRow /\ IsFiniteSet(trades)
        /\ positions'[new.symbol].quantity = positions[new.symbol].quantity + SignedQuantity(new)
        /\ positions'[new.symbol].realized = positions[new.symbol].realized + new.gross
        /\ positions'[new.symbol].charges = positions[new.symbol].charges + new.charges
        /\ positions'[new.symbol].net = positions'[new.symbol].realized
                                          - positions'[new.symbol].charges
        /\ \A symbol \in Symbols : symbol # new.symbol => positions'[symbol] = positions[symbol]
    BY CommitFacts DEF BooksInv, LogInv
  <1>2. trades' = trades \cup {new} /\ new.symbol \in Symbols
    BY DEF Commits
  <1>3. \A symbol \in Symbols : Agrees(positions[symbol], TradesIn(symbol))
    BY DEF BooksInv, BooksMatchTrades, PositionMatchesTrades
  <1>4. SUFFICES ASSUME NEW symbol \in Symbols
                 PROVE  Agrees(positions'[symbol], TradesIn(symbol)')
    BY DEF PositionMatchesTrades
  <1>5. CASE symbol # new.symbol
    <2>1. TradesIn(symbol)' = TradesIn(symbol)
      BY <1>2, <1>5 DEF TradesIn
    <2> HIDE DEF Agrees
    <2> QED BY <1>1, <1>3, <1>5, <2>1
  <1>6. CASE symbol = new.symbol
    <2> DEFINE S == TradesIn(symbol)
    <2>1. S' = S \cup {new} /\ new \notin S
      BY <1>1, <1>2, <1>6 DEF TradesIn
    <2>2. S \in SUBSET TradeRow /\ IsFiniteSet(S)
      BY <1>1, FS_Subset DEF TradesIn
    <2>3. Agrees(positions[symbol], S)
      BY <1>3
    <2> HIDE DEF S
    <2>4. /\ gross(S \cup {new}) = gross(S) + new.gross
          /\ charges(S \cup {new}) = charges(S) + new.charges
          /\ held(S \cup {new}) = held(S) + SignedQuantity(new)
      BY <2>1, <2>2, TradeSumsGrow
    <2> HIDE DEF gross, charges, held
    <2>5. Agrees(positions'[symbol], S \cup {new})
      BY <1>1, <1>6, <2>3, <2>4
    <2>6. Agrees(positions'[symbol], S')
      <3> HIDE DEF Agrees
      <3> QED BY <2>1, <2>5
    <2> QED BY <2>6 DEF S
  <1> QED BY <1>5, <1>6

LEMMA CommitLog ==
    ASSUME IInv, BooksInv, NEW s \in Sessions, CommitFill(s), NEW new \in TradeRow,
           Commits(s, new)
    PROVE  LogInv' /\ orders[new.order].status = "NONE"
  <1>1. /\ IsFiniteSet(trades') /\ trades' = trades \cup {new}
        /\ new.epoch = wallet.resets /\ new.order \in OrderIds
        /\ new.closed = 0 => new.gross = 0
        /\ wallet.open /\ wallet'.open = wallet.open /\ wallet'.resets = wallet.resets
        /\ wallet.resets \in Nat
    BY CommitFacts DEF BooksInv, Commits, IInv, TypeOK
  <1>2. \A trade \in trades' : /\ trade.order \in OrderIds
                               /\ trade.epoch <= wallet'.resets
                               /\ trade.closed = 0 => trade.gross = 0
    BY <1>1 DEF BooksInv, LogInv
  <1>3. /\ pc[s] = "settled" /\ new.order = work[s].id /\ nextId' = nextId
        /\ pc' = [pc EXCEPT ![s] = "idle"]
        /\ orders' = [orders EXCEPT ![new.order] =
                         [status |-> "FILLED", symbol |-> new.symbol, side |-> new.side,
                          quantity |-> new.quantity]]
    BY DEF CommitFill, End, Commits
  <1>4. new.order \in Undecided
    BY <1>1, <1>3 DEF Undecided
  <1>5. \A t \in Sessions : pc[t] \in {"rejecting", "settled"} => t = s
    BY <1>3, TraderAlone DEF Trader
  <1>6. \A t \in Sessions : pc'[t] \notin {"rejecting", "settled"}
    BY <1>3, <1>5 DEF IInv, TypeOK
  <1>7. new.order < nextId /\ nextId \in Nat
    BY <1>3 DEF IInv, IdInv, TypeOK
  <1>8. ASSUME NEW id \in Undecided' PROVE orders'[id].status = "NONE"
    <2>1. id \in OrderIds /\ id >= nextId
      BY <1>3, <1>6 DEF Undecided
    <2>2. id \in Undecided /\ id # new.order
      BY <1>7, <2>1 DEF Undecided, OrderIds
    <2> QED BY <1>3, <2>2 DEF BooksInv, LogInv, IInv, TypeOK
  <1> QED BY <1>1, <1>2, <1>4, <1>8 DEF BooksInv, LogInv

LEMMA CommitFilled ==
    ASSUME IInv, BooksInv, NEW s \in Sessions, NEW new \in TradeRow, Commits(s, new)
    PROVE  FilledMatchesTrades'
  <1>1. /\ trades' = trades \cup {new} /\ new.order \in OrderIds
        /\ \A trade \in trades : trade.order < new.order
        /\ orders' = [orders EXCEPT ![new.order] =
                         [status |-> "FILLED", symbol |-> new.symbol, side |-> new.side,
                          quantity |-> new.quantity]]
        /\ orders \in [OrderIds -> OrderRow]
    BY DEF Commits, IInv, TypeOK
  <1> DEFINE Made(T, id) == {trade \in T : trade.order = id}
             Agrees(row, made) ==
                /\ Cardinality(made) = IF row.status = "FILLED" THEN 1 ELSE 0
                /\ \A trade \in made : /\ trade.symbol = row.symbol
                                       /\ trade.side = row.side
                                       /\ trade.quantity = row.quantity
  <1>2. \A id \in OrderIds : Agrees(orders[id], Made(trades, id))
    BY DEF BooksInv, BooksMatchTrades, FilledMatchesTrades
  <1>3. SUFFICES ASSUME NEW id \in OrderIds
                 PROVE  Agrees(orders'[id], Made(trades', id))
    BY DEF FilledMatchesTrades
  <1>4. CASE id # new.order
    <2>1. Made(trades', id) = Made(trades, id) /\ orders'[id] = orders[id]
      BY <1>1, <1>4
    <2> HIDE DEF Agrees, Made
    <2> QED BY <1>2, <2>1
  <1>5. CASE id = new.order
    <2>1. Made(trades', id) = {new}
      BY <1>1, <1>5 DEF OrderIds
    <2>2. Cardinality({new}) = 1
      BY FS_Singleton
    <2>3. orders'[id] = [status |-> "FILLED", symbol |-> new.symbol, side |-> new.side,
                         quantity |-> new.quantity]
      BY <1>1, <1>5
    <2>4. Agrees(orders'[id], {new})
      BY <2>2, <2>3
    <2> HIDE DEF Agrees, Made
    <2> QED BY <2>1, <2>4
  <1> QED BY <1>4, <1>5

\* Orders change one row at a time.
LEMMA OrdersCount ==
    ASSUME orders \in [OrderIds -> OrderRow], NEW id \in OrderIds, orders[id].status = "NONE",
           NEW row \in OrderRow, row.status # "NONE", orders' = [orders EXCEPT ![id] = row]
    PROVE  /\ OrderCounts'.total = OrderCounts.total + 1
           /\ OrderCounts'.filled = OrderCounts.filled + IF row.status = "FILLED" THEN 1 ELSE 0
           /\ OrderCounts'.rejected =
                OrderCounts.rejected + IF row.status = "REJECTED" THEN 1 ELSE 0
           /\ OrderCounts.total \in Nat /\ OrderCounts.filled \in Nat
           /\ OrderCounts.rejected \in Nat
  <1> DEFINE some == {i \in OrderIds : orders[i].status # "NONE"}
  <1>1. IsFiniteSet(OrderIds)
    BY FS_Interval, DataAssumption DEF OrderIds
  <1>2. /\ IsFiniteSet(some) /\ IsFiniteSet(OrdersAt("FILLED"))
        /\ IsFiniteSet(OrdersAt("REJECTED"))
    BY <1>1, FS_Subset DEF OrdersAt
  <1>3. some' = some \cup {id} /\ id \notin some
    OBVIOUS
  <1>4. ASSUME NEW status \in {"FILLED", "REJECTED"}
        PROVE  OrdersAt(status)' = IF row.status = status THEN OrdersAt(status) \cup {id}
                                                          ELSE OrdersAt(status)
    BY DEF OrdersAt
  <1>5. id \notin OrdersAt("FILLED") /\ id \notin OrdersAt("REJECTED")
    BY DEF OrdersAt
  <1>6. Cardinality(some') = Cardinality(some) + 1 /\ Cardinality(some) \in Nat
    <2> HIDE DEF some
    <2> QED BY <1>2, <1>3, FS_AddElement, FS_CardinalityType
  <1>7. ASSUME NEW status \in {"FILLED", "REJECTED"}
        PROVE  /\ Cardinality(OrdersAt(status)') =
                    Cardinality(OrdersAt(status)) + IF row.status = status THEN 1 ELSE 0
               /\ Cardinality(OrdersAt(status)) \in Nat
    BY <1>2, <1>4, <1>5, FS_AddElement, FS_CardinalityType
  <1>8. /\ OrderCounts'.total = Cardinality(some') /\ OrderCounts.total = Cardinality(some)
        /\ OrderCounts'.filled = Cardinality(OrdersAt("FILLED")')
        /\ OrderCounts.filled = Cardinality(OrdersAt("FILLED"))
        /\ OrderCounts'.rejected = Cardinality(OrdersAt("REJECTED")')
        /\ OrderCounts.rejected = Cardinality(OrdersAt("REJECTED"))
    BY DEF OrderCounts
  <1> HIDE DEF some
  <1> QED BY <1>6, <1>7, <1>8

\* A sum over the positions changes by one instrument's.
LEMMA PositionSumsMove ==
    ASSUME NEW before, NEW after, before \in [Symbols -> Position],
           NEW symbol \in Symbols, after \in [Symbols -> Position],
           \A x \in Symbols : x # symbol => after[x] = before[x]
    PROVE  /\ SumFunction([x \in Symbols |-> after[x].realized])
                = SumFunction([x \in Symbols |-> before[x].realized])
                    - before[symbol].realized + after[symbol].realized
           /\ SumFunction([x \in Symbols |-> after[x].charges])
                = SumFunction([x \in Symbols |-> before[x].charges])
                    - before[symbol].charges + after[symbol].charges
           /\ SumFunction([x \in Symbols |-> after[x].net])
                = SumFunction([x \in Symbols |-> before[x].net])
                    - before[symbol].net + after[symbol].net
           /\ SumFunction([x \in Symbols |-> before[x].realized]) \in Int
           /\ SumFunction([x \in Symbols |-> before[x].charges]) \in Int
           /\ SumFunction([x \in Symbols |-> before[x].net]) \in Int
  <1>1. ASSUME NEW f, NEW g, f \in [Symbols -> Int], g \in [Symbols -> Int],
               \A x \in Symbols : x # symbol => g[x] = f[x]
        PROVE  /\ SumFunction(g) = SumFunction(f) - f[symbol] + g[symbol]
               /\ SumFunction(f) \in Int
    <2>1. IsFiniteSet(Symbols)
      BY DataAssumption
    <2> QED BY <1>1, <2>1, SumChanges, SumType
  <1>2. \A x \in Symbols : /\ before[x].realized \in Int /\ after[x].realized \in Int
                           /\ before[x].charges \in Int /\ after[x].charges \in Int
                           /\ before[x].net \in Int /\ after[x].net \in Int
    BY DEF Position
  <1>3. /\ SumFunction([x \in Symbols |-> after[x].realized])
             = SumFunction([x \in Symbols |-> before[x].realized])
                 - before[symbol].realized + after[symbol].realized
        /\ SumFunction([x \in Symbols |-> before[x].realized]) \in Int
    <2> DEFINE f == [x \in Symbols |-> before[x].realized]
               g == [x \in Symbols |-> after[x].realized]
    <2>1. /\ f \in [Symbols -> Int] /\ g \in [Symbols -> Int]
          /\ \A x \in Symbols : x # symbol => g[x] = f[x]
          /\ f[symbol] = before[symbol].realized /\ g[symbol] = after[symbol].realized
      BY <1>2
    <2>2. SumFunction(g) = SumFunction(f) - f[symbol] + g[symbol] /\ SumFunction(f) \in Int
      <3> HIDE DEF f, g
      <3> QED BY <1>1, <2>1
    <2> QED BY <2>1, <2>2
  <1>4. /\ SumFunction([x \in Symbols |-> after[x].charges])
             = SumFunction([x \in Symbols |-> before[x].charges])
                 - before[symbol].charges + after[symbol].charges
        /\ SumFunction([x \in Symbols |-> before[x].charges]) \in Int
    <2> DEFINE f == [x \in Symbols |-> before[x].charges]
               g == [x \in Symbols |-> after[x].charges]
    <2>1. /\ f \in [Symbols -> Int] /\ g \in [Symbols -> Int]
          /\ \A x \in Symbols : x # symbol => g[x] = f[x]
          /\ f[symbol] = before[symbol].charges /\ g[symbol] = after[symbol].charges
      BY <1>2
    <2>2. SumFunction(g) = SumFunction(f) - f[symbol] + g[symbol] /\ SumFunction(f) \in Int
      <3> HIDE DEF f, g
      <3> QED BY <1>1, <2>1
    <2> QED BY <2>1, <2>2
  <1>5. /\ SumFunction([x \in Symbols |-> after[x].net])
             = SumFunction([x \in Symbols |-> before[x].net])
                 - before[symbol].net + after[symbol].net
        /\ SumFunction([x \in Symbols |-> before[x].net]) \in Int
    <2> DEFINE f == [x \in Symbols |-> before[x].net]
               g == [x \in Symbols |-> after[x].net]
    <2>1. /\ f \in [Symbols -> Int] /\ g \in [Symbols -> Int]
          /\ \A x \in Symbols : x # symbol => g[x] = f[x]
          /\ f[symbol] = before[symbol].net /\ g[symbol] = after[symbol].net
      BY <1>2
    <2>2. SumFunction(g) = SumFunction(f) - f[symbol] + g[symbol] /\ SumFunction(f) \in Int
      <3> HIDE DEF f, g
      <3> QED BY <1>1, <2>1
    <2> QED BY <2>1, <2>2
  <1> QED BY <1>3, <1>4, <1>5

\* The totals of the summary, as sums of positions: one fill moves both alike.
LEMMA CommitTotals ==
    ASSUME IInv, BooksInv, TypeOK', NEW s \in Sessions, NEW new \in TradeRow, Commits(s, new)
    PROVE  /\ Totals'.count = Totals.count + 1 /\ Totals.count \in Nat
           /\ Totals'.gross = SumFunction([x \in Symbols |-> positions[x].realized])'
           /\ Totals'.charges = SumFunction([x \in Symbols |-> positions[x].charges])'
           /\ Totals'.net = SumFunction([x \in Symbols |-> positions[x].net])'
           /\ Totals'.net = Totals.net + Net(new) /\ Totals.net \in Int
  <1> DEFINE gross(S) == SumFunction([trade \in S |-> trade.gross])
             charges(S) == SumFunction([trade \in S |-> trade.charges])
             net(S) == SumFunction([trade \in S |-> Net(trade)])
             Realized(p) == SumFunction([x \in Symbols |-> p[x].realized])
             Charged(p) == SumFunction([x \in Symbols |-> p[x].charges])
             Netted(p) == SumFunction([x \in Symbols |-> p[x].net])
             symbol == new.symbol
  <1>1. /\ new \notin trades /\ trades \subseteq TradeRow /\ IsFiniteSet(trades)
        /\ positions'[symbol].realized = positions[symbol].realized + new.gross
        /\ positions'[symbol].charges = positions[symbol].charges + new.charges
        /\ positions'[symbol].net = positions'[symbol].realized - positions'[symbol].charges
        /\ \A x \in Symbols : x # symbol => positions'[x] = positions[x]
    BY CommitFacts DEF BooksInv, LogInv
  <1>2. /\ trades' = trades \cup {new} /\ symbol \in Symbols
        /\ positions \in [Symbols -> Position] /\ positions' \in [Symbols -> Position]
    BY DEF Commits, IInv, TypeOK
  <1>3. Cardinality(trades') = Cardinality(trades) + 1 /\ Cardinality(trades) \in Nat
    BY <1>1, <1>2, FS_AddElement, FS_CardinalityType
  <1>4. /\ gross(trades) = Realized(positions)
        /\ charges(trades) = Charged(positions)
        /\ net(trades) = Netted(positions)
    BY DEF BooksInv, BooksMatchTrades, PerformanceMatchesBooks, Totals
  <1>5. positions[symbol].net = positions[symbol].realized - positions[symbol].charges
    BY <1>2 DEF BooksInv, BooksMatchTrades, PositionMatchesTrades
  <1>6. /\ gross(trades \cup {new}) = gross(trades) + new.gross
        /\ charges(trades \cup {new}) = charges(trades) + new.charges
        /\ net(trades \cup {new}) = net(trades) + Net(new)
        /\ gross(trades) \in Int /\ charges(trades) \in Int /\ net(trades) \in Int
    BY <1>1, TradeSumsGrow, TradeSumsType
  <1>7. /\ Realized(positions') = Realized(positions) - positions[symbol].realized
                                    + positions'[symbol].realized
        /\ Charged(positions') = Charged(positions) - positions[symbol].charges
                                   + positions'[symbol].charges
        /\ Netted(positions') = Netted(positions) - positions[symbol].net
                                  + positions'[symbol].net
    <2>1. \A x \in Symbols : x # symbol => positions'[x] = positions[x]
      BY <1>1
    <2> HIDE DEF symbol
    <2> QED BY <1>2, <2>1, PositionSumsMove
  <1>8. /\ Totals.count = Cardinality(trades) /\ Totals'.count = Cardinality(trades')
        /\ Totals.net = net(trades) /\ Totals'.net = net(trades')
        /\ Totals'.gross = gross(trades') /\ Totals'.charges = charges(trades')
    BY DEF Totals
  <1>9. /\ positions[symbol].realized \in Int /\ positions'[symbol].realized \in Int
        /\ positions[symbol].charges \in Int /\ positions'[symbol].charges \in Int
        /\ positions[symbol].net \in Int /\ positions'[symbol].net \in Int
    <2>1. positions[symbol] \in Position /\ positions'[symbol] \in Position
      BY <1>2
    <2> HIDE DEF symbol
    <2> QED BY <2>1 DEF Position
  <1>10. Net(new) = new.gross - new.charges /\ new.gross \in Int /\ new.charges \in Int
    BY TradeAmounts DEF Net
  <1> HIDE DEF gross, charges, net, Realized, Charged, Netted, symbol
  <1>11. /\ Realized(positions') = Realized(positions) + new.gross
         /\ Charged(positions') = Charged(positions) + new.charges
         /\ Netted(positions') = Netted(positions) + Net(new)
    BY <1>1, <1>4, <1>5, <1>6, <1>7, <1>9, <1>10
  <1>12. /\ gross(trades') = Realized(positions')
         /\ charges(trades') = Charged(positions')
         /\ net(trades') = Netted(positions')
         /\ net(trades') = net(trades) + Net(new)
    BY <1>2, <1>4, <1>6, <1>11
  <1> QED BY <1>3, <1>6, <1>8, <1>12 DEF Realized, Charged, Netted

\* What closing fills won or lost, and what opening fills cost, make the net.
LEMMA CommitPerformance ==
    ASSUME IInv, BooksInv, TypeOK', NEW s \in Sessions, NEW new \in TradeRow,
           Commits(s, new), orders[new.order].status = "NONE"
    PROVE  PerformanceMatchesBooks'
  <1> DEFINE profit(S) == SumFunction([trade \in S |-> Profit(trade)])
             loss(S) == SumFunction([trade \in S |-> Loss(trade)])
             charges(S) == SumFunction([trade \in S |-> trade.charges])
             opening == trades \ Closing
  <1>1. /\ Totals'.count = Totals.count + 1 /\ Totals.count \in Nat
        /\ Totals'.gross = SumFunction([x \in Symbols |-> positions[x].realized])'
        /\ Totals'.charges = SumFunction([x \in Symbols |-> positions[x].charges])'
        /\ Totals'.net = SumFunction([x \in Symbols |-> positions[x].net])'
        /\ Totals'.net = Totals.net + Net(new) /\ Totals.net \in Int
    BY CommitTotals
  <1>2. /\ Totals.count = OrderCounts.filled
        /\ OrderCounts.total = OrderCounts.filled + OrderCounts.rejected
        /\ Totals.net = Outcomes.profit + Outcomes.loss - charges(opening)
    BY DEF BooksInv, BooksMatchTrades, PerformanceMatchesBooks
  <1>3. /\ new \notin trades /\ trades \subseteq TradeRow /\ IsFiniteSet(trades)
        /\ trades' = trades \cup {new} /\ new.closed \in Nat
        /\ new.closed = 0 => new.gross = 0
    BY CommitFacts DEF BooksInv, LogInv, Commits, TradeRow
  <1>4. /\ OrderCounts'.total = OrderCounts.total + 1
        /\ OrderCounts'.filled = OrderCounts.filled + 1
        /\ OrderCounts'.rejected = OrderCounts.rejected
        /\ OrderCounts.total \in Nat /\ OrderCounts.filled \in Nat
        /\ OrderCounts.rejected \in Nat
    <2> DEFINE row == [status |-> "FILLED", symbol |-> new.symbol, side |-> new.side,
                       quantity |-> new.quantity]
    <2>1. row \in OrderRow /\ row.status = "FILLED"
      BY DEF OrderRow, TradeRow, Commits
    <2>2. /\ new.order \in OrderIds /\ orders' = [orders EXCEPT ![new.order] = row]
          /\ orders \in [OrderIds -> OrderRow]
      BY DEF Commits, IInv, TypeOK
    <2> HIDE DEF row
    <2>3. /\ OrderCounts'.total = OrderCounts.total + 1
          /\ OrderCounts'.filled = OrderCounts.filled
                                     + IF row.status = "FILLED" THEN 1 ELSE 0
          /\ OrderCounts'.rejected = OrderCounts.rejected
                                       + IF row.status = "REJECTED" THEN 1 ELSE 0
          /\ OrderCounts.total \in Nat /\ OrderCounts.filled \in Nat
          /\ OrderCounts.rejected \in Nat
      BY <2>1, <2>2, OrdersCount
    <2> QED BY <2>1, <2>3
  <1>5. /\ IsFiniteSet(Closing) /\ Closing \in SUBSET TradeRow /\ new \notin Closing
        /\ IsFiniteSet(opening) /\ opening \in SUBSET TradeRow /\ new \notin opening
    BY <1>3, FS_Subset DEF Closing
  <1>6. /\ Outcomes.profit = profit(Closing) /\ Outcomes.loss = loss(Closing)
        /\ Outcomes'.profit = profit(Closing') /\ Outcomes'.loss = loss(Closing')
    BY DEF Outcomes
  <1>7. /\ profit(Closing) \in Int /\ loss(Closing) \in Int /\ charges(opening) \in Int
        /\ Profit(new) \in Int /\ Loss(new) \in Int /\ Net(new) \in Int
        /\ new.charges \in Int /\ new.gross \in Int
    BY <1>5, TradeSumsType, TradeAmounts
  <1>8. Totals'.net = Outcomes'.profit + Outcomes'.loss - charges(opening')
    <2>1. CASE new.closed > 0
      <3>1. Closing' = Closing \cup {new} /\ opening' = opening
        BY <1>3, <2>1 DEF Closing
      <3>2. /\ profit(Closing \cup {new}) = profit(Closing) + Profit(new)
            /\ loss(Closing \cup {new}) = loss(Closing) + Loss(new)
        BY <1>5, TradeSumsGrow
      <3>3. Net(new) = Profit(new) + Loss(new)
        BY <1>7 DEF Profit, Loss
      <3>4. charges(opening') = charges(opening)
        BY <3>1
      <3> HIDE DEF profit, loss, charges, opening
      <3> QED BY <1>1, <1>2, <1>6, <1>7, <3>1, <3>2, <3>3, <3>4
    <2>2. CASE new.closed = 0
      <3>1. Closing' = Closing /\ opening' = opening \cup {new}
        BY <1>3, <2>2 DEF Closing
      <3>2. charges(opening \cup {new}) = charges(opening) + new.charges
        <4> HIDE DEF opening
        <4> QED BY <1>5, TradeSumsGrow
      <3>3. Net(new) = -new.charges
        BY <1>3, <1>7, <2>2 DEF Net
      <3>4. charges(opening') = charges(opening) + new.charges
        BY <3>1, <3>2
      <3> HIDE DEF profit, loss, charges, opening
      <3> QED BY <1>1, <1>2, <1>6, <1>7, <3>1, <3>3, <3>4
    <2> QED BY <1>3, <2>1, <2>2
  <1>9. /\ Totals'.count = OrderCounts'.filled
        /\ OrderCounts'.total = OrderCounts'.filled + OrderCounts'.rejected
    BY <1>1, <1>2, <1>4
  <1> QED BY <1>1, <1>8, <1>9 DEF PerformanceMatchesBooks

-----------------------------------------------------------------------------
(* The steps *)

LEMMA InitBooks == Init => BooksInv
  <1> SUFFICES ASSUME Init PROVE BooksInv
    OBVIOUS
  <1>1. /\ trades = {} /\ ~wallet.open
        /\ \A id \in OrderIds : orders[id].status = "NONE"
        /\ \A symbol \in Symbols : positions[symbol] = Flat
    BY DEF Init, NoOrder
  <1>2. LogInv
    BY <1>1, FS_EmptySet DEF LogInv, Undecided
  <1>3. ASSUME NEW f, DOMAIN f = {} PROVE SumFunction(f) = 0
    BY <1>3, SumEmpty
  <1>4. PositionMatchesTrades
    <2> DEFINE gross(S) == SumFunction([trade \in S |-> trade.gross])
               charges(S) == SumFunction([trade \in S |-> trade.charges])
               held(S) == SumFunction([trade \in S |-> SignedQuantity(trade)])
    <2> SUFFICES ASSUME NEW symbol \in Symbols
                 PROVE  /\ positions[symbol].quantity = held(TradesIn(symbol))
                        /\ positions[symbol].realized = gross(TradesIn(symbol))
                        /\ positions[symbol].charges = charges(TradesIn(symbol))
                        /\ positions[symbol].net = gross(TradesIn(symbol))
                                                     - charges(TradesIn(symbol))
      BY DEF PositionMatchesTrades
    <2>1. gross({}) = 0 /\ charges({}) = 0 /\ held({}) = 0
      BY <1>3
    <2>2. TradesIn(symbol) = {}
      BY <1>1 DEF TradesIn
    <2> HIDE DEF gross, charges, held
    <2> QED BY <1>1, <2>1, <2>2 DEF Flat
  <1>5. FilledMatchesTrades
    BY <1>1, FS_EmptySet DEF FilledMatchesTrades
  <1>6. PerformanceMatchesBooks
    <2>1. ASSUME NEW f, f \in [Symbols -> {0}] PROVE SumFunction(f) = 0
      BY <2>1, SumZero, DataAssumption
    <2>2. /\ SumFunction([x \in Symbols |-> positions[x].realized]) = 0
          /\ SumFunction([x \in Symbols |-> positions[x].charges]) = 0
          /\ SumFunction([x \in Symbols |-> positions[x].net]) = 0
      <3>1. /\ [x \in Symbols |-> positions[x].realized] \in [Symbols -> {0}]
            /\ [x \in Symbols |-> positions[x].charges] \in [Symbols -> {0}]
            /\ [x \in Symbols |-> positions[x].net] \in [Symbols -> {0}]
        BY <1>1 DEF Flat
      <3> QED BY <2>1, <3>1
    <2>3. Closing = {} /\ trades \ Closing = {}
      BY <1>1 DEF Closing
    <2>4. /\ SumFunction([trade \in {} |-> trade.gross]) = 0
          /\ SumFunction([trade \in {} |-> trade.charges]) = 0
          /\ SumFunction([trade \in {} |-> Net(trade)]) = 0
          /\ SumFunction([trade \in {} |-> Profit(trade)]) = 0
          /\ SumFunction([trade \in {} |-> Loss(trade)]) = 0
          /\ Cardinality({}) = 0
      BY <1>3, FS_EmptySet
    <2>5. /\ OrdersAt("FILLED") = {} /\ OrdersAt("REJECTED") = {}
          /\ {id \in OrderIds : orders[id].status # "NONE"} = {}
      BY <1>1 DEF OrdersAt
    <2>6. OrderCounts.filled = 0 /\ OrderCounts.rejected = 0 /\ OrderCounts.total = 0
      BY <2>4, <2>5 DEF OrderCounts
    <2>7. /\ Totals.count = 0 /\ Totals.gross = 0 /\ Totals.charges = 0 /\ Totals.net = 0
      BY <1>1, <2>4 DEF Totals
    <2>8. Outcomes.profit = 0 /\ Outcomes.loss = 0
      BY <2>3, <2>4 DEF Outcomes
    <2> DEFINE cost(S) == SumFunction([trade \in S |-> trade.charges])
    <2>9. cost(trades \ Closing) = 0
      <3>1. cost({}) = 0
        BY <2>4
      <3> HIDE DEF cost
      <3> QED BY <2>3, <3>1
    <2>10. Totals.net = Outcomes.profit + Outcomes.loss - cost(trades \ Closing)
      <3> HIDE DEF cost
      <3> QED BY <2>7, <2>8, <2>9
    <2>11. /\ Totals.count = OrderCounts.filled
           /\ OrderCounts.total = OrderCounts.filled + OrderCounts.rejected
      BY <2>6, <2>7
    <2> QED BY <2>2, <2>7, <2>10, <2>11 DEF PerformanceMatchesBooks
  <1>7. CashMatchesTrades
    BY <1>1 DEF CashMatchesTrades
  <1> QED BY <1>2, <1>4, <1>5, <1>6, <1>7 DEF BooksInv, BooksMatchTrades

\* Books that nobody writes to stay as they are.
LEMMA BooksStay ==
    ASSUME BooksInv, UNCHANGED <<positions, trades>>
    PROVE  /\ PositionMatchesTrades'
           /\ orders' = orders => FilledMatchesTrades' /\ PerformanceMatchesBooks'
           /\ wallet' = wallet => CashMatchesTrades'
  <1>1. Closing' = Closing
    BY DEF Closing
  <1>2. PositionMatchesTrades'
    BY DEF BooksInv, BooksMatchTrades, PositionMatchesTrades, TradesIn
  <1>3. orders' = orders => FilledMatchesTrades' /\ PerformanceMatchesBooks'
    <2> SUFFICES ASSUME orders' = orders
                 PROVE  FilledMatchesTrades' /\ PerformanceMatchesBooks'
      OBVIOUS
    <2>1. Totals' = Totals /\ Outcomes' = Outcomes /\ OrderCounts' = OrderCounts
      BY DEF Totals, Outcomes, OrderCounts, OrdersAt, Closing
    <2>2. PerformanceMatchesBooks'
      BY <1>1, <2>1 DEF BooksInv, BooksMatchTrades, PerformanceMatchesBooks
    <2> QED BY <2>2 DEF BooksInv, BooksMatchTrades, FilledMatchesTrades
  <1>4. wallet' = wallet => CashMatchesTrades'
    BY DEF BooksInv, BooksMatchTrades, CashMatchesTrades
  <1> QED BY <1>2, <1>3, <1>4

\* A step that writes no table and leaves no id undecided that was not.
LEMMA QuietBooks ==
    ASSUME BooksInv, UNCHANGED tables, Undecided' \subseteq Undecided
    PROVE  BooksInv'
  <1>1. LogInv'
    BY DEF BooksInv, LogInv, tables
  <1> QED BY <1>1, BooksStay DEF BooksInv, BooksMatchTrades, tables

LEMMA UndecidedShrinks ==
    ASSUME nextId' = nextId,
           \A t \in Sessions : pc'[t] \in {"rejecting", "settled"} =>
               pc[t] \in {"rejecting", "settled"} /\ work'[t].id = work[t].id
    PROVE  Undecided' \subseteq Undecided
  BY DEF Undecided

\* An id that is given out was undecided before.
LEMMA UndecidedNumbered ==
    ASSUME TypeOK, NEW s \in Sessions, nextId' = nextId + 1, work'[s].id = nextId,
           \A t \in Sessions : t # s => pc'[t] = pc[t] /\ work'[t] = work[t]
    PROVE  Undecided' \subseteq Undecided
  <1> SUFFICES ASSUME NEW id \in Undecided' PROVE id \in Undecided
    OBVIOUS
  <1>1. id \in OrderIds /\ id \in Nat /\ nextId \in Nat
    BY DEF Undecided, OrderIds, TypeOK
  <1>2. CASE id >= nextId + 1
    BY <1>1, <1>2 DEF Undecided
  <1>3. CASE \E t \in Sessions : pc'[t] \in {"rejecting", "settled"} /\ work'[t].id = id
    <2>1. PICK t \in Sessions : pc'[t] \in {"rejecting", "settled"} /\ work'[t].id = id
      BY <1>3
    <2>2. CASE t = s
      BY <1>1, <2>1, <2>2 DEF Undecided
    <2>3. CASE t # s
      BY <1>1, <2>1, <2>3 DEF Undecided
    <2> QED BY <2>2, <2>3
  <1> QED BY <1>2, <1>3 DEF Undecided

LEMMA RejectionBooks ==
    ASSUME IInv, BooksInv, NEW s \in Sessions, CommitRejection(s)
    PROVE  BooksInv'
  <1> DEFINE id == work[s].id
             row == OrderOf(s, "REJECTED")
  <1>1. /\ pc[s] = "rejecting" /\ UNCHANGED <<wallet, positions, trades, nextId>>
        /\ pc' = [pc EXCEPT ![s] = "idle"] /\ orders' = [orders EXCEPT ![id] = row]
        /\ orders \in [OrderIds -> OrderRow] /\ id \in OrderIds
        /\ \A trade \in trades : trade.order < id
        /\ row \in OrderRow /\ row.status = "REJECTED"
    BY DEF CommitRejection, End, IInv, TypeOK, IdInv, OrderOf, OrderRow, Request
  <1>2. id \in Undecided
    BY <1>1 DEF Undecided
  <1>3. \A t \in Sessions : pc'[t] \in {"rejecting", "settled"} => FALSE
    BY <1>1, TraderAlone DEF Trader, IInv, TypeOK
  <1>4. Undecided' \subseteq Undecided \ {id}
    <2>1. id < nextId /\ id \in Nat /\ nextId \in Nat
      BY <1>1 DEF IInv, IdInv, TypeOK, OrderIds
    <2>2. Undecided' = {i \in OrderIds : i >= nextId}
      BY <1>1, <1>3 DEF Undecided
    <2> HIDE DEF id
    <2> QED BY <2>1, <2>2 DEF Undecided
  <1>5. orders[id].status = "NONE"
    BY <1>2 DEF BooksInv, LogInv
  <1> HIDE DEF id, row
  <1>6. LogInv'
    <2>1. \A i \in Undecided' : orders'[i].status = "NONE"
      <3> SUFFICES ASSUME NEW i \in Undecided' PROVE orders'[i].status = "NONE"
        OBVIOUS
      <3>1. i \in Undecided /\ i # id /\ i \in OrderIds
        BY <1>4 DEF Undecided
      <3> QED BY <1>1, <3>1 DEF BooksInv, LogInv
    <2> QED BY <1>1, <2>1 DEF BooksInv, LogInv
  <1>7. FilledMatchesTrades'
    <2> DEFINE Made(i) == {trade \in trades : trade.order = i}
               Agrees(order, made) ==
                  /\ Cardinality(made) = IF order.status = "FILLED" THEN 1 ELSE 0
                  /\ \A trade \in made : /\ trade.symbol = order.symbol
                                         /\ trade.side = order.side
                                         /\ trade.quantity = order.quantity
    <2>1. \A i \in OrderIds : Agrees(orders[i], Made(i))
      BY DEF BooksInv, BooksMatchTrades, FilledMatchesTrades
    <2> SUFFICES ASSUME NEW i \in OrderIds PROVE Agrees(orders'[i], Made(i))
      BY <1>1 DEF FilledMatchesTrades
    <2>2. CASE i # id
      <3>1. orders'[i] = orders[i]
        BY <1>1, <2>2
      <3> HIDE DEF Agrees, Made
      <3> QED BY <2>1, <3>1
    <2>3. CASE i = id
      <3>1. Made(i) = {} /\ orders'[i] = row
        BY <1>1, <2>3 DEF OrderIds
      <3>2. Agrees(row, {})
        BY <1>1, FS_EmptySet
      <3> HIDE DEF Agrees, Made
      <3> QED BY <3>1, <3>2
    <2> QED BY <2>2, <2>3
  <1>8. PerformanceMatchesBooks'
    <2>1. /\ OrderCounts'.total = OrderCounts.total + 1
          /\ OrderCounts'.filled = OrderCounts.filled
                                     + IF row.status = "FILLED" THEN 1 ELSE 0
          /\ OrderCounts'.rejected = OrderCounts.rejected
                                       + IF row.status = "REJECTED" THEN 1 ELSE 0
          /\ OrderCounts.total \in Nat /\ OrderCounts.filled \in Nat
          /\ OrderCounts.rejected \in Nat
      BY <1>1, <1>5, OrdersCount
    <2>2. Totals' = Totals /\ Outcomes' = Outcomes /\ Closing' = Closing
      BY <1>1 DEF Totals, Outcomes, Closing
    <2>3. /\ Totals'.count = OrderCounts'.filled
          /\ OrderCounts'.total = OrderCounts'.filled + OrderCounts'.rejected
      BY <1>1, <2>1, <2>2 DEF BooksInv, BooksMatchTrades, PerformanceMatchesBooks
    <2> QED BY <1>1, <2>2, <2>3 DEF BooksInv, BooksMatchTrades, PerformanceMatchesBooks
  <1> QED BY <1>1, <1>6, <1>7, <1>8, BooksStay DEF BooksInv, BooksMatchTrades

\* A new balance starts a new count of the trades that spend it.
LEMMA BalanceBooks ==
    ASSUME IInv, BooksInv, UNCHANGED <<positions, orders, trades, nextId>>,
           Undecided' \subseteq Undecided,
           NEW balance \in Balances, NEW resets \in Nat,
           wallet' = [open |-> TRUE, initial |-> balance, cash |-> balance,
                      resets |-> resets],
           IF wallet.open THEN resets = wallet.resets + 1 ELSE resets = 0
    PROVE  BooksInv'
  <1> DEFINE since == {trade \in trades : trade.epoch = resets}
  <1>1. wallet.resets \in Nat /\ balance \in Nat
    BY DataAssumption DEF IInv, TypeOK
  <1>2. \A trade \in trades : trade.epoch < resets /\ trade.epoch \in Nat
    BY <1>1 DEF BooksInv, LogInv, IInv, TypeOK, TradeRow
  <1>3. LogInv'
    BY <1>1, <1>2 DEF BooksInv, LogInv
  <1>4. CashMatchesTrades'
    <2> DEFINE sum(S) == SumFunction([trade \in S |-> TradeCash(trade)])
    <2>1. sum({}) = 0
      BY SumEmpty
    <2>2. since = {}
      BY <1>2
    <2>3. balance = balance + sum(since)
      <3> HIDE DEF sum
      <3> QED BY <1>1, <2>1, <2>2
    <2> QED BY <2>3 DEF CashMatchesTrades
  <1> QED BY <1>3, <1>4, BooksStay DEF BooksInv, BooksMatchTrades

LEMMA CommitBooks ==
    ASSUME IInv, IInv', BooksInv, NEW s \in Sessions, CommitFill(s)
    PROVE  BooksInv'
  <1>1. PICK new \in TradeRow : Commits(s, new)
    BY CommitFillCommits
  <1>2. TypeOK'
    BY DEF IInv
  <1>3. LogInv' /\ orders[new.order].status = "NONE"
    BY <1>1, CommitLog
  <1>4. CashMatchesTrades' /\ PositionMatchesTrades' /\ FilledMatchesTrades'
    BY <1>1, CommitCash, CommitPosition, CommitFilled
  <1>5. PerformanceMatchesBooks'
    BY <1>1, <1>2, <1>3, CommitPerformance
  <1> QED BY <1>3, <1>4, <1>5 DEF BooksInv, BooksMatchTrades

LEMMA NextBooks == IInv /\ IInv' /\ BooksInv /\ [Next]_vars => BooksInv'
  <1> SUFFICES ASSUME IInv, IInv', BooksInv, [Next]_vars PROVE BooksInv'
    OBVIOUS
  <1>1. CASE UNCHANGED vars
    BY <1>1, QuietBooks DEF vars, tables, Undecided
  <1>2. ASSUME NEW s \in Sessions, NEW side \in Side, NEW symbol \in Symbols,
               NEW quantity \in Quantities, Submit(s, side, symbol, quantity)
        PROVE  BooksInv'
    BY <1>2, QuietBooks, UndecidedShrinks DEF Submit, IInv, TypeOK
  <1>3. ASSUME NEW s \in Sessions, End(s), UNCHANGED <<tables, nextId>>
        PROVE  BooksInv'
    BY <1>3, QuietBooks, UndecidedShrinks DEF End, IInv, TypeOK
  <1>4. ASSUME NEW s \in Sessions, Advance(s)
        PROVE  BooksInv'
    <2>1. CASE WalletMissing(s) \/ AdoptWallet(s)
      BY <1>3, <2>1 DEF WalletMissing, AdoptWallet
    <2>2. CASE LockWallet(s) \/ LockPosition(s)
      BY <2>2, QuietBooks, UndecidedShrinks DEF LockWallet, LockPosition, IInv, TypeOK
    <2>3. CASE MissPosition(s) \/ InsertPosition(s)
      BY <2>3, QuietBooks, UndecidedShrinks DEF MissPosition, InsertPosition, IInv, TypeOK
    <2>4. CASE Reject(s)
      BY <2>4, QuietBooks, UndecidedNumbered DEF Reject, IInv, TypeOK, Work
    <2>5. CASE Settle(s)
      BY <2>5, QuietBooks, UndecidedNumbered DEF Settle, IInv, TypeOK
    <2>6. CASE CommitRejection(s)
      BY <2>6, RejectionBooks
    <2>7. CASE CommitFill(s)
      BY <2>7, CommitBooks
    <2>8. ASSUME NEW balance \in Balances, InsertWallet(s, balance)
          PROVE  BooksInv'
      <3>1. Undecided' \subseteq Undecided
        BY <2>8, UndecidedShrinks DEF InsertWallet, End, IInv, TypeOK
      <3> QED BY <2>8, <3>1, BalanceBooks DEF InsertWallet
    <2> QED BY <1>4, <2>1, <2>2, <2>3, <2>4, <2>5, <2>6, <2>7, <2>8 DEF Advance
  <1>5. ASSUME NEW s \in Sessions, FindNoWallet(s)
        PROVE  BooksInv'
    BY <1>5, QuietBooks, UndecidedShrinks DEF FindNoWallet, IInv, TypeOK
  <1>6. ASSUME NEW s \in Sessions, NEW balance \in Balances, ResetWallet(s, balance)
        PROVE  BooksInv'
    <2>1. Undecided' \subseteq Undecided
      BY <1>6 DEF ResetWallet, Undecided
    <2>2. wallet.resets + 1 \in Nat
      BY DEF IInv, TypeOK
    <2> QED BY <1>6, <2>1, <2>2, BalanceBooks DEF ResetWallet
  <1>7. ASSUME NEW s \in Sessions, Abort(s)
        PROVE  BooksInv'
    BY <1>3, <1>7 DEF Abort
  <1>8. CASE Waiting
    BY <1>1, <1>8 DEF Waiting
  <1> QED BY <1>1, <1>2, <1>4, <1>5, <1>6, <1>7, <1>8 DEF Next

LEMMA BooksInvariance == Spec => []BooksInv
  BY InitBooks, NextBooks, Invariance, PTL DEF Spec

\* In every reachable state, for any number of sessions, instruments and
\* orders: cash is the opening balance plus the trades since the last reset,
\* each position is the sum of its trades, each filled order has one, and the
\* performance summary agrees with all of them.
THEOREM BooksAddUp == Spec => []BooksMatchTrades
  <1>1. BooksInv => BooksMatchTrades
    BY DEF BooksInv
  <1> QED BY <1>1, BooksInvariance, PTL

-----------------------------------------------------------------------------
(* What rounding does to cash and profit *)

\* No more units are held of an instrument than were ever traded in it.
LEMMA HeldWasTraded ==
    ASSUME NEW S \in SUBSET TradeRow, IsFiniteSet(S)
    PROVE  LET held == SumFunction([trade \in S |-> SignedQuantity(trade)])
               traded == SumFunction([trade \in S |-> trade.quantity])
           IN  /\ traded \in Nat /\ held \in Int
               /\ held <= traded /\ -held <= traded
  <1> DEFINE f == [trade \in S |-> SignedQuantity(trade)]
             g == [trade \in S |-> trade.quantity]
  <1>1. \A trade \in S : /\ f[trade] \in Int /\ g[trade] \in Nat
                         /\ f[trade] <= g[trade] /\ -f[trade] <= g[trade]
    BY TradeAmounts DEF SignedQuantity, Direction
  <1>2. DOMAIN f = S /\ DOMAIN g = S
    OBVIOUS
  <1> HIDE DEF f, g
  <1>3. /\ SumFunctionOnSet(f, S) <= SumFunctionOnSet(g, S)
        /\ -SumFunctionOnSet(f, S) <= SumFunctionOnSet(g, S)
        /\ SumFunctionOnSet(f, S) \in Int /\ SumFunctionOnSet(g, S) \in Nat
    BY <1>1, SumWithin, SumInt, SumNonNegative
  <1>4. /\ SumFunction(f) <= SumFunction(g) /\ -SumFunction(f) <= SumFunction(g)
        /\ SumFunction(f) \in Int /\ SumFunction(g) \in Nat
    BY <1>2, <1>3 DEF SumFunction
  <1> QED BY <1>4 DEF f, g

\* Trading more of an instrument raises no other quantity and lowers none.
LEMMA TradedGrows ==
    ASSUME NEW S \in SUBSET TradeRow, IsFiniteSet(S), NEW new \in TradeRow, new \notin S
    PROVE  /\ SumFunction([trade \in S \cup {new} |-> trade.quantity]) \in Nat
           /\ SumFunction([trade \in S |-> trade.quantity]) \in Nat
           /\ SumFunction([trade \in S |-> trade.quantity])
                <= SumFunction([trade \in S \cup {new} |-> trade.quantity])
  <1> DEFINE T == S \cup {new}
             f == [trade \in S |-> trade.quantity]
             g == [trade \in T |-> trade.quantity]
  <1>1. /\ \A trade \in T : g[trade] \in Nat
        /\ \A trade \in S : f[trade] \in Nat /\ g[trade] = f[trade]
        /\ DOMAIN f = S /\ DOMAIN g = T /\ new \in T
    BY TradeAmounts
  <1>2. IsFiniteSet(T)
    BY FS_AddElement
  <1> HIDE DEF f, g
  <1>3. SumFunction(g) = SumFunction(f) + g[new] /\ g[new] \in Nat
    BY <1>1, SumGrows
  <1>4. SumFunction(f) \in Nat
    BY <1>1, SumNonNegative DEF SumFunction
  <1>5. /\ SumFunction(g) \in Nat /\ SumFunction(f) \in Nat
        /\ SumFunction(f) <= SumFunction(g)
    BY <1>3, <1>4
  <1> QED BY <1>5 DEF f, g

Costs(p) == SumFunction([x \in Symbols |-> p[x].quantity * p[x].average])

LEMMA CostsMove ==
    ASSUME NEW before, NEW after, before \in [Symbols -> Position],
           NEW symbol \in Symbols, after \in [Symbols -> Position],
           \A x \in Symbols : x # symbol => after[x] = before[x]
    PROVE  /\ Costs(after) = Costs(before) - before[symbol].quantity * before[symbol].average
                               + after[symbol].quantity * after[symbol].average
           /\ Costs(before) \in Int
  <1> DEFINE f == [x \in Symbols |-> before[x].quantity * before[x].average]
             g == [x \in Symbols |-> after[x].quantity * after[x].average]
  <1>1. ASSUME NEW p \in Position PROVE p.quantity * p.average \in Int
    BY DEF Position
  <1>2. /\ \A x \in Symbols : f[x] \in Int /\ g[x] \in Int
        /\ \A x \in Symbols : x # symbol => g[x] = f[x]
        /\ DOMAIN f = Symbols /\ DOMAIN g = Symbols
        /\ f[symbol] = before[symbol].quantity * before[symbol].average
        /\ g[symbol] = after[symbol].quantity * after[symbol].average
    BY <1>1
  <1>3. Costs(after) = SumFunction(g) /\ Costs(before) = SumFunction(f)
    BY DEF Costs
  <1> HIDE DEF f, g
  <1>4. SumFunction(g) = SumFunction(f) - f[symbol] + g[symbol] /\ SumFunction(f) \in Int
    BY <1>2, DataAssumption, SumChanges, SumType
  <1> QED BY <1>2, <1>3, <1>4

\* A commit moves the drift by what its fill leaves unexplained.
LEMMA CommitDrift ==
    ASSUME IInv, BooksInv, TypeOK', NEW s \in Sessions, NEW new \in TradeRow, Commits(s, new)
    PROVE  /\ Drift' = Drift + Unexplained(positions[new.symbol], new.side, new.quantity,
                                           new.price, new.charges)
           /\ Drift \in Int
  <1> DEFINE symbol == new.symbol
             held == positions[symbol]
             after == positions'[symbol]
             Netted(p) == SumFunction([x \in Symbols |-> p[x].net])
             S == AvgTicks * Lot
             outcome == ApplyFill(held.quantity, held.average,
                                  Direction(new.side) * new.quantity, new.price)
             unexplained == Unexplained(held, new.side, new.quantity, new.price, new.charges)
  <1>1. /\ wallet'.cash = wallet.cash + TradeCash(new) /\ wallet'.initial = wallet.initial
        /\ after.realized = held.realized + new.gross
        /\ after.charges = held.charges + new.charges
        /\ after.net = after.realized - after.charges
        /\ \A x \in Symbols : x # symbol => positions'[x] = positions[x]
    BY CommitFacts DEF BooksInv
  <1>2. /\ symbol \in Symbols /\ wallet.cash \in Int /\ wallet.initial \in Int
        /\ positions \in [Symbols -> Position] /\ positions' \in [Symbols -> Position]
    BY DataAssumption DEF Commits, IInv, TypeOK
  <1>3. held.net = held.realized - held.charges
    BY <1>2 DEF BooksInv, BooksMatchTrades, PositionMatchesTrades
  <1>4. held \in Position /\ after \in Position
    BY <1>2
  <1>5. /\ Netted(positions') = Netted(positions) - held.net + after.net
        /\ Netted(positions) \in Int
        /\ Costs(positions') = Costs(positions) - held.quantity * held.average
                                 + after.quantity * after.average
        /\ Costs(positions) \in Int
    <2>1. \A x \in Symbols : x # symbol => positions'[x] = positions[x]
      BY <1>1
    <2>2. symbol \in Symbols /\ positions \in [Symbols -> Position]
          /\ positions' \in [Symbols -> Position]
      BY <1>2
    <2> HIDE DEF symbol
    <2>3. /\ Netted(positions') = Netted(positions) - positions[symbol].net
                                    + positions'[symbol].net
          /\ Netted(positions) \in Int
      BY <2>1, <2>2, PositionSumsMove
    <2>4. /\ Costs(positions')
               = Costs(positions) - positions[symbol].quantity * positions[symbol].average
                   + positions'[symbol].quantity * positions'[symbol].average
          /\ Costs(positions) \in Int
      BY <2>1, <2>2, CostsMove
    <2> QED BY <2>3, <2>4
  <1>6. Drift = S * (wallet.cash - wallet.initial - Netted(positions)) + Costs(positions)
    BY DEF Drift, Cost, Costs
  <1>7. Drift' = S * (wallet'.cash - wallet'.initial - Netted(positions')) + Costs(positions')
    BY DEF Drift, Cost, Costs
  <1>8. /\ new.gross = outcome.realized
        /\ after.quantity = outcome.quantity /\ after.average = outcome.average
    <2>1. /\ new = FillRecord(held, new.order, new.symbol, new.side, new.quantity, new.price,
                              new.charges, wallet.resets)
          /\ after = AfterFill(held, new.side, new.quantity, new.price, new.charges)
      BY <1>2 DEF Commits
    <2>2. FillRecord(held, new.order, new.symbol, new.side, new.quantity, new.price,
                     new.charges, wallet.resets).gross = outcome.realized
      BY DEF FillRecord
    <2>3. /\ AfterFill(held, new.side, new.quantity, new.price, new.charges).quantity
               = outcome.quantity
          /\ AfterFill(held, new.side, new.quantity, new.price, new.charges).average
               = outcome.average
      BY DEF AfterFill
    <2> HIDE DEF held, outcome, after
    <2> QED BY <2>1, <2>2, <2>3
  <1>9. unexplained = S * (TradeCash(new) - new.gross + new.charges)
                        + after.quantity * after.average - held.quantity * held.average
    <2>1. unexplained = S * (TradeCash(new) - outcome.realized + new.charges)
                          + outcome.quantity * outcome.average - held.quantity * held.average
      BY DEF Unexplained, TradeCash
    <2> HIDE DEF unexplained, outcome, held, after, S
    <2> QED BY <1>8, <2>1
  <1>10. /\ TradeCash(new) \in Int /\ new.gross \in Int /\ new.charges \in Int
         /\ S \in Int
    BY TradeAmounts, ScaleAssumption
  <1> DEFINE costBefore == held.quantity * held.average
             costAfter == after.quantity * after.average
  <1>11. /\ costBefore \in Int /\ costAfter \in Int
         /\ held.realized \in Int /\ held.charges \in Int /\ held.net \in Int
    <2> HIDE DEF held, after
    <2> QED BY <1>4 DEF Position
  <1> DEFINE N == Netted(positions)
             t == TradeCash(new)
             n == new.gross - new.charges
             move == wallet.cash - wallet.initial - N
  <1>12. after.net - held.net = n /\ after.net \in Int
    <2> HIDE DEF held, after
    <2> QED BY <1>1, <1>3, <1>10, <1>11
  <1> HIDE DEF unexplained, held, after, S, Netted, t
  <1>13. move \in Int /\ n \in Int /\ t \in Int /\ t - new.gross + new.charges = t - n
    BY <1>2, <1>5, <1>10 DEF t
  <1> HIDE DEF n, costBefore, costAfter
  <1>14. wallet'.cash - wallet'.initial - Netted(positions') = move + (t - n)
    <2>1. Netted(positions') = N + n /\ N \in Int
      BY <1>5, <1>11, <1>12, <1>13
    <2>2. wallet'.cash = wallet.cash + t /\ wallet'.initial = wallet.initial
      BY <1>1 DEF t
    <2> HIDE DEF N
    <2> QED BY <1>2, <1>13, <2>1, <2>2
  <1> HIDE DEF move, N
  <1>15. S * (move + (t - n)) = S * move + S * (t - n)
    BY <1>10, <1>13
  <1>16. S * move \in Int /\ S * (t - n) \in Int
    BY <1>10, <1>13
  <1>17. /\ Drift = S * move + Costs(positions)
         /\ Drift' = S * move + S * (t - n) + (Costs(positions) - costBefore + costAfter)
         /\ unexplained = S * (t - n) + costAfter - costBefore
    BY <1>5, <1>6, <1>7, <1>9, <1>13, <1>14, <1>15 DEF move, N, t, costBefore, costAfter
  <1> DEFINE x == S * move
             y == S * (t - n)
  <1> HIDE DEF x, y
  <1>18. Drift' = Drift + unexplained /\ Drift \in Int
    BY <1>5, <1>11, <1>16, <1>17 DEF x, y
  <1> QED BY <1>18 DEF unexplained, held, symbol

TradedIn(S, symbol) ==
    SumFunction([trade \in {t \in S : t.symbol = symbol} |-> trade.quantity])

RoundingIn(S, trade) ==
    (IF trade.closed > 0 THEN AvgTicks * Lot ELSE TradedIn(S, trade.symbol)) + CashError

Roundings(S) == SumFunction([trade \in S |-> RoundingIn(S, trade)])

LEMMA TradedInGrows ==
    ASSUME NEW S \in SUBSET TradeRow, IsFiniteSet(S), NEW new \in TradeRow, new \notin S,
           NEW symbol
    PROVE  /\ TradedIn(S, symbol) \in Nat /\ TradedIn(S \cup {new}, symbol) \in Nat
           /\ TradedIn(S, symbol) <= TradedIn(S \cup {new}, symbol)
  <1> DEFINE A == {t \in S : t.symbol = symbol}
             B == {t \in S \cup {new} : t.symbol = symbol}
             total(T) == SumFunction([trade \in T |-> trade.quantity])
  <1>1. A \in SUBSET TradeRow /\ IsFiniteSet(A) /\ new \notin A
    BY FS_Subset
  <1>2. TradedIn(S, symbol) = total(A) /\ TradedIn(S \cup {new}, symbol) = total(B)
    BY DEF TradedIn
  <1>3. /\ total(A) \in Nat /\ total(A \cup {new}) \in Nat
        /\ total(A) <= total(A \cup {new})
    <2> HIDE DEF A
    <2> QED BY <1>1, TradedGrows
  <1>4. B = IF new.symbol = symbol THEN A \cup {new} ELSE A
    OBVIOUS
  <1> HIDE DEF A, B, total
  <1>5. total(B) = total(A \cup {new}) \/ total(B) = total(A)
    BY <1>4
  <1> QED BY <1>2, <1>3, <1>5

\* A new trade adds what it may round, and lets no other round less.
LEMMA RoundingsGrow ==
    ASSUME NEW S \in SUBSET TradeRow, IsFiniteSet(S), NEW new \in TradeRow, new \notin S
    PROVE  /\ Roundings(S) + RoundingIn(S \cup {new}, new) <= Roundings(S \cup {new})
           /\ Roundings(S) \in Int /\ RoundingIn(S \cup {new}, new) \in Int
           /\ Roundings(S \cup {new}) \in Int
  <1> DEFINE T == S \cup {new}
             f == [trade \in S |-> RoundingIn(S, trade)]
             g == [trade \in T |-> RoundingIn(T, trade)]
             h == [trade \in S |-> RoundingIn(T, trade)]
             error == AvgTicks * Lot
  <1>1. error \in Nat /\ CashError \in Nat
    BY ScaleAssumption DEF CashError
  <1>2. \A symbol : /\ TradedIn(S, symbol) \in Nat /\ TradedIn(T, symbol) \in Nat
                    /\ TradedIn(S, symbol) <= TradedIn(T, symbol)
    BY TradedInGrows
  <1>3. \A trade : /\ RoundingIn(S, trade) \in Int /\ RoundingIn(T, trade) \in Int
                   /\ RoundingIn(S, trade) <= RoundingIn(T, trade)
    <2> HIDE DEF T
    <2> QED BY <1>1, <1>2 DEF RoundingIn
  <1>4. /\ \A x \in S : f[x] \in Int /\ h[x] \in Int /\ f[x] <= h[x] /\ g[x] = h[x]
        /\ DOMAIN f = S /\ DOMAIN h = S /\ DOMAIN g = S \cup {new}
        /\ g[new] = RoundingIn(T, new) /\ g[new] \in Int
    BY <1>3
  <1>5. Roundings(S) = SumFunction(f) /\ Roundings(S \cup {new}) = SumFunction(g)
    BY DEF Roundings
  <1> HIDE DEF f, g, h, T
  <1>6. SumFunction(g) = SumFunction(h) + g[new]
    BY <1>4, SumGrows
  <1>7. SumFunction(f) <= SumFunction(h) /\ SumFunction(f) \in Int /\ SumFunction(h) \in Int
    BY <1>4, SumMonotone, SumInt DEF SumFunction
  <1>8. /\ Roundings(S) + RoundingIn(T, new) <= Roundings(S \cup {new})
        /\ Roundings(S) \in Int /\ RoundingIn(T, new) \in Int
        /\ Roundings(S \cup {new}) \in Int
    BY <1>4, <1>5, <1>6, <1>7
  <1> QED BY <1>8 DEF T

LEMMA CommitRounds ==
    ASSUME IInv, IInv', BooksInv, BooksInv', NEW s \in Sessions, NEW new \in TradeRow,
           Commits(s, new), DriftIsRounding
    PROVE  DriftIsRounding'
  <1> DEFINE symbol == new.symbol
             held == positions[symbol]
             after == positions'[symbol]
             bound == RoundingIn(trades', new)
             outcome == ApplyFill(held.quantity, held.average,
                                  Direction(new.side) * new.quantity, new.price)
             u == Unexplained(held, new.side, new.quantity, new.price, new.charges)
             limit == (IF outcome.closed > 0 THEN AvgTicks * Lot
                       ELSE Magnitude(outcome.quantity)) + CashError
  <1>1. Drift' = Drift + u /\ Drift \in Int
    BY CommitDrift DEF IInv
  <1>2. /\ trades' = trades \cup {new} /\ new \notin trades
        /\ trades \in SUBSET TradeRow /\ IsFiniteSet(trades)
        /\ trades' \in SUBSET TradeRow /\ IsFiniteSet(trades')
        /\ wallet'.open = wallet.open /\ wallet'.resets = wallet.resets
        /\ symbol \in Symbols /\ held \in Position
    BY CommitFacts DEF Commits, BooksInv, LogInv
  <1>3. /\ Roundings(trades) + bound <= Roundings(trades')
        /\ Roundings(trades) \in Int /\ bound \in Int /\ Roundings(trades') \in Int
    BY <1>2, RoundingsGrow
  <1>4. u \in Int /\ 2 * u <= limit /\ -2 * u <= limit
    <2>1. /\ new.side \in Side /\ new.quantity \in Nat \ {0} /\ new.price \in Nat
          /\ new.charges \in Nat
      BY DEF Commits, TradeRow
    <2> HIDE DEF held
    <2> QED BY <1>2, <2>1, FillError
  <1>5. limit <= bound /\ limit \in Int
    <2>1. outcome.closed = new.closed /\ outcome.quantity = after.quantity
      <3>1. /\ new = FillRecord(held, new.order, new.symbol, new.side, new.quantity,
                                new.price, new.charges, wallet.resets)
            /\ after = AfterFill(held, new.side, new.quantity, new.price, new.charges)
        BY <1>2 DEF Commits, IInv, TypeOK
      <3>2. /\ FillRecord(held, new.order, new.symbol, new.side, new.quantity, new.price,
                          new.charges, wallet.resets).closed = outcome.closed
            /\ AfterFill(held, new.side, new.quantity, new.price, new.charges).quantity
                 = outcome.quantity
        BY DEF FillRecord, AfterFill
      <3> HIDE DEF held, outcome, after
      <3> QED BY <3>1, <3>2
    <2> DEFINE mine == {trade \in trades' : trade.symbol = symbol}
               net == SumFunction([trade \in mine |-> SignedQuantity(trade)])
    <2>2. after.quantity = net
      BY <1>2 DEF BooksInv, BooksMatchTrades, PositionMatchesTrades, TradesIn
    <2>3. TradedIn(trades', symbol) = SumFunction([trade \in mine |-> trade.quantity])
      BY DEF TradedIn
    <2>4. mine \in SUBSET TradeRow /\ IsFiniteSet(mine)
      BY <1>2, FS_Subset
    <2>5. /\ TradedIn(trades', symbol) \in Nat /\ net \in Int
          /\ net <= TradedIn(trades', symbol) /\ -net <= TradedIn(trades', symbol)
      <3> HIDE DEF mine
      <3> QED BY <2>3, <2>4, HeldWasTraded
    <2>6. bound = (IF new.closed > 0 THEN AvgTicks * Lot ELSE TradedIn(trades', symbol))
                    + CashError
      BY DEF RoundingIn
    <2>7. AvgTicks * Lot \in Nat /\ CashError \in Nat
      BY ScaleAssumption DEF CashError
    <2> DEFINE error == AvgTicks * Lot
    <2>8. limit = (IF new.closed > 0 THEN error ELSE Magnitude(net)) + CashError
      <3> HIDE DEF outcome, after, net
      <3> QED BY <2>1, <2>2
    <2> HIDE DEF net, limit, bound, after, symbol, error
    <2> QED BY <2>5, <2>6, <2>7, <2>8 DEF Magnitude, error
  <1>6. /\ DriftIsRounding = (wallet.open /\ wallet.resets = 0 =>
                                2 * Magnitude(Drift) <= Roundings(trades))
        /\ DriftIsRounding' = (wallet'.open /\ wallet'.resets = 0 =>
                                 2 * Magnitude(Drift') <= Roundings(trades'))
    BY DEF DriftIsRounding, Roundings, Rounding, RoundingIn, TradedIn, Traded, TradesIn,
           CashError
  <1> HIDE DEF u, limit, bound
  <1>7. ASSUME 2 * Magnitude(Drift) <= Roundings(trades)
        PROVE  2 * Magnitude(Drift') <= Roundings(trades')
    BY <1>1, <1>3, <1>4, <1>5, <1>7 DEF Magnitude
  <1> QED BY <1>2, <1>6, <1>7

\* A wallet is opened before the first trade, when nothing is held.
LEMMA OpeningHasNoDrift ==
    ASSUME IInv, BooksInv, ~wallet.open, UNCHANGED <<positions, trades>>,
           wallet'.cash = wallet'.initial, wallet'.cash \in Int
    PROVE  DriftIsRounding'
  <1> DEFINE total(S) == SumFunction([trade \in S |-> trade.gross])
             charges(S) == SumFunction([trade \in S |-> trade.charges])
             held(S) == SumFunction([trade \in S |-> SignedQuantity(trade)])
             rounded(S) == SumFunction([trade \in S |-> Rounding(trade)'])
             net == [x \in Symbols |-> positions[x].net]
             cost == [x \in Symbols |-> positions[x].quantity * positions[x].average]
  <1>1. trades = {}
    BY DEF BooksInv, LogInv
  <1>2. total({}) = 0 /\ charges({}) = 0 /\ held({}) = 0 /\ rounded({}) = 0
    BY SumEmpty
  <1>3. \A x \in Symbols : positions[x].quantity = 0 /\ positions[x].net = 0
    <2> SUFFICES ASSUME NEW x \in Symbols
                 PROVE  positions[x].quantity = 0 /\ positions[x].net = 0
      OBVIOUS
    <2>1. /\ positions[x].quantity = held(TradesIn(x))
          /\ positions[x].net = total(TradesIn(x)) - charges(TradesIn(x))
      BY DEF BooksInv, BooksMatchTrades, PositionMatchesTrades
    <2>2. TradesIn(x) = {}
      BY <1>1 DEF TradesIn
    <2> HIDE DEF total, charges, held
    <2> QED BY <1>2, <2>1, <2>2
  <1>4. \A x \in Symbols : positions[x].average \in Nat
    BY DEF IInv, TypeOK, Position
  <1>5. /\ net \in [Symbols -> {0}] /\ cost \in [Symbols -> {0}]
    BY <1>3, <1>4
  <1>6. SumFunction(net) = 0 /\ SumFunction(cost) = 0
    BY <1>5, SumZero, DataAssumption
  <1>7. Drift' = AvgTicks * Lot * (wallet'.cash - wallet'.initial - SumFunction(net))
                   + SumFunction(cost)
    BY DEF Drift, Cost
  <1>8. Drift' = 0
    <2>1. wallet'.cash - wallet'.initial - 0 = 0
      OBVIOUS
    <2>2. AvgTicks * Lot * 0 = 0
      BY ScaleAssumption
    <2> HIDE DEF net, cost
    <2> QED BY <1>6, <1>7, <2>1, <2>2
  <1>9. SumFunction([trade \in trades |-> Rounding(trade)])' = rounded(trades')
    OBVIOUS
  <1>10. rounded(trades') = 0
    <2> HIDE DEF rounded
    <2> QED BY <1>1, <1>2
  <1> HIDE DEF rounded
  <1>11. 2 * Magnitude(Drift') <= rounded(trades')
    BY <1>8, <1>10 DEF Magnitude
  <1> QED BY <1>9, <1>11 DEF DriftIsRounding

LEMMA DriftStays ==
    ASSUME DriftIsRounding, UNCHANGED <<wallet, positions, trades>>
    PROVE  DriftIsRounding'
  <1>1. Drift' = Drift
    BY DEF Drift, Cost
  <1>2. \A trade : Rounding(trade)' = Rounding(trade)
    BY DEF Rounding, Traded, TradesIn
  <1> QED BY <1>1, <1>2 DEF DriftIsRounding

\* Only a commit, a first wallet and a reset write what the drift is made of.
LEMMA NextDrift ==
    IInv /\ IInv' /\ BooksInv /\ BooksInv' /\ DriftIsRounding /\ [Next]_vars
      => DriftIsRounding'
  <1> SUFFICES ASSUME IInv, IInv', BooksInv, BooksInv', DriftIsRounding, [Next]_vars
               PROVE  DriftIsRounding'
    OBVIOUS
  <1>1. \/ UNCHANGED <<wallet, positions, trades>>
        \/ \E s \in Sessions : CommitFill(s)
        \/ \E s \in Sessions, balance \in Balances : InsertWallet(s, balance)
        \/ \E s \in Sessions, balance \in Balances : ResetWallet(s, balance)
    BY DEF Next, Advance, Submit, WalletMissing, AdoptWallet, LockWallet, LockPosition,
           MissPosition, InsertPosition, Reject, Settle, CommitRejection, FindNoWallet,
           Abort, Waiting, End, tables, vars
  <1>2. CASE UNCHANGED <<wallet, positions, trades>>
    BY <1>2, DriftStays
  <1>3. ASSUME NEW s \in Sessions, CommitFill(s)
        PROVE  DriftIsRounding'
    BY <1>3, CommitFillCommits, CommitRounds
  <1>4. ASSUME NEW s \in Sessions, NEW balance \in Balances, InsertWallet(s, balance)
        PROVE  DriftIsRounding'
    <2>1. /\ ~wallet.open /\ UNCHANGED <<positions, trades>>
          /\ wallet'.cash = wallet'.initial /\ wallet'.cash \in Int
      BY <1>4, DataAssumption DEF InsertWallet, IInv, TypeOK
    <2> QED BY <2>1, OpeningHasNoDrift
  <1>5. ASSUME NEW s \in Sessions, NEW balance \in Balances, ResetWallet(s, balance)
        PROVE  DriftIsRounding'
    <2>1. wallet.resets \in Nat
      BY DEF IInv, TypeOK
    <2>2. ~(wallet'.open /\ wallet'.resets = 0)
      BY <1>5, <2>1 DEF ResetWallet
    <2> QED BY <2>2 DEF DriftIsRounding
  <1> QED BY <1>1, <1>2, <1>3, <1>4, <1>5

\* In every reachable state, for every scale and whatever was traded: until the
\* wallet is reset, cash differs from the opening balance, the net profit and
\* the cost of what is held by what the fills have rounded, and by no more.
THEOREM OnlyRoundingDrifts == Spec => []DriftIsRounding
  <1>1. Init => DriftIsRounding
    BY DEF Init, DriftIsRounding
  <1> QED BY <1>1, NextDrift, BooksInvariance, Invariance, PTL DEF Spec

===============================================================================
