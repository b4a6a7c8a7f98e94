---------------------------- MODULE BacktestProofs ----------------------------
(***************************************************************************)
(* A backtest keeps a well-formed, debt-free account, is a behaviour of    *)
(* the live ledger, explains its equity, keeps to its budget, reports its  *)
(* own run and trades every cross: for every series, strategy period,      *)
(* sizing and schedule of costs.  The facts about those costs come first.  *)
(***************************************************************************)
EXTENDS Backtest, AccountingProofs

-----------------------------------------------------------------------------
(* The price and the charges of a fill, for every schedule *)

\* Rounding keeps to the same side of a whole number.
LEMMA HalfUpBounds ==
    ASSUME NEW n \in Nat, NEW d \in Nat \ {0}, NEW k \in Nat
    PROVE  /\ HalfUp(n, d) \in Nat
           /\ n >= k * d => HalfUp(n, d) >= k
           /\ n <= k * d => HalfUp(n, d) <= k
  <1> DEFINE m == 2 * n + d
             q == m \div (2 * d)
  <1>1. HalfUp(n, d) = q
    <2>1. Magnitude(n) = n
      BY DEF Magnitude
    <2>2. CASE n > 0
      BY <2>1, <2>2 DEF HalfUp, Sign
    <2>3. CASE n = 0
      <3>1. q = 0
        BY <2>3
      <3> QED BY <2>1, <2>3, <3>1 DEF HalfUp, Sign
    <2> QED BY <2>2, <2>3
  <1>2. m \in Nat /\ 2 * d \in Nat \ {0}
    OBVIOUS
  <1>3. q \in Nat /\ q * (2 * d) <= m /\ m < (q + 1) * (2 * d)
    <2> HIDE DEF m
    <2>1. \A a \in Nat, b \in Nat \ {0} :
             a \div b \in Nat /\ (a \div b) * b <= a /\ a < (a \div b + 1) * b
      BY SMT
    <2> QED BY <1>2, <2>1
  <1> HIDE DEF q
  <1>4. ASSUME n >= k * d, q < k PROVE FALSE
    <2>1. q + 1 <= k
      BY <1>3, <1>4
    <2>2. (q + 1) * d <= k * d
      BY <1>3, <2>1, SMT
    <2>3. m < 2 * ((q + 1) * d)
      BY <1>3, SMT
    <2>4. k * d \in Nat /\ (q + 1) * d \in Nat
      BY <1>3
    <2> QED BY <1>4, <2>2, <2>3, <2>4 DEF m
  <1>5. ASSUME n <= k * d, q > k PROVE FALSE
    <2>1. q >= k + 1
      BY <1>3, <1>5
    <2>2. (k + 1) * d <= q * d
      BY <1>3, <2>1, SMT
    <2>3. 2 * (q * d) <= m
      BY <1>3, SMT
    <2>4. (k + 1) * d = k * d + d /\ k * d \in Nat /\ q * d \in Nat
      BY <1>3
    <2> QED BY <1>5, <2>2, <2>3, <2>4 DEF m
  <1> QED BY <1>1, <1>3, <1>4, <1>5

\* Both moves are against the trader, whatever the rounding: a buy is quoted and
\* filled at no less than the price it was asked at, a sale at no more.
LEMMA QuotedAdverse ==
    ASSUME NEW schedule \in Schedule, NEW mid \in Nat
    PROVE  /\ Quoted(schedule, mid, 1) \in Nat /\ Quoted(schedule, mid, 1) >= mid
           /\ Quoted(schedule, mid, -1) \in Nat /\ Quoted(schedule, mid, -1) <= mid
  <1> DEFINE d == 2 * Unit
             up == mid * (2 * Unit + 1 * schedule.spread)
             down == mid * (2 * Unit + (-1) * schedule.spread)
  <1>1. schedule.spread \in 0 .. Unit
    BY DEF Schedule, Rate
  <1>2. d \in Nat \ {0}
    BY UnitAssumption
  <1>3. up = mid * d + mid * schedule.spread /\ mid * schedule.spread \in Nat
    BY <1>1, <1>2, UnitAssumption
  <1>4. up \in Nat /\ up >= mid * d
    BY <1>2, <1>3
  <1>5. 2 * Unit + (-1) * schedule.spread \in Nat /\ schedule.spread \in Nat
    BY <1>1, UnitAssumption
  <1>6. down = mid * d - mid * schedule.spread
    BY <1>1, <1>2, UnitAssumption
  <1>7. down \in Nat /\ down <= mid * d
    <2>1. down \in Nat
      BY <1>5
    <2> QED BY <2>1, <1>2, <1>3, <1>6
  <1>8. Quoted(schedule, mid, 1) = HalfUp(up, d) /\ Quoted(schedule, mid, -1) = HalfUp(down, d)
    BY DEF Quoted
  <1> HIDE DEF up, down, d
  <1> QED BY <1>2, <1>4, <1>7, <1>8, HalfUpBounds

LEMMA SlippedAdverse ==
    ASSUME NEW schedule \in Schedule, NEW base \in Nat
    PROVE  /\ Slipped(schedule, base, 1) \in Nat /\ Slipped(schedule, base, 1) >= base
           /\ Slipped(schedule, base, -1) \in Nat /\ Slipped(schedule, base, -1) <= base
  <1> DEFINE up == base * (Unit + 1 * schedule.slippage)
             down == base * (Unit + (-1) * schedule.slippage)
  <1>1. schedule.slippage \in 0 .. Unit /\ Unit \in Nat \ {0}
    BY UnitAssumption DEF Schedule, Rate
  <1>2. up = base * Unit + base * schedule.slippage /\ base * schedule.slippage \in Nat
    BY <1>1
  <1>3. up \in Nat /\ up >= base * Unit
    BY <1>1, <1>2
  <1>4. Unit + (-1) * schedule.slippage \in Nat
    BY <1>1
  <1>5. down \in Nat
    BY <1>4
  <1>6. down = base * Unit - base * schedule.slippage
    BY <1>1
  <1>7. down <= base * Unit
    BY <1>1, <1>2, <1>6
  <1>8. /\ Slipped(schedule, base, 1) = base \/ Slipped(schedule, base, 1) = HalfUp(up, Unit)
        /\ Slipped(schedule, base, -1) = base \/ Slipped(schedule, base, -1) = HalfUp(down, Unit)
    BY DEF Slipped
  <1> HIDE DEF up, down
  <1> QED BY <1>1, <1>3, <1>5, <1>7, <1>8, HalfUpBounds

\* An amount of money, rounded from a turnover or from another amount.
LEMMA SharesAreMoney ==
    ASSUME NEW turnover \in Nat, NEW rate \in Rate
    PROVE  /\ OfTurnover(turnover, rate) \in Nat
           /\ OfTurnoverInRupees(turnover, rate) \in Nat
           /\ OfMoney(turnover, rate) \in Nat
  <1>1. turnover * rate \in Nat
    BY UnitAssumption DEF Rate
  <1>2. Lot * Unit \in Nat \ {0}
    BY UnitAssumption, ScaleAssumption
  <1>3. Lot * Unit * Rupee \in Nat \ {0}
    BY <1>2 DEF Rupee
  <1>4. /\ HalfUp(turnover * rate, Lot * Unit) \in Nat
        /\ HalfUp(turnover * rate, Lot * Unit * Rupee) \in Nat
        /\ HalfUp(turnover * rate, Unit) \in Nat
    BY <1>1, <1>2, <1>3, UnitAssumption, HalfUpBounds
  <1> QED BY <1>4 DEF OfTurnover, OfTurnoverInRupees, OfMoney, Rupee

LEMMA CappedType ==
    ASSUME NEW charge \in Nat, NEW cap \in Nat \cup {NoCap}
    PROVE  Capped(charge, cap) \in Nat
  BY DEF Capped, Lesser

\* Charges are never a rebate, under any schedule of either asset class.
THEOREM ChargesNonNegative ==
    ASSUME NEW schedule \in Schedule, NEW class \in AssetClass, NEW side \in Side,
           NEW quantity \in Nat, NEW price \in Nat
    PROVE  TotalCharges(schedule, class, side, quantity, price) \in Nat
  <1> DEFINE turnover == price * quantity
             buys == Direction(side) > 0
  <1>1. turnover \in Nat /\ buys \in BOOLEAN
    BY DEF Direction
  <1>2. /\ {schedule.brokerage, schedule.stt, schedule.sttDelivery, schedule.exchange,
             schedule.sebi, schedule.stamp, schedule.stampDelivery, schedule.gst,
             schedule.fee, schedule.feeGst, schedule.tds} \subseteq Rate
        /\ schedule.cap \in Nat \cup {NoCap} /\ schedule.feeCap \in Nat \cup {NoCap}
        /\ schedule.dp \in Nat
    BY DEF Schedule
  <1> HIDE DEF turnover, buys
  <1>3. EquityCharges(schedule, turnover, buys) \in Nat
    <2> DEFINE brokerage == Capped(OfTurnover(turnover, schedule.brokerage), schedule.cap)
               exchange == OfTurnover(turnover, schedule.exchange)
               sebi == OfTurnover(turnover, schedule.sebi)
               gst == OfMoney(brokerage + exchange + sebi, schedule.gst)
    <2>1. brokerage \in Nat /\ exchange \in Nat /\ sebi \in Nat
      BY <1>1, <1>2, SharesAreMoney, CappedType
    <2>2. gst \in Nat
      <3> DEFINE base == brokerage + exchange + sebi
      <3>1. base \in Nat /\ schedule.gst \in Rate
        BY <1>2, <2>1
      <3>2. gst = OfMoney(base, schedule.gst)
        OBVIOUS
      <3> HIDE DEF base, gst
      <3> QED BY <3>1, <3>2, SharesAreMoney
    <2>3. Stt(schedule, turnover, buys) \in Nat
      BY <1>1, <1>2, SharesAreMoney DEF Stt
    <2>4. StampDuty(schedule, turnover, buys) \in Nat
      BY <1>1, <1>2, SharesAreMoney DEF StampDuty
    <2>5. DpCharges(schedule, buys) \in Nat
      BY <1>2 DEF DpCharges
    <2>6. EquityCharges(schedule, turnover, buys) =
             brokerage + exchange + sebi + gst + Stt(schedule, turnover, buys)
               + StampDuty(schedule, turnover, buys) + DpCharges(schedule, buys)
      BY DEF EquityCharges
    <2> HIDE DEF brokerage, exchange, sebi, gst
    <2> QED BY <2>1, <2>2, <2>3, <2>4, <2>5, <2>6
  <1>4. CryptoCharges(schedule, turnover, buys) \in Nat
    <2> DEFINE fee == Capped(OfTurnover(turnover, schedule.fee), schedule.feeCap)
    <2>1. fee \in Nat
      BY <1>1, <1>2, SharesAreMoney, CappedType
    <2> HIDE DEF fee
    <2>2. OfMoney(fee, schedule.feeGst) \in Nat /\ OfTurnover(turnover, schedule.tds) \in Nat
      BY <1>1, <1>2, <2>1, SharesAreMoney
    <2>3. CryptoCharges(schedule, turnover, buys) =
             fee + OfMoney(fee, schedule.feeGst)
               + (IF buys THEN 0 ELSE OfTurnover(turnover, schedule.tds))
      BY DEF CryptoCharges, fee
    <2> QED BY <1>1, <2>1, <2>2, <2>3
  <1> QED BY <1>3, <1>4 DEF TotalCharges, turnover, buys

\* A fill is never better than the price it was asked at (the promise of
\* place_order and of the order schema), and what it reports as its costs are
\* amounts of money.
THEOREM FillIsAdverse ==
    ASSUME NEW schedule \in Schedule, NEW class \in AssetClass, NEW side \in Side,
           NEW quantity \in Nat, NEW reference \in Nat
    PROVE  LET fill == PriceFill(schedule, class, side, quantity, reference)
           IN  /\ Direction(side) > 0 => fill.price >= reference
               /\ Direction(side) < 0 => fill.price <= reference
               /\ {fill.price, fill.spread, fill.slippage, fill.charges} \subseteq Nat
  <1> DEFINE quoted == Quoted(schedule, reference, Direction(side))
             price == Slipped(schedule, quoted, Direction(side))
  <1>1. Direction(side) \in {1, -1}
    BY DEF Direction
  <1>2. quoted \in Nat /\ (Direction(side) > 0 => quoted >= reference)
        /\ (Direction(side) < 0 => quoted <= reference)
    BY <1>1, QuotedAdverse
  <1> HIDE DEF quoted
  <1>3. price \in Nat /\ (Direction(side) > 0 => price >= quoted)
        /\ (Direction(side) < 0 => price <= quoted)
    BY <1>1, <1>2, SlippedAdverse
  <1> HIDE DEF price
  <1>4. ASSUME NEW from \in Nat, NEW to \in Nat
        PROVE  ImpactCost(from, to, quantity) \in Nat
    <2>1. Magnitude(to - from) \in Nat
      BY DEF Magnitude
    <2>2. Magnitude(to - from) * quantity \in Nat
      BY <2>1
    <2> QED BY <2>2, HalfUpBounds, ScaleAssumption DEF ImpactCost
  <1>5. TotalCharges(schedule, class, side, quantity, price) \in Nat
    BY <1>3, ChargesNonNegative
  <1>6. quoted \in Nat /\ reference \in Nat
    BY <1>2
  <1>7. ImpactCost(reference, quoted, quantity) \in Nat /\ ImpactCost(quoted, price, quantity) \in Nat
    BY <1>3, <1>4, <1>6
  <1> DEFINE fill == PriceFill(schedule, class, side, quantity, reference)
  <1>8. /\ fill.price = price /\ fill.spread = ImpactCost(reference, quoted, quantity)
        /\ fill.slippage = ImpactCost(quoted, price, quantity)
        /\ fill.charges = TotalCharges(schedule, class, side, quantity, price)
    BY DEF PriceFill, quoted, price
  <1> HIDE DEF fill
  <1>9. /\ Direction(side) > 0 => fill.price >= reference
        /\ Direction(side) < 0 => fill.price <= reference
    BY <1>1, <1>2, <1>3, <1>8
  <1>10. {fill.price, fill.spread, fill.slippage, fill.charges} \subseteq Nat
    BY <1>3, <1>5, <1>7, <1>8
  <1> QED BY <1>9, <1>10 DEF fill

-----------------------------------------------------------------------------
(* The account *)

\* A position stays well formed whatever the price, the zero to which a tiny
\* bid may round included.
LEMMA BookType ==
    ASSUME NEW book \in Position, NEW side \in Side, NEW quantity \in Nat \ {0},
           NEW price \in Nat, NEW charges \in Nat
    PROVE  AfterFill(book, side, quantity, price, charges) \in Position
  <1> DEFINE fill == Direction(side) * quantity
             outcome == ApplyFill(book.quantity, book.average, fill, price)
  <1>1. fill \in Int \ {0}
    BY DEF Direction
  <1>2. book.quantity \in Int /\ book.average \in Nat /\ book.realized \in Int
        /\ book.charges \in Nat
    BY DEF Position
  <1> HIDE DEF fill
  <1>3. outcome.realized \in Int
    BY <1>1, <1>2, ApplyFillRealized
  <1>4. outcome.quantity = book.quantity + fill
    BY DEF ApplyFill
  <1>5. price * AvgTicks \in Nat
    BY ScaleAssumption
  <1>6. outcome.average \in Nat
    <2> DEFINE held == Magnitude(book.quantity)
               added == Magnitude(fill)
               blend == WeightedAveragePrice(held, book.average, added, price)
               against == (book.quantity > 0) # (fill > 0)
    <2>1. ASSUME book.quantity # 0 PROVE blend \in Nat
      <3>1. held \in Nat \ {0} /\ added \in Nat \ {0}
        BY <1>1, <1>2, <2>1 DEF Magnitude
      <3> HIDE DEF held, added
      <3>2. book.average * held \in Nat /\ price * AvgTicks * added \in Nat
        BY <1>2, <1>5, <3>1
      <3>3. book.average * held + price * AvgTicks * added \in Nat /\ held + added \in Nat \ {0}
        BY <3>1, <3>2
      <3> QED BY <3>3, HalfUpBounds DEF WeightedAveragePrice
    <2>2. CASE book.quantity = 0
      <3>1. outcome.average = price * AvgTicks
        BY <1>1, <2>2 DEF ApplyFill
      <3> QED BY <1>5, <3>1
    <2>3. CASE book.quantity # 0 /\ ~against
      <3>1. outcome.average = blend
        BY <1>1, <2>3 DEF ApplyFill
      <3> QED BY <2>1, <2>3, <3>1
    <2>4. CASE book.quantity # 0 /\ against
      <3>1. outcome.average \in {book.average, price * AvgTicks, 0}
        BY <1>1, <1>2, <2>4 DEF ApplyFill, Magnitude, Lesser
      <3> QED BY <1>2, <1>5, <3>1
    <2> QED BY <2>2, <2>3, <2>4
  <1> HIDE DEF outcome
  <1>7. AfterFill(book, side, quantity, price, charges) =
          [quantity |-> outcome.quantity, average |-> outcome.average,
           realized |-> book.realized + outcome.realized,
           charges |-> book.charges + charges,
           net |-> book.realized + outcome.realized - (book.charges + charges)]
    BY DEF AfterFill, outcome, fill
  <1> QED BY <1>1, <1>2, <1>3, <1>4, <1>6, <1>7 DEF Position

\* Settling an order leaves a well-formed portfolio without debt.
LEMMA SettledType ==
    ASSUME NEW p \in Portfolio, NEW at \in Nat, NEW fill \in FillType
    PROVE  Settled(p, at, fill) \in Portfolio
  <1> DEFINE delta == CashDelta(fill.side, fill.quantity, fill.price, fill.charges)
             outcome == ApplyFill(p.book.quantity, p.book.average,
                                  Direction(fill.side) * fill.quantity, fill.price)
             book == AfterFill(p.book, fill.side, fill.quantity, fill.price, fill.charges)
             trade == [fill |-> fill, bar |-> at, gross |-> outcome.realized,
                       closed |-> outcome.closed, position |-> outcome.quantity,
                       cash |-> p.cash + delta]
  <1>1. /\ p.cash \in Nat /\ p.book \in Position /\ p.trades \in Seq(TradeType)
        /\ p.rejected \in Nat
    BY DEF Portfolio
  <1>2. /\ fill.side \in Side /\ fill.quantity \in Nat \ {0} /\ fill.price \in Nat
        /\ fill.charges \in Nat
    BY DEF FillType
  <1>3. CASE ~Affordable(p.cash, delta)
    <2>1. Settled(p, at, fill) = [p EXCEPT !.rejected = @ + 1]
      BY <1>3 DEF Settled
    <2> QED BY <2>1 DEF Portfolio
  <1>4. CASE Affordable(p.cash, delta)
    <2>1. p.cash + delta \in Nat
      BY <1>1, <1>2, <1>4, AffordableLeavesNoDebt
    <2>2. book \in Position
      BY <1>1, <1>2, BookType
    <2>3. p.book.quantity \in Int /\ p.book.average \in Nat
      BY <1>1 DEF Position
    <2>4. Direction(fill.side) * fill.quantity \in Int
      BY <1>2 DEF Direction
    <2>5. outcome.realized \in Int
      BY <1>2, <2>3, <2>4, ApplyFillRealized
    <2>6. outcome.closed \in Nat /\ outcome.quantity \in Int
      <3> DEFINE move == Direction(fill.side) * fill.quantity
      <3>1. move \in Int
        BY <2>4
      <3> HIDE DEF move
      <3>2. ApplyFill(p.book.quantity, p.book.average, move, fill.price).closed \in Nat
        BY <1>2, <2>3, <3>1, ApplyFillQuantities
      <3>3. ApplyFill(p.book.quantity, p.book.average, move, fill.price).quantity
              = p.book.quantity + move
        BY DEF ApplyFill
      <3> QED BY <2>3, <3>1, <3>2, <3>3 DEF move
    <2> HIDE DEF outcome, delta, book
    <2>7. trade \in TradeType
      BY <2>1, <2>5, <2>6 DEF TradeType
    <2>8. Append(p.trades, trade) \in Seq(TradeType)
      <3> HIDE DEF trade
      <3> QED BY <1>1, <2>7
    <2>9. Settled(p, at, fill) = [cash |-> p.cash + delta, book |-> book,
                                  trades |-> Append(p.trades, trade), rejected |-> p.rejected]
      BY <1>4 DEF Settled, outcome, delta, book
    <2> HIDE DEF trade
    <2> QED BY <1>1, <2>1, <2>2, <2>8, <2>9 DEF Portfolio
  <1> QED BY <1>3, <1>4

\* A priced order is a fill.
LEMMA PricedType ==
    ASSUME BacktestTypeOK, NEW side \in Side, NEW quantity \in Nat \ {0},
           NEW reference \in Nat \ {0}
    PROVE  Priced(side, quantity, reference) \in FillType
  <1>1. config.schedule \in Schedule /\ config.class \in AssetClass
    BY RunAssumption DEF BacktestTypeOK, Config
  <1> DEFINE fill == PriceFill(config.schedule, config.class, side, quantity, reference)
  <1>2. {fill.price, fill.spread, fill.slippage, fill.charges} \subseteq Nat
    BY <1>1, FillIsAdverse
  <1>3. /\ DOMAIN fill = {"side", "quantity", "reference", "price", "spread", "slippage",
                          "charges"}
        /\ fill.side = side /\ fill.quantity = quantity /\ fill.reference = reference
    BY DEF PriceFill
  <1>4. fill = [side |-> side, quantity |-> quantity, reference |-> reference,
                price |-> fill.price, spread |-> fill.spread, slippage |-> fill.slippage,
                charges |-> fill.charges]
    BY DEF PriceFill
  <1> HIDE DEF fill
  <1>5. fill \in FillType
    BY <1>2, <1>4 DEF FillType
  <1> QED BY <1>5 DEF Priced, fill

-----------------------------------------------------------------------------
(* The steps *)

\* The sides an order may have, and the sizes: what only closes never exceeds
\* what is held.
LEMMA OrderQuantityType ==
    ASSUME BacktestTypeOK, NEW side \in Side, NEW price \in Nat \ {0}
    PROVE  /\ OrderQuantity(side, portfolio, price) \in Nat
           /\ OrderQuantity(side, portfolio, price) > 0 =>
                ValidAgainstPosition(side, OrderQuantity(side, portfolio, price),
                                     portfolio.book.quantity)
  <1> DEFINE held == portfolio.book.quantity
             equity == Equity(portfolio, price)
             target == TargetSize(equity, price)
  <1>1. held \in Int /\ portfolio.cash \in Nat
    BY DEF BacktestTypeOK, Portfolio, Position
  <1>2. equity \in Int
    <2>1. held * price \in Int
      BY <1>1
    <2>2. HalfUp(held * price, Lot) \in Int
      BY <2>1, HalfUpType, ScaleAssumption
    <2>3. equity = portfolio.cash + HalfUp(held * price, Lot)
      BY DEF Equity
    <2> QED BY <1>1, <2>2, <2>3
  <1>3. target \in Int
    <2> HIDE DEF equity
    <2>1. config.size \in Nat /\ config.sizing \in {"FIXED_QUANTITY", "FIXED_VALUE",
                                                    "PERCENT_OF_EQUITY"}
      BY RunAssumption DEF BacktestTypeOK, Config
    <2>2. Step \in Nat \ {0}
      BY ScaleAssumption DEF Step
    <2>3. \A a \in Int, b \in Nat \ {0} : a \div b \in Int
      OBVIOUS
    <2>4. config.size * Lot \in Int /\ equity * config.size * Lot \in Int
          /\ 100 * price \in Nat \ {0}
      BY <1>2, <2>1, ScaleAssumption
    <2>5. (config.size * Lot) \div price \in Int
          /\ (equity * config.size * Lot) \div (100 * price) \in Int
      BY <2>3, <2>4
    <2> DEFINE size == CASE config.sizing = "FIXED_QUANTITY" -> config.size
                         [] config.sizing = "FIXED_VALUE" -> (config.size * Lot) \div price
                         [] config.sizing = "PERCENT_OF_EQUITY" ->
                                (equity * config.size * Lot) \div (100 * price)
    <2>6. size \in Int
      BY <2>1, <2>5
    <2> HIDE DEF size
    <2>7. Step * (size \div Step) \in Int
      BY <2>2, <2>3, <2>6
    <2>8. target = Greater(Step * (size \div Step), 0)
      BY DEF TargetSize, size
    <2> QED BY <2>7, <2>8 DEF Greater
  <1> HIDE DEF target
  <1>4. CASE side = "BUY"
    <2>1. OrderQuantity(side, portfolio, price) = Greater(target - held, 0)
      BY <1>4 DEF OrderQuantity, target
    <2> QED BY <1>1, <1>3, <1>4, <2>1 DEF Greater, ValidAgainstPosition
  <1>5. CASE side = "SHORT_SELL"
    <2>1. OrderQuantity(side, portfolio, price) = Greater(target + held, 0)
      BY <1>5 DEF OrderQuantity, target
    <2> QED BY <1>1, <1>3, <1>5, <2>1 DEF Greater, ValidAgainstPosition
  <1>6. CASE side = "SELL"
    <2>1. OrderQuantity(side, portfolio, price) = Greater(held, 0)
      BY <1>6 DEF OrderQuantity
    <2> QED BY <1>1, <1>6, <2>1 DEF Greater, ValidAgainstPosition
  <1>7. CASE side = "BUY_TO_COVER"
    <2>1. OrderQuantity(side, portfolio, price) = Greater(-held, 0)
      BY <1>7 DEF OrderQuantity
    <2> QED BY <1>1, <1>7, <2>1 DEF Greater, ValidAgainstPosition
  <1> QED BY <1>4, <1>5, <1>6, <1>7 DEF Side

\* A step that moves the account settles one order: one the position allows.
LEMMA OrdersAreValid ==
    ASSUME BacktestTypeOK, phase = "bars" => Bars > 0,
           OnBar \/ CloseOut, portfolio' # portfolio
    PROVE  \E side \in Side, quantity \in Nat \ {0}, reference \in Nat \ {0}, at \in Nat :
               /\ ValidAgainstPosition(side, quantity, portfolio.book.quantity)
               /\ portfolio' = Settled(portfolio, at, Priced(side, quantity, reference))
  <1>1. candles \in Seq(Bar) /\ bar \in Nat \ {0} /\ Bars \in Nat
    BY RunAssumption DEF BacktestTypeOK, Bars
  <1>2. ASSUME NEW k \in 1 .. Bars
        PROVE  candles[k].open \in Nat \ {0} /\ candles[k].close \in Nat \ {0}
    <2>1. candles[k] \in Bar
      BY <1>1 DEF Bars
    <2> QED BY <2>1 DEF Bar
  <1>3. CASE OnBar
    <2> DEFINE side == IF bar > Slow /\ bar < Bars
                       THEN OrderSide(Signal(bar, portfolio.book.quantity)) ELSE "NONE"
               reference == ReferencePrice(bar)
               quantity == OrderQuantity(side, portfolio, reference)
    <2>1. /\ side # "NONE" /\ ~(quantity <= 0)
          /\ portfolio' = Settled(portfolio, bar + 1, Priced(side, quantity, reference))
      BY <1>3, SMTT(20) DEF OnBar
    <2>2. side \in Side /\ bar < Bars
      BY <2>1 DEF Signal, OrderSide, Side
    <2>3. reference \in Nat \ {0}
      BY <1>1, <1>2, <2>2 DEF ReferencePrice
    <2> HIDE DEF side, reference
    <2>4. /\ quantity \in Nat
          /\ quantity > 0 => ValidAgainstPosition(side, quantity, portfolio.book.quantity)
      BY <2>2, <2>3, OrderQuantityType
    <2> HIDE DEF quantity
    <2> QED BY <1>1, <2>1, <2>2, <2>3, <2>4
  <1>4. CASE CloseOut
    <2> DEFINE held == portfolio.book.quantity
               side == IF held > 0 THEN "SELL" ELSE "BUY_TO_COVER"
    <2>1. /\ held \in Int /\ held # 0
          /\ portfolio' = Settled(portfolio, Bars,
                                  Priced(side, Magnitude(held), candles[Bars].close))
      BY <1>4 DEF CloseOut, BacktestTypeOK, Portfolio, Position
    <2>2. bar > Bars /\ phase = "bars"
      BY <1>4 DEF CloseOut
    <2>3. side \in Side /\ Magnitude(held) \in Nat \ {0}
          /\ ValidAgainstPosition(side, Magnitude(held), held)
      BY <2>1 DEF Side, Magnitude, ValidAgainstPosition
    <2>4. Bars \in 1 .. Bars
      BY <1>1, <2>2
    <2>5. candles[Bars].close \in Nat \ {0}
      BY <1>2, <2>4
    <2> HIDE DEF side
    <2> QED BY <1>1, <2>1, <2>3, <2>5
  <1> QED BY <1>3, <1>4

\* A mark of the account is a point of the curve.
LEMMA PointIsTyped ==
    ASSUME BacktestTypeOK, NEW p \in Portfolio, NEW at \in 1 .. Bars
    PROVE  Point(p, at) \in PointType
  <1> DEFINE mark == candles[at].close
  <1>1. candles \in Seq(Bar)
    BY RunAssumption DEF BacktestTypeOK
  <1>2. mark \in Nat /\ at \in Nat
    <2>1. candles[at] \in Bar
      BY <1>1 DEF Bars
    <2> QED BY <2>1 DEF Bar
  <1> HIDE DEF mark
  <1>3. /\ p.cash \in Nat /\ p.book.quantity \in Int /\ p.book.average \in Nat
        /\ p.book.net \in Int
    BY DEF Portfolio, Position
  <1>4. Equity(p, mark) \in Int
    <2>1. p.book.quantity * mark \in Int
      BY <1>2, <1>3
    <2>2. HalfUp(p.book.quantity * mark, Lot) \in Int
      BY <2>1, HalfUpType, ScaleAssumption
    <2> QED BY <1>3, <2>2 DEF Equity
  <1>5. Unrealized(p, mark) \in Int
    <2>1. (mark * AvgTicks - p.book.average) * p.book.quantity \in Int
          /\ AvgTicks * Lot \in Nat \ {0}
      BY <1>2, <1>3, ScaleAssumption
    <2>2. HalfUp((mark * AvgTicks - p.book.average) * p.book.quantity, AvgTicks * Lot) \in Int
      BY <2>1, HalfUpType
    <2> QED BY <2>2 DEF Unrealized
  <1>6. Point(p, at) = [bar |-> at, mark |-> mark, cash |-> p.cash,
                        position |-> p.book.quantity, total |-> Equity(p, mark),
                        net |-> p.book.net + Unrealized(p, mark)]
    BY DEF Point, mark
  <1> QED BY <1>2, <1>3, <1>4, <1>5, <1>6 DEF PointType

-----------------------------------------------------------------------------
(* The inductive invariant: the loop runs over a series that is not empty,   *)
(* and nothing has happened before the run begins.                           *)

BInv ==
    /\ BacktestTypeOK
    /\ phase = "bars" => Bars > 0
    /\ phase = "new" => portfolio = [cash |-> 0, book |-> Flat, trades |-> <<>>, rejected |-> 0]

LEMMA InitBInv == Init => BInv
  <1> SUFFICES ASSUME Init PROVE BInv
    OBVIOUS
  <1>1. candles \in Seq(Bar)
    BY RunAssumption DEF Init
  <1>2. bar \in 1 .. Bars + 1
    BY <1>1 DEF Init, Bars
  <1>3. portfolio \in Portfolio
    <2>1. Flat \in Position
      BY DEF Flat, Position
    <2> QED BY <2>1 DEF Init, Portfolio
  <1> QED BY <1>2, <1>3 DEF Init, BInv, BacktestTypeOK

LEMMA NextBInv == BInv /\ [Next]_vars => BInv'
  <1> SUFFICES ASSUME BInv, [Next]_vars PROVE BInv'
    OBVIOUS
  <1>1. /\ candles \in Seq(Bar) /\ Bars \in Nat /\ bar \in 1 .. Bars + 1
        /\ portfolio \in Portfolio /\ curve \in Seq(PointType) /\ Len(curve) = bar - 1
    BY RunAssumption DEF BInv, BacktestTypeOK, Bars
  <1>2. CASE Begin
    <2>1. portfolio' = [portfolio EXCEPT !.cash = Capital]
      BY <1>2 DEF Begin
    <2>2. portfolio' \in Portfolio
      BY <1>1, <2>1, RunAssumption DEF Portfolio
    <2>3. phase' \in {"sums", "bars"} /\ (phase' = "bars" => Bars # 0)
      BY <1>2 DEF Begin
    <2> QED BY <1>1, <1>2, <2>2, <2>3 DEF Begin, BInv, BacktestTypeOK, Bars
  <1>3. ASSUME OnBar \/ CloseOut PROVE portfolio' \in Portfolio
    <2>1. CASE portfolio' = portfolio
      BY <1>1, <2>1
    <2>2. CASE portfolio' # portfolio
      <3>1. PICK side \in Side, quantity \in Nat \ {0}, reference \in Nat \ {0}, at \in Nat :
                   portfolio' = Settled(portfolio, at, Priced(side, quantity, reference))
        BY <1>3, <2>2, OrdersAreValid DEF BInv
      <3>2. Priced(side, quantity, reference) \in FillType
        BY PricedType DEF BInv
      <3> QED BY <1>1, <3>1, <3>2, SettledType
    <2> QED BY <2>1, <2>2
  <1>4. CASE OnBar
    <2>1. bar \in 1 .. Bars /\ bar' = bar + 1 /\ curve' = Append(curve, Point(portfolio, bar))
          /\ phase' = phase /\ phase = "bars" /\ UNCHANGED <<config, candles>>
      BY <1>1, <1>4 DEF OnBar
    <2>2. Point(portfolio, bar) \in PointType
      BY <1>1, <2>1, PointIsTyped DEF BInv
    <2>3. curve' \in Seq(PointType) /\ Len(curve') = Len(curve) + 1
      BY <1>1, <2>1, <2>2
    <2>4. Bars' = Bars /\ bar' \in 1 .. Bars' + 1 /\ Len(curve') = bar' - 1
      BY <1>1, <2>1, <2>3 DEF Bars
    <2> QED BY <1>3, <1>4, <2>1, <2>3, <2>4 DEF BInv, BacktestTypeOK
  <1>5. CASE CloseOut
    <2>1. /\ bar > Bars /\ phase = "bars" /\ phase' = "sums"
          /\ curve' = [curve EXCEPT ![Bars] = Point(portfolio', Bars)]
          /\ UNCHANGED <<config, candles, bar>>
      BY <1>5 DEF CloseOut
    <2>2. Bars \in 1 .. Bars
      BY <1>1, <2>1 DEF BInv
    <2>3. Point(portfolio', Bars) \in PointType
      BY <1>3, <1>5, <2>2, PointIsTyped DEF BInv
    <2>4. curve' \in Seq(PointType) /\ Len(curve') = Len(curve)
      <3> DEFINE point == Point(portfolio', Bars)
      <3>1. curve' = [curve EXCEPT ![Bars] = point] /\ point \in PointType
        BY <2>1, <2>3
      <3> HIDE DEF point
      <3>2. curve \in [1 .. bar - 1 -> PointType]
        BY <1>1
      <3>3. curve' \in [1 .. bar - 1 -> PointType]
        BY <3>1, <3>2
      <3>4. bar - 1 \in Nat
        BY <1>1
      <3>5. curve' \in Seq(PointType)
        BY <3>3, <3>4
      <3>6. Len(curve') = bar - 1
        BY <3>3, <3>4
      <3> QED BY <1>1, <3>5, <3>6
    <2>5. Bars' = Bars
      BY <2>1 DEF Bars
    <2> QED BY <1>1, <1>3, <1>5, <2>1, <2>4, <2>5 DEF BInv, BacktestTypeOK
  <1>6. CASE KeepOpen
    BY <1>6 DEF KeepOpen, BInv, BacktestTypeOK, Bars
  <1>7. CASE Summarise
    BY <1>7 DEF Summarise, BInv, BacktestTypeOK, Bars
  <1>8. CASE UNCHANGED vars
    BY <1>8 DEF vars, BInv, BacktestTypeOK, Bars
  <1> QED BY <1>2, <1>4, <1>5, <1>6, <1>7, <1>8 DEF Next

\* Whatever the series, the sizing and the costs, a backtest's account never
\* goes into debt and its books stay well formed.
THEOREM BacktestTypeCorrect == Spec => []BacktestTypeOK
  <1>1. Init => BInv
    BY InitBInv
  <1>2. BInv /\ [Next]_vars => BInv'
    BY NextBInv
  <1>3. BInv => BacktestTypeOK
    BY DEF BInv
  <1> QED BY <1>1, <1>2, <1>3, PTL DEF Spec

-----------------------------------------------------------------------------
(* The refinement *)

LEMMA InitIsLive == Init => Live!LedgerInit
  <1> SUFFICES ASSUME Init PROVE Live!LedgerInit
    OBVIOUS
  <1>1. phase = "new" /\ portfolio.cash = 0 /\ portfolio.book = Flat /\ portfolio.trades = <<>>
    BY DEF Init
  <1>2. {LiveFill(k) : k \in DOMAIN portfolio.trades} = {}
    BY <1>1
  <1> QED BY <1>1, <1>2 DEF Live!LedgerInit, Live!Flat, Flat

\* The ledger's arithmetic is the backtest's: one PositionAccounting.

LEMMA LiveHalfUp == \A n, d : Live!HalfUp(n, d) = HalfUp(n, d)
  BY DEF Live!HalfUp, HalfUp, Live!Sign, Sign, Live!Magnitude, Magnitude

LEMMA LiveApplyFill ==
    \A q \in Int, f \in Int : \A a, p : Live!ApplyFill(q, a, f, p) = ApplyFill(q, a, f, p)
  <1>1. \A n : Live!Magnitude(n) = Magnitude(n)
    BY DEF Live!Magnitude, Magnitude
  <1>2. \A m, n : Live!Lesser(m, n) = Lesser(m, n)
    BY DEF Live!Lesser, Lesser
  <1>3. \A a, b, c, d : Live!WeightedAveragePrice(a, b, c, d) = WeightedAveragePrice(a, b, c, d)
    BY LiveHalfUp DEF Live!WeightedAveragePrice, WeightedAveragePrice
  <1>4. \A a, b, c, d : Live!RealizedPnl(a, b, c, d) = RealizedPnl(a, b, c, d)
    BY LiveHalfUp DEF Live!RealizedPnl, RealizedPnl
  <1> TAKE q \in Int, f \in Int
  <1> TAKE a, p
  <1> DEFINE against == q # 0 /\ f # 0 /\ (q > 0) # (f > 0)
             closed == IF against THEN Lesser(Magnitude(q), Magnitude(f)) ELSE 0
  <1>5. /\ Live!Magnitude(q) = Magnitude(q) /\ Live!Magnitude(f) = Magnitude(f)
        /\ Live!Sign(q) = Sign(q)
    BY <1>1 DEF Live!Sign, Sign
  <1>6. (IF against THEN Live!Lesser(Live!Magnitude(q), Live!Magnitude(f)) ELSE 0) = closed
    BY <1>2, <1>5
  <1>7. Live!WeightedAveragePrice(Live!Magnitude(q), a, Live!Magnitude(f), p)
          = WeightedAveragePrice(Magnitude(q), a, Magnitude(f), p)
    BY <1>3, <1>5
  <1>8. Live!RealizedPnl(a, p, closed, Live!Sign(q)) = RealizedPnl(a, p, closed, Sign(q))
    BY <1>4, <1>5
  <1>9. Live!ApplyFill(q, a, f, p).quantity = ApplyFill(q, a, f, p).quantity
    BY DEF Live!ApplyFill, ApplyFill
  <1>10. Live!ApplyFill(q, a, f, p).closed = ApplyFill(q, a, f, p).closed
    BY <1>6 DEF Live!ApplyFill, ApplyFill
  <1>11. Live!ApplyFill(q, a, f, p).opened = ApplyFill(q, a, f, p).opened
    BY <1>5, <1>6 DEF Live!ApplyFill, ApplyFill
  <1>12. Live!ApplyFill(q, a, f, p).realized = ApplyFill(q, a, f, p).realized
    BY <1>6, <1>8 DEF Live!ApplyFill, ApplyFill
  <1>13. Live!ApplyFill(q, a, f, p).average = ApplyFill(q, a, f, p).average
    <2> DEFINE blend == WeightedAveragePrice(Magnitude(q), a, Magnitude(f), p)
    <2>1. Magnitude(f) \in Int /\ closed \in Int /\ closed <= Magnitude(f)
      BY DEF Magnitude, Lesser
    <2>2. CASE f = 0
      BY <2>2 DEF Live!ApplyFill, ApplyFill
    <2>3. CASE f # 0 /\ q = 0
      BY <2>3 DEF Live!ApplyFill, ApplyFill
    <2>4. CASE f # 0 /\ q # 0 /\ ~against
      <3>1. ApplyFill(q, a, f, p).average = blend
        BY <2>4 DEF ApplyFill
      <3>2. Live!ApplyFill(q, a, f, p).average = blend
        BY <1>7, <2>4 DEF Live!ApplyFill
      <3> QED BY <3>1, <3>2
    <2>5. CASE against /\ q + f = 0
      BY <2>1, <2>5, <1>5, <1>6 DEF Live!ApplyFill, ApplyFill
    <2>6. CASE against /\ q + f # 0 /\ Magnitude(f) - closed > 0
      BY <2>1, <2>6, <1>5, <1>6 DEF Live!ApplyFill, ApplyFill
    <2>7. CASE against /\ q + f # 0 /\ Magnitude(f) - closed = 0
      BY <2>1, <2>7, <1>5, <1>6 DEF Live!ApplyFill, ApplyFill
    <2> HIDE DEF closed
    <2> QED BY <2>1, <2>2, <2>3, <2>4, <2>5, <2>6, <2>7
  <1> QED BY <1>9, <1>10, <1>11, <1>12, <1>13 DEF Live!ApplyFill, ApplyFill

LEMMA LiveCanFill ==
    \A cash, book, side, quantity, price, charges :
        /\ Live!CashDelta(side, quantity, price, charges)
             = CashDelta(side, quantity, price, charges)
        /\ Live!CanFill(cash, book, side, quantity, price, charges)
             <=> CanFill(cash, book, side, quantity, price, charges)
  <1>1. \A side, quantity, price, charges :
           Live!CashDelta(side, quantity, price, charges)
             = CashDelta(side, quantity, price, charges)
    BY LiveHalfUp DEF Live!CashDelta, CashDelta, Live!Direction, Direction
  <1> QED BY <1>1 DEF Live!CanFill, CanFill, Live!ValidAgainstPosition, ValidAgainstPosition,
                      Live!Affordable, Affordable

LEMMA LiveBooks ==
    ASSUME NEW book \in Position, NEW side \in Side, NEW quantity \in Nat
    PROVE  /\ \A price, charges :
                  Live!AfterFill(book, side, quantity, price, charges)
                    = AfterFill(book, side, quantity, price, charges)
           /\ \A id, symbol, price, charges, epoch :
                  Live!FillRecord(book, id, symbol, side, quantity, price, charges, epoch)
                    = FillRecord(book, id, symbol, side, quantity, price, charges, epoch)
  <1> DEFINE move == Direction(side) * quantity
  <1>1. Live!Direction(side) = Direction(side)
    BY DEF Live!Direction, Direction
  <1>2. \A price : Live!ApplyFill(book.quantity, book.average, move, price)
                     = ApplyFill(book.quantity, book.average, move, price)
    <2>1. move \in Int /\ book.quantity \in Int
      BY DEF Direction, Position
    <2> HIDE DEF move
    <2> QED BY <2>1, LiveApplyFill
  <1> QED BY <1>1, <1>2 DEF Live!AfterFill, AfterFill, Live!FillRecord, FillRecord

\* An order the portfolio settles is one the live ledger fills, and one it
\* rejects leaves no trace in the ledger.
LEMMA SettledIsLive ==
    ASSUME BInv, phase # "new", phase' # "new",
           NEW side \in Side, NEW quantity \in Nat \ {0}, NEW reference \in Nat \ {0},
           NEW at \in Nat,
           ValidAgainstPosition(side, quantity, portfolio.book.quantity),
           portfolio' = Settled(portfolio, at, Priced(side, quantity, reference))
    PROVE  LiveStep \/ UNCHANGED Live!ledgerVars
  <1> DEFINE fill == Priced(side, quantity, reference)
             p == portfolio
             delta == CashDelta(fill.side, fill.quantity, fill.price, fill.charges)
             outcome == ApplyFill(p.book.quantity, p.book.average,
                                  Direction(fill.side) * fill.quantity, fill.price)
             book == AfterFill(p.book, fill.side, fill.quantity, fill.price, fill.charges)
             trade == [fill |-> fill, bar |-> at, gross |-> outcome.realized,
                       closed |-> outcome.closed, position |-> outcome.quantity,
                       cash |-> p.cash + delta]
  <1>1. p \in Portfolio /\ p.trades \in Seq(TradeType) /\ fill \in FillType
    BY PricedType DEF BInv, BacktestTypeOK, Portfolio
  <1>2. fill.side = side /\ fill.quantity = quantity
    BY DEF Priced, PriceFill
  <1> HIDE DEF fill
  <1>3. CASE ~Affordable(p.cash, delta)
    <2>1. p' = [p EXCEPT !.rejected = @ + 1]
      BY <1>3 DEF Settled, fill
    <2>2. p'.cash = p.cash /\ p'.book = p.book /\ p'.trades = p.trades
      BY <1>1, <2>1 DEF Portfolio
    <2>3. {LiveFill(k) : k \in DOMAIN p.trades}' = {LiveFill(k) : k \in DOMAIN p.trades}
      BY <2>2 DEF LiveFill
    <2> QED BY <2>2, <2>3 DEF Live!ledgerVars
  <1>4. CASE Affordable(p.cash, delta)
    <2>0. PICK n \in Nat \ {0} : n = Len(p.trades) + 1
      BY <1>1
    <2>1. p' = [cash |-> p.cash + delta, book |-> book, trades |-> Append(p.trades, trade),
                rejected |-> p.rejected]
      BY <1>4 DEF Settled, fill
    <2> HIDE DEF delta, book, outcome
    <2>2. p'.cash = p.cash + delta /\ p'.book = book /\ p'.trades = Append(p.trades, trade)
      BY <2>1
    <2>3. /\ Len(p.trades) \in Nat /\ DOMAIN p.trades = 1 .. n - 1
          /\ DOMAIN p'.trades = 1 .. n /\ Len(p'.trades) = n /\ p'.trades[n] = trade
          /\ \A k \in 1 .. n - 1 : p'.trades[k] = p.trades[k]
      <3> HIDE DEF trade
      <3> QED BY <1>1, <2>0, <2>2
    <2> DEFINE record == FillRecord(p.book, n, TheSymbol, fill.side, fill.quantity, fill.price,
                                    fill.charges, 0)
               fills == {LiveFill(k) : k \in DOMAIN p.trades}
               account == [open |-> phase # "new", initial |-> IF phase = "new" THEN 0 ELSE Capital,
                           cash |-> p.cash, resets |-> 0]
               holdings == [s \in {TheSymbol} |-> p.book]
    <2>4. LiveFill(n)' = record
      BY <2>3 DEF LiveFill, FillRecord, trade, outcome
    <2>5. \A k \in 1 .. n - 1 : LiveFill(k)' = LiveFill(k)
      BY <2>3 DEF LiveFill
    <2>6. fills' = fills \cup {record}
      <3>1. fills' = {LiveFill(k)' : k \in 1 .. n}
        BY <2>3
      <3>2. 1 .. n = (1 .. n - 1) \cup {n}
        BY <2>3
      <3> HIDE DEF record
      <3>3. fills' = {LiveFill(k)' : k \in 1 .. n - 1} \cup {LiveFill(n)'}
        BY <3>1, <3>2
      <3>4. {LiveFill(k)' : k \in 1 .. n - 1} = fills
        BY <2>3, <2>5
      <3> QED BY <2>4, <3>3, <3>4
    <2>7. \A f \in fills : f.order < n
      BY <2>3 DEF LiveFill
    <2>8. CanFill(p.cash, p.book, fill.side, fill.quantity, fill.price, fill.charges)
      BY <1>2, <1>4 DEF CanFill, delta
    <2> HIDE DEF fills, record
    <2>9. Live!Fill(n, TheSymbol, fill.side, fill.quantity, fill.price, fill.charges)
      <3>1. holdings = [s \in {TheSymbol} |-> p.book] /\ holdings[TheSymbol] = p.book
        OBVIOUS
      <3>2. account = [open |-> TRUE, initial |-> Capital, cash |-> p.cash, resets |-> 0]
        OBVIOUS
      <3>3. account' = [account EXCEPT !.cash = @ + delta]
        BY <2>2, <3>2
      <3>4. holdings' = [holdings EXCEPT ![TheSymbol] = book]
        BY <2>2, <3>1
      <3>5. /\ fill.side \in Side /\ fill.quantity \in Nat /\ p.book \in Position
        BY <1>1 DEF FillType, Portfolio
      <3>6. /\ Live!CashDelta(fill.side, fill.quantity, fill.price, fill.charges) = delta
            /\ Live!CanFill(p.cash, p.book, fill.side, fill.quantity, fill.price, fill.charges)
            /\ Live!AfterFill(p.book, fill.side, fill.quantity, fill.price, fill.charges) = book
            /\ Live!FillRecord(p.book, n, TheSymbol, fill.side, fill.quantity, fill.price,
                               fill.charges, 0) = record
        <4>1. Live!CashDelta(fill.side, fill.quantity, fill.price, fill.charges) = delta
          BY LiveCanFill DEF delta
        <4>2. Live!CanFill(p.cash, p.book, fill.side, fill.quantity, fill.price, fill.charges)
          BY <2>8, LiveCanFill
        <4>3. Live!AfterFill(p.book, fill.side, fill.quantity, fill.price, fill.charges) = book
          BY <3>5, LiveBooks DEF book
        <4>4. Live!FillRecord(p.book, n, TheSymbol, fill.side, fill.quantity, fill.price,
                              fill.charges, 0) = record
          BY <3>5, LiveBooks DEF record
        <4> QED BY <4>1, <4>2, <4>3, <4>4
      <3>7. account.open /\ account.cash = p.cash /\ account.resets = 0
        BY <3>2
      <3>8. fills = {LiveFill(k) : k \in DOMAIN p.trades}
        BY DEF fills
      <3>9. fills' = {LiveFill(k) : k \in DOMAIN p.trades}'
        BY DEF fills
      <3>10. account.open
             /\ (\A f \in fills : f.order < n)
             /\ Live!CanFill(account.cash, holdings[TheSymbol], fill.side, fill.quantity,
                             fill.price, fill.charges)
             /\ account' = [account EXCEPT !.cash =
                    @ + Live!CashDelta(fill.side, fill.quantity, fill.price, fill.charges)]
             /\ holdings' = [holdings EXCEPT ![TheSymbol] =
                    Live!AfterFill(@, fill.side, fill.quantity, fill.price, fill.charges)]
             /\ fills' = fills \cup
                   {Live!FillRecord(holdings[TheSymbol], n, TheSymbol, fill.side, fill.quantity,
                                    fill.price, fill.charges, account.resets)}
        <4> HIDE DEF account, holdings
        <4>1. [account EXCEPT !.cash = @ + delta] = [account EXCEPT !.cash =
                    @ + Live!CashDelta(fill.side, fill.quantity, fill.price, fill.charges)]
          BY <3>6
        <4>2. [holdings EXCEPT ![TheSymbol] = book] = [holdings EXCEPT ![TheSymbol] =
                    Live!AfterFill(@, fill.side, fill.quantity, fill.price, fill.charges)]
          BY <3>1, <3>6
        <4> QED BY <2>6, <2>7, <3>1, <3>3, <3>4, <3>6, <3>7, <4>1, <4>2
      <3> QED BY <3>10 DEF Live!Fill, fills
    <2>10. Len(portfolio.trades') = n /\ portfolio'.trades[n].fill = fill /\ n > Len(portfolio.trades)
      BY <2>3 DEF trade
    <2> QED BY <2>9, <2>10 DEF LiveStep
  <1> QED BY <1>3, <1>4

LEMMA StepIsLive == BInv /\ [Next]_vars => [LiveStep]_(Live!ledgerVars)
  <1> SUFFICES ASSUME BInv, [Next]_vars PROVE LiveStep \/ UNCHANGED Live!ledgerVars
    OBVIOUS
  <1>1. ASSUME UNCHANGED portfolio, (phase = "new") = (phase' = "new")
        PROVE  UNCHANGED Live!ledgerVars
    BY <1>1 DEF Live!ledgerVars, LiveFill
  <1>2. CASE Begin
    <2>1. phase = "new" /\ phase' # "new" /\ portfolio' = [portfolio EXCEPT !.cash = Capital]
      BY <1>2 DEF Begin
    <2>2. /\ portfolio'.cash = Capital /\ portfolio'.book = portfolio.book
          /\ portfolio'.trades = portfolio.trades /\ portfolio.trades = <<>>
      BY <2>1 DEF BInv
    <2>3. {LiveFill(k) : k \in DOMAIN portfolio.trades}'
            = {LiveFill(k) : k \in DOMAIN portfolio.trades}
      BY <2>2 DEF LiveFill
    <2>4. Live!Open(Capital)
      BY <2>1, <2>2, <2>3 DEF Live!Open
    <2> QED BY <2>4 DEF LiveStep
  <1>3. CASE OnBar \/ CloseOut
    <2>1. phase # "new" /\ phase' # "new"
      BY <1>3 DEF OnBar, CloseOut
    <2>2. CASE portfolio' = portfolio
      BY <1>1, <2>1, <2>2
    <2>3. CASE portfolio' # portfolio
      <3>1. PICK side \in Side, quantity \in Nat \ {0}, reference \in Nat \ {0}, at \in Nat :
                   /\ ValidAgainstPosition(side, quantity, portfolio.book.quantity)
                   /\ portfolio' = Settled(portfolio, at, Priced(side, quantity, reference))
        BY <1>3, <2>3, OrdersAreValid DEF BInv
      <3> QED BY <2>1, <3>1, SettledIsLive
    <2> QED BY <2>2, <2>3
  <1>4. CASE KeepOpen \/ Summarise \/ UNCHANGED vars
    BY <1>1, <1>4 DEF KeepOpen, Summarise, vars
  <1> QED BY <1>2, <1>3, <1>4 DEF Next

\* A backtest is an account of the live engine: every fill it books is one the
\* live ledger would have made, and nothing else moves its account.
THEOREM BacktestFillsAsLive == Spec => FillsAsLive
  <1>1. Init => BInv /\ Live!LedgerInit
    BY InitBInv, InitIsLive
  <1>2. BInv /\ [Next]_vars => BInv'
    BY NextBInv
  <1>3. BInv /\ [Next]_vars => [LiveStep]_(Live!ledgerVars)
    BY StepIsLive
  <1> QED BY <1>1, <1>2, <1>3, PTL DEF Spec, FillsAsLive

-----------------------------------------------------------------------------
(* What an order does to the account *)

\* A rounding is out by half a unit at most, and by nothing when the instrument
\* trades in whole shares.
LEMMA RoundingError ==
    ASSUME config \in Config, NEW n \in Int, NEW d \in Nat \ {0},
           config.class = "STOCK" => \E k \in Int : n = k * d
    PROVE  /\ HalfUp(n, d) \in Int
           /\ 2 * (d * HalfUp(n, d) - n) <= d * Slack(1)
           /\ 2 * (n - d * HalfUp(n, d)) <= d * Slack(1)
  <1> DEFINE h == HalfUp(n, d)
  <1>1. h \in Int /\ 2 * (d * h - n) <= d /\ 2 * (n - d * h) <= d
    BY HalfUpError
  <1> HIDE DEF h
  <1>2. CASE config.class = "STOCK"
    <2>1. PICK k \in Int : n = k * d
      BY <1>2
    <2> DEFINE z == h - k
    <2>2. z \in Int /\ d * h - n = d * z /\ 2 * (d * z) <= d /\ 2 * (d * (-z)) <= d
      BY <1>1, <2>1
    <2>3. z = 0
      <3> HIDE DEF z
      <3>1. ASSUME z >= 1 PROVE FALSE
        <4>1. d * z >= d
          BY <2>2, <3>1
        <4> QED BY <2>2, <4>1
      <3>2. ASSUME z <= -1 PROVE FALSE
        <4>1. d * (-z) >= d
          BY <2>2, <3>2
        <4> QED BY <2>2, <4>1
      <3> QED BY <2>2, <3>1, <3>2
    <2>4. d * h = n
      BY <1>1, <2>1, <2>3
    <2>5. Slack(1) = 0
      BY <1>2 DEF Slack
    <2> QED BY <1>1, <2>4, <2>5 DEF h
  <1>3. CASE config.class # "STOCK"
    <2>1. Slack(1) = 1
      BY <1>3 DEF Slack
    <2> QED BY <1>1, <2>1 DEF h
  <1> QED BY <1>2, <1>3

\* A quantity that can be traded, and one that can be held.
InSteps(quantity) == \E k \in Int : quantity = k * Step

LEMMA StepType == Step \in Nat \ {0} /\ (config.class = "STOCK" => Step = Lot)
  BY ScaleAssumption DEF Step

LEMMA SlackType ==
    \A n \in Nat : Slack(n) = n * Slack(1) /\ Slack(n) \in Nat
  BY DEF Slack

LEMMA SlackAdds ==
    \A m, n \in Nat : Slack(m + n) = Slack(m) + Slack(n) /\ Slack(m) \in Nat
  BY DEF Slack

LEMMA StepsAddUp ==
    ASSUME NEW m \in Int, NEW n \in Int, InSteps(m), InSteps(n)
    PROVE  InSteps(m + n) /\ InSteps(m - n) /\ InSteps(-m)
  <1>1. PICK j \in Int : m = j * Step
    BY DEF InSteps
  <1>2. PICK k \in Int : n = k * Step
    BY DEF InSteps
  <1>3. m + n = (j + k) * Step /\ m - n = (j - k) * Step /\ -m = (-j) * Step
    BY <1>1, <1>2, StepType
  <1> QED BY <1>3 DEF InSteps

\* Any multiple of such a quantity is a whole number of shares.
LEMMA StepsTimes ==
    ASSUME NEW m \in Int, InSteps(m), NEW x \in Int, NEW c \in Int, config.class = "STOCK"
    PROVE  \E k \in Int : m * x + c * Lot = k * Lot
  <1>1. PICK j \in Int : m = j * Lot
    BY StepType DEF InSteps
  <1>2. m * x + c * Lot = (j * x + c) * Lot
    BY <1>1, ScaleAssumption
  <1>3. j * x + c \in Int
    OBVIOUS
  <1> QED BY <1>2, <1>3

\* Each order at least closes what is held: none adds to a position.
Turns(side, quantity, held) ==
    Direction(side) * held <= 0 /\ quantity >= Magnitude(held)

\* Cash moves by what the trade was worth at the price it was decided at, and by
\* the costs it reports: three amounts are rounded on the way.
LEMMA CostsExplainCash ==
    ASSUME config \in Config, NEW side \in Side, NEW quantity \in Nat \ {0}, InSteps(quantity),
           NEW reference \in Nat \ {0}
    PROVE  LET fill == Priced(side, quantity, reference)
               delta == CashDelta(fill.side, fill.quantity, fill.price, fill.charges)
               apart == Lot * delta + Direction(side) * quantity * reference
                          + Lot * (fill.spread + fill.slippage + fill.charges)
           IN  /\ delta \in Int /\ apart \in Int
               /\ 2 * apart <= Lot * Slack(3) /\ -2 * apart <= Lot * Slack(3)
  <1> DEFINE D == Direction(side)
             quoted == Quoted(config.schedule, reference, D)
             price == Slipped(config.schedule, quoted, D)
             charges == TotalCharges(config.schedule, config.class, side, quantity, price)
             far == Magnitude(quoted - reference)
             further == Magnitude(price - quoted)
             spread == HalfUp(far * quantity, Lot)
             slippage == HalfUp(further * quantity, Lot)
             n == -(D * quantity * price) - charges * Lot
             delta == HalfUp(n, Lot)
             fill == Priced(side, quantity, reference)
             apart == Lot * delta + D * quantity * reference
                        + Lot * (spread + slippage + charges)
  <1>1. config.schedule \in Schedule /\ config.class \in AssetClass /\ D \in {1, -1}
        /\ Lot \in Nat \ {0}
    BY ScaleAssumption DEF Config, Direction
  <1>2. /\ fill.side = side /\ fill.quantity = quantity /\ fill.price = price
        /\ fill.charges = charges /\ fill.spread = spread /\ fill.slippage = slippage
    BY DEF Priced, PriceFill, ImpactCost
  <1>3. delta = CashDelta(fill.side, fill.quantity, fill.price, fill.charges)
    BY <1>2 DEF CashDelta
  <1>4. quoted \in Nat /\ (D = 1 => quoted >= reference) /\ (D = -1 => quoted <= reference)
    <2> HIDE DEF D, quoted
    <2>1. /\ Quoted(config.schedule, reference, 1) \in Nat
          /\ Quoted(config.schedule, reference, 1) >= reference
          /\ Quoted(config.schedule, reference, -1) \in Nat
          /\ Quoted(config.schedule, reference, -1) <= reference
      BY <1>1, QuotedAdverse
    <2> QED BY <1>1, <2>1 DEF quoted
  <1>5. price \in Nat /\ (D = 1 => price >= quoted) /\ (D = -1 => price <= quoted)
    <2> HIDE DEF D, quoted, price
    <2>1. /\ Slipped(config.schedule, quoted, 1) \in Nat
          /\ Slipped(config.schedule, quoted, 1) >= quoted
          /\ Slipped(config.schedule, quoted, -1) \in Nat
          /\ Slipped(config.schedule, quoted, -1) <= quoted
      BY <1>1, <1>4, SlippedAdverse
    <2> QED BY <1>1, <2>1 DEF price
  <1>6. charges \in Nat
    <2> HIDE DEF price, charges
    <2>1. TotalCharges(config.schedule, config.class, side, quantity, price) \in Nat
      BY <1>1, <1>5, ChargesNonNegative
    <2> QED BY <2>1 DEF charges
  <1> HIDE DEF quoted, price, charges, fill
  <1>7. far \in Nat /\ further \in Nat /\ D * (price - reference) = far + further
    BY <1>1, <1>4, <1>5 DEF Magnitude
  <1> HIDE DEF far, further, D
  <1>8. far * quantity \in Int /\ further * quantity \in Int /\ n \in Int
    BY <1>1, <1>5, <1>6, <1>7
  <1>9. ASSUME NEW m \in Int, config.class = "STOCK" => \E k \in Int : m = k * Lot
        PROVE  /\ HalfUp(m, Lot) \in Int
               /\ 2 * (Lot * HalfUp(m, Lot) - m) <= Lot * Slack(1)
               /\ 2 * (m - Lot * HalfUp(m, Lot)) <= Lot * Slack(1)
    BY <1>1, <1>9, RoundingError
  <1>10. ASSUME config.class = "STOCK"
         PROVE  /\ \E k \in Int : far * quantity = k * Lot
                /\ \E k \in Int : further * quantity = k * Lot
                /\ \E k \in Int : n = k * Lot
    <2>1. quantity \in Int
      OBVIOUS
    <2>2. ASSUME NEW x \in Int, NEW c \in Int
          PROVE  \E k \in Int : quantity * x + c * Lot = k * Lot
      BY <1>10, <2>1, StepsTimes
    <2>3. far * quantity = quantity * far + 0 * Lot /\ further * quantity = quantity * further + 0 * Lot
      BY <1>1, <1>7
    <2>4. n = quantity * (-(D * price)) + (-charges) * Lot
      BY <1>1, <1>5, <1>6
    <2>5. -(D * price) \in Int /\ -charges \in Int /\ far \in Int /\ further \in Int /\ 0 \in Int
      BY <1>1, <1>5, <1>6, <1>7
    <2>6. \E k \in Int : quantity * far + 0 * Lot = k * Lot
      BY <2>2, <2>5
    <2>7. \E k \in Int : quantity * further + 0 * Lot = k * Lot
      BY <2>2, <2>5
    <2>8. \E k \in Int : quantity * (-(D * price)) + (-charges) * Lot = k * Lot
      BY <2>2, <2>5
    <2> QED BY <2>3, <2>4, <2>6, <2>7, <2>8
  <1>11. Slack(3) = 3 * Slack(1) /\ Slack(1) \in Nat
    BY SlackType
  <1> DEFINE a == far * quantity
             b == further * quantity
             L == Lot * Slack(1)
             t == D * quantity * reference
             u == D * quantity * price
  <1>12. a \in Int /\ b \in Int /\ t \in Int /\ u \in Int /\ u - t = a + b /\ L \in Nat
    <2>1. D * quantity * reference \in Int /\ D * quantity * price \in Int
      BY <1>1, <1>5
    <2>2. u - t = (D * (price - reference)) * quantity
      BY <1>1, <1>5
    <2>3. (far + further) * quantity = a + b
      BY <1>7
    <2> QED BY <1>1, <1>7, <1>8, <1>11, <2>1, <2>2, <2>3
  <1>13. n = -u - charges * Lot
    OBVIOUS
  <1>14. /\ delta \in Int /\ spread \in Int /\ slippage \in Int
         /\ 2 * (Lot * delta - n) <= L /\ 2 * (n - Lot * delta) <= L
         /\ 2 * (Lot * spread - a) <= L /\ 2 * (a - Lot * spread) <= L
         /\ 2 * (Lot * slippage - b) <= L /\ 2 * (b - Lot * slippage) <= L
    <2> HIDE DEF n
    <2> QED BY <1>8, <1>9, <1>10
  <1> HIDE DEF a, b, L, t, u, n, delta, spread, slippage
  <1>15. /\ Lot * delta \in Int /\ Lot * spread \in Int /\ Lot * slippage \in Int
         /\ charges * Lot \in Int /\ Lot * (spread + slippage + charges)
               = Lot * spread + Lot * slippage + charges * Lot
    BY <1>1, <1>6, <1>14
  <1>16. Lot * Slack(3) = 3 * L
    BY <1>1, <1>11 DEF L
  <1>17. apart = Lot * delta + t + (Lot * spread + Lot * slippage + charges * Lot)
    BY <1>15 DEF t
  <1>18. apart \in Int /\ 2 * apart <= 3 * L /\ -2 * apart <= 3 * L
    <2> HIDE DEF apart
    <2> QED BY <1>12, <1>13, <1>14, <1>15, <1>17
  <1>19. Lot * (fill.spread + fill.slippage + fill.charges)
            = Lot * (spread + slippage + charges)
    BY <1>2
  <1> QED BY <1>3, <1>14, <1>16, <1>18, <1>19 DEF fill, apart, D

\* An order that turns a position leaves the books explained by the cash, but
\* for two roundings: of the profit it takes and of the cash it moves.
LEMMA TurnExplainsProfit ==
    ASSUME config \in Config, NEW book \in Position, InSteps(book.quantity),
           NEW m \in Nat, book.average = m * AvgTicks,
           NEW side \in Side, NEW quantity \in Nat \ {0}, InSteps(quantity),
           Turns(side, quantity, book.quantity), NEW price \in Nat, NEW charges \in Nat
    PROVE  LET outcome == ApplyFill(book.quantity, book.average,
                                    Direction(side) * quantity, price)
               apart == Unexplained(book, side, quantity, price, charges)
           IN  /\ apart \in Int
               /\ 2 * apart <= AvgTicks * Lot * Slack(2) /\ -2 * apart <= AvgTicks * Lot * Slack(2)
               /\ outcome.average \in {0, price * AvgTicks}
               /\ outcome.quantity = book.quantity + Direction(side) * quantity
               /\ InSteps(outcome.quantity)
  <1> DEFINE D == Direction(side)
             f == D * quantity
             q == book.quantity
             P == price * AvgTicks
             a == m * AvgTicks
             entry == book.average
             outcome == ApplyFill(q, entry, f, price)
             average == outcome.average
             realized == outcome.realized
             n == -(D * quantity * price) - charges * Lot
             delta == HalfUp(n, Lot)
             S == AvgTicks * Lot
             apart == Unexplained(book, side, quantity, price, charges)
  <1>1. /\ q \in Int /\ f \in Int \ {0} /\ D \in {1, -1} /\ Lot \in Nat \ {0}
        /\ AvgTicks \in Nat \ {0} /\ P \in Nat /\ a \in Nat /\ S \in Nat \ {0}
    BY ScaleAssumption DEF Position, Direction
  <1>2. D * q <= 0 /\ quantity >= Magnitude(q)
    BY DEF Turns
  <1>3. outcome.quantity = q + f
    BY DEF ApplyFill
  <1>4. InSteps(q + f)
    <2> DEFINE minus == -quantity
    <2>1. InSteps(minus) /\ minus \in Int
      BY StepsAddUp
    <2>2. f = quantity \/ f = minus
      BY <1>1
    <2> HIDE DEF minus, f, q
    <2>3. InSteps(f) /\ InSteps(q)
      BY <2>1, <2>2 DEF q
    <2> QED BY <1>1, <2>3, StepsAddUp
  <1>5. n \in Int
    BY <1>1
  <1>6. /\ delta \in Int
        /\ 2 * (Lot * delta - n) <= Lot * Slack(1) /\ 2 * (n - Lot * delta) <= Lot * Slack(1)
    <2>1. ASSUME config.class = "STOCK" PROVE \E k \in Int : n = k * Lot
      <3>1. n = quantity * (-(D * price)) + (-charges) * Lot
        BY <1>1
      <3>2. -(D * price) \in Int /\ -charges \in Int
        BY <1>1
      <3>3. \E k \in Int : quantity * (-(D * price)) + (-charges) * Lot = k * Lot
        <4> DEFINE x == -(D * price)
                   c == -charges
        <4>1. x \in Int /\ c \in Int /\ quantity \in Int
          BY <3>2
        <4> HIDE DEF x, c
        <4>2. \E k \in Int : quantity * x + c * Lot = k * Lot
          BY <2>1, <4>1, StepsTimes
        <4> QED BY <4>2 DEF x, c
      <3> QED BY <3>1, <3>3
    <2> HIDE DEF n
    <2> QED BY <1>1, <1>5, <2>1, RoundingError
  <1>7. CashDelta(side, quantity, price, charges) = delta
    BY DEF CashDelta
  <1>8. apart = S * (delta - realized + charges) + (q + f) * average - q * a
    BY <1>3, <1>7 DEF Unexplained
  <1>9. Slack(2) = 2 * Slack(1) /\ Slack(1) \in Nat
    BY SlackType
  <1> DEFINE e == Lot * delta - n
             L == Lot * Slack(1)
  <1>10. e \in Int /\ L \in Nat /\ 2 * e <= L /\ -2 * e <= L
    <2> HIDE DEF n, delta
    <2> QED BY <1>1, <1>5, <1>6, <1>9
  <1>11. S * delta + S * charges + f * P = AvgTicks * e
    <2>1. S * delta = AvgTicks * e + AvgTicks * n
      <3> HIDE DEF n, delta
      <3> QED BY <1>1, <1>5, <1>6
    <2>2. AvgTicks * n = -(f * P) - S * charges
      BY <1>1
    <2>3. f * P \in Int /\ S * charges \in Int /\ S * delta \in Int /\ AvgTicks * e \in Int
          /\ AvgTicks * n \in Int
      <3> HIDE DEF n, delta, e, f, S, P
      <3> QED BY <1>1, <1>5, <1>6, <1>10
    <2> HIDE DEF n, delta, e, f, S, P
    <2> QED BY <2>1, <2>2, <2>3
  <1>12. 2 * (AvgTicks * e) <= AvgTicks * L /\ -2 * (AvgTicks * e) <= AvgTicks * L
         /\ AvgTicks * e \in Int /\ AvgTicks * L \in Nat
    <2> HIDE DEF e, L
    <2>1. \A x, y \in Int : x <= y => AvgTicks * x <= AvgTicks * y
      BY <1>1
    <2>2. AvgTicks * (2 * e) <= AvgTicks * L /\ AvgTicks * (-2 * e) <= AvgTicks * L
      BY <1>10, <2>1
    <2>3. AvgTicks * (2 * e) = 2 * (AvgTicks * e) /\ AvgTicks * (-2 * e) = -2 * (AvgTicks * e)
      BY <1>1, <1>10
    <2> QED BY <1>1, <1>10, <2>2, <2>3
  <1>13. S * Slack(2) = 2 * (AvgTicks * L)
    BY <1>1, <1>9 DEF S, L
  <1>14. CASE q = 0
    <2>1. realized = 0 /\ average = P
      BY <1>1, <1>14 DEF ApplyFill
    <2> HIDE DEF realized, average, e, L, S, P, f, n, delta, q, a
    <2>2. apart = S * delta + S * charges + f * P
      BY <1>1, <1>6, <1>8, <1>14, <2>1
    <2>3. apart = AvgTicks * e
      BY <1>11, <2>2
    <2>4. apart \in Int /\ 2 * apart <= 2 * (AvgTicks * L) /\ -2 * apart <= 2 * (AvgTicks * L)
      BY <1>12, <2>3
    <2> QED BY <1>3, <1>4, <1>13, <2>1, <2>4 DEF S, P, f, q, average
  <1>15. CASE q # 0
    <2>1. q \in Int /\ (q > 0) # (f > 0)
      BY <1>1, <1>2, <1>15 DEF Position
    <2>2. outcome.closed = Magnitude(q) /\ Magnitude(q) \in Nat \ {0}
      BY <1>1, <1>2, <1>15, <2>1 DEF ApplyFill, Magnitude, Lesser
    <2>3. realized = HalfUp((P - a) * Magnitude(q) * Sign(q), S)
      <3>1. realized = RealizedPnl(book.average, price, outcome.closed, Sign(q))
        BY <2>2 DEF ApplyFill
      <3> HIDE DEF outcome, realized
      <3> QED BY <2>2, <3>1 DEF RealizedPnl
    <2>4. Magnitude(q) * Sign(q) = q
      BY <1>1, <1>15 DEF Magnitude, Sign
    <2> DEFINE t == (P - a) * q
    <2>5. (P - a) * Magnitude(q) * Sign(q) = t /\ t \in Int
      <3>1. Magnitude(q) \in Int /\ Sign(q) \in Int
        BY <1>1 DEF Magnitude, Sign
      <3>2. \A x, y, z \in Int : x * y * z = x * (y * z)
        OBVIOUS
      <3>3. P - a \in Int
        BY <1>1
      <3> DEFINE x == P - a
                 y == Magnitude(q)
                 z == Sign(q)
      <3> HIDE DEF x, y, z, q
      <3>4. x * y * z = x * (y * z)
        BY <3>1, <3>2, <3>3 DEF x, y, z
      <3> QED BY <1>1, <2>4, <3>3, <3>4 DEF x, y, z
    <2>6. ASSUME config.class = "STOCK" PROVE \E k \in Int : t = k * S
      <3>1. PICK j \in Int : q = j * Lot
        BY <2>6, StepType DEF InSteps
      <3>2. t = ((price - m) * j) * S /\ (price - m) * j \in Int
        BY <1>1, <3>1
      <3> QED BY <3>2
    <2>7. realized \in Int /\ 2 * (S * realized - t) <= S * Slack(1)
          /\ 2 * (t - S * realized) <= S * Slack(1)
      <3>1. realized = HalfUp(t, S)
        BY <2>3, <2>5
      <3> HIDE DEF t, S, realized
      <3> QED BY <1>1, <2>5, <2>6, <3>1, RoundingError
    <2>8. (average = 0 /\ q + f = 0) \/ average = P
      <3>1. /\ q + f = 0 => average = 0
            /\ q + f # 0 /\ Magnitude(f) > Magnitude(q) => average = P
        <4>1. entry \in Nat /\ f \in Int /\ q \in Int
          BY <1>1 DEF Position
        <4> HIDE DEF f, q, entry
        <4>2. /\ q + f = 0 => average = 0
              /\ q + f # 0 /\ Magnitude(f) > Magnitude(q) => average = P
              /\ q + f # 0 /\ ~(Magnitude(f) > Magnitude(q)) => average = entry
          BY <1>1, <1>15, <2>1, <4>1, AverageAfterClosing, ZenonT(30)
        <4> QED BY <4>2
      <3>2. q + f = 0 \/ Magnitude(f) > Magnitude(q)
        BY <1>1, <1>2, <1>15, <2>1 DEF Magnitude
      <3> QED BY <3>1, <3>2
    <2> DEFINE r == S * realized - t
    <2> HIDE DEF realized, average, e, L, S, P, f, n, delta, q, a, outcome
    <2>9. average \in Nat /\ (q + f) * average = (q + f) * P
      BY <1>1, <2>8
    <2>10. S * (delta - realized + charges) = S * delta - S * realized + S * charges
      BY <1>1, <1>6, <2>7
    <2>11. t = P * q - a * q
      BY <1>1 DEF t
    <2>12. (q + f) * P = P * q + f * P /\ q * a = a * q
      BY <1>1
    <2>13. /\ S * delta \in Int /\ S * realized \in Int /\ S * charges \in Int /\ f * P \in Int
           /\ P * q \in Int /\ a * q \in Int
      BY <1>1, <1>6, <2>7
    <2>14. apart = AvgTicks * e - r
      <3>1. apart = S * delta - S * realized + S * charges + (P * q + f * P) - a * q
        BY <1>8, <2>9, <2>10, <2>12
      <3> QED BY <1>11, <1>12, <2>11, <2>13, <3>1 DEF r
    <2>15. S * Slack(1) = AvgTicks * L
      BY <1>1, <1>9 DEF S, L
    <2>16. apart \in Int /\ 2 * apart <= 2 * (AvgTicks * L) /\ -2 * apart <= 2 * (AvgTicks * L)
      <3>1. r \in Int /\ 2 * r <= AvgTicks * L /\ -2 * r <= AvgTicks * L
        BY <2>5, <2>7, <2>13, <2>15
      <3> HIDE DEF r
      <3> QED BY <1>12, <2>14, <3>1
    <2> QED BY <1>3, <1>4, <1>13, <2>8, <2>16 DEF S, P, f, q, average, outcome
  <1> QED BY <1>14, <1>15

-----------------------------------------------------------------------------
(* Sizing *)

\* A whole quotient is the largest number that goes into the dividend.
LEMMA LargestQuotient ==
    ASSUME NEW a \in Int, NEW b \in Nat \ {0}, NEW x \in Int
    PROVE  a \div b \in Int /\ (x * b <= a <=> x <= a \div b)
  <1> DEFINE d == a \div b
  <1>1. \A m \in Int, n \in Nat \ {0} :
           m \div n \in Int /\ (m \div n) * n <= m /\ m < (m \div n) * n + n
    BY SMT
  <1>2. d \in Int /\ d * b <= a /\ a < d * b + b
    BY <1>1
  <1> HIDE DEF d
  <1>3. ASSUME x <= d PROVE x * b <= a
    <2>1. x * b <= d * b
      BY <1>2, <1>3
    <2>2. x * b \in Int /\ d * b \in Int
      BY <1>2
    <2> QED BY <1>2, <2>1, <2>2
  <1>4. ASSUME x > d PROVE ~(x * b <= a)
    <2>1. x >= d + 1
      BY <1>2, <1>4
    <2>2. x * b >= (d + 1) * b
      BY <1>2, <2>1
    <2>3. (d + 1) * b = d * b + b
      BY <1>2
    <2>4. x * b \in Int /\ d * b \in Int
      BY <1>2
    <2> QED BY <1>2, <2>2, <2>3, <2>4
  <1> QED BY <1>2, <1>3, <1>4 DEF d

\* PositionSizer: the largest tradable size within the budget.
LEMMA TargetFits ==
    ASSUME config \in Config, NEW equity \in Int, NEW price \in Nat \ {0}
    PROVE  LET target == TargetSize(equity, price)
           IN  /\ target \in Nat /\ InSteps(target) /\ target % Step = 0
               /\ target = 0 \/ Fits(target, price, equity)
               /\ ~Fits(target + Step, price, equity)
               /\ config.sizing = "FIXED_QUANTITY" /\ config.size >= Step => target >= Step
  <1> DEFINE value == config.size * Lot
             share == equity * config.size * Lot
             size == CASE config.sizing = "FIXED_QUANTITY" -> config.size
                       [] config.sizing = "FIXED_VALUE" -> value \div price
                       [] config.sizing = "PERCENT_OF_EQUITY" -> share \div (100 * price)
             steps == size \div Step
             target == Greater(Step * steps, 0)
  <1>1. config.size \in Nat
        /\ config.sizing \in {"FIXED_QUANTITY", "FIXED_VALUE", "PERCENT_OF_EQUITY"}
    BY DEF Config
  <1>2. Step \in Nat \ {0} /\ Lot \in Nat \ {0}
    BY StepType, ScaleAssumption
  <1>3. value \in Int /\ share \in Int /\ 100 * price \in Nat \ {0}
    BY <1>1, <1>2
  <1>4. size \in Int /\ \A x \in Int : Fits(x, price, equity) <=> x <= size
    <2> HIDE DEF value, share
    <2>1. CASE config.sizing = "FIXED_QUANTITY"
      <3>1. size = config.size
        BY <2>1
      <3> QED BY <1>1, <2>1, <3>1 DEF Fits
    <2>2. CASE config.sizing = "FIXED_VALUE"
      <3>1. size = value \div price
        BY <2>2
      <3>2. size \in Int /\ \A x \in Int : x * price <= value <=> x <= size
        <4> HIDE DEF size
        <4> QED BY <1>3, <3>1, LargestQuotient
      <3>3. \A x : Fits(x, price, equity) <=> x * price <= value
        BY <2>2 DEF Fits, value
      <3> QED BY <3>2, <3>3
    <2>3. CASE config.sizing = "PERCENT_OF_EQUITY"
      <3> DEFINE b == 100 * price
      <3>1. size = share \div b /\ b \in Nat \ {0}
        BY <1>3, <2>3
      <3>2. \A x \in Int : 100 * x * price = x * b
        OBVIOUS
      <3> HIDE DEF b, size
      <3>3. size \in Int /\ \A x \in Int : x * b <= share <=> x <= size
        BY <1>3, <3>1, LargestQuotient
      <3>4. \A x : Fits(x, price, equity) <=> 100 * x * price <= share
        BY <2>3 DEF Fits, share
      <3>5. \A x \in Int : Fits(x, price, equity) <=> x * b <= share
        BY <3>2, <3>4
      <3> QED BY <3>3, <3>5
    <2> QED BY <1>1, <2>1, <2>2, <2>3
  <1>5. TargetSize(equity, price) = target
    BY DEF TargetSize
  <1>6. config.sizing = "FIXED_QUANTITY" => size = config.size
    OBVIOUS
  <1> HIDE DEF size
  <1>7. steps \in Int /\ \A x \in Int : x * Step <= size <=> x <= steps
    BY <1>2, <1>4, LargestQuotient
  <1> HIDE DEF steps
  <1> DEFINE whole == steps * Step
  <1>8. whole \in Int /\ whole <= size /\ ~(whole + Step <= size) /\ Step * steps = whole
    <2>1. (steps + 1) * Step = whole + Step
      BY <1>2, <1>7
    <2>2. ~((steps + 1) * Step <= size) /\ whole <= size
      BY <1>2, <1>7
    <2>3. Step * steps = whole /\ whole \in Int
      BY <1>2, <1>7
    <2> QED BY <2>1, <2>2, <2>3
  <1>9. InSteps(target) /\ target % Step = 0
    <2>1. \A k \in Int, b \in Nat \ {0} : (k * b) % b = 0
      BY SMT
    <2>2. target = whole \/ target = 0
      BY <1>8 DEF Greater
    <2>3. whole % Step = 0 /\ (0 * Step) % Step = 0 /\ 0 * Step = 0
      BY <1>2, <1>7, <2>1
    <2>4. InSteps(whole) /\ InSteps(0)
      BY <1>7, <2>3 DEF InSteps
    <2> HIDE DEF whole, target
    <2> QED BY <2>2, <2>3, <2>4
  <1>10. target \in Nat /\ (target = 0 \/ target <= size) /\ ~(target + Step <= size)
    <2> HIDE DEF whole
    <2> QED BY <1>2, <1>4, <1>8 DEF Greater
  <1>11. ASSUME config.sizing = "FIXED_QUANTITY", config.size >= Step PROVE target >= Step
    <2>1. 1 * Step <= size
      BY <1>2, <1>4, <1>6, <1>11
    <2>2. 1 <= steps
      BY <1>7, <2>1
    <2>3. 1 * Step <= steps * Step
      BY <1>2, <1>7, <2>2
    <2> HIDE DEF whole
    <2> QED BY <1>2, <1>8, <2>3 DEF whole, Greater
  <1>12. target = 0 \/ Fits(target, price, equity)
    <2> HIDE DEF target
    <2> QED BY <1>4, <1>10
  <1>13. ~Fits(target + Step, price, equity)
    <2> HIDE DEF target
    <2>1. target + Step \in Int
      BY <1>2, <1>10
    <2> QED BY <1>4, <1>10, <2>1
  <1> HIDE DEF target
  <1> QED BY <1>5, <1>9, <1>10, <1>11, <1>12, <1>13

-----------------------------------------------------------------------------
(* The account explains itself *)

EarnedBy(trades, mark) == SumFunction([k \in DOMAIN trades |-> Earned(trades[k], mark)])

NetOf(trades) == SumFunction([k \in DOMAIN trades |-> TradeNet(trades[k])])

Within(x, bound) == x \in Int /\ 2 * x <= bound /\ -2 * x <= bound

\* The last trade says what the cash and the position are; what is held was
\* bought at one price, in tradable steps; and the cash is what the market did to
\* the trades, at any mark, and the profit on the books, but for the roundings.
Sound(p) ==
    LET n == Len(p.trades)
        held == p.book.quantity
    IN  /\ n = 0 => p.cash = Capital /\ held = 0
        /\ n > 0 => p.cash = p.trades[n].cash /\ held = p.trades[n].position
        /\ InSteps(held) /\ \E m \in Nat : p.book.average = m * AvgTicks
        /\ p.book.net = p.book.realized - p.book.charges /\ p.book.net = NetOf(p.trades)
        /\ \A mark \in Nat :
               Within(Lot * (p.cash - Capital) + held * mark - EarnedBy(p.trades, mark),
                      Lot * Slack(3 * n))
        /\ Within(AvgTicks * Lot * (p.cash - Capital - p.book.net) + held * p.book.average,
                  AvgTicks * Lot * Slack(2 * n))

\* The trade that a fill is recorded as.
TradeOf(p, at, fill) ==
    LET outcome == ApplyFill(p.book.quantity, p.book.average,
                             Direction(fill.side) * fill.quantity, fill.price)
    IN  [fill |-> fill, bar |-> at, gross |-> outcome.realized, closed |-> outcome.closed,
         position |-> outcome.quantity,
         cash |-> p.cash + CashDelta(fill.side, fill.quantity, fill.price, fill.charges)]

\* An order the account cannot pay for is counted and changes nothing else; any
\* other moves the cash and the position and is recorded.
LEMMA SettledCases ==
    ASSUME NEW p \in Portfolio, NEW at \in Nat, NEW fill \in FillType
    PROVE  LET delta == CashDelta(fill.side, fill.quantity, fill.price, fill.charges)
               after == Settled(p, at, fill)
           IN  \/ /\ ~Affordable(p.cash, delta)
                  /\ after.cash = p.cash /\ after.book = p.book /\ after.trades = p.trades
                  /\ after.rejected = p.rejected + 1
               \/ /\ Affordable(p.cash, delta)
                  /\ after.cash = p.cash + delta
                  /\ after.book = AfterFill(p.book, fill.side, fill.quantity, fill.price,
                                            fill.charges)
                  /\ after.trades = Append(p.trades, TradeOf(p, at, fill))
                  /\ after.rejected = p.rejected
  <1> DEFINE delta == CashDelta(fill.side, fill.quantity, fill.price, fill.charges)
             after == Settled(p, at, fill)
             book == AfterFill(p.book, fill.side, fill.quantity, fill.price, fill.charges)
             trade == TradeOf(p, at, fill)
  <1>1. CASE ~Affordable(p.cash, delta)
    <2>1. after = [p EXCEPT !.rejected = @ + 1]
      BY <1>1 DEF Settled
    <2> QED BY <1>1, <2>1 DEF Portfolio
  <1>2. CASE Affordable(p.cash, delta)
    <2>1. after = [cash |-> p.cash + delta, book |-> book, trades |-> Append(p.trades, trade),
                   rejected |-> p.rejected]
      BY <1>2 DEF Settled, TradeOf
    <2> HIDE DEF delta, book, trade, after
    <2>2. /\ after.cash = p.cash + delta /\ after.book = book
          /\ after.trades = Append(p.trades, trade) /\ after.rejected = p.rejected
      BY <2>1
    <2> QED BY <1>2, <2>2 DEF delta, book, trade, after
  <1> QED BY <1>1, <1>2

\* The record of a fill is a trade, and the sums over the trades grow by it.
LEMMA TradesGrow ==
    ASSUME NEW trades \in Seq(TradeType), NEW trade \in TradeType
    PROVE  LET n == Len(trades)
               after == Append(trades, trade)
           IN  /\ n \in Nat /\ after \in Seq(TradeType) /\ Len(after) = n + 1
               /\ DOMAIN trades = 1 .. n /\ DOMAIN after = 1 .. n + 1
               /\ after[n + 1] = trade /\ \A k \in 1 .. n : after[k] = trades[k]
               /\ NetOf(trades) \in Int /\ NetOf(after) = NetOf(trades) + TradeNet(trade)
               /\ \A mark \in Nat :
                     /\ EarnedBy(trades, mark) \in Int /\ Earned(trade, mark) \in Int
                     /\ EarnedBy(after, mark) = EarnedBy(trades, mark) + Earned(trade, mark)
  <1> DEFINE n == Len(trades)
             after == Append(trades, trade)
  <1>1. /\ n \in Nat /\ after \in Seq(TradeType) /\ Len(after) = n + 1
        /\ DOMAIN trades = 1 .. n /\ DOMAIN after = 1 .. n + 1
        /\ after[n + 1] = trade /\ \A k \in 1 .. n : after[k] = trades[k]
        /\ \A k \in 1 .. n : trades[k] \in TradeType
    OBVIOUS
  <1> HIDE DEF n, after
  <1>2. IsFiniteSet(1 .. n) /\ n + 1 \notin 1 .. n /\ 1 .. n + 1 = (1 .. n) \cup {n + 1}
    <2>1. IsFiniteSet(1 .. n)
      BY <1>1, FS_Interval
    <2>2. n + 1 \notin 1 .. n /\ 1 .. n + 1 = (1 .. n) \cup {n + 1}
      BY <1>1
    <2> QED BY <2>1, <2>2
  <1>3. ASSUME NEW t \in TradeType
        PROVE  TradeNet(t) \in Int /\ \A m \in Nat : Earned(t, m) \in Int
    <2>1. /\ t.gross \in Int /\ t.fill \in FillType /\ t.fill.charges \in Nat
          /\ t.fill.spread \in Nat /\ t.fill.slippage \in Nat /\ t.fill.quantity \in Nat
          /\ t.fill.reference \in Nat
      BY DEF TradeType, FillType
    <2>2. Direction(t.fill.side) \in {1, -1} /\ Lot \in Int
      BY ScaleAssumption DEF Direction
    <2>3. TradeNet(t) \in Int
      BY <2>1 DEF TradeNet
    <2>4. ASSUME NEW mark \in Nat PROVE Earned(t, mark) \in Int
      <3>1. Direction(t.fill.side) * t.fill.quantity * (mark - t.fill.reference) \in Int
        <4>1. \A d \in {1, -1}, x \in Nat, y \in Nat, m \in Nat : d * x * (m - y) \in Int
          OBVIOUS
        <4> QED BY <2>1, <2>2, <4>1
      <3>2. Lot * (t.fill.spread + t.fill.slippage + t.fill.charges) \in Int
        BY <2>1, <2>2
      <3> QED BY <3>1, <3>2 DEF Earned
    <2> QED BY <2>3, <2>4
  <1>4. /\ NetOf(trades) \in Int
        /\ NetOf(after) = NetOf(trades) + TradeNet(trade)
    <2> DEFINE f == [k \in 1 .. n |-> TradeNet(trades[k])]
               g == [k \in 1 .. n + 1 |-> TradeNet(after[k])]
    <2>1. \A k \in 1 .. n : f[k] \in Int /\ g[k] = f[k]
      BY <1>1, <1>3
    <2>2. g[n + 1] = TradeNet(trade) /\ TradeNet(trade) \in Int
      BY <1>1, <1>3
    <2>3. DOMAIN f = 1 .. n /\ DOMAIN g = (1 .. n) \cup {n + 1}
      BY <1>2
    <2>4. NetOf(trades) = SumFunction(f) /\ NetOf(after) = SumFunction(g)
      BY <1>1 DEF NetOf
    <2> DEFINE z == n + 1
    <2>5. /\ IsFiniteSet(DOMAIN f) /\ z \notin DOMAIN f /\ DOMAIN g = DOMAIN f \cup {z}
          /\ g[z] \in Int /\ \A x \in DOMAIN f : f[x] \in Int /\ g[x] = f[x]
      <3> HIDE DEF f, g
      <3> QED BY <1>2, <2>1, <2>2, <2>3
    <2>6. SumFunction(f) \in Int
      <3> HIDE DEF f, g
      <3> QED BY <2>5, SumType
    <2>7. SumFunction(g) = SumFunction(f) + g[z]
      <3> HIDE DEF f, g, z
      <3> QED BY <2>5, SumGrows
    <2> HIDE DEF f, g
    <2> QED BY <2>2, <2>4, <2>6, <2>7
  <1>5. \A t \in TradeType, m \in Nat : Earned(t, m) \in Int
    BY <1>3
  <1>6. ASSUME NEW mark \in Nat
        PROVE  /\ EarnedBy(trades, mark) \in Int /\ Earned(trade, mark) \in Int
               /\ EarnedBy(after, mark) = EarnedBy(trades, mark) + Earned(trade, mark)
    <2> DEFINE f == [k \in 1 .. n |-> Earned(trades[k], mark)]
               g == [k \in 1 .. n + 1 |-> Earned(after[k], mark)]
    <2>1. \A k \in 1 .. n : f[k] \in Int /\ g[k] = f[k]
      <3> TAKE k \in 1 .. n
      <3>1. k \in 1 .. n + 1 /\ after[k] = trades[k] /\ trades[k] \in TradeType
        BY <1>1
      <3>2. Earned(trades[k], mark) \in Int
        BY <1>5, <3>1
      <3> QED BY <3>1, <3>2
    <2>2. g[n + 1] = Earned(trade, mark) /\ Earned(trade, mark) \in Int
      <3>1. n + 1 \in 1 .. n + 1 /\ after[n + 1] = trade
        BY <1>1
      <3>2. Earned(trade, mark) \in Int
        BY <1>5
      <3> QED BY <3>1, <3>2
    <2>3. DOMAIN f = 1 .. n /\ DOMAIN g = (1 .. n) \cup {n + 1}
      BY <1>2
    <2>4. EarnedBy(trades, mark) = SumFunction(f) /\ EarnedBy(after, mark) = SumFunction(g)
      BY <1>1 DEF EarnedBy
    <2> DEFINE z == n + 1
    <2>5. /\ IsFiniteSet(DOMAIN f) /\ z \notin DOMAIN f /\ DOMAIN g = DOMAIN f \cup {z}
          /\ g[z] \in Int /\ \A x \in DOMAIN f : f[x] \in Int /\ g[x] = f[x]
      <3> HIDE DEF f, g
      <3> QED BY <1>2, <2>1, <2>2, <2>3
    <2>6. SumFunction(f) \in Int
      <3> HIDE DEF f, g
      <3> QED BY <2>5, SumType
    <2>7. SumFunction(g) = SumFunction(f) + g[z]
      <3> HIDE DEF f, g, z
      <3> QED BY <2>5, SumGrows
    <2> HIDE DEF f, g
    <2> QED BY <2>2, <2>4, <2>6, <2>7
  <1> QED BY <1>1, <1>4, <1>6 DEF n, after

\* Whatever the account, the next order keeps it sound, paid for or not.
LEMMA SoundSettled ==
    ASSUME config \in Config, NEW p \in Portfolio, Sound(p), NEW at \in Nat,
           NEW side \in Side, NEW quantity \in Nat \ {0}, NEW reference \in Nat \ {0},
           InSteps(quantity), Turns(side, quantity, p.book.quantity),
           Priced(side, quantity, reference) \in FillType
    PROVE  Sound(Settled(p, at, Priced(side, quantity, reference)))
  <1> DEFINE fill == Priced(side, quantity, reference)
             delta == CashDelta(fill.side, fill.quantity, fill.price, fill.charges)
             after == Settled(p, at, fill)
             trade == TradeOf(p, at, fill)
             n == Len(p.trades)
             q == p.book.quantity
             D == Direction(side)
             outcome == ApplyFill(q, p.book.average, D * quantity, fill.price)
             S == AvgTicks * Lot
  <1>0. fill \in FillType /\ fill.side = side /\ fill.quantity = quantity
        /\ fill.reference = reference
    BY DEF Priced, PriceFill
  <1>1. \/ /\ ~Affordable(p.cash, delta)
           /\ after.cash = p.cash /\ after.book = p.book /\ after.trades = p.trades
        \/ /\ Affordable(p.cash, delta)
           /\ after.cash = p.cash + delta
           /\ after.book = AfterFill(p.book, fill.side, fill.quantity, fill.price, fill.charges)
           /\ after.trades = Append(p.trades, trade)
    <2> HIDE DEF fill, delta, after, trade
    <2> QED BY <1>0, SettledCases DEF delta, after, trade
  <1>2. CASE /\ after.cash = p.cash /\ after.book = p.book /\ after.trades = p.trades
    <2> HIDE DEF after
    <2>1. Sound(after)
      BY <1>2 DEF Sound
    <2> QED BY <2>1 DEF after, fill
  <1>3. CASE /\ Affordable(p.cash, delta)
             /\ after.cash = p.cash + delta
             /\ after.book = AfterFill(p.book, fill.side, fill.quantity, fill.price, fill.charges)
             /\ after.trades = Append(p.trades, trade)
    <2>0. p.book \in Position /\ p.trades \in Seq(TradeType) /\ n \in Nat
      BY DEF Portfolio
    <2>1. /\ p.cash \in Nat /\ q \in Int /\ p.book.realized \in Int /\ p.book.charges \in Nat
          /\ p.book.net \in Int /\ p.book.average \in Nat /\ D \in {1, -1} /\ Capital \in Nat
          /\ Lot \in Nat /\ S \in Nat /\ fill.price \in Nat /\ fill.charges \in Nat
          /\ fill.spread \in Nat /\ fill.slippage \in Nat /\ n \in Nat
      <3>1. fill.price \in Nat /\ fill.charges \in Nat /\ fill.spread \in Nat /\ fill.slippage \in Nat
        BY <1>0 DEF FillType
      <3>2. p.cash \in Nat /\ q \in Int /\ p.book.realized \in Int /\ p.book.charges \in Nat
            /\ p.book.net \in Int /\ p.book.average \in Nat
        BY <2>0 DEF Portfolio, Position
      <3> QED BY <2>0, <3>1, <3>2, RunAssumption, ScaleAssumption DEF Direction
    <2>2. PICK m \in Nat : p.book.average = m * AvgTicks
      BY DEF Sound
    <2>3. /\ outcome.average \in {0, fill.price * AvgTicks}
          /\ outcome.quantity = q + D * quantity /\ InSteps(outcome.quantity)
          /\ Within(Unexplained(p.book, side, quantity, fill.price, fill.charges), S * Slack(2))
      <3>1. InSteps(p.book.quantity)
        BY DEF Sound
      <3> DEFINE book == p.book
                 price == fill.price
                 charges == fill.charges
      <3>2. book \in Position /\ price \in Nat /\ charges \in Nat /\ InSteps(book.quantity)
            /\ book.average = m * AvgTicks /\ Turns(side, quantity, book.quantity)
        BY <2>0, <2>1, <2>2, <3>1
      <3> HIDE DEF book, price, charges
      <3>3. LET o == ApplyFill(book.quantity, book.average, Direction(side) * quantity, price)
                apart == Unexplained(book, side, quantity, price, charges)
            IN  /\ apart \in Int
                /\ 2 * apart <= AvgTicks * Lot * Slack(2) /\ -2 * apart <= AvgTicks * Lot * Slack(2)
                /\ o.average \in {0, price * AvgTicks}
                /\ o.quantity = book.quantity + Direction(side) * quantity
                /\ InSteps(o.quantity)
        BY <3>2, TurnExplainsProfit
      <3> QED BY <3>3 DEF Within, book, price, charges
    <2>4. outcome.realized \in Int /\ outcome.closed \in Nat /\ D * quantity \in Int
      <3> DEFINE f == D * quantity
                 entry == p.book.average
                 price == fill.price
      <3>1. f \in Int /\ entry \in Nat /\ price \in Nat /\ q \in Int
        BY <2>1
      <3> HIDE DEF f, entry, price, q
      <3>2. ApplyFill(q, entry, f, price).realized \in Int
        BY <3>1, ApplyFillRealized
      <3>3. ApplyFill(q, entry, f, price).closed \in Nat
        BY <3>1, ApplyFillQuantities
      <3> QED BY <3>1, <3>2, <3>3 DEF f, entry, price
    <2>5. delta \in Int
      BY <1>0, CostsExplainCash
    <2>6. p.cash + delta \in Nat
      <3>1. Affordable(p.cash, delta)
        BY <1>3
      <3> HIDE DEF delta
      <3>2. p.cash \in Nat /\ delta \in Int
        BY <2>1, <2>5
      <3> QED BY <3>1, <3>2 DEF Affordable
    <2>7. /\ trade.fill = fill /\ trade.bar = at /\ trade.gross = outcome.realized
          /\ trade.closed = outcome.closed /\ trade.position = outcome.quantity
          /\ trade.cash = p.cash + delta
          /\ trade = [fill |-> fill, bar |-> at, gross |-> outcome.realized,
                      closed |-> outcome.closed, position |-> outcome.quantity,
                      cash |-> p.cash + delta]
      BY <1>0 DEF TradeOf
    <2>8. trade \in TradeType
      <3>1. outcome.quantity \in Int
        <4> HIDE DEF outcome, D, q
        <4> QED BY <2>1, <2>3, <2>4
      <3> HIDE DEF trade, outcome, delta, fill
      <3> QED BY <1>0, <2>4, <2>6, <2>7, <3>1 DEF TradeType
    <2>9. LET trades == p.trades
              more == Append(trades, trade)
          IN  /\ Len(more) = n + 1 /\ more[n + 1] = trade
              /\ NetOf(trades) \in Int /\ NetOf(more) = NetOf(trades) + TradeNet(trade)
              /\ \A mark \in Nat :
                    /\ EarnedBy(trades, mark) \in Int /\ Earned(trade, mark) \in Int
                    /\ EarnedBy(more, mark) = EarnedBy(trades, mark) + Earned(trade, mark)
      <3> HIDE DEF trade
      <3> QED BY <2>0, <2>8, TradesGrow
    <2>10. /\ after.book.quantity = outcome.quantity /\ after.book.average = outcome.average
           /\ after.book.realized = p.book.realized + outcome.realized
           /\ after.book.charges = p.book.charges + fill.charges
           /\ after.book.net = p.book.realized + outcome.realized - (p.book.charges + fill.charges)
      <3> HIDE DEF after
      <3> QED BY <1>0, <1>3 DEF AfterFill
    <2> DEFINE x == Lot * delta + D * quantity * reference
                      + Lot * (fill.spread + fill.slippage + fill.charges)
               u == Unexplained(p.book, side, quantity, fill.price, fill.charges)
               held == outcome.quantity
    <2>11. u = S * (delta - outcome.realized + fill.charges) + held * outcome.average
                 - q * p.book.average
      BY <1>0 DEF Unexplained
    <2>12. Within(x, Lot * Slack(3))
      BY <1>0, CostsExplainCash DEF Within
    <2>13. \E k \in Nat : outcome.average = k * AvgTicks
      <3>1. 0 = 0 * AvgTicks
        BY ScaleAssumption
      <3> HIDE DEF outcome, fill
      <3> QED BY <2>1, <2>3, <3>1
    <2> HIDE DEF fill, delta, after, trade, n, q, D, outcome, S, u, held, x
    <2>14. after.book.net = p.book.net + outcome.realized - fill.charges
           /\ after.book.net = NetOf(after.trades)
      <3>1. p.book.net = p.book.realized - p.book.charges /\ p.book.net = NetOf(p.trades)
        BY DEF Sound
      <3>2. TradeNet(trade) = outcome.realized - fill.charges
        BY <2>7 DEF TradeNet
      <3>3. NetOf(after.trades) = NetOf(p.trades) + TradeNet(trade)
        BY <1>3, <2>9
      <3>4. p.book.realized + outcome.realized - (p.book.charges + fill.charges)
              = p.book.net + outcome.realized - fill.charges
        BY <2>1, <2>4, <3>1
      <3>5. p.book.net + outcome.realized - fill.charges
              = p.book.net + (outcome.realized - fill.charges)
        BY <2>1, <2>4
      <3> QED BY <2>10, <3>1, <3>2, <3>3, <3>4, <3>5
    <2>15. ASSUME NEW mark \in Nat
           PROVE  Within(Lot * (after.cash - Capital) + held * mark - EarnedBy(after.trades, mark),
                         Lot * Slack(3 * (n + 1)))
      <3> DEFINE y == Lot * (p.cash - Capital) + q * mark - EarnedBy(p.trades, mark)
      <3>1. Within(y, Lot * Slack(3 * n))
        BY DEF Sound, n, q
      <3>2. Earned(trade, mark) = D * quantity * (mark - reference)
                                    - Lot * (fill.spread + fill.slippage + fill.charges)
        BY <1>0, <2>7 DEF Earned, D
      <3>3. Lot * (after.cash - Capital) + held * mark - EarnedBy(after.trades, mark) = y + x
        <4>1. EarnedBy(after.trades, mark) = EarnedBy(p.trades, mark) + Earned(trade, mark)
              /\ EarnedBy(p.trades, mark) \in Int /\ Earned(trade, mark) \in Int
          BY <1>3, <2>9
        <4>2. D * quantity * (mark - reference) = D * quantity * mark - D * quantity * reference
          BY <2>1
        <4>3. held * mark = q * mark + D * quantity * mark
          BY <2>1, <2>3, <2>4 DEF held
        <4>4. Lot * (after.cash - Capital) = Lot * (p.cash - Capital) + Lot * delta
          <5>1. after.cash = p.cash + delta
            BY <1>3
          <5>2. \A c \in Int : c = p.cash + delta =>
                   Lot * (c - Capital) = Lot * (p.cash - Capital) + Lot * delta
            BY <2>1, <2>5
          <5>3. after.cash \in Int
            BY <2>1, <2>5, <5>1
          <5> QED BY <5>1, <5>2, <5>3
        <4>5. /\ D * quantity * mark \in Int /\ D * quantity * reference \in Int
              /\ q * mark \in Int /\ Lot * (p.cash - Capital) \in Int /\ Lot * delta \in Int
              /\ Lot * (fill.spread + fill.slippage + fill.charges) \in Int
          BY <2>1, <2>5
        <4> DEFINE a == D * quantity * mark
                   b == D * quantity * reference
                   c == Lot * (fill.spread + fill.slippage + fill.charges)
                   d == Lot * delta
                   e == Lot * (p.cash - Capital)
                   g == q * mark
                   v == EarnedBy(p.trades, mark)
                   w == Earned(trade, mark)
        <4>6. /\ w = a - b - c /\ x = d + b + c /\ y = e + g - v
              /\ Lot * (after.cash - Capital) = e + d /\ held * mark = g + a
              /\ EarnedBy(after.trades, mark) = v + w
          BY <3>2, <4>1, <4>2, <4>3, <4>4 DEF x
        <4>7. a \in Int /\ b \in Int /\ c \in Int /\ d \in Int /\ e \in Int /\ g \in Int
              /\ v \in Int /\ w \in Int
          BY <4>1, <4>5
        <4> HIDE DEF a, b, c, d, e, g, v, w, y
        <4>8. (e + d) + (g + a) - (v + w) = y + x
          BY <4>6, <4>7
        <4> QED BY <4>6, <4>8
      <3>4. Lot * Slack(3 * (n + 1)) = Lot * Slack(3 * n) + Lot * Slack(3)
        <4>1. 3 * (n + 1) = 3 * n + 3 /\ 3 * n \in Nat
          BY <2>1
        <4>2. Slack(3 * n + 3) = Slack(3 * n) + Slack(3) /\ Slack(3 * n) \in Nat /\ Slack(3) \in Nat
          BY <4>1, SlackAdds
        <4> QED BY <2>1, <4>1, <4>2
      <3>5. Within(x, Lot * Slack(3))
        BY <2>12
      <3>6. /\ Lot * Slack(3 * n) \in Int /\ Lot * Slack(3) \in Int
        <4>0. 3 * n \in Nat /\ 3 \in Nat
          BY <2>1
        <4>1. Slack(3 * n) \in Nat /\ Slack(3) \in Nat
          BY <4>0, SlackType
        <4> QED BY <2>1, <4>1
      <3> HIDE DEF x, y
      <3> QED BY <3>1, <3>3, <3>4, <3>5, <3>6 DEF Within
    <2>16. Within(S * (after.cash - Capital - after.book.net) + held * outcome.average,
                  S * Slack(2 * (n + 1)))
      <3> DEFINE y == S * (p.cash - Capital - p.book.net) + q * p.book.average
      <3>1. Within(y, S * Slack(2 * n))
        BY DEF Sound, n, q, S
      <3>2. S * (after.cash - Capital - after.book.net) + held * outcome.average = y + u
        <4> DEFINE a == p.cash - Capital - p.book.net
                   b == delta - outcome.realized + fill.charges
        <4>1. a \in Int /\ b \in Int /\ after.cash - Capital - after.book.net = a + b
          <5>1. after.cash = p.cash + delta
            BY <1>3
          <5> QED BY <2>1, <2>4, <2>5, <2>14, <5>1
        <4>2. S * (a + b) = S * a + S * b /\ S * a \in Int /\ S * b \in Int
          BY <2>1, <4>1
        <4>3. q * p.book.average \in Int
          BY <2>1
        <4>4. held * outcome.average \in Int
          <5>1. held \in Int
            BY <2>1, <2>3, <2>4 DEF held
          <5>2. outcome.average \in Int
            BY <2>13, ScaleAssumption
          <5> QED BY <5>1, <5>2
        <4> HIDE DEF a, b
        <4>5. y = S * a + q * p.book.average /\ u = S * b + held * outcome.average
                                                    - q * p.book.average
          BY <2>11 DEF a, b
        <4> HIDE DEF y
        <4> QED BY <4>1, <4>2, <4>3, <4>4, <4>5
      <3>3. S * Slack(2 * (n + 1)) = S * Slack(2 * n) + S * Slack(2)
        <4>1. 2 * (n + 1) = 2 * n + 2 /\ 2 * n \in Nat
          BY <2>1
        <4>2. Slack(2 * n + 2) = Slack(2 * n) + Slack(2) /\ Slack(2 * n) \in Nat /\ Slack(2) \in Nat
          BY <4>1, SlackAdds
        <4> QED BY <2>1, <4>1, <4>2
      <3>4. Within(u, S * Slack(2))
        BY <2>3 DEF u
      <3>5. S * Slack(2 * n) \in Int /\ S * Slack(2) \in Int
        <4>0. 2 * n \in Nat /\ 2 \in Nat
          BY <2>1
        <4>1. Slack(2 * n) \in Nat /\ Slack(2) \in Nat
          BY <4>0, SlackType
        <4> QED BY <2>1, <4>1
      <3> HIDE DEF y
      <3> QED BY <3>1, <3>2, <3>3, <3>4, <3>5 DEF Within
    <2>17. Len(after.trades) = n + 1 /\ after.trades[n + 1] = trade /\ n + 1 > 0
      BY <1>3, <2>1, <2>9
    <2>18. Sound(after)
      <3>1. after.book.quantity = held /\ InSteps(held)
        BY <2>3, <2>10 DEF held
      <3>2. after.cash = trade.cash /\ held = trade.position
        BY <1>3, <2>7 DEF held
      <3>3. after.book.net = after.book.realized - after.book.charges
        BY <2>1, <2>4, <2>10
      <3>4. \E k \in Nat : after.book.average = k * AvgTicks
        BY <2>10, <2>13
      <3>5. Within(AvgTicks * Lot * (after.cash - Capital - after.book.net)
                     + held * after.book.average, AvgTicks * Lot * Slack(2 * (n + 1)))
        BY <2>10, <2>16 DEF S
      <3>6. \A mark \in Nat :
               Within(Lot * (after.cash - Capital) + held * mark - EarnedBy(after.trades, mark),
                      Lot * Slack(3 * (n + 1)))
        BY <2>15
      <3>7. n + 1 # 0
        BY <2>1
      <3> QED BY <2>14, <2>17, <3>1, <3>2, <3>3, <3>4, <3>5, <3>6, <3>7 DEF Sound
    <2> QED BY <2>18 DEF after, fill
  <1> QED BY <1>1, <1>2, <1>3

\* A mark of a sound account is explained by its trades and by its books.
LEMMA PointExplained ==
    ASSUME config \in Config, NEW p \in Portfolio, Sound(p), NEW at, candles[at].close \in Nat
    PROVE  LET n == Len(p.trades)
               point == Point(p, at)
           IN  /\ 2 * Magnitude(Lot * (point.total - Capital) - EarnedBy(p.trades, point.mark))
                    <= Lot * Slack(3 * n + 1)
               /\ 2 * Magnitude(point.total - Capital - point.net) <= Slack(2 * n + 2)
  <1> DEFINE n == Len(p.trades)
             mark == candles[at].close
             point == Point(p, at)
             q == p.book.quantity
             average == p.book.average
             S == AvgTicks * Lot
             worth == q * mark
             value == HalfUp(worth, Lot)
             gain == (mark * AvgTicks - average) * q
             profit == HalfUp(gain, S)
             E == EarnedBy(p.trades, mark)
             L == Lot * Slack(1)
  <1>1. p.book \in Position /\ p.trades \in Seq(TradeType) /\ n \in Nat
    BY DEF Portfolio
  <1>2. /\ p.cash \in Nat /\ q \in Int /\ average \in Nat /\ p.book.net \in Int /\ mark \in Nat
        /\ Lot \in Nat \ {0} /\ S \in Nat \ {0} /\ AvgTicks \in Nat \ {0} /\ Capital \in Nat
    BY <1>1, RunAssumption, ScaleAssumption DEF Portfolio, Position
  <1>3. worth \in Int /\ gain \in Int
    BY <1>2
  <1>4. PICK m \in Nat : average = m * AvgTicks
    BY DEF Sound
  <1>5. ASSUME config.class = "STOCK"
        PROVE  /\ \E k \in Int : worth = k * Lot
               /\ \E k \in Int : gain = k * S
    <2>1. PICK j \in Int : q = j * Lot
      BY <1>5, StepType DEF Sound, InSteps
    <2>2. worth = (j * mark) * Lot /\ j * mark \in Int
      BY <1>2, <2>1
    <2>3. gain = ((mark - m) * j) * S /\ (mark - m) * j \in Int
      BY <1>2, <1>4, <2>1
    <2> QED BY <2>2, <2>3
  <1>6. value \in Int /\ 2 * (Lot * value - worth) <= L /\ 2 * (worth - Lot * value) <= L
    <2> HIDE DEF worth
    <2> QED BY <1>2, <1>3, <1>5, RoundingError
  <1>7. profit \in Int /\ 2 * (S * profit - gain) <= S * Slack(1)
        /\ 2 * (gain - S * profit) <= S * Slack(1)
    <2> HIDE DEF gain, S
    <2> QED BY <1>2, <1>3, <1>5, RoundingError
  <1>8. /\ point.mark = mark /\ point.total = p.cash + value
        /\ point.net = p.book.net + profit
    <2>1. profit = Unrealized(p, mark)
      <3>1. CASE q = 0
        <4>1. gain = 0
          BY <1>2, <3>1
        <4>2. \A d \in Nat \ {0} : HalfUp(0, d) = 0
          <5> TAKE d \in Nat \ {0}
          <5>1. d \div (2 * d) = 0
            BY SMT
          <5> QED BY <5>1 DEF HalfUp, Magnitude, Sign
        <4> HIDE DEF gain, S
        <4> QED BY <1>2, <3>1, <4>1, <4>2 DEF Unrealized
      <3>2. CASE q # 0
        BY <3>2 DEF Unrealized
      <3> QED BY <3>1, <3>2
    <2> QED BY <2>1 DEF Point, Equity
  <1> DEFINE e == Lot * value - worth
             f == S * profit - gain
             K == Slack(1)
  <1>9. e \in Int /\ f \in Int /\ K \in Nat /\ L \in Nat
    <2> HIDE DEF worth, gain, value, profit, S
    <2> QED BY <1>2, <1>3, <1>6, <1>7, SlackType DEF L
  <1>10. 2 * Magnitude(Lot * ((p.cash + value) - Capital) - E) <= Lot * Slack(3 * n + 1)
    <2> DEFINE y == Lot * (p.cash - Capital) + worth - E
    <2>1. Within(y, Lot * Slack(3 * n))
      BY <1>2 DEF Sound
    <2>2. E \in Int
      <3> DEFINE g == [k \in 1 .. n |-> Earned(p.trades[k], mark)]
      <3>1. ASSUME NEW k \in 1 .. n PROVE Earned(p.trades[k], mark) \in Int
        <4> DEFINE trade == p.trades[k]
        <4>1. trade \in TradeType
          BY <1>1
        <4> HIDE DEF trade
        <4>2. \A z \in Nat : Earned(trade, z) \in Int
          BY <1>1, <4>1, TradesGrow
        <4> QED BY <1>2, <4>2 DEF trade
      <3>2. E = SumFunction(g) /\ DOMAIN g = 1 .. n /\ \A k \in 1 .. n : g[k] \in Int
        BY <1>1, <3>1 DEF EarnedBy
      <3>3. IsFiniteSet(1 .. n)
        BY <1>1, FS_Interval
      <3> HIDE DEF g, E
      <3> QED BY <3>2, <3>3, SumType
    <2>3. Lot * Slack(3 * n + 1) = Lot * Slack(3 * n) + L /\ Lot * Slack(3 * n) \in Nat
      <3>1. 3 * n \in Nat /\ 1 \in Nat
        BY <1>1
      <3>2. Slack(3 * n + 1) = Slack(3 * n) + Slack(1) /\ Slack(3 * n) \in Nat /\ Slack(1) \in Nat
        BY <3>1, SlackAdds, SlackType
      <3> QED BY <1>2, <3>2 DEF L
    <2>4. Lot * ((p.cash + value) - Capital) - E = y + e
      <3>1. Lot * ((p.cash + value) - Capital) = Lot * (p.cash - Capital) + Lot * value
        BY <1>2, <1>6
      <3>2. Lot * (p.cash - Capital) \in Int /\ Lot * value \in Int
        BY <1>2, <1>6
      <3> HIDE DEF worth, value, E
      <3> QED BY <1>3, <2>2, <3>1, <3>2
    <2>5. 2 * e <= L /\ -2 * e <= L
      <3>1. Lot * value \in Int
        BY <1>2, <1>6
      <3> HIDE DEF worth, value, L
      <3> QED BY <1>3, <1>6, <1>9, <3>1
    <2> HIDE DEF y, e, L, E, value, worth
    <2>6. y + e \in Int /\ 2 * (y + e) <= Lot * Slack(3 * n + 1) /\ -2 * (y + e) <= Lot * Slack(3 * n + 1)
      BY <1>9, <2>1, <2>3, <2>5 DEF Within
    <2>7. \A z \in Int, b \in Int : (2 * z <= b /\ -2 * z <= b) => 2 * Magnitude(z) <= b
      BY DEF Magnitude
    <2>8. Lot * Slack(3 * n + 1) \in Int
      BY <1>9, <2>3
    <2> QED BY <2>4, <2>6, <2>7, <2>8
  <1>11. 2 * Magnitude((p.cash + value) - Capital - (p.book.net + profit)) <= Slack(2 * n + 2)
    <2> DEFINE y == S * (p.cash - Capital - p.book.net) + q * average
               z == (p.cash + value) - Capital - (p.book.net + profit)
    <2>1. Within(y, S * Slack(2 * n))
      BY DEF Sound
    <2>2. z \in Int
      BY <1>2, <1>6, <1>7
    <2>3. S * z = y + AvgTicks * e - f
      <3> DEFINE c == p.cash - Capital - p.book.net
      <3>1. z = c + value - profit /\ c \in Int
        BY <1>2, <1>6, <1>7
      <3>2. S * (c + value - profit) = S * c + S * value - S * profit
        <4> HIDE DEF c, value, profit, S
        <4> QED BY <1>2, <1>6, <1>7, <3>1
      <3>3. S * value = AvgTicks * (Lot * value)
        <4> HIDE DEF value
        <4> QED BY <1>2, <1>6
      <3>4. AvgTicks * e = AvgTicks * (Lot * value) - AvgTicks * worth
        <4>1. Lot * value \in Int
          BY <1>2, <1>6
        <4> HIDE DEF value, worth
        <4> QED BY <1>2, <1>3, <4>1
      <3>5. AvgTicks * worth - gain = q * average
        BY <1>2
      <3>6. /\ S * c \in Int /\ S * value \in Int /\ S * profit \in Int
            /\ AvgTicks * worth \in Int /\ q * average \in Int /\ AvgTicks * e \in Int
        <4> HIDE DEF value, worth, c, profit, e, S
        <4> QED BY <1>2, <1>3, <1>6, <1>7, <1>9, <3>1
      <3> HIDE DEF value, worth, c, profit, gain, S, z, e
      <3>7. y = S * c + q * average
        BY DEF c
      <3> HIDE DEF y
      <3> QED BY <1>3, <3>1, <3>2, <3>3, <3>4, <3>5, <3>6, <3>7
    <2>4. 2 * (AvgTicks * e) <= S * K /\ -2 * (AvgTicks * e) <= S * K /\ AvgTicks * e \in Int
      <3>1. 2 * e <= L /\ -2 * e <= L
        <4>1. Lot * value \in Int
          BY <1>2, <1>6
        <4> HIDE DEF worth, value, L
        <4> QED BY <1>3, <1>6, <1>9, <4>1
      <3>2. S * K = AvgTicks * L
        BY <1>2, <1>9 DEF S, L, K
      <3> HIDE DEF e, L, S
      <3>3. \A a, b \in Int : a <= b => AvgTicks * a <= AvgTicks * b
        BY <1>2
      <3>4. AvgTicks * (2 * e) <= AvgTicks * L /\ AvgTicks * (-2 * e) <= AvgTicks * L
        BY <1>9, <3>1, <3>3
      <3>5. AvgTicks * (2 * e) = 2 * (AvgTicks * e) /\ AvgTicks * (-2 * e) = -2 * (AvgTicks * e)
            /\ AvgTicks * e \in Int
        BY <1>2, <1>9
      <3> QED BY <3>2, <3>4, <3>5
    <2>5. 2 * f <= S * K /\ -2 * f <= S * K
      <3>1. S * profit \in Int
        BY <1>2, <1>7
      <3> HIDE DEF gain, profit, S, K
      <3>2. 2 * (S * profit - gain) <= S * K /\ 2 * (gain - S * profit) <= S * K
        BY <1>7 DEF K
      <3>3. S * K \in Int
        BY <1>2, <1>9
      <3> QED BY <1>3, <3>1, <3>2, <3>3
    <2>6. Slack(2 * n + 2) = Slack(2 * n) + 2 * K /\ Slack(2 * n) \in Nat
      <3>1. 2 * n \in Nat /\ 2 \in Nat
        BY <1>1
      <3>2. Slack(2 * n + 2) = Slack(2 * n) + Slack(2) /\ Slack(2 * n) \in Nat
        BY <3>1, SlackAdds
      <3>3. Slack(2) = 2 * K
        BY <3>1, SlackType
      <3> QED BY <3>2, <3>3
    <2>7. S * Slack(2 * n + 2) = S * Slack(2 * n) + 2 * (S * K)
          /\ S * Slack(2 * n) \in Int /\ S * K \in Int
      <3> DEFINE a == Slack(2 * n)
      <3> HIDE DEF S, K, a
      <3>1. a \in Nat /\ S * (a + 2 * K) = S * a + 2 * (S * K) /\ S * a \in Int /\ S * K \in Int
        <4>1. a \in Nat
          BY <2>6 DEF a
        <4> QED BY <1>2, <1>9, <4>1
      <3> QED BY <2>6, <3>1 DEF a
    <2> HIDE DEF y, z, e, f, S, K, value, profit
    <2>8. 2 * (S * z) <= S * Slack(2 * n + 2) /\ -2 * (S * z) <= S * Slack(2 * n + 2)
      <3> DEFINE a == AvgTicks * e
                 b == S * Slack(2 * n)
                 c == S * K
                 w == S * z
      <3>1. y \in Int /\ 2 * y <= b /\ -2 * y <= b
        BY <2>1 DEF Within
      <3>2. w = y + a - f /\ a \in Int /\ b \in Int /\ c \in Int /\ f \in Int
            /\ 2 * a <= c /\ -2 * a <= c /\ 2 * f <= c /\ -2 * f <= c
        BY <1>9, <2>3, <2>4, <2>5, <2>7
      <3> HIDE DEF a, b, c, w
      <3>3. 2 * w <= b + 2 * c /\ -2 * w <= b + 2 * c
        BY <3>1, <3>2
      <3> QED BY <2>7, <3>3 DEF b, c, w
    <2>9. \A s \in Nat \ {0}, a, b \in Int : s * a <= s * b => a <= b
      BY SMT
    <2>10. 2 * (S * z) = S * (2 * z) /\ -2 * (S * z) = S * (-2 * z)
      BY <1>2, <2>2
    <2>11. Slack(2 * n + 2) \in Int /\ 2 * z \in Int /\ -2 * z \in Int
      BY <1>9, <2>2, <2>6
    <2>12. 2 * z <= Slack(2 * n + 2) /\ -2 * z <= Slack(2 * n + 2)
      BY <1>2, <2>8, <2>9, <2>10, <2>11
    <2>13. 2 * Magnitude(z) <= Slack(2 * n + 2)
      BY <2>2, <2>11, <2>12 DEF Magnitude
    <2> QED BY <2>13 DEF z
  <1> DEFINE apart(total, price) == 2 * Magnitude(Lot * (total - Capital) - EarnedBy(p.trades, price))
             unbooked(total, booked) == 2 * Magnitude(total - Capital - booked)
             cash == p.cash + value
             net == p.book.net + profit
  <1>12. apart(cash, mark) <= Lot * Slack(3 * n + 1) /\ unbooked(cash, net) <= Slack(2 * n + 2)
    BY <1>10, <1>11
  <1>13. apart(point.total, point.mark) = apart(cash, mark)
         /\ unbooked(point.total, point.net) = unbooked(cash, net)
    <2> HIDE DEF apart, unbooked, mark, point, value, profit
    <2> QED BY <1>8
  <1> HIDE DEF cash, net, mark, point, n
  <1>14. 2 * Magnitude(Lot * (point.total - Capital) - EarnedBy(p.trades, point.mark))
           <= Lot * Slack(3 * n + 1)
    BY <1>12, <1>13
  <1>15. 2 * Magnitude(point.total - Capital - point.net) <= Slack(2 * n + 2)
    BY <1>12, <1>13
  <1> QED BY <1>14, <1>15 DEF point, n

-----------------------------------------------------------------------------
(* The orders of a run *)

Held == portfolio.book.quantity

\* What the strategy may order at the bar it is asked at, and what the closing
\* sweep orders.
Ordered(side, quantity, reference, at) ==
    /\ Decides(bar) /\ at = bar + 1
    /\ side = OrderSide(Signal(bar, Held)) /\ reference = ReferencePrice(bar)
    /\ quantity = OrderQuantity(side, portfolio, reference)

Swept(side, quantity, reference, at) ==
    /\ bar > Bars /\ at = Bars /\ Held # 0
    /\ side = IF Held > 0 THEN "SELL" ELSE "BUY_TO_COVER"
    /\ quantity = Magnitude(Held) /\ reference = candles[Bars].close

LEMMA CandleType ==
    ASSUME BacktestTypeOK, NEW k \in 1 .. Bars
    PROVE  candles[k].open \in Nat \ {0} /\ candles[k].close \in Nat \ {0}
  <1>1. candles \in Seq(Bar)
    BY RunAssumption DEF BacktestTypeOK
  <1>2. candles[k] \in Bar
    BY <1>1 DEF Bars
  <1> QED BY <1>2 DEF Bar

LEMMA RunType ==
    ASSUME BacktestTypeOK
    PROVE  /\ Bars \in Nat /\ bar \in 1 .. Bars + 1 /\ config \in Config /\ portfolio \in Portfolio
           /\ Held \in Int /\ portfolio.trades \in Seq(TradeType) /\ portfolio.rejected \in Nat
           /\ portfolio.cash \in Nat
           /\ curve \in Seq(PointType) /\ Len(curve) = bar - 1 /\ DOMAIN curve = 1 .. bar - 1
  BY RunAssumption DEF BacktestTypeOK, Bars, Portfolio, Position, Held

\* The strategy goes long only from a flat or short account, short only from a
\* flat or long one, and sells only what it holds.
LEMMA SignalSides ==
    /\ OrderSide(Signal(bar, Held)) \in {"BUY", "SELL", "SHORT_SELL", "NONE"}
    /\ OrderSide(Signal(bar, Held)) = "BUY" => Held <= 0
    /\ OrderSide(Signal(bar, Held)) = "SHORT_SELL" => Held >= 0
    /\ OrderSide(Signal(bar, Held)) = "SELL" => Held > 0
  BY DEF OrderSide, Signal

\* Equity is an amount of money.
LEMMA EquityType ==
    ASSUME BacktestTypeOK, NEW price \in Nat
    PROVE  Equity(portfolio, price) \in Int
  <1>1. Held \in Int /\ portfolio.cash \in Nat
    BY RunType
  <1>2. Held * price \in Int
    BY <1>1
  <1>3. HalfUp(Held * price, Lot) \in Int
    BY <1>2, HalfUpType, ScaleAssumption
  <1> QED BY <1>1, <1>3 DEF Equity, Held

\* Whatever is ordered is tradable, at least closes what is held and, when it
\* opens a position, leaves the one the sizer asked for.
LEMMA OrdersTurn ==
    ASSUME BacktestTypeOK, InSteps(Held), NEW side \in Side, NEW quantity \in Nat \ {0},
           NEW reference \in Nat \ {0}, NEW at \in Nat,
           Ordered(side, quantity, reference, at) \/ Swept(side, quantity, reference, at)
    PROVE  /\ InSteps(quantity) /\ Turns(side, quantity, Held)
           /\ side \in {"BUY", "SHORT_SELL"} =>
                Magnitude(Held + Direction(side) * quantity)
                  = TargetSize(Equity(portfolio, reference), reference)
           /\ side = "BUY" => Held + Direction(side) * quantity >= 0
           /\ side = "SHORT_SELL" => Held + Direction(side) * quantity <= 0
           /\ side \notin {"BUY", "SHORT_SELL"} => Held + Direction(side) * quantity = 0
  <1> DEFINE target == TargetSize(Equity(portfolio, reference), reference)
  <1>1. Held \in Int /\ config \in Config
    BY RunType
  <1>2. Equity(portfolio, reference) \in Int
    BY EquityType
  <1>3. target \in Nat /\ InSteps(target)
    BY <1>1, <1>2, TargetFits
  <1> HIDE DEF target
  <1>4. InSteps(target - Held) /\ InSteps(target + Held) /\ InSteps(-Held)
    BY <1>1, <1>3, StepsAddUp
  <1>5. CASE Swept(side, quantity, reference, at)
    <2>1. quantity = Magnitude(Held) /\ Held # 0
          /\ side = IF Held > 0 THEN "SELL" ELSE "BUY_TO_COVER"
      BY <1>5 DEF Swept
    <2>2. quantity = Held \/ quantity = -Held
      BY <1>1, <2>1 DEF Magnitude
    <2>3. InSteps(quantity)
      BY <1>4, <2>2
    <2>4. Turns(side, quantity, Held) /\ Held + Direction(side) * quantity = 0
      BY <1>1, <2>1 DEF Turns, Direction, Magnitude
    <2> QED BY <2>1, <2>3, <2>4
  <1>6. CASE Ordered(side, quantity, reference, at)
    <2>1. /\ side = OrderSide(Signal(bar, Held))
          /\ quantity = OrderQuantity(side, portfolio, reference)
      BY <1>6 DEF Ordered
    <2>2. /\ side \in {"BUY", "SELL", "SHORT_SELL", "NONE"} /\ side \in Side
          /\ side = "BUY" => Held <= 0
          /\ side = "SHORT_SELL" => Held >= 0
          /\ side = "SELL" => Held > 0
      BY <2>1, SignalSides
    <2>3. CASE side = "BUY"
      <3>1. quantity = Greater(target - Held, 0)
        BY <2>1, <2>3 DEF OrderQuantity, target, Held
      <3>2. quantity = target - Held
        BY <1>1, <1>3, <3>1 DEF Greater
      <3>3. Turns(side, quantity, Held) /\ Held + Direction(side) * quantity = target
        BY <1>1, <1>3, <2>2, <2>3, <3>2 DEF Turns, Direction, Magnitude
      <3>4. Magnitude(target) = target
        BY <1>3 DEF Magnitude
      <3> QED BY <1>3, <1>4, <2>3, <3>2, <3>3, <3>4 DEF target
    <2>4. CASE side = "SHORT_SELL"
      <3>1. quantity = Greater(target + Held, 0)
        BY <2>1, <2>4 DEF OrderQuantity, target, Held
      <3>2. quantity = target + Held
        BY <1>1, <1>3, <3>1 DEF Greater
      <3>3. Turns(side, quantity, Held) /\ Held + Direction(side) * quantity = -target
        BY <1>1, <1>3, <2>2, <2>4, <3>2 DEF Turns, Direction, Magnitude
      <3>4. Magnitude(-target) = target /\ -target <= 0
        BY <1>3 DEF Magnitude
      <3> QED BY <1>3, <1>4, <2>4, <3>2, <3>3, <3>4 DEF target
    <2>5. CASE side = "SELL"
      <3>1. quantity = Held
        BY <1>1, <2>1, <2>5 DEF OrderQuantity, Greater, Held
      <3>2. Turns(side, quantity, Held) /\ Held + Direction(side) * quantity = 0
        BY <1>1, <2>2, <2>5, <3>1 DEF Turns, Direction, Magnitude
      <3> QED BY <2>5, <3>1, <3>2
    <2> QED BY <2>2, <2>3, <2>4, <2>5 DEF Side
  <1> QED BY <1>5, <1>6

\* A bar or the closing sweep leaves the account alone or settles one order.
LEMMA StepOrders ==
    ASSUME BacktestTypeOK, phase = "bars" => Bars > 0, OnBar \/ CloseOut
    PROVE  \/ OnBar /\ portfolio' = portfolio
           \/ \E side \in Side, quantity \in Nat \ {0}, reference \in Nat \ {0}, at \in Nat :
                 /\ \/ OnBar /\ Ordered(side, quantity, reference, at)
                    \/ CloseOut /\ Swept(side, quantity, reference, at)
                 /\ portfolio' = Settled(portfolio, at, Priced(side, quantity, reference))
  <1>1. Bars \in Nat /\ bar \in Nat \ {0} /\ Held \in Int
    BY RunType
  <1>2. CASE OnBar
    <2> DEFINE side == OrderSide(Signal(bar, Held))
               reference == ReferencePrice(bar)
               quantity == OrderQuantity(side, portfolio, reference)
    <2>1. CASE portfolio' = portfolio
      BY <1>2, <2>1
    <2>2. CASE portfolio' # portfolio
      <3>1. /\ bar > Slow /\ bar < Bars /\ side # "NONE" /\ ~(quantity <= 0)
            /\ portfolio' = Settled(portfolio, bar + 1, Priced(side, quantity, reference))
        BY <1>2, <2>2 DEF OnBar, Held
      <3>2. side \in Side
        BY <3>1, SignalSides DEF Side
      <3>3. reference \in Nat \ {0}
        <4>1. bar \in 1 .. Bars /\ bar + 1 \in 1 .. Bars
          BY <1>1, <3>1
        <4> QED BY <4>1, CandleType DEF ReferencePrice
      <3> HIDE DEF side, reference
      <3>4. quantity \in Nat
        BY <3>2, <3>3, OrderQuantityType
      <3>5. Decides(bar)
        BY <1>1, <3>1, RunAssumption DEF Decides
      <3>6. Ordered(side, quantity, reference, bar + 1)
        BY <3>5 DEF Ordered, side, reference
      <3> HIDE DEF quantity
      <3>7. quantity \in Nat \ {0} /\ bar + 1 \in Nat
        BY <1>1, <3>1, <3>4
      <3> QED BY <1>2, <3>1, <3>2, <3>3, <3>6, <3>7
    <2> QED BY <2>1, <2>2
  <1>3. CASE CloseOut
    <2> DEFINE side == IF Held > 0 THEN "SELL" ELSE "BUY_TO_COVER"
               reference == candles[Bars].close
    <2>1. /\ phase = "bars" /\ bar > Bars /\ Held # 0
          /\ portfolio' = Settled(portfolio, Bars, Priced(side, Magnitude(Held), reference))
      BY <1>3 DEF CloseOut, Held
    <2>2. Bars \in 1 .. Bars
      BY <1>1, <2>1
    <2>3. reference \in Nat \ {0}
      BY <2>2, CandleType
    <2>4. side \in Side /\ Magnitude(Held) \in Nat \ {0}
      BY <1>1, <2>1 DEF Side, Magnitude
    <2>5. Swept(side, Magnitude(Held), reference, Bars)
      BY <2>1 DEF Swept
    <2> HIDE DEF side, reference
    <2> QED BY <1>1, <1>3, <2>1, <2>3, <2>4, <2>5
  <1> QED BY <1>2, <1>3

-----------------------------------------------------------------------------
(* The curve *)

\* What EquityIsMarketLessCosts says of the point of a bar.
Explained(trades, i, point) ==
    LET past   == {k \in DOMAIN trades : trades[k].bar <= i}
        earned == SumFunction([k \in past |-> Earned(trades[k], point.mark)])
    IN  /\ 2 * Magnitude(Lot * (point.total - Capital) - earned)
             <= Lot * Slack(3 * Cardinality(past) + 1)
        /\ 2 * Magnitude(point.total - Capital - point.net) <= Slack(2 * Cardinality(past) + 2)

\* A mark of a sound account is explained when all of its trades are in the past.
LEMMA NewPointExplained ==
    ASSUME config \in Config, NEW p \in Portfolio, Sound(p), NEW at, candles[at].close \in Nat,
           \A k \in DOMAIN p.trades : p.trades[k].bar <= at
    PROVE  Explained(p.trades, at, Point(p, at))
  <1> DEFINE trades == p.trades
             point == Point(p, at)
             past == {k \in DOMAIN trades : trades[k].bar <= at}
             n == Len(trades)
  <1>1. past = DOMAIN trades
    OBVIOUS
  <1>2. DOMAIN trades = 1 .. n /\ n \in Nat
    BY DEF Portfolio
  <1>3. Cardinality(1 .. n) = n
    <2> HIDE DEF n
    <2>1. Cardinality(1 .. n) = IF 1 > n THEN 0 ELSE n - 1 + 1
      BY <1>2, FS_Interval
    <2> QED BY <1>2, <2>1
  <1>4. Cardinality(past) = n
    <2> HIDE DEF past, trades, n
    <2> QED BY <1>1, <1>2, <1>3
  <1>5. SumFunction([k \in past |-> Earned(trades[k], point.mark)]) = EarnedBy(trades, point.mark)
    BY <1>1 DEF EarnedBy
  <1>6. /\ 2 * Magnitude(Lot * (point.total - Capital) - EarnedBy(trades, point.mark))
             <= Lot * Slack(3 * n + 1)
        /\ 2 * Magnitude(point.total - Capital - point.net) <= Slack(2 * n + 2)
    BY PointExplained
  <1>7. Explained(trades, at, point)
    <2> HIDE DEF trades, point, n
    <2> QED BY <1>4, <1>5, <1>6 DEF Explained
  <1> QED BY <1>7

\* A point says nothing of a trade of a later bar.
LEMMA LaterTradeUnseen ==
    ASSUME NEW trades \in Seq(TradeType), NEW trade \in TradeType, NEW i \in Nat, NEW point,
           trade.bar > i, Explained(trades, i, point)
    PROVE  Explained(Append(trades, trade), i, point)
  <1> DEFINE more == Append(trades, trade)
             n == Len(trades)
             past == {k \in DOMAIN trades : trades[k].bar <= i}
             seen == {k \in DOMAIN more : more[k].bar <= i}
  <1>1. /\ n \in Nat /\ DOMAIN trades = 1 .. n /\ DOMAIN more = 1 .. n + 1 /\ more[n + 1] = trade
        /\ \A k \in 1 .. n : more[k] = trades[k]
    OBVIOUS
  <1>2. trade.bar \in Nat /\ ~(trade.bar <= i)
    BY DEF TradeType
  <1> HIDE DEF more, n
  <1>3. seen = past
    BY <1>1, <1>2
  <1>4. \A k \in past : more[k] = trades[k]
    BY <1>1
  <1>5. [k \in seen |-> Earned(more[k], point.mark)] = [k \in past |-> Earned(trades[k], point.mark)]
    <2> HIDE DEF past, seen
    <2> QED BY <1>3, <1>4
  <1> QED BY <1>3, <1>5 DEF Explained, more

\* The account is sound once the run has begun, no trade is of a bar to come, and
\* the curve is explained.
RunInv ==
    /\ BInv
    /\ phase # "new" => Sound(portfolio)
    /\ \A k \in DOMAIN portfolio.trades :
           portfolio.trades[k].bar <= bar /\ portfolio.trades[k].bar <= Bars
    /\ EquityIsMarketLessCosts

LEMMA OpensSound ==
    ASSUME NEW p, p.cash = Capital, p.book = Flat, p.trades = <<>>
    PROVE  Sound(p)
  <1>1. Capital \in Nat /\ AvgTicks \in Nat \ {0} /\ Lot \in Nat \ {0} /\ Step \in Nat \ {0}
    BY RunAssumption, ScaleAssumption, StepType
  <1>2. Len(p.trades) = 0 /\ DOMAIN p.trades = {}
    OBVIOUS
  <1>3. \A f : DOMAIN f = {} => SumFunction(f) = 0
    BY SumEmpty
  <1>4. NetOf(p.trades) = 0 /\ \A mark \in Nat : EarnedBy(p.trades, mark) = 0
    BY <1>2, <1>3 DEF NetOf, EarnedBy
  <1>5. InSteps(0) /\ 0 = 0 * AvgTicks
    BY <1>1 DEF InSteps
  <1>6. Slack(3 * 0) = 0 /\ Slack(2 * 0) = 0
    BY DEF Slack
  <1> QED BY <1>1, <1>2, <1>4, <1>5, <1>6 DEF Sound, Within, Flat

\* Every order sent to a sound account leaves a sound one, and adds at most one
\* trade, on the bar that the order was booked on.
LEMMA OrdersKeepSound ==
    ASSUME BacktestTypeOK, Sound(portfolio), NEW side \in Side, NEW quantity \in Nat \ {0},
           NEW reference \in Nat \ {0}, NEW at \in Nat,
           Ordered(side, quantity, reference, at) \/ Swept(side, quantity, reference, at)
    PROVE  LET fill  == Priced(side, quantity, reference)
               after == Settled(portfolio, at, fill)
           IN  /\ Sound(after)
               /\ TradeOf(portfolio, at, fill) \in TradeType \/ after.trades = portfolio.trades
               /\ \/ after.trades = portfolio.trades
                  \/ after.trades = Append(portfolio.trades, TradeOf(portfolio, at, fill))
  <1> DEFINE fill == Priced(side, quantity, reference)
             after == Settled(portfolio, at, fill)
             trade == TradeOf(portfolio, at, fill)
  <1>1. portfolio \in Portfolio /\ config \in Config /\ InSteps(Held) /\ Held = portfolio.book.quantity
    BY RunType DEF Sound, Held
  <1>2. fill \in FillType
    BY PricedType
  <1>3. InSteps(quantity) /\ Turns(side, quantity, portfolio.book.quantity)
    BY <1>1, OrdersTurn
  <1>4. Sound(after)
    BY <1>1, <1>2, <1>3, SoundSettled
  <1> HIDE DEF fill
  <1>5. after.trades = portfolio.trades \/ after.trades = Append(portfolio.trades, trade)
    <2> HIDE DEF after, trade
    <2> QED BY <1>1, <1>2, SettledCases DEF after, trade
  <1>6. ASSUME after.trades # portfolio.trades PROVE trade \in TradeType
    <2>1. after \in Portfolio
      BY <1>1, <1>2, SettledType
    <2>2. after.trades \in Seq(TradeType) /\ portfolio.trades \in Seq(TradeType)
      <3> HIDE DEF after
      <3> QED BY <1>1, <2>1 DEF Portfolio
    <2> DEFINE trades == portfolio.trades
               n == Len(trades)
    <2>3. after.trades = Append(trades, trade)
      BY <1>5, <1>6
    <2> HIDE DEF after, trade
    <2>4. n + 1 \in DOMAIN after.trades /\ after.trades[n + 1] = trade
      BY <2>2, <2>3
    <2> QED BY <2>2, <2>4
  <1> QED BY <1>4, <1>5, <1>6 DEF fill

LEMMA NextRunInv == RunInv /\ [Next]_vars => RunInv'
  <1> SUFFICES ASSUME RunInv, [Next]_vars PROVE RunInv'
    OBVIOUS
  <1> DEFINE trades == portfolio.trades
             n == Len(trades)
  <1>1. BInv /\ BInv' /\ BacktestTypeOK /\ BacktestTypeOK'
    BY NextBInv DEF RunInv, BInv
  <1>2. /\ Bars \in Nat /\ bar \in 1 .. Bars + 1 /\ config \in Config /\ portfolio \in Portfolio
        /\ trades \in Seq(TradeType) /\ curve \in Seq(PointType) /\ Len(curve) = bar - 1
        /\ DOMAIN curve = 1 .. bar - 1
    BY <1>1, RunType
  <1>3. n \in Nat /\ DOMAIN trades = 1 .. n /\ \A k \in 1 .. n : trades[k].bar \in Nat
    <2>1. n \in Nat /\ DOMAIN trades = 1 .. n /\ \A k \in 1 .. n : trades[k] \in TradeType
      BY <1>2
    <2> HIDE DEF trades, n
    <2> QED BY <2>1 DEF TradeType
  <1>4. portfolio' \in Portfolio
    BY <1>1 DEF BacktestTypeOK
  <1>5. ASSUME UNCHANGED <<config, candles>>,
               \A k \in DOMAIN portfolio'.trades :
                   portfolio'.trades[k].bar <= bar' /\ portfolio'.trades[k].bar <= Bars,
               phase' # "new" => Sound(portfolio'),
               \A i \in DOMAIN curve' : Explained(portfolio'.trades, i, curve'[i])
        PROVE  RunInv'
    <2>1. Bars' = Bars
      BY <1>5 DEF Bars
    <2>2. (phase # "new" => Sound(portfolio))'
      BY <1>5 DEF Sound, InSteps, Step, Slack, Within
    <2>3. EquityIsMarketLessCosts'
      BY <1>5 DEF EquityIsMarketLessCosts, Explained, Slack
    <2> QED BY <1>1, <1>5, <2>1, <2>2, <2>3 DEF RunInv
  <1>6. /\ phase # "new" => Sound(portfolio)
        /\ \A k \in DOMAIN trades : trades[k].bar <= bar /\ trades[k].bar <= Bars
        /\ \A i \in DOMAIN curve : Explained(trades, i, curve[i])
    BY DEF RunInv, EquityIsMarketLessCosts, Explained
  <1>7. ASSUME UNCHANGED <<config, candles, bar, curve>>, portfolio'.trades = trades,
               phase' # "new" => Sound(portfolio')
        PROVE  RunInv'
    BY <1>5, <1>6, <1>7
  <1>8. CASE Begin
    <2>1. /\ phase = "new" /\ portfolio' = [portfolio EXCEPT !.cash = Capital]
          /\ UNCHANGED <<config, candles, bar, curve>>
      BY <1>8 DEF Begin
    <2>2. portfolio = [cash |-> 0, book |-> Flat, trades |-> <<>>, rejected |-> 0]
      BY <1>1, <2>1 DEF BInv
    <2>3. portfolio'.cash = Capital /\ portfolio'.book = Flat /\ portfolio'.trades = <<>>
          /\ trades = <<>>
      BY <2>1, <2>2
    <2>4. Sound(portfolio')
      BY <2>3, OpensSound
    <2> QED BY <1>7, <2>1, <2>3, <2>4
  <1>9. ASSUME OnBar \/ CloseOut
        PROVE  /\ Sound(portfolio')
               /\ \/ portfolio'.trades = trades
                  \/ \E trade \in TradeType :
                        /\ portfolio'.trades = Append(trades, trade)
                        /\ OnBar => trade.bar = bar + 1 /\ bar < Bars
                        /\ CloseOut => trade.bar = Bars
    <2>1. Sound(portfolio)
      BY <1>6, <1>9 DEF OnBar, CloseOut
    <2>2. CASE portfolio' = portfolio
      BY <2>1, <2>2
    <2>3. ASSUME NEW side \in Side, NEW quantity \in Nat \ {0}, NEW reference \in Nat \ {0},
                 NEW at \in Nat,
                 \/ OnBar /\ Ordered(side, quantity, reference, at)
                 \/ CloseOut /\ Swept(side, quantity, reference, at),
                 portfolio' = Settled(portfolio, at, Priced(side, quantity, reference))
          PROVE  /\ Sound(portfolio')
                 /\ \/ portfolio'.trades = trades
                    \/ \E trade \in TradeType :
                          /\ portfolio'.trades = Append(trades, trade)
                          /\ OnBar => trade.bar = bar + 1 /\ bar < Bars
                          /\ CloseOut => trade.bar = Bars
      <3> DEFINE trade == TradeOf(portfolio, at, Priced(side, quantity, reference))
      <3>1. trade.bar = at
        BY DEF TradeOf
      <3> HIDE DEF trade
      <3>2. /\ Sound(portfolio')
            /\ trade \in TradeType \/ portfolio'.trades = trades
            /\ portfolio'.trades = trades \/ portfolio'.trades = Append(trades, trade)
        BY <1>1, <2>1, <2>3, OrdersKeepSound DEF trade
      <3>3. ~(OnBar /\ CloseOut)
        BY <1>2 DEF OnBar, CloseOut
      <3>4. OnBar => at = bar + 1 /\ bar < Bars
        BY <1>2, <2>3, <3>3, RunAssumption DEF Ordered, Decides
      <3>5. CloseOut => at = Bars
        BY <2>3, <3>3 DEF Swept
      <3> QED BY <3>1, <3>2, <3>4, <3>5
    <2> QED BY <1>1, <1>9, <2>2, <2>3, StepOrders DEF BInv
  <1>10. CASE OnBar
    <2>1. /\ bar \in 1 .. Bars /\ bar' = bar + 1 /\ curve' = Append(curve, Point(portfolio, bar))
          /\ phase = "bars" /\ phase' = "bars" /\ UNCHANGED <<config, candles>>
      BY <1>2, <1>10 DEF OnBar
    <2> DEFINE point == Point(portfolio, bar)
    <2>2. Explained(trades, bar, point)
      <3>1. candles[bar].close \in Nat
        BY <1>1, <2>1, CandleType
      <3>2. Sound(portfolio)
        BY <1>6, <2>1
      <3> QED BY <1>2, <1>6, <3>1, <3>2, NewPointExplained
    <2>3. DOMAIN curve' = 1 .. bar /\ curve'[bar] = point /\ \A i \in 1 .. bar - 1 : curve'[i] = curve[i]
      <3> HIDE DEF point
      <3> QED BY <1>2, <2>1 DEF point
    <2> HIDE DEF point
    <2>4. \A i \in DOMAIN curve' : Explained(trades, i, curve'[i])
      BY <1>2, <1>6, <2>1, <2>2, <2>3
    <2>5. CASE portfolio'.trades = trades
      <3>1. \A i \in DOMAIN curve' : Explained(portfolio'.trades, i, curve'[i])
        BY <2>4, <2>5
      <3>2. \A k \in DOMAIN trades : trades[k].bar <= bar' /\ trades[k].bar <= Bars
        BY <1>2, <1>3, <1>6, <2>1
      <3> QED BY <1>5, <1>9, <1>10, <2>1, <2>5, <3>1, <3>2
    <2>6. CASE portfolio'.trades # trades
      <3>1. PICK trade \in TradeType :
              portfolio'.trades = Append(trades, trade) /\ trade.bar = bar + 1 /\ bar < Bars
        BY <1>9, <1>10, <2>6
      <3>2. \A i \in DOMAIN curve' : Explained(portfolio'.trades, i, curve'[i])
        <4> TAKE i \in DOMAIN curve'
        <4>1. i \in Nat /\ trade.bar > i
          BY <1>2, <2>1, <2>3, <3>1
        <4>2. Explained(trades, i, curve'[i])
          BY <2>4
        <4>3. Explained(Append(trades, trade), i, curve'[i])
          BY <1>2, <4>1, <4>2, LaterTradeUnseen
        <4> QED BY <3>1, <4>3
      <3>3. \A k \in DOMAIN portfolio'.trades :
               portfolio'.trades[k].bar <= bar' /\ portfolio'.trades[k].bar <= Bars
        <4>1. DOMAIN Append(trades, trade) = 1 .. n + 1 /\ Append(trades, trade)[n + 1] = trade
              /\ \A k \in 1 .. n : Append(trades, trade)[k] = trades[k]
          BY <1>2
        <4> TAKE k \in DOMAIN portfolio'.trades
        <4>2. CASE k = n + 1
          BY <1>2, <2>1, <3>1, <4>1, <4>2
        <4>3. CASE k \in 1 .. n
          BY <1>2, <1>3, <1>6, <2>1, <3>1, <4>1, <4>3
        <4> QED BY <1>3, <3>1, <4>1, <4>2, <4>3
      <3> QED BY <1>5, <1>9, <1>10, <2>1, <3>2, <3>3
    <2> QED BY <2>5, <2>6
  <1>11. CASE CloseOut
    <2>1. /\ bar = Bars + 1 /\ phase = "bars" /\ bar' = bar
          /\ curve' = [curve EXCEPT ![Bars] = Point(portfolio', Bars)]
          /\ UNCHANGED <<config, candles>>
      BY <1>2, <1>11 DEF CloseOut
    <2>2. Bars \in 1 .. Bars
      BY <1>1, <1>2, <2>1 DEF BInv
    <2> DEFINE point == Point(portfolio', Bars)
    <2>3. DOMAIN curve' = 1 .. Bars /\ curve'[Bars] = point /\ \A i \in 1 .. Bars - 1 : curve'[i] = curve[i]
      <3> HIDE DEF point
      <3> QED BY <1>2, <2>1, <2>2 DEF point
    <2>4. \A k \in DOMAIN portfolio'.trades :
               portfolio'.trades[k].bar <= bar' /\ portfolio'.trades[k].bar <= Bars
      <3>1. CASE portfolio'.trades = trades
        BY <1>6, <2>1, <3>1
      <3>2. CASE portfolio'.trades # trades
        <4>1. PICK trade \in TradeType : portfolio'.trades = Append(trades, trade) /\ trade.bar = Bars
          BY <1>9, <1>11, <3>2
        <4>2. DOMAIN Append(trades, trade) = 1 .. n + 1 /\ Append(trades, trade)[n + 1] = trade
              /\ \A k \in 1 .. n : Append(trades, trade)[k] = trades[k]
          BY <1>2
        <4> TAKE k \in DOMAIN portfolio'.trades
        <4>3. CASE k = n + 1
          BY <1>2, <2>1, <4>1, <4>2, <4>3
        <4>4. CASE k \in 1 .. n
          BY <1>2, <1>3, <1>6, <2>1, <4>1, <4>2, <4>4
        <4> QED BY <1>3, <4>1, <4>2, <4>3, <4>4
      <3> QED BY <3>1, <3>2
    <2>5. Explained(portfolio'.trades, Bars, point)
      <3>1. candles[Bars].close \in Nat
        BY <1>1, <2>2, CandleType
      <3>2. Sound(portfolio')
        BY <1>9, <1>11
      <3> QED BY <1>2, <1>4, <2>4, <3>1, <3>2, NewPointExplained
    <2> HIDE DEF point
    <2>6. \A i \in DOMAIN curve' : Explained(portfolio'.trades, i, curve'[i])
      <3> TAKE i \in DOMAIN curve'
      <3>1. CASE i = Bars
        BY <2>3, <2>5, <3>1
      <3>2. CASE i # Bars
        <4>1. i \in 1 .. Bars - 1 /\ i \in Nat /\ i < Bars /\ curve'[i] = curve[i]
          BY <1>2, <2>3, <3>2
        <4>2. Explained(trades, i, curve'[i])
          BY <1>2, <1>6, <2>1, <4>1
        <4>3. CASE portfolio'.trades = trades
          BY <4>2, <4>3
        <4>4. CASE portfolio'.trades # trades
          <5>1. PICK trade \in TradeType : portfolio'.trades = Append(trades, trade) /\ trade.bar = Bars
            BY <1>9, <1>11, <4>4
          <5>2. trade.bar > i
            BY <1>2, <4>1, <5>1
          <5> QED BY <1>2, <4>1, <4>2, <5>1, <5>2, LaterTradeUnseen
        <4> QED BY <4>3, <4>4
      <3> QED BY <3>1, <3>2
    <2> QED BY <1>5, <1>9, <1>11, <2>1, <2>4, <2>6
  <1>12. CASE KeepOpen \/ Summarise
    BY <1>6, <1>7, <1>12 DEF KeepOpen, Summarise
  <1>13. CASE UNCHANGED vars
    BY <1>6, <1>7, <1>13 DEF vars
  <1> QED BY <1>8, <1>10, <1>11, <1>12, <1>13 DEF Next

LEMMA InitRunInv == Init => RunInv
  <1> SUFFICES ASSUME Init PROVE RunInv
    OBVIOUS
  <1>1. portfolio.trades = <<>> /\ curve = <<>> /\ phase = "new"
    BY DEF Init
  <1>2. BInv
    BY InitBInv
  <1> QED BY <1>1, <1>2 DEF RunInv, EquityIsMarketLessCosts

\* Every point of the curve is accounted for, to the last rounding, by what the
\* market did to the trades up to it and by the costs they report; and it agrees
\* with the profit on the books.
THEOREM CurveIsExplained == Spec => []EquityIsMarketLessCosts
  <1>1. RunInv => EquityIsMarketLessCosts
    BY DEF RunInv
  <1> QED BY <1>1, InitRunInv, NextRunInv, PTL DEF Spec

-----------------------------------------------------------------------------
(* The sizes *)

\* What SizedToBudget says of one of the trades.
Sized(trades, k) ==
    LET trade  == trades[k]
        price  == trade.fill.reference
        found  == IF k = 1 THEN [cash |-> Capital, position |-> 0] ELSE trades[k - 1]
        equity == found.cash + HalfUp(found.position * price, Lot)
        opened == Magnitude(trade.position)
    IN  trade.fill.side \in {"BUY", "SHORT_SELL"} =>
          /\ opened % Step = 0
          /\ opened = 0 \/ Fits(opened, price, equity)
          /\ ~Fits(opened + Step, price, equity)

\* The size of an order is what the budget allows out of the equity that the
\* trade before it left.
LEMMA OrderIsSized ==
    ASSUME BacktestTypeOK, Sound(portfolio), NEW side \in Side, NEW quantity \in Nat \ {0},
           NEW reference \in Nat \ {0}, NEW at \in Nat,
           Ordered(side, quantity, reference, at) \/ Swept(side, quantity, reference, at)
    PROVE  LET trade == TradeOf(portfolio, at, Priced(side, quantity, reference))
               trades == portfolio.trades
           IN  Sized(Append(trades, trade), Len(trades) + 1)
  <1> DEFINE fill == Priced(side, quantity, reference)
             trade == TradeOf(portfolio, at, fill)
             trades == portfolio.trades
             n == Len(trades)
             more == Append(trades, trade)
             equity == Equity(portfolio, reference)
             target == TargetSize(equity, reference)
             found == IF n + 1 = 1 THEN [cash |-> Capital, position |-> 0] ELSE more[n + 1 - 1]
  <1>1. /\ portfolio \in Portfolio /\ config \in Config /\ InSteps(Held) /\ Held \in Int
        /\ Held = portfolio.book.quantity /\ trades \in Seq(TradeType) /\ portfolio.cash \in Nat
    BY RunType DEF Sound, Held
  <1>2. trade.position = Held + Direction(side) * quantity /\ trade.fill.side = side
        /\ trade.fill.reference = reference
    BY DEF TradeOf, ApplyFill, Priced, PriceFill, Held
  <1> HIDE DEF trade
  <1>3. n \in Nat /\ more[n + 1] = trade /\ (n > 0 => more[n + 1 - 1] = trades[n])
    BY <1>1
  <1>4. found.cash = portfolio.cash /\ found.position = Held
    <2>1. /\ n = 0 => portfolio.cash = Capital /\ Held = 0
          /\ n > 0 => portfolio.cash = trades[n].cash /\ Held = trades[n].position
      BY <1>1 DEF Sound
    <2> HIDE DEF n, more, trades
    <2>2. CASE n = 0
      BY <1>3, <2>1, <2>2
    <2>3. CASE n > 0
      BY <1>3, <2>1, <2>3
    <2> QED BY <1>3, <2>2, <2>3
  <1>5. equity = found.cash + HalfUp(found.position * reference, Lot) /\ equity \in Int
    <2>1. equity \in Int
      BY EquityType
    <2> HIDE DEF found
    <2> QED BY <1>1, <1>4, <2>1 DEF Equity
  <1>6. ASSUME side \in {"BUY", "SHORT_SELL"}
        PROVE  Magnitude(trade.position) = target
    <2> HIDE DEF target, equity
    <2>1. Magnitude(Held + Direction(side) * quantity) = TargetSize(Equity(portfolio, reference), reference)
      BY <1>1, <1>6, OrdersTurn
    <2> QED BY <1>2, <2>1 DEF target, equity
  <1>7. /\ target % Step = 0
        /\ target = 0 \/ Fits(target, reference, equity)
        /\ ~Fits(target + Step, reference, equity)
    <2> HIDE DEF equity
    <2> QED BY <1>1, <1>5, TargetFits
  <1> HIDE DEF target, equity, found, more, n
  <1>8. Sized(more, n + 1)
    BY <1>2, <1>3, <1>5, <1>6, <1>7 DEF Sized, found
  <1> QED BY <1>8 DEF more, n, trade, fill

SizeInv == RunInv /\ SizedToBudget

LEMMA NextSizeInv == SizeInv /\ [Next]_vars => SizeInv'
  <1> SUFFICES ASSUME SizeInv, [Next]_vars PROVE SizeInv'
    OBVIOUS
  <1> DEFINE trades == portfolio.trades
             n == Len(trades)
  <1>1. /\ RunInv /\ RunInv' /\ BInv /\ BacktestTypeOK /\ trades \in Seq(TradeType)
        /\ phase # "new" => Sound(portfolio)
    <2>1. RunInv /\ RunInv' /\ BInv /\ BacktestTypeOK
      BY NextRunInv DEF SizeInv, RunInv, BInv
    <2> QED BY <2>1, RunType DEF RunInv
  <1>2. \A k \in DOMAIN trades : Sized(trades, k)
    BY DEF SizeInv, SizedToBudget, Sized, Found
  <1>3. n \in Nat /\ DOMAIN trades = 1 .. n
    BY <1>1
  <1>4. ASSUME UNCHANGED config, \A k \in DOMAIN portfolio'.trades : Sized(portfolio'.trades, k)
        PROVE  SizeInv'
    <2>1. Step' = Step
      BY <1>4 DEF Step
    <2>2. \A q, price, equity : Fits(q, price, equity)' <=> Fits(q, price, equity)
      BY <1>4 DEF Fits
    <2>3. SizedToBudget'
      BY <1>4, <2>1, <2>2 DEF SizedToBudget, Sized, Found
    <2> QED BY <1>1, <2>3 DEF SizeInv
  <1>5. CASE UNCHANGED config /\ portfolio'.trades = trades
    BY <1>2, <1>4, <1>5
  <1>6. CASE OnBar \/ CloseOut
    <2>1. UNCHANGED config /\ Sound(portfolio)
      BY <1>1, <1>6 DEF OnBar, CloseOut
    <2>2. CASE portfolio' = portfolio
      BY <1>5, <2>1, <2>2
    <2>3. ASSUME NEW side \in Side, NEW quantity \in Nat \ {0}, NEW reference \in Nat \ {0},
                 NEW at \in Nat,
                 Ordered(side, quantity, reference, at) \/ Swept(side, quantity, reference, at),
                 portfolio' = Settled(portfolio, at, Priced(side, quantity, reference))
          PROVE  SizeInv'
      <3> DEFINE trade == TradeOf(portfolio, at, Priced(side, quantity, reference))
                 more == Append(trades, trade)
      <3>1. portfolio'.trades = trades \/ portfolio'.trades = more
        BY <1>1, <2>1, <2>3, OrdersKeepSound
      <3>2. Sized(more, n + 1)
        BY <1>1, <2>1, <2>3, OrderIsSized
      <3> HIDE DEF trade
      <3>3. DOMAIN more = 1 .. n + 1 /\ \A k \in 1 .. n : more[k] = trades[k]
        BY <1>1
      <3> HIDE DEF more, n
      <3>4. \A k \in 1 .. n : Sized(more, k)
        <4> TAKE k \in 1 .. n
        <4>1. more[k] = trades[k] /\ (k # 1 => more[k - 1] = trades[k - 1])
          BY <1>3, <3>3
        <4>2. Sized(trades, k)
          BY <1>2, <1>3
        <4> QED BY <4>1, <4>2 DEF Sized
      <3>5. \A k \in DOMAIN more : Sized(more, k)
        BY <1>3, <3>2, <3>3, <3>4
      <3> QED BY <1>4, <1>5, <2>1, <3>1, <3>5
    <2> QED BY <1>1, <1>6, <2>2, <2>3, StepOrders DEF BInv
  <1>7. CASE Begin
    <2>1. portfolio = [cash |-> 0, book |-> Flat, trades |-> <<>>, rejected |-> 0]
      BY <1>1, <1>7 DEF BInv, Begin
    <2>2. portfolio'.trades = trades /\ UNCHANGED config
      BY <1>7, <2>1 DEF Begin
    <2> QED BY <1>5, <2>2
  <1>8. CASE KeepOpen \/ Summarise \/ UNCHANGED vars
    BY <1>5, <1>8 DEF KeepOpen, Summarise, vars
  <1> QED BY <1>6, <1>7, <1>8 DEF Next

LEMMA InitSizeInv == Init => SizeInv
  BY InitRunInv DEF Init, SizeInv, SizedToBudget

\* Whatever the prices, the sizing and the costs, an order that opens a position
\* leaves the largest one that the budget allows, out of the equity that the
\* trade before it left.
THEOREM PositionsFitTheBudget == Spec => []SizedToBudget
  <1>1. SizeInv => SizedToBudget
    BY DEF SizeInv
  <1> QED BY <1>1, InitSizeInv, NextSizeInv, PTL DEF Spec

-----------------------------------------------------------------------------
(* The walk of max_drawdown *)

\* One point of the walk.
Walk(seen, point) ==
    IF point.total > seen.peak THEN [seen EXCEPT !.peak = point.total]
    ELSE [seen EXCEPT !.worst = Greater(@, seen.peak - point.total)]

WalkBase(points) == [peak |-> points[1].total, worst |-> 0]

\* What the walk has found once it has been through the points of s.
Walked(seen, points, s) ==
    LET at == s \cup {1}
    IN  /\ seen \in [peak : Int, worst : Int]
        /\ \A i \in at : points[i].total <= seen.peak
        /\ \E i \in at : points[i].total = seen.peak
        /\ \A i, j \in at : i <= j => points[i].total - points[j].total <= seen.worst
        /\ \E i, j \in at : i <= j /\ points[i].total - points[j].total = seen.worst

LEMMA TotalsAreInts ==
    ASSUME NEW points \in Seq(PointType)
    PROVE  /\ \A i \in DOMAIN points : points[i].total \in Int /\ i \in Nat /\ 1 <= i
           /\ points # <<>> => 1 \in DOMAIN points
           /\ \A x \in DOMAIN points : 1 \in DOMAIN points
  <1>1. \A i \in DOMAIN points : points[i] \in PointType
    OBVIOUS
  <1>2. \A point \in PointType : point.total \in Int
    BY DEF PointType
  <1>3. /\ \A i \in DOMAIN points : i \in Nat /\ 1 <= i /\ 1 \in DOMAIN points
        /\ points # <<>> => 1 \in DOMAIN points
    OBVIOUS
  <1> QED BY <1>1, <1>2, <1>3

LEMMA WalkBegins ==
    ASSUME NEW points \in Seq(PointType), points # <<>>
    PROVE  Walked(WalkBase(points), points, {})
  <1>1. points[1].total \in Int
    BY TotalsAreInts
  <1>2. points[1].total - points[1].total = 0
    BY <1>1
  <1> QED BY <1>1, <1>2 DEF Walked, WalkBase

LEMMA WalkStep ==
    ASSUME NEW points \in Seq(PointType), NEW s \in SUBSET DOMAIN points, NEW x \in DOMAIN points,
           \A i \in s : i <= x, NEW seen, Walked(seen, points, s)
    PROVE  Walked(Walk(seen, points[x]), points, s \cup {x})
  <1> DEFINE t(i) == points[i].total
             at == s \cup {1}
             more == (s \cup {x}) \cup {1}
             peak == seen.peak
             worst == seen.worst
             next == Walk(seen, points[x])
  <1>1. \A i \in DOMAIN points : t(i) \in Int /\ i \in Nat /\ 1 <= i
    BY TotalsAreInts
  <1>2. 1 \in DOMAIN points
    BY TotalsAreInts
  <1>3. /\ at \subseteq DOMAIN points /\ more = at \cup {x} /\ \A i \in at : i <= x
        /\ \A i \in more : t(i) \in Int /\ i \in Nat
    BY <1>1, <1>2
  <1>4. /\ seen \in [peak : Int, worst : Int] /\ peak \in Int /\ worst \in Int
        /\ \A i \in at : t(i) <= peak
        /\ \E i \in at : t(i) = peak
        /\ \A i, j \in at : i <= j => t(i) - t(j) <= worst
        /\ \E i, j \in at : i <= j /\ t(i) - t(j) = worst
    BY DEF Walked
  <1>5. worst >= 0
    <2>1. 1 \in at /\ t(1) - t(1) = 0
      BY <1>1, <1>2
    <2> HIDE DEF t, at, worst
    <2> QED BY <1>4, <2>1
  <1>6. next = IF t(x) > peak THEN [peak |-> t(x), worst |-> worst]
               ELSE [peak |-> peak, worst |-> Greater(worst, peak - t(x))]
    BY <1>4 DEF Walk
  <1>7. t(x) \in Int /\ x \in Nat /\ t(x) - t(x) = 0
    BY <1>1
  <1> HIDE DEF t, at, more, peak, worst, next
  <1>8. CASE t(x) > peak
    <2>1. next = [peak |-> t(x), worst |-> worst]
      BY <1>6, <1>8
    <2>2. \A i \in more : t(i) <= t(x)
      <3> TAKE i \in more
      <3>1. CASE i = x
        BY <1>7, <3>1
      <3>2. CASE i \in at
        <4>1. t(i) <= peak /\ t(i) \in Int
          BY <1>3, <1>4, <3>2
        <4> QED BY <1>4, <1>7, <1>8, <4>1
      <3> QED BY <1>3, <3>1, <3>2
    <2>3. \A i, j \in more : i <= j => t(i) - t(j) <= worst
      <3> SUFFICES ASSUME NEW i \in more, NEW j \in more, i <= j PROVE t(i) - t(j) <= worst
        OBVIOUS
      <3>1. CASE i \in at /\ j \in at
        BY <1>4, <3>1
      <3>2. CASE j = x
        <4>1. t(i) <= t(x) /\ t(i) \in Int
          BY <1>3, <2>2
        <4> QED BY <1>4, <1>5, <1>7, <3>2, <4>1
      <3>3. CASE i = x /\ j \in at
        <4>1. j = x
          BY <1>3, <3>3
        <4> QED BY <1>5, <1>7, <3>3, <4>1
      <3> QED BY <1>3, <3>1, <3>2, <3>3
    <2>4. x \in more /\ at \subseteq more
      BY <1>3
    <2>5. /\ next \in [peak : Int, worst : Int] /\ next.peak = t(x) /\ next.worst = worst
      BY <1>4, <1>7, <2>1
    <2>6. \E i, j \in more : i <= j /\ t(i) - t(j) = worst
      BY <1>4, <2>4
    <2> QED BY <2>2, <2>3, <2>4, <2>5, <2>6 DEF Walked, next, more, t
  <1>9. CASE ~(t(x) > peak)
    <2> DEFINE w == Greater(worst, peak - t(x))
    <2>1. next = [peak |-> peak, worst |-> w]
      BY <1>6, <1>9
    <2>2. w \in Int /\ w >= worst /\ w >= peak - t(x) /\ (w = worst \/ w = peak - t(x)) /\ w >= 0
          /\ t(x) <= peak
      BY <1>4, <1>5, <1>7, <1>9 DEF Greater
    <2> HIDE DEF w
    <2>3. \A i \in more : t(i) <= peak
      BY <1>3, <1>4, <2>2
    <2>4. \A i, j \in more : i <= j => t(i) - t(j) <= w
      <3> SUFFICES ASSUME NEW i \in more, NEW j \in more, i <= j PROVE t(i) - t(j) <= w
        OBVIOUS
      <3>1. CASE i \in at /\ j \in at
        <4>1. t(i) - t(j) <= worst /\ t(i) \in Int /\ t(j) \in Int
          BY <1>3, <1>4, <3>1
        <4> QED BY <1>4, <2>2, <4>1
      <3>2. CASE j = x
        <4>1. t(i) <= peak /\ t(i) \in Int
          BY <1>3, <2>3
        <4> QED BY <1>4, <1>7, <2>2, <3>2, <4>1
      <3>3. CASE i = x /\ j \in at
        <4>1. j = x
          BY <1>3, <3>3
        <4> QED BY <1>7, <2>2, <3>3, <4>1
      <3> QED BY <1>3, <3>1, <3>2, <3>3
    <2>5. x \in more /\ at \subseteq more
      BY <1>3
    <2>6. next \in [peak : Int, worst : Int] /\ next.peak = peak /\ next.worst = w
      BY <1>4, <2>1, <2>2
    <2>7. \E i \in more : t(i) = peak
      BY <1>4, <2>5
    <2>8. \E i, j \in more : i <= j /\ t(i) - t(j) = w
      <3>1. CASE w = worst
        BY <1>4, <2>5, <3>1
      <3>2. CASE w = peak - t(x)
        <4>1. PICK i \in at : t(i) = peak
          BY <1>4
        <4>2. i \in more /\ i <= x /\ t(i) - t(x) = w
          BY <1>3, <2>5, <3>2, <4>1
        <4> QED BY <2>5, <4>2
      <3> QED BY <2>2, <3>1, <3>2
    <2> QED BY <2>3, <2>4, <2>6, <2>7, <2>8 DEF Walked, next, more, t
  <1> QED BY <1>8, <1>9

\* It can have found nothing else.
LEMMA WalkUnique ==
    ASSUME NEW points \in Seq(PointType), points # <<>>, NEW s \in SUBSET DOMAIN points,
           NEW a, NEW b, Walked(a, points, s), Walked(b, points, s)
    PROVE  a = b
  <1> DEFINE t(i) == points[i].total
             at == s \cup {1}
  <1>1. \A i \in at : t(i) \in Int
    BY TotalsAreInts
  <1>2. /\ a \in [peak : Int, worst : Int] /\ b \in [peak : Int, worst : Int]
        /\ \A i \in at : t(i) <= a.peak /\ t(i) <= b.peak
        /\ (\E i \in at : t(i) = a.peak) /\ (\E i \in at : t(i) = b.peak)
        /\ \A i, j \in at : i <= j => t(i) - t(j) <= a.worst /\ t(i) - t(j) <= b.worst
        /\ \E i, j \in at : i <= j /\ t(i) - t(j) = a.worst
        /\ \E i, j \in at : i <= j /\ t(i) - t(j) = b.worst
    BY DEF Walked
  <1> HIDE DEF t, at
  <1>3. a.peak \in Int /\ b.peak \in Int /\ a.worst \in Int /\ b.worst \in Int
    BY <1>2
  <1>4. a.peak <= b.peak /\ b.peak <= a.peak
    BY <1>2
  <1>5. a.worst <= b.worst
    BY <1>2
  <1>6. b.worst <= a.worst
    BY <1>2
  <1>7. a.peak = b.peak /\ a.worst = b.worst
    BY <1>3, <1>4, <1>5, <1>6
  <1> QED BY <1>2, <1>7

LEMMA MaxIsGreatest ==
    ASSUME NEW S \in SUBSET Int, IsFiniteSet(S), S # {}
    PROVE  Max(S) \in S /\ \A y \in S : Max(S) >= y
  <1> DEFINE HasMax(s) == \E x \in s : \A y \in s : x >= y
             bad == {s \in SUBSET S : s # {} /\ ~HasMax(s)}
  <1>1. SUFFICES ASSUME bad # {} PROVE FALSE
    <2>1. HasMax(S)
      BY <1>1
    <2> QED BY <2>1 DEF Max
  <1>2. PICK s \in bad : \A x \in s : s \ {x} \notin bad
    <2>1. bad \in SUBSET (SUBSET S)
      OBVIOUS
    <2> HIDE DEF bad
    <2> QED BY <1>1, <2>1, SmallestMember
  <1>3. s \in SUBSET S /\ s # {} /\ ~HasMax(s)
    BY <1>2
  <1>4. PICK x \in s : TRUE
    BY <1>3
  <1>5. CASE s \ {x} = {}
    <2>1. \A y \in s : y = x
      BY <1>5
    <2>2. x >= x
      BY <1>3, <1>4
    <2> QED BY <1>3, <1>4, <2>1, <2>2
  <1>6. CASE s \ {x} # {}
    <2>1. HasMax(s \ {x})
      BY <1>2, <1>3, <1>4, <1>6
    <2>2. PICK m \in s \ {x} : \A y \in s \ {x} : m >= y
      BY <2>1
    <2>3. m \in Int /\ x \in Int /\ \A y \in s : y \in Int /\ (y # x => m >= y)
      BY <1>3, <1>4, <2>2
    <2>4. (\A y \in s : m >= y) \/ (\A y \in s : x >= y)
      BY <2>3
    <2> QED BY <1>3, <1>4, <2>2, <2>4
  <1> QED BY <1>5, <1>6

\* The points of s, and the last of them.
LEMMA LastPoint ==
    ASSUME NEW points \in Seq(PointType), NEW s \in SUBSET DOMAIN points, s # {}
    PROVE  /\ Max(s) \in s /\ Max(s) \in DOMAIN points
           /\ \A i \in s \ {Max(s)} : i <= Max(s)
           /\ s \ {Max(s)} \in SUBSET DOMAIN points
           /\ (s \ {Max(s)}) \cup {Max(s)} = s
  <1>1. IsFiniteSet(s) /\ s \in SUBSET Int
    <2>1. DOMAIN points = 1 .. Len(points) /\ Len(points) \in Nat
      OBVIOUS
    <2>2. IsFiniteSet(1 .. Len(points))
      BY <2>1, FS_Interval
    <2> QED BY <2>1, <2>2, FS_Subset
  <1>2. Max(s) \in s /\ \A y \in s : Max(s) >= y
    BY <1>1, MaxIsGreatest
  <1> QED BY <1>1, <1>2

LEMMA WalkExists ==
    ASSUME NEW points \in Seq(PointType), points # <<>>, NEW s \in SUBSET DOMAIN points
    PROVE  \E seen : Walked(seen, points, s)
  <1> DEFINE S == DOMAIN points
             bad == {u \in SUBSET S : ~ \E seen : Walked(seen, points, u)}
  <1>1. SUFFICES ASSUME bad # {} PROVE FALSE
    BY Zenon
  <1>2. PICK u \in bad : \A x \in u : u \ {x} \notin bad
    <2>1. bad \in SUBSET (SUBSET S)
      OBVIOUS
    <2>2. IsFiniteSet(S)
      <3>1. S = 1 .. Len(points) /\ Len(points) \in Nat
        OBVIOUS
      <3> QED BY <3>1, FS_Interval
    <2> HIDE DEF bad, S
    <2> QED BY <1>1, <2>1, <2>2, SmallestMember
  <1>3. u \in SUBSET DOMAIN points /\ ~ \E seen : Walked(seen, points, u)
    BY <1>2
  <1>4. u # {}
    BY <1>3, WalkBegins
  <1> DEFINE x == Max(u)
  <1>5. x \in u /\ x \in DOMAIN points /\ (\A i \in u \ {x} : i <= x)
        /\ u \ {x} \in SUBSET DOMAIN points /\ (u \ {x}) \cup {x} = u
    BY <1>3, <1>4, LastPoint
  <1> HIDE DEF x
  <1>6. PICK seen : Walked(seen, points, u \ {x})
    BY <1>2, <1>5
  <1>7. Walked(Walk(seen, points[x]), points, (u \ {x}) \cup {x})
    BY <1>5, <1>6, WalkStep
  <1> QED BY <1>3, <1>5, <1>7

\* The recursion of FoldLeft.
WalksUp(iter, points) ==
    iter = [s \in SUBSET DOMAIN points |->
              IF s = {} THEN WalkBase(points) ELSE Walk(iter[s \ {Max(s)}], points[Max(s)])]

WalkOf(points, s) == CHOOSE seen : Walked(seen, points, s)

LEMMA WalksUpExists ==
    ASSUME NEW points \in Seq(PointType), points # <<>>
    PROVE  WalksUp([s \in SUBSET DOMAIN points |-> WalkOf(points, s)], points)
  <1> DEFINE S == DOMAIN points
             h == [s \in SUBSET S |-> WalkOf(points, s)]
             body(s) == IF s = {} THEN WalkBase(points) ELSE Walk(h[s \ {Max(s)}], points[Max(s)])
  <1>1. \A s \in SUBSET S : Walked(WalkOf(points, s), points, s)
    BY WalkExists DEF WalkOf
  <1>2. \A s \in SUBSET S : h[s] = WalkOf(points, s)
    OBVIOUS
  <1> HIDE DEF h
  <1>3. ASSUME NEW s \in SUBSET S PROVE WalkOf(points, s) = body(s)
    <2>1. Walked(WalkOf(points, s), points, s)
      BY <1>1
    <2>2. CASE s = {}
      <3>1. Walked(WalkBase(points), points, s)
        BY <2>2, WalkBegins
      <3> QED BY <2>1, <2>2, <3>1, WalkUnique
    <2>3. CASE s # {}
      <3> DEFINE x == Max(s)
                 rest == s \ {x}
      <3>1. x \in DOMAIN points /\ (\A i \in rest : i <= x) /\ rest \in SUBSET S /\ rest \cup {x} = s
        BY <2>3, LastPoint
      <3>2. Walked(h[rest], points, rest)
        <4> HIDE DEF x, rest
        <4> QED BY <1>1, <1>2, <3>1
      <3>3. Walked(Walk(h[rest], points[x]), points, rest \cup {x})
        <4> HIDE DEF x, rest
        <4> QED BY <3>1, <3>2, WalkStep
      <3>4. Walked(body(s), points, s)
        BY <2>3, <3>1, <3>3
      <3> HIDE DEF body
      <3> QED BY <2>1, <3>4, WalkUnique
    <2> QED BY <2>2, <2>3
  <1>4. [s \in SUBSET S |-> WalkOf(points, s)] = [s \in SUBSET S |-> body(s)]
    <2> HIDE DEF body
    <2> QED BY <1>3
  <1>5. h = [s \in SUBSET S |-> body(s)]
    BY <1>4 DEF h
  <1>6. WalksUp(h, points)
    BY <1>5 DEF WalksUp
  <1> QED BY <1>6 DEF h

LEMMA WalksUpWalks ==
    ASSUME NEW points \in Seq(PointType), points # <<>>, NEW iter, WalksUp(iter, points),
           NEW s \in SUBSET DOMAIN points
    PROVE  Walked(iter[s], points, s)
  <1> DEFINE S == DOMAIN points
             bad == {u \in SUBSET S : ~Walked(iter[u], points, u)}
             body(u) == IF u = {} THEN WalkBase(points)
                        ELSE Walk(iter[u \ {Max(u)}], points[Max(u)])
  <1>1. SUFFICES ASSUME bad # {} PROVE FALSE
    BY Zenon
  <1>2. PICK u \in bad : \A x \in u : u \ {x} \notin bad
    <2>1. bad \in SUBSET (SUBSET S)
      OBVIOUS
    <2>2. IsFiniteSet(S)
      <3>1. S = 1 .. Len(points) /\ Len(points) \in Nat
        OBVIOUS
      <3> QED BY <3>1, FS_Interval
    <2> HIDE DEF bad, S
    <2> QED BY <1>1, <2>1, <2>2, SmallestMember
  <1>3. u \in SUBSET DOMAIN points /\ ~Walked(iter[u], points, u)
    BY <1>2
  <1>4. iter[u] = body(u)
    <2>1. iter = [v \in SUBSET DOMAIN points |-> body(v)]
      BY DEF WalksUp
    <2> HIDE DEF body
    <2> QED BY <1>3, <2>1
  <1>5. CASE u = {}
    BY <1>3, <1>4, <1>5, WalkBegins
  <1>6. CASE u # {}
    <2> DEFINE x == Max(u)
    <2>1. x \in u /\ x \in DOMAIN points /\ (\A i \in u \ {x} : i <= x)
          /\ u \ {x} \in SUBSET DOMAIN points /\ (u \ {x}) \cup {x} = u
      BY <1>3, <1>6, LastPoint
    <2>2. iter[u] = Walk(iter[u \ {x}], points[x])
      BY <1>4, <1>6
    <2> HIDE DEF x
    <2>3. Walked(iter[u \ {x}], points, u \ {x})
      BY <1>2, <2>1
    <2>4. Walked(Walk(iter[u \ {x}], points[x]), points, (u \ {x}) \cup {x})
      BY <2>1, <2>3, WalkStep
    <2> QED BY <1>3, <2>1, <2>2, <2>4
  <1> QED BY <1>5, <1>6

\* The drawdown is the largest fall between any two points.
LEMMA DrawdownIsWorst ==
    ASSUME NEW points \in Seq(PointType), points # <<>>
    PROVE  /\ \A i, j \in DOMAIN points :
                  i <= j => points[i].total - points[j].total <= MaxDrawdown(points)
           /\ \E i, j \in DOMAIN points :
                  i <= j /\ points[i].total - points[j].total = MaxDrawdown(points)
  <1> DEFINE iter == CHOOSE iter : WalksUp(iter, points)
             seen == iter[DOMAIN points]
  <1>1. WalksUp(iter, points)
    BY WalksUpExists
  <1>2. MaxDrawdown(points) = seen.worst
    BY DEF MaxDrawdown, FoldLeft, MapThenFoldSet, WalksUp, WalkBase, Walk
  <1> HIDE DEF iter
  <1>3. Walked(seen, points, DOMAIN points)
    BY <1>1, WalksUpWalks
  <1>4. DOMAIN points \cup {1} = DOMAIN points
    BY TotalsAreInts
  <1> HIDE DEF seen
  <1> QED BY <1>2, <1>3, <1>4 DEF Walked

-----------------------------------------------------------------------------
(* The report *)

\* The order that flattens an account at the close of a bar.
Closing(p, at) ==
    Priced(IF p.book.quantity > 0 THEN "SELL" ELSE "BUY_TO_COVER", Magnitude(p.book.quantity),
           candles[at].close)

Unpaid(p, fill) ==
    ~Affordable(p.cash, CashDelta(fill.side, fill.quantity, fill.price, fill.charges))

\* An account that cannot pay for being closed has nothing left after the costs of
\* it, and a sale it cannot pay for does not bring its charges.
LEMMA UnpaidClosing ==
    ASSUME config \in Config, NEW p \in Portfolio, InSteps(p.book.quantity),
           p.book.quantity # 0, NEW at, candles[at].close \in Nat \ {0},
           Closing(p, at) \in FillType, Unpaid(p, Closing(p, at))
    PROVE  LET fill == Closing(p, at)
           IN  /\ p.book.quantity > 0 => fill.charges * Lot > fill.price * fill.quantity
               /\ 2 * (Equity(p, candles[at].close) - fill.spread - fill.slippage - fill.charges)
                    < Slack(4)
  <1> DEFINE held == p.book.quantity
             mark == candles[at].close
             side == IF held > 0 THEN "SELL" ELSE "BUY_TO_COVER"
             quantity == Magnitude(held)
             fill == Closing(p, at)
             costs == fill.spread + fill.slippage + fill.charges
             delta == CashDelta(fill.side, fill.quantity, fill.price, fill.charges)
             D == Direction(side)
             worth == held * mark
             value == HalfUp(worth, Lot)
  <1>1. /\ held \in Int /\ held # 0 /\ p.cash \in Nat /\ mark \in Nat \ {0} /\ Lot \in Nat \ {0}
        /\ side \in Side /\ side = (IF held > 0 THEN "SELL" ELSE "BUY_TO_COVER")
    BY ScaleAssumption DEF Portfolio, Position, Side
  <1>2. quantity \in Nat \ {0} /\ InSteps(quantity) /\ D * quantity = -held
        /\ (quantity = held \/ quantity = -held) /\ (held > 0 => D = -1)
    <2>1. quantity = held \/ quantity = -held
      BY <1>1 DEF Magnitude
    <2>2. quantity \in Nat \ {0} /\ D * quantity = -held /\ (held > 0 => D = -1)
      BY <1>1 DEF Magnitude, Direction
    <2>3. InSteps(-held)
      BY <1>1, StepsAddUp
    <2>4. InSteps(quantity)
      BY <2>1, <2>3
    <2> QED BY <2>1, <2>2, <2>4
  <1>3. fill = Priced(side, quantity, mark) /\ fill.side = side /\ fill.quantity = quantity
    BY DEF Closing, Priced, PriceFill
  <1>4. /\ fill.price \in Nat /\ fill.charges \in Nat /\ fill.spread \in Nat
        /\ fill.slippage \in Nat
    BY DEF FillType
  <1> HIDE DEF quantity, fill, side, mark, D, held
  <1> DEFINE apart == Lot * delta + D * quantity * mark + Lot * costs
  <1>5. delta \in Int /\ apart \in Int /\ 2 * apart <= Lot * Slack(3) /\ -2 * apart <= Lot * Slack(3)
    BY <1>1, <1>2, <1>3, CostsExplainCash DEF D
  <1>6. delta < 0 /\ p.cash + delta < 0
    <2>1. ~Affordable(p.cash, delta)
      BY DEF Unpaid, fill
    <2> HIDE DEF delta
    <2> QED BY <1>1, <1>5, <2>1 DEF Affordable
  <1>7. ASSUME held > 0 PROVE fill.charges * Lot > fill.price * fill.quantity
    <2> DEFINE sale == fill.price * fill.quantity
               owed == fill.charges * Lot
    <2>1. sale \in Nat /\ owed \in Nat
      BY <1>1, <1>2, <1>3, <1>4
    <2>2. delta = HalfUp(sale - owed, Lot)
      <3>1. Direction(fill.side) = -1
        BY <1>2, <1>3, <1>7 DEF D
      <3>2. -((-1) * fill.quantity * fill.price) = sale
        BY <1>2, <1>3, <1>4
      <3>3. delta = HalfUp(-(Direction(fill.side) * fill.quantity * fill.price) - owed, Lot)
        BY DEF CashDelta
      <3> HIDE DEF delta, sale, owed
      <3> QED BY <3>1, <3>2, <3>3
    <2> HIDE DEF sale, owed, delta
    <2>3. sale - owed < 0
      <3>1. ASSUME sale - owed >= 0 PROVE FALSE
        <4>1. sale - owed \in Nat
          BY <2>1, <3>1
        <4>2. delta \in Nat
          BY <1>1, <2>2, <4>1, HalfUpBounds
        <4> QED BY <1>6, <4>2
      <3> QED BY <2>1, <3>1
    <2> QED BY <2>1, <2>3 DEF sale, owed
  <1>8. /\ value \in Int /\ worth \in Int
        /\ 2 * (Lot * value - worth) <= Lot * Slack(1) /\ 2 * (worth - Lot * value) <= Lot * Slack(1)
    <2>1. worth \in Int
      BY <1>1
    <2>2. config.class = "STOCK" => \E k \in Int : worth = k * Lot
      <3> SUFFICES ASSUME config.class = "STOCK" PROVE \E k \in Int : worth = k * Lot
        OBVIOUS
      <3>0. InSteps(held) /\ mark \in Int /\ 0 \in Int
        BY <1>1 DEF held
      <3>1. PICK k \in Int : worth + 0 * Lot = k * Lot
        BY <1>1, <3>0, StepsTimes
      <3> HIDE DEF worth
      <3> QED BY <1>1, <2>1, <3>1
    <2> HIDE DEF worth
    <2> QED BY <1>1, <2>1, <2>2, RoundingError
  <1>9. 2 * ((p.cash + value) - costs) < Slack(4)
    <2>1. D * quantity * mark = -worth
      BY <1>1, <1>2
    <2>2. costs \in Nat
      BY <1>4
    <2> DEFINE a == p.cash + delta
               b == (p.cash + value) - costs
    <2>3. a \in Int /\ b \in Int /\ a <= -1
      <3> HIDE DEF delta, costs, value
      <3> QED BY <1>1, <1>5, <1>6, <1>8, <2>2
    <2>4. Lot * b = Lot * a - apart + (Lot * value - worth)
      <3>1. /\ Lot * b = Lot * p.cash + Lot * value - Lot * costs
            /\ Lot * a = Lot * p.cash + Lot * delta
            /\ Lot * p.cash \in Int /\ Lot * value \in Int /\ Lot * costs \in Int
            /\ Lot * delta \in Int
        <4> HIDE DEF delta, costs, value
        <4> QED BY <1>1, <1>5, <1>8, <2>2
      <3>2. apart = Lot * delta - worth + Lot * costs
        <4> HIDE DEF delta, costs, worth
        <4> QED BY <1>8, <2>1, <3>1
      <3> HIDE DEF delta, costs, worth, value, a, b, apart
      <3> QED BY <1>8, <3>1, <3>2
    <2>5. Slack(4) = Slack(3) + Slack(1) /\ Slack(3) \in Nat /\ Slack(1) \in Nat
      BY DEF Slack
    <2>6. Lot * a <= -Lot
      <3> HIDE DEF a
      <3> QED BY <1>1, <2>3
    <2>7. Lot * Slack(4) = Lot * Slack(3) + Lot * Slack(1)
          /\ Lot * Slack(3) \in Nat /\ Lot * Slack(1) \in Nat
      BY <1>1, <2>5
    <2>8. Lot * (2 * b) < Lot * Slack(4)
      <3>1. Lot * (2 * b) = 2 * (Lot * b) /\ Lot * b \in Int /\ Lot * a \in Int
        <4> HIDE DEF a, b
        <4> QED BY <1>1, <2>3
      <3>2. Lot * value - worth \in Int
        <4> HIDE DEF value, worth
        <4> QED BY <1>1, <1>8
      <3> DEFINE x == Lot * b
                 y == Lot * a
                 z == Lot * value - worth
                 c == Lot * Slack(3)
                 d == Lot * Slack(1)
      <3>3. /\ x = y - apart + z /\ y <= -Lot /\ -2 * apart <= c /\ 2 * z <= d
            /\ x \in Int /\ y \in Int /\ z \in Int /\ c \in Int /\ d \in Int
        <4> HIDE DEF a, b, value, worth, apart
        <4> QED BY <1>5, <1>8, <2>4, <2>6, <2>7, <3>1, <3>2
      <3> HIDE DEF x, y, z, c, d, apart
      <3>4. 2 * x < c + d
        BY <1>1, <1>5, <3>3
      <3> QED BY <2>7, <3>1, <3>4 DEF x, c, d
    <2>9. 2 * b < Slack(4)
      <3> DEFINE w == 2 * b
                 s == Slack(4)
      <3>1. w \in Int /\ s \in Int /\ Lot * w < Lot * s
        <4> HIDE DEF b
        <4> QED BY <2>3, <2>5, <2>8
      <3> HIDE DEF w, s
      <3>2. ASSUME w >= s PROVE FALSE
        <4>1. Lot * w >= Lot * s
          BY <1>1, <3>1, <3>2, SMT
        <4>2. Lot * w \in Int /\ Lot * s \in Int
          BY <1>1, <3>1
        <4> QED BY <3>1, <4>1, <4>2
      <3> QED BY <3>1, <3>2 DEF w, s
    <2> QED BY <2>9
  <1>10. Equity(p, mark) - fill.spread - fill.slippage - fill.charges = (p.cash + value) - costs
    <2>1. Equity(p, mark) = p.cash + value
      BY DEF Equity, held
    <2> HIDE DEF value
    <2> QED BY <1>1, <1>4, <1>8, <2>1
  <1>11. 2 * (Equity(p, mark) - fill.spread - fill.slippage - fill.charges) < Slack(4)
    BY <1>9, <1>10
  <1> QED BY <1>7, <1>11 DEF fill, mark, held

\* The last point is the account as it was left, a position the run was to close
\* and did not could not be paid for, and the report is the summary of the run.
ReportInv ==
    /\ RunInv
    /\ phase = "new" => bar = 1
    /\ phase \in {"sums", "done"} => bar = Bars + 1
    /\ Bars = 0 => portfolio.trades = <<>> /\ Held = 0
    /\ bar = Bars + 1 /\ Bars > 0 => curve[Bars] = Point(portfolio, Bars)
    /\ phase \in {"sums", "done"} /\ config.closeAtEnd /\ Held # 0 =>
           portfolio.rejected > 0 /\ Unpaid(portfolio, Closing(portfolio, Bars))
    /\ report = IF phase = "done" THEN {Summary} ELSE {}

LEMMA InitReportInv == Init => ReportInv
  <1> SUFFICES ASSUME Init PROVE ReportInv
    OBVIOUS
  <1>1. RunInv /\ Bars \in Nat
    <2>1. RunInv
      BY InitRunInv
    <2> QED BY <2>1, RunType DEF RunInv, BInv
  <1>2. phase = "new" /\ bar = 1 /\ report = {} /\ portfolio.trades = <<>> /\ Held = 0
    BY DEF Init, Held, Flat
  <1> QED BY <1>1, <1>2 DEF ReportInv

\* The closing sweep flattens the account unless it cannot be paid for.
LEMMA SweepClosesOrFails ==
    ASSUME BInv, Sound(portfolio), CloseOut
    PROVE  \/ portfolio'.book.quantity = 0
           \/ /\ portfolio'.cash = portfolio.cash /\ portfolio'.book = portfolio.book
              /\ portfolio'.rejected > 0 /\ Unpaid(portfolio, Closing(portfolio, Bars))
  <1> DEFINE side == IF Held > 0 THEN "SELL" ELSE "BUY_TO_COVER"
             reference == candles[Bars].close
             quantity == Magnitude(Held)
             fill == Priced(side, quantity, reference)
             delta == CashDelta(fill.side, fill.quantity, fill.price, fill.charges)
  <1>1. /\ BacktestTypeOK /\ Bars \in 1 .. Bars /\ Bars \in Nat /\ bar > Bars /\ Held \in Int
        /\ Held # 0 /\ portfolio \in Portfolio /\ portfolio.rejected \in Nat /\ InSteps(Held)
    <2>1. BacktestTypeOK /\ Bars \in Nat /\ Bars > 0
      BY RunType DEF BInv, CloseOut
    <2>2. Bars \in 1 .. Bars
      BY <2>1
    <2> QED BY <2>1, <2>2, RunType DEF CloseOut, Held, Sound
  <1>2. portfolio' = Settled(portfolio, Bars, fill)
    BY DEF CloseOut, Held
  <1>3. side \in Side /\ quantity \in Nat \ {0} /\ reference \in Nat \ {0}
        /\ Swept(side, quantity, reference, Bars)
    <2>1. reference \in Nat \ {0}
      BY <1>1, CandleType
    <2> QED BY <1>1, <2>1 DEF Side, Magnitude, Swept
  <1>4. fill = Closing(portfolio, Bars)
    BY DEF Closing, Held
  <1> HIDE DEF side, quantity, reference
  <1>5. Held + Direction(side) * quantity = 0
    <2>1. side \notin {"BUY", "SHORT_SELL"}
      BY DEF side
    <2> QED BY <1>1, <1>3, <2>1, OrdersTurn
  <1>6. fill \in FillType /\ fill.side = side /\ fill.quantity = quantity
    BY <1>1, <1>3, PricedType DEF Priced, PriceFill
  <1> HIDE DEF fill
  <1>7. CASE ~Affordable(portfolio.cash, delta)
    <2>1. /\ portfolio'.cash = portfolio.cash /\ portfolio'.book = portfolio.book
          /\ portfolio'.rejected = portfolio.rejected + 1
      <3> HIDE DEF delta
      <3> QED BY <1>1, <1>2, <1>6, <1>7, SettledCases DEF delta
    <2> QED BY <1>1, <1>4, <1>7, <2>1 DEF Unpaid
  <1>8. CASE Affordable(portfolio.cash, delta)
    <2>1. portfolio'.book = AfterFill(portfolio.book, fill.side, fill.quantity, fill.price,
                                      fill.charges)
      <3> HIDE DEF delta
      <3> QED BY <1>1, <1>2, <1>6, <1>8, SettledCases DEF delta
    <2>2. portfolio'.book.quantity = Held + Direction(side) * quantity
      BY <1>6, <2>1 DEF AfterFill, ApplyFill, Held
    <2> QED BY <1>5, <2>2
  <1> QED BY <1>7, <1>8

LEMMA NextReportInv == ReportInv /\ [Next]_vars => ReportInv'
  <1> SUFFICES ASSUME ReportInv, [Next]_vars PROVE ReportInv'
    OBVIOUS
  <1>1. RunInv /\ RunInv' /\ BInv /\ BacktestTypeOK /\ (phase # "new" => Sound(portfolio))
    BY NextRunInv DEF ReportInv, RunInv, BInv
  <1>2. /\ Bars \in Nat /\ bar \in 1 .. Bars + 1 /\ curve \in Seq(PointType)
        /\ Len(curve) = bar - 1 /\ DOMAIN curve = 1 .. bar - 1
    BY <1>1, RunType
  <1>3. /\ phase = "new" => bar = 1
        /\ phase \in {"sums", "done"} => bar = Bars + 1
        /\ Bars = 0 => portfolio.trades = <<>> /\ Held = 0
        /\ bar = Bars + 1 /\ Bars > 0 => curve[Bars] = Point(portfolio, Bars)
        /\ phase \in {"sums", "done"} /\ config.closeAtEnd /\ Held # 0 =>
               portfolio.rejected > 0 /\ Unpaid(portfolio, Closing(portfolio, Bars))
        /\ report = IF phase = "done" THEN {Summary} ELSE {}
    BY DEF ReportInv
  <1>4. ASSUME UNCHANGED <<config, candles>>,
               phase' = "new" => bar' = 1,
               phase' \in {"sums", "done"} => bar' = Bars + 1,
               Bars = 0 => portfolio'.trades = <<>> /\ portfolio'.book.quantity = 0,
               bar' = Bars + 1 /\ Bars > 0 => curve'[Bars] = Point(portfolio', Bars),
               phase' \in {"sums", "done"} /\ config.closeAtEnd /\ portfolio'.book.quantity # 0 =>
                   portfolio'.rejected > 0 /\ Unpaid(portfolio', Closing(portfolio', Bars)),
               report' = IF phase' = "done" THEN {Summary'} ELSE {}
        PROVE  ReportInv'
    <2>1. Bars' = Bars
      BY <1>4 DEF Bars
    <2>2. Point(portfolio, Bars)' = Point(portfolio', Bars)
      BY <1>4, <2>1 DEF Point, Equity, Unrealized
    <2>3. Closing(portfolio, Bars)' = Closing(portfolio', Bars)
      BY <1>4, <2>1 DEF Closing, Priced
    <2>4. Unpaid(portfolio, Closing(portfolio, Bars))' = Unpaid(portfolio', Closing(portfolio', Bars))
      BY <2>3 DEF Unpaid
    <2>5. Held' = portfolio'.book.quantity
      BY DEF Held
    <2> QED BY <1>1, <1>4, <2>1, <2>2, <2>4, <2>5 DEF ReportInv
  <1>5. CASE Begin
    <2>1. /\ phase = "new" /\ phase' = (IF Bars = 0 THEN "sums" ELSE "bars") /\ bar = 1
          /\ portfolio'.book.quantity = 0 /\ portfolio'.trades = <<>>
          /\ UNCHANGED <<config, candles, bar, curve, report>> /\ report = {}
      <3>1. portfolio = [cash |-> 0, book |-> Flat, trades |-> <<>>, rejected |-> 0]
        BY <1>1, <1>5 DEF BInv, Begin
      <3> QED BY <1>3, <1>5, <3>1 DEF Begin, Flat
    <2> QED BY <1>2, <1>4, <2>1
  <1>6. CASE OnBar
    <2>1. /\ bar \in 1 .. Bars /\ bar' = bar + 1 /\ phase = "bars" /\ phase' = "bars"
          /\ curve' = Append(curve, Point(portfolio, bar))
          /\ UNCHANGED <<config, candles, report>> /\ report = {} /\ Bars > 0
      BY <1>2, <1>3, <1>6 DEF OnBar
    <2>2. ASSUME bar' = Bars + 1 PROVE curve'[Bars] = Point(portfolio', Bars)
      <3>1. bar = Bars
        BY <1>2, <2>1, <2>2
      <3>2. portfolio' = portfolio
        BY <1>2, <1>6, <3>1 DEF OnBar
      <3>3. curve'[Bars] = Point(portfolio, bar)
        BY <1>2, <2>1, <3>1
      <3> QED BY <3>1, <3>2, <3>3
    <2> QED BY <1>2, <1>4, <2>1, <2>2
  <1>7. CASE CloseOut
    <2>1. /\ bar = Bars + 1 /\ bar' = bar /\ phase = "bars" /\ phase' = "sums"
          /\ curve' = [curve EXCEPT ![Bars] = Point(portfolio', Bars)]
          /\ UNCHANGED <<config, candles, report>> /\ report = {} /\ Bars > 0
      BY <1>1, <1>2, <1>3, <1>7 DEF CloseOut, BInv
    <2>2. curve'[Bars] = Point(portfolio', Bars)
      <3> DEFINE point == Point(portfolio', Bars)
      <3>1. curve' = [curve EXCEPT ![Bars] = point] /\ Bars \in DOMAIN curve
        BY <1>2, <2>1
      <3> HIDE DEF point
      <3> QED BY <3>1 DEF point
    <2>3. ASSUME portfolio'.book.quantity # 0
          PROVE  portfolio'.rejected > 0 /\ Unpaid(portfolio', Closing(portfolio', Bars))
      <3>1. /\ portfolio'.cash = portfolio.cash /\ portfolio'.book = portfolio.book
            /\ portfolio'.rejected > 0 /\ Unpaid(portfolio, Closing(portfolio, Bars))
        BY <1>1, <1>7, <2>1, <2>3, SweepClosesOrFails
      <3>2. Closing(portfolio', Bars) = Closing(portfolio, Bars)
        BY <3>1 DEF Closing
      <3> QED BY <3>1, <3>2 DEF Unpaid
    <2> QED BY <1>2, <1>4, <2>1, <2>2, <2>3
  <1>8. CASE KeepOpen
    <2>1. /\ bar = Bars + 1 /\ phase' = "sums" /\ report = {}
          /\ UNCHANGED <<config, candles, bar, portfolio, curve, report>>
          /\ ~config.closeAtEnd \/ Held = 0
      BY <1>2, <1>3, <1>8 DEF KeepOpen, Held
    <2> QED BY <1>2, <1>3, <1>4, <2>1 DEF Held
  <1>9. CASE Summarise
    <2>1. /\ phase = "sums" /\ phase' = "done" /\ report' = {Summary}
          /\ UNCHANGED <<config, candles, bar, portfolio, curve>>
      BY <1>9 DEF Summarise
    <2>2. Summary' = Summary
      BY <2>1 DEF Summary
    <2> QED BY <1>3, <1>4, <2>1, <2>2 DEF Held
  <1>10. CASE UNCHANGED vars
    <2>1. UNCHANGED <<config, candles, phase, bar, portfolio, curve, report>>
      BY <1>10 DEF vars
    <2>2. Summary' = Summary
      BY <2>1 DEF Summary
    <2> QED BY <1>3, <1>4, <2>1, <2>2 DEF Held
  <1> QED BY <1>5, <1>6, <1>7, <1>8, <1>9, <1>10 DEF Next

LEMMA ReportIsRight == ReportInv => ReportMatchesRun
  <1> SUFFICES ASSUME ReportInv, phase = "done" PROVE ReportMatchesRun
    BY DEF ReportInv, ReportMatchesRun
  <1> DEFINE result == Summary
             n == Len(portfolio.trades)
  <1>1. report = {result} /\ bar = Bars + 1 /\ Sound(portfolio) /\ BInv /\ BacktestTypeOK
    BY DEF ReportInv, RunInv, BInv
  <1>2. /\ Bars \in Nat /\ curve \in Seq(PointType) /\ Len(curve) = Bars
        /\ DOMAIN curve = 1 .. Bars /\ config \in Config /\ portfolio \in Portfolio
        /\ Held \in Int /\ n \in Nat
    <2>1. Bars \in Nat /\ bar - 1 = Bars
      BY <1>1, RunType
    <2> QED BY <1>1, <2>1, RunType
  <1>3. /\ result.return = (IF curve = <<>> THEN Capital ELSE Last(curve).total) - Capital
        /\ result.net = NetOf(portfolio.trades) /\ result.drawdown = MaxDrawdown(curve)
        /\ result.rejected = portfolio.rejected /\ result.finalPosition = Held
    BY DEF Summary, NetOf, Held
  <1> HIDE DEF result
  <1>4. (curve = <<>> <=> Bars = 0) /\ (curve # <<>> => Last(curve) = curve[Bars])
    BY <1>2 DEF Last
  <1>5. curve # <<>> => curve[Bars] = Point(portfolio, Bars) /\ Bars \in 1 .. Bars
    BY <1>1, <1>2, <1>4 DEF ReportInv
  <1>6. Capital \in Nat /\ portfolio.book.net = NetOf(portfolio.trades)
        /\ portfolio.book.net \in Int
    BY <1>1, <1>2, RunAssumption DEF Sound, Portfolio, Position
  <1>7. /\ \A i, j \in DOMAIN curve :
               i <= j => curve[i].total - curve[j].total <= result.drawdown
        /\ curve # <<>> => \E i, j \in DOMAIN curve :
               i <= j /\ curve[i].total - curve[j].total = result.drawdown
    <2>1. CASE curve = <<>>
      BY <1>2, <1>4, <2>1
    <2>2. CASE curve # <<>>
      BY <1>2, <1>3, <2>2, DrawdownIsWorst
    <2> QED BY <2>1, <2>2
  <1>8. result.return = IF curve = <<>> THEN 0 ELSE curve[Bars].total - Capital
    BY <1>3, <1>4, <1>6
  <1>9. ASSUME result.finalPosition = 0
        PROVE  2 * Magnitude(result.return - result.net) <= Slack(2 * n + 2)
    <2>1. CASE curve = <<>>
      <3>1. portfolio.trades = <<>>
        BY <1>4, <2>1 DEF ReportInv
      <3>2. NetOf(portfolio.trades) = 0 /\ n = 0
        <4>1. DOMAIN [k \in DOMAIN portfolio.trades |-> TradeNet(portfolio.trades[k])] = {}
          BY <3>1
        <4> QED BY <3>1, <4>1, SumEmpty DEF NetOf
      <3>3. result.return = 0 /\ result.net = 0
        BY <1>3, <1>6, <1>8, <2>1, <3>2
      <3>4. Magnitude(0 - 0) = 0 /\ Slack(2 * n + 2) \in Nat
        BY <3>2, SlackType DEF Magnitude
      <3> QED BY <3>3, <3>4
    <2>2. CASE curve # <<>>
      <3> DEFINE point == Point(portfolio, Bars)
                 mark == candles[Bars].close
      <3>1. mark \in Nat /\ Bars \in 1 .. Bars
        BY <1>1, <1>5, <2>2, CandleType
      <3>2. 2 * Magnitude(point.total - Capital - point.net) <= Slack(2 * n + 2)
        BY <1>1, <1>2, <3>1, PointExplained
      <3>3. point.net = portfolio.book.net
        <4>1. Unrealized(portfolio, mark) = 0
          BY <1>3, <1>9 DEF Unrealized, Held
        <4>2. point.net = portfolio.book.net + Unrealized(portfolio, mark)
          BY DEF Point
        <4> QED BY <1>6, <4>1, <4>2
      <3>4. result.return = point.total - Capital
        BY <1>5, <1>8, <2>2
      <3> HIDE DEF point, mark
      <3> QED BY <1>3, <1>6, <3>2, <3>3, <3>4
    <2> QED BY <2>1, <2>2
  <1>10. ASSUME result.finalPosition # 0, config.closeAtEnd
         PROVE  LET side == IF result.finalPosition > 0 THEN "SELL" ELSE "BUY_TO_COVER"
                    fill == Priced(side, Magnitude(result.finalPosition), candles[Bars].close)
                IN  /\ result.rejected > 0
                    /\ result.finalPosition > 0 => fill.charges * Lot > fill.price * fill.quantity
                    /\ 2 * (Equity(portfolio, candles[Bars].close)
                              - fill.spread - fill.slippage - fill.charges) < Slack(4)
    <2> DEFINE fill == Closing(portfolio, Bars)
    <2>1. Held # 0 /\ Held = portfolio.book.quantity /\ InSteps(Held)
      BY <1>1, <1>3, <1>10 DEF Held, Sound
    <2>2. portfolio.rejected > 0 /\ Unpaid(portfolio, fill)
      BY <1>10, <2>1 DEF ReportInv
    <2>3. candles[Bars].close \in Nat \ {0}
      <3>1. curve # <<>>
        BY <1>4, <2>1 DEF ReportInv
      <3> QED BY <1>1, <1>5, <3>1, CandleType
    <2>4. fill = Priced(IF Held > 0 THEN "SELL" ELSE "BUY_TO_COVER", Magnitude(Held),
                        candles[Bars].close)
      BY DEF Closing, Held
    <2>5. fill \in FillType
      <3>1. Magnitude(Held) \in Nat \ {0}
        BY <1>2, <2>1 DEF Magnitude
      <3>2. (IF Held > 0 THEN "SELL" ELSE "BUY_TO_COVER") \in Side
        BY DEF Side
      <3> HIDE DEF fill
      <3> QED BY <1>1, <2>3, <2>4, <3>1, <3>2, PricedType
    <2>6. /\ Held > 0 => fill.charges * Lot > fill.price * fill.quantity
          /\ 2 * (Equity(portfolio, candles[Bars].close)
                    - fill.spread - fill.slippage - fill.charges) < Slack(4)
      BY <1>2, <2>1, <2>2, <2>3, <2>5, UnpaidClosing
    <2> HIDE DEF fill
    <2> QED BY <1>3, <2>2, <2>4, <2>6
  <1>11. report = {result}
    BY <1>1
  <1> HIDE DEF n
  <1> QED BY <1>7, <1>8, <1>9, <1>10, <1>11 DEF ReportMatchesRun, n

\* Whatever the run, its report tells its worst fall, its return agrees with the
\* net of its trades, and a position is left at the end only when closing it could
\* not be paid for.
THEOREM ReportIsOfTheRun == Spec => []ReportMatchesRun
  <1>1. ReportInv => ReportMatchesRun
    BY ReportIsRight
  <1> QED BY <1>1, InitReportInv, NextReportInv, PTL DEF Spec

-----------------------------------------------------------------------------
(* The crosses *)

\* Whether an average keeps enough digits to tell which of the two is greater: two
\* of them that differ, differ by a tick at least.
CrossesShow ==
    Fast >= 2 /\ \E ticks \in 1 .. AvgTicks : ticks % Fast = 0 /\ ticks % Slow = 0

\* Rounded averages compare as the averages do.
LEMMA RoundedCompare ==
    ASSUME NEW a \in Nat, NEW b \in Nat, NEW f \in Nat \ {0}, NEW s \in Nat \ {0},
           NEW A \in Nat, NEW j \in Nat, NEW k \in Nat, f * j <= A, f * j = s * k, j # 0
    PROVE  HalfUp(A * a, f) > HalfUp(A * b, s) <=> s * a > f * b
  <1> DEFINE m == 2 * (A * a) + f
             n == 2 * (A * b) + s
             x == m \div (2 * f)
             y == n \div (2 * s)
  <1>0. A * a \in Nat /\ A * b \in Nat
    OBVIOUS
  <1>1. HalfUp(A * a, f) = x /\ HalfUp(A * b, s) = y
    <2>1. ASSUME NEW c \in Nat, NEW d \in Nat \ {0}
          PROVE  HalfUp(c, d) = (2 * c + d) \div (2 * d)
      <3>1. CASE c > 0
        BY <3>1 DEF HalfUp, Magnitude, Sign
      <3>2. CASE c = 0
        <4>1. d \div (2 * d) = 0
          BY SMT
        <4> QED BY <3>2, <4>1 DEF HalfUp, Magnitude, Sign
      <3> QED BY <3>1, <3>2
    <2> QED BY <1>0, <2>1
  <1>2. m \in Int /\ n \in Int /\ 2 * f \in Nat \ {0} /\ 2 * s \in Nat \ {0}
    BY <1>0
  <1> HIDE DEF m, n
  <1>3. x \in Int /\ y \in Int
    BY <1>2, LargestQuotient
  <1>5. \A c \in Int : c * (2 * f) <= m <=> c <= x
    BY <1>2, LargestQuotient
  <1>6. \A c \in Int : c * (2 * s) <= n <=> c <= y
    BY <1>2, LargestQuotient
  <1> HIDE DEF x, y
  <1>4. x * (2 * f) <= m /\ y * (2 * s) <= n
    <2>1. x <= x /\ y <= y
      BY <1>3
    <2> QED BY <1>3, <1>5, <1>6, <2>1, Zenon
  <1>7. ASSUME s * a <= f * b PROVE x <= y
    <2>1. s * (x * (2 * f)) <= s * m
      BY <1>2, <1>3, <1>4
    <2>2. s * m = 2 * (A * (s * a)) + s * f
      BY <1>0 DEF m
    <2>3. A * (s * a) <= A * (f * b)
      BY <1>7
    <2>4. f * n = 2 * (A * (f * b)) + s * f
      BY <1>0 DEF n
    <2>5. s * (x * (2 * f)) = f * (x * (2 * s))
      BY <1>3
    <2>6. /\ A * (s * a) \in Int /\ A * (f * b) \in Int /\ s * f \in Int /\ s * m \in Int
          /\ f * n \in Int /\ x * (2 * s) \in Int /\ f * (x * (2 * s)) \in Int
      BY <1>2, <1>3
    <2>7. f * (x * (2 * s)) <= f * n
      BY <2>1, <2>2, <2>3, <2>4, <2>5, <2>6
    <2>8. x * (2 * s) <= n
      <3>1. \A c \in Int, d \in Int : f * c <= f * d => c <= d
        BY SMT
      <3> QED BY <1>2, <2>6, <2>7, <3>1
    <2> QED BY <1>3, <1>6, <2>8
  <1>8. ASSUME s * a > f * b PROVE y + 1 <= x
    <2> DEFINE L == f * j
    <2>1. L \in Nat /\ L <= A /\ L = s * k
      OBVIOUS
    <2>2. k # 0
      OBVIOUS
    <2>3. a * j >= b * k + 1
      <3>1. (s * k) * (a * j) = (j * k) * (s * a) /\ (f * j) * (b * k) = (j * k) * (f * b)
        OBVIOUS
      <3>2. j * k \in Nat \ {0} /\ s * a \in Int /\ f * b \in Int
        BY <2>2
      <3>3. (j * k) * (s * a) > (j * k) * (f * b)
        <4>1. \A c \in Nat \ {0}, d \in Int, e \in Int : d > e => c * d > c * e
          BY SMT
        <4> QED BY <1>8, <3>2, <4>1
      <3>4. L * (a * j) > L * (b * k)
        BY <2>1, <3>1, <3>3
      <3>5. a * j \in Int /\ b * k \in Int
        OBVIOUS
      <3>6. \A c \in Nat, d \in Int, e \in Int : c * d > c * e => d > e
        BY SMT
      <3> HIDE DEF L
      <3>7. a * j > b * k
        BY <2>1, <3>4, <3>5, <3>6
      <3> QED BY <3>5, <3>7
    <2>4. A * (a * j) >= A * (b * k) + A
      <3> DEFINE c == a * j
                 d == b * k
      <3>1. c \in Int /\ d \in Int /\ c >= d + 1
        BY <2>3
      <3> HIDE DEF c, d
      <3>2. A * c >= A * (d + 1)
        BY <3>1, SMT
      <3>3. A * (d + 1) = A * d + A /\ A * d \in Int /\ A * c \in Int
        BY <3>1
      <3> QED BY <3>2, <3>3 DEF c, d
    <2>5. k * (y * (2 * s)) <= k * n
      BY <1>2, <1>3, <1>4
    <2>6. k * n = 2 * (A * (b * k)) + L /\ j * m = 2 * (A * (a * j)) + L
      <3>1. k * n = 2 * (A * (b * k)) + s * k
        BY <1>0 DEF n
      <3>2. j * m = 2 * (A * (a * j)) + f * j
        BY <1>0 DEF m
      <3> QED BY <2>1, <3>1, <3>2
    <2>7. k * (y * (2 * s)) = 2 * (y * L) /\ j * ((y + 1) * (2 * f)) = 2 * (y * L) + 2 * L
      <3>1. k * (y * (2 * s)) = 2 * (y * (s * k))
        BY <1>3
      <3>2. j * ((y + 1) * (2 * f)) = 2 * (y * (f * j)) + 2 * (f * j)
        BY <1>3
      <3> QED BY <2>1, <3>1, <3>2
    <2>8. /\ y * L \in Int /\ A * (b * k) \in Int /\ A * (a * j) \in Int /\ k * n \in Int
          /\ j * m \in Int
      BY <1>2, <1>3, <2>1
    <2> HIDE DEF L
    <2>9. j * ((y + 1) * (2 * f)) <= j * m
      <3> DEFINE p == k * (y * (2 * s))
                 q == j * ((y + 1) * (2 * f))
                 c == A * (b * k)
                 d == A * (a * j)
                 e == y * L
                 g == k * n
                 h == j * m
      <3>1. /\ p <= g /\ g = 2 * c + L /\ h = 2 * d + L /\ p = 2 * e /\ q = 2 * e + 2 * L
            /\ d >= c + A /\ L <= A /\ e \in Int /\ c \in Int /\ d \in Int /\ L \in Int
        BY <2>1, <2>4, <2>5, <2>6, <2>7, <2>8
      <3> HIDE DEF p, q, c, d, e, g, h
      <3>2. q <= h
        BY <3>1
      <3> QED BY <3>2 DEF q, h
    <2>10. (y + 1) * (2 * f) <= m
      <3> DEFINE c == (y + 1) * (2 * f)
      <3>1. c \in Int /\ j * c <= j * m
        BY <1>3, <2>9
      <3> HIDE DEF c
      <3>2. \A d \in Int, e \in Int : j * d <= j * e => d <= e
        BY SMT
      <3> QED BY <1>2, <3>1, <3>2 DEF c
    <2>11. y + 1 \in Int
      BY <1>3
    <2> QED BY <1>5, <2>10, <2>11, Zenon
  <1>9. s * a \in Int /\ f * b \in Int
    OBVIOUS
  <1> QED BY <1>1, <1>3, <1>7, <1>8, <1>9

\* An average that is known is that of the closes up to its bar.
LEMMA SmaOfCloses ==
    ASSUME BacktestTypeOK, NEW at \in 1 .. Bars, NEW period \in 1 .. at
    PROVE  Closes(period, at) \in Nat /\ Sma(period, at) = HalfUp(AvgTicks * Closes(period, at), period)
  <1> DEFINE S == {k \in 1 .. at : k + period > at}
             f == [k \in S |-> candles[k].close]
  <1>1. Bars \in Nat /\ at \in Nat /\ period \in Nat
    BY RunType
  <1>2. at - period + 1 .. at = S
    BY <1>1
  <1>3. IsFiniteSet(S)
    <2>1. IsFiniteSet(1 .. at) /\ S \subseteq 1 .. at
      BY <1>1, FS_Interval
    <2> QED BY <2>1, FS_Subset
  <1>4. \A k \in S : f[k] \in Nat
    <2> TAKE k \in S
    <2>1. k \in 1 .. Bars
      BY <1>1
    <2> QED BY <2>1, CandleType
  <1>5. SumFunctionOnSet(f, S) \in Nat
    <2> HIDE DEF f, S
    <2> QED BY <1>3, <1>4, SumNonNegative
  <1>6. Closes(period, at) = SumFunctionOnSet(f, S)
    BY DEF Closes, SumFunction
  <1>7. Sma(period, at) = HalfUp(AvgTicks * SumFunction(f), period)
    BY <1>2 DEF Sma
  <1> QED BY <1>5, <1>6, <1>7 DEF SumFunction

\* So the strategy sees a cross when and only when there is one.
LEMMA AveragesCompare ==
    ASSUME CrossesShow, BacktestTypeOK, NEW at \in 1 .. Bars, at >= Slow
    PROVE  /\ Sma(Fast, at) > Sma(Slow, at) <=> Above(at)
           /\ Sma(Fast, at) < Sma(Slow, at) <=> Below(at)
           /\ Sma(Fast, at) \in Int /\ Sma(Slow, at) \in Int
           /\ ~(Above(at) /\ Below(at))
  <1> DEFINE a == Closes(Fast, at)
             b == Closes(Slow, at)
  <1>1. Fast \in Nat \ {0} /\ Slow \in Nat \ {0} /\ Fast < Slow /\ AvgTicks \in Nat
    BY RunAssumption, ScaleAssumption
  <1>2. /\ a \in Nat /\ Sma(Fast, at) = HalfUp(AvgTicks * a, Fast)
        /\ b \in Nat /\ Sma(Slow, at) = HalfUp(AvgTicks * b, Slow)
    <2>1. at \in Nat /\ Fast \in 1 .. at /\ Slow \in 1 .. at
      BY <1>1, RunType
    <2> QED BY <2>1, SmaOfCloses
  <1>3. PICK ticks \in 1 .. AvgTicks : ticks % Fast = 0 /\ ticks % Slow = 0
    BY DEF CrossesShow
  <1>4. \A d \in Nat \ {0} : (ticks % d) = 0 => \E k \in Nat : ticks = d * k
    <2> TAKE d \in Nat \ {0}
    <2>1. ticks \in Nat
      BY <1>1
    <2>2. \A m \in Nat : m = d * (m \div d) + (m % d) /\ m \div d \in Nat
      BY SMT
    <2> QED BY <2>1, <2>2
  <1>5. PICK j \in Nat : ticks = Fast * j
    BY <1>1, <1>3, <1>4
  <1>6. PICK k \in Nat : ticks = Slow * k
    BY <1>1, <1>3, <1>4
  <1>7. j # 0 /\ k # 0 /\ Fast * j <= AvgTicks /\ Fast * j = Slow * k /\ Slow * k <= AvgTicks
    BY <1>1, <1>5, <1>6
  <1> HIDE DEF a, b
  <1>8. HalfUp(AvgTicks * a, Fast) > HalfUp(AvgTicks * b, Slow) <=> Slow * a > Fast * b
    BY <1>1, <1>2, <1>7, RoundedCompare
  <1>9. HalfUp(AvgTicks * b, Slow) > HalfUp(AvgTicks * a, Fast) <=> Fast * b > Slow * a
    BY <1>1, <1>2, <1>7, RoundedCompare
  <1>10. HalfUp(AvgTicks * a, Fast) \in Int /\ HalfUp(AvgTicks * b, Slow) \in Int
    <2>1. AvgTicks * a \in Int /\ AvgTicks * b \in Int
      BY <1>1, <1>2
    <2> QED BY <1>1, <2>1, HalfUpType
  <1>11. Slow * a \in Int /\ Fast * b \in Int
    BY <1>1, <1>2
  <1> QED BY <1>2, <1>8, <1>9, <1>10, <1>11 DEF Above, Below, a, b

LEMMA CrossesCompare ==
    ASSUME CrossesShow, BacktestTypeOK, NEW at, Decides(at)
    PROVE  /\ CrossedUp(at) <=> GoldenCross(at)
           /\ CrossedDown(at) <=> DeathCross(at)
           /\ ~(GoldenCross(at) /\ DeathCross(at))
  <1>1. Slow \in Nat /\ Bars \in Nat
    BY RunType, RunAssumption
  <1>2. at \in 1 .. Bars /\ at >= Slow /\ at - 1 \in 1 .. Bars /\ at - 1 >= Slow
    <2>1. Slow >= 1
      BY RunAssumption
    <2> QED BY <1>1, <2>1 DEF Decides
  <1>3. /\ Sma(Fast, at) > Sma(Slow, at) <=> Above(at)
        /\ Sma(Fast, at) < Sma(Slow, at) <=> Below(at)
        /\ Sma(Fast, at) \in Int /\ Sma(Slow, at) \in Int
        /\ ~(Above(at) /\ Below(at))
    BY <1>2, AveragesCompare
  <1>4. /\ Sma(Fast, at - 1) > Sma(Slow, at - 1) <=> Above(at - 1)
        /\ Sma(Fast, at - 1) < Sma(Slow, at - 1) <=> Below(at - 1)
        /\ Sma(Fast, at - 1) \in Int /\ Sma(Slow, at - 1) \in Int
    BY <1>2, AveragesCompare
  <1> QED BY <1>3, <1>4 DEF CrossedUp, CrossedDown, GoldenCross, DeathCross

\* The strategy answers each cross, and nothing else, unless the account is on the
\* side of it already.
LEMMA SignalAnswers ==
    ASSUME CrossesShow, BacktestTypeOK, Decides(bar)
    PROVE  LET side == OrderSide(Signal(bar, Held))
           IN  /\ side \in {"BUY", "SELL", "SHORT_SELL", "NONE"}
               /\ side = "BUY" <=> GoldenCross(bar) /\ Held <= 0
               /\ side = "SHORT_SELL" <=> DeathCross(bar) /\ Held >= 0 /\ config.allowShort
               /\ side = "SELL" <=> DeathCross(bar) /\ Held > 0 /\ ~config.allowShort
  <1>1. /\ CrossedUp(bar) <=> GoldenCross(bar)
        /\ CrossedDown(bar) <=> DeathCross(bar)
        /\ ~(GoldenCross(bar) /\ DeathCross(bar))
    BY CrossesCompare
  <1>2. \A offset \in {0, 1} : HasIndicator(Fast, bar, offset) /\ HasIndicator(Slow, bar, offset)
    <2>1. Fast \in Nat /\ Slow \in Nat /\ Fast < Slow /\ Fast >= 2 /\ bar \in Nat /\ Bars \in Nat
      BY RunAssumption, RunType DEF CrossesShow
    <2>2. bar >= Slow + 1
      BY <2>1 DEF Decides
    <2> QED BY <2>1, <2>2 DEF HasIndicator, Known
  <1>3. Held \in Int /\ config.allowShort \in BOOLEAN
    BY RunType DEF Config
  <1>4. Signal(bar, Held) =
          CASE GoldenCross(bar) /\ Held <= 0 -> "BUY"
            [] DeathCross(bar) /\ Held >= 0 /\ config.allowShort -> "SHORT"
            [] DeathCross(bar) /\ Held > 0 /\ ~config.allowShort -> "SELL"
            [] OTHER -> "HOLD"
    BY <1>1, <1>2 DEF Signal
  <1>5. CASE GoldenCross(bar) /\ Held <= 0
    BY <1>1, <1>3, <1>4, <1>5 DEF OrderSide
  <1>6. CASE DeathCross(bar) /\ Held >= 0 /\ config.allowShort
    BY <1>1, <1>3, <1>4, <1>6 DEF OrderSide
  <1>7. CASE DeathCross(bar) /\ Held > 0 /\ ~config.allowShort
    BY <1>1, <1>3, <1>4, <1>7 DEF OrderSide
  <1>8. CASE /\ ~(GoldenCross(bar) /\ Held <= 0)
             /\ ~(DeathCross(bar) /\ Held >= 0 /\ config.allowShort)
             /\ ~(DeathCross(bar) /\ Held > 0 /\ ~config.allowShort)
    BY <1>4, <1>8 DEF OrderSide
  <1> QED BY <1>5, <1>6, <1>7, <1>8

\* The bar a trade was decided at is one where a cross was complete.
Answers(trade) ==
    LET at == trade.bar - 1
    IN  /\ Decides(at)
        /\ IF Direction(trade.fill.side) > 0 THEN GoldenCross(at) ELSE DeathCross(at)
        /\ trade.fill.reference = IF config.timing = "NEXT_OPEN"
                                  THEN candles[trade.bar].open ELSE candles[at].close

\* The closing sweep.
Sweeps(trades, k) ==
    /\ config.closeAtEnd /\ trades[k].bar = Bars /\ k = Len(trades) /\ trades[k].position = 0
    /\ trades[k].fill.reference = candles[Bars].close

\* A cross was acted upon, or the position was on its side.
Heeded(at, position) ==
    /\ GoldenCross(at) => position > 0
    /\ DeathCross(at) => IF config.allowShort THEN position < 0 ELSE position <= 0

LEMMA BarTrades ==
    ASSUME CrossesShow, BInv, Sound(portfolio), OnBar
    PROVE  /\ \/ portfolio'.trades = portfolio.trades
              \/ \E trade \in TradeType :
                    portfolio'.trades = Append(portfolio.trades, trade) /\ Answers(trade)
           /\ portfolio'.rejected = 0 => portfolio.rejected = 0
  <1>1. BacktestTypeOK /\ portfolio \in Portfolio /\ portfolio.rejected \in Nat
        /\ Bars \in Nat /\ bar \in Nat /\ config \in Config
    BY RunType DEF BInv
  <1>2. CASE portfolio' = portfolio
    BY <1>2
  <1>3. ASSUME NEW side \in Side, NEW quantity \in Nat \ {0}, NEW reference \in Nat \ {0},
               NEW at \in Nat, Ordered(side, quantity, reference, at),
               portfolio' = Settled(portfolio, at, Priced(side, quantity, reference))
        PROVE  /\ \/ portfolio'.trades = portfolio.trades
                  \/ \E trade \in TradeType :
                        portfolio'.trades = Append(portfolio.trades, trade) /\ Answers(trade)
               /\ portfolio'.rejected = 0 => portfolio.rejected = 0
    <2> DEFINE fill == Priced(side, quantity, reference)
               trade == TradeOf(portfolio, at, fill)
    <2>1. /\ trade \in TradeType \/ portfolio'.trades = portfolio.trades
          /\ portfolio'.trades = portfolio.trades \/ portfolio'.trades = Append(portfolio.trades, trade)
      BY <1>1, <1>3, OrdersKeepSound
    <2>2. /\ trade.bar = at /\ trade.fill.side = side /\ trade.fill.reference = reference
      BY DEF TradeOf, Priced, PriceFill
    <2>3. fill \in FillType
      BY <1>1, PricedType
    <2>4. portfolio'.rejected = 0 => portfolio.rejected = 0
      <3>1. portfolio'.rejected = portfolio.rejected \/ portfolio'.rejected = portfolio.rejected + 1
        <4> HIDE DEF fill
        <4> QED BY <1>1, <1>3, <2>3, SettledCases DEF fill
      <3> QED BY <1>1, <3>1
    <2> HIDE DEF trade, fill
    <2>5. /\ Decides(bar) /\ at = bar + 1 /\ side = OrderSide(Signal(bar, Held))
          /\ reference = ReferencePrice(bar) /\ trade.bar - 1 = bar
      BY <1>1, <1>3, <2>2 DEF Ordered
    <2>6. IF Direction(side) > 0 THEN GoldenCross(bar) ELSE DeathCross(bar)
      <3>1. /\ side \in {"BUY", "SELL", "SHORT_SELL", "NONE"}
            /\ side = "BUY" <=> GoldenCross(bar) /\ Held <= 0
            /\ side = "SHORT_SELL" <=> DeathCross(bar) /\ Held >= 0 /\ config.allowShort
            /\ side = "SELL" <=> DeathCross(bar) /\ Held > 0 /\ ~config.allowShort
        BY <1>1, <2>5, SignalAnswers
      <3> QED BY <3>1 DEF Direction, Side
    <2>7. reference = IF config.timing = "NEXT_OPEN" THEN candles[bar + 1].open ELSE candles[bar].close
      <3>1. config.timing \in {"NEXT_OPEN", "CURRENT_CLOSE"}
        BY <1>1 DEF Config
      <3> QED BY <2>5, <3>1 DEF ReferencePrice
    <2>8. Answers(trade)
      BY <2>2, <2>5, <2>6, <2>7 DEF Answers
    <2> QED BY <2>1, <2>4, <2>8
  <1>4. ~CloseOut
    BY <1>1 DEF OnBar, CloseOut
  <1> QED BY <1>1, <1>2, <1>3, <1>4, StepOrders DEF BInv

LEMMA BarHeeds ==
    ASSUME CrossesShow, BInv, Sound(portfolio), OnBar, Decides(bar), portfolio'.rejected = 0,
           config.sizing = "FIXED_QUANTITY", config.size >= Step
    PROVE  Heeded(bar, portfolio'.book.quantity)
  <1> DEFINE side == OrderSide(Signal(bar, Held))
             reference == ReferencePrice(bar)
             quantity == OrderQuantity(side, portfolio, reference)
             target == TargetSize(Equity(portfolio, reference), reference)
  <1>1. /\ BacktestTypeOK /\ portfolio \in Portfolio /\ portfolio.rejected \in Nat
        /\ config \in Config /\ Held \in Int /\ Held = portfolio.book.quantity /\ InSteps(Held)
        /\ Bars \in Nat /\ bar \in Nat /\ Slow \in Nat
    BY RunType, RunAssumption DEF BInv, Held, Sound
  <1>2. /\ side \in {"BUY", "SELL", "SHORT_SELL", "NONE"}
        /\ side = "BUY" <=> GoldenCross(bar) /\ Held <= 0
        /\ side = "SHORT_SELL" <=> DeathCross(bar) /\ Held >= 0 /\ config.allowShort
        /\ side = "SELL" <=> DeathCross(bar) /\ Held > 0 /\ ~config.allowShort
        /\ ~(GoldenCross(bar) /\ DeathCross(bar)) /\ config.allowShort \in BOOLEAN
    BY <1>1, SignalAnswers, CrossesCompare DEF Config
  <1>3. portfolio' = IF side = "NONE" \/ quantity <= 0 THEN portfolio
                     ELSE Settled(portfolio, bar + 1, Priced(side, quantity, reference))
    <2>1. bar > Slow /\ bar < Bars
      BY <1>1 DEF Decides
    <2> QED BY <2>1 DEF OnBar, Held
  <1>4. reference \in Nat \ {0}
    <2>1. bar \in 1 .. Bars /\ bar + 1 \in 1 .. Bars
      BY <1>1 DEF Decides
    <2> QED BY <1>1, <2>1, CandleType DEF ReferencePrice
  <1> HIDE DEF reference
  <1>5. target \in Nat \ {0}
    <2>1. Equity(portfolio, reference) \in Int
      BY <1>1, <1>4, EquityType
    <2>2. target \in Nat /\ target >= Step
      BY <1>1, <1>4, <2>1, TargetFits
    <2> HIDE DEF target
    <2> QED BY <2>2, StepType
  <1>6. side # "NONE" => quantity \in Nat \ {0}
    <2>1. CASE side = "BUY"
      <3>1. quantity = Greater(target - Held, 0)
        BY <2>1 DEF OrderQuantity, Held
      <3> HIDE DEF quantity, target, side
      <3> QED BY <1>1, <1>2, <1>5, <2>1, <3>1 DEF Greater
    <2>2. CASE side = "SHORT_SELL"
      <3>1. quantity = Greater(target + Held, 0)
        BY <2>2 DEF OrderQuantity, Held
      <3> HIDE DEF quantity, target, side
      <3> QED BY <1>1, <1>2, <1>5, <2>2, <3>1 DEF Greater
    <2>3. CASE side = "SELL"
      <3>1. quantity = Greater(Held, 0)
        BY <2>3 DEF OrderQuantity, Held
      <3> HIDE DEF quantity, side
      <3> QED BY <1>1, <1>2, <2>3, <3>1 DEF Greater
    <2> HIDE DEF side, quantity
    <2> QED BY <1>2, <2>1, <2>2, <2>3
  <1>7. Ordered(side, quantity, reference, bar + 1)
    BY DEF Ordered, reference
  <1> HIDE DEF quantity, side
  <1>8. CASE side = "NONE"
    <2>1. portfolio' = portfolio
      BY <1>3, <1>8
    <2> QED BY <1>1, <1>2, <1>8, <2>1 DEF Heeded
  <1>9. CASE side # "NONE"
    <2> DEFINE fill == Priced(side, quantity, reference)
    <2>1. side \in Side /\ quantity \in Nat \ {0} /\ bar + 1 \in Nat /\ ~(quantity <= 0)
      BY <1>1, <1>2, <1>6, <1>9 DEF Side
    <2>2. fill \in FillType /\ fill.side = side /\ fill.quantity = quantity
      BY <1>1, <1>4, <2>1, PricedType DEF Priced, PriceFill
    <2>3. portfolio' = Settled(portfolio, bar + 1, fill)
      BY <1>3, <1>9, <2>1
    <2> HIDE DEF fill
    <2>4. portfolio'.book = AfterFill(portfolio.book, fill.side, fill.quantity, fill.price, fill.charges)
      <3>1. portfolio'.rejected # portfolio.rejected + 1
        BY <1>1
      <3> QED BY <1>1, <2>2, <2>3, <3>1, SettledCases
    <2>5. portfolio'.book.quantity = Held + Direction(side) * quantity
      BY <2>2, <2>4 DEF AfterFill, ApplyFill, Held
    <2> DEFINE after == Held + Direction(side) * quantity
    <2>6. /\ side \in {"BUY", "SHORT_SELL"} => Magnitude(after) = target
          /\ side = "BUY" => after >= 0
          /\ side = "SHORT_SELL" => after <= 0
          /\ side \notin {"BUY", "SHORT_SELL"} => after = 0
      BY <1>1, <1>4, <1>7, <2>1, OrdersTurn
    <2>7. after \in Int
      BY <1>1, <2>1 DEF Direction
    <2> HIDE DEF after, target
    <2>8. /\ side = "BUY" => after > 0
          /\ side = "SHORT_SELL" => after < 0
      BY <1>5, <2>6, <2>7 DEF Magnitude
    <2> QED BY <1>2, <1>9, <2>5, <2>6, <2>7, <2>8 DEF Heeded, after
  <1> QED BY <1>8, <1>9

\* While the bars go by, every trade answers a cross and every cross that has been
\* decided upon is heeded: the latest by the account, the ones before by the curve.
CrossInv ==
    /\ ReportInv
    /\ \A k \in DOMAIN portfolio.trades :
           \/ Answers(portfolio.trades[k])
           \/ phase \in {"sums", "done"} /\ Sweeps(portfolio.trades, k)
    /\ phase = "bars" /\ portfolio.rejected = 0
         /\ config.sizing = "FIXED_QUANTITY" /\ config.size >= Step =>
           \A at \in Slow + 1 .. bar - 1 : Decides(at) =>
               Heeded(at, IF at = bar - 1 THEN Held ELSE curve[at + 1].position)

LEMMA InitCrossInv == Init => CrossInv
  <1> SUFFICES ASSUME Init PROVE CrossInv
    OBVIOUS
  <1>1. portfolio.trades = <<>> /\ phase = "new"
    BY DEF Init
  <1> QED BY <1>1, InitReportInv DEF CrossInv

LEMMA NextCrossInv == CrossesShow /\ CrossInv /\ [Next]_vars => CrossInv'
  <1> SUFFICES ASSUME CrossesShow, CrossInv, [Next]_vars PROVE CrossInv'
    OBVIOUS
  <1> DEFINE trades == portfolio.trades
             n == Len(trades)
             Tradable == config.sizing = "FIXED_QUANTITY" /\ config.size >= Step
  <1>1. /\ ReportInv /\ ReportInv' /\ BInv /\ BacktestTypeOK /\ (phase # "new" => Sound(portfolio))
        /\ (phase = "new" => bar = 1)
    <2>1. ReportInv /\ ReportInv'
      BY NextReportInv DEF CrossInv
    <2> QED BY <2>1 DEF ReportInv, RunInv, BInv
  <1>2. /\ Bars \in Nat /\ bar \in 1 .. Bars + 1 /\ curve \in Seq(PointType) /\ Slow \in Nat
        /\ Len(curve) = bar - 1 /\ DOMAIN curve = 1 .. bar - 1
        /\ trades \in Seq(TradeType) /\ n \in Nat /\ DOMAIN trades = 1 .. n
    <2>1. trades \in Seq(TradeType)
      BY <1>1, RunType
    <2> QED BY <1>1, <2>1, RunType, RunAssumption
  <1>3. /\ \A k \in DOMAIN trades :
               \/ Answers(trades[k])
               \/ phase \in {"sums", "done"} /\ Sweeps(trades, k)
        /\ phase = "bars" /\ portfolio.rejected = 0 /\ Tradable =>
               \A at \in Slow + 1 .. bar - 1 : Decides(at) =>
                   Heeded(at, IF at = bar - 1 THEN Held ELSE curve[at + 1].position)
    BY DEF CrossInv
  <1>4. ASSUME UNCHANGED <<config, candles>>,
               \A k \in DOMAIN portfolio'.trades :
                   \/ Answers(portfolio'.trades[k])
                   \/ phase' \in {"sums", "done"} /\ Sweeps(portfolio'.trades, k),
               phase' = "bars" /\ portfolio'.rejected = 0 /\ Tradable =>
                   \A at \in Slow + 1 .. bar' - 1 : Decides(at) =>
                       Heeded(at, IF at = bar' - 1 THEN portfolio'.book.quantity
                                  ELSE curve'[at + 1].position)
        PROVE  CrossInv'
    <2>1. Bars' = Bars /\ Step' = Step /\ Held' = portfolio'.book.quantity
      BY <1>4 DEF Bars, Step, Held
    <2>2. \A at : Decides(at)' <=> Decides(at)
      BY <2>1 DEF Decides
    <2>3. \A period, at : Closes(period, at)' = Closes(period, at)
      BY <1>4 DEF Closes
    <2>4. \A at : (GoldenCross(at)' <=> GoldenCross(at)) /\ (DeathCross(at)' <=> DeathCross(at))
      BY <2>3 DEF GoldenCross, DeathCross, Above, Below
    <2>5. \A at, position : Heeded(at, position)' <=> Heeded(at, position)
      BY <1>4, <2>4 DEF Heeded
    <2>6. \A trade : Answers(trade)' <=> Answers(trade)
      BY <1>4, <2>2, <2>4 DEF Answers
    <2>7. \A all, k : Sweeps(all, k)' <=> Sweeps(all, k)
      BY <1>4, <2>1 DEF Sweeps
    <2>8. (\A k \in DOMAIN portfolio.trades :
               \/ Answers(portfolio.trades[k])
               \/ phase \in {"sums", "done"} /\ Sweeps(portfolio.trades, k))'
      BY <1>4, <2>6, <2>7
    <2>9. (phase = "bars" /\ portfolio.rejected = 0
             /\ config.sizing = "FIXED_QUANTITY" /\ config.size >= Step =>
               \A at \in Slow + 1 .. bar - 1 : Decides(at) =>
                   Heeded(at, IF at = bar - 1 THEN Held ELSE curve[at + 1].position))'
      BY <1>4, <2>1, <2>2, <2>5
    <2> QED BY <1>1, <2>8, <2>9 DEF CrossInv
  <1> HIDE DEF Tradable
  <1>5. CASE Begin
    <2>1. /\ trades = <<>> /\ portfolio'.trades = <<>> /\ bar' = 1 /\ UNCHANGED <<config, candles>>
      <3>1. portfolio = [cash |-> 0, book |-> Flat, trades |-> <<>>, rejected |-> 0]
        BY <1>1, <1>5 DEF BInv, Begin
      <3> QED BY <1>1, <1>5, <3>1 DEF Begin
    <2> QED BY <1>2, <1>4, <2>1
  <1>6. CASE OnBar
    <2>1. /\ bar \in 1 .. Bars /\ bar' = bar + 1 /\ phase = "bars" /\ phase' = "bars"
          /\ curve' = Append(curve, Point(portfolio, bar)) /\ UNCHANGED <<config, candles>>
      BY <1>2, <1>6 DEF OnBar
    <2>2. /\ \/ portfolio'.trades = trades
             \/ \E trade \in TradeType : portfolio'.trades = Append(trades, trade) /\ Answers(trade)
          /\ portfolio'.rejected = 0 => portfolio.rejected = 0
      BY <1>1, <1>6, <2>1, BarTrades
    <2>3. \A k \in DOMAIN trades : Answers(trades[k])
      BY <1>3, <2>1
    <2>4. \A k \in DOMAIN portfolio'.trades : Answers(portfolio'.trades[k])
      <3>1. CASE portfolio'.trades = trades
        BY <2>3, <3>1
      <3>2. ASSUME NEW trade \in TradeType, portfolio'.trades = Append(trades, trade), Answers(trade)
            PROVE  \A k \in DOMAIN portfolio'.trades : Answers(portfolio'.trades[k])
        <4> DEFINE more == Append(trades, trade)
        <4>1. DOMAIN more = 1 .. n + 1 /\ more[n + 1] = trade /\ \A k \in 1 .. n : more[k] = trades[k]
          BY <1>2
        <4> HIDE DEF more
        <4>2. \A k \in 1 .. n + 1 : k = n + 1 \/ k \in 1 .. n
          BY <1>2
        <4>3. \A k \in DOMAIN more : Answers(more[k])
          BY <1>2, <2>3, <3>2, <4>1, <4>2
        <4> QED BY <3>2, <4>3 DEF more
      <3> QED BY <2>2, <3>1, <3>2
    <2>5. ASSUME portfolio'.rejected = 0, Tradable, NEW at \in Slow + 1 .. bar' - 1, Decides(at)
          PROVE  Heeded(at, IF at = bar' - 1 THEN portfolio'.book.quantity
                            ELSE curve'[at + 1].position)
      <3>1. CASE at = bar
        <4>1. Heeded(bar, portfolio'.book.quantity)
          BY <1>1, <1>6, <2>1, <2>5, <3>1, BarHeeds DEF Tradable
        <4>2. at = bar' - 1
          BY <1>2, <2>1, <3>1
        <4> QED BY <3>1, <4>1, <4>2
      <3>2. CASE at # bar
        <4>1. at \in Slow + 1 .. bar - 1 /\ at # bar' - 1 /\ at + 1 \in 1 .. bar
          BY <1>2, <2>1, <3>2
        <4>2. Heeded(at, IF at = bar - 1 THEN Held ELSE curve[at + 1].position)
          BY <1>3, <2>1, <2>2, <2>5, <4>1
        <4>3. curve'[at + 1].position = IF at = bar - 1 THEN Held ELSE curve[at + 1].position
          <5> DEFINE point == Point(portfolio, bar)
          <5>1. point.position = Held
            BY DEF Point, Held
          <5> HIDE DEF point
          <5>2. curve' = Append(curve, point)
            BY <2>1 DEF point
          <5>3. CASE at = bar - 1
            <6>1. curve'[at + 1] = point
              BY <1>2, <5>2, <5>3
            <6> QED BY <5>1, <5>3, <6>1
          <5>4. CASE at # bar - 1
            <6>1. at + 1 \in 1 .. bar - 1
              BY <1>2, <4>1, <5>4
            <6>2. curve'[at + 1] = curve[at + 1]
              BY <1>2, <5>2, <6>1
            <6> QED BY <5>4, <6>2
          <5> QED BY <5>3, <5>4
        <4> QED BY <4>1, <4>2, <4>3
      <3> QED BY <3>1, <3>2
    <2> QED BY <1>4, <2>1, <2>4, <2>5
  <1>7. CASE CloseOut
    <2>1. /\ bar = Bars + 1 /\ phase = "bars" /\ phase' = "sums" /\ config.closeAtEnd
          /\ UNCHANGED <<config, candles>>
      BY <1>2, <1>7 DEF CloseOut
    <2>2. PICK side \in Side, quantity \in Nat \ {0}, reference \in Nat \ {0}, at \in Nat :
                 /\ Swept(side, quantity, reference, at)
                 /\ portfolio' = Settled(portfolio, at, Priced(side, quantity, reference))
      <3>1. ~OnBar
        BY <1>2, <2>1 DEF OnBar
      <3> QED BY <1>1, <1>7, <3>1, StepOrders DEF BInv
    <2> DEFINE fill == Priced(side, quantity, reference)
               trade == TradeOf(portfolio, at, fill)
               more == Append(trades, trade)
    <2>3. portfolio'.trades = trades \/ portfolio'.trades = more
      BY <1>1, <2>1, <2>2, OrdersKeepSound
    <2>4. trade.bar = Bars /\ trade.fill.reference = candles[Bars].close /\ trade.position = 0
      <3>1. /\ trade.bar = at /\ trade.fill.reference = reference
            /\ trade.position = Held + Direction(side) * quantity
        BY DEF TradeOf, ApplyFill, Priced, PriceFill, Held
      <3>2. at = Bars /\ reference = candles[Bars].close /\ side \notin {"BUY", "SHORT_SELL"}
        BY <2>2 DEF Swept
      <3>3. InSteps(Held)
        BY <1>1, <2>1 DEF Sound, Held
      <3>4. Held + Direction(side) * quantity = 0
        BY <1>1, <2>2, <3>2, <3>3, OrdersTurn
      <3> QED BY <3>1, <3>2, <3>4
    <2> HIDE DEF trade
    <2>5. DOMAIN more = 1 .. n + 1 /\ more[n + 1] = trade /\ Len(more) = n + 1
          /\ \A k \in 1 .. n : more[k] = trades[k]
      BY <1>2
    <2> HIDE DEF more
    <2>6. \A k \in DOMAIN trades : Answers(trades[k])
      BY <1>3, <2>1
    <2>7. \A k \in DOMAIN more : Answers(more[k]) \/ Sweeps(more, k)
      <3> TAKE k \in DOMAIN more
      <3>1. CASE k = n + 1
        BY <2>1, <2>4, <2>5, <3>1 DEF Sweeps
      <3>2. CASE k \in 1 .. n
        BY <1>2, <2>5, <2>6, <3>2
      <3> QED BY <1>2, <2>5, <3>1, <3>2
    <2>8. \A k \in DOMAIN portfolio'.trades :
              Answers(portfolio'.trades[k]) \/ Sweeps(portfolio'.trades, k)
      BY <2>3, <2>6, <2>7
    <2> QED BY <1>4, <2>1, <2>8
  <1>8. CASE KeepOpen \/ Summarise
    <2>1. /\ phase' \in {"sums", "done"} /\ phase \in {"bars", "sums"}
          /\ UNCHANGED <<config, candles, portfolio>>
      BY <1>8 DEF KeepOpen, Summarise
    <2> QED BY <1>3, <1>4, <2>1
  <1>9. CASE UNCHANGED vars
    <2>1. UNCHANGED <<config, candles, phase, bar, portfolio, curve, report>>
      BY <1>9 DEF vars
    <2> QED BY <1>3, <1>4, <2>1 DEF Held
  <1> QED BY <1>5, <1>6, <1>7, <1>8, <1>9 DEF Next

LEMMA CrossesFollowed == CrossInv => TradesFollowCrosses
  <1> SUFFICES ASSUME CrossInv PROVE TradesFollowCrosses
    OBVIOUS
  <1>1. bar \in Nat
    BY RunType DEF CrossInv, ReportInv, RunInv, BInv
  <1>2. \A k \in DOMAIN portfolio.trades :
            \/ Answers(portfolio.trades[k])
            \/ phase \in {"sums", "done"} /\ Sweeps(portfolio.trades, k)
    BY DEF CrossInv
  <1>3. ASSUME phase = "bars", portfolio.rejected = 0, config.sizing = "FIXED_QUANTITY",
               config.size >= Step, NEW at \in Slow + 1 .. bar - 2, Decides(at)
        PROVE  Heeded(at, curve[at + 1].position)
    <2>1. at \in Slow + 1 .. bar - 1 /\ at # bar - 1
      BY <1>1, RunAssumption
    <2> QED BY <1>3, <2>1 DEF CrossInv
  <1> QED BY <1>2, <1>3 DEF TradesFollowCrosses, Answers, Sweeps, Heeded

\* A run trades on each cross of the averages, on the bar after it and on its side,
\* and on nothing else: it never looks ahead.  The averages must be kept to enough
\* digits to tell which of the two is greater.
THEOREM CrossesAreTraded == CrossesShow => (Spec => []TradesFollowCrosses)
  <1> SUFFICES ASSUME CrossesShow PROVE Spec => []TradesFollowCrosses
    OBVIOUS
  <1>1. CrossInv /\ [Next]_vars => CrossInv'
    BY NextCrossInv
  <1>2. CrossInv => TradesFollowCrosses
    BY CrossesFollowed
  <1> QED BY <1>1, <1>2, InitCrossInv, PTL DEF Spec

===============================================================================
