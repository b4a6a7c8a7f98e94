-------------------------- MODULE PositionAccounting --------------------------
(***************************************************************************)
(* The arithmetic of one account: what a fill does to a position, to its   *)
(* realised profit and to cash.  These are the pure functions of           *)
(* trading/position_manager.py, trading/pnl.py and trading/portfolio.py,   *)
(* written over integers:                                                  *)
(*   - money is counted in paise (the code's CENT),                        *)
(*   - an average price in AvgTicks-ths of a paisa (AVERAGE_PRECISION),    *)
(*   - a quantity in Lot-ths of a unit (QUANTITY_PRECISION).               *)
(* The code's scales are AvgTicks = 100 and Lot = 10^8; Lot = 1 is an      *)
(* instrument traded in whole shares.                                      *)
(***************************************************************************)
EXTENDS Integers

CONSTANTS AvgTicks, Lot

ASSUME ScaleAssumption == AvgTicks \in Nat \ {0} /\ Lot \in Nat \ {0}

-----------------------------------------------------------------------------
Side == {"BUY", "SELL", "SHORT_SELL", "BUY_TO_COVER"}

Direction(side) == IF side \in {"BUY", "BUY_TO_COVER"} THEN 1 ELSE -1

Magnitude(n) == IF n >= 0 THEN n ELSE -n

Sign(n) == IF n > 0 THEN 1 ELSE -1

Lesser(m, n) == IF m <= n THEN m ELSE n

\* Decimal.quantize(..., ROUND_HALF_UP) of n / d: ties go away from zero.
HalfUp(n, d) == Sign(n) * ((2 * Magnitude(n) + d) \div (2 * d))

-----------------------------------------------------------------------------
(* pnl.py *)

\* Fault: the two prices are averaged without their weights.
SimpleAveragePrice(existing, average, added, price) ==
    HalfUp(average + price * AvgTicks, 2)

WeightedAveragePrice(existing, average, added, price) ==
    HalfUp(average * existing + price * AvgTicks * added, existing + added)

RealizedPnl(entry, exit, quantity, direction) ==
    HalfUp((exit * AvgTicks - entry) * quantity * direction, AvgTicks * Lot)

(* position_manager.py: the outcome of a signed fill on (quantity, average) *)

\* Fault: a position that goes flat keeps its entry price.
ApplyFillKeepingBasis(quantity, average, fill, price) ==
    LET against == quantity # 0 /\ fill # 0 /\ (quantity > 0) # (fill > 0)
        closed  == IF against THEN Lesser(Magnitude(quantity), Magnitude(fill)) ELSE 0
        opened  == Magnitude(fill) - closed
    IN  [quantity |-> quantity + fill,
         average  |-> CASE fill = 0 -> average
                        [] quantity = 0 -> price * AvgTicks
                        [] quantity # 0 /\ ~against ->
                             WeightedAveragePrice(Magnitude(quantity), average,
                                                  Magnitude(fill), price)
                        [] against /\ opened > 0 -> price * AvgTicks
                        [] against /\ opened = 0 -> average,
         realized |-> IF closed = 0 THEN 0
                      ELSE RealizedPnl(average, price, closed, Sign(quantity)),
         closed   |-> closed,
         opened   |-> opened]

ApplyFill(quantity, average, fill, price) ==
    LET against == quantity # 0 /\ fill # 0 /\ (quantity > 0) # (fill > 0)
        closed  == IF against THEN Lesser(Magnitude(quantity), Magnitude(fill)) ELSE 0
        opened  == Magnitude(fill) - closed
    IN  [quantity |-> quantity + fill,
         average  |-> CASE fill = 0 -> average
                        [] fill # 0 /\ quantity = 0 -> price * AvgTicks
                        [] fill # 0 /\ quantity # 0 /\ ~against ->
                             WeightedAveragePrice(Magnitude(quantity), average,
                                                  Magnitude(fill), price)
                        [] against /\ quantity + fill = 0 -> 0
                        [] against /\ opened > 0 -> price * AvgTicks
                        [] against /\ quantity + fill # 0 /\ opened = 0 -> average,
         realized |-> IF closed = 0 THEN 0
                      ELSE RealizedPnl(average, price, closed, Sign(quantity)),
         closed   |-> closed,
         opened   |-> opened]

-----------------------------------------------------------------------------
(* The position row and what PositionManager.apply writes to it. *)

Flat == [quantity |-> 0, average |-> 0, realized |-> 0, charges |-> 0, net |-> 0]

Position == [quantity: Int, average: Nat, realized: Int, charges: Nat, net: Int]

\* Fault: charges are booked on exits only.
AfterFillChargingExits(position, side, quantity, price, charges) ==
    LET outcome == ApplyFill(position.quantity, position.average,
                             Direction(side) * quantity, price)
        booked  == IF outcome.closed > 0 THEN charges ELSE 0
    IN  [quantity |-> outcome.quantity,
         average  |-> outcome.average,
         realized |-> position.realized + outcome.realized,
         charges  |-> position.charges + booked,
         net      |-> position.realized + outcome.realized - (position.charges + booked)]

AfterFill(position, side, quantity, price, charges) ==
    LET outcome == ApplyFill(position.quantity, position.average,
                             Direction(side) * quantity, price)
    IN  [quantity |-> outcome.quantity,
         average  |-> outcome.average,
         realized |-> position.realized + outcome.realized,
         charges  |-> position.charges + charges,
         net      |-> position.realized + outcome.realized - (position.charges + charges)]

\* The row ExecutionEngine.record_trade writes for a fill against the position
\* as it was before it; epoch counts the wallet resets so far (auxiliary).
FillRecord(position, id, symbol, side, quantity, price, charges, epoch) ==
    LET outcome == ApplyFill(position.quantity, position.average,
                             Direction(side) * quantity, price)
    IN  [order |-> id, symbol |-> symbol, side |-> side, quantity |-> quantity,
         price |-> price, charges |-> charges, gross |-> outcome.realized,
         closed |-> outcome.closed, epoch |-> epoch]

(* portfolio.py: cash moves with the fill, charges always come out of it. *)

CashDelta(side, quantity, price, charges) ==
    HalfUp(-(Direction(side) * quantity * price) - charges * Lot, Lot)

Affordable(cash, delta) == delta >= 0 \/ cash >= -delta

(* engine.py _validate_against_position: SELL and BUY_TO_COVER only close. *)

\* Fault: the direction is checked, the size is not.
ValidDirectionOnly(side, quantity, held) ==
    /\ side = "SELL" => held > 0
    /\ side = "BUY_TO_COVER" => held < 0

ValidAgainstPosition(side, quantity, held) ==
    /\ side = "SELL" => held > 0 /\ quantity <= held
    /\ side = "BUY_TO_COVER" => held < 0 /\ quantity <= -held

\* Fault: affordability is judged on the notional alone.
CanFillOnNotional(cash, position, side, quantity, price, charges) ==
    /\ ValidAgainstPosition(side, quantity, position.quantity)
    /\ Affordable(cash, CashDelta(side, quantity, price, 0))

CanFill(cash, position, side, quantity, price, charges) ==
    /\ ValidAgainstPosition(side, quantity, position.quantity)
    /\ Affordable(cash, CashDelta(side, quantity, price, charges))
===============================================================================
