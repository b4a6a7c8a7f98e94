---------------------------- MODULE ExecutionCosts ----------------------------
(***************************************************************************)
(* What a fill costs: trading/spread.py, trading/slippage.py,              *)
(* trading/fees.py and ExecutionEngine.price_fill (trading/execution.py),  *)
(* which the trading engine, the cost preview and the backtest share.      *)
(*                                                                         *)
(* Money is in paise.  A rate (basis points and percentages of the         *)
(* settings) is an integer number of Unit-ths; the default settings are    *)
(* exact at Unit = 10^7.  A schedule is a record of the settings:          *)
(*   spread, slippage                      the two adverse moves           *)
(*   enabled, segment, brokerage, cap, stt, sttDelivery, exchange, sebi,   *)
(*   stamp, stampDelivery, gst, dp         equity                          *)
(*   fee, feeCap, feeGst, tds              crypto                          *)
(***************************************************************************)
EXTENDS PositionAccounting

CONSTANTS Unit,  \* rates are in Unit-ths
          NoCap  \* a fee without a maximum: the code's None

ASSUME UnitAssumption == Unit \in Nat \ {0}

Rupee == 100

AssetClass == {"STOCK", "CRYPTO"}

Segment == {"INTRADAY", "DELIVERY"}

Rate == 0 .. Unit

Schedule == [spread: Rate, slippage: Rate, enabled: BOOLEAN, segment: Segment,
             brokerage: Rate, cap: Nat \cup {NoCap}, stt: Rate, sttDelivery: Rate,
             exchange: Rate, sebi: Rate, stamp: Rate, stampDelivery: Rate, gst: Rate,
             dp: Nat, fee: Rate, feeCap: Nat \cup {NoCap}, feeGst: Rate, tds: Rate]

-----------------------------------------------------------------------------
(* spread.py: half of the spread either side of the mid *)

Quoted(schedule, mid, direction) ==
    HalfUp(mid * (2 * Unit + direction * schedule.spread), 2 * Unit)

(* slippage.py *)
Slipped(schedule, base, direction) ==
    IF schedule.slippage = 0 \/ base <= 0 THEN base
    ELSE HalfUp(base * (Unit + direction * schedule.slippage), Unit)

\* What moving the price from one to the other costs over the whole fill.
ImpactCost(from, to, quantity) == HalfUp(Magnitude(to - from) * quantity, Lot)

-----------------------------------------------------------------------------
(* fees.py *)

\* A rate of a turnover, which is in Lot-ths of a paisa: to_money and to_rupee.
OfTurnover(turnover, rate) == HalfUp(turnover * rate, Lot * Unit)
OfTurnoverInRupees(turnover, rate) == Rupee * HalfUp(turnover * rate, Lot * Unit * Rupee)

OfMoney(money, rate) == HalfUp(money * rate, Unit)

Capped(charge, cap) == IF cap = NoCap THEN charge ELSE Lesser(charge, cap)

\* FeeCalculator: _stt, _stamp_duty and _dp_charges by leg and segment.

Stt(schedule, turnover, buys) ==
    IF schedule.segment = "INTRADAY" /\ buys THEN 0
    ELSE OfTurnoverInRupees(turnover, IF schedule.segment = "INTRADAY" THEN schedule.stt
                                      ELSE schedule.sttDelivery)

StampDuty(schedule, turnover, buys) ==
    IF ~buys THEN 0
    ELSE OfTurnoverInRupees(turnover, IF schedule.segment = "INTRADAY" THEN schedule.stamp
                                      ELSE schedule.stampDelivery)

DpCharges(schedule, buys) ==
    IF schedule.segment = "DELIVERY" /\ ~buys THEN schedule.dp ELSE 0

\* GST is levied on what the broker and the exchange charge, already rounded.
EquityCharges(schedule, turnover, buys) ==
    LET brokerage == Capped(OfTurnover(turnover, schedule.brokerage), schedule.cap)
        exchange  == OfTurnover(turnover, schedule.exchange)
        sebi      == OfTurnover(turnover, schedule.sebi)
    IN  brokerage + exchange + sebi + OfMoney(brokerage + exchange + sebi, schedule.gst)
          + Stt(schedule, turnover, buys) + StampDuty(schedule, turnover, buys)
          + DpCharges(schedule, buys)

\* CryptoFeeCalculator: none of the securities charges.
CryptoCharges(schedule, turnover, buys) ==
    LET fee == Capped(OfTurnover(turnover, schedule.fee), schedule.feeCap)
    IN  fee + OfMoney(fee, schedule.feeGst)
          + (IF buys THEN 0 ELSE OfTurnover(turnover, schedule.tds))

\* fee_calculator_for, and the total of the breakdown.
TotalCharges(schedule, class, side, quantity, price) ==
    IF ~schedule.enabled \/ quantity <= 0 \/ price <= 0 THEN 0
    ELSE IF class = "CRYPTO"
         THEN CryptoCharges(schedule, price * quantity, Direction(side) > 0)
         ELSE EquityCharges(schedule, price * quantity, Direction(side) > 0)

-----------------------------------------------------------------------------
(* execution.py *)

\* Fault: the fill is booked at the quote; slippage is only reported.
PriceFillAtQuote(schedule, class, side, quantity, reference) ==
    LET quoted == Quoted(schedule, reference, Direction(side))
        price  == Slipped(schedule, quoted, Direction(side))
    IN  [side |-> side, quantity |-> quantity, reference |-> reference, price |-> quoted,
         spread |-> ImpactCost(reference, quoted, quantity),
         slippage |-> ImpactCost(quoted, price, quantity),
         charges |-> TotalCharges(schedule, class, side, quantity, price)]

PriceFill(schedule, class, side, quantity, reference) ==
    LET quoted == Quoted(schedule, reference, Direction(side))
        price  == Slipped(schedule, quoted, Direction(side))
    IN  [side |-> side, quantity |-> quantity, reference |-> reference, price |-> price,
         spread |-> ImpactCost(reference, quoted, quantity),
         slippage |-> ImpactCost(quoted, price, quantity),
         charges |-> TotalCharges(schedule, class, side, quantity, price)]
===============================================================================
