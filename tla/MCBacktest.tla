------------------------------ MODULE MCBacktest ------------------------------
(***************************************************************************)
(* Instances of the backtest for TLC: every series of seven closes over    *)
(* two prices, opening with or against the close before, and no bars.      *)
(***************************************************************************)
EXTENDS Backtest

CONSTANT TwoPrices

Other(price) == CHOOSE other \in TwoPrices : other # price

\* A bar opens where the one before it closed, or at the other price.
Opens(closes, gaps) ==
    [k \in DOMAIN closes |-> IF k = 1 THEN closes[1]
                             ELSE IF gaps THEN Other(closes[k - 1]) ELSE closes[k - 1]]

MCSeries ==
    {<<>>} \cup
    {[k \in 1 .. 7 |-> [open |-> Opens(closes, gaps)[k], close |-> closes[k]]] :
        closes \in [1 .. 7 -> TwoPrices], gaps \in BOOLEAN}

\* Percentages, exaggerated so that they show at these prices.
Intraday == [spread |-> 2, slippage |-> 1, enabled |-> TRUE, segment |-> "INTRADAY",
             brokerage |-> 1, cap |-> 150, stt |-> 1, sttDelivery |-> 2, exchange |-> 1,
             sebi |-> 0, stamp |-> 1, stampDelivery |-> 2, gst |-> 18, dp |-> 15,
             fee |-> 1, feeCap |-> NoCap, feeGst |-> 18, tds |-> 1]

Delivery == [Intraday EXCEPT !.segment = "DELIVERY", !.slippage = 0, !.cap = NoCap]

Instruments == {[closeAtEnd |-> TRUE, class |-> "STOCK", schedule |-> Intraday],
                [closeAtEnd |-> FALSE, class |-> "STOCK", schedule |-> Delivery],
                [closeAtEnd |-> TRUE, class |-> "CRYPTO", schedule |-> Intraday]}

Sizings == {[sizing |-> "FIXED_QUANTITY", size |-> 61],
            [sizing |-> "FIXED_VALUE", size |-> 15000],
            [sizing |-> "PERCENT_OF_EQUITY", size |-> 95]}

MCConfigs == {[timing |-> timing, allowShort |-> short] @@ sizing @@ instrument :
                  timing \in {"NEXT_OPEN", "CURRENT_CLOSE"}, short \in BOOLEAN,
                  sizing \in Sizings, instrument \in Instruments}
===============================================================================
