---------------------------- MODULE MarketCalendar ----------------------------
(***************************************************************************)
(* When an instrument may be traded: markets/calendar.py.  Instants are    *)
(* integers, in UTC; the exchange's clock is a fixed offset from it.  Day  *)
(* 0 is a Monday.                                                          *)
(***************************************************************************)
EXTENDS Integers

CONSTANTS DayLength, \* instants in a day
          Offset,    \* the exchange's time less UTC
          PreOpen, Open, Close, \* of a trading day, on the exchange's clock
          Holidays,  \* the days the configuration lists
          Horizon,   \* CALENDAR_SEARCH_HORIZON_DAYS
          Nothing    \* None

ASSUME CalendarAssumption ==
    /\ DayLength \in Nat \ {0} /\ Offset \in Int
    /\ {PreOpen, Open, Close} \subseteq 0 .. DayLength - 1
    /\ Holidays \subseteq Int /\ Horizon \in Nat
    /\ Nothing \notin Int

TradingStatus == {"OPEN", "PRE_OPEN", "CLOSED", "WEEKEND", "HOLIDAY"}
AssetClass == {"STOCK", "CRYPTO"}

\* _localise
DayOf(t) == (t + Offset) \div DayLength
ClockOf(t) == (t + Offset) % DayLength

\* _at
At(day, clock) == day * DayLength + clock - Offset

IsWeekday(day) == day % 7 < 5
IsTradingDay(day) == IsWeekday(day) /\ day \notin Holidays

\* The session is half open: at the close the market is closed.
IsMarketOpen(t) == IsTradingDay(DayOf(t)) /\ Open <= ClockOf(t) /\ ClockOf(t) < Close

Least(S) == CHOOSE n \in S : \A m \in S : n <= m

\* How many days ahead the bell can be heard: today if it has not rung.
DaysAhead(t, bell) ==
    {n \in 0 .. Horizon : IsTradingDay(DayOf(t) + n) /\ t < At(DayOf(t) + n, bell)}

NextBell(t, bell) ==
    IF DaysAhead(t, bell) = {} THEN Nothing ELSE At(DayOf(t) + Least(DaysAhead(t, bell)), bell)
NextOpen(t) == NextBell(t, Open)

\* Fault: the search starts tomorrow.
NextCloseTomorrow(t) ==
    LET ahead == DaysAhead(t, Close) \ {0}
    IN  IF ahead = {} THEN Nothing ELSE At(DayOf(t) + Least(ahead), Close)
NextClose(t) == NextBell(t, Close)

\* trading_status: the first reason that applies is the one that is given.
Status(t) ==
    CASE DayOf(t) \in Holidays -> "HOLIDAY"
      [] DayOf(t) \notin Holidays /\ ~IsWeekday(DayOf(t)) -> "WEEKEND"
      [] IsTradingDay(DayOf(t)) /\ PreOpen <= ClockOf(t) /\ ClockOf(t) < Open -> "PRE_OPEN"
      [] IsTradingDay(DayOf(t)) /\ Open <= ClockOf(t) /\ ClockOf(t) < Close -> "OPEN"
      [] OTHER -> "CLOSED"

\* A calendar's full answer, and the calendar of an asset class.
NSESession(t) ==
    [status |-> Status(t), open |-> Status(t) = "OPEN",
     nextOpen |-> NextOpen(t), nextClose |-> NextClose(t)]
CryptoSession == [status |-> "OPEN", open |-> TRUE, nextOpen |-> Nothing, nextClose |-> Nothing]
Session(class, t) == IF class = "CRYPTO" THEN CryptoSession ELSE NSESession(t)

IsTradable(class, t) == class = "CRYPTO" \/ IsMarketOpen(t)
===============================================================================
