---------------------------- MODULE TerminalProofs ----------------------------
(***************************************************************************)
(* The market calendar's answers, for every session, offset and list of    *)
(* holidays; and, with them, the terminal, for any number of instruments   *)
(* and frames on their way, any calendar and any horizon of time.          *)
(***************************************************************************)
EXTENDS Terminal, WellFoundedInduction, TLAPS

Clocks == 0 .. DayLength - 1

\* A bell of a trading day: what next_open and next_close look for.
IsBell(u, bell) == IsTradingDay(DayOf(u)) /\ ClockOf(u) = bell

-----------------------------------------------------------------------------
(* Instants, days and clocks *)

LEMMA LeastExists ==
    ASSUME NEW S \in SUBSET Nat, S # {}
    PROVE  Least(S) \in S /\ \A m \in S : Least(S) <= m
<1> DEFINE R == {ss \in Nat \X Nat : ss[1] < ss[2]}
<1>1. IsWellFoundedOn(R, Nat)
  BY NatLessThanWellFounded DEF OpToRel
<1>2. PICK n \in S : \A m \in S : ~ (<<m, n>> \in R)
  <2> HIDE DEF R
  <2> QED BY <1>1, WFMin
<1>3. \A m \in S : n <= m
  <2> TAKE m \in S
  <2>1. m \in Nat /\ n \in Nat
    OBVIOUS
  <2>2. ~ (m < n)
    BY <1>2, <2>1
  <2> QED BY <2>1, <2>2
<1> QED BY <1>3 DEF Least

LEMMA Division ==
    ASSUME NEW x \in Int, NEW n \in Nat \ {0}
    PROVE  /\ x \div n \in Int /\ x % n \in 0 .. n - 1
           /\ x = (x \div n) * n + (x % n)
OBVIOUS

LEMMA DivisionIsUnique ==
    ASSUME NEW n \in Nat \ {0}, NEW q \in Int, NEW r \in 0 .. n - 1,
           NEW p \in Int, NEW s \in 0 .. n - 1, q * n + r < p * n + s
    PROVE  q < p \/ (q = p /\ r < s)
<1>1. CASE q <= p
  BY <1>1
<1>2. CASE p < q
  <2>1. (p + 1) * n <= q * n
    BY <1>2
  <2>2. (p + 1) * n = p * n + n
    OBVIOUS
  <2> QED BY <2>1, <2>2
<1> QED BY <1>1, <1>2

\* An instant is its day and its clock.
LEMMA SplitInstant ==
    ASSUME NEW t \in Int
    PROVE  DayOf(t) \in Int /\ ClockOf(t) \in Clocks /\ t = At(DayOf(t), ClockOf(t))
BY Division, CalendarAssumption DEF DayOf, ClockOf, At, Clocks

\* Instants are ordered by day, and by clock within a day.
LEMMA InstantsAreOrdered ==
    ASSUME NEW d \in Int, NEW b \in Clocks, NEW e \in Int, NEW c \in Clocks
    PROVE  /\ At(d, b) \in Int
           /\ At(d, b) < At(e, c) <=> d < e \/ (d = e /\ b < c)
<1> DEFINE n == DayLength
<1>1. n \in Nat \ {0} /\ Offset \in Int /\ b \in 0 .. n - 1 /\ c \in 0 .. n - 1
  BY CalendarAssumption DEF Clocks
<1>2. d * n \in Int /\ e * n \in Int
  BY <1>1
<1>3. At(d, b) \in Int /\ At(e, c) \in Int /\ (At(d, b) < At(e, c) <=> d * n + b < e * n + c)
  BY <1>1, <1>2 DEF At
<1>4. d * n + b < e * n + c => d < e \/ (d = e /\ b < c)
  <2> HIDE DEF n
  <2> QED BY <1>1, DivisionIsUnique
<1>5. d < e => d * n + b < e * n + c
  <2> HAVE d < e
  <2> HIDE DEF n
  <2>1. CASE d * n + b = e * n + c
    <3>1. d * n + n <= e * n
      <4>1. (d + 1) * n <= e * n
        BY <1>1
      <4> QED BY <4>1, <1>1
    <3> QED BY <3>1, <2>1, <1>1, <1>2
  <2>2. CASE e * n + c < d * n + b
    BY <2>2, <1>1, DivisionIsUnique
  <2> QED BY <2>1, <2>2, <1>1, <1>2
<1>6. d = e /\ b < c => d * n + b < e * n + c
  BY <1>1, <1>2
<1> QED BY <1>3, <1>4, <1>5, <1>6

LEMMA JoinInstant ==
    ASSUME NEW d \in Int, NEW c \in Clocks
    PROVE  At(d, c) \in Int /\ DayOf(At(d, c)) = d /\ ClockOf(At(d, c)) = c
<1> DEFINE t == At(d, c)
<1>1. t \in Int
  BY InstantsAreOrdered
<1>2. DayOf(t) \in Int /\ ClockOf(t) \in Clocks /\ t = At(DayOf(t), ClockOf(t))
  BY <1>1, SplitInstant
<1>3. ~ (t < At(DayOf(t), ClockOf(t))) /\ ~ (At(DayOf(t), ClockOf(t)) < t)
  BY <1>1, <1>2
<1>4. ~ (d < DayOf(t) \/ (d = DayOf(t) /\ c < ClockOf(t)))
  BY <1>2, <1>3, InstantsAreOrdered
<1>5. ~ (DayOf(t) < d \/ (DayOf(t) = d /\ ClockOf(t) < c))
  BY <1>2, <1>3, InstantsAreOrdered
<1>6. c \in Int /\ ClockOf(t) \in Int
  BY <1>2, CalendarAssumption DEF Clocks
<1> HIDE DEF t
<1>7. DayOf(t) = d /\ ClockOf(t) = c
  BY <1>2, <1>4, <1>5, <1>6
<1> QED BY <1>1, <1>7 DEF t

-----------------------------------------------------------------------------
(* The next bell *)

\* The bell that next_open or next_close returns is a bell, is still to come,
\* and is the first that is; None means that no day of the horizon has one.
THEOREM NextBellIsFirst ==
    ASSUME NEW t \in Int, NEW bell \in Clocks
    PROVE  LET next == NextBell(t, bell)
           IN  /\ next # Nothing => /\ next \in Int /\ t < next /\ IsBell(next, bell)
                                    /\ \A u \in Int : t < u /\ u < next => ~ IsBell(u, bell)
               /\ next = Nothing => \A u \in Int : t < u /\ DayOf(u) <= DayOf(t) + Horizon
                                                     => ~ IsBell(u, bell)
<1> DEFINE next == NextBell(t, bell)
           ahead == DaysAhead(t, bell)
           day == DayOf(t)
<1>1. day \in Int /\ Horizon \in Nat /\ ahead \in SUBSET Nat
  BY SplitInstant, CalendarAssumption DEF DaysAhead
<1>2. ASSUME NEW u \in Int, t < u, DayOf(u) <= day + Horizon, IsBell(u, bell)
      PROVE  DayOf(u) - day \in ahead
  <2>1. DayOf(u) \in Int /\ ClockOf(u) = bell /\ u = At(DayOf(u), bell)
    BY <1>2, SplitInstant DEF IsBell
  <2>2. t = At(day, ClockOf(t)) /\ ClockOf(t) \in Clocks
    BY SplitInstant
  <2>3. day <= DayOf(u)
    BY <1>1, <1>2, <2>1, <2>2, InstantsAreOrdered
  <2>4. day + (DayOf(u) - day) = DayOf(u) /\ DayOf(u) - day \in 0 .. Horizon
    BY <1>1, <1>2, <2>1, <2>3
  <2> QED BY <1>2, <2>1, <2>4 DEF DaysAhead, IsBell
<1>3. CASE ahead = {}
  <2>1. next = Nothing
    BY <1>3 DEF NextBell
  <2> QED BY <1>2, <1>3, <2>1
<1>4. CASE ahead # {}
  <2> DEFINE n == Least(ahead)
  <2>1. n \in ahead /\ \A m \in ahead : n <= m
    BY <1>1, <1>4, LeastExists
  <2>2. n \in 0 .. Horizon /\ IsTradingDay(day + n) /\ t < At(day + n, bell)
    BY <2>1 DEF DaysAhead
  <2>3. next = At(day + n, bell)
    BY <1>4 DEF NextBell
  <2>4. day + n \in Int
    BY <1>1, <2>2
  <2>5. next \in Int /\ DayOf(next) = day + n /\ ClockOf(next) = bell
    BY <2>3, <2>4, JoinInstant
  <2>6. next # Nothing
    BY <2>5, CalendarAssumption
  <2>7. t < next /\ IsBell(next, bell)
    BY <2>2, <2>3, <2>5 DEF IsBell
  <2>8. ASSUME NEW u \in Int, t < u, u < next, IsBell(u, bell)
        PROVE  FALSE
    <3>1. DayOf(u) \in Int /\ u = At(DayOf(u), bell)
      BY <2>8, SplitInstant DEF IsBell
    <3>2. DayOf(u) < day + n
      <4>1. bell \in Int
        BY CalendarAssumption DEF Clocks
      <4> QED BY <2>3, <2>4, <2>8, <3>1, <4>1, InstantsAreOrdered
    <3>3. DayOf(u) - day \in ahead
      BY <1>1, <1>2, <2>2, <2>8, <3>1, <3>2
    <3> QED BY <1>1, <2>1, <2>2, <3>1, <3>2, <3>3
  <2> QED BY <2>5, <2>6, <2>7, <2>8
<1> QED BY <1>3, <1>4

-----------------------------------------------------------------------------
(* Sessions *)

\* trading_status and is_market_open decide separately, and agree: the order
\* guard, which reads the one, and the badge, which shows the other, do too.
THEOREM StatusAgrees ==
    ASSUME NEW t \in Int
    PROVE  Status(t) = "OPEN" <=> IsMarketOpen(t)
BY SplitInstant, CalendarAssumption DEF Status, IsMarketOpen, IsTradingDay, Clocks

\* An open market stays open until its next close, and closes then.
THEOREM OpenUntilClose ==
    ASSUME NEW t \in Int, IsMarketOpen(t)
    PROVE  /\ NextClose(t) \in Int /\ t < NextClose(t) /\ ~ IsMarketOpen(NextClose(t))
           /\ \A u \in Int : t <= u /\ u < NextClose(t) => IsMarketOpen(u)
<1> DEFINE day == DayOf(t)
           close == At(day, Close)
<1>1. day \in Int /\ ClockOf(t) \in Clocks /\ t = At(day, ClockOf(t)) /\ Close \in Clocks /\ Open \in Clocks
  BY SplitInstant, CalendarAssumption DEF Clocks
<1>2. IsTradingDay(day) /\ Open <= ClockOf(t) /\ ClockOf(t) < Close
  BY DEF IsMarketOpen
<1>3. t < close /\ close \in Int /\ DayOf(close) = day /\ ClockOf(close) = Close
  BY <1>1, <1>2, InstantsAreOrdered, JoinInstant
<1>4. NextClose(t) = close
  <2>1. 0 \in DaysAhead(t, Close)
    BY <1>1, <1>2, <1>3, CalendarAssumption DEF DaysAhead
  <2>2. DaysAhead(t, Close) \in SUBSET Nat
    BY DEF DaysAhead
  <2>3. Least(DaysAhead(t, Close)) = 0
    <3>1. /\ Least(DaysAhead(t, Close)) \in Nat
          /\ Least(DaysAhead(t, Close)) <= 0
      BY <2>1, <2>2, LeastExists
    <3> QED BY <3>1
  <2> QED BY <1>1, <2>1, <2>3 DEF NextClose, NextBell
<1>5. ~ IsMarketOpen(close)
  BY <1>1, <1>3 DEF IsMarketOpen, Clocks
<1>6. ASSUME NEW u \in Int, t <= u, u < close
      PROVE  IsMarketOpen(u)
  <2>1. DayOf(u) \in Int /\ ClockOf(u) \in Clocks /\ u = At(DayOf(u), ClockOf(u))
    BY SplitInstant
  <2>2. DayOf(u) < day \/ (DayOf(u) = day /\ ClockOf(u) < Close)
    BY <1>1, <1>6, <2>1, InstantsAreOrdered
  <2>3. ~ (u < t)
    BY <1>6
  <2>4. ~ (DayOf(u) < day \/ (DayOf(u) = day /\ ClockOf(u) < ClockOf(t)))
    BY <1>1, <2>1, <2>3, InstantsAreOrdered
  <2>5. DayOf(u) = day /\ ClockOf(t) <= ClockOf(u) /\ ClockOf(u) < Close
    BY <1>1, <2>1, <2>2, <2>4, CalendarAssumption DEF Clocks
  <2> QED BY <1>1, <1>2, <2>1, <2>5, CalendarAssumption DEF IsMarketOpen, Clocks
<1> QED BY <1>3, <1>4, <1>5, <1>6

\* A closed market stays closed until its next open, or to the end of the
\* horizon when there is none: no order is refused past the time it was told.
THEOREM ClosedUntilOpen ==
    ASSUME NEW t \in Int, ~ IsMarketOpen(t)
    PROVE  /\ NextOpen(t) # Nothing =>
                /\ NextOpen(t) \in Int /\ t < NextOpen(t)
                /\ Open < Close => IsMarketOpen(NextOpen(t))
                /\ \A u \in Int : t <= u /\ u < NextOpen(t) => ~ IsMarketOpen(u)
           /\ NextOpen(t) = Nothing =>
                \A u \in Int : t <= u /\ DayOf(u) <= DayOf(t) + Horizon => ~ IsMarketOpen(u)
<1>1. DayOf(t) \in Int /\ ClockOf(t) \in Clocks /\ t = At(DayOf(t), ClockOf(t)) /\ Open \in Clocks
  BY SplitInstant, CalendarAssumption DEF Clocks
\* The session that is open at u began with a bell after t.
<1>2. ASSUME NEW u \in Int, t <= u, IsMarketOpen(u)
      PROVE  \E bell \in Int : /\ t < bell /\ bell <= u
                               /\ IsBell(bell, Open) /\ DayOf(bell) = DayOf(u)
  <2> DEFINE bell == At(DayOf(u), Open)
  <2>1. DayOf(u) \in Int /\ ClockOf(u) \in Clocks /\ u = At(DayOf(u), ClockOf(u))
    BY SplitInstant
  <2>2. IsTradingDay(DayOf(u)) /\ Open <= ClockOf(u) /\ ClockOf(u) < Close
    BY <1>2 DEF IsMarketOpen
  <2>3. bell \in Int /\ DayOf(bell) = DayOf(u) /\ ClockOf(bell) = Open
    BY <1>1, <2>1, JoinInstant
  <2>4. ~ (u < bell)
    BY <1>1, <2>1, <2>2, InstantsAreOrdered, CalendarAssumption DEF Clocks
  <2>5. t < bell
    <3>1. ~ (u < t)
      BY <1>2
    <3>2. ~ (DayOf(u) < DayOf(t) \/ (DayOf(u) = DayOf(t) /\ ClockOf(u) < ClockOf(t)))
      BY <1>1, <2>1, <3>1, InstantsAreOrdered
    <3>3. ~ (DayOf(u) = DayOf(t) /\ Open <= ClockOf(t))
      BY <1>1, <2>1, <2>2, <3>2, CalendarAssumption DEF IsMarketOpen, Clocks
    <3>4. DayOf(t) < DayOf(u) \/ (DayOf(t) = DayOf(u) /\ ClockOf(t) < Open)
      BY <1>1, <2>1, <3>2, <3>3, CalendarAssumption DEF Clocks
    <3> QED BY <1>1, <2>1, <3>4, InstantsAreOrdered
  <2> QED BY <2>2, <2>3, <2>4, <2>5 DEF IsBell
<1>3. CASE NextOpen(t) # Nothing
  <2>1. /\ NextOpen(t) \in Int /\ t < NextOpen(t) /\ IsBell(NextOpen(t), Open)
        /\ \A u \in Int : t < u /\ u < NextOpen(t) => ~ IsBell(u, Open)
    BY <1>1, <1>3, NextBellIsFirst DEF NextOpen
  <2>2. Open < Close => IsMarketOpen(NextOpen(t))
    BY <1>1, <2>1, CalendarAssumption DEF IsBell, IsMarketOpen, Clocks
  <2>3. ASSUME NEW u \in Int, t <= u, u < NextOpen(t), IsMarketOpen(u)
        PROVE  FALSE
    <3>1. PICK bell \in Int : t < bell /\ bell <= u /\ IsBell(bell, Open)
      BY <1>2, <2>3
    <3> QED BY <2>1, <2>3, <3>1
  <2> QED BY <1>3, <2>1, <2>2, <2>3
<1>4. CASE NextOpen(t) = Nothing
  <2>1. \A u \in Int : t < u /\ DayOf(u) <= DayOf(t) + Horizon => ~ IsBell(u, Open)
    BY <1>1, <1>4, NextBellIsFirst DEF NextOpen
  <2>2. ASSUME NEW u \in Int, t <= u, DayOf(u) <= DayOf(t) + Horizon, IsMarketOpen(u)
        PROVE  FALSE
    <3>1. PICK bell \in Int : t < bell /\ IsBell(bell, Open) /\ DayOf(bell) = DayOf(u)
      BY <1>2, <2>2
    <3> QED BY <2>1, <2>2, <3>1
  <2> QED BY <1>4, <2>2
<1> QED BY <1>3, <1>4

LEMMA StockSession ==
    ASSUME NEW t \in Int, NEW class, class # "CRYPTO"
    PROVE  /\ Session(class, t).open <=> IsMarketOpen(t)
           /\ Session(class, t).open \in BOOLEAN
           /\ Session(class, t).nextOpen = NextOpen(t)
           /\ Session(class, t).nextClose = NextClose(t)
<1>1. Session(class, t).open = (Status(t) = "OPEN")
  BY DEF Session, NSESession
<1>2. Session(class, t).nextOpen = NextOpen(t) /\ Session(class, t).nextClose = NextClose(t)
  BY DEF Session, NSESession
<1>3. Status(t) = "OPEN" <=> IsMarketOpen(t)
  BY StatusAgrees
<1> QED BY <1>1, <1>2, <1>3

\* What a badge needs: whether a class is tradable does not change before the
\* boundary its session announces, and never if it is continuous.
THEOREM SessionHolds ==
    ASSUME NEW class \in AssetClass, NEW t \in Int, NEW u \in Int, t <= u,
           LET session == Session(class, t)
               until   == IF session.open THEN session.nextClose ELSE session.nextOpen
           IN  class = "CRYPTO" \/ (until # Nothing /\ u < until)
    PROVE  IsTradable(class, u) = Session(class, t).open
<1>1. CASE class = "CRYPTO"
  BY <1>1 DEF Session, CryptoSession, IsTradable
<1>2. CASE class # "CRYPTO"
  <2>1. Session(class, t).open <=> IsMarketOpen(t)
    BY <1>2, StockSession
  <2>2. Session(class, t).open \in BOOLEAN
    BY <1>2, StockSession
  <2>3. Session(class, t).nextOpen = NextOpen(t) /\ Session(class, t).nextClose = NextClose(t)
    BY <1>2, StockSession
  <2>4. IsTradable(class, u) <=> IsMarketOpen(u)
    BY <1>2 DEF IsTradable
  <2>5. CASE IsMarketOpen(t)
    <3>1. u < NextClose(t)
      BY <1>2, <2>1, <2>3, <2>5
    <3>2. IsMarketOpen(u)
      BY <2>5, <3>1, OpenUntilClose
    <3> QED BY <2>1, <2>2, <2>4, <2>5, <3>2 DEF IsTradable
  <2>6. CASE ~ IsMarketOpen(t)
    <3>1. NextOpen(t) # Nothing /\ u < NextOpen(t)
      BY <1>2, <2>1, <2>3, <2>6
    <3>2. ~ IsMarketOpen(u)
      BY <2>6, <3>1, ClosedUntilOpen
    <3> QED BY <2>1, <2>2, <2>4, <2>6, <3>2 DEF IsTradable
  <2> QED BY <2>5, <2>6
<1> QED BY <1>1, <1>2

-----------------------------------------------------------------------------
(* The terminal *)

\* What a frame says of its market stays true to the boundary it names.
StaysTrue(frame) ==
    \A u \in Int :
        /\ now <= u
        /\ IF frame.market.until = Nothing THEN frame.symbol \in Continuous
                                           ELSE u < frame.market.until
        => frame.market.open = IsTradable(ClassOf(frame.symbol), u)

IsConfirmation(frame) == frame.kind = "subscription"

\* The frames on their way to the client, and those and the one shown.
Sent(s) == {sockets[s].toClient[i] : i \in 1 .. Len(sockets[s].toClient)}
InSight(frame) == (subscription # Nothing /\ frame = subscription) \/ \E s \in Sockets : frame \in Sent(s)

\* Every confirmation, on its way or shown, is still true.
MarketInv ==
    /\ subscription # Nothing => IsConfirmation(subscription)
    /\ \A frame \in Frame : InSight(frame) /\ IsConfirmation(frame) => StaysTrue(frame)

\* One link, and nothing of a closed socket survives.
LinkInv ==
    /\ OneLink
    /\ \A s \in Live : sockets[s].hooked

\* The panels are the latest answer's, unless it was overtaken.
PanelInv == latest = "answered" => panel = wanted \/ history.overtaken

-----------------------------------------------------------------------------
(* Types *)

LEMMA NothingIsApart == Nothing \notin Symbols /\ Nothing \notin Sockets /\ Nothing \notin Int
BY TerminalAssumption, CalendarAssumption

LEMMA MarketType ==
    ASSUME NEW x \in Symbols, now \in Nat
    PROVE  MarketOf(x) \in Market
<1>1. now \in Int
  OBVIOUS
<1>2. Open \in Clocks /\ Close \in Clocks
  BY CalendarAssumption DEF Clocks
<1>3. NextOpen(now) \in Int \cup {Nothing} /\ NextClose(now) \in Int \cup {Nothing}
  BY <1>1, <1>2, NextBellIsFirst DEF NextOpen, NextClose
<1>4. CASE ClassOf(x) = "CRYPTO"
  BY <1>4 DEF MarketOf, Market, Session, CryptoSession
<1>5. CASE ClassOf(x) # "CRYPTO"
  BY <1>1, <1>3, <1>5, StockSession DEF MarketOf, Market
<1> QED BY <1>4, <1>5

LEMMA FrameType ==
    ASSUME NEW x \in Symbols, now \in Nat
    PROVE  /\ Tick(x) \in Frame /\ Tick(x).kind = "tick"
           /\ Confirmation(x) \in Frame /\ IsConfirmation(Confirmation(x))
           /\ Confirmation(x).symbol = x /\ Confirmation(x).market = MarketOf(x)
BY MarketType DEF Tick, Confirmation, Frame, IsConfirmation

LEMMA LinkTypes == Closed \in Link /\ Dialled \in Link
<1>1. <<>> \in Seq(Symbols) /\ <<>> \in Seq(Frame)
  OBVIOUS
<1>2. Closed \in Link
  BY <1>1 DEF Closed, Link
<1>3. Dialled \in Link
  <2> HIDE DEF Closed
  <2> QED BY <1>2 DEF Dialled, Link
<1> QED BY <1>2, <1>3

LEMMA ConnectType ==
    ASSUME TerminalTypeOK, NEW saying \in ConnectionState, Connect(saying)
    PROVE  /\ socket' \in Sockets \cup {Nothing} /\ sockets' \in [Sockets -> Link]
           /\ connection' \in ConnectionState
<1>1. HungUp \in [Sockets -> Link]
  BY LinkTypes DEF TerminalTypeOK, HungUp
<1>2. CASE DialRefused
  BY <1>1, <1>2 DEF DialRefused, ConnectionState
<1>3. CASE ~ DialRefused
  BY <1>1, <1>3, LinkTypes DEF Connect
<1> QED BY <1>2, <1>3

LEMMA ConnectEach ==
    ASSUME NEW saying, Connect(saying)
    PROVE  \A t \in Sockets : sockets'[t] \in {sockets[t], Closed, Dialled}
<1>1. \A t \in Sockets : HungUp[t] \in {sockets[t], Closed}
  BY DEF HungUp
<1>2. CASE DialRefused
  BY <1>1, <1>2 DEF DialRefused
<1>3. CASE ~ DialRefused
  <2>1. PICK s \in Sockets : sockets' = [HungUp EXCEPT ![s] = Dialled]
    BY <1>3 DEF Connect
  <2>2. \A t \in Sockets : sockets'[t] = IF t = s THEN Dialled ELSE HungUp[t]
    BY <2>1 DEF HungUp
  <2> QED BY <1>1, <2>2
<1> QED BY <1>2, <1>3

LEMMA Sayings == {"connecting", "live", "reconnecting", "offline"} \subseteq ConnectionState
BY DEF ConnectionState

LEMMA ServedType ==
    ASSUME TerminalTypeOK, NEW s \in Sockets, NEW link \in Link, Serves(s, link)
    PROVE  TerminalTypeOK'
BY DEF TerminalTypeOK, Serves, screenVars, accountVars

LEMMA InitType == Init => TerminalTypeOK
<1> SUFFICES ASSUME Init PROVE TerminalTypeOK
  OBVIOUS
<1>1. sockets \in [Sockets -> Link]
  BY LinkTypes DEF Init
<1>2. history \in [overtaken : BOOLEAN, switchedDown : BOOLEAN]
  BY DEF Init, Blank
<1> QED BY <1>1, <1>2, Sayings, TerminalAssumption DEF Init, TerminalTypeOK

LEMMA NextType == TerminalTypeOK /\ [Next]_vars => TerminalTypeOK'
<1> SUFFICES ASSUME TerminalTypeOK, [Next]_vars
             PROVE  TerminalTypeOK'
  OBVIOUS
<1> USE DEF TerminalTypeOK, linkVars, screenVars, accountVars
<1>1. CASE Mount
  BY <1>1, ConnectType DEF Mount
<1>2. CASE Unmount
  BY <1>2, LinkTypes, Sayings, TerminalAssumption DEF Unmount, HungUp, ClearTimers, Blank
<1>3. CASE \E x \in Symbols : Switch(x)
  <2> PICK x \in Symbols : Switch(x)
    BY <1>3
  <2>1. sockets' \in [Sockets -> Link]
    <3>1. CASE ~ IsOpen
      BY <3>1 DEF Switch
    <3>2. CASE IsOpen
      <4>1. socket \in Sockets /\ sockets[socket] \in Link
        BY <3>2 DEF IsOpen
      <4>2. Append(sockets[socket].toServer, x) \in Seq(Symbols)
        BY <4>1 DEF Link
      <4>3. [sockets[socket] EXCEPT !.toServer = Append(@, x)] \in Link
        BY <4>1, <4>2 DEF Link
      <4> QED BY <3>2, <4>1, <4>3 DEF Switch
    <3> QED BY <3>1, <3>2
  <2>2. tick' \in Symbols \cup {Nothing} /\ history' \in [overtaken : BOOLEAN, switchedDown : BOOLEAN]
    BY DEF Switch
  <2>3. older' \subseteq Symbols
    BY DEF Switch, Superseded
  <2> QED BY <2>1, <2>2, <2>3 DEF Switch
<1>4. CASE Reconnect
  BY <1>4, ConnectType, Sayings DEF Reconnect, ClearTimers
<1>5. CASE RetryDue
  <2>1. socket' \in Sockets \cup {Nothing} /\ sockets' \in [Sockets -> Link] /\ connection' \in ConnectionState
    BY <1>5, ConnectType DEF RetryDue
  <2> QED BY <1>5, <2>1 DEF RetryDue
<1>6. CASE Refresh
  BY <1>6 DEF Refresh, Superseded
<1>7. CASE AnswerLatest
  BY <1>7 DEF AnswerLatest
<1>8. CASE \E x \in Symbols : AnswerOlder(x)
  BY <1>8 DEF AnswerOlder
<1>9. CASE Elapse
  BY <1>9 DEF Elapse
<1>10. ASSUME NEW s \in Sockets, OfSocket(s)
       PROVE  TerminalTypeOK'
  <2>0. sockets[s] \in Link
    OBVIOUS
  <2>1. CASE Opened(s)
    <3>1. <<wanted>> \in Seq(Symbols)
      OBVIOUS
    <3>2. [sockets[s] EXCEPT !.state = "open", !.toServer = <<wanted>>] \in Link
      BY <2>0, <3>1 DEF Link
    <3> QED BY <2>1, <3>2, Sayings DEF Opened
  <2>2. CASE Receive(s)
    <3>1. Head(sockets[s].toClient) \in Frame /\ Tail(sockets[s].toClient) \in Seq(Frame)
      BY <2>0, <2>2 DEF Link, Receive
    <3>2. [sockets[s] EXCEPT !.toClient = Tail(@)] \in Link
      BY <2>0, <3>1 DEF Link
    <3>3. sockets' \in [Sockets -> Link]
      BY <2>2, <3>2 DEF Receive
    <3>4. /\ tick' \in Symbols \cup {Nothing} /\ subscription' \in Frame \cup {Nothing}
          /\ history' \in [overtaken : BOOLEAN, switchedDown : BOOLEAN]
      BY <2>2, <3>1 DEF Receive, Shown, Frame
    <3> QED BY <2>2, <3>3, <3>4 DEF Receive
  <2>3. CASE Lost(s)
    BY <2>3, LinkTypes, Sayings DEF Lost
  <2>4. CASE Greet(s)
    <3>1. PointAt(sockets[s], Default) \in Link
      BY <2>0, TerminalAssumption DEF Link, PointAt
    <3> QED BY <2>4, <3>1, ServedType DEF Greet
  <2>5. CASE ServeSubscribe(s)
    <3>1. Head(sockets[s].toServer) \in Symbols /\ Tail(sockets[s].toServer) \in Seq(Symbols)
      BY <2>0, <2>5 DEF ServeSubscribe, Link
    <3>2. [PointAt(sockets[s], Head(sockets[s].toServer)) EXCEPT !.toServer = Tail(@)] \in Link
      BY <2>0, <3>1 DEF Link, PointAt
    <3> QED BY <2>5, <3>2, ServedType DEF ServeSubscribe
  <2>6. CASE Confirm(s)
    <3> DEFINE x == sockets[s].confirming
    <3>1. x \in Symbols
      BY <2>0, <2>6 DEF Confirm, Link
    <3>2. Sends(s, Confirmation(x)) \in Seq(Frame)
      BY <2>0, <3>1, FrameType DEF Sends, Link
    <3>3. PICK replay \in {sockets[s].fanOut} \cup {y \in {x} : sockets[s].fanOut = Nothing} :
            Serves(s, [sockets[s] EXCEPT !.confirming = Nothing, !.fanOut = replay,
                                         !.toClient = Sends(s, Confirmation(x))])
      BY <2>6 DEF Confirm
    <3>4. [sockets[s] EXCEPT !.confirming = Nothing, !.fanOut = replay,
                             !.toClient = Sends(s, Confirmation(x))] \in Link
      BY <2>0, <3>1, <3>2 DEF Link
    <3> QED BY <3>3, <3>4, ServedType
  <2>7. CASE \E x \in Symbols : Target(s, x)
    <3> PICK x \in Symbols : Target(s, x)
      BY <2>7
    <3>1. [sockets[s] EXCEPT !.fanOut = x] \in Link
      BY <2>0 DEF Link
    <3> QED BY <3>1, ServedType DEF Target
  <2>8. CASE Send(s)
    <3>1. sockets[s].fanOut \in Symbols
      BY <2>0, <2>8 DEF Send, Link
    <3>2. Sends(s, Tick(sockets[s].fanOut)) \in Seq(Frame)
      BY <2>0, <3>1, FrameType DEF Sends, Link
    <3>3. [sockets[s] EXCEPT !.fanOut = Nothing,
                             !.toClient = Sends(s, Tick(sockets[s].fanOut))] \in Link
      BY <2>0, <3>2 DEF Link
    <3> QED BY <2>8, <3>3, ServedType DEF Send
  <2> QED BY <1>10, <2>1, <2>2, <2>3, <2>4, <2>5, <2>6, <2>7, <2>8 DEF OfSocket
<1>11. CASE UNCHANGED vars
  BY <1>11 DEF vars
<1> QED BY <1>1, <1>2, <1>3, <1>4, <1>5, <1>6, <1>7, <1>8, <1>9, <1>10, <1>11 DEF Next, Browser

-----------------------------------------------------------------------------
(* One link *)

\* What the links are after a dial: the new one, hooked and not yet open, or none.
LEMMA ConnectLinks ==
    ASSUME TerminalTypeOK, LinkInv, NEW saying, Connect(saying)
    PROVE  /\ Live' = IF socket' = Nothing THEN {} ELSE {socket'}
           /\ \A s \in Live' : sockets'[s].hooked
           /\ ~ IsOpen'
           /\ connection' = IF socket' = Nothing THEN "offline" ELSE saying
<1>1. Dialled.state = "connecting" /\ Closed.state = "closed" /\ Dialled.hooked
  BY DEF Dialled, Closed
<1>2. \A t \in Sockets : HungUp[t].state = "closed"
  <2>1. \A t \in Sockets : t # socket => sockets[t].state = "closed"
    BY NothingIsApart DEF LinkInv, OneLink, Live
  <2> QED BY <1>1, <2>1 DEF HungUp
<1>3. CASE DialRefused
  BY <1>2, <1>3 DEF DialRefused, Live, IsOpen
<1>4. CASE ~ DialRefused
  <2>1. PICK s \in Sockets \ Live : socket' = s /\ sockets' = [HungUp EXCEPT ![s] = Dialled]
    BY <1>4 DEF Connect
  <2>2. sockets'[s] = Dialled /\ \A t \in Sockets \ {s} : sockets'[t] = HungUp[t]
    BY <2>1 DEF HungUp
  <2>3. Live' = {s}
    BY <1>1, <1>2, <2>2 DEF Live
  <2>4. socket' # Nothing /\ ~ IsOpen'
    BY <1>1, <2>1, <2>2, NothingIsApart DEF IsOpen
  <2> QED BY <1>1, <1>4, <2>1, <2>2, <2>3, <2>4 DEF Connect
<1> QED BY <1>3, <1>4

\* A step that leaves every socket where it is and hooked as it is.
Unmoved ==
    \A t \in Sockets : sockets'[t].state = sockets[t].state /\ sockets'[t].hooked = sockets[t].hooked

LEMMA UnmovedLinks ==
    ASSUME TerminalTypeOK, LinkInv, Unmoved, UNCHANGED <<mounted, socket, timers, connection>>
    PROVE  LinkInv'
<1>1. Live' = Live
  BY DEF Live, Unmoved
<1>2. IsOpen' = IsOpen
  BY DEF IsOpen, Unmoved, TerminalTypeOK
<1> QED BY <1>1, <1>2 DEF LinkInv, OneLink, Live, Unmoved

LEMMA ServesLinks ==
    ASSUME TerminalTypeOK, LinkInv, NEW s \in Sockets, NEW link, Serves(s, link),
           link.state = sockets[s].state, link.hooked = sockets[s].hooked
    PROVE  LinkInv'
<1>1. Unmoved
  BY DEF TerminalTypeOK, Serves, Unmoved
<1> QED BY <1>1, UnmovedLinks DEF Serves

LEMMA NextLinks == TerminalTypeOK /\ LinkInv /\ [Next]_vars => LinkInv'
<1> SUFFICES ASSUME TerminalTypeOK, LinkInv, [Next]_vars
             PROVE  LinkInv'
  OBVIOUS
<1> USE DEF linkVars
<1>1. CASE Mount
  <2>1. mounted' /\ timers' = 0 /\ connection # "live" /\ connection # "offline" /\ Connect(connection)
    BY <1>1, NothingIsApart DEF Mount, LinkInv, OneLink, IsOpen
  <2> QED BY <2>1, ConnectLinks DEF LinkInv, OneLink
<1>2. CASE Unmount
  <2>1. Live' = {}
    <3>1. Closed.state = "closed"
      BY DEF Closed
    <3> QED BY <1>2, <3>1 DEF Unmount, HungUp, LinkInv, OneLink, Live
  <2> QED BY <1>2, <2>1 DEF Unmount, ClearTimers, LinkInv, OneLink, IsOpen
<1>3. CASE \E x \in Symbols : Switch(x)
  <2> PICK x \in Symbols : Switch(x)
    BY <1>3
  <2>1. CASE ~ IsOpen
    BY <2>1 DEF Switch, LinkInv, OneLink, Live, IsOpen
  <2>2. CASE IsOpen
    <3> DEFINE told == [sockets[socket] EXCEPT !.toServer = Append(@, x)]
    <3>1. socket \in Sockets /\ sockets[socket] \in Link
      BY <2>2 DEF IsOpen, TerminalTypeOK
    <3>2. told.state = sockets[socket].state /\ told.hooked = sockets[socket].hooked
      BY <3>1 DEF Link
    <3>3. sockets' = [sockets EXCEPT ![socket] = told]
      BY <2>2 DEF Switch
    <3> HIDE DEF told
    <3>4. Unmoved
      BY <3>1, <3>2, <3>3 DEF TerminalTypeOK, Unmoved
    <3> QED BY <3>4, UnmovedLinks DEF Switch
  <2> QED BY <2>1, <2>2
<1>4. CASE Reconnect
  <2>1. mounted' /\ timers' = 0 /\ Connect("connecting")
    BY <1>4 DEF Reconnect, ClearTimers
  <2> QED BY <2>1, ConnectLinks DEF LinkInv, OneLink
<1>5. CASE RetryDue
  <2>1. mounted /\ timers = 1 /\ socket = Nothing /\ connection # "offline"
    BY <1>5 DEF RetryDue, LinkInv, OneLink
  <2>2. connection # "live"
    BY <2>1 DEF LinkInv, OneLink, IsOpen
  <2>3. mounted' /\ timers' = 0 /\ Connect(connection)
    BY <1>5, <2>1 DEF RetryDue
  <2> QED BY <2>1, <2>2, <2>3, ConnectLinks DEF LinkInv, OneLink
<1>6. CASE Refresh \/ AnswerLatest \/ (\E x \in Symbols : AnswerOlder(x)) \/ Elapse \/ UNCHANGED vars
  <2>1. UNCHANGED <<mounted, socket, sockets, timers, connection>>
    BY <1>6 DEF Refresh, AnswerLatest, AnswerOlder, Elapse, vars
  <2> QED BY <2>1 DEF LinkInv, OneLink, Live, IsOpen
<1>7. ASSUME NEW s \in Sockets, OfSocket(s)
      PROVE  LinkInv'
  <2>0. sockets[s] \in Link
    BY DEF TerminalTypeOK
  <2>1. CASE Opened(s)
    <3>1. \A t \in Sockets : /\ sockets'[t].hooked = sockets[t].hooked
                             /\ sockets'[t].state = "closed" <=> sockets[t].state = "closed"
      BY <2>1 DEF Opened, TerminalTypeOK, Link
    <3>2. Live' = Live
      BY <3>1 DEF Live
    <3>3. socket = s /\ mounted
      BY <2>1 DEF Opened, LinkInv, OneLink, Live
    <3>4. IsOpen' /\ connection' = "live"
      BY <2>1, <3>3, NothingIsApart DEF Opened, IsOpen, TerminalTypeOK, Link
    <3> QED BY <2>1, <3>1, <3>2, <3>3, <3>4, NothingIsApart DEF Opened, LinkInv, OneLink, Live
  <2>2. CASE Receive(s)
    <3>1. Unmoved
      BY <2>2 DEF Receive, TerminalTypeOK, Link, Unmoved
    <3> QED BY <2>2, <3>1, UnmovedLinks DEF Receive
  <2>3. CASE Lost(s)
    <3>1. s = socket /\ sockets[s].hooked /\ mounted /\ Live = {s}
      BY <2>3 DEF Lost, LinkInv, OneLink, Live
    <3>2. Live' = {}
      <4>1. Closed.state = "closed"
        BY DEF Closed
      <4> QED BY <2>3, <3>1, <4>1 DEF Lost, Live, TerminalTypeOK
    <3> QED BY <2>3, <3>1, <3>2 DEF Lost, LinkInv, OneLink, IsOpen
  <2>4. CASE Greet(s)
    <3>1. LET link == PointAt(sockets[s], Default)
          IN  link.state = sockets[s].state /\ link.hooked = sockets[s].hooked
      BY <2>0 DEF PointAt, Link
    <3> QED BY <2>4, <3>1, ServesLinks DEF Greet
  <2>5. CASE ServeSubscribe(s)
    <3>1. LET link == [PointAt(sockets[s], Head(sockets[s].toServer)) EXCEPT !.toServer = Tail(@)]
          IN  link.state = sockets[s].state /\ link.hooked = sockets[s].hooked
      BY <2>0 DEF PointAt, Link
    <3> QED BY <2>5, <3>1, ServesLinks DEF ServeSubscribe
  <2>6. CASE Confirm(s)
    <3>1. PICK replay : Serves(s, [sockets[s] EXCEPT !.confirming = Nothing, !.fanOut = replay,
                                     !.toClient = Sends(s, Confirmation(sockets[s].confirming))])
      BY <2>6 DEF Confirm
    <3>2. LET link == [sockets[s] EXCEPT !.confirming = Nothing, !.fanOut = replay,
                                         !.toClient = Sends(s, Confirmation(sockets[s].confirming))]
          IN  link.state = sockets[s].state /\ link.hooked = sockets[s].hooked
      BY <2>0 DEF Link
    <3> QED BY <3>1, <3>2, ServesLinks
  <2>7. CASE \E x \in Symbols : Target(s, x)
    <3> PICK x \in Symbols : Target(s, x)
      BY <2>7
    <3>1. LET link == [sockets[s] EXCEPT !.fanOut = x]
          IN  link.state = sockets[s].state /\ link.hooked = sockets[s].hooked
      BY <2>0 DEF Link
    <3> QED BY <3>1, ServesLinks DEF Target
  <2>8. CASE Send(s)
    <3>1. LET link == [sockets[s] EXCEPT !.fanOut = Nothing,
                                         !.toClient = Sends(s, Tick(sockets[s].fanOut))]
          IN  link.state = sockets[s].state /\ link.hooked = sockets[s].hooked
      BY <2>0 DEF Link
    <3> QED BY <2>8, <3>1, ServesLinks DEF Send
  <2> QED BY <1>7, <2>1, <2>2, <2>3, <2>4, <2>5, <2>6, <2>7, <2>8 DEF OfSocket
<1> QED BY <1>1, <1>2, <1>3, <1>4, <1>5, <1>6, <1>7 DEF Next, Browser

-----------------------------------------------------------------------------
(* Price and panels *)

LEMMA NextPrice == TerminalTypeOK /\ PriceIsOfSelection /\ [Next]_vars => PriceIsOfSelection'
<1> SUFFICES ASSUME TerminalTypeOK, PriceIsOfSelection, [Next]_vars
             PROVE  PriceIsOfSelection'
  OBVIOUS
<1> USE DEF PriceIsOfSelection, screenVars, TerminalTypeOK
<1>1. CASE Unmount
  BY <1>1 DEF Unmount
<1>2. CASE \E x \in Symbols : Switch(x)
  <2> PICK x \in Symbols : Switch(x)
    BY <1>2
  <2>1. wanted' = x /\ history'.switchedDown = (~IsOpen /\ tick \notin {Nothing, x})
    BY DEF Switch
  <2>2. CASE IsOpen
    BY <2>2 DEF Switch
  <2>3. CASE ~ IsOpen
    <3>1. tick' = tick
      BY <2>3 DEF Switch
    <3> HIDE DEF TerminalTypeOK
    <3> QED BY <2>1, <2>3, <3>1
  <2> QED BY <2>2, <2>3
<1>3. CASE Refresh \/ (\E x \in Symbols : AnswerOlder(x))
  BY <1>3 DEF Refresh, AnswerOlder
<1>4. CASE Mount \/ Reconnect \/ RetryDue \/ AnswerLatest \/ Elapse \/ UNCHANGED vars
  BY <1>4 DEF Mount, Reconnect, RetryDue, AnswerLatest, Elapse, vars
<1>5. ASSUME NEW s \in Sockets, OfSocket(s)
      PROVE  PriceIsOfSelection'
  <2>1. CASE Receive(s)
    BY <2>1 DEF Receive, Shown
  <2>2. CASE ~ Receive(s)
    BY <1>5, <2>2 DEF OfSocket, Opened, Lost, Greet, ServeSubscribe, Confirm, Target, Send, Serves
  <2> QED BY <2>1, <2>2
<1> QED BY <1>1, <1>2, <1>3, <1>4, <1>5 DEF Next, Browser

LEMMA NextPanel == TerminalTypeOK /\ PanelInv /\ [Next]_vars => PanelInv'
<1> SUFFICES ASSUME TerminalTypeOK, PanelInv, [Next]_vars
             PROVE  PanelInv'
  OBVIOUS
<1> USE DEF PanelInv, accountVars, TerminalTypeOK
<1>1. CASE Mount \/ Unmount \/ (\E x \in Symbols : Switch(x)) \/ Refresh \/ AnswerLatest
  BY <1>1 DEF Mount, Unmount, Switch, Refresh, AnswerLatest
<1>2. CASE \E x \in Symbols : AnswerOlder(x)
  BY <1>2 DEF AnswerOlder
<1>3. CASE Reconnect \/ RetryDue \/ Elapse \/ UNCHANGED vars
  BY <1>3 DEF Reconnect, RetryDue, Elapse, vars
<1>4. ASSUME NEW s \in Sockets, OfSocket(s)
      PROVE  PanelInv'
  <2>1. CASE Receive(s)
    BY <2>1 DEF Receive, Shown
  <2>2. CASE ~ Receive(s)
    BY <1>4, <2>2 DEF OfSocket, Opened, Lost, Greet, ServeSubscribe, Confirm, Target, Send, Serves
  <2> QED BY <2>1, <2>2
<1> QED BY <1>1, <1>2, <1>3, <1>4 DEF Next, Browser

-----------------------------------------------------------------------------
(* The market of a confirmation *)

\* A confirmation is true when it is sent, and to the boundary it names.
LEMMA ConfirmationStaysTrue ==
    ASSUME NEW x \in Symbols, now \in Nat
    PROVE  StaysTrue(Confirmation(x))
<1> SUFFICES ASSUME NEW u \in Int, now <= u,
                    IF MarketOf(x).until = Nothing THEN x \in Continuous ELSE u < MarketOf(x).until
             PROVE  MarketOf(x).open = IsTradable(ClassOf(x), u)
  BY FrameType DEF StaysTrue
<1> DEFINE class == ClassOf(x)
           session == Session(class, now)
           until == IF session.open THEN session.nextClose ELSE session.nextOpen
<1>1. class \in AssetClass /\ now \in Int
  BY DEF ClassOf, AssetClass
<1>2. MarketOf(x).open = session.open /\ MarketOf(x).until = until
  BY DEF MarketOf
<1>3. class = "CRYPTO" \/ (until # Nothing /\ u < until)
  BY <1>2 DEF ClassOf
<1> HIDE DEF class
<1>4. IsTradable(class, u) = session.open
  BY <1>1, <1>3, SessionHolds
<1> QED BY <1>2, <1>4 DEF class

\* Time only takes instants away from what a frame has to be true of.
LEMMA TruthLasts ==
    ASSUME NEW frame, now \in Nat, StaysTrue(frame), now' = now \/ now' = now + 1
    PROVE  StaysTrue(frame)'
<1> SUFFICES ASSUME NEW u \in Int, now' <= u,
                    IF frame.market.until = Nothing THEN frame.symbol \in Continuous
                                                    ELSE u < frame.market.until
             PROVE  frame.market.open = IsTradable(ClassOf(frame.symbol), u)
  BY DEF StaysTrue
<1>1. now <= u
  OBVIOUS
<1> QED BY <1>1 DEF StaysTrue

LEMMA MarketStep ==
    ASSUME TerminalTypeOK, MarketInv, now' = now \/ now' = now + 1,
           subscription' # Nothing => IsConfirmation(subscription'),
           \A frame \in Frame : InSight(frame)' => InSight(frame) \/ (IsConfirmation(frame) => StaysTrue(frame))
    PROVE  MarketInv'
<1>1. ASSUME NEW frame \in Frame, InSight(frame)', IsConfirmation(frame)
      PROVE  StaysTrue(frame)'
  <2>1. StaysTrue(frame)
    BY <1>1 DEF MarketInv
  <2> QED BY <2>1, TruthLasts DEF TerminalTypeOK
<1>2. Frame' = Frame
  BY DEF Frame, Market
<1> QED BY <1>1, <1>2 DEF MarketInv, IsConfirmation

\* A step that sends no frame.
LEMMA NothingSent ==
    ASSUME TerminalTypeOK, MarketInv, now' = now \/ now' = now + 1,
           subscription' \in {subscription, Nothing},
           \A s \in Sockets : sockets'[s].toClient \in {sockets[s].toClient, <<>>}
    PROVE  MarketInv'
<1>1. \A s \in Sockets : Sent(s)' \subseteq Sent(s)
  BY DEF Sent
<1>2. \A frame \in Frame : InSight(frame)' => InSight(frame)
  BY <1>1 DEF InSight
<1> QED BY <1>2, MarketStep DEF MarketInv

\* A frame is put on its way.
LEMMA FrameSent ==
    ASSUME TerminalTypeOK, MarketInv, NEW s \in Sockets, NEW link, NEW frame \in Frame,
           Serves(s, link), link.toClient = Append(sockets[s].toClient, frame),
           IsConfirmation(frame) => StaysTrue(frame)
    PROVE  MarketInv'
<1> DEFINE sent == sockets[s].toClient
<1>1. sent \in Seq(Frame)
  BY DEF TerminalTypeOK, Link
<1>2. /\ now' = now /\ subscription' = subscription
      /\ sockets'[s].toClient = Append(sent, frame)
      /\ \A t \in Sockets \ {s} : sockets'[t].toClient = sockets[t].toClient
  BY DEF Serves, screenVars, TerminalTypeOK
<1>3. Sent(s)' \subseteq Sent(s) \cup {frame}
  BY <1>1, <1>2 DEF Sent
<1>4. \A t \in Sockets \ {s} : Sent(t)' = Sent(t)
  BY <1>2 DEF Sent
<1>5. \A f \in Frame : InSight(f)' => InSight(f) \/ f = frame
  BY <1>2, <1>3, <1>4 DEF InSight
<1> QED BY <1>2, <1>5, MarketStep DEF MarketInv

\* The server says nothing.
LEMMA ServedSilently ==
    ASSUME TerminalTypeOK, MarketInv, NEW s \in Sockets, NEW link,
           Serves(s, link), link.toClient = sockets[s].toClient
    PROVE  MarketInv'
<1>1. now' = now /\ subscription' = subscription /\ \A t \in Sockets : sockets'[t].toClient = sockets[t].toClient
  BY DEF Serves, screenVars, TerminalTypeOK
<1> QED BY <1>1, NothingSent

LEMMA ConnectSendsNothing ==
    ASSUME TerminalTypeOK, NEW saying, Connect(saying)
    PROVE  \A s \in Sockets : sockets'[s].toClient \in {sockets[s].toClient, <<>>}
<1>1. Closed.state # "open" /\ Closed.toClient = <<>> /\ Dialled.state # "open" /\ Dialled.toClient = <<>>
  BY DEF Dialled, Closed
<1> QED BY <1>1, ConnectEach

LEMMA NextMarket == TerminalTypeOK /\ MarketInv /\ [Next]_vars => MarketInv'
<1> SUFFICES ASSUME TerminalTypeOK, MarketInv, [Next]_vars
             PROVE  MarketInv'
  OBVIOUS
<1> USE DEF linkVars, screenVars, accountVars
<1>1. CASE Mount \/ Reconnect
  BY <1>1, ConnectSendsNothing, NothingSent DEF Mount, Reconnect
<1>2. CASE Unmount
  <2>1. \A s \in Sockets : sockets'[s].toClient \in {sockets[s].toClient, <<>>}
    BY <1>2 DEF Unmount, HungUp, Closed
  <2> QED BY <1>2, <2>1, NothingSent DEF Unmount
<1>3. CASE \E x \in Symbols : Switch(x)
  <2> PICK x \in Symbols : Switch(x)
    BY <1>3
  <2>1. \A s \in Sockets : sockets'[s].toClient = sockets[s].toClient
    <3>1. CASE ~ IsOpen
      BY <3>1 DEF Switch
    <3>2. CASE IsOpen
      <4> DEFINE told == [sockets[socket] EXCEPT !.toServer = Append(@, x)]
      <4>1. socket \in Sockets /\ sockets[socket] \in Link
        BY <3>2 DEF IsOpen, TerminalTypeOK
      <4>2. told.toClient = sockets[socket].toClient
        BY <4>1 DEF Link
      <4>3. sockets' = [sockets EXCEPT ![socket] = told]
        BY <3>2 DEF Switch
      <4> HIDE DEF told
      <4> QED BY <4>1, <4>2, <4>3 DEF TerminalTypeOK
    <3> QED BY <3>1, <3>2
  <2>2. subscription' = subscription /\ now' = now
    BY DEF Switch
  <2> QED BY <2>1, <2>2, NothingSent
<1>4. CASE RetryDue
  <2>1. \A s \in Sockets : sockets'[s].toClient \in {sockets[s].toClient, <<>>}
    BY <1>4, ConnectSendsNothing DEF RetryDue
  <2> QED BY <1>4, <2>1, NothingSent DEF RetryDue
<1>5. CASE Refresh \/ AnswerLatest \/ (\E x \in Symbols : AnswerOlder(x)) \/ Elapse \/ UNCHANGED vars
  <2>1. UNCHANGED <<sockets, subscription>> /\ (now' = now \/ now' = now + 1)
    BY <1>5 DEF Refresh, AnswerLatest, AnswerOlder, Elapse, vars
  <2> QED BY <2>1, NothingSent
<1>6. ASSUME NEW s \in Sockets, OfSocket(s)
      PROVE  MarketInv'
  <2>0. sockets[s] \in Link /\ sockets[s].toClient \in Seq(Frame)
    BY DEF TerminalTypeOK, Link
  <2>1. CASE Opened(s)
    <3>1. \A t \in Sockets : sockets'[t].toClient = sockets[t].toClient
      BY <2>1 DEF Opened, TerminalTypeOK, Link
    <3> QED BY <2>1, <3>1, NothingSent DEF Opened
  <2>2. CASE Receive(s)
    <3> DEFINE sent == sockets[s].toClient
    <3>1. sent # <<>> /\ Shown(Head(sent)) /\ now' = now
      BY <2>2 DEF Receive
    <3>2. Head(sent) \in Sent(s) /\ Head(sent) \in Frame
      BY <2>0, <3>1 DEF Sent
    <3>3. sockets'[s].toClient = Tail(sent) /\ \A t \in Sockets \ {s} : sockets'[t].toClient = sockets[t].toClient
      BY <2>2 DEF Receive, TerminalTypeOK, Link
    <3>4. Sent(s)' \subseteq Sent(s)
      BY <2>0, <3>1, <3>3 DEF Sent
    <3>5. \A t \in Sockets \ {s} : Sent(t)' = Sent(t)
      BY <3>3 DEF Sent
    <3>6. subscription' = subscription \/ (IsConfirmation(subscription') /\ subscription' = Head(sent))
      BY <3>1 DEF Shown, IsConfirmation
    <3> HIDE DEF sent
    <3>7. \A f \in Frame : InSight(f)' => InSight(f)
      BY <3>2, <3>4, <3>5, <3>6 DEF InSight
    <3> QED BY <3>1, <3>6, <3>7, MarketStep DEF MarketInv
  <2>3. CASE Lost(s)
    <3>1. \A t \in Sockets : sockets'[t].toClient \in {sockets[t].toClient, <<>>}
      BY <2>3 DEF Lost, Closed, TerminalTypeOK
    <3> QED BY <2>3, <3>1, NothingSent DEF Lost
  <2>4. CASE Greet(s)
    <3>1. PointAt(sockets[s], Default).toClient = sockets[s].toClient
      BY <2>0 DEF PointAt, Link
    <3> QED BY <2>4, <3>1, ServedSilently DEF Greet
  <2>5. CASE ServeSubscribe(s)
    <3>1. [PointAt(sockets[s], Head(sockets[s].toServer)) EXCEPT !.toServer = Tail(@)].toClient
            = sockets[s].toClient
      BY <2>0 DEF PointAt, Link
    <3> QED BY <2>5, <3>1, ServedSilently DEF ServeSubscribe
  <2>6. CASE Confirm(s)
    <3> DEFINE x == sockets[s].confirming
    <3>1. PICK replay : Serves(s, [sockets[s] EXCEPT !.confirming = Nothing, !.fanOut = replay,
                                                     !.toClient = Sends(s, Confirmation(x))])
      BY <2>6 DEF Confirm
    <3>2. x \in Symbols /\ now \in Nat
      BY <2>0, <2>6 DEF Confirm, Link, TerminalTypeOK
    <3>3. [sockets[s] EXCEPT !.confirming = Nothing, !.fanOut = replay,
                             !.toClient = Sends(s, Confirmation(x))].toClient = Sends(s, Confirmation(x))
      BY <2>0 DEF Link
    <3>4. Confirmation(x) \in Frame /\ StaysTrue(Confirmation(x))
      BY <3>2, FrameType, ConfirmationStaysTrue
    <3> QED BY <3>1, <3>3, <3>4, FrameSent DEF Sends
  <2>7. CASE \E x \in Symbols : Target(s, x)
    <3> PICK x \in Symbols : Target(s, x)
      BY <2>7
    <3>1. [sockets[s] EXCEPT !.fanOut = x].toClient = sockets[s].toClient
      BY <2>0 DEF Link
    <3> QED BY <3>1, ServedSilently DEF Target
  <2>8. CASE Send(s)
    <3> DEFINE x == sockets[s].fanOut
    <3>1. [sockets[s] EXCEPT !.fanOut = Nothing, !.toClient = Sends(s, Tick(x))].toClient = Sends(s, Tick(x))
      BY <2>0 DEF Link
    <3>2. x \in Symbols /\ now \in Nat
      BY <2>0, <2>8 DEF Send, Link, TerminalTypeOK
    <3>3. Tick(x) \in Frame /\ ~ IsConfirmation(Tick(x))
      BY <3>2, FrameType DEF IsConfirmation
    <3> QED BY <2>8, <3>1, <3>3, FrameSent DEF Sends, Send
  <2> QED BY <1>6, <2>1, <2>2, <2>3, <2>4, <2>5, <2>6, <2>7, <2>8 DEF OfSocket
<1> QED BY <1>1, <1>2, <1>3, <1>4, <1>5, <1>6 DEF Next, Browser

-----------------------------------------------------------------------------
(* The server's subscription *)

\* The last confirmation, of those on their way or else the one shown, is of x.
Informed(sent, shown, x) ==
    \/ \E i \in 1 .. Len(sent) :
          /\ IsConfirmation(sent[i]) /\ sent[i].symbol = x
          /\ \A j \in i + 1 .. Len(sent) : ~ IsConfirmation(sent[j])
    \/ /\ shown.symbol = x
       /\ \A j \in 1 .. Len(sent) : ~ IsConfirmation(sent[j])

\* An open link is asking for x last, or its coroutine is at x.
Follows(link, shown, x) ==
    IF link.toServer # <<>> THEN link.toServer[Len(link.toServer)] = x
    ELSE /\ link.watching = x /\ link.confirming \in {Nothing, x}
         /\ link.confirming = Nothing => Informed(link.toClient, shown, x)

FollowInv ==
    \A s \in Sockets : IF sockets[s].state = "open" THEN Follows(sockets[s], subscription, wanted)
                                                    ELSE sockets[s].toClient = <<>>

LEMMA ReceiveInforms ==
    ASSUME NEW sent \in Seq(Frame), sent # <<>>, NEW shown, NEW next, NEW x,
           next = (IF IsConfirmation(Head(sent)) THEN Head(sent) ELSE shown),
           Informed(sent, shown, x)
    PROVE  Informed(Tail(sent), next, x)
<1>1. /\ Len(Tail(sent)) = Len(sent) - 1 /\ Len(sent) \in Nat \ {0} /\ Head(sent) = sent[1]
      /\ \A i \in 1 .. Len(sent) - 1 : Tail(sent)[i] = sent[i + 1]
  OBVIOUS
<1>2. CASE shown.symbol = x /\ \A j \in 1 .. Len(sent) : ~ IsConfirmation(sent[j])
  BY <1>1, <1>2 DEF Informed
<1>3. ASSUME NEW i \in 1 .. Len(sent), IsConfirmation(sent[i]), sent[i].symbol = x,
             \A j \in i + 1 .. Len(sent) : ~ IsConfirmation(sent[j])
      PROVE  Informed(Tail(sent), next, x)
  <2>1. CASE i = 1
    <3>1. next.symbol = x
      BY <1>1, <1>3, <2>1
    <3>2. \A j \in 1 .. Len(Tail(sent)) : ~ IsConfirmation(Tail(sent)[j])
      BY <1>1, <1>3, <2>1
    <3> QED BY <3>1, <3>2 DEF Informed
  <2>2. CASE i # 1
    <3>1. i - 1 \in 1 .. Len(Tail(sent)) /\ Tail(sent)[i - 1] = sent[i]
      BY <1>1, <2>2
    <3>2. \A j \in (i - 1) + 1 .. Len(Tail(sent)) : ~ IsConfirmation(Tail(sent)[j])
      BY <1>1, <1>3, <2>2
    <3> QED BY <1>3, <3>1, <3>2 DEF Informed
  <2> QED BY <2>1, <2>2
<1> QED BY <1>2, <1>3 DEF Informed

LEMMA SendInforms ==
    ASSUME NEW sent \in Seq(Frame), NEW frame \in Frame, NEW shown, NEW x,
           IF IsConfirmation(frame) THEN frame.symbol = x ELSE Informed(sent, shown, x)
    PROVE  Informed(Append(sent, frame), shown, x)
<1> DEFINE longer == Append(sent, frame)
<1>1. /\ Len(longer) = Len(sent) + 1 /\ Len(sent) \in Nat /\ longer[Len(sent) + 1] = frame
      /\ \A i \in 1 .. Len(sent) : longer[i] = sent[i]
  OBVIOUS
<1> HIDE DEF longer
<1>2. CASE IsConfirmation(frame)
  <2>1. Len(longer) \in 1 .. Len(longer) /\ Len(longer) + 1 .. Len(longer) = {}
    BY <1>1
  <2>2. IsConfirmation(longer[Len(longer)]) /\ longer[Len(longer)].symbol = x
    BY <1>1, <1>2
  <2> QED BY <2>1, <2>2 DEF Informed, longer
<1>3. CASE ~ IsConfirmation(frame)
  <2>1. CASE shown.symbol = x /\ \A j \in 1 .. Len(sent) : ~ IsConfirmation(sent[j])
    <3>1. \A j \in 1 .. Len(longer) : ~ IsConfirmation(longer[j])
      BY <1>1, <1>3, <2>1
    <3> QED BY <2>1, <3>1 DEF Informed, longer
  <2>2. ASSUME NEW i \in 1 .. Len(sent), IsConfirmation(sent[i]), sent[i].symbol = x,
               \A j \in i + 1 .. Len(sent) : ~ IsConfirmation(sent[j])
        PROVE  Informed(Append(sent, frame), shown, x)
    <3>1. i \in 1 .. Len(longer) /\ longer[i] = sent[i]
      BY <1>1
    <3>2. \A j \in i + 1 .. Len(longer) : ~ IsConfirmation(longer[j])
      BY <1>1, <1>3, <2>2
    <3> QED BY <2>2, <3>1, <3>2 DEF Informed, longer
  <2> QED BY <1>3, <2>1, <2>2 DEF Informed
<1> QED BY <1>2, <1>3

\* A step that only ends links, or dials.
LEMMA LinksLeft ==
    ASSUME FollowInv, wanted' = wanted, subscription' = subscription,
           \A t \in Sockets : \/ sockets'[t] = sockets[t]
                              \/ sockets'[t].state # "open" /\ sockets'[t].toClient = <<>>
    PROVE  FollowInv'
BY DEF FollowInv

LEMMA ConnectLeaves ==
    ASSUME TerminalTypeOK, NEW saying, Connect(saying)
    PROVE  \A t \in Sockets : \/ sockets'[t] = sockets[t]
                              \/ sockets'[t].state # "open" /\ sockets'[t].toClient = <<>>
<1>1. Closed.state # "open" /\ Closed.toClient = <<>> /\ Dialled.state # "open" /\ Dialled.toClient = <<>>
  BY DEF Dialled, Closed
<1> QED BY <1>1, ConnectEach

LEMMA ServesFollows ==
    ASSUME TerminalTypeOK, FollowInv, NEW s \in Sockets, NEW link, Serves(s, link),
           link.state = "open", Follows(link, subscription, wanted)
    PROVE  FollowInv'
<1>1. wanted' = wanted /\ subscription' = subscription /\ sockets' = [sockets EXCEPT ![s] = link]
  BY DEF Serves, screenVars
<1>2. sockets'[s] = link /\ \A t \in Sockets \ {s} : sockets'[t] = sockets[t]
  BY <1>1 DEF TerminalTypeOK
<1> QED BY <1>1, <1>2 DEF FollowInv

\* When the selection changes or a frame is shown, one link at most is open.
LEMMA OtherLinks ==
    ASSUME LinkInv, NEW s \in Sockets, sockets[s].state # "closed"
    PROVE  socket = s /\ \A t \in Sockets \ {s} : sockets[t].state = "closed"
BY DEF LinkInv, OneLink, Live

LEMMA NextFollows == TerminalTypeOK /\ LinkInv /\ FollowInv /\ [Next]_vars => FollowInv'
<1> SUFFICES ASSUME TerminalTypeOK, LinkInv, FollowInv, [Next]_vars
             PROVE  FollowInv'
  OBVIOUS
<1> USE DEF linkVars, screenVars, accountVars
<1>1. CASE Mount \/ Reconnect
  BY <1>1, ConnectLeaves, LinksLeft DEF Mount, Reconnect
<1>2. CASE Unmount
  <2>1. \A t \in Sockets : sockets'[t].state = "closed" /\ sockets'[t].toClient = <<>>
    <3>1. \A t \in Sockets : t # socket => sockets[t].state = "closed"
      BY DEF LinkInv, OneLink, Live
    <3>2. \A t \in Sockets : sockets'[t] = IF t = socket THEN Closed ELSE sockets[t]
      BY <1>2 DEF Unmount, HungUp
    <3>3. Closed.state = "closed" /\ Closed.toClient = <<>>
      BY DEF Closed
    <3> QED BY <3>1, <3>2, <3>3 DEF FollowInv
  <2> QED BY <2>1 DEF FollowInv
<1>3. CASE \E x \in Symbols : Switch(x)
  <2> PICK x \in Symbols : Switch(x)
    BY <1>3
  <2>0. wanted' = x /\ subscription' = subscription
    BY DEF Switch
  <2>1. CASE ~ IsOpen
    <3>1. sockets' = sockets
      BY <2>1 DEF Switch
    <3>2. \A t \in Sockets : sockets[t].state # "open"
      BY <2>1, OtherLinks, NothingIsApart DEF IsOpen
    <3> QED BY <3>1, <3>2 DEF FollowInv
  <2>2. CASE IsOpen
    <3> DEFINE told == [sockets[socket] EXCEPT !.toServer = Append(@, x)]
    <3>1. socket \in Sockets /\ sockets[socket] \in Link /\ sockets[socket].toServer \in Seq(Symbols)
      BY <2>2 DEF IsOpen, TerminalTypeOK, Link
    <3>2. told.toServer = Append(sockets[socket].toServer, x) /\ told.state = "open"
      BY <2>2, <3>1 DEF Link, IsOpen
    <3>3. sockets' = [sockets EXCEPT ![socket] = told]
      BY <2>2 DEF Switch
    <3> HIDE DEF told
    <3>4. told.toServer # <<>> /\ told.toServer[Len(told.toServer)] = x
      BY <3>1, <3>2
    <3>5. Follows(told, subscription, x)
      BY <3>4 DEF Follows
    <3>6. sockets'[socket] = told /\ \A t \in Sockets \ {socket} : sockets'[t] = sockets[t]
      BY <3>1, <3>3 DEF TerminalTypeOK
    <3>7. \A t \in Sockets \ {socket} : sockets[t].state = "closed"
      BY <2>2, <3>1, OtherLinks DEF IsOpen
    <3> QED BY <2>0, <3>2, <3>5, <3>6, <3>7 DEF FollowInv
  <2> QED BY <2>1, <2>2
<1>4. CASE RetryDue
  <2>1. \A t \in Sockets : \/ sockets'[t] = sockets[t]
                           \/ sockets'[t].state # "open" /\ sockets'[t].toClient = <<>>
    BY <1>4, ConnectLeaves DEF RetryDue
  <2> QED BY <1>4, <2>1, LinksLeft DEF RetryDue
<1>5. CASE Refresh \/ AnswerLatest \/ (\E x \in Symbols : AnswerOlder(x)) \/ Elapse \/ UNCHANGED vars
  <2>1. UNCHANGED <<wanted, sockets, subscription>>
    BY <1>5 DEF Refresh, AnswerLatest, AnswerOlder, Elapse, vars
  <2> QED BY <2>1 DEF FollowInv
<1>6. ASSUME NEW s \in Sockets, OfSocket(s)
      PROVE  FollowInv'
  <2> DEFINE link == sockets[s]
  <2>0. /\ link \in Link /\ link.toClient \in Seq(Frame) /\ link.toServer \in Seq(Symbols)
        /\ wanted \in Symbols /\ now \in Nat
    BY DEF TerminalTypeOK, Link
  <2>1. link.state = "open" => Follows(link, subscription, wanted)
    BY DEF FollowInv
  <2>2. CASE Opened(s)
    <3> DEFINE opened == [link EXCEPT !.state = "open", !.toServer = <<wanted>>]
    <3>1. opened.state = "open" /\ opened.toServer = <<wanted>>
      BY <2>0 DEF Link
    <3>2. Follows(opened, subscription, wanted)
      BY <3>1 DEF Follows
    <3>3. sockets'[s] = opened /\ \A t \in Sockets \ {s} : sockets'[t] = sockets[t]
      BY <2>2 DEF Opened, TerminalTypeOK
    <3>4. wanted' = wanted /\ subscription' = subscription
      BY <2>2 DEF Opened
    <3> QED BY <3>1, <3>2, <3>3, <3>4 DEF FollowInv
  <2>3. CASE Receive(s)
    <3> DEFINE sent == link.toClient
               read == [link EXCEPT !.toClient = Tail(@)]
    <3>1. sent # <<>> /\ Shown(Head(sent)) /\ wanted' = wanted /\ Head(sent) \in Frame
      BY <2>0, <2>3 DEF Receive
    <3>2. link.state = "open" /\ Follows(link, subscription, wanted)
      BY <2>1, <3>1 DEF FollowInv
    <3>3. read.toClient = Tail(sent) /\ read.state = "open" /\ read.toServer = link.toServer
          /\ read.watching = link.watching /\ read.confirming = link.confirming
      BY <2>0, <3>2 DEF Link
    <3>4. sockets'[s] = read /\ \A t \in Sockets \ {s} : sockets'[t] = sockets[t]
      BY <2>3 DEF Receive, TerminalTypeOK
    <3>5. subscription' = IF IsConfirmation(Head(sent)) THEN Head(sent) ELSE subscription
      BY <3>1 DEF Shown, IsConfirmation
    <3>6. Follows(read, subscription', wanted)
      <4> HIDE DEF read, link
      <4>1. Informed(sent, subscription, wanted) => Informed(Tail(sent), subscription', wanted)
        BY <2>0, <3>1, <3>5, ReceiveInforms
      <4> QED BY <3>2, <3>3, <4>1 DEF Follows
    <3>7. \A t \in Sockets \ {s} : sockets[t].state = "closed"
      BY <3>2, OtherLinks
    <3> HIDE DEF read, link, sent
    <3>8. \A t \in Sockets \ {s} : sockets'[t].state # "open" /\ sockets'[t].toClient = <<>>
      BY <3>4, <3>7 DEF FollowInv
    <3> QED BY <3>1, <3>2, <3>3, <3>4, <3>6, <3>8 DEF FollowInv
  <2>4. CASE Lost(s)
    <3>1. \A t \in Sockets : \/ sockets'[t] = sockets[t]
                             \/ sockets'[t].state # "open" /\ sockets'[t].toClient = <<>>
      BY <2>4 DEF Lost, Closed, TerminalTypeOK
    <3> QED BY <2>4, <3>1, LinksLeft DEF Lost
  <2>5. CASE Greet(s)
    <3> DEFINE next == PointAt(link, Default)
    <3>1. next.state = link.state /\ next.toServer = link.toServer /\ link.watching = Nothing
          /\ link.state = "open" /\ Serves(s, next)
      BY <2>0, <2>5 DEF PointAt, Link, Greet, Serves
    <3>2. link.toServer # <<>>
      BY <2>0, <2>1, <3>1, NothingIsApart DEF Follows
    <3> HIDE DEF next, link
    <3>3. Follows(next, subscription, wanted)
      BY <2>1, <3>1, <3>2 DEF Follows
    <3> QED BY <3>1, <3>3, ServesFollows
  <2>6. CASE ServeSubscribe(s)
    <3> DEFINE asked == Head(link.toServer)
               next == [PointAt(link, asked) EXCEPT !.toServer = Tail(@)]
    <3>1. link.toServer # <<>> /\ link.state = "open" /\ Serves(s, next)
      BY <2>6 DEF ServeSubscribe, Serves
    <3>2. next.state = "open" /\ next.toServer = Tail(link.toServer)
          /\ next.watching = asked /\ next.confirming = asked
      BY <2>0, <3>1 DEF PointAt, Link
    <3>3. link.toServer[Len(link.toServer)] = wanted
      BY <2>1, <3>1 DEF Follows
    <3>4. asked \in Symbols /\ (Tail(link.toServer) = <<>> => asked = wanted)
      <4> DEFINE queue == link.toServer
      <4>1. queue \in Seq(Symbols) /\ queue # <<>> /\ queue[Len(queue)] = wanted
        BY <2>0, <3>1, <3>3
      <4> HIDE DEF queue
      <4>2. Head(queue) = queue[1] /\ Head(queue) \in Symbols /\ Len(Tail(queue)) = Len(queue) - 1
            /\ Len(queue) \in Nat
        BY <4>1
      <4>3. ASSUME Tail(queue) = <<>> PROVE Len(queue) = 1
        <5> DEFINE rest == Tail(queue)
        <5>1. rest = <<>>
          BY <4>3
        <5> HIDE DEF rest
        <5>2. Len(rest) = 0
          BY <5>1
        <5> QED BY <4>2, <5>2 DEF rest
      <4> QED BY <4>1, <4>2, <4>3 DEF queue
    <3>5. Tail(link.toServer) # <<>> =>
            LET rest == Tail(link.toServer) IN rest[Len(rest)] = link.toServer[Len(link.toServer)]
      BY <2>0, <3>1
    <3> HIDE DEF next, link, asked
    <3>6. Follows(next, subscription, wanted)
      BY <3>2, <3>3, <3>4, <3>5, NothingIsApart DEF Follows
    <3> QED BY <3>1, <3>2, <3>6, ServesFollows
  <2>7. CASE Confirm(s)
    <3> DEFINE x == link.confirming
    <3>1. PICK replay : Serves(s, [link EXCEPT !.confirming = Nothing, !.fanOut = replay,
                                               !.toClient = Sends(s, Confirmation(x))])
      BY <2>7 DEF Confirm
    <3> DEFINE next == [link EXCEPT !.confirming = Nothing, !.fanOut = replay,
                                    !.toClient = Sends(s, Confirmation(x))]
    <3>2. x \in Symbols /\ x # Nothing /\ link.state = "open"
      BY <2>0, <2>7, <3>1 DEF Confirm, Link, Serves
    <3>3. next.state = "open" /\ next.toServer = link.toServer /\ next.watching = link.watching
          /\ next.confirming = Nothing /\ next.toClient = Append(link.toClient, Confirmation(x))
      BY <2>0, <3>2 DEF Link, Sends
    <3>4. Confirmation(x) \in Frame /\ IsConfirmation(Confirmation(x)) /\ Confirmation(x).symbol = x
      BY <2>0, <3>2, FrameType
    <3>5. Informed(Append(link.toClient, Confirmation(x)), subscription, x)
      BY <2>0, <3>4, SendInforms
    <3>6. Serves(s, next)
      BY <3>1
    <3> HIDE DEF next, link
    <3>7. Follows(next, subscription, wanted)
      BY <2>1, <3>2, <3>3, <3>5 DEF Follows
    <3> QED BY <3>3, <3>6, <3>7, ServesFollows
  <2>8. CASE \E x \in Symbols : Target(s, x)
    <3> PICK x \in Symbols : Target(s, x)
      BY <2>8
    <3> DEFINE next == [link EXCEPT !.fanOut = x]
    <3>1. Serves(s, next) /\ link.state = "open"
      BY DEF Target, Serves
    <3>2. next.state = "open" /\ next.toServer = link.toServer /\ next.watching = link.watching
          /\ next.confirming = link.confirming /\ next.toClient = link.toClient
      BY <2>0, <3>1 DEF Link
    <3> HIDE DEF next, link
    <3>3. Follows(next, subscription, wanted)
      BY <2>1, <3>1, <3>2 DEF Follows
    <3> QED BY <3>1, <3>2, <3>3, ServesFollows
  <2>9. CASE Send(s)
    <3> DEFINE frame == Tick(link.fanOut)
               next == [link EXCEPT !.fanOut = Nothing, !.toClient = Sends(s, frame)]
    <3>1. Serves(s, next) /\ link.state = "open" /\ link.fanOut \in Symbols
      BY <2>0, <2>9 DEF Send, Serves, Link
    <3>2. next.state = "open" /\ next.toServer = link.toServer /\ next.watching = link.watching
          /\ next.confirming = link.confirming /\ next.toClient = Append(link.toClient, frame)
      BY <2>0, <3>1 DEF Link, Sends
    <3>3. frame \in Frame /\ ~ IsConfirmation(frame)
      BY <2>0, <3>1, FrameType DEF IsConfirmation
    <3>4. Informed(link.toClient, subscription, wanted)
            => Informed(Append(link.toClient, frame), subscription, wanted)
      BY <2>0, <3>3, SendInforms
    <3> HIDE DEF next, link, frame
    <3>5. Follows(next, subscription, wanted)
      BY <2>1, <3>1, <3>2, <3>4 DEF Follows
    <3> QED BY <3>1, <3>2, <3>5, ServesFollows
  <2> QED BY <1>6, <2>2, <2>3, <2>4, <2>5, <2>6, <2>7, <2>8, <2>9 DEF OfSocket
<1> QED BY <1>1, <1>2, <1>3, <1>4, <1>5, <1>6 DEF Next, Browser

-----------------------------------------------------------------------------
(* The theorems *)

LEMMA InitInv == Init => LinkInv /\ PriceIsOfSelection /\ PanelInv /\ MarketInv /\ FollowInv
<1> SUFFICES ASSUME Init
             PROVE  LinkInv /\ PriceIsOfSelection /\ PanelInv /\ MarketInv /\ FollowInv
  OBVIOUS
<1> USE DEF Init
<1>1. \A s \in Sockets : sockets[s].state = "closed" /\ sockets[s].toClient = <<>>
  BY DEF Closed
<1>2. Live = {}
  BY <1>1 DEF Live
<1>3. LinkInv /\ PriceIsOfSelection /\ PanelInv
  BY <1>2 DEF LinkInv, OneLink, IsOpen, PriceIsOfSelection, PanelInv
<1>4. \A s \in Sockets : Sent(s) = {}
  BY <1>1 DEF Sent
<1>5. \A frame \in Frame : ~ InSight(frame)
  BY <1>4 DEF InSight
<1> QED BY <1>1, <1>3, <1>5 DEF MarketInv, FollowInv

\* Every state has the types TerminalTypeOK gives it: the hooks' refs, the
\* sockets with their messages, and what is on screen.
THEOREM TerminalTypeCorrect == Spec => []TerminalTypeOK
BY InitType, NextType, PTL DEF Spec

\* One live socket or one armed retry while the terminal is on screen, unless
\* the browser refused a socket in connect, and none afterwards, whatever
\* connect, onclose, reconnect and the timers do; "live" just while it is open.
THEOREM OneLinkAlways == Spec => []OneLink
<1>1. LinkInv => OneLink
  BY DEF LinkInv
<1> QED BY <1>1, TerminalTypeCorrect, InitInv, NextLinks, PTL DEF Spec

\* Once nothing is on its way the server watches what the client has selected
\* and has told it so, however the switches of _switch_symbol, onopen's and the
\* selector's overlapped.
THEOREM ServerFollows == Spec => []ServerFollowsSelection
<1>1. TerminalTypeOK /\ FollowInv => ServerFollowsSelection
  BY DEF FollowInv, ServerFollowsSelection, Settled, Live, Follows, Informed
<1> QED BY <1>1, TerminalTypeCorrect, InitInv, NextLinks, NextFollows, PTL DEF Spec

\* onmessage never shows another instrument's price, switches and late ticks
\* notwithstanding, but for the price a switch without a socket leaves.
THEOREM PriceFollows == Spec => []PriceIsOfSelection
BY TerminalTypeCorrect, InitInv, NextPrice, PTL DEF Spec

\* useAccount's panels are of the instrument selected once all is answered,
\* unless an older answer overtook the latest.
THEOREM PanelsFollow == Spec => []PanelsFollowSelection
<1>1. PanelInv => PanelsFollowSelection
  BY DEF PanelInv, PanelsFollowSelection
<1> QED BY <1>1, TerminalTypeCorrect, InitInv, NextPanel, PTL DEF Spec

\* The badge is right until the boundary its frame announced, however late the
\* frame arrived and however long ago.
THEOREM BadgeHolds == Spec => []BadgeHoldsUntilItsBoundary
<1>1. TerminalTypeOK /\ MarketInv => BadgeHoldsUntilItsBoundary
  <2> SUFFICES ASSUME TerminalTypeOK, MarketInv, NEW market \in Badge, Announced(market)
               PROVE  market.open = IsTradable(ClassOf(wanted), now)
    BY DEF BadgeHoldsUntilItsBoundary
  <2>1. subscription # Nothing /\ subscription.symbol = wanted /\ market = subscription.market
    BY DEF Badge
  <2>2. subscription \in Frame /\ InSight(subscription) /\ now \in Int
    BY <2>1 DEF TerminalTypeOK, InSight
  <2>3. StaysTrue(subscription)
    BY <2>1, <2>2 DEF MarketInv
  <2> QED BY <2>1, <2>2, <2>3 DEF StaysTrue, Announced
<1> QED BY <1>1, TerminalTypeCorrect, InitInv, NextMarket, PTL DEF Spec
===============================================================================
