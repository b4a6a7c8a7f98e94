------------------------------- MODULE Terminal -------------------------------
(***************************************************************************)
(* The trading terminal in the browser: the reconnecting socket of         *)
(* hooks/useLivePrice.ts, the refreshes of hooks/useAccount.ts, and the    *)
(* switch of the instrument both of them follow (Terminal.tsx), against    *)
(* the stream endpoint's coroutine for each socket (stream.py).  The       *)
(* calendar's answer travels with the confirmation of a switch, and the    *)
(* badge of the market shows it (MarketStatusBadge.tsx).                   *)
(*                                                                         *)
(* A socket carries frames in order, both ways, and may be lost at any     *)
(* time with all that is on its way.  Requests are answered in any order.  *)
(* The user's click and the effects React runs for it are one step.        *)
(***************************************************************************)
EXTENDS MarketCalendar, Sequences

CONSTANTS Sockets,   \* WebSocket objects, used again once they are closed
          Symbols,   \* instruments the selector offers
          Default,   \* TRADING_SYMBOL, which the server greets with
          Provisional, \* the instrument a freshly opened terminal has selected
          Continuous, \* those of asset class CRYPTO
          Last,      \* bound: the last instant
          MaxSent,   \* bound: subscribe messages on their way to the server
          MaxFrames  \* bound: frames on their way to the client

ASSUME TerminalAssumption ==
    /\ Continuous \subseteq Symbols /\ Last \in Nat
    /\ Default \in Symbols /\ Provisional \in Symbols /\ MaxSent \in Nat \ {0} /\ MaxFrames \in Nat \ {0}
    /\ Nothing \notin Symbols /\ Nothing \notin Sockets

VARIABLES mounted,    \* the terminal is on screen (activeRef of both hooks)
          wanted,     \* symbolRef: the instrument selected
          socket,     \* socketRef
          sockets,    \* every socket, with the server's half of it
          timers,     \* how many retry timers are armed
          connection, \* what the header says of the connection
          tick,       \* the instrument of the price shown
          subscription, \* the last subscription frame: instrument and market
          older,      \* instruments of unanswered refreshes, the latest apart
          latest,     \* the latest refresh: none, asked, answered or failed
          panel,      \* the instrument the account panels show
          now,        \* the time
          history     \* auxiliary: how panel and price came to be shown

linkVars == <<socket, sockets, timers, connection>>
screenVars == <<tick, subscription>>
accountVars == <<older, latest, panel>>
vars == <<mounted, wanted, linkVars, screenVars, accountVars, now, history>>

ClassOf(x) == IF x \in Continuous THEN "CRYPTO" ELSE "STOCK"

\* Of a market: whether it is open, and when that is next to change.
Market == [open : BOOLEAN, until : Int \cup {Nothing}]
MarketOf(x) ==
    LET session == Session(ClassOf(x), now)
    IN  [open |-> session.open,
         until |-> IF session.open THEN session.nextClose ELSE session.nextOpen]

Tick(x) == [kind |-> "tick", symbol |-> x]
Confirmation(x) == [kind |-> "subscription", symbol |-> x, market |-> MarketOf(x)]
Frame == [kind : {"tick"}, symbol : Symbols]
           \cup [kind : {"subscription"}, symbol : Symbols, market : Market]

\* Of one socket: where it is, whether its onclose is still the hook's, the
\* subscribe messages and the frames on their way, and of the server's
\* coroutine what it watches, the switch it has not confirmed, and the fan-out
\* that has taken it for a target and not yet sent.
Link == [state : {"closed", "connecting", "open"}, hooked : BOOLEAN,
         toServer : Seq(Symbols), toClient : Seq(Frame),
         watching : Symbols \cup {Nothing}, confirming : Symbols \cup {Nothing},
         fanOut : Symbols \cup {Nothing}]
Closed == [state |-> "closed", hooked |-> FALSE, toServer |-> <<>>, toClient |-> <<>>,
           watching |-> Nothing, confirming |-> Nothing, fanOut |-> Nothing]
Dialled == [Closed EXCEPT !.state = "connecting", !.hooked = TRUE]

\* The previous socket is closed, its onclose taken from it.
HungUp == [s \in Sockets |-> IF s = socket THEN Closed ELSE sockets[s]]

Live == {s \in Sockets : sockets[s].state # "closed"}
ConnectionState == {"connecting", "live", "reconnecting", "offline"}
IsOpen == socket # Nothing /\ sockets[socket].state = "open"

Blank == [overtaken |-> FALSE, switchedDown |-> FALSE]

Init ==
    /\ mounted = FALSE /\ wanted = Provisional
    /\ socket = Nothing /\ sockets = [s \in Sockets |-> Closed] /\ timers = 0
    /\ connection = "connecting"
    /\ tick = Nothing /\ subscription = Nothing
    /\ older = {} /\ latest = "none" /\ panel = Nothing
    /\ now = 0
    /\ history = Blank

-----------------------------------------------------------------------------
(* useLivePrice *)

\* The browser will not make a socket: the previous one is gone by then, and
\* no retry is armed.
DialRefused ==
    /\ socket' = Nothing /\ sockets' = HungUp
    /\ connection' = "offline"

\* connect, of a terminal that says meanwhile what it is told to.
Connect(saying) ==
    \/ /\ connection' = saying
       /\ \E s \in Sockets \ Live :
             socket' = s /\ sockets' = [HungUp EXCEPT ![s] = Dialled]
    \/ DialRefused

\* clearTimers
ClearTimers == timers' = 0

\* Fault: the server is left on its default.
OpenedSilently(s) ==
    /\ sockets[s].state = "connecting"
    /\ sockets' = [sockets EXCEPT ![s].state = "open"]
    /\ connection' = "live"
    /\ UNCHANGED <<mounted, wanted, socket, timers, screenVars, accountVars, now, history>>

\* onopen asks for the selected instrument at once.
Opened(s) ==
    /\ sockets[s].state = "connecting"
    /\ sockets' = [sockets EXCEPT ![s].state = "open", ![s].toServer = <<wanted>>]
    /\ connection' = "live"
    /\ UNCHANGED <<mounted, wanted, socket, timers, screenVars, accountVars, now, history>>

\* Fault: every tick is shown.
ShownUnguarded(frame) ==
    /\ frame.kind = "tick"
    /\ tick' = frame.symbol
    /\ history' = [history EXCEPT !.switchedDown = FALSE]
    /\ UNCHANGED subscription

\* onmessage: a tick of another instrument is not shown.
Shown(frame) ==
    \/ /\ frame.kind = "tick"
       /\ IF frame.symbol = wanted
          THEN tick' = frame.symbol /\ history' = [history EXCEPT !.switchedDown = FALSE]
          ELSE UNCHANGED <<tick, history>>
       /\ UNCHANGED subscription
    \/ /\ frame.kind = "subscription"
       /\ subscription' = frame
       /\ UNCHANGED <<tick, history>>

Receive(s) ==
    /\ sockets[s].toClient # <<>>
    /\ Shown(Head(sockets[s].toClient))
    /\ sockets' = [sockets EXCEPT ![s].toClient = Tail(@)]
    /\ UNCHANGED <<mounted, wanted, socket, timers, connection, accountVars, now>>

\* The network or the server ends a socket: refused at the limit, cut off,
\* restarted.  onclose clears the timers and arms one.  (A frame the pool cannot
\* encode makes it forget a client whose socket lives on: ConnectionPool.)
Lost(s) ==
    /\ sockets[s].state # "closed"
    /\ sockets' = [sockets EXCEPT ![s] = Closed]
    /\ IF mounted /\ sockets[s].hooked
       THEN socket' = Nothing /\ timers' = 1 /\ connection' = "reconnecting"
       ELSE UNCHANGED <<socket, timers, connection>>
    /\ UNCHANGED <<mounted, wanted, screenVars, accountVars, now, history>>

RetryDue ==
    /\ timers > 0
    /\ timers' = timers - 1
    /\ IF mounted THEN Connect(connection) ELSE UNCHANGED <<socket, sockets, connection>>
    /\ UNCHANGED <<mounted, wanted, screenVars, accountVars, now, history>>

\* Fault: the timer of the lost socket stays armed.
ReconnectUncleared ==
    /\ mounted
    /\ Connect("connecting")
    /\ UNCHANGED <<mounted, wanted, timers, screenVars, accountVars, now, history>>

\* reconnect, the user's button, in whatever state the socket is
Reconnect ==
    /\ mounted
    /\ ClearTimers /\ Connect("connecting")
    /\ UNCHANGED <<mounted, wanted, screenVars, accountVars, now, history>>

-----------------------------------------------------------------------------
(* useAccount.  A refresh asks for the account as seen from the selected    *)
(* instrument.  Nothing numbers the requests: every answer is shown, the    *)
(* last to come last.  Of the unanswered ones it matters which is the       *)
(* latest; of the others, for which instruments there are some.             *)

Superseded == IF latest = "asked" THEN older \cup {wanted} ELSE older

\* refresh for the instrument that is selected and stays so
Refresh ==
    /\ mounted
    /\ older' = Superseded /\ latest' = "asked"
    /\ history' = [history EXCEPT !.overtaken = FALSE]
    /\ UNCHANGED <<mounted, wanted, linkVars, screenVars, panel, now>>

AnswerLatest ==
    /\ latest = "asked"
    /\ \/ latest' = "answered" /\ panel' = wanted
       \/ latest' = "failed" /\ UNCHANGED panel
    /\ UNCHANGED <<mounted, wanted, linkVars, screenVars, older, now, history>>

\* One of several for the same instrument may be the last of them or not.
AnswerOlder(x) ==
    /\ x \in older
    /\ older' \in {older, older \ {x}}
    /\ \/ panel' = x /\ history' = [history EXCEPT !.overtaken = @ \/ latest # "asked"]
       \/ UNCHANGED <<panel, history>>
    /\ UNCHANGED <<mounted, wanted, linkVars, screenVars, latest, now>>

-----------------------------------------------------------------------------
(* Terminal.tsx: mounting, leaving, and the selector *)

\* useLivePrice connects; useAccount refreshes twice, from two effects.
Mount ==
    /\ ~mounted /\ mounted' = TRUE
    /\ Connect(connection)
    /\ older' = {wanted} /\ latest' = "asked"
    /\ UNCHANGED <<wanted, timers, screenVars, panel, now, history>>

\* The state of the component goes with it; its answers are ignored from here.
Unmount ==
    /\ mounted /\ mounted' = FALSE
    /\ ClearTimers
    /\ socket' = Nothing /\ sockets' = HungUp /\ connection' = "connecting"
    /\ wanted' = Provisional /\ tick' = Nothing /\ subscription' = Nothing
    /\ older' = {} /\ latest' = "none" /\ panel' = Nothing
    /\ history' = Blank
    /\ UNCHANGED now

\* Fault: the account is not asked for anew.
SwitchWithoutRefresh(x) ==
    /\ mounted /\ x # wanted
    /\ wanted' = x
    /\ IF IsOpen
       THEN /\ tick' = Nothing
            /\ Len(sockets[socket].toServer) < MaxSent
            /\ sockets' = [sockets EXCEPT ![socket].toServer = Append(@, x)]
       ELSE UNCHANGED <<tick, sockets>>
    /\ history' = [overtaken |-> FALSE,
                   switchedDown |-> ~IsOpen /\ tick \notin {Nothing, x}]
    /\ UNCHANGED <<mounted, socket, timers, connection, subscription, accountVars, now>>

\* The socket is told and the price cleared only if the socket is open; the
\* account is asked for in any case.
Switch(x) ==
    /\ mounted /\ x # wanted
    /\ wanted' = x
    /\ IF IsOpen
       THEN /\ tick' = Nothing
            /\ Len(sockets[socket].toServer) < MaxSent
            /\ sockets' = [sockets EXCEPT ![socket].toServer = Append(@, x)]
       ELSE UNCHANGED <<tick, sockets>>
    /\ older' = Superseded /\ latest' = "asked"
    /\ history' = [overtaken |-> FALSE,
                   switchedDown |-> ~IsOpen /\ tick \notin {Nothing, x}]
    /\ UNCHANGED <<mounted, socket, timers, connection, subscription, panel, now>>

-----------------------------------------------------------------------------
(* The server's half of a socket *)

Room(s) == Len(sockets[s].toClient) < MaxFrames
Sends(s, frame) == Append(sockets[s].toClient, frame)
Serves(s, link) ==
    /\ sockets[s].state = "open"
    /\ sockets' = [sockets EXCEPT ![s] = link]
    /\ UNCHANGED <<mounted, wanted, socket, timers, connection, screenVars, accountVars, now, history>>

\* _switch_symbol, first half: the subscription is replaced.
PointAt(link, x) == [link EXCEPT !.watching = x, !.confirming = x]

\* A client starts on the default instrument.  Before, its set is empty, which
\* is every instrument.
Greet(s) ==
    /\ sockets[s].watching = Nothing
    /\ Serves(s, PointAt(sockets[s], Default))

\* The coroutine's receive loop, once it has confirmed the switch before.
ServeSubscribe(s) ==
    /\ sockets[s].toServer # <<>> /\ sockets[s].watching # Nothing /\ sockets[s].confirming = Nothing
    /\ Serves(s, [PointAt(sockets[s], Head(sockets[s].toServer)) EXCEPT !.toServer = Tail(@)])

\* _switch_symbol, second half: the subscription frame and, if the stream has
\* one, its last tick, which goes out as a fan-out's would.
Confirm(s) ==
    LET x == sockets[s].confirming
    IN  /\ x # Nothing /\ Room(s)
        /\ \E replay \in {sockets[s].fanOut} \cup {y \in {x} : sockets[s].fanOut = Nothing} :
              Serves(s, [sockets[s] EXCEPT !.confirming = Nothing, !.fanOut = replay,
                                           !.toClient = Sends(s, Confirmation(x))])

\* A tick takes the socket for a target by what it watches now,
Target(s, x) ==
    /\ sockets[s].fanOut = Nothing /\ sockets[s].watching \in {x, Nothing}
    /\ Serves(s, [sockets[s] EXCEPT !.fanOut = x])

\* and is sent to it later.
Send(s) ==
    /\ sockets[s].fanOut # Nothing /\ Room(s)
    /\ Serves(s, [sockets[s] EXCEPT !.fanOut = Nothing,
                                    !.toClient = Sends(s, Tick(sockets[s].fanOut))])

-----------------------------------------------------------------------------
Browser ==
    \/ Mount \/ Unmount \/ (\E x \in Symbols : Switch(x)) \/ Reconnect \/ RetryDue
    \/ Refresh \/ AnswerLatest \/ (\E x \in Symbols : AnswerOlder(x))

OfSocket(s) ==
    \/ Opened(s) \/ Receive(s) \/ Lost(s)
    \/ Greet(s) \/ ServeSubscribe(s) \/ Confirm(s) \/ (\E x \in Symbols : Target(s, x)) \/ Send(s)

Elapse ==
    /\ now < Last
    /\ now' = now + 1
    /\ UNCHANGED <<mounted, wanted, linkVars, screenVars, accountVars, history>>

Next == Browser \/ Elapse \/ \E s \in Sockets : OfSocket(s)

Spec == Init /\ [][Next]_vars

-----------------------------------------------------------------------------
(* Properties *)

TerminalTypeOK ==
    /\ mounted \in BOOLEAN /\ wanted \in Symbols
    /\ socket \in Sockets \cup {Nothing} /\ sockets \in [Sockets -> Link]
    /\ timers \in Nat /\ connection \in ConnectionState
    /\ {tick, panel} \subseteq Symbols \cup {Nothing}
    /\ subscription \in Frame \cup {Nothing} /\ now \in Nat
    /\ older \subseteq Symbols /\ latest \in {"none", "asked", "answered", "failed"}
    /\ history \in [overtaken : BOOLEAN, switchedDown : BOOLEAN]

\* While it is on screen the terminal has one live socket or one armed retry,
\* never two, whatever is lost, retried, reconnected by hand or mounted anew,
\* and never neither, unless the browser refused it a socket: then it says so,
\* and nothing but the user brings it back.  Once it is gone it has none.  It
\* says "live" just while its socket is open.
OneLink ==
    /\ Live = IF socket = Nothing THEN {} ELSE {socket}
    /\ timers = IF mounted /\ socket = Nothing /\ connection # "offline" THEN 1 ELSE 0
    /\ socket # Nothing => mounted
    /\ connection = "offline" => mounted /\ socket = Nothing
    /\ connection = "live" <=> IsOpen

Settled(s) ==
    LET link == sockets[s]
    IN  /\ link.state = "open" /\ link.toServer = <<>> /\ link.toClient = <<>>
        /\ link.watching # Nothing /\ link.confirming = Nothing

\* However switches, reconnects and the server's own default overlap, once
\* nothing is on its way the server watches for this client what the client
\* has selected, and the confirmation on screen is of the same instrument.
ServerFollowsSelection ==
    \A s \in Live : Settled(s) => sockets[s].watching = wanted /\ subscription.symbol = wanted

\* The price on screen is of the instrument selected, whatever ticks were on
\* their way when it was switched, unless the switch found the socket down:
\* then the old price stays until the new instrument's first tick.
PriceIsOfSelection == tick \in {Nothing, wanted} \/ history.switchedDown

\* Once every request has been answered the account panels are of the
\* instrument selected, unless an older answer came in after the latest, which
\* nothing prevents, or the latest failed.
PanelsFollowSelection ==
    older = {} /\ latest = "answered" => panel = wanted \/ history.overtaken

\* MarketStatusBadge shows the market of the last confirmation.
Badge == IF subscription # Nothing /\ subscription.symbol = wanted THEN {subscription.market} ELSE {}
Announced(market) == IF market.until = Nothing THEN wanted \in Continuous ELSE now < market.until

\* A badge is right until the opening or the close that it announces, however
\* long ago the frame was sent, and for ever for a market without either.
\* (After that instant it is wrong until the next switch or reconnect.)
BadgeHoldsUntilItsBoundary ==
    \A market \in Badge :
        Announced(market) => market.open = IsTradable(ClassOf(wanted), now)
===============================================================================
