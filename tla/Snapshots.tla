------------------------------ MODULE Snapshots ------------------------------
(***************************************************************************)
(* The equity curve: analytics/snapshots.py, the periodic job of           *)
(* analytics/scheduler.py and the POST /portfolio/snapshots request, over  *)
(* the trading engine.                                                     *)
(*                                                                         *)
(* A fill is captured in its own transaction.  Any other capture reads the *)
(* tables one statement at a time and locks nothing: the periodic job      *)
(* reads the positions, awaits their quotes, reads the wallet and reads    *)
(* the positions again, which shows it new rows but, its session having    *)
(* the old ones in its identity map, not what has become of those.  There  *)
(* is one periodic job at a time (max_instances=1), beside any number of   *)
(* requests.                                                               *)
(***************************************************************************)
EXTENDS TradingBooks

CONSTANTS Job,         \* the periodic job
          Requests,    \* whoever may ask for a snapshot at once
          Marks,       \* prices a quote or a caller can supply
          MaxStamps    \* bound: no capture starts once a later stamp is next

ASSUME CapturesAssumption ==
    /\ IsFiniteSet(Requests) /\ Job \notin Requests
    /\ Marks \subseteq Nat \ {0} /\ MaxStamps \in Nat

Tasks == {Job} \cup Requests

VARIABLES curve,     \* the portfolio_snapshots table
          stamps,    \* captured_at of the fill a session has settled
          capturing  \* the capture each task has under way

snapVars == <<curve, stamps, capturing>>
allVars == <<vars, snapVars>>

Source == {"TRADE", "PERIODIC", "MANUAL"}

\* held: the position rows read; marks: symbol -> price; both partial.
\* Auxiliary: overtaken, whether a fill or a reset has committed since it began;
\* found, the stamp of the row it has compared itself with.
Quiet == [phase |-> "idle", held |-> [x \in {} |-> Flat], marks |-> [x \in {} |-> 0],
          cash |-> 0, initial |-> 0, at |-> 0, overtaken |-> FALSE, found |-> 0]

SnapInit ==
    /\ Init
    /\ curve = {}
    /\ stamps = [s \in Sessions |-> 0]
    /\ capturing = [c \in Tasks |-> Quiet]

-----------------------------------------------------------------------------
(* value_portfolio *)

\* Fault: a short is valued as if it were owned.
PositionValueUnsigned(quantity, price) == HalfUp(Magnitude(quantity) * price, Lot)

PositionValue(quantity, price) == HalfUp(quantity * price, Lot)

UnrealizedPnl(position, price) ==
    HalfUp((price * AvgTicks - position.average) * position.quantity, AvgTicks * Lot)

HeldOpen(held) == {symbol \in DOMAIN held : held[symbol].quantity # 0}

\* A position without a mark contributes nothing.
Valuation(cash, held, marks) ==
    LET priced == HeldOpen(held) \cap DOMAIN marks
        unrealized == SumFunction([x \in priced |-> UnrealizedPnl(held[x], marks[x])])
    IN  [cash       |-> cash,
         value      |-> SumFunction([x \in priced |-> PositionValue(held[x].quantity, marks[x])]),
         unrealized |-> unrealized,
         realized   |-> SumFunction([x \in DOMAIN held |-> held[x].realized]),
         charges    |-> SumFunction([x \in DOMAIN held |-> held[x].charges]),
         net        |-> SumFunction([x \in DOMAIN held |-> held[x].net]) + unrealized,
         quantity   |-> IF Cardinality(HeldOpen(held)) # 1 THEN 0
                        ELSE held[CHOOSE x \in HeldOpen(held) : TRUE].quantity]

\* is_equivalent_to: total_value is cash and value together.
Equivalent(row, other) ==
    \A field \in {"quantity", "cash", "value", "realized", "unrealized", "charges"} :
        row.valuation[field] = other.valuation[field]

\* initial, order, unpriced, overtaken and found are auxiliary.
Row(at, source, valuation, initial, order, unpriced, overtaken, found) ==
    [at |-> at, source |-> source, valuation |-> valuation, initial |-> initial,
     order |-> order, unpriced |-> unpriced, overtaken |-> overtaken, found |-> found]

-----------------------------------------------------------------------------
(* The capture of a fill: captured_at is read once it has settled, and the   *)
(* row commits with it.  The fill's own price is the only mark.              *)

\* captured_at: only the order of the stamps matters, so the next one is the
\* first that is later than all in use.
Now == 1 + Max({0} \cup {capturing[c].at : c \in Tasks} \cup {row.at : row \in curve}
                   \cup {stamps[s] : s \in Sessions})

SettleAndStamp(s) ==
    /\ Settle(s)
    /\ stamps' = [stamps EXCEPT ![s] = Now]
    /\ UNCHANGED <<curve, capturing>>

Overtakes == capturing' = [c \in Tasks |-> [capturing[c] EXCEPT
                                !.overtaken = capturing[c].phase # "idle"]]

FillSnapshot(s, cash, held) ==
    LET marks == [x \in {req[s].symbol} |-> (CHOOSE trade \in work[s].fill : TRUE).price]
    IN  Row(stamps[s], "TRADE", Valuation(cash, held, marks), wallet.initial, work[s].id,
            HeldOpen(held) \ DOMAIN marks, FALSE, 0)

\* Fault: the session reads its positions from a table it has not flushed to.
CommitAndCaptureStale(s) ==
    /\ CommitFill(s)
    /\ curve' = curve \cup {FillSnapshot(s, wallet'.cash, Restrict(positions, rows'))}
    /\ stamps' = [stamps EXCEPT ![s] = 0]
    /\ Overtakes

CommitAndCapture(s) ==
    /\ CommitFill(s)
    /\ curve' = curve \cup {FillSnapshot(s, wallet'.cash, Restrict(positions', rows'))}
    /\ stamps' = [stamps EXCEPT ![s] = 0]
    /\ Overtakes

-----------------------------------------------------------------------------
(* The other captures *)

At(c, phase) == capturing[c].phase = phase

Goes(c, capture) ==
    /\ capturing' = [capturing EXCEPT ![c] = capture]
    /\ UNCHANGED <<vars, stamps>>

MayStart(c) ==
    /\ At(c, "idle")
    /\ Now <= MaxStamps

\* capture_periodic_snapshot selects the positions it will ask prices for.
StartPeriodic ==
    /\ MayStart(Job)
    /\ Goes(Job, [Quiet EXCEPT !.phase = "pricing", !.held = Restrict(positions, rows)])
    /\ UNCHANGED curve

\* _mark_prices_for: a recent tick or a quote for each; one that fails is left out.
Quote ==
    /\ At(Job, "pricing")
    /\ \E priced \in SUBSET HeldOpen(capturing[Job].held) : \E marks \in [priced -> Marks] :
          Goes(Job, [capturing[Job] EXCEPT !.marks = marks, !.phase = "wallet"])
    /\ UNCHANGED curve

\* The request names one instrument's price or none.
StartManual(c) ==
    /\ MayStart(c)
    /\ \E symbols \in {{}} \cup {{x} : x \in Symbols} : \E marks \in [symbols -> Marks] :
          Goes(c, [Quiet EXCEPT !.phase = "wallet", !.marks = marks])
    /\ UNCHANGED curve

\* capture: without a wallet there is nothing to record.
ReadWallet(c) ==
    /\ At(c, "wallet")
    /\ Goes(c, IF wallet.open
               THEN [capturing[c] EXCEPT !.phase = "positions", !.cash = wallet.cash,
                                         !.initial = wallet.initial]
               ELSE Quiet)
    /\ UNCHANGED curve

\* Rows already in the session keep the values they were loaded with.  Only the
\* job has its point compared (skip_if_unchanged).
ReadPositions(c) ==
    /\ At(c, "positions")
    /\ Goes(c, [capturing[c] EXCEPT
          !.phase = IF c = Job THEN "comparing" ELSE "saving", !.at = Now,
          !.held = [x \in rows |-> IF x \in DOMAIN @ THEN @[x] ELSE positions[x]]])
    /\ UNCHANGED curve

Captured(c) ==
    LET capture == capturing[c]
    IN  Row(capture.at, IF c = Job THEN "PERIODIC" ELSE "MANUAL",
            Valuation(capture.cash, capture.held, capture.marks), capture.initial, 0,
            HeldOpen(capture.held) \ DOMAIN capture.marks, capture.overtaken, capture.found)

\* Fault: the latest of the job's own rows.
LatestPeriodic == {row \in curve : \A other \in curve :
                      row.source = "PERIODIC" /\ (other.source = "PERIODIC" => other.at <= row.at)}

\* latest, of what has been committed
Latest == {row \in curve : \A other \in curve : other.at <= row.at}

\* The job gives up a point that is like the latest.
Compare ==
    /\ At(Job, "comparing")
    /\ IF \E row \in Latest : Equivalent(Captured(Job), row)
       THEN Goes(Job, Quiet)
       ELSE Goes(Job, [capturing[Job] EXCEPT !.phase = "saving",
                                             !.found = Max({0} \cup {row.at : row \in Latest})])
    /\ UNCHANGED curve

Save(c) ==
    /\ At(c, "saving")
    /\ curve' = curve \cup {Captured(c)}
    /\ Goes(c, Quiet)

\* Fault: a job that fails is not seen to have ended.
CaptureHangs(c) ==
    /\ ~At(c, "idle")
    /\ Goes(c, [Quiet EXCEPT !.phase = "failed"])
    /\ UNCHANGED curve

CaptureFails(c) ==
    /\ ~At(c, "idle")
    /\ Goes(c, Quiet)
    /\ UNCHANGED curve

-----------------------------------------------------------------------------
\* The engine's other steps, none of which captures anything.
EngineAlone(s) ==
    \/ /\ \/ LockWallet(s)       \/ LockPosition(s)    \/ MissPosition(s)
          \/ InsertPosition(s)   \/ Reject(s)          \/ CommitRejection(s)
          \/ FindNoWallet(s)     \/ AdoptWallet(s)     \/ WalletMissing(s)
          \/ \E balance \in Balances : InsertWallet(s, balance)
          \/ \E side \in Side, symbol \in Symbols, quantity \in Quantities :
                Submit(s, side, symbol, quantity)
       /\ UNCHANGED snapVars
    \/ /\ \E balance \in Balances : ResetWallet(s, balance)
       /\ Overtakes
       /\ UNCHANGED <<curve, stamps>>
    \/ /\ Abort(s)
       /\ stamps' = [stamps EXCEPT ![s] = 0]
       /\ UNCHANGED <<curve, capturing>>

SnapNext ==
    \/ \E s \in Sessions : EngineAlone(s) \/ SettleAndStamp(s) \/ CommitAndCapture(s)
    \/ StartPeriodic \/ Quote \/ Compare
    \/ \E c \in Requests : StartManual(c)
    \/ \E c \in Tasks : ReadWallet(c) \/ ReadPositions(c) \/ Save(c) \/ CaptureFails(c)
    \/ Waiting /\ UNCHANGED snapVars

SnapSpec == SnapInit /\ [][SnapNext]_allVars

-----------------------------------------------------------------------------
(* Properties *)

SnapTypeOK ==
    /\ \A row \in curve : row.at \in 1 .. Now - 1 /\ row.source \in Source
    /\ \A row \in curve : row.valuation.cash >= 0
    /\ \A row, other \in curve : row.at = other.at => row = other
    /\ stamps \in [Sessions -> 0 .. Now - 1]
    /\ \A c \in Tasks :
          /\ capturing[c].phase \in {"idle", "wallet", "positions", "saving"}
                \cup IF c = Job THEN {"pricing", "comparing"} ELSE {}
          /\ DOMAIN capturing[c].held \subseteq rows
          /\ DOMAIN capturing[c].marks \subseteq Symbols

Before(row) == {trade \in trades : trade.order <= row.order}

\* The curve has exactly one point for each fill, and it is the account as
\* that fill left it: every fill so far, its own included, and no later one.
TradeRowsFollowFills ==
    /\ \A trade \in trades : Cardinality({row \in curve : row.order = trade.order}) = 1
    /\ \A row \in curve : row.source = "TRADE" =>
          /\ \E trade \in trades : trade.order = row.order
          /\ row.valuation.realized = SumFunction([trade \in Before(row) |-> trade.gross])
          /\ row.valuation.charges = SumFunction([trade \in Before(row) |-> trade.charges])

\* What marking one position rounds, twice over: an unrealised profit, and the
\* position's value unless its quantity is a whole number of units.
MarkError == AvgTicks * Lot + IF Lot = 1 THEN 0 ELSE AvgTicks * Lot

\* Equity is explained by profit: the total value of a point all of whose
\* positions had a mark, and that nothing overtook, is the opening balance
\* plus its net profit, but for what the fills and the marks have rounded;
\* short positions and marks that moved included.
EquityIsExplained ==
    \A row \in curve :
        ~row.overtaken /\ row.unpriced = {} /\ wallet.resets = 0 =>
            LET apart == row.valuation.cash + row.valuation.value
                           - row.initial - row.valuation.net
            IN  2 * AvgTicks * Lot * Magnitude(apart)
                  <= SumFunction([trade \in trades |-> Rounding(trade)])
                       + MarkError * Cardinality(Symbols)

\* What excuses a periodic point that is like the one before it: the point it
\* was compared with is a manual one that is stamped later, or the one before it
\* is a manual one that was not there yet.
OutOfTurn(row, before) ==
    \/ before.source = "MANUAL" /\ before.at > row.found
    \/ \E later \in curve : later.source = "MANUAL" /\ later.at = row.found /\ later.at > row.at

\* An account that sits idle adds nothing: a periodic point that no fill or reset
\* overtook differs from the point before it, be that a periodic one, a manual one
\* or a fill's; only a manual capture of the same moment makes the job miss it,
\* since its comparison and its stamp are of different instants.
IdleCurveDoesNotGrow ==
    \A row \in curve : row.source = "PERIODIC" /\ ~row.overtaken =>
        \A other \in curve : Equivalent(row, other) /\ other.at < row.at =>
            \/ \E between \in curve : other.at < between.at /\ between.at < row.at
            \/ OutOfTurn(row, other)

\* engine.py: "Enrolling it here means the equity curve can never record a
\* state that never existed", yet the other positions are left out of it.
TradeRowsAreRealStates == \A row \in curve : row.source = "TRADE" => row.unpriced = {}
===============================================================================
