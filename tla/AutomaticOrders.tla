--------------------------- MODULE AutomaticOrders ---------------------------
(***************************************************************************)
(* Stop-losses and price triggers: automation/service.py,                  *)
(* automation/monitor.py and automation/evaluator.py, composed with the    *)
(* trading engine they fire into.                                          *)
(*                                                                         *)
(* A client creates a stop-loss in two steps: it reads the position, with  *)
(* no lock, and later inserts the row.  place_order realigns the ACTIVE    *)
(* stops of its symbol inside its own transaction: it locks their rows     *)
(* when it settles and writes them when it commits.  The monitor, driven   *)
(* by price ticks, claims one matching row at a time (a commit of its      *)
(* own), has the engine execute it in the session Robot, and records the   *)
(* outcome in a third commit.                                              *)
(***************************************************************************)
EXTENDS TradingEngine

CONSTANTS Robot,         \* the monitor's session
          Clients,       \* concurrent creators of automatic orders
          MarketPrices,  \* prices a tick can carry
          TriggerPrices, \* levels an automatic order can be set at
          TriggerSides,  \* bound: the sides price triggers are created with
          MaxAutos,      \* bound: automatic orders ever created
          Crashes        \* whether sessions and the monitor may fail

ASSUME RobotAssumption == Robot \in Sessions /\ Crashes \in BOOLEAN
ASSUME TriggerAssumption ==
    /\ MarketPrices \subseteq Nat \ {0} /\ TriggerPrices \subseteq Nat \ {0}
    /\ TriggerSides \subseteq Side /\ MaxAutos \in Nat
\* Any multiple of an instrument's increment up to the bound is a legal size,
\* so a stop clamped to what is left of a position can still be executed.
ASSUME SizeAssumption == \A quantity \in Quantities : 1 .. quantity \subseteq Quantities

AutoIds == 1 .. MaxAutos

VARIABLES autos,   \* [AutoIds -> AutoRow]: the automatic_orders table
          held,    \* the stops each session's reconciliation has locked
          drafts,  \* the stop each client has validated and not yet inserted
          monitor, \* what on_price is doing
          history  \* auxiliary: what happened to each automatic order

autoVars == <<autos, held, drafts, monitor, history>>
allVars == <<vars, autoVars>>

-----------------------------------------------------------------------------
Terms == [type: {"STOP_LOSS", "PRICE_TRIGGER"}, symbol: Symbols, condition: {"GTE", "LTE"},
          trigger: Nat, action: Side, quantity: Nat]

Status == {"NONE", "ACTIVE", "TRIGGERED", "CANCELLED", "FAILED"}

\* order is triggered_order_id, 0 for NULL.
AutoRow == [terms: Terms, status: Status, order: Nat,
         reason: {"NONE", "USER", "CLOSED", "REVERSED", "POSITION", "FUNDS", "MARKET"}]

NoTerms == [type |-> "PRICE_TRIGGER", symbol |-> AnySymbol, condition |-> "GTE",
            trigger |-> 1, action |-> "BUY", quantity |-> 1]
NoAuto == [terms |-> NoTerms, status |-> "NONE", order |-> 0, reason |-> "NONE"]

NoDraft == {}

\* outcome is the order placed, 0 when the engine refused.
Monitor == [phase: {"idle", "evaluating", "firing", "placing", "answered"},
            symbol: Symbols, price: Nat, claimed: Nat, outcome: Nat,
            reason: {"NONE", "POSITION", "FUNDS", "MARKET"}]
Quiet == [phase |-> "idle", symbol |-> AnySymbol, price |-> 0, claimed |-> 0,
          outcome |-> 0, reason |-> "NONE"]

\* placed: the orders placed for it; raced: it was inserted when it no longer
\* fitted, or while a fill that had already realigned the stops was about to
\* commit; outrun: its symbol was traded between its claim and its order.
Past == [placed: SUBSET OrderIds, raced: BOOLEAN, outrun: BOOLEAN]

AutoInit ==
    /\ Init
    /\ autos = [a \in AutoIds |-> NoAuto]
    /\ held = [s \in Sessions |-> {}]
    /\ drafts = [c \in Clients |-> NoDraft]
    /\ monitor = Quiet
    /\ history = [a \in AutoIds |-> [placed |-> {}, raced |-> FALSE, outrun |-> FALSE]]

-----------------------------------------------------------------------------
(* evaluator.py *)

ConditionIsMet(terms, price) ==
    \/ terms.condition = "GTE" /\ price >= terms.trigger
    \/ terms.condition = "LTE" /\ price <= terms.trigger

\* closing_side_for and protects_position: nothing closes a flat position.
ProtectsPosition(action, quantity) ==
    \/ quantity > 0 /\ action = "SELL"
    \/ quantity < 0 /\ action = "BUY_TO_COVER"

\* stop_loss_condition_for
StopLossCondition(quantity) == IF quantity > 0 THEN "LTE" ELSE "GTE"

\* _validate_stop_loss.  A reference price, when the caller has one, only
\* refuses more; a caller without one is the general case.
ValidStopLoss(terms, quantity) ==
    /\ ProtectsPosition(terms.action, quantity)
    /\ terms.condition = StopLossCondition(quantity)
    /\ terms.quantity <= Magnitude(quantity)

-----------------------------------------------------------------------------
(* AutomaticOrderService.create and cancel *)

\* The position is read without a lock.
CheckStopLoss(c, terms) ==
    /\ drafts[c] = NoDraft
    /\ terms.type = "STOP_LOSS"
    /\ ValidStopLoss(terms, positions[terms.symbol].quantity)
    /\ \E a \in AutoIds : autos[a].status = "NONE"
    /\ drafts' = [drafts EXCEPT ![c] = {terms}]
    /\ UNCHANGED <<vars, autos, held, monitor, history>>

\* A fill of the symbol that has settled has also read the ACTIVE stops.
SettledIn(symbol) == {s \in Sessions : pc[s] = "settled" /\ req[s].symbol = symbol}

\* The row takes the next id.
InsertAuto(terms) ==
    \E a \in AutoIds :
        /\ autos[a].status = "NONE"
        /\ \A b \in AutoIds : b < a => autos[b].status # "NONE"
        /\ autos' = [autos EXCEPT ![a] =
                        [terms |-> terms, status |-> "ACTIVE", order |-> 0, reason |-> "NONE"]]
        /\ history' = [history EXCEPT ![a].raced =
                          \/ ~ValidStopLoss(terms, positions[terms.symbol].quantity)
                          \/ SettledIn(terms.symbol) # {}]

InsertStopLoss(c) ==
    /\ drafts[c] # NoDraft
    /\ \E terms \in drafts[c] : InsertAuto(terms)
    /\ drafts' = [drafts EXCEPT ![c] = NoDraft]
    /\ UNCHANGED <<vars, held, monitor>>

\* A price trigger is checked for nothing but its bounds.
CreateTrigger(terms) ==
    /\ terms.type = "PRICE_TRIGGER"
    /\ InsertAuto(terms)
    /\ UNCHANGED <<vars, held, drafts, monitor>>

Locked == UNION {held[s] : s \in Sessions}

\* Fault: the status is the one the session saw before it had the row lock.
CancelUnchecked(a) ==
    /\ autos[a].status \in {"ACTIVE", "TRIGGERED"}
    /\ a \notin Locked
    /\ autos' = [autos EXCEPT ![a].status = "CANCELLED", ![a].reason = "USER"]
    /\ UNCHANGED <<vars, held, drafts, monitor, history>>

\* SELECT ... FOR UPDATE, the status check, the assignment and the commit.
Cancel(a) ==
    /\ autos[a].status = "ACTIVE"
    /\ a \notin Locked
    /\ autos' = [autos EXCEPT ![a].status = "CANCELLED", ![a].reason = "USER"]
    /\ UNCHANGED <<vars, held, drafts, monitor, history>>

-----------------------------------------------------------------------------
(* reconcile_for_position, inside place_order's transaction *)

\* Fault: a partial exit leaves the stop's quantity alone.
ReconciledUnclamped(auto, quantity) ==
    IF ProtectsPosition(auto.terms.action, quantity) THEN auto
    ELSE [auto EXCEPT !.status = "CANCELLED",
                      !.reason = IF quantity = 0 THEN "CLOSED" ELSE "REVERSED"]

\* A stop that no longer protects is retired; one that is too large is clamped.
Reconciled(auto, quantity) ==
    IF ProtectsPosition(auto.terms.action, quantity)
    THEN [auto EXCEPT !.terms.quantity = Lesser(@, Magnitude(quantity))]
    ELSE [auto EXCEPT !.status = "CANCELLED",
                      !.reason = IF quantity = 0 THEN "CLOSED" ELSE "REVERSED"]

\* Fault: PRICE_TRIGGER orders are realigned too.
SettleAndReconcileAll(s) ==
    /\ Settle(s)
    /\ held' = [held EXCEPT ![s] = {a \in AutoIds : /\ autos[a].status = "ACTIVE"
                                                    /\ autos[a].terms.symbol = req[s].symbol}]
    /\ UNCHANGED <<autos, drafts, monitor, history>>

\* The ACTIVE stops of the symbol are locked with the settlement ...
SettleAndReconcile(s) ==
    /\ Settle(s)
    /\ held' = [held EXCEPT ![s] = {a \in AutoIds : /\ autos[a].status = "ACTIVE"
                                                    /\ autos[a].terms.type = "STOP_LOSS"
                                                    /\ autos[a].terms.symbol = req[s].symbol}]
    /\ UNCHANGED <<autos, drafts, monitor, history>>

\* ... and written with the commit.  The symbol's claimed orders are outrun.
Realign(s) ==
    /\ autos' = [a \in AutoIds |->
                   IF a \in held[s] THEN Reconciled(autos[a], work[s].position.quantity)
                   ELSE autos[a]]
    /\ held' = [held EXCEPT ![s] = {}]
    /\ UNCHANGED drafts

Traded(s) ==
    [a \in AutoIds |->
       [history[a] EXCEPT
          !.raced = @ /\ a \notin held[s],
          !.outrun = @ \/ /\ autos[a].status = "TRIGGERED"
                          /\ history[a].placed = {}
                          /\ s # Robot
                          /\ autos[a].terms.symbol = req[s].symbol]]

UserFills(s) ==
    /\ s # Robot
    /\ CommitFill(s)
    /\ Realign(s)
    /\ history' = Traded(s)
    /\ UNCHANGED monitor

-----------------------------------------------------------------------------
(* AutomaticOrderMonitor *)

\* on_price takes the monitor's lock.  A tick that finds it taken is dropped.
Tick(symbol, price) ==
    /\ monitor.phase = "idle"
    /\ monitor' = [Quiet EXCEPT !.phase = "evaluating", !.symbol = symbol, !.price = price]
    /\ UNCHANGED <<vars, autos, held, drafts, history>>

\* FOR UPDATE SKIP LOCKED
Claimable == {a \in AutoIds : /\ autos[a].status = "ACTIVE"
                              /\ autos[a].terms.symbol = monitor.symbol
                              /\ a \notin Locked
                              /\ ConditionIsMet(autos[a].terms, monitor.price)}

\* Fault: the claim is not written before the order is executed.
ClaimUnstamped ==
    /\ monitor.phase = "evaluating"
    /\ \E a \in Claimable :
          /\ \A b \in Claimable : a <= b
          /\ monitor' = [monitor EXCEPT !.phase = "firing", !.claimed = a]
    /\ UNCHANGED <<vars, autos, held, drafts, history>>

\* _claim_next stamps the oldest match TRIGGERED and commits.
Claim ==
    /\ monitor.phase = "evaluating"
    /\ \E a \in Claimable :
          /\ \A b \in Claimable : a <= b
          /\ autos' = [autos EXCEPT ![a].status = "TRIGGERED"]
          /\ monitor' = [monitor EXCEPT !.phase = "firing", !.claimed = a]
    /\ UNCHANGED <<vars, held, drafts, history>>

NothingToClaim ==
    /\ monitor.phase = "evaluating"
    /\ Claimable = {}
    /\ monitor' = Quiet
    /\ UNCHANGED <<vars, autos, held, drafts, history>>

\* _execute hands the claimed order to place_order ...
Fire ==
    /\ monitor.phase = "firing"
    /\ LET terms == autos[monitor.claimed].terms
       IN  Submit(Robot, terms.action, terms.symbol, terms.quantity)
    /\ monitor' = [monitor EXCEPT !.phase = "placing"]
    /\ UNCHANGED <<autos, held, drafts, history>>

\* ... which may refuse at the door: the market is closed.
RefusedAtDoor ==
    /\ monitor.phase = "firing"
    /\ monitor' = [monitor EXCEPT !.phase = "answered", !.reason = "MARKET"]
    /\ UNCHANGED <<vars, autos, held, drafts, history>>

Placed == [history EXCEPT ![monitor.claimed].placed = @ \cup {work[Robot].id}]

RobotFills ==
    /\ CommitFill(Robot)
    /\ Realign(Robot)
    /\ history' = [a \in AutoIds |-> [Traded(Robot)[a] EXCEPT !.placed = Placed[a].placed]]
    /\ monitor' = [monitor EXCEPT !.phase = "answered", !.outcome = work[Robot].id]

RobotIsRejected ==
    /\ CommitRejection(Robot)
    /\ history' = Placed
    /\ monitor' = [monitor EXCEPT
                     !.phase = "answered",
                     !.reason = IF ValidAgainstPosition(req[Robot].side, req[Robot].quantity,
                                                        work[Robot].position.quantity)
                                THEN "FUNDS" ELSE "POSITION"]
    /\ UNCHANGED <<autos, held, drafts>>

\* WalletNotFoundError is not a TradingError: on_price swallows it.
RobotHasNoWallet ==
    /\ WalletMissing(Robot)
    /\ monitor' = Quiet
    /\ UNCHANGED <<autos, held, drafts, history>>

\* The link, or FAILED, in a commit of its own; then the next claim.
Record ==
    /\ monitor.phase = "answered"
    /\ autos' = [autos EXCEPT ![monitor.claimed] =
                   IF monitor.outcome # 0 THEN [@ EXCEPT !.order = monitor.outcome]
                   ELSE [@ EXCEPT !.status = "FAILED", !.reason = monitor.reason]]
    /\ monitor' = [Quiet EXCEPT !.phase = "evaluating", !.symbol = monitor.symbol,
                                !.price = monitor.price]
    /\ UNCHANGED <<vars, held, drafts, history>>

-----------------------------------------------------------------------------
(* Failures.  A session that fails rolls back; the monitor's exception, or *)
(* the end of its process, leaves the claim it had committed.              *)

UserFails(s) ==
    /\ Crashes /\ s # Robot
    /\ Abort(s)
    /\ held' = [held EXCEPT ![s] = {}]
    /\ UNCHANGED <<autos, drafts, monitor, history>>

\* Fault: the session is dropped and its transaction left open.
MonitorFailsHoldingLocks ==
    /\ Crashes /\ monitor.phase # "idle"
    /\ pc' = [pc EXCEPT ![Robot] = "idle"]
    /\ UNCHANGED <<wallet, positions, rows, orders, trades, nextId, walletLock,
                   positionLock, req, work>>
    /\ held' = [held EXCEPT ![Robot] = {}]
    /\ monitor' = Quiet
    /\ UNCHANGED <<autos, drafts, history>>

\* Fault: every exception is taken for a refusal.
MonitorFailsAsRefused ==
    /\ Crashes /\ monitor.phase # "idle"
    /\ IF monitor.phase = "placing" THEN Abort(Robot) ELSE UNCHANGED vars
    /\ held' = [held EXCEPT ![Robot] = {}]
    /\ autos' = [a \in AutoIds |->
                   IF a = monitor.claimed THEN [autos[a] EXCEPT !.status = "FAILED"]
                   ELSE autos[a]]
    /\ monitor' = Quiet
    /\ UNCHANGED <<drafts, history>>

MonitorFails ==
    /\ Crashes /\ monitor.phase # "idle"
    /\ IF monitor.phase = "placing" THEN Abort(Robot) ELSE UNCHANGED vars
    /\ held' = [held EXCEPT ![Robot] = {}]
    /\ monitor' = Quiet
    /\ UNCHANGED <<autos, drafts, history>>

CreateFails(c) ==
    /\ drafts[c] # NoDraft
    /\ drafts' = [drafts EXCEPT ![c] = NoDraft]
    /\ UNCHANGED <<vars, autos, held, monitor, history>>

-----------------------------------------------------------------------------
\* The steps of the engine that no automatic order takes part in.
EngineAlone(s) ==
    /\ \/ LockWallet(s) \/ LockPosition(s) \/ MissPosition(s) \/ InsertPosition(s)
       \/ Reject(s)
       \/ s # Robot /\ \/ WalletMissing(s) \/ CommitRejection(s)
                       \/ FindNoWallet(s)  \/ AdoptWallet(s)
                       \/ \E balance \in Balances :
                             InsertWallet(s, balance) \/ ResetWallet(s, balance)
                       \/ \E side \in Side, symbol \in Symbols, quantity \in Quantities :
                             Submit(s, side, symbol, quantity)
    /\ UNCHANGED autoVars

MonitorAdvances ==
    \/ Claim \/ NothingToClaim \/ Fire \/ RefusedAtDoor \/ Record
    \/ RobotFills \/ RobotIsRejected \/ RobotHasNoWallet

StopTerms == [type: {"STOP_LOSS"}, symbol: Symbols, condition: {"GTE", "LTE"},
              trigger: TriggerPrices, action: {"SELL", "BUY_TO_COVER"},
              quantity: Quantities]
TriggerTerms == [type: {"PRICE_TRIGGER"}, symbol: Symbols, condition: {"GTE", "LTE"},
                 trigger: TriggerPrices, action: TriggerSides, quantity: Quantities]

AutoNext ==
    \/ \E s \in Sessions : \/ EngineAlone(s) \/ SettleAndReconcile(s)
                           \/ UserFills(s)   \/ UserFails(s)
    \/ \E c \in Clients : \/ \E terms \in StopTerms : CheckStopLoss(c, terms)
                          \/ InsertStopLoss(c) \/ CreateFails(c)
    \/ \E terms \in TriggerTerms : CreateTrigger(terms)
    \/ \E a \in AutoIds : Cancel(a)
    \/ \E symbol \in Symbols, price \in MarketPrices : Tick(symbol, price)
    \/ MonitorAdvances \/ MonitorFails
    \/ (Waiting /\ UNCHANGED autoVars)

AutoSpec == AutoInit /\ [][AutoNext]_allVars

\* A running session is scheduled, and PostgreSQL grants a row lock in the
\* order in which it was asked for: a waiter is not overtaken for ever.  The
\* monitor's task is scheduled while it has work.  Nothing obliges a request
\* or a tick to arrive, or a transaction to fail.
FairAutoSpec ==
    /\ AutoSpec
    /\ WF_allVars(MonitorAdvances)
    /\ \A s \in Sessions :
          /\ WF_allVars(EngineAlone(s) /\ pc[s] # "idle")
          /\ SF_allVars(LockWallet(s) /\ UNCHANGED autoVars)
          /\ WF_allVars(SettleAndReconcile(s)) /\ WF_allVars(UserFills(s))

-----------------------------------------------------------------------------
(* Properties *)

AutoTypeOK ==
    /\ autos \in [AutoIds -> AutoRow]
    /\ held \in [Sessions -> SUBSET AutoIds]
    /\ drafts \in [Clients -> {NoDraft} \cup {{terms} : terms \in StopTerms}]
    /\ monitor \in Monitor
    /\ history \in [AutoIds -> Past]

\* An automatic order places at most one order, and none while it is ACTIVE
\* or once it is CANCELLED, however ticks, cancels, failures of the monitor
\* and its retries interleave ("what makes duplicate firing impossible").
FiredAtMostOnce ==
    \A a \in AutoIds :
        /\ Cardinality(history[a].placed) <= 1
        /\ autos[a].status \in {"ACTIVE", "CANCELLED"} => history[a].placed = {}

\* triggered_order_id names a FILLED order for exactly these terms, which no
\* other automatic order names; a FAILED one has traded nothing.
RecordedOutcomeIsTrue ==
    \A a \in AutoIds :
        /\ autos[a].order # 0 =>
              /\ autos[a].status = "TRIGGERED"
              /\ autos[a].order \in OrderIds
              /\ orders[autos[a].order] = [status |-> "FILLED",
                                           symbol |-> autos[a].terms.symbol,
                                           side |-> autos[a].terms.action,
                                           quantity |-> autos[a].terms.quantity]
              /\ \A b \in AutoIds : autos[b].order = autos[a].order => a = b
        /\ autos[a].status = "FAILED" =>
              \A id \in history[a].placed : orders[id].status = "REJECTED"

ActiveStops == {a \in AutoIds : autos[a].status = "ACTIVE" /\ autos[a].terms.type = "STOP_LOSS"}

\* Whether a stop protects the position: it closes it, and no more than it.
Fits(a) ==
    LET quantity == positions[autos[a].terms.symbol].quantity
    IN  ProtectsPosition(autos[a].terms.action, quantity)
        /\ autos[a].terms.quantity <= Magnitude(quantity)

\* Every ACTIVE stop fits the committed position, unless it was inserted on a
\* position read that a fill had overtaken; the symbol's next fill realigns
\* even those.
StopFitsUnlessRaced == \A a \in ActiveStops : history[a].raced \/ Fits(a)

\* service.py, reconcile_for_position: "the position and its stop-losses can
\* never disagree, even for a moment."
StopMatchesPosition == \A a \in ActiveStops : Fits(a)

\* A claimed stop is refused for its position only when its symbol was traded
\* between the claim and the order, or when it never fitted: in every other
\* case a stop that fires takes the trader out, or funds or the market forbid it.
StopRefusedOnlyIfOutrun ==
    \A a \in AutoIds :
        autos[a].terms.type = "STOP_LOSS" /\ autos[a].reason = "POSITION"
            => history[a].raced \/ history[a].outrun

\* A price trigger is not attached to a position: no fill cancels or resizes
\* one, whatever becomes of the position it was meant for.
OutlivesFills ==
    [][\A a \in AutoIds :
          autos[a].terms.type = "PRICE_TRIGGER" /\ autos[a].status = "ACTIVE"
             /\ trades' # trades => autos'[a] = autos[a]]_allVars

\* "Cancelling a fired order would rewrite history": once an order has left
\* ACTIVE its terms stand and only a claim may still turn into a failure.
FatesAreFinal ==
    [][\A a \in AutoIds :
          autos[a].status \in {"TRIGGERED", "FAILED", "CANCELLED"} =>
             /\ autos'[a].terms = autos[a].terms
             /\ autos'[a].status # autos[a].status =>
                   autos[a].status = "TRIGGERED" /\ autos'[a].status = "FAILED"]_allVars

\* Automatic orders use the engine and nothing but the engine: wallet,
\* positions, orders and trades evolve as TradingEngine's specification says,
\* so that whatever it guarantees holds with the monitor running.
EngineSpec == Spec

\* Nobody waits for ever: every request that has arrived is answered, and
\* on_price always lets go of the monitor's lock, without which no later tick
\* would be evaluated.
NobodyWaitsForEver ==
    EveryRequestEnds /\ (monitor.phase # "idle" ~> monitor.phase = "idle")
===============================================================================
