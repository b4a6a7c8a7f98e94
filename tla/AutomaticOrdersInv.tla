-------------------------- MODULE AutomaticOrdersInv --------------------------
(***************************************************************************)
(* Why an automatic order fires at most once.  A claim takes the order out *)
(* of ACTIVE for good (ClaimInv), the monitor's session works for that     *)
(* claim and no other (RobotInv), and the stops a fill has locked are      *)
(* ACTIVE ones that neither a claim nor a cancel can take (HeldInv).       *)
(*                                                                         *)
(* Why what is recorded is true (OutcomeInv): the order placed for a claim *)
(* is of its terms, no other session writes its row, and the monitor       *)
(* carries its status from the engine's commit to its own.                 *)
(*                                                                         *)
(* Why stops fit (StopInv): a fill about to commit has locked every stop   *)
(* of its symbol but those inserted since; and a claimed stop that nothing *)
(* disturbed fits until the engine looks at it (RefusalInv).               *)
(***************************************************************************)
EXTENDS AutomaticOrders, TradingEngineInv

HeldInv ==
    \A s \in Sessions :
        /\ held[s] # {} => pc[s] = "settled"
        /\ \A a \in held[s] : autos[a].status = "ACTIVE" /\ autos[a].terms.type = "STOP_LOSS"

\* Every order that exists can be handed to the engine.
SizeInv == \A a \in AutoIds : autos[a].status # "NONE" => autos[a].terms.quantity \in Quantities

RobotInv == pc[Robot] # "idle" => monitor.phase = "placing"

ClaimInv ==
    /\ monitor.phase \in {"firing", "placing", "answered"} =>
          monitor.claimed \in AutoIds /\ autos[monitor.claimed].status = "TRIGGERED"
    /\ monitor.phase \in {"firing", "placing"} => history[monitor.claimed].placed = {}
    /\ \A a \in AutoIds :
          /\ autos[a].status \in {"NONE", "ACTIVE", "CANCELLED"} => history[a].placed = {}
          /\ history[a].placed = {} \/ \E id \in OrderIds : history[a].placed = {id}

FiringInv == IInv /\ AutoTypeOK /\ SizeInv /\ HeldInv /\ RobotInv /\ ClaimInv
-----------------------------------------------------------------------------
\* The phases in which a session has taken an order id and not committed.
Numbered == {"rejecting", "settled"}

RequestOf(terms) == [side |-> terms.action, symbol |-> terms.symbol, quantity |-> terms.quantity]

OrderFor(terms, status) == [status |-> status, symbol |-> terms.symbol,
                            side |-> terms.action, quantity |-> terms.quantity]

PlacedInv ==
    \A a \in AutoIds : \A id \in history[a].placed :
        /\ id < nextId
        /\ \A s \in Sessions : pc[s] \in Numbered => work[s].id # id
        /\ \E status \in {"FILLED", "REJECTED"} : orders[id] = OrderFor(autos[a].terms, status)
        /\ \A b \in AutoIds : id \in history[b].placed => a = b

LinkInv ==
    \A a \in AutoIds :
        /\ autos[a].order # 0 => /\ autos[a].status = "TRIGGERED"
                                 /\ autos[a].order \in history[a].placed
                                 /\ orders[autos[a].order].status = "FILLED"
        /\ autos[a].status = "FAILED" =>
              \A id \in history[a].placed : orders[id].status = "REJECTED"

AnswerInv ==
    /\ pc[Robot] # "idle" => req[Robot] = RequestOf(autos[monitor.claimed].terms)
    /\ monitor.phase # "answered" => monitor.outcome = 0
    /\ monitor.phase = "answered" =>
          IF monitor.outcome # 0
          THEN /\ monitor.outcome \in history[monitor.claimed].placed
               /\ orders[monitor.outcome].status = "FILLED"
          ELSE \A id \in history[monitor.claimed].placed : orders[id].status = "REJECTED"

OutcomeInv == PlacedInv /\ LinkInv /\ AnswerInv

StopInv ==
    /\ StopFitsUnlessRaced
    /\ \A s \in Sessions : pc[s] = "settled" =>
          /\ \A a \in held[s] : autos[a].terms.symbol = req[s].symbol
          /\ \A a \in ActiveStops :
                autos[a].terms.symbol = req[s].symbol => a \in held[s] \/ history[a].raced

Undisturbed(a) == autos[a].terms.type = "STOP_LOSS" /\ ~history[a].raced /\ ~history[a].outrun

\* A claim that nothing disturbed still fits when the engine looks at it.
RefusalInv ==
    /\ monitor.phase # "answered" => monitor.reason = "NONE"
    /\ monitor.phase \in {"firing", "placing"} /\ Undisturbed(monitor.claimed) =>
          Fits(monitor.claimed)
    /\ monitor.phase = "answered" /\ monitor.reason = "POSITION" =>
          ~Undisturbed(monitor.claimed)
    /\ pc[Robot] = "rejecting" => work[Robot].position = positions[req[Robot].symbol]
    /\ \A a \in AutoIds : autos[a].reason = "POSITION" => autos[a].status = "FAILED"
    /\ StopRefusedOnlyIfOutrun
===============================================================================
