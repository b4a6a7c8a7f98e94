------------------------ MODULE AutomaticOrdersProofs ------------------------
(***************************************************************************)
(* The automatic orders use the engine as its specification says, so the   *)
(* theorems of TradingEngineProofs hold of the composition.  Each one      *)
(* fires at most once, what is recorded of it is true and final, and the   *)
(* stops fit the positions they protect.                                   *)
(***************************************************************************)
EXTENDS AutomaticOrdersInv, TradingEngineProofs

\* The orders clients create are of their types.
LEMMA TermsTypes ==
    /\ NoAuto \in AutoRow
    /\ Quiet \in Monitor
    /\ \A terms \in StopTerms \cup TriggerTerms :
          terms \in Terms /\ terms.quantity \in Quantities
  <1>1. NoAuto \in AutoRow /\ Quiet \in Monitor
    BY BlankTypes DEF NoAuto, AutoRow, NoTerms, Terms, Status, Side, Quiet, Monitor
  <1>2. ASSUME NEW terms \in StopTerms
        PROVE  terms \in Terms /\ terms.quantity \in Quantities
    BY TriggerAssumption, DataAssumption DEF StopTerms, Terms, Side
  <1>3. ASSUME NEW terms \in TriggerTerms
        PROVE  terms \in Terms /\ terms.quantity \in Quantities
    BY TriggerAssumption, DataAssumption DEF TriggerTerms, Terms, Side
  <1> QED BY <1>1, <1>2, <1>3

LEMMA AutoInitFiringInv == AutoInit => FiringInv
  <1> SUFFICES ASSUME AutoInit PROVE FiringInv
    OBVIOUS
  <1>1. IInv
    BY InitIInv DEF AutoInit
  <1>2. AutoTypeOK
    BY TermsTypes DEF AutoInit, AutoTypeOK, NoDraft, Past
  <1>3. SizeInv /\ HeldInv
    BY DEF AutoInit, SizeInv, HeldInv, NoAuto
  <1>4. RobotInv
    BY RobotAssumption DEF AutoInit, RobotInv, Init
  <1>5. ClaimInv
    BY DEF AutoInit, ClaimInv, Quiet
  <1> QED BY <1>1, <1>2, <1>3, <1>4, <1>5 DEF FiringInv

\* A realigned stop is still an automatic order of a legal size.
LEMMA ReconciledType ==
    ASSUME NEW auto \in AutoRow, NEW quantity \in Int, auto.terms.quantity \in Quantities,
           auto.status = "ACTIVE"
    PROVE  /\ Reconciled(auto, quantity) \in AutoRow
           /\ Reconciled(auto, quantity).terms.quantity \in Quantities
           /\ Reconciled(auto, quantity).status \in {"ACTIVE", "CANCELLED"}
  <1>1. auto.terms \in Terms /\ auto.terms.quantity \in Nat \ {0}
    BY DataAssumption DEF AutoRow
  <1>2. CASE ProtectsPosition(auto.terms.action, quantity)
    <2> DEFINE size == Lesser(auto.terms.quantity, Magnitude(quantity))
    <2>1. size \in 1 .. auto.terms.quantity
      BY <1>1, <1>2 DEF ProtectsPosition, Lesser, Magnitude
    <2>2. size \in Quantities /\ size \in Nat
      BY <2>1, SizeAssumption, DataAssumption
    <2> HIDE DEF size
    <2>3. [auto.terms EXCEPT !.quantity = size] \in Terms
      BY <1>1, <2>2 DEF Terms
    <2>4. Reconciled(auto, quantity) = [auto EXCEPT !.terms.quantity = size]
      BY <1>2 DEF Reconciled, size
    <2> QED BY <1>1, <2>2, <2>3, <2>4 DEF AutoRow, Terms
  <1>3. CASE ~ProtectsPosition(auto.terms.action, quantity)
    BY <1>3 DEF Reconciled, AutoRow, Status
  <1> QED BY <1>2, <1>3

-----------------------------------------------------------------------------
(* Every step of the composition is a step of the engine or leaves it alone. *)

LEMMA FireSubmits ==
    ASSUME FiringInv, Fire
    PROVE  \E side \in Side, symbol \in Symbols, quantity \in Quantities :
              Submit(Robot, side, symbol, quantity)
  <1>1. monitor.claimed \in AutoIds /\ autos[monitor.claimed].status = "TRIGGERED"
    BY DEF FiringInv, ClaimInv, Fire
  <1>2. /\ autos[monitor.claimed].terms.action \in Side
        /\ autos[monitor.claimed].terms.symbol \in Symbols
    BY <1>1 DEF FiringInv, AutoTypeOK, AutoRow, Terms
  <1>3. autos[monitor.claimed].terms.quantity \in Quantities
    BY <1>1 DEF FiringInv, SizeInv
  <1> QED BY <1>2, <1>3 DEF Fire

LEMMA AutoStepIsEngineStep ==
    ASSUME FiringInv, [AutoNext]_allVars
    PROVE  [Next]_vars
  <1>1. CASE UNCHANGED allVars
    BY <1>1 DEF allVars
  <1>2. ASSUME NEW s \in Sessions, EngineAlone(s)
        PROVE  Next
    BY <1>2 DEF EngineAlone, Next, Advance
  <1>3. ASSUME NEW s \in Sessions, SettleAndReconcile(s) \/ UserFills(s) \/ UserFails(s)
        PROVE  Next
    BY <1>3 DEF SettleAndReconcile, UserFills, UserFails, Next, Advance
  <1>4. CASE Fire
    BY <1>4, FireSubmits, RobotAssumption DEF Next
  <1>5. CASE RobotFills \/ RobotIsRejected \/ RobotHasNoWallet
    BY <1>5, RobotAssumption
       DEF RobotFills, RobotIsRejected, RobotHasNoWallet, Next, Advance
  <1>6. CASE MonitorFails
    BY <1>6, RobotAssumption DEF MonitorFails, Next
  <1>7. CASE Claim \/ NothingToClaim \/ RefusedAtDoor \/ Record
    BY <1>7 DEF Claim, NothingToClaim, RefusedAtDoor, Record
  <1>8. ASSUME NEW c \in Clients,
               \/ \E terms \in StopTerms : CheckStopLoss(c, terms)
               \/ InsertStopLoss(c) \/ CreateFails(c)
        PROVE  UNCHANGED vars
    BY <1>8 DEF CheckStopLoss, InsertStopLoss, CreateFails
  <1>9. ASSUME \/ \E terms \in TriggerTerms : CreateTrigger(terms)
               \/ \E a \in AutoIds : Cancel(a)
               \/ \E symbol \in Symbols, price \in MarketPrices : Tick(symbol, price)
        PROVE  UNCHANGED vars
    BY <1>9 DEF CreateTrigger, Cancel, Tick
  <1>10. CASE Waiting /\ UNCHANGED autoVars
    BY <1>10 DEF Waiting
  <1> QED BY <1>1, <1>2, <1>3, <1>4, <1>5, <1>6, <1>7, <1>8, <1>9, <1>10
          DEF AutoNext, MonitorAdvances

-----------------------------------------------------------------------------
(* Each step keeps an automatic order from firing twice. *)

\* Only the trader's reconciliation holds stops.
LEMMA OneHolder ==
    ASSUME FiringInv, NEW s \in Sessions, NEW t \in Sessions,
           pc[s] = "settled", held[t] # {}
    PROVE  t = s
  <1>1. pc[t] = "settled"
    BY DEF FiringInv, HeldInv
  <1> QED BY <1>1, TraderAlone DEF FiringInv, Trader

\* Steps of the engine that leave the automatic orders alone.
LEMMA EngineAloneStep ==
    ASSUME FiringInv, IInv', NEW s \in Sessions, EngineAlone(s)
    PROVE  FiringInv'
  <1>1. UNCHANGED autoVars
    BY DEF EngineAlone
  <1>2. /\ pc[s] # "settled"
        /\ s = Robot => pc[s] # "idle"
        /\ \A t \in Sessions : t # s => pc'[t] = pc[t]
    BY DEF EngineAlone, LockWallet, LockPosition, MissPosition, InsertPosition, Reject,
           WalletMissing, CommitRejection, FindNoWallet, AdoptWallet, InsertWallet,
           ResetWallet, Submit, End, FiringInv, IInv, TypeOK
  <1>3. AutoTypeOK' /\ SizeInv' /\ ClaimInv'
    BY <1>1 DEF autoVars, FiringInv, AutoTypeOK, SizeInv, ClaimInv
  <1>4. HeldInv'
    BY <1>1, <1>2 DEF autoVars, FiringInv, HeldInv
  <1>5. RobotInv'
    BY <1>1, <1>2, RobotAssumption DEF autoVars, FiringInv, RobotInv
  <1> QED BY <1>3, <1>4, <1>5 DEF FiringInv

LEMMA SettleAndReconcileStep ==
    ASSUME FiringInv, IInv', NEW s \in Sessions, SettleAndReconcile(s)
    PROVE  FiringInv'
  <1>1. /\ pc[s] = "execute" /\ pc' = [pc EXCEPT ![s] = "settled"]
        /\ held' = [held EXCEPT ![s] = {a \in AutoIds : /\ autos[a].status = "ACTIVE"
                                                        /\ autos[a].terms.type = "STOP_LOSS"
                                                        /\ autos[a].terms.symbol = req[s].symbol}]
        /\ UNCHANGED <<autos, drafts, monitor, history>>
    BY DEF SettleAndReconcile, Settle
  <1>2. AutoTypeOK' /\ SizeInv' /\ ClaimInv'
    BY <1>1 DEF FiringInv, AutoTypeOK, SizeInv, ClaimInv
  <1>3. HeldInv'
    BY <1>1 DEF FiringInv, AutoTypeOK, HeldInv, IInv, TypeOK
  <1>4. RobotInv'
    BY <1>1, RobotAssumption DEF FiringInv, RobotInv, IInv, TypeOK
  <1> QED BY <1>2, <1>3, <1>4 DEF FiringInv

\* What the commit of a fill does to the stops its transaction had locked.
LEMMA RealignedStops ==
    ASSUME FiringInv, NEW s \in Sessions, pc[s] = "settled", Realign(s)
    PROVE  /\ autos' \in [AutoIds -> AutoRow]
           /\ held' \in [Sessions -> SUBSET AutoIds]
           /\ \A t \in Sessions : held'[t] = {}
           /\ \A a \in AutoIds :
                 \/ autos'[a] = autos[a]
                 \/ /\ autos[a].status = "ACTIVE"
                    /\ autos'[a].status \in {"ACTIVE", "CANCELLED"}
                    /\ autos'[a].terms.quantity \in Quantities
  <1> DEFINE quantity == work[s].position.quantity
  <1>1. quantity \in Int
    BY SettledRows DEF FiringInv, Position
  <1>2. autos' = [a \in AutoIds |-> IF a \in held[s] THEN Reconciled(autos[a], quantity)
                                    ELSE autos[a]]
    BY DEF Realign
  <1>3. held' = [held EXCEPT ![s] = {}]
    BY DEF Realign
  <1> HIDE DEF quantity
  <1>4. ASSUME NEW a \in AutoIds
        PROVE  /\ autos'[a] \in AutoRow
               /\ \/ autos'[a] = autos[a]
                  \/ /\ autos[a].status = "ACTIVE"
                     /\ autos'[a].status \in {"ACTIVE", "CANCELLED"}
                     /\ autos'[a].terms.quantity \in Quantities
    <2>1. autos[a] \in AutoRow
      BY DEF FiringInv, AutoTypeOK
    <2>2. CASE a \in held[s]
      <3>1. autos[a].status = "ACTIVE"
        BY <2>2 DEF FiringInv, HeldInv
      <3>2. autos[a].terms.quantity \in Quantities
        BY <3>1 DEF FiringInv, SizeInv
      <3>3. autos'[a] = Reconciled(autos[a], quantity)
        BY <1>2, <2>2
      <3> QED BY <1>1, <2>1, <3>1, <3>2, <3>3, ReconciledType
    <2>3. CASE a \notin held[s]
      BY <1>2, <2>1, <2>3
    <2> QED BY <2>2, <2>3
  <1>5. \A t \in Sessions : held'[t] = {}
    BY <1>3, OneHolder DEF FiringInv, AutoTypeOK
  <1>6. held' \in [Sessions -> SUBSET AutoIds]
    BY <1>3 DEF FiringInv, AutoTypeOK
  <1>7. autos' \in [AutoIds -> AutoRow]
    BY <1>2, <1>4
  <1> QED BY <1>4, <1>5, <1>6, <1>7

LEMMA TradedType ==
    ASSUME FiringInv, NEW s \in Sessions
    PROVE  /\ Traded(s) \in [AutoIds -> Past]
           /\ \A a \in AutoIds : Traded(s)[a].placed = history[a].placed
  BY DEF FiringInv, AutoTypeOK, Traded, Past

LEMMA UserFillsStep ==
    ASSUME FiringInv, IInv', NEW s \in Sessions, UserFills(s)
    PROVE  FiringInv'
  <1>1. /\ s # Robot /\ pc[s] = "settled" /\ pc' = [pc EXCEPT ![s] = "idle"]
        /\ Realign(s) /\ history' = Traded(s) /\ monitor' = monitor
    BY DEF UserFills, CommitFill, End
  <1>2. /\ autos' \in [AutoIds -> AutoRow]
        /\ held' \in [Sessions -> SUBSET AutoIds]
        /\ \A t \in Sessions : held'[t] = {}
        /\ \A a \in AutoIds :
              \/ autos'[a] = autos[a]
              \/ /\ autos[a].status = "ACTIVE"
                 /\ autos'[a].status \in {"ACTIVE", "CANCELLED"}
                 /\ autos'[a].terms.quantity \in Quantities
    BY <1>1, RealignedStops
  <1>3. /\ history' \in [AutoIds -> Past]
        /\ \A a \in AutoIds : history'[a].placed = history[a].placed
    BY <1>1, TradedType
  <1>4. AutoTypeOK'
    BY <1>1, <1>2, <1>3 DEF FiringInv, AutoTypeOK, Realign
  <1>5. SizeInv' /\ HeldInv'
    BY <1>2 DEF FiringInv, SizeInv, HeldInv
  <1>6. RobotInv'
    BY <1>1, RobotAssumption DEF FiringInv, RobotInv, IInv, TypeOK
  <1>7. ClaimInv'
    <2>1. monitor.phase \in {"firing", "placing", "answered"} =>
             /\ monitor.claimed \in AutoIds /\ autos'[monitor.claimed].status = "TRIGGERED"
             /\ history'[monitor.claimed].placed = history[monitor.claimed].placed
      BY <1>2, <1>3 DEF FiringInv, ClaimInv
    <2>2. \A a \in AutoIds :
             /\ autos'[a].status \in {"NONE", "ACTIVE", "CANCELLED"} =>
                   history'[a].placed = {}
             /\ history'[a].placed = {} \/ \E id \in OrderIds : history'[a].placed = {id}
      BY <1>2, <1>3 DEF FiringInv, ClaimInv
    <2> QED BY <1>1, <2>1, <2>2 DEF FiringInv, ClaimInv
  <1> QED BY <1>4, <1>5, <1>6, <1>7 DEF FiringInv

LEMMA UserFailsStep ==
    ASSUME FiringInv, IInv', NEW s \in Sessions, UserFails(s)
    PROVE  FiringInv'
  <1>1. /\ s # Robot /\ pc' = [pc EXCEPT ![s] = "idle"]
        /\ held' = [held EXCEPT ![s] = {}]
        /\ UNCHANGED <<autos, drafts, monitor, history>>
    BY DEF UserFails, Abort, End
  <1>2. AutoTypeOK' /\ SizeInv' /\ ClaimInv'
    BY <1>1 DEF FiringInv, AutoTypeOK, SizeInv, ClaimInv
  <1>3. HeldInv'
    BY <1>1 DEF FiringInv, HeldInv, AutoTypeOK, IInv, TypeOK
  <1>4. RobotInv'
    BY <1>1, RobotAssumption DEF FiringInv, RobotInv, IInv, TypeOK
  <1> QED BY <1>2, <1>3, <1>4 DEF FiringInv

LEMMA DraftStep ==
    ASSUME FiringInv, IInv', NEW c \in Clients,
           (\E terms \in StopTerms : CheckStopLoss(c, terms)) \/ CreateFails(c)
    PROVE  FiringInv'
  <1>1. UNCHANGED <<pc, autos, held, monitor, history>>
    BY DEF CheckStopLoss, CreateFails, vars
  <1>2. drafts' \in [Clients -> {NoDraft} \cup {{terms} : terms \in StopTerms}]
    BY DEF CheckStopLoss, CreateFails, FiringInv, AutoTypeOK
  <1> QED BY <1>1, <1>2
          DEF FiringInv, AutoTypeOK, SizeInv, HeldInv, RobotInv, ClaimInv

LEMMA InsertAutoStep ==
    ASSUME FiringInv, IInv', NEW terms \in StopTerms \cup TriggerTerms,
           InsertAuto(terms), UNCHANGED <<pc, held, monitor>>,
           drafts' \in [Clients -> {NoDraft} \cup {{stop} : stop \in StopTerms}]
    PROVE  FiringInv'
  <1>1. PICK a \in AutoIds, raced \in BOOLEAN :
          /\ autos[a].status = "NONE"
          /\ autos' = [autos EXCEPT ![a] = [terms |-> terms, status |-> "ACTIVE",
                                            order |-> 0, reason |-> "NONE"]]
          /\ history' = [history EXCEPT ![a].raced = raced]
    BY DEF InsertAuto
  <1>2. terms \in Terms /\ terms.quantity \in Quantities
    BY TermsTypes
  <1>3. [terms |-> terms, status |-> "ACTIVE", order |-> 0, reason |-> "NONE"] \in AutoRow
    BY <1>2 DEF AutoRow, Status
  <1>4. AutoTypeOK'
    <2>1. autos' \in [AutoIds -> AutoRow]
      BY <1>1, <1>3 DEF FiringInv, AutoTypeOK
    <2>2. history' \in [AutoIds -> Past]
      BY <1>1 DEF FiringInv, AutoTypeOK, Past
    <2> QED BY <2>1, <2>2 DEF FiringInv, AutoTypeOK
  <1>5. \A b \in AutoIds : history'[b].placed = history[b].placed
    BY <1>1 DEF FiringInv, AutoTypeOK, Past
  <1>6. \A b \in AutoIds : b # a => autos'[b] = autos[b]
    BY <1>1 DEF FiringInv, AutoTypeOK
  <1>7. autos'[a].status = "ACTIVE" /\ autos'[a].terms.quantity \in Quantities
    BY <1>1, <1>2 DEF FiringInv, AutoTypeOK
  <1>8. SizeInv' /\ HeldInv' /\ RobotInv'
    BY <1>1, <1>6, <1>7 DEF FiringInv, AutoTypeOK, SizeInv, HeldInv, RobotInv
  <1>9. ClaimInv'
    BY <1>1, <1>5, <1>6, <1>7 DEF FiringInv, ClaimInv
  <1> QED BY <1>4, <1>8, <1>9 DEF FiringInv

LEMMA CancelStep ==
    ASSUME FiringInv, IInv', NEW a \in AutoIds, Cancel(a)
    PROVE  FiringInv'
  <1>1. /\ autos[a].status = "ACTIVE" /\ a \notin Locked
        /\ autos' = [autos EXCEPT ![a].status = "CANCELLED", ![a].reason = "USER"]
        /\ UNCHANGED <<pc, held, drafts, monitor, history>>
    BY DEF Cancel, vars
  <1>2. /\ \A b \in AutoIds : autos'[b].terms = autos[b].terms
        /\ \A b \in AutoIds : b # a => autos'[b] = autos[b]
        /\ autos'[a].status = "CANCELLED"
    BY <1>1 DEF FiringInv, AutoTypeOK, AutoRow
  <1>3. AutoTypeOK'
    <2>1. autos' \in [AutoIds -> AutoRow]
      BY <1>1 DEF FiringInv, AutoTypeOK, AutoRow, Status
    <2> QED BY <1>1, <2>1 DEF FiringInv, AutoTypeOK
  <1>4. SizeInv' /\ RobotInv'
    BY <1>1, <1>2 DEF FiringInv, SizeInv, RobotInv
  <1>5. HeldInv'
    BY <1>1, <1>2 DEF FiringInv, AutoTypeOK, HeldInv, Locked
  <1>6. ClaimInv'
    BY <1>1, <1>2 DEF FiringInv, ClaimInv
  <1> QED BY <1>3, <1>4, <1>5, <1>6 DEF FiringInv

-----------------------------------------------------------------------------
(* The monitor. *)

\* Steps that change the monitor alone and do not start an order.
LEMMA QuietMonitorStep ==
    ASSUME FiringInv, IInv', UNCHANGED <<pc, autos, held, drafts, history>>,
           monitor' \in Monitor,
           \/ monitor.phase \in {"idle", "evaluating"}
              /\ monitor'.phase \in {"idle", "evaluating"}
           \/ monitor.phase = "firing" /\ monitor'.phase = "answered"
              /\ monitor'.claimed = monitor.claimed
    PROVE  FiringInv'
  BY DEF FiringInv, AutoTypeOK, SizeInv, HeldInv, RobotInv, ClaimInv

LEMMA TickStep ==
    ASSUME FiringInv, IInv', NEW symbol \in Symbols, NEW price \in MarketPrices,
           Tick(symbol, price)
    PROVE  FiringInv'
  <1>1. monitor' \in Monitor /\ monitor'.phase = "evaluating" /\ monitor.phase = "idle"
    BY TermsTypes, TriggerAssumption DEF Tick, Monitor, Quiet
  <1>2. UNCHANGED <<pc, autos, held, drafts, history>>
    BY DEF Tick, vars
  <1> QED BY <1>1, <1>2, QuietMonitorStep

LEMMA NothingToClaimStep ==
    ASSUME FiringInv, IInv', NothingToClaim
    PROVE  FiringInv'
  <1>1. monitor' \in Monitor /\ monitor'.phase = "idle" /\ monitor.phase = "evaluating"
    BY TermsTypes DEF NothingToClaim, Quiet
  <1>2. UNCHANGED <<pc, autos, held, drafts, history>>
    BY DEF NothingToClaim, vars
  <1> QED BY <1>1, <1>2, QuietMonitorStep

LEMMA RefusedAtDoorStep ==
    ASSUME FiringInv, IInv', RefusedAtDoor
    PROVE  FiringInv'
  <1>1. monitor \in Monitor
    BY DEF FiringInv, AutoTypeOK
  <1>2. /\ monitor' = [monitor EXCEPT !.phase = "answered", !.reason = "MARKET"]
        /\ monitor.phase = "firing"
        /\ UNCHANGED <<pc, autos, held, drafts, history>>
    BY DEF RefusedAtDoor, vars
  <1>3. monitor' \in Monitor /\ monitor'.phase = "answered"
        /\ monitor'.claimed = monitor.claimed
    BY <1>1, <1>2 DEF Monitor
  <1> QED BY <1>2, <1>3, QuietMonitorStep

LEMMA ClaimStep ==
    ASSUME FiringInv, IInv', Claim
    PROVE  FiringInv'
  <1>1. PICK a \in Claimable :
          /\ autos' = [autos EXCEPT ![a].status = "TRIGGERED"]
          /\ monitor' = [monitor EXCEPT !.phase = "firing", !.claimed = a]
    BY DEF Claim
  <1>2. a \in AutoIds /\ autos[a].status = "ACTIVE" /\ a \notin Locked
    BY DEF Claimable
  <1>3. UNCHANGED <<pc, held, drafts, history>> /\ monitor.phase = "evaluating"
    BY DEF Claim, vars
  <1>4. monitor' \in Monitor /\ monitor'.phase = "firing" /\ monitor'.claimed = a
    <2>1. monitor \in Monitor /\ a \in Nat
      BY <1>2 DEF FiringInv, AutoTypeOK, AutoIds
    <2>2. [monitor EXCEPT !.phase = "firing", !.claimed = a] \in Monitor
      BY <2>1 DEF Monitor
    <2> QED BY <1>1, <2>1, <2>2 DEF Monitor
  <1>5. /\ \A b \in AutoIds : autos'[b].terms = autos[b].terms
        /\ \A b \in AutoIds : b # a => autos'[b] = autos[b]
        /\ autos'[a].status = "TRIGGERED"
    BY <1>1, <1>2 DEF FiringInv, AutoTypeOK, AutoRow
  <1>6. AutoTypeOK'
    <2>1. autos' \in [AutoIds -> AutoRow]
      BY <1>1, <1>2 DEF FiringInv, AutoTypeOK, AutoRow, Status
    <2> QED BY <1>3, <1>4, <2>1 DEF FiringInv, AutoTypeOK
  <1>7. SizeInv' /\ RobotInv'
    BY <1>2, <1>3, <1>5 DEF FiringInv, SizeInv, RobotInv
  <1>8. HeldInv'
    BY <1>2, <1>3, <1>5 DEF FiringInv, AutoTypeOK, HeldInv, Locked
  <1>9. ClaimInv'
    BY <1>2, <1>3, <1>4, <1>5 DEF FiringInv, ClaimInv
  <1> QED BY <1>6, <1>7, <1>8, <1>9 DEF FiringInv

LEMMA FireStep ==
    ASSUME FiringInv, IInv', Fire
    PROVE  FiringInv'
  <1>1. /\ pc' = [pc EXCEPT ![Robot] = "wallet"] /\ pc[Robot] = "idle"
        /\ monitor' = [monitor EXCEPT !.phase = "placing"] /\ monitor.phase = "firing"
        /\ UNCHANGED <<autos, held, drafts, history>>
    BY DEF Fire, Submit
  <1>2. monitor \in Monitor
    BY DEF FiringInv, AutoTypeOK
  <1>3. monitor' \in Monitor /\ monitor'.phase = "placing"
        /\ monitor'.claimed = monitor.claimed
    BY <1>1, <1>2 DEF Monitor
  <1>4. AutoTypeOK' /\ SizeInv' /\ RobotInv'
    BY <1>1, <1>3 DEF FiringInv, AutoTypeOK, SizeInv, RobotInv
  <1>5. HeldInv'
    BY <1>1 DEF FiringInv, HeldInv, IInv, TypeOK
  <1>6. ClaimInv'
    BY <1>1, <1>3 DEF FiringInv, ClaimInv
  <1> QED BY <1>4, <1>5, <1>6 DEF FiringInv

\* The claim the monitor's session is working for, once that session is busy.
LEMMA RobotWorksForClaim ==
    ASSUME FiringInv, pc[Robot] # "idle"
    PROVE  /\ monitor.phase = "placing" /\ monitor.claimed \in AutoIds
           /\ autos[monitor.claimed].status = "TRIGGERED"
           /\ history[monitor.claimed].placed = {}
  BY DEF FiringInv, RobotInv, ClaimInv

\* The order is recorded against the claim it was placed for.
LEMMA PlacedOnce ==
    ASSUME FiringInv, pc[Robot] \in {"rejecting", "settled"}
    PROVE  /\ Placed \in [AutoIds -> Past]
           /\ Placed[monitor.claimed].placed = {work[Robot].id}
           /\ work[Robot].id \in OrderIds
           /\ \A a \in AutoIds : a # monitor.claimed => Placed[a] = history[a]
  <1>1. work[Robot].id \in OrderIds
    BY RobotAssumption DEF FiringInv, IInv, IdInv
  <1>2. /\ monitor.claimed \in AutoIds
        /\ history[monitor.claimed].placed = {}
    BY RobotWorksForClaim
  <1>3. history \in [AutoIds -> Past]
    BY DEF FiringInv, AutoTypeOK
  <1>4. Placed[monitor.claimed] =
          [history[monitor.claimed] EXCEPT !.placed = {work[Robot].id}]
    BY <1>2, <1>3 DEF Placed, Past
  <1> QED BY <1>1, <1>2, <1>3, <1>4 DEF Placed, Past

LEMMA RobotFillsStep ==
    ASSUME FiringInv, IInv', RobotFills
    PROVE  FiringInv'
  <1>1. /\ pc[Robot] = "settled" /\ pc' = [pc EXCEPT ![Robot] = "idle"]
        /\ Realign(Robot) /\ drafts' = drafts
        /\ history' = [a \in AutoIds |->
                         [Traded(Robot)[a] EXCEPT !.placed = Placed[a].placed]]
        /\ monitor' = [monitor EXCEPT !.phase = "answered", !.outcome = work[Robot].id]
    BY DEF RobotFills, CommitFill, End, Realign
  <1>2. /\ autos' \in [AutoIds -> AutoRow]
        /\ held' \in [Sessions -> SUBSET AutoIds]
        /\ \A t \in Sessions : held'[t] = {}
        /\ \A a \in AutoIds :
              \/ autos'[a] = autos[a]
              \/ /\ autos[a].status = "ACTIVE"
                 /\ autos'[a].status \in {"ACTIVE", "CANCELLED"}
                 /\ autos'[a].terms.quantity \in Quantities
    BY <1>1, RealignedStops, RobotAssumption
  <1>3. /\ monitor.phase = "placing" /\ monitor.claimed \in AutoIds
        /\ autos[monitor.claimed].status = "TRIGGERED"
    BY <1>1, RobotWorksForClaim
  <1>4. /\ Placed \in [AutoIds -> Past]
        /\ Placed[monitor.claimed].placed = {work[Robot].id}
        /\ work[Robot].id \in OrderIds
        /\ \A a \in AutoIds : a # monitor.claimed => Placed[a] = history[a]
    BY <1>1, PlacedOnce
  <1>5. Traded(Robot) \in [AutoIds -> Past]
    BY TradedType, RobotAssumption
  <1>6. /\ history' \in [AutoIds -> Past]
        /\ \A a \in AutoIds : history'[a].placed = Placed[a].placed
    BY <1>1, <1>4, <1>5 DEF Past
  <1>7. monitor \in Monitor
    BY DEF FiringInv, AutoTypeOK
  <1>8. monitor' \in Monitor /\ monitor'.phase = "answered"
        /\ monitor'.claimed = monitor.claimed
    <2>1. work[Robot].id \in Nat
      BY <1>4 DEF OrderIds
    <2>2. [monitor EXCEPT !.phase = "answered", !.outcome = work[Robot].id] \in Monitor
      BY <1>7, <2>1 DEF Monitor
    <2> QED BY <1>1, <1>7, <2>1, <2>2 DEF Monitor
  <1>9. AutoTypeOK' /\ SizeInv' /\ HeldInv'
    BY <1>1, <1>2, <1>6, <1>8 DEF FiringInv, AutoTypeOK, SizeInv, HeldInv
  <1>10. RobotInv'
    BY <1>1, RobotAssumption DEF RobotInv, FiringInv, IInv, TypeOK
  <1>11. ClaimInv'
    <2>1. autos'[monitor.claimed].status = "TRIGGERED"
      BY <1>2, <1>3
    <2>2. ASSUME NEW a \in AutoIds
          PROVE  /\ autos'[a].status \in {"NONE", "ACTIVE", "CANCELLED"} =>
                       history'[a].placed = {}
                 /\ history'[a].placed = {} \/ \E id \in OrderIds : history'[a].placed = {id}
      <3>1. CASE a = monitor.claimed
        BY <1>4, <1>6, <2>1, <3>1
      <3>2. CASE a # monitor.claimed
        <4>1. history'[a].placed = history[a].placed
          BY <1>4, <1>6, <3>2
        <4> QED BY <1>2, <4>1 DEF FiringInv, ClaimInv
      <3> QED BY <3>1, <3>2
    <2> QED BY <1>3, <1>8, <2>1, <2>2 DEF ClaimInv
  <1> QED BY <1>9, <1>10, <1>11 DEF FiringInv

LEMMA RobotIsRejectedStep ==
    ASSUME FiringInv, IInv', RobotIsRejected
    PROVE  FiringInv'
  <1>1. PICK reason \in {"FUNDS", "POSITION"} :
          monitor' = [monitor EXCEPT !.phase = "answered", !.reason = reason]
    BY DEF RobotIsRejected
  <1>2. /\ pc[Robot] = "rejecting" /\ pc' = [pc EXCEPT ![Robot] = "idle"]
        /\ history' = Placed
        /\ UNCHANGED <<autos, held, drafts>>
    BY DEF RobotIsRejected, CommitRejection, End
  <1>3. /\ monitor.phase = "placing" /\ monitor.claimed \in AutoIds
        /\ autos[monitor.claimed].status = "TRIGGERED"
    BY <1>2, RobotWorksForClaim
  <1>4. /\ Placed \in [AutoIds -> Past]
        /\ Placed[monitor.claimed].placed = {work[Robot].id}
        /\ work[Robot].id \in OrderIds
        /\ \A a \in AutoIds : a # monitor.claimed => Placed[a] = history[a]
    BY <1>2, PlacedOnce
  <1>5. monitor \in Monitor
    BY DEF FiringInv, AutoTypeOK
  <1>6. monitor' \in Monitor /\ monitor'.phase = "answered"
        /\ monitor'.claimed = monitor.claimed
    BY <1>1, <1>5 DEF Monitor
  <1>7. AutoTypeOK' /\ SizeInv'
    BY <1>2, <1>4, <1>6 DEF FiringInv, AutoTypeOK, SizeInv
  <1>8. HeldInv'
    BY <1>2 DEF FiringInv, HeldInv, IInv, TypeOK
  <1>9. RobotInv'
    BY <1>2, RobotAssumption DEF RobotInv, FiringInv, IInv, TypeOK
  <1>10. ClaimInv'
    <2>1. ASSUME NEW a \in AutoIds
          PROVE  /\ autos[a].status \in {"NONE", "ACTIVE", "CANCELLED"} =>
                       Placed[a].placed = {}
                 /\ Placed[a].placed = {} \/ \E id \in OrderIds : Placed[a].placed = {id}
      BY <1>3, <1>4 DEF FiringInv, ClaimInv
    <2> QED BY <1>2, <1>3, <1>6, <2>1 DEF ClaimInv
  <1> QED BY <1>7, <1>8, <1>9, <1>10 DEF FiringInv

\* The monitor gives up, its session with it: RobotHasNoWallet, MonitorFails.
LEMMA GiveUpStep ==
    ASSUME FiringInv, IInv', monitor' = Quiet, UNCHANGED <<autos, drafts, history>>,
           held' \in {held, [held EXCEPT ![Robot] = {}]},
           \/ pc' = [pc EXCEPT ![Robot] = "idle"]
              /\ (pc[Robot] = "settled" => held'[Robot] = {})
           \/ pc' = pc /\ pc[Robot] = "idle"
    PROVE  FiringInv'
  <1>1. Quiet \in Monitor /\ Quiet.phase = "idle"
    BY TermsTypes DEF Quiet
  <1>2. pc'[Robot] = "idle"
    BY RobotAssumption DEF FiringInv, IInv, TypeOK
  <1>3. AutoTypeOK' /\ SizeInv' /\ RobotInv' /\ ClaimInv'
    BY <1>1, <1>2 DEF FiringInv, AutoTypeOK, SizeInv, RobotInv, ClaimInv
  <1>4. HeldInv'
    BY DEF FiringInv, AutoTypeOK, HeldInv, IInv, TypeOK
  <1> QED BY <1>3, <1>4 DEF FiringInv

LEMMA RecordStep ==
    ASSUME FiringInv, IInv', Record
    PROVE  FiringInv'
  <1>1. monitor \in Monitor
    BY DEF FiringInv, AutoTypeOK
  <1>2. /\ monitor.phase = "answered"
        /\ monitor.claimed \in AutoIds /\ autos[monitor.claimed].status = "TRIGGERED"
    BY DEF FiringInv, ClaimInv, Record
  <1>3. /\ autos' = [autos EXCEPT ![monitor.claimed] =
                       IF monitor.outcome # 0 THEN [@ EXCEPT !.order = monitor.outcome]
                       ELSE [@ EXCEPT !.status = "FAILED", !.reason = monitor.reason]]
        /\ monitor' = [Quiet EXCEPT !.phase = "evaluating", !.symbol = monitor.symbol,
                                    !.price = monitor.price]
        /\ UNCHANGED <<pc, held, drafts, history>>
    BY DEF Record, vars
  <1>4. autos[monitor.claimed] \in AutoRow
    BY <1>2 DEF FiringInv, AutoTypeOK
  <1>5. /\ autos'[monitor.claimed] \in AutoRow
        /\ autos'[monitor.claimed].terms = autos[monitor.claimed].terms
        /\ autos'[monitor.claimed].status \in {"TRIGGERED", "FAILED"}
    <2>1. CASE monitor.outcome # 0
      BY <1>1, <1>2, <1>3, <1>4, <2>1 DEF AutoRow, Monitor, FiringInv, AutoTypeOK
    <2>2. CASE monitor.outcome = 0
      BY <1>1, <1>2, <1>3, <1>4, <2>2 DEF AutoRow, Status, Monitor, FiringInv, AutoTypeOK
    <2> QED BY <2>1, <2>2
  <1>6. \A b \in AutoIds : b # monitor.claimed => autos'[b] = autos[b]
    BY <1>3 DEF FiringInv, AutoTypeOK
  <1>7. monitor' \in Monitor /\ monitor'.phase = "evaluating"
    BY <1>1, <1>3 DEF Monitor, Quiet
  <1>8. AutoTypeOK'
    <2>1. autos' \in [AutoIds -> AutoRow]
      BY <1>2, <1>3, <1>5, <1>6 DEF FiringInv, AutoTypeOK
    <2> QED BY <1>3, <1>7, <2>1 DEF FiringInv, AutoTypeOK
  <1>9. SizeInv' /\ RobotInv'
    BY <1>2, <1>3, <1>5, <1>6 DEF FiringInv, SizeInv, RobotInv
  <1>10. HeldInv'
    BY <1>2, <1>3, <1>6 DEF FiringInv, AutoTypeOK, HeldInv
  <1>11. ClaimInv'
    BY <1>2, <1>3, <1>5, <1>6, <1>7 DEF FiringInv, ClaimInv
  <1> QED BY <1>8, <1>9, <1>10, <1>11 DEF FiringInv

-----------------------------------------------------------------------------
(* Theorems *)

LEMMA AutoNextFiringInv == FiringInv /\ [AutoNext]_allVars => FiringInv'
  <1> SUFFICES ASSUME FiringInv, [AutoNext]_allVars PROVE FiringInv'
    OBVIOUS
  <1>1. IInv'
    BY AutoStepIsEngineStep, NextIInv DEF FiringInv
  <1>2. CASE UNCHANGED allVars
    BY <1>1, <1>2 DEF allVars, vars, autoVars, FiringInv, AutoTypeOK, SizeInv, HeldInv,
                      RobotInv, ClaimInv
  <1>3. ASSUME NEW s \in Sessions,
               EngineAlone(s) \/ SettleAndReconcile(s) \/ UserFills(s) \/ UserFails(s)
        PROVE  FiringInv'
    BY <1>1, <1>3, EngineAloneStep, SettleAndReconcileStep, UserFillsStep, UserFailsStep
  <1>4. ASSUME NEW c \in Clients,
               (\E terms \in StopTerms : CheckStopLoss(c, terms)) \/ CreateFails(c)
        PROVE  FiringInv'
    BY <1>1, <1>4, DraftStep
  <1>5. ASSUME NEW c \in Clients, InsertStopLoss(c)
        PROVE  FiringInv'
    <2>1. PICK terms \in drafts[c] : InsertAuto(terms)
      BY <1>5 DEF InsertStopLoss
    <2>2. terms \in StopTerms
      BY <2>1 DEF FiringInv, AutoTypeOK, NoDraft
    <2>3. /\ UNCHANGED <<pc, held, monitor>>
          /\ drafts' \in [Clients -> {NoDraft} \cup {{stop} : stop \in StopTerms}]
      BY <1>5 DEF InsertStopLoss, vars, FiringInv, AutoTypeOK
    <2> QED BY <1>1, <2>1, <2>2, <2>3, InsertAutoStep
  <1>6. ASSUME NEW terms \in TriggerTerms, CreateTrigger(terms)
        PROVE  FiringInv'
    <2>1. /\ UNCHANGED <<pc, held, monitor>> /\ InsertAuto(terms)
          /\ drafts' \in [Clients -> {NoDraft} \cup {{stop} : stop \in StopTerms}]
      BY <1>6 DEF CreateTrigger, vars, FiringInv, AutoTypeOK
    <2> QED BY <1>1, <2>1, InsertAutoStep
  <1>7. ASSUME NEW a \in AutoIds, Cancel(a)
        PROVE  FiringInv'
    BY <1>1, <1>7, CancelStep
  <1>8. ASSUME NEW symbol \in Symbols, NEW price \in MarketPrices, Tick(symbol, price)
        PROVE  FiringInv'
    BY <1>1, <1>8, TickStep
  <1>9. CASE MonitorAdvances
    <2>1. CASE RobotHasNoWallet
      <3>1. /\ monitor' = Quiet /\ UNCHANGED <<autos, held, drafts, history>>
            /\ pc[Robot] = "wallet" /\ pc' = [pc EXCEPT ![Robot] = "idle"]
        BY <2>1 DEF RobotHasNoWallet, WalletMissing, End
      <3> QED BY <1>1, <3>1, GiveUpStep
    <2> QED BY <1>1, <1>9, <2>1, ClaimStep, NothingToClaimStep, FireStep,
               RefusedAtDoorStep, RobotFillsStep, RobotIsRejectedStep, RecordStep
            DEF MonitorAdvances
  <1>10. CASE MonitorFails
    <2>1. /\ monitor' = Quiet /\ UNCHANGED <<autos, drafts, history>>
          /\ held' = [held EXCEPT ![Robot] = {}]
      BY <1>10 DEF MonitorFails
    <2>2. \/ pc' = [pc EXCEPT ![Robot] = "idle"] /\ held'[Robot] = {}
          \/ pc' = pc /\ pc[Robot] = "idle"
      <3>1. CASE monitor.phase = "placing"
        BY <1>10, <2>1, <3>1, RobotAssumption
           DEF MonitorFails, Abort, End, FiringInv, AutoTypeOK
      <3>2. CASE monitor.phase # "placing"
        BY <1>10, <3>2 DEF MonitorFails, FiringInv, RobotInv, vars
      <3> QED BY <3>1, <3>2
    <2> QED BY <1>1, <2>1, <2>2, GiveUpStep
  <1>11. CASE Waiting /\ UNCHANGED autoVars
    BY <1>1, <1>11 DEF Waiting, vars, autoVars, FiringInv, AutoTypeOK, SizeInv, HeldInv,
                       RobotInv, ClaimInv
  <1> QED BY <1>2, <1>3, <1>4, <1>5, <1>6, <1>7, <1>8, <1>9, <1>10, <1>11 DEF AutoNext

\* The composition keeps its invariant, the engine's included.
THEOREM FiringInvariance == AutoSpec => []FiringInv
  BY AutoInitFiringInv, AutoNextFiringInv, PTL DEF AutoSpec

\* Claims, cancels, fills and failures leave the tables well formed.
THEOREM AutoTypeCorrect == AutoSpec => []AutoTypeOK
  <1>1. FiringInv => AutoTypeOK
    BY DEF FiringInv
  <1> QED BY <1>1, FiringInvariance, PTL

\* With the monitor trading beside the users, the engine still does only
\* what its specification says; its theorems hold of the composition.
THEOREM UsesEngine == AutoSpec => EngineSpec
  <1>1. AutoInit => Init
    BY DEF AutoInit
  <1>2. FiringInv /\ [AutoNext]_allVars => [Next]_vars
    BY AutoStepIsEngineStep
  <1> QED BY <1>1, <1>2, FiringInvariance, PTL DEF AutoSpec, EngineSpec, Spec

\* So a fill of the monitor and the fills of users are, together, one at a time.
THEOREM AutoImplementsLedger == AutoSpec => LedgerSpec
  BY UsesEngine, ImplementsLedger DEF EngineSpec

\* No automatic order is ever executed twice, nor after it was cancelled.
THEOREM FiresAtMostOnce == AutoSpec => []FiredAtMostOnce
  <1>1. FiringInv => FiredAtMostOnce
    <2> SUFFICES ASSUME FiringInv, NEW a \in AutoIds
                 PROVE  /\ Cardinality(history[a].placed) <= 1
                        /\ autos[a].status \in {"ACTIVE", "CANCELLED"} =>
                              history[a].placed = {}
      BY DEF FiredAtMostOnce
    <2>1. history[a].placed = {} \/ \E id \in OrderIds : history[a].placed = {id}
      BY DEF FiringInv, ClaimInv
    <2>2. Cardinality(history[a].placed) <= 1
      BY <2>1, FS_EmptySet, FS_Singleton
    <2> QED BY <2>2 DEF FiringInv, ClaimInv
  <1> QED BY <1>1, FiringInvariance, PTL

-----------------------------------------------------------------------------
(* Fates *)

\* A fill writes only the stops its transaction had locked.
LEMMA RealignChange ==
    ASSUME FiringInv, NEW s \in Sessions, Realign(s), NEW a \in AutoIds
    PROVE  \/ a \notin held[s] /\ autos'[a] = autos[a]
           \/ /\ a \in held[s]
              /\ autos[a].status = "ACTIVE" /\ autos[a].terms.type = "STOP_LOSS"
              /\ autos'[a] = Reconciled(autos[a], work[s].position.quantity)
              /\ autos'[a].status \in {"ACTIVE", "CANCELLED"}
              /\ autos'[a].order = autos[a].order
              /\ autos'[a].reason \in {autos[a].reason, "CLOSED", "REVERSED"}
  <1>1. CASE a \notin held[s]
    BY <1>1 DEF Realign
  <1>2. CASE a \in held[s]
    <2>1. autos[a].status = "ACTIVE" /\ autos[a].terms.type = "STOP_LOSS"
      BY <1>2 DEF FiringInv, HeldInv
    <2>2. autos'[a] = Reconciled(autos[a], work[s].position.quantity)
      BY <1>2 DEF Realign
    <2>3. autos[a] \in AutoRow
      BY DEF FiringInv, AutoTypeOK
    <2>4. /\ autos'[a].status \in {"ACTIVE", "CANCELLED"}
          /\ autos'[a].order = autos[a].order
          /\ autos'[a].reason \in {autos[a].reason, "CLOSED", "REVERSED"}
      BY <2>1, <2>2, <2>3 DEF Reconciled, AutoRow, Terms
    <2> QED BY <1>2, <2>1, <2>2, <2>4
  <1> QED BY <1>1, <1>2

LEMMA InsertChange ==
    ASSUME FiringInv, NEW terms \in StopTerms \cup TriggerTerms, InsertAuto(terms)
    PROVE  \A b \in AutoIds :
              /\ \/ autos'[b] = autos[b] /\ history'[b] = history[b]
                 \/ /\ autos[b].status = "NONE" /\ autos'[b].status = "ACTIVE"
                    /\ autos'[b].order = 0 /\ autos'[b].reason = "NONE"
                    /\ autos'[b].terms = terms
                    /\ history'[b].raced = (\/ ~ValidStopLoss(terms, positions[terms.symbol].quantity)
                                            \/ SettledIn(terms.symbol) # {})
              /\ history'[b].placed = history[b].placed
              /\ history'[b].outrun = history[b].outrun
  <1>1. PICK a \in AutoIds :
          /\ autos[a].status = "NONE"
          /\ autos' = [autos EXCEPT ![a] = [terms |-> terms, status |-> "ACTIVE",
                                            order |-> 0, reason |-> "NONE"]]
          /\ history' = [history EXCEPT ![a].raced =
                            \/ ~ValidStopLoss(terms, positions[terms.symbol].quantity)
                            \/ SettledIn(terms.symbol) # {}]
    BY DEF InsertAuto
  <1>2. autos \in [AutoIds -> AutoRow] /\ history \in [AutoIds -> Past]
    BY DEF FiringInv, AutoTypeOK
  <1> DEFINE late == \/ ~ValidStopLoss(terms, positions[terms.symbol].quantity)
                     \/ SettledIn(terms.symbol) # {}
  <1>3. history' = [history EXCEPT ![a].raced = late] /\ late \in BOOLEAN
    BY <1>1
  <1> HIDE DEF late
  <1>4. ASSUME NEW b \in AutoIds, b # a
        PROVE  autos'[b] = autos[b] /\ history'[b] = history[b]
    BY <1>1, <1>2, <1>3, <1>4
  <1>5. autos'[a] = [terms |-> terms, status |-> "ACTIVE", order |-> 0, reason |-> "NONE"]
    BY <1>1, <1>2
  <1>6. history'[a] = [history[a] EXCEPT !.raced = late] /\ history[a] \in Past
    BY <1>2, <1>3
  <1>7. /\ history'[a].placed = history[a].placed /\ history'[a].outrun = history[a].outrun
        /\ history'[a].raced = late
    BY <1>6 DEF Past
  <1>8. ASSUME NEW b \in AutoIds
        PROVE  /\ \/ autos'[b] = autos[b] /\ history'[b] = history[b]
                  \/ /\ autos[b].status = "NONE" /\ autos'[b].status = "ACTIVE"
                     /\ autos'[b].order = 0 /\ autos'[b].reason = "NONE"
                     /\ autos'[b].terms = terms
                     /\ history'[b].raced = late
               /\ history'[b].placed = history[b].placed
               /\ history'[b].outrun = history[b].outrun
    <2>1. CASE b # a
      BY <1>4, <2>1
    <2>2. CASE b = a
      <3>1. autos[a].status = "NONE"
        BY <1>1
      <3>2. /\ autos'[a].status = "ACTIVE" /\ autos'[a].terms = terms
            /\ autos'[a].order = 0 /\ autos'[a].reason = "NONE"
        BY <1>5
      <3> QED BY <1>7, <2>2, <3>1, <3>2, Zenon
    <2> QED BY <2>1, <2>2
  <1> QED BY <1>8 DEF late

LEMMA CancelChange ==
    ASSUME FiringInv, NEW a \in AutoIds, Cancel(a), NEW b \in AutoIds
    PROVE  \/ autos'[b] = autos[b]
           \/ /\ autos[b].status = "ACTIVE" /\ autos'[b].status = "CANCELLED"
              /\ autos'[b].order = autos[b].order /\ autos'[b].reason = "USER"
              /\ autos'[b].terms = autos[b].terms
  <1>1. autos \in [AutoIds -> AutoRow]
    BY DEF FiringInv, AutoTypeOK
  <1> QED BY <1>1 DEF Cancel, AutoRow

LEMMA ClaimChange ==
    ASSUME FiringInv, Claim, NEW b \in AutoIds
    PROVE  \/ autos'[b] = autos[b]
           \/ /\ autos[b].status = "ACTIVE" /\ autos'[b].status = "TRIGGERED"
              /\ autos'[b].order = autos[b].order /\ autos'[b].terms = autos[b].terms
              /\ autos'[b].reason = autos[b].reason
              /\ monitor'.claimed = b
  <1>1. autos \in [AutoIds -> AutoRow] /\ monitor \in Monitor
    BY DEF FiringInv, AutoTypeOK
  <1>2. PICK a \in Claimable :
          /\ autos' = [autos EXCEPT ![a].status = "TRIGGERED"]
          /\ monitor' = [monitor EXCEPT !.phase = "firing", !.claimed = a]
    BY DEF Claim
  <1>3. a \in AutoIds /\ autos[a].status = "ACTIVE"
    BY DEF Claimable
  <1>4. monitor'.claimed = a
    BY <1>1, <1>2 DEF Monitor
  <1>5. b # a => autos'[b] = autos[b]
    BY <1>1, <1>2
  <1>6. autos'[a] = [autos[a] EXCEPT !.status = "TRIGGERED"] /\ autos[a] \in AutoRow
    BY <1>1, <1>2, <1>3
  <1>7. /\ autos'[a].status = "TRIGGERED" /\ autos'[a].order = autos[a].order
        /\ autos'[a].terms = autos[a].terms /\ autos'[a].reason = autos[a].reason
    BY <1>6 DEF AutoRow
  <1> QED BY <1>3, <1>4, <1>5, <1>7

LEMMA RecordChange ==
    ASSUME FiringInv, Record
    PROVE  /\ \A b \in AutoIds : b # monitor.claimed => autos'[b] = autos[b]
           /\ monitor.claimed \in AutoIds /\ autos[monitor.claimed].status = "TRIGGERED"
           /\ autos'[monitor.claimed].terms = autos[monitor.claimed].terms
           /\ monitor.outcome # 0 =>
                /\ autos'[monitor.claimed].order = monitor.outcome
                /\ autos'[monitor.claimed].status = "TRIGGERED"
                /\ autos'[monitor.claimed].reason = autos[monitor.claimed].reason
           /\ monitor.outcome = 0 =>
                /\ autos'[monitor.claimed].order = autos[monitor.claimed].order
                /\ autos'[monitor.claimed].status = "FAILED"
                /\ autos'[monitor.claimed].reason = monitor.reason
  <1>1. /\ monitor.claimed \in AutoIds /\ autos[monitor.claimed].status = "TRIGGERED"
        /\ autos \in [AutoIds -> AutoRow]
    BY DEF FiringInv, ClaimInv, Record, AutoTypeOK
  <1> DEFINE row == autos[monitor.claimed]
  <1>2. /\ \A b \in AutoIds : b # monitor.claimed => autos'[b] = autos[b]
        /\ monitor.outcome # 0 => autos'[monitor.claimed] = [row EXCEPT !.order = monitor.outcome]
        /\ monitor.outcome = 0 =>
              autos'[monitor.claimed] = [row EXCEPT !.status = "FAILED", !.reason = monitor.reason]
    BY <1>1 DEF Record
  <1>3. row \in AutoRow
    BY <1>1
  <1>4. CASE monitor.outcome # 0
    <2>1. autos'[monitor.claimed] = [row EXCEPT !.order = monitor.outcome]
      BY <1>2, <1>4
    <2> HIDE DEF row
    <2>2. /\ autos'[monitor.claimed].order = monitor.outcome
          /\ autos'[monitor.claimed].status = row.status
          /\ autos'[monitor.claimed].reason = row.reason
          /\ autos'[monitor.claimed].terms = row.terms
      BY <1>3, <2>1 DEF AutoRow
    <2> QED BY <1>1, <1>2, <1>4, <2>2 DEF row
  <1>5. CASE monitor.outcome = 0
    <2>1. autos'[monitor.claimed] = [row EXCEPT !.status = "FAILED", !.reason = monitor.reason]
      BY <1>2, <1>5
    <2> HIDE DEF row
    <2>2. /\ autos'[monitor.claimed].order = row.order
          /\ autos'[monitor.claimed].status = "FAILED"
          /\ autos'[monitor.claimed].reason = monitor.reason
          /\ autos'[monitor.claimed].terms = row.terms
      BY <1>3, <2>1 DEF AutoRow
    <2> QED BY <1>1, <1>2, <1>5, <2>2 DEF row
  <1> QED BY <1>4, <1>5

\* The steps that leave the table of automatic orders alone.
Untouched ==
    \/ UNCHANGED allVars
    \/ \E s \in Sessions : EngineAlone(s) \/ SettleAndReconcile(s) \/ UserFails(s)
    \/ \E c \in Clients : (\E terms \in StopTerms : CheckStopLoss(c, terms)) \/ CreateFails(c)
    \/ \E symbol \in Symbols, price \in MarketPrices : Tick(symbol, price)
    \/ NothingToClaim \/ Fire \/ RefusedAtDoor \/ RobotIsRejected \/ RobotHasNoWallet
    \/ MonitorFails
    \/ Waiting /\ UNCHANGED autoVars

LEMMA UntouchedChange ==
    ASSUME FiringInv, Untouched
    PROVE  autos' = autos /\ trades' = trades /\ positions' = positions
  <1>1. ASSUME NEW s \in Sessions, EngineAlone(s)
        PROVE  autos' = autos /\ trades' = trades /\ positions' = positions
    BY <1>1 DEF EngineAlone, autoVars, LockWallet, LockPosition, MissPosition, InsertPosition,
                Reject, WalletMissing, CommitRejection, FindNoWallet, AdoptWallet, InsertWallet,
                ResetWallet, Submit, tables
  <1>2. ASSUME NEW s \in Sessions, SettleAndReconcile(s) \/ UserFails(s)
        PROVE  autos' = autos /\ trades' = trades /\ positions' = positions
    BY <1>2 DEF SettleAndReconcile, Settle, UserFails, Abort, tables
  <1>3. ASSUME \/ Fire \/ RefusedAtDoor \/ RobotIsRejected \/ RobotHasNoWallet \/ MonitorFails
               \/ NothingToClaim
        PROVE  autos' = autos /\ trades' = trades /\ positions' = positions
    BY <1>3 DEF Fire, Submit, RefusedAtDoor, RobotIsRejected, CommitRejection,
                RobotHasNoWallet, WalletMissing, MonitorFails, Abort, NothingToClaim, tables, vars
  <1>4. ASSUME \/ UNCHANGED allVars
               \/ \E c \in Clients :
                     (\E terms \in StopTerms : CheckStopLoss(c, terms)) \/ CreateFails(c)
               \/ \E symbol \in Symbols, price \in MarketPrices : Tick(symbol, price)
               \/ Waiting /\ UNCHANGED autoVars
        PROVE  autos' = autos /\ trades' = trades /\ positions' = positions
    BY <1>4 DEF allVars, autoVars, vars, CheckStopLoss, CreateFails, Tick, Waiting
  <1> QED BY <1>1, <1>2, <1>3, <1>4 DEF Untouched

\* Every step of the composition, by what it does to the automatic orders.
LEMMA StepKinds ==
    ASSUME FiringInv, [AutoNext]_allVars
    PROVE  \/ Untouched
           \/ \E s \in Sessions : UserFills(s)
           \/ RobotFills
           \/ \E c \in Clients : InsertStopLoss(c)
           \/ \E terms \in TriggerTerms : CreateTrigger(terms)
           \/ \E a \in AutoIds : Cancel(a)
           \/ Claim
           \/ Record
  BY DEF AutoNext, MonitorAdvances, Untouched

LEMMA InsertStopChange ==
    ASSUME FiringInv, NEW c \in Clients, InsertStopLoss(c)
    PROVE  \E terms \in StopTerms : InsertAuto(terms)
  BY DEF InsertStopLoss, FiringInv, AutoTypeOK, NoDraft

\* What a step of the composition does to an automatic order.
LEMMA RowStep ==
    ASSUME FiringInv, [AutoNext]_allVars, NEW b \in AutoIds
    PROVE  \/ autos'[b] = autos[b]
           \/ /\ autos[b].status \in {"NONE", "ACTIVE"}
              /\ autos'[b].status \in {"ACTIVE", "CANCELLED", "TRIGGERED"}
              /\ autos'[b].order \in {0, autos[b].order}
              /\ autos'[b].reason \in {autos[b].reason, "NONE", "USER", "CLOSED", "REVERSED"}
           \/ Record /\ b = monitor.claimed
  <1> DEFINE Goal ==
           \/ autos'[b] = autos[b]
           \/ /\ autos[b].status \in {"NONE", "ACTIVE"}
              /\ autos'[b].status \in {"ACTIVE", "CANCELLED", "TRIGGERED"}
              /\ autos'[b].order \in {0, autos[b].order}
              /\ autos'[b].reason \in {autos[b].reason, "NONE", "USER", "CLOSED", "REVERSED"}
           \/ Record /\ b = monitor.claimed
  <1> SUFFICES Goal
    OBVIOUS
  <1>1. CASE Untouched
    BY <1>1, UntouchedChange
  <1>2. ASSUME NEW s \in Sessions, Realign(s)
        PROVE  Goal
    BY <1>2, RealignChange
  <1>3. ASSUME NEW terms \in StopTerms \cup TriggerTerms, InsertAuto(terms)
        PROVE  Goal
    BY <1>3, InsertChange
  <1>4. ASSUME NEW a \in AutoIds, Cancel(a)
        PROVE  Goal
    BY <1>4, CancelChange
  <1>5. CASE Claim
    BY <1>5, ClaimChange
  <1>6. CASE Record
    BY <1>6, RecordChange
  <1>7. ASSUME NEW s \in Sessions, UserFills(s)
        PROVE  Goal
    BY <1>2, <1>7 DEF UserFills
  <1>8. CASE RobotFills
    BY <1>2, <1>8, RobotAssumption DEF RobotFills
  <1>9. ASSUME NEW c \in Clients, InsertStopLoss(c)
        PROVE  Goal
    BY <1>3, <1>9, InsertStopChange
  <1>10. ASSUME NEW terms \in TriggerTerms, CreateTrigger(terms)
         PROVE  Goal
    BY <1>3, <1>10 DEF CreateTrigger
  <1> HIDE DEF Goal
  <1> QED BY <1>1, <1>4, <1>5, <1>6, <1>7, <1>8, <1>9, <1>10, StepKinds

\* Once an automatic order has left ACTIVE, what becomes of it is settled, but
\* that the monitor may still record the failure of one it has claimed: neither
\* a fill nor a cancel, nor a failure of the monitor, touches it again.
THEOREM FatesStand == AutoSpec => FatesAreFinal
  <1>1. ASSUME FiringInv, [AutoNext]_allVars, NEW a \in AutoIds,
               autos[a].status \in {"TRIGGERED", "FAILED", "CANCELLED"}
        PROVE  /\ autos'[a].terms = autos[a].terms
               /\ autos'[a].status # autos[a].status =>
                     autos[a].status = "TRIGGERED" /\ autos'[a].status = "FAILED"
    BY <1>1, RowStep, RecordChange
  <1>2. FiringInv /\ [AutoNext]_allVars =>
           \A a \in AutoIds :
              autos[a].status \in {"TRIGGERED", "FAILED", "CANCELLED"} =>
                 /\ autos'[a].terms = autos[a].terms
                 /\ autos'[a].status # autos[a].status =>
                       autos[a].status = "TRIGGERED" /\ autos'[a].status = "FAILED"
    BY <1>1
  <1> QED BY <1>2, FiringInvariance, PTL DEF AutoSpec, FatesAreFinal

\* No fill cancels or resizes a price trigger: the only automatic orders a
\* transaction that trades writes are the stops it had locked, and those are
\* stop-losses.
THEOREM TriggersOutliveFills == AutoSpec => OutlivesFills
  <1> DEFINE Outlives(a) ==
        autos[a].terms.type = "PRICE_TRIGGER" /\ autos[a].status = "ACTIVE"
           /\ trades' # trades => autos'[a] = autos[a]
  <1>1. ASSUME FiringInv, [AutoNext]_allVars, NEW a \in AutoIds
        PROVE  Outlives(a)
    <2>1. CASE Untouched
      BY <1>1, <2>1, UntouchedChange
    <2>2. ASSUME NEW s \in Sessions, UserFills(s)
          PROVE  Outlives(a)
      BY <1>1, <2>2, RealignChange DEF UserFills
    <2>3. CASE RobotFills
      BY <1>1, <2>3, RobotAssumption, RealignChange DEF RobotFills
    <2>4. CASE \/ \E c \in Clients : InsertStopLoss(c)
               \/ \E terms \in TriggerTerms : CreateTrigger(terms)
               \/ \E b \in AutoIds : Cancel(b)
               \/ Claim
               \/ Record
      BY <2>4 DEF InsertStopLoss, CreateTrigger, Cancel, Claim, Record, vars
    <2> HIDE DEF Outlives
    <2> QED BY <1>1, <2>1, <2>2, <2>3, <2>4, StepKinds
  <1>2. FiringInv /\ [AutoNext]_allVars => \A a \in AutoIds : Outlives(a)
    BY <1>1
  <1> QED BY <1>2, FiringInvariance, PTL DEF AutoSpec, OutlivesFills

-----------------------------------------------------------------------------
(* What is recorded is true *)

\* Order ids only grow, and a session that has taken one keeps it.
LEMMA NumberedStep ==
    ASSUME IInv, [Next]_vars
    PROVE  /\ nextId' >= nextId
           /\ \A s \in Sessions : pc'[s] \in Numbered =>
                 \/ pc[s] \in Numbered /\ work'[s].id = work[s].id
                 \/ work'[s].id = nextId
  <1> DEFINE Goal ==
           /\ nextId' >= nextId
           /\ \A s \in Sessions : pc'[s] \in Numbered =>
                 \/ pc[s] \in Numbered /\ work'[s].id = work[s].id
                 \/ work'[s].id = nextId
  <1> SUFFICES Goal
    OBVIOUS
  <1>1. /\ nextId \in Nat /\ work \in [Sessions -> Work]
        /\ pc \in [Sessions -> {"idle", "open", "wallet", "position", "insert", "execute",
                                "rejecting", "settled"}]
    BY DEF IInv, TypeOK
  <1>2. ASSUME NEW s \in Sessions, nextId' = nextId, End(s)
        PROVE  Goal
    BY <1>1, <1>2 DEF End, Numbered
  <1>3. ASSUME NEW s \in Sessions, nextId' = nextId, work' = work,
               pc' = [pc EXCEPT ![s] = "wallet"] \/ pc' = [pc EXCEPT ![s] = "insert"]
                  \/ pc' = [pc EXCEPT ![s] = "open"] \/ pc' = pc
        PROVE  Goal
    BY <1>1, <1>3 DEF Numbered
  <1>4. ASSUME NEW s \in Sessions, LockWallet(s) \/ LockPosition(s) \/ InsertPosition(s)
        PROVE  Goal
    BY <1>1, <1>4 DEF LockWallet, LockPosition, InsertPosition, Numbered
  <1>5. ASSUME NEW s \in Sessions, Reject(s)
        PROVE  Goal
    BY <1>1, <1>5 DEF Reject, Numbered, Work
  <1>6. ASSUME NEW s \in Sessions, Settle(s)
        PROVE  Goal
    <2>1. /\ nextId' = nextId + 1 /\ pc' = [pc EXCEPT ![s] = "settled"]
          /\ work'[s].id = nextId /\ \A t \in Sessions : t # s => work'[t] = work[t]
      BY <1>1, <1>6 DEF Settle
    <2> QED BY <1>1, <2>1 DEF Numbered
  <1>7. ASSUME NEW s \in Sessions,
               \/ WalletMissing(s) \/ CommitRejection(s) \/ CommitFill(s) \/ AdoptWallet(s)
               \/ Abort(s) \/ \E balance \in Balances : InsertWallet(s, balance)
        PROVE  Goal
    <2>1. nextId' = nextId /\ End(s)
      BY <1>7 DEF WalletMissing, CommitRejection, CommitFill, AdoptWallet, Abort, InsertWallet
    <2> QED BY <1>2, <2>1
  <1>8. ASSUME NEW s \in Sessions,
               \/ \E side \in Side, symbol \in Symbols, quantity \in Quantities :
                     Submit(s, side, symbol, quantity)
               \/ MissPosition(s) \/ FindNoWallet(s)
               \/ \E balance \in Balances : ResetWallet(s, balance)
        PROVE  Goal
    <2>1. /\ nextId' = nextId /\ work' = work
          /\ \/ pc' = [pc EXCEPT ![s] = "wallet"] \/ pc' = [pc EXCEPT ![s] = "insert"]
             \/ pc' = [pc EXCEPT ![s] = "open"] \/ pc' = pc
      BY <1>8 DEF Submit, MissPosition, FindNoWallet, ResetWallet
    <2> QED BY <1>3, <2>1
  <1>9. CASE UNCHANGED vars
    BY <1>1, <1>9 DEF vars
  <1>10. CASE Waiting
    BY <1>9, <1>10 DEF Waiting
  <1> HIDE DEF Goal
  <1> QED BY <1>4, <1>5, <1>6, <1>7, <1>8, <1>9, <1>10 DEF Next, Advance

\* A step of the engine writes at most the row of the order whose transaction
\* commits.
LEMMA OrdersStep ==
    ASSUME IInv, [Next]_vars, NEW id \in OrderIds,
           \A s \in Sessions : pc[s] \in Numbered => work[s].id # id
    PROVE  orders'[id] = orders[id]
  <1> DEFINE Goal == orders'[id] = orders[id]
  <1> SUFFICES Goal
    OBVIOUS
  <1>1. ASSUME NEW s \in Sessions, CommitRejection(s) \/ CommitFill(s)
        PROVE  Goal
    BY <1>1 DEF CommitRejection, CommitFill, Numbered, IInv, TypeOK
  <1>2. ASSUME NEW s \in Sessions,
               \/ WalletMissing(s) \/ LockWallet(s) \/ LockPosition(s) \/ MissPosition(s)
               \/ InsertPosition(s) \/ Reject(s) \/ Settle(s) \/ AdoptWallet(s) \/ Abort(s)
               \/ FindNoWallet(s)
               \/ \E balance \in Balances : InsertWallet(s, balance) \/ ResetWallet(s, balance)
               \/ \E side \in Side, symbol \in Symbols, quantity \in Quantities :
                     Submit(s, side, symbol, quantity)
        PROVE  Goal
    BY <1>2 DEF WalletMissing, LockWallet, LockPosition, MissPosition, InsertPosition, Reject,
                Settle, AdoptWallet, Abort, FindNoWallet, InsertWallet, ResetWallet, Submit,
                tables
  <1>3. CASE UNCHANGED vars \/ Waiting
    BY <1>3 DEF vars, Waiting
  <1> HIDE DEF Goal
  <1> QED BY <1>1, <1>2, <1>3 DEF Next, Advance

\* An order is recorded as placed by the commit that writes it.
LEMMA PlacedStep ==
    ASSUME FiringInv, [AutoNext]_allVars, NEW b \in AutoIds
    PROVE  \/ history'[b].placed = history[b].placed
           \/ /\ RobotFills \/ RobotIsRejected
              /\ b = monitor.claimed
              /\ history'[b].placed = {work[Robot].id}
  <1> DEFINE Goal ==
           \/ history'[b].placed = history[b].placed
           \/ /\ RobotFills \/ RobotIsRejected
              /\ b = monitor.claimed
              /\ history'[b].placed = {work[Robot].id}
  <1> SUFFICES Goal
    OBVIOUS
  <1>1. ASSUME NEW s \in Sessions, EngineAlone(s) \/ SettleAndReconcile(s) \/ UserFails(s)
        PROVE  Goal
    BY <1>1 DEF EngineAlone, autoVars, SettleAndReconcile, UserFails
  <1>2. ASSUME NEW s \in Sessions, UserFills(s)
        PROVE  Goal
    BY <1>2, TradedType DEF UserFills
  <1>3. ASSUME NEW terms \in StopTerms \cup TriggerTerms, InsertAuto(terms)
        PROVE  Goal
    BY <1>3, InsertChange
  <1>4. CASE RobotFills
    <2>1. pc[Robot] = "settled"
      BY <1>4 DEF RobotFills, CommitFill
    <2>2. Traded(Robot) \in [AutoIds -> Past] /\ Placed \in [AutoIds -> Past]
      BY <2>1, TradedType, PlacedOnce, RobotAssumption
    <2>3. history'[b].placed = Placed[b].placed
      BY <1>4, <2>2 DEF RobotFills, Past
    <2> QED BY <1>4, <2>1, <2>3, PlacedOnce
  <1>5. CASE RobotIsRejected
    <2>1. pc[Robot] = "rejecting" /\ history' = Placed
      BY <1>5 DEF RobotIsRejected, CommitRejection
    <2> QED BY <1>5, <2>1, PlacedOnce
  <1>6. CASE \/ Claim \/ NothingToClaim \/ Fire \/ RefusedAtDoor \/ Record
             \/ RobotHasNoWallet \/ MonitorFails \/ UNCHANGED allVars
             \/ Waiting /\ UNCHANGED autoVars
    BY <1>6 DEF Claim, NothingToClaim, Fire, RefusedAtDoor, Record, RobotHasNoWallet,
                MonitorFails, allVars, autoVars
  <1>7. ASSUME NEW c \in Clients,
               (\E terms \in StopTerms : CheckStopLoss(c, terms)) \/ CreateFails(c)
        PROVE  Goal
    BY <1>7 DEF CheckStopLoss, CreateFails
  <1>8. ASSUME NEW c \in Clients, InsertStopLoss(c)
        PROVE  Goal
    BY <1>3, <1>8, InsertStopChange
  <1>9. ASSUME NEW terms \in TriggerTerms, CreateTrigger(terms)
        PROVE  Goal
    BY <1>3, <1>9 DEF CreateTrigger
  <1>10. ASSUME \/ \E a \in AutoIds : Cancel(a)
                \/ \E symbol \in Symbols, price \in MarketPrices : Tick(symbol, price)
         PROVE  Goal
    BY <1>10 DEF Cancel, Tick
  <1> HIDE DEF Goal
  <1> QED BY <1>1, <1>2, <1>4, <1>5, <1>6, <1>7, <1>8, <1>9, <1>10
          DEF AutoNext, MonitorAdvances

\* The terms a claim was made for stand until its outcome is recorded, and
\* after.
LEMMA TermsStand ==
    ASSUME FiringInv, [AutoNext]_allVars, NEW b \in AutoIds,
           history[b].placed # {} \/ autos[b].status = "TRIGGERED"
    PROVE  autos'[b].terms = autos[b].terms
  <1>1. autos[b].status \notin {"NONE", "ACTIVE"}
    BY DEF FiringInv, ClaimInv
  <1> QED BY <1>1, RowStep, RecordChange

\* An order that was placed is never written again, nor its id taken.
LEMMA PlacedStands ==
    ASSUME FiringInv, PlacedInv, [AutoNext]_allVars,
           NEW a \in AutoIds, NEW id \in history[a].placed
    PROVE  /\ id \in OrderIds /\ orders'[id] = orders[id]
           /\ id < nextId'
           /\ \A s \in Sessions : pc'[s] \in Numbered => work'[s].id # id
           /\ autos'[a].terms = autos[a].terms
  <1>1. id \in OrderIds
    BY DEF FiringInv, AutoTypeOK, Past
  <1>2. /\ id < nextId /\ nextId \in Nat /\ id \in Nat
        /\ \A s \in Sessions : pc[s] \in Numbered => work[s].id # id
    BY <1>1 DEF PlacedInv, OrderIds, FiringInv, IInv, TypeOK
  <1>3. IInv /\ [Next]_vars /\ IInv'
    BY AutoStepIsEngineStep, NextIInv DEF FiringInv
  <1>4. orders'[id] = orders[id]
    BY <1>1, <1>2, <1>3, OrdersStep
  <1>5. /\ id < nextId'
        /\ \A s \in Sessions : pc'[s] \in Numbered => work'[s].id # id
    <2>1. nextId' \in Nat
      BY <1>3 DEF IInv, TypeOK
    <2> QED BY <1>2, <1>3, <2>1, NumberedStep
  <1> QED BY <1>1, <1>4, <1>5, TermsStand

\* The commit of the monitor's session: the order is of the claim's terms, and
\* the answer carries its status.
LEMMA RobotOrder ==
    ASSUME FiringInv, OutcomeInv, [AutoNext]_allVars,
           NEW filled \in BOOLEAN, IF filled THEN RobotFills ELSE RobotIsRejected
    PROVE  /\ monitor.claimed \in AutoIds /\ history[monitor.claimed].placed = {}
           /\ history'[monitor.claimed].placed = {work[Robot].id}
           /\ work[Robot].id \in OrderIds /\ work[Robot].id < nextId'
           /\ pc[Robot] \in Numbered
           /\ \A s \in Sessions : pc'[s] \notin Numbered
           /\ orders'[work[Robot].id] =
                 OrderFor(autos'[monitor.claimed].terms, IF filled THEN "FILLED" ELSE "REJECTED")
           /\ monitor'.phase = "answered" /\ monitor'.claimed = monitor.claimed
           /\ monitor'.outcome = IF filled THEN work[Robot].id ELSE 0
  <1>1. /\ pc[Robot] \in Numbered
        /\ orders' = [orders EXCEPT ![work[Robot].id] =
                         OrderOf(Robot, IF filled THEN "FILLED" ELSE "REJECTED")]
        /\ nextId' = nextId /\ pc' = [pc EXCEPT ![Robot] = "idle"]
    BY DEF RobotFills, RobotIsRejected, CommitFill, CommitRejection, End, Numbered
  <1>2. /\ monitor.phase = "placing" /\ monitor.claimed \in AutoIds
        /\ autos[monitor.claimed].status = "TRIGGERED"
        /\ history[monitor.claimed].placed = {}
    BY <1>1, RobotWorksForClaim DEF Numbered
  <1>3. work[Robot].id \in OrderIds /\ work[Robot].id < nextId
    BY <1>1, RobotAssumption DEF FiringInv, IInv, IdInv, Numbered
  <1>4. \A s \in Sessions : pc'[s] \notin Numbered
    <2> SUFFICES ASSUME NEW s \in Sessions, pc'[s] \in Numbered PROVE FALSE
      OBVIOUS
    <2>1. s # Robot /\ pc[s] \in Numbered
      BY <1>1, RobotAssumption DEF FiringInv, IInv, TypeOK, Numbered
    <2> QED BY <1>1, <2>1, TraderAlone, RobotAssumption DEF FiringInv, Numbered, Trader
  <1>5. autos'[monitor.claimed].terms = autos[monitor.claimed].terms
    BY <1>2, TermsStand
  <1>6. req[Robot] = RequestOf(autos[monitor.claimed].terms)
    BY <1>1 DEF OutcomeInv, AnswerInv, Numbered
  <1>7. orders'[work[Robot].id] =
           OrderFor(autos'[monitor.claimed].terms, IF filled THEN "FILLED" ELSE "REJECTED")
    <2>1. orders'[work[Robot].id] = OrderOf(Robot, IF filled THEN "FILLED" ELSE "REJECTED")
      BY <1>1, <1>3 DEF FiringInv, IInv, TypeOK
    <2> QED BY <1>5, <1>6, <2>1 DEF OrderOf, OrderFor, RequestOf
  <1>8. /\ monitor'.phase = "answered" /\ monitor'.claimed = monitor.claimed
        /\ monitor'.outcome = IF filled THEN work[Robot].id ELSE 0
    <2>1. monitor \in Monitor /\ monitor.outcome = 0
      BY <1>2 DEF FiringInv, AutoTypeOK, OutcomeInv, AnswerInv
    <2>2. CASE filled
      BY <2>1, <2>2 DEF RobotFills, Monitor
    <2>3. CASE ~filled
      <3>1. PICK reason \in {"FUNDS", "POSITION"} :
              monitor' = [monitor EXCEPT !.phase = "answered", !.reason = reason]
        BY <2>3 DEF RobotIsRejected
      <3> QED BY <2>1, <2>3, <3>1 DEF Monitor
    <2> QED BY <2>2, <2>3
  <1>9. history'[monitor.claimed].placed = {work[Robot].id}
    <2>1. history'[monitor.claimed].placed = Placed[monitor.claimed].placed
      <3>1. CASE filled
        <4>1. Traded(Robot) \in [AutoIds -> Past] /\ Placed \in [AutoIds -> Past]
          BY <1>1, TradedType, PlacedOnce, RobotAssumption DEF Numbered
        <4> QED BY <1>2, <3>1, <4>1 DEF RobotFills, Past
      <3>2. CASE ~filled
        BY <3>2 DEF RobotIsRejected
      <3> QED BY <3>1, <3>2
    <2> QED BY <1>1, <2>1, PlacedOnce DEF Numbered
  <1> QED BY <1>1, <1>2, <1>3, <1>4, <1>7, <1>8, <1>9

LEMMA PlacedInvStep ==
    ASSUME FiringInv, OutcomeInv, [AutoNext]_allVars
    PROVE  PlacedInv'
  <1> SUFFICES ASSUME NEW a \in AutoIds, NEW id \in history'[a].placed
               PROVE  /\ id < nextId'
                      /\ \A s \in Sessions : pc'[s] \in Numbered => work'[s].id # id
                      /\ \E status \in {"FILLED", "REJECTED"} :
                            orders'[id] = OrderFor(autos'[a].terms, status)
                      /\ \A b \in AutoIds : id \in history'[b].placed => a = b
    BY DEF PlacedInv
  <1>1. PlacedInv
    BY DEF OutcomeInv
  <1>2. CASE id \in history[a].placed
    <2>1. \A b \in AutoIds : id \in history'[b].placed => a = b
      <3> SUFFICES ASSUME NEW b \in AutoIds, id \in history'[b].placed PROVE a = b
        OBVIOUS
      <3>1. CASE history'[b].placed = history[b].placed
        BY <1>1, <1>2, <3>1 DEF PlacedInv
      <3>2. CASE RobotFills \/ RobotIsRejected
        <4>1. pc[Robot] \in Numbered /\ work[Robot].id # id
          BY <1>1, <1>2, <3>2, RobotAssumption
             DEF PlacedInv, RobotFills, RobotIsRejected, CommitFill, CommitRejection, Numbered
        <4>2. history'[b].placed = history[b].placed
          BY <4>1, PlacedStep
        <4> QED BY <3>1, <4>2
      <3> QED BY <3>1, <3>2, PlacedStep
    <2>2. /\ id < nextId' /\ orders'[id] = orders[id]
          /\ \A s \in Sessions : pc'[s] \in Numbered => work'[s].id # id
          /\ autos'[a].terms = autos[a].terms
      BY <1>1, <1>2, PlacedStands
    <2> QED BY <1>1, <1>2, <2>1, <2>2 DEF PlacedInv
  <1>3. CASE id \notin history[a].placed
    <2>1. PICK filled \in BOOLEAN : IF filled THEN RobotFills ELSE RobotIsRejected
      BY <1>3, PlacedStep
    <2>2. a = monitor.claimed /\ id = work[Robot].id
      BY <1>3, PlacedStep
    <2>3. \A b \in AutoIds : id \in history'[b].placed => a = b
      <3> SUFFICES ASSUME NEW b \in AutoIds, id \in history'[b].placed, a # b PROVE FALSE
        OBVIOUS
      <3>1. id \in history[b].placed
        BY <2>2, PlacedStep
      <3>2. pc[Robot] \in Numbered
        BY <2>1, RobotOrder
      <3> QED BY <1>1, <2>2, <3>1, <3>2, RobotAssumption DEF PlacedInv
    <2> QED BY <2>1, <2>2, <2>3, RobotOrder
  <1> QED BY <1>2, <1>3

LEMMA LinkInvStep ==
    ASSUME FiringInv, OutcomeInv, [AutoNext]_allVars
    PROVE  LinkInv'
  <1>1. PlacedInv /\ LinkInv /\ AnswerInv
    BY DEF OutcomeInv
  <1>2. ASSUME NEW a \in AutoIds, NEW id \in history[a].placed
        PROVE  id \in history'[a].placed /\ orders'[id] = orders[id]
    <2>1. history'[a].placed = history[a].placed
      <3>1. ASSUME RobotFills \/ RobotIsRejected PROVE history[monitor.claimed].placed = {}
        BY <3>1, RobotWorksForClaim
           DEF RobotFills, RobotIsRejected, CommitFill, CommitRejection
      <3> QED BY <1>2, <3>1, PlacedStep
    <2> QED BY <1>1, <1>2, <2>1, PlacedStands
  <1>3. ASSUME NEW a \in AutoIds, autos'[a].order # 0
        PROVE  /\ autos'[a].status = "TRIGGERED"
               /\ autos'[a].order \in history'[a].placed
               /\ orders'[autos'[a].order].status = "FILLED"
    <2>1. CASE autos'[a] = autos[a]
      BY <1>1, <1>2, <1>3, <2>1 DEF LinkInv
    <2>2. CASE Record /\ a = monitor.claimed
      <3>1. monitor.phase = "answered"
        BY <2>2 DEF Record
      <3>2. CASE monitor.outcome # 0
        BY <1>1, <1>2, <2>2, <3>1, <3>2, RecordChange DEF AnswerInv
      <3>3. CASE monitor.outcome = 0
        <4>1. autos[a].order # 0
          BY <1>3, <2>2, <3>3, RecordChange
        <4>2. /\ autos[a].order \in history[a].placed
              /\ orders[autos[a].order].status = "FILLED"
          BY <1>1, <4>1 DEF LinkInv
        <4>3. orders[autos[a].order].status = "REJECTED"
          BY <1>1, <2>2, <3>1, <3>3, <4>2 DEF AnswerInv
        <4> QED BY <4>2, <4>3
      <3> QED BY <3>2, <3>3
    <2>3. CASE /\ autos[a].status \in {"NONE", "ACTIVE"}
               /\ autos'[a].order \in {0, autos[a].order}
      BY <1>1, <1>3, <2>3 DEF LinkInv
    <2> QED BY <2>1, <2>2, <2>3, RowStep
  <1>4. ASSUME NEW a \in AutoIds, autos'[a].status = "FAILED", NEW id \in history'[a].placed
        PROVE  orders'[id].status = "REJECTED"
    <2>1. CASE autos'[a] = autos[a]
      <3>1. a # monitor.claimed \/ ~(RobotFills \/ RobotIsRejected)
        BY <1>4, <2>1, RobotWorksForClaim
           DEF RobotFills, RobotIsRejected, CommitFill, CommitRejection
      <3>2. id \in history[a].placed
        BY <1>4, <3>1, PlacedStep
      <3> QED BY <1>1, <1>2, <1>4, <2>1, <3>2 DEF LinkInv
    <2>2. CASE Record /\ a = monitor.claimed
      <3>1. /\ monitor.phase = "answered" /\ history' = history /\ orders' = orders
            /\ monitor.outcome = 0
        BY <1>4, <2>2, RecordChange DEF Record, vars
      <3> QED BY <1>1, <1>4, <2>2, <3>1 DEF AnswerInv
    <2> QED BY <1>4, <2>1, <2>2, RowStep
  <1> QED BY <1>3, <1>4 DEF LinkInv

\* How the monitor moves.
LEMMA MonitorStep ==
    ASSUME FiringInv, [AutoNext]_allVars
    PROVE  \/ monitor' = monitor /\ ~RobotFills /\ ~RobotIsRejected
           \/ monitor'.phase \in {"idle", "evaluating"} /\ monitor'.outcome = 0
              /\ monitor'.reason = "NONE"
           \/ /\ Claim \/ Fire
              /\ monitor.phase \in {"evaluating", "firing"}
              /\ monitor'.phase \in {"firing", "placing"}
              /\ monitor'.outcome = monitor.outcome /\ monitor'.reason = monitor.reason
           \/ /\ RefusedAtDoor
              /\ monitor.phase = "firing" /\ monitor'.phase = "answered"
              /\ monitor'.claimed = monitor.claimed /\ monitor'.reason = "MARKET"
              /\ monitor'.outcome = monitor.outcome
           \/ RobotFills \/ RobotIsRejected
  <1> DEFINE Goal ==
           \/ monitor' = monitor /\ ~RobotFills /\ ~RobotIsRejected
           \/ monitor'.phase \in {"idle", "evaluating"} /\ monitor'.outcome = 0
              /\ monitor'.reason = "NONE"
           \/ /\ Claim \/ Fire
              /\ monitor.phase \in {"evaluating", "firing"}
              /\ monitor'.phase \in {"firing", "placing"}
              /\ monitor'.outcome = monitor.outcome /\ monitor'.reason = monitor.reason
           \/ /\ RefusedAtDoor
              /\ monitor.phase = "firing" /\ monitor'.phase = "answered"
              /\ monitor'.claimed = monitor.claimed /\ monitor'.reason = "MARKET"
              /\ monitor'.outcome = monitor.outcome
           \/ RobotFills \/ RobotIsRejected
  <1> SUFFICES Goal
    OBVIOUS
  <1>1. monitor \in Monitor
    BY DEF FiringInv, AutoTypeOK
  <1>2. ASSUME monitor' = monitor
        PROVE  Goal
    BY <1>2
  <1>3. CASE NothingToClaim \/ RobotHasNoWallet \/ MonitorFails
    BY <1>3 DEF NothingToClaim, RobotHasNoWallet, MonitorFails, Quiet
  <1>4. CASE \/ Record
             \/ \E symbol \in Symbols, price \in MarketPrices : Tick(symbol, price)
    BY <1>4 DEF Record, Tick, Quiet
  <1>5. CASE Claim \/ Fire
    <2>1. CASE Claim
      <3>1. PICK a \in Claimable :
              monitor' = [monitor EXCEPT !.phase = "firing", !.claimed = a]
        BY <2>1 DEF Claim
      <3>2. monitor.phase = "evaluating"
        BY <2>1 DEF Claim
      <3> QED BY <1>1, <2>1, <3>1, <3>2 DEF Monitor
    <2>2. CASE Fire
      BY <1>1, <2>2 DEF Fire, Monitor
    <2> QED BY <1>5, <2>1, <2>2
  <1>6. CASE RefusedAtDoor
    BY <1>1, <1>6 DEF RefusedAtDoor, Monitor
  <1>7. ASSUME NEW s \in Sessions,
               EngineAlone(s) \/ SettleAndReconcile(s) \/ UserFills(s) \/ UserFails(s)
        PROVE  monitor' = monitor
    BY <1>7 DEF EngineAlone, autoVars, SettleAndReconcile, UserFills, UserFails
  <1>8. ASSUME \/ \E c \in Clients : \/ \E terms \in StopTerms : CheckStopLoss(c, terms)
                                     \/ InsertStopLoss(c) \/ CreateFails(c)
               \/ \E terms \in TriggerTerms : CreateTrigger(terms)
               \/ \E a \in AutoIds : Cancel(a)
               \/ UNCHANGED allVars
               \/ Waiting /\ UNCHANGED autoVars
        PROVE  monitor' = monitor
    BY <1>8 DEF CheckStopLoss, InsertStopLoss, CreateFails, CreateTrigger, Cancel, allVars,
                autoVars
  <1>9. CASE RobotFills \/ RobotIsRejected
    BY <1>9
  <1> HIDE DEF Goal
  <1> QED BY <1>2, <1>3, <1>4, <1>5, <1>6, <1>7, <1>8, <1>9 DEF AutoNext, MonitorAdvances

\* Between its submission and its end the monitor's session keeps its request,
\* and the monitor its claim.
LEMMA RobotStep ==
    ASSUME FiringInv, [AutoNext]_allVars, pc'[Robot] # "idle"
    PROVE  \/ Fire
           \/ pc[Robot] # "idle" /\ req'[Robot] = req[Robot] /\ monitor' = monitor
  <1> DEFINE Goal ==
           \/ Fire
           \/ pc[Robot] # "idle" /\ req'[Robot] = req[Robot] /\ monitor' = monitor
  <1> SUFFICES Goal
    OBVIOUS
  <1>1. /\ req \in [Sessions -> Request] /\ Robot \in Sessions /\ monitor \in Monitor
        /\ pc \in [Sessions -> {"idle", "open", "wallet", "position", "insert", "execute",
                                "rejecting", "settled"}]
    BY RobotAssumption DEF FiringInv, IInv, TypeOK, AutoTypeOK
  <1>2. monitor'.phase = "placing"
    BY AutoNextFiringInv DEF FiringInv, RobotInv
  <1>3. ASSUME NEW s \in Sessions, EngineAlone(s)
        PROVE  Goal
    <2>1. CASE s = Robot
      BY <1>1, <1>3, <2>1
         DEF EngineAlone, autoVars, LockWallet, LockPosition, MissPosition, InsertPosition, Reject
    <2>2. CASE s # Robot
      BY <1>1, <1>3, <2>2
         DEF EngineAlone, autoVars, LockWallet, LockPosition, MissPosition, InsertPosition, Reject,
             WalletMissing, CommitRejection, FindNoWallet, AdoptWallet, InsertWallet,
             ResetWallet, Submit, End
    <2> QED BY <2>1, <2>2
  <1>4. ASSUME NEW s \in Sessions, SettleAndReconcile(s)
        PROVE  Goal
    BY <1>1, <1>4 DEF SettleAndReconcile, Settle
  <1>5. ASSUME NEW s \in Sessions, UserFills(s) \/ UserFails(s)
        PROVE  Goal
    BY <1>1, <1>5 DEF UserFills, UserFails, CommitFill, Abort, End
  <1>6. ASSUME UNCHANGED vars, monitor' = monitor
        PROVE  Goal
    BY <1>6 DEF vars
  <1>7. ASSUME \/ \E c \in Clients : \/ \E terms \in StopTerms : CheckStopLoss(c, terms)
                                     \/ InsertStopLoss(c) \/ CreateFails(c)
               \/ \E terms \in TriggerTerms : CreateTrigger(terms)
               \/ \E a \in AutoIds : Cancel(a)
               \/ UNCHANGED allVars
               \/ Waiting /\ UNCHANGED autoVars
        PROVE  UNCHANGED vars /\ monitor' = monitor
    BY <1>7 DEF CheckStopLoss, InsertStopLoss, CreateFails, CreateTrigger, Cancel, allVars,
                autoVars, Waiting
  <1>8. ~(NothingToClaim \/ RobotHasNoWallet \/ MonitorFails)
    BY <1>2 DEF NothingToClaim, RobotHasNoWallet, MonitorFails, Quiet
  <1>9. ~Record /\ ~(\E symbol \in Symbols, price \in MarketPrices : Tick(symbol, price))
    BY <1>2 DEF Record, Tick, Quiet
  <1>10. ~(Claim \/ RefusedAtDoor)
    BY <1>1, <1>2 DEF Claim, RefusedAtDoor, Monitor
  <1>11. ~(RobotFills \/ RobotIsRejected)
    BY <1>1 DEF RobotFills, RobotIsRejected, CommitFill, CommitRejection, End
  <1>12. CASE Fire
    BY <1>12
  <1> HIDE DEF Goal
  <1> QED BY <1>3, <1>4, <1>5, <1>6, <1>7, <1>8, <1>9, <1>10, <1>11, <1>12
          DEF AutoNext, MonitorAdvances

LEMMA AnswerInvStep ==
    ASSUME FiringInv, OutcomeInv, [AutoNext]_allVars
    PROVE  AnswerInv'
  <1>1. PlacedInv /\ AnswerInv /\ monitor \in Monitor
    BY DEF OutcomeInv, FiringInv, AutoTypeOK
  <1>2. ASSUME pc'[Robot] # "idle"
        PROVE  req'[Robot] = RequestOf(autos'[monitor'.claimed].terms)
    <2>1. CASE Fire
      <3>1. /\ monitor'.claimed = monitor.claimed /\ autos' = autos
            /\ req'[Robot] = RequestOf(autos[monitor.claimed].terms)
        BY <1>1, <2>1, RobotAssumption
           DEF Fire, Monitor, Submit, RequestOf, FiringInv, IInv, TypeOK
      <3> QED BY <3>1
    <2>2. CASE pc[Robot] # "idle" /\ req'[Robot] = req[Robot] /\ monitor' = monitor
      <3>1. autos'[monitor.claimed].terms = autos[monitor.claimed].terms
        BY <2>2, RobotWorksForClaim, TermsStand
      <3> QED BY <1>1, <2>2, <3>1 DEF AnswerInv
    <2> QED BY <1>2, <2>1, <2>2, RobotStep
  <1>3. ASSUME monitor'.phase # "answered"
        PROVE  monitor'.outcome = 0
    <2>1. ~RobotFills /\ ~RobotIsRejected
      BY <1>3, RobotOrder
    <2> QED BY <1>1, <1>3, <2>1, MonitorStep DEF AnswerInv
  <1>4. ASSUME monitor'.phase = "answered"
        PROVE  IF monitor'.outcome # 0
               THEN /\ monitor'.outcome \in history'[monitor'.claimed].placed
                    /\ orders'[monitor'.outcome].status = "FILLED"
               ELSE \A id \in history'[monitor'.claimed].placed : orders'[id].status = "REJECTED"
    <2>1. ASSUME NEW filled \in BOOLEAN, IF filled THEN RobotFills ELSE RobotIsRejected
          PROVE  IF monitor'.outcome # 0
                 THEN /\ monitor'.outcome \in history'[monitor'.claimed].placed
                      /\ orders'[monitor'.outcome].status = "FILLED"
                 ELSE \A id \in history'[monitor'.claimed].placed :
                         orders'[id].status = "REJECTED"
      <3>1. /\ history'[monitor.claimed].placed = {work[Robot].id}
            /\ work[Robot].id \in OrderIds
            /\ orders'[work[Robot].id] =
                  OrderFor(autos'[monitor.claimed].terms,
                           IF filled THEN "FILLED" ELSE "REJECTED")
            /\ monitor'.claimed = monitor.claimed
            /\ monitor'.outcome = IF filled THEN work[Robot].id ELSE 0
        BY <2>1, RobotOrder
      <3>2. orders'[work[Robot].id].status = IF filled THEN "FILLED" ELSE "REJECTED"
        BY <3>1 DEF OrderFor
      <3>3. work[Robot].id # 0
        BY <3>1 DEF OrderIds
      <3> QED BY <3>1, <3>2, <3>3
    <2>2. CASE monitor' = monitor /\ ~RobotFills /\ ~RobotIsRejected
      <3>1. monitor.claimed \in AutoIds
        BY <1>4, <2>2 DEF FiringInv, ClaimInv
      <3>2. history'[monitor.claimed].placed = history[monitor.claimed].placed
        BY <2>2, <3>1, PlacedStep
      <3>3. \A id \in history[monitor.claimed].placed : orders'[id] = orders[id]
        BY <1>1, <3>1, PlacedStands
      <3> QED BY <1>1, <1>4, <2>2, <3>2, <3>3 DEF AnswerInv
    <2>3. CASE RefusedAtDoor
      <3>1. /\ monitor.phase = "firing" /\ monitor'.claimed = monitor.claimed
            /\ monitor'.outcome = monitor.outcome /\ history' = history
        BY <1>1, <2>3 DEF RefusedAtDoor, Monitor
      <3>2. monitor.outcome = 0 /\ history[monitor.claimed].placed = {}
        BY <1>1, <3>1 DEF AnswerInv, FiringInv, ClaimInv
      <3> QED BY <3>1, <3>2
    <2> QED BY <1>4, <2>1, <2>2, <2>3, MonitorStep
  <1> QED BY <1>2, <1>3, <1>4 DEF AnswerInv

LEMMA AutoInitOutcomeInv == AutoInit => OutcomeInv
  <1> SUFFICES ASSUME AutoInit PROVE OutcomeInv
    OBVIOUS
  <1>1. PlacedInv /\ LinkInv
    BY DEF AutoInit, PlacedInv, LinkInv, NoAuto
  <1>2. AnswerInv
    BY RobotAssumption DEF AutoInit, Init, AnswerInv, Quiet
  <1> QED BY <1>1, <1>2 DEF OutcomeInv

\* What the automatic_orders table says of an order is true of the orders
\* table: the order it links is FILLED, is of exactly its terms and is linked
\* by no other, and a FAILED one has no fill.  The link is written two commits
\* after the claim, and other sessions trade in between.
THEOREM RecordsAreTrue == AutoSpec => []RecordedOutcomeIsTrue
  <1>1. FiringInv /\ OutcomeInv /\ [AutoNext]_allVars => OutcomeInv'
    BY PlacedInvStep, LinkInvStep, AnswerInvStep DEF OutcomeInv
  <1>2. FiringInv /\ OutcomeInv => RecordedOutcomeIsTrue
    <2> SUFFICES ASSUME FiringInv, OutcomeInv, NEW a \in AutoIds
                 PROVE  /\ autos[a].order # 0 =>
                              /\ autos[a].status = "TRIGGERED"
                              /\ autos[a].order \in OrderIds
                              /\ orders[autos[a].order] = OrderFor(autos[a].terms, "FILLED")
                              /\ \A b \in AutoIds : autos[b].order = autos[a].order => a = b
                        /\ autos[a].status = "FAILED" =>
                              \A id \in history[a].placed : orders[id].status = "REJECTED"
      BY DEF RecordedOutcomeIsTrue, OrderFor
    <2>1. PlacedInv /\ LinkInv
      BY DEF OutcomeInv
    <2>2. ASSUME autos[a].order # 0
          PROVE  /\ autos[a].status = "TRIGGERED"
                 /\ autos[a].order \in OrderIds
                 /\ orders[autos[a].order] = OrderFor(autos[a].terms, "FILLED")
                 /\ \A b \in AutoIds : autos[b].order = autos[a].order => a = b
      <3>1. /\ autos[a].status = "TRIGGERED" /\ autos[a].order \in history[a].placed
            /\ orders[autos[a].order].status = "FILLED"
        BY <2>1, <2>2 DEF LinkInv
      <3>2. PICK status \in {"FILLED", "REJECTED"} :
              orders[autos[a].order] = OrderFor(autos[a].terms, status)
        BY <2>1, <3>1 DEF PlacedInv
      <3>3. status = "FILLED"
        BY <3>1, <3>2 DEF OrderFor
      <3>4. autos[a].order \in OrderIds
        BY <3>1 DEF FiringInv, AutoTypeOK, Past
      <3>5. \A b \in AutoIds : autos[b].order = autos[a].order => a = b
        BY <2>1, <2>2, <3>1 DEF PlacedInv, LinkInv
      <3> QED BY <3>1, <3>2, <3>3, <3>4, <3>5
    <2> QED BY <2>1, <2>2 DEF LinkInv
  <1> QED BY <1>1, <1>2, AutoInitOutcomeInv, FiringInvariance, PTL DEF AutoSpec

-----------------------------------------------------------------------------
(* Stops fit *)

\* Only a fill moves a position.
LEMMA PositionsStep ==
    ASSUME FiringInv, [AutoNext]_allVars
    PROVE  positions' = positions \/ RobotFills \/ \E s \in Sessions : UserFills(s)
  <1>1. CASE Untouched
    BY <1>1, UntouchedChange
  <1>2. CASE \/ \E c \in Clients : InsertStopLoss(c)
             \/ \E terms \in TriggerTerms : CreateTrigger(terms)
             \/ \E a \in AutoIds : Cancel(a)
             \/ Claim \/ Record
    BY <1>2 DEF InsertStopLoss, CreateTrigger, Cancel, Claim, Record, vars
  <1> QED BY <1>1, <1>2, StepKinds

\* What a fill does to the history of an order.
LEMMA TradedHistory ==
    ASSUME FiringInv, NEW s \in Sessions, pc[s] = "settled", NEW b \in AutoIds,
           \/ s = Robot /\ RobotFills
           \/ UserFills(s)
    PROVE  /\ history'[b].raced <=> history[b].raced /\ b \notin held[s]
           /\ history'[b].outrun <=>
                 \/ history[b].outrun
                 \/ /\ autos[b].status = "TRIGGERED" /\ history[b].placed = {}
                    /\ s # Robot /\ autos[b].terms.symbol = req[s].symbol
  <1> DEFINE raced == history[b].raced /\ b \notin held[s]
             outrun == \/ history[b].outrun
                       \/ /\ autos[b].status = "TRIGGERED" /\ history[b].placed = {}
                          /\ s # Robot /\ autos[b].terms.symbol = req[s].symbol
  <1>1. Traded(s)[b] = [history[b] EXCEPT !.raced = raced, !.outrun = outrun]
    BY DEF Traded
  <1>2. history[b] \in Past
    BY DEF FiringInv, AutoTypeOK
  <1>3. history'[b].raced = Traded(s)[b].raced /\ history'[b].outrun = Traded(s)[b].outrun
    <2>1. Traded(s)[b] \in Past
      BY TradedType
    <2>2. CASE s = Robot /\ RobotFills
      <3>1. history'[b] = [Traded(s)[b] EXCEPT !.placed = Placed[b].placed]
        BY <2>2 DEF RobotFills
      <3> QED BY <2>1, <3>1 DEF Past
    <2>3. CASE UserFills(s)
      BY <2>3 DEF UserFills
    <2> QED BY <2>2, <2>3
  <1> HIDE DEF raced, outrun
  <1>4. Traded(s)[b].raced = raced /\ Traded(s)[b].outrun = outrun
    BY <1>1, <1>2 DEF Past
  <1> QED BY <1>3, <1>4 DEF raced, outrun

\* The steps that leave the table alone, and those that settle or end.
LEMMA UntouchedHistory ==
    ASSUME FiringInv, Untouched
    PROVE  /\ \A b \in AutoIds : /\ history'[b].raced = history[b].raced
                                 /\ history'[b].outrun = history[b].outrun
           /\ \A s \in Sessions : pc'[s] = "settled" =>
                 \/ held'[s] = {a \in ActiveStops : autos[a].terms.symbol = req'[s].symbol}
                 \/ pc[s] = "settled" /\ held'[s] = held[s] /\ req'[s] = req[s]
  <1> DEFINE Kept == \/ history' = history
                     \/ history' = Placed /\ pc[Robot] = "rejecting"
             Goal == \A s \in Sessions : pc'[s] = "settled" =>
                 \/ held'[s] = {a \in ActiveStops : autos[a].terms.symbol = req'[s].symbol}
                 \/ pc[s] = "settled" /\ held'[s] = held[s] /\ req'[s] = req[s]
  <1> SUFFICES Kept /\ Goal
    <2>1. ASSUME history' = Placed, pc[Robot] = "rejecting"
          PROVE  \A b \in AutoIds : /\ history'[b].raced = history[b].raced
                                    /\ history'[b].outrun = history[b].outrun
      BY <2>1 DEF Placed, FiringInv, AutoTypeOK, Past
    <2> QED BY <2>1
  <1>1. /\ req \in [Sessions -> Request] /\ held \in [Sessions -> SUBSET AutoIds]
        /\ pc \in [Sessions -> {"idle", "open", "wallet", "position", "insert", "execute",
                                "rejecting", "settled"}]
        /\ Robot \in Sessions
    BY RobotAssumption DEF FiringInv, IInv, TypeOK, AutoTypeOK
  <1>2. ASSUME NEW t \in Sessions, EngineAlone(t)
        PROVE  Kept /\ Goal
    <2>1. held' = held /\ history' = history
      BY <1>2 DEF EngineAlone, autoVars
    <2>2. \A s \in Sessions : pc'[s] = "settled" => pc[s] = "settled" /\ req'[s] = req[s]
      BY <1>1, <1>2 DEF EngineAlone, LockWallet, LockPosition, MissPosition, InsertPosition,
                        Reject, WalletMissing, CommitRejection, FindNoWallet, AdoptWallet,
                        InsertWallet, ResetWallet, Submit, End
    <2> QED BY <2>1, <2>2
  <1>3. ASSUME NEW t \in Sessions, SettleAndReconcile(t)
        PROVE  Kept /\ Goal
    <2>1. /\ held' = [held EXCEPT ![t] = {a \in AutoIds :
                                            /\ autos[a].status = "ACTIVE"
                                            /\ autos[a].terms.type = "STOP_LOSS"
                                            /\ autos[a].terms.symbol = req[t].symbol}]
          /\ history' = history /\ req' = req /\ pc' = [pc EXCEPT ![t] = "settled"]
      BY <1>3 DEF SettleAndReconcile, Settle
    <2>2. held'[t] = {a \in ActiveStops : autos[a].terms.symbol = req'[t].symbol}
      BY <1>1, <2>1 DEF ActiveStops
    <2> QED BY <1>1, <2>1, <2>2
  <1>4. ASSUME NEW t \in Sessions, history' = history, pc' = [pc EXCEPT ![t] = "idle"],
               req' = [req EXCEPT ![t] = NoRequest],
               held' = held \/ held' = [held EXCEPT ![t] = {}]
        PROVE  Kept /\ Goal
    BY <1>1, <1>4
  <1>5. ASSUME NEW t \in Sessions, UserFails(t)
        PROVE  Kept /\ Goal
    BY <1>4, <1>5 DEF UserFails, Abort, End
  <1>6. CASE RobotHasNoWallet
    BY <1>1, <1>4, <1>6 DEF RobotHasNoWallet, WalletMissing, End
  <1>7. ASSUME history' = history, held' = held, req' = req, pc' = pc
        PROVE  Kept /\ Goal
    BY <1>7
  <1>8. CASE MonitorFails
    <2>1. CASE monitor.phase = "placing"
      BY <1>1, <1>4, <1>8, <2>1 DEF MonitorFails, Abort, End
    <2>2. CASE monitor.phase # "placing"
      <3>1. pc[Robot] = "idle"
        BY <2>2 DEF FiringInv, RobotInv
      <3>2. /\ history' = history /\ req' = req /\ pc' = pc
            /\ held' = [held EXCEPT ![Robot] = {}]
        BY <1>8, <2>2 DEF MonitorFails, vars
      <3> QED BY <1>1, <3>1, <3>2
    <2> QED BY <2>1, <2>2
  <1>9. CASE RobotIsRejected
    <2>1. /\ history' = Placed /\ pc[Robot] = "rejecting" /\ held' = held
          /\ pc' = [pc EXCEPT ![Robot] = "idle"] /\ req' = [req EXCEPT ![Robot] = NoRequest]
      BY <1>9 DEF RobotIsRejected, CommitRejection, End
    <2> QED BY <1>1, <2>1
  <1>10. CASE Fire
    <2>1. /\ history' = history /\ held' = held /\ pc' = [pc EXCEPT ![Robot] = "wallet"]
          /\ \A s \in Sessions : s # Robot => req'[s] = req[s]
      BY <1>1, <1>10 DEF Fire, Submit
    <2> QED BY <1>1, <2>1
  <1>11. CASE \/ UNCHANGED allVars
              \/ \E c \in Clients :
                    (\E terms \in StopTerms : CheckStopLoss(c, terms)) \/ CreateFails(c)
              \/ \E symbol \in Symbols, price \in MarketPrices : Tick(symbol, price)
              \/ NothingToClaim \/ RefusedAtDoor
              \/ Waiting /\ UNCHANGED autoVars
    <2>1. history' = history /\ held' = held /\ req' = req /\ pc' = pc
      BY <1>11 DEF allVars, autoVars, vars, CheckStopLoss, CreateFails, Tick, NothingToClaim,
                   RefusedAtDoor, Waiting
    <2> QED BY <1>7, <2>1
  <1> HIDE DEF Goal, Kept
  <1> QED BY <1>2, <1>3, <1>5, <1>6, <1>8, <1>9, <1>10, <1>11 DEF Untouched

\* What happened to an order that is no longer ACTIVE stays known.
LEMMA HistoryStands ==
    ASSUME FiringInv, [AutoNext]_allVars, NEW b \in AutoIds,
           autos[b].status \notin {"NONE", "ACTIVE"}
    PROVE  /\ history'[b].raced <=> history[b].raced
           /\ history[b].outrun => history'[b].outrun
  <1> DEFINE Goal == /\ history'[b].raced <=> history[b].raced
                     /\ history[b].outrun => history'[b].outrun
  <1> SUFFICES Goal
    OBVIOUS
  <1>1. CASE Untouched
    BY <1>1, UntouchedHistory
  <1>2. ASSUME NEW s \in Sessions, (s = Robot /\ RobotFills) \/ UserFills(s)
        PROVE  Goal
    <2>1. pc[s] = "settled"
      BY <1>2 DEF RobotFills, UserFills, CommitFill
    <2>2. b \notin held[s]
      BY DEF FiringInv, HeldInv
    <2> QED BY <1>2, <2>1, <2>2, TradedHistory
  <1>3. ASSUME NEW terms \in StopTerms \cup TriggerTerms, InsertAuto(terms)
        PROVE  Goal
    BY <1>3, InsertChange
  <1>4. CASE \/ \E a \in AutoIds : Cancel(a)
             \/ Claim \/ Record
    BY <1>4 DEF Cancel, Claim, Record
  <1>5. ASSUME NEW c \in Clients, InsertStopLoss(c)
        PROVE  Goal
    BY <1>3, <1>5, InsertStopChange
  <1>6. ASSUME NEW terms \in TriggerTerms, CreateTrigger(terms)
        PROVE  Goal
    BY <1>3, <1>6 DEF CreateTrigger
  <1> HIDE DEF Goal
  <1> QED BY <1>1, <1>2, <1>4, <1>5, <1>6, StepKinds, RobotAssumption

\* A stop that a fill realigns and keeps fits the position the fill leaves.
LEMMA RealignedFits ==
    ASSUME NEW auto \in AutoRow, NEW quantity \in Int, auto.status = "ACTIVE",
           Reconciled(auto, quantity).status = "ACTIVE"
    PROVE  /\ ProtectsPosition(Reconciled(auto, quantity).terms.action, quantity)
           /\ Reconciled(auto, quantity).terms.quantity <= Magnitude(quantity)
           /\ Reconciled(auto, quantity).terms.symbol = auto.terms.symbol
  <1>1. auto.terms \in Terms
    BY DEF AutoRow
  <1>2. ProtectsPosition(auto.terms.action, quantity)
    BY DEF Reconciled, AutoRow
  <1> DEFINE size == Lesser(auto.terms.quantity, Magnitude(quantity))
  <1>3. Reconciled(auto, quantity) = [auto EXCEPT !.terms.quantity = size]
    BY <1>2 DEF Reconciled
  <1>4. size <= Magnitude(quantity)
    BY <1>1 DEF Terms, Lesser, Magnitude
  <1> HIDE DEF size
  <1>5. /\ [auto EXCEPT !.terms.quantity = size].terms.action = auto.terms.action
        /\ [auto EXCEPT !.terms.quantity = size].terms.symbol = auto.terms.symbol
        /\ [auto EXCEPT !.terms.quantity = size].terms.quantity = size
    BY <1>1 DEF AutoRow, Terms
  <1> QED BY <1>2, <1>3, <1>4, <1>5

\* A fill leaves every ACTIVE stop fitting, or raced: it has realigned those of
\* its symbol but the raced ones, and the others' positions have not moved.
LEMMA FillStopInv ==
    ASSUME FiringInv, StopInv, NEW s \in Sessions,
           (s = Robot /\ RobotFills) \/ UserFills(s)
    PROVE  StopInv'
  <1>1. /\ pc[s] = "settled" /\ pc' = [pc EXCEPT ![s] = "idle"] /\ Realign(s)
        /\ positions' = [positions EXCEPT ![req[s].symbol] = work[s].position]
    BY DEF RobotFills, UserFills, CommitFill, End
  <1>2. /\ req[s].symbol \in Symbols /\ positions \in [Symbols -> Position]
        /\ work[s].position \in Position
    BY <1>1, SettledRows DEF FiringInv, IInv, TypeOK, Request
  <1>3. \A t \in Sessions : pc'[t] # "settled"
    <2> SUFFICES ASSUME NEW t \in Sessions, pc'[t] = "settled" PROVE FALSE
      OBVIOUS
    <2>1. t # s /\ pc[t] = "settled"
      BY <1>1 DEF FiringInv, IInv, TypeOK
    <2> QED BY <1>1, <2>1, TraderAlone DEF FiringInv, Trader
  <1>4. ASSUME NEW a \in AutoIds, autos'[a].status = "ACTIVE",
               autos'[a].terms.type = "STOP_LOSS"
        PROVE  history'[a].raced \/ Fits(a)'
    <2>1. history'[a].raced <=> history[a].raced /\ a \notin held[s]
      BY <1>1, TradedHistory
    <2>2. CASE a \in held[s]
      <3>1. /\ autos[a] \in AutoRow /\ autos[a].status = "ACTIVE"
            /\ autos[a].terms.symbol = req[s].symbol
        BY <1>1, <2>2 DEF FiringInv, AutoTypeOK, HeldInv, StopInv
      <3>2. autos'[a] = Reconciled(autos[a], work[s].position.quantity)
        BY <1>1, <2>2 DEF Realign
      <3>3. work[s].position.quantity \in Int
        BY <1>2 DEF Position
      <3>4. /\ ProtectsPosition(autos'[a].terms.action, work[s].position.quantity)
            /\ autos'[a].terms.quantity <= Magnitude(work[s].position.quantity)
            /\ autos'[a].terms.symbol = req[s].symbol
        BY <1>4, <3>1, <3>2, <3>3, RealignedFits
      <3>5. positions'[req[s].symbol] = work[s].position
        BY <1>1, <1>2
      <3> QED BY <3>4, <3>5 DEF Fits
    <2>3. CASE a \notin held[s]
      <3>1. autos'[a] = autos[a]
        BY <1>1, <2>3 DEF Realign
      <3>2. a \in ActiveStops
        BY <1>4, <3>1 DEF ActiveStops
      <3>3. CASE autos[a].terms.symbol = req[s].symbol
        BY <1>1, <2>1, <2>3, <3>2, <3>3 DEF StopInv
      <3>4. CASE autos[a].terms.symbol # req[s].symbol
        <4>1. autos[a].terms.symbol \in Symbols
          BY DEF FiringInv, AutoTypeOK, AutoRow, Terms
        <4>2. positions'[autos[a].terms.symbol] = positions[autos[a].terms.symbol]
          BY <1>1, <1>2, <3>4, <4>1
        <4>3. history[a].raced \/ Fits(a)
          BY <3>2 DEF StopInv, StopFitsUnlessRaced
        <4> QED BY <2>1, <2>3, <3>1, <4>2, <4>3 DEF Fits
      <3> QED BY <3>3, <3>4
    <2> QED BY <2>2, <2>3
  <1>5. StopFitsUnlessRaced'
    BY <1>4 DEF StopFitsUnlessRaced, ActiveStops
  <1> QED BY <1>3, <1>5 DEF StopInv

\* An order is inserted fitting and unraced, or it counts as raced.
LEMMA InsertStopInv ==
    ASSUME FiringInv, StopInv, NEW terms \in StopTerms \cup TriggerTerms,
           InsertAuto(terms), UNCHANGED <<vars, held>>
    PROVE  StopInv'
  <1>1. ASSUME NEW a \in AutoIds
        PROVE  \/ autos'[a] = autos[a] /\ history'[a] = history[a]
               \/ /\ autos[a].status = "NONE" /\ autos'[a].terms = terms
                  /\ history'[a].raced = (\/ ~ValidStopLoss(terms, positions[terms.symbol].quantity)
                                          \/ SettledIn(terms.symbol) # {})
    BY InsertChange
  <1>2. UNCHANGED <<positions, pc, req, held>>
    BY DEF vars
  <1>3. ASSUME NEW a \in ActiveStops'
        PROVE  history'[a].raced \/ Fits(a)'
    <2>1. CASE autos'[a] = autos[a] /\ history'[a] = history[a]
      BY <1>2, <1>3, <2>1 DEF StopInv, StopFitsUnlessRaced, ActiveStops, Fits
    <2>2. CASE autos'[a].terms = terms /\ ValidStopLoss(terms, positions[terms.symbol].quantity)
      BY <1>2, <2>2 DEF ValidStopLoss, Fits
    <2> QED BY <1>1, <1>3, <2>1, <2>2 DEF ActiveStops
  <1>4. ASSUME NEW s \in Sessions, pc'[s] = "settled"
        PROVE  /\ \A a \in held'[s] : autos'[a].terms.symbol = req'[s].symbol
               /\ \A a \in ActiveStops' :
                     autos'[a].terms.symbol = req'[s].symbol =>
                        a \in held'[s] \/ history'[a].raced
    <2>1. \A a \in held[s] : a \in AutoIds /\ autos[a].status = "ACTIVE"
      BY DEF FiringInv, AutoTypeOK, HeldInv
    <2>2. ASSUME NEW a \in held'[s]
          PROVE  autos'[a].terms.symbol = req'[s].symbol
      <3>1. a \in held[s] /\ a \in AutoIds /\ autos[a].status = "ACTIVE"
        BY <1>2, <2>1
      <3>2. autos'[a] = autos[a]
        BY <1>1, <3>1
      <3> QED BY <1>2, <1>4, <3>1, <3>2 DEF StopInv
    <2>3. ASSUME NEW a \in ActiveStops', autos'[a].terms.symbol = req'[s].symbol
          PROVE  a \in held'[s] \/ history'[a].raced
      <3>1. CASE autos'[a] = autos[a] /\ history'[a] = history[a]
        BY <1>2, <1>4, <2>3, <3>1 DEF StopInv, ActiveStops
      <3>2. CASE autos'[a].terms = terms
        <4>1. s \in SettledIn(terms.symbol)
          BY <1>2, <1>4, <2>3, <3>2 DEF SettledIn
        <4> QED BY <1>1, <1>2, <1>4, <2>3, <3>1, <4>1 DEF ActiveStops
      <3> QED BY <1>1, <2>3, <3>1, <3>2 DEF ActiveStops
    <2> QED BY <2>2, <2>3
  <1> QED BY <1>3, <1>4 DEF StopInv, StopFitsUnlessRaced

\* Steps that only take stops out of ACTIVE.
LEMMA RetireStopInv ==
    ASSUME FiringInv, StopInv, Claim \/ Record \/ \E a \in AutoIds : Cancel(a)
    PROVE  StopInv'
  <1>1. UNCHANGED <<positions, pc, req, held, history>>
    BY DEF Claim, Record, Cancel, vars
  <1>2. ASSUME NEW b \in AutoIds
        PROVE  /\ autos'[b].terms = autos[b].terms
               /\ autos'[b] = autos[b] \/ autos'[b].status # "ACTIVE"
    BY ClaimChange, RecordChange, CancelChange
  <1>3. \A a \in ActiveStops' : a \in ActiveStops
    BY <1>2 DEF ActiveStops
  <1>4. \A a \in ActiveStops : Fits(a)' = Fits(a)
    BY <1>1, <1>2 DEF Fits, ActiveStops
  <1>5. \A s \in Sessions : held[s] \subseteq AutoIds
    BY DEF FiringInv, AutoTypeOK
  <1>6. \A a \in ActiveStops : a \in AutoIds
    BY DEF ActiveStops
  <1> QED BY <1>1, <1>2, <1>3, <1>4, <1>5, <1>6 DEF StopInv, StopFitsUnlessRaced

\* Steps that leave the table alone; a settlement locks every stop there is.
LEMMA UntouchedStopInv ==
    ASSUME FiringInv, StopInv, Untouched
    PROVE  StopInv'
  <1>1. /\ autos' = autos /\ positions' = positions
        /\ \A b \in AutoIds : history'[b].raced = history[b].raced
    BY UntouchedChange, UntouchedHistory
  <1>2. /\ ActiveStops' = ActiveStops /\ ActiveStops \subseteq AutoIds
        /\ \A a \in ActiveStops : Fits(a)' = Fits(a)
    BY <1>1 DEF ActiveStops, Fits
  <1>3. StopFitsUnlessRaced'
    BY <1>1, <1>2 DEF StopInv, StopFitsUnlessRaced
  <1>4. ASSUME NEW s \in Sessions, pc'[s] = "settled"
        PROVE  /\ \A a \in held'[s] : autos'[a].terms.symbol = req'[s].symbol
               /\ \A a \in ActiveStops' :
                     autos'[a].terms.symbol = req'[s].symbol =>
                        a \in held'[s] \/ history'[a].raced
    <2>1. CASE held'[s] = {a \in ActiveStops : autos[a].terms.symbol = req'[s].symbol}
      BY <1>1, <1>2, <2>1
    <2>2. CASE pc[s] = "settled" /\ held'[s] = held[s] /\ req'[s] = req[s]
      BY <1>1, <1>2, <2>2 DEF StopInv
    <2> QED BY <1>4, <2>1, <2>2, UntouchedHistory
  <1> QED BY <1>3, <1>4 DEF StopInv

LEMMA StopInvStep ==
    ASSUME FiringInv, StopInv, [AutoNext]_allVars
    PROVE  StopInv'
  <1>1. ASSUME NEW c \in Clients, InsertStopLoss(c)
        PROVE  StopInv'
    BY <1>1, InsertStopChange, InsertStopInv DEF InsertStopLoss
  <1>2. ASSUME NEW terms \in TriggerTerms, CreateTrigger(terms)
        PROVE  StopInv'
    BY <1>2, InsertStopInv DEF CreateTrigger
  <1> QED BY <1>1, <1>2, StepKinds, UntouchedStopInv, RetireStopInv, FillStopInv,
             RobotAssumption

\* Every stop that is ACTIVE closes the committed position and no more than it,
\* whatever fills, creations, cancels and claims interleave, but for the one
\* that was inserted on a position a fill had overtaken: reconcile_for_position
\* locks the stops with the settlement and writes them with its commit.
THEOREM StopsFit == AutoSpec => []StopFitsUnlessRaced
  <1>1. AutoInit => StopInv
    BY DEF AutoInit, Init, StopInv, StopFitsUnlessRaced, ActiveStops, NoAuto
  <1>2. FiringInv /\ StopInv /\ [AutoNext]_allVars => StopInv'
    BY StopInvStep
  <1>3. StopInv => StopFitsUnlessRaced
    BY DEF StopInv
  <1> QED BY <1>1, <1>2, <1>3, FiringInvariance, PTL DEF AutoSpec

-----------------------------------------------------------------------------
(* A refused stop had been outrun *)

\* Once a session's order is refused, nobody else moves the position it read.
LEMMA RejectingReads ==
    ASSUME IInv, [Next]_vars, NEW s \in Sessions, pc'[s] = "rejecting",
           pc[s] = "rejecting" => work[s].position = positions[req[s].symbol]
    PROVE  work'[s].position = positions'[req'[s].symbol]
  <1> DEFINE Goal == work'[s].position = positions'[req'[s].symbol]
  <1> SUFFICES Goal
    OBVIOUS
  <1>1. /\ req \in [Sessions -> Request] /\ work \in [Sessions -> Work]
        /\ pc \in [Sessions -> {"idle", "open", "wallet", "position", "insert", "execute",
                                "rejecting", "settled"}]
    BY DEF IInv, TypeOK
  <1>2. ASSUME NEW t \in Sessions, Reject(t)
        PROVE  Goal
    <2>1. CASE t = s
      <3>1. work[s].position = positions[req[s].symbol]
        BY <1>2, <2>1 DEF Reject, IInv, ReadInv
      <3>2. /\ work'[s].position = work[s].position
            /\ UNCHANGED <<positions, req>>
        BY <1>1, <1>2, <2>1 DEF Reject, tables, Work
      <3> QED BY <3>1, <3>2
    <2>2. CASE t # s
      BY <1>1, <1>2, <2>2 DEF Reject, tables
    <2> QED BY <2>1, <2>2
  <1>3. ASSUME NEW t \in Sessions, CommitFill(t)
        PROVE  Goal
    <2>1. pc[t] = "settled" /\ pc' = [pc EXCEPT ![t] = "idle"]
      BY <1>3 DEF CommitFill, End
    <2>2. t # s /\ pc[s] = "rejecting"
      BY <1>1, <2>1
    <2> QED BY <2>1, <2>2, TraderAlone DEF Trader
  <1>4. ASSUME NEW t \in Sessions, positions' = positions,
               pc' = [pc EXCEPT ![t] = "idle"], req' = [req EXCEPT ![t] = NoRequest],
               work' = [work EXCEPT ![t] = NoWork]
        PROVE  Goal
    BY <1>1, <1>4
  <1>5. ASSUME NEW t \in Sessions,
               \/ WalletMissing(t) \/ CommitRejection(t) \/ AdoptWallet(t)
               \/ Abort(t) \/ \E balance \in Balances : InsertWallet(t, balance)
        PROVE  Goal
    <2>1. positions' = positions /\ End(t)
      BY <1>5 DEF WalletMissing, CommitRejection, AdoptWallet, Abort, InsertWallet, tables
    <2> QED BY <1>4, <2>1 DEF End
  <1>6. ASSUME NEW t \in Sessions, LockWallet(t) \/ LockPosition(t) \/ InsertPosition(t)
        PROVE  Goal
    BY <1>1, <1>6 DEF LockWallet, LockPosition, InsertPosition, tables
  <1>7. ASSUME NEW t \in Sessions, Settle(t)
        PROVE  Goal
    <2>1. /\ positions' = positions /\ req' = req /\ pc' = [pc EXCEPT ![t] = "settled"]
          /\ \A u \in Sessions : u # t => work'[u] = work[u]
      BY <1>1, <1>7 DEF Settle, tables
    <2> QED BY <1>1, <2>1
  <1>8. ASSUME NEW t \in Sessions,
               \/ \E side \in Side, symbol \in Symbols, quantity \in Quantities :
                     Submit(t, side, symbol, quantity)
               \/ MissPosition(t) \/ FindNoWallet(t)
               \/ \E balance \in Balances : ResetWallet(t, balance)
        PROVE  Goal
    <2>1. /\ positions' = positions /\ work' = work
          /\ \/ pc' = [pc EXCEPT ![t] = "wallet"] \/ pc' = [pc EXCEPT ![t] = "insert"]
             \/ pc' = [pc EXCEPT ![t] = "open"] \/ pc' = pc
          /\ \A u \in Sessions : req'[u] = req[u] \/ (u = t /\ pc'[t] = "wallet")
      BY <1>1, <1>8 DEF Submit, MissPosition, FindNoWallet, ResetWallet, tables
    <2> QED BY <1>1, <2>1
  <1>9. CASE UNCHANGED vars \/ Waiting
    BY <1>9 DEF vars, Waiting
  <1> HIDE DEF Goal
  <1> QED BY <1>2, <1>3, <1>5, <1>6, <1>7, <1>8, <1>9 DEF Next, Advance

\* A claim that nothing disturbs still fits: what it was claimed as, it fitted
\* then, and whoever has moved the position since has outrun it.
LEMMA ClaimStillFits ==
    ASSUME FiringInv, StopInv, RefusalInv, [AutoNext]_allVars,
           monitor'.phase \in {"firing", "placing"}, Undisturbed(monitor.claimed)'
    PROVE  Fits(monitor.claimed)'
  <1>1. ~RobotFills /\ ~RobotIsRejected
    BY DEF RobotFills, RobotIsRejected, FiringInv, AutoTypeOK, Monitor
  <1>2. CASE Claim
    <2>1. PICK a \in Claimable :
            /\ autos' = [autos EXCEPT ![a].status = "TRIGGERED"]
            /\ monitor' = [monitor EXCEPT !.phase = "firing", !.claimed = a]
      BY <1>2 DEF Claim
    <2>2. a \in AutoIds /\ autos[a].status = "ACTIVE" /\ monitor'.claimed = a
      BY <2>1 DEF Claimable, FiringInv, AutoTypeOK, Monitor
    <2>3. autos'[a].terms = autos[a].terms /\ history' = history /\ positions' = positions
      BY <1>2, <2>1, <2>2 DEF Claim, vars, FiringInv, AutoTypeOK, AutoRow
    <2>4. a \in ActiveStops /\ ~history[a].raced
      BY <2>2, <2>3 DEF ActiveStops, Undisturbed
    <2>5. Fits(a)
      BY <2>4 DEF StopInv, StopFitsUnlessRaced
    <2> QED BY <2>2, <2>3, <2>5 DEF Fits
  <1>3. CASE Fire
    <2>1. /\ monitor.phase = "firing" /\ monitor'.claimed = monitor.claimed
          /\ UNCHANGED <<autos, history, positions>>
      BY <1>3 DEF Fire, Submit, tables, FiringInv, AutoTypeOK, Monitor
    <2>2. Undisturbed(monitor.claimed)
      BY <2>1 DEF Undisturbed
    <2>3. Fits(monitor.claimed)
      BY <2>1, <2>2 DEF RefusalInv
    <2> QED BY <2>1, <2>3 DEF Fits
  <1>4. CASE monitor' = monitor
    <2> DEFINE a == monitor.claimed
    <2>1. a \in AutoIds /\ autos[a].status = "TRIGGERED" /\ history[a].placed = {}
      BY <1>4 DEF FiringInv, ClaimInv
    <2> HIDE DEF a
    <2>2. autos'[a].terms = autos[a].terms
      BY <2>1, TermsStand
    <2>3. Undisturbed(a) /\ ~history'[a].outrun
      BY <1>4, <2>1, <2>2, HistoryStands DEF Undisturbed, a
    <2>4. Fits(a)
      BY <1>4, <2>3 DEF RefusalInv, a
    <2>5. positions'[autos[a].terms.symbol] = positions[autos[a].terms.symbol]
      <3>1. ASSUME NEW s \in Sessions, UserFills(s)
            PROVE  positions'[autos[a].terms.symbol] = positions[autos[a].terms.symbol]
        <4>1. /\ pc[s] = "settled" /\ s # Robot
              /\ positions' = [positions EXCEPT ![req[s].symbol] = work[s].position]
          BY <3>1 DEF UserFills, CommitFill
        <4>2. autos[a].terms.symbol # req[s].symbol
          BY <2>1, <2>3, <3>1, <4>1, TradedHistory
        <4>3. autos[a].terms.symbol \in Symbols /\ positions \in [Symbols -> Position]
          BY <2>1 DEF FiringInv, IInv, TypeOK, AutoTypeOK, AutoRow, Terms
        <4> QED BY <4>1, <4>2, <4>3
      <3> QED BY <1>1, <3>1, PositionsStep
    <2> QED BY <1>4, <2>2, <2>4, <2>5 DEF Fits, a
  <1> QED BY <1>1, <1>2, <1>3, <1>4, MonitorStep

\* A stop that fits is never refused for its position.
LEMMA FittingIsValid ==
    ASSUME FiringInv, NEW a \in AutoIds, Fits(a)
    PROVE  ValidAgainstPosition(autos[a].terms.action, autos[a].terms.quantity,
                                positions[autos[a].terms.symbol].quantity)
  <1>1. autos[a].terms \in Terms /\ positions[autos[a].terms.symbol].quantity \in Int
    BY DEF FiringInv, IInv, TypeOK, Position, AutoTypeOK, AutoRow, Terms
  <1> QED BY <1>1 DEF Fits, ProtectsPosition, ValidAgainstPosition, Magnitude, Terms

\* So a claim that is answered with a refusal for its position was disturbed.
LEMMA RefusalExplained ==
    ASSUME FiringInv, OutcomeInv, RefusalInv, [AutoNext]_allVars,
           monitor'.phase = "answered", monitor'.reason = "POSITION"
    PROVE  ~Undisturbed(monitor.claimed)'
  <1>1. monitor \in Monitor
    BY DEF FiringInv, AutoTypeOK
  <1>2. CASE monitor' = monitor
    <2>1. monitor.claimed \in AutoIds /\ autos[monitor.claimed].status = "TRIGGERED"
      BY <1>2 DEF FiringInv, ClaimInv
    <2>2. ~Undisturbed(monitor.claimed)
      BY <1>2 DEF RefusalInv
    <2>3. /\ autos'[monitor.claimed].terms = autos[monitor.claimed].terms
          /\ history'[monitor.claimed].raced <=> history[monitor.claimed].raced
          /\ history[monitor.claimed].outrun => history'[monitor.claimed].outrun
      BY <2>1, TermsStand, HistoryStands
    <2> QED BY <1>2, <2>2, <2>3 DEF Undisturbed
  <1>3. CASE RobotFills
    <2>1. monitor.phase = "placing" /\ monitor'.reason = monitor.reason
      BY <1>1, <1>3, RobotWorksForClaim DEF RobotFills, CommitFill, Monitor
    <2> QED BY <2>1 DEF RefusalInv
  <1>4. CASE RobotIsRejected
    <2> DEFINE a == monitor.claimed
    <2>1. /\ pc[Robot] = "rejecting" /\ autos' = autos /\ history' = Placed
      BY <1>4 DEF RobotIsRejected, CommitRejection
    <2>2. a \in AutoIds /\ monitor.phase = "placing" /\ monitor'.claimed = a
      BY <1>1, <1>4, <2>1, RobotWorksForClaim, RobotOrder DEF RobotIsRejected, Monitor
    <2> HIDE DEF a
    <2>3. ~ValidAgainstPosition(req[Robot].side, req[Robot].quantity,
                                work[Robot].position.quantity)
      BY <1>1, <1>4 DEF RobotIsRejected, Monitor
    <2>4. /\ req[Robot] = RequestOf(autos[a].terms)
          /\ work[Robot].position = positions[req[Robot].symbol]
      BY <2>1 DEF OutcomeInv, AnswerInv, RefusalInv, a
    <2>5. ~Fits(a)
      BY <2>2, <2>3, <2>4, FittingIsValid DEF RequestOf
    <2>6. ~Undisturbed(a)
      BY <2>2, <2>5 DEF RefusalInv, a
    <2>7. history'[a].raced = history[a].raced /\ history'[a].outrun = history[a].outrun
      BY <2>1, <2>2 DEF Placed, FiringInv, AutoTypeOK, Past
    <2> QED BY <2>1, <2>2, <2>6, <2>7 DEF Undisturbed
  <1> QED BY <1>2, <1>3, <1>4, MonitorStep

LEMMA RefusalInvStep ==
    ASSUME FiringInv, OutcomeInv, StopInv, RefusalInv, [AutoNext]_allVars
    PROVE  RefusalInv'
  <1>1. ASSUME monitor'.phase # "answered"
        PROVE  monitor'.reason = "NONE"
    <2>1. ~RobotFills /\ ~RobotIsRejected
      BY <1>1, RobotOrder
    <2> QED BY <1>1, <2>1, MonitorStep DEF RefusalInv
  <1>2. ASSUME pc'[Robot] = "rejecting"
        PROVE  work'[Robot].position = positions'[req'[Robot].symbol]
    BY <1>2, AutoStepIsEngineStep, RejectingReads, RobotAssumption DEF FiringInv, RefusalInv
  <1>3. ASSUME NEW a \in AutoIds, autos'[a].reason = "POSITION"
        PROVE  /\ autos'[a].status = "FAILED"
               /\ autos'[a].terms.type = "STOP_LOSS" =>
                     history'[a].raced \/ history'[a].outrun
    <2>1. CASE autos[a].reason = "POSITION"
      <3>1. autos[a].status = "FAILED"
        BY <2>1 DEF RefusalInv
      <3>2. autos'[a] = autos[a]
        BY <3>1, RowStep DEF FiringInv, ClaimInv, Record
      <3> QED BY <2>1, <3>1, <3>2, HistoryStands DEF RefusalInv, StopRefusedOnlyIfOutrun
    <2>2. CASE autos[a].reason # "POSITION"
      <3>1. Record /\ a = monitor.claimed
        BY <1>3, <2>2, RowStep
      <3>2. /\ autos'[a].status = "FAILED" /\ monitor.reason = "POSITION"
            /\ autos'[a].terms = autos[a].terms
            /\ monitor.phase = "answered" /\ history' = history
        BY <1>3, <2>2, <3>1, RecordChange DEF Record
      <3>3. ~Undisturbed(a)
        BY <3>1, <3>2 DEF RefusalInv
      <3> QED BY <3>2, <3>3 DEF Undisturbed
    <2> QED BY <2>1, <2>2
  <1> QED BY <1>1, <1>2, <1>3, ClaimStillFits, RefusalExplained
          DEF RefusalInv, StopRefusedOnlyIfOutrun

LEMMA AutoInitRefusalInv == AutoInit => RefusalInv
  BY RobotAssumption
     DEF AutoInit, Init, RefusalInv, StopRefusedOnlyIfOutrun, NoAuto, Quiet

\* A stop that fires takes its trader out, unless funds or the market forbid
\* it: it is refused for its position only when somebody traded its symbol
\* between the claim and the order, or when it never fitted.
THEOREM RefusalsExplained == AutoSpec => []StopRefusedOnlyIfOutrun
  <1>1. AutoInit => OutcomeInv /\ StopInv /\ RefusalInv
    <2>1. AutoInit => StopInv
      BY DEF AutoInit, Init, StopInv, StopFitsUnlessRaced, ActiveStops, NoAuto
    <2> QED BY <2>1, AutoInitOutcomeInv, AutoInitRefusalInv
  <1>2. FiringInv /\ (OutcomeInv /\ StopInv /\ RefusalInv) /\ [AutoNext]_allVars
           => (OutcomeInv /\ StopInv /\ RefusalInv)'
    BY PlacedInvStep, LinkInvStep, AnswerInvStep, StopInvStep, RefusalInvStep DEF OutcomeInv
  <1>3. RefusalInv => StopRefusedOnlyIfOutrun
    BY DEF RefusalInv
  <1> QED BY <1>1, <1>2, <1>3, FiringInvariance, PTL DEF AutoSpec
===============================================================================
