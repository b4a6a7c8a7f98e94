--------------------------- MODULE SnapshotsProofs ---------------------------
(***************************************************************************)
(* The equity curve is right, for any number of sessions, instruments,     *)
(* orders and captures.  Captures only look, so what the engine promises   *)
(* still holds; the wallet lock makes each fill's point the account that   *)
(* the fill left; and a periodic capture that no commit overtook holds the *)
(* committed account, though it reads it one statement at a time.          *)
(***************************************************************************)
EXTENDS Snapshots, TradingBooksProofs

\* Functions whose domain is any set of instruments.
Partial(T) == UNION {[D -> T] : D \in SUBSET Symbols}

Capture == [phase: {"idle", "pricing", "wallet", "positions", "comparing", "saving"},
            held: Partial(Position), marks: Partial(Nat),
            cash: Nat, initial: Nat, at: Nat, overtaken: BOOLEAN, found: Nat]

ValuationRow == [cash: Nat, value: Int, unrealized: Int, realized: Int, charges: Int,
                 net: Int, quantity: Int]

Point == [at: Nat \ {0}, source: Source, valuation: ValuationRow, initial: Nat,
          order: Nat, unpriced: SUBSET Symbols, overtaken: BOOLEAN, found: Nat]

\* The stamps of points and of fills that are still to commit are all different.
StampInv ==
    /\ IsFiniteSet(curve) /\ curve \subseteq Point
    /\ curve # {} => wallet.open
    /\ \A row, other \in curve : row.at = other.at => row = other
    /\ stamps \in [Sessions -> Nat]
    /\ \A s \in Sessions : pc[s] = "settled" =>
          stamps[s] # 0 /\ \A row \in curve : row.at # stamps[s]

Stamped(capture) == capture.phase \in {"comparing", "saving"}

\* A capture's stamp is nobody else's, and that of the job is later than those of
\* all the points it has saved: it is one job at a time.
TaskOK(c, capture) ==
    /\ capture \in Capture /\ DOMAIN capture.held \subseteq rows
    /\ c # Job => capture.phase \notin {"pricing", "comparing"}
    /\ capture.at # 0 <=> Stamped(capture)
    /\ \A row \in curve : row.at # capture.at
    /\ \A s \in Sessions : pc[s] = "settled" => stamps[s] # capture.at
    /\ c = Job /\ Stamped(capture) =>
          \A row \in curve : row.source = "PERIODIC" => row.at < capture.at

\* A capture that nothing has overtaken holds the committed account.
Holds(capture) ==
    /\ capture.phase = "positions" \/ Stamped(capture) => wallet.open
    /\ capture.phase # "idle" /\ ~capture.overtaken =>
          /\ capture.phase = "positions" \/ Stamped(capture) =>
                capture.cash = wallet.cash /\ capture.initial = wallet.initial
          /\ \A x \in DOMAIN capture.held : capture.held[x] = positions[x]
          /\ Stamped(capture) =>
                /\ \A x \in Symbols \ DOMAIN capture.held : positions[x] = Flat
                /\ \A row \in curve : row.source = "TRADE" => row.at < capture.at

CaptureInv ==
    /\ DOMAIN capturing = Tasks
    /\ \A c \in Tasks : TaskOK(c, capturing[c]) /\ Holds(capturing[c])
    /\ \A c, d \in Tasks : capturing[c].at = capturing[d].at => c = d \/ capturing[c].at = 0

\* The points of fills are numbered by their orders, the others are not.
OrderInv ==
    \A row \in curve : /\ (row.source = "TRADE") = (row.order # 0)
                       /\ row.order # 0 => \E trade \in trades : trade.order = row.order

\* What a periodic point was compared with is there, and only a manual one can
\* be stamped later than it.
Compared(row, points) ==
    row.source = "PERIODIC" /\ ~row.overtaken /\ row.found # 0 =>
        \E next \in points : /\ next.at = row.found /\ next.at # row.at
                             /\ next.at > row.at => next.source = "MANUAL"

Excused(row, before, points) ==
    \/ before.source = "MANUAL" /\ before.at > row.found
    \/ \E later \in points : later.source = "MANUAL" /\ later.at = row.found
                                /\ later.at > row.at

\* A periodic point that is like an earlier one, unless one lies between them.
Repeats(row, other, points) ==
    /\ row.source = "PERIODIC" /\ ~row.overtaken
    /\ Equivalent(row, other) /\ other.at < row.at
    /\ ~ \E between \in points : other.at < between.at /\ between.at < row.at
    /\ ~Excused(row, other, points)

\* The point that the job is about to save repeats none.
FoundInv ==
    /\ \A row \in curve : Compared(row, curve)
    /\ At(Job, "saving") => /\ Compared(Captured(Job), curve)
                            /\ \A other \in curve : ~Repeats(Captured(Job), other, curve)

ChargesOf(p) == SumFunction([x \in Symbols |-> p[x].charges])

\* A periodic point stamped after a fill that is still to commit shows the
\* account as it is before that fill.
IdleInv ==
    \A row \in curve, s \in Sessions :
        row.source = "PERIODIC" /\ ~row.overtaken /\ pc[s] = "settled" /\ stamps[s] < row.at =>
            /\ row.valuation.cash = wallet.cash
            /\ row.valuation.charges = ChargesOf(positions)

SnapInv == StampInv /\ CaptureInv /\ OrderInv /\ FoundInv /\ IdleInv

-----------------------------------------------------------------------------
(* Captures only look *)

LEMMA SnapStepIsEngineStep ==
    ASSUME [SnapNext]_allVars
    PROVE  [Next]_vars
  <1>1. CASE UNCHANGED allVars
    BY <1>1 DEF allVars
  <1>2. ASSUME NEW s \in Sessions, EngineAlone(s)
        PROVE  Next
    BY <1>2 DEF EngineAlone, Next, Advance
  <1>3. ASSUME NEW s \in Sessions, SettleAndStamp(s) \/ CommitAndCapture(s)
        PROVE  Next
    BY <1>3 DEF SettleAndStamp, CommitAndCapture, Next, Advance
  <1>4. CASE StartPeriodic \/ Quote \/ Compare
    BY <1>4 DEF StartPeriodic, Quote, Compare, Goes
  <1>5. ASSUME NEW c \in Tasks, \/ StartManual(c) \/ ReadWallet(c) \/ ReadPositions(c)
                                \/ Save(c) \/ CaptureFails(c)
        PROVE  UNCHANGED vars
    BY <1>5 DEF StartManual, ReadWallet, ReadPositions, Save, CaptureFails, Goes
  <1>6. CASE Waiting /\ UNCHANGED snapVars
    BY <1>6 DEF Waiting
  <1>7. Requests \subseteq Tasks
    BY DEF Tasks
  <1> QED
    BY <1>1, <1>2, <1>3, <1>4, <1>5, <1>6, <1>7 DEF SnapNext

\* Whatever the engine guarantees (cash never negative, one trader at a time,
\* the ledger) holds while snapshots are taken: no capture writes, locks or
\* delays anything of the account.
THEOREM CapturesOnlyLook == SnapSpec => Spec
  <1>1. SnapInit => Init
    BY DEF SnapInit
  <1> QED
    BY <1>1, SnapStepIsEngineStep, PTL DEF SnapSpec, Spec

-----------------------------------------------------------------------------
(* Partial functions, stamps and valuations *)

LEMMA PartialFacts ==
    ASSUME NEW T, NEW f
    PROVE  f \in Partial(T) <=> DOMAIN f \in SUBSET Symbols /\ f \in [DOMAIN f -> T]
  BY DEF Partial

LEMMA MaxIsLargest ==
    ASSUME NEW S, IsFiniteSet(S), S \subseteq Int, S # {}
    PROVE  Max(S) \in S /\ \A y \in S : Max(S) >= y
  <1> DEFINE HasMax(s) == \E x \in s : \A y \in s : x >= y
             bad == {s \in SUBSET S : s # {} /\ ~HasMax(s)}
  <1>1. HasMax(S)
    <2>1. SUFFICES ASSUME bad # {} PROVE FALSE
      <3>1. S \in SUBSET S
        OBVIOUS
      <3> HIDE DEF HasMax
      <3> QED BY <3>1
    <2>2. PICK s \in bad : \A x \in s : s \ {x} \notin bad
      <3>1. bad \in SUBSET (SUBSET S)
        OBVIOUS
      <3> HIDE DEF bad
      <3> QED BY <2>1, <3>1, SmallestMember
    <2>3. s \in SUBSET S /\ s # {} /\ ~HasMax(s)
      <3> HIDE DEF HasMax
      <3> QED BY <2>2
    <2>4. PICK x \in s : TRUE
      BY <2>3
    <2>5. s \ {x} = {} \/ HasMax(s \ {x})
      <3> HIDE DEF HasMax
      <3> QED BY <2>2, <2>3, <2>4
    <2>6. x \in Int /\ \A y \in s : y \in Int
      BY <2>3, <2>4
    <2>7. CASE s \ {x} = {}
      BY <2>3, <2>4, <2>6, <2>7
    <2>8. CASE HasMax(s \ {x})
      <3>1. PICK m \in s \ {x} : \A y \in s \ {x} : m >= y
        BY <2>8
      <3>2. m >= x \/ x >= m
        BY <2>6, <3>1
      <3> QED BY <2>3, <2>4, <2>6, <3>1, <3>2
    <2> QED BY <2>5, <2>7, <2>8
  <1> QED BY <1>1 DEF Max

\* The next stamp is later than every one in use.
LEMMA NowIsLater ==
    ASSUME StampInv, CaptureInv
    PROVE  /\ Now \in Nat \ {0}
           /\ \A c \in Tasks : capturing[c].at < Now
           /\ \A row \in curve : row.at < Now
           /\ \A s \in Sessions : stamps[s] < Now
  <1> DEFINE taskStamps == {capturing[c].at : c \in Tasks}
             rowStamps == {row.at : row \in curve}
             ownStamps == {stamps[s] : s \in Sessions}
             used == {0} \cup taskStamps \cup rowStamps \cup ownStamps
  <1>1. IsFiniteSet(rowStamps)
    <2> DEFINE f == [row \in curve |-> row.at]
    <2>1. f \in Surjection(curve, rowStamps)
      BY DEF Surjection
    <2> QED BY <2>1, FS_Surjection DEF StampInv
  <1>2. IsFiniteSet(ownStamps)
    <2> DEFINE f == [s \in Sessions |-> stamps[s]]
    <2>1. f \in Surjection(Sessions, ownStamps)
      BY DEF Surjection
    <2> QED BY <2>1, FS_Surjection, SessionsAssumption
  <1>3. IsFiniteSet(taskStamps)
    <2> DEFINE f == [c \in Tasks |-> capturing[c].at]
    <2>1. f \in Surjection(Tasks, taskStamps)
      BY DEF Surjection
    <2>2. IsFiniteSet({Job})
      BY FS_Singleton
    <2>3. IsFiniteSet(Tasks)
      BY <2>2, CapturesAssumption, FS_Union DEF Tasks
    <2> QED BY <2>1, <2>3, FS_Surjection
  <1>4. IsFiniteSet(used)
    <2> HIDE DEF rowStamps, ownStamps, taskStamps
    <2>1. IsFiniteSet({0})
      BY FS_Singleton
    <2>2. IsFiniteSet({0} \cup taskStamps)
      BY <1>3, <2>1, FS_Union
    <2>3. IsFiniteSet({0} \cup taskStamps \cup rowStamps)
      BY <1>1, <2>2, FS_Union
    <2> QED BY <1>2, <2>3, FS_Union
  <1>5. /\ \A row \in curve : row.at \in Nat
        /\ \A s \in Sessions : stamps[s] \in Nat
        /\ \A c \in Tasks : capturing[c].at \in Nat
    BY DEF StampInv, CaptureInv, TaskOK, Point, Capture
  <1>6. used \subseteq Nat /\ 0 \in used
    BY <1>5
  <1>7. Max(used) \in used /\ \A n \in used : Max(used) >= n
    <2> HIDE DEF used
    <2>1. used # {} /\ used \subseteq Int
      BY <1>6
    <2> QED BY <1>4, <2>1, MaxIsLargest
  <1> DEFINE m == Max(used)
  <1>8. Now = 1 + m
    BY DEF Now
  <1>9. /\ m \in Nat
        /\ \A c \in Tasks : m >= capturing[c].at
        /\ \A row \in curve : m >= row.at
        /\ \A s \in Sessions : m >= stamps[s]
    <2>1. /\ \A c \in Tasks : capturing[c].at \in used
          /\ \A row \in curve : row.at \in used
          /\ \A s \in Sessions : stamps[s] \in used
      OBVIOUS
    <2> HIDE DEF used
    <2> QED BY <1>6, <1>7, <2>1
  <1> HIDE DEF m
  <1> QED BY <1>5, <1>8, <1>9

LEMMA ValuationType ==
    ASSUME NEW cash \in Nat, NEW held \in Partial(Position), NEW marks \in Partial(Nat)
    PROVE  Valuation(cash, held, marks) \in ValuationRow
  <1> DEFINE D == DOMAIN held
             priced == HeldOpen(held) \cap DOMAIN marks
             value == [x \in priced |-> PositionValue(held[x].quantity, marks[x])]
             unrealized == [x \in priced |-> UnrealizedPnl(held[x], marks[x])]
             realized == [x \in D |-> held[x].realized]
             charges == [x \in D |-> held[x].charges]
             net == [x \in D |-> held[x].net]
             open == HeldOpen(held)
             quantity == IF Cardinality(open) # 1 THEN 0
                         ELSE held[CHOOSE x \in open : TRUE].quantity
  <1>1. D \in SUBSET Symbols /\ \A x \in D : held[x] \in Position
    BY PartialFacts
  <1>2. \A x \in DOMAIN marks : marks[x] \in Nat
    BY PartialFacts
  <1>3. /\ IsFiniteSet(D) /\ priced \in SUBSET D /\ priced \in SUBSET (DOMAIN marks)
        /\ IsFiniteSet(priced)
    BY <1>1, DataAssumption, FS_Subset DEF HeldOpen
  <1>4. \A x \in D : /\ held[x].quantity \in Int /\ held[x].average \in Nat
                     /\ held[x].realized \in Int /\ held[x].charges \in Int
                     /\ held[x].net \in Int
    BY <1>1 DEF Position
  <1>5. \A x \in priced : PositionValue(held[x].quantity, marks[x]) \in Int
    <2> SUFFICES ASSUME NEW x \in priced
                 PROVE  PositionValue(held[x].quantity, marks[x]) \in Int
      OBVIOUS
    <2>1. held[x].quantity \in Int /\ marks[x] \in Nat
      BY <1>2, <1>3, <1>4
    <2>2. held[x].quantity * marks[x] \in Int
      BY <2>1
    <2> QED BY <2>2, HalfUpType, ScaleAssumption DEF PositionValue
  <1>6. \A x \in priced : UnrealizedPnl(held[x], marks[x]) \in Int
    <2> SUFFICES ASSUME NEW x \in priced
                 PROVE  UnrealizedPnl(held[x], marks[x]) \in Int
      OBVIOUS
    <2>1. held[x].quantity \in Int /\ held[x].average \in Nat /\ marks[x] \in Nat
      BY <1>2, <1>3, <1>4
    <2>2. (marks[x] * AvgTicks - held[x].average) * held[x].quantity \in Int
          /\ AvgTicks * Lot \in Nat \ {0}
      BY <2>1, ScaleAssumption
    <2> QED BY <2>2, HalfUpType DEF UnrealizedPnl
  <1>7. SumFunction(value) \in Int
    BY <1>3, <1>5, SumType
  <1>8. SumFunction(unrealized) \in Int
    BY <1>3, <1>6, SumType
  <1>9. SumFunction(realized) \in Int /\ SumFunction(charges) \in Int /\ SumFunction(net) \in Int
    BY <1>3, <1>4, SumType
  <1>10. quantity \in Int
    <2>1. CASE Cardinality(open) # 1
      BY <2>1
    <2>2. CASE Cardinality(open) = 1
      <3>1. open \in SUBSET D
        BY DEF HeldOpen
      <3>2. open # {}
        BY <2>2, FS_EmptySet
      <3>3. (CHOOSE x \in open : TRUE) \in open
        BY <3>2
      <3> HIDE DEF open
      <3> QED BY <1>4, <2>2, <3>1, <3>3
    <2> QED BY <2>1, <2>2
  <1>11. Valuation(cash, held, marks) =
           [cash |-> cash, value |-> SumFunction(value), unrealized |-> SumFunction(unrealized),
            realized |-> SumFunction(realized), charges |-> SumFunction(charges),
            net |-> SumFunction(net) + SumFunction(unrealized), quantity |-> quantity]
    BY DEF Valuation
  <1> HIDE DEF value, unrealized, realized, charges, net, quantity
  <1> QED BY <1>7, <1>8, <1>9, <1>10, <1>11 DEF ValuationRow

-----------------------------------------------------------------------------
(* The stamps, the captures under way and the points stay right *)

LEMMA QuietFacts ==
    /\ Quiet \in Capture /\ DOMAIN Quiet.held = {} /\ DOMAIN Quiet.marks = {}
    /\ Quiet.phase = "idle" /\ Quiet.at = 0
  <1>1. /\ Quiet.held = [x \in {} |-> Flat] /\ Quiet.marks = [x \in {} |-> 0]
        /\ Quiet.phase = "idle" /\ Quiet.at = 0
    BY DEF Quiet
  <1>2. Quiet.held \in Partial(Position) /\ Quiet.marks \in Partial(Nat)
    BY <1>1, PartialFacts
  <1>3. Quiet \in Capture
    BY <1>1, <1>2 DEF Quiet, Capture
  <1> QED BY <1>1, <1>3

\* A task that does nothing is always in order.
LEMMA QuietIsOK ==
    ASSUME StampInv, NEW c
    PROVE  TaskOK(c, Quiet) /\ Holds(Quiet)
  <1>1. \A row \in curve : row.at # 0
    BY DEF StampInv, Point
  <1>2. ~Stamped(Quiet)
    BY QuietFacts DEF Stamped
  <1>3. \A s \in Sessions : pc[s] = "settled" => stamps[s] # 0
    BY DEF StampInv
  <1>4. TaskOK(c, Quiet)
    BY <1>1, <1>2, <1>3, QuietFacts DEF TaskOK
  <1>5. Holds(Quiet)
    BY <1>2, QuietFacts DEF Holds
  <1> QED BY <1>4, <1>5

LEMMA InitSnapInv == SnapInit => SnapInv
  <1> SUFFICES ASSUME SnapInit PROVE SnapInv
    OBVIOUS
  <1>1. /\ curve = {} /\ stamps = [s \in Sessions |-> 0]
        /\ capturing = [c \in Tasks |-> Quiet] /\ pc = [s \in Sessions |-> "idle"]
    BY DEF SnapInit, Init
  <1>2. StampInv
    BY <1>1, FS_EmptySet DEF StampInv
  <1>3. CaptureInv
    BY <1>1, <1>2, QuietIsOK, QuietFacts DEF CaptureInv
  <1>4. ~At(Job, "saving")
    BY <1>1, QuietFacts DEF At, Tasks
  <1>5. OrderInv /\ FoundInv /\ IdleInv
    BY <1>1, <1>4 DEF OrderInv, FoundInv, IdleInv
  <1> QED BY <1>2, <1>3, <1>5 DEF SnapInv

\* What the engine's own steps do to the tables and to the captures under way.
LEMMA EngineAloneFacts ==
    ASSUME IInv, stamps \in [Sessions -> Nat],
           NEW s \in Sessions, EngineAlone(s)
    PROVE  /\ UNCHANGED <<curve, trades, positions>>
           /\ rows \subseteq rows'
           /\ wallet.open => wallet'.open
           /\ stamps' \in [Sessions -> Nat]
           /\ \A t \in Sessions : pc'[t] = "settled" =>
                 pc[t] = "settled" /\ stamps'[t] = stamps[t]
           /\ \/ wallet' = wallet /\ capturing' = capturing
              \/ ~wallet.open /\ wallet'.resets = 0 /\ capturing' = capturing
              \/ /\ Overtakes /\ wallet'.resets # 0
                 /\ \A t \in Sessions : pc[t] # "settled"
  <1>1. /\ pc \in [Sessions -> {"idle", "open", "wallet", "position", "insert", "execute",
                                "rejecting", "settled"}]
        /\ wallet.resets \in Nat
    BY DEF IInv, TypeOK
  <1>2. CASE /\ \/ LockWallet(s) \/ LockPosition(s) \/ MissPosition(s)
                \/ InsertPosition(s) \/ Reject(s)
             /\ UNCHANGED snapVars
    BY <1>1, <1>2 DEF LockWallet, LockPosition, MissPosition, InsertPosition, Reject,
                      tables, snapVars
  <1>3. CASE /\ \/ FindNoWallet(s) \/ AdoptWallet(s) \/ WalletMissing(s)
                \/ CommitRejection(s)
             /\ UNCHANGED snapVars
    BY <1>1, <1>3 DEF FindNoWallet, AdoptWallet, WalletMissing, CommitRejection, End,
                      tables, snapVars
  <1>4. ASSUME NEW balance \in Balances, InsertWallet(s, balance), UNCHANGED snapVars
        PROVE  /\ UNCHANGED <<curve, trades, positions, stamps, capturing>>
               /\ rows \subseteq rows' /\ ~wallet.open /\ wallet'.resets = 0
               /\ \A t \in Sessions : pc'[t] = "settled" => pc[t] = "settled"
    BY <1>1, <1>4 DEF InsertWallet, End, snapVars
  <1>5. ASSUME NEW side \in Side, NEW symbol \in Symbols, NEW quantity \in Quantities,
               Submit(s, side, symbol, quantity), UNCHANGED snapVars
        PROVE  /\ UNCHANGED <<curve, trades, positions, stamps, capturing, wallet>>
               /\ rows \subseteq rows'
               /\ \A t \in Sessions : pc'[t] = "settled" => pc[t] = "settled"
    BY <1>1, <1>5 DEF Submit, tables, snapVars
  <1>6. ASSUME NEW balance \in Balances, ResetWallet(s, balance), Overtakes,
               UNCHANGED <<curve, stamps>>
        PROVE  /\ UNCHANGED <<curve, trades, positions, stamps, pc>>
               /\ rows \subseteq rows' /\ wallet'.open /\ wallet'.resets # 0
               /\ \A t \in Sessions : pc[t] # "settled"
    <2>1. \A t \in Sessions : pc[t] # "settled"
      BY <1>6, SessionsAssumption DEF ResetWallet, IInv, LockInv, Trader
    <2> QED BY <1>1, <1>6, <2>1 DEF ResetWallet
  <1>7. CASE /\ Abort(s)
             /\ stamps' = [stamps EXCEPT ![s] = 0]
             /\ UNCHANGED <<curve, capturing>>
    BY <1>1, <1>7 DEF Abort, End, tables
  <1> QED BY <1>2, <1>3, <1>4, <1>5, <1>6, <1>7 DEF EngineAlone

LEMMA OvertakenFacts ==
    ASSUME CaptureInv, Overtakes, NEW c \in Tasks
    PROVE  /\ capturing'[c] \in Capture
           /\ capturing'[c].phase = capturing[c].phase /\ capturing'[c].at = capturing[c].at
           /\ capturing'[c].held = capturing[c].held
           /\ capturing'[c].overtaken = (capturing[c].phase # "idle")
  <1>1. capturing[c] \in Capture
    BY DEF CaptureInv, TaskOK
  <1>2. capturing'[c] = [capturing[c] EXCEPT !.overtaken = capturing[c].phase # "idle"]
    BY DEF Overtakes
  <1> QED BY <1>1, <1>2 DEF Capture

\* What a task has captured is all that its point depends on.
LEMMA SamePoint ==
    ASSUME NEW c, capturing'[c] = capturing[c]
    PROVE  Captured(c)' = Captured(c)
  BY DEF Captured

LEMMA EngineAloneKeeps ==
    ASSUME IInv, SnapInv, NEW s \in Sessions, EngineAlone(s)
    PROVE  SnapInv'
  <1>1. StampInv /\ CaptureInv /\ OrderInv /\ FoundInv /\ IdleInv
    BY DEF SnapInv
  <1>2. /\ UNCHANGED <<curve, trades, positions>>
        /\ rows \subseteq rows'
        /\ wallet.open => wallet'.open
        /\ stamps' \in [Sessions -> Nat]
        /\ \A t \in Sessions : pc'[t] = "settled" =>
              pc[t] = "settled" /\ stamps'[t] = stamps[t]
        /\ \/ wallet' = wallet /\ capturing' = capturing
           \/ ~wallet.open /\ wallet'.resets = 0 /\ capturing' = capturing
           \/ /\ Overtakes /\ wallet'.resets # 0
              /\ \A t \in Sessions : pc[t] # "settled"
    BY <1>1, EngineAloneFacts DEF StampInv
  <1>3. ASSUME NEW c \in Tasks
        PROVE  /\ capturing'[c] \in Capture
               /\ capturing'[c].phase = capturing[c].phase
               /\ capturing'[c].at = capturing[c].at /\ capturing'[c].held = capturing[c].held
    <2>1. capturing[c] \in Capture
      BY <1>1 DEF CaptureInv, TaskOK
    <2> QED BY <1>1, <1>2, <2>1, OvertakenFacts
  <1>4. StampInv'
    BY <1>1, <1>2 DEF StampInv
  <1>5. CaptureInv'
    <2>1. DOMAIN capturing' = Tasks
      BY <1>1, <1>2 DEF CaptureInv, Overtakes
    <2>2. ASSUME NEW c \in Tasks PROVE TaskOK(c, capturing[c])'
      <3>1. TaskOK(c, capturing[c])
        BY <1>1 DEF CaptureInv
      <3> QED BY <1>2, <1>3, <3>1 DEF TaskOK, Stamped
    <2>3. ASSUME NEW c \in Tasks PROVE Holds(capturing[c])'
      <3>1. Holds(capturing[c])
        BY <1>1 DEF CaptureInv
      <3>2. CASE wallet' = wallet /\ capturing' = capturing
        BY <1>2, <3>1, <3>2 DEF Holds, Stamped
      <3>3. CASE ~wallet.open /\ capturing' = capturing
        BY <1>2, <3>1, <3>3 DEF Holds, Stamped
      <3>4. CASE Overtakes
        <4>1. capturing'[c].overtaken = (capturing[c].phase # "idle")
              /\ capturing'[c].phase = capturing[c].phase
          BY <1>1, <3>4, OvertakenFacts
        <4> QED BY <1>2, <3>1, <4>1 DEF Holds, Stamped
      <3> QED BY <1>2, <3>2, <3>3, <3>4
    <2>4. \A c, d \in Tasks : capturing'[c].at = capturing'[d].at =>
             c = d \/ capturing'[c].at = 0
      BY <1>1, <1>3 DEF CaptureInv
    <2> QED BY <2>1, <2>2, <2>3, <2>4 DEF CaptureInv
  <1>6. OrderInv'
    BY <1>1, <1>2 DEF OrderInv
  <1>7. FoundInv'
    <2>1. Job \in Tasks
      BY DEF Tasks
    <2>2. At(Job, "saving")' = At(Job, "saving")
      BY <1>3, <2>1 DEF At
    <2>3. CASE capturing' = capturing
      <3>1. Captured(Job)' = Captured(Job)
        BY <2>3, SamePoint
      <3> QED BY <1>1, <1>2, <2>2, <3>1 DEF FoundInv
    <2>4. CASE Overtakes
      <3>1. At(Job, "saving") => capturing'[Job].overtaken
        BY <1>1, <2>1, <2>4, OvertakenFacts DEF At
      <3>2. Captured(Job)'.overtaken = capturing'[Job].overtaken
        BY DEF Captured, Row
      <3> QED BY <1>1, <1>2, <2>2, <3>1, <3>2 DEF FoundInv, Compared, Repeats
    <2> QED BY <1>2, <2>3, <2>4
  <1>8. IdleInv'
    <2>1. \A t \in Sessions : pc'[t] = "settled" => wallet.open
      BY <1>2 DEF IInv, LockInv, Trader
    <2>2. (\E t \in Sessions : pc'[t] = "settled") => wallet' = wallet
      BY <1>2, <2>1
    <2> QED BY <1>1, <1>2, <2>2 DEF IdleInv, ChargesOf
  <1> QED BY <1>4, <1>5, <1>6, <1>7, <1>8 DEF SnapInv

LEMMA SettleKeeps ==
    ASSUME IInv, SnapInv, NEW s \in Sessions, SettleAndStamp(s)
    PROVE  SnapInv'
  <1>1. /\ UNCHANGED <<curve, trades, positions, rows, wallet, capturing>>
        /\ pc' = [pc EXCEPT ![s] = "settled"] /\ stamps' = [stamps EXCEPT ![s] = Now]
    BY DEF SettleAndStamp, Settle, tables
  <1>2. StampInv /\ CaptureInv /\ OrderInv /\ FoundInv /\ IdleInv
    BY DEF SnapInv
  <1>3. /\ Now \in Nat \ {0}
        /\ \A c \in Tasks : capturing[c].at < Now /\ capturing[c].at \in Nat
        /\ \A row \in curve : row.at < Now /\ row.at \in Nat
    BY <1>2, NowIsLater DEF StampInv, CaptureInv, TaskOK, Capture, Point
  <1>4. /\ stamps' \in [Sessions -> Nat] /\ stamps'[s] = Now
        /\ \A t \in Sessions : pc'[t] = "settled" =>
              t = s \/ (pc[t] = "settled" /\ stamps'[t] = stamps[t])
    BY <1>1, <1>2, <1>3 DEF StampInv, IInv, TypeOK
  <1>5. StampInv'
    <2>1. \A t \in Sessions : pc'[t] = "settled" =>
             stamps'[t] # 0 /\ \A row \in curve : row.at # stamps'[t]
      BY <1>2, <1>3, <1>4 DEF StampInv
    <2> QED BY <1>1, <1>2, <1>4, <2>1 DEF StampInv
  <1>6. CaptureInv'
    <2>1. ASSUME NEW c \in Tasks PROVE TaskOK(c, capturing[c])' /\ Holds(capturing[c])'
      <3>1. TaskOK(c, capturing[c]) /\ Holds(capturing[c])
        BY <1>2 DEF CaptureInv
      <3>2. \A t \in Sessions : pc'[t] = "settled" => stamps'[t] # capturing[c].at
        BY <1>3, <1>4, <3>1 DEF TaskOK
      <3>3. TaskOK(c, capturing[c])'
        BY <1>1, <3>1, <3>2 DEF TaskOK, Stamped
      <3> QED BY <1>1, <3>1, <3>3 DEF Holds, Stamped
    <2> QED BY <1>1, <1>2, <2>1 DEF CaptureInv
  <1>7. OrderInv' /\ FoundInv'
    <2>1. Captured(Job)' = Captured(Job)
      BY <1>1, SamePoint
    <2> QED BY <1>1, <1>2, <2>1 DEF OrderInv, FoundInv, At
  <1>8. IdleInv'
    <2> SUFFICES ASSUME NEW row \in curve, NEW t \in Sessions, row.source = "PERIODIC",
                        ~row.overtaken, pc'[t] = "settled", stamps'[t] < row.at
                 PROVE  /\ row.valuation.cash = wallet.cash
                        /\ row.valuation.charges = ChargesOf(positions)
      BY <1>1 DEF IdleInv, ChargesOf
    <2>1. t # s
      BY <1>3, <1>4
    <2>2. pc[t] = "settled" /\ stamps[t] < row.at
      BY <1>4, <2>1
    <2> QED BY <1>2, <2>2 DEF IdleInv
  <1> QED BY <1>5, <1>6, <1>7, <1>8 DEF SnapInv

\* The point of a fill, which is all that its commit adds to the curve.
FillPoint(s, new, point) ==
    LET held == Restrict(positions', rows')
        marks == [x \in {new.symbol} |-> new.price]
    IN  /\ curve' = curve \cup {point}
        /\ point.at = stamps[s] /\ point.source = "TRADE" /\ point.order = new.order
        /\ point.initial = wallet.initial /\ ~point.overtaken
        /\ point.unpriced = HeldOpen(held) \ {new.symbol}
        /\ point.valuation = Valuation(wallet'.cash, held, marks)

LEMMA RestrictedPositions ==
    ASSUME NEW p \in [Symbols -> Position], NEW r \in SUBSET Symbols
    PROVE  /\ Restrict(p, r) \in Partial(Position)
           /\ DOMAIN Restrict(p, r) = r
           /\ \A x \in r : Restrict(p, r)[x] = p[x]
  <1>1. Restrict(p, r) = [x \in r |-> p[x]]
    BY DEF Restrict
  <1>2. [x \in r |-> p[x]] \in [r -> Position]
    OBVIOUS
  <1> QED BY <1>1, <1>2, PartialFacts

LEMMA CommitPoint ==
    ASSUME IInv, IInv', StampInv, NEW s \in Sessions, CommitAndCapture(s),
           NEW new \in TradeRow, work[s].fill = {new}, new.symbol = req[s].symbol,
           Commits(s, new)
    PROVE  \E point \in Point : FillPoint(s, new, point)
  <1> DEFINE held == Restrict(positions', rows')
             marks == [x \in {new.symbol} |-> new.price]
             valuation == Valuation(wallet'.cash, held, marks)
             unpriced == HeldOpen(held) \ {new.symbol}
             point == Row(stamps[s], "TRADE", valuation, wallet.initial, new.order,
                          unpriced, FALSE, 0)
  <1>1. curve' = curve \cup {point}
    <2>1. (CHOOSE trade \in work[s].fill : TRUE) = new
      OBVIOUS
    <2>2. FillSnapshot(s, wallet'.cash, held) = point
      BY <2>1 DEF FillSnapshot, Commits
    <2> QED BY <2>2 DEF CommitAndCapture
  <1>2. held \in Partial(Position)
    <2>1. positions' \in [Symbols -> Position] /\ rows' \in SUBSET Symbols
      BY DEF IInv, TypeOK
    <2> QED BY <2>1, RestrictedPositions
  <1>3. /\ wallet'.cash \in Nat /\ wallet.initial \in Nat
        /\ new.symbol \in Symbols /\ new.price \in Nat /\ new.order \in Nat
    BY DEF IInv, TypeOK, RowInv, Commits, TradeRow
  <1>4. marks \in Partial(Nat)
    BY <1>3, PartialFacts
  <1>5. valuation \in ValuationRow
    <2> HIDE DEF held, marks
    <2> QED BY <1>2, <1>3, <1>4, ValuationType
  <1>6. unpriced \in SUBSET Symbols
    BY <1>2, PartialFacts DEF HeldOpen
  <1>7. stamps[s] \in Nat \ {0}
    <2>1. pc[s] = "settled"
      BY DEF CommitAndCapture, CommitFill
    <2> QED BY <2>1 DEF StampInv
  <1>8. point.at = stamps[s] /\ point.source = "TRADE" /\ point.order = new.order
        /\ point.initial = wallet.initial /\ point.overtaken = FALSE
        /\ point.unpriced = unpriced /\ point.valuation = valuation /\ point.found = 0
    BY DEF Row
  <1>9. point \in Point
    <2> HIDE DEF unpriced, valuation
    <2> QED BY <1>3, <1>5, <1>6, <1>7 DEF Row, Point, Source
  <1> HIDE DEF point
  <1>10. FillPoint(s, new, point)
    BY <1>1, <1>8 DEF FillPoint
  <1> QED BY <1>9, <1>10

\* What is left of a transaction once it has committed.
LEMMA CommitAndCaptureFacts ==
    ASSUME IInv, SnapInv, NEW s \in Sessions, CommitAndCapture(s)
    PROVE  /\ pc[s] = "settled"
           /\ \A t \in Sessions : pc'[t] # "settled"
           /\ stamps' \in [Sessions -> Nat]
           /\ rows \subseteq rows' /\ Overtakes
  <1>1. /\ pc[s] = "settled" /\ pc' = [pc EXCEPT ![s] = "idle"]
        /\ stamps' = [stamps EXCEPT ![s] = 0]
        /\ rows' = rows \cup {req[s].symbol} /\ Overtakes
    BY DEF CommitAndCapture, CommitFill, End
  <1>2. \A t \in Sessions : pc[t] = "settled" => t = s
    BY <1>1, TraderAlone DEF Trader
  <1> QED BY <1>1, <1>2 DEF IInv, TypeOK, SnapInv, StampInv

\* A new point is nothing that an earlier one was compared with, and can only
\* come between, or be an excuse.
LEMMA MorePoints ==
    ASSUME NEW row, NEW points, NEW more, points \subseteq more
    PROVE  /\ Compared(row, points) => Compared(row, more)
           /\ \A other : Repeats(row, other, more) => Repeats(row, other, points)
  BY DEF Compared, Repeats, Excused

LEMMA CommitKeeps ==
    ASSUME IInv, IInv', SnapInv, NEW s \in Sessions, CommitAndCapture(s)
    PROVE  SnapInv'
  <1>1. PICK new \in TradeRow :
           work[s].fill = {new} /\ new.symbol = req[s].symbol /\ Commits(s, new)
    BY CommitFillCommits DEF CommitAndCapture
  <1>2. StampInv /\ CaptureInv /\ OrderInv /\ FoundInv
    BY DEF SnapInv
  <1>3. PICK point \in Point : FillPoint(s, new, point)
    BY <1>1, <1>2, CommitPoint
  <1>4. /\ curve' = curve \cup {point} /\ point.source = "TRADE" /\ point.order = new.order
        /\ point.at = stamps[s]
    BY <1>3 DEF FillPoint
  <1>5. /\ pc[s] = "settled" /\ (\A t \in Sessions : pc'[t] # "settled")
        /\ stamps' \in [Sessions -> Nat] /\ rows \subseteq rows' /\ Overtakes
    BY CommitAndCaptureFacts
  <1>6. ASSUME NEW c \in Tasks
        PROVE  /\ capturing'[c] \in Capture
               /\ capturing'[c].phase = capturing[c].phase
               /\ capturing'[c].at = capturing[c].at /\ capturing'[c].held = capturing[c].held
               /\ capturing'[c].overtaken = (capturing[c].phase # "idle")
    BY <1>2, <1>5, OvertakenFacts
  <1>7. wallet.open /\ wallet'.open
    BY <1>1 DEF Commits, IInv, TypeOK
  <1>8. /\ stamps[s] # 0 /\ \A row \in curve : row.at # stamps[s]
        /\ \A c \in Tasks : stamps[s] # capturing[c].at
    BY <1>2, <1>5 DEF StampInv, CaptureInv, TaskOK
  <1>9. StampInv'
    <2>1. IsFiniteSet(curve') /\ curve' \subseteq Point
      BY <1>2, <1>4, FS_AddElement DEF StampInv
    <2>2. \A row, other \in curve' : row.at = other.at => row = other
      BY <1>2, <1>4, <1>8 DEF StampInv
    <2> QED BY <1>5, <1>7, <2>1, <2>2 DEF StampInv
  <1>10. CaptureInv'
    <2>1. DOMAIN capturing' = Tasks
      BY <1>5 DEF Overtakes
    <2>2. ASSUME NEW c \in Tasks PROVE TaskOK(c, capturing[c])' /\ Holds(capturing[c])'
      <3>1. TaskOK(c, capturing[c]) /\ Holds(capturing[c])
        BY <1>2 DEF CaptureInv
      <3>2. TaskOK(c, capturing[c])'
        BY <1>4, <1>5, <1>6, <1>8, <3>1 DEF TaskOK, Stamped
      <3>3. Holds(capturing[c])'
        BY <1>6, <1>7 DEF Holds
      <3> QED BY <3>2, <3>3
    <2>3. \A c, d \in Tasks : capturing'[c].at = capturing'[d].at =>
             c = d \/ capturing'[c].at = 0
      BY <1>2, <1>6 DEF CaptureInv
    <2> QED BY <2>1, <2>2, <2>3 DEF CaptureInv
  <1>11. OrderInv'
    <2>1. /\ trades' = trades \cup {new} /\ new.order # 0
      BY <1>1 DEF Commits, OrderIds
    <2> QED BY <1>2, <1>4, <2>1 DEF OrderInv
  <1>12. FoundInv'
    <2>1. \A row \in curve' : Compared(row, curve')
      <3>1. \A row \in curve : Compared(row, curve)
        BY <1>2 DEF FoundInv
      <3>2. \A row \in curve : Compared(row, curve')
        BY <1>4, <3>1, MorePoints
      <3>3. Compared(point, curve')
        BY <1>4 DEF Compared
      <3> QED BY <1>4, <3>2, <3>3
    <2>2. At(Job, "saving")' => capturing'[Job].overtaken
      BY <1>6 DEF At, Tasks
    <2>3. Captured(Job)'.overtaken = capturing'[Job].overtaken
      BY DEF Captured, Row
    <2> QED BY <2>1, <2>2, <2>3 DEF FoundInv, Compared, Repeats
  <1>13. IdleInv'
    BY <1>5 DEF IdleInv
  <1> QED BY <1>9, <1>10, <1>11, <1>12, <1>13 DEF SnapInv

\* The step of one task that has not written anything yet.
LEMMA GoesKeeps ==
    ASSUME SnapInv, NEW c \in Tasks, NEW new, Goes(c, new), UNCHANGED curve,
           TaskOK(c, new), Holds(new),
           \A d \in Tasks : d # c => new.at = 0 \/ new.at # capturing[d].at,
           c = Job /\ new.phase = "saving" =>
              /\ Compared(Captured(Job)', curve)
              /\ \A other \in curve : ~Repeats(Captured(Job)', other, curve)
    PROVE  SnapInv'
  <1>1. UNCHANGED <<wallet, positions, rows, trades, pc, curve, stamps>>
    BY DEF Goes, vars
  <1>2. StampInv /\ CaptureInv /\ OrderInv /\ FoundInv /\ IdleInv
    BY DEF SnapInv
  <1>3. /\ DOMAIN capturing' = Tasks /\ capturing'[c] = new
        /\ \A d \in Tasks : d # c => capturing'[d] = capturing[d]
    BY <1>2 DEF Goes, CaptureInv
  <1>4. StampInv'
    BY <1>1, <1>2 DEF StampInv
  <1>5. CaptureInv'
    <2>1. ASSUME NEW d \in Tasks
          PROVE  TaskOK(d, capturing[d])' /\ Holds(capturing[d])'
      <3> DEFINE capture == capturing'[d]
      <3>1. TaskOK(d, capture) /\ Holds(capture)
        BY <1>2, <1>3 DEF CaptureInv
      <3>2. TaskOK(d, capturing[d])'
        BY <1>1, <3>1 DEF TaskOK, Stamped
      <3>3. Holds(capturing[d])'
        BY <1>1, <3>1 DEF Holds, Stamped
      <3> QED BY <3>2, <3>3
    <2>2. \A d, e \in Tasks : capturing'[d].at = capturing'[e].at =>
             d = e \/ capturing'[d].at = 0
      BY <1>2, <1>3 DEF CaptureInv
    <2> QED BY <1>3, <2>1, <2>2 DEF CaptureInv
  <1>6. OrderInv' /\ IdleInv'
    BY <1>1, <1>2 DEF OrderInv, IdleInv, ChargesOf
  <1>7. FoundInv'
    <2>1. CASE c = Job
      BY <1>1, <1>2, <1>3, <2>1 DEF FoundInv, At
    <2>2. CASE c # Job
      <3>1. capturing'[Job] = capturing[Job]
        BY <1>3, <2>2 DEF Tasks
      <3>2. Captured(Job)' = Captured(Job)
        BY <3>1, SamePoint
      <3> QED BY <1>1, <1>2, <3>1, <3>2 DEF FoundInv, At
    <2> QED BY <2>1, <2>2
  <1> QED BY <1>4, <1>5, <1>6, <1>7 DEF SnapInv

LEMMA CaptureFailsKeeps ==
    ASSUME SnapInv, NEW c \in Tasks, Goes(c, Quiet), UNCHANGED curve
    PROVE  SnapInv'
  <1>1. TaskOK(c, Quiet) /\ Holds(Quiet)
    BY QuietIsOK DEF SnapInv
  <1>2. Quiet.at = 0 /\ Quiet.phase # "saving"
    BY QuietFacts
  <1> HIDE DEF SnapInv
  <1> QED BY <1>1, <1>2, GoesKeeps

LEMMA StartKeeps ==
    ASSUME IInv, SnapInv, StartPeriodic \/ \E c \in Requests : StartManual(c)
    PROVE  SnapInv'
  <1>1. StampInv
    BY DEF SnapInv
  <1>2. \A row \in curve : row.at # 0
    BY <1>1 DEF StampInv, Point
  <1>3. CASE StartPeriodic
    <2> DEFINE held == Restrict(positions, rows)
               new == [Quiet EXCEPT !.phase = "pricing", !.held = held]
    <2>1. positions \in [Symbols -> Position] /\ rows \in SUBSET Symbols
      BY DEF IInv, TypeOK
    <2>2. /\ held \in Partial(Position) /\ DOMAIN held = rows
          /\ \A x \in rows : held[x] = positions[x]
      BY <2>1, RestrictedPositions
    <2>3. Goes(Job, new) /\ UNCHANGED curve /\ Job \in Tasks
      BY <1>3 DEF StartPeriodic, Tasks
    <2> HIDE DEF held
    <2>4. new \in Capture /\ new.held = held /\ new.phase = "pricing" /\ new.at = 0
      BY <2>2, QuietFacts DEF Capture
    <2> HIDE DEF new
    <2>5. ~Stamped(new)
      BY <2>4 DEF Stamped
    <2>6. TaskOK(Job, new)
      BY <1>1, <1>2, <2>2, <2>4, <2>5 DEF TaskOK, StampInv
    <2>7. Holds(new)
      BY <2>2, <2>4, <2>5 DEF Holds
    <2> HIDE DEF SnapInv
    <2> QED BY <2>3, <2>4, <2>6, <2>7, GoesKeeps
  <1>4. ASSUME NEW c \in Requests, StartManual(c)
        PROVE  SnapInv'
    <2>1. PICK symbols \in {{}} \cup {{x} : x \in Symbols} : \E marks \in [symbols -> Marks] :
             Goes(c, [Quiet EXCEPT !.phase = "wallet", !.marks = marks])
      BY <1>4 DEF StartManual
    <2>2. PICK marks \in [symbols -> Marks] :
             Goes(c, [Quiet EXCEPT !.phase = "wallet", !.marks = marks])
      BY <2>1
    <2> DEFINE new == [Quiet EXCEPT !.phase = "wallet", !.marks = marks]
    <2>3. marks \in Partial(Nat)
      BY <2>1, <2>2, CapturesAssumption, PartialFacts
    <2>4. new \in Capture /\ DOMAIN new.held = {} /\ new.phase = "wallet" /\ new.at = 0
      BY <2>3, QuietFacts DEF Capture
    <2>5. Goes(c, new) /\ UNCHANGED curve /\ c \in Tasks
      BY <1>4, <2>2 DEF StartManual, Tasks
    <2> HIDE DEF new
    <2>6. ~Stamped(new)
      BY <2>4 DEF Stamped
    <2>7. TaskOK(c, new)
      BY <1>1, <1>2, <2>4, <2>6 DEF TaskOK, StampInv
    <2>8. Holds(new)
      BY <2>4, <2>6 DEF Holds
    <2> HIDE DEF SnapInv
    <2> QED BY <2>4, <2>5, <2>7, <2>8, GoesKeeps
  <1> QED BY <1>3, <1>4

LEMMA QuoteKeeps == ASSUME SnapInv, Quote PROVE SnapInv'
  <1> DEFINE old == capturing[Job]
  <1>1. At(Job, "pricing") /\ UNCHANGED curve /\ Job \in Tasks
    BY DEF Quote, Tasks
  <1>2. PICK priced \in SUBSET HeldOpen(old.held) : \E marks \in [priced -> Marks] :
           Goes(Job, [old EXCEPT !.marks = marks, !.phase = "wallet"])
    BY DEF Quote
  <1>3. PICK marks \in [priced -> Marks] :
           Goes(Job, [old EXCEPT !.marks = marks, !.phase = "wallet"])
    BY <1>2
  <1> DEFINE new == [old EXCEPT !.marks = marks, !.phase = "wallet"]
  <1>4. TaskOK(Job, old) /\ Holds(old) /\ old \in Capture /\ old.held \in Partial(Position)
    BY <1>1 DEF SnapInv, CaptureInv, TaskOK, Capture
  <1>5. old.phase = "pricing"
    BY <1>1 DEF At
  <1> HIDE DEF old
  <1>6. priced \in SUBSET Symbols
    BY <1>2, <1>4, PartialFacts DEF HeldOpen
  <1>7. marks \in Partial(Nat)
    BY <1>3, <1>6, CapturesAssumption, PartialFacts
  <1>8. /\ new \in Capture /\ new.held = old.held /\ new.phase = "wallet"
        /\ new.at = old.at /\ new.overtaken = old.overtaken
    BY <1>4, <1>7 DEF Capture
  <1>9. Goes(Job, new)
    BY <1>3
  <1> HIDE DEF new
  <1>10. TaskOK(Job, new)
    BY <1>4, <1>5, <1>8 DEF TaskOK, Stamped
  <1>11. Holds(new)
    BY <1>4, <1>5, <1>8 DEF Holds, Stamped
  <1>12. new.at = 0
    BY <1>8, <1>10 DEF TaskOK, Stamped
  <1> HIDE DEF SnapInv
  <1> QED BY <1>1, <1>8, <1>9, <1>10, <1>11, <1>12, GoesKeeps

LEMMA ReadWalletKeeps ==
    ASSUME IInv, SnapInv, NEW c \in Tasks, ReadWallet(c)
    PROVE  SnapInv'
  <1>1. At(c, "wallet") /\ UNCHANGED curve
    BY DEF ReadWallet
  <1>2. CASE ~wallet.open
    <2>1. Goes(c, Quiet)
      BY <1>2 DEF ReadWallet
    <2> QED BY <1>1, <2>1, CaptureFailsKeeps
  <1>3. CASE wallet.open
    <2> DEFINE old == capturing[c]
               new == [old EXCEPT !.phase = "positions", !.cash = wallet.cash,
                                  !.initial = wallet.initial]
    <2>1. Goes(c, new)
      BY <1>3 DEF ReadWallet
    <2>2. TaskOK(c, old) /\ Holds(old) /\ old \in Capture
      BY DEF SnapInv, CaptureInv, TaskOK
    <2>3. wallet.cash \in Nat /\ wallet.initial \in Nat
      BY DEF IInv, TypeOK, RowInv
    <2>4. old.phase = "wallet"
      BY <1>1 DEF At
    <2> HIDE DEF old
    <2>5. /\ new \in Capture /\ new.held = old.held /\ new.phase = "positions"
          /\ new.at = old.at /\ new.overtaken = old.overtaken
          /\ new.cash = wallet.cash /\ new.initial = wallet.initial
      BY <2>2, <2>3 DEF Capture
    <2> HIDE DEF new
    <2>6. TaskOK(c, new)
      BY <2>2, <2>4, <2>5 DEF TaskOK, Stamped
    <2>7. Holds(new)
      BY <1>3, <2>2, <2>4, <2>5 DEF Holds, Stamped
    <2>8. new.at = 0
      BY <2>5, <2>6 DEF TaskOK, Stamped
    <2> HIDE DEF SnapInv
    <2> QED BY <1>1, <2>1, <2>5, <2>6, <2>7, <2>8, GoesKeeps
  <1> QED BY <1>2, <1>3

LEMMA ReadPositionsKeeps ==
    ASSUME IInv, SnapInv, NEW c \in Tasks, ReadPositions(c)
    PROVE  SnapInv'
  <1> DEFINE old == capturing[c]
             held == [x \in rows |-> IF x \in DOMAIN old.held THEN old.held[x]
                                     ELSE positions[x]]
             phase == IF c = Job THEN "comparing" ELSE "saving"
             new == [old EXCEPT !.phase = phase, !.at = Now, !.held = held]
  <1>1. At(c, "positions") /\ UNCHANGED curve /\ Goes(c, new)
    BY DEF ReadPositions
  <1>2. /\ TaskOK(c, old) /\ Holds(old)
        /\ old \in Capture /\ old.held \in Partial(Position)
    BY DEF SnapInv, CaptureInv, TaskOK, Capture
  <1>3. /\ positions \in [Symbols -> Position] /\ rows \in SUBSET Symbols
        /\ \A x \in Symbols \ rows : positions[x] = Flat
    BY DEF IInv, TypeOK, RowInv
  <1>4. old.phase = "positions"
    BY <1>1 DEF At
  <1>5. /\ Now \in Nat \ {0}
        /\ \A d \in Tasks : capturing[d].at < Now /\ capturing[d].at \in Nat
        /\ \A row \in curve : row.at < Now /\ row.at \in Nat
        /\ \A s \in Sessions : stamps[s] < Now /\ stamps[s] \in Nat
    BY NowIsLater DEF SnapInv, StampInv, CaptureInv, TaskOK, Capture, Point
  <1> DEFINE now == Now
  <1> HIDE DEF old, now
  <1>6. held \in Partial(Position) /\ DOMAIN held = rows
    <2>1. \A x \in DOMAIN old.held : old.held[x] \in Position
      BY <1>2, PartialFacts
    <2>2. DOMAIN held = rows /\ held \in [rows -> Position]
      BY <1>3, <2>1
    <2> HIDE DEF held
    <2> QED BY <1>3, <2>2, PartialFacts
  <1>7. ~old.overtaken => \A x \in rows : held[x] = positions[x]
    BY <1>2, <1>4 DEF Holds
  <1> HIDE DEF held
  <1>8. /\ new \in Capture /\ new.held = held /\ new.phase = phase
        /\ new.at = Now /\ new.overtaken = old.overtaken
        /\ new.cash = old.cash /\ new.initial = old.initial
    BY <1>2, <1>5, <1>6 DEF Capture
  <1>9. Stamped(new) /\ new.phase # "idle" /\ (c = Job => new.phase = "comparing")
    BY <1>8 DEF Stamped
  <1>10. c # Job => new.phase = "saving"
    BY <1>8
  <1> HIDE DEF new, phase
  <1>11. TaskOK(c, new)
    BY <1>5, <1>6, <1>8, <1>9, <1>10 DEF TaskOK
  <1>12. Holds(new)
    BY <1>2, <1>3, <1>4, <1>5, <1>6, <1>7, <1>8, <1>9 DEF Holds
  <1>13. \A d \in Tasks : new.at # capturing[d].at
    BY <1>5, <1>8
  <1> HIDE DEF SnapInv
  <1> QED BY <1>1, <1>9, <1>11, <1>12, <1>13, GoesKeeps

-----------------------------------------------------------------------------
(* What a valuation of the whole account is *)

NetOf(p) == SumFunction([x \in Symbols |-> p[x].net])

RealizedOf(p) == SumFunction([x \in Symbols |-> p[x].realized])

\* held is all that there is in p.
Covers(held, p) ==
    /\ held \in Partial(Position) /\ p \in [Symbols -> Position]
    /\ \A x \in DOMAIN held : held[x] = p[x]
    /\ \A x \in Symbols \ DOMAIN held : p[x] = Flat

\* Rows that are not there are worth nothing.
LEMMA CoveredSums ==
    ASSUME NEW held, NEW p, Covers(held, p)
    PROVE  /\ SumFunction([x \in DOMAIN held |-> held[x].realized]) = RealizedOf(p)
           /\ SumFunction([x \in DOMAIN held |-> held[x].charges]) = ChargesOf(p)
           /\ SumFunction([x \in DOMAIN held |-> held[x].net]) = NetOf(p)
           /\ RealizedOf(p) \in Int /\ ChargesOf(p) \in Int /\ NetOf(p) \in Int
  <1> DEFINE D == DOMAIN held
             realized == [x \in D |-> held[x].realized]
             charges == [x \in D |-> held[x].charges]
             net == [x \in D |-> held[x].net]
             allRealized == [x \in Symbols |-> p[x].realized]
             allCharges == [x \in Symbols |-> p[x].charges]
             allNet == [x \in Symbols |-> p[x].net]
  <1>1. /\ D \in SUBSET Symbols /\ IsFiniteSet(Symbols)
        /\ \A x \in D : held[x] = p[x]
        /\ \A x \in Symbols : p[x] \in Position
        /\ \A x \in Symbols \ D : p[x] = Flat
    BY DataAssumption, PartialFacts DEF Covers
  <1>2. \A x \in Symbols : /\ p[x].realized \in Int /\ p[x].charges \in Int /\ p[x].net \in Int
                           /\ x \notin D => p[x].realized = 0 /\ p[x].charges = 0
                                              /\ p[x].net = 0
    BY <1>1 DEF Position, Flat
  <1>3. /\ DOMAIN realized = D /\ DOMAIN charges = D /\ DOMAIN net = D
        /\ DOMAIN allRealized = Symbols /\ DOMAIN allCharges = Symbols
        /\ DOMAIN allNet = Symbols
    OBVIOUS
  <1>4. \A x \in D : realized[x] \in Int /\ charges[x] \in Int /\ net[x] \in Int
    BY <1>1, <1>2
  <1>5. \A x \in Symbols : /\ allRealized[x] = IF x \in D THEN realized[x] ELSE 0
                           /\ allCharges[x] = IF x \in D THEN charges[x] ELSE 0
                           /\ allNet[x] = IF x \in D THEN net[x] ELSE 0
                           /\ allRealized[x] \in Int /\ allCharges[x] \in Int
                           /\ allNet[x] \in Int
    BY <1>1, <1>2
  <1>6. /\ RealizedOf(p) = SumFunction(allRealized) /\ ChargesOf(p) = SumFunction(allCharges)
        /\ NetOf(p) = SumFunction(allNet)
    BY DEF RealizedOf, ChargesOf, NetOf
  <1> HIDE DEF realized, charges, net, allRealized, allCharges, allNet
  <1>7. SumFunction(realized) = SumFunction(allRealized) /\ SumFunction(allRealized) \in Int
    BY <1>1, <1>3, <1>4, <1>5, SumExtends, SumType
  <1>8. SumFunction(charges) = SumFunction(allCharges) /\ SumFunction(allCharges) \in Int
    BY <1>1, <1>3, <1>4, <1>5, SumExtends, SumType
  <1>9. SumFunction(net) = SumFunction(allNet) /\ SumFunction(allNet) \in Int
    BY <1>1, <1>3, <1>4, <1>5, SumExtends, SumType
  <1> QED BY <1>6, <1>7, <1>8, <1>9 DEF realized, charges, net

LEMMA CommittedPositions ==
    ASSUME NEW p \in [Symbols -> Position], NEW r \in SUBSET Symbols,
           \A x \in Symbols : x \notin r => p[x] = Flat
    PROVE  Covers(Restrict(p, r), p)
  BY RestrictedPositions DEF Covers

\* The point that a task is about to save.
LEMMA CapturedPoint ==
    ASSUME IInv, StampInv, CaptureInv, NEW c \in Tasks, Stamped(capturing[c])
    PROVE  /\ Captured(c) \in Point
           /\ Captured(c).at = capturing[c].at /\ Captured(c).order = 0
           /\ Captured(c).source = IF c = Job THEN "PERIODIC" ELSE "MANUAL"
           /\ Captured(c).overtaken = capturing[c].overtaken
           /\ Captured(c).found = capturing[c].found
           /\ Captured(c).unpriced = HeldOpen(capturing[c].held) \ DOMAIN capturing[c].marks
           /\ Captured(c).valuation =
                 Valuation(capturing[c].cash, capturing[c].held, capturing[c].marks)
           /\ ~capturing[c].overtaken =>
                 /\ Covers(capturing[c].held, positions)
                 /\ capturing[c].cash = wallet.cash /\ Captured(c).initial = wallet.initial
  <1> DEFINE capture == capturing[c]
             held == capture.held
             marks == capture.marks
             valuation == Valuation(capture.cash, held, marks)
             unpriced == HeldOpen(held) \ DOMAIN marks
             source == IF c = Job THEN "PERIODIC" ELSE "MANUAL"
  <1>1. TaskOK(c, capture) /\ Holds(capture)
    BY DEF CaptureInv
  <1>2. /\ held \in Partial(Position) /\ marks \in Partial(Nat)
        /\ capture.cash \in Nat /\ capture.initial \in Nat
        /\ capture.at \in Nat \ {0} /\ capture.found \in Nat
        /\ capture.overtaken \in BOOLEAN
    BY <1>1 DEF TaskOK, Capture
  <1>3. valuation \in ValuationRow
    <2> HIDE DEF held, marks
    <2> QED BY <1>2, ValuationType
  <1>4. unpriced \in SUBSET Symbols
    BY <1>2, PartialFacts DEF HeldOpen
  <1>5. Captured(c) = [at |-> capture.at, source |-> source, valuation |-> valuation,
                       initial |-> capture.initial, order |-> 0, unpriced |-> unpriced,
                       overtaken |-> capture.overtaken, found |-> capture.found]
    BY DEF Captured, Row
  <1>6. ASSUME ~capture.overtaken
        PROVE  /\ Covers(held, positions)
               /\ capture.cash = wallet.cash /\ capture.initial = wallet.initial
    <2>1. capture.phase # "idle"
      BY DEF Stamped
    <2> QED BY <1>1, <1>2, <1>6, <2>1 DEF Holds, Covers, IInv, TypeOK
  <1>7. source \in Source
    BY DEF Source
  <1> HIDE DEF valuation, unpriced, source
  <1>8. Captured(c) \in Point
    BY <1>2, <1>3, <1>4, <1>5, <1>7 DEF Point
  <1> QED BY <1>2, <1>5, <1>6, <1>8 DEF valuation, unpriced, source

\* The latest of the points is one of them, if there is any.
LEMMA LatestFacts ==
    ASSUME StampInv, NEW some \in curve
    PROVE  /\ \E row \in curve : Latest = {row} /\ \A other \in curve : other.at <= row.at
           /\ \A row \in Latest : Max({0} \cup {r.at : r \in Latest}) = row.at
  <1> DEFINE ats == {row.at : row \in curve}
  <1>1. /\ IsFiniteSet(curve) /\ \A row \in curve : row.at \in Nat \ {0}
        /\ \A row, other \in curve : row.at = other.at => row = other
    BY DEF StampInv, Point
  <1>2. IsFiniteSet(ats)
    <2> DEFINE f == [row \in curve |-> row.at]
    <2>1. f \in Surjection(curve, ats)
      BY DEF Surjection
    <2> QED BY <1>1, <2>1, FS_Surjection
  <1>3. ats \subseteq Int /\ ats # {}
    BY <1>1
  <1>4. Max(ats) \in ats /\ \A y \in ats : Max(ats) >= y
    <2> HIDE DEF ats
    <2> QED BY <1>2, <1>3, MaxIsLargest
  <1>5. PICK row \in curve : row.at = Max(ats)
    BY <1>4
  <1>6. \A other \in curve : other.at <= row.at
    BY <1>1, <1>4, <1>5
  <1>7. Latest = {row}
    <2>1. row \in Latest
      BY <1>6 DEF Latest
    <2>2. ASSUME NEW r \in Latest PROVE r = row
      <3>1. r \in curve /\ row.at <= r.at
        BY <2>2 DEF Latest
      <3>2. r.at = row.at
        BY <1>1, <1>6, <3>1
      <3> QED BY <1>1, <3>1, <3>2
    <2> QED BY <2>1, <2>2
  <1> HIDE DEF ats
  <1>8. {0} \cup {r.at : r \in Latest} = {0, row.at}
    BY <1>7
  <1>9. IsFiniteSet({0, row.at}) /\ {0, row.at} \subseteq Int
    <2>1. IsFiniteSet({0}) /\ {0, row.at} = {0} \cup {row.at}
      BY FS_Singleton
    <2>2. IsFiniteSet({0} \cup {row.at})
      BY <2>1, FS_AddElement
    <2>3. IsFiniteSet({0, row.at})
      BY <2>1, <2>2
    <2> QED BY <1>1, <2>3
  <1>10. /\ Max({0, row.at}) \in {0, row.at}
         /\ \A y \in {0, row.at} : Max({0, row.at}) >= y
    BY <1>9, MaxIsLargest
  <1>11. Max({0, row.at}) = row.at
    BY <1>1, <1>10
  <1> QED BY <1>6, <1>7, <1>8, <1>11

\* The job's point differs from the latest, so that it repeats none: one that it
\* is like has the latest after it, between the two or, if stamped later than the
\* job's, as an excuse.
LEMMA CompareKeeps == ASSUME IInv, SnapInv, Compare PROVE SnapInv'
  <1>1. At(Job, "comparing") /\ UNCHANGED curve /\ Job \in Tasks
    BY DEF Compare, Tasks
  <1>2. CASE \E row \in Latest : Equivalent(Captured(Job), row)
    <2>1. Goes(Job, Quiet)
      BY <1>2 DEF Compare
    <2> QED BY <1>1, <2>1, CaptureFailsKeeps
  <1>3. CASE ~ \E row \in Latest : Equivalent(Captured(Job), row)
    <2> DEFINE old == capturing[Job]
               f == Max({0} \cup {row.at : row \in Latest})
               new == [old EXCEPT !.phase = "saving", !.found = f]
               point == Captured(Job)'
    <2>1. Goes(Job, new)
      BY <1>3 DEF Compare
    <2>2. StampInv /\ CaptureInv
      BY DEF SnapInv
    <2>3. TaskOK(Job, old) /\ Holds(old) /\ old \in Capture
      BY <1>1, <2>2 DEF CaptureInv, TaskOK
    <2>4. old.phase = "comparing" /\ Stamped(old)
      BY <1>1 DEF At, Stamped
    <2>5. f \in Nat /\ (f = 0 \/ \E row \in curve : f = row.at)
          /\ \A row \in Latest : f = row.at
      <3>1. CASE curve = {}
        <4>1. Latest = {}
          BY <3>1 DEF Latest
        <4>2. {0} \cup {row.at : row \in Latest} = {0}
          BY <4>1
        <4>3. Max({0}) \in {0}
          BY FS_Singleton, MaxIsLargest
        <4> QED BY <4>1, <4>2, <4>3
      <3>2. CASE curve # {}
        <4>1. PICK some \in curve : TRUE
          BY <3>2
        <4>2. PICK row \in curve : Latest = {row}
          BY <2>2, <4>1, LatestFacts
        <4>3. \A r \in Latest : f = r.at
          BY <2>2, <4>1, LatestFacts
        <4> HIDE DEF f
        <4>4. f = row.at /\ row.at \in Nat
          BY <2>2, <4>2, <4>3 DEF StampInv, Point
        <4> QED BY <4>3, <4>4
      <3> QED BY <3>1, <3>2
    <2>6. /\ Captured(Job).valuation = Valuation(old.cash, old.held, old.marks)
          /\ Captured(Job).at = old.at /\ Captured(Job).overtaken = old.overtaken
          /\ Captured(Job).at \in Nat
      BY <1>1, <2>2, <2>4, CapturedPoint DEF Point
    <2>7. /\ point.at = new.at /\ point.source = "PERIODIC"
          /\ point.valuation = Valuation(new.cash, new.held, new.marks)
          /\ point.overtaken = new.overtaken /\ point.found = new.found
      <3>1. capturing'[Job] = new
        BY <1>1, <2>1, <2>2 DEF Goes, CaptureInv
      <3> QED BY <3>1 DEF Captured, Row
    <2> HIDE DEF old, f, point
    <2>8. /\ new \in Capture /\ new.held = old.held /\ new.phase = "saving"
          /\ new.at = old.at /\ new.overtaken = old.overtaken /\ new.found = f
          /\ new.cash = old.cash /\ new.initial = old.initial /\ new.marks = old.marks
      BY <2>3, <2>5 DEF Capture
    <2> HIDE DEF new
    <2>9. Stamped(new)
      BY <2>8 DEF Stamped
    <2>10. TaskOK(Job, new)
      BY <2>3, <2>4, <2>8, <2>9 DEF TaskOK
    <2>11. Holds(new)
      BY <2>3, <2>4, <2>8, <2>9 DEF Holds
    <2>12. \A d \in Tasks : d # Job => new.at = 0 \/ new.at # capturing[d].at
      BY <1>1, <2>2, <2>8 DEF CaptureInv, old
    <2>13. /\ point.valuation = Captured(Job).valuation /\ point.at = Captured(Job).at
           /\ point.overtaken = old.overtaken /\ point.found = f /\ point.at \in Nat
      BY <2>6, <2>7, <2>8
    <2>14. /\ \A row \in curve : row.at # point.at /\ row.at \in Nat \ {0}
           /\ \A row \in curve : row.source = "PERIODIC" => row.at < point.at
           /\ ~point.overtaken =>
                 \A row \in curve : row.source = "TRADE" => row.at < point.at
           /\ \A row \in curve : row.source \in Source
      <3>1. point.at = old.at
        BY <2>6, <2>13
      <3>2. old.phase # "idle"
        BY <2>4
      <3> QED BY <2>2, <2>3, <2>4, <2>13, <3>1, <3>2 DEF StampInv, Point, TaskOK, Holds
    <2>15. ~point.overtaken =>
              \A row \in curve : row.at > point.at => row.source = "MANUAL"
      BY <2>13, <2>14 DEF Source
    <2>16. Compared(point, curve)
      BY <2>5, <2>13, <2>14, <2>15 DEF Compared
    <2>17. ASSUME NEW other \in curve, Repeats(point, other, curve)
           PROVE  FALSE
      <3>1. PICK last \in curve : Latest = {last} /\ \A row \in curve : row.at <= last.at
        BY <2>2, LatestFacts
      <3>2. last.at = f
        BY <2>5, <3>1
      <3>3. /\ ~point.overtaken /\ Equivalent(point, other) /\ other.at < point.at
            /\ ~(other.at < last.at /\ last.at < point.at)
            /\ ~(last.source = "MANUAL" /\ last.at = point.found /\ last.at > point.at)
        BY <2>17 DEF Repeats, Excused
      <3>4. ~Equivalent(point, last)
        BY <1>3, <2>13, <3>1 DEF Equivalent
      <3>5. last # other
        BY <3>3, <3>4
      <3>6. other.at < last.at
        BY <2>2, <2>14, <3>1, <3>5 DEF StampInv
      <3>7. last.at > point.at
        BY <2>13, <2>14, <3>3, <3>6
      <3> QED BY <2>13, <2>15, <3>2, <3>3, <3>7
    <2> HIDE DEF SnapInv
    <2> QED BY <1>1, <2>1, <2>10, <2>11, <2>12, <2>16, <2>17, GoesKeeps DEF point
  <1> QED BY <1>2, <1>3

\* A manual point that is saved late makes nothing a repetition: it was not there
\* to be found, or what was found lies between, or is stamped later.
LEMMA LateManualIsExcused ==
    ASSUME NEW row \in Point, NEW points \in SUBSET Point, NEW new \in Point,
           Compared(row, points), new.source = "MANUAL",
           \A point \in points : point.at # new.at
    PROVE  ~Repeats(row, new, points \cup {new})
  <1> SUFFICES ASSUME Repeats(row, new, points \cup {new}) PROVE FALSE
    OBVIOUS
  <1>1. /\ row.source = "PERIODIC" /\ ~row.overtaken /\ new.at < row.at
        /\ \A between \in points : ~(new.at < between.at /\ between.at < row.at)
        /\ ~(new.at > row.found)
        /\ \A later \in points :
              ~(later.source = "MANUAL" /\ later.at = row.found /\ later.at > row.at)
    BY DEF Repeats, Excused
  <1>2. row.found # 0 /\ new.at \in Nat /\ row.at \in Nat /\ row.found \in Nat
    BY <1>1 DEF Point
  <1>3. PICK next \in points : /\ next.at = row.found /\ next.at # row.at
                               /\ next.at > row.at => next.source = "MANUAL"
    BY <1>1, <1>2 DEF Compared
  <1>4. next.at > new.at
    BY <1>1, <1>2, <1>3
  <1> QED BY <1>1, <1>2, <1>3, <1>4

LEMMA SaveKeeps ==
    ASSUME IInv, SnapInv, NEW c \in Tasks, Save(c)
    PROVE  SnapInv'
  <1> DEFINE point == Captured(c)
             capture == capturing[c]
  <1>1. /\ Goes(c, Quiet) /\ curve' = curve \cup {point} /\ capture.phase = "saving"
        /\ Stamped(capture)
    BY DEF Save, At, Stamped
  <1>2. StampInv /\ CaptureInv /\ OrderInv /\ FoundInv /\ IdleInv
    BY DEF SnapInv
  <1>3. /\ point \in Point /\ point.at = capture.at /\ point.order = 0
        /\ point.source = IF c = Job THEN "PERIODIC" ELSE "MANUAL"
        /\ point.overtaken = capture.overtaken
        /\ point.valuation = Valuation(capture.cash, capture.held, capture.marks)
        /\ ~capture.overtaken => Covers(capture.held, positions) /\ capture.cash = wallet.cash
    BY <1>1, <1>2, CapturedPoint
  <1>4. TaskOK(c, capture) /\ Holds(capture) /\ capture.at \in Nat \ {0}
    BY <1>1, <1>2 DEF CaptureInv, TaskOK, Capture
  <1>5. UNCHANGED <<wallet, positions, rows, trades, pc, stamps>>
    BY <1>1 DEF Goes, vars
  <1>6. /\ DOMAIN capturing' = Tasks /\ capturing'[c] = Quiet
        /\ \A d \in Tasks : d # c => capturing'[d] = capturing[d]
    BY <1>1, <1>2 DEF Goes, CaptureInv
  <1>7. Job \in Tasks
    BY DEF Tasks
  <1>8. curve \subseteq Point /\ \A row \in curve : row.at # point.at
    BY <1>2, <1>3, <1>4 DEF StampInv, TaskOK
  <1> HIDE DEF point, capture
  <1>9. StampInv'
    <2>1. IsFiniteSet(curve') /\ curve' \subseteq Point
      BY <1>1, <1>2, <1>3, FS_AddElement DEF StampInv
    <2>2. \A row, other \in curve' : row.at = other.at => row = other
      BY <1>1, <1>2, <1>8 DEF StampInv
    <2>3. \A s \in Sessions : pc[s] = "settled" =>
             stamps[s] # 0 /\ \A row \in curve' : row.at # stamps[s]
      BY <1>1, <1>2, <1>3, <1>4 DEF StampInv, TaskOK
    <2>4. wallet.open
      BY <1>1, <1>4 DEF Holds
    <2> QED BY <1>2, <1>5, <2>1, <2>2, <2>3, <2>4 DEF StampInv
  <1>10. CaptureInv'
    <2>1. ASSUME NEW d \in Tasks
          PROVE  TaskOK(d, capturing[d])' /\ Holds(capturing[d])'
      <3>1. CASE d = c
        <4>1. /\ Quiet \in Capture /\ DOMAIN Quiet.held = {} /\ Quiet.phase = "idle"
              /\ Quiet.at = 0
          BY QuietFacts
        <4>2. \A row \in curve' : row.at # 0
          BY <1>9 DEF StampInv, Point
        <4>3. \A s \in Sessions : pc'[s] = "settled" => stamps'[s] # 0
          BY <1>9 DEF StampInv
        <4> QED BY <1>6, <3>1, <4>1, <4>2, <4>3 DEF TaskOK, Holds, Stamped
      <3>2. CASE d # c
        <4> DEFINE other == capturing[d]
        <4>1. TaskOK(d, other) /\ Holds(other) /\ capturing'[d] = other
          BY <1>2, <1>6, <3>2 DEF CaptureInv
        <4>2. point.at # other.at
          BY <1>2, <1>3, <1>4, <3>2 DEF CaptureInv, capture
        <4>3. d = Job => point.source = "MANUAL"
          BY <1>3, <3>2
        <4>4. point.source # "TRADE"
          BY <1>3
        <4> HIDE DEF other
        <4>5. TaskOK(d, capturing[d])'
          BY <1>1, <1>5, <4>1, <4>2, <4>3 DEF TaskOK, Stamped
        <4>6. Holds(capturing[d])'
          BY <1>1, <1>5, <4>1, <4>4 DEF Holds, Stamped
        <4> QED BY <4>5, <4>6
      <3> QED BY <3>1, <3>2
    <2>2. \A d, e \in Tasks : capturing'[d].at = capturing'[e].at =>
             d = e \/ capturing'[d].at = 0
      BY <1>2, <1>6, QuietFacts DEF CaptureInv
    <2> QED BY <1>6, <2>1, <2>2 DEF CaptureInv
  <1>11. OrderInv'
    BY <1>1, <1>2, <1>3, <1>5 DEF OrderInv
  <1>12. FoundInv'
    <2>1. \A row \in curve : Compared(row, curve')
      <3>1. \A row \in curve : Compared(row, curve)
        BY <1>2 DEF FoundInv
      <3> QED BY <1>1, <3>1, MorePoints
    <2>2. Compared(point, curve')
      <3>1. CASE c = Job
        <4>1. Compared(point, curve)
          BY <1>1, <1>2, <3>1 DEF FoundInv, At, point, capture
        <4> QED BY <1>1, <4>1, MorePoints
      <3>2. CASE c # Job
        BY <1>3, <3>2 DEF Compared
      <3> QED BY <3>1, <3>2
    <2>3. CASE c = Job
      <3>1. ~At(Job, "saving")'
        BY <1>6, <2>3, QuietFacts DEF At
      <3> QED BY <1>1, <2>1, <2>2, <3>1 DEF FoundInv
    <2>4. CASE c # Job
      <3> DEFINE own == Captured(Job)
      <3>1. capturing'[Job] = capturing[Job]
        BY <1>6, <1>7, <2>4
      <3>2. own' = own /\ At(Job, "saving")' = At(Job, "saving")
        BY <3>1, SamePoint DEF At
      <3>3. ASSUME At(Job, "saving")
            PROVE  Compared(own, curve') /\ \A other \in curve' : ~Repeats(own, other, curve')
        <4>1. Stamped(capturing[Job])
          BY <3>3 DEF At, Stamped
        <4>2. own \in Point
          BY <1>2, <1>7, <4>1, CapturedPoint
        <4>3. Compared(own, curve) /\ \A other \in curve : ~Repeats(own, other, curve)
          BY <1>2, <3>3 DEF FoundInv
        <4>4. point.source = "MANUAL"
          BY <1>3, <2>4
        <4> HIDE DEF own
        <4>5. ~Repeats(own, point, curve')
          BY <1>1, <1>3, <1>8, <4>2, <4>3, <4>4, LateManualIsExcused
        <4>6. Compared(own, curve') /\ \A other \in curve : ~Repeats(own, other, curve')
          BY <1>1, <4>3, MorePoints
        <4> QED BY <1>1, <4>5, <4>6
      <3> QED BY <1>1, <2>1, <2>2, <3>2, <3>3 DEF FoundInv
    <2> QED BY <2>3, <2>4
  <1>13. IdleInv'
    <2> SUFFICES ASSUME NEW row \in curve', NEW s \in Sessions, row.source = "PERIODIC",
                        ~row.overtaken, pc[s] = "settled", stamps[s] < row.at
                 PROVE  /\ row.valuation.cash = wallet.cash
                        /\ row.valuation.charges = ChargesOf(positions)
      BY <1>5 DEF IdleInv, ChargesOf
    <2>1. CASE row \in curve
      BY <1>2, <2>1 DEF IdleInv
    <2>2. CASE row = point
      <3> DEFINE held == capture.held
      <3>1. Covers(held, positions) /\ capture.cash = wallet.cash
        BY <1>3, <2>2
      <3> HIDE DEF held
      <3>2. SumFunction([x \in DOMAIN held |-> held[x].charges]) = ChargesOf(positions)
        BY <3>1, CoveredSums
      <3> QED BY <1>3, <2>2, <3>1, <3>2 DEF Valuation, held
    <2> QED BY <1>1, <2>1, <2>2
  <1> QED BY <1>9, <1>10, <1>11, <1>12, <1>13 DEF SnapInv

LEMMA NextSnapInv == IInv /\ IInv' /\ SnapInv /\ [SnapNext]_allVars => SnapInv'
  <1> SUFFICES ASSUME IInv, IInv', SnapInv, [SnapNext]_allVars PROVE SnapInv'
    OBVIOUS
  <1>1. CASE UNCHANGED allVars
    <2>1. Captured(Job)' = Captured(Job)
      BY <1>1, SamePoint DEF allVars, snapVars
    <2> QED BY <1>1, <2>1 DEF allVars, snapVars, vars, SnapInv, StampInv, CaptureInv, TaskOK,
                 Stamped, Holds, OrderInv, FoundInv, IdleInv, At, ChargesOf
  <1>2. ASSUME NEW s \in Sessions, EngineAlone(s) PROVE SnapInv'
    BY <1>2, EngineAloneKeeps
  <1>3. ASSUME NEW s \in Sessions, SettleAndStamp(s) PROVE SnapInv'
    BY <1>3, SettleKeeps
  <1>4. ASSUME NEW s \in Sessions, CommitAndCapture(s) PROVE SnapInv'
    BY <1>4, CommitKeeps
  <1>5. CASE StartPeriodic \/ \E c \in Requests : StartManual(c)
    BY <1>5, StartKeeps
  <1>6. CASE Quote
    BY <1>6, QuoteKeeps
  <1>7. CASE Compare
    BY <1>7, CompareKeeps
  <1>8. ASSUME NEW c \in Tasks, ReadWallet(c) PROVE SnapInv'
    BY <1>8, ReadWalletKeeps
  <1>9. ASSUME NEW c \in Tasks, ReadPositions(c) PROVE SnapInv'
    BY <1>9, ReadPositionsKeeps
  <1>10. ASSUME NEW c \in Tasks, Save(c) PROVE SnapInv'
    BY <1>10, SaveKeeps
  <1>11. ASSUME NEW c \in Tasks, CaptureFails(c) PROVE SnapInv'
    BY <1>11, CaptureFailsKeeps DEF CaptureFails
  <1>12. CASE Waiting /\ UNCHANGED snapVars
    BY <1>1, <1>12 DEF Waiting, allVars
  <1> HIDE DEF SnapInv
  <1> QED BY <1>1, <1>2, <1>3, <1>4, <1>5, <1>6, <1>7, <1>8, <1>9, <1>10, <1>11, <1>12
             DEF SnapNext

LEMMA SnapInvariance == SnapSpec => []SnapInv
  BY InitSnapInv, NextSnapInv, CapturesOnlyLook, Invariance, PTL DEF SnapSpec

\* In every reachable state every point has a stamp of its own, in the past,
\* and no negative cash, and a capture holds only rows that are committed.
THEOREM CurveTypeCorrect == SnapSpec => []SnapTypeOK
  <1>1. SnapInv => SnapTypeOK
    <2> SUFFICES ASSUME SnapInv PROVE SnapTypeOK
      OBVIOUS
    <2>1. /\ curve \subseteq Point
          /\ \A row, other \in curve : row.at = other.at => row = other
          /\ stamps \in [Sessions -> Nat]
      BY DEF SnapInv, StampInv
    <2>2. /\ Now \in Nat \ {0}
          /\ \A row \in curve : row.at < Now
          /\ \A s \in Sessions : stamps[s] < Now
      BY NowIsLater DEF SnapInv
    <2>3. \A row \in curve : row.at \in 1 .. Now - 1 /\ row.source \in Source
                             /\ row.valuation.cash >= 0
      BY <2>1, <2>2 DEF Point, ValuationRow
    <2>4. stamps \in [Sessions -> 0 .. Now - 1]
      BY <2>1, <2>2
    <2>5. ASSUME NEW c \in Tasks
          PROVE  /\ capturing[c].phase \in {"idle", "wallet", "positions", "saving"}
                       \cup IF c = Job THEN {"pricing", "comparing"} ELSE {}
                 /\ DOMAIN capturing[c].held \subseteq rows
                 /\ DOMAIN capturing[c].marks \subseteq Symbols
      <3>1. TaskOK(c, capturing[c]) /\ capturing[c].marks \in Partial(Nat)
        BY DEF SnapInv, CaptureInv, TaskOK, Capture
      <3> QED BY <3>1, PartialFacts DEF TaskOK, Capture
    <2> QED BY <2>1, <2>3, <2>4, <2>5 DEF SnapTypeOK
  <1> QED BY <1>1, SnapInvariance, PTL

-----------------------------------------------------------------------------
(* The points of fills *)

\* Only two steps add a point.
LEMMA CurveStays ==
    ASSUME [SnapNext]_allVars
    PROVE  \/ UNCHANGED <<curve, trades>>
           \/ \E s \in Sessions : CommitAndCapture(s)
           \/ \E c \in Tasks : Save(c)
  <1>1. CASE UNCHANGED allVars
    BY <1>1 DEF allVars, snapVars, vars
  <1>2. ASSUME NEW s \in Sessions, EngineAlone(s)
        PROVE  UNCHANGED <<curve, trades>>
    BY <1>2 DEF EngineAlone, LockWallet, LockPosition, MissPosition, InsertPosition, Reject,
                CommitRejection, FindNoWallet, AdoptWallet, WalletMissing, InsertWallet,
                Submit, ResetWallet, Abort, tables, snapVars
  <1>3. ASSUME NEW s \in Sessions, SettleAndStamp(s)
        PROVE  UNCHANGED <<curve, trades>>
    BY <1>3 DEF SettleAndStamp, Settle, tables
  <1>4. CASE StartPeriodic \/ Quote \/ Compare
    BY <1>4 DEF StartPeriodic, Quote, Compare, Goes, vars
  <1>5. ASSUME NEW c \in Tasks, StartManual(c) \/ ReadWallet(c) \/ ReadPositions(c)
                                \/ CaptureFails(c)
        PROVE  UNCHANGED <<curve, trades>>
    BY <1>5 DEF StartManual, ReadWallet, ReadPositions, CaptureFails, Goes, vars
  <1>6. CASE Waiting /\ UNCHANGED snapVars
    BY <1>6 DEF Waiting, snapVars, vars
  <1>7. Requests \subseteq Tasks
    BY DEF Tasks
  <1> QED BY <1>1, <1>2, <1>3, <1>4, <1>5, <1>6, <1>7 DEF SnapNext

\* The points of an order.
PointsOf(order) == {row \in curve : row.order = order}

RealizedBefore(row) == SumFunction([trade \in Before(row) |-> trade.gross])

ChargedBefore(row) == SumFunction([trade \in Before(row) |-> trade.charges])

FollowsFills(row) ==
    /\ \E trade \in trades : trade.order = row.order
    /\ row.valuation.realized = RealizedBefore(row)
    /\ row.valuation.charges = ChargedBefore(row)

\* A fill commits with its point, which is the account it leaves; it comes
\* after every fill that already has one.
LEMMA CommitFollows ==
    ASSUME IInv, IInv', BooksInv, SnapInv, TradeRowsFollowFills, NEW s \in Sessions,
           CommitAndCapture(s)
    PROVE  TradeRowsFollowFills'
  <1>1. PICK new \in TradeRow :
           work[s].fill = {new} /\ new.symbol = req[s].symbol /\ Commits(s, new)
    BY CommitFillCommits DEF CommitAndCapture
  <1>2. StampInv /\ OrderInv
    BY DEF SnapInv
  <1>3. PICK point \in Point : FillPoint(s, new, point)
    BY <1>1, <1>2, CommitPoint
  <1>4. /\ trades' = trades \cup {new} /\ new.order \in OrderIds
        /\ \A trade \in trades : trade.order < new.order /\ trade.order \in Nat
        /\ trades \subseteq TradeRow /\ IsFiniteSet(trades)
    BY <1>1 DEF Commits, IInv, TypeOK, TradeRow, BooksInv, LogInv
  <1>5. curve' = curve \cup {point} /\ point.order = new.order
    BY <1>3 DEF FillPoint
  <1>6. new.order \in Nat /\ \A row \in curve : row.order # new.order
    BY <1>2, <1>4 DEF OrderInv, OrderIds
  <1>7. \A trade \in trades' : Cardinality({row \in curve' : row.order = trade.order}) = 1
    <2>1. ASSUME NEW trade \in trades
          PROVE  {row \in curve' : row.order = trade.order} = PointsOf(trade.order)
      BY <1>4, <1>5, <2>1 DEF PointsOf
    <2>2. {row \in curve' : row.order = new.order} = {point}
      BY <1>5, <1>6
    <2>3. \A trade \in trades : Cardinality(PointsOf(trade.order)) = 1
      BY DEF TradeRowsFollowFills, PointsOf
    <2>4. Cardinality({row \in curve' : row.order = new.order}) = 1
      BY <2>2, FS_Singleton
    <2>5. ASSUME NEW trade \in trades
          PROVE  Cardinality({row \in curve' : row.order = trade.order}) = 1
      BY <2>1, <2>3, <2>5
    <2> QED BY <1>4, <2>4, <2>5
  <1>8. ASSUME NEW row \in curve, row.source = "TRADE"
        PROVE  FollowsFills(row)'
    <2>1. /\ \E trade \in trades : trade.order = row.order
          /\ row.valuation.realized = RealizedBefore(row)
          /\ row.valuation.charges = ChargedBefore(row)
      BY <1>8 DEF TradeRowsFollowFills, RealizedBefore, ChargedBefore
    <2>2. PICK trade \in trades : trade.order = row.order
      BY <2>1
    <2>3. Before(row)' = Before(row)
      BY <1>4, <1>6, <2>2 DEF Before
    <2>4. RealizedBefore(row)' = RealizedBefore(row) /\ ChargedBefore(row)' = ChargedBefore(row)
      BY <2>3 DEF RealizedBefore, ChargedBefore
    <2>5. \E t \in trades' : t.order = row.order
      BY <1>4, <2>2
    <2> QED BY <2>1, <2>4, <2>5 DEF FollowsFills
  <1>9. FollowsFills(point)'
    <2> DEFINE held == Restrict(positions', rows')
               marks == [x \in {new.symbol} |-> new.price]
    <2>1. Before(point)' = trades'
      BY <1>4, <1>5, <1>6 DEF Before
    <2>2. /\ Totals'.gross = SumFunction([x \in Symbols |-> positions[x].realized])'
          /\ Totals'.charges = SumFunction([x \in Symbols |-> positions[x].charges])'
      BY <1>1, CommitTotals DEF IInv
    <2>3. /\ Totals'.gross = RealizedOf(positions')
          /\ Totals'.charges = ChargesOf(positions')
      BY <2>2 DEF RealizedOf, ChargesOf
    <2>4. /\ Totals'.gross = RealizedBefore(point)'
          /\ Totals'.charges = ChargedBefore(point)'
      BY <2>1 DEF Totals, RealizedBefore, ChargedBefore
    <2>5. Covers(held, positions')
      <3>1. /\ positions' \in [Symbols -> Position] /\ rows' \in SUBSET Symbols
            /\ \A x \in Symbols : x \notin rows' => positions'[x] = Flat
        BY DEF IInv, TypeOK, RowInv
      <3> QED BY <3>1, CommittedPositions
    <2>6. point.valuation = Valuation(wallet'.cash, held, marks)
      BY <1>3 DEF FillPoint
    <2> HIDE DEF held, marks
    <2>7. /\ SumFunction([x \in DOMAIN held |-> held[x].realized]) = RealizedOf(positions')
          /\ SumFunction([x \in DOMAIN held |-> held[x].charges]) = ChargesOf(positions')
      BY <2>5, CoveredSums
    <2>8. /\ point.valuation.realized = RealizedOf(positions')
          /\ point.valuation.charges = ChargesOf(positions')
      BY <2>6, <2>7 DEF Valuation
    <2>9. \E trade \in trades' : trade.order = point.order
      BY <1>4, <1>5
    <2> QED BY <2>3, <2>4, <2>8, <2>9 DEF FollowsFills
  <1>10. \A row \in curve' : row.source = "TRADE" => FollowsFills(row)'
    BY <1>5, <1>8, <1>9
  <1> QED BY <1>7, <1>10 DEF TradeRowsFollowFills, FollowsFills, RealizedBefore, ChargedBefore

LEMMA SaveFollows ==
    ASSUME IInv, BooksInv, SnapInv, TradeRowsFollowFills, NEW c \in Tasks, Save(c)
    PROVE  TradeRowsFollowFills'
  <1> DEFINE point == Captured(c)
  <1>1. UNCHANGED trades /\ curve' = curve \cup {point} /\ Stamped(capturing[c])
    BY DEF Save, Goes, vars, At, Stamped
  <1>2. point.order = 0 /\ point.source # "TRADE"
    BY <1>1, CapturedPoint DEF SnapInv
  <1>3. \A trade \in trades : trade.order # 0
    BY DEF BooksInv, LogInv, OrderIds
  <1> HIDE DEF point
  <1>4. \A trade \in trades : {row \in curve' : row.order = trade.order} = PointsOf(trade.order)
    BY <1>1, <1>2, <1>3 DEF PointsOf
  <1>5. \A trade \in trades' : Cardinality({row \in curve' : row.order = trade.order}) = 1
    BY <1>1, <1>4 DEF TradeRowsFollowFills, PointsOf
  <1>6. \A row : Before(row)' = Before(row)
    BY <1>1 DEF Before
  <1>7. \A row \in curve' : row.source = "TRADE" => row \in curve
    BY <1>1, <1>2
  <1> QED BY <1>1, <1>5, <1>6, <1>7 DEF TradeRowsFollowFills

\* In every reachable state each fill has exactly one point on the curve, and
\* the realised profit and the charges of that point are those of all fills up
\* to it and of none after it, whatever captures ran in between.
THEOREM FillsAreOnTheCurve == SnapSpec => []TradeRowsFollowFills
  <1>1. SnapInit => TradeRowsFollowFills
    BY DEF SnapInit, Init, TradeRowsFollowFills
  <1>2. IInv /\ IInv' /\ BooksInv /\ SnapInv /\ TradeRowsFollowFills /\ [SnapNext]_allVars
          => TradeRowsFollowFills'
    <2> SUFFICES ASSUME IInv, IInv', BooksInv, SnapInv, TradeRowsFollowFills,
                        [SnapNext]_allVars
                 PROVE  TradeRowsFollowFills'
      OBVIOUS
    <2>1. CASE UNCHANGED <<curve, trades>>
      BY <2>1 DEF TradeRowsFollowFills, Before
    <2> QED BY <2>1, CurveStays, CommitFollows, SaveFollows
  <1> QED BY <1>1, <1>2, SnapInvariance, CapturesOnlyLook, Invariance, BooksInvariance, PTL
             DEF SnapSpec

-----------------------------------------------------------------------------
(* An account that sits idle *)

\* Every fill moves cash or costs something: with fractional quantities a fill
\* worth less than half a paisa and free of charges would do neither.
FillsShow ==
    \A side \in Side, quantity \in Quantities, price \in Prices, charges \in Charges :
        charges # 0 \/ CashDelta(side, quantity, price, charges) # 0

LEMMA WholeUnitsShow ==
    ASSUME Lot = 1 \/ 0 \notin Charges
    PROVE  FillsShow
  <1> SUFFICES ASSUME NEW side \in Side, NEW quantity \in Quantities, NEW price \in Prices,
                      NEW charges \in Charges, charges = 0
               PROVE  CashDelta(side, quantity, price, charges) # 0
    BY DEF FillsShow
  <1>1. /\ Lot = 1 /\ quantity \in Nat \ {0} /\ price \in Nat \ {0}
        /\ Direction(side) = 1 \/ Direction(side) = -1
    BY DataAssumption DEF Direction
  <1> DEFINE n == -(Direction(side) * quantity * price) - charges * Lot
  <1>2. n \in Int /\ n # 0
    <2>1. quantity * price \in Nat \ {0}
      BY <1>1
    <2>2. Direction(side) * quantity * price = Direction(side) * (quantity * price)
      BY <1>1
    <2>3. charges * Lot = 0
      BY <1>1
    <2> DEFINE worth == quantity * price
    <2> HIDE DEF worth
    <2>4. Direction(side) * worth # 0 /\ Direction(side) * worth \in Int
      BY <1>1, <2>1 DEF worth
    <2> QED BY <2>2, <2>3, <2>4 DEF worth
  <1>3. HalfUp(n, Lot) = n
    <2> HIDE DEF n
    <2> QED BY <1>1, <1>2, HalfUpError
  <1> QED BY <1>2, <1>3 DEF CashDelta

\* The amounts of a fill are amounts that a fill can have.
LEMMA CommitShows ==
    ASSUME IInv, FillsShow, NEW s \in Sessions, pc[s] = "settled",
           NEW new \in TradeRow, work[s].fill = {new}
    PROVE  new.charges # 0 \/ TradeCash(new) # 0
  <1>1. PICK price \in Prices, charges \in Charges : FillOf(s, price, charges)
    BY DEF IInv, SettledInv
  <1>2. new = FillRecord(positions[req[s].symbol], work[s].id, req[s].symbol, req[s].side,
                         req[s].quantity, price, charges, wallet.resets)
    BY <1>1 DEF FillOf
  <1>3. /\ new.side = req[s].side /\ new.quantity = req[s].quantity
        /\ new.price = price /\ new.charges = charges
    BY <1>2 DEF FillRecord
  <1>4. req[s].side \in Side /\ req[s].quantity \in Quantities
    BY DEF IInv, TypeOK, ReadInv, Request
  <1> QED BY <1>3, <1>4 DEF FillsShow, TradeCash

LEMMA IdleMeansNoRepeats ==
    IdleCurveDoesNotGrow <=> \A row, other \in curve : ~Repeats(row, other, curve)
  BY DEF IdleCurveDoesNotGrow, Repeats, OutOfTurn, Excused

\* The job's point repeats none, and a manual one makes none a repetition.
LEMMA SaveAddsNoRepeat ==
    ASSUME IInv, SnapInv, IdleCurveDoesNotGrow, NEW c \in Tasks, Save(c)
    PROVE  IdleCurveDoesNotGrow'
  <1> DEFINE point == Captured(c)
  <1>1. /\ curve' = curve \cup {point} /\ At(c, "saving") /\ Stamped(capturing[c])
        /\ StampInv /\ CaptureInv /\ FoundInv
    BY DEF Save, At, Stamped, SnapInv
  <1>2. /\ point \in Point /\ point.at = capturing[c].at
        /\ point.source = IF c = Job THEN "PERIODIC" ELSE "MANUAL"
    BY <1>1, CapturedPoint
  <1>3. TaskOK(c, capturing[c])
    BY <1>1 DEF CaptureInv
  <1>4. curve \subseteq Point /\ \A row \in curve : row.at # point.at
    BY <1>1, <1>2, <1>3 DEF StampInv, TaskOK
  <1>5. \A row, other \in curve : ~Repeats(row, other, curve)
    BY IdleMeansNoRepeats
  <1>6. c = Job => /\ \A other \in curve : ~Repeats(point, other, curve)
                   /\ \A row \in curve : row.source = "PERIODIC" => row.at < point.at
    BY <1>1, <1>2, <1>3 DEF FoundInv, TaskOK
  <1>7. \A row \in curve : Compared(row, curve)
    BY <1>1 DEF FoundInv
  <1> HIDE DEF point
  <1> SUFFICES ASSUME NEW row \in curve', NEW other \in curve', Repeats(row, other, curve')
               PROVE  FALSE
    BY DEF IdleCurveDoesNotGrow, Repeats, OutOfTurn, Excused
  <1>8. /\ row.source = "PERIODIC" /\ other.at < row.at
        /\ Repeats(row, other, curve)
    BY <1>1, MorePoints DEF Repeats
  <1>9. CASE row = point
    <2>1. c = Job /\ other \in curve
      BY <1>1, <1>2, <1>8, <1>9 DEF Point
    <2> QED BY <1>6, <1>8, <1>9, <2>1
  <1>10. CASE row \in curve /\ other = point
    <2>1. CASE c = Job
      <3>1. row.at < point.at /\ row.at \in Nat /\ point.at \in Nat
        BY <1>2, <1>4, <1>6, <1>8, <1>10, <2>1 DEF Point
      <3> QED BY <1>8, <1>10, <3>1
    <2>2. CASE c # Job
      <3>1. point.source = "MANUAL" /\ row \in Point /\ Compared(row, curve)
        BY <1>2, <1>4, <1>7, <1>10, <2>2
      <3>2. ~Repeats(row, point, curve \cup {point})
        BY <1>2, <1>4, <3>1, LateManualIsExcused
      <3> QED BY <1>1, <1>10, <3>2
    <2> QED BY <2>1, <2>2
  <1> QED BY <1>1, <1>5, <1>8, <1>9, <1>10

\* A fill that commits behind a periodic point shows in cash or in charges.
LEMMA CommitAddsNoRepeat ==
    ASSUME IInv, IInv', SnapInv, FillsShow, IdleCurveDoesNotGrow, NEW s \in Sessions,
           CommitAndCapture(s)
    PROVE  IdleCurveDoesNotGrow'
  <1>1. PICK new \in TradeRow :
           work[s].fill = {new} /\ new.symbol = req[s].symbol /\ Commits(s, new)
    BY CommitFillCommits DEF CommitAndCapture
  <1>2. StampInv /\ IdleInv /\ pc[s] = "settled"
    BY DEF SnapInv, CommitAndCapture, CommitFill
  <1>3. PICK point \in Point : FillPoint(s, new, point)
    BY <1>1, <1>2, CommitPoint
  <1> DEFINE held == Restrict(positions', rows')
             marks == [x \in {new.symbol} |-> new.price]
  <1>4. /\ curve' = curve \cup {point} /\ point.source = "TRADE" /\ point.at = stamps[s]
        /\ point.valuation = Valuation(wallet'.cash, held, marks)
    BY <1>3 DEF FillPoint
  <1>5. \A row, other \in curve : ~Repeats(row, other, curve)
    BY IdleMeansNoRepeats
  <1>6. /\ new.charges # 0 \/ TradeCash(new) # 0
        /\ new.charges \in Int /\ TradeCash(new) \in Int
    BY <1>1, <1>2, CommitShows, TradeAmounts
  <1>7. /\ new.symbol \in Symbols /\ wallet'.cash = wallet.cash + TradeCash(new)
        /\ positions'[new.symbol].charges = positions[new.symbol].charges + new.charges
        /\ \A x \in Symbols : x # new.symbol => positions'[x] = positions[x]
        /\ positions \in [Symbols -> Position] /\ positions' \in [Symbols -> Position]
        /\ wallet.cash \in Int
    <2>1. new = FillRecord(positions[new.symbol], new.order, new.symbol, new.side,
                           new.quantity, new.price, new.charges, wallet.resets)
      BY <1>1 DEF Commits
    <2>2. AfterFill(positions[new.symbol], new.side, new.quantity, new.price,
                    new.charges).charges = positions[new.symbol].charges + new.charges
      BY DEF AfterFill
    <2> QED BY <1>1, <2>2 DEF Commits, IInv, TypeOK
  <1>8. ChargesOf(positions') = ChargesOf(positions) + new.charges
        /\ ChargesOf(positions) \in Int
    <2> DEFINE symbol == new.symbol
    <2>1. positions[symbol].charges \in Int /\ symbol \in Symbols
          /\ positions'[symbol].charges = positions[symbol].charges + new.charges
      BY <1>7 DEF Position
    <2>2. /\ \A x \in Symbols : x # symbol => positions'[x] = positions[x]
      BY <1>7
    <2> HIDE DEF symbol
    <2> DEFINE Charged(p) == SumFunction([x \in Symbols |-> p[x].charges])
    <2>3. positions \in [Symbols -> Position] /\ positions' \in [Symbols -> Position]
      BY <1>7
    <2>4. /\ Charged(positions') = Charged(positions) - positions[symbol].charges
                                     + positions'[symbol].charges
          /\ Charged(positions) \in Int
      BY <2>1, <2>2, <2>3, PositionSumsMove
    <2>5. /\ ChargesOf(positions') = ChargesOf(positions) - positions[symbol].charges
                                       + positions'[symbol].charges
          /\ ChargesOf(positions) \in Int
      BY <2>4 DEF ChargesOf
    <2> QED BY <1>6, <2>1, <2>5
  <1>9. point.valuation.cash = wallet'.cash /\ point.valuation.charges = ChargesOf(positions')
    <2>1. /\ positions' \in [Symbols -> Position] /\ rows' \in SUBSET Symbols
          /\ \A x \in Symbols : x \notin rows' => positions'[x] = Flat
      BY DEF IInv, TypeOK, RowInv
    <2>2. Covers(held, positions')
      BY <2>1, CommittedPositions
    <2> HIDE DEF held, marks
    <2>3. SumFunction([x \in DOMAIN held |-> held[x].charges]) = ChargesOf(positions')
      BY <2>2, CoveredSums
    <2> QED BY <1>4, <2>3 DEF Valuation
  <1> HIDE DEF held, marks
  <1> SUFFICES ASSUME NEW row \in curve', NEW other \in curve', Repeats(row, other, curve')
               PROVE  FALSE
    BY DEF IdleCurveDoesNotGrow, Repeats, OutOfTurn, Excused
  <1>10. row \in curve /\ Repeats(row, other, curve)
    BY <1>4, MorePoints DEF Repeats
  <1>11. other = point
    BY <1>4, <1>5, <1>10
  <1>12. /\ row.valuation.cash = wallet.cash
         /\ row.valuation.charges = ChargesOf(positions)
    BY <1>2, <1>4, <1>10, <1>11 DEF IdleInv, Repeats
  <1>13. row.valuation.cash = point.valuation.cash
         /\ row.valuation.charges = point.valuation.charges
    BY <1>10, <1>11 DEF Repeats, Equivalent
  <1> QED BY <1>6, <1>7, <1>8, <1>9, <1>12, <1>13

\* In every reachable state, however the job, requests, fills and resets
\* interleave, a periodic point that nothing overtook differs from the one before
\* it, or a manual capture of the same moment kept the job from comparing the two;
\* as long as every fill moves cash or costs something: while quantities are
\* whole units, or no fill is free.
THEOREM IdleAccountsAddNothing == FillsShow => (SnapSpec => []IdleCurveDoesNotGrow)
  <1> SUFFICES ASSUME FillsShow PROVE SnapSpec => []IdleCurveDoesNotGrow
    OBVIOUS
  <1>1. SnapInit => IdleCurveDoesNotGrow
    BY DEF SnapInit, IdleCurveDoesNotGrow
  <1>2. IInv /\ IInv' /\ SnapInv /\ IdleCurveDoesNotGrow /\ [SnapNext]_allVars
          => IdleCurveDoesNotGrow'
    <2> SUFFICES ASSUME IInv, IInv', SnapInv, IdleCurveDoesNotGrow, [SnapNext]_allVars
                 PROVE  IdleCurveDoesNotGrow'
      OBVIOUS
    <2>1. CASE UNCHANGED <<curve, trades>>
      BY <2>1 DEF IdleCurveDoesNotGrow, OutOfTurn
    <2> QED BY <2>1, CurveStays, SaveAddsNoRepeat, CommitAddsNoRepeat
  <1> QED BY <1>1, <1>2, SnapInvariance, CapturesOnlyLook, Invariance, PTL DEF SnapSpec

-----------------------------------------------------------------------------
(* Equity against profit *)

\* Marking a position to a price values it, and its unrealised profit, so that
\* the two differ by its cost but for what they have rounded.
LEMMA MarkRounds ==
    ASSUME NEW position \in Position, NEW mark \in Nat
    PROVE  LET scale == AvgTicks * Lot
               e == scale * PositionValue(position.quantity, mark)
                      - scale * UnrealizedPnl(position, mark)
                      - position.quantity * position.average
           IN  /\ PositionValue(position.quantity, mark) \in Int
               /\ UnrealizedPnl(position, mark) \in Int
               /\ e \in Int /\ 2 * e <= MarkError /\ -2 * e <= MarkError
  <1> DEFINE scale == AvgTicks * Lot
             q == position.quantity
             a == position.average
             n == q * mark
             m == (mark * AvgTicks - a) * q
             value == PositionValue(q, mark)
             profit == UnrealizedPnl(position, mark)
             r == Lot * value - n
             u == scale * profit - m
  <1>1. q \in Int /\ a \in Nat
    BY DEF Position
  <1>2. n \in Int /\ m \in Int /\ Lot \in Nat \ {0} /\ AvgTicks \in Nat \ {0}
        /\ scale \in Nat \ {0}
    <2> HIDE DEF q, a
    <2> QED BY <1>1, ScaleAssumption
  <1>3. value = HalfUp(n, Lot) /\ profit = HalfUp(m, scale)
    BY DEF PositionValue, UnrealizedPnl
  <1> HIDE DEF n, m, q, a, value, profit
  <1>4. /\ value \in Int /\ 2 * r <= Lot /\ 2 * (n - Lot * value) <= Lot
        /\ Lot = 1 => value = n
    BY <1>2, <1>3, HalfUpError
  <1>5. /\ profit \in Int /\ 2 * u <= scale /\ 2 * (m - scale * profit) <= scale
    <2> HIDE DEF scale
    <2> QED BY <1>2, <1>3, HalfUpError
  <1>6. Lot * value \in Int /\ scale * profit \in Int
    BY <1>2, <1>4, <1>5
  <1>7. r \in Int /\ 2 * r <= Lot /\ -2 * r <= Lot /\ (Lot = 1 => r = 0)
    <2> DEFINE w == Lot * value
    <2>1. Lot = 1 => w = value
      BY <1>4
    <2> HIDE DEF w
    <2> QED BY <1>2, <1>4, <1>6, <2>1 DEF w
  <1>8. u \in Int /\ 2 * u <= scale /\ -2 * u <= scale
    <2> DEFINE w == scale * profit
    <2> HIDE DEF w, scale
    <2> QED BY <1>2, <1>5, <1>6 DEF w
  <1>9. scale * value = AvgTicks * n + AvgTicks * r
    <2>1. scale * value = AvgTicks * (Lot * value)
      BY <1>2, <1>4
    <2>2. Lot * value = n + r
      BY <1>2, <1>6
    <2> HIDE DEF r
    <2>3. AvgTicks * (n + r) = AvgTicks * n + AvgTicks * r
      BY <1>2, <1>7
    <2> QED BY <2>1, <2>2, <2>3
  <1>10. m = AvgTicks * n - q * a /\ AvgTicks * n \in Int /\ q * a \in Int
    <2>1. (mark * AvgTicks - a) * q = (mark * AvgTicks) * q - a * q
      BY <1>1, <1>2
    <2>2. (mark * AvgTicks) * q = AvgTicks * (q * mark) /\ a * q = q * a
      BY <1>1, <1>2
    <2> QED BY <1>1, <1>2, <2>1, <2>2 DEF m, n
  <1> DEFINE d == AvgTicks * r
             e == scale * value - scale * profit - q * a
  <1>11. d \in Int /\ 2 * d <= scale /\ -2 * d <= scale /\ (Lot = 1 => d = 0)
    <2> HIDE DEF r
    <2>1. AvgTicks * (2 * r) <= AvgTicks * Lot /\ AvgTicks * (-2 * r) <= AvgTicks * Lot
      <3>1. Lot - 2 * r \in Nat /\ Lot - (-2 * r) \in Nat
        BY <1>2, <1>7
      <3>2. /\ AvgTicks * (Lot - 2 * r) \in Nat /\ AvgTicks * (Lot - (-2 * r)) \in Nat
        BY <1>2, <3>1
      <3>3. /\ AvgTicks * (Lot - 2 * r) = AvgTicks * Lot - AvgTicks * (2 * r)
            /\ AvgTicks * (Lot - (-2 * r)) = AvgTicks * Lot - AvgTicks * (-2 * r)
        BY <1>2, <1>7
      <3>4. AvgTicks * (2 * r) \in Int /\ AvgTicks * (-2 * r) \in Int /\ AvgTicks * Lot \in Int
        BY <1>2, <1>7
      <3> QED BY <3>2, <3>3, <3>4
    <2>2. AvgTicks * (2 * r) = 2 * d /\ AvgTicks * (-2 * r) = -2 * d /\ d \in Int
      BY <1>2, <1>7
    <2>3. Lot = 1 => d = 0
      BY <1>2, <1>7
    <2> HIDE DEF d
    <2> QED BY <2>1, <2>2, <2>3
  <1>12. e = d - u
    <2> DEFINE x == scale * value
               y == scale * profit
               z == q * a
               v == AvgTicks * n
    <2>1. x = v + d /\ y = m + u /\ m = v - z /\ v \in Int /\ z \in Int /\ e = x - y - z
      <3>1. y = m + u
        <4> HIDE DEF scale
        <4> QED BY <1>2, <1>6
      <3> QED BY <1>9, <1>10, <3>1
    <2> HIDE DEF x, y, z, v, d, u, e
    <2> QED BY <1>8, <1>11, <2>1 DEF x
  <1>13. e \in Int /\ 2 * e <= MarkError /\ -2 * e <= MarkError
    <2> HIDE DEF e, d, u
    <2>1. MarkError = scale + (IF Lot = 1 THEN 0 ELSE scale)
      BY DEF MarkError
    <2> HIDE DEF scale
    <2> QED BY <1>2, <1>8, <1>11, <1>12, <2>1
  <1> QED BY <1>4, <1>5, <1>13 DEF q, a, value, profit

\* A valuation of the whole account, every open position of it marked, parts
\* from its net profit by the drift of the account and by what the marks round.
LEMMA ValuationApart ==
    ASSUME NEW held, NEW p, Covers(held, p), NEW marks \in Partial(Nat),
           HeldOpen(held) \subseteq DOMAIN marks, NEW cash \in Int, NEW initial \in Int
    PROVE  LET scale == AvgTicks * Lot
               v == Valuation(cash, held, marks)
               drift == scale * (cash - initial - NetOf(p)) + Costs(p)
           IN  \E e \in Int :
                  /\ scale * (v.cash + v.value - initial - v.net) = drift + e
                  /\ 2 * e <= MarkError * Cardinality(Symbols)
                  /\ -2 * e <= MarkError * Cardinality(Symbols)
  <1> DEFINE scale == AvgTicks * Lot
             P == HeldOpen(held)
             pv == [x \in P |-> PositionValue(held[x].quantity, marks[x])]
             up == [x \in P |-> UnrealizedPnl(held[x], marks[x])]
             cost == [x \in P |-> held[x].quantity * held[x].average]
             spv == [x \in P |-> scale * pv[x]]
             sup == [x \in P |-> scale * up[x]]
             err == [x \in P |-> scale * pv[x] - scale * up[x] - held[x].quantity * held[x].average]
             part == [x \in P |-> err[x] + sup[x]]
             all == [x \in Symbols |-> p[x].quantity * p[x].average]
             v == Valuation(cash, held, marks)
  <1>1. /\ DOMAIN held \in SUBSET Symbols /\ IsFiniteSet(Symbols)
        /\ \A x \in DOMAIN held : held[x] = p[x]
        /\ \A x \in Symbols : p[x] \in Position
        /\ \A x \in Symbols \ DOMAIN held : p[x] = Flat
        /\ \A x \in DOMAIN marks : marks[x] \in Nat
    BY DataAssumption, PartialFacts DEF Covers
  <1>2. /\ P \in SUBSET (DOMAIN held) /\ P \in SUBSET (DOMAIN marks)
        /\ P \in SUBSET Symbols /\ IsFiniteSet(P)
    BY <1>1, FS_Subset DEF HeldOpen
  <1>3. P \cap DOMAIN marks = P
    BY <1>2
  <1>4. v.cash = cash /\ v.value = SumFunction(pv)
        /\ v.net = SumFunction([x \in DOMAIN held |-> held[x].net]) + SumFunction(up)
    <2>1. /\ v.cash = cash
          /\ v.value = SumFunction([x \in P \cap DOMAIN marks |->
                                       PositionValue(held[x].quantity, marks[x])])
          /\ v.net = SumFunction([x \in DOMAIN held |-> held[x].net])
                       + SumFunction([x \in P \cap DOMAIN marks |->
                                         UnrealizedPnl(held[x], marks[x])])
      BY DEF Valuation
    <2> HIDE DEF P, v
    <2> QED BY <1>3, <2>1
  <1>5. SumFunction([x \in DOMAIN held |-> held[x].net]) = NetOf(p) /\ NetOf(p) \in Int
    BY CoveredSums
  <1>6. scale \in Nat \ {0} /\ MarkError \in Nat
    BY ScaleAssumption DEF MarkError
  <1>7. \A x \in P : /\ pv[x] \in Int /\ up[x] \in Int /\ cost[x] \in Int
                     /\ err[x] \in Int /\ 2 * err[x] <= MarkError /\ -2 * err[x] <= MarkError
    <2> SUFFICES ASSUME NEW x \in P
                 PROVE  /\ pv[x] \in Int /\ up[x] \in Int /\ cost[x] \in Int
                        /\ err[x] \in Int /\ 2 * err[x] <= MarkError
                        /\ -2 * err[x] <= MarkError
      OBVIOUS
    <2>1. held[x] \in Position /\ marks[x] \in Nat
      BY <1>1, <1>2
    <2> DEFINE position == held[x]
               mark == marks[x]
    <2>2. pv[x] = PositionValue(position.quantity, mark) /\ up[x] = UnrealizedPnl(position, mark)
          /\ cost[x] = position.quantity * position.average
          /\ err[x] = scale * PositionValue(position.quantity, mark)
                        - scale * UnrealizedPnl(position, mark)
                        - position.quantity * position.average
      OBVIOUS
    <2> HIDE DEF position, mark, pv, up, cost, err, P
    <2>3. position \in Position /\ mark \in Nat
      BY <2>1 DEF position, mark
    <2>4. cost[x] \in Int
      BY <2>2, <2>3 DEF Position
    <2> QED BY <2>2, <2>3, <2>4, MarkRounds
  <1>8. /\ DOMAIN pv = P /\ DOMAIN up = P /\ DOMAIN cost = P
    OBVIOUS
  <1>9. \A x \in P : /\ spv[x] = scale * pv[x] /\ sup[x] = scale * up[x]
                     /\ spv[x] \in Int /\ sup[x] \in Int
                     /\ part[x] = err[x] + sup[x] /\ part[x] \in Int
                     /\ spv[x] = part[x] + cost[x]
    <2> SUFFICES ASSUME NEW x \in P
                 PROVE  /\ spv[x] = scale * pv[x] /\ sup[x] = scale * up[x]
                        /\ spv[x] \in Int /\ sup[x] \in Int
                        /\ part[x] = err[x] + sup[x] /\ part[x] \in Int
                        /\ spv[x] = part[x] + cost[x]
      OBVIOUS
    <2>1. /\ spv[x] = scale * pv[x] /\ sup[x] = scale * up[x]
          /\ part[x] = err[x] + sup[x] /\ err[x] = spv[x] - sup[x] - cost[x]
      OBVIOUS
    <2>2. pv[x] \in Int /\ up[x] \in Int /\ cost[x] \in Int /\ err[x] \in Int
      BY <1>7
    <2> HIDE DEF spv, sup, part, err, cost, pv, up, P, scale
    <2>3. spv[x] \in Int /\ sup[x] \in Int
      BY <1>6, <2>1, <2>2
    <2> QED BY <2>1, <2>2, <2>3
  <1>10. /\ DOMAIN all = Symbols
         /\ \A x \in Symbols : all[x] = IF x \in P THEN cost[x] ELSE 0
    <2> SUFFICES ASSUME NEW x \in Symbols
                 PROVE  all[x] = IF x \in P THEN cost[x] ELSE 0
      OBVIOUS
    <2>1. CASE x \in P
      BY <1>1, <1>2, <2>1
    <2>2. CASE x \notin P
      <3>1. p[x].quantity = 0 /\ p[x].average \in Nat
        BY <1>1, <2>2 DEF HeldOpen, Flat, Position
      <3> QED BY <2>2, <3>1
    <2> QED BY <2>1, <2>2
  <1>11. Costs(p) = SumFunction(all)
    BY DEF Costs
  <1> DEFINE V == SumFunctionOnSet(pv, P)
             U == SumFunctionOnSet(up, P)
             C == SumFunctionOnSet(cost, P)
             E == SumFunctionOnSet(err, P)
  <1>12. SumFunction(pv) = V /\ SumFunction(up) = U /\ SumFunction(cost) = C
    BY <1>8 DEF SumFunction
  <1> HIDE DEF spv, sup, part, err, cost, pv, up, P, scale, all
  <1>13. SumFunction(all) = SumFunction(cost)
    BY <1>1, <1>2, <1>7, <1>8, <1>10, SumExtends
  <1>14. V \in Int /\ U \in Int /\ C \in Int
    BY <1>2, <1>7, SumInt
  <1>15. /\ E \in Int /\ 2 * E <= MarkError * Cardinality(Symbols)
         /\ -2 * E <= MarkError * Cardinality(Symbols)
    BY <1>1, <1>2, <1>6, <1>7, SumBounded
  <1>16. SumFunctionOnSet(spv, P) = scale * V
    BY <1>2, <1>6, <1>7, <1>9, SumScaled
  <1>17. SumFunctionOnSet(sup, P) = scale * U
    BY <1>2, <1>6, <1>7, <1>9, SumScaled
  <1>18. SumFunctionOnSet(part, P) = E + SumFunctionOnSet(sup, P)
    BY <1>2, <1>7, <1>9, SumPlus
  <1>19. SumFunctionOnSet(spv, P) = SumFunctionOnSet(part, P) + C
    BY <1>2, <1>7, <1>9, SumPlus
  <1> HIDE DEF V, U, C, E
  <1> DEFINE N == NetOf(p)
             base == cash - initial - N
             sV == scale * V
             sU == scale * U
  <1>20. sV = E + sU + C /\ sV \in Int /\ sU \in Int
    BY <1>6, <1>14, <1>15, <1>16, <1>17, <1>18, <1>19
  <1>21. v.cash + v.value - initial - v.net = base + (V - U) /\ base \in Int
    BY <1>4, <1>5, <1>12, <1>14
  <1>22. scale * (base + (V - U)) = scale * base + sV - sU /\ scale * base \in Int
    <2>1. base \in Int
      BY <1>21
    <2> HIDE DEF base
    <2>2. scale * (base + (V - U)) = scale * base + scale * (V - U) /\ scale * base \in Int
      BY <1>6, <1>14, <2>1
    <2>3. scale * (V - U) = scale * V - scale * U /\ scale * V \in Int /\ scale * U \in Int
      BY <1>6, <1>14
    <2> QED BY <2>2, <2>3
  <1> DEFINE moved == scale * (v.cash + v.value - initial - v.net)
             drift == scale * (cash - initial - NetOf(p)) + Costs(p)
             sB == scale * base
  <1>23. moved = sB + sV - sU /\ drift = sB + C /\ sB \in Int
    BY <1>11, <1>12, <1>13, <1>21, <1>22
  <1> HIDE DEF moved, drift, sB, sV, sU
  <1>24. moved = drift + E
    BY <1>14, <1>15, <1>20, <1>23
  <1> QED BY <1>15, <1>24 DEF moved, drift, scale, v

Apart(row) == row.valuation.cash + row.valuation.value - row.initial - row.valuation.net

\* The difference stays within what n fills or trades' worth of rounding allows.
Within(row, rounded) ==
    2 * AvgTicks * Lot * Magnitude(Apart(row)) <= rounded + MarkError * Cardinality(Symbols)

LEMMA ApartType == ASSUME NEW row \in Point PROVE Apart(row) \in Int
  BY DEF Apart, Point, ValuationRow

\* The whole account, taken at a moment when the drift is within bounds.
LEMMA PointExplained ==
    ASSUME NEW held, NEW p, Covers(held, p), NEW marks \in Partial(Nat),
           HeldOpen(held) \subseteq DOMAIN marks, NEW cash \in Int, NEW initial \in Int,
           NEW row \in Point, row.valuation = Valuation(cash, held, marks),
           row.initial = initial, NEW rounded \in Int,
           NEW drift \in Int,
           drift = AvgTicks * Lot * (cash - initial - NetOf(p)) + Costs(p),
           2 * Magnitude(drift) <= rounded
    PROVE  Within(row, rounded)
  <1> DEFINE scale == AvgTicks * Lot
             v == Valuation(cash, held, marks)
             bound == MarkError * Cardinality(Symbols)
             apart == v.cash + v.value - initial - v.net
  <1>1. PICK e \in Int : scale * apart = drift + e /\ 2 * e <= bound /\ -2 * e <= bound
    BY ValuationApart
  <1>2. Apart(row) = apart /\ apart \in Int
    <2>1. Apart(row) = apart
      BY DEF Apart
    <2> QED BY <2>1, ApartType
  <1>3. Cardinality(Symbols) \in Nat /\ MarkError \in Nat /\ scale \in Nat \ {0}
    BY ScaleAssumption, DataAssumption, FS_CardinalityType DEF MarkError
  <1>4. bound \in Int
    BY <1>3
  <1> HIDE DEF apart, bound, v
  <1>5. 2 * AvgTicks * Lot * Magnitude(apart) = 2 * Magnitude(scale * apart)
        /\ scale * apart \in Int
    <2>1. CASE apart >= 0
      <3>1. scale * apart >= 0 /\ scale * apart \in Int
        BY <1>2, <1>3, <2>1
      <3>2. 2 * AvgTicks * Lot * apart = 2 * (AvgTicks * Lot * apart)
        BY <1>2, ScaleAssumption
      <3> QED BY <2>1, <3>1, <3>2 DEF Magnitude
    <2>2. CASE apart < 0
      <3> DEFINE less == -apart
      <3>1. less \in Nat \ {0} /\ apart = -less
        BY <1>2, <2>2
      <3> HIDE DEF less
      <3>2. scale * less \in Nat \ {0} /\ scale * apart = -(scale * less)
        BY <1>3, <3>1
      <3>3. 2 * AvgTicks * Lot * less = 2 * (AvgTicks * Lot * less)
        BY <3>1, ScaleAssumption
      <3>4. Magnitude(apart) = less
        BY <3>1 DEF Magnitude
      <3>5. Magnitude(scale * apart) = scale * less /\ scale * apart \in Int
        <4> DEFINE w == scale * less
        <4> HIDE DEF w, scale
        <4> QED BY <3>2 DEF Magnitude, w
      <3> QED BY <3>3, <3>4, <3>5
    <2> QED BY <1>2, <2>1, <2>2
  <1> DEFINE w == scale * apart
  <1> HIDE DEF scale, w
  <1>6. 2 * Magnitude(w) <= rounded + bound
    BY <1>1, <1>4, <1>5 DEF Magnitude, w
  <1> QED BY <1>2, <1>5, <1>6 DEF Within, w, bound

LEMMA WithinMore ==
    ASSUME NEW row \in Point, NEW rounded \in Int, NEW more \in Int, rounded <= more,
           Within(row, rounded)
    PROVE  Within(row, more)
  <1> DEFINE bound == MarkError * Cardinality(Symbols)
             apart == 2 * AvgTicks * Lot * Magnitude(Apart(row))
  <1>1. bound \in Int
    BY ScaleAssumption, DataAssumption, FS_CardinalityType DEF MarkError
  <1>2. apart \in Int
    <2>1. Magnitude(Apart(row)) \in Int
      BY ApartType DEF Magnitude
    <2> QED BY <2>1, ScaleAssumption
  <1>3. apart <= rounded + bound
    BY DEF Within
  <1> HIDE DEF apart, bound
  <1>4. apart <= more + bound
    BY <1>1, <1>2, <1>3
  <1> QED BY <1>4 DEF Within, apart, bound

\* A point that has to be explained.
Priced(row) == ~row.overtaken /\ row.unpriced = {}

LEMMA EquityMeansWithin ==
    EquityIsExplained <=> (wallet.resets = 0 =>
        \A row \in curve : Priced(row) => Within(row, Roundings(trades)))
  BY DEF EquityIsExplained, Priced, Within, Apart, Roundings, RoundingIn, TradedIn, Rounding,
         Traded, TradesIn, CashError

LEMMA RoundingsType ==
    ASSUME NEW S \in SUBSET TradeRow, IsFiniteSet(S)
    PROVE  Roundings(S) \in Int
  <1> DEFINE f == [trade \in S |-> RoundingIn(S, trade)]
  <1>1. \A symbol : TradedIn(S, symbol) \in Int
    <2> SUFFICES ASSUME NEW symbol PROVE TradedIn(S, symbol) \in Int
      OBVIOUS
    <2> DEFINE A == {t \in S : t.symbol = symbol}
    <2>1. A \in SUBSET TradeRow /\ IsFiniteSet(A)
      BY FS_Subset
    <2> HIDE DEF A
    <2>2. SumFunction([trade \in A |-> trade.quantity]) \in Nat
      BY <2>1, HeldWasTraded
    <2> QED BY <2>2 DEF TradedIn, A
  <1>2. CashError \in Int /\ AvgTicks * Lot \in Int
    BY ScaleAssumption DEF CashError
  <1>3. \A trade \in DOMAIN f : f[trade] \in Int
    BY <1>1, <1>2 DEF RoundingIn
  <1>4. DOMAIN f = S
    OBVIOUS
  <1> HIDE DEF f
  <1>5. SumFunction(f) \in Int
    BY <1>3, <1>4, SumType
  <1> QED BY <1>5 DEF Roundings, f

LEMMA DriftOf ==
    /\ Drift = AvgTicks * Lot * (wallet.cash - wallet.initial - NetOf(positions))
                 + Costs(positions)
    /\ DriftIsRounding <=>
          (wallet.open /\ wallet.resets = 0 => 2 * Magnitude(Drift) <= Roundings(trades))
  BY DEF Drift, Cost, Costs, NetOf, DriftIsRounding, Roundings, RoundingIn, TradedIn,
         Rounding, Traded, TradesIn, CashError

\* One more fill leaves what was explained explained.
LEMMA RoundingsAdd ==
    ASSUME NEW S \in SUBSET TradeRow, IsFiniteSet(S), NEW new \in TradeRow, new \notin S
    PROVE  Roundings(S) <= Roundings(S \cup {new})
  <1> DEFINE T == S \cup {new}
             extra == RoundingIn(T, new)
  <1>1. /\ Roundings(S) + extra <= Roundings(T) /\ Roundings(S) \in Int
        /\ Roundings(T) \in Int
    BY RoundingsGrow
  <1>2. TradedIn(T, new.symbol) \in Nat /\ CashError \in Nat /\ AvgTicks * Lot \in Nat
    BY TradedInGrows, ScaleAssumption DEF CashError
  <1>3. extra \in Nat
    BY <1>2 DEF RoundingIn
  <1> HIDE DEF T, extra
  <1>4. Roundings(S) <= Roundings(T)
    BY <1>1, <1>3
  <1> QED BY <1>4 DEF T

LEMMA CommitExplained ==
    ASSUME IInv, IInv', BooksInv, SnapInv, DriftIsRounding', EquityIsExplained,
           NEW s \in Sessions, CommitAndCapture(s)
    PROVE  EquityIsExplained'
  <1>1. PICK new \in TradeRow :
           work[s].fill = {new} /\ new.symbol = req[s].symbol /\ Commits(s, new)
    BY CommitFillCommits DEF CommitAndCapture
  <1>2. StampInv
    BY DEF SnapInv
  <1>3. PICK point \in Point : FillPoint(s, new, point)
    BY <1>1, <1>2, CommitPoint
  <1> DEFINE held == Restrict(positions', rows')
             marks == [x \in {new.symbol} |-> new.price]
             rounded == Roundings(trades')
  <1>4. /\ curve' = curve \cup {point} /\ point.initial = wallet.initial
        /\ point.unpriced = HeldOpen(held) \ {new.symbol}
        /\ point.valuation = Valuation(wallet'.cash, held, marks)
    BY <1>3 DEF FillPoint
  <1>5. /\ new \notin trades /\ trades \subseteq TradeRow /\ IsFiniteSet(trades)
        /\ trades' = trades \cup {new}
        /\ wallet'.open /\ wallet'.initial = wallet.initial /\ wallet'.resets = wallet.resets
    BY <1>1, CommitFacts DEF BooksInv, LogInv, Commits
  <1>6. /\ Roundings(trades) <= rounded /\ Roundings(trades) \in Int /\ rounded \in Int
    <2>1. trades' \subseteq TradeRow /\ IsFiniteSet(trades')
      BY <1>5, FS_AddElement
    <2> QED BY <1>5, <2>1, RoundingsAdd, RoundingsType
  <1>7. /\ wallet'.cash \in Int /\ wallet'.initial \in Int
        /\ positions' \in [Symbols -> Position] /\ rows' \in SUBSET Symbols
        /\ \A x \in Symbols : x \notin rows' => positions'[x] = Flat
        /\ new.symbol \in Symbols /\ new.price \in Nat
    BY <1>1 DEF IInv, TypeOK, RowInv, Commits, TradeRow
  <1>8. Covers(held, positions')
    BY <1>7, CommittedPositions
  <1>9. marks \in Partial(Nat) /\ DOMAIN marks = {new.symbol}
    BY <1>7, PartialFacts
  <1>10. /\ Drift' = AvgTicks * Lot * (wallet'.cash - wallet'.initial - NetOf(positions'))
                       + Costs(positions')
         /\ wallet'.open /\ wallet'.resets = 0 => 2 * Magnitude(Drift') <= rounded
    BY DEF Drift, Cost, Costs, NetOf, DriftIsRounding, Roundings, RoundingIn, TradedIn,
           Rounding, Traded, TradesIn, CashError
  <1>11. Drift' \in Int
    <2>1. NetOf(positions') \in Int
      BY <1>8, CoveredSums
    <2>2. Costs(positions') \in Int
      BY <1>7, CostsMove
    <2>3. wallet'.cash - wallet'.initial - NetOf(positions') \in Int
      BY <1>7, <2>1
    <2> QED BY <1>10, <2>2, <2>3, ScaleAssumption
  <1>12. EquityIsExplained' <=> (wallet'.resets = 0 =>
            \A row \in curve' : Priced(row) => Within(row, rounded))
    BY DEF EquityIsExplained, Priced, Within, Apart, Roundings, RoundingIn, TradedIn,
           Rounding, Traded, TradesIn, CashError
  <1> HIDE DEF rounded
  <1>13. ASSUME wallet'.resets = 0, NEW row \in curve, Priced(row)
         PROVE  Within(row, rounded)
    <2>1. row \in Point /\ Within(row, Roundings(trades))
      BY <1>2, <1>5, <1>13, EquityMeansWithin DEF StampInv
    <2> QED BY <1>6, <2>1, WithinMore
  <1>14. ASSUME wallet'.resets = 0, Priced(point)
         PROVE  Within(point, rounded)
    <2>1. HeldOpen(held) \subseteq DOMAIN marks
      BY <1>4, <1>9, <1>14 DEF Priced
    <2>2. 2 * Magnitude(Drift') <= rounded
      BY <1>5, <1>10, <1>14
    <2> DEFINE drift == Drift'
               cash == wallet'.cash
               initial == wallet'.initial
               after == positions'
    <2>3. /\ Covers(held, after) /\ marks \in Partial(Nat) /\ cash \in Int /\ initial \in Int
          /\ point.valuation = Valuation(cash, held, marks) /\ point.initial = initial
          /\ drift \in Int /\ 2 * Magnitude(drift) <= rounded
          /\ drift = AvgTicks * Lot * (cash - initial - NetOf(after)) + Costs(after)
      BY <1>4, <1>5, <1>7, <1>8, <1>9, <1>10, <1>11, <2>2
    <2> HIDE DEF held, marks, drift, cash, initial, after
    <2> QED BY <1>6, <2>1, <2>3, PointExplained
  <1> QED BY <1>4, <1>12, <1>13, <1>14

LEMMA SaveExplained ==
    ASSUME IInv, BooksInv, SnapInv, DriftIsRounding, EquityIsExplained, NEW c \in Tasks,
           Save(c)
    PROVE  EquityIsExplained'
  <1> DEFINE point == Captured(c)
             held == capturing[c].held
             marks == capturing[c].marks
             rounded == Roundings(trades)
  <1>1. /\ UNCHANGED <<wallet, trades>> /\ curve' = curve \cup {point}
        /\ Stamped(capturing[c]) /\ TaskOK(c, capturing[c]) /\ Holds(capturing[c])
    BY DEF Save, Goes, vars, At, Stamped, SnapInv, CaptureInv
  <1>2. /\ point \in Point /\ point.overtaken = capturing[c].overtaken
        /\ point.unpriced = HeldOpen(held) \ DOMAIN marks
        /\ point.valuation = Valuation(capturing[c].cash, held, marks)
        /\ ~capturing[c].overtaken =>
              /\ Covers(held, positions)
              /\ capturing[c].cash = wallet.cash /\ point.initial = wallet.initial
    BY <1>1, CapturedPoint DEF SnapInv
  <1>3. /\ wallet.open /\ marks \in Partial(Nat)
        /\ wallet.cash \in Int /\ wallet.initial \in Int
        /\ positions \in [Symbols -> Position]
    BY <1>1 DEF TaskOK, Holds, Capture, IInv, TypeOK
  <1>4. rounded \in Int
    BY RoundingsType DEF BooksInv, LogInv, IInv, TypeOK
  <1>5. EquityIsExplained' <=> (wallet.resets = 0 =>
            \A row \in curve' : Priced(row) => Within(row, rounded))
    BY <1>1 DEF EquityIsExplained, Priced, Within, Apart, Roundings, RoundingIn, TradedIn,
           Rounding, Traded, TradesIn, CashError
  <1> HIDE DEF point, held, marks, rounded
  <1>6. ASSUME wallet.resets = 0, Priced(point)
        PROVE  Within(point, rounded)
    <2>1. /\ Covers(held, positions) /\ HeldOpen(held) \subseteq DOMAIN marks
          /\ point.valuation = Valuation(wallet.cash, held, marks)
          /\ point.initial = wallet.initial
      BY <1>2, <1>6 DEF Priced
    <2>2. /\ Drift = AvgTicks * Lot * (wallet.cash - wallet.initial - NetOf(positions))
                       + Costs(positions)
          /\ 2 * Magnitude(Drift) <= rounded
      BY <1>3, <1>6, DriftOf DEF rounded
    <2>3. Drift \in Int
      <3>1. NetOf(positions) \in Int
        BY <2>1, CoveredSums
      <3>2. Costs(positions) \in Int
        BY <1>3, DataAssumption, CostsMove
      <3>3. wallet.cash - wallet.initial - NetOf(positions) \in Int
        BY <1>3, <3>1
      <3> QED BY <2>2, <3>2, <3>3, ScaleAssumption
    <2> QED BY <1>2, <1>3, <1>4, <2>1, <2>2, <2>3, PointExplained
  <1>7. wallet.resets = 0 => \A row \in curve : Priced(row) => Within(row, rounded)
    BY EquityMeansWithin DEF rounded
  <1> QED BY <1>1, <1>5, <1>6, <1>7 DEF point

\* Once there are points there is a wallet, whose resets are never forgotten.
LEMMA ResetsStay ==
    ASSUME IInv, [Next]_vars, wallet.open, wallet'.resets = 0
    PROVE  wallet.resets = 0
  <1>1. wallet \in [open: BOOLEAN, initial: Nat, cash: Int, resets: Nat]
    BY DEF IInv, TypeOK
  <1>2. \/ UNCHANGED wallet
        \/ \E s \in Sessions : CommitFill(s)
        \/ \E s \in Sessions, balance \in Balances : ResetWallet(s, balance)
    BY DEF Next, Advance, Submit, WalletMissing, AdoptWallet, LockWallet, LockPosition,
           MissPosition, InsertPosition, InsertWallet, Reject, Settle, CommitRejection,
           FindNoWallet, Abort, Waiting, tables, vars
  <1>3. CASE UNCHANGED wallet
    BY <1>3
  <1>4. ASSUME NEW s \in Sessions, CommitFill(s) PROVE wallet'.resets = wallet.resets
    BY <1>1, <1>4 DEF CommitFill
  <1>5. ASSUME NEW s \in Sessions, NEW balance \in Balances, ResetWallet(s, balance)
        PROVE  FALSE
    BY <1>1, <1>5 DEF ResetWallet
  <1> QED BY <1>2, <1>3, <1>4, <1>5

\* In every reachable state and for every scale: the total value of a point
\* that nothing overtook, and whose positions all had a mark, is the opening
\* balance and its net profit, but for what fills and marks have rounded.
THEOREM ProfitExplainsEquity == SnapSpec => []EquityIsExplained
  <1>1. SnapInit => EquityIsExplained
    BY DEF SnapInit, EquityIsExplained
  <1>2. IInv /\ IInv' /\ BooksInv /\ SnapInv /\ DriftIsRounding /\ DriftIsRounding'
          /\ EquityIsExplained /\ [SnapNext]_allVars => EquityIsExplained'
    <2> SUFFICES ASSUME IInv, IInv', BooksInv, SnapInv, DriftIsRounding, DriftIsRounding',
                        EquityIsExplained, [SnapNext]_allVars
                 PROVE  EquityIsExplained'
      OBVIOUS
    <2>1. CASE UNCHANGED <<curve, trades>>
      <3>1. CASE curve = {}
        BY <2>1, <3>1 DEF EquityIsExplained
      <3>2. CASE curve # {}
        <4>1. wallet.open
          BY <3>2 DEF SnapInv, StampInv
        <4>2. wallet'.resets = 0 => wallet.resets = 0
          BY <4>1, ResetsStay, SnapStepIsEngineStep
        <4>3. \A trade : Rounding(trade)' = Rounding(trade)
          BY <2>1 DEF Rounding, Traded, TradesIn
        <4> QED BY <2>1, <4>2, <4>3 DEF EquityIsExplained
      <3> QED BY <3>1, <3>2
    <2> QED BY <2>1, CurveStays, CommitExplained, SaveExplained
  <1> QED BY <1>1, <1>2, SnapInvariance, CapturesOnlyLook, Invariance, BooksInvariance,
             OnlyRoundingDrifts, PTL DEF SnapSpec

===============================================================================
