--------------------------- MODULE PriceStreamProofs ---------------------------
(***************************************************************************)
(* The pool of clients and the poll loop that feeds it: what a client that *)
(* is there is owed whatever becomes of the others, how far the pool may   *)
(* outgrow its limit, and what the monitor's cache may lack.               *)
(***************************************************************************)
EXTENDS PriceStream, FiniteSetTheorems, TLAPS

\* What one client's entry in the pool's tables has to say, whoever else comes
\* and goes: its place in the pool, what it has been told it watches, and what
\* the fan-out under way owes it.
SocketInv(s) ==
    /\ s \in connections => s \in DOMAIN subscriptions
    /\ s \in DOMAIN subscriptions => endpoint[s].at \in Served
    /\ alive[s] /\ endpoint[s].at \in Served => s \in connections \/ s \in poisoned
    /\ s \in connections =>
          /\ endpoint[s].at = "confirming" => endpoint[s].announced = {Subscribed(s)}
          /\ endpoint[s].at = "answering" =>
                \/ endpoint[s].announced = {Subscribed(s)}
                \/ endpoint[s].announced = {} /\ told[s] = {Subscribed(s)}
          /\ endpoint[s].at \in {"replaying", "open"} => told[s] = {Subscribed(s)}
    /\ s \in broadcast.pending =>
          /\ endpoint[s].at \in Served \cup {"over"}
          /\ s \in connections /\ s \notin broadcast.switched =>
                Wants(s, broadcast.frame.symbol)

\* Whoever joins was counted when it was admitted.
Pooled == Cardinality(connections)
Knocking == Cardinality(At("admitted"))
RoomInv == Pooled + Knocking > 0 => Pooled + Knocking <= MaxConnections - 1 + peak

PoolInv == PoolTypeOK /\ RoomInv /\ \A s \in Sockets : SocketInv(s)

-----------------------------------------------------------------------------
(* The tables *)

LEMMA DisconnectTables ==
    ASSUME PoolTypeOK, NEW s \in Sockets, Disconnect(s)
    PROVE  /\ connections' = connections \ {s}
           /\ DOMAIN subscriptions' = DOMAIN subscriptions \ {s}
           /\ \A t \in DOMAIN subscriptions' : subscriptions'[t] = subscriptions[t]
  BY DEF Disconnect, Restrict

LEMMA SetSubscriptionTables ==
    ASSUME PoolTypeOK, NEW s \in Sockets, NEW symbols \in SUBSET Symbols,
           subscriptions' = SetSubscription(subscriptions, s, symbols)
    PROVE  /\ DOMAIN subscriptions' = DOMAIN subscriptions \cup {s}
           /\ subscriptions'[s] = symbols
           /\ \A t \in DOMAIN subscriptions : t # s => subscriptions'[t] = subscriptions[t]
  BY DEF SetSubscription

LEMMA JoinTables ==
    ASSUME PoolTypeOK, NEW s \in Sockets, Join(s)
    PROVE  /\ DOMAIN subscriptions' = DOMAIN subscriptions \cup {s}
           /\ subscriptions'[s] = Subscribed(s)
           /\ \A t \in DOMAIN subscriptions : subscriptions'[t] = subscriptions[t]
  BY DEF Join, Subscribed

LEMMA UnsubscribeTables ==
    ASSUME PoolTypeOK, NEW s \in Sockets, NEW symbol, Unsubscribe(s, symbol)
    PROVE  /\ DOMAIN subscriptions' = DOMAIN subscriptions
           /\ s \in DOMAIN subscriptions => subscriptions'[s] = subscriptions[s] \ {symbol}
           /\ \A t \in DOMAIN subscriptions : t # s => subscriptions'[t] = subscriptions[t]
  BY DEF Unsubscribe

\* Every action of a client's own, its coroutine's and the fan-out's for it.
Touches(s) == Serve(s) \/ Client(s) \/ Deliver(s) \/ Drop(s)

\* The tables after an action for one client: what the two dictionaries hold.
LEMMA TouchedTables ==
    ASSUME PoolTypeOK, NEW s \in Sockets, Touches(s)
    PROVE  /\ connections' \in {connections, connections \ {s}, connections \cup {s}}
           /\ DOMAIN subscriptions' \in {DOMAIN subscriptions, DOMAIN subscriptions \ {s},
                                         DOMAIN subscriptions \cup {s}}
           /\ \A t \in DOMAIN subscriptions' : t # s => subscriptions'[t] = subscriptions[t]
           /\ s \in DOMAIN subscriptions' => subscriptions'[s] \subseteq Symbols
  <1> DEFINE Goal ==
           /\ connections' \in {connections, connections \ {s}, connections \cup {s}}
           /\ DOMAIN subscriptions' \in {DOMAIN subscriptions, DOMAIN subscriptions \ {s},
                                         DOMAIN subscriptions \cup {s}}
           /\ \A t \in DOMAIN subscriptions' : t # s => subscriptions'[t] = subscriptions[t]
           /\ s \in DOMAIN subscriptions' => subscriptions'[s] \subseteq Symbols
  <1> SUFFICES Goal
    OBVIOUS
  <1>1. ASSUME UNCHANGED <<connections, subscriptions>>
        PROVE  Goal
    BY <1>1 DEF PoolTypeOK
  <1>2. ASSUME Disconnect(s)
        PROVE  Goal
    BY <1>2, DisconnectTables DEF PoolTypeOK
  <1>3. ASSUME NEW symbols \in SUBSET Symbols,
               subscriptions' = SetSubscription(subscriptions, s, symbols),
               connections' \in {connections, connections \ {s}}
        PROVE  Goal
    <2>1. /\ DOMAIN subscriptions' = DOMAIN subscriptions \cup {s}
          /\ subscriptions'[s] = symbols
          /\ \A t \in DOMAIN subscriptions : t # s => subscriptions'[t] = subscriptions[t]
      BY <1>3, SetSubscriptionTables
    <2> QED BY <1>3, <2>1
  <1>4. CASE Join(s)
    BY <1>4, JoinTables DEF Join, PoolTypeOK, Subscribed
  <1>5. CASE Greet(s)
    BY <1>3, <1>5, PoolAssumption DEF Greet
  <1>6. ASSUME NEW symbol \in Watchable, Subscribe(s, symbol)
        PROVE  Goal
    BY <1>3, <1>6, PoolAssumption DEF Subscribe
  <1>7. ASSUME NEW symbol \in Watchable, Unsubscribe(s, symbol)
        PROVE  Goal
    BY <1>7, UnsubscribeTables DEF Unsubscribe, PoolTypeOK
  <1>8. CASE Confirm(s) \/ Replay(s) \/ Answer(s) \/ Leave(s) \/ Drop(s)
    BY <1>1, <1>2, <1>8 DEF Confirm, Replay, Answer, Leave, Drop, Sent, Unsent
  <1>9. CASE Admit(s) \/ Refuse(s) \/ AcceptFails(s) \/ Ping(s) \/ Die(s) \/ Dial(s) \/ Deliver(s)
    BY <1>1, <1>9 DEF Admit, Refuse, AcceptFails, Ping, Die, Dial, Deliver
  <1> HIDE DEF Goal
  <1> QED BY <1>4, <1>5, <1>6, <1>7, <1>8, <1>9 DEF Touches, Serve, Proceed, Client

\* The other coroutines stay where they are.
LEMMA OthersWait ==
    ASSUME PoolTypeOK, NEW s \in Sockets, Touches(s), NEW t \in Sockets, t # s
    PROVE  endpoint'[t] = endpoint[t]
  BY DEF Touches, Serve, Proceed, Client, Admit, Refuse, AcceptFails, Join, Greet, Confirm,
         Replay, Answer, Leave, Subscribe, Unsubscribe, Ping, Die, Dial, Deliver, Drop, Goes,
         PoolTypeOK

\* An action for one client leaves what concerns the others as it was.
LEMMA OthersKept ==
    ASSUME PoolTypeOK, NEW s \in Sockets, Touches(s), NEW t \in Sockets, t # s, SocketInv(t)
    PROVE  SocketInv(t)'
  <1>1. /\ t \in connections' <=> t \in connections
        /\ t \in DOMAIN subscriptions' <=> t \in DOMAIN subscriptions
        /\ t \in DOMAIN subscriptions => subscriptions'[t] = subscriptions[t]
    BY TouchedTables
  <1>2. Subscribed(t)' = Subscribed(t)
    BY <1>1 DEF Subscribed
  <1>3. /\ endpoint'[t] = endpoint[t] /\ alive'[t] = alive[t] /\ told'[t] = told[t]
        /\ t \in poisoned' <=> t \in poisoned
    BY DEF Touches, Serve, Proceed, Client, Admit, Refuse, AcceptFails, Join, Greet, Confirm,
           Replay, Answer, Leave, Subscribe, Unsubscribe, Ping, Die, Dial, Deliver, Drop, Goes,
           PoolTypeOK
  <1>4. broadcast' \in {broadcast, [broadcast EXCEPT !.switched = @ \cup {s}],
                       [broadcast EXCEPT !.pending = @ \ {s}]}
    BY DEF Touches, Serve, Proceed, Client, Admit, Refuse, AcceptFails, Join, Greet, Confirm,
           Replay, Answer, Leave, Subscribe, Unsubscribe, Ping, Die, Dial, Deliver, Drop,
           Switched
  <1>5. broadcast \in Broadcast
    BY DEF PoolTypeOK
  <1>6. /\ t \in broadcast'.pending <=> t \in broadcast.pending
        /\ t \in broadcast'.switched <=> t \in broadcast.switched
        /\ broadcast'.frame = broadcast.frame
    BY <1>4, <1>5 DEF Broadcast
  <1> QED BY <1>1, <1>2, <1>3, <1>6 DEF SocketInv, Wants

\* What Goes leaves at the client's own entry.
LEMMA GoesTo ==
    ASSUME PoolTypeOK, NEW s \in Sockets, NEW phase, Goes(s, phase)
    PROVE  endpoint'[s].at = phase /\ endpoint'[s].announced = {}
  BY DEF Goes, PoolTypeOK

\* And an action for the client itself keeps its promises.
LEMMA HandshakeKeeps ==
    ASSUME PoolTypeOK, NEW s \in Sockets, SocketInv(s),
           Admit(s) \/ Refuse(s) \/ AcceptFails(s) \/ Dial(s) \/ Die(s)
    PROVE  SocketInv(s)'
  <1>1. /\ UNCHANGED <<connections, subscriptions, broadcast>>
        /\ Subscribed(s)' = Subscribed(s)
    BY DEF Admit, Refuse, AcceptFails, Dial, Die, Subscribed
  <1>2. CASE Admit(s) \/ Refuse(s) \/ AcceptFails(s) \/ Dial(s)
    <2>1. /\ s \notin DOMAIN subscriptions /\ s \notin connections
          /\ s \notin broadcast.pending
      BY <1>2 DEF SocketInv, Served, Admit, Refuse, AcceptFails, Dial
    <2>2. endpoint'[s].at \in {"new", "admitted", "over"}
      BY <1>2, GoesTo DEF Admit, Refuse, AcceptFails, Dial
    <2> QED BY <1>1, <2>1, <2>2 DEF SocketInv, Served
  <1>3. CASE Die(s)
    <2>1. /\ UNCHANGED <<endpoint, told, poisoned>>
          /\ alive'[s] = FALSE
      BY <1>3 DEF Die, PoolTypeOK
    <2> QED BY <1>1, <2>1 DEF SocketInv, Wants
  <1> QED BY <1>2, <1>3

LEMMA JoinKeeps ==
    ASSUME PoolTypeOK, NEW s \in Sockets, SocketInv(s), Join(s)
    PROVE  SocketInv(s)'
  <1>1. endpoint'[s].at = "greeting" /\ s \in DOMAIN subscriptions' /\ s \in connections'
    BY GoesTo, JoinTables DEF Join
  <1>2. s \notin broadcast'.pending
    BY DEF Join, SocketInv, Served
  <1> QED BY <1>1, <1>2 DEF SocketInv, Served

\* A switch: the client's own table and the frame that announces it agree, and
\* the fan-out under way is excused.
LEMMA SwitchKeeps ==
    ASSUME PoolTypeOK, NEW s \in Sockets, SocketInv(s),
           Greet(s) \/ \E symbol \in Watchable : Subscribe(s, symbol) \/ Unsubscribe(s, symbol)
    PROVE  SocketInv(s)'
  <1>1. /\ endpoint[s].at \in Served
        /\ alive' = alive /\ told' = told /\ poisoned' = poisoned
        /\ Switched(s)
    BY DEF Greet, Subscribe, Unsubscribe, Served
  <1>2. s \in broadcast'.switched
    BY <1>1 DEF Switched, PoolTypeOK, Broadcast
  <1>3. s \in connections' => s \in connections
    BY DEF Greet, Subscribe, Unsubscribe
  <1>4. alive[s] => (s \in connections' <=> s \in connections)
    BY DEF Greet, Subscribe, Unsubscribe
  <1>5. /\ endpoint'[s].at \in {"confirming", "answering"}
        /\ s \in connections' =>
             s \in DOMAIN subscriptions' /\ endpoint'[s].announced = {Subscribed(s)'}
    <2>1. CASE Greet(s)
      <3>1. endpoint'[s] = [at |-> "confirming", announced |-> {{Default}}]
        BY <2>1 DEF Greet, PoolTypeOK
      <3>2. {Default} \in SUBSET Symbols
        BY PoolAssumption
      <3>3. subscriptions' = SetSubscription(subscriptions, s, {Default})
        BY <2>1 DEF Greet
      <3>4. s \in DOMAIN subscriptions' /\ subscriptions'[s] = {Default}
        BY <3>2, <3>3, SetSubscriptionTables
      <3> QED BY <3>1, <3>4 DEF Subscribed
    <2>2. ASSUME NEW symbol \in Watchable, Subscribe(s, symbol)
          PROVE  <1>5!1 /\ <1>5!2
      <3>1. endpoint'[s] = [at |-> "confirming", announced |-> {{symbol}}]
        BY <2>2 DEF Subscribe, PoolTypeOK
      <3>2. {symbol} \in SUBSET Symbols
        BY PoolAssumption
      <3>3. subscriptions' = SetSubscription(subscriptions, s, {symbol})
        BY <2>2 DEF Subscribe
      <3>4. s \in DOMAIN subscriptions' /\ subscriptions'[s] = {symbol}
        BY <3>2, <3>3, SetSubscriptionTables
      <3> QED BY <3>1, <3>4 DEF Subscribed
    <2>3. ASSUME NEW symbol \in Watchable, Unsubscribe(s, symbol)
          PROVE  <1>5!1 /\ <1>5!2
      <3>1. endpoint'[s] = [at |-> "answering", announced |-> {Subscribed(s) \ {symbol}}]
        BY <2>3 DEF Unsubscribe, PoolTypeOK
      <3>2. s \in DOMAIN subscriptions =>
              s \in DOMAIN subscriptions' /\ subscriptions'[s] = subscriptions[s] \ {symbol}
        BY <2>3, UnsubscribeTables
      <3>3. s \in connections' => s \in DOMAIN subscriptions
        BY <2>3 DEF Unsubscribe, SocketInv
      <3>4. endpoint'[s].at = "answering"
            /\ endpoint'[s].announced = {Subscribed(s) \ {symbol}}
        BY <3>1
      <3> QED BY <3>2, <3>3, <3>4 DEF Subscribed
    <2> QED BY <2>1, <2>2, <2>3
  <1> QED BY <1>1, <1>2, <1>3, <1>4, <1>5 DEF SocketInv, Served

LEMMA ReplyKeeps ==
    ASSUME PoolTypeOK, NEW s \in Sockets, SocketInv(s),
           Confirm(s) \/ Replay(s) \/ Ping(s) \/ Answer(s)
    PROVE  SocketInv(s)'
  <1>1. /\ endpoint[s].at \in Served /\ endpoint'[s].at \in Served
        /\ UNCHANGED <<alive, broadcast, poisoned>>
    BY GoesTo DEF Confirm, Replay, Ping, Answer, Served
  <1>2. \/ UNCHANGED <<connections, subscriptions>>
        \/ Unsent(s)
    BY DEF Confirm, Replay, Ping, Answer, Sent
  <1>3. CASE Unsent(s)
    <2>1. s \notin connections' /\ s \notin DOMAIN subscriptions'
      BY <1>3, DisconnectTables DEF Unsent
    <2> QED BY <1>1, <1>3, <2>1 DEF SocketInv, Unsent
  <1>4. CASE UNCHANGED <<connections, subscriptions>> /\ ~Unsent(s)
    <2>1. Subscribed(s)' = Subscribed(s)
      BY <1>4 DEF Subscribed
    <2>2. endpoint'[s].at \notin {"greeting", "confirming"}
      BY GoesTo DEF Confirm, Replay, Ping, Answer
    <2>3. ASSUME s \in connections
          PROVE  /\ endpoint'[s].at = "answering" =>
                       endpoint'[s].announced = {} /\ told'[s] = {Subscribed(s)}
                 /\ endpoint'[s].at \in {"replaying", "open"} => told'[s] = {Subscribed(s)}
      <3>1. CASE Confirm(s)
        BY <1>4, <2>3, <3>1, GoesTo DEF Confirm, SocketInv, PoolTypeOK
      <3>2. CASE Replay(s) \/ Ping(s)
        BY <2>3, <3>2, GoesTo DEF Replay, Ping, SocketInv
      <3>3. CASE Answer(s)
        BY <1>4, <2>3, <3>3, GoesTo DEF Answer, SocketInv, PoolTypeOK
      <3> QED BY <3>1, <3>2, <3>3
    <2> QED BY <1>1, <1>4, <2>1, <2>2, <2>3 DEF SocketInv, Wants
  <1> QED BY <1>2, <1>3, <1>4

\* A client that leaves, or one the fan-out is done with.
LEMMA LeaveKeeps ==
    ASSUME PoolTypeOK, NEW s \in Sockets, SocketInv(s), Leave(s) \/ Deliver(s) \/ Drop(s)
    PROVE  SocketInv(s)'
  <1>1. CASE Leave(s)
    <2>1. s \notin connections' /\ s \notin DOMAIN subscriptions'
      BY <1>1, DisconnectTables DEF Leave
    <2>2. endpoint'[s].at = "over"
      BY <1>1, GoesTo DEF Leave
    <2> QED BY <2>1, <2>2 DEF SocketInv, Served
  <1>2. s \notin broadcast'.pending \/ Leave(s)
    BY DEF Deliver, Drop, PoolTypeOK, Broadcast
  <1>3. CASE Deliver(s)
    <2>1. Subscribed(s)' = Subscribed(s) /\ s \notin broadcast'.pending
      BY <1>3 DEF Deliver, Subscribed, PoolTypeOK, Broadcast
    <2> QED BY <1>3, <2>1 DEF SocketInv, Deliver
  <1>4. CASE Drop(s)
    <2>1. s \notin connections' /\ s \notin DOMAIN subscriptions'
      BY <1>4, DisconnectTables DEF Drop
    <2>2. s \notin broadcast'.pending
      BY <1>4 DEF Drop, PoolTypeOK, Broadcast
    <2>3. UNCHANGED <<endpoint, alive>> /\ (alive[s] => s \in poisoned')
      BY <1>4 DEF Drop
    <2> QED BY <2>1, <2>2, <2>3 DEF SocketInv
  <1> QED BY <1>1, <1>3, <1>4

LEMMA TouchedKept ==
    ASSUME PoolTypeOK, NEW s \in Sockets, SocketInv(s), Touches(s)
    PROVE  SocketInv(s)'
  BY HandshakeKeeps, JoinKeeps, SwitchKeeps, ReplyKeeps, LeaveKeeps
     DEF Touches, Serve, Proceed, Client

LEMMA BroadcastKeeps ==
    ASSUME PoolTypeOK, NEW s \in Sockets, SocketInv(s), NEW frame \in Frame,
           StartBroadcast(frame)
    PROVE  SocketInv(s)'
  <1>1. UNCHANGED <<connections, subscriptions, endpoint, alive, told, poisoned>>
    BY DEF StartBroadcast
  <1>2. Subscribed(s)' = Subscribed(s)
    BY <1>1 DEF Subscribed
  <1>3. /\ broadcast'.frame = frame
        /\ s \in broadcast'.pending => s \in connections /\ Wants(s, frame.symbol)
    BY DEF StartBroadcast
  <1> QED BY <1>1, <1>2, <1>3 DEF SocketInv, Wants, Served

-----------------------------------------------------------------------------
(* The types and the room *)

LEMMA TouchedTypes ==
    ASSUME PoolTypeOK, NEW s \in Sockets, Touches(s)
    PROVE  PoolTypeOK'
  <1>1. /\ connections' \subseteq Sockets /\ DOMAIN subscriptions' \subseteq Sockets
        /\ \A t \in DOMAIN subscriptions' : subscriptions'[t] \subseteq Symbols
    <2>1. connections' \subseteq Sockets /\ DOMAIN subscriptions' \subseteq Sockets
      BY TouchedTables DEF PoolTypeOK
    <2>2. ASSUME NEW t \in DOMAIN subscriptions', t # s
          PROVE  subscriptions'[t] \subseteq Symbols
      <3>1. DOMAIN subscriptions' \subseteq DOMAIN subscriptions \cup {s}
        BY TouchedTables
      <3>2. subscriptions'[t] = subscriptions[t]
        BY <2>2, TouchedTables
      <3>3. t \in DOMAIN subscriptions
        BY <2>2, <3>1
      <3> QED BY <3>2, <3>3 DEF PoolTypeOK
    <2>3. s \in DOMAIN subscriptions' => subscriptions'[s] \subseteq Symbols
      BY TouchedTables
    <2> QED BY <2>1, <2>2, <2>3
  <1>2. endpoint' \in [Sockets -> Coroutine]
    <2>1. \A phase \in Phases : Goes(s, phase) => endpoint' \in [Sockets -> Coroutine]
      BY DEF Goes, PoolTypeOK, Coroutine
    <2>2. CASE endpoint' = endpoint
      BY <2>2 DEF PoolTypeOK
    <2>3. ASSUME NEW symbols \in SUBSET Symbols, NEW phase \in Phases,
                 endpoint' = [endpoint EXCEPT ![s] = [at |-> phase, announced |-> {symbols}]]
          PROVE  endpoint' \in [Sockets -> Coroutine]
      BY <2>3 DEF PoolTypeOK, Coroutine
    <2>4. CASE Greet(s)
      BY <2>3, <2>4, PoolAssumption DEF Greet, Phases
    <2>5. ASSUME NEW symbol \in Watchable, Subscribe(s, symbol)
          PROVE  endpoint' \in [Sockets -> Coroutine]
      BY <2>3, <2>5, PoolAssumption DEF Subscribe, Phases
    <2>6. ASSUME NEW symbol \in Watchable, Unsubscribe(s, symbol)
          PROVE  endpoint' \in [Sockets -> Coroutine]
      <3>1. Subscribed(s) \ {symbol} \in SUBSET Symbols
        BY DEF Subscribed, PoolTypeOK
      <3> QED BY <2>3, <2>6, <3>1 DEF Unsubscribe, Phases
    <2> QED BY <2>1, <2>2, <2>4, <2>5, <2>6
            DEF Touches, Serve, Proceed, Client, Admit, Refuse, AcceptFails, Join, Confirm,
                Replay, Answer, Leave, Ping, Die, Dial, Deliver, Drop, Phases
  <1>3. /\ alive' \in [Sockets -> BOOLEAN]
        /\ poisoned' \subseteq Sockets
    BY DEF Touches, Serve, Proceed, Client, Admit, Refuse, AcceptFails, Join, Greet, Confirm,
           Replay, Answer, Leave, Subscribe, Unsubscribe, Ping, Die, Dial, Deliver, Drop,
           PoolTypeOK
  <1>4. told' \in [Sockets -> SUBSET SUBSET Symbols]
    <2>1. endpoint[s].announced \in SUBSET SUBSET Symbols
      BY DEF PoolTypeOK, Coroutine
    <2>2. told' \in {told, [told EXCEPT ![s] = endpoint[s].announced], [told EXCEPT ![s] = {}]}
      BY DEF Touches, Serve, Proceed, Client, Admit, Refuse, AcceptFails, Join, Greet, Confirm,
             Replay, Answer, Leave, Subscribe, Unsubscribe, Ping, Die, Dial, Deliver, Drop
    <2> QED BY <2>1, <2>2 DEF PoolTypeOK
  <1>5. broadcast' \in Broadcast
    <2>1. broadcast' \in {broadcast, [broadcast EXCEPT !.switched = @ \cup {s}],
                         [broadcast EXCEPT !.pending = @ \ {s}]}
      BY DEF Touches, Serve, Proceed, Client, Admit, Refuse, AcceptFails, Join, Greet, Confirm,
             Replay, Answer, Leave, Subscribe, Unsubscribe, Ping, Die, Dial, Deliver, Drop,
             Switched
    <2> QED BY <2>1 DEF Broadcast, PoolTypeOK
  <1>6. peak' \in Nat
    <2>1. Cardinality(At("admitted")) \in Nat
      BY PoolAssumption, FS_Subset, FS_CardinalityType DEF At
    <2>2. CASE Admit(s)
      BY <2>1, <2>2 DEF Admit, PoolTypeOK
    <2>3. CASE ~Admit(s)
      BY <2>3 DEF Touches, Serve, Proceed, Client, Refuse, AcceptFails, Join, Greet, Confirm,
                  Replay, Answer, Leave, Subscribe, Unsubscribe, Ping, Die, Dial, Deliver,
                  Drop, PoolTypeOK
    <2> QED BY <2>2, <2>3
  <1> QED BY <1>1, <1>2, <1>3, <1>4, <1>5, <1>6 DEF PoolTypeOK

LEMMA BroadcastTypes ==
    ASSUME PoolTypeOK, NEW frame \in Frame, StartBroadcast(frame)
    PROVE  PoolTypeOK'
  BY DEF PoolTypeOK, StartBroadcast, Broadcast

\* Room: p in the pool and k on the way, a limit of m and a peak of q.
LEMMA RoomShrinks ==
    ASSUME NEW p \in Nat, NEW k \in Nat, NEW p2 \in Nat, NEW k2 \in Nat, NEW m \in Nat,
           NEW q \in Nat, p + k > 0 => p + k <= m - 1 + q,
           p2 <= p, k2 <= k
    PROVE  p2 + k2 > 0 => p2 + k2 <= m - 1 + q
  OBVIOUS

LEMMA RoomIsTaken ==
    ASSUME NEW p \in Nat, NEW k \in Nat, NEW p2 \in Nat, NEW k2 \in Nat, NEW m \in Nat,
           NEW q \in Nat, p + k > 0 => p + k <= m - 1 + q,
           p2 <= p + 1, k2 = k - 1
    PROVE  p2 + k2 > 0 => p2 + k2 <= m - 1 + q
  OBVIOUS

LEMMA RoomForOneMore ==
    ASSUME NEW p \in Nat, NEW k \in Nat, NEW m \in Nat, NEW q \in Nat, p < m, q >= k + 1
    PROVE  p + (k + 1) > 0 => p + (k + 1) <= m - 1 + q
  OBVIOUS

\* Who is in the pool or about to be, after a step.
LEMMA RoomKept ==
    ASSUME PoolTypeOK, RoomInv, NEW s \in Sockets, Touches(s)
    PROVE  RoomInv'
  <1> DEFINE admitted == At("admitted")
  <1>1. /\ IsFiniteSet(connections) /\ IsFiniteSet(admitted)
        /\ IsFiniteSet(connections') /\ IsFiniteSet(admitted')
    BY PoolAssumption, FS_Subset, TouchedTypes DEF PoolTypeOK, At
  <1>2. Pooled \in Nat /\ Knocking \in Nat /\ Pooled' \in Nat /\ Knocking' \in Nat
    BY <1>1, FS_CardinalityType DEF Pooled, Knocking
  <1>3. MaxConnections \in Nat /\ peak \in Nat
    BY PoolAssumption DEF PoolTypeOK
  <1>4. CASE Admit(s)
    <2>1. connections' = connections /\ admitted' = admitted \cup {s} /\ s \notin admitted
      BY <1>4 DEF Admit, Goes, At, PoolTypeOK
    <2>2. Pooled' = Pooled /\ Knocking' = Knocking + 1
      BY <1>1, <2>1, FS_AddElement DEF Pooled, Knocking
    <2>3. Pooled < MaxConnections /\ peak' >= Knocking + 1
      BY <1>2, <1>3, <1>4 DEF Admit, Pooled, Knocking
    <2>4. peak' \in Nat
      BY TouchedTypes DEF PoolTypeOK
    <2> QED BY <1>2, <1>3, <2>2, <2>3, <2>4, RoomForOneMore DEF RoomInv
  <1>5. CASE Join(s)
    <2>1. /\ connections' = connections \cup {s}
          /\ admitted' = admitted \ {s} /\ s \in admitted
          /\ peak' = peak
      BY <1>5 DEF Join, Goes, At, PoolTypeOK
    <2>2. Pooled' <= Pooled + 1 /\ Knocking' = Knocking - 1
      BY <1>1, <1>2, <2>1, FS_AddElement, FS_RemoveElement DEF Pooled, Knocking
    <2>3. Pooled' + Knocking' > 0 => Pooled' + Knocking' <= MaxConnections - 1 + peak
      BY <1>2, <1>3, <2>2, RoomIsTaken DEF RoomInv
    <2> QED BY <2>1, <2>3 DEF RoomInv
  <1>6. CASE ~Admit(s) /\ ~Join(s)
    <2>1. connections' \subseteq connections
      BY <1>6 DEF Touches, Serve, Proceed, Client, Refuse, AcceptFails, Greet, Confirm,
                  Replay, Answer, Leave, Subscribe, Unsubscribe, Ping, Die, Dial, Deliver,
                  Drop, Disconnect, Sent, Unsent
    <2>2. endpoint'[s].at # "admitted" \/ endpoint' = endpoint
      <3>1. CASE \/ Refuse(s) \/ AcceptFails(s) \/ Confirm(s) \/ Replay(s) \/ Answer(s)
                 \/ Leave(s) \/ Ping(s) \/ Dial(s)
        BY <3>1, GoesTo DEF Refuse, AcceptFails, Confirm, Replay, Answer, Leave, Ping, Dial
      <3>2. CASE \/ Greet(s)
                 \/ \E symbol \in Watchable : Subscribe(s, symbol) \/ Unsubscribe(s, symbol)
        <4>1. PICK phase \in {"confirming", "answering"} : \E symbols :
                 endpoint' = [endpoint EXCEPT ![s] = [at |-> phase, announced |-> symbols]]
          BY <3>2 DEF Greet, Subscribe, Unsubscribe
        <4> QED BY <4>1 DEF PoolTypeOK
      <3>3. CASE Die(s) \/ Deliver(s) \/ Drop(s)
        BY <3>3 DEF Die, Deliver, Drop
      <3> QED BY <1>6, <3>1, <3>2, <3>3 DEF Touches, Serve, Proceed, Client
    <2>3. admitted' \subseteq admitted
      BY <2>2, OthersWait DEF At
    <2>4. peak' = peak
      BY <1>6 DEF Touches, Serve, Proceed, Client, Refuse, AcceptFails, Greet, Confirm,
                  Replay, Answer, Leave, Subscribe, Unsubscribe, Ping, Die, Dial, Deliver,
                  Drop
    <2>5. Pooled' <= Pooled /\ Knocking' <= Knocking
      BY <1>1, <2>1, <2>3, FS_Subset DEF Pooled, Knocking
    <2>6. Pooled' + Knocking' > 0 => Pooled' + Knocking' <= MaxConnections - 1 + peak
      BY <1>2, <1>3, <2>5, RoomShrinks DEF RoomInv
    <2> QED BY <2>4, <2>6 DEF RoomInv
  <1> QED BY <1>4, <1>5, <1>6

-----------------------------------------------------------------------------
(* The pool's theorems *)

LEMMA PoolInitInv == PoolInit => PoolInv
  <1> SUFFICES ASSUME PoolInit
               PROVE  PoolInv
    OBVIOUS
  <1>1. connections = {} /\ DOMAIN subscriptions = {} /\ At("admitted") = {}
    BY DEF PoolInit, At
  <1>2. PoolTypeOK
    BY <1>1, PoolAssumption DEF PoolInit, PoolTypeOK, Coroutine, Phases, Broadcast, Frame
  <1>3. RoomInv
    <2>1. Pooled = 0 /\ Knocking = 0
      BY <1>1, FS_EmptySet DEF Pooled, Knocking
    <2> QED BY <2>1 DEF RoomInv
  <1>4. ASSUME NEW s \in Sockets
        PROVE  SocketInv(s)
    BY <1>1 DEF PoolInit, SocketInv, Served
  <1> QED BY <1>2, <1>3, <1>4 DEF PoolInv

LEMMA PoolNextInv == PoolInv /\ [PoolNext]_poolVars => PoolInv'
  <1> SUFFICES ASSUME PoolInv, [PoolNext]_poolVars
               PROVE  PoolInv'
    OBVIOUS
  <1> USE DEF PoolInv
  <1>1. ASSUME NEW s \in Sockets, Touches(s)
        PROVE  PoolInv'
    BY <1>1, TouchedTypes, RoomKept, TouchedKept, OthersKept
  <1>2. ASSUME NEW frame \in Frame, StartBroadcast(frame)
        PROVE  PoolInv'
    <2>1. PoolTypeOK' /\ \A s \in Sockets : SocketInv(s)'
      BY <1>2, BroadcastTypes, BroadcastKeeps
    <2>2. RoomInv'
      BY <1>2 DEF StartBroadcast, RoomInv, Pooled, Knocking, At
    <2> QED BY <2>1, <2>2
  <1>3. CASE UNCHANGED poolVars
    <2>1. PoolTypeOK' /\ RoomInv'
      BY <1>3 DEF poolVars, PoolTypeOK, RoomInv, Pooled, Knocking, At
    <2>2. ASSUME NEW s \in Sockets
          PROVE  SocketInv(s)'
      BY <1>3 DEF poolVars, SocketInv, Subscribed, Wants
    <2> QED BY <2>1, <2>2
  <1> QED BY <1>1, <1>2, <1>3 DEF PoolNext, FanOut, Touches

LEMMA PoolIsSafe == PoolSpec => []PoolInv
  BY PoolInitInv, PoolNextInv, PTL DEF PoolSpec

\* NoCorpse: whichever of a client's own sends, the broadcasts' and its
\* switches fail, the pool keeps nothing of a client whose coroutine is over.
THEOREM CorpsesLeave == PoolSpec => []NoCorpse
  <1>1. PoolInv => NoCorpse
    BY DEF PoolInv, PoolTypeOK, SocketInv, NoCorpse
  <1> QED BY <1>1, PoolIsSafe, PTL

\* LiveClientsListen: a client that is there and being served stays in the pool,
\* whichever other clients fail, unless it was sent an automatic-order frame.
THEOREM LivingAreKept == PoolSpec => []LiveClientsListen
  <1>1. PoolInv => LiveClientsListen
    BY DEF PoolInv, SocketInv, LiveClientsListen
  <1> QED BY <1>1, PoolIsSafe, PTL

\* OvershootIsHandshakes: however many clients there are, the pool outgrows its
\* limit by no more than the handshakes once under way together, less one.
THEOREM RoomIsKept == PoolSpec => []OvershootIsHandshakes
  <1>1. ASSUME PoolInv
        PROVE  OvershootIsHandshakes
    <2>1. Pooled \in Nat /\ Knocking \in Nat /\ MaxConnections \in Nat /\ peak \in Nat
      BY <1>1, PoolAssumption, FS_Subset, FS_CardinalityType
         DEF PoolInv, PoolTypeOK, At, Pooled, Knocking
    <2> QED BY <1>1, <2>1 DEF PoolInv, RoomInv, Pooled, OvershootIsHandshakes
  <1> QED BY <1>1, PoolIsSafe, PTL

LEMMA DeliveredFollows ==
    ASSUME PoolInv, [PoolNext]_poolVars, NEW s \in Sockets, Delivered(s), told[s] # {{}}
    PROVE  Follows(s)
  <1>1. SocketInv(s) /\ s \in broadcast.pending
    BY DEF PoolInv, Delivered
  <1>2. s \in connections
    <2>1. ASSUME NEW t \in Sockets, Deliver(t) \/ Drop(t)
          PROVE  s \in connections
      BY <2>1 DEF Deliver, Drop, Disconnect, Delivered
    <2>2. ASSUME NEW t \in Sockets, Serve(t) \/ Client(t)
          PROVE  broadcast'.pending = broadcast.pending
      BY <2>2 DEF Serve, Proceed, Client, Admit, Refuse, AcceptFails, Join, Greet, Confirm,
                  Replay, Answer, Leave, Subscribe, Unsubscribe, Ping, Die, Dial, Switched,
                  PoolInv, PoolTypeOK, Broadcast
    <2>3. ASSUME NEW frame \in Frame, StartBroadcast(frame)
          PROVE  FALSE
      BY <1>1, <2>3 DEF StartBroadcast, Quiescent
    <2>4. ~UNCHANGED poolVars
      BY DEF poolVars, Delivered
    <2> QED BY <2>1, <2>2, <2>3, <2>4 DEF PoolNext, FanOut, Delivered
  <1>3. endpoint[s].at = "open" /\ s \notin broadcast.switched =>
           told[s] = {Subscribed(s)} /\ Wants(s, broadcast.frame.symbol)
    BY <1>1, <1>2 DEF SocketInv
  <1> QED BY <1>3 DEF Follows, Wants

\* TicksFollowSwitches: a frame that goes out follows what the client has been
\* told it watches, save when the client switched during that very fan-out.
THEOREM TicksAreRouted == PoolSpec => TicksFollowSwitches
  <1>1. PoolInv /\ [PoolNext]_poolVars =>
           [\A s \in Sockets : Delivered(s) /\ told[s] # {{}} => Follows(s)]_poolVars
    BY DeliveredFollows
  <1> QED BY <1>1, PoolIsSafe, PTL DEF PoolSpec, TicksFollowSwitches

-----------------------------------------------------------------------------
(* The poll loop and the monitor's cache *)

\* What refresh_armed_symbols has read, until it is assigned, is short of an
\* armed symbol for the same two reasons as the cache.
ReadingLacksOnlyTheUntold ==
    Doing("assigning") => Armed \subseteq reading \/ committed # {} \/ missed = "pending"

CacheInv == CacheLacksOnlyTheUntold /\ ReadingLacksOnlyTheUntold

\* A step of the stream is a step of the pool, or none.
LEMMA StreamStepIsPoolStep == StreamTypeOK /\ [StreamNext]_allVars => [PoolNext]_poolVars
  <1> SUFFICES ASSUME StreamTypeOK, [StreamNext]_allVars
               PROVE  [PoolNext]_poolVars
    OBVIOUS
  <1>1. ASSUME NEW kind \in {"tick", "automatic_order"}, NEW x \in Symbols,
               StartBroadcast([kind |-> kind, symbol |-> x])
        PROVE  PoolNext
    <2>1. [kind |-> kind, symbol |-> x] \in Frame
      BY DEF Frame
    <2> QED BY <1>1, <2>1 DEF PoolNext
  <1>2. stage.symbol \in Symbols
    BY DEF StreamTypeOK, Stage
  <1>3. CASE Poll
    <2>1. CASE \/ StartPoll \/ NextSymbol \/ EndPoll \/ Announced \/ HasActiveOrders
               \/ ReadArmed \/ AssignCache \/ ReadFails \/ NothingFires \/ EvaluationFails
      BY <2>1 DEF StartPoll, NextSymbol, EndPoll, Announced, HasActiveOrders, ReadArmed,
                  AssignCache, ReadFails, NothingFires, EvaluationFails
    <2>2. CASE FetchFails \/ (\E x \in Symbols : Fetch(x)) \/ Fires
      BY <1>1, <1>2, <2>2 DEF FetchFails, Fetch, Fires
    <2> QED BY <1>3, <2>1, <2>2 DEF Poll
  <1>4. CASE Requested \/ \E x \in Symbols : Retire(x)
    BY <1>4 DEF Requested, Create, Cancel, Invalidate, Retire
  <1>5. CASE \E s \in Sockets : JoinAndStart(s)
    BY <1>5 DEF JoinAndStart, PoolNext, Serve
  <1>6. CASE \/ \E s \in Sockets : Proceed(s) \/ Client(s)
             \/ FanOut
    BY <1>6 DEF PoolNext, Serve
  <1>7. CASE UNCHANGED allVars
    BY <1>7 DEF allVars
  <1> QED BY <1>3, <1>4, <1>5, <1>6, <1>7 DEF StreamNext

LEMMA PoolStepTypes == PoolTypeOK /\ [PoolNext]_poolVars => PoolTypeOK'
  BY TouchedTypes, BroadcastTypes DEF PoolNext, FanOut, Touches, poolVars, PoolTypeOK

\* The stream's own variables after a step of the poll.
LEMMA PollTypes ==
    ASSUME StreamTypeOK, PoolTypeOK', Poll
    PROVE  StreamTypeOK'
  <1> USE PoolAssumption, StreamAssumption
  <1>1. /\ running \in BOOLEAN /\ todo \subseteq Symbols /\ stage \in Stage
        /\ active \in [Symbols -> Nat] /\ created \in Nat
        /\ since \in 0 .. Revalidate /\ reading \subseteq Symbols
        /\ committed \subseteq Requests /\ missed \in {"no", "pending", "yes"}
        /\ cache \subseteq SUBSET Symbols /\ Cardinality(cache) <= 1
    BY DEF StreamTypeOK
  <1>2. running' \in BOOLEAN /\ created' \in Nat /\ committed' \subseteq Requests
    BY <1>1 DEF Poll, StartPoll, NextSymbol, EndPoll, FetchFails, Fetch, Announced,
                HasActiveOrders, ReadArmed, AssignCache, ReadFails, NothingFires, Fires,
                EvaluationFails, orderVars, cacheVars
  <1>3. todo' \subseteq Symbols
    <2>1. SymbolsToPoll \subseteq Symbols
      BY <1>1 DEF SymbolsToPoll, ArmedSymbols, SubscribedSymbols, StreamTypeOK, PoolTypeOK
    <2> QED BY <1>1, <2>1 DEF Poll, StartPoll, NextSymbol, EndPoll, FetchFails, Fetch,
                Announced, HasActiveOrders, ReadArmed, AssignCache, ReadFails, NothingFires,
                Fires, EvaluationFails
  <1>4. stage' \in Stage
    <2>1. Finishes => stage' \in Stage
      BY DEF Finishes, Stage
    <2>2. ASSUME NEW at \in {"idle", "failed", "priced", "reading", "assigning", "evaluating",
                             "announcing"},
                 Moves(at)
          PROVE  stage' \in Stage
      BY <1>1, <2>2 DEF Moves, Stage
    <2>3. NextSymbol => stage' \in Stage
      BY <1>1 DEF NextSymbol, Stage
    <2> QED BY <2>1, <2>2, <2>3
            DEF Poll, StartPoll, EndPoll, FetchFails, Fetch, Announced, HasActiveOrders,
                ReadArmed, AssignCache, ReadFails, NothingFires, Fires, EvaluationFails
  <1>5. active' \in [Symbols -> Nat]
    <2>1. stage.symbol \in Symbols /\ active[stage.symbol] \in Nat
      BY <1>1 DEF Stage
    <2>2. CASE Fires
      BY <1>1, <2>1, <2>2 DEF Fires
    <2>3. CASE EvaluationFails
      BY <1>1, <2>1, <2>3 DEF EvaluationFails
    <2>4. CASE ~Fires /\ ~EvaluationFails
      BY <1>1, <2>4 DEF Poll, StartPoll, NextSymbol, EndPoll, FetchFails, Fetch, Announced,
                HasActiveOrders, ReadArmed, AssignCache, ReadFails, NothingFires, orderVars
    <2> QED BY <2>2, <2>3, <2>4
  <1>6. since' \in 0 .. Revalidate
    <2>1. CASE HasActiveOrders
      BY <1>1, <2>1 DEF HasActiveOrders
    <2>2. CASE AssignCache
      BY <2>2 DEF AssignCache
    <2>3. CASE ~HasActiveOrders /\ ~AssignCache
      <3>1. since' = since
        BY <2>3 DEF Poll, StartPoll, NextSymbol, EndPoll, FetchFails, Fetch, Announced,
                    ReadArmed, ReadFails, NothingFires, Fires, EvaluationFails, cacheVars
      <3> QED BY <1>1, <3>1
    <2> QED BY <2>1, <2>2, <2>3
  <1>7. reading' \subseteq Symbols /\ missed' \in {"no", "pending", "yes"}
    BY <1>1 DEF Poll, StartPoll, NextSymbol, EndPoll, FetchFails, Fetch, Announced,
                HasActiveOrders, ReadArmed, AssignCache, ReadFails, NothingFires, Fires,
                EvaluationFails, cacheVars, Armed
  <1>8. cache' \subseteq SUBSET Symbols /\ Cardinality(cache') <= 1
    <2>1. cache' \in {cache, {}, {reading}}
      BY DEF Poll, StartPoll, NextSymbol, EndPoll, FetchFails, Fetch, Announced,
             HasActiveOrders, ReadArmed, AssignCache, ReadFails, NothingFires, Fires,
             EvaluationFails, cacheVars
    <2>2. Cardinality({}) = 0 /\ Cardinality({reading}) = 1
      BY FS_EmptySet, FS_Singleton
    <2>3. CASE cache' = cache
      BY <1>1, <2>3
    <2>4. CASE cache' = {}
      BY <2>2, <2>4
    <2>5. CASE cache' = {reading}
      BY <1>1, <2>2, <2>5
    <2> QED BY <2>1, <2>3, <2>4, <2>5
  <1> QED BY <1>2, <1>3, <1>4, <1>5, <1>6, <1>7, <1>8 DEF StreamTypeOK

LEMMA RequestTypes ==
    ASSUME StreamTypeOK, Requested \/ \E x \in Symbols : Retire(x)
    PROVE  StreamTypeOK'
  <1>1. UNCHANGED <<poolVars, running, todo, stage, since, reading>>
    BY DEF Requested, Create, Cancel, Invalidate, Retire, cacheVars, pollVars
  <1>2. PoolTypeOK'
    BY <1>1, PoolStepTypes DEF StreamTypeOK
  <1>3. /\ running' \in BOOLEAN /\ todo' \subseteq Symbols /\ stage' \in Stage
        /\ since' \in 0 .. Revalidate /\ reading' \subseteq Symbols
    BY <1>1 DEF StreamTypeOK
  <1>4. active' \in [Symbols -> Nat] /\ created' \in Nat
    BY DEF Requested, Create, Cancel, Invalidate, Retire, StreamTypeOK, orderVars
  <1>5. committed' \subseteq Requests /\ missed' \in {"no", "pending", "yes"}
    BY DEF Requested, Create, Cancel, Invalidate, Retire, StreamTypeOK, cacheVars
  <1>6. cache' \subseteq SUBSET Symbols /\ Cardinality(cache') <= 1
    <2>1. cache' \in {cache, {}}
      BY DEF Requested, Create, Cancel, Invalidate, Retire, cacheVars
    <2>2. CASE cache' = cache
      BY <2>2 DEF StreamTypeOK
    <2>3. CASE cache' = {}
      BY <2>3, FS_EmptySet
    <2> QED BY <2>1, <2>2, <2>3
  <1> QED BY <1>2, <1>3, <1>4, <1>5, <1>6 DEF StreamTypeOK

LEMMA StreamTypes == StreamTypeOK /\ [StreamNext]_allVars => StreamTypeOK'
  <1> SUFFICES ASSUME StreamTypeOK, [StreamNext]_allVars
               PROVE  StreamTypeOK'
    OBVIOUS
  <1>1. PoolTypeOK'
    BY StreamStepIsPoolStep, PoolStepTypes DEF StreamTypeOK
  <1>2. ASSUME UNCHANGED <<todo, stage, orderVars, cacheVars>>, running' \in {running, TRUE}
        PROVE  StreamTypeOK'
    BY <1>1, <1>2 DEF StreamTypeOK, orderVars, cacheVars
  <1> QED BY <1>1, <1>2, PollTypes, RequestTypes
          DEF StreamNext, JoinAndStart, streamVars, pollVars, allVars

\* No step leaves an armed symbol out of the cache, or of what is about to
\* become the cache, without a request's notice still to come or overwritten.
LEMMA CacheStep == StreamTypeOK /\ CacheInv /\ [StreamNext]_allVars => CacheInv'
  <1> SUFFICES ASSUME StreamTypeOK, CacheInv, [StreamNext]_allVars
               PROVE  CacheInv'
    OBVIOUS
  <1> USE DEF CacheInv, CacheLacksOnlyTheUntold, ReadingLacksOnlyTheUntold
  <1>1. ASSUME Armed' \subseteq Armed, UNCHANGED <<reading, committed, missed>>,
               cache' = cache \/ cache' = {}, Doing("assigning")' => Doing("assigning")
        PROVE  CacheInv'
    BY <1>1
  <1>2. ASSUME UNCHANGED active
        PROVE  Armed' = Armed
    BY <1>2 DEF Armed
  <1>3. ASSUME UNCHANGED <<stage, orderVars, cacheVars>>
        PROVE  CacheInv'
    BY <1>1, <1>2, <1>3 DEF orderVars, cacheVars, Doing
  <1>4. CASE Poll
    <2>1. CASE StartPoll \/ NextSymbol \/ EndPoll \/ FetchFails \/ (\E x \in Symbols : Fetch(x))
               \/ Announced \/ HasActiveOrders \/ ReadFails \/ NothingFires
      <3>1. UNCHANGED <<active, reading, committed, missed, cache>>
        BY <2>1 DEF StartPoll, NextSymbol, EndPoll, FetchFails, Fetch, Announced,
                    HasActiveOrders, ReadFails, NothingFires, orderVars, cacheVars
      <3>2. \/ Finishes
            \/ \E x \in Symbols : stage' = [at |-> "fetching", symbol |-> x]
            \/ \E at \in {"idle", "failed", "priced", "reading", "evaluating"} : Moves(at)
        BY <2>1 DEF StartPoll, NextSymbol, EndPoll, FetchFails, Fetch, Announced,
                    HasActiveOrders, ReadFails, NothingFires, StreamTypeOK
      <3>3. ~Doing("assigning")'
        BY <3>2 DEF Finishes, Moves, Doing, StreamTypeOK, Stage
      <3> QED BY <1>1, <1>2, <3>1, <3>3
    <2>2. CASE ReadArmed
      <3>1. reading' = Armed /\ UNCHANGED <<active, cache, committed, missed>>
        BY <2>2 DEF ReadArmed, orderVars
      <3> QED BY <1>2, <3>1
    <2>3. CASE AssignCache
      <3>1. /\ Doing("assigning") /\ cache' = {reading} /\ UNCHANGED <<active, committed>>
            /\ missed' = IF missed = "pending" THEN "yes" ELSE "no"
            /\ ~Doing("assigning")'
        BY <2>3 DEF AssignCache, orderVars, Moves, Finishes, Doing, StreamTypeOK, Stage
      <3> QED BY <1>2, <3>1
    <2>4. CASE Fires \/ EvaluationFails
      <3>1. Armed' \subseteq Armed
        BY <2>4 DEF Fires, EvaluationFails, Armed, StreamTypeOK, Stage
      <3>2. /\ ~Doing("assigning")' /\ UNCHANGED committed
            /\ (cache' = cache /\ missed' = missed) \/ cache' = {}
        BY <2>4 DEF Fires, EvaluationFails, Moves, Finishes, Doing, StreamTypeOK, Stage,
                    cacheVars
      <3> QED BY <3>1, <3>2
    <2> QED BY <1>4, <2>1, <2>2, <2>3, <2>4 DEF Poll
  <1>5. CASE Requested
    <2>1. ASSUME NEW r \in Requests, NEW x \in Symbols, Create(r, x)
          PROVE  CacheInv'
      BY <2>1 DEF Create
    <2>2. ASSUME NEW r \in Requests, NEW x \in Symbols, Cancel(r, x)
          PROVE  CacheInv'
      BY <2>2 DEF Cancel
    <2>3. ASSUME NEW r \in Requests, Invalidate(r)
          PROVE  CacheInv'
      BY <2>3 DEF Invalidate, pollVars, Doing
    <2> QED BY <1>5, <2>1, <2>2, <2>3 DEF Requested
  <1>6. ASSUME NEW x \in Symbols, Retire(x)
        PROVE  CacheInv'
    <2>1. Armed' \subseteq Armed
      BY <1>6 DEF Retire, Armed, StreamTypeOK
    <2> QED BY <1>1, <1>6, <2>1 DEF Retire, pollVars, cacheVars, Doing
  <1> QED BY <1>3, <1>4, <1>5, <1>6 DEF StreamNext, JoinAndStart, streamVars, pollVars, allVars

LEMMA StreamInitInv == StreamInit => StreamTypeOK /\ CacheInv
  <1> SUFFICES ASSUME StreamInit
               PROVE  StreamTypeOK /\ CacheInv
    OBVIOUS
  <1>1. PoolTypeOK
    BY PoolInitInv DEF StreamInit, PoolInv
  <1>2. Cardinality(cache) = 0
    BY FS_EmptySet DEF StreamInit
  <1>3. active \in [Symbols -> Nat]
    BY DEF StreamInit
  <1>4. StreamTypeOK
    <2>1. /\ cache \subseteq SUBSET Symbols /\ Cardinality(cache) <= 1
          /\ since \in 0 .. Revalidate /\ created \in Nat
      BY <1>2, StreamAssumption DEF StreamInit
    <2>2. /\ running \in BOOLEAN /\ todo \subseteq Symbols /\ stage \in Stage
          /\ reading \subseteq Symbols /\ committed \subseteq Requests
          /\ missed \in {"no", "pending", "yes"}
      BY PoolAssumption DEF StreamInit, Stage
    <2> QED BY <1>1, <1>3, <2>1, <2>2 DEF StreamTypeOK
  <1>5. CacheInv
    BY DEF StreamInit, CacheInv, CacheLacksOnlyTheUntold, ReadingLacksOnlyTheUntold, Doing
  <1> QED BY <1>4, <1>5

\* StreamTypeOK: the poll loop, the monitor's cache and the requests stay
\* within their types, the count of evaluations within its bound.
THEOREM StreamIsTyped == StreamSpec => []StreamTypeOK
  BY StreamInitInv, StreamTypes, PTL DEF StreamSpec

\* CacheLacksOnlyTheUntold: the monitor's cache lacks an armed symbol only
\* while a request has not told it, or when a refresh overwrote what it told.
THEOREM CacheIsExplained == StreamSpec => []CacheLacksOnlyTheUntold
  <1>1. CacheInv => CacheLacksOnlyTheUntold
    BY DEF CacheInv
  <1> QED BY <1>1, StreamInitInv, StreamIsTyped, CacheStep, PTL DEF StreamSpec

\* The poll loop over the pool is the pool: every client, limit and routing
\* property of the pool holds while the loop feeds it.
THEOREM StreamFeedsThePool == StreamSpec => PoolSpec
  <1>1. StreamInit => PoolInit
    BY DEF StreamInit
  <1> QED BY <1>1, StreamStepIsPoolStep, StreamIsTyped, PTL DEF StreamSpec, PoolSpec
================================================================================
