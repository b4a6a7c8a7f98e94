---------------------------- MODULE ConnectionPool ----------------------------
(***************************************************************************)
(* The WebSocket clients of the live price stream:                         *)
(* realtime/connection_manager.py, and the endpoint coroutine that serves  *)
(* each client, api/v1/endpoints/stream.py.                                *)
(*                                                                         *)
(* Everything runs on one event loop, so a step is the code between two    *)
(* awaits.  The manager's lock is never held across one and is therefore   *)
(* always free when it is asked for.  A frame is sent at an await: while   *)
(* one coroutine sends, any other may run.                                 *)
(***************************************************************************)
EXTENDS Naturals, FiniteSets, Functions

CONSTANTS Sockets,        \* clients; a socket that is over may dial again
          Symbols,        \* instruments
          Default,        \* settings.TRADING_SYMBOL
          Watchable,      \* bound: the instruments clients ever ask for
          MaxConnections  \* settings.STREAM_MAX_CONNECTIONS

ASSUME PoolAssumption ==
    /\ IsFiniteSet(Sockets) /\ IsFiniteSet(Symbols)
    /\ Default \in Symbols /\ Watchable \subseteq Symbols /\ MaxConnections \in Nat \ {0}

VARIABLES connections,   \* the sockets in the pool
          subscriptions, \* socket -> the symbols it wants: a dict, its keys the DOMAIN
          endpoint,      \* where each client's coroutine is, and the symbols it announces
          alive,         \* whether the client's end of the socket is there
          broadcast,     \* the fan-out under way
          told,          \* auxiliary: {the symbols of the last subscription frame}, or {}
          poisoned,      \* auxiliary: sockets that were sent a frame JSON cannot encode
          peak           \* auxiliary: the most handshakes ever under way at once

poolVars == <<connections, subscriptions, endpoint, alive, broadcast, told, poisoned, peak>>

-----------------------------------------------------------------------------
Phases == {"new", "admitted", "greeting", "confirming", "replaying", "answering", "open",
           "over"}
\* The phases in which the client is being served.
Served == {"greeting", "confirming", "replaying", "answering", "open"}
At(phase) == {s \in Sockets : endpoint[s].at = phase}

\* announced: {the symbols of the subscription frame being sent}, {} for a pong.
Coroutine == [at: Phases, announced: SUBSET SUBSET Symbols]
\* error frames are routed as ticks are.
Frame == [kind: {"tick", "automatic_order"}, symbol: Symbols]
\* switched: sockets whose subscriptions changed since the snapshot (auxiliary).
Broadcast == [frame: Frame, pending: SUBSET Sockets, switched: SUBSET Sockets]

Goes(s, phase) == endpoint' = [endpoint EXCEPT ![s] = [at |-> phase, announced |-> {}]]

\* json.dumps of what is sent.  monitor._event puts the order's quantity and
\* the position after it in the frame as Decimal, which json cannot encode.
Encodable(frame) == frame.kind # "automatic_order"

Subscribed(s) == IF s \in DOMAIN subscriptions THEN subscriptions[s] ELSE {}

\* subscribed_symbols
SubscribedSymbols == UNION {subscriptions[s] : s \in DOMAIN subscriptions}

PoolInit ==
    /\ connections = {}
    /\ subscriptions = <<>>
    /\ endpoint = [s \in Sockets |-> [at |-> "new", announced |-> {}]]
    /\ alive = [s \in Sockets |-> TRUE]
    /\ broadcast = [frame |-> [kind |-> "tick", symbol |-> Default],
                    pending |-> {}, switched |-> {}]
    /\ told = [s \in Sockets |-> {}]
    /\ poisoned = {}
    /\ peak = 0

-----------------------------------------------------------------------------
(* ConnectionManager *)

\* Fault: disconnect forgets the subscriptions.
DisconnectKeepingSubscription(s) ==
    /\ connections' = connections \ {s}
    /\ UNCHANGED subscriptions

Disconnect(s) ==
    /\ connections' = connections \ {s}
    /\ subscriptions' = Restrict(subscriptions, DOMAIN subscriptions \ {s})

\* Fault: switching adds to what the client already watches.
AddSubscription(subs, s, symbols) ==
    [t \in DOMAIN subs \cup {s} |->
       IF t \notin DOMAIN subs THEN symbols
       ELSE IF t = s THEN subs[t] \cup symbols ELSE subs[t]]

\* set_subscription replaces, and creates the entry where there is none.
SetSubscription(subs, s, symbols) ==
    [t \in DOMAIN subs \cup {s} |-> IF t = s THEN symbols ELSE subs[t]]

Switched(s) == broadcast' = [broadcast EXCEPT !.switched = @ \cup {s}]

\* A socket with no subscriptions receives everything.
Wants(s, symbol) == Subscribed(s) = {} \/ symbol \in Subscribed(s)

\* send_to: a send that raises drops the client.
Sent(s) == UNCHANGED <<connections, subscriptions>>
Unsent(s) == ~alive[s] /\ Disconnect(s)

-----------------------------------------------------------------------------
(* connect: the limit is checked, the handshake is awaited, the socket joins *)

\* Fault: the bound is off by one.
AdmitOneMore(s) ==
    /\ endpoint[s].at = "new"
    /\ Cardinality(connections) <= MaxConnections
    /\ Goes(s, "admitted")
    /\ LET handshakes == Cardinality(At("admitted")) + 1
       IN  peak' = IF handshakes > peak THEN handshakes ELSE peak
    /\ UNCHANGED <<connections, subscriptions, alive, broadcast, told, poisoned>>

Admit(s) ==
    /\ endpoint[s].at = "new"
    /\ Cardinality(connections) < MaxConnections
    /\ Goes(s, "admitted")
    /\ LET handshakes == Cardinality(At("admitted")) + 1
       IN  peak' = IF handshakes > peak THEN handshakes ELSE peak
    /\ UNCHANGED <<connections, subscriptions, alive, broadcast, told, poisoned>>

Refuse(s) ==
    /\ endpoint[s].at = "new"
    /\ Cardinality(connections) >= MaxConnections
    /\ Goes(s, "over")
    /\ UNCHANGED <<connections, subscriptions, alive, broadcast, told, poisoned, peak>>

Join(s) ==
    /\ endpoint[s].at = "admitted"
    /\ connections' = connections \cup {s}
    /\ subscriptions' = [t \in DOMAIN subscriptions \cup {s} |-> Subscribed(t)]
    /\ Goes(s, "greeting")
    /\ UNCHANGED <<alive, broadcast, told, poisoned, peak>>

\* accept raises: the client left during the handshake.
AcceptFails(s) ==
    /\ endpoint[s].at = "admitted"
    /\ ~alive[s]
    /\ Goes(s, "over")
    /\ UNCHANGED <<connections, subscriptions, alive, broadcast, told, poisoned, peak>>

-----------------------------------------------------------------------------
(* The endpoint, from the status frame on *)

\* The status frame has been sent or has failed, which the endpoint does not
\* look at; _switch_symbol then subscribes the client to the default symbol.
Greet(s) ==
    /\ endpoint[s].at = "greeting"
    /\ \/ UNCHANGED connections
       \/ ~alive[s] /\ connections' = connections \ {s}
    /\ subscriptions' = SetSubscription(subscriptions, s, {Default})
    /\ Switched(s)
    /\ endpoint' = [endpoint EXCEPT ![s] = [at |-> "confirming", announced |-> {{Default}}]]
    /\ UNCHANGED <<alive, told, poisoned, peak>>

\* The subscription frame; then the last known tick, if there is one.
Confirm(s) ==
    /\ endpoint[s].at = "confirming"
    /\ \/ Sent(s) /\ told' = [told EXCEPT ![s] = endpoint[s].announced]
       \/ Unsent(s) /\ UNCHANGED told
    /\ Goes(s, "replaying") \/ Goes(s, "open")
    /\ UNCHANGED <<alive, broadcast, poisoned, peak>>

Replay(s) ==
    /\ endpoint[s].at = "replaying"
    /\ Sent(s) \/ Unsent(s)
    /\ Goes(s, "open")
    /\ UNCHANGED <<alive, broadcast, told, poisoned, peak>>

Subscribe(s, symbol) ==
    /\ endpoint[s].at = "open"
    /\ subscriptions' = SetSubscription(subscriptions, s, {symbol})
    /\ Switched(s)
    /\ endpoint' = [endpoint EXCEPT ![s] = [at |-> "confirming", announced |-> {{symbol}}]]
    /\ UNCHANGED <<connections, alive, told, poisoned, peak>>

\* A socket without an entry is given none.
Unsubscribe(s, symbol) ==
    /\ endpoint[s].at = "open"
    /\ subscriptions' = [t \in DOMAIN subscriptions |->
                           IF t = s THEN subscriptions[t] \ {symbol} ELSE subscriptions[t]]
    /\ Switched(s)
    /\ endpoint' = [endpoint EXCEPT ![s] = [at |-> "answering",
                                            announced |-> {Subscribed(s) \ {symbol}}]]
    /\ UNCHANGED <<connections, alive, told, poisoned, peak>>

\* A ping, or a symbol nobody supports: one frame in reply.
Ping(s) ==
    /\ endpoint[s].at = "open"
    /\ Goes(s, "answering")
    /\ UNCHANGED <<connections, subscriptions, alive, broadcast, told, poisoned, peak>>

Answer(s) ==
    /\ endpoint[s].at = "answering"
    /\ \/ /\ Sent(s)
          /\ told' = IF endpoint[s].announced = {} THEN told
                     ELSE [told EXCEPT ![s] = endpoint[s].announced]
       \/ Unsent(s) /\ UNCHANGED told
    /\ Goes(s, "open")
    /\ UNCHANGED <<alive, broadcast, poisoned, peak>>

\* WebSocketDisconnect, or any other exception: the message was not JSON.
Leave(s) ==
    /\ endpoint[s].at = "open"
    /\ Disconnect(s)
    /\ Goes(s, "over")
    /\ UNCHANGED <<alive, broadcast, told, poisoned, peak>>

-----------------------------------------------------------------------------
(* broadcast *)

Quiescent == broadcast.pending = {}

StartBroadcast(frame) ==
    /\ Quiescent
    /\ broadcast' = [frame |-> frame, switched |-> {},
                     pending |-> {s \in connections : Wants(s, frame.symbol)}]
    /\ UNCHANGED <<connections, subscriptions, endpoint, alive, told, poisoned, peak>>

Deliver(s) ==
    /\ s \in broadcast.pending
    /\ Encodable(broadcast.frame)
    /\ broadcast' = [broadcast EXCEPT !.pending = @ \ {s}]
    /\ UNCHANGED <<connections, subscriptions, endpoint, alive, told, poisoned, peak>>

\* Fault: one failed send empties the pool.
DropEveryone(s) ==
    /\ s \in broadcast.pending
    /\ ~alive[s] \/ ~Encodable(broadcast.frame)
    /\ connections' = {} /\ subscriptions' = <<>>
    /\ broadcast' = [broadcast EXCEPT !.pending = {}]
    /\ poisoned' = IF Encodable(broadcast.frame) THEN poisoned ELSE poisoned \cup {s}
    /\ UNCHANGED <<endpoint, alive, told, peak>>

\* Fault: a failed send is tried again.
DropAndRetry(s) ==
    /\ s \in broadcast.pending
    /\ ~alive[s] \/ ~Encodable(broadcast.frame)
    /\ Disconnect(s)
    /\ poisoned' = IF Encodable(broadcast.frame) THEN poisoned ELSE poisoned \cup {s}
    /\ UNCHANGED <<endpoint, alive, broadcast, told, peak>>

\* "Any failure means it is gone": the client is dropped.
Drop(s) ==
    /\ s \in broadcast.pending
    /\ ~alive[s] \/ ~Encodable(broadcast.frame)
    /\ Disconnect(s)
    /\ broadcast' = [broadcast EXCEPT !.pending = @ \ {s}]
    /\ poisoned' = IF Encodable(broadcast.frame) THEN poisoned ELSE poisoned \cup {s}
    /\ UNCHANGED <<endpoint, alive, told, peak>>

-----------------------------------------------------------------------------
(* The clients *)

\* The client's end goes away.  The server learns of it from a failed send, or
\* when the coroutine next receives; until then a send may also seem to work.
Die(s) ==
    /\ alive[s] /\ endpoint[s].at # "over"
    /\ alive' = [alive EXCEPT ![s] = FALSE]
    /\ UNCHANGED <<connections, subscriptions, endpoint, broadcast, told, poisoned, peak>>

\* Another client, or the same one again, once nothing refers to the old socket.
Dial(s) ==
    /\ endpoint[s].at = "over" /\ s \notin broadcast.pending
    /\ Goes(s, "new")
    /\ alive' = [alive EXCEPT ![s] = TRUE]
    /\ told' = [told EXCEPT ![s] = {}]
    /\ poisoned' = poisoned \ {s}
    /\ UNCHANGED <<connections, subscriptions, broadcast, peak>>

-----------------------------------------------------------------------------
\* A coroutine whose await has something to return.  Nobody obliges a live
\* client to say anything.
Proceed(s) ==
    \/ Admit(s) \/ Refuse(s)  \/ AcceptFails(s)
    \/ Greet(s) \/ Confirm(s) \/ Replay(s) \/ Answer(s)
    \/ (~alive[s] /\ Leave(s))
Serve(s) == Join(s) \/ Proceed(s)

FanOut == \E s \in Sockets : Deliver(s) \/ Drop(s)

Client(s) ==
    \/ \E symbol \in Watchable : Subscribe(s, symbol) \/ Unsubscribe(s, symbol)
    \/ Ping(s) \/ Leave(s) \/ Die(s) \/ Dial(s)

PoolNext ==
    \/ \E s \in Sockets : Serve(s) \/ Client(s)
    \/ \E frame \in Frame : StartBroadcast(frame)
    \/ FanOut

PoolSpec == PoolInit /\ [][PoolNext]_poolVars

-----------------------------------------------------------------------------
(* Properties *)

PoolTypeOK ==
    /\ connections \subseteq Sockets
    /\ DOMAIN subscriptions \subseteq Sockets
    /\ \A s \in DOMAIN subscriptions : subscriptions[s] \subseteq Symbols
    /\ endpoint \in [Sockets -> Coroutine]
    /\ alive \in [Sockets -> BOOLEAN]
    /\ broadcast \in Broadcast
    /\ told \in [Sockets -> SUBSET SUBSET Symbols]
    /\ poisoned \subseteq Sockets
    /\ peak \in Nat

\* No corpse stays in the pool: once a client's coroutine has ended, in
\* whatever order its own sends, the broadcasts' and the switches failed, the
\* pool holds neither the socket nor a subscription of it, and a socket in the
\* pool always has an entry to be routed by.
NoCorpse ==
    /\ connections \subseteq DOMAIN subscriptions
    /\ \A s \in DOMAIN subscriptions : endpoint[s].at \in Served

\* A client that is there and being served is in the pool and gets its ticks,
\* whichever other clients fail, unless it was sent an automatic-order frame.
LiveClientsListen ==
    \A s \in Sockets :
        alive[s] /\ endpoint[s].at \in Served => s \in connections \/ s \in poisoned

\* The limit is checked before the handshake and the socket joins after it, so
\* the pool can outgrow the limit, but by no more than the handshakes that
\* were under way at once, less one.
OvershootIsHandshakes ==
    Cardinality(connections) > 0 => Cardinality(connections) <= MaxConnections - 1 + peak

Delivered(s) == s \in broadcast.pending /\ s \notin broadcast'.pending /\ s \in connections'

\* Whether the frame is for a symbol the client has last been told it watches,
\* save that a fan-out under way when it switched may still be of the old one.
Follows(s) ==
    broadcast.frame.kind = "tick" /\ endpoint[s].at = "open" /\ s \notin broadcast.switched
        => \A symbols \in told[s] : broadcast.frame.symbol \in symbols

\* "Routed by symbol, so a client watching TCS is not sent INFY ticks": a
\* switch replaces, so that a client is sent only what it was told it watches.
TicksFollowSwitches ==
    [][\A s \in Sockets : Delivered(s) /\ told[s] # {{}} => Follows(s)]_poolVars

\* connection_manager.py, send_to: "any failure means it is gone".
OnlyTheGoneAreDropped ==
    \A s \in Sockets : alive[s] /\ endpoint[s].at \in Served => s \in connections

\* A fan-out ends, although it waits for every one of its sends, and the
\* stream can go on to the next tick.
BroadcastEnds == ~Quiescent ~> Quiescent
===============================================================================
