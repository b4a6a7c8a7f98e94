----------------------------- MODULE PriceStream -----------------------------
(***************************************************************************)
(* The polling price stream, realtime/price_stream.py, over the pool of    *)
(* clients it feeds and the monitor's cache of armed symbols               *)
(* (automation/monitor.py), which tells it what to poll when nobody is     *)
(* listening.  What an evaluation does to the account is AutomaticOrders;  *)
(* here it matters only how many ACTIVE orders it leaves and whether       *)
(* anything fired.                                                         *)
(*                                                                         *)
(* One poll at a time (max_instances=1) walks the symbols that were wanted *)
(* when it started: fetch, broadcast, on_price, broadcast of the event.    *)
(* The initial states are those of a restart: the process has forgotten    *)
(* everything and the database has not.                                    *)
(***************************************************************************)
EXTENDS ConnectionPool

CONSTANTS Revalidate,  \* AUTOMATION_REVALIDATE_EVERY_EVALUATIONS
          Requests,    \* concurrent requests that create or cancel an order
          Outstanding, \* bound: symbols armed when the process starts
          MaxOrders,   \* bound: automatic orders created since
          Outages      \* whether the feed and the database may fail

ASSUME StreamAssumption ==
    /\ Revalidate \in Nat \ {0} /\ Outstanding \subseteq Symbols /\ MaxOrders \in Nat
    /\ Outages \in BOOLEAN

VARIABLES running,   \* the poll job is scheduled
          todo,      \* the symbols this poll has still to do
          stage,     \* what the poll is doing, and for which symbol
          active,    \* how many ACTIVE orders each symbol has: the database
          created,   \* orders created so far
          cache,     \* _active_symbols: {} for None, else {the set}
          since,     \* _since_revalidate, no further than it is told apart
          reading,   \* what refresh_armed_symbols has read and not yet assigned
          committed, \* requests that have committed and not yet invalidated
          missed     \* auxiliary: whether a refresh overwrote an invalidation

pollVars == <<running, todo, stage>>
orderVars == <<active, created>>
cacheVars == <<cache, since, reading, committed, missed>>
streamVars == <<pollVars, orderVars, cacheVars>>
allVars == <<poolVars, streamVars>>

Stage == [at: {"idle", "next", "fetching", "failed", "priced", "reading", "assigning",
               "evaluating", "announcing"},
          symbol: Symbols]
Doing(at) == stage.at = at
Moves(at) == stage' = [stage EXCEPT !.at = at]
Finishes == stage' = [at |-> "next", symbol |-> Default]

Armed == {x \in Symbols : active[x] > 0}

\* armed_symbols
ArmedSymbols == UNION cache

\* symbols_to_poll
SymbolsToPoll ==
    ArmedSymbols \cup (IF connections = {} THEN {}
                       ELSE IF SubscribedSymbols = {} THEN {Default}
                       ELSE SubscribedSymbols)

StreamInit ==
    /\ PoolInit
    /\ running = FALSE
    /\ todo = {}
    /\ stage = [at |-> "idle", symbol |-> Default]
    /\ active \in [Symbols -> 0 .. 1]
    /\ Armed \subseteq Outstanding
    /\ created = 0
    /\ cache = {} /\ since = 0 /\ reading = {} /\ committed = {}
    /\ missed = "no"

-----------------------------------------------------------------------------
(* Requests: the commit and, after another await, _invalidate_monitor *)

Create(r, x) ==
    /\ r \notin committed /\ created < MaxOrders
    /\ active' = [active EXCEPT ![x] = @ + 1]
    /\ created' = created + 1
    /\ committed' = committed \cup {r}
    /\ UNCHANGED <<poolVars, pollVars, cache, since, reading, missed>>

\* Fault: an order that is no longer ACTIVE is cancelled all the same.
CancelUnchecked(r, x) ==
    /\ r \notin committed
    /\ active' = [active EXCEPT ![x] = @ - 1]
    /\ committed' = committed \cup {r}
    /\ UNCHANGED <<poolVars, pollVars, created, cache, since, reading, missed>>

Cancel(r, x) ==
    /\ r \notin committed /\ active[x] > 0
    /\ active' = [active EXCEPT ![x] = @ - 1]
    /\ committed' = committed \cup {r}
    /\ UNCHANGED <<poolVars, pollVars, created, cache, since, reading, missed>>

\* Fault: the monitor is not told.
InvalidateNothing(r) ==
    /\ r \in committed
    /\ committed' = committed \ {r}
    /\ UNCHANGED <<poolVars, pollVars, orderVars, cache, since, reading, missed>>

Invalidate(r) ==
    /\ r \in committed
    /\ committed' = committed \ {r}
    /\ cache' = {}
    /\ missed' = IF Doing("assigning") THEN "pending" ELSE "no"
    /\ UNCHANGED <<poolVars, pollVars, orderVars, since, reading>>

\* A fill of the user's retires stops in its own transaction, and tells nobody.
Retire(x) ==
    /\ active[x] > 0
    /\ \E left \in 0 .. active[x] - 1 : active' = [active EXCEPT ![x] = left]
    /\ UNCHANGED <<poolVars, pollVars, created, cacheVars>>

-----------------------------------------------------------------------------
(* _poll_once *)

\* A poll that wants nothing does nothing.
StartPoll ==
    /\ running /\ Doing("idle")
    /\ SymbolsToPoll # {}
    /\ todo' = SymbolsToPoll
    /\ Finishes
    /\ UNCHANGED <<poolVars, running, orderVars, cacheVars>>

\* They are visited in alphabetical order; any order is allowed here.
NextSymbol ==
    /\ Doing("next")
    /\ \E x \in todo : /\ todo' = todo \ {x}
                       /\ stage' = [at |-> "fetching", symbol |-> x]
    /\ UNCHANGED <<poolVars, running, orderVars, cacheVars>>

EndPoll ==
    /\ Doing("next") /\ todo = {}
    /\ Moves("idle")
    /\ UNCHANGED <<poolVars, running, todo, orderVars, cacheVars>>

\* _handle_failure broadcasts an error frame, routed as a tick is.
FetchFails ==
    /\ Outages /\ Doing("fetching")
    /\ StartBroadcast([kind |-> "tick", symbol |-> stage.symbol])
    /\ Moves("failed")
    /\ UNCHANGED <<running, todo, orderVars, cacheVars>>

Fetch(x) ==
    /\ Doing("fetching") /\ stage.symbol = x
    /\ StartBroadcast([kind |-> "tick", symbol |-> x])
    /\ Moves("priced")
    /\ UNCHANGED <<running, todo, orderVars, cacheVars>>

\* An error or event frame has gone out.
Announced ==
    /\ Doing("failed") \/ Doing("announcing")
    /\ Quiescent
    /\ Finishes
    /\ UNCHANGED <<poolVars, running, todo, orderVars, cacheVars>>

-----------------------------------------------------------------------------
(* AutomaticOrderMonitor.on_price, once the tick has gone out.  The poll is *)
(* its only caller, so its lock is free.                                    *)

\* Fault: no periodic revalidation.
HasActiveOrdersUnlessUnknown ==
    /\ Doing("priced") /\ Quiescent
    /\ IF cache = {} THEN Moves("reading")
       ELSE IF ArmedSymbols = {} THEN Finishes ELSE Moves("evaluating")
    /\ UNCHANGED <<poolVars, running, todo, orderVars, cacheVars>>

\* _has_active_orders
HasActiveOrders ==
    /\ Doing("priced") /\ Quiescent
    /\ since' = IF since < Revalidate THEN since + 1 ELSE since
    /\ IF cache = {} \/ since' >= Revalidate THEN Moves("reading")
       ELSE IF ArmedSymbols = {} THEN Finishes ELSE Moves("evaluating")
    /\ UNCHANGED <<poolVars, running, todo, orderVars, cache, reading, committed, missed>>

\* refresh_armed_symbols: the query; the session is closed, which is another
\* await; then the assignment.
ReadArmed ==
    /\ Doing("reading")
    /\ reading' = Armed
    /\ Moves("assigning")
    /\ UNCHANGED <<poolVars, running, todo, orderVars, cache, since, committed, missed>>

\* Fault: what was armed stays so.
AssignCacheUnion ==
    /\ Doing("assigning")
    /\ cache' = {ArmedSymbols \cup reading}
    /\ since' = 0 /\ reading' = {}
    /\ missed' = IF missed = "pending" THEN "yes" ELSE "no"
    /\ IF cache' = {{}} THEN Finishes ELSE Moves("evaluating")
    /\ UNCHANGED <<poolVars, running, todo, orderVars, committed>>

AssignCache ==
    /\ Doing("assigning")
    /\ cache' = {reading}
    /\ since' = 0 /\ reading' = {}
    /\ missed' = IF missed = "pending" THEN "yes" ELSE "no"
    /\ IF cache' = {{}} THEN Finishes ELSE Moves("evaluating")
    /\ UNCHANGED <<poolVars, running, todo, orderVars, committed>>

\* on_price swallows the exception.
ReadFails ==
    /\ Outages /\ Doing("reading")
    /\ Finishes
    /\ UNCHANGED <<poolVars, running, todo, orderVars, cacheVars>>

NothingFires ==
    /\ Doing("evaluating")
    /\ Finishes
    /\ UNCHANGED <<poolVars, running, todo, orderVars, cacheVars>>

\* Orders of the symbol fire and others may be retired with them; the cache is
\* invalidated and the event broadcast.
Fires ==
    /\ Doing("evaluating")
    /\ \E left \in 0 .. active[stage.symbol] - 1 :
          active' = [active EXCEPT ![stage.symbol] = left]
    /\ cache' = {} /\ missed' = "no"
    /\ StartBroadcast([kind |-> "automatic_order", symbol |-> stage.symbol])
    /\ Moves("announcing")
    /\ UNCHANGED <<running, todo, created, since, reading, committed>>

\* The evaluation raises after a claim: no event, no invalidation.
EvaluationFails ==
    /\ Outages /\ Doing("evaluating")
    /\ active[stage.symbol] > 0
    /\ active' = [active EXCEPT ![stage.symbol] = @ - 1]
    /\ Finishes
    /\ UNCHANGED <<poolVars, running, todo, created, cacheVars>>

-----------------------------------------------------------------------------
\* The first client to join starts the poll job.
JoinAndStart(s) ==
    /\ Join(s)
    /\ running' = TRUE
    /\ UNCHANGED <<todo, stage, orderVars, cacheVars>>

Requested ==
    \E r \in Requests : Invalidate(r) \/ \E x \in Symbols : Create(r, x) \/ Cancel(r, x)

Poll ==
    \/ StartPoll \/ NextSymbol \/ EndPoll \/ FetchFails \/ (\E x \in Symbols : Fetch(x))
    \/ Announced \/ HasActiveOrders \/ ReadArmed \/ AssignCache \/ ReadFails
    \/ NothingFires \/ Fires \/ EvaluationFails

StreamNext ==
    \/ \E s \in Sockets : \/ JoinAndStart(s)
                          \/ (Proceed(s) \/ Client(s)) /\ UNCHANGED streamVars
    \/ FanOut /\ UNCHANGED streamVars
    \/ Poll
    \/ Requested
    \/ \E x \in Symbols : Retire(x)

StreamSpec == StreamInit /\ [][StreamNext]_allVars

\* The event loop runs what can run, the scheduler keeps polling, every send
\* ends.  Outages strike, but not always: a symbol that is due again and again
\* is once fetched, and the query of its evaluation once answered.
FairStreamSpec ==
    /\ StreamSpec
    /\ WF_allVars(Poll)
    /\ WF_allVars(FanOut /\ UNCHANGED streamVars)
    /\ \A s \in Sockets : WF_allVars(JoinAndStart(s) \/ (Proceed(s) /\ UNCHANGED streamVars))
    /\ \A r \in Requests : WF_allVars(Invalidate(r))
    /\ \A x \in Symbols : SF_allVars(Fetch(x))
    /\ \A x \in Symbols : SF_allVars(ReadArmed /\ stage.symbol = x)

-----------------------------------------------------------------------------
(* Properties *)

StreamTypeOK ==
    /\ PoolTypeOK
    /\ running \in BOOLEAN
    /\ todo \subseteq Symbols
    /\ stage \in Stage
    /\ active \in [Symbols -> Nat] /\ created \in Nat
    /\ cache \subseteq SUBSET Symbols /\ Cardinality(cache) <= 1
    /\ since \in 0 .. Revalidate
    /\ reading \subseteq Symbols
    /\ committed \subseteq Requests
    /\ missed \in {"no", "pending", "yes"}

\* The cache lacks an armed symbol only while the request that armed it has
\* not told the monitor, or when a refresh that had already read the table
\* overwrote what it told.
CacheLacksOnlyTheUntold ==
    \A known \in cache : Armed \subseteq known \/ committed # {} \/ missed = "yes"

Evaluated(x) == stage = [at |-> "evaluating", symbol |-> x]
Watched(x) == running /\ active[x] > 0 ~> active[x] = 0 \/ Evaluated(x)

\* While somebody listens, to whatever symbol, every armed symbol is
\* evaluated, although refreshes overwrite what the monitor was told.
WatchedWhileListening == <>[](connections # {}) => \A x \in Symbols : Watched(x)

\* price_stream.py: "An instrument with an ACTIVE automatic order keeps being
\* polled regardless of who is watching".
WatchedRegardless == \A x \in Symbols : Watched(x)

\* "An idle server makes no upstream calls": when nobody listens and nothing
\* is armed any more, polling stops, although nobody tells the monitor that a
\* fill has retired the last order.
IdleServerStops == <>[](connections = {} /\ Armed = {}) => <>[](SymbolsToPoll = {})
===============================================================================
