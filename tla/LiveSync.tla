------------------------------ MODULE LiveSync ------------------------------
(***************************************************************************)
(* How a live strategy carries its paper trades over to Binance: the       *)
(* events of a tick go to _execute_verify_notify, which drives the         *)
(* BinanceExecutor one HTTP request at a time. The task of a bar tick and  *)
(* the strategy loop run it side by side on one asyncio thread.            *)
(*                                                                         *)
(* A step of a job is a request served by the exchange and the code up to  *)
(* the next request. A request may fail: it is refused, or it times out,   *)
(* with or without effect. The exchange knows one position per symbol (one *)
(* way mode) and stop orders that close whatever position there is on      *)
(* their side. Sizes are not modelled: every entry order is for one unit.  *)
(* Bars are far apart: the job of a bar tick ends before the next one      *)
(* starts (StrategyLoop is about ticks that come late).                    *)
(***************************************************************************)
EXTENDS Integers, Sequences

CONSTANTS
    MaxTrade,       \* bound: trades of the engine
    MaxFaults,      \* bound: requests that fail
    MaxRestarts,    \* bound: process restarts
    FinalErrors,    \* the exchange may refuse a close with an error that is not retried
    Overlap         \* a job may start while the other one is running

ASSUME LiveBoundAssumption == {MaxTrade, MaxFaults, MaxRestarts} \subseteq Nat
ASSUME LiveSwitchAssumption == {FinalErrors, Overlap} \subseteq BOOLEAN

VARIABLES
    engine,     \* the trade the engine holds; 0 when it is flat
    side,       \* side[t]: 1 for a long trade, -1 for a short one
    entered,    \* trades entered so far
    amt,        \* positionAmt: the position on the exchange, in units
    orders,     \* the open TP and SL orders on the exchange
    job,        \* job["tick"], job["loop"]: the two runs of _execute_verify_notify
    faults,     \* requests that failed so far
    restarts,   \* restarts so far
    overlapped  \* history: a job was started while the other one was running

vars == <<engine, side, entered, amt, orders, job, faults, restarts, overlapped>>

Trade == 1..MaxTrade
Runners == {"tick", "loop"}
Attempts == 3                   \* max_attempts of close_position

Event == [kind : {"entry", "close"}, trade : Trade]
Order == [trade : Trade, kind : {"tp", "sl"}]

\* at: the request that is next. read: what get_position told. from: the position
\* when the event began. clean: since then no request of this job failed, no stop
\* order was filled and the other runner did nothing.
NoJob == [events |-> <<>>, at |-> "idle", read |-> 0, try |-> 1, from |-> 0, clean |-> TRUE]

Labels == {"idle", "open_look", "open_order", "cancel", "tp", "sl",
           "close_look", "close_order", "close_cancel"}

JobType == [events : Seq(Event), at : Labels, read : Int, try : 1..Attempts,
            from : Int, clean : BOOLEAN]

TypeOK ==
    /\ engine \in Trade \cup {0}
    /\ side \in [Trade -> {1, -1}]
    /\ entered \in 0..MaxTrade
    /\ amt \in Int
    /\ orders \subseteq Order
    /\ job \in [Runners -> JobType]
    /\ faults \in 0..MaxFaults
    /\ restarts \in 0..MaxRestarts
    /\ overlapped \in BOOLEAN

Entry(t) == [kind |-> "entry", trade |-> t]
Close(t) == [kind |-> "close", trade |-> t]
Current(j) == Head(job[j].events)
Other(j) == IF j = "tick" THEN "loop" ELSE "tick"
Busy(j) == job[j].at # "idle"
Sign(n) == IF n > 0 THEN 1 ELSE IF n < 0 THEN -1 ELSE 0

-----------------------------------------------------------------------------
Init ==
    /\ engine = 0
    /\ side = [t \in Trade |-> 1]
    /\ entered = 0
    /\ amt = 0
    /\ orders = {}
    /\ job = [j \in Runners |-> NoJob]
    /\ faults = 0
    /\ restarts = 0
    /\ overlapped = FALSE

\* The for loop over the events, at its next event, the position being a.
JobFor(events, a, alone) ==
    IF events = <<>> THEN NoJob
    ELSE [events |-> events,
          at     |-> IF Head(events).kind = "entry" THEN "open_look" ELSE "close_look",
          read   |-> 0, try |-> 1, from |-> a, clean |-> alone]

Begin(j, events) ==
    /\ ~Busy(j)
    /\ Busy(Other(j)) => Overlap
    /\ overlapped' = (overlapped \/ Busy(Other(j)))
    /\ job' = [job EXCEPT ![j] = JobFor(events, amt, ~Busy(Other(j))),
                          ![Other(j)].clean = @ /\ ~Busy(Other(j))]

Fails ==
    /\ faults < MaxFaults
    /\ faults' = faults + 1

\* Runner j goes on to the request "at"; faults' is settled by then.
Goes(j, at) ==
    job' = [job EXCEPT ![j].at = at, ![j].clean = @ /\ faults' = faults]

\* The executor call returned, or raised and the event's try block caught it. The
\* position is a by then.
Done(j, a) ==
    job' = [job EXCEPT ![j] = JobFor(Tail(@.events), a, ~Busy(Other(j)))]

EngineOnly == UNCHANGED <<amt, orders, faults, restarts>>
Untouched  == UNCHANGED <<engine, side, entered, restarts, overlapped>>

-----------------------------------------------------------------------------
(* The engine. Its memory and its rows change in the tick, at once; the    *)
(* orders follow.                                                          *)

\* A bar tick enters.
TickEnters ==
    /\ engine = 0 /\ entered < MaxTrade
    /\ Begin("tick", <<Entry(entered + 1)>>)
    /\ engine' = entered + 1 /\ entered' = entered + 1
    /\ \E way \in {1, -1} : side' = [side EXCEPT ![entered + 1] = way]
    /\ EngineOnly

\* A bar tick exits.
TickExits ==
    /\ engine # 0
    /\ Begin("tick", <<Close(engine)>>)
    /\ engine' = 0
    /\ UNCHANGED <<side, entered>> /\ EngineOnly

\* A faulty variant: the entry is sent before the close.
TickReversesSwapped ==
    /\ engine # 0 /\ entered < MaxTrade
    /\ Begin("tick", <<Entry(entered + 1), Close(engine)>>)
    /\ engine' = entered + 1 /\ entered' = entered + 1
    /\ \E way \in {1, -1} : side' = [side EXCEPT ![entered + 1] = way]
    /\ EngineOnly

\* A bar tick exits and enters again.
TickReverses ==
    /\ engine # 0 /\ entered < MaxTrade
    /\ Begin("tick", <<Close(engine), Entry(entered + 1)>>)
    /\ engine' = entered + 1 /\ entered' = entered + 1
    /\ \E way \in {1, -1} : side' = [side EXCEPT ![entered + 1] = way]
    /\ EngineOnly

\* The loop's price tick exits; the loop waits for the orders.
LoopExits ==
    /\ engine # 0
    /\ Begin("loop", <<Close(engine)>>)
    /\ engine' = 0
    /\ UNCHANGED <<side, entered>> /\ EngineOnly

-----------------------------------------------------------------------------
(* open_position and place_tp_sl                                           *)

\* A faulty variant: get_position is not asked.
OpenLookBlind(j) ==
    /\ job[j].at = "open_look"
    /\ \/ UNCHANGED faults /\ Goes(j, "open_order")
       \/ Fails /\ amt = 0 /\ Goes(j, "cancel")
       \/ Fails /\ Done(j, amt)
    /\ UNCHANGED <<amt, orders>> /\ Untouched

\* get_position and the other requests before an entry. An existing position,
\* whichever it is, is left alone, and open_position returns None: the TP and SL
\* of the new trade follow all the same. Any of the requests may raise.
OpenLook(j) ==
    /\ job[j].at = "open_look"
    /\ \/ UNCHANGED faults /\ Goes(j, IF amt # 0 THEN "cancel" ELSE "open_order")
       \/ Fails /\ amt = 0 /\ Goes(j, "cancel")      \* no balance, or no price
       \/ Fails /\ Done(j, amt)
    /\ UNCHANGED <<amt, orders>> /\ Untouched

\* The market order. A refusal returns None and the TP and SL follow; a time-out
\* raises and they are skipped, although the order may have been filled.
OpenOrder(j) ==
    LET filled == amt + side[Current(j).trade]
    IN  /\ job[j].at = "open_order"
        /\ \/ amt' = filled /\ UNCHANGED faults /\ Goes(j, "cancel")
           \/ amt' = amt /\ Fails /\ Goes(j, "cancel")
           \/ amt' \in {amt, filled} /\ Fails /\ Done(j, amt')
        /\ UNCHANGED orders /\ Untouched

\* A faulty variant: the orders of earlier trades are not cancelled.
PlaceCancelNothing(j) ==
    /\ job[j].at = "cancel"
    /\ UNCHANGED faults
    /\ Goes(j, "tp")
    /\ UNCHANGED <<amt, orders>> /\ Untouched

\* place_tp_sl cancels everything first. A failure is swallowed.
PlaceCancel(j) ==
    /\ job[j].at = "cancel"
    /\ \/ orders' = {} /\ UNCHANGED faults
       \/ orders' \in {orders, {}} /\ Fails
    /\ Goes(j, "tp")
    /\ UNCHANGED amt /\ Untouched

\* Then the TP and the SL, each in a try of its own: a refused or failed one is
\* not placed again.
Placed(j, kind) == orders \cup {[trade |-> Current(j).trade, kind |-> kind]}

PlaceTp(j) ==
    /\ job[j].at = "tp"
    /\ \/ orders' = Placed(j, "tp") /\ UNCHANGED faults
       \/ orders' \in {orders, Placed(j, "tp")} /\ Fails
    /\ Goes(j, "sl")
    /\ UNCHANGED amt /\ Untouched

PlaceSl(j) ==
    /\ job[j].at = "sl"
    /\ \/ orders' = Placed(j, "sl") /\ UNCHANGED faults
       \/ orders' \in {orders, Placed(j, "sl")} /\ Fails
    /\ Done(j, amt)
    /\ UNCHANGED amt /\ Untouched

-----------------------------------------------------------------------------
(* close_position                                                          *)

\* A faulty variant: one attempt too many.
RetryOnceMore(j, a) ==
    IF job[j].try > Attempts THEN Done(j, a)
    ELSE job' = [job EXCEPT ![j].at = "close_look", ![j].try = @ + 1,
                            ![j].clean = @ /\ faults' = faults]

\* After a failed attempt: get_position again, or give up.
Retry(j, a) ==
    IF job[j].try = Attempts THEN Done(j, a)
    ELSE job' = [job EXCEPT ![j].at = "close_look", ![j].try = @ + 1,
                            ![j].clean = @ /\ faults' = faults]

\* get_position is outside the try: an exception ends the close at once. Without a
\* position nothing is left to do, and nothing is cancelled.
CloseLook(j) ==
    /\ job[j].at = "close_look"
    /\ \/ amt = 0 /\ UNCHANGED faults /\ Done(j, amt)
       \/ /\ amt # 0 /\ UNCHANGED faults
          /\ job' = [job EXCEPT ![j].at = "close_order", ![j].read = amt]
       \/ Fails /\ Done(j, amt)
    /\ UNCHANGED <<amt, orders>> /\ Untouched

\* What a reduce-only order against a position of n units leaves of p units.
Reduced(p, n) ==
    IF Sign(p) # Sign(n) THEN p
    ELSE IF n > 0 THEN (IF p > n THEN p - n ELSE 0)
    ELSE (IF p < n THEN p - n ELSE 0)

\* A faulty variant: the side is that of the trade, not that of the position.
CloseSizeBySide(j) ==
    side[Current(j).trade] * (IF job[j].read > 0 THEN job[j].read ELSE -job[j].read)

\* Side and size of the closing order come from the position, not from the trade.
CloseSize(j) == job[j].read

\* The reduce-only market order for the position that was read. The exchange
\* refuses it if that position is gone. Errors are retried, unless they are final.
CloseOrder(j) ==
    LET left == Reduced(amt, CloseSize(j))
    IN  /\ job[j].at = "close_order"
        /\ \/ left # amt /\ amt' = left /\ UNCHANGED faults /\ Goes(j, "close_cancel")
           \/ left = amt /\ amt' = left /\ UNCHANGED faults /\ Retry(j, amt)
           \/ amt' \in {amt, left} /\ Fails /\ Retry(j, amt')
           \/ FinalErrors /\ amt' = amt /\ Fails /\ Done(j, amt)
        /\ UNCHANGED orders /\ Untouched

CloseCancel(j) ==
    /\ job[j].at = "close_cancel"
    /\ \/ orders' = {} /\ UNCHANGED faults
       \/ orders' \in {orders, {}} /\ Fails
    /\ Done(j, amt)
    /\ UNCHANGED amt /\ Untouched

-----------------------------------------------------------------------------
\* The exchange fills a TP or an SL: it closes the position on its side.
Trigger(o) ==
    /\ o \in orders
    /\ Sign(amt) = side[o.trade]
    /\ amt' = 0
    /\ orders' = orders \ {o}
    /\ job' = [j \in Runners |-> [job[j] EXCEPT !.clean = @ /\ ~Busy(j)]]
    /\ UNCHANGED faults /\ Untouched

\* The process dies and starts again. The held trade comes back from its row;
\* neither its orders nor those of the jobs that died are looked at.
Restart ==
    /\ restarts < MaxRestarts
    /\ restarts' = restarts + 1
    /\ job' = [j \in Runners |-> NoJob]
    /\ UNCHANGED <<engine, side, entered, amt, orders, faults, overlapped>>

Next ==
    \/ TickEnters
    \/ TickExits
    \/ TickReverses
    \/ LoopExits
    \/ \E j \in Runners :
        \/ OpenLook(j) \/ OpenOrder(j)
        \/ PlaceCancel(j) \/ PlaceTp(j) \/ PlaceSl(j)
        \/ CloseLook(j) \/ CloseOrder(j) \/ CloseCancel(j)
    \/ \E o \in orders : Trigger(o)
    \/ Restart

Spec == Init /\ [][Next]_vars

-----------------------------------------------------------------------------
Quiet == \A j \in Runners : ~Busy(j)

OrdersOf(t) == [trade : {t}, kind : {"tp", "sl"}]

\* open_position asks for an existing position first: however closes fail, trades
\* are reversed or the process restarts, positions never pile up on the exchange.
NeverDoubled == amt \in -1..1

\* Once the requests are done, and if none failed, the exchange is where the engine
\* is: flat with it, or in its trade under both of that trade's orders, or already
\* closed by an order that filled. It takes jobs that run one after the other.
QuietMeansSynced ==
    Quiet /\ faults = 0 /\ restarts = 0 /\ ~overlapped =>
        IF engine = 0 THEN amt = 0
        ELSE \/ amt = side[engine] /\ orders = OrdersOf(engine)
             \/ amt = 0 /\ orders # {} /\ orders \subseteq OrdersOf(engine)

\* An event of kind k of runner j ends in this step, undisturbed.
EndsClean(j, k) ==
    /\ Busy(j) /\ Current(j).kind = k
    /\ job'[j].events # job[j].events
    /\ job[j].clean
    /\ faults' = faults /\ restarts' = restarts

\* Whatever failed before, a close that is not disturbed leaves the exchange flat,
\* even if what it finds there is not the trade it was sent for: it reads the
\* position and closes that.
CleanCloseFlattens == [][\A j \in Runners : EndsClean(j, "close") => amt' = 0]_vars

\* An undisturbed entry from a flat exchange ends in its own position under its own
\* TP and SL and no others, whatever orders earlier trades had left behind.
CleanEntryProtects ==
    [][\A j \in Runners : EndsClean(j, "entry") /\ job[j].from = 0 =>
        /\ amt' = side[Current(j).trade]
        /\ orders' = OrdersOf(Current(j).trade)]_vars

\* close_position "must never fail": when the requests are done and the engine is
\* flat, so is the exchange.
CloseNeverFails == Quiet /\ engine = 0 => amt = 0
=============================================================================
