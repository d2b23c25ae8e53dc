----------------------------- MODULE ValueScan -----------------------------
(***************************************************************************)
(* The daily value scan: once a trading day and market the scheduler of    *)
(* each process rates the stocks of the market, closes the positions rated *)
(* SELL and buys a lot of $1 of each rated BUY.  Scans asked for by hand   *)
(* use the same code; repairs by hand read and write the same tables, with *)
(* or without the lock.                                                    *)
(*                                                                         *)
(* A position is the sequence of the dates of its lots.  The ratings are   *)
(* choices: a stock that could not be read is left alone like one rated    *)
(* HOLD.  A UTC day has five slots, between the times at which a trading   *)
(* date or a scan window of a market begins or ends:                       *)
(*   0  00:00  NASDAQ still has the date before, its window is open        *)
(*   1  05:00  neither window is open                                      *)
(*   2  06:35  the window of KOSPI is open                                 *)
(*   3  15:00  KOSPI has the next date                                     *)
(*   4  20:05  the window of NASDAQ is open                                *)
(* Each commit of the code is a step.                                      *)
(***************************************************************************)
EXTENDS Integers, Sequences, FiniteSets

CONSTANTS Stocks,
          MarketOf,           \* the market of each stock
          Procs,              \* processes that run the application, the scanner's included
          Postgres,           \* the database: PostgreSQL, or else SQLite with a lock file
          FirstSlot, LastSlot,   \* the slots of the calendar that are modelled
          Bounds              \* bounds on the events of a behaviour: one of them holds

Kinds == {"buys", "manual", "repairs", "faults"}

ASSUME ScanAssumption ==
    /\ MarketOf \in [Stocks -> {"kospi", "nasdaq"}]
    /\ FirstSlot \in Nat \ {0} /\ LastSlot \in Nat /\ FirstSlot <= LastSlot
    /\ Postgres \in BOOLEAN /\ Bounds \subseteq [Kinds -> Nat]

VARIABLES clock,     \* the slot, counted from a Monday
          pos,       \* ValueScanPosition with its lots
          closed,    \* ValueScanClosedTrade: [s, in, out, n]
          meta,      \* ValueScanMarketMeta.last_trading_date, 0 without a row
          lock,      \* value_scan_portfolio_lock: the job in its body
          stuck,     \* the process of which an idle pooled connection holds the advisory lock
          running,   \* _scan_running of each process
          job,       \* the scans under way, of the scheduler and by hand
          repair,    \* the repair under way
          bought,    \* history: lots bought of each stock
          excused,   \* history: stocks whose books may differ, for a known cause
          caught,    \* history: catch-ups for the present date of each market
          twice,     \* history: markets with a known cause for a second catch-up
          left       \* what is left of the bounds

tables == <<pos, closed, meta>>
history == <<bought, excused, caught, twice>>
vars == <<clock, tables, lock, stuck, running, job, repair, history, left>>

Markets == {MarketOf[s] : s \in Stocks}
StocksOf(ms) == {s \in Stocks : MarketOf[s] \in ms}
Jobs == Procs \X {"sched", "manual"}
Idle == [at |-> "idle"]
Nobody == <<>>
Repairer == <<"repair">>

-----------------------------------------------------------------------------
(* The calendar. *)

(* datetime.now(UTC), as a date; 0 is no date *)
UtcDate(t) == t \div 5 + 1

TradingDate(m, t) ==
    CASE m = "kospi" /\ t % 5 >= 3 -> UtcDate(t) + 1
      [] m = "nasdaq" /\ t % 5 = 0 -> UtcDate(t) - 1
      [] OTHER -> UtcDate(t)

IsWeekday(m, t) == (TradingDate(m, t) - 1) % 7 < 5

IsPastScanWindow(m, t) == t % 5 \in (IF m = "kospi" THEN {2} ELSE {0, 4})

(* a faulty variant: compares the date of the server *)
NeedsScanByUtc(m, t) == meta[m] # UtcDate(t)

NeedsScanToday(m, t) == meta[m] # TradingDate(m, t)

ShouldRunCatchup(m) ==
    IsWeekday(m, clock) /\ IsPastScanWindow(m, clock) /\ NeedsScanToday(m, clock)

Init ==
    /\ clock = FirstSlot
    /\ pos = [s \in Stocks |-> <<>>] /\ closed = {} /\ meta = [m \in Markets |-> 0]
    /\ lock = Nobody /\ stuck = {} /\ running = [p \in Procs |-> FALSE]
    /\ job = [j \in Jobs |-> Idle] /\ repair = Idle
    /\ bought = [s \in Stocks |-> 0] /\ excused = {}
    /\ caught = [m \in Markets |-> 0] /\ twice = {}
    /\ left \in Bounds

Spend(k) == left[k] > 0 /\ left' = [left EXCEPT ![k] = @ - 1]

(* time passes: a market that gets a new trading date starts a new count *)
Tick ==
    /\ clock < LastSlot /\ clock' = clock + 1
    /\ LET fresh == {m \in Markets : TradingDate(m, clock') # TradingDate(m, clock)}
       IN /\ caught' = [m \in Markets |-> IF m \in fresh THEN 0 ELSE caught[m]]
          /\ twice' = twice \ fresh
    /\ UNCHANGED <<tables, lock, stuck, running, job, repair, bought, excused, left>>

-----------------------------------------------------------------------------
(* A scan: run_daily. *)

Goto(j, r) == job' = [job EXCEPT ![j] = r]

(* the finally of run_daily *)
Finish(j) == Goto(j, Idle) /\ running' = [running EXCEPT ![j[1]] = FALSE]

(* a faulty variant: only a run that succeeds clears the flag *)
AbortedKeepsFlag(j) == Goto(j, Idle) /\ UNCHANGED running

Aborted(j) == Finish(j)

Others(j, m) == {k \in Jobs \ {j} : job[k].at # "idle" /\ k[2] = "sched" /\ m \in job[k].ms}

(* _run_market_scan_if_due: run_daily is handed to a thread *)
SchedulerAsks(p) ==
    /\ job[<<p, "sched">>] = Idle /\ ~running[p]
    /\ \E m \in Markets :
          /\ ShouldRunCatchup(m)
          /\ Goto(<<p, "sched">>, [at |-> "asked", ms |-> {m}, due |-> TradingDate(m, clock)])
          \* the other process has not recorded its scan yet
          /\ twice' = IF Others(<<p, "sched">>, m) = {} THEN twice ELSE twice \cup {m}
    /\ UNCHANGED <<clock, tables, lock, stuck, running, repair, bought, excused, caught, left>>

(* a scan by hand, or of all markets by the daily scanner (scan_value_forward.py), *)
(* whose process has no scheduler that asks                                        *)
TriggerScan(p) ==
    /\ job[<<p, "manual">>] = Idle /\ ~running[p] /\ Spend("manual")
    /\ \E ms \in (SUBSET Markets) \ {{}} : Goto(<<p, "manual">>, [at |-> "asked", ms |-> ms, due |-> 0])
    /\ UNCHANGED <<clock, tables, lock, stuck, running, repair, history>>

(* run_daily begins: the flag is read again *)
Begin(j) ==
    /\ job[j].at = "asked"
    /\ IF running[j[1]] THEN Goto(j, Idle) /\ UNCHANGED running
       ELSE /\ Goto(j, [at |-> "scan", ms |-> job[j].ms, due |-> job[j].due,
                        today |-> UtcDate(clock)])
            /\ running' = [running EXCEPT ![j[1]] = TRUE]
    /\ UNCHANGED <<clock, tables, lock, stuck, repair, history, left>>

(* run_scan of each market: what is bought and what is sold *)
RunScan(j) ==
    /\ job[j].at = "scan"
    /\ \E buy \in SUBSET StocksOf(job[j].ms) :
       \E sell \in SUBSET (StocksOf(job[j].ms) \ buy) :
          /\ left["buys"] >= Cardinality(buy)
          /\ left' = [left EXCEPT !["buys"] = @ - Cardinality(buy)]
          /\ Goto(j, [at |-> "lock", ms |-> job[j].ms, due |-> job[j].due,
                      today |-> job[j].today, buy |-> buy, sell |-> sell])
    /\ UNCHANGED <<clock, tables, lock, stuck, running, repair, history>>

(* A try may fail: another body is under way, or a connection of the pool has kept the *)
(* lock.  Through that connection a try of its process succeeds, the lock being counted. *)
MayFail == lock # Nobody \/ stuck # {}

(* The body ends.  On PostgreSQL the session is committed or rolled back before it    *)
(* unlocks, so the unlock may run on another connection of the pool: the one that     *)
(* holds the lock goes on holding it.  ps: the processes that may own the connection. *)
Unlocks(ps) ==
    /\ lock' = Nobody
    /\ \/ UNCHANGED stuck
       \/ Postgres /\ stuck = {} /\ \E p \in ps : stuck' = {p}

(* a connection of the pool is closed (one too many, or by the server) *)
ConnectionCloses ==
    /\ stuck # {} /\ lock = Nobody /\ stuck' = {}
    /\ UNCHANGED <<clock, tables, lock, running, job, repair, history, left>>

(* update_positions: the lock is tried once; positions are read under it *)
TryLock(j) ==
    /\ job[j].at = "lock"
    /\ \/ MayFail /\ Aborted(j) /\ UNCHANGED lock     \* ValueScanBusy
       \/ /\ lock = Nobody /\ stuck \subseteq {j[1]} /\ lock' = j /\ UNCHANGED running
          /\ Goto(j, [at |-> "save", ms |-> job[j].ms, due |-> job[j].due,
                      today |-> job[j].today, buy |-> job[j].buy, sell |-> job[j].sell,
                      view |-> pos])
    /\ UNCHANGED <<clock, tables, stuck, repair, history, left>>

Sold(r) == {s \in r.sell : r.view[s] # <<>>}

(* a faulty variant: what was sold stays open *)
UpdatedKeepsSold(r) == [s \in Stocks |-> IF s \in r.buy THEN Append(r.view[s], r.today) ELSE r.view[s]]

(* the positions after the sales and the purchases *)
Updated(r) ==
    [s \in Stocks |-> CASE s \in Sold(r) -> <<>>
                        [] s \in r.buy -> Append(r.view[s], r.today)
                        [] OTHER -> r.view[s]]

Exits(r) == {[s |-> s, in |-> Head(r.view[s]), out |-> r.today, n |-> Len(r.view[s])] : s \in Sold(r)}

(* save_positions_to_db writes all positions, also those of other markets *)
Overwritten(view) == {s \in Stocks : pos[s] # view[s]}

SavePositions(j) ==
    /\ job[j].at = "save"
    /\ LET r == job[j] IN
       /\ pos' = Updated(r)
       /\ bought' = [s \in Stocks |-> bought[s] + (IF s \in r.buy THEN 1 ELSE 0)]
       /\ excused' = excused \cup Overwritten(r.view)
       /\ caught' = [m \in Markets |-> caught[m] +
                      (IF m \in r.ms /\ r.due = TradingDate(m, clock) THEN 1 ELSE 0)]
       /\ Goto(j, [at |-> "append", ms |-> r.ms, exits |-> Exits(r)])
    /\ UNCHANGED <<clock, closed, meta, lock, stuck, running, repair, twice, left>>

(* append_closed_trades skips a trade with the dates of another *)
Duplicates(es) == {e \in es : \E c \in closed : c.s = e.s /\ c.in = e.in /\ c.out = e.out}

AppendClosed(j) ==
    /\ job[j].at = "append"
    /\ LET dup == Duplicates(job[j].exits) IN
       /\ closed' = closed \cup (job[j].exits \ dup)
       /\ excused' = excused \cup {e.s : e \in dup}
    /\ Unlocks({j[1]})
    /\ Goto(j, [at |-> "record", ms |-> job[j].ms])
    /\ UNCHANGED <<clock, pos, meta, running, repair, bought, caught, twice, left>>

(* record_market_scan, a commit for each market *)
RecordMarketScan(j) ==
    /\ job[j].at = "record"
    /\ \E m \in job[j].ms :
          /\ meta' = [meta EXCEPT ![m] = TradingDate(m, clock)]
          /\ IF job[j].ms = {m} THEN Finish(j)
             ELSE Goto(j, [at |-> "record", ms |-> job[j].ms \ {m}]) /\ UNCHANGED running
    /\ UNCHANGED <<clock, pos, closed, lock, stuck, repair, history, left>>

(* the positions are written, the rest of r is not *)
HalfDone(r) == r.at \in {"append", "record"}

Unrecorded(r) == IF HalfDone(r) THEN r.ms ELSE {}
Unclosed(r) == IF r.at = "append" THEN {e.s : e \in r.exits} ELSE {}

(* an exception: the body of the lock ends, what was committed stays *)
Fails(j) ==
    /\ job[j].at \notin {"idle", "asked"} /\ Spend("faults")
    /\ Aborted(j)
    /\ IF lock = j THEN Unlocks({j[1]}) ELSE UNCHANGED <<lock, stuck>>
    /\ twice' = twice \cup Unrecorded(job[j])
    /\ excused' = excused \cup Unclosed(job[j])
    /\ UNCHANGED <<clock, tables, repair, bought, caught>>

(* the process ends and starts again: nothing of its memory and no connection is left *)
Restart(p) ==
    /\ Spend("faults")
    /\ LET mine == {j \in Jobs : j[1] = p} IN
       /\ job' = [j \in Jobs |-> IF j \in mine THEN Idle ELSE job[j]]
       /\ lock' = (IF lock \in mine THEN Nobody ELSE lock) /\ stuck' = stuck \ {p}
       /\ twice' = twice \cup UNION {Unrecorded(job[j]) : j \in mine}
       /\ excused' = excused \cup UNION {Unclosed(job[j]) : j \in mine}
    /\ running' = [running EXCEPT ![p] = FALSE]
    /\ UNCHANGED <<clock, tables, repair, bought, caught>>

-----------------------------------------------------------------------------
(* Repairs by hand. *)

(* fix_prices, migrate: the positions are read without the lock ... *)
FixPricesReads ==
    /\ repair = Idle /\ Spend("repairs")
    /\ repair' = [at |-> "fix", view |-> pos]
    /\ UNCHANGED <<clock, tables, lock, stuck, running, job, history>>

(* ... and written back, after the prices were fetched *)
FixPricesSaves ==
    /\ repair.at = "fix"
    /\ pos' = repair.view /\ excused' = excused \cup Overwritten(repair.view)
    /\ repair' = Idle
    /\ UNCHANGED <<clock, closed, meta, lock, stuck, running, job, bought, caught, twice, left>>

(* restore_mistaken_exits: positions and history are read without the lock; *)
(* a trade whose stock is open again is dropped with the others             *)
RestoreReads ==
    /\ repair = Idle /\ Spend("repairs")
    /\ \E m \in Markets : \E out \in {c.out : c \in closed} :
          LET match == {c \in closed : MarketOf[c.s] = m /\ c.out = out}
              back == {c \in match : pos[c.s] = <<>>}
          IN \* one trade of a stock comes back, whichever the code meets first
             /\ back # {}
             /\ \E pick \in SUBSET back :
                   /\ \A c \in back : \E d \in pick : d.s = c.s
                   /\ \A c, d \in pick : c.s = d.s => c = d
                   /\ repair' = [at |-> "restore", view |-> pos, seen |-> closed,
                                 kept |-> closed \ match, back |-> pick,
                                 lost |-> {c.s : c \in match \ pick}]
    /\ UNCHANGED <<clock, tables, lock, stuck, running, job, history>>

\* the lots of a closed trade: its first date, and dates that are not told apart
Reopened(view, back) ==
    [s \in Stocks |-> IF \E c \in back : c.s = s
                      THEN LET c == CHOOSE d \in back : d.s = s IN [i \in 1 .. c.n |-> c.in]
                      ELSE view[s]]

RestoreSavesPositions ==
    /\ repair.at = "restore"
    /\ \/ MayFail /\ repair' = Idle /\ UNCHANGED <<pos, lock, excused>>
       \/ /\ lock = Nobody /\ lock' = Repairer
          /\ pos' = Reopened(repair.view, repair.back)
          /\ excused' = excused \cup Overwritten(repair.view)
          /\ repair' = [repair EXCEPT !.at = "history"]
    /\ UNCHANGED <<clock, stuck, closed, meta, running, job, bought, caught, twice, left>>

RestoreSavesHistory ==
    /\ repair.at = "history"
    /\ closed' = repair.kept
    /\ excused' = excused \cup repair.lost \cup {c.s : c \in closed \ repair.seen}
    /\ Unlocks(Procs) /\ repair' = Idle
    /\ UNCHANGED <<clock, pos, meta, running, job, bought, caught, twice, left>>

(* reset_value_scan_data takes no lock: a scan under way writes its part again *)
Reset ==
    /\ Spend("repairs")
    /\ pos' = [s \in Stocks |-> <<>>] /\ closed' = {} /\ meta' = [m \in Markets |-> 0]
    /\ bought' = [s \in Stocks |-> 0]
    /\ LET quiet == repair = Idle /\ \A j \in Jobs : job[j].at \in {"idle", "asked", "scan", "lock"}
       IN excused' = IF quiet THEN {} ELSE Stocks
    /\ caught' = [m \in Markets |-> 0] /\ twice' = Markets
    /\ UNCHANGED <<clock, lock, stuck, running, job, repair>>

-----------------------------------------------------------------------------
JobStep(j) ==
    Begin(j) \/ RunScan(j) \/ TryLock(j) \/ SavePositions(j) \/ AppendClosed(j) \/ RecordMarketScan(j)

RepairStep == FixPricesSaves \/ RestoreSavesPositions \/ RestoreSavesHistory

Next ==
    \/ Tick
    \/ \E p \in Procs : SchedulerAsks(p) \/ TriggerScan(p) \/ Restart(p)
    \/ \E j \in Jobs : JobStep(j) \/ Fails(j)
    \/ FixPricesReads \/ RestoreReads \/ RepairStep \/ Reset \/ ConnectionCloses

\* the scheduler polls every ten minutes, scans and requests end
Fairness ==
    /\ \A p \in Procs : WF_vars(SchedulerAsks(p))
    /\ \A j \in Jobs : WF_vars(JobStep(j))
    /\ WF_vars(RepairStep)

Spec == Init /\ [][Next]_vars /\ Fairness

-----------------------------------------------------------------------------
TypeOK ==
    /\ clock \in FirstSlot .. LastSlot
    /\ \A s \in Stocks : \A i \in DOMAIN pos[s] : pos[s][i] \in 1 .. UtcDate(LastSlot)
    /\ \A c \in closed : c.s \in Stocks /\ c.n > 0
    /\ lock \in Jobs \cup {Nobody, Repairer}
    \* the body of the lock is where positions and history are written together
    /\ \A j \in Jobs : job[j].at \in {"save", "append"} <=> lock = j
    /\ repair.at = "history" <=> lock = Repairer
    \* only PostgreSQL leaves the lock to a connection, and to one at a time; a scan gets
    \* into the body through that one only
    /\ \A p \in stuck : Postgres /\ stuck = {p} /\ p \in Procs
    /\ lock \in Jobs => stuck \subseteq {lock[1]}
    \* one scan at a time in a process, and its flag tells
    /\ \A p \in Procs :
          running[p] <=> Cardinality({j \in Jobs : j[1] = p /\ job[j].at \notin {"idle", "asked"}}) = 1

\* The lots of closed trades, each told apart.
LotsIn(trades) == UNION {{c} \X (1 .. c.n) : c \in trades}

ClosedLots(s) == Cardinality(LotsIn({c \in closed : c.s = s}))

(* Every lot that was bought is in the open position or in one closed trade of its stock *)
(* once no scan or repair is writing, unless a commit failed between the two tables,     *)
(* two trades had the same dates, or a repair wrote back what it had read before.        *)
BooksBalance ==
    (lock = Nobody /\ repair.at # "history") =>
       \A s \in Stocks \ excused : bought[s] = Len(pos[s]) + ClosedLots(s)

(* A market is caught up at most once a trading date (scan_schedule.py: once a day),  *)
(* unless two processes overlapped, or the scan before failed after its positions     *)
(* were written, or the tables were reset.  Scans that the scheduler did not ask for  *)
(* (by hand, by the daily scanner) are not catch-ups and are not counted.             *)
CatchupOncePerDate == \A m \in Markets : caught[m] <= 1 \/ m \in twice

(* A market that is due does not stay due: whatever failed before, the flag is clear, no  *)
(* body of the lock is under way for ever, and a later poll scans it.  The one way out is *)
(* the lock left to an idle connection, on PostgreSQL: as long as it is, a try may be     *)
(* refused (lock.py ends the transaction before it unlocks).                              *)
DueIsScanned == \A m \in Markets : ShouldRunCatchup(m) ~> (~ShouldRunCatchup(m) \/ stuck # {})
=============================================================================
