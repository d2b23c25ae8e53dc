----------------------------- MODULE PolySignals -----------------------------
(* The signals of the Polymarket strategies (table polymarket_signals) and the *)
(* jobs on them: scanners that write a row when a market meets their rule,     *)
(* order tasks, the queue of retry jobs, and the resolver that settles rows    *)
(* whose market has ended. Several processes share the tables (a relay that    *)
(* only queues and scans, a worker that also trades); each is one event loop,  *)
(* so what it does between two awaits is one step, except that the lookup and  *)
(* the insertion of a signal are two transactions.                             *)
(*                                                                             *)
(* Rules are choices: whether the prices of a market meet one is data. Times   *)
(* are a set of markets that have ended and a set of cool-downs that are on.   *)
EXTENDS Naturals

CONSTANTS
    Market,     \* markets (condition ids)
    Proc, Live, \* processes, and those in live mode
    MaxRow, MaxJob,
    Budgets     \* what may happen in a behaviour

VARIABLES
    rows, nextRow,  \* polymarket_signals, and the id of the next row
    jobs,           \* polymarket_jobs: the status of each job, in order of creation
    cooling,        \* the markets of each process and strategy in their cool-down
    looked,         \* a signal of a process between its lookup and its insertion
    confirming,     \* pairs whose legs are being confirmed
    orders,         \* order tasks that have not run: process and row
    rescan,         \* processes in a rescan of LC after a redemption
    resolver,       \* where the resolver of each process is
    ended, final,   \* markets past their end, and the result of each ("open": none yet)
    left            \* what may still happen

table  == <<rows, nextRow>>
memory == <<cooling, looked, confirming, orders, rescan>>
world  == <<ended, final>>
vars   == <<table, jobs, memory, resolver, world, left>>

\* Late convergence, latency snipe, pair hedge, Bayesian FOMC, logic arbitrage.
Strategy == {"LC", "LS", "PH", "BF", "LA"}
Outcome  == {"YES", "NO"}

\* What is switched on, up and listed, and how many rows, faults, restarts, resets and
\* retries there may be. Rows of an earlier version are by none of the processes.
Budget == [on : SUBSET Strategy, up : SUBSET Proc, listed : SUBSET Market, rows : 1..MaxRow,
           faults : Nat, restarts : Nat, resets : Nat, retries : Nat]
ASSUME SignalAssumption ==
    /\ MaxRow \in Nat /\ MaxJob \in Nat
    /\ Live \subseteq Proc /\ "before" \notin Proc
    /\ Budgets \subseteq Budget

RowId  == 1..MaxRow
NoRow  == [strategy |-> "none"]
\* PolymarketSignal. Notes of the model: the lookup before it failed (blind), and the
\* cool-down that it began is still on (warm).
Signal == [strategy : Strategy, market : Market, side : Outcome \union {"BOTH"},
           by : Proc \union {"before"}, blind : BOOLEAN,
           status : {"none", "pending", "paper", "skipped", "failed", "live", "matched"},
           dated : BOOLEAN, outcome : Outcome \union {"open"}, warm : BOOLEAN]
Rows == {r \in RowId : rows[r] # NoRow}
Open(r) == rows[r].outcome = "open"

NoLook  == [strategy |-> "none"]
Asleep  == [at |-> "sleep"]
Nothing == [r \in {} |-> "open"]

Spend(what) == left[what] > 0 /\ left' = [left EXCEPT ![what] = @ - 1]

Init ==
    /\ left \in Budgets
    /\ \/ rows = [r \in RowId |-> NoRow] /\ nextRow = 1
       \* a row that an earlier version of the program left
       \/ \E m \in left.listed, st \in {"failed", "matched"} :
            /\ rows = [r \in RowId |-> IF r > 1 THEN NoRow ELSE
                        [strategy |-> "LC", market |-> m, side |-> "YES", by |-> "before",
                         blind |-> FALSE, status |-> st, dated |-> TRUE, outcome |-> "open", warm |-> FALSE]]
            /\ nextRow = 2
    /\ jobs = [j \in 1..MaxJob |-> "none"]
    /\ cooling = [p \in Proc |-> [s \in Strategy |-> {}]]
    /\ looked = [p \in Proc |-> NoLook]
    /\ confirming = {} /\ orders = {} /\ rescan = {}
    /\ resolver = [p \in Proc |-> Asleep]
    /\ ended = {} /\ final = [m \in Market |-> "open"]
-----------------------------------------------------------------------------
(* The scanners.                                                             *)

\* run_polymarket: the loops of a process run if it is live or a strategy is on.
Running(p) == p \in left.up /\ (p \in Live \/ left.on # {})
Scans(p, s) == s \in left.on /\ Running(p)

Row(p, s, m, side, blind, status, dated) ==
    [strategy |-> s, market |-> m, side |-> side, by |-> p, blind |-> blind,
     status |-> status, dated |-> dated, outcome |-> "open", warm |-> s # "BF"]
Insert(row) ==
    /\ nextRow <= left.rows
    /\ rows' = [rows EXCEPT ![nextRow] = row] /\ nextRow' = nextRow + 1

Cool(p, s, m) ==
    /\ m \notin cooling[p][s]
    /\ cooling' = [cooling EXCEPT ![p][s] = @ \union {m}]

\* The lookup of an open row; one that fails finds nothing.
LookUp(p, s, m, side, found) ==
    /\ looked[p] = NoLook
    /\ \E blind \in BOOLEAN :
        /\ IF blind THEN Spend("faults") ELSE UNCHANGED left
        /\ looked' = IF ~blind /\ found THEN looked
                     ELSE [looked EXCEPT ![p] = [strategy |-> s, market |-> m,
                                                 side |-> side, blind |-> blind]]
    /\ UNCHANGED <<table, jobs, confirming, orders, rescan, resolver, world>>

\* Late convergence asks for rows of any strategy, but in SQL a row without status
\* never matches status NOT IN (...). It looks at the end of the market again, which
\* may have come since the list was read, and is scanned after a redemption even if it
\* is switched off.
LateSignaled(m, side) ==
    \E r \in Rows : /\ rows[r].market = m /\ rows[r].side = side /\ Open(r)
                    /\ rows[r].status \notin {"failed", "skipped", "none"}
LateConvergence(p, m, side) ==
    /\ Scans(p, "LC") \/ p \in rescan
    /\ m \notin ended
    /\ Cool(p, "LC", m)
    /\ LookUp(p, "LC", m, side, LateSignaled(m, side))

\* Mutant: the lookup is left to the cool-down.
NeverSignaled(m, side) == FALSE
SnipeSignaled(m, side) ==
    \E r \in Rows : /\ rows[r].strategy = "LS" /\ rows[r].market = m
                    /\ rows[r].side = side /\ Open(r)
LatencySnipe(p, m, side) ==
    /\ Scans(p, "LS")
    /\ Cool(p, "LS", m)
    /\ LookUp(p, "LS", m, side, SnipeSignaled(m, side))

SaveSignal(p) ==
    LET k == looked[p] IN
    /\ k # NoLook
    /\ Insert(Row(p, k.strategy, k.market, k.side, k.blind, "pending", TRUE))
    /\ orders' = orders \union {<<p, nextRow>>}
    /\ looked' = [looked EXCEPT ![p] = NoLook]
    /\ UNCHANGED <<jobs, cooling, confirming, rescan, resolver, world, left>>
SaveFails(p) ==
    /\ looked[p] # NoLook /\ (nextRow > left.rows \/ left.faults > 0)
    /\ left' = [left EXCEPT !.faults = IF nextRow > left.rows THEN @ ELSE @ - 1]
    /\ looked' = [looked EXCEPT ![p] = NoLook]
    /\ UNCHANGED <<table, jobs, cooling, confirming, orders, rescan, resolver, world>>

\* The others write their row without looking, and no order follows.
Write(p, s, m, side, dated) ==
    /\ looked[p] = NoLook
    /\ \/ Insert(Row(p, s, m, side, FALSE, "none", dated)) /\ UNCHANGED left
       \/ Spend("faults") /\ UNCHANGED table
    /\ UNCHANGED <<jobs, looked, orders, rescan, resolver, world>>

PairHedge(p, m) ==
    /\ Scans(p, "PH")
    /\ Cool(p, "PH", m)
    /\ Write(p, "PH", m, "BOTH", FALSE)
    /\ UNCHANGED confirming
BayesianFomc(p, m, side) ==
    /\ Scans(p, "BF")
    /\ Write(p, "BF", m, side, FALSE)
    /\ UNCHANGED <<cooling, confirming>>

\* A pair of markets (m stands for it) is confirmed leg by leg, for the scan and for a
\* price update at once; its cool-down is looked at when the last leg has answered.
Candidate(p, m, who) ==
    /\ Scans(p, "LA") /\ looked[p] = NoLook /\ <<p, m, who>> \notin confirming
    /\ confirming' = confirming \union {<<p, m, who>>}
    /\ UNCHANGED <<table, jobs, cooling, looked, orders, rescan, resolver, world, left>>
Dropped(p, m, who) ==
    /\ <<p, m, who>> \in confirming /\ looked[p] = NoLook
    /\ confirming' = confirming \ {<<p, m, who>>}
    /\ UNCHANGED <<table, jobs, cooling, looked, orders, rescan, resolver, world, left>>
\* Mutant: a cool-down that began while the legs were confirmed is not looked at.
EmitAnyway(p, m, who) ==
    /\ <<p, m, who>> \in confirming
    /\ confirming' = confirming \ {<<p, m, who>>}
    /\ cooling' = [cooling EXCEPT ![p]["LA"] = @ \union {m}]
    /\ Write(p, "LA", m, "BOTH", TRUE)
Emit(p, m, who) ==
    /\ <<p, m, who>> \in confirming
    /\ confirming' = confirming \ {<<p, m, who>>}
    /\ Cool(p, "LA", m)
    /\ Write(p, "LA", m, "BOTH", TRUE)

\* The task that follows a signal. In live mode one that finds no other order calls
\* place_order with an argument it does not have, and dies there; so does one whose
\* lookup or commit failed.
LatePlaces(p, row) ==
    IF p \in Live /\ \E r \in Rows : /\ rows[r].market = row.market
                                    /\ rows[r].status \in {"live", "matched"}
    THEN "skipped" ELSE row.status
\* Mutant: a paper order counts as filled, a status that nothing looks for.
SnipePlacesFilled(p, row) == IF p \notin Live THEN "filled" ELSE row.status
SnipePlaces(p, row) ==
    IF p \notin Live THEN "paper"
    ELSE IF \E r \in Rows : /\ rows[r].strategy = "LS" /\ rows[r].market = row.market
                            /\ rows[r].status \in {"live", "matched"}
    THEN "skipped" ELSE row.status
OrderTask(p, r) ==
    /\ looked[p] = NoLook /\ <<p, r>> \in orders /\ orders' = orders \ {<<p, r>>}
    /\ \/ /\ rows[r] # NoRow
          /\ rows' = [rows EXCEPT ![r].status = IF rows[r].strategy = "LC"
                         THEN LatePlaces(p, rows[r]) ELSE SnipePlaces(p, rows[r])]
          /\ UNCHANGED left
       \/ rows[r] = NoRow /\ UNCHANGED <<rows, left>>
       \/ Spend("faults") /\ UNCHANGED rows
    /\ UNCHANGED <<nextRow, jobs, cooling, looked, confirming, rescan, resolver, world>>

Chilled(p, s, m) ==
    [r \in RowId |-> IF rows[r] # NoRow /\ rows[r].by = p /\ rows[r].strategy \in s
                       /\ rows[r].market \in m
                     THEN [rows[r] EXCEPT !.warm = FALSE] ELSE rows[r]]
CoolingEnds(p, s) ==
    /\ looked[p] = NoLook
    /\ \E m \in cooling[p][s] : /\ cooling' = [cooling EXCEPT ![p][s] = @ \ {m}]
                               /\ rows' = Chilled(p, {s}, {m})
    /\ UNCHANGED <<nextRow, jobs, looked, confirming, orders, rescan, resolver, world, left>>
-----------------------------------------------------------------------------
(* The resolver: jobs, redemptions, rows past their end.                     *)

\* The oldest job of the list read at the start of a round. One that another process
\* has taken meanwhile is passed over.
Pending == {j \in 1..MaxJob : jobs[j] = "pending"}
StartJob(p) ==
    /\ p \in Live /\ looked[p] = NoLook
    /\ \/ resolver[p] = Asleep /\ Pending # {}
       \/ resolver[p].at = "jobs" /\ resolver[p].queue # {}
    /\ LET queue == IF resolver[p] = Asleep THEN Pending ELSE resolver[p].queue IN
       \E j \in queue :
        /\ \A i \in queue : j <= i
        /\ \/ /\ jobs[j] = "pending" /\ jobs' = [jobs EXCEPT ![j] = "running"]
              /\ resolver' = [resolver EXCEPT ![p] =
                                [at |-> "job", job |-> j, queue |-> queue \ {j}]]
           \/ /\ jobs[j] # "pending" /\ UNCHANGED jobs
              /\ resolver' = [resolver EXCEPT ![p] = [at |-> "jobs", queue |-> queue \ {j}]]
    /\ UNCHANGED <<table, memory, world, left>>
\* The job cannot be marked: the others wait for the next round.
StartFails(p) ==
    /\ p \in Live /\ looked[p] = NoLook
    /\ \/ resolver[p] = Asleep /\ Pending # {}
       \/ resolver[p].at = "jobs" /\ resolver[p].queue # {}
    /\ Spend("faults")
    /\ resolver' = [resolver EXCEPT ![p] = [at |-> "jobs", queue |-> {}]]
    /\ UNCHANGED <<table, jobs, memory, world>>

\* Rows that a retry would order again. The first of them ends it: place_order does
\* not take the argument.
Retried ==
    {r \in Rows : /\ Open(r) /\ rows[r].status \in {"skipped", "failed"}
                  /\ rows[r].dated => rows[r].market \notin ended}
EndJob(p) ==
    /\ resolver[p].at = "job" /\ looked[p] = NoLook
    /\ \/ /\ jobs' = [jobs EXCEPT ![resolver[p].job] = IF Retried = {} THEN "done" ELSE "failed"]
          /\ resolver' = [resolver EXCEPT ![p] = [at |-> "jobs", queue |-> resolver[p].queue]]
          /\ UNCHANGED left
       \* the end cannot be written: not at all, or not as a success
       \/ /\ Spend("faults")
          /\ \/ /\ UNCHANGED jobs
                /\ resolver' = [resolver EXCEPT ![p] = [at |-> "jobs", queue |-> {}]]
             \/ /\ jobs' = [jobs EXCEPT ![resolver[p].job] = "failed"]
                /\ resolver' = [resolver EXCEPT ![p] = [at |-> "jobs", queue |-> resolver[p].queue]]
    /\ UNCHANGED <<table, memory, world>>

\* Mutant: rows whose order came to nothing are left alone.
PastEndOrdered ==
    {r \in Rows : /\ Open(r) /\ rows[r].dated /\ rows[r].market \in ended
                  /\ rows[r].status \notin {"failed", "skipped"}}
PastEnd == {r \in Rows : Open(r) /\ rows[r].dated /\ rows[r].market \in ended}
\* After the jobs: redeem_all_pending, which in live mode may start a rescan of LC as a
\* task of its own; then the rows past their end are read.
RedeemAndRead(p) ==
    /\ looked[p] = NoLook
    /\ \/ resolver[p] = Asleep /\ (p \in Live => Pending = {})
       \/ resolver[p].at = "jobs" /\ resolver[p].queue = {}
    /\ \/ rescan' = rescan
       \/ p \in Live /\ rescan' = rescan \union {p}
    /\ resolver' = [resolver EXCEPT ![p] =
           IF PastEnd = {} THEN Asleep
           ELSE [at |-> "ask", todo |-> [r \in PastEnd |-> rows[r].market], got |-> Nothing]]
    /\ UNCHANGED <<table, jobs, cooling, looked, confirming, orders, world, left>>
RescanEnds(p) ==
    /\ p \in rescan /\ looked[p] = NoLook /\ rescan' = rescan \ {p}
    /\ UNCHANGED <<table, jobs, cooling, looked, confirming, orders, resolver, world, left>>

\* The price of a market that is past its end: near 1 or 0 even before the result is
\* final, at times neither, or no answer.
Says(m) == IF final[m] = "open" THEN Outcome \union {"none"} ELSE {final[m], "none"}
Without(f, r) == [x \in DOMAIN f \ {r} |-> f[x]]
CheckResolution(p, r, answer) ==
    /\ resolver[p].at = "ask" /\ looked[p] = NoLook
    /\ r \in DOMAIN resolver[p].todo /\ answer \in Says(resolver[p].todo[r])
    /\ resolver' = [resolver EXCEPT ![p] =
           [at |-> "ask", todo |-> Without(@.todo, r),
            got |-> IF answer = "none" THEN @.got
                    ELSE [x \in DOMAIN @.got \union {r} |-> IF x = r THEN answer ELSE @.got[x]]]]
    /\ UNCHANGED <<table, jobs, memory, world, left>>

\* One commit for all rows. A row that was deleted meanwhile fails the commit or is
\* left out of it, which depends on how the driver counts rows.
Resolved(got) == [r \in RowId |-> IF r \in DOMAIN got /\ rows[r] # NoRow
                                  THEN [rows[r] EXCEPT !.outcome = got[r]] ELSE rows[r]]
CommitRows(p) ==
    /\ resolver[p].at = "ask" /\ DOMAIN resolver[p].todo = {} /\ looked[p] = NoLook
    /\ \/ rows' = Resolved(resolver[p].got) /\ UNCHANGED left
       \/ ~(DOMAIN resolver[p].got \subseteq Rows) /\ UNCHANGED <<rows, left>>
       \/ Spend("faults") /\ UNCHANGED rows
    /\ resolver' = [resolver EXCEPT ![p] = Asleep]
    /\ UNCHANGED <<nextRow, jobs, memory, world>>
-----------------------------------------------------------------------------
(* Users, markets, restarts.                                                 *)

\* The router of a process that is not live queues a job; a live one retries at once,
\* which changes nothing: it fails at the first row, or there is none.
EnqueueRetry(p) ==
    /\ p \notin Live /\ Spend("retries")
    /\ \E j \in 1..MaxJob :
        /\ jobs[j] = "none" /\ \A i \in 1..(j - 1) : jobs[i] # "none"
        /\ jobs' = [jobs EXCEPT ![j] = "pending"]
    /\ UNCHANGED <<table, memory, resolver, world>>

DeleteRows(gone) ==
    /\ gone # {} /\ Spend("resets")
    /\ rows' = [r \in RowId |-> IF r \in gone THEN NoRow ELSE rows[r]]
    /\ UNCHANGED <<nextRow, jobs, memory, resolver, world>>
ResetAll      == DeleteRows(Rows)
ResetResolved == DeleteRows({r \in Rows : ~Open(r)})
\* Rows with their price in a band that the caller chooses.
ResetBand     == \E band \in SUBSET Rows : DeleteRows(band)

End(m) ==
    /\ m \notin ended /\ ended' = ended \union {m}
    /\ UNCHANGED <<table, jobs, memory, resolver, final, left>>
Settle(m, o) ==
    /\ m \in ended /\ final[m] = "open" /\ final' = [final EXCEPT ![m] = o]
    /\ UNCHANGED <<table, jobs, memory, resolver, ended, left>>

Restart(p) ==
    /\ Spend("restarts")
    /\ cooling' = [cooling EXCEPT ![p] = [s \in Strategy |-> {}]]
    /\ rows' = Chilled(p, Strategy, Market)
    /\ looked' = [looked EXCEPT ![p] = NoLook]
    /\ confirming' = {c \in confirming : c[1] # p}
    /\ orders' = {t \in orders : t[1] # p}
    /\ rescan' = rescan \ {p}
    /\ resolver' = [resolver EXCEPT ![p] = Asleep]
    /\ UNCHANGED <<nextRow, jobs, world>>

Resolve(p) ==
    /\ Running(p)
    /\ \/ StartJob(p) \/ StartFails(p) \/ EndJob(p) \/ RedeemAndRead(p) \/ CommitRows(p)
       \/ \E r \in RowId, a \in Outcome \union {"none"} : CheckResolution(p, r, a)

Next ==
    \/ \E p \in left.up :
        \/ \E m \in left.listed :
            \/ PairHedge(p, m)
            \/ \E side \in Outcome :
                LateConvergence(p, m, side) \/ LatencySnipe(p, m, side) \/ BayesianFomc(p, m, side)
            \/ \E who \in {"scan", "update"} :
                Candidate(p, m, who) \/ Dropped(p, m, who) \/ Emit(p, m, who)
        \/ \E s \in Strategy : CoolingEnds(p, s)
        \/ SaveSignal(p) \/ SaveFails(p)
        \/ \E r \in RowId : OrderTask(p, r)
        \/ RescanEnds(p) \/ Resolve(p)
        \/ EnqueueRetry(p) \/ Restart(p)
    \/ ResetAll \/ ResetResolved \/ ResetBand
    \/ \E m \in left.listed : End(m) \/ \E o \in Outcome : Settle(m, o)

\* A process hears the final price of a market.
Told(p) == \E r \in Rows : CheckResolution(p, r, final[rows[r].market])

\* The loops of a process go on; a market that has its result is in the end priced so.
Fairness ==
    \A p \in Proc :
        /\ SF_vars(Resolve(p)) /\ WF_vars(SaveSignal(p) \/ SaveFails(p)) /\ SF_vars(Told(p))
Spec == Init /\ [][Next]_vars /\ Fairness
-----------------------------------------------------------------------------
Look  == [strategy : {"LC", "LS"}, market : Market, side : Outcome, blind : BOOLEAN]
\* Partial functions on the ids of rows.
Noted(S) == UNION {[found -> S] : found \in SUBSET RowId}
Stage == {Asleep} \union [at : {"jobs"}, queue : SUBSET (1..MaxJob)]
           \union [at : {"job"}, job : 1..MaxJob, queue : SUBSET (1..MaxJob)]
           \union [at : {"ask"}, todo : Noted(Market), got : Noted(Outcome)]
TypeOK ==
    /\ left \in Budget
    /\ rows \in [RowId -> Signal \union {NoRow}] /\ nextRow \in 1..(MaxRow + 1)
    /\ \A r \in RowId : r >= nextRow => rows[r] = NoRow
    /\ jobs \in [1..MaxJob -> {"none", "pending", "running", "done", "failed"}]
    /\ cooling \in [Proc -> [Strategy -> SUBSET Market]]
    /\ looked \in [Proc -> Look \union {NoLook}]
    /\ confirming \subseteq Proc \X Market \X {"scan", "update"}
    /\ orders \subseteq Proc \X RowId /\ rescan \subseteq Live
    /\ ended \subseteq Market /\ final \in [Market -> Outcome \union {"open"}]
    /\ resolver \in [Proc -> Stage]

\* Late convergence and latency snipe signal a side of a market a second time only when
\* no signal of it by this process is open, whatever was restarted between, unless the
\* lookup failed (late convergence takes up again what failed or was skipped); and all
\* but the FOMC model signal a market once in a cool-down, though scans and price
\* updates run side by side.
Blocks(r) == Open(r) /\ (rows[r].strategy = "LC" => rows[r].status \notin {"failed", "skipped"})
NoDoubleSignal ==
    \A r1, r2 \in Rows :
        (/\ r1 < r2 /\ rows[r1].strategy = rows[r2].strategy
         /\ rows[r1].market = rows[r2].market /\ rows[r1].by \in {rows[r2].by, "before"}) =>
            /\ (/\ Blocks(r1) /\ Blocks(r2) /\ rows[r1].side = rows[r2].side
                /\ rows[r1].strategy \in {"LC", "LS"}) => rows[r2].blind
            /\ ~(rows[r1].warm /\ rows[r2].warm)

\* A row whose market has a result is settled, or deleted, in the end: no restart, retry
\* or failed commit keeps it open for ever, whatever became of its order.
EndedGetResolved ==
    \A r \in RowId :
        (rows[r] # NoRow /\ rows[r].dated /\ final[rows[r].market] # "open")
            ~> (rows[r] = NoRow \/ ~Open(r))
=============================================================================
