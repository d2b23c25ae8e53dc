----------------------------- MODULE FadeEngine -----------------------------
(***************************************************************************)
(* The Polymarket fade engine: the tasks that read prices ("ws", the       *)
(* websocket callbacks, and "sweep", the periodic loop) enter, add to and  *)
(* close positions; the ledger rows are in the database, the slots, the    *)
(* cool-downs and the locks in memory; the orders go through a relay to an *)
(* exchange that may fill one without the engine hearing of it.  A user    *)
(* edits the watch list and force-closes rows; the screener edits the list *)
(* too.                                                                    *)
(*                                                                         *)
(* Money and shares are counted in units of the smallest order, one share  *)
(* per unit: prices, and with them every test on a price, are choices.     *)
(* Between two awaits a task runs alone, so an action is the code from one *)
(* answer to the next request.                                             *)
(***************************************************************************)
EXTENDS Integers, Sequences, FiniteSets, FiniteSetsExt, SequencesExt

CONSTANTS Market,       \* condition ids
          Limit,        \* max_concurrent
          Funds,        \* money at the start
          MaxAddOns,    \* addon_max_count, 0 without addon_enabled
          Replace, RaiseCash,   \* replace_enabled, raise_cash_enabled
          Bounds    \* bounds on the events of a behaviour, by kind: one of them holds

ASSUME FadeAssumption ==
    /\ IsFiniteSet(Market) /\ Limit \in Nat \ {0} /\ Funds \in Nat /\ MaxAddOns \in Nat
    /\ {Replace, RaiseCash} \subseteq BOOLEAN
    /\ Bounds \subseteq [{"signals", "adds", "faults", "restarts", "screens", "edits"} -> Nat]

VARIABLES rows,        \* PolymarketFadePosition: [m, sh, legs, open]
          watch,       \* PolymarketFadeWatch.status of each market, "none" without a row
          manual,      \* the markets of watchlist.yaml
          openCids, yesMap, cooling, inflight, fails,  \* memory of the engine
          lock,        \* _entry_lock: its holder, then the tasks that wait
          job,         \* what each task is doing
          stage, todo, screen,   \* the sweep loop, what is left of its step, its screening
          wallet, cash, resting, \* the account at the exchange
          excused,     \* history: markets whose books may differ, for a known cause
          left, seen   \* what is left of the bounds, the kinds of events that happened

ledger == <<rows, watch, manual>>
memory == <<openCids, yesMap, cooling, inflight, fails>>
sweepVars == <<stage, todo, screen>>
account == <<wallet, cash, resting>>
bounds == <<left, seen>>
vars == <<ledger, memory, lock, job, sweepVars, account, excused, bounds>>

Actor == {"ws", "sweep"}
SellFailMax == 3

(* What a task is doing: the spike of market m it follows; the row an add-on *)
(* adds to (0: a new entry); the candidates of a cash sale and what they     *)
(* raised so far; the row it closes, its shares as they were read and what   *)
(* follows; the order at the exchange.                                       *)
Idle == [at |-> "idle", m |-> "none", leg |-> 0, cands |-> {}, got |-> 0,
         row |-> 0, sh |-> 0, then |-> "none", order |-> "none", x |-> "none", qty |-> 0]

(* the open rows of a market, in the table rs *)
OpenIn(rs, m) == {i \in DOMAIN rs : rs[i].m = m /\ rs[i].open}
OpenRows(m) == OpenIn(rows, m)

OpenMarkets == {m \in Market : OpenRows(m) # {}}

Included == {m \in Market : watch[m] = "included"}

(* _open_position: the first open row *)
OpenPosition(rs, m) == Min(OpenIn(rs, m))

Init ==
    /\ rows = <<>> /\ watch \in [Market -> {"included", "dropped"}] /\ manual = {}
    /\ openCids = {} /\ yesMap = Included /\ cooling = {} /\ inflight = {}
    /\ fails = [m \in Market |-> 0]
    /\ lock = <<>> /\ job = [a \in Actor |-> Idle]
    /\ stage = "sleep" /\ todo = {} /\ screen = {}
    /\ wallet = [m \in Market |-> 0] /\ cash = Funds /\ resting = <<>>
    /\ excused = {}
    /\ left \in Bounds /\ seen = {}

Spend(k) == left[k] > 0 /\ left' = [left EXCEPT ![k] = @ - 1] /\ seen' = seen \cup {k}

-----------------------------------------------------------------------------
(* The steps a task goes to next. *)

Goto(a, j) == job' = [job EXCEPT ![a] = j]

(* faulty variant: the lock is kept *)
FinishKeepsLock(a) == Goto(a, Idle) /\ UNCHANGED lock

(* the task is done, and lets go of the lock if it held it *)
Finish(a) ==
    /\ Goto(a, Idle)
    /\ lock' = IF lock # <<>> /\ Head(lock) = a THEN Tail(lock) ELSE lock

Signal(m, leg) == [Idle EXCEPT !.at = "lock", !.m = m, !.leg = leg]

MayAdd(rs, m) == OpenIn(rs, m) # {} /\ rs[OpenPosition(rs, m)].legs < MaxAddOns

(* with _entry_lock held: the balance is asked for; an add-on reads its row *)
(* again before, in the table as it is by then                              *)
Locked(a, j, rs) ==
    IF j.leg > 0 /\ ~MayAdd(rs, j.m) THEN Finish(a)
    ELSE /\ Goto(a, [j EXCEPT !.at = "balance",
                              !.leg = IF j.leg > 0 THEN OpenPosition(rs, j.m) ELSE 0])
         /\ lock' = IF lock = <<>> THEN <<a>> ELSE lock

(* faulty variant: no lock *)
EnterUnlocked(a, j, rs) == Locked(a, j, rs)

(* async with _entry_lock *)
Enter(a, j, rs) ==
    IF lock = <<>> THEN Locked(a, j, rs) ELSE Goto(a, j) /\ lock' = Append(lock, a)

(* _close_position is given a row as it was read *)
Close(a, j, i, sh, then) ==
    Goto(a, [Signal(j.m, j.leg) EXCEPT !.at = "look", !.cands = j.cands, !.got = j.got,
                                       !.row = i, !.sh = sh, !.then = then])

Send(a, j, order, x, qty) ==
    Goto(a, [j EXCEPT !.at = "order", !.order = order, !.x = x, !.qty = qty])

(* the loop of _raise_cash: it ends with the balance read again, or with no *)
(* entry when nothing was sold                                              *)
AfterSale(a, j) ==
    \/ j.got = 0 /\ j.cands = {} /\ Finish(a) /\ UNCHANGED inflight
    \/ /\ j.got > 0
       /\ Goto(a, [Signal(j.m, j.leg) EXCEPT !.at = "rebalance"])
       /\ UNCHANGED <<lock, inflight>>
    \/ \E c \in j.cands :
          /\ Send(a, [Signal(j.m, j.leg) EXCEPT !.got = j.got, !.cands = j.cands \ {c}],
                  "cash", c[1], c[2])
          /\ inflight' = inflight \cup {c[1]}
          /\ UNCHANGED lock

(* what follows _close_position, oc being the open markets it leaves *)
AfterClose(a, j, oc) ==
    LET m == rows[j.row].m IN
    \/ j.then = "cash" /\ AfterSale(a, j)
    \/ j.then = "slot" /\ m \notin oc /\ Enter(a, Signal(j.m, 0), rows') /\ UNCHANGED inflight
    \/ /\ j.then = "tick" /\ m \in oc /\ rows[j.row].legs < MaxAddOns /\ left.adds > 0
       /\ Enter(a, Signal(m, j.row), rows') /\ UNCHANGED inflight
    \/ /\ j.then \in {"tick", "timeout"} \/ (j.then = "slot" /\ m \in oc)
       /\ Finish(a) /\ UNCHANGED inflight

-----------------------------------------------------------------------------
(* A price of m arrives: _on_update. *)

CheckExit(a, m) ==
    /\ m \in openCids /\ OpenRows(m) # {}
    /\ LET i == OpenPosition(rows, m) IN Close(a, Signal(m, 0), i, rows[i].sh, "tick")
    /\ UNCHANGED <<lock, bounds>>

TriggerAddOn(a, m) ==
    /\ m \in openCids /\ MayAdd(rows, m)
    /\ Enter(a, Signal(m, OpenPosition(rows, m)), rows)
    /\ left.adds > 0 /\ UNCHANGED bounds

HasFreeSlot == Cardinality(openCids) < Limit

TriggerEntry(a, m) ==
    /\ m \notin openCids \cup cooling
    /\ Spend("signals")
    /\ \/ HasFreeSlot /\ Enter(a, Signal(m, 0), rows)
       \/ /\ ~HasFreeSlot /\ Replace
          /\ \E v \in openCids \cap yesMap :
                /\ OpenRows(v) # {}
                /\ LET i == OpenPosition(rows, v) IN Close(a, Signal(m, 0), i, rows[i].sh, "slot")
          /\ UNCHANGED lock

OnUpdate(a, m) ==
    /\ job[a] = Idle /\ m \in yesMap
    /\ IF a = "ws" THEN UNCHANGED todo
       ELSE stage = "poll" /\ m \in todo /\ todo' = todo \ {m}
    /\ \/ CheckExit(a, m)
       \/ TriggerAddOn(a, m)
       \/ TriggerEntry(a, m)
       \/ a = "sweep" /\ UNCHANGED <<job, lock, bounds>>
    /\ UNCHANGED <<ledger, memory, stage, screen, account, excused>>

Acquire(a) ==
    /\ job[a].at = "lock" /\ lock # <<>> /\ Head(lock) = a
    /\ Locked(a, job[a], rows)
    /\ UNCHANGED <<ledger, memory, sweepVars, account, excused, bounds>>

-----------------------------------------------------------------------------
(* An entry or an add-on, under the lock: _size_for_entry, _raise_cash. *)

SizeOf(bal) == bal \div Max({1, Limit - Cardinality(openCids)})

(* _fill_price may find no price good enough *)
Buy(a, size) ==
    \/ Finish(a)
    \/ Send(a, Signal(job[a].m, job[a].leg), "buy", job[a].m, size) /\ UNCHANGED lock

(* the balance is unknown when the relay does not answer: order_size_usd *)
ReadBalance(a) ==
    /\ job[a].at = "balance"
    /\ \/ Spend("faults") /\ Buy(a, 1)
       \/ /\ IF SizeOf(cash) > 0 THEN Buy(a, SizeOf(cash))
             ELSE IF RaiseCash /\ cash = 0
                  THEN Goto(a, [job[a] EXCEPT !.at = "held"]) /\ UNCHANGED lock
                  ELSE Finish(a)
          /\ UNCHANGED bounds
    /\ UNCHANGED <<ledger, memory, sweepVars, account, excused>>

(* the positions of the wallet that may be sold for it; an add-on excludes none *)
Candidates(j) ==
    {<<x, wallet[x]>> : x \in {y \in Market : /\ wallet[y] > 0
                                              /\ y \notin inflight
                                              /\ fails[y] < SellFailMax
                                              /\ j.leg > 0 \/ y # j.m}}

ReadHeld(a) ==
    /\ job[a].at = "held"
    /\ \/ Spend("faults") /\ Finish(a) /\ UNCHANGED inflight
       \/ AfterSale(a, [job[a] EXCEPT !.cands = Candidates(job[a])]) /\ UNCHANGED bounds
    /\ UNCHANGED <<ledger, openCids, yesMap, cooling, fails, sweepVars, account, excused>>

ReadBalanceAgain(a) ==
    /\ job[a].at = "rebalance"
    /\ \/ Spend("faults") /\ Finish(a)
       \/ /\ IF SizeOf(cash) > 0 THEN Buy(a, SizeOf(cash)) ELSE Finish(a)
          /\ UNCHANGED bounds
    /\ UNCHANGED <<ledger, memory, sweepVars, account, excused>>

Replied(a, at, order) == job[a].at = at /\ job[a].order = order

(* _open_new_position, _apply_addon: the row is written, or the commit fails *)
Bought(a) ==
    LET j == job[a] IN
    /\ Replied(a, "filled", "buy") /\ Finish(a)
    /\ \/ /\ j.leg = 0
          /\ rows' = Append(rows, [m |-> j.m, sh |-> j.qty, legs |-> 0, open |-> TRUE])
          /\ openCids' = openCids \cup {j.m}
          /\ excused' = IF OpenRows(j.m) = {} THEN excused ELSE excused \cup {j.m}
          /\ UNCHANGED bounds
       \/ /\ j.leg > 0 /\ rows[j.leg].open /\ Spend("adds")
          /\ rows' = [rows EXCEPT ![j.leg].sh = @ + j.qty, ![j.leg].legs = @ + 1]
          /\ UNCHANGED <<openCids, excused>>
       \/ /\ IF j.leg > 0 /\ ~rows[j.leg].open THEN UNCHANGED bounds ELSE Spend("faults")
          /\ excused' = excused \cup {j.m}
          /\ UNCHANGED <<rows, openCids>>
    /\ UNCHANGED <<watch, manual, yesMap, cooling, inflight, fails, sweepVars, account>>

(* faulty variant: an order that rests in the book counts as a position *)
RecordUnfilled(a) ==
    LET j == job[a] IN
    /\ Replied(a, "refused", "buy") /\ Finish(a)
    /\ rows' = Append(rows, [m |-> j.m, sh |-> j.qty, legs |-> 0, open |-> TRUE])
    /\ openCids' = openCids \cup {j.m}
    /\ UNCHANGED <<watch, manual, yesMap, cooling, inflight, fails, sweepVars, account, excused, bounds>>

NotBought(a) ==
    /\ Replied(a, "refused", "buy") /\ Finish(a)
    /\ UNCHANGED <<ledger, memory, sweepVars, account, excused, bounds>>

CashSold(a) ==
    LET x == job[a].x  j == [job[a] EXCEPT !.got = @ + job[a].qty] IN
    /\ Replied(a, "filled", "cash")
    /\ fails' = [fails EXCEPT ![x] = 0] /\ cooling' = cooling \cup {x}
    /\ IF OpenRows(x) # {}
       THEN /\ LET i == OpenPosition(rows, x) IN Close(a, j, i, rows[i].sh, "cash")
            /\ UNCHANGED <<openCids, inflight, lock>>
       ELSE openCids' = openCids \ {x} /\ AfterSale(a, j)
    /\ UNCHANGED <<ledger, yesMap, sweepVars, account, excused, bounds>>

CashUnsold(a) ==
    /\ Replied(a, "refused", "cash")
    /\ fails' = [fails EXCEPT ![job[a].x] = @ + 1]
    /\ AfterSale(a, job[a])
    /\ UNCHANGED <<ledger, openCids, yesMap, cooling, sweepVars, account, excused, bounds>>

-----------------------------------------------------------------------------
(* An exit: _close_position. *)

(* _mark_orphan: no shares in the wallet, the row is closed without a result *)
Orphan(a, j) ==
    /\ wallet[rows[j.row].m] = 0
    /\ rows' = [rows EXCEPT ![j.row].open = FALSE]
    /\ openCids' = {rows[i].m : i \in {k \in DOMAIN rows : rows'[k].open}}
    /\ AfterClose(a, j, openCids')
    /\ UNCHANGED <<cooling, excused, bounds>>

(* the row stays as it is *)
Keep(a, j) ==
    /\ UNCHANGED <<rows, openCids, cooling>>
    /\ AfterClose(a, j, openCids)
    /\ excused' = IF j.then = "cash" /\ rows[j.row].open
                  THEN excused \cup {rows[j.row].m} ELSE excused

(* the wallet is read (or cannot be), and the sale sent, unless it would    *)
(* close at a loss a position that reached its target                       *)
Look(a) ==
    LET j == job[a]  held == wallet[rows[j.row].m]
        sell(qty) == /\ Send(a, j, "exit", rows[j.row].m, qty)
                     /\ UNCHANGED <<rows, openCids, cooling, inflight, lock, excused>>
    IN  /\ j.at = "look"
        /\ \/ Spend("faults") /\ sell(j.sh)
           \/ Orphan(a, j)
           \/ held > 0 /\ sell(Min({held, j.sh})) /\ UNCHANGED bounds
           \/ held > 0 /\ j.then = "tick" /\ Keep(a, j) /\ UNCHANGED bounds
        /\ UNCHANGED <<watch, manual, yesMap, fails, sweepVars, account>>

Exited(a) ==
    LET j == job[a]  m == rows[j.row].m IN
    /\ Replied(a, "filled", "exit")
    /\ \/ /\ rows[j.row].open
          /\ rows' = [rows EXCEPT ![j.row].open = FALSE]
          /\ openCids' = openCids \ {m} /\ cooling' = cooling \cup {m}
          /\ excused' = IF rows[j.row].sh = j.sh THEN excused ELSE excused \cup {m}
          /\ AfterClose(a, j, openCids') /\ UNCHANGED bounds
       \/ /\ rows[j.row].open /\ Spend("faults")
          /\ excused' = excused \cup {m}
          /\ UNCHANGED <<rows, openCids, cooling>> /\ AfterClose(a, j, openCids)
       \/ ~rows[j.row].open /\ Keep(a, j) /\ UNCHANGED bounds
    /\ UNCHANGED <<watch, manual, yesMap, fails, sweepVars, account>>

(* refused: the wallet is read once more *)
NotExited(a) ==
    LET j == job[a] IN
    /\ Replied(a, "refused", "exit")
    /\ \/ Orphan(a, j)
       \/ wallet[rows[j.row].m] > 0 /\ Keep(a, j) /\ UNCHANGED bounds
       \/ Spend("faults") /\ Keep(a, j)
    /\ UNCHANGED <<watch, manual, yesMap, fails, sweepVars, account>>

-----------------------------------------------------------------------------
(* The exchange, behind the relay. *)

CanFill(o) == IF o.order = "buy" THEN o.qty <= cash ELSE o.qty <= wallet[o.x]

Fill(o) ==
    LET d == IF o.order = "buy" THEN o.qty ELSE -o.qty IN
    CanFill(o) /\ cash' = cash - d /\ wallet' = [wallet EXCEPT ![o.x] = @ + d]

OrderOf(j) == [order |-> j.order, x |-> j.x, qty |-> j.qty]

Match(a) ==
    /\ job[a].at = "order" /\ Fill(OrderOf(job[a]))
    /\ Goto(a, [job[a] EXCEPT !.at = "filled"])
    /\ UNCHANGED <<ledger, memory, lock, sweepVars, resting, excused, bounds>>

Refuse(a) ==
    /\ job[a].at = "order" /\ Goto(a, [job[a] EXCEPT !.at = "refused"])
    /\ UNCHANGED <<ledger, memory, lock, sweepVars, account, excused, bounds>>

(* the order stays in the book ("live"), or the relay's answer is lost *)
Strand(a) ==
    /\ job[a].at = "order" /\ Goto(a, [job[a] EXCEPT !.at = "refused"])
    /\ Spend("faults")
    /\ resting' = Append(resting, OrderOf(job[a]))
    /\ UNCHANGED <<ledger, memory, lock, sweepVars, wallet, cash, excused>>

RestingFills(i) ==
    /\ Fill(resting[i])
    /\ resting' = RemoveAt(resting, i)
    /\ excused' = excused \cup {resting[i].x}
    /\ UNCHANGED <<ledger, memory, lock, job, sweepVars, bounds>>

-----------------------------------------------------------------------------
(* The sweep loop, and the screener in it. *)

SweepIdle(s) == job["sweep"] = Idle /\ stage = s

(* _refresh_subscriptions *)
Subscribe(w) ==
    LET included == {m \in Market : w[m] = "included"} IN
    yesMap' = included /\ todo' = included /\ stage' = "poll"

BeginSweep ==
    /\ SweepIdle("sleep") /\ openCids' = OpenMarkets
    /\ \/ Subscribe(watch) /\ UNCHANGED <<watch, bounds>>
       \/ stage' = "enumerate" /\ Spend("screens") /\ UNCHANGED <<watch, yesMap, todo>>
    /\ UNCHANGED <<rows, manual, cooling, inflight, fails, lock, job, screen, account, excused>>

(* run_screen: what it knows when it asks for the curves ... *)
Enumerate ==
    /\ SweepIdle("enumerate")
    /\ \E band \in SUBSET Market :
          screen' = [band |-> band, manual |-> manual, open |-> OpenMarkets,
                     verify |-> {m \in band \ manual : watch[m] \in {"none", "dropped"}}]
    /\ stage' = "curves"
    /\ UNCHANGED <<ledger, memory, lock, job, todo, account, excused, bounds>>

(* faulty variant: excluded markets are included too *)
IncludeAll(passed, w) ==
    [m \in Market |-> IF m \in passed THEN "included" ELSE w[m]]

(* ... _include for the markets that passed, on the rows as they are then ... *)
Include(passed, w) ==
    [m \in Market |-> IF m \in passed /\ w[m] \in {"none", "dropped"} THEN "included" ELSE w[m]]

(* ... and _drop_out_of_band *)
DropOutOfBand(w) ==
    [m \in Market |-> IF w[m] = "included" /\ m \notin screen.manual \cup screen.band \cup screen.open
                      THEN "dropped" ELSE w[m]]

ApplyScreen ==
    /\ SweepIdle("curves")
    /\ \E passed \in SUBSET screen.verify :
          LET w == DropOutOfBand(Include(passed, watch)) IN watch' = w /\ Subscribe(w)
    /\ screen' = {}
    /\ UNCHANGED <<rows, manual, openCids, cooling, inflight, fails, lock, job, account, excused, bounds>>

(* run_screen raised: the watch list is kept *)
ScreenFails ==
    /\ stage \in {"enumerate", "curves"}
    /\ Subscribe(watch) /\ screen' = {}
    /\ UNCHANGED <<ledger, openCids, cooling, inflight, fails, lock, job, account, excused, bounds>>

BeginTimeouts ==
    /\ SweepIdle("poll") /\ todo = {}
    /\ stage' = "timeouts" /\ todo' = {<<i, rows[i].sh>> : i \in {k \in DOMAIN rows : rows[k].open}}
    /\ UNCHANGED <<ledger, memory, lock, job, screen, account, excused, bounds>>

(* _timeout_sweep: the next of the rows that were open, its time up or not *)
SweepRow ==
    /\ SweepIdle("timeouts")
    /\ \E c \in todo :
          /\ todo' = todo \ {c}
          /\ \/ Close("sweep", Signal(rows[c[1]].m, 0), c[1], c[2], "timeout")
             \/ UNCHANGED job
    /\ UNCHANGED <<ledger, memory, lock, stage, screen, account, excused, bounds>>

EndSweep ==
    /\ SweepIdle("timeouts") /\ todo = {} /\ stage' = "sleep"
    /\ UNCHANGED <<ledger, memory, lock, job, todo, screen, account, excused, bounds>>

-----------------------------------------------------------------------------
(* The user, time, and restarts. *)

(* the router's three edits of the watch list, in the table and in the yaml *)
Edited == UNCHANGED <<rows, memory, lock, job, sweepVars, account, excused>>

AddMarket(m) ==
    /\ Spend("edits") /\ watch' = [watch EXCEPT ![m] = "included"]
    /\ manual' = manual \cup {m} /\ Edited

SetStatus(m) ==
    /\ Spend("edits") /\ watch[m] # "none"
    /\ \E s \in {"included", "excluded"} : watch' = [watch EXCEPT ![m] = s]
    /\ manual' = manual \cup {m} /\ Edited

DeleteMarket(m) ==
    /\ Spend("edits") /\ watch' = [watch EXCEPT ![m] = "none"]
    /\ manual' = manual \ {m} /\ Edited

ForceClose(m) ==
    /\ Spend("edits") /\ OpenRows(m) # {}
    /\ rows' = [rows EXCEPT ![OpenPosition(rows, m)].open = FALSE]
    /\ openCids' = openCids \ {m}
    /\ excused' = excused \cup {m}
    /\ UNCHANGED <<watch, manual, yesMap, cooling, inflight, fails, lock, job, sweepVars, account>>

(* the six hours of the cool-down outlast every step under way *)
CoolingEnds(m) ==
    /\ m \in cooling /\ SweepIdle("sleep") /\ job["ws"] = Idle /\ openCids = OpenMarkets
    /\ cooling' = cooling \ {m}
    /\ UNCHANGED <<ledger, openCids, yesMap, inflight, fails, lock, job, sweepVars, account, excused, bounds>>

(* the two minutes of _sell_inflight outlast the relay's time limit *)
InflightEnds(m) ==
    /\ m \in inflight
    /\ \A a \in Actor : ~(job[a].at = "order" /\ job[a].order = "cash" /\ job[a].x = m)
    /\ inflight' = inflight \ {m}
    /\ UNCHANGED <<ledger, openCids, yesMap, cooling, fails, lock, job, sweepVars, account, excused, bounds>>

(* a cash sale was made and its row is not closed yet *)
CashClose(a) == job[a].then = "cash"

(* an order under way may still be filled *)
Sent(a) == IF job[a].at = "order" THEN <<OrderOf(job[a])>> ELSE <<>>

(* the answers to orders under way are heard by nobody *)
Restart ==
    /\ Spend("restarts")
    /\ openCids' = OpenMarkets /\ yesMap' = Included
    /\ cooling' = {} /\ inflight' = {} /\ fails' = [m \in Market |-> 0]
    /\ lock' = <<>> /\ job' = [a \in Actor |-> Idle]
    /\ stage' = "sleep" /\ todo' = {} /\ screen' = {}
    /\ resting' = resting \o Sent("ws") \o Sent("sweep")
    /\ excused' = excused \cup {job[a].x : a \in {b \in Actor : job[b].at = "filled"}}
                          \cup {rows[job[a].row].m : a \in {b \in Actor : CashClose(b)}}
    /\ UNCHANGED <<ledger, wallet, cash>>

Handle(a) ==
    \/ Acquire(a) \/ ReadBalance(a) \/ ReadHeld(a) \/ ReadBalanceAgain(a)
    \/ Bought(a) \/ NotBought(a) \/ CashSold(a) \/ CashUnsold(a)
    \/ Look(a) \/ Exited(a) \/ NotExited(a)

Sweep == BeginSweep \/ Enumerate \/ ApplyScreen \/ ScreenFails \/ BeginTimeouts \/ SweepRow \/ EndSweep

Next ==
    \/ \E a \in Actor : \/ \E m \in Market : OnUpdate(a, m)
                        \/ Handle(a) \/ Match(a) \/ Refuse(a) \/ Strand(a)
    \/ \E i \in DOMAIN resting : RestingFills(i)
    \/ Sweep
    \/ \E m \in Market : \/ AddMarket(m) \/ SetStatus(m) \/ DeleteMarket(m)
                          \/ ForceClose(m) \/ CoolingEnds(m) \/ InflightEnds(m)
    \/ Restart

Spec == Init /\ [][Next]_vars

-----------------------------------------------------------------------------
Row == [m : Market, sh : Nat \ {0}, legs : 0..MaxAddOns, open : BOOLEAN]

Order == [order : {"buy", "cash", "exit"}, x : Market, qty : Nat \ {0}]

JobType ==
    [at : {"idle", "lock", "balance", "held", "rebalance", "look", "order", "filled", "refused"},
     m : Market \cup {"none"}, leg : Nat, cands : SUBSET (Market \X (Nat \ {0})), got : Nat,
     row : Nat, sh : Nat, then : {"none", "tick", "slot", "timeout", "cash"},
     order : {"none", "buy", "cash", "exit"}, x : Market \cup {"none"}, qty : Nat]

TypeOK ==
    /\ rows \in Seq(Row)
    /\ watch \in [Market -> {"none", "included", "excluded", "dropped"}]
    /\ {manual, openCids, yesMap, cooling, inflight, excused} \subseteq SUBSET Market
    /\ fails \in [Market -> 0..SellFailMax]
    /\ \/ lock = <<>>
       \/ \E a \in Actor : lock = <<a>>
       \/ \E a, b \in Actor : a # b /\ lock = <<a, b>>
    /\ job \in [Actor -> JobType]
    /\ stage \in {"sleep", "enumerate", "curves", "poll", "timeouts"}
    /\ wallet \in [Market -> Nat] /\ cash \in Nat
    /\ resting \in Seq(Order)
    /\ left \in [{"signals", "adds", "faults", "restarts", "screens", "edits"} -> Nat]

(* an order for m was filled and its answer is not handled yet, or a cash *)
(* sale of m is about to close the row                                     *)
Unsettled(m) ==
    \E a \in Actor : \/ job[a].at = "filled" /\ job[a].x = m
                     \/ CashClose(a) /\ rows[job[a].row].m = m

(* The wallet holds the shares of the one open row of a market, or none     *)
(* without an open row, unless                                              *)
(* an answer is pending or the market went through one of the causes the    *)
(* actions record: an order filled unheard, a commit that failed, a restart *)
(* between a fill and its row, an add-on whose row was closed meanwhile, a  *)
(* second row for the market, a forced close, a cash sale whose row could   *)
(* not be closed.                                                           *)
BooksAgree ==
    \A m \in Market :
        \/ m \in excused \/ Unsettled(m)
        \/ OpenRows(m) = {} /\ wallet[m] = 0
        \/ \E i \in OpenRows(m) : OpenRows(m) = {i} /\ rows[i].sh = wallet[m]

(* The lock's promise (no double spending): an order sized from the balance *)
(* is covered by the cash until it is answered.  Orders that rest in the    *)
(* book, and the fixed size of an unknown balance, are outside it.          *)
OrdersAreFunded ==
    {"faults", "restarts"} \cap seen = {} =>
        \A a \in Actor : Replied(a, "order", "buy") => job[a].qty <= cash

(* What the engine owns is what its rows say, and what it spends it has. *)
MoneyAccounted == BooksAgree /\ OrdersAreFunded

(* "a market with an open position is never dropped, or the exit logic     *)
(* would never see the position again" (screener.py)                       *)
OpenIsWatched ==
    "edits" \notin seen => OpenMarkets \subseteq Included

(* The screener and restarts never lift a user's exclusion. *)
UserExclusionStands ==
    [][\A m \in Market : watch[m] = "excluded" /\ watch'[m] # "excluded" =>
          left'.edits < left.edits]_vars
=============================================================================
