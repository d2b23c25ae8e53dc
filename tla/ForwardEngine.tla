---------------------------- MODULE ForwardEngine ----------------------------
(***************************************************************************)
(* The forward-test engine of one strategy (BaseForwardTest and the live   *)
(* subclasses): the position it keeps in memory, the rows it keeps in the  *)
(* table forward_trades, and everything that may part the two: a commit    *)
(* that fails or whose acknowledgement is lost, a process restart, an      *)
(* operator who resets the table or forces a sync with the exchange.       *)
(*                                                                         *)
(* Prices are abstracted away: whether a tick exits, tightens the stop or  *)
(* enters is a free choice, the exit rules being modelled on their own in  *)
(* ExitRules. A stop is the number of times it was tightened. The tick is  *)
(* synchronous code, so it is one step. A crash inside a tick leaves the   *)
(* rows of a shorter tick followed by Restart, so it needs no action.      *)
(***************************************************************************)
EXTENDS Naturals, FiniteSets

CONSTANTS
    MaxTrade,           \* bound: rows ever inserted
    MaxLevel,           \* bound: how often a stop can be tightened
    MaxFaults,          \* bound: faults and operator overrides in a behaviour
    SameTickReentry,    \* a tick that closed may open again (not in oi_cvd_surge)
    DbFaults,           \* the database may fail or lose an acknowledgement
    OperatorActs        \* an operator may call reset_db and sync_from_binance

ASSUME MaxTradeAssumption == MaxTrade \in Nat
ASSUME MaxLevelAssumption == MaxLevel \in Nat
ASSUME MaxFaultsAssumption == MaxFaults \in Nat
ASSUME ModeAssumption ==
    SameTickReentry \in BOOLEAN /\ DbFaults \in BOOLEAN /\ OperatorActs \in BOOLEAN

VARIABLES
    position,   \* the in-memory position (self._position)
    rows,       \* the rows of this strategy in forward_trades
    nextId,     \* the primary key the next insert gets
    faults      \* history: events so far that can leave a row open with no owner

vars == <<position, rows, nextId, faults>>

Trade == 1..MaxTrade
NoId  == 0                  \* trade_id is None: the insert was not acknowledged
Level == 0..MaxLevel

Position == [held : BOOLEAN, id : Trade \cup {NoId}, level : Level]
Row      == [status : {"absent", "open", "closed"}, level : Level]

Flat     == [held |-> FALSE, id |-> NoId, level |-> 0]
NoRow    == [status |-> "absent", level |-> 0]

OpenRows(rs) == {t \in Trade : rs[t].status = "open"}

TypeOK ==
    /\ position \in Position
    /\ rows \in [Trade -> Row]
    /\ nextId \in 1..(MaxTrade + 1)
    /\ faults \in 0..MaxFaults

-----------------------------------------------------------------------------
(* The database helpers. Every one swallows its exceptions, so the caller  *)
(* cannot tell the outcomes apart but for the id it is given.              *)

\* "unacked": the row was committed but the engine never learns its id.
OpenOutcome  == IF DbFaults THEN {"ok", "lost", "unacked"} ELSE {"ok"}
WriteOutcome == IF DbFaults THEN {"ok", "lost"} ELSE {"ok"}

PersistOpen(rs, out) ==
    IF out = "lost" THEN rs
    ELSE [rs EXCEPT ![nextId] = [status |-> "open", level |-> 0]]

\* A faulty variant: the id is guessed as the one after the last, not read back.
PersistedIdOffByOne(out) == IF out = "ok" THEN nextId + 1 ELSE NoId

PersistedId(out) == IF out = "ok" THEN nextId ELSE NoId

\* Only an open row is closed, and it takes the final stop of the position.
PersistClose(rs, id, level, out) ==
    IF id = NoId \/ out = "lost" THEN rs
    ELSE [t \in Trade |->
            IF t = id /\ rs[t].status = "open"
            THEN [status |-> "closed", level |-> level]
            ELSE rs[t]]

PersistUpdate(rs, id, level, out) ==
    IF id = NoId \/ out = "lost" THEN rs
    ELSE [t \in Trade |->
            IF t = id /\ rs[t].status = "open" THEN [rs[t] EXCEPT !.level = level]
            ELSE rs[t]]

\* A faulty variant: the oldest open row is taken instead of the latest.
LoadOldest(rs) ==
    IF OpenRows(rs) = {} THEN Flat
    ELSE LET t == CHOOSE t \in OpenRows(rs) : \A u \in OpenRows(rs) : t <= u
         IN  [held |-> TRUE, id |-> t, level |-> rs[t].level]

\* The open row opened last becomes the position.
LoadOpen(rs) ==
    IF OpenRows(rs) = {} THEN Flat
    ELSE LET t == CHOOSE t \in OpenRows(rs) : \A u \in OpenRows(rs) : u <= t
         IN  [held |-> TRUE, id |-> t, level |-> rs[t].level]

\* How many unowned open rows a failed write to the row of id may leave.
Cost(id, out) == IF id # NoId /\ out = "lost" THEN 1 ELSE 0
OpenCost(out) == IF out = "unacked" THEN 1 ELSE 0

Fault(n) ==
    /\ faults + n <= MaxFaults
    /\ faults' = faults + n

-----------------------------------------------------------------------------
Init ==
    /\ position = Flat
    /\ rows = [t \in Trade |-> NoRow]
    /\ nextId = 1
    /\ faults = 0

\* A faulty variant: the guard "if self._position is None" is dropped.
EnterTickUnguarded(out) ==
    /\ nextId <= MaxTrade
    /\ Fault(OpenCost(out))
    /\ rows' = PersistOpen(rows, out)
    /\ nextId' = IF out = "lost" THEN nextId ELSE nextId + 1
    /\ position' = [held |-> TRUE, id |-> PersistedId(out), level |-> 0]

\* A tick with a signal while flat. The position is held even if its row is not.
EnterTick(out) ==
    /\ ~position.held
    /\ nextId <= MaxTrade
    /\ Fault(OpenCost(out))
    /\ rows' = PersistOpen(rows, out)
    /\ nextId' = IF out = "lost" THEN nextId ELSE nextId + 1
    /\ position' = [held |-> TRUE, id |-> PersistedId(out), level |-> 0]

\* A faulty variant: the memory is cleared but the row is never closed.
ExitTickUnsaved(l, out) ==
    /\ position.held
    /\ l >= position.level
    /\ Fault(Cost(position.id, out))
    /\ position' = Flat
    /\ UNCHANGED <<rows, nextId>>

\* The exit check fires. Memory goes flat whatever becomes of the row.
ExitTick(l, out) ==
    /\ position.held
    /\ l >= position.level
    /\ Fault(Cost(position.id, out))
    /\ rows' = PersistClose(rows, position.id, l, out)
    /\ position' = Flat
    /\ UNCHANGED nextId

\* The exit check fires and the signal of the same bar opens the next trade.
ReverseTick(l, closed, opened) ==
    /\ SameTickReentry
    /\ position.held
    /\ l >= position.level
    /\ nextId <= MaxTrade
    /\ Fault(Cost(position.id, closed) + OpenCost(opened))
    /\ rows' = PersistOpen(PersistClose(rows, position.id, l, closed), opened)
    /\ nextId' = IF opened = "lost" THEN nextId ELSE nextId + 1
    /\ position' = [held |-> TRUE, id |-> PersistedId(opened), level |-> 0]

\* A faulty variant: a copy is tightened and saved, the position itself is not.
TightenTickOnCopy(l, out) ==
    /\ position.held
    /\ l > position.level
    /\ rows' = PersistUpdate(rows, position.id, l, out)
    /\ UNCHANGED <<position, nextId, faults>>

\* No exit, but the take-profit advanced and pulled the stop along.
TightenTick(l, out) ==
    /\ position.held
    /\ l > position.level
    /\ position' = [position EXCEPT !.level = l]
    /\ rows' = PersistUpdate(rows, position.id, l, out)
    /\ UNCHANGED <<nextId, faults>>

\* A faulty variant: the constructor does not look for an open row.
RestartBlank(loaded) ==
    /\ Fault(IF loaded \/ position.id = NoId THEN 0 ELSE 1)
    /\ position' = Flat
    /\ UNCHANGED <<rows, nextId>>

\* A new process builds the engine; a failing load leaves it flat.
Restart(loaded) ==
    /\ Fault(IF loaded \/ position.id = NoId THEN 0 ELSE 1)
    /\ position' = IF loaded THEN LoadOpen(rows) ELSE Flat
    /\ UNCHANGED <<rows, nextId>>

\* reset_db; a symbol of another strategy deletes nothing, yet memory is cleared.
Reset(ownSymbol) ==
    /\ OperatorActs
    /\ Fault(IF ownSymbol \/ position.id = NoId THEN 0 ELSE 1)
    /\ rows' = IF ownSymbol THEN [t \in Trade |-> NoRow] ELSE rows
    /\ position' = Flat
    /\ UNCHANGED nextId

\* sync_from_binance found no position on the exchange: the row stays open.
SyncCleared ==
    /\ OperatorActs
    /\ position.held
    /\ Fault(IF position.id = NoId THEN 0 ELSE 1)
    /\ position' = Flat
    /\ UNCHANGED <<rows, nextId>>

\* It found one and an open row explains it.
SyncRestored ==
    /\ OperatorActs
    /\ OpenRows(rows) # {}
    /\ position' = LoadOpen(rows)
    /\ UNCHANGED <<rows, nextId, faults>>

\* It found one no row explains, or the rows could not be read: no id, no stop.
SyncInjected(loaded) ==
    /\ OperatorActs
    /\ loaded => OpenRows(rows) = {}
    /\ Fault(IF position.id = NoId THEN 0 ELSE 1)
    /\ position' = [held |-> TRUE, id |-> NoId, level |-> 0]
    /\ UNCHANGED <<rows, nextId>>

Readable == IF DbFaults THEN BOOLEAN ELSE {TRUE}

Next ==
    \/ \E out \in OpenOutcome : EnterTick(out)
    \/ \E l \in Level, out \in WriteOutcome : ExitTick(l, out)
    \/ \E l \in Level, out \in WriteOutcome, opened \in OpenOutcome :
            ReverseTick(l, out, opened)
    \/ \E l \in Level, out \in WriteOutcome : TightenTick(l, out)
    \/ \E loaded \in Readable : Restart(loaded)
    \/ \E own \in BOOLEAN : Reset(own)
    \/ SyncCleared
    \/ SyncRestored
    \/ \E loaded \in Readable : SyncInjected(loaded)

Spec == Init /\ [][Next]_vars

-----------------------------------------------------------------------------
\* Whatever failed before, if the position has a row then a restart that can
\* read the table brings back that very trade, and none of the rows that earlier
\* faults left open (_load_open_from_db picks the latest).
RestartRecoversHeldTrade ==
    position.id # NoId => LoadOpen(rows).id = position.id

\* Rows that are open though the engine does not hold them. A restart may take
\* one of them up as its position long after its trade was closed.
Strays == OpenRows(rows) \ {position.id}

\* Every such row is the work of a fault of its own: a close that was not
\* committed, an open that was not acknowledged, a restart that could not read,
\* or an operator's sync or reset. Entering, reversing and restarting make none.
StraysBounded == Cardinality(Strays) <= faults

\* The stop in the row is never tighter than the one in memory, so a restart
\* may loosen the stop of a trade (a lost update) but not stop it out at once.
RowStopNeverTighter ==
    position.id # NoId => rows[position.id].level <= position.level

\* While the database answers and no operator interferes, memory and table agree:
\* the held position, its stop included, is the one open row.
MemoryMatchesRow ==
    IF position.held
    THEN /\ position.id # NoId
         /\ OpenRows(rows) = {position.id}
         /\ rows[position.id].level = position.level
    ELSE OpenRows(rows) = {}

\* Then the engine keeps the promises of ForwardTrades, across restarts as well.
Trades == INSTANCE ForwardTrades WITH
    status <- [t \in Trade |-> rows[t].status],
    stop   <- [t \in Trade |-> rows[t].level]
ImplementsTrades == Trades!Spec
=============================================================================
