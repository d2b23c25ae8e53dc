------------------------------ MODULE GammaWall ------------------------------
(***************************************************************************)
(* The gamma wall ledger of us_options_gamma_wall and the tables it feeds  *)
(* on: option snapshots that the collector stores in the evening, pending  *)
(* until a run has folded them into the ledger, and daily bars by which a  *)
(* run scores the session before. Each process runs a collector, runs of   *)
(* the ledger, and a clean-up at its start; a deployment has an old and a  *)
(* new process side by side for a while.                                   *)
(*                                                                         *)
(* A day has three parts: "night", until 13:00 UTC, "trading", and         *)
(* "evening", after the close. What stands in a snapshot is abstracted to  *)
(* what a run makes of it: walls, none, or an error (a bad spot price).    *)
(***************************************************************************)
EXTENDS Naturals

CONSTANTS
    Procs,
    MaxDay,     \* bound: days 1..MaxDay
    Holidays,   \* days without trading
    MaxSnap,    \* bound: snapshots fetched
    MaxCrash    \* bound: processes that die

VARIABLES
    day, phase,
    table,      \* the newest snapshot_ts of us_options_chain
    pending,    \* per session: the pending snapshot
    ledger,     \* the sessions in the blob of gamma_wall_ledger
    bars,       \* us_etf_daily, per day
    lock,       \* the transactions that hold the advisory locks
    boot,       \* per process: "down", the steps of maintain_storage, "up"
    run,        \* per process: its run of the ledger
    coll,       \* per process: its collector
    newest,     \* history, per session: the newest snapshot stored
    fetched, crashes

wallVars == <<day, phase, table, pending, ledger, bars, lock, boot, run, coll,
              newest, fetched, crashes>>

Day    == 1..MaxDay
Stamp  == 0..MaxSnap
Kinds  == {"walls", "none", "bad"}
Phases == {"night", "trading", "evening"}
Keys   == {"LOCK_KEY", "LOCK_KEY + 1"}

NoSnap == [ts |-> 0, kind |-> "none"]
Snap   == [ts : Stamp, kind : Kinds]
NoRec  == [ts |-> 0, backfilled |-> FALSE, result |-> "none"]
Rec    == [ts : Stamp, backfilled : BOOLEAN, result : {"none", "partial", "final"}]
Ledger == [Day -> Rec]

\* What the constants have to be; a module that instantiates this one assumes it.
ConstantsFit ==
    /\ {MaxDay, MaxSnap, MaxCrash} \subseteq Nat
    /\ 1 \in Day \ Holidays

\* The transaction that holds a lock; NoTx when it is free.
NoTx == <<"none", "none">>
Tx   == (Procs \X {"run", "start"}) \cup {NoTx}

NoLedger == [d \in Day |-> NoRec]
NoRun    == [at |-> "idle", ledger |-> NoLedger, processed |-> [d \in Day |-> 0]]
NoColl   == [at |-> "idle", session |-> 1, snap |-> NoSnap]

TypeOK ==
    /\ day \in Day /\ phase \in Phases
    /\ table \in Stamp
    /\ pending \in [Day -> Snap] /\ newest \in [Day -> Snap]
    /\ ledger \in Ledger
    /\ bars \in [Day -> {"none", "partial", "final"}]
    /\ lock \in [Keys -> Tx]
    /\ boot \in [Procs -> {"down", "lock", "up"}]
    /\ run \in [Procs -> [at : {"idle", "save"},
                          ledger : Ledger, processed : [Day -> Stamp]]]
    /\ coll \in [Procs -> [at : {"idle", "store"}, session : Day, snap : Snap]]
    /\ fetched \in Stamp /\ crashes \in 0..MaxCrash

Init ==
    /\ day = 1 /\ phase = "evening"
    /\ table = 0 /\ fetched = 0 /\ crashes = 0
    /\ pending = [d \in Day |-> NoSnap] /\ newest = [d \in Day |-> NoSnap]
    /\ ledger = NoLedger
    /\ bars = [d \in Day |-> "none"]
    /\ lock = [k \in Keys |-> NoTx]
    /\ boot \in {b \in [Procs -> {"down", "up"}] : \E p \in Procs : b[p] = "up"}
    /\ run = [p \in Procs |-> NoRun] /\ coll = [p \in Procs |-> NoColl]

-----------------------------------------------------------------------------
\* pg_advisory_xact_lock: a transaction waits for the lock and gives it back as it ends.
\* One that waits for nothing more once it has all its locks is a single step.
Free(k)      == lock[k] = NoTx
Takes(tx, k) == Free(k) /\ lock' = [lock EXCEPT ![k] = tx]
Ends(tx)     == lock' = [k \in Keys |-> IF lock[k] = tx THEN NoTx ELSE lock[k]]

Tick ==
    /\ \/ phase = "night" /\ phase' = "trading" /\ day' = day
       \/ phase = "trading" /\ phase' = "evening" /\ day' = day
       \/ phase = "evening" /\ day < MaxDay /\ phase' = "night" /\ day' = day + 1
    /\ UNCHANGED <<table, pending, ledger, bars, lock, boot, run, coll, newest, fetched, crashes>>

Traded(d) == d \notin Holidays

\* The session of a snapshot is the date of the last trade in it.
Session == CHOOSE d \in Day : /\ d <= day /\ Traded(d)
                              /\ \A e \in Day : e <= day /\ Traded(e) => e <= d

\* The daily bar Yahoo shows of a day.
BarNow(d) ==
    IF ~Traded(d) \/ d > day \/ (d = day /\ phase = "night") THEN "none"
    ELSE IF d = day /\ phase = "trading" THEN "partial"
    ELSE "final"

\* us_etf_daily.collect: ON CONFLICT DO NOTHING. Before the first trade of a day its
\* bar is missing.
CollectBars ==
    /\ \E b \in [Day -> {"none", "partial", "final"}] :
        /\ \A d \in Day : b[d] \in {BarNow(d)} \cup (IF BarNow(d) = "partial" THEN {"none"} ELSE {})
        /\ bars' = [d \in Day |-> IF bars[d] = "none" THEN b[d] ELSE bars[d]]
    /\ \E p \in Procs : boot[p] = "up"
    /\ UNCHANGED <<day, phase, table, pending, ledger, lock, boot, run, coll, newest, fetched, crashes>>

-----------------------------------------------------------------------------
\* collect(), up to store_snapshot: inside ACTIVE_UTC the chain is fetched.
Fetch(p, kind) ==
    /\ boot[p] = "up" /\ phase = "evening"
    /\ coll[p].at = "idle" /\ fetched < MaxSnap
    /\ fetched' = fetched + 1
    /\ coll' = [coll EXCEPT ![p] = [at |-> "store", session |-> Session,
                                    snap |-> [ts |-> fetched + 1, kind |-> kind]]]
    /\ UNCHANGED <<day, phase, table, pending, ledger, bars, lock, boot, run, newest, crashes>>

\* A faulty variant: what is stored is never compared with what comes.
OutdatedNever(snap) == FALSE

\* Another process has stored a newer snapshot: ValueError.
Outdated(snap) == table > snap.ts

\* The pending snapshots that _prune leaves.
Pruned(pend) ==
    [d \in Day |-> IF ledger[d].ts # 0 /\ ledger[d].ts >= pend[d].ts
                   THEN NoSnap ELSE pend[d]]

\* store_snapshot, in its transaction.
Store(p) ==
    LET c     == coll[p]
        known == ledger[c.session].ts # 0 /\ ledger[c.session].ts >= c.snap.ts
        added == [pending EXCEPT ![c.session] = IF known THEN @ ELSE c.snap]
    IN  /\ c.at = "store" /\ Free("LOCK_KEY")
        /\ coll' = [coll EXCEPT ![p] = NoColl]
        /\ IF Outdated(c.snap)
           THEN UNCHANGED <<table, pending, newest>>
           ELSE /\ table' = c.snap.ts
                /\ pending' = Pruned(added)
                /\ newest' = [newest EXCEPT ![c.session] =
                                IF c.snap.ts > @.ts THEN c.snap ELSE @]
        /\ UNCHANGED <<day, phase, ledger, bars, lock, boot, run, fetched, crashes>>

-----------------------------------------------------------------------------
\* The record of a session is as new as its pending snapshot.
InLedger(d) == ledger[d].ts # 0 /\ ledger[d].ts >= pending[d].ts

\* A pending snapshot that the run has to look at.
Unseen(d) == pending[d].ts # 0 /\ ~InLedger(d)

\* The loop of _run over the pending sessions.
Folded ==
    LET firstRun == \A d \in Day : ledger[d].ts = 0
        old(d)   == ledger[d]
    IN  [d \in Day |->
            IF ~Unseen(d) THEN old(d)
            ELSE IF pending[d].kind = "none" THEN NoRec
            ELSE [ts |-> pending[d].ts, result |-> "none",
                  backfilled |-> IF old(d).ts # 0 THEN old(d).backfilled ELSE firstRun]]

\* load_daily: the first bar after a session.
NextBar(d) ==
    LET later == {e \in Day : e > d /\ bars[e] # "none"}
    IN  IF later = {} THEN "none" ELSE bars[CHOOSE e \in later : \A f \in later : e <= f]

Scored(recs) ==
    [d \in Day |-> IF recs[d].ts # 0 /\ recs[d].result = "none"
                   THEN [recs[d] EXCEPT !.result = NextBar(d)] ELSE recs[d]]

\* run() up to save_ledger, by get_state when a run is due or by POST /run; run_exclusive
\* keeps one per process. (What is_due reads in the blob is left out: a run by hand is
\* always possible.) No other run writes the ledger meanwhile, so that the reads
\* are one step. A bad price ends the run before anything is written.
Read(p) ==
    /\ boot[p] = "up" /\ run[p].at = "idle"
    /\ Takes(<<p, "run">>, "LOCK_KEY + 1")
    /\ ~\E d \in Day : Unseen(d) /\ pending[d].kind = "bad"
    /\ run' = [run EXCEPT ![p] =
                [at |-> "save", ledger |-> Scored(Folded),
                 processed |-> [d \in Day |-> pending[d].ts]]]
    /\ UNCHANGED <<day, phase, table, pending, ledger, bars, boot, coll, newest, fetched, crashes>>

\* The run ends without a save: the database fails, or the run was a dry one.
RunFails(p) ==
    /\ run[p].at = "save"
    /\ run' = [run EXCEPT ![p] = NoRun]
    /\ Ends(<<p, "run">>)
    /\ UNCHANGED <<day, phase, table, pending, ledger, bars, boot, coll, newest, fetched, crashes>>

\* A faulty variant: a session is acknowledged, whatever came in meanwhile.
AcknowledgedBySession(processed) ==
    [d \in Day |-> IF processed[d] # 0 THEN NoSnap ELSE pending[d]]

\* What the DELETE of save_ledger leaves.
Acknowledged(processed) ==
    [d \in Day |-> IF processed[d] # 0 /\ pending[d].ts = processed[d] THEN NoSnap ELSE pending[d]]

\* save_ledger takes LOCK_KEY on a connection of its own and commits, then run() does.
Save(p) ==
    /\ run[p].at = "save" /\ Free("LOCK_KEY")
    /\ ledger' = run[p].ledger
    /\ pending' = Acknowledged(run[p].processed)
    /\ Ends(<<p, "run">>)
    /\ run' = [run EXCEPT ![p] = NoRun]
    /\ UNCHANGED <<day, phase, table, bars, boot, coll, newest, fetched, crashes>>

-----------------------------------------------------------------------------
\* A faulty variant: the other order.
FirstKeyLow == "LOCK_KEY"

\* The order of the locks in maintain_storage.
FirstKey == "LOCK_KEY + 1"
SecondKey == CHOOSE k \in Keys : k # FirstKey

\* lifespan() begins with maintain_storage.
Boots(p) ==
    /\ boot[p] = "down"
    /\ Takes(<<p, "start">>, FirstKey)
    /\ boot' = [boot EXCEPT ![p] = "lock"]
    /\ UNCHANGED <<day, phase, table, pending, ledger, bars, run, coll, newest, fetched, crashes>>

Maintain(p) ==
    /\ boot[p] = "lock" /\ Free(SecondKey)
    /\ pending' = Pruned(pending)
    /\ Ends(<<p, "start">>)
    /\ boot' = [boot EXCEPT ![p] = "up"]
    /\ UNCHANGED <<day, phase, table, ledger, bars, run, coll, newest, fetched, crashes>>

\* A process dies; its connections and their locks go with it.
Crash(p) ==
    /\ boot[p] # "down" /\ crashes < MaxCrash
    /\ crashes' = crashes + 1
    /\ boot' = [boot EXCEPT ![p] = "down"]
    /\ run' = [run EXCEPT ![p] = NoRun] /\ coll' = [coll EXCEPT ![p] = NoColl]
    /\ lock' = [k \in Keys |-> IF lock[k][1] = p THEN NoTx ELSE lock[k]]
    /\ UNCHANGED <<day, phase, table, pending, ledger, bars, newest, fetched>>

Next ==
    \/ Tick \/ CollectBars
    \/ \E p \in Procs :
        \/ \E kind \in Kinds : Fetch(p, kind)
        \/ Store(p) \/ Read(p) \/ RunFails(p) \/ Save(p) \/ Boots(p) \/ Maintain(p)
        \/ Crash(p)

Spec == Init /\ [][Next]_wallVars

-----------------------------------------------------------------------------
\* No snapshot is lost between the collector and the ledger: the newest one stored of
\* a session is still pending, or the ledger has its walls, or, when it has none, the
\* ledger has no record of the session.
SnapshotsAccounted ==
    \A d \in Day : newest[d].ts # 0 =>
        \/ pending[d] = newest[d]
        \/ newest[d].kind = "walls" /\ ledger[d].ts = newest[d].ts
        \/ newest[d].kind = "none" /\ ledger[d] = NoRec

\* A run and a starting process never hold one lock each and wait for the other: run()
\* waits on a second connection, and PostgreSQL would not see the cycle.
NobodyWaitsForever ==
    ~\E p, q \in Procs : /\ lock["LOCK_KEY + 1"] = <<p, "run">> /\ run[p].at = "save"
                         /\ lock["LOCK_KEY"] = <<q, "start">> /\ boot[q] = "lock"
==============================================================================
