----------------------------- MODULE DailyProofs -----------------------------
(***************************************************************************)
(* Proofs about the daily jobs that keep a ledger, for every number of     *)
(* stocks, processes, days and prices, and every length of the windows.    *)
(*                                                                         *)
(* The wall ledger: of every session the newest snapshot is the record,    *)
(* waits or has no walls, and no one waits for a lock in a circle          *)
(* (WallInv).  The value scan: what was bought is held or sold, counted by *)
(* induction over the closed trades, and no date is scanned twice unless a *)
(* restart forgot it (ScanInv).  The drawdown ladder: the recursion of the *)
(* replay is told by the set of bars it comes by, of which each entry and  *)
(* exit is the earliest of its kind; more bars of the same history extend  *)
(* this set and change nothing in it (LadderInv).                          *)
(***************************************************************************)
EXTENDS MCDaily, FiniteSetTheorems, SequenceTheorems, WellFoundedInduction, TLAPS

-----------------------------------------------------------------------------
(* Numbers.                                                                *)

\* A set of numbers that is not empty has a least element.
LEMMA LeastNatural ==
  ASSUME NEW T, T \subseteq Nat, T # {}
  PROVE  \E x \in T : \A y \in T : x <= y
  <1> DEFINE R == OpToRel(<, Nat)
  <1>1. \A x, y \in Nat : y < x => <<y, x>> \in R
    BY DEF OpToRel
  <1>2. IsWellFoundedOn(R, Nat)
    BY NatLessThanWellFounded
  <1> HIDE DEF R
  <1>3. PICK x \in T : \A y \in T : <<y, x>> \notin R
    BY <1>2, WFMin
  <1>4. \A y \in T : ~(y < x)
    BY <1>1, <1>3
  <1>5. \A y \in T : x <= y
    BY <1>4
  <1> QED
    BY <1>5

\* A set of numbers below a bound has a greatest element.
LEMMA GreatestNatural ==
  ASSUME NEW T, T \subseteq Nat, T # {}, NEW b \in Nat, \A x \in T : x <= b
  PROVE  \E x \in T : \A y \in T : y <= x
  <1> DEFINE U == {k \in Nat : \A x \in T : x <= k}
  <1>1. U \subseteq Nat /\ U # {}
    OBVIOUS
  <1> HIDE DEF U
  <1>2. PICK u \in U : \A v \in U : u <= v
    BY <1>1, LeastNatural
  <1>3. u \in Nat /\ \A x \in T : x <= u
    BY <1>2 DEF U
  <1>4. u \in T
    <2> SUFFICES ASSUME u \notin T PROVE FALSE
      OBVIOUS
    <2>1. \A x \in T : x <= u - 1
      BY <1>3
    <2>2. u - 1 \in Nat
      <3>1. PICK x \in T : x <= u - 1
        BY <2>1
      <3> QED
        BY <3>1, <1>3
    <2>3. u - 1 \in U
      BY <2>1, <2>2 DEF U
    <2> QED
      BY <2>3, <1>2, <1>3
  <1> QED
    BY <1>3, <1>4

-----------------------------------------------------------------------------
(* The gamma wall ledger.                                                  *)

\* The ledger that a run is about to save, against what it read: only a newer snapshot
\* of a session has come in since.
RunFits(r, d) ==
    LET rec == r.ledger[d]
        pr  == r.processed[d]
    IN  /\ pr <= pending[d].ts
        /\ pr = 0 => rec.ts = ledger[d].ts /\ (ledger[d] = G!NoRec => rec = G!NoRec)
        /\ pr # 0 => /\ rec = G!NoRec \/ rec.ts = pr
                     /\ newest[d].ts = pr => \/ newest[d].kind = "walls" /\ rec.ts = pr
                                             \/ newest[d].kind = "none" /\ rec = G!NoRec

\* What stands of a session: pending is only what is newer than its record.
DayFits(d) ==
    /\ pending[d].ts = 0 => pending[d] = G!NoSnap
    /\ pending[d].ts # 0 => pending[d] = newest[d] /\ ledger[d].ts < pending[d].ts
    /\ ledger[d].ts <= newest[d].ts /\ newest[d].ts <= table
    /\ newest[d].ts # 0 =>
        \/ pending[d] = newest[d]
        \/ newest[d].kind = "walls" /\ ledger[d].ts = newest[d].ts
        \/ newest[d].kind = "none" /\ ledger[d] = G!NoRec

\* What a collector has fetched is newer than what is stored, or older, never the same.
CollFits(p) ==
    coll[p].at = "store" =>
        /\ coll[p].snap.ts \in 1..fetched /\ coll[p].snap.ts # table
        /\ \A q \in Procs \ {p} : coll[q].at = "store" => coll[q].snap.ts # coll[p].snap.ts

\* Nobody keeps LOCK_KEY, and LOCK_KEY + 1 belongs to the one run or the one start.
LocksFit ==
    /\ wallLock["LOCK_KEY"] = G!NoTx
    /\ \A p \in Procs : boot[p] = "lock" => wallLock["LOCK_KEY + 1"] = <<p, "start">>
    /\ \A p \in Procs : run[p].at = "save" => wallLock["LOCK_KEY + 1"] = <<p, "run">>

WallInv ==
    /\ G!TypeOK
    /\ \A d \in G!Day : DayFits(d)
    /\ table <= fetched
    /\ \A p \in Procs : CollFits(p)
    /\ LocksFit
    /\ \A p \in Procs : run[p].at = "save" => \A d \in G!Day : RunFits(run[p], d)

LEMMA WallConstants ==
    /\ WallDays \in Nat /\ MaxSnap \in Nat /\ MaxCrash \in Nat
    /\ 1 \in G!Day /\ 1 \notin Holidays /\ G!Day \subseteq Nat
  BY LedgerAssumption DEF G!ConstantsFit, G!Day

LEMMA WallTypes ==
  ASSUME WallInv, NEW d \in G!Day
  PROVE  /\ pending[d].ts \in Nat /\ newest[d].ts \in Nat /\ ledger[d].ts \in Nat /\ table \in Nat
         /\ pending[d] \in G!Snap /\ newest[d] \in G!Snap /\ ledger[d] \in G!Rec /\ fetched \in Nat
  BY WallConstants DEF WallInv, G!TypeOK, G!Snap, G!Rec, G!Ledger, G!Stamp

LEMMA NothingsFit ==
    /\ G!NoSnap \in G!Snap /\ G!NoSnap.ts = 0 /\ G!NoRec \in G!Rec /\ G!NoRec.ts = 0
    /\ G!NoLedger \in G!Ledger /\ \A d \in G!Day : G!NoLedger[d] = G!NoRec
    /\ G!NoRun.at = "idle" /\ G!NoColl.at = "idle"
    /\ G!NoRun \in [at : {"idle", "save"}, ledger : G!Ledger, processed : [G!Day -> G!Stamp]]
    /\ G!NoColl \in [at : {"idle", "store"}, session : G!Day, snap : G!Snap]
  <1>1. 0 \in G!Stamp
    BY WallConstants DEF G!Stamp
  <1>2. G!NoSnap \in G!Snap /\ G!NoSnap.ts = 0
    BY <1>1 DEF G!NoSnap, G!Snap, G!Kinds
  <1>3. G!NoRec \in G!Rec /\ G!NoRec.ts = 0
    BY <1>1 DEF G!NoRec, G!Rec
  <1>4. G!NoLedger \in G!Ledger /\ \A d \in G!Day : G!NoLedger[d] = G!NoRec
    BY <1>3 DEF G!NoLedger, G!Ledger
  <1>5. G!NoRun \in [at : {"idle", "save"}, ledger : G!Ledger, processed : [G!Day -> G!Stamp]] /\ G!NoRun.at = "idle"
    BY <1>1, <1>4 DEF G!NoRun
  <1>6. G!NoColl \in [at : {"idle", "store"}, session : G!Day, snap : G!Snap] /\ G!NoColl.at = "idle"
    BY <1>2, WallConstants DEF G!NoColl
  <1> QED
    BY <1>2, <1>3, <1>4, <1>5, <1>6

LEMMA WallInitKeeps == G!Init => WallInv
  <1> SUFFICES ASSUME G!Init PROVE WallInv
    OBVIOUS
  <1>1. /\ day = 1 /\ phase = "evening" /\ table = 0 /\ fetched = 0 /\ crashes = 0
        /\ pending = [d \in G!Day |-> G!NoSnap] /\ newest = [d \in G!Day |-> G!NoSnap]
        /\ ledger = G!NoLedger /\ bars = [d \in G!Day |-> "none"]
        /\ wallLock = [k \in G!Keys |-> G!NoTx]
        /\ boot \in [Procs -> {"down", "up"}]
        /\ run = [p \in Procs |-> G!NoRun] /\ coll = [p \in Procs |-> G!NoColl]
    BY DEF G!Init
  <1>2. \A d \in G!Day : pending[d] = G!NoSnap /\ newest[d] = G!NoSnap /\ ledger[d] = G!NoRec
    BY <1>1, NothingsFit
  <1>3. \A p \in Procs : run[p].at = "idle" /\ coll[p].at = "idle" /\ boot[p] # "lock"
    BY <1>1, NothingsFit
  <1>4. G!TypeOK
    <2>1. day \in G!Day /\ phase \in G!Phases
      BY <1>1, WallConstants DEF G!Phases
    <2>2. table \in G!Stamp /\ fetched \in G!Stamp /\ crashes \in 0..MaxCrash
      BY <1>1, WallConstants DEF G!Stamp
    <2>3. pending \in [G!Day -> G!Snap] /\ newest \in [G!Day -> G!Snap] /\ ledger \in G!Ledger
      BY <1>1, NothingsFit
    <2>4. bars \in [G!Day -> {"none", "partial", "final"}] /\ boot \in [Procs -> {"down", "lock", "up"}]
      BY <1>1
    <2>5. wallLock \in [G!Keys -> G!Tx]
      BY <1>1 DEF G!Tx
    <2>6. run \in [Procs -> [at : {"idle", "save"}, ledger : G!Ledger, processed : [G!Day -> G!Stamp]]]
      BY <1>1, NothingsFit
    <2>7. coll \in [Procs -> [at : {"idle", "store"}, session : G!Day, snap : G!Snap]]
      BY <1>1, NothingsFit
    <2> QED
      BY <2>1, <2>2, <2>3, <2>4, <2>5, <2>6, <2>7 DEF G!TypeOK
  <1>5. \A d \in G!Day : DayFits(d)
    BY <1>1, <1>2, NothingsFit DEF DayFits
  <1>6. LocksFit
    BY <1>1, <1>3 DEF LocksFit, G!Keys
  <1>7. \A p \in Procs : CollFits(p)
    BY <1>3 DEF CollFits
  <1> QED
    BY <1>1, <1>3, <1>4, <1>5, <1>6, <1>7 DEF WallInv

\* What a step leaves alone stays as it was.
LEMMA DaysStand ==
  ASSUME \A d \in G!Day : DayFits(d),
         table' = table, pending' = pending, ledger' = ledger, newest' = newest
  PROVE  \A d \in G!Day : DayFits(d)'
  BY DEF DayFits

LEMMA RunStands ==
  ASSUME NEW p \in Procs, run'[p] = run[p], \A d \in G!Day : RunFits(run[p], d),
         pending' = pending, ledger' = ledger, newest' = newest
  PROVE  \A d \in G!Day : RunFits(run[p], d)'
  BY DEF RunFits

LEMMA CollStands ==
  ASSUME \A p \in Procs : CollFits(p), coll' = coll, table' = table, fetched' = fetched
  PROVE  \A p \in Procs : CollFits(p)'
  BY DEF CollFits

LEMMA LocksStand ==
  ASSUME LocksFit, wallLock' = wallLock, boot' = boot, run' = run
  PROVE  LocksFit'
  BY DEF LocksFit

LEMMA RunsStand ==
  ASSUME \A p \in Procs : run[p].at = "save" => \A d \in G!Day : RunFits(run[p], d),
         run' = run, pending' = pending, ledger' = ledger, newest' = newest
  PROVE  \A p \in Procs : run'[p].at = "save" => \A d \in G!Day : RunFits(run[p], d)'
  BY RunStands

LEMMA WallParts ==
  ASSUME G!TypeOK', \A d \in G!Day : DayFits(d)', table' <= fetched', \A p \in Procs : CollFits(p)', LocksFit',
         \A p \in Procs : run'[p].at = "save" => \A d \in G!Day : RunFits(run[p], d)'
  PROVE  WallInv'
  BY DEF WallInv

\* Steps of the clock and of the bars.
LEMMA WallTickKeeps == WallInv /\ (G!Tick \/ G!CollectBars \/ UNCHANGED walls) => WallInv'
  <1> SUFFICES ASSUME WallInv, G!Tick \/ G!CollectBars \/ UNCHANGED walls PROVE WallInv'
    OBVIOUS
  <1>1. /\ table' = table /\ pending' = pending /\ ledger' = ledger /\ wallLock' = wallLock
        /\ boot' = boot /\ run' = run /\ coll' = coll /\ newest' = newest /\ fetched' = fetched
        /\ crashes' = crashes
    BY DEF G!Tick, G!CollectBars, walls
  <1>2. day' \in G!Day /\ phase' \in G!Phases
    BY WallConstants DEF WallInv, G!TypeOK, G!Tick, G!CollectBars, walls, G!Day, G!Phases
  <1>3. bars' \in [G!Day -> {"none", "partial", "final"}]
    BY DEF WallInv, G!TypeOK, G!Tick, G!CollectBars, walls
  <1>4. G!TypeOK'
    BY <1>1, <1>2, <1>3 DEF WallInv, G!TypeOK
  <1> QED
    BY <1>1, <1>4, DaysStand, RunsStand, CollStands, LocksStand, WallParts DEF WallInv

\* The session of a snapshot is a day.
LEMMA SessionIsDay == WallInv => G!Session \in G!Day
  <1> SUFFICES ASSUME WallInv PROVE G!Session \in G!Day
    OBVIOUS
  <1> DEFINE S == {d \in G!Day : d <= day /\ G!Traded(d)}
  <1>1. 1 \in S /\ S \subseteq Nat /\ day \in Nat /\ \A d \in S : d <= day
    BY WallConstants DEF WallInv, G!TypeOK, G!Day, G!Traded
  <1> HIDE DEF S
  <1>2. PICK d \in S : \A e \in S : e <= d
    BY <1>1, GreatestNatural
  <1>3. /\ d \in G!Day /\ d <= day /\ G!Traded(d)
        /\ \A e \in G!Day : e <= day /\ G!Traded(e) => e <= d
    BY <1>2 DEF S
  <1> QED
    BY <1>3 DEF G!Session

LEMMA FetchKeeps ==
  ASSUME WallInv, NEW p \in Procs, NEW kind \in G!Kinds, G!Fetch(p, kind)
  PROVE  WallInv'
  <1> DEFINE s == [ts |-> fetched + 1, kind |-> kind]
             c == [at |-> "store", session |-> G!Session, snap |-> s]
  <1>1. /\ table' = table /\ pending' = pending /\ ledger' = ledger /\ wallLock' = wallLock
        /\ boot' = boot /\ run' = run /\ newest' = newest /\ fetched' = fetched + 1 /\ fetched < MaxSnap
        /\ crashes' = crashes /\ day' = day /\ phase' = phase /\ bars' = bars
        /\ coll' = [coll EXCEPT ![p] = c]
    BY DEF G!Fetch
  <1>2. fetched \in Nat /\ table \in Nat /\ table <= fetched
    BY WallTypes, WallConstants DEF WallInv
  <1>3. fetched' \in G!Stamp /\ s.ts \in G!Stamp /\ s.ts = fetched + 1 /\ s.kind = kind
    BY <1>1, <1>2, WallConstants DEF G!Stamp
  <1>4. s \in G!Snap
    BY <1>3 DEF G!Snap
  <1>5. c \in [at : {"idle", "store"}, session : G!Day, snap : G!Snap] /\ c.snap.ts = fetched + 1
    BY <1>4, SessionIsDay
  <1> HIDE DEF c
  <1>6. G!TypeOK'
    BY <1>1, <1>3, <1>5 DEF WallInv, G!TypeOK
  <1>7. \A q \in Procs : q # p => coll'[q] = coll[q]
    BY <1>1
  <1>8. coll'[p] = c
    BY <1>1 DEF WallInv, G!TypeOK
  <1>9. \A q \in Procs : coll[q].at = "store" => coll[q].snap.ts \in 1..fetched /\ coll[q].snap.ts # table
    BY DEF WallInv, CollFits
  <1>10. \A q \in Procs : CollFits(q)'
    <2> SUFFICES ASSUME NEW q \in Procs, coll'[q].at = "store"
                 PROVE  /\ coll'[q].snap.ts \in 1..fetched' /\ coll'[q].snap.ts # table'
                        /\ \A u \in Procs \ {q} : coll'[u].at = "store" => coll'[u].snap.ts # coll'[q].snap.ts
      BY DEF CollFits
    <2>1. CASE q = p
      BY <2>1, <1>1, <1>2, <1>5, <1>7, <1>8, <1>9
    <2>2. CASE q # p
      <3>1. coll'[q] = coll[q] /\ coll[q].snap.ts \in 1..fetched /\ coll[q].snap.ts # table
        BY <2>2, <1>7, <1>9
      <3>2. \A u \in Procs \ {q, p} : coll[u].at = "store" => coll[u].snap.ts # coll[q].snap.ts
        BY <3>1 DEF WallInv, CollFits
      <3> QED
        BY <3>1, <3>2, <1>1, <1>2, <1>5, <1>7, <1>8
    <2> QED
      BY <2>1, <2>2
  <1> QED
    BY <1>1, <1>2, <1>6, <1>10, DaysStand, RunsStand, LocksStand, WallParts DEF WallInv

\* Nothing that is pending is in the ledger already: there is nothing to prune.
LEMMA NothingToPrune ==
  ASSUME WallInv, NEW pend \in [G!Day -> G!Snap],
         \A d \in G!Day : pend[d] = pending[d] \/ ledger[d].ts < pend[d].ts
  PROVE  G!Pruned(pend) = pend
  <1>1. \A d \in G!Day : ~(ledger[d].ts # 0 /\ ledger[d].ts >= pend[d].ts) \/ pend[d] = G!NoSnap
    <2> SUFFICES ASSUME NEW d \in G!Day, ledger[d].ts >= pend[d].ts PROVE pend[d] = G!NoSnap
      OBVIOUS
    <2>1. DayFits(d) /\ pending[d].ts \in Nat /\ ledger[d].ts \in Nat /\ pend[d].ts \in Nat
      BY WallTypes, WallConstants DEF WallInv, G!Snap, G!Stamp
    <2>2. pend[d] = pending[d]
      BY <2>1
    <2> QED
      BY <2>1, <2>2 DEF DayFits
  <1> QED
    BY <1>1 DEF G!Pruned

LEMMA StoreKeeps ==
  ASSUME WallInv, NEW p \in Procs, G!Store(p)
  PROVE  WallInv'
  <1> DEFINE c == coll[p]
             d == c.session
             snap == c.snap
             known == ledger[d].ts # 0 /\ ledger[d].ts >= snap.ts
             added == [pending EXCEPT ![d] = IF known THEN @ ELSE snap]
  <1>1. /\ c.at = "store" /\ ledger' = ledger /\ wallLock' = wallLock /\ boot' = boot /\ run' = run
        /\ fetched' = fetched /\ crashes' = crashes /\ day' = day /\ phase' = phase /\ bars' = bars
        /\ coll' = [coll EXCEPT ![p] = G!NoColl]
    BY DEF G!Store
  <1>2. d \in G!Day /\ snap \in G!Snap /\ snap.ts \in 1..fetched /\ snap.ts # table /\ c \in [at : {"idle", "store"}, session : G!Day, snap : G!Snap]
    BY <1>1 DEF WallInv, G!TypeOK, CollFits
  <1>3. table \in Nat /\ fetched \in Nat /\ snap.ts \in Nat /\ table <= fetched
    BY <1>2, WallTypes DEF WallInv
  <1>4. coll'[p].at = "idle" /\ \A q \in Procs : q # p => coll'[q] = coll[q]
    BY <1>1, NothingsFit DEF WallInv, G!TypeOK
  <1>5. coll' \in [Procs -> [at : {"idle", "store"}, session : G!Day, snap : G!Snap]]
    BY <1>1, NothingsFit DEF WallInv, G!TypeOK
  <1>6. \A q \in Procs \ {p} : coll[q].at = "store" => coll[q].snap.ts # snap.ts
    BY <1>1 DEF WallInv, CollFits
  <1>7. LocksFit'
    BY <1>1, LocksStand DEF WallInv
  <1>8. CASE table > snap.ts
    <2>1. table' = table /\ pending' = pending /\ newest' = newest
      BY <1>8 DEF G!Store, G!Outdated
    <2>2. G!TypeOK'
      BY <1>1, <1>5, <2>1 DEF WallInv, G!TypeOK
    <2>3. \A q \in Procs : CollFits(q)'
      BY <1>1, <1>4, <2>1 DEF WallInv, CollFits
    <2> QED
      BY <1>1, <1>3, <1>7, <2>1, <2>2, <2>3, DaysStand, RunsStand, WallParts DEF WallInv
  <1>9. CASE table < snap.ts
    <2>1. table' = snap.ts /\ pending' = G!Pruned(added)
          /\ newest' = [newest EXCEPT ![d] = IF snap.ts > @.ts THEN snap ELSE @]
      BY <1>3, <1>9 DEF G!Store, G!Outdated
    <2>2. \A e \in G!Day : /\ DayFits(e) /\ pending[e].ts \in Nat /\ newest[e].ts \in Nat /\ ledger[e].ts \in Nat
                           /\ pending[e].ts < snap.ts /\ newest[e].ts < snap.ts /\ ledger[e].ts < snap.ts
      <3> SUFFICES ASSUME NEW e \in G!Day
                   PROVE  /\ DayFits(e) /\ pending[e].ts \in Nat /\ newest[e].ts \in Nat /\ ledger[e].ts \in Nat
                          /\ pending[e].ts < snap.ts /\ newest[e].ts < snap.ts /\ ledger[e].ts < snap.ts
        OBVIOUS
      <3>1. DayFits(e) /\ pending[e].ts \in Nat /\ newest[e].ts \in Nat /\ ledger[e].ts \in Nat
        BY WallTypes DEF WallInv
      <3>2. newest[e].ts <= table /\ ledger[e].ts <= newest[e].ts /\ (pending[e].ts # 0 => pending[e] = newest[e])
        BY <3>1 DEF DayFits
      <3>3. newest[e].ts < snap.ts /\ ledger[e].ts < snap.ts
        BY <3>1, <3>2, <1>3, <1>9
      <3> QED
        BY <3>1, <3>2, <3>3, <1>2
    <2>3. ~known
      BY <2>2, <1>2, <1>3
    <2>4. added = [pending EXCEPT ![d] = snap]
      BY <2>3 DEF WallInv, G!TypeOK
    <2> HIDE DEF added, known, c, d, snap
    <2>5. added \in [G!Day -> G!Snap] /\ added[d] = snap /\ \A e \in G!Day : e # d => added[e] = pending[e]
      BY <2>4, <1>2 DEF WallInv, G!TypeOK
    <2>6. pending' = added
      BY <2>1, <2>2, <2>5, NothingToPrune
    <2>7. newest' \in [G!Day -> G!Snap] /\ newest'[d] = snap /\ \A e \in G!Day : e # d => newest'[e] = newest[e]
      BY <2>1, <2>2, <1>2 DEF WallInv, G!TypeOK
    <2>8. snap.ts \in G!Stamp
      BY <1>2 DEF G!Snap
    <2>9. G!TypeOK'
      BY <1>1, <1>5, <2>1, <2>5, <2>6, <2>7, <2>8 DEF WallInv, G!TypeOK
    <2>10. \A e \in G!Day : DayFits(e)'
      <3> SUFFICES ASSUME NEW e \in G!Day PROVE DayFits(e)'
        OBVIOUS
      <3>1. CASE e = d
        <4>1. pending'[e] = snap /\ newest'[e] = snap /\ ledger'[e].ts < snap.ts /\ ledger'[e].ts \in Nat
          BY <3>1, <2>2, <2>5, <2>6, <2>7, <1>1
        <4> QED
          BY <4>1, <2>1, <1>2, <1>3 DEF DayFits
      <3>2. CASE e # d
        <4>1. pending'[e] = pending[e] /\ newest'[e] = newest[e] /\ ledger'[e] = ledger[e]
          BY <3>2, <2>5, <2>6, <2>7, <1>1
        <4>2. newest[e].ts <= snap.ts
          BY <2>2, <1>3
        <4> QED
          BY <4>1, <4>2, <2>1, <2>2 DEF DayFits
      <3> QED
        BY <3>1, <3>2
    <2>11. \A q \in Procs : CollFits(q)'
      BY <1>1, <1>4, <1>6, <2>1 DEF WallInv, CollFits
    <2>12. \A q \in Procs : run'[q].at = "save" => \A e \in G!Day : RunFits(run[q], e)'
      <3> SUFFICES ASSUME NEW q \in Procs, run[q].at = "save", NEW e \in G!Day PROVE RunFits(run[q], e)'
        BY <1>1
      <3>1. RunFits(run[q], e) /\ run[q].processed[e] \in Nat
        BY WallConstants DEF WallInv, G!TypeOK, G!Stamp
      <3>2. run'[q] = run[q] /\ ledger'[e] = ledger[e]
        BY <1>1
      <3>3. CASE e = d
        <4>1. pending'[e] = snap /\ newest'[e] = snap
          BY <3>3, <2>5, <2>6, <2>7
        <4>2. run[q].processed[e] <= pending[e].ts
          BY <3>1 DEF RunFits
        <4>3. run[q].processed[e] < snap.ts
          BY <4>2, <3>1, <2>2, <1>3
        <4> QED
          BY <3>1, <3>2, <4>1, <4>3, <1>3 DEF RunFits
      <3>4. CASE e # d
        <4>1. pending'[e] = pending[e] /\ newest'[e] = newest[e]
          BY <3>4, <2>5, <2>6, <2>7
        <4> QED
          BY <3>1, <3>2, <4>1 DEF RunFits
      <3> QED
        BY <3>3, <3>4
    <2>13. table' <= fetched'
      BY <2>1, <1>1, <1>2, <1>3
    <2> QED
      BY <1>7, <2>9, <2>10, <2>11, <2>12, <2>13, WallParts
  <1> QED
    BY <1>2, <1>3, <1>8, <1>9

\* The result of a session is what its next bar is.
LEMMA NextBarTypes ==
  ASSUME WallInv, NEW d \in G!Day
  PROVE  G!NextBar(d) \in {"none", "partial", "final"}
  <1> DEFINE S == {e \in G!Day : e > d /\ bars[e] # "none"}
  <1>1. S \subseteq Nat /\ S \subseteq G!Day
    BY WallConstants
  <1>2. CASE S = {}
    BY <1>2 DEF G!NextBar
  <1>3. CASE S # {}
    <2>1. G!NextBar(d) = bars[CHOOSE e \in S : \A f \in S : e <= f]
      BY <1>3 DEF G!NextBar
    <2> HIDE DEF S
    <2>2. \E e \in S : \A f \in S : e <= f
      BY <1>1, <1>3, LeastNatural
    <2>3. (CHOOSE e \in S : \A f \in S : e <= f) \in G!Day
      BY <2>2, <1>1
    <2> QED
      BY <2>1, <2>3 DEF WallInv, G!TypeOK
  <1> QED
    BY <1>2, <1>3

\* What a run makes of a session.
LEMMA ReadFits ==
  ASSUME WallInv, NEW d \in G!Day, ~(G!Unseen(d) /\ pending[d].kind = "bad")
  PROVE  LET rec == G!Scored(G!Folded)[d]
         IN  /\ rec \in G!Rec
             /\ pending[d].ts = 0 => rec.ts = ledger[d].ts /\ (ledger[d] = G!NoRec => rec = G!NoRec)
             /\ pending[d].ts # 0 => \/ pending[d].kind = "none" /\ rec = G!NoRec
                                     \/ pending[d].kind = "walls" /\ rec.ts = pending[d].ts
  <1> DEFINE f == G!Folded[d]
             rec == G!Scored(G!Folded)[d]
  <1>1. /\ ledger[d] \in G!Rec /\ ledger[d].ts \in Nat /\ pending[d] \in G!Snap
        /\ pending[d].ts \in Nat /\ DayFits(d) /\ G!NoRec \in G!Rec /\ G!NoRec.ts = 0
    BY WallTypes, NothingsFit DEF WallInv
  <1>2. rec = IF f.ts # 0 /\ f.result = "none" THEN [f EXCEPT !.result = G!NextBar(d)] ELSE f
    BY DEF G!Scored
  <1>3. pending[d].ts = 0 => f = ledger[d]
    BY DEF G!Folded, G!Unseen
  <1>4. pending[d].ts # 0 => ledger[d].ts < pending[d].ts
    BY <1>1 DEF DayFits
  <1>5. pending[d].ts # 0 => G!Unseen(d)
    BY <1>1, <1>4 DEF G!Unseen, G!InLedger
  <1>6. pending[d].kind \in {"walls", "none", "bad"} /\ pending[d].ts \in G!Stamp
    BY <1>1 DEF G!Snap, G!Kinds
  <1>7. pending[d].ts # 0 /\ pending[d].kind = "none" => f = G!NoRec
    BY <1>5 DEF G!Folded
  <1>8. pending[d].ts # 0 /\ pending[d].kind # "none" =>
          /\ pending[d].kind = "walls" /\ f.ts = pending[d].ts /\ f \in G!Rec
    <2> SUFFICES ASSUME pending[d].ts # 0, pending[d].kind # "none"
                 PROVE  pending[d].kind = "walls" /\ f.ts = pending[d].ts /\ f \in G!Rec
      OBVIOUS
    <2> DEFINE firstRun == \A e \in G!Day : ledger[e].ts = 0
               b == IF ledger[d].ts # 0 THEN ledger[d].backfilled ELSE firstRun
    <2>1. f = [ts |-> pending[d].ts, result |-> "none", backfilled |-> b]
      BY <1>5 DEF G!Folded
    <2>2. ledger[d].backfilled \in BOOLEAN
      BY <1>1 DEF G!Rec
    <2>3. b \in BOOLEAN
      BY <2>2
    <2> HIDE DEF b
    <2>4. f \in G!Rec /\ f.ts = pending[d].ts
      BY <2>1, <2>3, <1>6 DEF G!Rec
    <2> QED
      BY <2>4, <1>5, <1>6
  <1> HIDE DEF f, rec
  <1>9. f \in G!Rec
    BY <1>1, <1>3, <1>7, <1>8
  <1>10. rec \in G!Rec /\ rec.ts = f.ts /\ (f.ts = 0 => rec = f)
    BY <1>2, <1>9, NextBarTypes DEF G!Rec
  <1>11. pending[d].ts = 0 => rec.ts = ledger[d].ts /\ (ledger[d] = G!NoRec => rec = G!NoRec)
    BY <1>1, <1>3, <1>10
  <1>12. pending[d].ts # 0 => \/ pending[d].kind = "none" /\ rec = G!NoRec
                              \/ pending[d].kind = "walls" /\ rec.ts = pending[d].ts
    BY <1>1, <1>7, <1>8, <1>10
  <1> QED
    BY <1>10, <1>11, <1>12 DEF rec

\* A transaction that holds LOCK_KEY + 1 keeps the runs and the other starts out.
LEMMA Holder ==
  ASSUME WallInv, NEW p \in Procs
  PROVE  /\ run[p].at = "save" => /\ \A q \in Procs : boot[q] # "lock"
                                  /\ \A q \in Procs : run[q].at = "save" => q = p
         /\ boot[p] = "lock" => /\ \A q \in Procs : run[q].at # "save"
                                /\ \A q \in Procs : boot[q] = "lock" => q = p
         /\ wallLock["LOCK_KEY + 1"] = G!NoTx => /\ \A q \in Procs : boot[q] # "lock"
                                                 /\ \A q \in Procs : run[q].at # "save"
  <1>1. \A q, u \in Procs : <<q, "start">> # <<u, "run">> /\ <<q, "start">> # G!NoTx /\ <<q, "run">> # G!NoTx
    BY DEF G!NoTx
  <1> DEFINE held == wallLock["LOCK_KEY + 1"]
  <1>2. /\ \A q \in Procs : boot[q] = "lock" => held = <<q, "start">>
        /\ \A q \in Procs : run[q].at = "save" => held = <<q, "run">>
    BY DEF WallInv, LocksFit
  <1> HIDE DEF held
  <1>3. /\ run[p].at = "save" => \A q \in Procs : boot[q] # "lock"
        /\ boot[p] = "lock" => \A q \in Procs : run[q].at # "save"
    BY <1>1, <1>2
  <1>4. /\ run[p].at = "save" => \A q \in Procs : run[q].at = "save" => q = p
        /\ boot[p] = "lock" => \A q \in Procs : boot[q] = "lock" => q = p
    BY <1>2
  <1>5. held = G!NoTx => \A q \in Procs : boot[q] # "lock" /\ run[q].at # "save"
    BY <1>1, <1>2
  <1> QED
    BY <1>3, <1>4, <1>5 DEF held

LEMMA ReadKeeps ==
  ASSUME WallInv, NEW p \in Procs, G!Read(p)
  PROVE  WallInv'
  <1> DEFINE r == [at |-> "save", ledger |-> G!Scored(G!Folded), processed |-> [d \in G!Day |-> pending[d].ts]]
  <1>1. /\ table' = table /\ pending' = pending /\ ledger' = ledger /\ boot' = boot /\ newest' = newest
        /\ fetched' = fetched /\ crashes' = crashes /\ day' = day /\ phase' = phase /\ bars' = bars /\ coll' = coll
        /\ run' = [run EXCEPT ![p] = r]
        /\ wallLock["LOCK_KEY + 1"] = G!NoTx
        /\ wallLock' = [wallLock EXCEPT !["LOCK_KEY + 1"] = <<p, "run">>]
        /\ ~\E d \in G!Day : G!Unseen(d) /\ pending[d].kind = "bad"
    BY DEF G!Read, G!Takes, G!Free
  <1>2. \A d \in G!Day : G!Scored(G!Folded)[d] \in G!Rec
    BY <1>1, ReadFits
  <1>3. G!Scored(G!Folded) \in G!Ledger
    BY <1>2 DEF G!Ledger, G!Scored
  <1>4. [d \in G!Day |-> pending[d].ts] \in [G!Day -> G!Stamp]
    BY DEF WallInv, G!TypeOK, G!Snap
  <1>5. r \in [at : {"idle", "save"}, ledger : G!Ledger, processed : [G!Day -> G!Stamp]] /\ r.at = "save"
    BY <1>3, <1>4
  <1>6. \A d \in G!Day : r.ledger[d] = G!Scored(G!Folded)[d] /\ r.processed[d] = pending[d].ts
    OBVIOUS
  <1> HIDE DEF r
  <1>7. run'[p] = r /\ \A q \in Procs : q # p => run'[q] = run[q]
    BY <1>1 DEF WallInv, G!TypeOK
  <1>8. run' \in [Procs -> [at : {"idle", "save"}, ledger : G!Ledger, processed : [G!Day -> G!Stamp]]]
    BY <1>1, <1>5 DEF WallInv, G!TypeOK
  <1>9. wallLock' \in [G!Keys -> G!Tx]
    BY <1>1 DEF WallInv, G!TypeOK, G!Tx
  <1>10. G!TypeOK'
    BY <1>1, <1>8, <1>9 DEF WallInv, G!TypeOK
  <1>11. \A q \in Procs : boot[q] # "lock" /\ run[q].at # "save"
    BY <1>1, Holder
  <1>12. wallLock'["LOCK_KEY"] = wallLock["LOCK_KEY"] /\ wallLock'["LOCK_KEY + 1"] = <<p, "run">>
    BY <1>1 DEF WallInv, G!TypeOK, G!Keys
  <1>13. LocksFit'
    BY <1>1, <1>7, <1>11, <1>12 DEF WallInv, LocksFit
  <1>14. \A d \in G!Day : RunFits(r, d)
    <2> SUFFICES ASSUME NEW d \in G!Day PROVE RunFits(r, d)
      OBVIOUS
    <2> DEFINE rec == G!Scored(G!Folded)[d]
    <2>1. /\ pending[d].ts = 0 => rec.ts = ledger[d].ts /\ (ledger[d] = G!NoRec => rec = G!NoRec)
          /\ pending[d].ts # 0 => \/ pending[d].kind = "none" /\ rec = G!NoRec
                                  \/ pending[d].kind = "walls" /\ rec.ts = pending[d].ts
      BY <1>1, ReadFits
    <2>2. pending[d].ts \in Nat /\ (pending[d].ts # 0 => pending[d] = newest[d])
      BY WallTypes DEF WallInv, DayFits
    <2> HIDE DEF rec
    <2>3. r.ledger[d] = rec /\ r.processed[d] = pending[d].ts
      BY <1>6 DEF rec
    <2> QED
      BY <2>1, <2>2, <2>3 DEF RunFits
  <1>15. \A q \in Procs : run'[q].at = "save" => \A d \in G!Day : RunFits(run[q], d)'
    <2>1. \A q \in Procs : run'[q].at = "save" => q = p
      BY <1>7, <1>11
    <2>2. \A d \in G!Day : RunFits(run[p], d)'
      BY <1>1, <1>7, <1>14 DEF RunFits
    <2> QED
      BY <2>1, <2>2
  <1> QED
    BY <1>1, <1>10, <1>13, <1>15, DaysStand, CollStands, WallParts DEF WallInv

\* The end of a transaction that holds LOCK_KEY + 1.
LEMMA EndsFrees ==
  ASSUME WallInv, NEW p \in Procs, NEW what, G!Ends(<<p, what>>),
         wallLock["LOCK_KEY + 1"] = <<p, what>>
  PROVE  /\ wallLock' \in [G!Keys -> G!Tx] /\ wallLock'["LOCK_KEY"] = G!NoTx
  BY DEF WallInv, LocksFit, G!TypeOK, G!Ends, G!Keys, G!Tx

LEMMA RunFailsKeeps ==
  ASSUME WallInv, NEW p \in Procs, G!RunFails(p)
  PROVE  WallInv'
  <1>1. /\ table' = table /\ pending' = pending /\ ledger' = ledger /\ boot' = boot /\ newest' = newest
        /\ fetched' = fetched /\ crashes' = crashes /\ day' = day /\ phase' = phase /\ bars' = bars /\ coll' = coll
        /\ run[p].at = "save" /\ run' = [run EXCEPT ![p] = G!NoRun] /\ G!Ends(<<p, "run">>)
    BY DEF G!RunFails
  <1>2. wallLock' \in [G!Keys -> G!Tx] /\ wallLock'["LOCK_KEY"] = G!NoTx
    BY <1>1, EndsFrees DEF WallInv, LocksFit
  <1>3. /\ \A q \in Procs : run'[q].at # "save"
        /\ run' \in [Procs -> [at : {"idle", "save"}, ledger : G!Ledger, processed : [G!Day -> G!Stamp]]]
    BY <1>1, Holder, NothingsFit, ZenonT(40) DEF WallInv, G!TypeOK
  <1>4. G!TypeOK'
    BY <1>1, <1>2, <1>3 DEF WallInv, G!TypeOK
  <1>5. LocksFit'
    BY <1>1, <1>2, <1>3, Holder DEF LocksFit
  <1> QED
    BY <1>1, <1>3, <1>4, <1>5, DaysStand, CollStands, WallParts DEF WallInv

\* What is acknowledged is what the run has seen, no later snapshot.
LEMMA SaveKeeps ==
  ASSUME WallInv, NEW p \in Procs, G!Save(p)
  PROVE  WallInv'
  <1> DEFINE r == run[p]
  <1>1. /\ table' = table /\ boot' = boot /\ newest' = newest
        /\ fetched' = fetched /\ crashes' = crashes /\ day' = day /\ phase' = phase /\ bars' = bars /\ coll' = coll
        /\ r.at = "save" /\ run' = [run EXCEPT ![p] = G!NoRun] /\ G!Ends(<<p, "run">>)
        /\ ledger' = r.ledger /\ pending' = G!Acknowledged(r.processed)
    BY DEF G!Save
  <1>2. wallLock' \in [G!Keys -> G!Tx] /\ wallLock'["LOCK_KEY"] = G!NoTx
    BY <1>1, EndsFrees DEF WallInv, LocksFit
  <1>3. /\ \A q \in Procs : run'[q].at # "save"
        /\ run' \in [Procs -> [at : {"idle", "save"}, ledger : G!Ledger, processed : [G!Day -> G!Stamp]]]
    BY <1>1, Holder, NothingsFit, ZenonT(40) DEF WallInv, G!TypeOK
  <1>4. r \in [at : {"idle", "save"}, ledger : G!Ledger, processed : [G!Day -> G!Stamp]]
    BY DEF WallInv, G!TypeOK
  <1>5. \A d \in G!Day : RunFits(r, d)
    BY <1>1 DEF WallInv
  <1> HIDE DEF r
  <1>6. \A d \in G!Day : pending'[d] = IF r.processed[d] # 0 /\ pending[d].ts = r.processed[d]
                                       THEN G!NoSnap ELSE pending[d]
    BY <1>1 DEF G!Acknowledged
  <1>7. pending' \in [G!Day -> G!Snap]
    BY <1>1, NothingsFit DEF WallInv, G!TypeOK, G!Acknowledged
  <1>8. G!TypeOK'
    BY <1>1, <1>2, <1>3, <1>4, <1>7 DEF WallInv, G!TypeOK
  <1>9. LocksFit'
    BY <1>1, <1>2, <1>3, Holder DEF LocksFit, r
  <1>10. ASSUME NEW d \in G!Day PROVE DayFits(d)'
    <2> DEFINE rec == r.ledger[d]
               pr == r.processed[d]
    <2>1. /\ pr <= pending[d].ts
          /\ pr = 0 => rec.ts = ledger[d].ts /\ (ledger[d] = G!NoRec => rec = G!NoRec)
          /\ pr # 0 => /\ rec = G!NoRec \/ rec.ts = pr
                       /\ newest[d].ts = pr => \/ newest[d].kind = "walls" /\ rec.ts = pr
                                               \/ newest[d].kind = "none" /\ rec = G!NoRec
      BY <1>5 DEF RunFits
    <2>2. /\ pending[d].ts \in Nat /\ newest[d].ts \in Nat /\ ledger[d].ts \in Nat /\ table \in Nat
          /\ pr \in Nat /\ G!NoSnap.ts = 0 /\ G!NoRec.ts = 0
      BY WallTypes, NothingsFit, WallConstants, <1>4 DEF G!Stamp
    <2>3. rec = ledger'[d] /\ pending'[d] = IF pr # 0 /\ pending[d].ts = pr THEN G!NoSnap ELSE pending[d]
      BY <1>1, <1>6
    <2>4. /\ pending[d].ts = 0 => pending[d] = G!NoSnap
          /\ pending[d].ts # 0 => pending[d] = newest[d] /\ ledger[d].ts < pending[d].ts
          /\ ledger[d].ts <= newest[d].ts /\ newest[d].ts <= table
          /\ newest[d].ts # 0 =>
              \/ pending[d] = newest[d]
              \/ newest[d].kind = "walls" /\ ledger[d].ts = newest[d].ts
              \/ newest[d].kind = "none" /\ ledger[d] = G!NoRec
      BY DEF WallInv, DayFits
    <2> HIDE DEF rec, pr
    <2>5. CASE pr = 0
      <3>1. pending'[d] = pending[d] /\ rec.ts = ledger[d].ts /\ (ledger[d] = G!NoRec => rec = G!NoRec)
        BY <2>1, <2>3, <2>5
      <3> QED
        BY <3>1, <2>3, <2>4, <1>1 DEF DayFits
    <2>6. CASE pr # 0 /\ pending[d].ts = pr
      <3>1. pending'[d] = G!NoSnap /\ pending[d] = newest[d] /\ newest[d].ts = pr
        BY <2>2, <2>3, <2>4, <2>6
      <3>2. \/ newest[d].kind = "walls" /\ rec.ts = newest[d].ts
            \/ newest[d].kind = "none" /\ rec = G!NoRec
        BY <3>1, <2>1, <2>6
      <3> QED
        BY <3>1, <3>2, <2>2, <2>3, <2>4, <1>1 DEF DayFits
    <2>7. CASE pr # 0 /\ pending[d].ts # pr
      <3>1. pending'[d] = pending[d] /\ pending[d].ts > pr /\ pr > 0
        BY <2>1, <2>2, <2>3, <2>7
      <3>2. pending[d] = newest[d] /\ rec.ts <= pr
        BY <3>1, <2>1, <2>2, <2>4
      <3>3. rec.ts \in Nat
        BY <2>1, <2>2, <2>7
      <3> QED
        BY <3>1, <3>2, <3>3, <2>2, <2>3, <2>4, <1>1 DEF DayFits
    <2> QED
      BY <2>5, <2>6, <2>7
  <1> QED
    BY <1>1, <1>3, <1>8, <1>9, <1>10, CollStands, WallParts DEF WallInv

LEMMA BootsKeeps ==
  ASSUME WallInv, NEW p \in Procs, G!Boots(p)
  PROVE  WallInv'
  <1>1. /\ table' = table /\ pending' = pending /\ ledger' = ledger /\ newest' = newest /\ run' = run
        /\ fetched' = fetched /\ crashes' = crashes /\ day' = day /\ phase' = phase /\ bars' = bars /\ coll' = coll
        /\ boot' = [boot EXCEPT ![p] = "lock"]
        /\ wallLock["LOCK_KEY + 1"] = G!NoTx
        /\ wallLock' = [wallLock EXCEPT !["LOCK_KEY + 1"] = <<p, "start">>]
    BY DEF G!Boots, G!Takes, G!Free, G!FirstKey
  <1>2. wallLock' \in [G!Keys -> G!Tx] /\ boot' \in [Procs -> {"down", "lock", "up"}]
    BY <1>1 DEF WallInv, G!TypeOK, G!Tx
  <1>3. G!TypeOK'
    BY <1>1, <1>2 DEF WallInv, G!TypeOK
  <1>4. \A q \in Procs : boot[q] # "lock" /\ run[q].at # "save"
    BY <1>1, Holder
  <1>5. /\ wallLock'["LOCK_KEY"] = wallLock["LOCK_KEY"] /\ wallLock'["LOCK_KEY + 1"] = <<p, "start">>
        /\ \A q \in Procs : boot'[q] = "lock" => q = p
    BY <1>1, <1>4 DEF WallInv, G!TypeOK, G!Keys
  <1>6. LocksFit'
    BY <1>1, <1>4, <1>5 DEF WallInv, LocksFit
  <1> QED
    BY <1>1, <1>3, <1>6, DaysStand, RunsStand, CollStands, WallParts DEF WallInv

LEMMA MaintainKeeps ==
  ASSUME WallInv, NEW p \in Procs, G!Maintain(p)
  PROVE  WallInv'
  <1>1. /\ table' = table /\ ledger' = ledger /\ newest' = newest /\ run' = run
        /\ fetched' = fetched /\ crashes' = crashes /\ day' = day /\ phase' = phase /\ bars' = bars /\ coll' = coll
        /\ boot[p] = "lock" /\ boot' = [boot EXCEPT ![p] = "up"]
        /\ pending' = G!Pruned(pending) /\ G!Ends(<<p, "start">>)
    BY DEF G!Maintain
  <1>2. pending' = pending
    BY <1>1, NothingToPrune DEF WallInv, G!TypeOK
  <1>3. wallLock' \in [G!Keys -> G!Tx] /\ wallLock'["LOCK_KEY"] = G!NoTx
    BY <1>1, EndsFrees DEF WallInv, LocksFit
  <1>4. /\ boot' \in [Procs -> {"down", "lock", "up"}]
        /\ \A q \in Procs : boot'[q] # "lock" /\ run'[q].at # "save"
    BY <1>1, Holder, ZenonT(40) DEF WallInv, G!TypeOK
  <1>5. G!TypeOK'
    BY <1>1, <1>2, <1>3, <1>4 DEF WallInv, G!TypeOK
  <1>6. LocksFit'
    BY <1>3, <1>4 DEF LocksFit
  <1> QED
    BY <1>1, <1>2, <1>5, <1>6, DaysStand, RunsStand, CollStands, WallParts DEF WallInv

LEMMA CrashKeeps ==
  ASSUME WallInv, NEW p \in Procs, G!Crash(p)
  PROVE  WallInv'
  <1>1. /\ table' = table /\ pending' = pending /\ ledger' = ledger /\ newest' = newest
        /\ fetched' = fetched /\ crashes' = crashes + 1 /\ crashes < MaxCrash
        /\ day' = day /\ phase' = phase /\ bars' = bars
        /\ boot' = [boot EXCEPT ![p] = "down"]
        /\ run' = [run EXCEPT ![p] = G!NoRun] /\ coll' = [coll EXCEPT ![p] = G!NoColl]
        /\ wallLock' = [k \in G!Keys |-> IF wallLock[k][1] = p THEN G!NoTx ELSE wallLock[k]]
    BY DEF G!Crash
  <1>2. wallLock' \in [G!Keys -> G!Tx] /\ boot' \in [Procs -> {"down", "lock", "up"}]
    BY <1>1 DEF WallInv, G!TypeOK, G!Tx
  <1>3. /\ run' \in [Procs -> [at : {"idle", "save"}, ledger : G!Ledger, processed : [G!Day -> G!Stamp]]]
        /\ run'[p].at = "idle" /\ \A q \in Procs : q # p => run'[q] = run[q]
    BY <1>1, NothingsFit DEF WallInv, G!TypeOK
  <1>4. /\ coll' \in [Procs -> [at : {"idle", "store"}, session : G!Day, snap : G!Snap]]
        /\ coll'[p].at = "idle" /\ \A q \in Procs : q # p => coll'[q] = coll[q]
    BY <1>1, NothingsFit DEF WallInv, G!TypeOK
  <1>5. crashes' \in 0..MaxCrash
    BY <1>1, WallConstants DEF WallInv, G!TypeOK
  <1>6. G!TypeOK'
    BY <1>1, <1>2, <1>3, <1>4, <1>5 DEF WallInv, G!TypeOK
  <1>7. \A q \in Procs : CollFits(q)'
    BY <1>1, <1>4 DEF WallInv, CollFits
  <1>8. LocksFit'
    <2>1. boot'[p] = "down" /\ \A q \in Procs : q # p => boot'[q] = boot[q]
      BY <1>1 DEF WallInv, G!TypeOK
    <2>2. wallLock'["LOCK_KEY"] = G!NoTx
      BY <1>1 DEF WallInv, LocksFit, G!Keys
    <2>3. \A q \in Procs : q # p =>
             /\ boot'[q] = "lock" => wallLock'["LOCK_KEY + 1"] = <<q, "start">>
             /\ run'[q].at = "save" => wallLock'["LOCK_KEY + 1"] = <<q, "run">>
      <3> DEFINE held == wallLock["LOCK_KEY + 1"]
                 kept == wallLock'["LOCK_KEY + 1"]
      <3>1. kept = IF held[1] = p THEN G!NoTx ELSE held
        BY <1>1 DEF G!Keys
      <3>2. \A q \in Procs : /\ boot[q] = "lock" => held = <<q, "start">>
                             /\ run[q].at = "save" => held = <<q, "run">>
        BY DEF WallInv, LocksFit
      <3> HIDE DEF held, kept
      <3>3. \A q \in Procs : q # p => /\ boot'[q] = "lock" => kept = <<q, "start">>
                                      /\ run'[q].at = "save" => kept = <<q, "run">>
        BY <1>3, <2>1, <3>1, <3>2
      <3> QED
        BY <3>3 DEF kept
    <2> QED
      BY <2>1, <2>2, <2>3, <1>3 DEF LocksFit
  <1>9. \A q \in Procs : run'[q].at = "save" => \A d \in G!Day : RunFits(run[q], d)'
    <2> SUFFICES ASSUME NEW q \in Procs, run'[q].at = "save" PROVE \A d \in G!Day : RunFits(run[q], d)'
      OBVIOUS
    <2>1. q # p /\ run'[q] = run[q]
      BY <1>3
    <2>2. \A d \in G!Day : RunFits(run[q], d)
      BY <2>1 DEF WallInv
    <2> QED
      BY <1>1, <2>1, <2>2, RunStands
  <1> QED
    BY <1>1, <1>6, <1>7, <1>8, <1>9, DaysStand, WallParts DEF WallInv

LEMMA WallNextKeeps == WallInv /\ (G!Next \/ UNCHANGED walls) => WallInv'
  <1> SUFFICES ASSUME WallInv, G!Next \/ UNCHANGED walls PROVE WallInv'
    OBVIOUS
  <1>1. CASE G!Tick \/ G!CollectBars \/ UNCHANGED walls
    BY <1>1, WallTickKeeps
  <1>2. ASSUME NEW p \in Procs, NEW kind \in G!Kinds, G!Fetch(p, kind) PROVE WallInv'
    BY <1>2, FetchKeeps
  <1>3. ASSUME NEW p \in Procs, G!Store(p) \/ G!Read(p) \/ G!RunFails(p) \/ G!Save(p) PROVE WallInv'
    BY <1>3, StoreKeeps, ReadKeeps, RunFailsKeeps, SaveKeeps
  <1>4. ASSUME NEW p \in Procs, G!Boots(p) \/ G!Maintain(p) \/ G!Crash(p) PROVE WallInv'
    BY <1>4, BootsKeeps, MaintainKeeps, CrashKeeps
  <1> QED
    BY <1>1, <1>2, <1>3, <1>4 DEF G!Next

LEMMA WallsKeep == MCSpec => []WallInv
  <1>1. MCInit => WallInv
    BY WallInitKeeps DEF MCInit, NoWalls
  <1>2. WallInv /\ [MCNext]_mcVars => WallInv'
    BY WallNextKeeps DEF MCNext, mcVars, Scans
  <1> QED
    BY <1>1, <1>2, PTL DEF MCSpec

\* GammaWall!NobodyWaitsForever (storage.py, run() and maintain_storage): LOCK_KEY is taken within a step that needs
\* no other lock, so that no one waits in a circle.
THEOREM WallsNeverWait == MCSpec => []NobodyWaitsForever
  <1>1. WallInv => NobodyWaitsForever
    <2>1. \A q \in Procs : <<q, "start">> # G!NoTx
      BY DEF G!NoTx
    <2> QED
      BY <2>1 DEF WallInv, LocksFit, NobodyWaitsForever, G!NobodyWaitsForever
  <1> QED
    BY <1>1, WallsKeep, PTL

LEMMA SnapshotsKept == WallInv => G!SnapshotsAccounted
  BY DEF WallInv, DayFits, G!SnapshotsAccounted

-----------------------------------------------------------------------------
(* The value scan.                                                         *)

\* The types of the tables, of a scan under way and of a repair.
Dates == 1 .. UtcDate(LastSlot)
LotBook == [Stocks -> Seq(Dates)]
Trade == [s : Stocks, in : Dates, out : Dates, n : Nat \ {0}]
Due == [at : {"asked"}, ms : SUBSET Markets, due : Nat]
Scanning == [at : {"scan"}, ms : SUBSET Markets, due : Nat, today : Dates]
Scanned == [at : {"lock"}, ms : SUBSET Markets, due : Nat, today : Dates, buy : SUBSET Stocks, sell : SUBSET Stocks]
Saving == [at : {"save"}, ms : SUBSET Markets, due : Nat, today : Dates, buy : SUBSET Stocks, sell : SUBSET Stocks,
           view : LotBook]
Closings == [at : {"append"}, ms : SUBSET Markets, exits : SUBSET Trade]
Recording == [at : {"record"}, ms : SUBSET Markets]
ScanJob == {Idle} \cup Due \cup Scanning \cup Scanned \cup Saving \cup Closings \cup Recording
Fixing == [at : {"fix"}, view : LotBook]
Restoring == [at : {"restore", "history"}, view : LotBook, seen : SUBSET Trade, kept : SUBSET Trade,
              back : SUBSET Trade, lost : SUBSET Stocks]

ScanTypes ==
    /\ clock \in FirstSlot .. LastSlot
    /\ pos \in LotBook /\ closed \in SUBSET Trade /\ meta \in [Markets -> Nat]
    /\ lock \in Jobs \cup {Nobody, Repairer} /\ running \in [Procs -> BOOLEAN]
    /\ job \in [Jobs -> ScanJob] /\ repair \in {Idle} \cup Fixing \cup Restoring
    /\ bought \in [Stocks -> Nat] /\ excused \in SUBSET Stocks
    /\ caught \in [Markets -> Nat] /\ twice \in SUBSET Markets

\* Positions and history are written in the body of the lock; one scan at a time runs in a process.
Working(j) == job[j].at \notin {"idle", "asked"}
ScanLocks ==
    /\ \A j \in Jobs : job[j].at \in {"save", "append"} <=> lock = j
    /\ repair.at = "history" <=> lock = Repairer
    /\ \A p \in Procs : running[p] <=> \E j \in Jobs : j[1] = p /\ Working(j)
    /\ \A j, k \in Jobs : Working(j) /\ Working(k) /\ j[1] = k[1] => j = k

\* A connection holds the lock on, one at a time; a scan gets into the body through that one only.
StuckFits ==
    /\ \A p \in stuck : Postgres /\ stuck = {p} /\ p \in Procs
    /\ lock \in Jobs => stuck \subseteq {lock[1]}

\* What is bought is not sold, one trade closes a stock, and a scan is due now or was due before.
Decided(j) == job[j].at \in {"lock", "save"} => job[j].buy \cap job[j].sell = {}
OneExit(j) == job[j].at = "append" => \A e, f \in job[j].exits : e.s = f.s => e = f
DueBefore(j) ==
    job[j].at \in {"asked", "scan", "lock", "save"} =>
        IF j[2] = "sched" THEN \A m \in job[j].ms : job[j].due <= TradingDate(m, clock) ELSE job[j].due = 0
ScanFits == \A j \in Jobs : Decided(j) /\ OneExit(j) /\ DueBefore(j)

\* The trades of a stock.
TradesOf(trades, s) == {c \in trades : c.s = s}
Lots(trades, s) == Cardinality(LotsIn(TradesOf(trades, s)))

\* A repair drops the trades it has matched and reopens the stocks of some, one trade of a stock.
RestoreFits ==
    repair.at \in {"restore", "history"} =>
        /\ \A s \in Stocks : IsFiniteSet(TradesOf(repair.seen, s))
        /\ repair.kept \subseteq repair.seen /\ repair.back \subseteq repair.seen \ repair.kept
        /\ \A c, d \in repair.back : c.s = d.s => c = d
        /\ \A c \in repair.back : repair.view[c.s] = <<>>
        /\ repair.lost = {c.s : c \in (repair.seen \ repair.kept) \ repair.back}
        /\ repair.seen \subseteq closed \/ excused = Stocks

\* The lots of a stock that are on their way from the positions to the history.
Owed(s) ==
    IF lock \in Jobs /\ job[lock].at = "append" THEN Lots(job[lock].exits, s) ELSE 0
Behind == {c.s : c \in closed \ repair.seen}
BooksFit ==
    /\ \A s \in Stocks : IsFiniteSet(TradesOf(closed, s))
    /\ RestoreFits
    /\ repair.at # "history" =>
          \A s \in Stocks \ excused : bought[s] = Len(pos[s]) + Lots(closed, s) + Owed(s)
    /\ repair.at = "history" =>
          \A s \in Stocks \ (excused \cup repair.lost \cup Behind) : bought[s] = Len(pos[s]) + Lots(repair.kept, s)

\* The catch-ups of the present date that are still to be written, and those that are not recorded.
Pending(m) == {j \in Jobs : /\ j[2] = "sched" /\ job[j].at \in {"asked", "scan", "lock", "save"}
                            /\ m \in job[j].ms /\ job[j].due = TradingDate(m, clock)}
Written(m) == {j \in Jobs : j[2] = "sched" /\ job[j].at \in {"append", "record"} /\ m \in job[j].ms}
CatchupFits(m) ==
    /\ \A j, k \in Pending(m) : j = k
    /\ caught[m] = 0 \/ (caught[m] = 1 /\ Pending(m) = {})
    /\ caught[m] = 0 \/ meta[m] = TradingDate(m, clock) \/ Written(m) # {}
CatchupsFit == \A m \in Markets \ twice : CatchupFits(m)

ScanInv == ScanTypes /\ ScanLocks /\ StuckFits /\ ScanFits /\ BooksFit /\ CatchupsFit

\* The calendar.
LEMMA SlotConstants ==
    FirstSlot \in Nat /\ FirstSlot >= 1 /\ LastSlot \in Nat
  BY ScanAssumption

LEMMA MarketsAre == \A m \in Markets : m \in {"kospi", "nasdaq"}
  BY ScanAssumption DEF Markets

LEMMA DateTypes ==
  ASSUME NEW t \in FirstSlot .. LastSlot
  PROVE  UtcDate(t) \in Dates /\ UtcDate(t) \in Nat
  BY SlotConstants DEF Dates, UtcDate

LEMMA TradingDateTypes ==
  ASSUME NEW t \in FirstSlot .. LastSlot, NEW m \in Markets
  PROVE  TradingDate(m, t) \in Nat /\ TradingDate(m, t) >= 1
  <1>1. t \in Nat /\ t >= 1
    BY SlotConstants
  <1>2. t \div 5 \in Nat /\ (t % 5 = 0 => t \div 5 >= 1)
    BY <1>1
  <1>3. CASE m = "kospi"
    BY <1>2, <1>3 DEF TradingDate, UtcDate
  <1>4. CASE m = "nasdaq"
    BY <1>2, <1>4 DEF TradingDate, UtcDate
  <1> QED
    BY <1>3, <1>4, MarketsAre

LEMMA TradingDateGrows ==
  ASSUME NEW t \in FirstSlot .. LastSlot, NEW m \in Markets
  PROVE  TradingDate(m, t) <= TradingDate(m, t + 1)
  <1>1. t \in Nat /\ t >= 1
    BY SlotConstants
  <1>2. \/ t % 5 # 4 /\ (t + 1) \div 5 = t \div 5 /\ (t + 1) % 5 = (t % 5) + 1
        \/ t % 5 = 4 /\ (t + 1) \div 5 = t \div 5 + 1 /\ (t + 1) % 5 = 0
    BY <1>1
  <1>3. t \div 5 \in Nat /\ t % 5 \in 0..4
    BY <1>1
  <1>4. CASE m = "kospi"
    BY <1>2, <1>3, <1>4 DEF TradingDate, UtcDate
  <1>5. CASE m = "nasdaq"
    BY <1>2, <1>3, <1>5 DEF TradingDate, UtcDate
  <1> QED
    BY <1>4, <1>5, MarketsAre

\* The lots of the trades.
LEMMA CountOf ==
  ASSUME NEW n \in Nat
  PROVE  IsFiniteSet(1 .. n) /\ Cardinality(1 .. n) = n
  <1>1. IsFiniteSet(1 .. n) /\ Cardinality(1 .. n) = IF 1 > n THEN 0 ELSE n - 1 + 1
    BY FS_Interval
  <1>2. (IF 1 > n THEN 0 ELSE n - 1 + 1) = n
    OBVIOUS
  <1> QED
    BY <1>1, <1>2

LEMMA LotsAreFinite ==
  ASSUME NEW A, IsFiniteSet(A), \A c \in A : c.n \in Nat
  PROVE  IsFiniteSet(LotsIn(A))
  <1> DEFINE f == [c \in A |-> {c} \X (1 .. c.n)]
             T == {{c} \X (1 .. c.n) : c \in A}
  <1>1. f \in Surjection(A, T)
    BY DEF Surjection
  <1> HIDE DEF f
  <1>2. IsFiniteSet(T)
    BY <1>1, FS_Surjection
  <1>3. ASSUME NEW c \in A PROVE IsFiniteSet({c} \X (1 .. c.n))
    <2>1. IsFiniteSet({c})
      BY FS_Singleton
    <2>2. IsFiniteSet(1 .. c.n)
      BY CountOf
    <2> QED
      BY <2>1, <2>2, FS_Product
  <1>4. \A X \in T : IsFiniteSet(X)
    BY <1>3
  <1>5. IsFiniteSet(UNION T)
    BY <1>2, <1>4, FS_UNION
  <1> QED
    BY <1>5 DEF LotsIn

LEMMA LotsNone == Cardinality(LotsIn({})) = 0
  <1>1. LotsIn({}) = {}
    BY DEF LotsIn
  <1> QED
    BY <1>1, FS_EmptySet

LEMMA LotsOne ==
  ASSUME NEW c, c.n \in Nat
  PROVE  Cardinality(LotsIn({c})) = c.n
  <1>1. LotsIn({c}) = {c} \X (1 .. c.n)
    BY DEF LotsIn
  <1>2. IsFiniteSet({c}) /\ Cardinality({c}) = 1
    BY FS_Singleton
  <1>3. IsFiniteSet(1 .. c.n) /\ Cardinality(1 .. c.n) = c.n
    BY CountOf
  <1>4. Cardinality({c} \X (1 .. c.n)) = Cardinality({c}) * Cardinality(1 .. c.n)
    BY <1>2, <1>3, FS_Product
  <1>5. Cardinality(LotsIn({c})) = 1 * c.n
    BY <1>1, <1>2, <1>3, <1>4
  <1> QED
    BY <1>5

LEMMA LotsAdd ==
  ASSUME NEW A, NEW C, IsFiniteSet(A), IsFiniteSet(C), \A c \in A \cup C : c.n \in Nat, A \cap C = {}
  PROVE  Cardinality(LotsIn(A \cup C)) = Cardinality(LotsIn(A)) + Cardinality(LotsIn(C))
  <1>1. LotsIn(A \cup C) = LotsIn(A) \cup LotsIn(C)
    BY DEF LotsIn
  <1>2. \A x \in LotsIn(A) : x[1] \in A
    BY DEF LotsIn
  <1>3. \A x \in LotsIn(C) : x[1] \in C
    BY DEF LotsIn
  <1>4. LotsIn(A) \cap LotsIn(C) = {}
    BY <1>2, <1>3
  <1>5. IsFiniteSet(LotsIn(A)) /\ IsFiniteSet(LotsIn(C))
    BY LotsAreFinite
  <1>6. Cardinality(LotsIn(A) \cap LotsIn(C)) = 0
    BY <1>4, FS_EmptySet
  <1>7. Cardinality(LotsIn(A)) \in Nat /\ Cardinality(LotsIn(C)) \in Nat
    BY <1>5, FS_CardinalityType
  <1>8. Cardinality(LotsIn(A) \cup LotsIn(C))
            = Cardinality(LotsIn(A)) + Cardinality(LotsIn(C)) - Cardinality(LotsIn(A) \cap LotsIn(C))
    BY <1>5, FS_Union
  <1>9. Cardinality(LotsIn(A) \cup LotsIn(C)) = Cardinality(LotsIn(A)) + Cardinality(LotsIn(C))
    BY <1>6, <1>7, <1>8
  <1> QED
    BY <1>1, <1>9

-----------------------------------------------------------------------------
(* Types of the scan.                                                      *)

LEMMA JobsAre ==
    /\ \A j \in Jobs : j[1] \in Procs /\ j[2] \in {"sched", "manual"} /\ j = <<j[1], j[2]>>
    /\ \A p \in Procs : <<p, "sched">> \in Jobs /\ <<p, "manual">> \in Jobs
    /\ Nobody \notin Jobs /\ Repairer \notin Jobs /\ Nobody # Repairer
  <1>1. /\ \A j \in Jobs : j[1] \in Procs /\ j[2] \in {"sched", "manual"} /\ j = <<j[1], j[2]>>
        /\ \A p \in Procs : <<p, "sched">> \in Jobs /\ <<p, "manual">> \in Jobs
    BY DEF Jobs
  <1>2. Nobody \notin Jobs
    <2>1. \A p, k : <<>> # <<p, k>>
      <3>1. \A p, k : Len(<<p, k>>) = 2 /\ Len(<<>>) = 0
        OBVIOUS
      <3> QED
        BY <3>1
    <2> QED
      BY <1>1, <2>1 DEF Nobody
  <1>3. Repairer \notin Jobs
    <2>1. \A p, k : <<"repair">> # <<p, k>>
      <3>1. \A p, k : Len(<<p, k>>) = 2 /\ Len(<<"repair">>) = 1
        OBVIOUS
      <3> QED
        BY <3>1
    <2> QED
      BY <1>1, <2>1 DEF Repairer
  <1>4. Nobody # Repairer
    <2>1. Len(<<"repair">>) = 1 /\ Len(<<>>) = 0
      OBVIOUS
    <2> QED
      BY <2>1 DEF Nobody, Repairer
  <1> QED
    BY <1>1, <1>2, <1>3, <1>4

\* What a scan under way is, by how far it has come.
LEMMA JobIs ==
  ASSUME ScanTypes, NEW j \in Jobs
  PROVE  /\ job[j].at = "idle" => job[j] = Idle
         /\ job[j].at = "asked" => job[j] \in Due
         /\ job[j].at = "scan" => job[j] \in Scanning
         /\ job[j].at = "lock" => job[j] \in Scanned
         /\ job[j].at = "save" => job[j] \in Saving
         /\ job[j].at = "append" => job[j] \in Closings
         /\ job[j].at = "record" => job[j] \in Recording
         /\ job[j].at \in {"idle", "asked", "scan", "lock", "save", "append", "record"}
  BY DEF ScanTypes, ScanJob, Idle, Due, Scanning, Scanned, Saving, Closings, Recording

LEMMA GotoTypes ==
  ASSUME ScanTypes, NEW j \in Jobs, NEW r \in ScanJob, job' = [job EXCEPT ![j] = r]
  PROVE  job' \in [Jobs -> ScanJob] /\ job'[j] = r /\ \A k \in Jobs : k # j => job'[k] = job[k]
  BY DEF ScanTypes

LEMMA IdleTypes == Idle \in ScanJob /\ Idle.at = "idle"
  BY DEF ScanJob, Idle

LEMMA StocksOfTypes == \A ms : StocksOf(ms) \subseteq Stocks
  BY DEF StocksOf

LEMMA AskTypes ==
  ASSUME ScanTypes, NEW p \in Procs, SchedulerAsks(p) \/ TriggerScan(p)
  PROVE  ScanTypes'
  <1>1. /\ clock' = clock /\ pos' = pos /\ closed' = closed /\ meta' = meta /\ lock' = lock /\ running' = running
        /\ repair' = repair /\ bought' = bought /\ excused' = excused /\ caught' = caught
    BY DEF SchedulerAsks, TriggerScan, tables, history
  <1>2. PICK j \in Jobs, ms \in SUBSET Markets, due \in Nat :
           job' = [job EXCEPT ![j] = [at |-> "asked", ms |-> ms, due |-> due]]
    <2>1. CASE SchedulerAsks(p)
      <3>1. PICK m \in Markets : Goto(<<p, "sched">>, [at |-> "asked", ms |-> {m}, due |-> TradingDate(m, clock)])
        BY <2>1 DEF SchedulerAsks
      <3>2. TradingDate(m, clock) \in Nat /\ {m} \in SUBSET Markets
        BY TradingDateTypes DEF ScanTypes
      <3> QED
        BY <3>1, <3>2, JobsAre DEF Goto
    <2>2. CASE TriggerScan(p)
      BY <2>2, JobsAre DEF TriggerScan, Goto
    <2> QED
      BY <2>1, <2>2
  <1>3. [at |-> "asked", ms |-> ms, due |-> due] \in ScanJob
    BY DEF ScanJob, Due
  <1>4. job' \in [Jobs -> ScanJob]
    BY <1>2, <1>3, GotoTypes
  <1>5. twice' \in SUBSET Markets
    BY DEF ScanTypes, SchedulerAsks, TriggerScan, history
  <1> QED
    BY <1>1, <1>4, <1>5 DEF ScanTypes

LEMMA BeginTypes ==
  ASSUME ScanTypes, NEW j \in Jobs, Begin(j)
  PROVE  ScanTypes'
  <1>1. /\ clock' = clock /\ pos' = pos /\ closed' = closed /\ meta' = meta /\ lock' = lock
        /\ repair' = repair /\ bought' = bought /\ excused' = excused /\ caught' = caught /\ twice' = twice
    BY DEF Begin, tables, history
  <1>2. job[j] \in Due /\ UtcDate(clock) \in Dates
    BY JobIs, DateTypes DEF Begin, ScanTypes
  <1>3. [at |-> "scan", ms |-> job[j].ms, due |-> job[j].due, today |-> UtcDate(clock)] \in ScanJob
    BY <1>2 DEF Due, Scanning, ScanJob
  <1>4. job' \in [Jobs -> ScanJob]
    BY <1>3, GotoTypes, IdleTypes DEF Begin, Goto
  <1>5. running' \in [Procs -> BOOLEAN]
    BY DEF Begin, ScanTypes
  <1> QED
    BY <1>1, <1>4, <1>5 DEF ScanTypes

LEMMA RunScanTypes ==
  ASSUME ScanTypes, NEW j \in Jobs, RunScan(j)
  PROVE  ScanTypes'
  <1>1. /\ clock' = clock /\ pos' = pos /\ closed' = closed /\ meta' = meta /\ lock' = lock /\ running' = running
        /\ repair' = repair /\ bought' = bought /\ excused' = excused /\ caught' = caught /\ twice' = twice
    BY DEF RunScan, tables, history
  <1>2. job[j] \in Scanning
    BY JobIs DEF RunScan
  <1>3. PICK buy \in SUBSET StocksOf(job[j].ms), sell \in SUBSET StocksOf(job[j].ms) :
           job' = [job EXCEPT ![j] = [at |-> "lock", ms |-> job[j].ms, due |-> job[j].due,
                                      today |-> job[j].today, buy |-> buy, sell |-> sell]]
    BY DEF RunScan, Goto
  <1>4. buy \in SUBSET Stocks /\ sell \in SUBSET Stocks
    BY StocksOfTypes
  <1>5. [at |-> "lock", ms |-> job[j].ms, due |-> job[j].due, today |-> job[j].today, buy |-> buy, sell |-> sell] \in ScanJob
    BY <1>2, <1>4 DEF Scanning, Scanned, ScanJob
  <1>6. job' \in [Jobs -> ScanJob]
    BY <1>3, <1>5, GotoTypes
  <1> QED
    BY <1>1, <1>6 DEF ScanTypes

LEMMA TryLockTypes ==
  ASSUME ScanTypes, NEW j \in Jobs, TryLock(j)
  PROVE  ScanTypes'
  <1>1. /\ clock' = clock /\ pos' = pos /\ closed' = closed /\ meta' = meta
        /\ repair' = repair /\ bought' = bought /\ excused' = excused /\ caught' = caught /\ twice' = twice
    BY DEF TryLock, tables, history
  <1>2. job[j] \in Scanned /\ pos \in LotBook
    BY JobIs DEF TryLock, ScanTypes
  <1>3. [at |-> "save", ms |-> job[j].ms, due |-> job[j].due, today |-> job[j].today, buy |-> job[j].buy,
         sell |-> job[j].sell, view |-> pos] \in ScanJob
    BY <1>2 DEF Scanned, Saving, ScanJob
  <1>4. job' \in [Jobs -> ScanJob]
    BY <1>3, GotoTypes, IdleTypes DEF TryLock, Goto, Aborted, Finish
  <1>5. running' \in [Procs -> BOOLEAN] /\ lock' \in Jobs \cup {Nobody, Repairer}
    BY DEF TryLock, Aborted, Finish, ScanTypes
  <1> QED
    BY <1>1, <1>4, <1>5 DEF ScanTypes

\* The positions a scan writes, and the trades it closes.
LEMMA UpdatedTypes ==
  ASSUME NEW r \in Saving
  PROVE  /\ Updated(r) \in LotBook /\ Exits(r) \in SUBSET Trade
         /\ \A s \in Stocks : r.view[s] \in Seq(Dates)
  <1>1. r.view \in LotBook /\ r.today \in Dates /\ r.sell \in SUBSET Stocks
    BY DEF Saving
  <1>2. \A s \in Stocks : r.view[s] \in Seq(Dates)
    BY <1>1 DEF LotBook
  <1>3. ASSUME NEW s \in Stocks PROVE Updated(r)[s] \in Seq(Dates)
    <2>1. Append(r.view[s], r.today) \in Seq(Dates) /\ <<>> \in Seq(Dates)
      BY <1>1, <1>2, AppendProperties, EmptySeq
    <2> QED
      BY <1>2, <2>1 DEF Updated
  <1>4. Updated(r) \in LotBook
    BY <1>3 DEF Updated, LotBook
  <1>5. ASSUME NEW s \in Sold(r)
        PROVE  [s |-> s, in |-> Head(r.view[s]), out |-> r.today, n |-> Len(r.view[s])] \in Trade
    <2>1. s \in Stocks /\ r.view[s] # <<>>
      BY <1>1 DEF Sold
    <2>2. Head(r.view[s]) \in Dates /\ Len(r.view[s]) \in Nat \ {0}
      BY <1>2, <2>1, HeadTailProperties, EmptySeq
    <2> QED
      BY <1>1, <2>1, <2>2 DEF Trade
  <1>6. Exits(r) \in SUBSET Trade
    BY <1>5 DEF Exits
  <1> QED
    BY <1>2, <1>4, <1>6

LEMMA SavePositionsTypes ==
  ASSUME ScanTypes, NEW j \in Jobs, SavePositions(j)
  PROVE  ScanTypes'
  <1> DEFINE r == job[j]
  <1>1. /\ clock' = clock /\ closed' = closed /\ meta' = meta /\ lock' = lock /\ running' = running
        /\ repair' = repair /\ twice' = twice
        /\ pos' = Updated(r) /\ excused' = excused \cup Overwritten(r.view)
        /\ bought' = [s \in Stocks |-> bought[s] + (IF s \in r.buy THEN 1 ELSE 0)]
        /\ caught' = [m \in Markets |-> caught[m] + (IF m \in r.ms /\ r.due = TradingDate(m, clock) THEN 1 ELSE 0)]
        /\ job' = [job EXCEPT ![j] = [at |-> "append", ms |-> r.ms, exits |-> Exits(r)]]
    BY DEF SavePositions, Goto
  <1>2. r \in Saving
    BY JobIs DEF SavePositions
  <1> HIDE DEF r
  <1>3. Updated(r) \in LotBook /\ Exits(r) \in SUBSET Trade /\ r.ms \in SUBSET Markets
    BY <1>2, UpdatedTypes DEF Saving
  <1>4. [at |-> "append", ms |-> r.ms, exits |-> Exits(r)] \in ScanJob
    BY <1>3 DEF ScanJob, Closings
  <1>5. job' \in [Jobs -> ScanJob]
    BY <1>1, <1>4, GotoTypes
  <1>6. bought' \in [Stocks -> Nat] /\ caught' \in [Markets -> Nat]
    BY <1>1 DEF ScanTypes
  <1>7. excused' \in SUBSET Stocks
    BY <1>1 DEF ScanTypes, Overwritten
  <1> QED
    BY <1>1, <1>3, <1>5, <1>6, <1>7 DEF ScanTypes

LEMMA AppendClosedTypes ==
  ASSUME ScanTypes, NEW j \in Jobs, AppendClosed(j)
  PROVE  ScanTypes'
  <1>1. /\ clock' = clock /\ pos' = pos /\ meta' = meta /\ running' = running
        /\ repair' = repair /\ bought' = bought /\ caught' = caught /\ twice' = twice
    BY DEF AppendClosed
  <1>2. job[j] \in Closings
    BY JobIs DEF AppendClosed
  <1>3. job[j].exits \in SUBSET Trade /\ job[j].ms \in SUBSET Markets
    BY <1>2 DEF Closings
  <1>4. [at |-> "record", ms |-> job[j].ms] \in ScanJob
    BY <1>3 DEF Recording, ScanJob
  <1>5. job' \in [Jobs -> ScanJob]
    BY <1>4, GotoTypes DEF AppendClosed, Goto
  <1>6. closed' \in SUBSET Trade
    BY <1>3 DEF AppendClosed, ScanTypes
  <1>7. excused' \in SUBSET Stocks
    BY <1>3 DEF AppendClosed, ScanTypes, Duplicates, Trade
  <1>8. lock' \in Jobs \cup {Nobody, Repairer}
    BY DEF AppendClosed, Unlocks
  <1> QED
    BY <1>1, <1>5, <1>6, <1>7, <1>8 DEF ScanTypes

LEMMA RecordTypes ==
  ASSUME ScanTypes, NEW j \in Jobs, RecordMarketScan(j)
  PROVE  ScanTypes'
  <1>1. /\ clock' = clock /\ pos' = pos /\ closed' = closed /\ lock' = lock
        /\ repair' = repair /\ bought' = bought /\ excused' = excused /\ caught' = caught /\ twice' = twice
    BY DEF RecordMarketScan, history
  <1>2. job[j] \in Recording
    BY JobIs DEF RecordMarketScan
  <1>3. job[j].ms \in SUBSET Markets
    BY <1>2 DEF Recording
  <1>4. PICK m \in job[j].ms :
           /\ meta' = [meta EXCEPT ![m] = TradingDate(m, clock)]
           /\ IF job[j].ms = {m} THEN Finish(j)
              ELSE Goto(j, [at |-> "record", ms |-> job[j].ms \ {m}]) /\ UNCHANGED running
    BY DEF RecordMarketScan
  <1>5. TradingDate(m, clock) \in Nat
    BY <1>3, TradingDateTypes DEF ScanTypes
  <1>6. meta' \in [Markets -> Nat]
    BY <1>4, <1>5 DEF ScanTypes
  <1>7. [at |-> "record", ms |-> job[j].ms \ {m}] \in ScanJob
    BY <1>3 DEF Recording, ScanJob
  <1>8. job' \in [Jobs -> ScanJob]
    BY <1>4, <1>7, GotoTypes, IdleTypes DEF Goto, Finish
  <1>9. running' \in [Procs -> BOOLEAN]
    BY <1>4 DEF Finish, ScanTypes
  <1> QED
    BY <1>1, <1>6, <1>8, <1>9 DEF ScanTypes

\* What a scan leaves unfinished.
LEMMA UnfinishedTypes ==
  ASSUME ScanTypes, NEW j \in Jobs
  PROVE  Unrecorded(job[j]) \in SUBSET Markets /\ Unclosed(job[j]) \in SUBSET Stocks
  <1>1. job[j].at \in {"append", "record"} => job[j].ms \in SUBSET Markets
    BY JobIs DEF Closings, Recording
  <1>2. job[j].at = "append" => job[j].exits \in SUBSET Trade
    BY JobIs DEF Closings
  <1>3. Unrecorded(job[j]) \in SUBSET Markets
    BY <1>1 DEF Unrecorded, HalfDone
  <1>4. Unclosed(job[j]) \in SUBSET Stocks
    BY <1>2 DEF Unclosed, Trade
  <1> QED
    BY <1>3, <1>4

LEMMA FailsTypes ==
  ASSUME ScanTypes, NEW j \in Jobs, Fails(j)
  PROVE  ScanTypes'
  <1>1. /\ clock' = clock /\ pos' = pos /\ closed' = closed /\ meta' = meta
        /\ repair' = repair /\ bought' = bought /\ caught' = caught
        /\ excused' = excused \cup Unclosed(job[j]) /\ twice' = twice \cup Unrecorded(job[j])
    BY DEF Fails, tables
  <1>2. job' \in [Jobs -> ScanJob]
    BY GotoTypes, IdleTypes DEF Fails, Goto, Aborted, Finish
  <1>3. running' \in [Procs -> BOOLEAN] /\ lock' \in Jobs \cup {Nobody, Repairer}
    BY DEF Fails, Aborted, Finish, Unlocks, ScanTypes
  <1>4. excused' \in SUBSET Stocks /\ twice' \in SUBSET Markets
    BY <1>1, UnfinishedTypes DEF ScanTypes
  <1> QED
    BY <1>1, <1>2, <1>3, <1>4 DEF ScanTypes

LEMMA RestartTypes ==
  ASSUME ScanTypes, NEW p \in Procs, Restart(p)
  PROVE  ScanTypes'
  <1> DEFINE mine == {j \in Jobs : j[1] = p}
  <1>1. /\ clock' = clock /\ pos' = pos /\ closed' = closed /\ meta' = meta
        /\ repair' = repair /\ bought' = bought /\ caught' = caught
        /\ job' = [j \in Jobs |-> IF j \in mine THEN Idle ELSE job[j]]
        /\ excused' = excused \cup UNION {Unclosed(job[j]) : j \in mine}
        /\ twice' = twice \cup UNION {Unrecorded(job[j]) : j \in mine}
        /\ lock' = IF lock \in mine THEN Nobody ELSE lock
        /\ running' = [running EXCEPT ![p] = FALSE]
    BY DEF Restart, tables
  <1>2. job' \in [Jobs -> ScanJob]
    BY <1>1, IdleTypes DEF ScanTypes
  <1>3. running' \in [Procs -> BOOLEAN]
    BY <1>1 DEF ScanTypes
  <1>4. lock' \in Jobs \cup {Nobody, Repairer}
    BY <1>1 DEF ScanTypes
  <1>5. \A j \in mine : Unrecorded(job[j]) \in SUBSET Markets /\ Unclosed(job[j]) \in SUBSET Stocks
    BY UnfinishedTypes
  <1> HIDE DEF mine
  <1>6. excused' \in SUBSET Stocks /\ twice' \in SUBSET Markets
    BY <1>1, <1>5 DEF ScanTypes
  <1> QED
    BY <1>1, <1>2, <1>3, <1>4, <1>6 DEF ScanTypes

LEMMA RepairIs ==
  ASSUME ScanTypes
  PROVE  /\ repair.at = "fix" => repair \in Fixing
         /\ repair.at \in {"restore", "history"} => repair \in Restoring
         /\ repair.at \in {"idle", "fix", "restore", "history"}
         /\ repair.at = "idle" <=> repair = Idle
  BY DEF ScanTypes, Idle, Fixing, Restoring

LEMMA FixTypes ==
  ASSUME ScanTypes, FixPricesReads \/ FixPricesSaves
  PROVE  ScanTypes'
  <1>1. /\ clock' = clock /\ closed' = closed /\ meta' = meta /\ lock' = lock /\ running' = running
        /\ job' = job /\ bought' = bought /\ caught' = caught /\ twice' = twice
    BY DEF FixPricesReads, FixPricesSaves, tables, history
  <1>2. CASE FixPricesReads
    <2>1. pos' = pos /\ excused' = excused /\ repair' = [at |-> "fix", view |-> pos]
      BY <1>2 DEF FixPricesReads, tables, history
    <2>2. repair' \in Fixing
      BY <2>1 DEF Fixing, ScanTypes
    <2> QED
      BY <1>1, <2>1, <2>2 DEF ScanTypes
  <1>3. CASE FixPricesSaves
    <2>1. pos' = repair.view /\ excused' = excused \cup Overwritten(repair.view) /\ repair' = Idle
      BY <1>3 DEF FixPricesSaves
    <2>2. repair.view \in LotBook
      BY <1>3, RepairIs DEF FixPricesSaves, Fixing
    <2>3. excused' \in SUBSET Stocks
      BY <2>1 DEF Overwritten, ScanTypes
    <2> QED
      BY <1>1, <2>1, <2>2, <2>3 DEF ScanTypes
  <1> QED
    BY <1>2, <1>3

\* What a restoring repair reads.
LEMMA RestoreReadsFits ==
  ASSUME ScanTypes, RestoreReads
  PROVE  \E match \in SUBSET closed, pick \in SUBSET Trade :
            /\ pick \subseteq match /\ \A c \in pick : pos[c.s] = <<>>
            /\ \A c, d \in pick : c.s = d.s => c = d
            /\ repair' = [at |-> "restore", view |-> pos, seen |-> closed, kept |-> closed \ match,
                          back |-> pick, lost |-> {c.s : c \in match \ pick}]
  <1>1. PICK m \in Markets, out \in {c.out : c \in closed} :
           LET match == {c \in closed : MarketOf[c.s] = m /\ c.out = out}
               back == {c \in match : pos[c.s] = <<>>}
           IN \E pick \in SUBSET back :
                 /\ \A c, d \in pick : c.s = d.s => c = d
                 /\ repair' = [at |-> "restore", view |-> pos, seen |-> closed, kept |-> closed \ match,
                               back |-> pick, lost |-> {c.s : c \in match \ pick}]
    BY DEF RestoreReads
  <1> DEFINE match == {c \in closed : MarketOf[c.s] = m /\ c.out = out}
             back == {c \in match : pos[c.s] = <<>>}
  <1>2. PICK pick \in SUBSET back :
           /\ \A c, d \in pick : c.s = d.s => c = d
           /\ repair' = [at |-> "restore", view |-> pos, seen |-> closed, kept |-> closed \ match,
                         back |-> pick, lost |-> {c.s : c \in match \ pick}]
    BY <1>1
  <1>3. match \in SUBSET closed /\ pick \subseteq match /\ pick \in SUBSET Trade /\ \A c \in pick : pos[c.s] = <<>>
    BY DEF ScanTypes
  <1> HIDE DEF match, back
  <1> QED
    BY <1>2, <1>3

LEMMA RestoreReadsTypes ==
  ASSUME ScanTypes, RestoreReads
  PROVE  ScanTypes'
  <1>1. /\ clock' = clock /\ pos' = pos /\ closed' = closed /\ meta' = meta /\ lock' = lock /\ running' = running
        /\ job' = job /\ bought' = bought /\ excused' = excused /\ caught' = caught /\ twice' = twice
    BY DEF RestoreReads, tables, history
  <1>2. PICK match \in SUBSET closed, pick \in SUBSET Trade :
           repair' = [at |-> "restore", view |-> pos, seen |-> closed, kept |-> closed \ match,
                      back |-> pick, lost |-> {c.s : c \in match \ pick}]
    BY RestoreReadsFits
  <1>3. {c.s : c \in match \ pick} \in SUBSET Stocks /\ closed \ match \in SUBSET Trade
    BY DEF ScanTypes, Trade
  <1>4. repair' \in Restoring
    BY <1>2, <1>3 DEF Restoring, ScanTypes
  <1> QED
    BY <1>1, <1>4 DEF ScanTypes

\* The lots of a trade that is reopened.
LEMMA ReopenedTypes ==
  ASSUME ScanTypes, NEW view \in LotBook, NEW back \in SUBSET Trade
  PROVE  /\ Reopened(view, back) \in LotBook
         /\ \A s \in Stocks : \/ \E c \in back : c.s = s /\ Len(Reopened(view, back)[s]) = c.n
                              \/ (~\E c \in back : c.s = s) /\ Reopened(view, back)[s] = view[s]
  <1>1. ASSUME NEW s \in Stocks
        PROVE  /\ Reopened(view, back)[s] \in Seq(Dates)
               /\ \/ \E c \in back : c.s = s /\ Len(Reopened(view, back)[s]) = c.n
                  \/ (~\E c \in back : c.s = s) /\ Reopened(view, back)[s] = view[s]
    <2>1. CASE \E c \in back : c.s = s
      <3> DEFINE c == CHOOSE d \in back : d.s = s
      <3>1. c \in back /\ c.s = s
        BY <2>1
      <3>2. Reopened(view, back)[s] = [i \in 1 .. c.n |-> c.in]
        BY <2>1 DEF Reopened
      <3> HIDE DEF c
      <3>3. c.n \in Nat /\ c.in \in Dates
        BY <3>1 DEF Trade
      <3>4. [i \in 1 .. c.n |-> c.in] \in Seq(Dates) /\ Len([i \in 1 .. c.n |-> c.in]) = c.n
        BY <3>3
      <3> QED
        BY <3>1, <3>2, <3>4
    <2>2. CASE ~\E c \in back : c.s = s
      BY <2>2 DEF Reopened, LotBook
    <2> QED
      BY <2>1, <2>2
  <1>2. Reopened(view, back) \in LotBook
    <2> DEFINE new == Reopened(view, back)
    <2>1. new = [s \in Stocks |-> new[s]]
      BY DEF Reopened
    <2> HIDE DEF new
    <2>2. \A s \in Stocks : new[s] \in Seq(Dates)
      BY <1>1 DEF new
    <2>3. new \in LotBook
      BY <2>1, <2>2 DEF LotBook
    <2> QED
      BY <2>3 DEF new
  <1> QED
    BY <1>1, <1>2

\* A repair that gets into the body of the lock is not over.
LEMMA RepairGoesOn ==
  ASSUME ScanTypes, repair.at = "restore"
  PROVE  [repair EXCEPT !.at = "history"] # Idle
  <1>1. repair \in Restoring
    BY RepairIs
  <1>2. [repair EXCEPT !.at = "history"].at = "history"
    BY <1>1 DEF Restoring
  <1> QED
    BY <1>2, IdleTypes

LEMMA RestoreSavesTypes ==
  ASSUME ScanTypes, RestoreSavesPositions \/ RestoreSavesHistory
  PROVE  ScanTypes'
  <1>1. /\ clock' = clock /\ meta' = meta /\ running' = running
        /\ job' = job /\ bought' = bought /\ caught' = caught /\ twice' = twice
    BY DEF RestoreSavesPositions, RestoreSavesHistory
  <1>2. repair \in Restoring
    BY RepairIs DEF RestoreSavesPositions, RestoreSavesHistory
  <1>3. repair.view \in LotBook /\ repair.back \in SUBSET Trade /\ repair.kept \in SUBSET Trade /\ repair.lost \in SUBSET Stocks
    BY <1>2 DEF Restoring
  <1>4. CASE RestoreSavesPositions /\ repair' = Idle
    <2>1. pos' = pos /\ lock' = lock /\ excused' = excused /\ closed' = closed /\ repair' = Idle
      BY <1>4, RepairGoesOn DEF RestoreSavesPositions
    <2> QED
      BY <1>1, <2>1 DEF ScanTypes
  <1>5. CASE RestoreSavesPositions /\ repair' # Idle
    <2>1. /\ pos' = Reopened(repair.view, repair.back) /\ lock' = Repairer /\ closed' = closed
          /\ excused' = excused \cup Overwritten(repair.view) /\ repair' = [repair EXCEPT !.at = "history"]
      BY <1>5 DEF RestoreSavesPositions
    <2>2. repair' \in Restoring
      BY <1>2, <2>1 DEF Restoring
    <2>3. pos' \in LotBook
      BY <1>3, <2>1, ReopenedTypes
    <2>4. excused' \in SUBSET Stocks
      BY <2>1 DEF Overwritten, ScanTypes
    <2> QED
      BY <1>1, <2>1, <2>2, <2>3, <2>4 DEF ScanTypes
  <1>6. CASE RestoreSavesHistory
    <2>1. /\ closed' = repair.kept /\ excused' = excused \cup repair.lost \cup {c.s : c \in closed \ repair.seen}
          /\ lock' = Nobody /\ repair' = Idle /\ pos' = pos
      BY <1>6 DEF RestoreSavesHistory, Unlocks
    <2>2. excused' \in SUBSET Stocks
      BY <1>3, <2>1 DEF ScanTypes, Trade
    <2> QED
      BY <1>1, <1>3, <2>1, <2>2 DEF ScanTypes
  <1> QED
    BY <1>4, <1>5, <1>6

LEMMA ResetTypes ==
  ASSUME ScanTypes, Reset
  PROVE  ScanTypes'
  <1>1. /\ clock' = clock /\ lock' = lock /\ running' = running /\ job' = job /\ repair' = repair
        /\ pos' = [s \in Stocks |-> <<>>] /\ closed' = {} /\ meta' = [m \in Markets |-> 0]
        /\ bought' = [s \in Stocks |-> 0] /\ caught' = [m \in Markets |-> 0] /\ twice' = Markets
        /\ excused' \in {{}, Stocks}
    BY DEF Reset
  <1>2. pos' \in LotBook
    BY <1>1, EmptySeq DEF LotBook
  <1> QED
    BY <1>1, <1>2 DEF ScanTypes

LEMMA TickTypes ==
  ASSUME ScanTypes, Tick
  PROVE  ScanTypes'
  <1>1. /\ pos' = pos /\ closed' = closed /\ meta' = meta /\ lock' = lock /\ running' = running
        /\ job' = job /\ repair' = repair /\ bought' = bought /\ excused' = excused
        /\ clock' = clock + 1 /\ clock < LastSlot
    BY DEF Tick, tables
  <1>2. clock' \in FirstSlot .. LastSlot
    BY <1>1, SlotConstants DEF ScanTypes
  <1>3. caught' \in [Markets -> Nat] /\ twice' \in SUBSET Markets
    BY DEF Tick, ScanTypes
  <1> QED
    BY <1>1, <1>2, <1>3 DEF ScanTypes

LEMMA ScanTypesKeep == ScanTypes /\ [Next]_vars => ScanTypes'
  <1> SUFFICES ASSUME ScanTypes, [Next]_vars PROVE ScanTypes'
    OBVIOUS
  <1>1. ASSUME NEW p \in Procs, SchedulerAsks(p) \/ TriggerScan(p) \/ Restart(p) PROVE ScanTypes'
    BY <1>1, AskTypes, RestartTypes
  <1>2. ASSUME NEW j \in Jobs, Begin(j) \/ RunScan(j) \/ TryLock(j) PROVE ScanTypes'
    BY <1>2, BeginTypes, RunScanTypes, TryLockTypes
  <1>3. ASSUME NEW j \in Jobs, SavePositions(j) \/ AppendClosed(j) \/ RecordMarketScan(j) \/ Fails(j) PROVE ScanTypes'
    BY <1>3, SavePositionsTypes, AppendClosedTypes, RecordTypes, FailsTypes
  <1>4. ASSUME FixPricesReads \/ FixPricesSaves \/ RestoreReads PROVE ScanTypes'
    BY <1>4, FixTypes, RestoreReadsTypes
  <1>5. ASSUME RestoreSavesPositions \/ RestoreSavesHistory \/ Reset \/ Tick PROVE ScanTypes'
    BY <1>5, RestoreSavesTypes, ResetTypes, TickTypes
  <1>6. CASE ConnectionCloses \/ UNCHANGED vars
    BY <1>6 DEF ConnectionCloses, vars, tables, history, ScanTypes
  <1> QED
    BY <1>1, <1>2, <1>3, <1>4, <1>5, <1>6 DEF Next, JobStep, RepairStep

-----------------------------------------------------------------------------
(* The lock and the flags of the processes.                                *)

Holds(j) == job[j].at \in {"save", "append"}

LEMMA LocksUntouched ==
  ASSUME ScanLocks, lock' = lock, running' = running, repair'.at = "history" <=> repair.at = "history",
         \A k \in Jobs : (Holds(k)' <=> Holds(k)) /\ (Working(k)' <=> Working(k))
  PROVE  ScanLocks'
  BY DEF ScanLocks, Holds

\* A scan ends, whether it holds the lock or not.
LEMMA JobEndsLocks ==
  ASSUME ScanTypes, ScanLocks, NEW j \in Jobs, Working(j), job' = [job EXCEPT ![j] = Idle],
         running' = [running EXCEPT ![j[1]] = FALSE], lock' = IF lock = j THEN Nobody ELSE lock, repair' = repair
  PROVE  ScanLocks'
  <1>1. job'[j] = Idle /\ \A k \in Jobs : k # j => job'[k] = job[k]
    BY GotoTypes, IdleTypes
  <1>2. ~Working(j)' /\ ~Holds(j)'
    BY <1>1, IdleTypes DEF Working, Holds
  <1>3. \A k \in Jobs : k # j => (Working(k)' <=> Working(k)) /\ (Holds(k)' <=> Holds(k))
    BY <1>1 DEF Working, Holds
  <1>4. \A k \in Jobs : Holds(k)' <=> lock' = k
    BY <1>2, <1>3, JobsAre DEF ScanLocks, Holds
  <1>5. repair'.at = "history" <=> lock' = Repairer
    BY JobsAre DEF ScanLocks
  <1>6. \A p \in Procs : running'[p] <=> \E k \in Jobs : k[1] = p /\ Working(k)'
    <2> SUFFICES ASSUME NEW p \in Procs PROVE running'[p] <=> \E k \in Jobs : k[1] = p /\ Working(k)'
      OBVIOUS
    <2>1. CASE p = j[1]
      <3>1. ~running'[p]
        BY <2>1 DEF ScanTypes
      <3>2. \A k \in Jobs : k[1] = p /\ Working(k) => k = j
        BY <2>1 DEF ScanLocks
      <3> QED
        BY <3>1, <3>2, <1>2, <1>3
    <2>2. CASE p # j[1]
      <3>1. running'[p] = running[p]
        BY <2>2 DEF ScanTypes
      <3> QED
        BY <2>2, <3>1, <1>2, <1>3 DEF ScanLocks
    <2> QED
      BY <2>1, <2>2
  <1>7. \A k, l \in Jobs : Working(k)' /\ Working(l)' /\ k[1] = l[1] => k = l
    BY <1>2, <1>3 DEF ScanLocks
  <1> QED
    BY <1>4, <1>5, <1>6, <1>7 DEF ScanLocks, Holds

LEMMA AskLocks ==
  ASSUME ScanTypes, ScanLocks, NEW p \in Procs, SchedulerAsks(p) \/ TriggerScan(p)
  PROVE  ScanLocks'
  <1>1. lock' = lock /\ running' = running /\ repair' = repair
    BY DEF SchedulerAsks, TriggerScan
  <1>2. PICK j \in Jobs, ms \in SUBSET Markets, due \in Nat :
           job[j] = Idle /\ job' = [job EXCEPT ![j] = [at |-> "asked", ms |-> ms, due |-> due]]
    <2>1. CASE SchedulerAsks(p)
      <3>1. PICK m \in Markets : Goto(<<p, "sched">>, [at |-> "asked", ms |-> {m}, due |-> TradingDate(m, clock)])
        BY <2>1 DEF SchedulerAsks
      <3>2. TradingDate(m, clock) \in Nat /\ {m} \in SUBSET Markets
        BY TradingDateTypes DEF ScanTypes
      <3> QED
        BY <2>1, <3>1, <3>2, JobsAre DEF Goto, SchedulerAsks
    <2>2. CASE TriggerScan(p)
      BY <2>2, JobsAre DEF TriggerScan, Goto
    <2> QED
      BY <2>1, <2>2
  <1>3. [at |-> "asked", ms |-> ms, due |-> due] \in ScanJob
    BY DEF ScanJob, Due
  <1>4. job'[j].at = "asked" /\ \A k \in Jobs : k # j => job'[k] = job[k]
    BY <1>2, <1>3, GotoTypes
  <1>5. ~Working(j) /\ ~Working(j)' /\ ~Holds(j) /\ ~Holds(j)'
    BY <1>2, <1>4, IdleTypes DEF Working, Holds
  <1>6. \A k \in Jobs : (Holds(k)' <=> Holds(k)) /\ (Working(k)' <=> Working(k))
    BY <1>4, <1>5 DEF Working, Holds
  <1> QED
    BY <1>1, <1>6, LocksUntouched

LEMMA BeginLocks ==
  ASSUME ScanTypes, ScanLocks, NEW j \in Jobs, Begin(j)
  PROVE  ScanLocks'
  <1>1. lock' = lock /\ repair' = repair /\ job[j].at = "asked" /\ ~Working(j) /\ ~Holds(j)
    BY DEF Begin, Working, Holds
  <1>2. CASE running[j[1]]
    <2>1. job' = [job EXCEPT ![j] = Idle] /\ running' = running
      BY <1>2 DEF Begin, Goto
    <2>2. job'[j].at = "idle" /\ \A k \in Jobs : k # j => job'[k] = job[k]
      BY <2>1, GotoTypes, IdleTypes
    <2>3. \A k \in Jobs : (Holds(k)' <=> Holds(k)) /\ (Working(k)' <=> Working(k))
      BY <1>1, <2>2 DEF Working, Holds
    <2> QED
      BY <1>1, <2>1, <2>3, LocksUntouched
  <1>3. CASE ~running[j[1]]
    <2> DEFINE r == [at |-> "scan", ms |-> job[j].ms, due |-> job[j].due, today |-> UtcDate(clock)]
    <2>1. job' = [job EXCEPT ![j] = r] /\ running' = [running EXCEPT ![j[1]] = TRUE]
      BY <1>3 DEF Begin, Goto
    <2>2. r.at = "scan"
      OBVIOUS
    <2>3. job \in [Jobs -> ScanJob] /\ j[1] \in Procs
      BY JobsAre DEF ScanTypes
    <2> HIDE DEF r
    <2>4. job'[j].at = "scan" /\ \A k \in Jobs : k # j => job'[k] = job[k]
      BY <2>1, <2>2, <2>3
    <2>5. Working(j)' /\ ~Holds(j)' /\ \A k \in Jobs : k # j => (Working(k)' <=> Working(k)) /\ (Holds(k)' <=> Holds(k))
      BY <2>4 DEF Working, Holds
    <2>6. \A k \in Jobs : k[1] = j[1] => ~Working(k)
      BY <1>3, <2>3 DEF ScanLocks
    <2>7. running'[j[1]] = TRUE /\ \A p \in Procs : p # j[1] => running'[p] = running[p]
      BY <2>1, <2>3 DEF ScanTypes
    <2>8. \A p \in Procs : running'[p] <=> \E k \in Jobs : k[1] = p /\ Working(k)'
      BY <2>5, <2>6, <2>7 DEF ScanLocks
    <2>9. \A k, l \in Jobs : Working(k)' /\ Working(l)' /\ k[1] = l[1] => k = l
      BY <2>5, <2>6 DEF ScanLocks
    <2>10. \A k \in Jobs : Holds(k)' <=> lock' = k
      BY <1>1, <2>5 DEF ScanLocks, Holds
    <2> QED
      BY <1>1, <2>8, <2>9, <2>10 DEF ScanLocks, Holds
  <1> QED
    BY <1>2, <1>3

LEMMA RunScanLocks ==
  ASSUME ScanTypes, ScanLocks, NEW j \in Jobs, RunScan(j)
  PROVE  ScanLocks'
  <1>1. lock' = lock /\ repair' = repair /\ running' = running /\ job[j].at = "scan"
    BY DEF RunScan
  <1>2. PICK buy, sell :
           job' = [job EXCEPT ![j] = [at |-> "lock", ms |-> job[j].ms, due |-> job[j].due,
                                      today |-> job[j].today, buy |-> buy, sell |-> sell]]
    BY DEF RunScan, Goto
  <1>3. job'[j].at = "lock" /\ \A k \in Jobs : k # j => job'[k] = job[k]
    BY <1>2 DEF ScanTypes
  <1>4. \A k \in Jobs : (Holds(k)' <=> Holds(k)) /\ (Working(k)' <=> Working(k))
    BY <1>1, <1>3 DEF Working, Holds
  <1> QED
    BY <1>1, <1>4, LocksUntouched

LEMMA TryLockLocks ==
  ASSUME ScanTypes, ScanLocks, NEW j \in Jobs, TryLock(j)
  PROVE  ScanLocks'
  <1>1. repair' = repair /\ job[j].at = "lock" /\ Working(j) /\ ~Holds(j) /\ lock # j
    BY DEF TryLock, Working, Holds, ScanLocks
  <1>2. CASE Aborted(j) /\ lock' = lock
    <2>1. job' = [job EXCEPT ![j] = Idle] /\ running' = [running EXCEPT ![j[1]] = FALSE] /\ lock' = lock
      BY <1>2 DEF Aborted, Finish, Goto
    <2> QED
      BY <1>1, <2>1, JobEndsLocks
  <1>3. CASE ~(Aborted(j) /\ lock' = lock)
    <2> DEFINE r == [at |-> "save", ms |-> job[j].ms, due |-> job[j].due, today |-> job[j].today,
                     buy |-> job[j].buy, sell |-> job[j].sell, view |-> pos]
    <2>1. job' = [job EXCEPT ![j] = r] /\ running' = running /\ lock' = j /\ lock = Nobody
      BY <1>3 DEF TryLock, Goto
    <2>2. r.at = "save"
      OBVIOUS
    <2> HIDE DEF r
    <2>3. job'[j].at = "save" /\ \A k \in Jobs : k # j => job'[k] = job[k]
      BY <2>1, <2>2 DEF ScanTypes
    <2>4. Working(j)' /\ Holds(j)' /\ \A k \in Jobs : k # j => (Working(k)' <=> Working(k)) /\ (Holds(k)' <=> Holds(k))
      BY <2>3 DEF Working, Holds
    <2>5. \A k \in Jobs : ~Holds(k)
      BY <2>1, JobsAre DEF ScanLocks, Holds
    <2>6. \A k \in Jobs : Holds(k)' <=> lock' = k
      BY <2>1, <2>4, <2>5
    <2>7. repair.at # "history" /\ lock' # Repairer
      BY <2>1, JobsAre DEF ScanLocks
    <2>8. \A k \in Jobs : Working(k)' <=> Working(k)
      BY <1>1, <2>4
    <2> QED
      BY <1>1, <2>1, <2>6, <2>7, <2>8 DEF ScanLocks, Holds
  <1> QED
    BY <1>2, <1>3

LEMMA SavePositionsLocks ==
  ASSUME ScanTypes, ScanLocks, NEW j \in Jobs, SavePositions(j)
  PROVE  ScanLocks'
  <1>1. /\ lock' = lock /\ repair' = repair /\ running' = running /\ job[j].at = "save"
        /\ job' = [job EXCEPT ![j] = [at |-> "append", ms |-> job[j].ms, exits |-> Exits(job[j])]]
    BY DEF SavePositions, Goto
  <1>2. job'[j].at = "append" /\ \A k \in Jobs : k # j => job'[k] = job[k]
    BY <1>1 DEF ScanTypes
  <1>3. \A k \in Jobs : (Holds(k)' <=> Holds(k)) /\ (Working(k)' <=> Working(k))
    BY <1>1, <1>2 DEF Working, Holds
  <1> QED
    BY <1>1, <1>3, LocksUntouched

LEMMA AppendClosedLocks ==
  ASSUME ScanTypes, ScanLocks, NEW j \in Jobs, AppendClosed(j)
  PROVE  ScanLocks'
  <1>1. /\ lock' = Nobody /\ repair' = repair /\ running' = running /\ job[j].at = "append"
        /\ job' = [job EXCEPT ![j] = [at |-> "record", ms |-> job[j].ms]]
    BY DEF AppendClosed, Goto, Unlocks
  <1>2. job'[j].at = "record" /\ \A k \in Jobs : k # j => job'[k] = job[k]
    BY <1>1 DEF ScanTypes
  <1>3. lock = j
    BY <1>1 DEF ScanLocks
  <1>4. \A k \in Jobs : (Working(k)' <=> Working(k)) /\ ~Holds(k)'
    BY <1>1, <1>2, <1>3 DEF Working, Holds, ScanLocks
  <1>5. repair'.at # "history" /\ lock' # Repairer /\ \A k \in Jobs : lock' # k
    BY <1>1, <1>3, JobsAre DEF ScanLocks
  <1> QED
    BY <1>1, <1>4, <1>5 DEF ScanLocks, Holds

LEMMA RecordLocks ==
  ASSUME ScanTypes, ScanLocks, NEW j \in Jobs, RecordMarketScan(j)
  PROVE  ScanLocks'
  <1>1. lock' = lock /\ repair' = repair /\ job[j].at = "record" /\ Working(j) /\ ~Holds(j) /\ lock # j
    BY DEF RecordMarketScan, Working, Holds, ScanLocks
  <1>2. PICK m \in job[j].ms :
           IF job[j].ms = {m} THEN Finish(j)
           ELSE Goto(j, [at |-> "record", ms |-> job[j].ms \ {m}]) /\ UNCHANGED running
    BY DEF RecordMarketScan
  <1>3. CASE job[j].ms = {m}
    BY <1>1, <1>2, <1>3, JobEndsLocks DEF Finish, Goto
  <1>4. CASE job[j].ms # {m}
    <2>1. job'[j].at = "record" /\ running' = running /\ \A k \in Jobs : k # j => job'[k] = job[k]
      BY <1>2, <1>4 DEF ScanTypes, Goto
    <2>2. \A k \in Jobs : (Holds(k)' <=> Holds(k)) /\ (Working(k)' <=> Working(k))
      BY <1>1, <2>1 DEF Working, Holds
    <2> QED
      BY <1>1, <2>1, <2>2, LocksUntouched
  <1> QED
    BY <1>3, <1>4

LEMMA FailsLocks ==
  ASSUME ScanTypes, ScanLocks, NEW j \in Jobs, Fails(j)
  PROVE  ScanLocks'
  <1>1. /\ Working(j) /\ repair' = repair /\ lock' = IF lock = j THEN Nobody ELSE lock
        /\ job' = [job EXCEPT ![j] = Idle] /\ running' = [running EXCEPT ![j[1]] = FALSE]
    BY DEF Fails, Aborted, Finish, Goto, Working, Unlocks
  <1> QED
    BY <1>1, JobEndsLocks

LEMMA RestartLocks ==
  ASSUME ScanTypes, ScanLocks, NEW p \in Procs, Restart(p)
  PROVE  ScanLocks'
  <1> DEFINE mine == {j \in Jobs : j[1] = p}
  <1>1. /\ repair' = repair /\ job' = [j \in Jobs |-> IF j \in mine THEN Idle ELSE job[j]]
        /\ lock' = IF lock \in mine THEN Nobody ELSE lock
        /\ running' = [running EXCEPT ![p] = FALSE]
    BY DEF Restart
  <1>2. \A j \in mine : ~Working(j)' /\ ~Holds(j)'
    BY <1>1, IdleTypes DEF Working, Holds
  <1>3. \A j \in Jobs \ mine : (Working(j)' <=> Working(j)) /\ (Holds(j)' <=> Holds(j))
    BY <1>1 DEF Working, Holds
  <1>4. \A j \in Jobs : j \in mine <=> j[1] = p
    OBVIOUS
  <1> HIDE DEF mine
  <1>5. \A j \in Jobs : Holds(j)' <=> lock' = j
    <2>1. \A j \in Jobs : Holds(j) <=> lock = j
      BY DEF ScanLocks, Holds
    <2> QED
      BY <1>1, <1>2, <1>3, <2>1, JobsAre
  <1>6. repair'.at = "history" <=> lock' = Repairer
    <2>1. mine \subseteq Jobs
      BY DEF mine
    <2> QED
      BY <1>1, <2>1, JobsAre DEF ScanLocks
  <1>7. \A q \in Procs : running'[q] <=> \E j \in Jobs : j[1] = q /\ Working(j)'
    <2>1. ~running'[p] /\ \A q \in Procs : q # p => running'[q] = running[q]
      BY <1>1 DEF ScanTypes
    <2> QED
      BY <1>2, <1>3, <1>4, <2>1 DEF ScanLocks
  <1>8. \A j, k \in Jobs : Working(j)' /\ Working(k)' /\ j[1] = k[1] => j = k
    BY <1>2, <1>3 DEF ScanLocks
  <1> QED
    BY <1>5, <1>6, <1>7, <1>8 DEF ScanLocks, Holds

LEMMA RepairLocks ==
  ASSUME ScanTypes, ScanLocks,
         FixPricesReads \/ FixPricesSaves \/ RestoreReads \/ RestoreSavesPositions \/ RestoreSavesHistory \/ Reset \/ Tick
  PROVE  ScanLocks'
  <1>1. job' = job /\ running' = running /\ \A j \in Jobs : (Working(j)' <=> Working(j)) /\ (Holds(j)' <=> Holds(j))
    BY DEF FixPricesReads, FixPricesSaves, RestoreReads, RestoreSavesPositions, RestoreSavesHistory, Reset, Tick, Working, Holds
  <1>2. CASE FixPricesReads \/ FixPricesSaves
    <2>1. lock' = lock /\ repair'.at # "history" /\ repair.at # "history"
      BY <1>2, IdleTypes DEF FixPricesReads, FixPricesSaves
    <2> QED
      BY <1>1, <2>1, LocksUntouched
  <1>3. CASE RestoreReads
    <2>1. lock' = lock /\ repair = Idle
      BY <1>3 DEF RestoreReads
    <2>2. repair'.at = "restore" /\ repair.at # "history"
      BY <1>3, <2>1, RestoreReadsFits, IdleTypes
    <2> QED
      BY <1>1, <2>1, <2>2, LocksUntouched
  <1>4. CASE RestoreSavesPositions /\ repair' = Idle
    <2>1. lock' = lock /\ repair'.at # "history" /\ repair.at # "history"
      BY <1>4, RepairGoesOn, IdleTypes DEF RestoreSavesPositions
    <2> QED
      BY <1>1, <2>1, LocksUntouched
  <1>5. CASE RestoreSavesPositions /\ repair' # Idle
    <2>1. lock' = Repairer /\ lock = Nobody /\ repair' = [repair EXCEPT !.at = "history"] /\ repair.at = "restore"
      BY <1>5 DEF RestoreSavesPositions
    <2>2. repair'.at = "history"
      BY <2>1, RepairIs DEF Restoring
    <2>3. \A j \in Jobs : ~Holds(j) /\ lock' # j
      BY <2>1, JobsAre DEF ScanLocks, Holds
    <2> QED
      BY <1>1, <2>1, <2>2, <2>3 DEF ScanLocks, Holds
  <1>6. CASE RestoreSavesHistory
    <2>1. lock' = Nobody /\ repair'.at # "history" /\ repair.at = "history"
      BY <1>6, IdleTypes DEF RestoreSavesHistory, Unlocks
    <2>2. lock = Repairer
      BY <2>1 DEF ScanLocks
    <2>3. \A j \in Jobs : ~Holds(j) /\ lock' # j
      BY <2>1, <2>2, JobsAre DEF ScanLocks, Holds
    <2>4. lock' # Repairer
      BY <2>1, JobsAre
    <2> QED
      BY <1>1, <2>1, <2>3, <2>4 DEF ScanLocks, Holds
  <1>7. CASE Reset \/ Tick
    <2>1. lock' = lock /\ repair' = repair
      BY <1>7 DEF Reset, Tick
    <2> QED
      BY <1>1, <2>1, LocksUntouched
  <1> QED
    BY <1>2, <1>3, <1>4, <1>5, <1>6, <1>7

LEMMA ScanLocksKeep == ScanTypes /\ ScanLocks /\ [Next]_vars => ScanLocks'
  <1> SUFFICES ASSUME ScanTypes, ScanLocks, [Next]_vars PROVE ScanLocks'
    OBVIOUS
  <1>1. ASSUME NEW p \in Procs, SchedulerAsks(p) \/ TriggerScan(p) \/ Restart(p) PROVE ScanLocks'
    BY <1>1, AskLocks, RestartLocks
  <1>2. ASSUME NEW j \in Jobs, Begin(j) \/ RunScan(j) \/ TryLock(j) PROVE ScanLocks'
    BY <1>2, BeginLocks, RunScanLocks, TryLockLocks
  <1>3. ASSUME NEW j \in Jobs, SavePositions(j) \/ AppendClosed(j) \/ RecordMarketScan(j) \/ Fails(j) PROVE ScanLocks'
    BY <1>3, SavePositionsLocks, AppendClosedLocks, RecordLocks, FailsLocks
  <1>4. CASE ConnectionCloses \/ UNCHANGED vars
    BY <1>4 DEF ConnectionCloses, vars, tables, history, ScanLocks, Working
  <1> QED
    BY <1>1, <1>2, <1>3, <1>4, RepairLocks DEF Next, JobStep, RepairStep

\* A body of the lock ends.
LEMMA UnlocksStuck ==
  ASSUME StuckFits, NEW ps \in SUBSET Procs, Unlocks(ps)
  PROVE  StuckFits'
  BY JobsAre DEF StuckFits, Unlocks

LEMMA StuckKeeps == ScanTypes /\ StuckFits /\ [Next]_vars => StuckFits'
  <1> SUFFICES ASSUME ScanTypes, StuckFits, [Next]_vars PROVE StuckFits'
    OBVIOUS
  <1>1. CASE UNCHANGED <<lock, stuck>>
    BY <1>1 DEF StuckFits
  <1>2. ASSUME NEW j \in Jobs, TryLock(j) PROVE StuckFits'
    BY <1>1, <1>2 DEF TryLock, StuckFits
  <1>3. ASSUME NEW j \in Jobs, AppendClosed(j) \/ Fails(j) PROVE StuckFits'
    <2>1. {j[1]} \in SUBSET Procs
      BY JobsAre
    <2> QED
      BY <1>1, <1>3, <2>1, UnlocksStuck DEF AppendClosed, Fails
  <1>4. ASSUME NEW p \in Procs, Restart(p) PROVE StuckFits'
    <2>1. stuck' = stuck \ {p} /\ (lock' = lock \/ lock' = Nobody)
      BY <1>4 DEF Restart
    <2> QED
      BY <2>1, JobsAre DEF StuckFits
  <1>5. CASE RestoreSavesPositions
    <2>1. stuck' = stuck /\ (lock' = lock \/ lock' = Repairer)
      BY <1>5 DEF RestoreSavesPositions
    <2> QED
      BY <2>1, JobsAre DEF StuckFits
  <1>6. CASE RestoreSavesHistory
    BY <1>6, UnlocksStuck DEF RestoreSavesHistory
  <1>7. CASE ConnectionCloses
    BY <1>7, JobsAre DEF ConnectionCloses, StuckFits
  <1>8. ASSUME NEW j \in Jobs, Begin(j) \/ RunScan(j) \/ SavePositions(j) \/ RecordMarketScan(j) PROVE StuckFits'
    BY <1>1, <1>8 DEF Begin, RunScan, SavePositions, RecordMarketScan
  <1>9. ASSUME NEW p \in Procs, SchedulerAsks(p) \/ TriggerScan(p) PROVE StuckFits'
    BY <1>1, <1>9 DEF SchedulerAsks, TriggerScan
  <1>10. CASE Tick \/ FixPricesReads \/ FixPricesSaves \/ RestoreReads \/ Reset \/ UNCHANGED vars
    BY <1>1, <1>10 DEF Tick, FixPricesReads, FixPricesSaves, RestoreReads, Reset, vars
  <1> QED
    BY <1>2, <1>3, <1>4, <1>5, <1>6, <1>7, <1>8, <1>9, <1>10 DEF Next, JobStep, RepairStep

-----------------------------------------------------------------------------
(* What a scan carries along.                                              *)

LEMMA OneJobFits ==
  ASSUME ScanFits, NEW j \in Jobs, \A k \in Jobs : k # j => job'[k] = job[k], clock' = clock,
         Decided(j)', OneExit(j)', DueBefore(j)'
  PROVE  ScanFits'
  BY DEF ScanFits, Decided, OneExit, DueBefore

LEMMA JobEndsFits ==
  ASSUME ScanTypes, ScanFits, NEW j \in Jobs, job' = [job EXCEPT ![j] = Idle], clock' = clock
  PROVE  ScanFits'
  <1>1. job'[j].at = "idle" /\ \A k \in Jobs : k # j => job'[k] = job[k]
    BY GotoTypes, IdleTypes
  <1>2. Decided(j)' /\ OneExit(j)' /\ DueBefore(j)'
    BY <1>1 DEF Decided, OneExit, DueBefore
  <1> QED
    BY <1>1, <1>2, OneJobFits

LEMMA AskFits ==
  ASSUME ScanTypes, ScanFits, NEW p \in Procs, SchedulerAsks(p) \/ TriggerScan(p)
  PROVE  ScanFits'
  <1>1. clock' = clock
    BY DEF SchedulerAsks, TriggerScan
  <1>2. CASE SchedulerAsks(p)
    <2> DEFINE j == <<p, "sched">>
    <2>1. PICK m \in Markets : job' = [job EXCEPT ![j] = [at |-> "asked", ms |-> {m}, due |-> TradingDate(m, clock)]]
      BY <1>2 DEF SchedulerAsks, Goto
    <2>2. j \in Jobs /\ j[2] = "sched"
      BY JobsAre
    <2>3. /\ job'[j].at = "asked" /\ job'[j].ms = {m} /\ job'[j].due = TradingDate(m, clock)
          /\ \A k \in Jobs : k # j => job'[k] = job[k]
      BY <2>1, <2>2 DEF ScanTypes
    <2>4. TradingDate(m, clock) <= TradingDate(m, clock)
      BY TradingDateTypes DEF ScanTypes
    <2> HIDE DEF j
    <2>5. \A n \in job'[j].ms : job'[j].due <= TradingDate(n, clock')
      BY <1>1, <2>3, <2>4
    <2>6. Decided(j)' /\ OneExit(j)' /\ DueBefore(j)'
      BY <2>2, <2>3, <2>5 DEF Decided, OneExit, DueBefore
    <2> QED
      BY <1>1, <2>2, <2>3, <2>6, OneJobFits
  <1>3. CASE TriggerScan(p)
    <2> DEFINE j == <<p, "manual">>
    <2>1. PICK ms : job' = [job EXCEPT ![j] = [at |-> "asked", ms |-> ms, due |-> 0]]
      BY <1>3 DEF TriggerScan, Goto
    <2>2. j \in Jobs /\ j[2] = "manual"
      BY JobsAre
    <2>3. job'[j].at = "asked" /\ job'[j].due = 0 /\ \A k \in Jobs : k # j => job'[k] = job[k]
      BY <2>1, <2>2 DEF ScanTypes
    <2> HIDE DEF j
    <2>4. Decided(j)' /\ OneExit(j)' /\ DueBefore(j)'
      BY <2>2, <2>3 DEF Decided, OneExit, DueBefore
    <2> QED
      BY <1>1, <2>2, <2>3, <2>4, OneJobFits
  <1> QED
    BY <1>2, <1>3

\* A step of a scan that hands on what it is due for.
LEMMA DueHandedOn ==
  ASSUME ScanFits, NEW j \in Jobs, job[j].at \in {"asked", "scan", "lock", "save"},
         job'[j].ms = job[j].ms, job'[j].due = job[j].due, clock' = clock
  PROVE  DueBefore(j)'
  BY DEF ScanFits, DueBefore

LEMMA StepFits ==
  ASSUME ScanTypes, ScanFits, NEW j \in Jobs, Begin(j) \/ RunScan(j) \/ TryLock(j)
  PROVE  ScanFits'
  <1>1. clock' = clock
    BY DEF Begin, RunScan, TryLock
  <1>2. CASE job' = [job EXCEPT ![j] = Idle]
    BY <1>1, <1>2, JobEndsFits
  <1>3. CASE Begin(j) /\ job' # [job EXCEPT ![j] = Idle]
    <2>1. job' = [job EXCEPT ![j] = [at |-> "scan", ms |-> job[j].ms, due |-> job[j].due, today |-> UtcDate(clock)]]
          /\ job[j].at = "asked"
      BY <1>3 DEF Begin, Goto
    <2>2. /\ job'[j].at = "scan" /\ job'[j].ms = job[j].ms /\ job'[j].due = job[j].due
          /\ \A k \in Jobs : k # j => job'[k] = job[k]
      BY <2>1 DEF ScanTypes
    <2>3. Decided(j)' /\ OneExit(j)'
      BY <2>2 DEF Decided, OneExit
    <2> QED
      BY <1>1, <2>1, <2>2, <2>3, DueHandedOn, OneJobFits
  <1>4. CASE RunScan(j)
    <2>1. PICK buy, sell :
             /\ buy \cap sell = {}
             /\ job' = [job EXCEPT ![j] = [at |-> "lock", ms |-> job[j].ms, due |-> job[j].due,
                                           today |-> job[j].today, buy |-> buy, sell |-> sell]]
      <3>1. PICK buy : \E sell \in SUBSET (StocksOf(job[j].ms) \ buy) :
               Goto(j, [at |-> "lock", ms |-> job[j].ms, due |-> job[j].due,
                        today |-> job[j].today, buy |-> buy, sell |-> sell])
        BY <1>4 DEF RunScan
      <3>2. PICK sell \in SUBSET (StocksOf(job[j].ms) \ buy) :
               Goto(j, [at |-> "lock", ms |-> job[j].ms, due |-> job[j].due,
                        today |-> job[j].today, buy |-> buy, sell |-> sell])
        BY <3>1
      <3>3. buy \cap sell = {}
        BY <3>2
      <3> QED
        BY <3>2, <3>3 DEF Goto
    <2>2. /\ job'[j].at = "lock" /\ job'[j].ms = job[j].ms /\ job'[j].due = job[j].due
          /\ job'[j].buy = buy /\ job'[j].sell = sell
          /\ \A k \in Jobs : k # j => job'[k] = job[k]
      BY <2>1 DEF ScanTypes
    <2>3. Decided(j)' /\ OneExit(j)'
      BY <2>1, <2>2 DEF Decided, OneExit
    <2> QED
      BY <1>1, <1>4, <2>2, <2>3, DueHandedOn, OneJobFits DEF RunScan
  <1>5. CASE TryLock(j) /\ job' # [job EXCEPT ![j] = Idle]
    <2>1. /\ job[j].at = "lock"
          /\ job' = [job EXCEPT ![j] = [at |-> "save", ms |-> job[j].ms, due |-> job[j].due, today |-> job[j].today,
                                        buy |-> job[j].buy, sell |-> job[j].sell, view |-> pos]]
      BY <1>5 DEF TryLock, Goto, Aborted, Finish
    <2>2. /\ job'[j].at = "save" /\ job'[j].ms = job[j].ms /\ job'[j].due = job[j].due
          /\ job'[j].buy = job[j].buy /\ job'[j].sell = job[j].sell
          /\ \A k \in Jobs : k # j => job'[k] = job[k]
      BY <2>1 DEF ScanTypes
    <2>3. Decided(j)' /\ OneExit(j)'
      BY <2>1, <2>2 DEF Decided, OneExit, ScanFits
    <2> QED
      BY <1>1, <2>1, <2>2, <2>3, DueHandedOn, OneJobFits
  <1> QED
    BY <1>2, <1>3, <1>4, <1>5

LEMMA WriteFits ==
  ASSUME ScanTypes, ScanFits, NEW j \in Jobs,
         SavePositions(j) \/ AppendClosed(j) \/ RecordMarketScan(j) \/ Fails(j)
  PROVE  ScanFits'
  <1>1. clock' = clock
    BY DEF SavePositions, AppendClosed, RecordMarketScan, Fails
  <1>2. CASE job' = [job EXCEPT ![j] = Idle]
    BY <1>1, <1>2, JobEndsFits
  <1>3. CASE SavePositions(j)
    <2>1. job' = [job EXCEPT ![j] = [at |-> "append", ms |-> job[j].ms, exits |-> Exits(job[j])]]
      BY <1>3 DEF SavePositions, Goto
    <2>2. /\ job'[j].at = "append" /\ job'[j].exits = Exits(job[j]) /\ \A k \in Jobs : k # j => job'[k] = job[k]
      BY <2>1 DEF ScanTypes
    <2>3. \A e, f \in Exits(job[j]) : e.s = f.s => e = f
      BY DEF Exits
    <2>4. Decided(j)' /\ OneExit(j)' /\ DueBefore(j)'
      BY <2>2, <2>3 DEF Decided, OneExit, DueBefore
    <2> QED
      BY <1>1, <2>2, <2>4, OneJobFits
  <1>4. CASE (AppendClosed(j) \/ RecordMarketScan(j)) /\ job' # [job EXCEPT ![j] = Idle]
    <2>1. PICK ms : job' = [job EXCEPT ![j] = [at |-> "record", ms |-> ms]]
      BY <1>4 DEF AppendClosed, RecordMarketScan, Finish, Goto
    <2>2. job'[j].at = "record" /\ \A k \in Jobs : k # j => job'[k] = job[k]
      BY <2>1 DEF ScanTypes
    <2>3. Decided(j)' /\ OneExit(j)' /\ DueBefore(j)'
      BY <2>2 DEF Decided, OneExit, DueBefore
    <2> QED
      BY <1>1, <2>2, <2>3, OneJobFits
  <1>5. CASE Fails(j)
    BY <1>2, <1>5 DEF Fails, Aborted, Finish, Goto
  <1> QED
    BY <1>2, <1>3, <1>4, <1>5

LEMMA RestartFits ==
  ASSUME ScanTypes, ScanFits, NEW p \in Procs, Restart(p)
  PROVE  ScanFits'
  <1>1. clock' = clock /\ \A j \in Jobs : job'[j] = job[j] \/ job'[j].at = "idle"
    BY IdleTypes DEF Restart
  <1>2. ASSUME NEW j \in Jobs PROVE Decided(j)' /\ OneExit(j)' /\ DueBefore(j)'
    BY <1>1 DEF ScanFits, Decided, OneExit, DueBefore
  <1> QED
    BY <1>2 DEF ScanFits

LEMMA TickFits ==
  ASSUME ScanTypes, ScanFits, Tick
  PROVE  ScanFits'
  <1>1. job' = job /\ clock' = clock + 1 /\ clock \in FirstSlot .. LastSlot /\ clock' \in FirstSlot .. LastSlot
    BY TickTypes DEF Tick, ScanTypes
  <1>2. ASSUME NEW j \in Jobs PROVE DueBefore(j)'
    <2> SUFFICES ASSUME job[j].at \in {"asked", "scan", "lock", "save"}, j[2] = "sched", NEW m \in job[j].ms
                 PROVE  job[j].due <= TradingDate(m, clock')
      BY <1>1 DEF ScanFits, DueBefore
    <2>1. job[j].due \in Nat /\ m \in Markets
      BY JobIs DEF Due, Scanning, Scanned, Saving
    <2>2. job[j].due <= TradingDate(m, clock)
      BY DEF ScanFits, DueBefore
    <2>3. TradingDate(m, clock) \in Nat /\ TradingDate(m, clock') \in Nat /\ TradingDate(m, clock) <= TradingDate(m, clock')
      BY <1>1, <2>1, TradingDateTypes, TradingDateGrows
    <2> QED
      BY <2>1, <2>2, <2>3
  <1>3. \A j \in Jobs : Decided(j)' /\ OneExit(j)'
    BY <1>1 DEF ScanFits, Decided, OneExit
  <1> QED
    BY <1>2, <1>3 DEF ScanFits

LEMMA ScanFitsKeep == ScanTypes /\ ScanFits /\ [Next]_vars => ScanFits'
  <1> SUFFICES ASSUME ScanTypes, ScanFits, [Next]_vars PROVE ScanFits'
    OBVIOUS
  <1>1. ASSUME NEW p \in Procs, SchedulerAsks(p) \/ TriggerScan(p) \/ Restart(p) PROVE ScanFits'
    BY <1>1, AskFits, RestartFits
  <1>2. ASSUME NEW j \in Jobs, JobStep(j) \/ Fails(j) PROVE ScanFits'
    BY <1>2, StepFits, WriteFits DEF JobStep
  <1>3. CASE Tick
    BY <1>3, TickFits
  <1>4. ASSUME FixPricesReads \/ RestoreReads \/ RepairStep \/ Reset \/ ConnectionCloses \/ UNCHANGED vars PROVE ScanFits'
    <2>1. job' = job /\ clock' = clock
      BY <1>4 DEF FixPricesReads, RestoreReads, RepairStep, FixPricesSaves, RestoreSavesPositions, RestoreSavesHistory,
                  Reset, ConnectionCloses, vars
    <2> QED
      BY <2>1 DEF ScanFits, Decided, OneExit, DueBefore
  <1> QED
    BY <1>1, <1>2, <1>3, <1>4 DEF Next

-----------------------------------------------------------------------------
(* The books.                                                              *)

LEMMA LotsTypes ==
  ASSUME NEW trades \in SUBSET Trade, NEW s, IsFiniteSet(TradesOf(trades, s))
  PROVE  Lots(trades, s) \in Nat
  <1> DEFINE A == TradesOf(trades, s)
  <1>1. IsFiniteSet(A) /\ \A c \in A : c.n \in Nat
    BY DEF TradesOf, Trade
  <1> HIDE DEF A
  <1>2. IsFiniteSet(LotsIn(A))
    BY <1>1, LotsAreFinite
  <1>3. Cardinality(LotsIn(A)) \in Nat
    BY <1>2, FS_CardinalityType
  <1> QED
    BY <1>3 DEF Lots, A

LEMMA NoLots ==
  ASSUME NEW trades, NEW s, TradesOf(trades, s) = {}
  PROVE  Lots(trades, s) = 0
  BY LotsNone DEF Lots

LEMMA LotsOfOne ==
  ASSUME NEW trades, NEW s, NEW c, c.n \in Nat, TradesOf(trades, s) = {c}
  PROVE  Lots(trades, s) = c.n
  BY LotsOne DEF Lots

LEMMA LotsOfBoth ==
  ASSUME NEW trades \in SUBSET Trade, NEW more \in SUBSET Trade, NEW s,
         IsFiniteSet(TradesOf(trades, s)), IsFiniteSet(TradesOf(more, s)),
         TradesOf(trades, s) \cap TradesOf(more, s) = {}
  PROVE  /\ IsFiniteSet(TradesOf(trades \cup more, s))
         /\ Lots(trades \cup more, s) = Lots(trades, s) + Lots(more, s)
  <1> DEFINE A == TradesOf(trades, s)
             C == TradesOf(more, s)
  <1>1. TradesOf(trades \cup more, s) = A \cup C
    BY DEF TradesOf
  <1>2. \A c \in A \cup C : c.n \in Nat
    BY DEF TradesOf, Trade
  <1>3. IsFiniteSet(A) /\ IsFiniteSet(C) /\ A \cap C = {}
    OBVIOUS
  <1> HIDE DEF A, C
  <1>4. IsFiniteSet(A \cup C)
    BY <1>3, FS_Union
  <1>5. Cardinality(LotsIn(A \cup C)) = Cardinality(LotsIn(A)) + Cardinality(LotsIn(C))
    BY <1>2, <1>3, LotsAdd
  <1> QED
    BY <1>1, <1>4, <1>5 DEF Lots, A, C

\* One trade at most closes a stock.
LEMMA ExitsOf ==
  ASSUME NEW exits \in SUBSET Trade, NEW s, \A e, f \in exits : e.s = f.s => e = f
  PROVE  /\ IsFiniteSet(TradesOf(exits, s)) /\ Lots(exits, s) \in Nat
         /\ \/ TradesOf(exits, s) = {} /\ Lots(exits, s) = 0
            \/ \E e \in exits : e.s = s /\ TradesOf(exits, s) = {e} /\ Lots(exits, s) = e.n
  <1>1. CASE TradesOf(exits, s) = {}
    BY <1>1, NoLots, FS_EmptySet
  <1>2. CASE TradesOf(exits, s) # {}
    <2>1. PICK e \in exits : e.s = s
      BY <1>2 DEF TradesOf
    <2>2. TradesOf(exits, s) = {e}
      BY <2>1 DEF TradesOf
    <2>3. e.n \in Nat
      BY DEF Trade
    <2>4. IsFiniteSet(TradesOf(exits, s))
      BY <2>2, FS_Singleton
    <2>5. Lots(exits, s) = e.n
      BY <2>2, <2>3, LotsOfOne
    <2> QED
      BY <2>1, <2>2, <2>3, <2>4, <2>5
  <1> QED
    BY <1>1, <1>2

LEMMA OwedTypes ==
  ASSUME ScanTypes, ScanFits, NEW s
  PROVE  Owed(s) \in Nat
  <1>1. CASE lock \in Jobs /\ job[lock].at = "append"
    <2>1. job[lock].exits \in SUBSET Trade
      BY <1>1, JobIs DEF Closings
    <2>2. \A e, f \in job[lock].exits : e.s = f.s => e = f
      BY <1>1 DEF ScanFits, OneExit
    <2>3. Lots(job[lock].exits, s) \in Nat
      BY <2>1, <2>2, ExitsOf
    <2> QED
      BY <1>1, <2>3 DEF Owed
  <1>2. CASE ~(lock \in Jobs /\ job[lock].at = "append")
    BY <1>2 DEF Owed
  <1> QED
    BY <1>1, <1>2

\* Nothing of the books is touched, what is owed stays owed.
LEMMA BooksUntouched ==
  ASSUME ScanTypes, BooksFit, pos' = pos, closed' = closed, bought' = bought, repair' = repair,
         excused \subseteq excused', excused' \subseteq Stocks,
         \A s \in Stocks \ excused' : Owed(s)' = Owed(s)
  PROVE  BooksFit'
  <1>1. RestoreFits'
    BY DEF BooksFit, RestoreFits, ScanTypes
  <1>2. repair'.at # "history" =>
          \A s \in Stocks \ excused' : bought'[s] = Len(pos'[s]) + Lots(closed', s) + Owed(s)'
    BY DEF BooksFit
  <1>3. Behind' = Behind
    BY DEF Behind
  <1>4. repair'.at = "history" =>
          \A s \in Stocks \ (excused' \cup repair'.lost \cup Behind') : bought'[s] = Len(pos'[s]) + Lots(repair'.kept, s)
    BY <1>3 DEF BooksFit
  <1>5. \A s \in Stocks : IsFiniteSet(TradesOf(closed', s))
    BY DEF BooksFit
  <1> QED
    BY <1>1, <1>2, <1>4, <1>5 DEF BooksFit, Lots, TradesOf

\* A step of a scan that has nothing to do with the books.
LEMMA BooksStand ==
  ASSUME ScanTypes, BooksFit, pos' = pos, closed' = closed, bought' = bought, repair' = repair, excused' = excused,
         lock' = lock, \A k \in Jobs : job'[k] = job[k] \/ (job[k].at # "append" /\ job'[k].at # "append")
  PROVE  BooksFit'
  <1>1. \A s \in Stocks : Owed(s)' = Owed(s)
    BY DEF Owed, Lots, TradesOf
  <1>2. excused' \subseteq Stocks
    BY DEF ScanTypes
  <1> QED
    BY <1>1, <1>2, BooksUntouched

LEMMA AskBooks ==
  ASSUME ScanTypes, BooksFit, NEW p \in Procs, SchedulerAsks(p) \/ TriggerScan(p)
  PROVE  BooksFit'
  <1>1. /\ pos' = pos /\ closed' = closed /\ lock' = lock /\ repair' = repair /\ bought' = bought /\ excused' = excused
    BY DEF SchedulerAsks, TriggerScan, tables, history
  <1>2. PICK j, ms, due : j \in Jobs /\ job[j] = Idle /\ job' = [job EXCEPT ![j] = [at |-> "asked", ms |-> ms, due |-> due]]
    BY JobsAre DEF SchedulerAsks, TriggerScan, Goto
  <1>3. job'[j].at = "asked" /\ \A k \in Jobs : k # j => job'[k] = job[k]
    BY <1>2 DEF ScanTypes
  <1>4. \A k \in Jobs : job'[k] = job[k] \/ (job[k].at # "append" /\ job'[k].at # "append")
    BY <1>2, <1>3, IdleTypes
  <1> QED
    BY <1>1, <1>4, BooksStand

LEMMA StepBooks ==
  ASSUME ScanTypes, ScanLocks, BooksFit, NEW j \in Jobs, Begin(j) \/ RunScan(j) \/ RecordMarketScan(j)
  PROVE  BooksFit'
  <1>1. /\ pos' = pos /\ closed' = closed /\ lock' = lock /\ repair' = repair /\ bought' = bought /\ excused' = excused
        /\ job[j].at # "append"
    BY DEF Begin, RunScan, RecordMarketScan, tables, history
  <1>2. PICK r : job' = [job EXCEPT ![j] = r] /\ r.at # "append"
    <2>1. CASE Begin(j)
      BY <2>1, IdleTypes DEF Begin, Goto
    <2>2. CASE RunScan(j)
      BY <2>2 DEF RunScan, Goto
    <2>3. CASE RecordMarketScan(j)
      <3>1. job' = [job EXCEPT ![j] = Idle] \/ \E ms : job' = [job EXCEPT ![j] = [at |-> "record", ms |-> ms]]
        BY <2>3 DEF RecordMarketScan, Goto, Finish
      <3> QED
        BY <3>1, IdleTypes
    <2> QED
      BY <2>1, <2>2, <2>3
  <1>3. job'[j] = r /\ \A k \in Jobs : k # j => job'[k] = job[k]
    BY <1>2 DEF ScanTypes
  <1>4. \A k \in Jobs : job'[k] = job[k] \/ (job[k].at # "append" /\ job'[k].at # "append")
    BY <1>1, <1>2, <1>3
  <1> QED
    BY <1>1, <1>4, BooksStand

LEMMA TryLockBooks ==
  ASSUME ScanTypes, ScanLocks, BooksFit, NEW j \in Jobs, TryLock(j)
  PROVE  BooksFit'
  <1>1. /\ pos' = pos /\ closed' = closed /\ repair' = repair /\ bought' = bought /\ excused' = excused
        /\ job[j].at = "lock"
    BY DEF TryLock, tables, history
  <1>2. CASE Aborted(j) /\ lock' = lock
    <2>1. job' = [job EXCEPT ![j] = Idle] /\ lock' = lock
      BY <1>2 DEF Aborted, Finish, Goto
    <2>2. \A k \in Jobs : job'[k] = job[k] \/ (job[k].at # "append" /\ job'[k].at # "append")
      BY <1>1, <2>1, IdleTypes DEF ScanTypes
    <2> QED
      BY <1>1, <2>1, <2>2, BooksStand
  <1>3. CASE ~(Aborted(j) /\ lock' = lock)
    <2>1. lock' = j /\ lock = Nobody /\ \E r : r.at = "save" /\ job' = [job EXCEPT ![j] = r]
      BY <1>3 DEF TryLock, Goto
    <2>2. job'[j].at = "save"
      BY <2>1 DEF ScanTypes
    <2>3. \A s \in Stocks : Owed(s)' = 0 /\ Owed(s) = 0
      BY <2>1, <2>2, JobsAre DEF Owed
    <2>4. excused' \subseteq Stocks
      BY <1>1 DEF ScanTypes
    <2> QED
      BY <1>1, <2>3, <2>4, BooksUntouched
  <1> QED
    BY <1>2, <1>3

\* What a repair has read does not change as positions and history are written: a trade that is added
\* is not among what it has seen.
LEMMA RestoreStands ==
  ASSUME ScanTypes, RestoreFits, repair' = repair, closed \subseteq closed', excused \subseteq excused', excused' \subseteq Stocks
  PROVE  RestoreFits'
  BY DEF RestoreFits, ScanTypes

LEMMA SavePositionsBooks ==
  ASSUME ScanTypes, ScanLocks, ScanFits, BooksFit, NEW j \in Jobs, SavePositions(j)
  PROVE  BooksFit'
  <1> DEFINE r == job[j]
             es == Exits(r)
  <1>1. /\ closed' = closed /\ lock' = lock /\ repair' = repair /\ r.at = "save"
        /\ pos' = Updated(r) /\ excused' = excused \cup Overwritten(r.view)
        /\ bought' = [s \in Stocks |-> bought[s] + (IF s \in r.buy THEN 1 ELSE 0)]
        /\ job' = [job EXCEPT ![j] = [at |-> "append", ms |-> r.ms, exits |-> es]]
    BY DEF SavePositions, Goto
  <1>2. r \in Saving /\ r.buy \cap r.sell = {}
    BY <1>1, JobIs DEF ScanFits, Decided
  <1>3. lock = j /\ repair.at # "history"
    BY <1>1, JobsAre DEF ScanLocks
  <1>4. job'[j].at = "append" /\ job'[j].exits = es
    BY <1>1 DEF ScanTypes
  <1>5. \A s \in Stocks : Owed(s) = 0 /\ Owed(s)' = Lots(es, s)
    BY <1>1, <1>3, <1>4 DEF Owed, Lots, TradesOf
  <1>6. es \in SUBSET Trade /\ \A e, f \in es : e.s = f.s => e = f
    BY <1>2, UpdatedTypes DEF Exits
  <1>7. excused' \subseteq Stocks /\ excused \subseteq excused'
    BY <1>1 DEF ScanTypes, Overwritten
  <1>8. RestoreFits'
    BY <1>1, <1>7, RestoreStands DEF BooksFit
  <1>9. ASSUME NEW s \in Stocks \ excused'
        PROVE  bought'[s] = Len(pos'[s]) + Lots(closed, s) + Lots(es, s)
    <2>1. pos[s] = r.view[s] /\ s \notin excused
      BY <1>1 DEF Overwritten
    <2>2. bought[s] = Len(r.view[s]) + Lots(closed, s)
      <3>1. bought[s] = Len(pos[s]) + Lots(closed, s) + 0
        BY <2>1, <1>3, <1>5 DEF BooksFit
      <3>2. Lots(closed, s) \in Nat /\ Len(r.view[s]) \in Nat
        BY <1>2, UpdatedTypes, LenProperties, LotsTypes DEF BooksFit, ScanTypes
      <3> QED
        BY <2>1, <3>1, <3>2, SMTT(30)
    <2>3. r.view[s] \in Seq(Dates) /\ Len(r.view[s]) \in Nat /\ Lots(closed, s) \in Nat /\ r.today \in Dates
      BY <1>2, UpdatedTypes, LenProperties, LotsTypes DEF BooksFit, ScanTypes, Saving
    <2>4. CASE s \in Sold(r)
      <3>1. pos'[s] = <<>> /\ s \notin r.buy /\ bought'[s] = bought[s]
        BY <1>1, <1>2, <2>4 DEF Updated, Sold, ScanTypes
      <3> DEFINE e == [s |-> s, in |-> Head(r.view[s]), out |-> r.today, n |-> Len(r.view[s])]
      <3>2. e \in es /\ e.s = s /\ e.n = Len(r.view[s])
        BY <2>4 DEF Exits
      <3> HIDE DEF e
      <3>3. TradesOf(es, s) = {e}
        BY <1>6, <3>2 DEF TradesOf
      <3> HIDE DEF es
      <3>4. Lots(es, s) = Len(r.view[s])
        BY <2>3, <3>2, <3>3, LotsOfOne
      <3>5. Len(pos'[s]) = 0
        BY <3>1, EmptySeq
      <3> QED
        BY <2>2, <2>3, <3>1, <3>4, <3>5
    <2>5. CASE s \notin Sold(r)
      <3>1. TradesOf(es, s) = {}
        BY <2>5 DEF TradesOf, Exits
      <3> HIDE DEF es
      <3>2. Lots(es, s) = 0
        BY <3>1, NoLots
      <3>3. CASE s \in r.buy
        <4>1. pos'[s] = Append(r.view[s], r.today) /\ bought'[s] = bought[s] + 1
          BY <1>1, <2>5, <3>3 DEF Updated
        <4>2. Len(pos'[s]) = Len(r.view[s]) + 1
          BY <2>3, <4>1, AppendProperties
        <4> DEFINE n == Len(r.view[s])
                   l == Lots(closed, s)
        <4>3. n \in Nat /\ l \in Nat /\ bought[s] = n + l /\ Len(pos'[s]) = n + 1
          BY <2>2, <2>3, <4>2
        <4>4. bought'[s] = bought[s] + 1
          BY <4>1
        <4> HIDE DEF n, l
        <4>5. bought'[s] = (n + 1) + l + 0
          BY <4>3, <4>4
        <4> QED
          BY <3>2, <4>3, <4>5 DEF l
      <3>4. CASE s \notin r.buy
        <4>1. pos'[s] = r.view[s] /\ bought'[s] = bought[s] + 0
          BY <1>1, <2>5, <3>4 DEF Updated
        <4>2. bought[s] \in Nat
          BY DEF ScanTypes
        <4> QED
          BY <2>2, <2>3, <3>2, <4>1, <4>2
      <3> QED
        BY <3>3, <3>4
    <2> QED
      BY <2>4, <2>5
  <1> HIDE DEF es, r
  <1>10. \A s \in Stocks \ excused' : bought'[s] = Len(pos'[s]) + Lots(closed', s) + Owed(s)'
    BY <1>1, <1>5, <1>9
  <1>11. \A s \in Stocks : IsFiniteSet(TradesOf(closed', s))
    BY <1>1 DEF BooksFit
  <1>12. repair'.at # "history"
    BY <1>1, <1>3
  <1> QED
    BY <1>8, <1>10, <1>11, <1>12 DEF BooksFit, Lots, TradesOf

LEMMA AppendClosedBooks ==
  ASSUME ScanTypes, ScanLocks, ScanFits, BooksFit, NEW j \in Jobs, AppendClosed(j)
  PROVE  BooksFit'
  <1> DEFINE es == job[j].exits
             dup == Duplicates(es)
             new == es \ dup
  <1>1. /\ pos' = pos /\ bought' = bought /\ repair' = repair /\ job[j].at = "append" /\ lock' = Nobody
        /\ closed' = closed \cup new /\ excused' = excused \cup {e.s : e \in dup}
    BY DEF AppendClosed, Unlocks
  <1>2. lock = j /\ repair.at # "history"
    BY <1>1, JobsAre DEF ScanLocks
  <1>3. es \in SUBSET Trade
    BY <1>1, JobIs DEF Closings
  <1>4. \A e, f \in es : e.s = f.s => e = f
    BY <1>1 DEF ScanFits, OneExit
  <1>5. \A s \in Stocks : Owed(s) = Lots(es, s) /\ Owed(s)' = 0
    BY <1>1, <1>2, JobsAre DEF Owed
  <1>6. dup \subseteq es /\ \A e \in new : ~\E c \in closed : c.s = e.s /\ c.in = e.in /\ c.out = e.out
    BY DEF Duplicates
  <1> HIDE DEF es, dup
  <1>7. new \in SUBSET Trade /\ closed \in SUBSET Trade /\ new \cap closed = {} /\ \A e, f \in new : e.s = f.s => e = f
    BY <1>3, <1>4, <1>6 DEF ScanTypes
  <1>8. \A s : IsFiniteSet(TradesOf(new, s))
    BY <1>7, ExitsOf
  <1>9. \A s : TradesOf(closed, s) \cap TradesOf(new, s) = {}
    BY <1>7 DEF TradesOf
  <1>10. ASSUME NEW s \in Stocks
         PROVE  IsFiniteSet(TradesOf(closed', s)) /\ Lots(closed', s) = Lots(closed, s) + Lots(new, s)
    <2>1. IsFiniteSet(TradesOf(closed, s))
      BY DEF BooksFit
    <2> HIDE DEF new
    <2>2. IsFiniteSet(TradesOf(closed \cup new, s)) /\ Lots(closed \cup new, s) = Lots(closed, s) + Lots(new, s)
      BY <1>7, <1>8, <1>9, <2>1, LotsOfBoth
    <2> QED
      BY <1>1, <2>2
  <1>11. excused' \subseteq Stocks /\ excused \subseteq excused'
    BY <1>1, <1>3, <1>6 DEF ScanTypes, Trade
  <1>12. RestoreFits'
    BY <1>1, <1>11, RestoreStands DEF BooksFit
  <1>13. ASSUME NEW s \in Stocks \ excused'
         PROVE  bought'[s] = Len(pos'[s]) + Lots(closed', s) + Owed(s)'
    <2>1. bought[s] = Len(pos[s]) + Lots(closed, s) + Lots(es, s)
      BY <1>1, <1>2, <1>5, <1>11 DEF BooksFit
    <2>2. TradesOf(new, s) = TradesOf(es, s)
      BY <1>1 DEF TradesOf
    <2>3. Lots(new, s) = Lots(es, s)
      BY <2>2 DEF Lots
    <2>4. Lots(closed, s) \in Nat /\ Lots(es, s) \in Nat
      BY <1>3, <1>4, LotsTypes, ExitsOf DEF ScanTypes, BooksFit
    <2>5. pos[s] \in Seq(Dates)
      BY DEF ScanTypes, LotBook
    <2>6. Len(pos[s]) \in Nat
      BY <2>5, LenProperties
    <2>7. Lots(closed', s) = Lots(closed, s) + Lots(es, s)
      BY <1>10, <2>3
    <2> QED
      BY <1>1, <1>5, <2>1, <2>4, <2>6, <2>7
  <1>14. repair'.at # "history"
    BY <1>1, <1>2
  <1> QED
    BY <1>10, <1>12, <1>13, <1>14 DEF BooksFit, Lots, TradesOf

\* What is owed of a stock that is not excused is nothing, if its scan ends now.
LEMMA OwedIsExcused ==
  ASSUME ScanTypes, ScanLocks, NEW s \in Stocks, lock \in Jobs, s \notin Unclosed(job[lock])
  PROVE  Owed(s) = 0
  <1>1. CASE job[lock].at = "append"
    <2>1. TradesOf(job[lock].exits, s) = {}
      BY <1>1 DEF Unclosed, TradesOf
    <2> QED
      BY <1>1, <2>1, NoLots DEF Owed
  <1>2. CASE job[lock].at # "append"
    BY <1>2 DEF Owed
  <1> QED
    BY <1>1, <1>2

LEMMA FailsBooks ==
  ASSUME ScanTypes, ScanLocks, BooksFit, NEW j \in Jobs, Fails(j)
  PROVE  BooksFit'
  <1>1. /\ pos' = pos /\ closed' = closed /\ repair' = repair /\ bought' = bought
        /\ excused' = excused \cup Unclosed(job[j]) /\ lock' = IF lock = j THEN Nobody ELSE lock
        /\ job' = [job EXCEPT ![j] = Idle]
    BY DEF Fails, Aborted, Finish, Goto, Unlocks, tables
  <1>2. excused' \subseteq Stocks
    BY <1>1, UnfinishedTypes DEF ScanTypes
  <1>3. ASSUME NEW s \in Stocks \ excused' PROVE Owed(s)' = Owed(s)
    <2>1. CASE lock = j
      <3>1. Owed(s)' = 0
        BY <1>1, <2>1, JobsAre DEF Owed
      <3> QED
        BY <1>1, <2>1, <3>1, OwedIsExcused
    <2>2. CASE lock # j
      <3>1. lock' = lock /\ (lock \in Jobs => job'[lock] = job[lock])
        BY <1>1, <2>2 DEF ScanTypes
      <3> QED
        BY <3>1 DEF Owed, Lots, TradesOf
    <2> QED
      BY <2>1, <2>2
  <1> QED
    BY <1>1, <1>2, <1>3, BooksUntouched

LEMMA RestartBooks ==
  ASSUME ScanTypes, ScanLocks, BooksFit, NEW p \in Procs, Restart(p)
  PROVE  BooksFit'
  <1> DEFINE mine == {j \in Jobs : j[1] = p}
  <1>1. /\ pos' = pos /\ closed' = closed /\ repair' = repair /\ bought' = bought
        /\ excused' = excused \cup UNION {Unclosed(job[j]) : j \in mine}
        /\ lock' = IF lock \in mine THEN Nobody ELSE lock
        /\ job' = [j \in Jobs |-> IF j \in mine THEN Idle ELSE job[j]]
    BY DEF Restart, tables
  <1>2. excused' \subseteq Stocks
    BY RestartTypes DEF ScanTypes
  <1>3. mine \subseteq Jobs
    OBVIOUS
  <1> HIDE DEF mine
  <1>4. ASSUME NEW s \in Stocks \ excused' PROVE Owed(s)' = Owed(s)
    <2>1. CASE lock \in mine
      <3>1. Owed(s)' = 0
        BY <1>1, <2>1, JobsAre DEF Owed
      <3>2. s \notin Unclosed(job[lock])
        BY <1>1, <2>1
      <3> QED
        BY <1>3, <2>1, <3>1, <3>2, OwedIsExcused
    <2>2. CASE lock \notin mine
      <3>1. lock' = lock /\ (lock \in Jobs => job'[lock] = job[lock])
        BY <1>1, <2>2
      <3> QED
        BY <3>1 DEF Owed, Lots, TradesOf
    <2> QED
      BY <2>1, <2>2
  <1> QED
    BY <1>1, <1>2, <1>4, BooksUntouched

LEMMA FixBooks ==
  ASSUME ScanTypes, ScanLocks, BooksFit, FixPricesReads \/ FixPricesSaves
  PROVE  BooksFit'
  <1>1. closed' = closed /\ lock' = lock /\ job' = job /\ bought' = bought
    BY DEF FixPricesReads, FixPricesSaves, tables, history
  <1>2. \A s : Owed(s)' = Owed(s)
    BY <1>1 DEF Owed, Lots, TradesOf
  <1>3. repair.at # "history" /\ repair'.at \notin {"restore", "history"}
    BY IdleTypes DEF FixPricesReads, FixPricesSaves
  <1>4. \A s \in Stocks \ excused' : s \notin excused /\ pos'[s] = pos[s]
    BY DEF FixPricesReads, FixPricesSaves, Overwritten, tables, history
  <1>5. \A s \in Stocks \ excused' : bought'[s] = Len(pos'[s]) + Lots(closed', s) + Owed(s)'
    BY <1>1, <1>2, <1>3, <1>4 DEF BooksFit
  <1> QED
    BY <1>1, <1>3, <1>5 DEF BooksFit, RestoreFits, Lots, TradesOf

LEMMA RestoreReadsBooks ==
  ASSUME ScanTypes, ScanLocks, BooksFit, RestoreReads
  PROVE  BooksFit'
  <1>1. /\ closed' = closed /\ lock' = lock /\ job' = job /\ bought' = bought /\ pos' = pos /\ excused' = excused
        /\ repair = Idle
    BY DEF RestoreReads, tables, history
  <1>2. \A s : Owed(s)' = Owed(s)
    BY <1>1 DEF Owed, Lots, TradesOf
  <1>3. PICK match \in SUBSET closed, pick \in SUBSET Trade :
            /\ pick \subseteq match /\ \A c \in pick : pos[c.s] = <<>>
            /\ \A c, d \in pick : c.s = d.s => c = d
            /\ repair' = [at |-> "restore", view |-> pos, seen |-> closed, kept |-> closed \ match,
                          back |-> pick, lost |-> {c.s : c \in match \ pick}]
    BY RestoreReadsFits
  <1>4. /\ repair'.at = "restore" /\ repair'.view = pos /\ repair'.seen = closed /\ repair'.kept = closed \ match
        /\ repair'.back = pick /\ repair'.lost = {c.s : c \in match \ pick}
    BY <1>3
  <1>5. repair.at # "history"
    BY <1>1, IdleTypes
  <1>6. \A s \in Stocks \ excused' : bought'[s] = Len(pos'[s]) + Lots(closed', s) + Owed(s)'
    BY <1>1, <1>2, <1>5 DEF BooksFit
  <1>7. RestoreFits'
    <2>1. repair'.seen \ repair'.kept = match
      BY <1>4
    <2> QED
      BY <1>1, <1>3, <1>4, <2>1 DEF RestoreFits, BooksFit, TradesOf
  <1> QED
    BY <1>1, <1>4, <1>6, <1>7 DEF BooksFit, Lots, TradesOf

\* A stock of which the repair keeps what it has seen, or reopens the one trade it drops.
LEMMA RestoreSavesPositionsBooks ==
  ASSUME ScanTypes, ScanLocks, BooksFit, RestoreSavesPositions
  PROVE  BooksFit'
  <1>1. closed' = closed /\ bought' = bought /\ job' = job /\ repair.at = "restore"
    BY DEF RestoreSavesPositions
  <1>2. CASE repair' = Idle
    <2>1. pos' = pos /\ lock' = lock /\ excused' = excused /\ repair' = Idle
      BY <1>2, RepairGoesOn DEF RestoreSavesPositions
    <2>2. \A s : Owed(s)' = Owed(s)
      BY <1>1, <2>1 DEF Owed, Lots, TradesOf
    <2>3. \A s \in Stocks \ excused' : bought'[s] = Len(pos'[s]) + Lots(closed', s) + Owed(s)'
      BY <1>1, <2>1, <2>2 DEF BooksFit
    <2>4. repair'.at \notin {"restore", "history"}
      BY <2>1, IdleTypes
    <2> QED
      BY <1>1, <2>1, <2>3, <2>4 DEF BooksFit, RestoreFits, Lots, TradesOf
  <1>3. CASE repair' # Idle
    <2> DEFINE r == repair
               new == Reopened(r.view, r.back)
    <2>1. /\ pos' = new /\ lock' = Repairer /\ lock = Nobody /\ excused' = excused \cup Overwritten(r.view)
          /\ repair' = [repair EXCEPT !.at = "history"]
      BY <1>3 DEF RestoreSavesPositions
    <2>2. r \in Restoring
      BY <1>1, RepairIs
    <2>3. /\ repair'.at = "history" /\ repair'.view = r.view /\ repair'.seen = r.seen /\ repair'.kept = r.kept
          /\ repair'.back = r.back /\ repair'.lost = r.lost
      BY <2>1, <2>2 DEF Restoring
    <2>4. /\ \A s \in Stocks : IsFiniteSet(TradesOf(r.seen, s))
          /\ r.kept \subseteq r.seen /\ r.back \subseteq r.seen \ r.kept
          /\ \A c, d \in r.back : c.s = d.s => c = d
          /\ \A c \in r.back : r.view[c.s] = <<>>
          /\ r.lost = {c.s : c \in (r.seen \ r.kept) \ r.back}
          /\ r.seen \subseteq closed \/ excused = Stocks
      BY <1>1 DEF BooksFit, RestoreFits
    <2>5. /\ r.view \in LotBook /\ r.back \in SUBSET Trade /\ r.seen \in SUBSET Trade /\ r.kept \in SUBSET Trade
          /\ r.lost \in SUBSET Stocks
      BY <2>2 DEF Restoring
    <2>6. excused' \subseteq Stocks /\ excused \subseteq excused'
      BY <2>1 DEF ScanTypes, Overwritten
    <2>7. RestoreFits'
      <3>1. repair'.seen \subseteq closed' \/ excused' = Stocks
        BY <1>1, <2>3, <2>4, <2>6
      <3> HIDE DEF r
      <3> QED
        BY <2>3, <2>4, <3>1 DEF RestoreFits, TradesOf
    <2>8. \A s \in Stocks : /\ r.view[s] \in Seq(Dates) /\ Len(r.view[s]) \in Nat
                            /\ \/ \E c \in r.back : c.s = s /\ Len(new[s]) = c.n
                               \/ (~\E c \in r.back : c.s = s) /\ new[s] = r.view[s]
      <3>1. \A s \in Stocks : r.view[s] \in Seq(Dates)
        BY <2>5 DEF LotBook
      <3>2. \A s \in Stocks : Len(r.view[s]) \in Nat
        BY <3>1, LenProperties
      <3>3. \A s \in Stocks : \/ \E c \in r.back : c.s = s /\ Len(new[s]) = c.n
                              \/ (~\E c \in r.back : c.s = s) /\ new[s] = r.view[s]
        BY <2>5, ReopenedTypes
      <3> QED
        BY <3>1, <3>2, <3>3
    <2>9. \A s \in Stocks \ excused' : pos[s] = r.view[s] /\ s \notin excused
      BY <2>1 DEF Overwritten
    <2>10. \A s \in Stocks : Owed(s) = 0
      BY <2>1, JobsAre DEF Owed
    <2> HIDE DEF r, new
    <2>11. ASSUME NEW s \in Stocks \ (excused' \cup r.lost \cup {c.s : c \in closed \ r.seen})
           PROVE  bought[s] = Len(new[s]) + Lots(r.kept, s)
      <3>1. r.seen \subseteq closed
        BY <2>4, <2>6
      <3>2. TradesOf(closed, s) = TradesOf(r.seen, s)
        BY <3>1 DEF TradesOf
      <3>3. IsFiniteSet(TradesOf(r.seen, s)) /\ Lots(closed, s) = Lots(r.seen, s) /\ Lots(r.seen, s) \in Nat
        BY <2>4, <2>5, <3>2, LotsTypes DEF Lots
      <3>4. bought[s] = Len(r.view[s]) + Lots(r.seen, s)
        <4>1. bought[s] = Len(pos[s]) + Lots(closed, s) + 0
          BY <1>1, <2>9, <2>10 DEF BooksFit
        <4>2. Len(pos[s]) = Len(r.view[s])
          BY <2>9
        <4> QED
          BY <2>8, <3>3, <4>1, <4>2
      <3>5. TradesOf(r.kept, s) \subseteq TradesOf(r.seen, s)
        BY <2>4 DEF TradesOf
      <3>6. IsFiniteSet(TradesOf(r.kept, s)) /\ Lots(r.kept, s) \in Nat
        BY <2>5, <3>3, <3>5, FS_Subset, LotsTypes
      <3>7. TradesOf(r.seen \ r.kept, s) \subseteq TradesOf(r.back, s)
        BY <2>4 DEF TradesOf
      <3>8. TradesOf(r.seen, s) = TradesOf(r.kept, s) \cup TradesOf(r.back, s) /\ TradesOf(r.kept, s) \cap TradesOf(r.back, s) = {}
        BY <2>4, <3>7 DEF TradesOf
      <3>9. CASE \E c \in r.back : c.s = s /\ Len(new[s]) = c.n
        <4>1. PICK c \in r.back : c.s = s /\ Len(new[s]) = c.n
          BY <3>9
        <4>2. TradesOf(r.back, s) = {c} /\ c.n \in Nat
          BY <2>4, <2>5, <4>1 DEF TradesOf, Trade
        <4>3. Lots(r.back, s) = c.n /\ IsFiniteSet(TradesOf(r.back, s))
          <5>1. Lots(r.back, s) = c.n
            BY <4>2, LotsOfOne
          <5>2. IsFiniteSet(TradesOf(r.back, s))
            BY <4>2, FS_Singleton
          <5> QED
            BY <5>1, <5>2
        <4>4. Lots(r.kept \cup r.back, s) = Lots(r.kept, s) + Lots(r.back, s)
          BY <2>5, <3>6, <3>8, <4>3, LotsOfBoth
        <4>5. TradesOf(r.kept \cup r.back, s) = TradesOf(r.seen, s)
          BY <3>8 DEF TradesOf
        <4>6. Lots(r.seen, s) = Lots(r.kept, s) + c.n
          BY <4>3, <4>4, <4>5 DEF Lots
        <4>7. Len(r.view[s]) = 0
          BY <2>4, <4>1, EmptySeq
        <4> QED
          BY <3>4, <3>6, <4>1, <4>2, <4>6, <4>7
      <3>10. CASE (~\E c \in r.back : c.s = s) /\ new[s] = r.view[s]
        <4>1. TradesOf(r.seen, s) = TradesOf(r.kept, s)
          BY <3>8, <3>10 DEF TradesOf
        <4>2. Lots(r.seen, s) = Lots(r.kept, s)
          BY <4>1 DEF Lots
        <4>3. Len(new[s]) = Len(r.view[s])
          BY <3>10
        <4> QED
          BY <3>4, <4>2, <4>3
      <3> QED
        BY <2>8, <3>9, <3>10
    <2>12. Behind' = {c.s : c \in closed \ r.seen}
      BY <1>1, <2>3 DEF Behind
    <2>13. \A s \in Stocks \ (excused' \cup repair'.lost \cup Behind') : bought'[s] = Len(pos'[s]) + Lots(repair'.kept, s)
      BY <1>1, <2>1, <2>3, <2>11, <2>12
    <2>14. \A s \in Stocks : IsFiniteSet(TradesOf(closed', s))
      BY <1>1 DEF BooksFit
    <2> QED
      BY <2>3, <2>7, <2>13, <2>14 DEF BooksFit, Lots, TradesOf
  <1> QED
    BY <1>2, <1>3

LEMMA RestoreSavesHistoryBooks ==
  ASSUME ScanTypes, ScanLocks, BooksFit, RestoreSavesHistory
  PROVE  BooksFit'
  <1>1. /\ repair.at = "history" /\ closed' = repair.kept /\ pos' = pos /\ bought' = bought /\ lock' = Nobody
        /\ repair' = Idle /\ excused' = excused \cup repair.lost \cup Behind
    BY DEF RestoreSavesHistory, Unlocks, Behind
  <1>2. \A s : Owed(s)' = 0
    BY <1>1, JobsAre DEF Owed
  <1>3. /\ repair.kept \subseteq repair.seen /\ \A s \in Stocks : IsFiniteSet(TradesOf(repair.seen, s))
        /\ repair.kept \in SUBSET Trade
    BY <1>1, RepairIs DEF BooksFit, RestoreFits, Restoring
  <1>4. ASSUME NEW s \in Stocks PROVE IsFiniteSet(TradesOf(closed', s))
    <2>1. TradesOf(closed', s) \subseteq TradesOf(repair.seen, s)
      BY <1>1, <1>3 DEF TradesOf
    <2> QED
      BY <1>3, <2>1, FS_Subset
  <1>5. ASSUME NEW s \in Stocks \ excused' PROVE bought'[s] = Len(pos'[s]) + Lots(closed', s) + Owed(s)'
    <2>1. bought[s] = Len(pos[s]) + Lots(repair.kept, s)
      BY <1>1 DEF BooksFit
    <2>2. Lots(closed', s) \in Nat
      BY <1>1, <1>3, <1>4, LotsTypes
    <2>3. pos[s] \in Seq(Dates)
      BY DEF ScanTypes, LotBook
    <2>4. Len(pos[s]) \in Nat
      BY <2>3, LenProperties
    <2> QED
      BY <1>1, <1>2, <2>1, <2>2, <2>4
  <1>6. repair'.at \notin {"restore", "history"}
    BY <1>1, IdleTypes
  <1> QED
    BY <1>4, <1>5, <1>6 DEF BooksFit, RestoreFits, Lots, TradesOf

LEMMA ResetBooks ==
  ASSUME ScanTypes, ScanLocks, BooksFit, Reset
  PROVE  BooksFit'
  <1> DEFINE quiet == repair = Idle /\ \A j \in Jobs : job[j].at \in {"idle", "asked", "scan", "lock"}
  <1>1. /\ lock' = lock /\ job' = job /\ repair' = repair /\ closed' = {}
        /\ pos' = [s \in Stocks |-> <<>>] /\ bought' = [s \in Stocks |-> 0]
        /\ excused' = IF quiet THEN {} ELSE Stocks
    BY DEF Reset
  <1>2. \A s \in Stocks : IsFiniteSet(TradesOf(closed', s)) /\ Lots(closed', s) = 0
    <2>1. \A s : TradesOf({}, s) = {}
      BY DEF TradesOf
    <2> QED
      BY <1>1, <2>1, NoLots, FS_EmptySet
  <1>3. CASE quiet
    <2>1. lock \notin Jobs
      BY <1>3 DEF ScanLocks
    <2>2. \A s : Owed(s)' = 0
      BY <1>1, <2>1 DEF Owed
    <2>3. repair'.at \notin {"restore", "history"}
      BY <1>1, <1>3, IdleTypes
    <2>4. ASSUME NEW s \in Stocks PROVE bought'[s] = Len(pos'[s]) + Lots(closed', s) + Owed(s)'
      <3>1. bought'[s] = 0 /\ Len(pos'[s]) = 0
        BY <1>1, EmptySeq
      <3> QED
        BY <1>2, <2>2, <3>1
    <2> QED
      BY <1>2, <2>3, <2>4 DEF BooksFit, RestoreFits, Lots, TradesOf
  <1>4. CASE ~quiet
    <2>1. excused' = Stocks
      BY <1>1, <1>4
    <2> HIDE DEF quiet
    <2>2. RestoreFits'
      BY <1>1, <2>1 DEF BooksFit, RestoreFits, TradesOf
    <2> QED
      BY <1>2, <2>1, <2>2 DEF BooksFit, Lots, TradesOf
  <1> QED
    BY <1>3, <1>4

LEMMA BooksKeep == ScanTypes /\ ScanLocks /\ ScanFits /\ BooksFit /\ [Next]_vars => BooksFit'
  <1> SUFFICES ASSUME ScanTypes, ScanLocks, ScanFits, BooksFit, [Next]_vars PROVE BooksFit'
    OBVIOUS
  <1>1. ASSUME NEW p \in Procs, SchedulerAsks(p) \/ TriggerScan(p) \/ Restart(p) PROVE BooksFit'
    BY <1>1, AskBooks, RestartBooks
  <1>2. ASSUME NEW j \in Jobs, Begin(j) \/ RunScan(j) \/ TryLock(j) PROVE BooksFit'
    BY <1>2, StepBooks, TryLockBooks
  <1>3. ASSUME NEW j \in Jobs, SavePositions(j) \/ AppendClosed(j) \/ RecordMarketScan(j) \/ Fails(j) PROVE BooksFit'
    BY <1>3, SavePositionsBooks, AppendClosedBooks, StepBooks, FailsBooks
  <1>4. ASSUME FixPricesReads \/ FixPricesSaves \/ RestoreReads PROVE BooksFit'
    BY <1>4, FixBooks, RestoreReadsBooks
  <1>5. ASSUME RestoreSavesPositions \/ RestoreSavesHistory \/ Reset PROVE BooksFit'
    BY <1>5, RestoreSavesPositionsBooks, RestoreSavesHistoryBooks, ResetBooks
  <1>6. CASE Tick \/ ConnectionCloses \/ UNCHANGED vars
    <2>1. /\ pos' = pos /\ closed' = closed /\ bought' = bought /\ repair' = repair /\ excused' = excused
          /\ lock' = lock /\ job' = job
      BY <1>6 DEF Tick, ConnectionCloses, vars, tables, history
    <2> QED
      BY <2>1, BooksStand
  <1> QED
    BY <1>1, <1>2, <1>3, <1>4, <1>5, <1>6 DEF Next, JobStep, RepairStep

-----------------------------------------------------------------------------
(* The catch-ups.                                                          *)

LEMMA CatchupStands ==
  ASSUME NEW m \in Markets, CatchupFits(m), caught'[m] = caught[m], clock' = clock,
         meta'[m] = meta[m] \/ meta'[m] = TradingDate(m, clock),
         Pending(m)' \subseteq Pending(m),
         Written(m) \subseteq Written(m)' \/ meta'[m] = TradingDate(m, clock)
  PROVE  CatchupFits(m)'
  <1>1. \A j, k \in Pending(m)' : j = k
    BY DEF CatchupFits
  <1>2. caught'[m] = 0 \/ (caught'[m] = 1 /\ Pending(m)' = {})
    BY DEF CatchupFits
  <1>3. caught'[m] = 0 \/ meta'[m] = TradingDate(m, clock') \/ Written(m)' # {}
    BY DEF CatchupFits
  <1> QED
    BY <1>1, <1>2, <1>3 DEF CatchupFits

LEMMA JobMoves ==
  ASSUME NEW m \in Markets, NEW j \in Jobs, \A k \in Jobs : k # j => job'[k] = job[k], clock' = clock
  PROVE  /\ (j \in Pending(m)' => j \in Pending(m)) => Pending(m)' \subseteq Pending(m)
         /\ (j \in Written(m) => j \in Written(m)') => Written(m) \subseteq Written(m)'
  <1>1. ASSUME j \in Pending(m)' => j \in Pending(m) PROVE Pending(m)' \subseteq Pending(m)
    BY <1>1 DEF Pending
  <1>2. ASSUME j \in Written(m) => j \in Written(m)' PROVE Written(m) \subseteq Written(m)'
    BY <1>2 DEF Written
  <1> QED
    BY <1>1, <1>2

LEMMA AskCatchups ==
  ASSUME ScanTypes, CatchupsFit, NEW p \in Procs, SchedulerAsks(p) \/ TriggerScan(p)
  PROVE  CatchupsFit'
  <1>1. clock' = clock /\ meta' = meta /\ caught' = caught
    BY DEF SchedulerAsks, TriggerScan, tables, history
  <1>2. CASE TriggerScan(p)
    <2> DEFINE j == <<p, "manual">>
    <2>1. PICK ms : job' = [job EXCEPT ![j] = [at |-> "asked", ms |-> ms, due |-> 0]]
      BY <1>2 DEF TriggerScan, Goto
    <2>2. j \in Jobs /\ j[2] # "sched" /\ twice' = twice
      BY <1>2, JobsAre DEF TriggerScan, history
    <2>3. \A k \in Jobs : k # j => job'[k] = job[k]
      BY <2>1 DEF ScanTypes
    <2> HIDE DEF j
    <2>4. \A m \in Markets : Pending(m)' = Pending(m) /\ Written(m)' = Written(m)
      BY <1>1, <2>2, <2>3 DEF Pending, Written
    <2> QED
      BY <1>1, <2>2, <2>4, CatchupStands DEF CatchupsFit
  <1>3. CASE SchedulerAsks(p)
    <2> DEFINE j == <<p, "sched">>
    <2>1. PICK m \in Markets :
             /\ ShouldRunCatchup(m)
             /\ job' = [job EXCEPT ![j] = [at |-> "asked", ms |-> {m}, due |-> TradingDate(m, clock)]]
             /\ twice' = IF Others(j, m) = {} THEN twice ELSE twice \cup {m}
      BY <1>3 DEF SchedulerAsks, Goto
    <2>2. j \in Jobs /\ j[2] = "sched" /\ job[j] = Idle
      BY <1>3, JobsAre DEF SchedulerAsks
    <2>3. /\ job'[j].at = "asked" /\ job'[j].ms = {m} /\ job'[j].due = TradingDate(m, clock)
          /\ \A k \in Jobs : k # j => job'[k] = job[k]
      BY <2>1, <2>2 DEF ScanTypes
    <2>4. job[j].at = "idle"
      BY <2>2, IdleTypes
    <2> HIDE DEF j
    <2>5. ASSUME NEW n \in Markets \ twice', n # m PROVE CatchupFits(n)'
      <3>1. n \notin twice
        BY <2>1
      <3>2. j \notin Pending(n)' /\ j \notin Written(n)
        BY <2>3, <2>4, <2>5 DEF Pending, Written
      <3>3. Pending(n)' \subseteq Pending(n) /\ Written(n) \subseteq Written(n)'
        BY <1>1, <2>2, <2>3, <3>2, JobMoves
      <3> QED
        BY <1>1, <3>1, <3>3, CatchupStands DEF CatchupsFit
    <2>6. ASSUME m \notin twice' PROVE CatchupFits(m)'
      <3>1. Others(j, m) = {} /\ m \notin twice
        BY <2>1, <2>6
      <3>2. Written(m) = {} /\ \A k \in Jobs \ {j} : k \notin Pending(m)
        BY <2>4, <3>1 DEF Others, Written, Pending
      <3>3. caught[m] = 0
        <4>1. meta[m] # TradingDate(m, clock)
          BY <2>1 DEF ShouldRunCatchup, NeedsScanToday
        <4> QED
          BY <3>1, <3>2, <4>1 DEF CatchupsFit, CatchupFits
      <3>4. \A k \in Jobs \ {j} : k \notin Pending(m)'
        BY <1>1, <2>3, <3>2 DEF Pending
      <3>5. \A k, l \in Pending(m)' : k = l
        BY <3>4 DEF Pending
      <3> QED
        BY <1>1, <3>3, <3>5 DEF CatchupFits
    <2> QED
      BY <2>5, <2>6 DEF CatchupsFit
  <1> QED
    BY <1>2, <1>3

LEMMA StepCatchups ==
  ASSUME ScanTypes, CatchupsFit, NEW j \in Jobs, Begin(j) \/ RunScan(j) \/ TryLock(j)
  PROVE  CatchupsFit'
  <1>1. /\ clock' = clock /\ meta' = meta /\ caught' = caught /\ twice' = twice
        /\ job[j].at \in {"asked", "scan", "lock"}
    BY DEF Begin, RunScan, TryLock, tables, history
  <1>2. PICK r : /\ job' = [job EXCEPT ![j] = r]
                 /\ r = Idle \/ (r.at \in {"scan", "lock", "save"} /\ r.ms = job[j].ms /\ r.due = job[j].due)
    <2>1. CASE Begin(j)
      BY <2>1 DEF Begin, Goto
    <2>2. CASE RunScan(j)
      BY <2>2 DEF RunScan, Goto
    <2>3. CASE TryLock(j)
      BY <2>3 DEF TryLock, Goto, Aborted, Finish
    <2> QED
      BY <2>1, <2>2, <2>3
  <1>3. job'[j] = r /\ \A k \in Jobs : k # j => job'[k] = job[k]
    BY <1>2 DEF ScanTypes
  <1>4. ASSUME NEW m \in Markets PROVE (j \in Pending(m)' => j \in Pending(m)) /\ j \notin Written(m)
    BY <1>1, <1>2, <1>3, IdleTypes DEF Pending, Written
  <1> QED
    BY <1>1, <1>3, <1>4, JobMoves, CatchupStands DEF CatchupsFit

LEMMA SavePositionsCatchups ==
  ASSUME ScanTypes, ScanFits, CatchupsFit, NEW j \in Jobs, SavePositions(j)
  PROVE  CatchupsFit'
  <1> DEFINE r == job[j]
  <1>1. /\ clock' = clock /\ meta' = meta /\ twice' = twice /\ r.at = "save"
        /\ caught' = [m \in Markets |-> caught[m] + (IF m \in r.ms /\ r.due = TradingDate(m, clock) THEN 1 ELSE 0)]
        /\ job' = [job EXCEPT ![j] = [at |-> "append", ms |-> r.ms, exits |-> Exits(r)]]
    BY DEF SavePositions, Goto
  <1>2. job'[j].at = "append" /\ job'[j].ms = r.ms /\ \A k \in Jobs : k # j => job'[k] = job[k]
    BY <1>1 DEF ScanTypes
  <1>3. ASSUME NEW m \in Markets PROVE j \notin Pending(m)' /\ j \notin Written(m)
    BY <1>1, <1>2 DEF Pending, Written
  <1>4. ASSUME NEW m \in Markets \ twice PROVE CatchupFits(m)'
    <2>1. Pending(m)' \subseteq Pending(m) \ {j} /\ Written(m) \subseteq Written(m)'
      BY <1>1, <1>2, <1>3, JobMoves
    <2>2. CatchupFits(m) /\ caught[m] \in Nat
      BY DEF CatchupsFit, ScanTypes
    <2>3. CASE m \in r.ms /\ r.due = TradingDate(m, clock)
      <3>1. j[2] = "sched"
        <4>1. TradingDate(m, clock) >= 1 /\ TradingDate(m, clock) \in Nat
          BY TradingDateTypes DEF ScanTypes
        <4>2. r.due # 0
          BY <2>3, <4>1
        <4> QED
          BY <1>1, <4>2 DEF ScanFits, DueBefore
      <3>2. j \in Pending(m)
        BY <1>1, <2>3, <3>1 DEF Pending
      <3>3. caught[m] = 0 /\ Pending(m) = {j}
        BY <2>2, <3>2 DEF CatchupFits
      <3>4. caught'[m] = 1
        BY <1>1, <2>3, <3>3
      <3>5. Pending(m)' = {} /\ j \in Written(m)'
        BY <1>2, <2>1, <2>3, <3>1, <3>3 DEF Written
      <3> QED
        BY <3>4, <3>5 DEF CatchupFits
    <2>4. CASE ~(m \in r.ms /\ r.due = TradingDate(m, clock))
      <3>1. caught'[m] = caught[m] + 0
        BY <1>1, <2>4
      <3>2. caught'[m] = caught[m]
        BY <2>2, <3>1
      <3> QED
        BY <1>1, <2>1, <2>2, <3>2, CatchupStands
    <2> QED
      BY <2>3, <2>4
  <1> QED
    BY <1>1, <1>4 DEF CatchupsFit

LEMMA WriteCatchups ==
  ASSUME ScanTypes, CatchupsFit, NEW j \in Jobs, AppendClosed(j) \/ RecordMarketScan(j)
  PROVE  CatchupsFit'
  <1>1. clock' = clock /\ caught' = caught /\ twice' = twice
    BY DEF AppendClosed, RecordMarketScan, history
  <1>2. CASE AppendClosed(j)
    <2>1. meta' = meta /\ job[j].at = "append" /\ job' = [job EXCEPT ![j] = [at |-> "record", ms |-> job[j].ms]]
      BY <1>2 DEF AppendClosed, Goto
    <2>2. job'[j].at = "record" /\ job'[j].ms = job[j].ms /\ \A k \in Jobs : k # j => job'[k] = job[k]
      BY <2>1 DEF ScanTypes
    <2>3. ASSUME NEW m \in Markets PROVE j \notin Pending(m)' /\ (j \in Written(m) => j \in Written(m)')
      BY <2>1, <2>2 DEF Pending, Written
    <2> QED
      BY <1>1, <2>1, <2>2, <2>3, JobMoves, CatchupStands DEF CatchupsFit
  <1>3. CASE RecordMarketScan(j)
    <2>1. PICK m \in job[j].ms :
             /\ meta' = [meta EXCEPT ![m] = TradingDate(m, clock)]
             /\ IF job[j].ms = {m} THEN Finish(j)
                ELSE Goto(j, [at |-> "record", ms |-> job[j].ms \ {m}]) /\ UNCHANGED running
      BY <1>3 DEF RecordMarketScan
    <2>2. job[j].at = "record" /\ job[j].ms \in SUBSET Markets
      BY <1>3, JobIs DEF RecordMarketScan, Recording
    <2>3. /\ \A k \in Jobs : k # j => job'[k] = job[k]
          /\ job[j].ms = {m} => job'[j].at = "idle"
          /\ job[j].ms # {m} => job'[j].at = "record" /\ job'[j].ms = job[j].ms \ {m}
      BY <2>1, IdleTypes DEF Finish, Goto, ScanTypes
    <2>4. ASSUME NEW n \in Markets PROVE j \notin Pending(n)' /\ (n # m => (j \in Written(n) => j \in Written(n)'))
      BY <2>2, <2>3 DEF Pending, Written
    <2>5. \A n \in Markets : /\ n = m => meta'[n] = TradingDate(n, clock)
                             /\ n # m => meta'[n] = meta[n]
      BY <2>1 DEF ScanTypes
    <2> QED
      BY <1>1, <2>3, <2>4, <2>5, JobMoves, CatchupStands DEF CatchupsFit
  <1> QED
    BY <1>2, <1>3

LEMMA FailsCatchups ==
  ASSUME ScanTypes, CatchupsFit, NEW j \in Jobs, Fails(j)
  PROVE  CatchupsFit'
  <1>1. /\ clock' = clock /\ meta' = meta /\ caught' = caught /\ twice' = twice \cup Unrecorded(job[j])
        /\ job' = [job EXCEPT ![j] = Idle]
    BY DEF Fails, Aborted, Finish, Goto, tables
  <1>2. job'[j].at = "idle" /\ \A k \in Jobs : k # j => job'[k] = job[k]
    BY <1>1, GotoTypes, IdleTypes
  <1>3. ASSUME NEW m \in Markets \ twice' PROVE j \notin Pending(m)' /\ j \notin Written(m)
    BY <1>1, <1>2 DEF Pending, Written, Unrecorded, HalfDone
  <1> QED
    BY <1>1, <1>2, <1>3, JobMoves, CatchupStands DEF CatchupsFit

LEMMA RestartCatchups ==
  ASSUME ScanTypes, CatchupsFit, NEW p \in Procs, Restart(p)
  PROVE  CatchupsFit'
  <1> DEFINE mine == {j \in Jobs : j[1] = p}
  <1>1. /\ clock' = clock /\ meta' = meta /\ caught' = caught
        /\ twice' = twice \cup UNION {Unrecorded(job[j]) : j \in mine}
        /\ job' = [j \in Jobs |-> IF j \in mine THEN Idle ELSE job[j]]
    BY DEF Restart, tables
  <1> HIDE DEF mine
  <1>2. \A j \in Jobs : (j \in mine /\ job'[j].at = "idle") \/ (j \notin mine /\ job'[j] = job[j])
    BY <1>1, IdleTypes
  <1>3. ASSUME NEW m \in Markets \ twice' PROVE Pending(m)' \subseteq Pending(m) /\ Written(m) \subseteq Written(m)'
    <2>1. Pending(m)' \subseteq Pending(m)
      BY <1>1, <1>2 DEF Pending
    <2>2. \A j \in mine : m \notin Unrecorded(job[j])
      BY <1>1, <1>3
    <2>3. Written(m) \subseteq Written(m)'
      BY <1>2, <2>2 DEF Written, Unrecorded, HalfDone
    <2> QED
      BY <2>1, <2>3
  <1> QED
    BY <1>1, <1>3, CatchupStands DEF CatchupsFit

LEMMA TickCatchups ==
  ASSUME ScanTypes, ScanFits, CatchupsFit, Tick
  PROVE  CatchupsFit'
  <1> DEFINE fresh == {m \in Markets : TradingDate(m, clock') # TradingDate(m, clock)}
  <1>1. /\ job' = job /\ meta' = meta /\ clock' = clock + 1 /\ clock \in FirstSlot .. LastSlot
        /\ clock' \in FirstSlot .. LastSlot
        /\ caught' = [m \in Markets |-> IF m \in fresh THEN 0 ELSE caught[m]] /\ twice' = twice \ fresh
    BY TickTypes DEF Tick, ScanTypes, tables
  <1>2. ASSUME NEW m \in fresh PROVE CatchupFits(m)'
    <2>1. caught'[m] = 0
      BY <1>1
    <2>2. /\ TradingDate(m, clock) \in Nat /\ TradingDate(m, clock') \in Nat
          /\ TradingDate(m, clock) < TradingDate(m, clock')
      BY <1>1, TradingDateTypes, TradingDateGrows
    <2>3. ASSUME NEW j \in Pending(m)' PROVE FALSE
      <3>1. /\ j \in Jobs /\ j[2] = "sched" /\ job[j].at \in {"asked", "scan", "lock", "save"}
            /\ m \in job[j].ms /\ job[j].due = TradingDate(m, clock')
        BY <1>1, <2>3 DEF Pending
      <3>2. job[j].due <= TradingDate(m, clock)
        BY <3>1 DEF ScanFits, DueBefore
      <3> QED
        BY <2>2, <3>1, <3>2
    <2> QED
      BY <2>1, <2>3 DEF CatchupFits
  <1>3. ASSUME NEW m \in Markets \ fresh, m \notin twice PROVE CatchupFits(m)'
    <2>1. TradingDate(m, clock') = TradingDate(m, clock) /\ caught'[m] = caught[m] /\ CatchupFits(m)
      BY <1>1, <1>3 DEF CatchupsFit
    <2> HIDE DEF fresh
    <2>2. Pending(m)' = Pending(m) /\ Written(m)' = Written(m)
      BY <1>1, <2>1 DEF Pending, Written
    <2> QED
      BY <1>1, <2>1, <2>2 DEF CatchupFits
  <1> QED
    BY <1>1, <1>2, <1>3 DEF CatchupsFit

LEMMA CatchupsKeep == ScanTypes /\ ScanFits /\ CatchupsFit /\ [Next]_vars => CatchupsFit'
  <1> SUFFICES ASSUME ScanTypes, ScanFits, CatchupsFit, [Next]_vars PROVE CatchupsFit'
    OBVIOUS
  <1>1. ASSUME NEW p \in Procs, SchedulerAsks(p) \/ TriggerScan(p) \/ Restart(p) PROVE CatchupsFit'
    BY <1>1, AskCatchups, RestartCatchups
  <1>2. ASSUME NEW j \in Jobs, Begin(j) \/ RunScan(j) \/ TryLock(j) PROVE CatchupsFit'
    BY <1>2, StepCatchups
  <1>3. ASSUME NEW j \in Jobs, SavePositions(j) \/ AppendClosed(j) \/ RecordMarketScan(j) \/ Fails(j) PROVE CatchupsFit'
    BY <1>3, SavePositionsCatchups, WriteCatchups, FailsCatchups
  <1>4. CASE Reset
    BY <1>4 DEF Reset, CatchupsFit
  <1>5. CASE Tick
    BY <1>5, TickCatchups
  <1>6. CASE FixPricesReads \/ RestoreReads \/ RepairStep \/ ConnectionCloses \/ UNCHANGED vars
    <2>1. job' = job /\ clock' = clock /\ meta' = meta /\ caught' = caught /\ twice' = twice
      BY <1>6 DEF FixPricesReads, RestoreReads, RepairStep, FixPricesSaves, RestoreSavesPositions, RestoreSavesHistory,
                  ConnectionCloses, vars, tables, history
    <2> QED
      BY <2>1 DEF CatchupsFit, CatchupFits, Pending, Written
  <1> QED
    BY <1>1, <1>2, <1>3, <1>4, <1>5, <1>6 DEF Next, JobStep, RepairStep

-----------------------------------------------------------------------------
(* The scan as a whole.                                                    *)

LEMMA ScanInitFits == Init => ScanInv
  <1> SUFFICES ASSUME Init PROVE ScanInv
    OBVIOUS
  <1>1. /\ clock = FirstSlot
        /\ pos = [s \in Stocks |-> <<>>] /\ closed = {} /\ meta = [m \in Markets |-> 0]
        /\ lock = Nobody /\ stuck = {} /\ running = [p \in Procs |-> FALSE]
        /\ job = [j \in Jobs |-> Idle] /\ repair = Idle
        /\ bought = [s \in Stocks |-> 0] /\ excused = {} /\ caught = [m \in Markets |-> 0] /\ twice = {}
    BY DEF Init
  <1>2. Idle.at = "idle" /\ \A j \in Jobs : job[j] = Idle
    BY <1>1, IdleTypes
  <1>3. ScanTypes
    <2>1. clock \in FirstSlot .. LastSlot
      BY <1>1, ScanAssumption
    <2>2. pos \in LotBook
      BY <1>1 DEF LotBook
    <2>3. /\ meta \in [Markets -> Nat] /\ bought \in [Stocks -> Nat] /\ caught \in [Markets -> Nat]
          /\ running \in [Procs -> BOOLEAN]
      BY <1>1
    <2>4. job \in [Jobs -> ScanJob]
      BY <1>1, IdleTypes
    <2> QED
      BY <1>1, <2>1, <2>2, <2>3, <2>4 DEF ScanTypes
  <1>4. ScanLocks
    BY <1>1, <1>2, JobsAre DEF ScanLocks, Working
  <1>5. ScanFits
    BY <1>2 DEF ScanFits, Decided, OneExit, DueBefore
  <1>6. BooksFit
    <2>1. ASSUME NEW s \in Stocks
          PROVE  /\ IsFiniteSet(TradesOf(closed, s)) /\ Lots(closed, s) = 0 /\ Owed(s) = 0
                 /\ bought[s] = 0 /\ Len(pos[s]) = 0
      <3>1. TradesOf(closed, s) = {}
        BY <1>1 DEF TradesOf
      <3>2. Owed(s) = 0
        BY <1>1, JobsAre DEF Owed
      <3> QED
        BY <1>1, <3>1, <3>2, NoLots, FS_EmptySet
    <2>2. RestoreFits
      BY <1>1, <1>2 DEF RestoreFits
    <2> QED
      BY <1>1, <1>2, <2>1, <2>2 DEF BooksFit
  <1>7. CatchupsFit
    <2>1. \A m \in Markets : Pending(m) = {} /\ caught[m] = 0
      BY <1>1, <1>2 DEF Pending
    <2> QED
      BY <2>1 DEF CatchupsFit, CatchupFits
  <1>8. StuckFits
    BY <1>1, JobsAre DEF StuckFits
  <1> QED
    BY <1>3, <1>4, <1>5, <1>6, <1>7, <1>8 DEF ScanInv

LEMMA ScanNextKeeps == ScanInv /\ [Next]_vars => ScanInv'
  BY ScanTypesKeep, ScanLocksKeep, StuckKeeps, ScanFitsKeep, BooksKeep, CatchupsKeep DEF ScanInv

LEMMA ScansKeep == MCSpec => []ScanInv
  <1>1. MCInit => ScanInv
    BY ScanInitFits DEF MCInit, NoScan
  <1>2. [MCNext]_mcVars => [Next]_vars
    BY DEF MCNext, mcVars, Scans
  <1>3. ScanInv /\ [MCNext]_mcVars => ScanInv'
    BY <1>2, ScanNextKeeps
  <1> QED
    BY <1>1, <1>3, PTL DEF MCSpec

\* The books balance whenever nobody is writing: nothing is owed then.
LEMMA BooksAgree == ScanInv => BooksBalance
  <1> SUFFICES ASSUME ScanInv, lock = Nobody, repair.at # "history", NEW s \in Stocks \ excused
               PROVE  bought[s] = Len(pos[s]) + ClosedLots(s)
    BY DEF BooksBalance
  <1>1. bought[s] = Len(pos[s]) + Lots(closed, s) + Owed(s)
    BY DEF ScanInv, BooksFit
  <1>2. Owed(s) = 0
    BY JobsAre DEF Owed
  <1>3. Lots(closed, s) = ClosedLots(s)
    BY DEF Lots, ClosedLots, TradesOf
  <1>4. Lots(closed, s) \in Nat /\ pos[s] \in Seq(Dates)
    BY LotsTypes DEF ScanInv, ScanTypes, BooksFit, LotBook
  <1>5. Len(pos[s]) \in Nat
    BY <1>4, LenProperties
  <1> QED
    BY <1>1, <1>2, <1>3, <1>4, <1>5

LEMMA CaughtOnce == ScanInv => CatchupOncePerDate
  <1> SUFFICES ASSUME ScanInv, NEW m \in Markets, m \notin twice PROVE caught[m] <= 1
    BY DEF CatchupOncePerDate
  <1> QED
    BY DEF ScanInv, CatchupsFit, CatchupFits

\* ValueScan!BooksBalance and CatchupOncePerDate, the part of ScansBooked that is about steps (engine.py run_daily,
\* update_positions; scan_schedule.py): every lot bought is in an open position or in one closed trade, and a market
\* is caught up at most once a trading date, but for the causes that are named.
THEOREM DailyScans ==
    MCSpec => [](BooksBalance /\ CatchupOncePerDate /\ (part \notin {"nasdaq", "kospi", "book"} => ScansBooked))
  <1>1. ScanInv => BooksBalance /\ CatchupOncePerDate /\ (part \notin {"nasdaq", "kospi", "book"} => ScansBooked)
    BY BooksAgree, CaughtOnce DEF ScansBooked
  <1> QED
    BY <1>1, ScansKeep, PTL

\* One scan at a time in a process, counted.
LEMMA OneScanAtATime ==
  ASSUME ScanTypes, ScanLocks, NEW p \in Procs
  PROVE  running[p] <=> Cardinality({j \in Jobs : j[1] = p /\ job[j].at \notin {"idle", "asked"}}) = 1
  <1> DEFINE mine == {j \in Jobs : j[1] = p /\ job[j].at \notin {"idle", "asked"}}
  <1>1. CASE running[p]
    <2>1. PICK j \in Jobs : j[1] = p /\ Working(j)
      BY <1>1 DEF ScanLocks
    <2>2. mine = {j}
      BY <2>1 DEF ScanLocks, Working
    <2> QED
      BY <1>1, <2>2, FS_Singleton
  <1>2. CASE ~running[p]
    <2>1. mine = {}
      BY <1>2 DEF ScanLocks, Working
    <2>2. Cardinality(mine) = 0
      BY <2>1, FS_EmptySet
    <2> QED
      BY <1>2, <2>2
  <1> QED
    BY <1>1, <1>2

LEMMA ScanTyped == ScanInv => TypeOK
  <1> SUFFICES ASSUME ScanInv PROVE TypeOK
    OBVIOUS
  <1>1. ScanTypes /\ ScanLocks
    BY DEF ScanInv
  <1>2. ASSUME NEW s \in Stocks, NEW i \in DOMAIN pos[s] PROVE pos[s][i] \in 1 .. UtcDate(LastSlot)
    <2>1. pos[s] \in Seq(Dates)
      BY <1>1 DEF ScanTypes, LotBook
    <2>2. i \in 1 .. Len(pos[s])
      BY <2>1
    <2> QED
      BY <2>1, <2>2, ElementOfSeq DEF Dates
  <1>3. \A c \in closed : c.s \in Stocks /\ c.n > 0
    BY <1>1 DEF ScanTypes, Trade
  <1>4. \A p \in Procs :
          running[p] <=> Cardinality({j \in Jobs : j[1] = p /\ job[j].at \notin {"idle", "asked"}}) = 1
    BY <1>1, OneScanAtATime
  <1>5. /\ clock \in FirstSlot .. LastSlot /\ lock \in Jobs \cup {Nobody, Repairer}
        /\ \A j \in Jobs : job[j].at \in {"save", "append"} <=> lock = j
        /\ repair.at = "history" <=> lock = Repairer
    BY <1>1 DEF ScanTypes, ScanLocks
  <1>6. /\ \A p \in stuck : Postgres /\ stuck = {p} /\ p \in Procs
        /\ lock \in Jobs => stuck \subseteq {lock[1]}
    BY DEF ScanInv, StuckFits
  <1> QED
    BY <1>2, <1>3, <1>4, <1>5, <1>6 DEF TypeOK

-----------------------------------------------------------------------------
(* The drawdown ladder.                                                    *)

\* The replay of the bars up to T: where an episode begins and ends, and where the next is looked for.
TriggerBy(T, i) == L!Earliest({j \in L!First .. T : j >= i /\ L!Below(j, L!Levels[1])})
ExitBy(T, e) == L!Earliest({j \in L!First .. T : j > e /\ px[j] >= L!RefHigh(e)})
NextBy(T, x) == L!Min({j \in L!First .. T : j > x /\ L!Rearms(j)} \cup {T + 1})
Resumes(T, i) == TriggerBy(T, i) # 0 /\ ExitBy(T, TriggerBy(T, i)) # 0
Later(T, i) == NextBy(T, ExitBy(T, TriggerBy(T, i)))

\* The bars from which the replay looks for an episode, the least set that it cannot leave, and the
\* episodes it meets on the way.
Unleft(T, S) == L!First \in S /\ \A i \in S : Resumes(T, i) => Later(T, i) \in S
Reached(T) == {i \in Nat : \A S \in SUBSET Nat : Unleft(T, S) => i \in S}
Entries(T) == {s \in L!First .. T : \E i \in Reached(T) : TriggerBy(T, i) = s}

LEMMA LadderConstants ==
    /\ Lookback \in Nat /\ Lookback >= 1 /\ MaxExtras \in Nat /\ MaxDay \in Nat /\ Prices \subseteq Nat \ {0}
  BY LedgerAssumption DEF L!ConstantsFit

LEMMA LeastOf ==
  ASSUME NEW S \in SUBSET Nat, S # {}
  PROVE  L!Min(S) \in S /\ \A x \in S : L!Min(S) <= x
  <1>1. \E n \in S : \A m \in S : n <= m
    BY LeastNatural
  <1> QED
    BY <1>1 DEF L!Min

LEMMA EarliestOf ==
  ASSUME NEW S \in SUBSET (Nat \ {0})
  PROVE  /\ S = {} => L!Earliest(S) = 0
         /\ S # {} => L!Earliest(S) \in S /\ L!Earliest(S) # 0 /\ \A x \in S : L!Earliest(S) <= x
  BY LeastOf DEF L!Earliest, L!None

\* The earliest of more bars is the same, if what is added comes later.
LEMMA EarliestStays ==
  ASSUME NEW S \in SUBSET (Nat \ {0}), NEW R \in SUBSET (Nat \ {0}), S \subseteq R,
         \A x \in R \ S : \A y \in S : y < x, S # {}
  PROVE  L!Earliest(R) = L!Earliest(S)
  <1> DEFINE m == L!Earliest(S)
             n == L!Earliest(R)
  <1>1. m \in S /\ m \in Nat /\ \A x \in S : m <= x
    BY EarliestOf
  <1>2. R # {}
    OBVIOUS
  <1>3. n \in R /\ n \in Nat /\ \A x \in R : n <= x
    BY <1>2, EarliestOf
  <1> HIDE DEF m, n
  <1>4. n <= m
    BY <1>1, <1>3
  <1>5. n \in S
    BY <1>1, <1>3, <1>4
  <1>6. m <= n
    BY <1>1, <1>5
  <1>7. m = n
    BY <1>1, <1>3, <1>4, <1>6
  <1> QED
    BY <1>7 DEF m, n

LEMMA FirstTypes ==
  ASSUME px \in Seq(Prices), px # <<>>
  PROVE  L!First \in Nat /\ L!First >= 1 /\ L!Today \in Nat /\ L!First <= L!Today /\ L!Today >= 1
  <1>1. L!Today \in Nat /\ L!Today >= 1
    BY LenProperties, EmptySeq DEF L!Today
  <1> QED
    BY <1>1, LadderConstants DEF L!First

\* What the replay finds, in terms of the bars.
LEMMA TriggerIs ==
  ASSUME px \in Seq(Prices), px # <<>>, NEW T \in Nat, NEW i \in Nat
  PROVE  \/ TriggerBy(T, i) = 0 /\ \A j \in L!First .. T : j >= i => ~L!Below(j, L!Levels[1])
         \/ /\ TriggerBy(T, i) \in L!First .. T /\ TriggerBy(T, i) >= i /\ TriggerBy(T, i) # 0
            /\ L!Below(TriggerBy(T, i), L!Levels[1])
            /\ \A j \in L!First .. T : j >= i /\ L!Below(j, L!Levels[1]) => TriggerBy(T, i) <= j
  <1> DEFINE S == {j \in L!First .. T : j >= i /\ L!Below(j, L!Levels[1])}
  <1>1. S \in SUBSET (Nat \ {0})
    BY FirstTypes
  <1>2. TriggerBy(T, i) = L!Earliest(S)
    BY DEF TriggerBy
  <1> HIDE DEF S
  <1>3. CASE S = {}
    <2>1. TriggerBy(T, i) = 0
      BY <1>1, <1>2, <1>3, EarliestOf
    <2> QED
      BY <1>3, <2>1 DEF S
  <1>4. CASE S # {}
    <2>1. /\ TriggerBy(T, i) \in S /\ TriggerBy(T, i) # 0 /\ \A x \in S : TriggerBy(T, i) <= x
      BY <1>1, <1>2, <1>4, EarliestOf
    <2> QED
      BY <2>1 DEF S
  <1> QED
    BY <1>3, <1>4

LEMMA ExitIs ==
  ASSUME px \in Seq(Prices), px # <<>>, NEW T \in Nat, NEW e \in Nat
  PROVE  \/ ExitBy(T, e) = 0 /\ \A j \in L!First .. T : j > e => ~(px[j] >= L!RefHigh(e))
         \/ /\ ExitBy(T, e) \in L!First .. T /\ ExitBy(T, e) > e /\ ExitBy(T, e) # 0
            /\ px[ExitBy(T, e)] >= L!RefHigh(e)
            /\ \A j \in L!First .. T : j > e /\ px[j] >= L!RefHigh(e) => ExitBy(T, e) <= j
  <1> DEFINE S == {j \in L!First .. T : j > e /\ px[j] >= L!RefHigh(e)}
  <1>1. S \in SUBSET (Nat \ {0})
    BY FirstTypes
  <1>2. ExitBy(T, e) = L!Earliest(S)
    BY DEF ExitBy
  <1> HIDE DEF S
  <1>3. CASE S = {}
    <2>1. ExitBy(T, e) = 0
      BY <1>1, <1>2, <1>3, EarliestOf
    <2> QED
      BY <1>3, <2>1 DEF S
  <1>4. CASE S # {}
    <2>1. /\ ExitBy(T, e) \in S /\ ExitBy(T, e) # 0 /\ \A x \in S : ExitBy(T, e) <= x
      BY <1>1, <1>2, <1>4, EarliestOf
    <2> QED
      BY <2>1 DEF S
  <1> QED
    BY <1>3, <1>4

LEMMA NextIs ==
  ASSUME px \in Seq(Prices), px # <<>>, NEW T \in Nat, NEW x \in Nat, x <= T
  PROVE  /\ NextBy(T, x) \in Nat /\ NextBy(T, x) > x /\ NextBy(T, x) <= T + 1
         /\ NextBy(T, x) # T + 1 => NextBy(T, x) \in L!First .. T /\ L!Rearms(NextBy(T, x))
         /\ \A j \in L!First .. T : j > x /\ L!Rearms(j) => NextBy(T, x) <= j
  <1> DEFINE S == {j \in L!First .. T : j > x /\ L!Rearms(j)} \cup {T + 1}
  <1>1. S \in SUBSET Nat /\ S # {} /\ T + 1 \in S
    BY FirstTypes
  <1>2. NextBy(T, x) = L!Min(S)
    BY DEF NextBy
  <1>3. NextBy(T, x) \in S /\ \A y \in S : NextBy(T, x) <= y
    BY <1>1, <1>2, LeastOf
  <1> QED
    BY <1>1, <1>3

LEMMA ResumesIs ==
  ASSUME px \in Seq(Prices), px # <<>>, NEW T \in Nat, NEW i \in Nat, Resumes(T, i)
  PROVE  /\ TriggerBy(T, i) \in L!First .. T /\ TriggerBy(T, i) >= i
         /\ ExitBy(T, TriggerBy(T, i)) \in L!First .. T /\ ExitBy(T, TriggerBy(T, i)) > TriggerBy(T, i)
         /\ Later(T, i) \in Nat /\ Later(T, i) > ExitBy(T, TriggerBy(T, i)) /\ Later(T, i) > i /\ Later(T, i) <= T + 1
  <1> DEFINE e == TriggerBy(T, i)
             x == ExitBy(T, e)
  <1>1. e \in L!First .. T /\ e >= i /\ e \in Nat
    BY TriggerIs, FirstTypes DEF Resumes
  <1>2. x \in L!First .. T /\ x > e /\ x \in Nat
    BY <1>1, ExitIs, FirstTypes DEF Resumes
  <1>3. Later(T, i) = NextBy(T, x)
    BY DEF Later
  <1> HIDE DEF e, x
  <1>4. x <= T
    BY <1>2, FirstTypes
  <1>5. NextBy(T, x) \in Nat /\ NextBy(T, x) > x /\ NextBy(T, x) <= T + 1
    BY <1>2, <1>4, NextIs
  <1>6. NextBy(T, x) > i
    BY <1>1, <1>2, <1>5
  <1> QED
    BY <1>1, <1>2, <1>3, <1>5, <1>6 DEF e, x

LEMMA ReachedFits ==
  ASSUME px \in Seq(Prices), px # <<>>, NEW T \in Nat
  PROVE  /\ Unleft(T, Reached(T)) /\ Reached(T) \subseteq Nat
         /\ \A i \in Reached(T) : L!First <= i
         /\ L!First <= T => \A i \in Reached(T) : i <= T + 1
  <1>1. L!First \in Nat
    BY FirstTypes
  <1>2. Reached(T) \subseteq Nat
    BY DEF Reached
  <1>3. Unleft(T, Reached(T))
    <2>1. L!First \in Reached(T)
      BY <1>1 DEF Reached, Unleft
    <2>2. ASSUME NEW i \in Reached(T), Resumes(T, i) PROVE Later(T, i) \in Reached(T)
      <3>1. Later(T, i) \in Nat
        BY <1>2, <2>2, ResumesIs
      <3>2. ASSUME NEW S \in SUBSET Nat, Unleft(T, S) PROVE Later(T, i) \in S
        BY <2>2, <3>2 DEF Reached, Unleft
      <3> QED
        BY <3>1, <3>2 DEF Reached
    <2> QED
      BY <2>1, <2>2 DEF Unleft
  <1>4. ASSUME NEW i \in Reached(T) PROVE L!First <= i
    <2> DEFINE S == {n \in Nat : L!First <= n}
    <2>1. L!First \in S
      BY <1>1
    <2>2. ASSUME NEW n \in S, Resumes(T, n) PROVE Later(T, n) \in S
      <3>1. Later(T, n) \in Nat /\ Later(T, n) > n
        BY <2>2, ResumesIs
      <3> QED
        BY <1>1, <3>1
    <2>3. Unleft(T, S)
      BY <2>1, <2>2 DEF Unleft
    <2> QED
      BY <2>3 DEF Reached
  <1>5. ASSUME L!First <= T, NEW i \in Reached(T) PROVE i <= T + 1
    <2> DEFINE S == {n \in Nat : n <= T + 1}
    <2>1. L!First \in S
      BY <1>1, <1>5
    <2>2. ASSUME NEW n \in S, Resumes(T, n) PROVE Later(T, n) \in S
      BY <2>2, ResumesIs
    <2>3. Unleft(T, S)
      BY <2>1, <2>2 DEF Unleft
    <2> QED
      BY <2>3 DEF Reached
  <1> QED
    BY <1>2, <1>3, <1>4, <1>5

\* The bars from which an episode is looked for follow each other: none lies between one and the next.
LEMMA ReachedInOrder ==
  ASSUME px \in Seq(Prices), px # <<>>, NEW T \in Nat, NEW i \in Reached(T), NEW j \in Reached(T), j < i
  PROVE  Resumes(T, j) /\ Later(T, j) <= i
  <1> DEFINE Separates(n) == \A k \in Reached(T) : k < n => Resumes(T, k) /\ Later(T, k) <= n
             S == {n \in Reached(T) : Separates(n)}
  <1>1. /\ Unleft(T, Reached(T)) /\ Reached(T) \subseteq Nat /\ L!First \in Nat
        /\ \A n \in Reached(T) : L!First <= n
    BY ReachedFits, FirstTypes
  <1>2. L!First \in S
    BY <1>1 DEF Unleft
  <1>3. ASSUME NEW n \in S, Resumes(T, n) PROVE Later(T, n) \in S
    <2> DEFINE R == {k \in Reached(T) : k <= n \/ k >= Later(T, n)}
    <2>1. Later(T, n) \in Reached(T) /\ Later(T, n) \in Nat /\ Later(T, n) > n /\ n \in Nat
      BY <1>1, <1>3, ResumesIs DEF Unleft
    <2>2. ASSUME NEW k \in R, Resumes(T, k) PROVE Later(T, k) \in R
      <3>1. k \in Nat /\ Later(T, k) \in Reached(T) /\ Later(T, k) \in Nat /\ Later(T, k) > k
        BY <1>1, <2>2, ResumesIs DEF Unleft
      <3>2. CASE k < n
        BY <3>1, <3>2, <1>3
      <3>3. CASE k = n
        BY <3>1, <3>3, <2>1
      <3>4. CASE k >= Later(T, n)
        BY <3>1, <3>4, <2>1
      <3> QED
        BY <2>1, <3>1, <3>2, <3>3, <3>4
    <2>3. L!First \in R
      BY <1>1, <1>3 DEF Unleft
    <2>4. Unleft(T, R) /\ R \in SUBSET Nat
      BY <1>1, <2>2, <2>3 DEF Unleft
    <2>5. \A k \in Reached(T) : k <= n \/ k >= Later(T, n)
      BY <2>4 DEF Reached
    <2>6. ASSUME NEW k \in Reached(T), k < Later(T, n) PROVE Resumes(T, k) /\ Later(T, k) <= Later(T, n)
      <3>1. k \in Nat /\ k <= n
        BY <1>1, <2>1, <2>5, <2>6
      <3>2. CASE k = n
        BY <1>3, <2>1, <3>2
      <3>3. CASE k < n
        <4>1. Resumes(T, k) /\ Later(T, k) <= n
          BY <1>3, <3>3
        <4>2. Later(T, k) \in Nat
          BY <3>1, <4>1, ResumesIs
        <4> QED
          BY <2>1, <4>1, <4>2
      <3> QED
        BY <2>1, <3>1, <3>2, <3>3
    <2> QED
      BY <2>1, <2>6
  <1>4. Unleft(T, S) /\ S \in SUBSET Nat
    BY <1>1, <1>2, <1>3 DEF Unleft
  <1>5. i \in S
    BY <1>4 DEF Reached
  <1> QED
    BY <1>5

\* Between two episodes the replay has seen the recovery of the first, and a reset after it.
LEMMA EntriesInOrder ==
  ASSUME px \in Seq(Prices), px # <<>>, NEW T \in Nat, NEW s \in Entries(T), NEW t \in Entries(T), s < t
  PROVE  \E x \in s + 1 .. t - 1 : \E r \in x + 1 .. t : px[x] >= L!RefHigh(s) /\ L!Rearms(r)
  <1>1. /\ L!First \in Nat /\ s \in L!First .. T /\ t \in L!First .. T /\ s \in Nat /\ t \in Nat
        /\ Reached(T) \subseteq Nat /\ L!First >= 1
    BY FirstTypes, ReachedFits DEF Entries
  <1>2. PICK i \in Reached(T) : TriggerBy(T, i) = s
    BY DEF Entries
  <1>3. PICK j \in Reached(T) : TriggerBy(T, j) = t
    BY DEF Entries
  <1>4. i \in Nat /\ j \in Nat /\ i <= s /\ j <= t /\ s # 0 /\ t # 0
    <2>1. i \in Nat /\ j \in Nat /\ s # 0 /\ t # 0
      BY <1>1
    <2>2. s >= i
      BY <1>2, <2>1, TriggerIs
    <2>3. t >= j
      BY <1>3, <2>1, TriggerIs
    <2> QED
      BY <1>1, <2>1, <2>2, <2>3
  <1>5. i < j
    <2>1. i # j
      BY <1>1, <1>2, <1>3
    <2>2. ASSUME j < i PROVE FALSE
      <3>1. Resumes(T, j) /\ Later(T, j) <= i
        BY <2>2, ReachedInOrder
      <3>2. Later(T, j) \in Nat /\ ExitBy(T, t) \in L!First .. T /\ ExitBy(T, t) > t /\ Later(T, j) > ExitBy(T, t)
        BY <1>3, <1>4, <3>1, ResumesIs
      <3> QED
        BY <1>1, <1>4, <3>1, <3>2
    <2> QED
      BY <1>4, <2>1, <2>2
  <1>6. Resumes(T, i) /\ Later(T, i) <= j
    BY <1>5, ReachedInOrder
  <1> DEFINE x == ExitBy(T, s)
             r == Later(T, i)
  <1>7. /\ x \in L!First .. T /\ x > s /\ r \in Nat /\ r > x /\ r <= t /\ r = NextBy(T, x) /\ x \in Nat
    BY <1>1, <1>2, <1>4, <1>6, ResumesIs DEF Later
  <1>8. px[x] >= L!RefHigh(s)
    BY <1>1, <1>2, <1>6, ExitIs DEF Resumes
  <1> HIDE DEF x, r
  <1>9. L!Rearms(r)
    <2>1. r # T + 1 /\ x <= T
      BY <1>1, <1>7
    <2> QED
      BY <1>7, <2>1, NextIs
  <1>10. x \in s + 1 .. t - 1 /\ r \in x + 1 .. t
    BY <1>1, <1>7
  <1> QED
    BY <1>8, <1>9, <1>10

\* The replay of more bars meets the same episodes first.
LEMMA TriggerStays ==
  ASSUME px \in Seq(Prices), px # <<>>, NEW T \in Nat, NEW R \in Nat, T <= R, NEW i \in Nat, TriggerBy(T, i) # 0
  PROVE  TriggerBy(R, i) = TriggerBy(T, i)
  <1> DEFINE S == {j \in L!First .. T : j >= i /\ L!Below(j, L!Levels[1])}
             U == {j \in L!First .. R : j >= i /\ L!Below(j, L!Levels[1])}
  <1>1. L!First \in Nat /\ L!First >= 1
    BY FirstTypes
  <1>2. S \in SUBSET (Nat \ {0}) /\ U \in SUBSET (Nat \ {0}) /\ S \subseteq U
    BY <1>1
  <1>3. \A x \in U \ S : \A y \in S : y < x
    BY <1>1
  <1>4. TriggerBy(T, i) = L!Earliest(S) /\ TriggerBy(R, i) = L!Earliest(U)
    BY DEF TriggerBy
  <1> HIDE DEF S, U
  <1>5. S # {}
    BY <1>2, <1>4, EarliestOf
  <1> QED
    BY <1>2, <1>3, <1>4, <1>5, EarliestStays

LEMMA ExitStays ==
  ASSUME px \in Seq(Prices), px # <<>>, NEW T \in Nat, NEW R \in Nat, T <= R, NEW e \in Nat, ExitBy(T, e) # 0
  PROVE  ExitBy(R, e) = ExitBy(T, e)
  <1> DEFINE S == {j \in L!First .. T : j > e /\ px[j] >= L!RefHigh(e)}
             U == {j \in L!First .. R : j > e /\ px[j] >= L!RefHigh(e)}
  <1>1. L!First \in Nat /\ L!First >= 1
    BY FirstTypes
  <1>2. S \in SUBSET (Nat \ {0}) /\ U \in SUBSET (Nat \ {0}) /\ S \subseteq U
    BY <1>1
  <1>3. \A x \in U \ S : \A y \in S : y < x
    BY <1>1
  <1>4. ExitBy(T, e) = L!Earliest(S) /\ ExitBy(R, e) = L!Earliest(U)
    BY DEF ExitBy
  <1> HIDE DEF S, U
  <1>5. S # {}
    BY <1>2, <1>4, EarliestOf
  <1> QED
    BY <1>2, <1>3, <1>4, <1>5, EarliestStays

LEMMA NextStays ==
  ASSUME px \in Seq(Prices), px # <<>>, NEW T \in Nat, NEW R \in Nat, T <= R, NEW x \in Nat, x <= T,
         NextBy(T, x) # T + 1
  PROVE  NextBy(R, x) = NextBy(T, x)
  <1> DEFINE m == NextBy(T, x)
             n == NextBy(R, x)
  <1>1. m \in Nat /\ m > x /\ m \in L!First .. T /\ L!Rearms(m) /\ \A j \in L!First .. T : j > x /\ L!Rearms(j) => m <= j
    BY NextIs
  <1>2. x <= R
    OBVIOUS
  <1>3. /\ n \in Nat /\ n > x /\ (n # R + 1 => n \in L!First .. R /\ L!Rearms(n))
        /\ \A j \in L!First .. R : j > x /\ L!Rearms(j) => n <= j
    BY <1>2, NextIs
  <1>4. L!First \in Nat
    BY FirstTypes
  <1> HIDE DEF m, n
  <1>5. n <= m
    BY <1>1, <1>3, <1>4
  <1>6. n \in L!First .. T /\ L!Rearms(n)
    BY <1>1, <1>3, <1>4, <1>5
  <1>7. m <= n
    BY <1>1, <1>3, <1>6
  <1>8. m = n
    BY <1>1, <1>3, <1>5, <1>7
  <1> QED
    BY <1>8 DEF m, n

LEMMA EntriesStay ==
  ASSUME px \in Seq(Prices), px # <<>>, NEW T \in Nat, NEW R \in Nat, T <= R, L!First <= T
  PROVE  Entries(T) \subseteq Entries(R)
  <1>1. L!First \in Nat /\ L!First >= 1 /\ Reached(T) \subseteq Nat /\ Reached(R) \subseteq Nat
    BY FirstTypes, ReachedFits
  <1> DEFINE U == Reached(R) \cup {T + 1}
  <1>2. L!First \in U
    BY ReachedFits DEF Unleft
  <1>3. ASSUME NEW i \in U, Resumes(T, i) PROVE Later(T, i) \in U
    <2>1. i \in Nat
      BY <1>1
    <2>2. /\ TriggerBy(T, i) \in L!First .. T /\ TriggerBy(T, i) >= i /\ ExitBy(T, TriggerBy(T, i)) \in L!First .. T
          /\ TriggerBy(T, i) # 0 /\ ExitBy(T, TriggerBy(T, i)) # 0
      BY <1>3, <2>1, ResumesIs DEF Resumes
    <2>3. i \in Reached(R)
      BY <1>1, <2>1, <2>2
    <2>4. TriggerBy(R, i) = TriggerBy(T, i)
      BY <2>1, <2>2, TriggerStays
    <2>5. TriggerBy(T, i) \in Nat /\ ExitBy(T, TriggerBy(T, i)) \in Nat /\ ExitBy(T, TriggerBy(T, i)) <= T
      BY <1>1, <2>2
    <2>6. ExitBy(R, TriggerBy(R, i)) = ExitBy(T, TriggerBy(T, i))
      BY <2>2, <2>4, <2>5, ExitStays
    <2>7. Resumes(R, i)
      BY <2>2, <2>4, <2>6 DEF Resumes
    <2>8. CASE Later(T, i) = T + 1
      BY <2>8
    <2>9. CASE Later(T, i) # T + 1
      <3>1. Later(R, i) = Later(T, i)
        BY <2>4, <2>5, <2>6, <2>9, NextStays DEF Later
      <3> QED
        BY <2>3, <2>7, <3>1, ReachedFits DEF Unleft
    <2> QED
      BY <2>8, <2>9
  <1>4. Unleft(T, U) /\ U \in SUBSET Nat
    BY <1>1, <1>2, <1>3 DEF Unleft
  <1>5. ASSUME NEW s \in Entries(T) PROVE s \in Entries(R)
    <2>1. PICK i \in Reached(T) : TriggerBy(T, i) = s
      BY DEF Entries
    <2>2. s \in L!First .. T /\ s \in L!First .. R /\ s # 0 /\ i \in Nat
      BY <1>1 DEF Entries
    <2>3. s >= i
      BY <2>1, <2>2, TriggerIs
    <2>4. i \in U
      BY <1>4 DEF Reached
    <2>5. i \in Reached(R)
      BY <1>1, <2>2, <2>3, <2>4
    <2>6. TriggerBy(R, i) = s
      BY <2>1, <2>2, TriggerStays
    <2> QED
      BY <2>2, <2>5, <2>6 DEF Entries
  <1> QED
    BY <1>5

\* What was found in a history stands while the history does.
LEMMA HistoryStands ==
  ASSUME px \in Seq(Prices), px # <<>>, px' \in Seq(Prices), px' # <<>>, L!First' = L!First,
         NEW CONSTANT T \in Nat, T <= L!Today, T <= L!Today', \A j \in 1 .. T : px'[j] = px[j]
  PROVE  /\ Entries(T)' = Entries(T)
         /\ \A j \in L!First .. T : /\ L!RefHigh(j)' = L!RefHigh(j)
                                    /\ \A level : L!Below(j, level)' = L!Below(j, level)
  <1>1. /\ L!First \in Nat /\ L!First >= 1 /\ L!Today \in Nat /\ L!Today' \in Nat
    BY FirstTypes, LenProperties DEF L!Today
  <1>2. ASSUME NEW CONSTANT j \in L!First .. T
        PROVE  /\ L!RefHigh(j)' = L!RefHigh(j)
               /\ \A level : L!Below(j, level)' = L!Below(j, level)
               /\ L!Rearms(j)' = L!Rearms(j)
    <2> DEFINE K == {k \in L!Bars : k <= j /\ k > j - RefWindow}
    <2>1. K' = K /\ \A k \in K : px'[k] = px[k]
      BY <1>1, <1>2 DEF L!Bars
    <2>2. {px[k] : k \in K}' = {px[k] : k \in K}
      BY <2>1
    <2>3. L!RefHigh(j) = L!Max({px[k] : k \in K})
      BY DEF L!RefHigh
    <2>4. L!RefHigh(j)' = L!Max({px[k] : k \in K}')
      BY DEF L!RefHigh
    <2>5. L!RefHigh(j)' = L!RefHigh(j)
      BY <2>2, <2>3, <2>4
    <2>6. px'[j] = px[j]
      BY <1>1, <1>2
    <2> HIDE DEF K
    <2>7. L!HasRef(j)' = L!HasRef(j)
      BY DEF L!HasRef
    <2>8. \A level : L!Below(j, level)' = L!Below(j, level)
      BY <2>5, <2>6, <2>7 DEF L!Below
    <2>9. L!Rearms(j)' = L!Rearms(j)
      BY <2>5, <2>6, <2>7 DEF L!Rearms, L!ResetLevel
    <2> QED
      BY <2>5, <2>8, <2>9
  <1>3. ASSUME NEW CONSTANT i \in Nat PROVE TriggerBy(T, i)' = TriggerBy(T, i)
    <2>1. {j \in L!First .. T : j >= i /\ L!Below(j, L!Levels[1])}' = {j \in L!First .. T : j >= i /\ L!Below(j, L!Levels[1])}
      BY <1>2
    <2> QED
      BY <2>1 DEF TriggerBy
  <1>4. ASSUME NEW CONSTANT e \in L!First .. T PROVE ExitBy(T, e)' = ExitBy(T, e)
    <2>1. L!RefHigh(e)' = L!RefHigh(e) /\ \A j \in L!First .. T : px'[j] = px[j]
      BY <1>1, <1>2
    <2>2. {j \in L!First .. T : j > e /\ px[j] >= L!RefHigh(e)}' = {j \in L!First .. T : j > e /\ px[j] >= L!RefHigh(e)}
      BY <2>1
    <2> QED
      BY <2>2 DEF ExitBy
  <1>5. ASSUME NEW CONSTANT x \in Nat PROVE NextBy(T, x)' = NextBy(T, x)
    <2>1. ({j \in L!First .. T : j > x /\ L!Rearms(j)} \cup {T + 1})' = {j \in L!First .. T : j > x /\ L!Rearms(j)} \cup {T + 1}
      BY <1>2
    <2> QED
      BY <2>1 DEF NextBy
  <1>6. ASSUME NEW CONSTANT i \in Nat
        PROVE  Resumes(T, i)' = Resumes(T, i) /\ (Resumes(T, i) => Later(T, i)' = Later(T, i))
    <2>1. TriggerBy(T, i)' = TriggerBy(T, i)
      BY <1>3
    <2>2. CASE TriggerBy(T, i) = 0
      BY <2>1, <2>2 DEF Resumes
    <2>3. CASE TriggerBy(T, i) # 0
      <3>1. PICK e \in L!First .. T : e = TriggerBy(T, i)
        BY <2>3, TriggerIs
      <3>2. TriggerBy(T, i)' = e /\ e \in Nat
        BY <1>1, <2>1, <3>1
      <3>3. L!RefHigh(TriggerBy(T, i))' = L!RefHigh(e)'
        BY <3>2 DEF L!RefHigh
      <3>4. ExitBy(T, TriggerBy(T, i))' = ExitBy(T, e)'
        BY <3>2, <3>3 DEF ExitBy
      <3>5. ExitBy(T, TriggerBy(T, i))' = ExitBy(T, e)
        BY <1>4, <3>4
      <3>6. Resumes(T, i)' = Resumes(T, i)
        BY <2>1, <3>1, <3>5 DEF Resumes
      <3>7. ASSUME Resumes(T, i) PROVE Later(T, i)' = Later(T, i)
        <4>1. ExitBy(T, e) # 0
          BY <3>1, <3>7 DEF Resumes
        <4>2. ExitBy(T, e) \in L!First .. T
          BY <3>2, <4>1, ExitIs
        <4>3. PICK x \in L!First .. T : x = ExitBy(T, e)
          BY <4>2
        <4>4. ExitBy(T, TriggerBy(T, i))' = x /\ x \in Nat
          BY <1>1, <3>5, <4>3
        <4>5. NextBy(T, ExitBy(T, TriggerBy(T, i)))' = NextBy(T, x)'
          BY <4>4 DEF NextBy
        <4>6. NextBy(T, x)' = NextBy(T, x)
          BY <1>5, <4>4
        <4> QED
          BY <3>1, <4>3, <4>5, <4>6 DEF Later
      <3> QED
        BY <3>6, <3>7
    <2> QED
      BY <2>2, <2>3
  <1>7. ASSUME NEW CONSTANT S \in SUBSET Nat PROVE Unleft(T, S)' = Unleft(T, S)
    <2>1. \A i \in S : Resumes(T, i)' = Resumes(T, i) /\ (Resumes(T, i) => Later(T, i)' = Later(T, i))
      BY <1>6
    <2> QED
      BY <2>1 DEF Unleft
  <1>8. Reached(T)' = Reached(T)
    BY <1>7 DEF Reached
  <1>9. Entries(T)' = Entries(T)
    <2>1. \A i \in Reached(T) : TriggerBy(T, i)' = TriggerBy(T, i)
      BY <1>3, ReachedFits
    <2> QED
      BY <1>8, <2>1 DEF Entries
  <1> QED
    BY <1>2, <1>9

\* What the replay returns that looks for an episode from i, in terms of what it returns later.
Replays(g, i) ==
    IF TriggerBy(L!Today, i) = 0 THEN 0
    ELSE IF ExitBy(L!Today, TriggerBy(L!Today, i)) = 0 THEN TriggerBy(L!Today, i) ELSE g[Later(L!Today, i)]

\* The replay ends: what it returns is defined backwards, from the last bar.
LEMMA ReplayEnds ==
  ASSUME px \in Seq(Prices), px # <<>>
  PROVE  \E g : g = [i \in L!First .. L!Today + 1 |-> Replays(g, i)]
  <1> DEFINE N == {n \in L!First .. L!Today + 1 : \E g : g = [i \in n .. L!Today + 1 |-> Replays(g, i)]}
  <1>1. /\ L!First \in Nat /\ L!First >= 1 /\ L!Today \in Nat /\ L!First <= L!Today
    BY FirstTypes
  <1>2. L!Today + 1 \in N
    <2> DEFINE g == [i \in L!Today + 1 .. L!Today + 1 |-> 0]
    <2>1. TriggerBy(L!Today, L!Today + 1) = 0
      BY <1>1, TriggerIs
    <2>2. \A i \in L!Today + 1 .. L!Today + 1 : Replays(g, i) = 0
      BY <1>1, <2>1 DEF Replays
    <2> HIDE DEF g
    <2>3. g = [i \in L!Today + 1 .. L!Today + 1 |-> Replays(g, i)]
      BY <2>2 DEF g
    <2> QED
      BY <1>1, <2>3
  <1>3. N \subseteq Nat /\ N # {}
    <2>1. \A n \in N : n \in L!First .. L!Today + 1
      OBVIOUS
    <2> HIDE DEF N
    <2> QED
      BY <1>1, <1>2, <2>1
  <1>4. PICK n \in N : \A m \in N : n <= m
    BY <1>3, LeastNatural
  <1>5. n \in Nat /\ L!First <= n /\ n <= L!Today + 1
    BY <1>1, <1>4
  <1>6. PICK g : g = [i \in n .. L!Today + 1 |-> Replays(g, i)]
    BY <1>4
  <1>7. ASSUME L!First < n PROVE FALSE
    <2> DEFINE f == [i \in n - 1 .. L!Today + 1 |-> IF i = n - 1 THEN Replays(g, i) ELSE g[i]]
    <2>1. ASSUME NEW i \in n - 1 .. L!Today + 1 PROVE Replays(f, i) = Replays(g, i)
      <3>1. i \in Nat
        BY <1>1, <1>5, <1>7, <2>1
      <3>2. ASSUME Resumes(L!Today, i) PROVE f[Later(L!Today, i)] = g[Later(L!Today, i)]
        <4>1. Later(L!Today, i) \in n .. L!Today + 1
          BY <1>1, <1>5, <2>1, <3>1, <3>2, ResumesIs
        <4> QED
          BY <1>5, <4>1
      <3> HIDE DEF f
      <3> QED
        BY <3>2 DEF Replays, Resumes
    <2>2. \A i \in n .. L!Today + 1 : g[i] = Replays(g, i)
      BY <1>6
    <2>3. \A i \in n - 1 .. L!Today + 1 : f[i] = Replays(f, i)
      BY <1>5, <2>1, <2>2
    <2>4. f = [i \in n - 1 .. L!Today + 1 |-> f[i]]
      OBVIOUS
    <2> HIDE DEF f
    <2>5. f = [i \in n - 1 .. L!Today + 1 |-> Replays(f, i)]
      BY <2>3, <2>4
    <2>6. n - 1 \in L!First .. L!Today + 1
      BY <1>1, <1>5, <1>7
    <2>7. n - 1 \in N
      BY <2>5, <2>6
    <2> QED
      BY <1>4, <1>5, <2>7
  <1>8. n = L!First
    BY <1>1, <1>5, <1>7
  <1> QED
    BY <1>6, <1>8

LEMMA ReplayIs ==
  ASSUME px \in Seq(Prices), px # <<>>
  PROVE  \E g : /\ L!OpenEntry = g[L!First]
                /\ \A i \in L!First .. L!Today + 1 : g[i] = Replays(g, i)
  <1> DEFINE P(g) == g = [i \in L!First .. L!Today + 1 |-> Replays(g, i)]
             from == CHOOSE g : P(g)
  <1>1. P(from)
    BY ReplayEnds
  <1>2. \A i : TriggerBy(L!Today, i) = L!Earliest({j \in L!Bars : j >= i /\ L!Below(j, L!Levels[1])})
    BY DEF TriggerBy, L!Bars
  <1>3. \A e : ExitBy(L!Today, e) = L!ExitOf(e)
    BY DEF ExitBy, L!ExitOf, L!Bars
  <1>4. \A x : NextBy(L!Today, x) = L!NextFrom(x)
    BY DEF NextBy, L!NextFrom, L!Bars
  <1>5. \A g, i : Replays(g, i) = LET e == L!Earliest({j \in L!Bars : j >= i /\ L!Below(j, L!Levels[1])})
                                  IN IF e = L!None THEN L!None ELSE IF L!ExitOf(e) = L!None THEN e ELSE g[L!NextFrom(L!ExitOf(e))]
    BY <1>2, <1>3, <1>4 DEF Replays, Later, L!None
  <1>6. L!OpenEntry = from[L!First]
    BY <1>5 DEF L!OpenEntry
  <1> HIDE DEF from
  <1>7. \A i \in L!First .. L!Today + 1 : from[i] = Replays(from, i)
    BY <1>1
  <1> QED
    BY <1>6, <1>7

\* The replay returns the episode that it meets and that does not end.
LEMMA OpenEntryIs ==
  ASSUME px \in Seq(Prices), px # <<>>
  PROVE  /\ L!OpenEntry # 0 => L!OpenEntry \in Entries(L!Today) /\ ExitBy(L!Today, L!OpenEntry) = 0
         /\ \A s \in Entries(L!Today) : ExitBy(L!Today, s) = 0 => L!OpenEntry = s
  <1> DEFINE T == L!Today
  <1>1. PICK g : L!OpenEntry = g[L!First] /\ \A i \in L!First .. T + 1 : g[i] = Replays(g, i)
    BY ReplayIs
  <1>2. /\ L!First \in Nat /\ L!First >= 1 /\ T \in Nat /\ L!First <= T
    BY FirstTypes
  <1>3. /\ Unleft(T, Reached(T)) /\ Reached(T) \subseteq Nat
        /\ \A i \in Reached(T) : i \in L!First .. T + 1
    BY <1>2, ReachedFits
  <1> HIDE DEF T
  <1>4. ASSUME NEW i \in Reached(T), Resumes(T, i) PROVE g[Later(T, i)] = g[i] /\ Later(T, i) \in Reached(T)
    BY <1>1, <1>3, <1>4 DEF Replays, Resumes, Unleft, T
  <1>5. ASSUME NEW i \in Reached(T) PROVE g[i] = L!OpenEntry
    <2> DEFINE S == {n \in Reached(T) : g[n] = L!OpenEntry}
    <2>1. Unleft(T, S) /\ S \in SUBSET Nat
      BY <1>1, <1>3, <1>4 DEF Unleft
    <2> QED
      BY <2>1 DEF Reached
  <1>6. ASSUME L!OpenEntry # 0 PROVE L!OpenEntry \in Entries(T) /\ ExitBy(T, L!OpenEntry) = 0
    <2>1. Reached(T) # {} /\ T + 1 \in Nat /\ \A i \in Reached(T) : i <= T + 1
      BY <1>2, <1>3 DEF Unleft
    <2>2. PICK i \in Reached(T) : \A j \in Reached(T) : j <= i
      BY <1>2, <1>3, <2>1, GreatestNatural
    <2>3. i \in Nat /\ i \in L!First .. T + 1 /\ g[i] = L!OpenEntry
      BY <1>3, <1>5
    <2>4. ~Resumes(T, i)
      <3>1. ASSUME Resumes(T, i) PROVE FALSE
        <4>1. Later(T, i) \in Reached(T) /\ Later(T, i) > i /\ Later(T, i) \in Nat
          BY <1>2, <1>4, <2>3, <3>1, ResumesIs
        <4> QED
          BY <2>2, <2>3, <4>1
      <3> QED
        BY <3>1
    <2>5. L!OpenEntry = Replays(g, i)
      BY <1>1, <2>3
    <2>6. TriggerBy(T, i) # 0 /\ ExitBy(T, TriggerBy(T, i)) = 0 /\ L!OpenEntry = TriggerBy(T, i)
      BY <1>6, <2>4, <2>5 DEF Replays, Resumes, T
    <2>7. TriggerBy(T, i) \in L!First .. T
      BY <1>2, <2>3, <2>6, TriggerIs
    <2> QED
      BY <2>6, <2>7 DEF Entries
  <1>7. ASSUME NEW s \in Entries(T), ExitBy(T, s) = 0 PROVE L!OpenEntry = s
    <2>1. PICK i \in Reached(T) : TriggerBy(T, i) = s
      BY DEF Entries
    <2>2. s # 0
      BY <1>2 DEF Entries
    <2>3. g[i] = s
      BY <1>1, <1>3, <1>7, <2>1, <2>2 DEF Replays, T
    <2> QED
      BY <1>5, <2>3
  <1> QED
    BY <1>6, <1>7 DEF T

\* The purchases and the path of an episode, as far as the bars up to T tell.
FillsBy(T, e) ==
    LET second == L!Earliest({j \in L!First .. T : j > e /\ L!Below(j, L!Levels[2])})
        third == L!Earliest({j \in L!First .. T : j > second /\ L!Below(j, L!Levels[3])})
    IN IF second = 0 THEN <<e>> ELSE IF third = 0 THEN <<e, second>> ELSE <<e, second, third>>
PathBy(T, e, fills) ==
    [b \in {b \in L!Buckets : e + b <= T} |->
        LET sofar == {k \in DOMAIN fills : fills[k] <= e + b}
        IN [price |-> px[e + b], paid |-> [k \in sofar |-> px[fills[k]]]]]

\* An episode of the ledger is one the replay met when it was last seen, with what it found then.
FoundIn(e) ==
    /\ e.found.signal \in Entries(e.seen) /\ e.found.ref = L!RefHigh(e.found.signal)
    /\ ~e.open => L!Recovered(e)
    /\ e.open => /\ e.found.fills = FillsBy(e.seen, e.found.signal)
                 /\ e.found.path = PathBy(e.seen, e.found.signal, e.found.fills)
Increases(fills, signal) ==
    /\ fills \in Seq(Nat) /\ fills[1] = signal
    /\ \A k \in 2 .. Len(fills) : fills[k] > fills[k - 1]
EpisodeFits(e) ==
    /\ e = [found |-> e.found, open |-> e.open, since |-> e.since, last |-> e.last, seen |-> e.seen,
            backfilled |-> e.backfilled]
    /\ e.open \in BOOLEAN /\ e.since \in Nat /\ e.since <= L!First /\ e.since <= e.seen
    /\ e.seen \in Nat /\ e.seen <= led.lastRun /\ e.found.signal \in 1 .. e.seen
    /\ Increases(e.found.fills, e.found.signal)
    /\ L!Undisturbed(e) => FoundIn(e)
LadderInv ==
    /\ px \in Seq(Prices) /\ px # <<>> /\ late \in BOOLEAN /\ revised \in BOOLEAN /\ extras \in 0 .. MaxExtras
    /\ led.lastRun \in 0 .. L!Today /\ led.eps \in Seq(L!Episodes)
    /\ \A k \in DOMAIN led.eps : led.eps[k].open => k = Len(led.eps)
    /\ \A e \in L!Episodes : EpisodeFits(e)

LEMMA FillsAre ==
  ASSUME px \in Seq(Prices), px # <<>>, NEW T \in Nat, NEW e \in Nat, e <= T
  PROVE  /\ Increases(FillsBy(T, e), e) /\ \A k \in DOMAIN FillsBy(T, e) : FillsBy(T, e)[k] \in e .. T
         /\ DOMAIN FillsBy(T, e) = 1 .. Len(FillsBy(T, e))
  <1> DEFINE S == {j \in L!First .. T : j > e /\ L!Below(j, L!Levels[2])}
             second == L!Earliest(S)
             R == {j \in L!First .. T : j > second /\ L!Below(j, L!Levels[3])}
             third == L!Earliest(R)
  <1>1. S \in SUBSET (Nat \ {0}) /\ R \in SUBSET (Nat \ {0})
    BY FirstTypes
  <1>2. second = 0 \/ (second \in L!First .. T /\ second > e)
    <2>1. S = {} \/ second \in S
      BY <1>1, EarliestOf
    <2>2. S = {} => second = 0
      BY <1>1, EarliestOf
    <2> HIDE DEF second
    <2> QED
      BY <2>1, <2>2
  <1>3. third = 0 \/ (third \in L!First .. T /\ third > second)
    <2>1. R = {} \/ third \in R
      BY <1>1, EarliestOf
    <2>2. R = {} => third = 0
      BY <1>1, EarliestOf
    <2> HIDE DEF second, third
    <2> QED
      BY <2>1, <2>2
  <1>4. FillsBy(T, e) = IF second = 0 THEN <<e>> ELSE IF third = 0 THEN <<e, second>> ELSE <<e, second, third>>
    BY DEF FillsBy
  <1>5. L!First \in Nat
    BY FirstTypes
  <1> HIDE DEF second, third
  <1>6. CASE second = 0
    <2>1. FillsBy(T, e) = <<e>>
      BY <1>4, <1>6
    <2> QED
      BY <2>1 DEF Increases
  <1>7. CASE second # 0 /\ third = 0
    <2>1. FillsBy(T, e) = <<e, second>> /\ second \in Nat /\ second > e /\ second <= T
      BY <1>2, <1>4, <1>5, <1>7
    <2> QED
      BY <2>1 DEF Increases
  <1>8. CASE second # 0 /\ third # 0
    <2>1. FillsBy(T, e) = <<e, second, third>> /\ second \in Nat /\ second > e /\ second <= T
          /\ third \in Nat /\ third > second /\ third <= T
      BY <1>2, <1>3, <1>4, <1>5, <1>8
    <2> QED
      BY <2>1 DEF Increases
  <1> QED
    BY <1>6, <1>7, <1>8

LEMMA FoundFits ==
  ASSUME px \in Seq(Prices), px # <<>>, L!OpenEntry # 0
  PROVE  /\ L!Found(L!OpenEntry).signal = L!OpenEntry /\ L!OpenEntry \in 1 .. L!Today /\ L!OpenEntry \in Entries(L!Today)
         /\ L!Found(L!OpenEntry).ref = L!RefHigh(L!OpenEntry)
         /\ L!Found(L!OpenEntry).fills = FillsBy(L!Today, L!OpenEntry)
         /\ L!Found(L!OpenEntry).path = PathBy(L!Today, L!OpenEntry, FillsBy(L!Today, L!OpenEntry))
         /\ Increases(L!Found(L!OpenEntry).fills, L!OpenEntry)
  <1> DEFINE e == L!OpenEntry
  <1>1. e \in Entries(L!Today)
    BY OpenEntryIs
  <1>2. e \in 1 .. L!Today /\ L!Today \in Nat
    BY <1>1, FirstTypes DEF Entries
  <1>3. L!FillBars(e) = FillsBy(L!Today, e)
    BY DEF L!FillBars, FillsBy, L!Bars, L!None
  <1>4. L!ReturnPath(e, FillsBy(L!Today, e)) = PathBy(L!Today, e, FillsBy(L!Today, e))
    BY DEF L!ReturnPath, PathBy
  <1> HIDE DEF e
  <1>5. /\ L!Found(e).signal = e /\ L!Found(e).ref = L!RefHigh(e) /\ L!Found(e).fills = FillsBy(L!Today, e)
        /\ L!Found(e).path = L!ReturnPath(e, FillsBy(L!Today, e))
    BY <1>3 DEF L!Found
  <1>6. Increases(FillsBy(L!Today, e), e)
    <2>1. e \in Nat /\ e <= L!Today /\ L!Today \in Nat
      BY <1>2
    <2> QED
      BY <2>1, FillsAre
  <1> QED
    BY <1>1, <1>2, <1>4, <1>5, <1>6 DEF e

LEMMA FillsStand ==
  ASSUME px \in Seq(Prices), px # <<>>, px' \in Seq(Prices), px' # <<>>, L!First' = L!First,
         NEW CONSTANT T \in Nat, T <= L!Today, T <= L!Today', \A j \in 1 .. T : px'[j] = px[j],
         NEW CONSTANT s \in L!First .. T
  PROVE  /\ FillsBy(T, s)' = FillsBy(T, s)
         /\ \A fills : (\A k \in DOMAIN fills : fills[k] \in s .. T) => PathBy(T, s, fills)' = PathBy(T, s, fills)
  <1>1. \A j \in L!First .. T : \A level : L!Below(j, level)' = L!Below(j, level)
    BY HistoryStands
  <1>2. {j \in L!First .. T : j > s /\ L!Below(j, L!Levels[2])}' = {j \in L!First .. T : j > s /\ L!Below(j, L!Levels[2])}
    BY <1>1
  <1> DEFINE second == L!Earliest({j \in L!First .. T : j > s /\ L!Below(j, L!Levels[2])})
  <1>3. second' = second
    BY <1>2
  <1> HIDE DEF second
  <1>4. {j \in L!First .. T : j > second /\ L!Below(j, L!Levels[3])}' = {j \in L!First .. T : j > second /\ L!Below(j, L!Levels[3])}
    BY <1>1, <1>3
  <1>5. FillsBy(T, s)' = FillsBy(T, s)
    BY <1>3, <1>4 DEF FillsBy, second
  <1>6. s \in Nat /\ s >= 1
    BY FirstTypes
  <1>7. \A b \in L!Buckets : s + b <= T => px'[s + b] = px[s + b]
    BY <1>6 DEF L!Buckets
  <1>8. ASSUME NEW fills, \A k \in DOMAIN fills : fills[k] \in s .. T PROVE PathBy(T, s, fills)' = PathBy(T, s, fills)
    <2>1. \A k \in DOMAIN fills : px'[fills[k]] = px[fills[k]]
      BY <1>6, <1>8
    <2> QED
      BY <1>7, <2>1 DEF PathBy
  <1> QED
    BY <1>5, <1>8

LEMMA LadderTyped == LadderInv => L!TypeOK
  <1> SUFFICES ASSUME LadderInv PROVE L!TypeOK
    OBVIOUS
  <1>1. led.lastRun \in Nat /\ L!Today \in Nat /\ led.lastRun <= L!Today
    BY FirstTypes DEF LadderInv
  <1>2. ASSUME NEW e \in L!Episodes
        PROVE  /\ e.found.signal \in 1 .. e.seen /\ e.seen <= L!Today
               /\ e.found.fills[1] = e.found.signal
               /\ \A k \in 2 .. Len(e.found.fills) : e.found.fills[k] > e.found.fills[k - 1]
    <2>1. EpisodeFits(e)
      BY DEF LadderInv
    <2>2. e.seen \in Nat /\ e.seen <= led.lastRun
      BY <2>1 DEF EpisodeFits
    <2>3. e.seen <= L!Today
      BY <1>1, <2>2
    <2> QED
      BY <2>1, <2>3 DEF EpisodeFits, Increases
  <1> QED
    BY <1>2 DEF LadderInv, L!TypeOK

LEMMA LadderInitFits == L!Init => LadderInv
  <1> SUFFICES ASSUME L!Init PROVE LadderInv
    OBVIOUS
  <1>1. PICK p \in Prices : px = <<p>>
    BY DEF L!Init
  <1>2. px \in Seq(Prices) /\ px # <<>> /\ L!Today = 1
    BY <1>1 DEF L!Today
  <1>3. led.lastRun = 0 /\ led.eps = <<>> /\ late = FALSE /\ revised = FALSE /\ extras = 0
    BY DEF L!Init, L!NoLedger, L!None
  <1>4. L!Episodes = {} /\ DOMAIN led.eps = {}
    BY <1>3 DEF L!Episodes
  <1>5. led.eps \in Seq(L!Episodes)
    BY <1>3
  <1>6. extras \in 0 .. MaxExtras /\ led.lastRun \in 0 .. L!Today /\ late \in BOOLEAN /\ revised \in BOOLEAN
    <2>1. late \in BOOLEAN /\ revised \in BOOLEAN
      BY <1>3
    <2>2. extras = 0 /\ led.lastRun = 0 /\ MaxExtras \in Nat /\ L!Today = 1
      BY <1>2, <1>3, LadderConstants
    <2>3. extras \in 0 .. MaxExtras /\ led.lastRun \in 0 .. L!Today
      BY <2>2
    <2> QED
      BY <2>1, <2>3
  <1> QED
    BY <1>2, <1>4, <1>5, <1>6 DEF LadderInv

\* The market moves on: what the ledger has seen stands, or is known to have changed.
LEMMA FoundStands ==
  ASSUME LadderInv, px' \in Seq(Prices), px' # <<>>, L!Today <= L!Today', NEW CONSTANT e \in L!Episodes,
         revised \in BOOLEAN, ~revised' => ~revised /\ \A j \in 1 .. led.lastRun : px'[j] = px[j],
         led'.lastRun \in Nat, led.lastRun <= led'.lastRun
  PROVE  EpisodeFits(e)'
  <1>1. EpisodeFits(e) /\ px \in Seq(Prices) /\ px # <<>>
    BY DEF LadderInv
  <1>2. /\ L!First \in Nat /\ L!First' \in Nat /\ L!Today \in Nat /\ L!Today' \in Nat /\ L!First >= 1
        /\ L!First <= L!Today
    BY <1>1, FirstTypes, LenProperties, LadderConstants DEF L!First, L!Today
  <1>3. L!First <= L!First'
    <2> DEFINE m == L!Today
               n == L!Today'
    <2>1. m \in Nat /\ n \in Nat /\ m <= n /\ Lookback \in Nat
      BY <1>2, LadderConstants
    <2>2. L!First = (IF m > Lookback THEN m - Lookback + 1 ELSE 1) /\ L!First' = (IF n > Lookback THEN n - Lookback + 1 ELSE 1)
      BY DEF L!First
    <2> HIDE DEF m, n
    <2>3. (IF m > Lookback THEN m - Lookback + 1 ELSE 1) <= (IF n > Lookback THEN n - Lookback + 1 ELSE 1)
      BY <2>1
    <2> QED
      BY <2>2, <2>3
  <1>4. /\ e.since \in Nat /\ e.since <= L!First /\ e.seen \in Nat /\ e.seen <= led.lastRun /\ led.lastRun \in Nat
        /\ led.lastRun <= L!Today /\ e.found.signal \in 1 .. e.seen
    BY <1>1 DEF EpisodeFits, LadderInv
  <1>5. ASSUME L!Undisturbed(e)' PROVE FoundIn(e)'
    <2>1. ~revised' /\ e.since = L!First'
      BY <1>5 DEF L!Undisturbed
    <2>2. L!First' = L!First /\ L!Undisturbed(e)
      BY <1>2, <1>3, <1>4, <2>1 DEF L!Undisturbed
    <2>3. FoundIn(e)
      BY <1>1, <2>2 DEF EpisodeFits
    <2> DEFINE T == e.seen
               s == e.found.signal
    <2>4. /\ T \in Nat /\ T <= L!Today /\ T <= L!Today' /\ \A j \in 1 .. T : px'[j] = px[j]
      BY <1>2, <1>4, <2>1
    <2> HIDE DEF T
    <2>5. /\ Entries(T)' = Entries(T)
          /\ \A j \in L!First .. T : /\ L!RefHigh(j)' = L!RefHigh(j)
                                     /\ \A level : L!Below(j, level)' = L!Below(j, level)
      BY <1>1, <2>2, <2>4, HistoryStands
    <2>6. s \in L!First .. T /\ s \in Entries(T)
      BY <2>3 DEF FoundIn, Entries, T
    <2>7. e.found.ref = L!RefHigh(s)'
      BY <2>3, <2>5, <2>6 DEF FoundIn
    <2>8. ASSUME ~e.open PROVE L!Recovered(e)'
      BY <1>4, <2>3, <2>4, <2>8 DEF FoundIn, L!Recovered, T
    <2>9. ASSUME e.open PROVE e.found.fills = FillsBy(T, s)' /\ e.found.path = PathBy(T, s, e.found.fills)'
      <3>1. e.found.fills = FillsBy(T, s) /\ e.found.path = PathBy(T, s, e.found.fills)
        BY <2>3, <2>9 DEF FoundIn, T
      <3>2. s \in Nat /\ s <= T
        BY <1>2, <2>4, <2>6
      <3>3. FillsBy(T, s)' = FillsBy(T, s)
        BY <1>1, <2>2, <2>4, <2>6, FillsStand
      <3>4. \A k \in DOMAIN e.found.fills : e.found.fills[k] \in s .. T
        BY <1>1, <2>4, <3>1, <3>2, FillsAre
      <3>5. PathBy(T, s, e.found.fills)' = PathBy(T, s, e.found.fills)
        BY <1>1, <2>2, <2>4, <2>6, <3>4, FillsStand
      <3> QED
        BY <3>1, <3>3, <3>5
    <2> QED
      BY <2>5, <2>6, <2>7, <2>8, <2>9 DEF FoundIn, T
  <1>6. EpisodeFits(e) /\ e.since <= L!First' /\ e.seen <= led'.lastRun
    BY <1>1, <1>2, <1>3, <1>4
  <1> QED
    BY <1>5, <1>6 DEF EpisodeFits

\* The bars of the market.
LEMMA MarketKeeps ==
  ASSUME LadderInv, L!NewDay \/ L!Move \/ L!RunHour
  PROVE  LadderInv'
  <1>1. /\ px \in Seq(Prices) /\ px # <<>> /\ led' = led /\ revised \in BOOLEAN /\ extras \in 0 .. MaxExtras
        /\ led.lastRun \in 0 .. L!Today /\ L!Today \in Nat /\ L!Today >= 1 /\ MaxExtras \in Nat
        /\ led.eps \in Seq(L!Episodes) /\ late \in BOOLEAN
    BY FirstTypes, LadderConstants DEF LadderInv, L!NewDay, L!Move, L!RunHour
  <1>2. /\ px' \in Seq(Prices) /\ px' # <<>> /\ L!Today' \in Nat /\ L!Today <= L!Today'
        /\ revised' \in BOOLEAN /\ extras' \in 0 .. MaxExtras /\ late' \in BOOLEAN
        /\ ~revised' => ~revised /\ \A j \in 1 .. led.lastRun : px'[j] = px[j]
    <2>1. CASE L!NewDay
      <3>1. PICK p \in Prices : px' = Append(px, p)
        BY <2>1 DEF L!NewDay
      <3>2. px' \in Seq(Prices) /\ Len(px') = Len(px) + 1 /\ \A j \in 1 .. Len(px) : px'[j] = px[j]
        BY <1>1, <3>1, AppendProperties
      <3>3. px' # <<>>
        BY <1>1, <3>2 DEF L!Today
      <3>4. L!Today' = L!Today + 1 /\ \A j \in 1 .. led.lastRun : px'[j] = px[j]
        BY <1>1, <3>2 DEF L!Today
      <3>5. revised' = revised /\ extras' = extras /\ late' = FALSE
        BY <2>1 DEF L!NewDay
      <3>6. late' \in BOOLEAN
        BY <3>5
      <3> QED
        BY <1>1, <3>2, <3>3, <3>4, <3>5, <3>6
    <2>2. CASE L!Move
      <3>1. PICK p \in Prices : px' = [px EXCEPT ![L!Today] = p]
        BY <2>2 DEF L!Move
      <3>2. px' \in Seq(Prices) /\ Len(px') = Len(px)
        BY <1>1, <3>1, ExceptSeq DEF L!Today
      <3>3. px' # <<>> /\ L!Today' = L!Today
        BY <1>1, <3>2 DEF L!Today
      <3>4. \A j \in 1 .. L!Today - 1 : px'[j] = px[j]
        BY <1>1, <3>1 DEF L!Today
      <3>5. late' = late
        BY <2>2 DEF L!Move
      <3>6. CASE led.lastRun = L!Today
        <4>1. revised' = TRUE /\ extras < MaxExtras /\ extras' = extras + 1
          BY <2>2, <3>6 DEF L!Move
        <4>2. extras' \in 0 .. MaxExtras
          BY <1>1, <4>1
        <4>3. revised' \in BOOLEAN /\ (~revised' => FALSE)
          BY <4>1
        <4> QED
          BY <1>1, <3>2, <3>3, <3>5, <4>2, <4>3
      <3>7. CASE led.lastRun # L!Today
        <4>1. revised' = revised /\ extras' = extras
          BY <2>2, <3>7 DEF L!Move
        <4>2. \A j \in 1 .. led.lastRun : px'[j] = px[j]
          BY <1>1, <3>4, <3>7
        <4> QED
          BY <1>1, <3>2, <3>3, <3>5, <4>1, <4>2
      <3> QED
        BY <3>6, <3>7
    <2>3. CASE L!RunHour
      <3>1. px' = px /\ revised' = revised /\ extras' = extras /\ late' = TRUE
        BY <2>3 DEF L!RunHour
      <3>2. late' \in BOOLEAN
        BY <3>1
      <3>3. L!Today' = L!Today
        BY <3>1 DEF L!Today
      <3> QED
        BY <1>1, <3>1, <3>2, <3>3
    <2> QED
      BY <2>1, <2>2, <2>3
  <1>3. L!Episodes' = L!Episodes
    BY <1>1 DEF L!Episodes
  <1>4. \A e \in L!Episodes : EpisodeFits(e)'
    BY <1>1, <1>2, FoundStands
  <1>5. led'.lastRun \in 0 .. L!Today' /\ led'.eps \in Seq(L!Episodes')
    BY <1>1, <1>2, <1>3
  <1>6. \A k \in DOMAIN led'.eps : led'.eps[k].open => k = Len(led'.eps)
    BY <1>1 DEF LadderInv
  <1> QED
    BY <1>2, <1>3, <1>4, <1>5, <1>6 DEF LadderInv

\* A run reads the bars as they are.
LEMMA NothingMoves ==
  ASSUME LadderInv, px' = px, NEW CONSTANT T \in Nat, T = L!Today
  PROVE  /\ L!Today' = L!Today /\ L!First' = L!First /\ Entries(T)' = Entries(T)
         /\ \A s \in L!First .. T : /\ L!RefHigh(s)' = L!RefHigh(s)
                                    /\ FillsBy(T, s)' = FillsBy(T, s)
         /\ \A s \in L!First .. T : \A fills :
               (\A k \in DOMAIN fills : fills[k] \in s .. T) => PathBy(T, s, fills)' = PathBy(T, s, fills)
  <1>1. L!Today' = L!Today /\ L!First' = L!First
    BY DEF L!Today, L!First
  <1>2. px \in Seq(Prices) /\ px # <<>> /\ L!Today \in Nat
    BY FirstTypes DEF LadderInv
  <1>3. T <= L!Today /\ T <= L!Today' /\ \A j \in 1 .. T : px'[j] = px[j]
    BY <1>1
  <1>4. /\ Entries(T)' = Entries(T)
        /\ \A j \in L!First .. T : L!RefHigh(j)' = L!RefHigh(j)
    BY <1>1, <1>2, <1>3, HistoryStands
  <1>5. ASSUME NEW CONSTANT s \in L!First .. T
        PROVE  /\ FillsBy(T, s)' = FillsBy(T, s)
               /\ \A fills : (\A k \in DOMAIN fills : fills[k] \in s .. T) => PathBy(T, s, fills)' = PathBy(T, s, fills)
    BY <1>1, <1>2, <1>3, FillsStand
  <1> QED
    BY <1>1, <1>4, <1>5

LEMMA NewEpisodeFits ==
  ASSUME LadderInv, px' = px, led'.lastRun = L!Today, L!OpenEntry # 0, NEW CONSTANT n,
         n = [found |-> n.found, open |-> n.open, since |-> n.since, last |-> n.last, seen |-> n.seen,
              backfilled |-> n.backfilled],
         n.found = L!Found(L!OpenEntry), n.open = TRUE, n.since \in Nat, n.since <= L!First, n.seen = L!Today
  PROVE  EpisodeFits(n)'
  <1> DEFINE T == n.seen
             s == n.found.signal
  <1>1. px \in Seq(Prices) /\ px # <<>> /\ T \in Nat /\ L!First \in Nat /\ L!First >= 1 /\ L!First <= T
    BY FirstTypes DEF LadderInv
  <1>2. /\ s = L!OpenEntry /\ s \in 1 .. T /\ s \in Entries(T) /\ n.found.ref = L!RefHigh(s)
        /\ n.found.fills = FillsBy(T, s) /\ n.found.path = PathBy(T, s, n.found.fills)
        /\ Increases(n.found.fills, s)
    BY <1>1, FoundFits
  <1>3. s \in L!First .. T /\ s \in Nat /\ s <= T
    BY <1>1, <1>2 DEF Entries
  <1>4. \A k \in DOMAIN n.found.fills : n.found.fills[k] \in s .. T
    BY <1>1, <1>2, <1>3, FillsAre
  <1>5. T = L!Today
    OBVIOUS
  <1> HIDE DEF T, s
  <1>6. /\ L!First' = L!First /\ Entries(T)' = Entries(T) /\ L!RefHigh(s)' = L!RefHigh(s)
        /\ FillsBy(T, s)' = FillsBy(T, s) /\ PathBy(T, s, n.found.fills)' = PathBy(T, s, n.found.fills)
    BY <1>1, <1>3, <1>4, <1>5, NothingMoves
  <1>7. FoundIn(n)'
    BY <1>2, <1>6 DEF FoundIn, T, s
  <1>8. n.open \in BOOLEAN
    OBVIOUS
  <1>9. n.since <= L!First' /\ n.since <= T /\ T <= led'.lastRun
    BY <1>1, <1>5, <1>6
  <1> QED
    BY <1>1, <1>2, <1>7, <1>8, <1>9 DEF EpisodeFits, Increases, T, s

LEMMA ClosedEpisodeFits ==
  ASSUME LadderInv, px' = px, revised' = revised, led'.lastRun = L!Today,
         NEW CONSTANT e \in L!Episodes, L!OpenEntry # e.found.signal, NEW CONSTANT n,
         n = [found |-> n.found, open |-> n.open, since |-> n.since, last |-> n.last, seen |-> n.seen,
              backfilled |-> n.backfilled],
         n.found = e.found, n.open = FALSE, n.since = e.since, n.seen = L!Today
  PROVE  EpisodeFits(n)'
  <1> DEFINE T == n.seen
             s == n.found.signal
  <1>1. px \in Seq(Prices) /\ px # <<>> /\ T \in Nat /\ L!First \in Nat /\ L!First >= 1 /\ L!First <= T
    BY FirstTypes DEF LadderInv
  <1>2. /\ EpisodeFits(e) /\ e.seen \in Nat /\ e.seen <= T /\ s \in 1 .. e.seen /\ e.since <= e.seen
        /\ e.since \in Nat /\ e.since <= L!First
    <2>1. EpisodeFits(e) /\ led.lastRun \in 0 .. L!Today
      BY DEF LadderInv
    <2> QED
      BY <1>1, <2>1 DEF EpisodeFits
  <1>3. ASSUME L!Undisturbed(n)' PROVE FoundIn(n)'
    <2>1. L!Undisturbed(e) /\ e.since = L!First
      BY <1>3 DEF L!Undisturbed, L!First, L!Today
    <2>2. s \in Entries(e.seen) /\ n.found.ref = L!RefHigh(s)
      BY <1>2, <2>1 DEF EpisodeFits, FoundIn
    <2>3. s \in Entries(T)
      BY <1>1, <1>2, <2>1, <2>2, EntriesStay
    <2>4. s \in L!First .. T
      BY <2>3 DEF Entries
    <2>5. ExitBy(T, s) # 0
      BY <1>1, <2>3, OpenEntryIs
    <2>6. PICK j \in L!First .. T : j > s /\ px[j] >= L!RefHigh(s)
      BY <1>1, <1>2, <2>5, ExitIs
    <2>7. j \in s + 1 .. T /\ px[j] >= n.found.ref
      BY <1>1, <1>2, <2>2, <2>6
    <2>8. L!Recovered(n)'
      BY <2>7 DEF L!Recovered
    <2>9. T = L!Today
      OBVIOUS
    <2> HIDE DEF T, s
    <2>10. Entries(T)' = Entries(T) /\ L!RefHigh(s)' = L!RefHigh(s)
      BY <1>1, <2>4, <2>9, NothingMoves
    <2> QED
      BY <2>2, <2>3, <2>8, <2>10 DEF FoundIn, T, s
  <1>4. L!First' = L!First
    BY DEF L!First, L!Today
  <1>5. n.open \in BOOLEAN
    OBVIOUS
  <1>6. /\ n.since \in Nat /\ n.since <= L!First' /\ n.since <= n.seen /\ n.seen \in Nat /\ n.seen <= led'.lastRun
        /\ s \in 1 .. n.seen
    BY <1>1, <1>2, <1>4
  <1>7. Increases(n.found.fills, n.found.signal)
    BY <1>2 DEF EpisodeFits
  <1> QED
    BY <1>3, <1>5, <1>6, <1>7 DEF EpisodeFits, Increases

\* A run of the ladder: an episode goes on, ends or begins, or nothing was heard.
LEMMA RunKeeps ==
  ASSUME LadderInv, L!ScheduledRun \/ L!TriggerRun
  PROVE  LadderInv'
  <1>1. /\ px \in Seq(Prices) /\ px # <<>> /\ L!Today \in Nat /\ L!Today >= 1 /\ L!First \in Nat /\ L!First <= L!Today
        /\ led.lastRun \in 0 .. L!Today /\ led.eps \in Seq(L!Episodes) /\ MaxExtras \in Nat
        /\ extras \in 0 .. MaxExtras /\ late \in BOOLEAN /\ revised \in BOOLEAN
        /\ \A k \in DOMAIN led.eps : led.eps[k].open => k = Len(led.eps)
    BY FirstTypes, LadderConstants DEF LadderInv
  <1>2. px' = px /\ late' = late /\ revised' = revised
    BY DEF L!ScheduledRun, L!TriggerRun
  <1>3. extras' \in 0 .. MaxExtras
    BY <1>1 DEF L!ScheduledRun, L!TriggerRun
  <1>4. PICK heard \in BOOLEAN : led' = L!Ran(heard)
    BY DEF L!ScheduledRun, L!TriggerRun
  <1>5. L!Today' = L!Today /\ L!First' = L!First
    BY <1>2 DEF L!Today, L!First
  <1>6. led'.lastRun = L!Today
    BY <1>4 DEF L!Ran
  <1>7. led'.eps = IF ~heard \/ L!Today - L!First + 1 < RefWindow THEN led.eps
                   ELSE IF L!OpenAt(led.eps) # 0 THEN L!Updated(led.eps, L!OpenAt(led.eps))
                   ELSE L!Added(led.eps, led = L!NoLedger)
    BY <1>4 DEF L!Ran, L!None
  <1>8. ASSUME NEW CONSTANT e \in L!Episodes PROVE EpisodeFits(e)'
    <2>1. ~revised' => ~revised /\ \A j \in 1 .. led.lastRun : px'[j] = px[j]
      BY <1>2
    <2>2. led'.lastRun \in Nat /\ led.lastRun <= led'.lastRun /\ L!Today <= L!Today'
      BY <1>1, <1>5, <1>6
    <2> QED
      BY <1>1, <1>2, <2>1, <2>2, FoundStands
  <1>9. DOMAIN led.eps = 1 .. Len(led.eps) /\ Len(led.eps) \in Nat
    BY <1>1, LenProperties
  <1>10. CASE led'.eps = led.eps
    <2>1. L!Episodes' = L!Episodes
      BY <1>10 DEF L!Episodes
    <2>2. \A e \in L!Episodes' : EpisodeFits(e)'
      BY <1>8, <2>1
    <2>3. led'.eps \in Seq(L!Episodes')
      BY <1>1, <1>10, <2>1
    <2> QED
      BY <1>1, <1>2, <1>3, <1>5, <1>6, <1>10, <2>2, <2>3 DEF LadderInv
  <1>11. ASSUME L!OpenAt(led.eps) # 0, led'.eps = L!Updated(led.eps, L!OpenAt(led.eps)) PROVE LadderInv'
    <2> DEFINE eps == led.eps
               k == L!OpenAt(eps)
    <2>1. k \in DOMAIN eps /\ eps[k].open
      <3> DEFINE S == {i \in DOMAIN eps : eps[i].open}
      <3>1. S \in SUBSET (Nat \ {0})
        BY <1>9
      <3>2. k = L!Earliest(S)
        BY DEF L!OpenAt
      <3> HIDE DEF S
      <3>3. S # {}
        BY <1>11, <3>1, <3>2, EarliestOf
      <3>4. L!Earliest(S) \in S
        BY <3>1, <3>3, EarliestOf
      <3> QED
        BY <3>2, <3>4 DEF S
    <2> HIDE DEF k
    <2>2. k = Len(eps) /\ eps[k] \in L!Episodes /\ EpisodeFits(eps[k])
      BY <1>1, <2>1 DEF L!Episodes, LadderInv
    <2>3. PICK e \in L!Episodes : e = eps[k]
      BY <2>2
    <2>4. PICK n : /\ led'.eps = [eps EXCEPT ![k] = n] /\ EpisodeFits(n)'
      <3>1. e = [found |-> e.found, open |-> e.open, since |-> e.since, last |-> e.last, seen |-> e.seen,
                 backfilled |-> e.backfilled] /\ e.open = TRUE /\ e.since \in Nat /\ e.since <= L!First
        BY <2>1, <2>2, <2>3 DEF EpisodeFits
      <3>2. CASE L!OpenEntry # e.found.signal
        <4> DEFINE n == [found |-> e.found, open |-> FALSE, since |-> e.since, last |-> px[L!Today], seen |-> L!Today,
                         backfilled |-> e.backfilled]
        <4>1. L!Updated(eps, k) = [eps EXCEPT ![k] = n]
          BY <2>3, <3>2 DEF L!Updated
        <4>2. PICK m : m = n
          OBVIOUS
        <4>3. /\ m = [found |-> m.found, open |-> m.open, since |-> m.since, last |-> m.last, seen |-> m.seen,
                      backfilled |-> m.backfilled]
              /\ m.found = e.found /\ m.open = FALSE /\ m.since = e.since /\ m.seen = L!Today
          BY <4>2
        <4> HIDE DEF n
        <4>4. EpisodeFits(m)'
          BY <1>2, <1>6, <3>2, <4>3, ClosedEpisodeFits
        <4> QED
          BY <1>11, <4>1, <4>2, <4>4 DEF k
      <3>3. CASE L!OpenEntry = e.found.signal
        <4> DEFINE n == [found |-> L!Found(L!OpenEntry), open |-> TRUE, since |-> e.since, last |-> px[L!Today],
                         seen |-> L!Today, backfilled |-> e.backfilled]
        <4>1. L!Updated(eps, k) = [eps EXCEPT ![k] = n]
          BY <2>3, <3>1, <3>3 DEF L!Updated
        <4>2. PICK m : m = n
          OBVIOUS
        <4>3. /\ m = [found |-> m.found, open |-> m.open, since |-> m.since, last |-> m.last, seen |-> m.seen,
                      backfilled |-> m.backfilled]
              /\ m.found = L!Found(L!OpenEntry) /\ m.open = TRUE /\ m.since \in Nat /\ m.since <= L!First
              /\ m.seen = L!Today
          BY <3>1, <4>2
        <4> HIDE DEF n
        <4>4. L!OpenEntry # 0
          BY <2>2, <2>3, <3>3 DEF EpisodeFits
        <4>5. EpisodeFits(m)'
          BY <1>2, <1>6, <4>3, <4>4, NewEpisodeFits
        <4> QED
          BY <1>11, <4>1, <4>2, <4>5 DEF k
      <3> QED
        BY <3>2, <3>3
    <2>5. /\ led'.eps \in Seq(L!Episodes \cup {n}) /\ Len(led'.eps) = Len(eps) /\ led'.eps[k] = n
          /\ \A i \in DOMAIN eps : i # k => led'.eps[i] = eps[i]
      <3>1. eps \in Seq(L!Episodes \cup {n})
        BY <1>1, SeqMonotonic
      <3> QED
        BY <1>9, <2>1, <2>4, <3>1, ExceptSeq
    <2>6. \A i \in DOMAIN led'.eps : led'.eps[i] = n \/ (i # k /\ led'.eps[i] = eps[i] /\ i \in DOMAIN eps)
      BY <1>9, <2>5
    <2>7. \A x \in L!Episodes' : EpisodeFits(x)'
      BY <1>8, <2>4, <2>6 DEF L!Episodes
    <2>8. led'.eps \in Seq(L!Episodes')
      BY <2>5 DEF L!Episodes
    <2>9. \A i \in DOMAIN led'.eps : led'.eps[i].open => i = Len(led'.eps)
      BY <1>1, <2>2, <2>5, <2>6
    <2> QED
      BY <1>1, <1>2, <1>3, <1>5, <1>6, <2>7, <2>8, <2>9 DEF LadderInv
  <1>12. ASSUME L!OpenAt(led.eps) = 0, L!OpenEntry # 0, led'.eps = L!Added(led.eps, led = L!NoLedger) PROVE LadderInv'
    <2> DEFINE eps == led.eps
    <2>1. \A i \in DOMAIN eps : ~eps[i].open
      <3> DEFINE S == {i \in DOMAIN eps : eps[i].open}
      <3>1. S \in SUBSET (Nat \ {0})
        BY <1>9
      <3>2. L!OpenAt(eps) = L!Earliest(S)
        BY DEF L!OpenAt
      <3> HIDE DEF S
      <3>3. S = {}
        BY <1>12, <3>1, <3>2, EarliestOf
      <3> QED
        BY <3>3 DEF S
    <2>2. PICK backfilled : led'.eps = Append(eps, L!Listed(L!OpenEntry, backfilled))
      BY <1>12 DEF L!Added, L!None
    <2>3. PICK n : n = L!Listed(L!OpenEntry, backfilled)
      OBVIOUS
    <2>4. /\ n = [found |-> n.found, open |-> n.open, since |-> n.since, last |-> n.last, seen |-> n.seen,
                  backfilled |-> n.backfilled]
          /\ n.found = L!Found(L!OpenEntry) /\ n.open = TRUE /\ n.since = L!First /\ n.seen = L!Today
      BY <2>3 DEF L!Listed
    <2>5. EpisodeFits(n)'
      <3>1. n.since \in Nat /\ n.since <= L!First
        BY <1>1, <2>4
      <3> QED
        BY <1>2, <1>6, <1>12, <2>4, <3>1, NewEpisodeFits
    <2>6. /\ led'.eps \in Seq(L!Episodes \cup {n}) /\ Len(led'.eps) = Len(eps) + 1 /\ led'.eps[Len(eps) + 1] = n
          /\ \A i \in 1 .. Len(eps) : led'.eps[i] = eps[i]
      <3>1. eps \in Seq(L!Episodes \cup {n})
        BY <1>1, SeqMonotonic
      <3> QED
        BY <2>2, <2>3, <3>1, AppendProperties
    <2>7. DOMAIN led'.eps = 1 .. Len(eps) + 1
      BY <2>6, LenProperties
    <2>8. \A i \in DOMAIN led'.eps : i = Len(eps) + 1 \/ (led'.eps[i] = eps[i] /\ i \in DOMAIN eps)
      BY <1>9, <2>6, <2>7
    <2>9. \A x \in L!Episodes' : EpisodeFits(x)'
      BY <1>8, <2>5, <2>6, <2>8 DEF L!Episodes
    <2>10. led'.eps \in Seq(L!Episodes')
      BY <2>6 DEF L!Episodes
    <2>11. \A i \in DOMAIN led'.eps : led'.eps[i].open => i = Len(led'.eps)
      BY <2>1, <2>6, <2>8
    <2> QED
      BY <1>1, <1>2, <1>3, <1>5, <1>6, <2>9, <2>10, <2>11 DEF LadderInv
  <1>13. L!OpenEntry = 0 => L!Added(led.eps, led = L!NoLedger) = led.eps
    BY DEF L!Added, L!None
  <1> QED
    BY <1>7, <1>10, <1>11, <1>12, <1>13

LEMMA LadderStays == LadderInv /\ UNCHANGED ladder => LadderInv'
  <1> SUFFICES ASSUME LadderInv, UNCHANGED ladder PROVE LadderInv'
    OBVIOUS
  <1>1. px' = px /\ late' = late /\ led' = led /\ revised' = revised /\ extras' = extras
    BY DEF ladder
  <1>2. L!Today' = L!Today /\ L!Episodes' = L!Episodes
    BY <1>1 DEF L!Today, L!Episodes
  <1>3. \A e \in L!Episodes : EpisodeFits(e)'
    <2> SUFFICES ASSUME NEW CONSTANT e \in L!Episodes PROVE EpisodeFits(e)'
      OBVIOUS
    <2>1. ~revised' => ~revised /\ \A j \in 1 .. led.lastRun : px'[j] = px[j]
      BY <1>1
    <2>2. px' \in Seq(Prices) /\ px' # <<>> /\ revised \in BOOLEAN /\ L!Today \in Nat /\ led.lastRun \in Nat
      BY <1>1, FirstTypes DEF LadderInv
    <2> QED
      BY <1>1, <1>2, <2>1, <2>2, FoundStands
  <1> QED
    BY <1>1, <1>2, <1>3 DEF LadderInv

LEMMA LadderNextKeeps == LadderInv /\ [L!Next]_ladder => LadderInv'
  BY MarketKeeps, RunKeeps, LadderStays DEF L!Next

LEMMA LaddersKeep == MCSpec => []LadderInv
  <1>1. MCInit => LadderInv
    BY LadderInitFits DEF MCInit, NoLadder
  <1>2. [MCNext]_mcVars => [L!Next]_ladder
    BY DEF MCNext, mcVars, Scans
  <1>3. LadderInv /\ [MCNext]_mcVars => LadderInv'
    BY <1>2, LadderNextKeeps
  <1> QED
    BY <1>1, <1>3, PTL DEF MCSpec

\* An episode is closed because it is over, as far as the bars it was found in are still the same.
LEMMA ClosedForCauses == LadderInv => L!ClosedForCause
  BY DEF LadderInv, EpisodeFits, FoundIn, L!ClosedForCause

LEMMA RearmedInBetween == LadderInv => L!RearmedBetween
  <1> SUFFICES ASSUME LadderInv, NEW d \in L!Episodes, NEW e \in L!Episodes, d.found.signal < e.found.signal,
                      L!Undisturbed(d), L!Undisturbed(e)
               PROVE  \E x \in d.found.signal + 1 .. e.found.signal - 1 : \E r \in x + 1 .. e.found.signal :
                         px[x] >= d.found.ref /\ L!Rearms(r)
    BY DEF L!RearmedBetween
  <1>1. px \in Seq(Prices) /\ px # <<>> /\ L!Today \in Nat /\ led.lastRun \in Nat /\ led.lastRun <= L!Today /\ L!First \in Nat
    BY FirstTypes DEF LadderInv
  <1>2. ASSUME NEW c \in L!Episodes, L!Undisturbed(c)
        PROVE  c.found.signal \in Entries(L!Today) /\ c.found.ref = L!RefHigh(c.found.signal)
    <2>1. EpisodeFits(c) /\ c.since = L!First
      BY <1>2 DEF LadderInv, L!Undisturbed
    <2>2. FoundIn(c) /\ c.seen \in Nat /\ c.seen <= L!Today /\ L!First <= c.seen
      BY <1>1, <1>2, <2>1 DEF EpisodeFits
    <2>3. Entries(c.seen) \subseteq Entries(L!Today)
      BY <1>1, <2>2, EntriesStay
    <2> QED
      BY <2>2, <2>3 DEF FoundIn
  <1>3. \E x \in d.found.signal + 1 .. e.found.signal - 1 : \E r \in x + 1 .. e.found.signal :
            px[x] >= L!RefHigh(d.found.signal) /\ L!Rearms(r)
    BY <1>1, <1>2, EntriesInOrder
  <1> QED
    BY <1>2, <1>3

LEMMA FrontIs ==
  ASSUME NEW f \in Seq(Nat), NEW g \in Seq(Nat), Len(f) <= Len(g), \A k \in 1 .. Len(f) : g[k] = f[k]
  PROVE  SubSeq(g, 1, Len(f)) = f
  <1>1. Len(f) \in Nat /\ Len(g) \in Nat
    BY LenProperties
  <1>2. \A k \in 1 .. Len(f) : g[k] \in Nat
    BY <1>1, ElementOfSeq
  <1> DEFINE n == Len(f)
  <1>3. n \in Nat /\ \A k \in 1 .. n : g[k] \in Nat
    BY <1>1, <1>2
  <1> HIDE DEF n
  <1>4. SubSeq(g, 1, n) \in Seq(Nat) /\ Len(SubSeq(g, 1, n)) = n /\ \A k \in 1 .. n : SubSeq(g, 1, n)[k] = g[k]
    <2>1. /\ SubSeq(g, 1, n) \in Seq(Nat) /\ Len(SubSeq(g, 1, n)) = IF 1 <= n THEN n - 1 + 1 ELSE 0
          /\ \A k \in 1 .. n - 1 + 1 : SubSeq(g, 1, n)[k] = g[1 + k - 1]
      BY <1>3, SubSeqProperties
    <2> QED
      BY <1>3, <2>1
  <1> QED
    BY <1>4, SeqEqual DEF n

\* More bars add purchases, all of them later.
LEMMA FillsGrow ==
  ASSUME px \in Seq(Prices), px # <<>>, NEW T \in Nat, NEW R \in Nat, T <= R, NEW s \in L!First .. T
  PROVE  /\ Len(FillsBy(T, s)) <= Len(FillsBy(R, s))
         /\ \A k \in 1 .. Len(FillsBy(T, s)) : FillsBy(R, s)[k] = FillsBy(T, s)[k]
         /\ \A k \in Len(FillsBy(T, s)) + 1 .. Len(FillsBy(R, s)) : FillsBy(R, s)[k] > T
  <1> DEFINE At(n) == {j \in L!First .. n : j > s /\ L!Below(j, L!Levels[2])}
             second(n) == L!Earliest(At(n))
             Under(n) == {j \in L!First .. n : j > second(n) /\ L!Below(j, L!Levels[3])}
             third(n) == L!Earliest(Under(n))
  <1>1. L!First \in Nat /\ L!First >= 1 /\ s \in Nat /\ s # 0
    BY FirstTypes
  <1>2. \A n \in Nat : FillsBy(n, s) = IF second(n) = 0 THEN <<s>> ELSE IF third(n) = 0 THEN <<s, second(n)>>
                                      ELSE <<s, second(n), third(n)>>
    BY DEF FillsBy
  <1>3. second(T) # 0 => second(R) = second(T)
    <2>1. At(T) \in SUBSET (Nat \ {0}) /\ At(R) \in SUBSET (Nat \ {0}) /\ At(T) \subseteq At(R)
      BY <1>1
    <2>2. \A x \in At(R) \ At(T) : \A y \in At(T) : y < x
      BY <1>1
    <2> HIDE DEF At
    <2> QED
      BY <2>1, <2>2, EarliestOf, EarliestStays
  <1>4. second(T) = 0 => second(R) = 0 \/ (second(R) \in Nat /\ second(R) > T)
    <2>1. At(T) \in SUBSET (Nat \ {0}) /\ At(R) \in SUBSET (Nat \ {0})
      BY <1>1
    <2>2. second(T) = 0 => At(T) = {}
      BY <2>1, EarliestOf
    <2>3. second(R) = 0 \/ second(R) \in At(R)
      BY <2>1, EarliestOf
    <2>4. second(R) \in At(R) /\ At(T) = {} => second(R) \in Nat /\ second(R) > T
      <3> DEFINE n == second(R)
      <3> HIDE DEF n
      <3> QED
        BY <1>1
    <2> QED
      BY <2>2, <2>3, <2>4
  <1>5. second(R) \in Nat /\ (second(R) # 0 => second(R) > s) /\ third(R) \in Nat /\ (third(R) # 0 => third(R) > second(R))
    <2>1. At(R) \in SUBSET (Nat \ {0}) /\ Under(R) \in SUBSET (Nat \ {0})
      BY <1>1
    <2>2. second(R) = 0 \/ second(R) \in At(R)
      BY <2>1, EarliestOf
    <2>3. third(R) = 0 \/ third(R) \in Under(R)
      BY <2>1, EarliestOf
    <2>4. \A n \in At(R) : n \in Nat /\ n > s
      BY <1>1
    <2>5. \A n \in Under(R) : n \in Nat /\ n > second(R)
      BY <1>1
    <2> HIDE DEF second, third, At, Under
    <2> QED
      BY <2>2, <2>3, <2>4, <2>5
  <1>6. second(T) # 0 => /\ third(T) # 0 => third(R) = third(T)
                         /\ third(T) = 0 => third(R) = 0 \/ third(R) > T
    <2> SUFFICES ASSUME second(T) # 0 PROVE (third(T) # 0 => third(R) = third(T)) /\ (third(T) = 0 => third(R) = 0 \/ third(R) > T)
      OBVIOUS
    <2> DEFINE m == second(T)
               V == {j \in L!First .. T : j > m /\ L!Below(j, L!Levels[3])}
               W == {j \in L!First .. R : j > m /\ L!Below(j, L!Levels[3])}
    <2>1. third(T) = L!Earliest(V) /\ third(R) = L!Earliest(W)
      BY <1>3
    <2> HIDE DEF m
    <2>2. V \in SUBSET (Nat \ {0}) /\ W \in SUBSET (Nat \ {0}) /\ V \subseteq W /\ \A x \in W \ V : (\A y \in V : y < x) /\ x > T
      BY <1>1
    <2> HIDE DEF V, W, third
    <2>3. third(T) # 0 => third(R) = third(T)
      BY <2>1, <2>2, EarliestOf, EarliestStays
    <2>4. third(T) = 0 => third(R) = 0 \/ third(R) > T
      BY <2>1, <2>2, EarliestOf, ZenonT(40)
    <2> QED
      BY <2>3, <2>4
  <1> HIDE DEF second, third
  <1>7. CASE second(T) = 0
    <2>1. FillsBy(T, s) = <<s>>
      BY <1>2, <1>7
    <2>2. CASE second(R) = 0
      <3>1. FillsBy(R, s) = <<s>>
        BY <1>2, <2>2
      <3> QED
        BY <2>1, <3>1
    <2>3. CASE second(R) # 0 /\ third(R) = 0
      <3>1. FillsBy(R, s) = <<s, second(R)>> /\ second(R) > T
        BY <1>2, <1>4, <1>7, <2>3
      <3> QED
        BY <2>1, <3>1
    <2>4. CASE second(R) # 0 /\ third(R) # 0
      <3>1. FillsBy(R, s) = <<s, second(R), third(R)>> /\ second(R) > T /\ third(R) > T
        BY <1>2, <1>4, <1>5, <1>7, <2>4
      <3> QED
        BY <2>1, <3>1
    <2> QED
      BY <2>2, <2>3, <2>4
  <1>8. CASE second(T) # 0 /\ third(T) = 0
    <2>1. FillsBy(T, s) = <<s, second(T)>> /\ second(R) = second(T)
      BY <1>2, <1>3, <1>8
    <2>2. CASE third(R) = 0
      <3>1. FillsBy(R, s) = <<s, second(T)>>
        BY <1>2, <1>8, <2>1, <2>2
      <3> QED
        BY <2>1, <3>1
    <2>3. CASE third(R) # 0
      <3>1. FillsBy(R, s) = <<s, second(T), third(R)>> /\ third(R) > T
        BY <1>2, <1>6, <1>8, <2>1, <2>3
      <3> QED
        BY <2>1, <3>1
    <2> QED
      BY <2>2, <2>3
  <1>9. CASE second(T) # 0 /\ third(T) # 0
    <2>1. FillsBy(T, s) = <<s, second(T), third(T)>> /\ FillsBy(R, s) = <<s, second(T), third(T)>>
      BY <1>2, <1>3, <1>6, <1>9
    <2> QED
      BY <2>1
  <1> QED
    BY <1>7, <1>8, <1>9

\* What a step leaves of an episode, or has found again.
LEMMA EpisodesGoOn ==
  ASSUME LadderInv, [L!Next]_ladder, NEW CONSTANT k \in DOMAIN led.eps
  PROVE  \/ led'.eps[k] = led.eps[k]
         \/ ~led'.eps[k].open
         \/ /\ led.eps[k].open /\ px' = px /\ revised' = revised
            /\ L!OpenEntry = led.eps[k].found.signal /\ L!OpenEntry # 0 /\ led'.eps[k].found = L!Found(L!OpenEntry)
  <1>1. led.eps \in Seq(L!Episodes) /\ DOMAIN led.eps = 1 .. Len(led.eps) /\ Len(led.eps) \in Nat
    BY LenProperties DEF LadderInv
  <1>2. CASE led' = led
    BY <1>2
  <1>3. CASE L!ScheduledRun \/ L!TriggerRun
    <2>1. px' = px /\ revised' = revised
      BY <1>3 DEF L!ScheduledRun, L!TriggerRun
    <2>2. PICK heard \in BOOLEAN : led' = L!Ran(heard)
      BY <1>3 DEF L!ScheduledRun, L!TriggerRun
    <2>3. led'.eps = IF ~heard \/ L!Today - L!First + 1 < RefWindow THEN led.eps
                     ELSE IF L!OpenAt(led.eps) # 0 THEN L!Updated(led.eps, L!OpenAt(led.eps))
                     ELSE L!Added(led.eps, led = L!NoLedger)
      BY <2>2 DEF L!Ran, L!None
    <2>4. L!Added(led.eps, led = L!NoLedger) = led.eps
          \/ \E n : L!Added(led.eps, led = L!NoLedger) = Append(led.eps, n)
      BY DEF L!Added, L!None
    <2>5. \A n : Append(led.eps, n)[k] = led.eps[k]
      <3> SUFFICES ASSUME NEW CONSTANT n PROVE Append(led.eps, n)[k] = led.eps[k]
        OBVIOUS
      <3>1. led.eps \in Seq(L!Episodes \cup {n})
        BY <1>1, SeqMonotonic
      <3> QED
        BY <1>1, <3>1, AppendProperties
    <2>6. CASE led'.eps = led.eps
      BY <2>6
    <2>7. CASE led'.eps = L!Added(led.eps, led = L!NoLedger)
      BY <2>4, <2>5, <2>7
    <2>8. CASE L!OpenAt(led.eps) # 0 /\ led'.eps = L!Updated(led.eps, L!OpenAt(led.eps))
      <3> DEFINE i == L!OpenAt(led.eps)
      <3>1. i \in DOMAIN led.eps /\ led.eps[i].open
        <4> DEFINE S == {j \in DOMAIN led.eps : led.eps[j].open}
        <4>1. S \in SUBSET (Nat \ {0})
          BY <1>1
        <4>2. i = L!Earliest(S)
          BY DEF L!OpenAt
        <4> HIDE DEF S
        <4>3. S # {}
          BY <2>8, <4>1, <4>2, EarliestOf
        <4>4. L!Earliest(S) \in S
          BY <4>1, <4>3, EarliestOf
        <4> QED
          BY <4>2, <4>4 DEF S
      <3> HIDE DEF i
      <3>2. CASE i # k
        <4>1. L!Updated(led.eps, i)[k] = led.eps[k]
          BY <3>1, <3>2 DEF L!Updated
        <4> QED
          BY <2>8, <4>1 DEF i
      <3>3. CASE i = k
        <4> DEFINE e == led.eps[k]
                   stands == L!OpenEntry = e.found.signal
        <4>1. L!Updated(led.eps, k)[k] = [found |-> IF stands THEN L!Found(L!OpenEntry) ELSE e.found, open |-> stands,
                                          since |-> e.since, last |-> px[L!Today], seen |-> L!Today,
                                          backfilled |-> e.backfilled]
          BY <1>1 DEF L!Updated
        <4>2. led'.eps[k] = L!Updated(led.eps, k)[k]
          BY <2>8, <3>3 DEF i
        <4>3. CASE ~stands
          <5>1. led'.eps[k].open = stands
            BY <4>1, <4>2
          <5>2. ~led'.eps[k].open
            BY <4>3, <5>1, Zenon
          <5> QED
            BY <5>2
        <4>4. CASE stands
          <5>1. led'.eps[k].found = L!Found(L!OpenEntry)
            BY <4>1, <4>2, <4>4
          <5>2. e \in L!Episodes
            BY DEF L!Episodes
          <5>3. e.found.signal # 0
            <6>1. e.seen \in Nat /\ e.found.signal \in 1 .. e.seen
              BY <5>2 DEF LadderInv, EpisodeFits
            <6> QED
              BY <6>1
          <5> QED
            BY <2>1, <3>1, <3>3, <4>4, <5>1, <5>3
        <4> QED
          BY <4>3, <4>4
      <3> QED
        BY <3>2, <3>3
    <2> QED
      BY <2>3, <2>6, <2>7, <2>8
  <1>4. [L!Next]_ladder => led' = led \/ L!ScheduledRun \/ L!TriggerRun
    BY DEF L!Next, L!NewDay, L!Move, L!RunHour, ladder
  <1> QED
    BY <1>2, <1>3, <1>4

LEMMA RecordsStand ==
  ASSUME LadderInv, [L!Next]_ladder, ~revised', NEW CONSTANT k \in DOMAIN led.eps,
         led'.eps[k].open, led.eps[k].since = L!First'
  PROVE  /\ \A b \in DOMAIN led.eps[k].found.path : /\ b \in DOMAIN led'.eps[k].found.path
                                                    /\ led'.eps[k].found.path[b] = led.eps[k].found.path[b]
         /\ SubSeq(led'.eps[k].found.fills, 1, Len(led.eps[k].found.fills)) = led.eps[k].found.fills
  <1> DEFINE e == led.eps[k]
  <1>1. e \in L!Episodes
    BY DEF L!Episodes
  <1>2. /\ e.found.fills \in Seq(Nat) /\ e.seen \in Nat /\ e.since \in Nat /\ e.since <= e.seen /\ e.seen <= L!Today
        /\ L!Today \in Nat /\ px \in Seq(Prices) /\ px # <<>>
        /\ L!Undisturbed(e) => FoundIn(e)
    <2>1. EpisodeFits(e) /\ led.lastRun \in 0 .. L!Today /\ px \in Seq(Prices) /\ px # <<>>
      BY <1>1 DEF LadderInv
    <2>2. L!Today \in Nat
      BY <2>1, FirstTypes
    <2> QED
      BY <2>1, <2>2 DEF EpisodeFits, Increases
  <1>3. CASE led'.eps[k] = led.eps[k]
    <2>1. SubSeq(e.found.fills, 1, Len(e.found.fills)) = e.found.fills
      BY <1>2, SubSeqFull
    <2> QED
      BY <1>3, <2>1
  <1>4. ASSUME e.open, px' = px, revised' = revised, L!OpenEntry = e.found.signal, L!OpenEntry # 0,
               led'.eps[k].found = L!Found(L!OpenEntry)
        PROVE  /\ \A b \in DOMAIN e.found.path : /\ b \in DOMAIN led'.eps[k].found.path
                                                 /\ led'.eps[k].found.path[b] = e.found.path[b]
               /\ SubSeq(led'.eps[k].found.fills, 1, Len(e.found.fills)) = e.found.fills
    <2> DEFINE T == e.seen
               R == L!Today
               s == L!OpenEntry
               old == FillsBy(T, s)
               new == FillsBy(R, s)
    <2>1. L!Undisturbed(e) /\ L!First = e.since
      BY <1>4 DEF L!Undisturbed, L!First, L!Today
    <2>2. FoundIn(e)
      BY <1>2, <2>1
    <2>3. e.found.fills = old /\ e.found.path = PathBy(T, s, old) /\ s \in L!First .. T
      BY <1>4, <2>2 DEF FoundIn, Entries
    <2>4. led'.eps[k].found.fills = new /\ led'.eps[k].found.path = PathBy(R, s, new)
      BY <1>2, <1>4, FoundFits
    <2>5. T \in Nat /\ R \in Nat /\ T <= R /\ L!First \in Nat /\ L!First <= T
      BY <1>2, <2>1
    <2> HIDE DEF T, R
    <2>6. /\ Len(old) <= Len(new) /\ \A j \in 1 .. Len(old) : new[j] = old[j]
          /\ \A j \in Len(old) + 1 .. Len(new) : new[j] > T
      BY <1>2, <2>3, <2>5, FillsGrow
    <2>7. s \in Nat /\ s <= T /\ s <= R
      BY <2>3, <2>5
    <2>8. /\ old \in Seq(Nat) /\ DOMAIN old = 1 .. Len(old) /\ new \in Seq(Nat) /\ DOMAIN new = 1 .. Len(new)
          /\ Len(old) \in Nat /\ Len(new) \in Nat
      BY <1>2, <2>5, <2>7, FillsAre, LenProperties DEF Increases
    <2> HIDE DEF old, new, s
    <2>9. SubSeq(new, 1, Len(old)) = old
      BY <2>6, <2>8, FrontIs
    <2>10. ASSUME NEW CONSTANT b \in DOMAIN PathBy(T, s, old)
           PROVE  b \in DOMAIN PathBy(R, s, new) /\ PathBy(R, s, new)[b] = PathBy(T, s, old)[b]
      <3>1. b \in L!Buckets /\ s + b <= T /\ b \in Nat
        BY <2>10 DEF PathBy, L!Buckets
      <3>2. s + b <= R /\ s + b \in Nat
        BY <2>5, <2>7, <3>1
      <3> DEFINE K == {j \in DOMAIN old : old[j] <= s + b}
                 M == {j \in DOMAIN new : new[j] <= s + b}
      <3>3. K = M
        <4>1. \A j \in DOMAIN new : j \in DOMAIN old \/ j \in Len(old) + 1 .. Len(new)
          BY <2>8
        <4>2. \A j \in DOMAIN new \ DOMAIN old : ~(new[j] <= s + b)
          <5>1. \A j \in DOMAIN new : new[j] \in Nat
            BY <2>8, ElementOfSeq
          <5> QED
            BY <2>5, <2>6, <3>1, <3>2, <4>1, <5>1
        <4>3. DOMAIN old \subseteq DOMAIN new /\ \A j \in DOMAIN old : new[j] = old[j]
          BY <2>6, <2>8
        <4> QED
          BY <4>2, <4>3
      <3>4. \A j \in K : new[j] = old[j]
        BY <2>6, <2>8
      <3>5. [j \in M |-> px[new[j]]] = [j \in K |-> px[old[j]]]
        BY <3>3, <3>4
      <3>6. b \in DOMAIN PathBy(R, s, new) /\ PathBy(R, s, new)[b] = [price |-> px[s + b], paid |-> [j \in M |-> px[new[j]]]]
        BY <3>1, <3>2 DEF PathBy
      <3>7. PathBy(T, s, old)[b] = [price |-> px[s + b], paid |-> [j \in K |-> px[old[j]]]]
        BY <3>1 DEF PathBy
      <3> QED
        BY <3>5, <3>6, <3>7
    <2> QED
      BY <2>3, <2>4, <2>9, <2>10
  <1> QED
    BY <1>3, <1>4, EpisodesGoOn

\* Drawdown!RecordedStands (run(), replay_open_episode): what a run has recorded of an open episode, its purchases and
\* the points of its path, is in what any later run records of it, as long as the bars it was found in are the same
\* and are all still seen.
THEOREM DailyRecords == MCSpec => RecordedStands
  <1>1. [MCNext]_mcVars => [L!Next]_ladder
    BY DEF MCNext, mcVars, Scans
  <1>2. LadderInv /\ [MCNext]_mcVars =>
          [~revised' =>
             \A k \in DOMAIN led.eps :
                LET old == led.eps[k].found
                    new == led'.eps[k].found
                IN led'.eps[k].open /\ led.eps[k].since = L!First' =>
                     /\ \A b \in DOMAIN old.path : b \in DOMAIN new.path /\ new.path[b] = old.path[b]
                     /\ SubSeq(new.fills, 1, Len(old.fills)) = old.fills]_ladder
    <2> SUFFICES ASSUME LadderInv, [L!Next]_ladder, ~revised', NEW CONSTANT k \in DOMAIN led.eps,
                        led'.eps[k].open, led.eps[k].since = L!First'
                 PROVE  /\ \A b \in DOMAIN led.eps[k].found.path : /\ b \in DOMAIN led'.eps[k].found.path
                                                                   /\ led'.eps[k].found.path[b] = led.eps[k].found.path[b]
                        /\ SubSeq(led'.eps[k].found.fills, 1, Len(led.eps[k].found.fills)) = led.eps[k].found.fills
      BY <1>1
    <2> QED
      BY RecordsStand
  <1> QED
    BY <1>2, LaddersKeep, PTL DEF MCSpec, RecordedStands, L!RecordedStands, ladder, L!vars

-----------------------------------------------------------------------------
(* The three ledgers together.                                             *)

\* The types of the tables of the value scan, of the ladder's ledger and of the wall ledger (ValueScan, Drawdown and
\* GammaWall), whichever job runs and fails.
THEOREM DailyTypes == MCSpec => []TypesOK
  <1>1. WallInv => G!TypeOK
    BY DEF WallInv
  <1>2. ScanInv /\ LadderInv /\ WallInv => TypesOK
    BY <1>1, ScanTyped, LadderTyped DEF TypesOK
  <1> QED
    BY <1>2, ScansKeep, LaddersKeep, WallsKeep, PTL

\* What a ledger says has a cause: an episode is closed because its high was reached (run()), two episodes are kept
\* apart by a recovery and a reset (replay_open_episode), and of a session the newest snapshot is the record, waits
\* or has no walls (storage.py).
THEOREM DailyCauses ==
    MCSpec => /\ [](L!ClosedForCause /\ L!RearmedBetween /\ G!SnapshotsAccounted)
              /\ [](part # "ladder" => LedgersHaveCause)
  <1>1. LadderInv /\ WallInv => L!ClosedForCause /\ L!RearmedBetween /\ G!SnapshotsAccounted
    BY ClosedForCauses, RearmedInBetween, SnapshotsKept
  <1>2. LadderInv /\ WallInv => (part # "ladder" => LedgersHaveCause)
    BY <1>1 DEF LedgersHaveCause
  <1> QED
    BY <1>1, <1>2, LaddersKeep, WallsKeep, PTL
==============================================================================
