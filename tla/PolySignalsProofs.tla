-------------------------- MODULE PolySignalsProofs --------------------------
(***************************************************************************)
(* Proofs about PolySignals, for every set of processes, markets and rows, *)
(* and whatever is switched on, fails, restarts or is deleted: no process  *)
(* signals the same bet twice, though it looks in one transaction and      *)
(* inserts in another.                                                     *)
(***************************************************************************)
EXTENDS PolySignals, TLAPS

\* A row of late convergence waits for its order, or is what became of it.
LateHasStatus == \A r \in Rows : rows[r].strategy = "LC" => rows[r].status # "none"

\* Of a warm row, the process that wrote it still counts the cool-down.
Cooled(row) == row.by \in Proc /\ row.market \in cooling[row.by][row.strategy]
WarmCools == \A r \in Rows : rows[r].warm => Cooled(rows[r])

\* What a process found when it looked stays so until it inserts: no other row in its
\* way, unless the lookup failed, and none of the same cool-down, which it began.
Same(row, p, k) == row.strategy = k.strategy /\ row.market = k.market /\ row.by \in {p, "before"}
InTheWay(row) ==
    /\ row.outcome = "open"
    /\ row.strategy = "LC" => row.status \notin {"failed", "skipped"}
Clear(row, p, k) ==
    Same(row, p, k) =>
        /\ ~row.warm
        /\ (row.side = k.side /\ InTheWay(row)) => k.blind
LookStands ==
    \A p \in Proc : looked[p] # NoLook =>
        /\ looked[p].market \in cooling[p][looked[p].strategy]
        /\ \A r \in Rows : Clear(rows[r], p, looked[p])

SInv == TypeOK /\ LateHasStatus /\ WarmCools /\ LookStands /\ NoDoubleSignal

-----------------------------------------------------------------------------
(* Rows                                                                    *)

\* A row is not the absence of one.
LEMMA RowIsRow ==
    ASSUME NEW row \in Signal
    PROVE  row # NoRow
  <1>1. row.strategy # "none"
    BY DEF Signal, Strategy
  <1> QED
    BY <1>1 DEF NoRow

\* A row whose order was tried, whose cool-down ended or whose market was settled.
LEMMA RowChanged ==
    ASSUME NEW row \in Signal
    PROVE  /\ \A status \in {"none", "pending", "paper", "skipped", "failed", "live", "matched"} :
                 [row EXCEPT !.status = status] \in Signal
           /\ \A o \in Outcome : [row EXCEPT !.outcome = o] \in Signal
           /\ [row EXCEPT !.warm = FALSE] \in Signal
  BY DEF Signal

\* What a step makes of a row that it does not write anew: nothing, or the same signal
\* that is in the way of others, and warm, only if it was before.
Lessened(new, old) ==
    new # NoRow =>
        /\ old # NoRow /\ new.strategy = old.strategy /\ new.market = old.market
        /\ new.side = old.side /\ new.by = old.by /\ (new.blind <=> old.blind)
        /\ new.warm => old.warm
        /\ InTheWay(new) => InTheWay(old)
        /\ (new.strategy = "LC" /\ old.status # "none") => new.status # "none"

\* A row that stays as it is.
LEMMA SameIsLessened ==
    ASSUME NEW row
    PROVE  Lessened(row, row)
  BY DEF Lessened

\* Rows lose their cool-down, their market is settled, or their order is tried.
LEMMA ChangeIsLessened ==
    ASSUME NEW row \in Signal
    PROVE  /\ Lessened([row EXCEPT !.warm = FALSE], row)
           /\ \A o \in Outcome : Lessened([row EXCEPT !.outcome = o], row)
           /\ \A status \in {"none", "pending", "paper", "skipped", "failed", "live", "matched"} :
                 (row.strategy = "LC" => status \in {row.status, "skipped"}) =>
                    Lessened([row EXCEPT !.status = status], row)
  <1>. row # NoRow
    BY RowIsRow
  <1>1. Lessened([row EXCEPT !.warm = FALSE], row)
    <2> DEFINE new == [row EXCEPT !.warm = FALSE]
    <2>1. /\ new.strategy = row.strategy /\ new.market = row.market /\ new.side = row.side
          /\ new.by = row.by /\ new.status = row.status /\ new.outcome = row.outcome
          /\ new.blind <=> row.blind
          /\ ~new.warm
      BY DEF Signal
    <2> QED
      BY <2>1 DEF Lessened, InTheWay
  <1>2. ASSUME NEW o \in Outcome
        PROVE  Lessened([row EXCEPT !.outcome = o], row)
    <2> DEFINE new == [row EXCEPT !.outcome = o]
    <2>1. /\ new.strategy = row.strategy /\ new.market = row.market /\ new.side = row.side
          /\ new.by = row.by /\ new.status = row.status /\ new.outcome # "open"
          /\ new.blind <=> row.blind
          /\ new.warm <=> row.warm
      BY DEF Signal, Outcome
    <2> QED
      BY <2>1 DEF Lessened, InTheWay
  <1>3. ASSUME NEW status \in {"none", "pending", "paper", "skipped", "failed", "live", "matched"},
               row.strategy = "LC" => status \in {row.status, "skipped"}
        PROVE  Lessened([row EXCEPT !.status = status], row)
    <2> DEFINE new == [row EXCEPT !.status = status]
    <2>1. /\ new.strategy = row.strategy /\ new.market = row.market /\ new.side = row.side
          /\ new.by = row.by /\ new.status = status /\ new.outcome = row.outcome
          /\ new.blind <=> row.blind
          /\ new.warm <=> row.warm
      BY DEF Signal
    <2> QED
      BY <1>3, <2>1 DEF Lessened, InTheWay
  <1> QED
    BY <1>1, <1>2, <1>3

\* What is in the way of a row that is written later is what blocks it.
LEMMA BlocksInTheWay ==
    ASSUME NEW r \in RowId
    PROVE  Blocks(r) <=> InTheWay(rows[r])
  BY DEF Blocks, InTheWay, Open

-----------------------------------------------------------------------------
(* The kinds of steps                                                      *)

\* Steps that write no row and begin no cool-down: no row gets in the way of another one.
\* The cool-downs of warm rows and of signals on their way go on.
LEMMA RowsLessen ==
    ASSUME SInv,
           \A r \in RowId : Lessened(rows'[r], rows[r]),
           \A p \in Proc : looked'[p] \in {looked[p], NoLook},
           \A r \in RowId : (rows'[r] # NoRow /\ rows'[r].warm) => Cooled(rows[r])',
           \A p \in Proc : looked'[p] # NoLook =>
                looked[p].market \in cooling'[p][looked[p].strategy]
    PROVE  LateHasStatus' /\ WarmCools' /\ LookStands' /\ NoDoubleSignal'
  <1> USE DEF Lessened
  <1>1. Rows' \subseteq Rows
    BY DEF Rows
  <1>2. LateHasStatus'
    BY <1>1 DEF LateHasStatus, SInv, Rows
  <1>3. WarmCools'
    BY <1>1 DEF WarmCools, Rows
  <1>4. LookStands'
    <2> SUFFICES ASSUME NEW p \in Proc, looked'[p] # NoLook
                 PROVE  /\ looked'[p].market \in cooling'[p][looked'[p].strategy]
                        /\ \A r \in Rows' : Clear(rows'[r], p, looked'[p])
      BY DEF LookStands, Clear, Same, InTheWay
    <2>1. looked'[p] = looked[p]
      OBVIOUS
    <2>2. ASSUME NEW r \in Rows'
          PROVE  Clear(rows'[r], p, looked[p])
      BY <1>1, <2>1, <2>2 DEF SInv, LookStands, Clear, Same, Rows
    <2> QED
      BY <2>1, <2>2
  <1>5. NoDoubleSignal'
    <2> SUFFICES ASSUME NEW r1 \in Rows', NEW r2 \in Rows',
                        r1 < r2, rows'[r1].strategy = rows'[r2].strategy,
                        rows'[r1].market = rows'[r2].market,
                        rows'[r1].by \in {rows'[r2].by, "before"}
                 PROVE  /\ (/\ InTheWay(rows'[r1]) /\ InTheWay(rows'[r2])
                            /\ rows'[r1].side = rows'[r2].side
                            /\ rows'[r1].strategy \in {"LC", "LS"}) => rows'[r2].blind
                        /\ ~(rows'[r1].warm /\ rows'[r2].warm)
      BY DEF NoDoubleSignal, Blocks, Open, InTheWay
    <2>1. r1 \in Rows /\ r2 \in Rows /\ r1 \in RowId /\ r2 \in RowId
      BY <1>1 DEF Rows
    <2>2. /\ (/\ InTheWay(rows[r1]) /\ InTheWay(rows[r2]) /\ rows[r1].side = rows[r2].side
              /\ rows[r1].strategy \in {"LC", "LS"}) => rows[r2].blind
          /\ ~(rows[r1].warm /\ rows[r2].warm)
      BY <2>1, BlocksInTheWay DEF SInv, NoDoubleSignal, Rows
    <2> QED
      BY <2>1, <2>2 DEF Rows
  <1> QED
    BY <1>2, <1>3, <1>4, <1>5

\* A process that begins a cool-down and looks: it finds no row in its way, or the
\* lookup failed, and no warm row is of the cool-down that begins.
LEMMA LookUpStands ==
    ASSUME SInv, NEW p \in Proc, NEW s \in {"LC", "LS"}, NEW m \in Market, NEW side \in Outcome,
           NEW found \in BOOLEAN, Cool(p, s, m), LookUp(p, s, m, side, found),
           \A r \in Rows : (/\ rows[r].strategy = s /\ rows[r].market = m
                            /\ rows[r].side = side /\ InTheWay(rows[r])) => found
    PROVE  LateHasStatus' /\ WarmCools' /\ LookStands' /\ NoDoubleSignal'
  <1> USE DEF SInv, TypeOK
  <1>1. rows' = rows /\ Rows' = Rows
    BY DEF LookUp, table, Rows
  <1>2. s \in Strategy /\ m \notin cooling[p][s]
    BY DEF Cool, Strategy
  <1>3. \A q \in Proc, t \in Strategy : cooling[q][t] \subseteq cooling'[q][t]
    BY <1>2 DEF Cool
  <1>4. m \in cooling'[p][s]
    BY <1>2 DEF Cool
  <1>5. \A r \in Rows : rows[r] \in Signal
    BY DEF Rows
  <1>6. LateHasStatus' /\ NoDoubleSignal'
    BY <1>1 DEF LateHasStatus, NoDoubleSignal, Blocks, Open
  <1>7. WarmCools'
    BY <1>1, <1>3, <1>5 DEF WarmCools, Cooled, Signal
  <1>8. LookStands'
    <2>1. PICK blind \in BOOLEAN :
             /\ looked' = IF ~blind /\ found THEN looked
                          ELSE [looked EXCEPT ![p] = [strategy |-> s, market |-> m,
                                                      side |-> side, blind |-> blind]]
      BY DEF LookUp
    <2> SUFFICES ASSUME NEW q \in Proc, looked'[q] # NoLook
                 PROVE  /\ looked'[q].market \in cooling'[q][looked'[q].strategy]
                        /\ \A r \in Rows : Clear(rows[r], q, looked'[q])
      BY <1>1 DEF LookStands, Clear, Same, InTheWay
    <2>2. CASE looked'[q] = looked[q]
      <3>1. looked[q].strategy \in Strategy
        BY <2>2 DEF Look, Strategy
      <3> QED
        BY <2>2, <3>1, <1>3 DEF LookStands
    <2>3. CASE looked'[q] # looked[q]
      <3>1. q = p /\ ~(~blind /\ found)
        BY <2>1, <2>3
      <3>2. PICK k : k = [strategy |-> s, market |-> m, side |-> side, blind |-> blind]
        OBVIOUS
      <3>3. /\ looked'[q] = k /\ k.strategy = s /\ k.market = m /\ k.side = side
            /\ k.blind <=> blind
        BY <2>1, <3>1, <3>2
      <3>4. ASSUME NEW r \in Rows, Same(rows[r], p, k)
            PROVE  ~rows[r].warm /\ ((rows[r].side = side /\ InTheWay(rows[r])) => blind)
        <4>1. rows[r].strategy = s /\ rows[r].market = m /\ rows[r].by \in {p, "before"}
          BY <3>3, <3>4 DEF Same
        <4>2. ~rows[r].warm
          BY <4>1, <1>2, SignalAssumption DEF WarmCools, Cooled
        <4>3. (rows[r].side = side /\ InTheWay(rows[r])) => found
          BY <4>1
        <4> QED
          BY <4>2, <4>3, <3>1
      <3> QED
        BY <3>1, <3>3, <3>4, <1>4 DEF Clear
    <2> QED
      BY <2>2, <2>3
  <1> QED
    BY <1>6, <1>7, <1>8

\* A process that inserts a row with nothing in its way.
LEMMA InsertStands ==
    ASSUME SInv, NEW p \in Proc, NEW row \in Signal, Insert(row),
           row.by = p, row.strategy = "LC" => row.status # "none",
           looked'[p] = NoLook, \A q \in Proc \ {p} : looked'[q] = looked[q],
           \A q \in Proc, t \in Strategy : cooling[q][t] \subseteq cooling'[q][t],
           row.warm => row.market \in cooling'[p][row.strategy],
           \A r \in Rows : Same(rows[r], p, row) =>
              /\ row.warm => ~rows[r].warm
              /\ (/\ row.strategy \in {"LC", "LS"} /\ rows[r].side = row.side
                  /\ InTheWay(rows[r])) => row.blind
    PROVE  LateHasStatus' /\ WarmCools' /\ LookStands' /\ NoDoubleSignal'
  <1> USE DEF SInv, TypeOK
  <1>1. /\ nextRow \in RowId /\ rows'[nextRow] = row /\ row # NoRow
        /\ \A r \in RowId \ {nextRow} : rows'[r] = rows[r]
    <2>1. nextRow \in RowId
      BY SignalAssumption DEF Insert, Budget, RowId
    <2> QED
      BY <2>1, RowIsRow DEF Insert
  <1>2. Rows' = Rows \union {nextRow} /\ nextRow \notin Rows
    <2>1. nextRow >= nextRow
      BY <1>1, SignalAssumption DEF RowId
    <2>2. rows[nextRow] = NoRow
      BY <1>1, <2>1
    <2> HIDE DEF SInv, TypeOK
    <2> QED
      BY <1>1, <2>2 DEF Rows
  <1>3. \A r \in Rows : r < nextRow /\ rows'[r] = rows[r] /\ rows[r] \in Signal
    BY <1>1, <1>2 DEF Rows, RowId
  <1>4. LateHasStatus'
    BY <1>1, <1>2, <1>3 DEF LateHasStatus
  <1>5. WarmCools'
    <2> SUFFICES ASSUME NEW r \in Rows', rows'[r].warm
                 PROVE  rows'[r].by \in Proc
                        /\ rows'[r].market \in cooling'[rows'[r].by][rows'[r].strategy]
      BY DEF WarmCools, Cooled
    <2>1. CASE r = nextRow
      BY <2>1, <1>1
    <2>2. CASE r \in Rows
      BY <2>2, <1>3 DEF WarmCools, Cooled, Signal
    <2> QED
      BY <2>1, <2>2, <1>2
  <1>6. LookStands'
    <2> SUFFICES ASSUME NEW q \in Proc, looked'[q] # NoLook
                 PROVE  /\ looked'[q].market \in cooling'[q][looked'[q].strategy]
                        /\ \A r \in Rows' : Clear(rows'[r], q, looked'[q])
      BY DEF LookStands, Clear, Same, InTheWay
    <2>1. q # p /\ looked'[q] = looked[q] /\ looked[q].strategy \in Strategy
      BY DEF Look, Strategy
    <2>2. Clear(rows'[nextRow], q, looked[q])
      BY <2>1, <1>1, SignalAssumption DEF Clear, Same
    <2>3. \A r \in Rows : Clear(rows'[r], q, looked[q])
      BY <2>1, <1>3 DEF LookStands
    <2> QED
      BY <2>1, <2>2, <2>3, <1>2 DEF LookStands
  <1>7. NoDoubleSignal'
    <2> SUFFICES ASSUME NEW r1 \in Rows', NEW r2 \in Rows',
                        r1 < r2, rows'[r1].strategy = rows'[r2].strategy,
                        rows'[r1].market = rows'[r2].market,
                        rows'[r1].by \in {rows'[r2].by, "before"}
                 PROVE  /\ (/\ InTheWay(rows'[r1]) /\ InTheWay(rows'[r2])
                            /\ rows'[r1].side = rows'[r2].side
                            /\ rows'[r1].strategy \in {"LC", "LS"}) => rows'[r2].blind
                        /\ ~(rows'[r1].warm /\ rows'[r2].warm)
      BY DEF NoDoubleSignal, Blocks, Open, InTheWay
    <2>1. r1 \in Rows /\ r1 \in RowId /\ r2 \in RowId
      BY <1>1, <1>2, <1>3 DEF Rows, RowId
    <2>2. CASE r2 = nextRow
      BY <2>1, <2>2, <1>1, <1>3 DEF Same
    <2>3. CASE r2 \in Rows
      <3>1. /\ (/\ InTheWay(rows[r1]) /\ InTheWay(rows[r2]) /\ rows[r1].side = rows[r2].side
                /\ rows[r1].strategy \in {"LC", "LS"}) => rows[r2].blind
            /\ ~(rows[r1].warm /\ rows[r2].warm)
        BY <2>1, <2>3, <1>3, BlocksInTheWay DEF NoDoubleSignal
      <3> QED
        BY <2>1, <2>3, <1>3, <3>1
    <2> QED
      BY <2>2, <2>3, <1>2
  <1> QED
    BY <1>4, <1>5, <1>6, <1>7

-----------------------------------------------------------------------------
(* Types                                                                   *)

\* A budget that pays for something stays one.
LEMMA SpentIsBudget ==
    ASSUME left \in Budget, NEW what \in {"faults", "restarts", "resets", "retries"}, Spend(what)
    PROVE  left' \in Budget
  <1>1. left[what] \in Nat /\ left[what] - 1 \in Nat
    BY DEF Spend, Budget
  <1> QED
    BY <1>1 DEF Spend, Budget

\* The rows of a table stay rows when one is written.
LEMMA InsertTyped ==
    ASSUME TypeOK, NEW row \in Signal, Insert(row)
    PROVE  /\ rows' \in [RowId -> Signal \union {NoRow}] /\ nextRow' \in 1..(MaxRow + 1)
           /\ \A r \in RowId : r >= nextRow' => rows'[r] = NoRow
  <1>1. nextRow \in RowId
    BY SignalAssumption DEF TypeOK, Insert, Budget, RowId
  <1>2. nextRow' = nextRow + 1 /\ nextRow \in Nat
    BY <1>1, SignalAssumption DEF Insert, RowId
  <1> QED
    BY <1>1, <1>2, SignalAssumption DEF TypeOK, Insert, RowId

\* So they do when they are changed or deleted one by one.
LEMMA ChangeTyped ==
    ASSUME TypeOK, nextRow' = nextRow,
           rows' = [r \in RowId |-> rows'[r]],
           \A r \in RowId : \/ rows'[r] \in {rows[r], NoRow}
                            \/ rows[r] # NoRow /\ rows'[r] \in Signal
    PROVE  /\ rows' \in [RowId -> Signal \union {NoRow}] /\ nextRow' \in 1..(MaxRow + 1)
           /\ \A r \in RowId : r >= nextRow' => rows'[r] = NoRow
  <1>1. \A r \in RowId : rows'[r] \in Signal \union {NoRow}
    BY DEF TypeOK
  <1>2. rows' \in [RowId -> Signal \union {NoRow}]
    BY <1>1
  <1> QED
    BY <1>2 DEF TypeOK

\* A cool-down that begins or ends.
LEMMA CoolingTyped ==
    ASSUME cooling \in [Proc -> [Strategy -> SUBSET Market]], NEW p \in Proc, NEW s \in Strategy,
           NEW m \in Market
    PROVE  /\ [cooling EXCEPT ![p][s] = @ \union {m}] \in [Proc -> [Strategy -> SUBSET Market]]
           /\ [cooling EXCEPT ![p][s] = @ \ {m}] \in [Proc -> [Strategy -> SUBSET Market]]
  OBVIOUS

\* Steps that leave the cool-downs alone and write no row.
LEMMA RowsLessenCool ==
    ASSUME SInv, cooling' = cooling,
           \A r \in RowId : Lessened(rows'[r], rows[r]),
           \A p \in Proc : looked'[p] \in {looked[p], NoLook}
    PROVE  LateHasStatus' /\ WarmCools' /\ LookStands' /\ NoDoubleSignal'
  <1>1. ASSUME NEW r \in RowId, rows'[r] # NoRow, rows'[r].warm
        PROVE  Cooled(rows[r])'
    BY <1>1 DEF SInv, WarmCools, Cooled, Rows, Lessened
  <1>2. \A p \in Proc : looked'[p] # NoLook => looked[p].market \in cooling'[p][looked[p].strategy]
    BY DEF SInv, LookStands
  <1> QED
    BY <1>1, <1>2, RowsLessen

\* Steps that leave the rows and the cool-downs alone.
LEMMA RowsSame ==
    ASSUME SInv, rows' = rows, cooling' = cooling,
           \A p \in Proc : looked'[p] \in {looked[p], NoLook}
    PROVE  LateHasStatus' /\ WarmCools' /\ LookStands' /\ NoDoubleSignal'
  BY SameIsLessened, RowsLessenCool

-----------------------------------------------------------------------------
(* The steps                                                               *)

\* Late convergence and latency snipe.
LEMMA LookUps ==
    ASSUME SInv, NEW p \in Proc, NEW m \in Market, NEW side \in Outcome,
           LateConvergence(p, m, side) \/ LatencySnipe(p, m, side)
    PROVE  SInv'
  <1> USE DEF SInv
  <1>1. PICK s \in {"LC", "LS"}, found \in BOOLEAN :
           /\ Cool(p, s, m) /\ LookUp(p, s, m, side, found)
           /\ \A r \in Rows : (/\ rows[r].strategy = s /\ rows[r].market = m
                               /\ rows[r].side = side /\ InTheWay(rows[r])) => found
    <2>1. CASE LateConvergence(p, m, side)
      <3>1. \A r \in Rows : (/\ rows[r].strategy = "LC" /\ rows[r].market = m
                            /\ rows[r].side = side /\ InTheWay(rows[r])) => LateSignaled(m, side)
        BY DEF LateSignaled, InTheWay, Open, LateHasStatus
      <3>2. LateSignaled(m, side) \in BOOLEAN
        BY DEF LateSignaled
      <3> QED
        BY <2>1, <3>1, <3>2 DEF LateConvergence
    <2>2. CASE LatencySnipe(p, m, side)
      <3>1. \A r \in Rows : (/\ rows[r].strategy = "LS" /\ rows[r].market = m
                            /\ rows[r].side = side /\ InTheWay(rows[r])) => SnipeSignaled(m, side)
        BY DEF SnipeSignaled, InTheWay, Open
      <3>2. SnipeSignaled(m, side) \in BOOLEAN
        BY DEF SnipeSignaled
      <3> QED
        BY <2>2, <3>1, <3>2 DEF LatencySnipe
    <2> QED
      BY <2>1, <2>2
  <1>2. LateHasStatus' /\ WarmCools' /\ LookStands' /\ NoDoubleSignal'
    BY <1>1, LookUpStands
  <1>3. PICK blind \in BOOLEAN :
           /\ IF blind THEN Spend("faults") ELSE UNCHANGED left
           /\ looked' = IF ~blind /\ found THEN looked
                        ELSE [looked EXCEPT ![p] = [strategy |-> s, market |-> m,
                                                    side |-> side, blind |-> blind]]
    BY <1>1 DEF LookUp
  <1>4. left' \in Budget
    BY <1>3, SpentIsBudget DEF TypeOK
  <1>5. looked' \in [Proc -> Look \union {NoLook}]
    <2>1. [strategy |-> s, market |-> m, side |-> side, blind |-> blind] \in Look
      BY DEF Look
    <2> QED
      BY <1>3, <2>1 DEF TypeOK
  <1>6. cooling' \in [Proc -> [Strategy -> SUBSET Market]]
    BY <1>1, CoolingTyped DEF Cool, TypeOK, Strategy
  <1>7. TypeOK'
    BY <1>1, <1>4, <1>5, <1>6 DEF TypeOK, LookUp, table, world
  <1> QED
    BY <1>2, <1>7

\* The signal of a scanner that looked is inserted, or is lost.
LEMMA Saves ==
    ASSUME SInv, NEW p \in Proc, SaveSignal(p) \/ SaveFails(p)
    PROVE  SInv'
  <1> USE DEF SInv
  <1>1. CASE SaveFails(p)
    <2>1. looked' = [looked EXCEPT ![p] = NoLook] /\ rows' = rows /\ cooling' = cooling
      BY <1>1 DEF SaveFails, table
    <2>2. LateHasStatus' /\ WarmCools' /\ LookStands' /\ NoDoubleSignal'
      BY <2>1, RowsSame DEF TypeOK
    <2>3. left' \in Budget
      <3>1. left.faults \in Nat /\ (left.faults > 0 => left.faults - 1 \in Nat)
        BY DEF TypeOK, Budget
      <3>2. CASE nextRow > left.rows
        <4>1. left' = [left EXCEPT !.faults = left.faults]
          BY <1>1, <3>2 DEF SaveFails
        <4> QED
          BY <4>1, <3>1 DEF TypeOK, Budget
      <3>3. CASE ~(nextRow > left.rows)
        <4>1. left' = [left EXCEPT !.faults = left.faults - 1] /\ left.faults > 0
          BY <1>1, <3>3 DEF SaveFails
        <4> QED
          BY <4>1, <3>1 DEF TypeOK, Budget
      <3> QED
        BY <3>2, <3>3
    <2>4. TypeOK'
      BY <1>1, <2>3 DEF SaveFails, TypeOK, table, world
    <2> QED
      BY <2>2, <2>4
  <1>2. CASE SaveSignal(p)
    <2>1. PICK k \in Look : k = looked[p]
      BY <1>2 DEF SaveSignal, TypeOK
    <2>. PICK row : row = Row(p, k.strategy, k.market, k.side, k.blind, "pending", TRUE)
      OBVIOUS
    <2>. PICK blind \in BOOLEAN : blind = k.blind
      BY DEF Look
    <2>2. row \in Signal
      <3>1. row = Row(p, k.strategy, k.market, k.side, blind, "pending", TRUE)
        BY DEF Row
      <3> QED
        BY <3>1 DEF Row, Signal, Look, Strategy
    <2>3. /\ row.strategy = k.strategy /\ row.market = k.market /\ row.side = k.side
          /\ row.by = p /\ (row.blind <=> k.blind) /\ row.status = "pending"
      BY DEF Row
    <2>4. /\ Insert(row) /\ looked' = [looked EXCEPT ![p] = NoLook] /\ cooling' = cooling
          /\ k # NoLook
      BY <1>2, <2>1 DEF SaveSignal
    <2>5. LateHasStatus' /\ WarmCools' /\ LookStands' /\ NoDoubleSignal'
      <3>1. looked'[p] = NoLook /\ \A q \in Proc \ {p} : looked'[q] = looked[q]
        BY <2>4 DEF TypeOK
      <3>2. row.market \in cooling'[p][row.strategy]
        BY <2>1, <2>3, <2>4 DEF LookStands
      <3>3. \A r \in Rows : Same(rows[r], p, row) =>
              /\ row.warm => ~rows[r].warm
              /\ (/\ row.strategy \in {"LC", "LS"} /\ rows[r].side = row.side
                  /\ InTheWay(rows[r])) => row.blind
        <4>1. \A r \in Rows : Clear(rows[r], p, k)
          BY <2>1, <2>4 DEF LookStands
        <4> QED
          BY <4>1, <2>3 DEF Clear, Same
      <3> QED
        <4>1. \A q \in Proc, t \in Strategy : cooling[q][t] \subseteq cooling'[q][t]
          BY <2>4
        <4>2. row.by = p /\ (row.strategy = "LC" => row.status # "none")
          BY <2>3
        <4> HIDE DEF SInv
        <4> QED
          BY <2>2, <2>4, <3>1, <3>2, <3>3, <4>1, <4>2, InsertStands
    <2>6. orders' \subseteq Proc \X RowId
      <3>1. nextRow \in RowId
        BY <2>4, SignalAssumption DEF TypeOK, Insert, Budget, RowId
      <3> QED
        BY <1>2, <3>1 DEF SaveSignal, TypeOK
    <2>7. TypeOK'
      BY <1>2, <2>2, <2>4, <2>6, InsertTyped DEF SaveSignal, TypeOK, world
    <2> QED
      BY <2>5, <2>7
  <1> QED
    BY <1>1, <1>2

\* A row that is written without a look.
LEMMA Writes ==
    ASSUME SInv, NEW p \in Proc, NEW s \in {"PH", "BF", "LA"}, NEW m \in Market,
           NEW side \in Outcome \union {"BOTH"}, NEW dated \in BOOLEAN,
           Write(p, s, m, side, dated), s # "BF" => Cool(p, s, m), s = "BF" => cooling' = cooling
    PROVE  /\ LateHasStatus' /\ WarmCools' /\ LookStands' /\ NoDoubleSignal'
           /\ left' \in Budget /\ cooling' \in [Proc -> [Strategy -> SUBSET Market]]
           /\ rows' \in [RowId -> Signal \union {NoRow}] /\ nextRow' \in 1..(MaxRow + 1)
           /\ \A r \in RowId : r >= nextRow' => rows'[r] = NoRow
  <1> USE DEF SInv
  <1>1. s \in Strategy
    BY DEF Strategy
  <1>2. cooling' \in [Proc -> [Strategy -> SUBSET Market]]
    <2>1. CASE s = "BF"
      BY <2>1 DEF TypeOK
    <2>2. CASE s # "BF"
      <3>1. cooling' = [cooling EXCEPT ![p][s] = @ \union {m}]
        BY <2>2 DEF Cool
      <3> QED
        BY <1>1, <3>1, CoolingTyped DEF TypeOK
    <2> QED
      BY <2>1, <2>2
  <1>3. \A q \in Proc, t \in Strategy : cooling[q][t] \subseteq cooling'[q][t]
    BY <1>1 DEF Cool, TypeOK
  <1>4. looked[p] = NoLook /\ looked' = looked
    BY DEF Write
  <1>5. CASE Insert(Row(p, s, m, side, FALSE, "none", dated)) /\ UNCHANGED left
    <2>1. PICK row : row = Row(p, s, m, side, FALSE, "none", dated)
      OBVIOUS
    <2>7. row \in Signal
      BY <1>1, <2>1 DEF Row, Signal
    <2>2. /\ row.strategy = s /\ row.market = m /\ row.by = p
          /\ row.warm <=> s # "BF"
      BY <2>1 DEF Row
    <2>3. Insert(row)
      BY <1>5, <2>1
    <2>4. row.warm => row.market \in cooling'[p][row.strategy]
      BY <1>1, <2>2 DEF Cool, TypeOK
    <2>5. \A r \in Rows : Same(rows[r], p, row) => (row.warm => ~rows[r].warm)
      BY <2>2, SignalAssumption DEF Same, WarmCools, Cooled, Cool
    <2>6. LateHasStatus' /\ WarmCools' /\ LookStands' /\ NoDoubleSignal'
      BY <1>3, <1>4, <2>7, <2>2, <2>3, <2>4, <2>5, InsertStands
    <2> QED
      BY <1>2, <1>5, <2>7, <2>3, <2>6, InsertTyped DEF TypeOK
  <1>6. CASE Spend("faults") /\ UNCHANGED table
    <2>1. rows' = rows /\ nextRow' = nextRow
      BY <1>6 DEF table
    <2>2. \A r \in RowId : (rows'[r] # NoRow /\ rows'[r].warm) => Cooled(rows[r])'
      <3>1. SUFFICES ASSUME NEW r \in Rows, rows[r].warm
                     PROVE  /\ rows[r].by \in Proc
                            /\ rows[r].market \in cooling'[rows[r].by][rows[r].strategy]
        BY <2>1 DEF Cooled, Rows
      <3>2. rows[r] \in Signal
        BY DEF TypeOK, Rows
      <3> QED
        BY <1>3, <3>1, <3>2 DEF WarmCools, Cooled, Signal
    <2>3. \A q \in Proc : looked'[q] # NoLook => looked[q].market \in cooling'[q][looked[q].strategy]
      <3>1. \A q \in Proc : looked[q] # NoLook => looked[q].strategy \in Strategy
        BY DEF TypeOK, Look, Strategy
      <3> QED
        BY <1>3, <1>4, <3>1 DEF LookStands
    <2>4. LateHasStatus' /\ WarmCools' /\ LookStands' /\ NoDoubleSignal'
      BY <1>4, <2>1, <2>2, <2>3, SameIsLessened, RowsLessen
    <2>5. left' \in Budget
      BY <1>6, SpentIsBudget DEF TypeOK
    <2> QED
      BY <1>2, <2>1, <2>4, <2>5 DEF TypeOK
  <1> QED
    BY <1>5, <1>6 DEF Write

\* Pair hedge, the FOMC model and logic arbitrage.
LEMMA Unlooked ==
    ASSUME SInv, NEW p \in Proc, NEW m \in Market, NEW side \in Outcome,
           NEW who \in {"scan", "update"},
           PairHedge(p, m) \/ BayesianFomc(p, m, side) \/ Emit(p, m, who)
    PROVE  SInv'
  <1>1. CASE PairHedge(p, m)
    BY <1>1, Writes DEF PairHedge, SInv, TypeOK, Write, world
  <1>2. CASE BayesianFomc(p, m, side)
    BY <1>2, Writes DEF BayesianFomc, SInv, TypeOK, Write, world
  <1>3. CASE Emit(p, m, who)
    BY <1>3, Writes DEF Emit, SInv, TypeOK, Write, world
  <1> QED
    BY <1>1, <1>2, <1>3

\* A pair that is confirmed, or is not.
LEMMA Confirmations ==
    ASSUME SInv, NEW p \in Proc, NEW m \in Market, NEW who \in {"scan", "update"},
           Candidate(p, m, who) \/ Dropped(p, m, who)
    PROVE  SInv'
  <1>1. LateHasStatus' /\ WarmCools' /\ LookStands' /\ NoDoubleSignal'
    BY RowsSame DEF Candidate, Dropped, table
  <1>2. TypeOK'
    BY DEF SInv, TypeOK, Candidate, Dropped, table, world
  <1> QED
    BY <1>1, <1>2 DEF SInv

\* An order task changes the status of its row, but takes up no row of late convergence
\* that failed or was skipped.
LEMMA OrderTasks ==
    ASSUME SInv, NEW p \in Proc, NEW r \in RowId, OrderTask(p, r)
    PROVE  SInv'
  <1> USE DEF SInv
  <1>1. looked' = looked /\ cooling' = cooling /\ nextRow' = nextRow
    BY DEF OrderTask
  <1>2. left' \in Budget
    BY SpentIsBudget DEF OrderTask, TypeOK
  <1>3. CASE UNCHANGED rows
    <2>1. LateHasStatus' /\ WarmCools' /\ LookStands' /\ NoDoubleSignal'
      BY <1>1, <1>3, RowsSame
    <2>2. TypeOK'
      BY <1>1, <1>2, <1>3 DEF OrderTask, TypeOK, world
    <2> QED
      BY <2>1, <2>2
  <1>4. CASE /\ rows[r] # NoRow
             /\ rows' = [rows EXCEPT ![r].status = IF rows[r].strategy = "LC"
                            THEN LatePlaces(p, rows[r]) ELSE SnipePlaces(p, rows[r])]
    <2>1. PICK row \in Signal : row = rows[r]
      BY <1>4 DEF TypeOK
    <2>2. PICK status : status = IF row.strategy = "LC"
                                 THEN LatePlaces(p, row) ELSE SnipePlaces(p, row)
      OBVIOUS
    <2>3. /\ status \in {"none", "pending", "paper", "skipped", "failed", "live", "matched"}
          /\ row.strategy = "LC" => status \in {row.status, "skipped"}
      BY <2>2 DEF LatePlaces, SnipePlaces, Signal
    <2>4. rows' = [rows EXCEPT ![r] = [row EXCEPT !.status = status]]
      BY <1>4, <2>1, <2>2
    <2>5. Lessened([row EXCEPT !.status = status], row) /\ [row EXCEPT !.status = status] \in Signal
      BY <2>3, ChangeIsLessened, RowChanged
    <2>6. \A x \in RowId : Lessened(rows'[x], rows[x])
      BY <2>1, <2>4, <2>5, SameIsLessened DEF TypeOK
    <2>7. \A x \in RowId : \/ rows'[x] \in {rows[x], NoRow}
                           \/ rows[x] # NoRow /\ rows'[x] \in Signal
      BY <1>4, <2>4, <2>5 DEF TypeOK
    <2>8. LateHasStatus' /\ WarmCools' /\ LookStands' /\ NoDoubleSignal'
      BY <1>1, <2>6, RowsLessenCool
    <2>9. TypeOK'
      BY <1>1, <1>2, <2>4, <2>7, ChangeTyped DEF OrderTask, TypeOK, world
    <2> QED
      BY <2>8, <2>9
  <1> QED
    BY <1>3, <1>4 DEF OrderTask

\* Rows that grow cold.
LEMMA ChilledRows ==
    ASSUME TypeOK, NEW p, NEW s, NEW m, NEW r \in RowId
    PROVE  /\ Chilled(p, s, m)[r] \in {rows[r], NoRow} \/ (rows[r] # NoRow /\ Chilled(p, s, m)[r] \in Signal)
           /\ Lessened(Chilled(p, s, m)[r], rows[r])
           /\ (/\ Chilled(p, s, m)[r] # NoRow /\ rows[r].by = p
               /\ rows[r].strategy \in s /\ rows[r].market \in m) => ~Chilled(p, s, m)[r].warm
  <1>1. CASE rows[r] # NoRow /\ rows[r].by = p /\ rows[r].strategy \in s /\ rows[r].market \in m
    <2>1. PICK row \in Signal : row = rows[r]
      BY <1>1 DEF TypeOK
    <2>2. Chilled(p, s, m)[r] = [row EXCEPT !.warm = FALSE]
      BY <1>1, <2>1 DEF Chilled
    <2>3. [row EXCEPT !.warm = FALSE] \in Signal /\ Lessened([row EXCEPT !.warm = FALSE], row)
      BY RowChanged, ChangeIsLessened
    <2>4. ~[row EXCEPT !.warm = FALSE].warm
      BY DEF Signal
    <2> QED
      BY <1>1, <2>1, <2>2, <2>3, <2>4
  <1>2. CASE ~(rows[r] # NoRow /\ rows[r].by = p /\ rows[r].strategy \in s /\ rows[r].market \in m)
    <2>1. Chilled(p, s, m)[r] = rows[r]
      BY <1>2 DEF Chilled
    <2> QED
      BY <1>2, <2>1, SameIsLessened
  <1> QED
    BY <1>1, <1>2

\* A cool-down ends, and no signal is on its way in the process.
LEMMA CoolingsEnd ==
    ASSUME SInv, NEW p \in Proc, NEW s \in Strategy, CoolingEnds(p, s)
    PROVE  SInv'
  <1> USE DEF SInv
  <1>1. PICK m \in cooling[p][s] : /\ cooling' = [cooling EXCEPT ![p][s] = @ \ {m}]
                                  /\ rows' = Chilled(p, {s}, {m})
    BY DEF CoolingEnds
  <1>2. m \in Market /\ cooling' \in [Proc -> [Strategy -> SUBSET Market]]
    BY <1>1, CoolingTyped DEF TypeOK
  <1>3. looked[p] = NoLook /\ looked' = looked
    BY DEF CoolingEnds
  <1>4. ASSUME NEW r \in RowId
        PROVE  /\ Lessened(rows'[r], rows[r])
               /\ \/ rows'[r] \in {rows[r], NoRow}
                  \/ rows[r] # NoRow /\ rows'[r] \in Signal
               /\ (/\ rows'[r] # NoRow /\ rows[r].by = p
                   /\ rows[r].strategy \in {s} /\ rows[r].market \in {m}) => ~rows'[r].warm
    BY <1>1, ChilledRows
  <1>5. \A q \in Proc, t \in Strategy, x \in Market :
            (x \in cooling[q][t] /\ ~(q = p /\ t = s /\ x = m)) => x \in cooling'[q][t]
    BY <1>1 DEF TypeOK
  <1>6. ASSUME NEW r \in RowId, rows'[r] # NoRow, rows'[r].warm
        PROVE  Cooled(rows[r])'
    <2>1. /\ rows[r] \in Signal /\ rows[r] # NoRow /\ rows[r].warm
          /\ rows'[r].by = rows[r].by /\ rows'[r].market = rows[r].market
          /\ rows'[r].strategy = rows[r].strategy
      BY <1>4, <1>6 DEF Lessened, TypeOK
    <2>2. rows[r].by \in Proc /\ rows[r].market \in cooling[rows[r].by][rows[r].strategy]
      BY <2>1 DEF WarmCools, Cooled, Rows
    <2>3. rows[r].strategy \in Strategy /\ rows[r].market \in Market
      BY <2>1 DEF Signal
    <2>4. ~(rows[r].by = p /\ rows[r].strategy = s /\ rows[r].market = m)
      BY <1>4, <1>6
    <2> QED
      BY <1>5, <2>1, <2>2, <2>3, <2>4 DEF Cooled
  <1>7. ASSUME NEW q \in Proc, looked'[q] # NoLook
        PROVE  looked[q].market \in cooling'[q][looked[q].strategy]
    <2>1. q # p /\ looked[q] # NoLook /\ looked[q].strategy \in Strategy /\ looked[q].market \in Market
      BY <1>3, <1>7 DEF TypeOK, Look, Strategy
    <2> QED
      BY <1>5, <2>1 DEF LookStands
  <1>8. LateHasStatus' /\ WarmCools' /\ LookStands' /\ NoDoubleSignal'
    BY <1>3, <1>4, <1>6, <1>7, RowsLessen
  <1>9. TypeOK'
    <2>1. rows' = [r \in RowId |-> rows'[r]]
      BY <1>1 DEF Chilled
    <2> QED
      BY <1>2, <1>4, <2>1, ChangeTyped DEF CoolingEnds, TypeOK, world
  <1> QED
    BY <1>8, <1>9

\* A restart forgets what a process looked at together with the cool-downs.
LEMMA Restarts ==
    ASSUME SInv, NEW p \in Proc, Restart(p)
    PROVE  SInv'
  <1> USE DEF SInv
  <1>1. /\ cooling' = [cooling EXCEPT ![p] = [s \in Strategy |-> {}]]
        /\ rows' = Chilled(p, Strategy, Market)
        /\ looked' = [looked EXCEPT ![p] = NoLook]
    BY DEF Restart
  <1>2. cooling' \in [Proc -> [Strategy -> SUBSET Market]] /\ \A q \in Proc \ {p} : cooling'[q] = cooling[q]
    BY <1>1 DEF TypeOK
  <1>3. looked'[p] = NoLook /\ \A q \in Proc \ {p} : looked'[q] = looked[q]
    BY <1>1 DEF TypeOK
  <1>4. ASSUME NEW r \in RowId
        PROVE  /\ Lessened(rows'[r], rows[r])
               /\ \/ rows'[r] \in {rows[r], NoRow}
                  \/ rows[r] # NoRow /\ rows'[r] \in Signal
               /\ (/\ rows'[r] # NoRow /\ rows[r].by = p
                   /\ rows[r].strategy \in Strategy /\ rows[r].market \in Market) => ~rows'[r].warm
    BY <1>1, ChilledRows
  <1>5. ASSUME NEW r \in RowId, rows'[r] # NoRow, rows'[r].warm
        PROVE  Cooled(rows[r])'
    <2>1. /\ rows[r] \in Signal /\ rows[r] # NoRow /\ rows[r].warm
          /\ rows'[r].by = rows[r].by /\ rows'[r].market = rows[r].market
          /\ rows'[r].strategy = rows[r].strategy
      BY <1>4, <1>5 DEF Lessened, TypeOK
    <2>2. rows[r].by \in Proc /\ rows[r].market \in cooling[rows[r].by][rows[r].strategy]
      BY <2>1 DEF WarmCools, Cooled, Rows
    <2>3. rows[r].by # p
      BY <1>4, <1>5, <2>1 DEF Signal
    <2> QED
      BY <1>2, <2>1, <2>2, <2>3 DEF Cooled
  <1>6. ASSUME NEW q \in Proc, looked'[q] # NoLook
        PROVE  looked[q].market \in cooling'[q][looked[q].strategy]
    BY <1>2, <1>3, <1>6 DEF LookStands
  <1>7. LateHasStatus' /\ WarmCools' /\ LookStands' /\ NoDoubleSignal'
    <2>1. \A q \in Proc : looked'[q] \in {looked[q], NoLook}
      BY <1>3
    <2> QED
      BY <2>1, <1>4, <1>5, <1>6, RowsLessen
  <1>8. TypeOK'
    <2>1. rows' = [r \in RowId |-> rows'[r]]
      BY <1>1 DEF Chilled
    <2>2. left' \in Budget
      BY SpentIsBudget DEF Restart, TypeOK
    <2>3. looked' \in [Proc -> Look \union {NoLook}]
      BY <1>1 DEF TypeOK
    <2>4. resolver' \in [Proc -> Stage]
      BY DEF Restart, TypeOK, Stage
    <2>5. /\ rows' \in [RowId -> Signal \union {NoRow}] /\ nextRow' \in 1..(MaxRow + 1)
          /\ \A r \in RowId : r >= nextRow' => rows'[r] = NoRow
      BY <1>4, <2>1, ChangeTyped DEF Restart
    <2> QED
      BY <1>2, <2>2, <2>3, <2>4, <2>5 DEF Restart, TypeOK, world
  <1> QED
    BY <1>7, <1>8

\* Users delete rows, of any kind.
LEMMA Deletions ==
    ASSUME SInv, NEW gone \in SUBSET Rows, DeleteRows(gone)
    PROVE  SInv'
  <1> USE DEF SInv
  <1>1. rows' = [r \in RowId |-> IF r \in gone THEN NoRow ELSE rows[r]]
    BY DEF DeleteRows
  <1>2. \A r \in RowId : Lessened(rows'[r], rows[r])
    BY <1>1, SameIsLessened DEF Lessened
  <1>3. LateHasStatus' /\ WarmCools' /\ LookStands' /\ NoDoubleSignal'
    BY <1>2, RowsLessenCool DEF DeleteRows, memory
  <1>4. TypeOK'
    <2>1. rows' = [r \in RowId |-> rows'[r]] /\ \A r \in RowId : rows'[r] \in {rows[r], NoRow}
      BY <1>1
    <2>2. left' \in Budget
      BY SpentIsBudget DEF DeleteRows, TypeOK
    <2> QED
      BY <2>1, <2>2, ChangeTyped DEF DeleteRows, TypeOK, memory, world
  <1> QED
    BY <1>3, <1>4

\* What a resolver holds at each of its stages.
LEMMA Stages ==
    ASSUME TypeOK, NEW p \in Proc
    PROVE  /\ resolver[p].at = "jobs" => resolver[p].queue \subseteq 1..MaxJob
           /\ resolver[p].at = "job" => resolver[p].job \in 1..MaxJob /\ resolver[p].queue \subseteq 1..MaxJob
           /\ resolver[p].at = "ask" => /\ resolver[p].todo \in Noted(Market)
                                       /\ resolver[p].got \in Noted(Outcome)
                                       /\ resolver[p] = [at |-> "ask", todo |-> resolver[p].todo,
                                                         got |-> resolver[p].got]
  <1>1. resolver[p] \in Stage
    BY DEF TypeOK
  <1> QED
    BY <1>1 DEF Stage, Asleep

\* The stages of a resolver.
LEMMA StagesAre ==
    /\ Asleep \in Stage
    /\ \A queue \in SUBSET (1..MaxJob) :
          /\ [at |-> "jobs", queue |-> queue] \in Stage
          /\ \A j \in 1..MaxJob : [at |-> "job", job |-> j, queue |-> queue] \in Stage
    /\ \A todo \in Noted(Market), got \in Noted(Outcome) :
          [at |-> "ask", todo |-> todo, got |-> got] \in Stage
  BY DEF Stage

\* The resolver takes a job, passes over one, or fails to; it ends one.
LEMMA Jobs ==
    ASSUME SInv, NEW p \in Proc, StartJob(p) \/ StartFails(p) \/ EndJob(p)
    PROVE  SInv'
  <1> USE DEF SInv
  <1>1. LateHasStatus' /\ WarmCools' /\ LookStands' /\ NoDoubleSignal'
    BY RowsSame DEF StartJob, StartFails, EndJob, table, memory
  <1>2. /\ jobs' \in [1..MaxJob -> {"none", "pending", "running", "done", "failed"}]
        /\ resolver' \in [Proc -> Stage] /\ left' \in Budget
    <2>1. CASE StartJob(p)
      <3>1. PICK queue : queue = IF resolver[p] = Asleep THEN Pending ELSE resolver[p].queue
        OBVIOUS
      <3>2. queue \subseteq 1..MaxJob
        BY <2>1, <3>1, Stages DEF StartJob, Pending
      <3>3. PICK j \in queue :
              \/ /\ jobs' = [jobs EXCEPT ![j] = "running"]
                 /\ resolver' = [resolver EXCEPT ![p] =
                                   [at |-> "job", job |-> j, queue |-> queue \ {j}]]
              \/ /\ UNCHANGED jobs
                 /\ resolver' = [resolver EXCEPT ![p] = [at |-> "jobs", queue |-> queue \ {j}]]
        BY <2>1, <3>1 DEF StartJob
      <3>4. /\ [at |-> "job", job |-> j, queue |-> queue \ {j}] \in Stage
            /\ [at |-> "jobs", queue |-> queue \ {j}] \in Stage
        BY <3>2, StagesAre
      <3> QED
        <4>1. jobs' \in [1..MaxJob -> {"none", "pending", "running", "done", "failed"}]
          BY <3>3 DEF TypeOK
        <4>2. resolver' \in [Proc -> Stage]
          BY <3>3, <3>4 DEF TypeOK
        <4>3. left' = left
          BY <2>1 DEF StartJob
        <4> QED
          BY <4>1, <4>2, <4>3 DEF TypeOK
    <2>2. CASE StartFails(p)
      <3>1. [at |-> "jobs", queue |-> {}] \in Stage
        BY StagesAre
      <3> QED
        BY <2>2, <3>1, SpentIsBudget DEF StartFails, TypeOK
    <2>3. CASE EndJob(p)
      <3>1. resolver[p].job \in 1..MaxJob /\ resolver[p].queue \in SUBSET (1..MaxJob)
        BY <2>3, Stages DEF EndJob
      <3>2. /\ [at |-> "jobs", queue |-> {}] \in Stage
            /\ [at |-> "jobs", queue |-> resolver[p].queue] \in Stage
        BY <3>1, StagesAre
      <3>3. left' \in Budget
        BY <2>3, SpentIsBudget DEF EndJob, TypeOK
      <3> QED
        BY <2>3, <3>1, <3>2, <3>3 DEF EndJob, TypeOK
    <2> QED
      BY <2>1, <2>2, <2>3
  <1>3. TypeOK'
    BY <1>2 DEF StartJob, StartFails, EndJob, TypeOK, table, memory, world
  <1> QED
    BY <1>1, <1>3

\* The resolver redeems and reads the rows past their end; a rescan ends.
LEMMA Redemptions ==
    ASSUME SInv, NEW p \in Proc, RedeemAndRead(p) \/ RescanEnds(p)
    PROVE  SInv'
  <1> USE DEF SInv
  <1>1. LateHasStatus' /\ WarmCools' /\ LookStands' /\ NoDoubleSignal'
    BY RowsSame DEF RedeemAndRead, RescanEnds, table
  <1>2. PastEnd \subseteq RowId /\ [r \in PastEnd |-> rows[r].market] \in Noted(Market)
    <2>1. PastEnd \in SUBSET RowId
      BY DEF PastEnd, Rows
    <2>2. \A r \in PastEnd : rows[r].market \in Market
      BY DEF PastEnd, Rows, TypeOK, Signal
    <2>3. [r \in PastEnd |-> rows[r].market] \in [PastEnd -> Market]
      BY <2>2
    <2> QED
      BY <2>1, <2>3 DEF Noted
  <1>3. Nothing \in Noted(Outcome)
    <2>1. Nothing \in [{} -> Outcome] /\ {} \in SUBSET RowId
      BY DEF Nothing
    <2> QED
      BY <2>1 DEF Noted
  <1>4. resolver' \in [Proc -> Stage] /\ rescan' \subseteq Live
    <2>1. PICK stage : stage = IF PastEnd = {} THEN Asleep
             ELSE [at |-> "ask", todo |-> [r \in PastEnd |-> rows[r].market], got |-> Nothing]
      OBVIOUS
    <2>2. stage \in Stage
      BY <1>2, <1>3, <2>1, StagesAre
    <2>3. CASE RedeemAndRead(p)
      <3>1. resolver' = [resolver EXCEPT ![p] = stage]
        BY <2>1, <2>3 DEF RedeemAndRead
      <3> QED
        BY <2>2, <2>3, <3>1 DEF RedeemAndRead, TypeOK
    <2>4. CASE RescanEnds(p)
      BY <2>4 DEF RescanEnds, TypeOK
    <2> QED
      BY <2>3, <2>4
  <1>5. TypeOK'
    BY <1>4 DEF RedeemAndRead, RescanEnds, TypeOK, table, world
  <1> QED
    BY <1>1, <1>5

\* A market answers, or does not.
LEMMA Answers ==
    ASSUME SInv, NEW p \in Proc, NEW r \in RowId, NEW answer \in Outcome \union {"none"},
           CheckResolution(p, r, answer)
    PROVE  SInv'
  <1> USE DEF SInv
  <1>1. LateHasStatus' /\ WarmCools' /\ LookStands' /\ NoDoubleSignal'
    BY RowsSame DEF CheckResolution, table, memory
  <1>2. PICK todo \in Noted(Market), got \in Noted(Outcome) :
           resolver[p] = [at |-> "ask", todo |-> todo, got |-> got]
    BY Stages DEF CheckResolution
  <1>3. PICK f : f = IF answer = "none" THEN got
                     ELSE [x \in DOMAIN got \union {r} |-> IF x = r THEN answer ELSE got[x]]
    OBVIOUS
  <1>4. resolver' = [resolver EXCEPT ![p] = [at |-> "ask", todo |-> Without(todo, r), got |-> f]]
    BY <1>2, <1>3 DEF CheckResolution
  <1>5. Without(todo, r) \in Noted(Market)
    <2>1. PICK D \in SUBSET RowId : todo \in [D -> Market]
      BY DEF Noted
    <2>2. Without(todo, r) \in [D \ {r} -> Market] /\ D \ {r} \in SUBSET RowId
      BY <2>1 DEF Without
    <2> QED
      BY <2>2 DEF Noted
  <1>6. f \in Noted(Outcome)
    <2>1. PICK D \in SUBSET RowId : got \in [D -> Outcome]
      BY DEF Noted
    <2>2. CASE answer # "none"
      <3>1. f \in [D \union {r} -> Outcome] /\ D \union {r} \in SUBSET RowId
        BY <1>3, <2>1, <2>2
      <3> QED
        BY <3>1 DEF Noted
    <2> QED
      BY <1>3, <2>2
  <1>7. TypeOK'
    <2>1. [at |-> "ask", todo |-> Without(todo, r), got |-> f] \in Stage
      BY <1>5, <1>6, StagesAre
    <2>2. resolver' \in [Proc -> Stage]
      BY <1>4, <2>1 DEF TypeOK
    <2> QED
      BY <2>2 DEF CheckResolution, TypeOK, table, memory, world
  <1> QED
    BY <1>1, <1>7

\* The answers are written to the rows that are still there.
LEMMA Commits ==
    ASSUME SInv, NEW p \in Proc, CommitRows(p)
    PROVE  SInv'
  <1> USE DEF SInv
  <1>1. resolver' \in [Proc -> Stage] /\ left' \in Budget
    BY SpentIsBudget, StagesAre DEF CommitRows, TypeOK
  <1>2. CASE UNCHANGED rows
    <2>1. LateHasStatus' /\ WarmCools' /\ LookStands' /\ NoDoubleSignal'
      BY <1>2, RowsSame DEF CommitRows, memory
    <2>2. TypeOK'
      BY <1>1, <1>2 DEF CommitRows, TypeOK, memory, world
    <2> QED
      BY <2>1, <2>2
  <1>3. CASE rows' = Resolved(resolver[p].got)
    <2>1. PICK got \in Noted(Outcome) : got = resolver[p].got
      BY Stages DEF CommitRows
    <2>2. PICK D \in SUBSET RowId : got \in [D -> Outcome]
      BY DEF Noted
    <2>3. ASSUME NEW r \in RowId
          PROVE  /\ Lessened(rows'[r], rows[r])
                 /\ \/ rows'[r] \in {rows[r], NoRow}
                    \/ rows[r] # NoRow /\ rows'[r] \in Signal
      <3>1. CASE r \in D /\ rows[r] # NoRow
        <4>1. PICK row \in Signal : row = rows[r]
          BY <3>1 DEF TypeOK
        <4>2. got[r] \in Outcome /\ rows'[r] = [row EXCEPT !.outcome = got[r]]
          BY <1>3, <2>1, <2>2, <3>1, <4>1 DEF Resolved
        <4> QED
          <5>1. PICK o \in Outcome : o = got[r]
            BY <4>2
          <5>2. Lessened([row EXCEPT !.outcome = o], row) /\ [row EXCEPT !.outcome = o] \in Signal
            BY ChangeIsLessened, RowChanged
          <5> QED
            BY <3>1, <4>1, <4>2, <5>1, <5>2
      <3>2. CASE ~(r \in D /\ rows[r] # NoRow)
        <4>1. rows'[r] = rows[r]
          BY <1>3, <2>1, <2>2, <3>2 DEF Resolved
        <4> QED
          BY <4>1, SameIsLessened
      <3> QED
        BY <3>1, <3>2
    <2>4. LateHasStatus' /\ WarmCools' /\ LookStands' /\ NoDoubleSignal'
      BY <2>3, RowsLessenCool DEF CommitRows, memory
    <2>5. rows' = [r \in RowId |-> rows'[r]]
      BY <1>3 DEF Resolved
    <2>6. TypeOK'
      BY <1>1, <2>3, <2>5, ChangeTyped DEF CommitRows, TypeOK, memory, world
    <2> QED
      BY <2>4, <2>6
  <1> QED
    BY <1>2, <1>3 DEF CommitRows

\* Users queue retries, markets end and are settled.
LEMMA Outside ==
    ASSUME SInv,
           \/ \E p \in Proc : EnqueueRetry(p)
           \/ \E m \in Market : End(m) \/ \E o \in Outcome : Settle(m, o)
    PROVE  SInv'
  <1> USE DEF SInv
  <1>1. LateHasStatus' /\ WarmCools' /\ LookStands' /\ NoDoubleSignal'
    BY RowsSame DEF EnqueueRetry, End, Settle, table, memory
  <1>2. CASE \E p \in Proc : EnqueueRetry(p)
    <2>1. left' \in Budget
      BY <1>2, SpentIsBudget DEF EnqueueRetry, TypeOK
    <2>2. TypeOK'
      BY <1>2, <2>1 DEF EnqueueRetry, TypeOK, table, memory, world
    <2> QED
      BY <1>1, <2>2
  <1>3. CASE \E m \in Market : End(m)
    BY <1>1, <1>3 DEF End, TypeOK, table, memory
  <1>4. CASE \E m \in Market, o \in Outcome : Settle(m, o)
    BY <1>1, <1>4 DEF Settle, TypeOK, table, memory
  <1> QED
    BY <1>2, <1>3, <1>4

\* At the start there is at most one row, of an earlier version.
LEMMA InitInv == Init => SInv
  <1> SUFFICES ASSUME Init
               PROVE  SInv
    OBVIOUS
  <1>1. left \in Budget
    BY SignalAssumption DEF Init
  <1>2. 1 \in RowId /\ 2 \in 1..(MaxRow + 1) /\ 1 \in 1..(MaxRow + 1)
    BY <1>1, SignalAssumption DEF Budget, RowId
  <1>3. CASE rows = [r \in RowId |-> NoRow] /\ nextRow = 1
    <2>1. TypeOK
      BY <1>1, <1>2, <1>3 DEF Init, TypeOK, Stage
    <2>2. Rows = {}
      BY <1>3 DEF Rows
    <2> QED
      BY <2>1, <2>2 DEF SInv, LateHasStatus, WarmCools, LookStands, NoDoubleSignal, Init
  <1>4. CASE \E m \in left.listed, st \in {"failed", "matched"} :
               /\ rows = [r \in RowId |-> IF r > 1 THEN NoRow ELSE
                     [strategy |-> "LC", market |-> m, side |-> "YES", by |-> "before",
                      blind |-> FALSE, status |-> st, dated |-> TRUE, outcome |-> "open", warm |-> FALSE]]
               /\ nextRow = 2
    <2>1. PICK m \in Market, st \in {"failed", "matched"} :
               /\ rows = [r \in RowId |-> IF r > 1 THEN NoRow ELSE
                     [strategy |-> "LC", market |-> m, side |-> "YES", by |-> "before",
                      blind |-> FALSE, status |-> st, dated |-> TRUE, outcome |-> "open", warm |-> FALSE]]
               /\ nextRow = 2
      BY <1>1, <1>4 DEF Budget
    <2>2. PICK row : row = [strategy |-> "LC", market |-> m, side |-> "YES", by |-> "before",
                      blind |-> FALSE, status |-> st, dated |-> TRUE, outcome |-> "open", warm |-> FALSE]
      OBVIOUS
    <2>3. row \in Signal /\ row.status # "none" /\ ~row.warm
      BY <2>2 DEF Signal, Strategy, Outcome
    <2>4. rows = [r \in RowId |-> IF r > 1 THEN NoRow ELSE row]
      BY <2>1, <2>2
    <2>5. rows[1] = row /\ \A r \in RowId \ {1} : rows[r] = NoRow
      BY <1>2, <2>4, SignalAssumption DEF RowId
    <2>6. Rows = {1}
      BY <1>2, <2>3, <2>5, RowIsRow DEF Rows
    <2>7. TypeOK
      <3>1. rows \in [RowId -> Signal \union {NoRow}]
        BY <2>3, <2>4
      <3>2. \A r \in RowId : r >= nextRow => rows[r] = NoRow
        BY <2>1, <2>5
      <3> QED
        BY <1>1, <1>2, <2>1, <3>1, <3>2 DEF Init, TypeOK, Stage
    <2> QED
      BY <2>3, <2>5, <2>6, <2>7 DEF SInv, LateHasStatus, WarmCools, LookStands, NoDoubleSignal, Init
  <1> QED
    BY <1>3, <1>4 DEF Init

\* Every step keeps the invariant.
LEMMA StepInv == SInv /\ [Next]_vars => SInv'
  <1> SUFFICES ASSUME SInv, [Next]_vars
               PROVE  SInv'
    OBVIOUS
  <1>1. left.up \subseteq Proc /\ left.listed \subseteq Market
    BY DEF SInv, TypeOK, Budget
  <1>2. CASE UNCHANGED vars
    <2>1. LateHasStatus' /\ WarmCools' /\ LookStands' /\ NoDoubleSignal'
      BY <1>2, RowsSame DEF vars, table, memory
    <2>2. TypeOK'
      BY <1>2 DEF vars, table, memory, world, SInv, TypeOK
    <2> QED
      BY <2>1, <2>2 DEF SInv
  <1>3. ASSUME NEW p \in Proc, NEW m \in Market,
               \/ PairHedge(p, m)
               \/ \E side \in Outcome :
                     LateConvergence(p, m, side) \/ LatencySnipe(p, m, side) \/ BayesianFomc(p, m, side)
               \/ \E who \in {"scan", "update"} :
                     Candidate(p, m, who) \/ Dropped(p, m, who) \/ Emit(p, m, who)
        PROVE  SInv'
    <2>1. "YES" \in Outcome /\ "scan" \in {"scan", "update"}
      BY DEF Outcome
    <2> QED
      BY <1>3, <2>1, LookUps, Unlooked, Confirmations
  <1>4. ASSUME NEW p \in Proc,
               \/ \E s \in Strategy : CoolingEnds(p, s)
               \/ SaveSignal(p) \/ SaveFails(p)
               \/ \E r \in RowId : OrderTask(p, r)
               \/ RescanEnds(p) \/ Resolve(p)
               \/ EnqueueRetry(p) \/ Restart(p)
        PROVE  SInv'
    <2>1. CASE Resolve(p)
      BY <2>1, Jobs, Redemptions, Commits, Answers DEF Resolve
    <2> QED
      BY <1>4, <2>1, CoolingsEnd, Saves, OrderTasks, Redemptions, Outside, Restarts
  <1>5. CASE ResetAll \/ ResetResolved \/ ResetBand
    BY <1>5, Deletions DEF ResetAll, ResetResolved, ResetBand
  <1>6. CASE \E m \in left.listed : End(m) \/ \E o \in Outcome : Settle(m, o)
    BY <1>1, <1>6, Outside
  <1> QED
    BY <1>1, <1>2, <1>3, <1>4, <1>5, <1>6 DEF Next

-----------------------------------------------------------------------------
(* The theorems                                                            *)

\* What holds in every state, of the scanners, order tasks, resolvers and users of
\* late_convergence, latency_snipe, pair_hedge, bayesian_fomc, logic_arb and runner.py.
THEOREM Invariance == Spec => []SInv
  BY InitInv, StepInv, PTL DEF Spec

\* Every variable keeps its type.
THEOREM TypeCorrect == Spec => []TypeOK
  <1>1. SInv => TypeOK
    BY DEF SInv
  <1> QED
    BY <1>1, Invariance, PTL

\* No process signals an open bet twice, unless its lookup failed, and none signals a
\* market twice in one cool-down: _already_signaled and _last_signal_ts are enough though
\* the lookup and the insertion of _save_signal are two transactions, in each process.
THEOREM NoDoubleSignalHolds == Spec => []NoDoubleSignal
  <1>1. SInv => NoDoubleSignal
    BY DEF SInv
  <1> QED
    BY <1>1, Invariance, PTL

=============================================================================
